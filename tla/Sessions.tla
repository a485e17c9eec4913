------------------------------ MODULE Sessions ------------------------------
(***************************************************************************)
(* One direction of an end-to-end Session (core/src/messenger.rs) and the  *)
(* OfflineQueue that keeps ciphertexts for a peer that is away.  The       *)
(* session numbers what it encrypts; the receiver refuses every number     *)
(* below the one it waits for, so that a message that was overtaken is     *)
(* lost.  The queue hands out messages by their id, in any order.          *)
(*                                                                         *)
(* The number is authenticated, and has to equal the one the caller wrote  *)
(* into the envelope before it called encrypt.                             *)
(***************************************************************************)
EXTENDS Integers, Sequences

CONSTANTS
  MaxNumber,     \* u64::MAX
  MaxOffers      \* bound: messages offered to the receiver

ASSUME SessionAssumption == MaxNumber \in Nat /\ MaxOffers \in Nat

VARIABLES
  sendSequence, receiveSequence,   \* the two counters
  underway,      \* ciphertexts sent: they may come late, twice or never
  offline,       \* the offline queue
  offered,       \* history: what the receiver was offered, in order
  shown          \* history: what it accepted, in order

sessionVars == <<sendSequence, receiveSequence, underway, offline, offered, shown>>

SessionInit ==
  /\ sendSequence = 0 /\ receiveSequence = 0
  /\ underway = {} /\ offline = {}
  /\ offered = <<>> /\ shown = <<>>

\* encrypt uses the counter unless its successor does not exist.
Encrypt(claimed) ==
  /\ sendSequence < MaxNumber
  /\ sendSequence' = sendSequence + 1
  /\ LET m == [seq |-> sendSequence, claimed |-> claimed]
     IN  \/ underway' = underway \union {m} /\ UNCHANGED offline
         \/ offline' = offline \union {m} /\ UNCHANGED underway
  /\ UNCHANGED <<receiveSequence, offered, shown>>

TakeOffline(m) ==
  /\ m \in offline
  /\ offline' = offline \ {m}
  /\ underway' = underway \union {m}
  /\ UNCHANGED <<sendSequence, receiveSequence, offered, shown>>

\* Fault: the number the receiver waits for is taken for one it has seen.
IsReplayStrict(seq) == seq <= receiveSequence

IsReplay(seq) == seq < receiveSequence

Decrypt(m) ==
  /\ Len(offered) < MaxOffers
  /\ offered' = Append(offered, m)
  /\ IF IsReplay(m.seq) \/ m.claimed # m.seq
     THEN UNCHANGED <<receiveSequence, shown>>
     ELSE receiveSequence' = m.seq + 1 /\ shown' = Append(shown, m.seq)
  /\ UNCHANGED <<sendSequence, underway, offline>>

SessionNext ==
  \/ \E claimed \in 0..MaxNumber : Encrypt(claimed)
  \/ \E m \in offline : TakeOffline(m)
  \/ \E m \in underway : Decrypt(m)

-----------------------------------------------------------------------------
Honest(i) == offered[i].claimed = offered[i].seq

\* Exactly the messages that no accepted one overtook are shown: each once, in
\* the order they were sent, and a message whose envelope is right is refused
\* only if it or a later one was accepted before it.
ShownExactly ==
  /\ \A i, j \in 1..Len(shown) : i < j => shown[i] < shown[j]
  /\ \A i \in 1..Len(offered) :
       Honest(i) => \E k \in 1..Len(shown) :
                      /\ shown[k] >= offered[i].seq
                      /\ \E j \in 1..i : Honest(j) /\ offered[j].seq = shown[k]
=============================================================================
