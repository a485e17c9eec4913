---------------------------- MODULE ReplayGuard ----------------------------
(***************************************************************************)
(* ReplayGuard (core/src/replay.rs): the sliding window that decides, per  *)
(* peer, which frame sequence numbers are new.  SecureConnection::recv     *)
(* asks it before it decrypts a frame.  The table is bounded: a new peer   *)
(* evicts the entry with the lowest generation.                            *)
(*                                                                         *)
(* A bitmap is the set of its bit positions: bit d stands for the sequence *)
(* number highest - d.  The generation is a u64 that wraps after 2^64      *)
(* calls; MaxGeneration keeps the model below that.                        *)
(*                                                                         *)
(* accepted is history: the numbers accepted since the peer's entry was    *)
(* created.  An eviction forgets the peer, so it forgets its history too.  *)
(***************************************************************************)
EXTENDS Integers, FiniteSets

CONSTANTS
  Peers,          \* authenticated peer identifiers
  MaxPeers,       \* MAX_PEERS
  Window,         \* REPLAY_WINDOW
  MaxSequence,    \* bound: sequence numbers are 0..MaxSequence
  MaxGeneration   \* bound: calls that advance the generation

ASSUME ReplayAssumption ==
  /\ MaxPeers \in Nat \ {0}
  /\ Window \in Nat \ {0}
  /\ MaxSequence \in Nat
  /\ MaxGeneration \in Nat

Sequences64 == 0..MaxSequence

VARIABLES states, generation, accepted

vars == <<states, generation, accepted>>

Entry(highest, bitmap, gen) ==
  [highest |-> highest, bitmap |-> bitmap, generation |-> gen]

Init ==
  /\ states = [p \in {} |-> Entry(0, {}, 0)]
  /\ generation = 0
  /\ accepted = [p \in Peers |-> {}]

\* bitmap << shift, in a word of Window bits.
ShiftLeft(bitmap, shift) == {d \in 0..(Window - 1) : d - shift \in bitmap}

Advance(e, seq) == ShiftLeft(e.bitmap, seq - e.highest) \cup {0}

\* A number above the window's end: the window slides.
AcceptNewer(p, seq) ==
  /\ p \in DOMAIN states
  /\ seq > states[p].highest
  /\ generation < MaxGeneration
  /\ generation' = generation + 1
  /\ states' = [states EXCEPT ![p] = Entry(seq, Advance(@, seq), generation')]
  /\ accepted' = [accepted EXCEPT ![p] = @ \cup {seq}]

Inside(e, seq) == seq <= e.highest /\ e.highest - seq < Window

\* Fault: the bit is not set.
MarkNothing(e, seq, gen) == [e EXCEPT !.generation = gen]

Mark(e, seq, gen) ==
  [e EXCEPT !.bitmap = @ \cup {e.highest - seq}, !.generation = gen]

\* A late number inside the window that was not seen yet.
AcceptLate(p, seq) ==
  /\ p \in DOMAIN states
  /\ Inside(states[p], seq)
  /\ states[p].highest - seq \notin states[p].bitmap
  /\ generation < MaxGeneration
  /\ generation' = generation + 1
  /\ states' = [states EXCEPT ![p] = Mark(states[p], seq, generation')]
  /\ accepted' = [accepted EXCEPT ![p] = @ \cup {seq}]

\* A duplicate inside the window: the generation has already been advanced.
RejectDuplicate(p, seq) ==
  /\ p \in DOMAIN states
  /\ Inside(states[p], seq)
  /\ states[p].highest - seq \in states[p].bitmap
  /\ generation < MaxGeneration
  /\ generation' = generation + 1
  /\ UNCHANGED <<states, accepted>>

Oldest(S) == {q \in S : \A r \in S : states[q].generation <= states[r].generation}

\* The first frame of a peer that is not in the table; when the table is full
\* the entry with the lowest generation goes first.
AcceptFirst(p, seq) ==
  /\ p \notin DOMAIN states
  /\ generation < MaxGeneration
  /\ generation' = generation + 1
  /\ \E evicted \in SUBSET DOMAIN states :
       /\ IF Cardinality(DOMAIN states) >= MaxPeers
          THEN \E q \in Oldest(DOMAIN states) : evicted = {q}
          ELSE evicted = {}
       /\ states' = [q \in (DOMAIN states \ evicted) \cup {p} |->
                       IF q = p THEN Entry(seq, {0}, generation') ELSE states[q]]
       /\ accepted' = [q \in Peers |-> IF q \in evicted THEN {}
                                       ELSE IF q = p THEN {seq} ELSE accepted[q]]

\* A number behind the window is refused without any effect.
Next ==
  \E p \in Peers, seq \in Sequences64 :
    \/ AcceptNewer(p, seq)
    \/ AcceptLate(p, seq)
    \/ RejectDuplicate(p, seq)
    \/ AcceptFirst(p, seq)

Spec == Init /\ [][Next]_vars

-----------------------------------------------------------------------------
\* Type invariant.
TypeOK ==
  /\ DOMAIN states \subseteq Peers
  /\ states \in [DOMAIN states ->
                   [highest : Sequences64, bitmap : SUBSET (0..(Window - 1)), generation : Nat]]
  /\ generation \in Nat
  /\ accepted \in [Peers -> SUBSET Sequences64]

\* The bitmap remembers exactly the accepted numbers that are still inside the
\* window, over every order of arrival and every distance of a jump: inside
\* the window no duplicate is accepted and no fresh frame is refused.
WindowIsExact ==
  \A p \in DOMAIN states :
    \A seq \in Sequences64 :
      Inside(states[p], seq) =>
        (states[p].highest - seq \in states[p].bitmap <=> seq \in accepted[p])

\* Nothing above the window's end was ever accepted: what AcceptNewer takes
\* without looking at the bitmap is new.
HighestIsHighest ==
  \A p \in DOMAIN states :
    states[p].highest \in accepted[p] /\ \A seq \in accepted[p] : seq <= states[p].highest
=============================================================================
