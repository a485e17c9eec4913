-------------------------- MODULE OnecoinConsensus --------------------------
(***************************************************************************)
(* ONECOIN finality: OnecoinConsensusRuntime on every node                 *)
(* (core/src/onecoin_consensus_runtime.rs) over OnecoinFinalizedState      *)
(* (onecoin_consensus.rs) and its file, PersistentOnecoinState             *)
(* (onecoin_store.rs).  All nodes run the code as written; there is no     *)
(* faulty validator.                                                       *)
(*                                                                         *)
(* Messages are never taken out of net: a message may be handled late,     *)
(* twice or never.  Nothing in the repository calls OnecoinBlock::new      *)
(* outside tests, so Propose is the caller the runtime is written for: a   *)
(* validator that builds a block on its own finalized tip and sends it to  *)
(* everybody.                                                              *)
(*                                                                         *)
(* A block stands for its hash.  Votes carry approve = true: the runtime   *)
(* creates no other.  Sizes are left out: MAX_BLOCK_TRANSACTIONS and       *)
(* MAX_VOTES_PER_BLOCK are 4096, and a block gets one vote per validator.  *)
(***************************************************************************)
EXTENDS LedgerOps, Sequences, Functions

CONSTANTS
  Validators,     \* AWE_ONECOIN_VALIDATORS, a set of identities
  Payloads,       \* transaction lists proposers may put into a block
  MaxHeight,      \* bound: finalized blocks per node
  MaxProposals,   \* bound: blocks ever proposed
  MaxPending,     \* MAX_PENDING_BLOCKS
  MaxCrashes,     \* bound: crashes of the whole network
  MaxSaveErrors   \* bound: failed writes of the state file

Transfers == [sender : Ids, recipient : Ids, amount : Atoms, nonce : Nat, valid : BOOLEAN]

\* The genesis allocation is 10^19 atoms: u128 holds more of them than there can
\* be validators.
ASSUME ConsensusInputs ==
  /\ Validators \subseteq Ids /\ Validators # {}
  /\ GenesisAllocation * Cardinality(Validators) <= MaxAtoms
  /\ Payloads \subseteq Seq(Transfers)
  /\ MaxHeight \in Nat /\ MaxProposals \in Nat /\ MaxPending \in Nat
  /\ MaxCrashes \in Nat /\ MaxSaveErrors \in Nat

Nodes == Ids
QUORUM_BPS == 6666

GenesisTip == [height |-> 0]

VARIABLES
  state,        \* state[n]: finalized state in memory
  disk,         \* disk[n]: finalized state on disk
  pending,      \* pending[n]: proposals that extended the finalized tip
  votes,        \* votes[n]: pairs <<block, voter>> counted so far
  net,          \* every message sent
  crashes, saveErrors

vars == <<state, disk, pending, votes, net, crashes, saveErrors>>

(***************************************************************************)
(* Blocks and certificates.                                                *)
(***************************************************************************)
\* (sender, nonce, id); the fields after the nonce stand for the hash.
CanonicalBefore(a, b) ==
  \/ a.sender < b.sender
  \/ a.sender = b.sender /\ a.nonce < b.nonce
  \/ a.sender = b.sender /\ a.nonce = b.nonce /\ a.recipient < b.recipient
  \/ /\ a.sender = b.sender /\ a.nonce = b.nonce
     /\ a.recipient = b.recipient /\ a.amount < b.amount

\* What the sort makes of a list; to swap equal transactions changes nothing.
Canonical(payload) ==
  {[i \in DOMAIN payload |-> payload[p[i]]] :
     p \in {q \in Bijection(DOMAIN payload, DOMAIN payload) :
             \A i, j \in DOMAIN payload :
               i < j => ~CanonicalBefore(payload[q[j]], payload[q[i]])}}

NewBlock(proposer, st, txs) ==
  [height |-> st.height + 1, prev |-> st.tip, proposer |-> proposer, txs |-> txs]

ValidateShape(b) ==
  \A i \in 1..(Len(b.txs) - 1) : ~CanonicalBefore(b.txs[i + 1], b.txs[i])

\* Fault: the quorum is rounded down.
RequiredVotesFloor == (Cardinality(Validators) * QUORUM_BPS) \div 10000

RequiredVotes == (Cardinality(Validators) * QUORUM_BPS + 9999) \div 10000
CertificateOk(voters) == Cardinality(voters \cap Validators) >= RequiredVotes

\* The transactions of a block, executed one by one on a clone.
ExecuteOne(acc, tx) ==
  IF acc.ok /\ ApplyTransferOk(acc.ledger, tx, tx.sender)
  THEN [ok |-> TRUE, ledger |-> ApplyTransfer(acc.ledger, tx, tx.sender)]
  ELSE [ok |-> FALSE, ledger |-> acc.ledger]

Execution(l, txs) ==
  LET run[i \in 0..Len(txs)] ==
        IF i = 0 THEN [ok |-> TRUE, ledger |-> l] ELSE ExecuteOne(run[i - 1], txs[i])
  IN  run

ExecuteBlock(l, txs) == Execution(l, txs)[Len(txs)]

DuplicateFree(txs) == \A i, j \in DOMAIN txs : i # j => txs[i] # txs[j]

ExtendsTip(st, b) == b.height = st.height + 1 /\ b.prev = st.tip

\* Fault: the block is not executed before it is taken over.
FinalizeOkUnexecuted(st, b, voters) ==
  /\ ValidateShape(b)
  /\ b.proposer \in Validators
  /\ ExtendsTip(st, b)
  /\ CertificateOk(voters)

\* Fault: neither height nor previous hash is compared.
FinalizeOkAnywhere(st, b, voters) ==
  /\ ValidateShape(b)
  /\ b.proposer \in Validators
  /\ CertificateOk(voters)
  /\ DuplicateFree(b.txs)
  /\ ExecuteBlock(st.ledger, b.txs).ok

FinalizeOk(st, b, voters) ==
  /\ ValidateShape(b)
  /\ b.proposer \in Validators
  /\ ExtendsTip(st, b)
  /\ CertificateOk(voters)
  /\ DuplicateFree(b.txs)
  /\ ExecuteBlock(st.ledger, b.txs).ok

Finalized(st, b) ==
  [height |-> b.height, tip |-> b, ledger |-> ExecuteBlock(st.ledger, b.txs).ledger]

(***************************************************************************)
(* Start.  Every node opened an empty state, ran genesis with the          *)
(* validators as members and saved it (run_product).                       *)
(***************************************************************************)
GenesisState ==
  [height |-> 0, tip |-> GenesisTip,
   ledger |-> InitializeGenesis(DefaultLedger, Validators)]

Init ==
  /\ state = [n \in Nodes |-> GenesisState]
  /\ disk = [n \in Nodes |-> GenesisState]
  /\ pending = [n \in Nodes |-> {}]
  /\ votes = [n \in Nodes |-> {}]
  /\ net = {}
  /\ crashes = 0
  /\ saveErrors = 0

Proposal(to, b) == [kind |-> "proposal", from |-> b.proposer, to |-> to, block |-> b]
Vote(from, b) == [kind |-> "vote", from |-> from, to |-> b.proposer, block |-> b]
Certificate(from, to, b, voters) ==
  [kind |-> "certificate", from |-> from, to |-> to, block |-> b, voters |-> voters]

Proposed == {m.block : m \in net}

Propose(n, payload) ==
  /\ n \in Validators
  /\ state[n].height < MaxHeight
  /\ Cardinality(Proposed) < MaxProposals
  /\ \E txs \in Canonical(payload) :
       net' = net \cup {Proposal(to, NewBlock(n, state[n], txs)) : to \in Nodes}
  /\ UNCHANGED <<state, disk, pending, votes, crashes, saveErrors>>

\* Every proposal that extends the tip gets a vote, and only its proposer is
\* told.  The transactions are not executed before the vote.
HandleProposal(n, m) ==
  /\ m.kind = "proposal" /\ m.to = n
  /\ m.from \in Validators /\ m.from = m.block.proposer
  /\ ValidateShape(m.block)
  /\ ExtendsTip(state[n], m.block)
  /\ Cardinality(pending[n]) < MaxPending \/ m.block \in pending[n]
  /\ pending' = [pending EXCEPT ![n] = @ \cup {m.block}]
  /\ net' = IF n \in Validators THEN net \cup {Vote(n, m.block)} ELSE net
  /\ UNCHANGED <<state, disk, votes, crashes, saveErrors>>

Counted(n, b) == {v \in Validators : <<b, v>> \in votes[n]}

VoteAccepted(n, m) ==
  /\ m.kind = "vote" /\ m.to = n
  /\ m.from \in Validators
  /\ m.block \in pending[n]

\* The vote is stored; it does not complete a quorum, or it completes one for
\* a block that finalize refuses.
CountVote(n, m) ==
  /\ VoteAccepted(n, m)
  /\ ~FinalizeOk(state[n], m.block, Counted(n, m.block) \cup {m.from})
  /\ votes' = [votes EXCEPT ![n] = @ \cup {<<m.block, m.from>>}]
  /\ UNCHANGED <<state, disk, pending, net, crashes, saveErrors>>

\* remove() of the finalized block from pending and votes; the proposals it
\* beat stay.
Settle(n, b) ==
  /\ pending' = [pending EXCEPT ![n] = @ \ {b}]
  /\ votes' = [votes EXCEPT ![n] = {v \in @ : v[1] # b}]

\* save() and open() check the ledger alike.  StateLoads says that the check
\* never fails, so the step in which save() refuses its own state is not an
\* action.
ValidateState(l) ==
  /\ Cardinality(l.members) = Cardinality(DOMAIN l.balances)
  /\ Cardinality(l.members) = Cardinality(DOMAIN l.nonces)
  /\ SaturatedTotal(l.balances) <= l.issued

\* Fault: the state is not saved.
CommitStateUnsaved(n, b) ==
  /\ state' = [state EXCEPT ![n] = Finalized(@, b)]
  /\ disk' = disk

CommitState(n, b) ==
  /\ state' = [state EXCEPT ![n] = Finalized(@, b)]
  /\ disk' = [disk EXCEPT ![n] = Finalized(state[n], b)]

FinalizeOnVote(n, m) ==
  LET voters == Counted(n, m.block) \cup {m.from}
  IN  /\ VoteAccepted(n, m)
      /\ FinalizeOk(state[n], m.block, voters)
      /\ CommitState(n, m.block)
      /\ Settle(n, m.block)
      /\ net' = net \cup {Certificate(n, to, m.block, voters) : to \in Validators}
      /\ UNCHANGED <<crashes, saveErrors>>

FinalizeOnCertificate(n, m) ==
  /\ m.kind = "certificate" /\ m.to = n
  /\ m.from \in Validators
  /\ m.block \in pending[n]
  /\ FinalizeOk(state[n], m.block, m.voters)
  /\ CommitState(n, m.block)
  /\ Settle(n, m.block)
  /\ UNCHANGED <<net, crashes, saveErrors>>

\* finalize() has moved the state in memory when save() fails: the handler
\* returns with the block still pending and no certificate sent.
SaveFails(n, m) ==
  /\ saveErrors < MaxSaveErrors
  /\ saveErrors' = saveErrors + 1
  /\ \/ /\ VoteAccepted(n, m)
        /\ FinalizeOk(state[n], m.block, Counted(n, m.block) \cup {m.from})
        /\ votes' = [votes EXCEPT ![n] = @ \cup {<<m.block, m.from>>}]
     \/ /\ m.kind = "certificate" /\ m.to = n /\ m.from \in Validators
        /\ m.block \in pending[n]
        /\ FinalizeOk(state[n], m.block, m.voters)
        /\ votes' = votes
  /\ state' = [state EXCEPT ![n] = Finalized(@, m.block)]
  /\ UNCHANGED <<disk, pending, net, crashes>>

\* The process dies and is started again from its file; pending and votes
\* are lost.
CrashRestart(n) ==
  /\ crashes < MaxCrashes
  /\ ValidateState(disk[n].ledger)
  /\ crashes' = crashes + 1
  /\ state' = [state EXCEPT ![n] = disk[n]]
  /\ pending' = [pending EXCEPT ![n] = {}]
  /\ votes' = [votes EXCEPT ![n] = {}]
  /\ UNCHANGED <<disk, net, saveErrors>>

Handle(n, m) ==
  \/ HandleProposal(n, m)
  \/ CountVote(n, m)
  \/ FinalizeOnVote(n, m)
  \/ FinalizeOnCertificate(n, m)
  \/ SaveFails(n, m)

Next ==
  \/ \E n \in Validators, p \in Payloads : Propose(n, p)
  \/ \E m \in net : Handle(m.to, m)
  \/ \E n \in Nodes : CrashRestart(n)

Spec == Init /\ [][Next]_vars

-----------------------------------------------------------------------------
\* The blocks below a tip: down from it, and up to it.
Down(tip) ==
  LET down[k \in 0..tip.height] == IF k = 0 THEN tip ELSE down[k - 1].prev
  IN  down

Chain(tip) == [i \in 1..tip.height |-> Down(tip)[tip.height - i]]

BlocksIn(st) == {Chain(st.tip)[i] : i \in 1..st.height}

ReplayOne(acc, b) ==
  [ok |-> acc.ok /\ ExecuteBlock(acc.ledger, b.txs).ok,
   ledger |-> ExecuteBlock(acc.ledger, b.txs).ledger]

Replays(tip) ==
  LET run[i \in 0..tip.height] ==
        IF i = 0 THEN [ok |-> TRUE, ledger |-> GenesisState.ledger]
        ELSE ReplayOne(run[i - 1], Chain(tip)[i])
  IN  run

Replay(st) == Replays(st.tip)[st.height]

\* The finalized ledger is exactly what executing the chain from genesis
\* gives, in memory and on disk: "a failed transaction cannot partially mutate
\* finalized state" (docs/AWENET-ARCHITECTURE.md), also when blocks with bad
\* transactions gather a quorum, and after restarts.
LedgerIsReplay ==
  \A n \in Nodes : \A st \in {state[n], disk[n]} :
    Replay(st) = [ok |-> TRUE, ledger |-> st.ledger]

\* Every block a node has finalized was approved by a quorum of validators,
\* each of which saw the proposal when it extended its own tip.  The quorum is
\* that of the code, 6666 basis points, which 2 of 3 validators are; the
\* architecture document says "at least 66.67%", which they are not.
Approvers(b) == {v \in Validators : Vote(v, b) \in net}

FinalizedByQuorum ==
  \A n \in Nodes : \A b \in BlocksIn(state[n]) :
    Cardinality(Approvers(b)) * 10000 >= Cardinality(Validators) * QUORUM_BPS

\* A node announces a certificate only for a block its file already holds: a
\* crash right after the announcement cannot take the block back.
AnnouncedIsDurable ==
  \A m \in net : m.kind = "certificate" => m.block \in BlocksIn(disk[m.from])

\* "a restart does not silently reset the consensus height or tip"
\* (docs/AWENET-ARCHITECTURE.md): the file only ever moves to a child of what
\* it holds, and memory is never behind the file.
FileOnlyGrows ==
  [][\A n \in Nodes :
       /\ disk'[n] = disk[n] \/ disk'[n].tip.prev = disk[n].tip
          \/ (disk'[n].height > disk[n].height /\ disk[n].tip
                \in BlocksIn(disk'[n]) \cup {GenesisTip})
       /\ disk'[n].height <= state'[n].height]_vars

\* A finalized state always passes the check that save() and open() make: no
\* block, however it mixes good, failing and self-directed transfers, leaves a
\* node with a state it cannot store or cannot start from.
StateLoads == \A n \in Nodes : ValidateState(state[n].ledger)

\* Two nodes can finalize different blocks at one height only if some
\* validator approved both: quorums overlap for every validator set.
ForkNeedsDoubleVote ==
  \A n, k \in Nodes : \A b \in BlocksIn(state[n]), c \in BlocksIn(state[k]) :
    (b # c /\ b.height = c.height) => Approvers(b) \cap Approvers(c) # {}

\* "A local ledger is not sufficient for a distributed currency: two nodes can
\* otherwise accept conflicting spends" (onecoin_consensus.rs, module comment):
\* finality is there so that two nodes never finalize different transactions
\* of one sender under one nonce.
Spends(st) == UNION {Range(b.txs) : b \in BlocksIn(st)}

NoConflictingSpends ==
  \A n, k \in Nodes : \A s \in Spends(state[n]), t \in Spends(state[k]) :
    (s.sender = t.sender /\ s.nonce = t.nonce) => s = t
=============================================================================
