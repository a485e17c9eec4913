--------------------------- MODULE OnecoinLedger ---------------------------
(***************************************************************************)
(* One OnecoinLedger value (core/src/onecoin.rs) and the sequence of calls *)
(* its owner may make on it: genesis, joins, rewards, local transfers with *)
(* and without the ONEBANK fee, transfers replicated from another wallet,  *)
(* price observations.  A call that returns Err without writing is a       *)
(* stuttering step.  OnecoinPaymentRequest::settle is such a call always:  *)
(* it takes the seller's AWE-ID from the members for a public key.         *)
(*                                                                         *)
(* incoming, incomingAtoms and applied are history: the distinct           *)
(* replicated transfers this ledger was ever handed and their sum, which   *)
(* the ledger does not count in total_issued_atoms, and the transfers that *)
(* one of the two transfer calls accepted.                                 *)
(***************************************************************************)
EXTENDS LedgerOps, Sequences

CONSTANTS
  Amounts,        \* amount_atoms values that transactions carry
  FeeRates,       \* fee_bps values callers ask for
  Receipts,       \* signed contribution receipts in circulation
  Prices,         \* reference prices observed, in cents
  MaxTransfers,   \* bound: transfers that are accepted
  MaxVerifierList,\* bound: length of the verifier list given to genesis
  MaxIncoming     \* bound: distinct replicated transfers handed to the ledger

ASSUME LedgerInputs ==
  /\ Amounts \subseteq Atoms
  /\ FeeRates \subseteq Nat
  /\ Prices \subseteq Nat
  /\ MaxTransfers \in Nat
  /\ MaxVerifierList \in Nat
  /\ MaxIncoming \in Nat
  /\ \A r \in Receipts : r.node \in Ids /\ r.score \in Nat /\ r.verifier \in Ids

Transactions ==
  [sender : Ids, recipient : Ids, amount : Atoms, nonce : Nat, valid : BOOLEAN]

VARIABLES ledger, incoming, incomingAtoms, applied

vars == <<ledger, incoming, incomingAtoms, applied>>
history == <<incoming, incomingAtoms, applied>>

Tx(s, r, a, n, v) ==
  [sender |-> s, recipient |-> r, amount |-> a, nonce |-> n, valid |-> v]

VerifierLists == UNION {[1..n -> Ids] : n \in 0..MaxVerifierList}

Init ==
  /\ ledger = DefaultLedger
  /\ incoming = {}
  /\ incomingAtoms = 0
  /\ applied = {}

Genesis(ms) ==
  /\ InitializeGenesisOk(ledger, ms)
  /\ ledger' = InitializeGenesis(ledger, ms)
  /\ UNCHANGED history

GenesisWithVerifiers(ms, vs) ==
  /\ InitializeGenesisOk(ledger, ms)
  /\ ledger' = InitializeGenesisWithVerifiers(ledger, ms, vs)
  /\ UNCHANGED history

Authorize(authorizer, id) ==
  /\ AuthorizeRewardVerifierOk(ledger, authorizer, id)
  /\ ledger' = AuthorizeRewardVerifier(ledger, id)
  /\ UNCHANGED history

Ensure(id) ==
  /\ ledger' = EnsureMember(ledger, id)
  /\ UNCHANGED history

Join(id) ==
  /\ RegisterMemberOk(ledger, id)
  /\ ledger' = RegisterMember(ledger, id)
  /\ UNCHANGED history

Reward(r) ==
  /\ MintRewardOk(ledger, r)
  /\ ledger' = MintReward(ledger, r)
  /\ UNCHANGED history

Accepted(tx) ==
  /\ Cardinality(applied) < MaxTransfers
  /\ applied' = applied \cup {tx}
  /\ UNCHANGED <<incoming, incomingAtoms>>

Transfer(tx, key) ==
  /\ ApplyTransferOk(ledger, tx, key)
  /\ ledger' = ApplyTransfer(ledger, tx, key)
  /\ Accepted(tx)

TransferWithFee(tx, key, feeBps) ==
  /\ ApplyTransferWithFeeOk(ledger, tx, key, feeBps)
  /\ ledger' = ApplyTransferWithFee(ledger, tx, key, feeBps)
  /\ Accepted(tx)

Receive(tx, key, me) ==
  /\ tx \in incoming \/ Cardinality(incoming) < MaxIncoming
  /\ ReceiveTransferOk(ledger, tx, key, me)
  /\ ledger' = ReceiveTransfer(ledger, tx, key, me)
  /\ incoming' = incoming \cup {tx}
  /\ incomingAtoms' = incomingAtoms + (IF tx \in incoming THEN 0 ELSE tx.amount)
  /\ UNCHANGED applied

Observe(price) ==
  /\ ledger' = ObservePrice(ledger, price)
  /\ UNCHANGED history

Next ==
  \/ \E ms \in SUBSET Ids :
       Genesis(ms) \/ \E vs \in VerifierLists : GenesisWithVerifiers(ms, vs)
  \/ \E a, id \in Ids : Authorize(a, id)
  \/ \E id \in Ids : Ensure(id) \/ Join(id)
  \/ \E r \in Receipts : Reward(r)
  \/ \E s, r, key \in Ids, a \in Amounts, n \in 0..(MaxTransfers - 1), v \in BOOLEAN :
       LET tx == Tx(s, r, a, n, v)
       IN  \/ Transfer(tx, key)
           \/ \E bps \in FeeRates : TransferWithFee(tx, key, bps)
           \/ \E me \in Ids : Receive(tx, key, me)
  \/ \E p \in Prices : Observe(p)

Spec == Init /\ [][Next]_vars

-----------------------------------------------------------------------------
IsMap(f, R) == DOMAIN f \subseteq Ids /\ f \in [DOMAIN f -> R]

LedgerTypeOK(l) ==
  /\ l \in [ members : SUBSET Ids, balances : {l.balances}, nonces : {l.nonces},
             issued : Atoms, fees : Atoms, received : SUBSET Transactions,
             remainder : Atoms, joinActive : BOOLEAN, floor : Nat, band : Nat,
             verifiers : SUBSET Ids, rewarded : SUBSET Receipts ]
  /\ IsMap(l.balances, Atoms)
  /\ IsMap(l.nonces, Nat)

\* Type invariant of the ledger value and of the history.
TypeOK ==
  /\ LedgerTypeOK(ledger)
  /\ incoming \in SUBSET Transactions
  /\ incomingAtoms \in Nat
  /\ applied \in SUBSET Transactions

\* Every member, and nobody else, has a balance and a nonce.  This is the
\* first check a saved ledger has to pass when it is opened again
\* (onecoin_store.rs: "ledger member state is inconsistent").
MemberStateConsistent ==
  /\ DOMAIN ledger.balances = ledger.members
  /\ DOMAIN ledger.nonces = ledger.members

\* Conservation: as long as what was issued here plus what other wallets sent
\* here stays below u128::MAX, every atom of it is in exactly one balance or in
\* the fee account, and none is anywhere twice, however calls are ordered,
\* self-transfers, repeated deliveries and half failed genesis included.
SupplyConserved ==
  ledger.issued + incomingAtoms < MaxAtoms
    => Total(ledger.balances) + ledger.fees = ledger.issued + incomingAtoms

\* Only members may hold reward authority, whatever mixture of genesis lists
\* (also one that fails half way) and delegations produced it.
VerifiersAreMembers == ledger.verifiers \subseteq ledger.members

\* The price floor is a function of the highest band reached.
FloorTracksBand ==
  ledger.floor = INITIAL_PRICE_USD_CENTS
                 + ledger.band * PRICE_FLOOR_STEP_USD_CENTS

\* A balance falls only in a step that accepts one valid transfer signed by its
\* holder, which no call accepted before, and whose nonce is above that of each
\* transfer of this sender that was accepted: however often and through whichever
\* of the two calls transfers are presented again, one is debited once, and of
\* two that were signed with one nonce only one.  Nobody else's balance falls.
TransferDebitsOnce ==
  [][\A i \in Ids :
       Get(ledger'.balances, i) < Get(ledger.balances, i)
         => \E tx \in applied' \ applied :
              /\ tx.sender = i /\ tx.valid /\ applied' = applied \cup {tx}
              /\ \A old \in applied : old.sender = i => old.nonce < tx.nonce
              /\ \A j \in Ids \ {i} : Get(ledger'.balances, j) >= Get(ledger.balances, j)]_vars
=============================================================================
