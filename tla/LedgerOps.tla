----------------------------- MODULE LedgerOps -----------------------------
(***************************************************************************)
(* The ONECOIN ledger of core/src/onecoin.rs as pure operators on ledger   *)
(* values.  Every method of OnecoinLedger that returns a Result is a pair: *)
(* the guard under which it returns Ok (XxxOk) and the ledger it leaves    *)
(* behind.  A method that fails before it writes has no effect and needs   *)
(* no third operator.                                                      *)
(*                                                                         *)
(* Abstractions.  An AweId is the hash of a public key and a transaction   *)
(* or receipt is identified by the hash of its bytes: hashes are taken to  *)
(* be injective, so an identity stands for its key and a record for its    *)
(* own hash.  A signature is a Boolean of the record.  BTreeMap keys are   *)
(* numbered in key order, which is the order the code folds them in.       *)
(* Amounts are u128 in the code; MaxAtoms is the largest of them.          *)
(***************************************************************************)
EXTENDS Integers, FiniteSets

CONSTANTS
  MaxIds,              \* identities are 1..MaxIds
  MaxAtoms,            \* u128::MAX
  GenesisAllocation,   \* INITIAL_GENESIS_ALLOCATION
  JoinDistribution,    \* JOIN_DISTRIBUTION
  AtomsPerScore,       \* ContributionRewardPolicy.atoms_per_score
  MaxRewardAtoms       \* ContributionRewardPolicy.max_reward_atoms

ASSUME LedgerAssumption ==
  /\ MaxIds \in Nat \ {0}
  /\ MaxAtoms \in Nat
  /\ GenesisAllocation \in 0..MaxAtoms
  /\ JoinDistribution \in 0..MaxAtoms
  /\ AtomsPerScore \in 0..MaxAtoms
  /\ MaxRewardAtoms \in 0..MaxAtoms

Ids == 1..MaxIds
Atoms == 0..MaxAtoms

MIN_JOIN_SHARE == 1
MAX_FEE_BPS == 500
INITIAL_PRICE_USD_CENTS == 100
PRICE_BAND_USD_CENTS == 10000
PRICE_FLOOR_STEP_USD_CENTS == 2000

(***************************************************************************)
(* Saturating u128 arithmetic and BTreeMap access.                         *)
(***************************************************************************)
SatAdd(a, b) == IF a + b > MaxAtoms THEN MaxAtoms ELSE a + b
SatMul(a, b) == IF a * b > MaxAtoms THEN MaxAtoms ELSE a * b

EmptyMap == [x \in {} |-> 0]
Get(f, k) == IF k \in DOMAIN f THEN f[k] ELSE 0
Put(f, k, v) == [x \in DOMAIN f \cup {k} |-> IF x = k THEN v ELSE f[x]]
OrInsert(f, k, v) == IF k \in DOMAIN f THEN f ELSE Put(f, k, v)

\* The sum of balances.values(): the running total after the first i keys.
RunningTotal(f) ==
  LET run[i \in 0..MaxIds] == IF i = 0 THEN 0 ELSE run[i - 1] + Get(f, i)
  IN  run
Total(f) == RunningTotal(f)[MaxIds]

\* The same fold with saturating_add: the sum, or u128::MAX.
SaturatedTotal(f) == IF Total(f) > MaxAtoms THEN MaxAtoms ELSE Total(f)

(***************************************************************************)
(* Default ledger and genesis.                                             *)
(***************************************************************************)
DefaultLedger ==
  [ members |-> {}, balances |-> EmptyMap, nonces |-> EmptyMap,
    issued |-> 0, fees |-> 0, received |-> {}, remainder |-> 0,
    joinActive |-> TRUE, floor |-> INITIAL_PRICE_USD_CENTS, band |-> 0,
    verifiers |-> {}, rewarded |-> {} ]

InitializeGenesisOk(l, ms) == ms # {} /\ l.members = {}

InitializeGenesis(l, ms) ==
  [l EXCEPT
    !.members = @ \cup ms,
    !.balances = [x \in DOMAIN @ \cup ms |->
                    IF x \in ms THEN GenesisAllocation ELSE @[x]],
    !.nonces = [x \in DOMAIN @ \cup ms |-> IF x \in ms THEN 0 ELSE @[x]],
    !.issued = SatMul(GenesisAllocation, Cardinality(l.members \cup ms))]

\* The verifiers named before the first one that is not a member are kept:
\* the loop returns from the middle and nothing is rolled back.
AcceptedVerifiers(ms, vs) ==
  {vs[i] : i \in {j \in DOMAIN vs : \A k \in 1..j : vs[k] \in ms}}

InitializeGenesisWithVerifiers(l, ms, vs) ==
  LET g == InitializeGenesis(l, ms)
  IN  [g EXCEPT !.verifiers = @ \cup AcceptedVerifiers(g.members, vs)]

AuthorizeRewardVerifierOk(l, authorizer, id) ==
  authorizer \in l.verifiers /\ id \in l.members

AuthorizeRewardVerifier(l, id) == [l EXCEPT !.verifiers = @ \cup {id}]

(***************************************************************************)
(* Membership.                                                             *)
(***************************************************************************)
\* Fault: the new member gets no nonce.
EnsureMemberNoNonce(l, id) ==
  [l EXCEPT !.members = @ \cup {id}, !.balances = OrInsert(@, id, 0)]

EnsureMember(l, id) ==
  [l EXCEPT !.members = @ \cup {id},
            !.balances = OrInsert(@, id, 0),
            !.nonces = OrInsert(@, id, 0)]

\* JoinDistribution::calculate
JoinShare(n) == JoinDistribution \div n
JoinDistributed(n) == JoinShare(n) * n
JoinRemainder(n) == JoinDistribution - JoinDistributed(n)

RegisterMemberOk(l, id) == id \notin l.members

RegisterMember(l, id) ==
  LET joined == EnsureMember(l, id)
      n == Cardinality(joined.members)
      pays == l.joinActive /\ JoinShare(n) >= MIN_JOIN_SHARE
  IN  IF pays
      THEN [joined EXCEPT
             !.balances = [x \in DOMAIN @ \cup joined.members |->
                             IF x \in joined.members
                             THEN SatAdd(Get(@, x), JoinShare(n)) ELSE @[x]],
             !.issued = SatAdd(@, JoinDistributed(n)),
             !.remainder = SatAdd(@, JoinRemainder(n))]
      ELSE [joined EXCEPT !.joinActive = FALSE]

(***************************************************************************)
(* Contribution rewards.  A signed receipt is a record with the node it    *)
(* measured, its score, its accounting period, whether that period is not  *)
(* empty (periodOk), its verifier and whether the signature verifies.      *)
(***************************************************************************)
RewardFor(r) ==
  LET earned == SatMul(r.score, AtomsPerScore)
  IN  IF earned > MaxRewardAtoms THEN MaxRewardAtoms ELSE earned

MintRewardOk(l, r) ==
  /\ r.valid
  /\ r.verifier \in l.verifiers
  /\ r \notin l.rewarded
  /\ r.node \in l.members
  /\ r.periodOk
  /\ r.score # 0

MintReward(l, r) ==
  [l EXCEPT !.balances = Put(@, r.node, SatAdd(Get(@, r.node), RewardFor(r))),
            !.issued = SatAdd(@, RewardFor(r)),
            !.rewarded = @ \cup {r}]

(***************************************************************************)
(* Transfers.  key is the public key the caller presents.                  *)
(***************************************************************************)
\* OnecoinTransaction::verify; valid covers version, memo and signature.
Verify(tx, key) == tx.amount # 0 /\ tx.valid /\ tx.sender = key

Fee(tx, feeBps) == SatMul(tx.amount, feeBps) \div 10000

\* Fault: the nonce is not compared.
TransferOkAnyNonce(l, tx, key, fee) ==
  /\ key \in l.members
  /\ tx.recipient \in l.members
  /\ Verify(tx, key)
  /\ Get(l.balances, key) >= SatAdd(tx.amount, fee)

TransferOk(l, tx, key, fee) ==
  /\ key \in l.members
  /\ tx.recipient \in l.members
  /\ tx.nonce = Get(l.nonces, key)
  /\ Verify(tx, key)
  /\ Get(l.balances, key) >= SatAdd(tx.amount, fee)

\* Fault: the recipient's balance is read before the debit.
MoveFundsStale(balances, tx, key, fee) ==
  Put(Put(balances, key, Get(balances, key) - SatAdd(tx.amount, fee)),
      tx.recipient, SatAdd(Get(balances, tx.recipient), tx.amount))

\* The recipient's balance is read after the debit is stored: sender and
\* recipient may be the same identity.
MoveFunds(balances, tx, key, fee) ==
  LET debited == Put(balances, key,
                     Get(balances, key) - SatAdd(tx.amount, fee))
  IN  Put(debited, tx.recipient, SatAdd(Get(debited, tx.recipient), tx.amount))

ApplyTransferWithFeeOk(l, tx, key, feeBps) ==
  feeBps <= MAX_FEE_BPS /\ TransferOk(l, tx, key, Fee(tx, feeBps))

ApplyTransferWithFee(l, tx, key, feeBps) ==
  [l EXCEPT !.balances = MoveFunds(@, tx, key, Fee(tx, feeBps)),
            !.fees = SatAdd(@, Fee(tx, feeBps)),
            !.nonces = Put(@, key, Get(@, key) + 1)]

ApplyTransferOk(l, tx, key) == TransferOk(l, tx, key, 0)

ApplyTransfer(l, tx, key) ==
  [l EXCEPT !.balances = MoveFunds(@, tx, key, 0),
            !.nonces = Put(@, key, Get(@, key) + 1)]

ReceiveTransferOk(l, tx, key, me) == tx.recipient = me /\ Verify(tx, key)

\* Fault: a transfer that was received before is credited again.
ReceiveTransferAgain(l, tx, key, me) ==
  LET known == EnsureMember(EnsureMember(l, key), me)
  IN  [known EXCEPT !.balances = Put(@, me, SatAdd(Get(@, me), tx.amount)),
                    !.received = @ \cup {tx}]

ReceiveTransfer(l, tx, key, me) ==
  LET known == EnsureMember(EnsureMember(l, key), me)
  IN  IF tx \in known.received
      THEN known
      ELSE [known EXCEPT !.balances = Put(@, me, SatAdd(Get(@, me), tx.amount)),
                         !.received = @ \cup {tx}]

(***************************************************************************)
(* OnecoinPricePolicy::observe_reference_price_usd_cents.  The saturating  *)
(* u64 operations cannot saturate: a u64 price has at most 2^64 / 10000    *)
(* bands of 2000 cents.                                                    *)
(***************************************************************************)
ObservePrice(l, price) ==
  LET b == price \div PRICE_BAND_USD_CENTS
  IN  IF price < INITIAL_PRICE_USD_CENTS \/ b <= l.band
      THEN l
      ELSE [l EXCEPT !.band = b,
                     !.floor = @ + (b - l.band) * PRICE_FLOOR_STEP_USD_CENTS]
=============================================================================
