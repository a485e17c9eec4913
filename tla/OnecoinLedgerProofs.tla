------------------------ MODULE OnecoinLedgerProofs ------------------------
(***************************************************************************)
(* Theorems about the ledger, for every value of the constants.  Each      *)
(* operation of LedgerOps gets a lemma on ledger values; the theorems      *)
(* combine them, one step per action.                                      *)
(***************************************************************************)
EXTENDS OnecoinLedger, WalletNetwork, LedgerOpsProofs

\* A typed map of amounts is a map the lemmas on sums apply to.
LEMMA MapsAreBalances ==
  ASSUME NEW f, IsMap(f, Atoms)
  PROVE  Balances(f)
BY LedgerAssumption DEF IsMap, Balances, Atoms

\* insert() keeps a map typed.
LEMMA PutIsMap ==
  ASSUME NEW R, NEW f, IsMap(f, R), NEW k \in Ids, NEW v \in R
  PROVE  IsMap(Put(f, k, v), R) /\ IsMap(OrInsert(f, k, v), R)
BY DEF IsMap, Put, OrInsert

\* unwrap_or(0) on a typed map.
LEMMA GetOfMap ==
  ASSUME NEW R, NEW f, IsMap(f, R), 0 \in R, NEW k
  PROVE  Get(f, k) \in R
BY DEF IsMap, Get

\* ensure_member keeps the ledger typed.
LEMMA EnsureMemberType ==
  ASSUME NEW l, LedgerTypeOK(l), NEW id \in Ids
  PROVE  LedgerTypeOK(EnsureMember(l, id))
<1>1. IsMap(OrInsert(l.balances, id, 0), Atoms) /\ IsMap(OrInsert(l.nonces, id, 0), Nat)
  <2>1. 0 \in Atoms /\ 0 \in Nat
    BY LedgerAssumption DEF Atoms
  <2> QED
    BY <2>1, PutIsMap DEF LedgerTypeOK
<1> QED
  BY <1>1 DEF LedgerTypeOK, EnsureMember

\* The amounts a new account can start with.
LEMMA ZeroFacts == 0 \in Atoms /\ 0 \in Nat /\ GenesisAllocation \in Atoms
BY LedgerAssumption DEF Atoms

\* Sets of identities are finite and have a size.
LEMMA IdSetsAreFinite ==
  ASSUME NEW ms \in SUBSET Ids
  PROVE  IsFiniteSet(ms) /\ Cardinality(ms) \in Nat
<1>1. IsFiniteSet(Ids)
  BY FS_Interval, LedgerAssumption DEF Ids
<1>2. IsFiniteSet(ms)
  BY <1>1, FS_Subset
<1> QED
  BY <1>2, FS_CardinalityType

\* initialize_genesis keeps the ledger typed.
LEMMA GenesisType ==
  ASSUME NEW l, LedgerTypeOK(l), NEW ms \in SUBSET Ids
  PROVE  LedgerTypeOK(InitializeGenesis(l, ms))
<1> DEFINE b == [x \in DOMAIN l.balances \cup ms |->
                   IF x \in ms THEN GenesisAllocation ELSE l.balances[x]]
           n == [x \in DOMAIN l.nonces \cup ms |-> IF x \in ms THEN 0 ELSE l.nonces[x]]
<1>1. IsMap(b, Atoms) /\ IsMap(n, Nat)
  BY ZeroFacts DEF LedgerTypeOK, IsMap
<1>2. l.members \cup ms \in SUBSET Ids
  BY DEF LedgerTypeOK
<1>3. SatMul(GenesisAllocation, Cardinality(l.members \cup ms)) \in Atoms
  BY <1>2, IdSetsAreFinite, SatMulFacts, LedgerAssumption
<1> QED
  BY <1>1, <1>2, <1>3 DEF LedgerTypeOK, InitializeGenesis

\* The verifier loop of genesis keeps only members.
LEMMA AcceptedAreMembers ==
  ASSUME NEW vs \in VerifierLists, NEW ms
  PROVE  AcceptedVerifiers(ms, vs) \subseteq ms
<1>1. PICK n \in 0..MaxVerifierList : vs \in [1..n -> Ids]
  BY DEF VerifierLists
<1>2. \A j \in DOMAIN vs : j \in 1..j
  BY <1>1, LedgerInputs
<1> QED
  BY <1>2 DEF AcceptedVerifiers

\* initialize_genesis_with_verifiers keeps the ledger typed, also when its
\* verifier list fails half way.
LEMMA GenesisWithVerifiersType ==
  ASSUME NEW l, LedgerTypeOK(l), NEW ms \in SUBSET Ids, NEW vs \in VerifierLists
  PROVE  LedgerTypeOK(InitializeGenesisWithVerifiers(l, ms, vs))
<1> DEFINE g == InitializeGenesis(l, ms)
<1>1. LedgerTypeOK(g)
  BY GenesisType
<1>2. AcceptedVerifiers(g.members, vs) \subseteq g.members
  BY AcceptedAreMembers
<1> HIDE DEF g
<1>3. LedgerTypeOK([g EXCEPT !.verifiers = @ \cup AcceptedVerifiers(g.members, vs)])
  BY <1>1, <1>2 DEF LedgerTypeOK
<1> QED
  BY <1>3 DEF g, InitializeGenesisWithVerifiers

\* authorize_reward_verifier keeps the ledger typed.
LEMMA AuthorizeType ==
  ASSUME NEW l, LedgerTypeOK(l), NEW id \in Ids
  PROVE  LedgerTypeOK(AuthorizeRewardVerifier(l, id))
BY DEF LedgerTypeOK, AuthorizeRewardVerifier

\* Integer division by a positive divisor.
LEMMA DivFacts ==
  ASSUME NEW a \in Nat, NEW n \in Nat \ {0}
  PROVE  a \div n \in Nat /\ (a \div n) * n <= a
<1>1. a \div n \in Nat
  OBVIOUS
<1>2. (a \div n) * n <= a
  OBVIOUS
<1> QED
  BY <1>1, <1>2

\* JoinDistribution::calculate: shares and remainder add up to the dividend.
LEMMA JoinArithmetic ==
  ASSUME NEW n \in Nat \ {0}
  PROVE  JoinShare(n) \in Nat /\ JoinDistributed(n) \in Nat /\ JoinRemainder(n) \in Nat
<1>1. JoinDistribution \in Nat
  BY LedgerAssumption
<1>2. JoinShare(n) \in Nat /\ JoinShare(n) * n <= JoinDistribution
  BY <1>1, DivFacts DEF JoinShare
<1>3. JoinShare(n) * n \in Nat
  BY <1>2, ProductIsNat
<1> QED
  BY <1>1, <1>2, <1>3 DEF JoinDistributed, JoinRemainder

\* register_member keeps the ledger typed, with and without a dividend.
LEMMA JoinType ==
  ASSUME NEW l, LedgerTypeOK(l), NEW id \in Ids
  PROVE  LedgerTypeOK(RegisterMember(l, id))
<1> DEFINE j == EnsureMember(l, id)
           n == Cardinality(j.members)
           b == [x \in DOMAIN j.balances \cup j.members |->
                   IF x \in j.members THEN SatAdd(Get(j.balances, x), JoinShare(n))
                   ELSE j.balances[x]]
<1>1. LedgerTypeOK(j)
  BY EnsureMemberType
<1>2. j.members \in SUBSET Ids /\ id \in j.members
  BY <1>1 DEF LedgerTypeOK, EnsureMember
<1>3. n \in Nat \ {0}
  <2>1. IsFiniteSet(j.members) /\ n \in Nat
    BY <1>2, IdSetsAreFinite
  <2>2. n # 0
    BY <1>2, <2>1, FS_EmptySet
  <2> QED
    BY <2>1, <2>2
<1> HIDE DEF n, j
<1>4. JoinShare(n) \in Nat /\ JoinDistributed(n) \in Nat /\ JoinRemainder(n) \in Nat
  BY <1>3, JoinArithmetic
<1>5. \A x : Get(j.balances, x) \in Nat
  BY <1>1, MapsAreBalances, GetIsNat DEF LedgerTypeOK
<1>6. \A x : SatAdd(Get(j.balances, x), JoinShare(n)) \in Atoms
  BY <1>4, <1>5, SatAddFacts
<1>7. IsMap(b, Atoms)
  BY <1>1, <1>2, <1>6 DEF LedgerTypeOK, IsMap
<1>8. /\ SatAdd(j.issued, JoinDistributed(n)) \in Atoms
      /\ SatAdd(j.remainder, JoinRemainder(n)) \in Atoms
  <2>1. j.issued \in Nat /\ j.remainder \in Nat
    BY <1>1, LedgerAssumption DEF LedgerTypeOK, Atoms
  <2> QED
    BY <1>4, <2>1, SatAddFacts
<1>9. /\ LedgerTypeOK([j EXCEPT !.balances = b, !.issued = SatAdd(@, JoinDistributed(n)),
                                !.remainder = SatAdd(@, JoinRemainder(n))])
      /\ LedgerTypeOK([j EXCEPT !.joinActive = FALSE])
  BY <1>1, <1>7, <1>8 DEF LedgerTypeOK
<1> QED
  BY <1>9 DEF RegisterMember, n, j

\* The fields of a transaction have their types.
LEMMA TransactionFields ==
  ASSUME NEW tx \in Transactions
  PROVE  /\ tx.sender \in Ids /\ tx.recipient \in Ids
         /\ tx.amount \in Atoms /\ tx.amount \in Nat
<1>1. tx.sender \in Ids /\ tx.recipient \in Ids /\ tx.amount \in Atoms
  BY DEF Transactions
<1> QED
  BY <1>1, LedgerAssumption DEF Atoms

\* reward_for is an amount, and a receipt names an identity.
LEMMA RewardForType ==
  ASSUME NEW r \in Receipts
  PROVE  RewardFor(r) \in Atoms /\ r.node \in Ids
<1>1. r.score \in Nat /\ AtomsPerScore \in Nat /\ r.node \in Ids
  BY LedgerInputs, LedgerAssumption
<1>2. SatMul(r.score, AtomsPerScore) \in Atoms
  BY <1>1, SatMulFacts
<1> QED
  BY <1>1, <1>2, LedgerAssumption DEF RewardFor, Atoms

\* mint_verified_contribution_reward keeps the ledger typed.
LEMMA RewardType ==
  ASSUME NEW l, LedgerTypeOK(l), NEW r \in Receipts
  PROVE  LedgerTypeOK(MintReward(l, r))
<1>1. RewardFor(r) \in Nat /\ r.node \in Ids
  BY RewardForType, LedgerAssumption DEF Atoms
<1>2. Get(l.balances, r.node) \in Nat /\ l.issued \in Nat
  BY MapsAreBalances, GetIsNat, LedgerAssumption DEF LedgerTypeOK, Atoms
<1>3. /\ SatAdd(Get(l.balances, r.node), RewardFor(r)) \in Atoms
      /\ SatAdd(l.issued, RewardFor(r)) \in Atoms
  BY <1>1, <1>2, SatAddFacts
<1>4. IsMap(Put(l.balances, r.node, SatAdd(Get(l.balances, r.node), RewardFor(r))), Atoms)
  BY <1>1, <1>3, PutIsMap DEF LedgerTypeOK
<1> QED
  BY <1>3, <1>4 DEF LedgerTypeOK, MintReward

\* What both transfer calls rest on: a checked debit never goes below zero.
LEMMA MoveFundsType ==
  ASSUME NEW l, LedgerTypeOK(l), NEW tx \in Transactions, NEW key \in Ids,
         NEW fee \in Atoms, TransferOk(l, tx, key, fee)
  PROVE  IsMap(MoveFunds(l.balances, tx, key, fee), Atoms)
<1> DEFINE d == Put(l.balances, key, Get(l.balances, key) - SatAdd(tx.amount, fee))
<1>1. tx.amount \in Nat /\ fee \in Nat /\ tx.recipient \in Ids
  BY TransactionFields, LedgerAssumption DEF Atoms
<1>2. Get(l.balances, key) \in Atoms /\ IsMap(l.balances, Atoms)
  BY GetOfMap, ZeroFacts DEF LedgerTypeOK
<1>3. SatAdd(tx.amount, fee) \in Atoms
  BY <1>1, SatAddFacts
<1>4. Get(l.balances, key) - SatAdd(tx.amount, fee) \in Atoms
  BY <1>2, <1>3, LedgerAssumption DEF TransferOk, Atoms
<1>5. IsMap(d, Atoms)
  BY <1>2, <1>4, PutIsMap
<1> HIDE DEF d
<1>6. Get(d, tx.recipient) \in Nat
  BY <1>5, MapsAreBalances, GetIsNat
<1>7. SatAdd(Get(d, tx.recipient), tx.amount) \in Atoms
  BY <1>1, <1>6, SatAddFacts
<1>8. IsMap(Put(d, tx.recipient, SatAdd(Get(d, tx.recipient), tx.amount)), Atoms)
  BY <1>1, <1>5, <1>7, PutIsMap
<1> QED
  BY <1>8 DEF MoveFunds, d

\* Using up a nonce keeps the nonces typed.
LEMMA UsedNonceType ==
  ASSUME NEW l, LedgerTypeOK(l), NEW key \in Ids
  PROVE  IsMap(Put(l.nonces, key, Get(l.nonces, key) + 1), Nat)
<1>1. IsMap(l.nonces, Nat)
  BY DEF LedgerTypeOK
<1>2. Get(l.nonces, key) \in Nat
  BY <1>1, GetOfMap
<1>3. Get(l.nonces, key) + 1 \in Nat
  BY <1>2
<1> QED
  BY <1>1, <1>3, PutIsMap

\* apply_transfer keeps the ledger typed: the debit does not underflow.
LEMMA TransferType ==
  ASSUME NEW l, LedgerTypeOK(l), NEW tx \in Transactions, NEW key \in Ids,
         ApplyTransferOk(l, tx, key)
  PROVE  LedgerTypeOK(ApplyTransfer(l, tx, key))
<1>1. IsMap(MoveFunds(l.balances, tx, key, 0), Atoms)
  BY MoveFundsType, ZeroFacts DEF ApplyTransferOk
<1>2. IsMap(Put(l.nonces, key, Get(l.nonces, key) + 1), Nat)
  BY UsedNonceType
<1> QED
  BY <1>1, <1>2 DEF LedgerTypeOK, ApplyTransfer

\* The fee is an amount.
LEMMA FeeType ==
  ASSUME NEW tx \in Transactions, NEW bps \in Nat
  PROVE  Fee(tx, bps) \in Atoms
<1>1. SatMul(tx.amount, bps) \in Atoms
  BY SatMulFacts, TransactionFields
<1>2. SatMul(tx.amount, bps) \div 10000 \in Nat
      /\ SatMul(tx.amount, bps) \div 10000 <= SatMul(tx.amount, bps)
  BY <1>1, LedgerAssumption DEF Atoms
<1> QED
  BY <1>1, <1>2, LedgerAssumption DEF Fee, Atoms

\* apply_transfer_with_fee keeps the ledger typed.
LEMMA TransferWithFeeType ==
  ASSUME NEW l, LedgerTypeOK(l), NEW tx \in Transactions, NEW key \in Ids,
         NEW bps \in Nat, ApplyTransferWithFeeOk(l, tx, key, bps)
  PROVE  LedgerTypeOK(ApplyTransferWithFee(l, tx, key, bps))
<1>1. Fee(tx, bps) \in Atoms
  BY FeeType
<1>2. IsMap(MoveFunds(l.balances, tx, key, Fee(tx, bps)), Atoms)
  BY <1>1, MoveFundsType DEF ApplyTransferWithFeeOk
<1>3. IsMap(Put(l.nonces, key, Get(l.nonces, key) + 1), Nat)
  BY UsedNonceType
<1>4. SatAdd(l.fees, Fee(tx, bps)) \in Atoms
  BY <1>1, SatAddFacts, LedgerAssumption DEF LedgerTypeOK, Atoms
<1> QED
  BY <1>2, <1>3, <1>4 DEF LedgerTypeOK, ApplyTransferWithFee

\* receive_transfer keeps the ledger typed.
LEMMA ReceiveType ==
  ASSUME NEW l, LedgerTypeOK(l), NEW tx \in Transactions, NEW key \in Ids, NEW me \in Ids
  PROVE  LedgerTypeOK(ReceiveTransfer(l, tx, key, me))
<1> DEFINE k == EnsureMember(EnsureMember(l, key), me)
           b == Put(k.balances, me, SatAdd(Get(k.balances, me), tx.amount))
<1>1. LedgerTypeOK(k)
  <2>1. LedgerTypeOK(EnsureMember(l, key))
    BY EnsureMemberType
  <2> QED
    BY <2>1, EnsureMemberType
<1> HIDE DEF k
<1>2. Get(k.balances, me) \in Nat /\ tx.amount \in Nat /\ IsMap(k.balances, Atoms)
  BY <1>1, MapsAreBalances, GetIsNat, TransactionFields DEF LedgerTypeOK
<1>3. SatAdd(Get(k.balances, me), tx.amount) \in Atoms
  BY <1>2, SatAddFacts
<1>4. IsMap(b, Atoms)
  BY <1>2, <1>3, PutIsMap
<1>5. LedgerTypeOK([k EXCEPT !.balances = b, !.received = @ \cup {tx}])
  <2> HIDE DEF b
  <2> QED BY <1>1, <1>4 DEF LedgerTypeOK
<1> QED
  BY <1>1, <1>5 DEF ReceiveTransfer, k

\* A price observation keeps the ledger typed.
LEMMA ObserveType ==
  ASSUME NEW l, LedgerTypeOK(l), NEW price \in Nat
  PROVE  LedgerTypeOK(ObservePrice(l, price))
<1> DEFINE b == price \div PRICE_BAND_USD_CENTS
           f == l.floor + (b - l.band) * PRICE_FLOOR_STEP_USD_CENTS
<1>1. b \in Nat
  BY DEF PRICE_BAND_USD_CENTS
<1>2. l.band \in Nat /\ l.floor \in Nat
  BY DEF LedgerTypeOK
<1> HIDE DEF b
<1>3. b > l.band => f \in Nat
  BY <1>1, <1>2 DEF PRICE_FLOOR_STEP_USD_CENTS
<1>4. ObservePrice(l, price) = l \/ (b > l.band /\ ObservePrice(l, price) = [l EXCEPT !.band = b, !.floor = f])
  BY <1>1, <1>2 DEF ObservePrice, b
<1> HIDE DEF f
<1>5. b > l.band => LedgerTypeOK([l EXCEPT !.band = b, !.floor = f])
  BY <1>1, <1>3 DEF LedgerTypeOK
<1> QED
  BY <1>4, <1>5

-----------------------------------------------------------------------------
\* The transactions the actions build are typed.
LEMMA TxIsTransaction ==
  ASSUME NEW s \in Ids, NEW r \in Ids, NEW a \in Amounts,
         NEW n \in 0..(MaxTransfers - 1), NEW v \in BOOLEAN
  PROVE  Tx(s, r, a, n, v) \in Transactions
<1>1. n \in Nat /\ a \in Atoms
  BY LedgerInputs
<1> QED
  BY <1>1 DEF Tx, Transactions

\* Next as a list of actions whose parameters have their types.
LEMMA NextCases ==
  ASSUME Next
  PROVE  \/ \E ms \in SUBSET Ids : Genesis(ms)
         \/ \E ms \in SUBSET Ids, vs \in VerifierLists : GenesisWithVerifiers(ms, vs)
         \/ \E a, id \in Ids : Authorize(a, id)
         \/ \E id \in Ids : Ensure(id)
         \/ \E id \in Ids : Join(id)
         \/ \E r \in Receipts : Reward(r)
         \/ \E tx \in Transactions, key \in Ids : Transfer(tx, key)
         \/ \E tx \in Transactions, key \in Ids, bps \in FeeRates : TransferWithFee(tx, key, bps)
         \/ \E tx \in Transactions, key, me \in Ids : Receive(tx, key, me)
         \/ \E p \in Prices : Observe(p)
<1> DEFINE Moves(tx, key) ==
             \/ Transfer(tx, key)
             \/ \E bps \in FeeRates : TransferWithFee(tx, key, bps)
             \/ \E me \in Ids : Receive(tx, key, me)
<1> HIDE DEF Moves
<1>1. CASE \E s, r, key \in Ids, a \in Amounts, n \in 0..(MaxTransfers - 1), v \in BOOLEAN :
             Moves(Tx(s, r, a, n, v), key)
  <2>1. PICK s \in Ids, r \in Ids, key \in Ids, a \in Amounts,
             n \in 0..(MaxTransfers - 1), v \in BOOLEAN : Moves(Tx(s, r, a, n, v), key)
    BY <1>1
  <2>2. \E tx \in Transactions : Moves(tx, key)
    BY <2>1, TxIsTransaction
  <2> QED
    BY <2>2 DEF Moves
<1>2. CASE \E ms \in SUBSET Ids :
             Genesis(ms) \/ \E vs \in VerifierLists : GenesisWithVerifiers(ms, vs)
  BY <1>2
<1>3. CASE \E id \in Ids : Ensure(id) \/ Join(id)
  BY <1>3
<1> QED
  BY <1>1, <1>2, <1>3, Zenon DEF Next, Moves

\* Every ledger the calls can produce has the types of its fields: balances,
\* fees and totals stay within u128 although debits are unchecked
\* subtractions, and no map gets a key that is not an identity.
THEOREM TypeCorrect == Spec => []TypeOK
<1>1. Init => TypeOK
  BY LedgerAssumption DEF Init, TypeOK, LedgerTypeOK, DefaultLedger, EmptyMap, IsMap, Atoms,
     INITIAL_PRICE_USD_CENTS
<1>2. ASSUME TypeOK, [Next]_vars PROVE TypeOK'
  <2> USE DEF history
  <2> SUFFICES ASSUME Next PROVE TypeOK'
    BY <1>2 DEF vars, TypeOK
  <2>1. /\ LedgerTypeOK(ledger) /\ incoming \in SUBSET Transactions /\ incomingAtoms \in Nat
        /\ applied \in SUBSET Transactions
    BY <1>2 DEF TypeOK
  <2>2. ASSUME NEW ms \in SUBSET Ids, Genesis(ms) PROVE TypeOK'
    BY <2>1, <2>2, GenesisType DEF Genesis, TypeOK
  <2>3. ASSUME NEW ms \in SUBSET Ids, NEW vs \in VerifierLists, GenesisWithVerifiers(ms, vs)
        PROVE  TypeOK'
    BY <2>1, <2>3, GenesisWithVerifiersType DEF GenesisWithVerifiers, TypeOK
  <2>4. ASSUME NEW a \in Ids, NEW id \in Ids, Authorize(a, id) PROVE TypeOK'
    BY <2>1, <2>4, AuthorizeType DEF Authorize, TypeOK
  <2>5. ASSUME NEW id \in Ids, Ensure(id) PROVE TypeOK'
    BY <2>1, <2>5, EnsureMemberType DEF Ensure, TypeOK
  <2>6. ASSUME NEW id \in Ids, Join(id) PROVE TypeOK'
    BY <2>1, <2>6, JoinType DEF Join, TypeOK
  <2>7. ASSUME NEW r \in Receipts, Reward(r) PROVE TypeOK'
    BY <2>1, <2>7, RewardType DEF Reward, TypeOK
  <2>8. ASSUME NEW tx \in Transactions, NEW key \in Ids, Transfer(tx, key) PROVE TypeOK'
    BY <2>1, <2>8, TransferType DEF Transfer, Accepted, TypeOK
  <2>9. ASSUME NEW tx \in Transactions, NEW key \in Ids, NEW bps \in FeeRates,
               TransferWithFee(tx, key, bps)
        PROVE  TypeOK'
    <3>1. bps \in Nat
      BY LedgerInputs
    <3> QED
      BY <2>1, <2>9, <3>1, TransferWithFeeType DEF TransferWithFee, Accepted, TypeOK
  <2>10. ASSUME NEW tx \in Transactions, NEW key \in Ids, NEW me \in Ids, Receive(tx, key, me)
         PROVE  TypeOK'
    <3>1. LedgerTypeOK(ledger')
      BY <2>1, <2>10, ReceiveType DEF Receive
    <3>2. incoming' \in SUBSET Transactions /\ incomingAtoms' \in Nat /\ applied' \in SUBSET Transactions
      BY <2>1, <2>10, TransactionFields DEF Receive
    <3> QED
      BY <3>1, <3>2 DEF TypeOK
  <2>11. ASSUME NEW p \in Prices, Observe(p) PROVE TypeOK'
    <3>1. p \in Nat
      BY LedgerInputs
    <3> QED
      BY <2>1, <2>11, <3>1, ObserveType DEF Observe, TypeOK
  <2> QED
    BY NextCases, <2>2, <2>3, <2>4, <2>5, <2>6, <2>7, <2>8, <2>9, <2>10, <2>11
<1> QED
  BY <1>1, <1>2, PTL DEF Spec

-----------------------------------------------------------------------------
(* Membership.  MembersOK is MemberStateConsistent and VerifiersAreMembers *)
(* of a ledger value.                                                      *)

MembersOK(l) ==
  /\ DOMAIN l.balances = l.members
  /\ DOMAIN l.nonces = l.members
  /\ l.verifiers \subseteq l.members

\* ensure_member gives a new member its balance and its nonce.
LEMMA EnsureMemberMembers ==
  ASSUME NEW l, LedgerTypeOK(l), MembersOK(l), NEW id \in Ids
  PROVE  /\ MembersOK(EnsureMember(l, id))
         /\ EnsureMember(l, id).members = l.members \cup {id}
BY DEF LedgerTypeOK, MembersOK, EnsureMember, OrInsert, Put

\* Genesis gives every first member a balance and a nonce.
LEMMA GenesisMembers ==
  ASSUME NEW l, LedgerTypeOK(l), MembersOK(l), NEW ms \in SUBSET Ids
  PROVE  MembersOK(InitializeGenesis(l, ms))
BY DEF LedgerTypeOK, MembersOK, InitializeGenesis

\* Genesis with verifiers, complete or cut short, gives authority to members only.
LEMMA GenesisWithVerifiersMembers ==
  ASSUME NEW l, LedgerTypeOK(l), MembersOK(l), NEW ms \in SUBSET Ids, NEW vs \in VerifierLists
  PROVE  MembersOK(InitializeGenesisWithVerifiers(l, ms, vs))
<1> DEFINE g == InitializeGenesis(l, ms)
<1>1. LedgerTypeOK(g) /\ MembersOK(g)
  BY GenesisType, GenesisMembers
<1>2. AcceptedVerifiers(g.members, vs) \subseteq g.members
  BY AcceptedAreMembers
<1> HIDE DEF g
<1>3. MembersOK([g EXCEPT !.verifiers = @ \cup AcceptedVerifiers(g.members, vs)])
  BY <1>1, <1>2 DEF LedgerTypeOK, MembersOK
<1> QED
  BY <1>3 DEF g, InitializeGenesisWithVerifiers

\* Delegated authority goes to a member.
LEMMA AuthorizeMembers ==
  ASSUME NEW l, LedgerTypeOK(l), MembersOK(l), NEW a, NEW id,
         AuthorizeRewardVerifierOk(l, a, id)
  PROVE  MembersOK(AuthorizeRewardVerifier(l, id))
BY DEF LedgerTypeOK, MembersOK, AuthorizeRewardVerifier, AuthorizeRewardVerifierOk

\* A join adds one member with its balance and nonce; the dividend adds none.
LEMMA JoinMembers ==
  ASSUME NEW l, LedgerTypeOK(l), MembersOK(l), NEW id \in Ids
  PROVE  MembersOK(RegisterMember(l, id))
<1> DEFINE j == EnsureMember(l, id)
<1>1. LedgerTypeOK(j) /\ MembersOK(j)
  BY EnsureMemberType, EnsureMemberMembers
<1> HIDE DEF j
<1>2. ASSUME NEW b, DOMAIN b = DOMAIN j.balances \cup j.members, NEW i, NEW r
      PROVE  MembersOK([j EXCEPT !.balances = b, !.issued = i, !.remainder = r])
  BY <1>1, <1>2 DEF LedgerTypeOK, MembersOK
<1>3. MembersOK([j EXCEPT !.joinActive = FALSE])
  BY <1>1 DEF LedgerTypeOK, MembersOK
<1> QED
  BY <1>2, <1>3 DEF RegisterMember, j

\* A reward is paid to a member, so no balance appears.
LEMMA RewardMembers ==
  ASSUME NEW l, LedgerTypeOK(l), MembersOK(l), NEW r, MintRewardOk(l, r)
  PROVE  MembersOK(MintReward(l, r))
BY DEF LedgerTypeOK, MembersOK, MintReward, MintRewardOk, Put

\* A transfer moves amounts between members.
LEMMA TransferMembers ==
  ASSUME NEW l, LedgerTypeOK(l), MembersOK(l), NEW tx, NEW key, NEW fee, TransferOk(l, tx, key, fee)
  PROVE  /\ DOMAIN MoveFunds(l.balances, tx, key, fee) = l.members
         /\ DOMAIN Put(l.nonces, key, Get(l.nonces, key) + 1) = l.members
BY DEF MembersOK, TransferOk, MoveFunds, Put

\* A replicated transfer makes sender and recipient members first.
LEMMA ReceiveMembers ==
  ASSUME NEW l, LedgerTypeOK(l), MembersOK(l), NEW tx, NEW key \in Ids, NEW me \in Ids
  PROVE  MembersOK(ReceiveTransfer(l, tx, key, me))
<1> DEFINE k == EnsureMember(EnsureMember(l, key), me)
<1>1. LedgerTypeOK(k) /\ MembersOK(k) /\ me \in k.members
  <2>1. LedgerTypeOK(EnsureMember(l, key)) /\ MembersOK(EnsureMember(l, key))
    BY EnsureMemberType, EnsureMemberMembers
  <2> QED
    BY <2>1, EnsureMemberType, EnsureMemberMembers
<1> HIDE DEF k
<1>2. ASSUME NEW v, NEW rs
      PROVE  MembersOK([k EXCEPT !.balances = Put(k.balances, me, v), !.received = rs])
  BY <1>1 DEF LedgerTypeOK, MembersOK, Put
<1> QED
  BY <1>1, <1>2 DEF ReceiveTransfer, k

MembersInv == MembersOK(ledger)

\* Every member, and nobody else, has a balance and a nonce, and only members
\* are reward verifiers: what a saved ledger must satisfy to be opened again.
THEOREM Membership == Spec => [](MemberStateConsistent /\ VerifiersAreMembers)
<1>1. Init => MembersInv
  BY DEF Init, MembersInv, MembersOK, DefaultLedger, EmptyMap
<1>2. ASSUME TypeOK, MembersInv, [Next]_vars PROVE MembersInv'
  <2> SUFFICES ASSUME Next PROVE MembersInv'
    BY <1>2 DEF vars, MembersInv
  <2>1. LedgerTypeOK(ledger) /\ MembersOK(ledger)
    BY <1>2 DEF TypeOK, MembersInv
  <2>2. ASSUME NEW ms \in SUBSET Ids, Genesis(ms) PROVE MembersInv'
    BY <2>1, <2>2, GenesisMembers DEF Genesis, MembersInv
  <2>3. ASSUME NEW ms \in SUBSET Ids, NEW vs \in VerifierLists, GenesisWithVerifiers(ms, vs)
        PROVE  MembersInv'
    BY <2>1, <2>3, GenesisWithVerifiersMembers DEF GenesisWithVerifiers, MembersInv
  <2>4. ASSUME NEW a \in Ids, NEW id \in Ids, Authorize(a, id) PROVE MembersInv'
    BY <2>1, <2>4, AuthorizeMembers DEF Authorize, MembersInv
  <2>5. ASSUME NEW id \in Ids, Ensure(id) PROVE MembersInv'
    BY <2>1, <2>5, EnsureMemberMembers DEF Ensure, MembersInv
  <2>6. ASSUME NEW id \in Ids, Join(id) PROVE MembersInv'
    BY <2>1, <2>6, JoinMembers DEF Join, MembersInv
  <2>7. ASSUME NEW r \in Receipts, Reward(r) PROVE MembersInv'
    BY <2>1, <2>7, RewardMembers DEF Reward, MembersInv
  <2>8. ASSUME NEW tx \in Transactions, NEW key \in Ids, Transfer(tx, key) PROVE MembersInv'
    <3>1. TransferOk(ledger, tx, key, 0) /\ ledger' = ApplyTransfer(ledger, tx, key)
      BY <2>8 DEF Transfer, ApplyTransferOk
    <3> QED
      BY <2>1, <3>1, TransferMembers DEF ApplyTransfer, MembersInv, MembersOK, LedgerTypeOK
  <2>9. ASSUME NEW tx \in Transactions, NEW key \in Ids, NEW bps \in FeeRates,
               TransferWithFee(tx, key, bps)
        PROVE  MembersInv'
    <3>1. /\ TransferOk(ledger, tx, key, Fee(tx, bps))
          /\ ledger' = ApplyTransferWithFee(ledger, tx, key, bps)
      BY <2>9 DEF TransferWithFee, ApplyTransferWithFeeOk
    <3> QED
      BY <2>1, <3>1, TransferMembers DEF ApplyTransferWithFee, MembersInv, MembersOK, LedgerTypeOK
  <2>10. ASSUME NEW tx \in Transactions, NEW key \in Ids, NEW me \in Ids, Receive(tx, key, me)
         PROVE  MembersInv'
    BY <2>1, <2>10, ReceiveMembers DEF Receive, MembersInv
  <2>11. ASSUME NEW p \in Prices, Observe(p) PROVE MembersInv'
    BY <2>1, <2>11 DEF Observe, ObservePrice, MembersInv, MembersOK, LedgerTypeOK
  <2> QED
    BY NextCases, <2>2, <2>3, <2>4, <2>5, <2>6, <2>7, <2>8, <2>9, <2>10, <2>11
<1>3. MembersInv => MemberStateConsistent /\ VerifiersAreMembers
  BY DEF MembersInv, MembersOK, MemberStateConsistent, VerifiersAreMembers
<1> QED
  BY <1>1, <1>2, <1>3, TypeCorrect, PTL DEF Spec

-----------------------------------------------------------------------------
(* The price floor.                                                        *)

\* The floor is the initial price plus one step for each band that was reached,
\* for all prices observed in any order (OnecoinPricePolicy): no call of the
\* ledger but an observation touches either, and one that jumps over several
\* bands moves the floor by all of them.
THEOREM FloorLaw == Spec => []FloorTracksBand
<1>1. Init => FloorTracksBand
  BY DEF Init, FloorTracksBand, DefaultLedger, INITIAL_PRICE_USD_CENTS, PRICE_FLOOR_STEP_USD_CENTS
<1>2. ASSUME TypeOK, FloorTracksBand, [Next]_vars PROVE FloorTracksBand'
  <2> DEFINE Same == ledger'.floor = ledger.floor /\ ledger'.band = ledger.band
  <2> SUFFICES ASSUME Next PROVE FloorTracksBand'
    BY <1>2 DEF vars, FloorTracksBand
  <2>1. LedgerTypeOK(ledger)
    BY <1>2 DEF TypeOK
  <2>2. ASSUME NEW ms \in SUBSET Ids, Genesis(ms) PROVE Same
    BY <2>1, <2>2 DEF Genesis, InitializeGenesis, LedgerTypeOK
  <2>3. ASSUME NEW ms \in SUBSET Ids, NEW vs \in VerifierLists, GenesisWithVerifiers(ms, vs) PROVE Same
    BY <2>1, <2>3 DEF GenesisWithVerifiers, InitializeGenesisWithVerifiers, InitializeGenesis, LedgerTypeOK
  <2>4. ASSUME NEW a \in Ids, NEW id \in Ids, Authorize(a, id) PROVE Same
    BY <2>1, <2>4 DEF Authorize, AuthorizeRewardVerifier, LedgerTypeOK
  <2>5. ASSUME NEW id \in Ids, Ensure(id) PROVE Same
    BY <2>1, <2>5 DEF Ensure, EnsureMember, LedgerTypeOK
  <2>6. ASSUME NEW id \in Ids, Join(id) PROVE Same
    BY <2>1, <2>6 DEF Join, RegisterMember, EnsureMember, LedgerTypeOK
  <2>7. ASSUME NEW r \in Receipts, Reward(r) PROVE Same
    BY <2>1, <2>7 DEF Reward, MintReward, LedgerTypeOK
  <2>8. ASSUME NEW tx \in Transactions, NEW key \in Ids, Transfer(tx, key) PROVE Same
    BY <2>1, <2>8 DEF Transfer, ApplyTransfer, LedgerTypeOK
  <2>9. ASSUME NEW tx \in Transactions, NEW key \in Ids, NEW bps \in FeeRates,
               TransferWithFee(tx, key, bps)
        PROVE  Same
    BY <2>1, <2>9 DEF TransferWithFee, ApplyTransferWithFee, LedgerTypeOK
  <2>10. ASSUME NEW tx \in Transactions, NEW key \in Ids, NEW me \in Ids, Receive(tx, key, me)
         PROVE  Same
    BY <2>1, <2>10 DEF Receive, ReceiveTransfer, EnsureMember, LedgerTypeOK
  <2>11. ASSUME NEW p \in Prices, Observe(p) PROVE FloorTracksBand'
    <3>1. p \in Nat /\ ledger.floor \in Nat /\ ledger.band \in Nat
      BY <2>1, LedgerInputs DEF LedgerTypeOK
    <3>2. CASE ledger' = ledger
      BY <1>2, <3>2 DEF FloorTracksBand
    <3>3. CASE ledger' = [ledger EXCEPT !.band = p \div PRICE_BAND_USD_CENTS,
                                        !.floor = @ + (p \div PRICE_BAND_USD_CENTS - ledger.band)
                                                      * PRICE_FLOOR_STEP_USD_CENTS]
      <4>1. /\ ledger'.band = p \div PRICE_BAND_USD_CENTS
            /\ ledger'.floor = ledger.floor + (p \div PRICE_BAND_USD_CENTS - ledger.band)
                                              * PRICE_FLOOR_STEP_USD_CENTS
        BY <2>1, <3>3 DEF LedgerTypeOK
      <4>2. p \div PRICE_BAND_USD_CENTS \in Int
        BY <3>1 DEF PRICE_BAND_USD_CENTS
      <4> QED
        BY <1>2, <3>1, <4>1, <4>2 DEF FloorTracksBand, INITIAL_PRICE_USD_CENTS, PRICE_FLOOR_STEP_USD_CENTS
    <3> QED
      BY <2>11, <3>2, <3>3 DEF Observe, ObservePrice
  <2> QED
    BY <1>2, NextCases, <2>2, <2>3, <2>4, <2>5, <2>6, <2>7, <2>8, <2>9, <2>10, <2>11 DEF FloorTracksBand
<1> QED
  BY <1>1, <1>2, TypeCorrect, PTL DEF Spec

-----------------------------------------------------------------------------
(* Conservation.  Conserved is SupplyConserved of a ledger value that was  *)
(* sent inc atoms by other wallets.                                        *)

Conserved(l, inc) ==
  l.issued + inc < MaxAtoms => Total(l.balances) + l.fees = l.issued + inc

\* The numbers of a typed ledger.
LEMMA LedgerNumbers ==
  ASSUME NEW l, LedgerTypeOK(l)
  PROVE  /\ l.issued \in Nat /\ l.fees \in Nat /\ l.issued <= MaxAtoms
         /\ Balances(l.balances) /\ Total(l.balances) \in Nat
         /\ \A k : Get(l.balances, k) \in Nat
         /\ \A k \in Ids : Get(l.balances, k) <= Total(l.balances)
<1>1. l.issued \in Nat /\ l.fees \in Nat /\ l.issued <= MaxAtoms
  BY LedgerAssumption DEF LedgerTypeOK, Atoms
<1>2. Balances(l.balances)
  BY MapsAreBalances DEF LedgerTypeOK
<1> QED
  BY <1>1, <1>2, TotalIsNat, GetIsNat, GetLeqTotal

\* A ledger without balances holds nothing.
LEMMA TotalEmpty ==
  ASSUME NEW f, DOMAIN f = {}, Balances(f)
  PROVE  Total(f) = 0
<1> DEFINE s == [i \in 0..MaxIds |-> 0]
<1>1. \A k : Get(f, k) = 0
  BY DEF Get
<1>2. IsRun(f, s)
  BY <1>1, LedgerAssumption DEF IsRun
<1>3. s[MaxIds] = 0
  BY LedgerAssumption
<1> QED
  BY <1>2, <1>3, TotalIsRun

\* A member that is added silently brings no atoms.
LEMMA EnsureMemberConserves ==
  ASSUME NEW l, LedgerTypeOK(l), NEW id \in Ids
  PROVE  /\ Total(EnsureMember(l, id).balances) = Total(l.balances)
         /\ EnsureMember(l, id).issued = l.issued
         /\ EnsureMember(l, id).fees = l.fees
         /\ EnsureMember(l, id).received = l.received
         /\ EnsureMember(l, id).joinActive = l.joinActive
         /\ \A k : Get(EnsureMember(l, id).balances, k) = Get(l.balances, k)
<1> DEFINE e == EnsureMember(l, id)
<1>1. /\ e.balances = OrInsert(l.balances, id, 0) /\ e.issued = l.issued
      /\ e.fees = l.fees /\ e.received = l.received /\ e.joinActive = l.joinActive
  BY DEF EnsureMember, LedgerTypeOK
<1>2. LedgerTypeOK(e)
  BY EnsureMemberType
<1> HIDE DEF e
<1>3. \A k : Get(e.balances, k) = Get(l.balances, k)
  BY <1>1 DEF OrInsert, Put, Get
<1>4. Total(e.balances) = Total(l.balances)
  BY <1>2, <1>3, LedgerNumbers, TotalSameGets
<1> QED
  BY <1>1, <1>3, <1>4 DEF e

\* Genesis issues what it puts into the balances.
LEMMA GenesisConserves ==
  ASSUME NEW l, LedgerTypeOK(l), MembersOK(l), l.members = {}, l.fees = 0,
         NEW ms \in SUBSET Ids
  PROVE  Conserved(InitializeGenesis(l, ms), 0)
<1> DEFINE g == InitializeGenesis(l, ms)
<1>1. /\ g.issued = SatMul(GenesisAllocation, Cardinality(ms)) /\ g.fees = 0
      /\ g.balances = [x \in DOMAIN l.balances \cup ms |->
                          IF x \in ms THEN GenesisAllocation ELSE l.balances[x]]
  <2>1. l.members \cup ms = ms
    OBVIOUS
  <2> QED
    BY <2>1 DEF InitializeGenesis, LedgerTypeOK
<1>2. LedgerTypeOK(g)
  BY GenesisType
<1> HIDE DEF g
<1>3. DOMAIN l.balances = {} /\ Total(l.balances) = 0
  BY LedgerNumbers, TotalEmpty DEF MembersOK
<1>4. \A k \in Ids : Get(g.balances, k) = Get(l.balances, k) + (IF k \in ms THEN GenesisAllocation ELSE 0)
  BY <1>1, <1>3, LedgerAssumption DEF Get
<1>5. GenesisAllocation \in Nat /\ Cardinality(ms) \in Nat
  BY IdSetsAreFinite, LedgerAssumption
<1>6. Total(g.balances) = Total(l.balances) + GenesisAllocation * Cardinality(ms)
  BY <1>2, <1>4, <1>5, LedgerNumbers, TotalAddToAll
<1>7. GenesisAllocation * Cardinality(ms) \in Nat
  BY <1>5, ProductIsNat
<1>8. g.issued < MaxAtoms => g.issued = GenesisAllocation * Cardinality(ms)
  BY <1>1, <1>5, SatMulFacts
<1>9. g.issued \in Nat
  BY <1>2, LedgerNumbers
<1> QED
  BY <1>1, <1>3, <1>6, <1>7, <1>8, <1>9 DEF Conserved, g

\* A join dividend issues share times members, which is what it pays out.
LEMMA JoinConserves ==
  ASSUME NEW l, LedgerTypeOK(l), NEW id \in Ids, NEW inc \in Nat, Conserved(l, inc)
  PROVE  Conserved(RegisterMember(l, id), inc)
<1> DEFINE j == EnsureMember(l, id)
           n == Cardinality(j.members)
           b == [x \in DOMAIN j.balances \cup j.members |->
                   IF x \in j.members THEN SatAdd(Get(j.balances, x), JoinShare(n))
                   ELSE j.balances[x]]
           i == SatAdd(j.issued, JoinDistributed(n))
           g == [j EXCEPT !.balances = b, !.issued = i,
                          !.remainder = SatAdd(@, JoinRemainder(n))]
<1>1. /\ LedgerTypeOK(j) /\ Total(j.balances) = Total(l.balances)
      /\ j.issued = l.issued /\ j.fees = l.fees
  BY EnsureMemberType, EnsureMemberConserves
<1>2. j.members \in SUBSET Ids /\ id \in j.members
  BY <1>1 DEF LedgerTypeOK, EnsureMember
<1>3. n \in Nat \ {0}
  <2>1. IsFiniteSet(j.members) /\ n \in Nat
    BY <1>2, IdSetsAreFinite
  <2>2. n # 0
    BY <1>2, <2>1, FS_EmptySet
  <2> QED
    BY <2>1, <2>2
<1>4. RegisterMember(l, id) \in {g, [j EXCEPT !.joinActive = FALSE]}
  BY DEF RegisterMember
<1>5. Conserved([j EXCEPT !.joinActive = FALSE], inc)
  <2> HIDE DEF j
  <2> QED BY <1>1 DEF Conserved, LedgerTypeOK
<1>6. JoinShare(n) \in Nat /\ JoinDistributed(n) = JoinShare(n) * n /\ JoinDistributed(n) \in Nat
  BY <1>3, JoinArithmetic DEF JoinDistributed
<1>7. JoinShare(n) <= JoinDistributed(n)
  <2> DEFINE c == JoinShare(n)
  <2>1. \A x \in Nat, y \in Nat \ {0} : x <= x * y
    OBVIOUS
  <2> QED
    BY <1>3, <1>6, <2>1
<1>8. n = Cardinality(j.members)
  OBVIOUS
<1> HIDE DEF n, j
<1>9. /\ l.issued \in Nat /\ l.fees \in Nat /\ Total(l.balances) \in Nat /\ i \in Nat
      /\ i < MaxAtoms => i = l.issued + JoinDistributed(n)
  <2>1. l.issued \in Nat /\ l.fees \in Nat /\ Total(l.balances) \in Nat
    BY LedgerNumbers
  <2>2. i \in Atoms /\ (i < MaxAtoms => i = l.issued + JoinDistributed(n))
    BY <1>1, <1>6, <2>1, SatAddFacts
  <2> HIDE DEF i
  <2> QED
    BY <2>1, <2>2, LedgerAssumption DEF Atoms
<1>10. g.issued = i /\ g.fees = l.fees /\ g.balances = b
  <2> HIDE DEF b, i
  <2> QED BY <1>1 DEF LedgerTypeOK
<1>11. ASSUME i + inc < MaxAtoms PROVE Total(b) + l.fees = i + inc
  <2>1. /\ i = l.issued + JoinDistributed(n)
        /\ Total(l.balances) + l.fees = l.issued + inc
    BY <1>6, <1>9, <1>11, LedgerAssumption DEF Conserved
  <2>2. \A k \in Ids : SatAdd(Get(j.balances, k), JoinShare(n)) = Get(j.balances, k) + JoinShare(n)
    <3> SUFFICES ASSUME NEW k \in Ids
                 PROVE  SatAdd(Get(j.balances, k), JoinShare(n)) = Get(j.balances, k) + JoinShare(n)
      OBVIOUS
    <3>1. Get(j.balances, k) \in Nat /\ Get(j.balances, k) <= Total(l.balances)
      BY <1>1, LedgerNumbers
    <3>2. Get(j.balances, k) + JoinShare(n) <= MaxAtoms
      BY <1>6, <1>7, <1>9, <1>11, <2>1, <3>1, LedgerAssumption
    <3> QED
      BY <1>6, <3>1, <3>2, SatAddFacts
  <2>3. Balances(b)
    <3>0. \A k : Get(j.balances, k) \in Nat
      BY <1>1, LedgerNumbers
    <3>1. \A k \in j.members : Get(j.balances, k) + JoinShare(n) \in Nat
      BY <1>6, <3>0
    <3>2. Balances(j.balances)
      BY <1>1, LedgerNumbers
    <3> QED
      BY <1>2, <2>2, <3>1, <3>2 DEF Balances
  <2>4. \A k \in Ids : Get(b, k) = Get(j.balances, k) + (IF k \in j.members THEN JoinShare(n) ELSE 0)
    <3> SUFFICES ASSUME NEW k \in Ids
                 PROVE  Get(b, k) = Get(j.balances, k) + (IF k \in j.members THEN JoinShare(n) ELSE 0)
      OBVIOUS
    <3>1. Get(j.balances, k) \in Nat
      BY <1>1, LedgerNumbers
    <3>2. CASE k \in j.members
      <4>1. Get(b, k) = SatAdd(Get(j.balances, k), JoinShare(n))
        BY <3>2 DEF Get
      <4> QED
        BY <2>2, <3>2, <4>1
    <3>3. CASE k \notin j.members
      <4>1. Get(b, k) = Get(j.balances, k)
        BY <3>3 DEF Get
      <4> QED
        BY <3>1, <3>3, <4>1
    <3> QED
      BY <3>2, <3>3
  <2> HIDE DEF b
  <2>5. Total(b) = Total(j.balances) + JoinShare(n) * Cardinality(j.members)
    BY <1>1, <1>2, <1>6, <2>3, <2>4, LedgerNumbers, TotalAddToAll
  <2> QED
    BY <1>1, <1>6, <1>8, <1>9, <2>1, <2>5
<1>12. Conserved(g, inc)
  <2> HIDE DEF b, i, g
  <2> QED BY <1>10, <1>11 DEF Conserved
<1> QED
  BY <1>4, <1>5, <1>12 DEF j, n

\* A reward issues what it pays.
LEMMA RewardConserves ==
  ASSUME NEW l, LedgerTypeOK(l), NEW r \in Receipts, NEW inc \in Nat, Conserved(l, inc)
  PROVE  Conserved(MintReward(l, r), inc)
<1> DEFINE x == RewardFor(r)
           i == SatAdd(l.issued, x)
           v == SatAdd(Get(l.balances, r.node), x)
           g == MintReward(l, r)
<1>1. x \in Nat /\ r.node \in Ids
  BY RewardForType, LedgerAssumption DEF Atoms
<1>2. g.issued = i /\ g.fees = l.fees /\ g.balances = Put(l.balances, r.node, v)
  BY DEF MintReward, LedgerTypeOK
<1>3. /\ l.issued \in Nat /\ l.fees \in Nat /\ Balances(l.balances)
      /\ Total(l.balances) \in Nat
      /\ Get(l.balances, r.node) \in Nat /\ Get(l.balances, r.node) <= Total(l.balances)
  BY <1>1, LedgerNumbers
<1>4. /\ i \in Atoms /\ (i < MaxAtoms => i = l.issued + x)
      /\ v \in Atoms /\ (Get(l.balances, r.node) + x <= MaxAtoms => v = Get(l.balances, r.node) + x)
  BY <1>1, <1>3, SatAddFacts
<1> HIDE DEF x, i, v, g
<1>5. Total(Put(l.balances, r.node, v)) = (Total(l.balances) - Get(l.balances, r.node)) + v
  <2>1. v \in Nat
    BY <1>4, LedgerAssumption DEF Atoms
  <2> QED
    BY <1>1, <1>3, <2>1, TotalPut
<1> SUFFICES ASSUME i + inc < MaxAtoms
             PROVE  Total(Put(l.balances, r.node, v)) + l.fees = i + inc
  BY <1>2 DEF Conserved, g
<1>6. i = l.issued + x /\ Total(l.balances) + l.fees = l.issued + inc
  BY <1>1, <1>3, <1>4, LedgerAssumption DEF Conserved, Atoms
<1>7. v = Get(l.balances, r.node) + x
  BY <1>1, <1>3, <1>4, <1>6, LedgerAssumption
<1> QED
  BY <1>1, <1>3, <1>5, <1>6, <1>7

\* A transfer moves amount to the recipient and fee to the fee account, also
\* when sender and recipient are the same identity.
LEMMA MoveFundsConserves ==
  ASSUME NEW l, LedgerTypeOK(l), NEW tx \in Transactions, NEW key \in Ids, NEW fee \in Atoms,
         NEW inc \in Nat, TransferOk(l, tx, key, fee), Conserved(l, inc),
         l.issued + inc < MaxAtoms
  PROVE  /\ Total(MoveFunds(l.balances, tx, key, fee)) + fee = Total(l.balances)
         /\ SatAdd(l.fees, fee) = l.fees + fee
<1> DEFINE a == tx.amount
           r == tx.recipient
           old == Get(l.balances, key)
           out == SatAdd(a, fee)
           d == Put(l.balances, key, old - out)
           v == SatAdd(Get(d, r), a)
<1>1. a \in Nat /\ fee \in Nat /\ r \in Ids
  BY TransactionFields, LedgerAssumption DEF Atoms
<1>2. /\ l.issued \in Nat /\ l.fees \in Nat /\ Balances(l.balances)
      /\ Total(l.balances) \in Nat /\ old \in Nat /\ old <= Total(l.balances)
  BY LedgerNumbers
<1>3. out \in Atoms /\ (out < MaxAtoms => out = a + fee) /\ old >= out
  BY <1>1, SatAddFacts DEF TransferOk
<1> HIDE DEF a, r, old, out
<1>4. Total(l.balances) + l.fees = l.issued + inc
  BY DEF Conserved
<1>5. out = a + fee /\ out \in Nat /\ old - out \in Nat
  BY <1>1, <1>2, <1>3, <1>4, LedgerAssumption DEF Atoms
<1>6. Balances(d) /\ Total(d) = (Total(l.balances) - old) + (old - out)
  <2> DEFINE rest == old - out
  <2>1. rest \in Nat /\ Balances(l.balances) /\ key \in Ids
    BY <1>2, <1>5
  <2> HIDE DEF rest
  <2>2. /\ Balances(Put(l.balances, key, rest))
        /\ Total(Put(l.balances, key, rest)) = (Total(l.balances) - Get(l.balances, key)) + rest
    BY <2>1, PutFacts, TotalPut, ZenonT(40)
  <2> QED
    BY <2>2 DEF old, rest
<1> HIDE DEF d
<1>7. Get(d, r) \in Nat /\ Get(d, r) <= Total(d) /\ Total(d) \in Nat
  BY <1>1, <1>6, GetIsNat, GetLeqTotal, TotalIsNat
<1>8. Get(d, r) + a <= MaxAtoms /\ l.fees + fee <= MaxAtoms
  BY <1>1, <1>2, <1>3, <1>4, <1>5, <1>6, <1>7, LedgerAssumption
<1>9. v = Get(d, r) + a /\ SatAdd(l.fees, fee) = l.fees + fee
  BY <1>1, <1>2, <1>7, <1>8, SatAddFacts
<1>10. Total(Put(d, r, v)) = (Total(d) - Get(d, r)) + v
  <2>1. v \in Nat
    BY <1>1, <1>7, <1>9
  <2> HIDE DEF v
  <2> QED
    BY <1>1, <1>6, <2>1, TotalPut
<1>11. MoveFunds(l.balances, tx, key, fee) = Put(d, r, v)
  BY DEF MoveFunds, d, r, a, old, out
<1> HIDE DEF v
<1> QED
  BY <1>1, <1>2, <1>5, <1>6, <1>7, <1>9, <1>10, <1>11

\* A transfer moves atoms and issues none, also to oneself.
LEMMA TransferConserves ==
  ASSUME NEW l, LedgerTypeOK(l), NEW tx \in Transactions, NEW key \in Ids, NEW inc \in Nat,
         ApplyTransferOk(l, tx, key), Conserved(l, inc)
  PROVE  Conserved(ApplyTransfer(l, tx, key), inc)
<1> DEFINE g == ApplyTransfer(l, tx, key)
<1>1. /\ g.issued = l.issued /\ g.fees = l.fees
      /\ g.balances = MoveFunds(l.balances, tx, key, 0)
  BY DEF ApplyTransfer, LedgerTypeOK
<1> HIDE DEF g
<1> SUFFICES ASSUME l.issued + inc < MaxAtoms
             PROVE  Total(g.balances) + l.fees = l.issued + inc
  BY <1>1 DEF Conserved, g
<1>2. Total(MoveFunds(l.balances, tx, key, 0)) + 0 = Total(l.balances)
  BY MoveFundsConserves, ZeroFacts DEF ApplyTransferOk
<1>3. Balances(g.balances)
  BY <1>1, MoveFundsType, MapsAreBalances, ZeroFacts DEF ApplyTransferOk
<1>4. Total(g.balances) \in Nat
  BY <1>3, TotalIsNat
<1> QED
  BY <1>1, <1>2, <1>4 DEF Conserved

\* With a fee the debit is the credit plus what the fee account gets.
LEMMA TransferWithFeeConserves ==
  ASSUME NEW l, LedgerTypeOK(l), NEW tx \in Transactions, NEW key \in Ids, NEW bps \in Nat,
         NEW inc \in Nat, ApplyTransferWithFeeOk(l, tx, key, bps), Conserved(l, inc)
  PROVE  Conserved(ApplyTransferWithFee(l, tx, key, bps), inc)
<1> DEFINE g == ApplyTransferWithFee(l, tx, key, bps)
           fee == Fee(tx, bps)
           m == MoveFunds(l.balances, tx, key, fee)
<1>1. g.issued = l.issued /\ g.fees = SatAdd(l.fees, fee) /\ g.balances = m
  BY DEF ApplyTransferWithFee, LedgerTypeOK
<1>2. fee \in Atoms /\ fee \in Nat
  BY FeeType, LedgerAssumption DEF Atoms
<1> HIDE DEF g, fee
<1> SUFFICES ASSUME l.issued + inc < MaxAtoms
             PROVE  Total(m) + SatAdd(l.fees, fee) = l.issued + inc
  BY <1>1 DEF Conserved, g
<1>3. TransferOk(l, tx, key, fee)
  BY DEF ApplyTransferWithFeeOk, fee
<1>4. Total(m) + fee = Total(l.balances) /\ SatAdd(l.fees, fee) = l.fees + fee
  BY <1>2, <1>3, MoveFundsConserves
<1>5. Total(m) \in Nat
  BY <1>2, <1>3, MoveFundsType, MapsAreBalances, TotalIsNat
<1>6. l.fees \in Nat /\ Total(l.balances) + l.fees = l.issued + inc
  BY LedgerNumbers DEF Conserved
<1> QED
  BY <1>2, <1>4, <1>5, <1>6

\* A replicated transfer adds its amount once, however often it arrives.
LEMMA ReceiveConserves ==
  ASSUME NEW l, LedgerTypeOK(l), NEW tx \in Transactions, NEW key \in Ids, NEW me \in Ids,
         NEW inc \in Nat, Conserved(l, inc)
  PROVE  /\ Conserved(ReceiveTransfer(l, tx, key, me),
                      inc + (IF tx \in l.received THEN 0 ELSE tx.amount))
         /\ ReceiveTransfer(l, tx, key, me).received = l.received \cup {tx}
         /\ ReceiveTransfer(l, tx, key, me).members # {}
<1> DEFINE h == EnsureMember(l, key)
           k == EnsureMember(h, me)
           v == SatAdd(Get(k.balances, me), tx.amount)
           g == [k EXCEPT !.balances = Put(@, me, v), !.received = @ \cup {tx}]
<1>1. LedgerTypeOK(h)
  BY EnsureMemberType
<1>2. /\ LedgerTypeOK(k) /\ Total(k.balances) = Total(l.balances) /\ k.issued = l.issued
      /\ k.fees = l.fees /\ k.received = l.received
  BY <1>1, EnsureMemberType, EnsureMemberConserves
<1>3. k.members # {}
  BY <1>1 DEF EnsureMember, LedgerTypeOK
<1>4. ReceiveTransfer(l, tx, key, me) = IF tx \in k.received THEN k ELSE g
  BY DEF ReceiveTransfer
<1> HIDE DEF h, k
<1>5. CASE tx \in l.received
  <2>1. ReceiveTransfer(l, tx, key, me) = k
    BY <1>2, <1>4, <1>5
  <2>2. Conserved(k, inc)
    BY <1>2 DEF Conserved
  <2> QED
    BY <1>2, <1>3, <1>5, <2>1, <2>2
<1>6. CASE tx \notin l.received
  <2>1. ReceiveTransfer(l, tx, key, me) = g
    BY <1>2, <1>4, <1>6
  <2>2. /\ g.issued = l.issued /\ g.fees = l.fees /\ g.balances = Put(k.balances, me, v)
        /\ g.members # {} /\ g.received = l.received \cup {tx}
    BY <1>2, <1>3 DEF LedgerTypeOK
  <2>3. /\ l.issued \in Nat /\ l.fees \in Nat /\ Balances(k.balances)
        /\ Total(k.balances) \in Nat /\ Get(k.balances, me) \in Nat
        /\ Get(k.balances, me) <= Total(k.balances) /\ tx.amount \in Nat
    BY <1>2, LedgerNumbers, TransactionFields
  <2>4. v \in Nat /\ (Get(k.balances, me) + tx.amount <= MaxAtoms => v = Get(k.balances, me) + tx.amount)
    <3>1. v \in Atoms /\ (Get(k.balances, me) + tx.amount <= MaxAtoms => v = Get(k.balances, me) + tx.amount)
      BY <2>3, SatAddFacts
    <3> HIDE DEF v
    <3> QED
      BY <3>1, LedgerAssumption DEF Atoms
  <2> HIDE DEF v, g
  <2>5. Total(Put(k.balances, me, v)) = (Total(k.balances) - Get(k.balances, me)) + v
    BY <2>3, <2>4, TotalPut
  <2>6. ASSUME l.issued + (inc + tx.amount) < MaxAtoms
        PROVE  Total(Put(k.balances, me, v)) + l.fees = l.issued + (inc + tx.amount)
    <3>1. Total(l.balances) + l.fees = l.issued + inc
      BY <2>3, <2>6, LedgerAssumption DEF Conserved
    <3>2. v = Get(k.balances, me) + tx.amount
      BY <1>2, <2>3, <2>4, <2>6, <3>1, LedgerAssumption
    <3> QED
      BY <1>2, <2>3, <2>5, <3>1, <3>2
  <2>7. Conserved(g, inc + tx.amount)
    BY <2>2, <2>6 DEF Conserved
  <2> QED
    BY <1>6, <2>1, <2>2, <2>7
<1> QED
  BY <1>5, <1>6

\* The inductive invariant: conservation needs that the ledger's list of
\* received transfers is the list of transfers it was handed, and that a
\* ledger without members, on which genesis may still run, holds nothing.
SupplyInv ==
  /\ Conserved(ledger, incomingAtoms)
  /\ ledger.received = incoming
  /\ ledger.members = {} =>
       ledger.issued = 0 /\ ledger.fees = 0 /\ incomingAtoms = 0

\* The calls that leave every amount alone.
LEMMA SameBooks ==
  ASSUME NEW l, NEW g, NEW inc, Conserved(l, inc),
         g.issued = l.issued, g.fees = l.fees, g.balances = l.balances
  PROVE  Conserved(g, inc)
BY DEF Conserved

\* While issuance and incoming transfers stay below u128::MAX no sequence of
\* calls creates, duplicates or loses an atom.
THEOREM Conservation == Spec => []SupplyConserved
<1>1. Init => SupplyInv
  <2> SUFFICES ASSUME Init PROVE SupplyInv
    OBVIOUS
  <2>1. ledger = DefaultLedger /\ incoming = {} /\ incomingAtoms = 0
    BY DEF Init
  <2>2. DOMAIN DefaultLedger.balances = {} /\ Balances(DefaultLedger.balances)
    BY DEF DefaultLedger, EmptyMap, Balances
  <2>3. Total(DefaultLedger.balances) = 0
    BY <2>2, TotalEmpty
  <2> QED
    BY <2>1, <2>3 DEF SupplyInv, Conserved, DefaultLedger
<1>2. ASSUME TypeOK, MembersInv, SupplyInv, [Next]_vars PROVE SupplyInv'
  <2> SUFFICES ASSUME Next PROVE SupplyInv'
    BY <1>2 DEF vars, SupplyInv, Conserved
  <2> DEFINE empty == ledger.members = {} =>
                        ledger.issued = 0 /\ ledger.fees = 0 /\ incomingAtoms = 0
  <2>1. /\ LedgerTypeOK(ledger) /\ MembersOK(ledger) /\ incomingAtoms \in Nat
        /\ Conserved(ledger, incomingAtoms) /\ ledger.received = incoming /\ empty
    BY <1>2 DEF TypeOK, MembersInv, SupplyInv
  <2> USE DEF history
  <2>2. ASSUME NEW ms \in SUBSET Ids, Genesis(ms) PROVE SupplyInv'
    <3>1. ms # {} /\ ledger.members = {} /\ ledger' = InitializeGenesis(ledger, ms)
          /\ incoming' = incoming /\ incomingAtoms' = 0
      BY <2>1, <2>2 DEF Genesis, InitializeGenesisOk
    <3>2. Conserved(ledger', 0)
      BY <2>1, <3>1, GenesisConserves
    <3>3. ledger'.members # {} /\ ledger'.received = ledger.received
      BY <2>1, <3>1 DEF InitializeGenesis, LedgerTypeOK
    <3> QED
      BY <2>1, <3>1, <3>2, <3>3 DEF SupplyInv
  <2>3. ASSUME NEW ms \in SUBSET Ids, NEW vs \in VerifierLists, GenesisWithVerifiers(ms, vs)
        PROVE  SupplyInv'
    <3> DEFINE g == InitializeGenesis(ledger, ms)
    <3>1. ms # {} /\ ledger.members = {} /\ incoming' = incoming /\ incomingAtoms' = 0
          /\ ledger' = [g EXCEPT !.verifiers = @ \cup AcceptedVerifiers(g.members, vs)]
      BY <2>1, <2>3 DEF GenesisWithVerifiers, InitializeGenesisOk, InitializeGenesisWithVerifiers
    <3>2. LedgerTypeOK(g) /\ Conserved(g, 0)
      BY <2>1, <3>1, GenesisType, GenesisConserves
    <3>3. g.members # {} /\ g.received = ledger.received
      BY <2>1, <3>1 DEF InitializeGenesis, LedgerTypeOK
    <3> HIDE DEF g
    <3>4. /\ ledger'.issued = g.issued /\ ledger'.fees = g.fees /\ ledger'.balances = g.balances
          /\ ledger'.members = g.members /\ ledger'.received = g.received
      BY <3>1, <3>2 DEF LedgerTypeOK
    <3>5. Conserved(ledger', 0)
      BY <3>2, <3>4, SameBooks
    <3> QED
      BY <2>1, <3>1, <3>3, <3>4, <3>5 DEF SupplyInv
  <2>4. ASSUME NEW a \in Ids, NEW id \in Ids, Authorize(a, id) PROVE SupplyInv'
    <3>1. /\ ledger'.issued = ledger.issued /\ ledger'.fees = ledger.fees
          /\ ledger'.balances = ledger.balances /\ ledger'.members = ledger.members
          /\ ledger'.received = ledger.received
          /\ incoming' = incoming /\ incomingAtoms' = incomingAtoms
      BY <2>1, <2>4 DEF Authorize, AuthorizeRewardVerifier, LedgerTypeOK
    <3>2. Conserved(ledger', incomingAtoms)
      BY <2>1, <3>1, SameBooks
    <3> QED
      BY <2>1, <3>1, <3>2 DEF SupplyInv
  <2>5. ASSUME NEW id \in Ids, Ensure(id) PROVE SupplyInv'
    <3>1. /\ Total(ledger'.balances) = Total(ledger.balances)
          /\ ledger'.issued = ledger.issued /\ ledger'.fees = ledger.fees
          /\ ledger'.received = ledger.received
          /\ incoming' = incoming /\ incomingAtoms' = incomingAtoms
      BY <2>1, <2>5, EnsureMemberConserves DEF Ensure
    <3>2. ledger'.members # {}
      BY <2>1, <2>5, EnsureMemberMembers DEF Ensure
    <3> QED
      BY <2>1, <3>1, <3>2 DEF SupplyInv, Conserved
  <2>6. ASSUME NEW id \in Ids, Join(id) PROVE SupplyInv'
    <3>1. ledger' = RegisterMember(ledger, id) /\ incoming' = incoming
          /\ incomingAtoms' = incomingAtoms
      BY <2>6 DEF Join
    <3>2. Conserved(ledger', incomingAtoms)
      BY <2>1, <3>1, JoinConserves
    <3>3. ledger'.members # {} /\ ledger'.received = ledger.received
      <4> DEFINE j == EnsureMember(ledger, id)
      <4>1. LedgerTypeOK(j) /\ j.members # {} /\ j.received = ledger.received
        BY <2>1, EnsureMemberType, EnsureMemberMembers, EnsureMemberConserves
      <4> HIDE DEF j
      <4>2. ASSUME NEW b, NEW i, NEW r
            PROVE  /\ [j EXCEPT !.balances = b, !.issued = i, !.remainder = r].members = j.members
                   /\ [j EXCEPT !.balances = b, !.issued = i, !.remainder = r].received = j.received
        BY <4>1 DEF LedgerTypeOK
      <4>3. /\ [j EXCEPT !.joinActive = FALSE].members = j.members
            /\ [j EXCEPT !.joinActive = FALSE].received = j.received
        BY <4>1 DEF LedgerTypeOK
      <4> QED
        BY <3>1, <4>1, <4>2, <4>3 DEF RegisterMember, j
    <3> QED
      BY <2>1, <3>1, <3>2, <3>3 DEF SupplyInv
  <2>7. ASSUME NEW r \in Receipts, Reward(r) PROVE SupplyInv'
    <3>1. ledger' = MintReward(ledger, r) /\ incoming' = incoming
          /\ incomingAtoms' = incomingAtoms /\ ledger.members # {}
      BY <2>7 DEF Reward, MintRewardOk
    <3>2. Conserved(ledger', incomingAtoms)
      BY <2>1, <3>1, RewardConserves
    <3>3. ledger'.members # {} /\ ledger'.received = ledger.received
      BY <2>1, <3>1 DEF MintReward, LedgerTypeOK
    <3> QED
      BY <2>1, <3>1, <3>2, <3>3 DEF SupplyInv
  <2>8. ASSUME NEW tx \in Transactions, NEW key \in Ids, Transfer(tx, key) PROVE SupplyInv'
    <3>1. ledger' = ApplyTransfer(ledger, tx, key) /\ incoming' = incoming
          /\ incomingAtoms' = incomingAtoms /\ ApplyTransferOk(ledger, tx, key)
      BY <2>8 DEF Transfer, Accepted
    <3>2. Conserved(ledger', incomingAtoms)
      BY <2>1, <3>1, TransferConserves
    <3>3. ledger'.members # {} /\ ledger'.received = ledger.received
      BY <2>1, <3>1 DEF ApplyTransfer, ApplyTransferOk, TransferOk, LedgerTypeOK
    <3> QED
      BY <2>1, <3>1, <3>2, <3>3 DEF SupplyInv
  <2>9. ASSUME NEW tx \in Transactions, NEW key \in Ids, NEW bps \in FeeRates,
               TransferWithFee(tx, key, bps)
        PROVE  SupplyInv'
    <3>1. ledger' = ApplyTransferWithFee(ledger, tx, key, bps) /\ incoming' = incoming
          /\ incomingAtoms' = incomingAtoms /\ ApplyTransferWithFeeOk(ledger, tx, key, bps)
          /\ bps \in Nat
      BY <2>9, LedgerInputs DEF TransferWithFee, Accepted
    <3>2. Conserved(ledger', incomingAtoms)
      BY <2>1, <3>1, TransferWithFeeConserves
    <3>3. ledger'.members # {} /\ ledger'.received = ledger.received
      BY <2>1, <3>1 DEF ApplyTransferWithFee, ApplyTransferWithFeeOk, TransferOk, LedgerTypeOK
    <3> QED
      BY <2>1, <3>1, <3>2, <3>3 DEF SupplyInv
  <2>10. ASSUME NEW tx \in Transactions, NEW key \in Ids, NEW me \in Ids, Receive(tx, key, me)
         PROVE  SupplyInv'
    <3>1. /\ ledger' = ReceiveTransfer(ledger, tx, key, me) /\ incoming' = incoming \cup {tx}
          /\ incomingAtoms' = incomingAtoms + (IF tx \in ledger.received THEN 0 ELSE tx.amount)
      BY <2>1, <2>10 DEF Receive
    <3>2. /\ Conserved(ledger', incomingAtoms') /\ ledger'.received = ledger.received \cup {tx}
          /\ ledger'.members # {}
      BY <2>1, <3>1, ReceiveConserves
    <3> QED
      BY <2>1, <3>1, <3>2 DEF SupplyInv
  <2>11. ASSUME NEW p \in Prices, Observe(p) PROVE SupplyInv'
    <3>1. /\ ledger'.issued = ledger.issued /\ ledger'.fees = ledger.fees
          /\ ledger'.balances = ledger.balances /\ ledger'.members = ledger.members
          /\ ledger'.received = ledger.received
          /\ incoming' = incoming /\ incomingAtoms' = incomingAtoms
      BY <2>1, <2>11 DEF Observe, ObservePrice, LedgerTypeOK
    <3>2. Conserved(ledger', incomingAtoms)
      BY <2>1, <3>1, SameBooks
    <3> QED
      BY <2>1, <3>1, <3>2 DEF SupplyInv
  <2> QED
    BY NextCases, <2>2, <2>3, <2>4, <2>5, <2>6, <2>7, <2>8, <2>9, <2>10, <2>11
<1>3. SupplyInv => SupplyConserved
  BY DEF SupplyInv, Conserved, SupplyConserved
<1>4. Spec => []MembersInv
  <2>1. MemberStateConsistent /\ VerifiersAreMembers => MembersInv
    BY DEF MembersInv, MembersOK, MemberStateConsistent, VerifiersAreMembers
  <2> QED
    BY <2>1, Membership, PTL
<1> QED
  BY <1>1, <1>2, <1>3, <1>4, TypeCorrect, PTL DEF Spec

-----------------------------------------------------------------------------
(* Debits.                                                                 *)

\* A call that takes nothing from anybody.
Harmless(l, n) ==
  \A i \in Ids : Get(n.nonces, i) >= Get(l.nonces, i) /\ Get(n.balances, i) >= Get(l.balances, i)

\* A call that may take from k alone, and then uses its next nonce.
Debits(l, n, k) ==
  /\ Get(n.nonces, k) = Get(l.nonces, k) + 1
  /\ \A i \in Ids \ {k} :
       Get(n.nonces, i) = Get(l.nonces, i) /\ Get(n.balances, i) >= Get(l.balances, i)

LEMMA NoncesAndBalances ==
  ASSUME NEW l, LedgerTypeOK(l)
  PROVE  /\ Balances(l.balances) /\ Balances(l.nonces)
         /\ \A i : Get(l.nonces, i) \in Nat /\ Get(l.balances, i) \in Nat /\ Get(l.balances, i) <= MaxAtoms
<1>1. Balances(l.balances) /\ Balances(l.nonces)
  BY MapsAreBalances DEF LedgerTypeOK, IsMap, Balances
<1>2. \A i : Get(l.balances, i) \in Atoms
  BY GetOfMap, ZeroFacts DEF LedgerTypeOK
<1> QED
  BY <1>1, <1>2, GetIsNat DEF Atoms

\* ensure_member changes no balance and no nonce that anybody can read.
LEMMA EnsureMemberTakesNothing ==
  ASSUME NEW l, LedgerTypeOK(l), NEW id \in Ids
  PROVE  /\ \A i : Get(EnsureMember(l, id).nonces, i) = Get(l.nonces, i)
         /\ \A i : Get(EnsureMember(l, id).balances, i) = Get(l.balances, i)
<1>1. /\ EnsureMember(l, id).nonces = OrInsert(l.nonces, id, 0)
      /\ EnsureMember(l, id).balances = OrInsert(l.balances, id, 0)
  BY DEF EnsureMember, LedgerTypeOK
<1> QED
  BY <1>1 DEF OrInsert, Put, Get

\* Genesis runs on a ledger without accounts.
LEMMA GenesisTakesNothing ==
  ASSUME NEW l, LedgerTypeOK(l), MembersOK(l), l.members = {}, NEW n, LedgerTypeOK(n)
  PROVE  Harmless(l, n)
<1>1. \A i : Get(l.nonces, i) = 0 /\ Get(l.balances, i) = 0
  BY DEF MembersOK, Get
<1>2. \A i : Get(n.nonces, i) \in Nat /\ Get(n.balances, i) \in Nat
  BY NoncesAndBalances
<1> QED
  BY <1>1, <1>2 DEF Harmless

\* A join dividend is added, up to u128::MAX.
LEMMA JoinTakesNothing ==
  ASSUME NEW l, LedgerTypeOK(l), NEW id \in Ids
  PROVE  Harmless(l, RegisterMember(l, id))
<1> DEFINE j == EnsureMember(l, id)
           n == Cardinality(j.members)
           b == [x \in DOMAIN j.balances \cup j.members |->
                   IF x \in j.members THEN SatAdd(Get(j.balances, x), JoinShare(n))
                   ELSE j.balances[x]]
           g == RegisterMember(l, id)
<1>1. LedgerTypeOK(j) /\ \A i : Get(j.nonces, i) = Get(l.nonces, i) /\ Get(j.balances, i) = Get(l.balances, i)
  BY EnsureMemberType, EnsureMemberTakesNothing
<1>2. \A i : Get(j.nonces, i) \in Nat /\ Get(j.balances, i) \in Nat /\ Get(j.balances, i) <= MaxAtoms
  BY <1>1, NoncesAndBalances
<1>3. n \in Nat \ {0}
  <2>1. j.members \in SUBSET Ids /\ id \in j.members
    BY <1>1 DEF LedgerTypeOK, EnsureMember
  <2> QED
    BY <2>1, IdSetsAreFinite, FS_EmptySet
<1>4. JoinShare(n) \in Nat
  BY <1>3, JoinArithmetic
<1>5. g.nonces = j.nonces /\ (g.balances = b \/ g.balances = j.balances)
  <2> HIDE DEF b, n
  <2>1. CASE g = [j EXCEPT !.joinActive = FALSE]
    BY <1>1, <2>1 DEF LedgerTypeOK
  <2>2. ASSUME NEW x, NEW y, g = [j EXCEPT !.balances = b, !.issued = x, !.remainder = y]
        PROVE  g.nonces = j.nonces /\ g.balances = b
    BY <1>1, <2>2 DEF LedgerTypeOK
  <2> QED
    BY <2>1, <2>2 DEF RegisterMember, j, n, b
<1> HIDE DEF j, n, g
<1>6. \A i : Get(b, i) >= Get(j.balances, i)
  <2> SUFFICES ASSUME NEW i PROVE Get(b, i) >= Get(j.balances, i)
    OBVIOUS
  <2>1. CASE i \in j.members
    BY <1>2, <1>4, <2>1, SatAddFacts DEF Get
  <2>2. CASE i \notin j.members
    BY <1>2, <2>2 DEF Get
  <2> QED
    BY <2>1, <2>2
<1> QED
  BY <1>1, <1>2, <1>5, <1>6 DEF Harmless, g

\* One credit, saturating.
LEMMA CreditTakesNothing ==
  ASSUME NEW f, Balances(f), \A i : Get(f, i) <= MaxAtoms, NEW k \in Ids, NEW x \in Nat
  PROVE  \A i : Get(Put(f, k, SatAdd(Get(f, k), x)), i) >= Get(f, i)
<1>1. \A i : Get(f, i) \in Nat
  BY GetIsNat
<1>2. SatAdd(Get(f, k), x) \in Nat /\ SatAdd(Get(f, k), x) >= Get(f, k)
  BY <1>1, SatAddFacts, LedgerAssumption DEF Atoms
<1>3. \A i : Get(Put(f, k, SatAdd(Get(f, k), x)), i) = IF i = k THEN SatAdd(Get(f, k), x) ELSE Get(f, i)
  BY <1>2, PutFacts, ZenonT(60)
<1> QED
  BY <1>1, <1>2, <1>3

LEMMA RewardTakesNothing ==
  ASSUME NEW l, LedgerTypeOK(l), NEW r \in Receipts
  PROVE  Harmless(l, MintReward(l, r))
<1>1. RewardFor(r) \in Nat /\ r.node \in Ids
  BY RewardForType, LedgerAssumption DEF Atoms
<1>2. /\ MintReward(l, r).nonces = l.nonces
      /\ MintReward(l, r).balances = Put(l.balances, r.node, SatAdd(Get(l.balances, r.node), RewardFor(r)))
  BY DEF MintReward, LedgerTypeOK
<1>3. /\ Balances(l.balances)
      /\ \A i : Get(l.nonces, i) \in Nat /\ Get(l.balances, i) \in Nat /\ Get(l.balances, i) <= MaxAtoms
  BY NoncesAndBalances
<1>4. \A i : Get(Put(l.balances, r.node, SatAdd(Get(l.balances, r.node), RewardFor(r))), i)
              >= Get(l.balances, i)
  BY <1>1, <1>3, CreditTakesNothing
<1> QED
  BY <1>2, <1>3, <1>4 DEF Harmless

LEMMA ReceiveTakesNothing ==
  ASSUME NEW l, LedgerTypeOK(l), NEW tx \in Transactions, NEW key \in Ids, NEW me \in Ids
  PROVE  Harmless(l, ReceiveTransfer(l, tx, key, me))
<1> DEFINE k == EnsureMember(EnsureMember(l, key), me)
           g == ReceiveTransfer(l, tx, key, me)
           b == Put(k.balances, me, SatAdd(Get(k.balances, me), tx.amount))
<1>1. LedgerTypeOK(k) /\ \A i : Get(k.nonces, i) = Get(l.nonces, i) /\ Get(k.balances, i) = Get(l.balances, i)
  <2> DEFINE e == EnsureMember(l, key)
  <2>1. /\ LedgerTypeOK(e)
        /\ \A i : Get(e.nonces, i) = Get(l.nonces, i) /\ Get(e.balances, i) = Get(l.balances, i)
    BY EnsureMemberType, EnsureMemberTakesNothing
  <2> HIDE DEF e
  <2>2. LedgerTypeOK(EnsureMember(e, me))
    BY <2>1, EnsureMemberType
  <2>3. \A i : /\ Get(EnsureMember(e, me).nonces, i) = Get(e.nonces, i)
               /\ Get(EnsureMember(e, me).balances, i) = Get(e.balances, i)
    BY <2>1, EnsureMemberTakesNothing
  <2> QED
    BY <2>1, <2>2, <2>3 DEF e
<1>2. g.nonces = k.nonces /\ (g.balances = b \/ g.balances = k.balances)
  BY <1>1 DEF ReceiveTransfer, LedgerTypeOK
<1> HIDE DEF k, g
<1>3. tx.amount \in Nat
  BY TransactionFields
<1>4. \A i : Get(b, i) >= Get(k.balances, i)
  BY <1>1, <1>3, NoncesAndBalances, CreditTakesNothing
<1>5. \A i : Get(k.nonces, i) \in Nat /\ Get(k.balances, i) \in Nat
  BY <1>1, NoncesAndBalances
<1> QED
  BY <1>1, <1>2, <1>4, <1>5 DEF Harmless, g

\* A transfer takes from its sender alone; the recipient's balance is read after
\* the debit, and a transfer to oneself is a debit too.
LEMMA TransferDebits ==
  ASSUME NEW l, LedgerTypeOK(l), NEW tx \in Transactions, NEW key \in Ids, NEW fee \in Atoms,
         TransferOk(l, tx, key, fee), NEW n,
         n.balances = MoveFunds(l.balances, tx, key, fee),
         n.nonces = Put(l.nonces, key, Get(l.nonces, key) + 1)
  PROVE  Debits(l, n, key)
<1> DEFINE rest == Get(l.balances, key) - SatAdd(tx.amount, fee)
           d == Put(l.balances, key, rest)
<1>1. /\ Balances(l.balances) /\ Balances(l.nonces)
      /\ \A i : Get(l.nonces, i) \in Nat /\ Get(l.balances, i) \in Nat /\ Get(l.balances, i) <= MaxAtoms
  BY NoncesAndBalances
<1>2. tx.amount \in Nat /\ tx.recipient \in Ids /\ fee \in Nat
  BY TransactionFields, LedgerAssumption DEF Atoms
<1>3. rest \in Nat /\ rest <= MaxAtoms
  <2>1. SatAdd(tx.amount, fee) \in Atoms
    BY <1>2, SatAddFacts
  <2>2. Get(l.balances, key) >= SatAdd(tx.amount, fee)
    BY DEF TransferOk
  <2>3. SatAdd(tx.amount, fee) \in Nat
    BY <2>1, LedgerAssumption DEF Atoms
  <2> QED
    BY <1>1, <2>2, <2>3, LedgerAssumption
<1>4. n.balances = Put(d, tx.recipient, SatAdd(Get(d, tx.recipient), tx.amount))
  BY DEF MoveFunds
<1> HIDE DEF rest
<1>5. Balances(d) /\ \A i : Get(d, i) = IF i = key THEN rest ELSE Get(l.balances, i)
  <2>1. Balances(l.balances) /\ key \in Ids /\ rest \in Nat
    BY <1>1, <1>3
  <2>2. /\ Balances(Put(l.balances, key, rest))
        /\ \A i : Get(Put(l.balances, key, rest), i) = IF i = key THEN rest ELSE Get(l.balances, i)
    BY <2>1, PutFacts, ZenonT(60)
  <2> QED
    BY <2>2
<1> HIDE DEF d
<1>6. \A i : Get(d, i) <= MaxAtoms
  BY <1>1, <1>3, <1>5
<1>7. \A i : Get(n.balances, i) >= Get(d, i)
  BY <1>2, <1>4, <1>5, <1>6, CreditTakesNothing
<1>8. \A i : Get(n.nonces, i) = IF i = key THEN Get(l.nonces, key) + 1 ELSE Get(l.nonces, i)
  <2> DEFINE next == Get(l.nonces, key) + 1
  <2>1. Balances(l.nonces) /\ next \in Nat /\ n.nonces = Put(l.nonces, key, next)
    BY <1>1
  <2> HIDE DEF next
  <2>2. \A i : Get(Put(l.nonces, key, next), i) = IF i = key THEN next ELSE Get(l.nonces, i)
    BY <2>1, PutFacts, ZenonT(60)
  <2> QED
    BY <2>1, <2>2 DEF next
<1> QED
  BY <1>5, <1>7, <1>8 DEF Debits

\* The inductive invariant: the ledger's nonce of a sender is above those of all
\* its transfers that were accepted.  Without it, that a transfer has the nonce
\* the ledger expects would not tell that it is new.
AppliedInv == \A tx \in applied : tx.nonce < Get(ledger.nonces, tx.sender)

\* What a step may take from i.
TakesFrom(i) ==
  \E tx \in applied' \ applied :
    /\ tx.sender = i /\ tx.valid /\ applied' = applied \cup {tx}
    /\ \A old \in applied : old.sender = i => old.nonce < tx.nonce
    /\ \A j \in Ids \ {i} : Get(ledger'.balances, j) >= Get(ledger.balances, j)

Debit == \A i \in Ids : Get(ledger'.balances, i) < Get(ledger.balances, i) => TakesFrom(i)

LEMMA AcceptedDebits ==
  ASSUME TypeOK, TypeOK', AppliedInv, NEW tx \in Transactions, NEW key \in Ids, NEW fee,
         TransferOk(ledger, tx, key, fee), Debits(ledger, ledger', key), applied' = applied \cup {tx}
  PROVE  AppliedInv' /\ Debit
<1>1. /\ tx.sender = key /\ tx.valid /\ tx.nonce = Get(ledger.nonces, key)
      /\ \A old \in applied : old \in Transactions
  BY DEF TransferOk, Verify, TypeOK
<1>2. \A i : /\ Get(ledger.nonces, i) \in Nat /\ Get(ledger.balances, i) \in Nat
             /\ Get(ledger'.nonces, i) \in Nat /\ Get(ledger'.balances, i) \in Nat
  BY NoncesAndBalances DEF TypeOK
<1>3. \A old \in applied : old.sender \in Ids /\ old.nonce \in Nat /\ old.nonce < Get(ledger.nonces, old.sender)
  BY <1>1 DEF AppliedInv, Transactions
<1>4. Get(ledger'.nonces, key) = Get(ledger.nonces, key) + 1
  BY DEF Debits
<1>5. \A i \in Ids : Get(ledger'.nonces, i) >= Get(ledger.nonces, i)
  BY <1>2, <1>4 DEF Debits
<1>6. ASSUME NEW t \in applied' PROVE t.nonce < Get(ledger'.nonces, t.sender)
  <2>1. CASE t = tx
    BY <1>1, <1>2, <1>4, <2>1
  <2>2. CASE t \in applied
    BY <1>2, <1>3, <1>5, <2>2
  <2> QED
    BY <2>1, <2>2
<1>7. AppliedInv'
  BY <1>6 DEF AppliedInv
<1>8. \A old \in applied : old.sender = key => old.nonce < tx.nonce
  BY <1>1, <1>3
<1>9. tx \notin applied
  BY <1>1, <1>2, <1>3
<1>10. TakesFrom(key)
  BY <1>1, <1>8, <1>9 DEF TakesFrom, Debits
<1>11. \A i \in Ids \ {key} : ~(Get(ledger'.balances, i) < Get(ledger.balances, i))
  BY <1>2 DEF Debits
<1> QED
  BY <1>7, <1>10, <1>11 DEF Debit

\* Nobody's balance falls unless the step accepts a transfer that this holder
\* signed and that was not accepted before, nor another one with its nonce,
\* whichever of the calls it is and whoever presents the transfer again.
THEOREM DebitTheorem == Spec => TransferDebitsOnce
<1>0. Init => AppliedInv
  BY DEF Init, AppliedInv
<1>1. ASSUME TypeOK, TypeOK', MemberStateConsistent /\ VerifiersAreMembers, AppliedInv, [Next]_vars
      PROVE  AppliedInv' /\ [Debit]_vars
  <2>0. CASE UNCHANGED vars
    BY <1>1, <2>0 DEF vars, AppliedInv
  <2> DEFINE Goal == AppliedInv' /\ Debit
  <2>1. LedgerTypeOK(ledger) /\ LedgerTypeOK(ledger') /\ MembersOK(ledger)
    BY <1>1 DEF TypeOK, MembersOK, MemberStateConsistent, VerifiersAreMembers
  <2>2. \A i : /\ Get(ledger.nonces, i) \in Nat /\ Get(ledger.balances, i) \in Nat
               /\ Get(ledger'.nonces, i) \in Nat /\ Get(ledger'.balances, i) \in Nat
    BY <2>1, NoncesAndBalances
  <2>3. ASSUME Harmless(ledger, ledger'), applied' = applied PROVE Goal
    <3>1. \A t \in applied : t.sender \in Ids /\ t.nonce \in Nat /\ t.nonce < Get(ledger.nonces, t.sender)
      BY <1>1 DEF TypeOK, AppliedInv, Transactions
    <3>2. AppliedInv'
      BY <2>2, <2>3, <3>1 DEF Harmless, AppliedInv
    <3>3. Debit
      BY <2>2, <2>3 DEF Harmless, Debit
    <3> QED
      BY <3>2, <3>3
  <2> USE DEF history
  <2>5. ASSUME NEW ms \in SUBSET Ids, Genesis(ms) PROVE Goal
    <3>1. ledger.members = {} /\ applied' = applied
      BY <2>5 DEF Genesis, InitializeGenesisOk
    <3>2. Harmless(ledger, ledger')
      BY <2>1, <3>1, GenesisTakesNothing
    <3> QED
      BY <2>3, <3>1, <3>2
  <2>6. ASSUME NEW ms \in SUBSET Ids, NEW vs \in VerifierLists, GenesisWithVerifiers(ms, vs) PROVE Goal
    <3>1. ledger.members = {} /\ applied' = applied
      BY <2>6 DEF GenesisWithVerifiers, InitializeGenesisOk
    <3>2. Harmless(ledger, ledger')
      BY <2>1, <3>1, GenesisTakesNothing
    <3> QED
      BY <2>3, <3>1, <3>2
  <2>7. ASSUME NEW a \in Ids, NEW id \in Ids, Authorize(a, id) PROVE Goal
    <3>1. ledger'.nonces = ledger.nonces /\ ledger'.balances = ledger.balances /\ applied' = applied
      BY <2>1, <2>7 DEF Authorize, AuthorizeRewardVerifier, LedgerTypeOK
    <3> QED
      BY <2>2, <2>3, <3>1 DEF Harmless
  <2>8. ASSUME NEW id \in Ids, Ensure(id) PROVE Goal
    <3>1. ledger' = EnsureMember(ledger, id) /\ applied' = applied
      BY <2>8 DEF Ensure
    <3>2. Harmless(ledger, ledger')
      BY <2>1, <2>2, <3>1, EnsureMemberTakesNothing DEF Harmless
    <3> QED
      BY <2>3, <3>1, <3>2
  <2>9. ASSUME NEW id \in Ids, Join(id) PROVE Goal
    <3>1. Harmless(ledger, ledger') /\ applied' = applied
      BY <2>1, <2>9, JoinTakesNothing DEF Join
    <3> QED
      BY <2>3, <3>1
  <2>10. ASSUME NEW r \in Receipts, Reward(r) PROVE Goal
    <3>1. Harmless(ledger, ledger') /\ applied' = applied
      BY <2>1, <2>10, RewardTakesNothing DEF Reward
    <3> QED
      BY <2>3, <3>1
  <2>11. ASSUME NEW tx \in Transactions, NEW key \in Ids, Transfer(tx, key) PROVE Goal
    <3>1. /\ TransferOk(ledger, tx, key, 0) /\ ledger' = ApplyTransfer(ledger, tx, key)
          /\ applied' = applied \cup {tx}
      BY <2>11 DEF Transfer, ApplyTransferOk, Accepted
    <3>2. /\ ledger'.balances = MoveFunds(ledger.balances, tx, key, 0)
          /\ ledger'.nonces = Put(ledger.nonces, key, Get(ledger.nonces, key) + 1)
      BY <2>1, <3>1 DEF ApplyTransfer, LedgerTypeOK
    <3>3. Debits(ledger, ledger', key)
      BY <2>1, <3>1, <3>2, ZeroFacts, TransferDebits
    <3> QED
      BY <1>1, <3>1, <3>3, AcceptedDebits
  <2>12. ASSUME NEW tx \in Transactions, NEW key \in Ids, NEW bps \in FeeRates, TransferWithFee(tx, key, bps)
         PROVE  Goal
    <3>1. /\ TransferOk(ledger, tx, key, Fee(tx, bps))
          /\ ledger' = ApplyTransferWithFee(ledger, tx, key, bps) /\ applied' = applied \cup {tx}
      BY <2>12 DEF TransferWithFee, ApplyTransferWithFeeOk, Accepted
    <3>2. /\ ledger'.balances = MoveFunds(ledger.balances, tx, key, Fee(tx, bps))
          /\ ledger'.nonces = Put(ledger.nonces, key, Get(ledger.nonces, key) + 1)
      BY <2>1, <3>1 DEF ApplyTransferWithFee, LedgerTypeOK
    <3>3. Fee(tx, bps) \in Atoms
      BY LedgerInputs, FeeType
    <3>4. Debits(ledger, ledger', key)
      BY <2>1, <3>1, <3>2, <3>3, TransferDebits
    <3> QED
      BY <1>1, <3>1, <3>4, AcceptedDebits
  <2>13. ASSUME NEW tx \in Transactions, NEW key \in Ids, NEW me \in Ids, Receive(tx, key, me) PROVE Goal
    <3>1. Harmless(ledger, ledger') /\ applied' = applied
      BY <2>1, <2>13, ReceiveTakesNothing DEF Receive
    <3> QED
      BY <2>3, <3>1
  <2>14. ASSUME NEW p \in Prices, Observe(p) PROVE Goal
    <3>1. ledger'.nonces = ledger.nonces /\ ledger'.balances = ledger.balances /\ applied' = applied
      BY <2>1, <2>14 DEF Observe, ObservePrice, LedgerTypeOK
    <3> QED
      BY <2>2, <2>3, <3>1 DEF Harmless
  <2> HIDE DEF Goal
  <2>15. ASSUME Next PROVE Goal
    BY <2>15, NextCases, <2>5, <2>6, <2>7, <2>8, <2>9, <2>10, <2>11, <2>12, <2>13, <2>14
  <2> QED
    BY <1>1, <2>0, <2>15 DEF Goal
<1>2. Spec => [][Debit]_vars
  BY <1>0, <1>1, TypeCorrect, Membership, PTL DEF Spec
<1> QED
  BY <1>2 DEF TransferDebitsOnce, Debit, TakesFrom

-----------------------------------------------------------------------------
(***************************************************************************)
(* The wallets of several nodes (module WalletNetwork), each with a ledger *)
(* in memory and one on disk.                                              *)
(***************************************************************************)

\* What is true of every ledger value node n works with or has in its file.
LedgerOK(l, n) ==
  /\ LedgerTypeOK(l) /\ l.members # {} /\ IsFiniteSet(l.received)
  /\ \A tx \in l.received : tx.recipient = n
  /\ Accounted(l)

FileOK(f, n) == f.kind = "ledger" => LedgerOK(f.ledger, n)

\* The inductive invariant.
WalletInv ==
  /\ DOMAIN mem = Ids /\ DOMAIN disk = Ids /\ DOMAIN up = Ids /\ crashes \in Nat
  /\ \A n \in Ids : LedgerOK(mem[n], n) /\ FileOK(disk[n], n)
  /\ IsFiniteSet(inbox) /\ \A m \in inbox : m.tx \in Transactions
  /\ crashes = 0 => \A n \in Ids : up[n]

\* A finite set of transactions has a worth.
LEMMA WorthFacts ==
  ASSUME NEW txs, IsFiniteSet(txs), txs \subseteq Transactions
  PROVE  /\ Summable([tx \in txs |-> tx.amount], txs)
         /\ Worth(txs) \in Nat
<1>1. \A tx \in txs : [x \in txs |-> x.amount][tx] \in Nat
  BY TransactionFields
<1>2. Summable([tx \in txs |-> tx.amount], txs)
  BY <1>1 DEF Summable
<1> QED
  BY <1>2, SumIsNat DEF Worth

\* The worth of part of a set, added up with the amounts of the whole.
LEMMA WorthOfPart ==
  ASSUME NEW txs, IsFiniteSet(txs), txs \subseteq Transactions, NEW part \in SUBSET txs
  PROVE  /\ IsFiniteSet(part)
         /\ Worth(part) = SumFunctionOnSet([tx \in txs |-> tx.amount], part)
         /\ Worth(part) <= Worth(txs)
<1>1. IsFiniteSet(part) /\ part \subseteq Transactions
  BY FS_Subset
<1>2. Summable([tx \in part |-> tx.amount], part)
  BY <1>1, WorthFacts
<1>3. \A tx \in part : [x \in part |-> x.amount][tx] = [x \in txs |-> x.amount][tx]
  OBVIOUS
<1>4. Worth(part) = SumFunctionOnSet([tx \in txs |-> tx.amount], part)
  <2> DEFINE f == [tx \in part |-> tx.amount]
             e == [tx \in txs |-> tx.amount]
  <2>1. Summable(f, part) /\ \A tx \in part : f[tx] = e[tx]
    BY <1>2, <1>3
  <2> HIDE DEF f, e
  <2>2. SumFunctionOnSet(f, part) = SumFunctionOnSet(e, part)
    BY <2>1, SumSame
  <2> QED
    BY <2>2 DEF f, e, Worth
<1>5. SumFunctionOnSet([tx \in txs |-> tx.amount], part) <= Worth(txs)
  BY WorthFacts, SumOfPart DEF Worth
<1> QED
  BY <1>1, <1>4, <1>5

\* One more transaction adds its amount.
LEMMA WorthAdd ==
  ASSUME NEW txs, IsFiniteSet(txs), txs \subseteq Transactions, NEW tx \in Transactions,
         tx \notin txs
  PROVE  IsFiniteSet(txs \cup {tx}) /\ Worth(txs \cup {tx}) = Worth(txs) + tx.amount
<1> DEFINE all == txs \cup {tx}
           f == [x \in all |-> x.amount]
<1>1. IsFiniteSet(all) /\ all \subseteq Transactions /\ txs \in SUBSET all
  BY FS_AddElement
<1>2. Worth(txs) = SumFunctionOnSet(f, txs)
  BY <1>1, WorthOfPart
<1>3. f[tx] = tx.amount /\ tx.amount \in Nat /\ \A x \in txs : f[x] \in Nat
  BY <1>1, TransactionFields
<1>4. Summable(f, txs)
  BY <1>3 DEF Summable
<1> HIDE DEF f
<1>5. SumFunctionOnSet(f, txs \cup {tx}) = SumFunctionOnSet(f, txs) + f[tx]
  BY <1>3, <1>4, SumAdd
<1> QED
  BY <1>1, <1>2, <1>3, <1>5 DEF Worth, f

LEMMA WorthEmpty == Worth({}) = 0
BY SumEmpty DEF Worth

\* Accounted is Conserved for what the ledger was sent by others.
LEMMA AccountedIsConserved ==
  ASSUME NEW l
  PROVE  Accounted(l) <=> Conserved(l, Worth(l.received))
BY DEF Accounted, Conserved

LEMMA DefaultLedgerFacts ==
  /\ LedgerTypeOK(DefaultLedger) /\ MembersOK(DefaultLedger)
  /\ DefaultLedger.members = {} /\ DefaultLedger.fees = 0 /\ DefaultLedger.received = {}
BY LedgerAssumption DEF DefaultLedger, LedgerTypeOK, MembersOK, IsMap, EmptyMap, Atoms,
   INITIAL_PRICE_USD_CENTS

\* A new wallet is in order.
LEMMA OwnGenesisOK ==
  ASSUME NEW n \in Ids
  PROVE  LedgerOK(OwnGenesis(n), n)
<1> DEFINE l == DefaultLedger
           g == InitializeGenesis(l, {n})
<1>1. LedgerTypeOK(l) /\ MembersOK(l) /\ l.members = {} /\ l.fees = 0 /\ l.received = {}
  BY DefaultLedgerFacts
<1> HIDE DEF l
<1>2. LedgerTypeOK(g) /\ Conserved(g, 0)
  BY <1>1, GenesisType, GenesisConserves
<1>3. g.members # {} /\ g.received = {}
  BY <1>1 DEF InitializeGenesis, LedgerTypeOK
<1>4. IsFiniteSet(g.received) /\ Worth(g.received) = 0
  BY <1>3, WorthEmpty, FS_EmptySet
<1>5. Accounted(g)
  BY <1>2, <1>4, AccountedIsConserved
<1>6. OwnGenesis(n) = g
  BY DEF OwnGenesis, l
<1> HIDE DEF g
<1> QED
  BY <1>2, <1>3, <1>4, <1>5, <1>6 DEF LedgerOK

\* ensure_member keeps the books.
LEMMA EnsureMemberOK ==
  ASSUME NEW n, NEW l, LedgerOK(l, n), NEW id \in Ids
  PROVE  LedgerOK(EnsureMember(l, id), n)
<1> DEFINE g == EnsureMember(l, id)
<1>1. LedgerTypeOK(l)
  BY DEF LedgerOK
<1>2. /\ LedgerTypeOK(g) /\ Total(g.balances) = Total(l.balances) /\ g.issued = l.issued
      /\ g.fees = l.fees /\ g.received = l.received
  BY <1>1, EnsureMemberType, EnsureMemberConserves
<1>3. g.members # {}
  BY <1>1 DEF EnsureMember, LedgerTypeOK
<1> HIDE DEF g
<1>4. Accounted(g)
  BY <1>2 DEF LedgerOK, Accounted
<1> QED
  BY <1>2, <1>3, <1>4 DEF LedgerOK, g

\* A transfer out keeps the books.
LEMMA TransferOutOK ==
  ASSUME NEW n, NEW l, LedgerOK(l, n), NEW tx \in Transactions, NEW key \in Ids,
         NEW bps \in Nat, ApplyTransferWithFeeOk(l, tx, key, bps)
  PROVE  LedgerOK(ApplyTransferWithFee(l, tx, key, bps), n)
<1> DEFINE g == ApplyTransferWithFee(l, tx, key, bps)
<1>1. LedgerTypeOK(l) /\ l.received \subseteq Transactions /\ IsFiniteSet(l.received)
  BY DEF LedgerOK, LedgerTypeOK
<1>2. g.received = l.received /\ g.members = l.members
  BY <1>1 DEF ApplyTransferWithFee, LedgerTypeOK
<1>3. Worth(l.received) \in Nat /\ Conserved(l, Worth(l.received))
  BY <1>1, WorthFacts, AccountedIsConserved DEF LedgerOK
<1>4. LedgerTypeOK(g) /\ Conserved(g, Worth(l.received))
  BY <1>1, <1>3, TransferWithFeeType, TransferWithFeeConserves
<1> HIDE DEF g
<1>5. Accounted(g)
  BY <1>2, <1>4, AccountedIsConserved
<1> QED
  BY <1>2, <1>4, <1>5 DEF LedgerOK, g

\* A transfer that arrives is on the books once.
LEMMA TransferInOK ==
  ASSUME NEW n \in Ids, NEW l, LedgerOK(l, n), NEW tx \in Transactions, NEW key \in Ids,
         tx.recipient = n
  PROVE  LedgerOK(ReceiveTransfer(l, tx, key, n), n)
<1> DEFINE g == ReceiveTransfer(l, tx, key, n)
           more == IF tx \in l.received THEN 0 ELSE tx.amount
<1>1. LedgerTypeOK(l) /\ l.received \subseteq Transactions /\ IsFiniteSet(l.received)
  BY DEF LedgerOK, LedgerTypeOK
<1>2. Worth(l.received) \in Nat /\ Conserved(l, Worth(l.received))
  BY <1>1, WorthFacts, AccountedIsConserved DEF LedgerOK
<1>3. /\ LedgerTypeOK(g) /\ Conserved(g, Worth(l.received) + more)
      /\ g.received = l.received \cup {tx} /\ g.members # {}
  BY <1>1, <1>2, ReceiveType, ReceiveConserves
<1>4. IsFiniteSet(g.received) /\ Worth(g.received) = Worth(l.received) + more
  <2>1. CASE tx \in l.received
    <3>1. g.received = l.received
      BY <1>3, <2>1
    <3>2. more = 0
      BY <2>1
    <3> HIDE DEF g, more
    <3> QED
      BY <1>1, <1>2, <3>1, <3>2
  <2>2. CASE tx \notin l.received
    BY <1>1, <1>3, <2>2, WorthAdd
  <2> QED
    BY <2>1, <2>2
<1> HIDE DEF g, more
<1>5. Accounted(g)
  BY <1>3, <1>4, AccountedIsConserved
<1>6. \A x \in g.received : x.recipient = n
  BY <1>3 DEF LedgerOK
<1> QED
  BY <1>3, <1>4, <1>5, <1>6 DEF LedgerOK, g

\* What the file is after fs::write, whatever became of it.
LEMMA WrittenFile ==
  ASSUME NEW n, NEW old, FileOK(old, n), NEW f, FileOK(f, n), NEW w \in WriteOutcomes(old, f)
  PROVE  FileOK(w.file, n)
<1>1. FileOK(Corrupt, n)
  BY DEF FileOK, Corrupt
<1>2. w.file \in {f, old, Corrupt}
  BY DEF WriteOutcomes
<1> QED
  BY <1>1, <1>2

\* A step that gives node n another ledger and another file.
LEMMA WalletStepOK ==
  ASSUME WalletInv, NEW n \in Ids, NEW l, LedgerOK(l, n), mem' = [mem EXCEPT ![n] = l],
         DOMAIN disk' = Ids, FileOK(disk'[n], n), \A k \in Ids \ {n} : disk'[k] = disk[k],
         IsFiniteSet(inbox'), \A m \in inbox' : m.tx \in Transactions,
         DOMAIN up' = Ids, crashes' \in Nat, crashes' = 0 => \A k \in Ids : up'[k]
  PROVE  WalletInv'
<1>1. DOMAIN mem' = Ids /\ mem'[n] = l /\ \A k \in Ids \ {n} : mem'[k] = mem[k]
  BY DEF WalletInv
<1>2. ASSUME NEW k \in Ids PROVE LedgerOK(mem'[k], k) /\ FileOK(disk'[k], k)
  <2>1. CASE k = n
    BY <1>1, <2>1
  <2>2. CASE k # n
    BY <1>1, <2>2 DEF WalletInv
  <2> QED
    BY <2>1, <2>2
<1> QED
  BY <1>1, <1>2 DEF WalletInv

\* What POST /api/onebank/wallet/send works on.
LEMMA SendFacts ==
  ASSUME WalletInv, NEW n \in Ids, NEW r \in Ids, NEW a \in SendAmounts
  PROVE  /\ SendTx(n, r, a) \in Transactions
         /\ SendTx(n, r, a).amount = a /\ SendTx(n, r, a).recipient = r
         /\ LedgerOK(SendLedger(n, r), n)
         /\ ApplyTransferWithFeeOk(SendLedger(n, r), SendTx(n, r, a), n, WALLET_FEE_BPS)
              => LedgerOK(SendResult(n, r, a), n)
<1>1. LedgerOK(mem[n], n)
  BY DEF WalletInv
<1>2. Get(mem[n].nonces, n) \in Nat
  BY <1>1, GetOfMap DEF LedgerOK, LedgerTypeOK
<1>3. a \in Atoms
  BY WalletInputs
<1>4. /\ SendTx(n, r, a) \in Transactions
      /\ SendTx(n, r, a).amount = a /\ SendTx(n, r, a).recipient = r
  BY <1>2, <1>3 DEF SendTx, Transaction, Transactions
<1>5. LedgerOK(SendLedger(n, r), n)
  BY <1>1, EnsureMemberOK DEF SendLedger
<1>6. WALLET_FEE_BPS \in Nat
  BY DEF WALLET_FEE_BPS
<1> DEFINE tx == SendTx(n, r, a)
           l == SendLedger(n, r)
<1>7. tx \in Transactions /\ LedgerOK(l, n)
  BY <1>4, <1>5
<1> HIDE DEF tx, l
<1>8. ApplyTransferWithFeeOk(l, tx, n, WALLET_FEE_BPS)
        => LedgerOK(ApplyTransferWithFee(l, tx, n, WALLET_FEE_BPS), n)
  BY <1>6, <1>7, TransferOutOK
<1> QED
  BY <1>4, <1>5, <1>8 DEF tx, l, SendResult

\* The dispatcher adds both sides as members, which leaves the amounts alone.
LEMMA RefusedFacts ==
  ASSUME WalletInv, NEW n \in Ids, NEW s \in Ids
  PROVE  /\ LedgerOK(ReceiveLedger(n, s), n)
         /\ Get(ReceiveLedger(n, s).balances, n) = Get(mem[n].balances, n)
         /\ ReceiveLedger(n, s).fees = mem[n].fees
         /\ ReceiveLedger(n, s).received = mem[n].received
<1> DEFINE l == EnsureMember(mem[n], s)
           g == EnsureMember(l, n)
<1>1. LedgerOK(mem[n], n) /\ LedgerTypeOK(mem[n])
  BY DEF WalletInv, LedgerOK
<1>2. /\ LedgerOK(l, n) /\ Get(l.balances, n) = Get(mem[n].balances, n)
      /\ l.fees = mem[n].fees /\ l.received = mem[n].received
  BY <1>1, EnsureMemberOK, EnsureMemberConserves
<1>3. ReceiveLedger(n, s) = g
  BY DEF ReceiveLedger
<1> HIDE DEF l
<1>4. LedgerTypeOK(l)
  BY <1>2 DEF LedgerOK
<1>5. LedgerOK(g, n)
  BY <1>2, EnsureMemberOK
<1>6. Get(g.balances, n) = Get(l.balances, n) /\ g.fees = l.fees /\ g.received = l.received
  BY <1>4, EnsureMemberConserves
<1> QED
  BY <1>2, <1>3, <1>5, <1>6

\* What the dispatcher works on.
LEMMA ReceiveFacts ==
  ASSUME WalletInv, NEW n \in Ids, NEW m \in inbox, m.tx.recipient = n
  PROVE  /\ m.tx \in Transactions /\ m.tx.sender \in Ids
         /\ LedgerOK(ReceiveLedger(n, m.tx.sender), n)
         /\ LedgerOK(ReceiveResult(n, m.tx), n)
<1>1. m.tx \in Transactions /\ LedgerOK(mem[n], n)
  BY DEF WalletInv
<1>2. m.tx.sender \in Ids
  BY <1>1, TransactionFields
<1>3. LedgerOK(EnsureMember(mem[n], m.tx.sender), n)
  BY <1>1, <1>2, EnsureMemberOK
<1> DEFINE l == ReceiveLedger(n, m.tx.sender)
           tx == m.tx
<1>4. LedgerOK(l, n) /\ tx \in Transactions /\ tx.sender \in Ids /\ tx.recipient = n
  BY <1>1, <1>2, <1>3, EnsureMemberOK DEF ReceiveLedger
<1> HIDE DEF l, tx
<1>5. LedgerOK(ReceiveTransfer(l, tx, tx.sender, n), n)
  BY <1>4, TransferInOK
<1> QED
  BY <1>4, <1>5 DEF l, tx, ReceiveResult

\* The inbox of the next state: part of the old one and copies of a transaction.
LEMMA InboxOK ==
  ASSUME WalletInv, NEW tx \in Transactions, NEW copies \in 0..2,
         inbox' = inbox \cup {[tx |-> tx, copy |-> i] : i \in 1..copies}
  PROVE  IsFiniteSet(inbox') /\ \A m \in inbox' : m.tx \in Transactions
<1> DEFINE new == {[tx |-> tx, copy |-> i] : i \in 1..copies}
<1>1. new \subseteq {[tx |-> tx, copy |-> 1], [tx |-> tx, copy |-> 2]}
  OBVIOUS
<1>2. IsFiniteSet({[tx |-> tx, copy |-> 1], [tx |-> tx, copy |-> 2]})
  <2>1. IsFiniteSet({[tx |-> tx, copy |-> 1]}) /\ IsFiniteSet({[tx |-> tx, copy |-> 2]})
    BY FS_Singleton
  <2>2. {[tx |-> tx, copy |-> 1], [tx |-> tx, copy |-> 2]}
          = {[tx |-> tx, copy |-> 1]} \cup {[tx |-> tx, copy |-> 2]}
    OBVIOUS
  <2> QED
    BY <2>1, <2>2, FS_Union
<1>3. IsFiniteSet(new)
  BY <1>1, <1>2, FS_Subset
<1>4. \A m \in new : m.tx \in Transactions
  OBVIOUS
<1> HIDE DEF new
<1>5. inbox' = inbox \cup new
  BY DEF new
<1>6. IsFiniteSet(inbox) /\ \A m \in inbox : m.tx \in Transactions
  BY DEF WalletInv
<1> QED
  BY <1>3, <1>4, <1>5, <1>6, FS_Union

LEMMA InboxSame ==
  ASSUME WalletInv, inbox' \subseteq inbox
  PROVE  IsFiniteSet(inbox') /\ \A m \in inbox' : m.tx \in Transactions
BY FS_Subset DEF WalletInv

LEMMA WalletSend ==
  ASSUME WalletInv, NEW n \in Ids, NEW r \in Ids, NEW a \in SendAmounts, Send(n, r, a)
  PROVE  WalletInv'
<1>1. /\ SendTx(n, r, a) \in Transactions
      /\ LedgerOK(SendResult(n, r, a), n)
  BY SendFacts DEF Send, SendAccepted
<1> DEFINE tx == SendTx(n, r, a)
           l == SendResult(n, r, a)
<1>2. FileOK(File(l), n) /\ FileOK(disk[n], n) /\ DOMAIN disk = Ids
  BY <1>1 DEF FileOK, File, WalletInv
<1>3. mem' = [mem EXCEPT ![n] = l] /\ up' = up /\ crashes' = crashes
  BY DEF Send
<1>4. PICK w \in WriteOutcomes(disk[n], File(l)), copies \in 0..2 :
             /\ disk' = [disk EXCEPT ![n] = w.file]
             /\ inbox' = inbox \cup {[tx |-> tx, copy |-> i] : i \in 1..copies}
  BY DEF Send
<1> HIDE DEF tx, l
<1>5. FileOK(w.file, n)
  BY <1>2, WrittenFile
<1>6. DOMAIN disk' = Ids /\ FileOK(disk'[n], n) /\ \A k \in Ids \ {n} : disk'[k] = disk[k]
  BY <1>2, <1>4, <1>5
<1>7. IsFiniteSet(inbox') /\ \A m \in inbox' : m.tx \in Transactions
  BY <1>1, <1>4, InboxOK DEF tx
<1>8. DOMAIN up' = Ids /\ crashes' \in Nat /\ (crashes' = 0 => \A k \in Ids : up'[k])
  BY <1>3 DEF WalletInv
<1>9. LedgerOK(l, n)
  BY <1>1 DEF l
<1> QED
  BY <1>3, <1>6, <1>7, <1>8, <1>9, WalletStepOK

LEMMA WalletReceives ==
  ASSUME WalletInv, NEW n \in Ids, NEW m \in inbox, WalletReceive(n, m)
  PROVE  WalletInv'
<1> DEFINE l == ReceiveResult(n, m.tx)
           f == IF Serializable(l) THEN File(l) ELSE Corrupt
<1>1. LedgerOK(l, n)
  BY ReceiveFacts DEF WalletReceive
<1>2. FileOK(f, n) /\ FileOK(disk[n], n) /\ DOMAIN disk = Ids
  BY <1>1 DEF FileOK, File, Corrupt, WalletInv
<1>3. mem' = [mem EXCEPT ![n] = l] /\ up' = up /\ crashes' = crashes /\ inbox' \subseteq inbox
  BY DEF WalletReceive
<1>4. PICK w \in WriteOutcomes(disk[n], f) : disk' = [disk EXCEPT ![n] = w.file]
  BY DEF WalletReceive
<1> HIDE DEF l, f
<1>5. FileOK(w.file, n)
  BY <1>2, WrittenFile
<1>6. DOMAIN disk' = Ids /\ FileOK(disk'[n], n) /\ \A k \in Ids \ {n} : disk'[k] = disk[k]
  BY <1>2, <1>4, <1>5
<1>7. IsFiniteSet(inbox') /\ \A x \in inbox' : x.tx \in Transactions
  BY <1>3, InboxSame
<1>8. DOMAIN up' = Ids /\ crashes' \in Nat /\ (crashes' = 0 => \A k \in Ids : up'[k])
  BY <1>3 DEF WalletInv
<1> QED
  BY <1>1, <1>3, <1>6, <1>7, <1>8, WalletStepOK

LEMMA WalletRestarts ==
  ASSUME WalletInv, NEW n \in Ids, Restart(n)
  PROVE  WalletInv'
<1> DEFINE loaded == IF disk[n].kind = "ledger" THEN disk[n].ledger ELSE DefaultLedger
           started == IF loaded.members = {} THEN InitializeGenesis(loaded, {n}) ELSE loaded
           file == IF loaded.members = {} THEN File(started) ELSE disk[n]
<1>1. FileOK(disk[n], n) /\ DOMAIN disk = Ids /\ DOMAIN up = Ids /\ crashes \in Nat
  BY DEF WalletInv
<1>2. LedgerOK(started, n)
  <2>1. CASE disk[n].kind = "ledger"
    <3>1. loaded = disk[n].ledger /\ LedgerOK(loaded, n)
      BY <1>1, <2>1 DEF FileOK
    <3>2. loaded.members # {}
      BY <3>1 DEF LedgerOK
    <3> QED
      BY <3>1, <3>2
  <2>2. CASE disk[n].kind # "ledger"
    <3>1. loaded = DefaultLedger /\ loaded.members = {}
      BY <2>2, DefaultLedgerFacts
    <3> HIDE DEF loaded
    <3>2. started = OwnGenesis(n)
      BY <3>1 DEF OwnGenesis
    <3> QED
      BY <3>2, OwnGenesisOK
  <2> QED
    BY <2>1, <2>2
<1>3. FileOK(file, n)
  <2>1. FileOK(File(started), n)
    BY <1>2 DEF FileOK, File
  <2> QED
    BY <1>1, <2>1
<1>4. /\ mem' = [mem EXCEPT ![n] = started] /\ disk' = [disk EXCEPT ![n] = file]
      /\ up' = [up EXCEPT ![n] = TRUE] /\ inbox' = inbox /\ crashes' = crashes
  BY DEF Restart
<1> HIDE DEF started, file
<1>5. DOMAIN disk' = Ids /\ FileOK(disk'[n], n) /\ \A k \in Ids \ {n} : disk'[k] = disk[k]
  BY <1>1, <1>3, <1>4
<1>6. IsFiniteSet(inbox') /\ \A x \in inbox' : x.tx \in Transactions
  BY <1>4, InboxSame
<1>7. DOMAIN up' = Ids /\ crashes' \in Nat /\ (crashes' = 0 => \A k \in Ids : up'[k])
  BY <1>1, <1>4 DEF WalletInv
<1> QED
  BY <1>2, <1>4, <1>5, <1>6, <1>7, WalletStepOK

LEMMA WalletFails ==
  ASSUME WalletInv, NEW n \in Ids, NEW r \in Ids, NEW a \in SendAmounts, CrashInWrite(n, r, a)
  PROVE  WalletInv' /\ crashes' > 0
<1>1. LedgerOK(SendResult(n, r, a), n)
  BY SendFacts DEF CrashInWrite, SendAccepted
<1>2. /\ mem' = [mem EXCEPT ![n] = SendResult(n, r, a)] /\ disk' = [disk EXCEPT ![n] = Corrupt]
      /\ up' = [up EXCEPT ![n] = FALSE] /\ inbox' = inbox /\ crashes' = crashes + 1
  BY DEF CrashInWrite
<1>3. FileOK(Corrupt, n) /\ DOMAIN disk = Ids /\ DOMAIN up = Ids /\ crashes \in Nat
  BY DEF FileOK, Corrupt, WalletInv
<1>4. DOMAIN disk' = Ids /\ FileOK(disk'[n], n) /\ \A k \in Ids \ {n} : disk'[k] = disk[k]
  BY <1>2, <1>3
<1>5. IsFiniteSet(inbox') /\ \A x \in inbox' : x.tx \in Transactions
  BY <1>2, InboxSame
<1>6. DOMAIN up' = Ids /\ crashes' \in Nat /\ crashes' > 0
  BY <1>2, <1>3
<1>7. crashes' # 0
  BY <1>6
<1> QED
  BY <1>1, <1>2, <1>4, <1>5, <1>6, <1>7, WalletStepOK

LEMMA WalletInvStep ==
  ASSUME WalletInv, [WalletNext]_walletVars
  PROVE  WalletInv'
<1>1. /\ DOMAIN mem = Ids /\ DOMAIN disk = Ids /\ DOMAIN up = Ids /\ crashes \in Nat
      /\ \A k \in Ids : FileOK(disk[k], k)
  BY DEF WalletInv
<1>2. ASSUME NEW n \in Ids, NEW l, LedgerOK(l, n), mem' = [mem EXCEPT ![n] = l],
             UNCHANGED <<disk, up, inbox, crashes>>
      PROVE  WalletInv'
  <2>1. DOMAIN disk' = Ids /\ FileOK(disk'[n], n) /\ \A k \in Ids \ {n} : disk'[k] = disk[k]
    BY <1>1, <1>2
  <2>2. IsFiniteSet(inbox') /\ \A x \in inbox' : x.tx \in Transactions
    BY <1>2, InboxSame
  <2>3. DOMAIN up' = Ids /\ crashes' \in Nat /\ (crashes' = 0 => \A k \in Ids : up'[k])
    BY <1>2 DEF WalletInv
  <2> QED
    BY <1>2, <2>1, <2>2, <2>3, WalletStepOK
<1>3. ASSUME NEW n \in Ids, NEW r \in Ids, NEW a \in SendAmounts, SendRefused(n, r, a)
      PROVE  WalletInv'
  <2>1. LedgerOK(SendLedger(n, r), n)
    BY SendFacts
  <2> QED
    BY <1>2, <1>3, <2>1 DEF SendRefused
<1>4. ASSUME NEW n \in Ids, NEW r \in Ids, NEW a \in SendAmounts, SendUnserializable(n, r, a)
      PROVE  WalletInv'
  <2>1. LedgerOK(SendResult(n, r, a), n)
    BY <1>4, SendFacts DEF SendUnserializable, SendAccepted
  <2> QED
    BY <1>2, <1>4, <2>1 DEF SendUnserializable
<1>5. ASSUME NEW m \in inbox, Lose(m) PROVE WalletInv'
  <2>1. IsFiniteSet(inbox') /\ \A x \in inbox' : x.tx \in Transactions
    BY <1>5, InboxSame DEF Lose
  <2> QED
    BY <1>5, <2>1 DEF Lose, WalletInv
<1>6. ASSUME NEW n \in Ids, Crash(n) PROVE WalletInv'
  <2>1. DOMAIN up' = Ids /\ crashes' \in Nat /\ crashes' # 0
    BY <1>1, <1>6 DEF Crash
  <2> QED
    BY <1>6, <2>1 DEF Crash, WalletInv
<1>7. CASE UNCHANGED walletVars
  BY <1>7 DEF walletVars, WalletInv
<1>8. ASSUME NEW n \in Ids, NEW s \in Ids, ReceiveRefused(n, s) PROVE WalletInv'
  BY <1>2, <1>8, RefusedFacts DEF ReceiveRefused
<1> QED
  BY <1>3, <1>4, <1>5, <1>6, <1>7, <1>8, WalletSend, WalletReceives, WalletRestarts, WalletFails
     DEF WalletNext

LEMMA WalletAlways == WalletSpec => []WalletInv
<1>1. WalletInit => WalletInv
  <2> SUFFICES ASSUME WalletInit PROVE WalletInv
    OBVIOUS
  <2>1. \A n \in Ids : LedgerOK(mem[n], n) /\ FileOK(disk[n], n)
    BY OwnGenesisOK DEF WalletInit, FileOK, File
  <2>2. IsFiniteSet(inbox) /\ inbox = {}
    BY FS_EmptySet DEF WalletInit
  <2> QED
    BY <2>1, <2>2 DEF WalletInit, WalletInv
<1>2. WalletInv /\ [WalletNext]_walletVars => WalletInv'
  BY WalletInvStep
<1> QED
  BY <1>1, <1>2, PTL DEF WalletSpec

\* Crashes, torn and failed writes, lost and repeated deliveries: the ledger in
\* memory and the one a restart would load account for every atom, for any number
\* of wallets.
THEOREM WalletsAccounted == WalletSpec => []LedgersAccounted
<1>1. WalletInv => LedgersAccounted
  BY DEF WalletInv, LedgersAccounted, LedgerOK, FileOK
<1> QED
  BY <1>1, WalletAlways, PTL

-----------------------------------------------------------------------------
(* No coin from nothing *)

\* Every transfer some wallet has credited.
Credited == UNION {mem[k].received : k \in Ids}

LEMMA HoldingsFacts ==
  ASSUME WalletInv
  PROVE  /\ Summable(Holdings, Ids) /\ SumFunctionOnSet(Holdings, Ids) \in Nat
         /\ \A n \in Ids : /\ OwnBalance(n) \in Nat /\ mem[n].fees \in Nat
                           /\ Holdings[n] = OwnBalance(n) + mem[n].fees
                           /\ OwnBalance(n) <= SumFunctionOnSet(Holdings, Ids)
<1>1. ASSUME NEW n \in Ids
      PROVE  /\ OwnBalance(n) \in Nat /\ mem[n].fees \in Nat
             /\ Holdings[n] = OwnBalance(n) + mem[n].fees
  BY LedgerNumbers DEF WalletInv, LedgerOK, OwnBalance, Holdings
<1>2. IsFiniteSet(Ids)
  BY IdSetsAreFinite
<1>3. \A n \in Ids : Holdings[n] \in Nat
  BY <1>1
<1>4. Summable(Holdings, Ids)
  BY <1>2, <1>3 DEF Summable
<1>5. ASSUME NEW n \in Ids PROVE OwnBalance(n) <= SumFunctionOnSet(Holdings, Ids)
  <2>1. /\ SumFunctionOnSet(Holdings, Ids) = Holdings[n] + SumFunctionOnSet(Holdings, Ids \ {n})
        /\ SumFunctionOnSet(Holdings, Ids \ {n}) \in Nat
    BY <1>4, SumSplit
  <2> QED
    BY <1>1, <2>1
<1> QED
  BY <1>1, <1>4, <1>5, SumIsNat

\* Another ledger for node n changes the holdings by what changes in it.
LEMMA HoldingsChange ==
  ASSUME WalletInv, NEW n \in Ids, NEW l, LedgerOK(l, n), mem' = [mem EXCEPT ![n] = l]
  PROVE  /\ SumFunctionOnSet(Holdings', Ids) \in Nat
         /\ SumFunctionOnSet(Holdings', Ids) + (OwnBalance(n) + mem[n].fees)
              = SumFunctionOnSet(Holdings, Ids) + (Get(l.balances, n) + l.fees)
<1>1. DOMAIN mem = Ids
  BY DEF WalletInv
<1>2. Holdings'[n] = Get(l.balances, n) + l.fees
  BY <1>1 DEF Holdings, OwnBalance
<1>3. \A k \in Ids \ {n} : Holdings'[k] = Holdings[k]
  BY <1>1 DEF Holdings, OwnBalance
<1>4. Get(l.balances, n) + l.fees \in Nat
  <2>1. LedgerTypeOK(l)
    BY DEF LedgerOK
  <2>2. Get(l.balances, n) \in Nat /\ l.fees \in Nat
    BY <2>1, LedgerNumbers
  <2> QED
    BY <2>2
<1>5. Summable(Holdings, Ids) /\ Holdings[n] = OwnBalance(n) + mem[n].fees
  BY HoldingsFacts
<1>6. /\ Summable(Holdings', Ids)
      /\ SumFunctionOnSet(Holdings', Ids) + Holdings[n] = SumFunctionOnSet(Holdings, Ids) + Holdings'[n]
  BY <1>2, <1>3, <1>4, <1>5, SumChange
<1> QED
  BY <1>2, <1>5, <1>6, SumIsNat

LEMMA UndeliveredFacts ==
  ASSUME WalletInv
  PROVE  IsFiniteSet(Undelivered) /\ Undelivered \subseteq Transactions /\ Worth(Undelivered) \in Nat
<1>1. IsFiniteSet({m.tx : m \in inbox})
  <2> DEFINE carried == [m \in inbox |-> m.tx]
  <2>1. carried \in Surjection(inbox, {m.tx : m \in inbox})
    BY DEF Surjection
  <2> HIDE DEF carried
  <2> QED
    BY <2>1, FS_Surjection DEF WalletInv
<1>2. IsFiniteSet(Undelivered)
  BY <1>1, FS_Subset DEF Undelivered
<1>3. Undelivered \subseteq Transactions
  BY DEF Undelivered, WalletInv
<1> QED
  BY <1>2, <1>3, WorthFacts

\* Fewer transfers on their way are worth no more.
LEMMA WorthFalls ==
  ASSUME WalletInv, NEW txs \in SUBSET Undelivered
  PROVE  Worth(txs) \in Nat /\ Worth(txs) <= Worth(Undelivered)
<1>1. IsFiniteSet(Undelivered) /\ Undelivered \subseteq Transactions
  BY UndeliveredFacts
<1>2. IsFiniteSet(txs) /\ txs \subseteq Transactions /\ Worth(txs) <= Worth(Undelivered)
  BY <1>1, WorthOfPart
<1> QED
  BY <1>2, WorthFacts

\* One transfer more on its way adds at most its amount.
LEMMA WorthGrows ==
  ASSUME WalletInv, NEW tx \in Transactions, NEW txs \in SUBSET (Undelivered \cup {tx})
  PROVE  Worth(txs) \in Nat /\ Worth(txs) <= Worth(Undelivered) + tx.amount
<1>1. IsFiniteSet(Undelivered) /\ Undelivered \subseteq Transactions /\ Worth(Undelivered) \in Nat
  BY UndeliveredFacts
<1>2. tx.amount \in Nat
  BY TransactionFields
<1>3. CASE tx \in Undelivered
  <2>1. txs \in SUBSET Undelivered
    BY <1>3
  <2> QED
    BY <1>1, <1>2, <2>1, WorthFalls
<1>4. CASE tx \notin Undelivered
  <2>1. IsFiniteSet(Undelivered \cup {tx}) /\ Undelivered \cup {tx} \subseteq Transactions
    BY <1>1, <1>4, WorthAdd
  <2>2. Worth(Undelivered \cup {tx}) = Worth(Undelivered) + tx.amount
    BY <1>1, <1>4, WorthAdd
  <2>3. IsFiniteSet(txs) /\ Worth(txs) <= Worth(Undelivered \cup {tx}) /\ txs \subseteq Transactions
    BY <2>1, WorthOfPart
  <2> QED
    BY <2>2, <2>3, WorthFacts
<1> QED
  BY <1>3, <1>4

\* What is credited was on its way, and is not any more.
LEMMA WorthCredited ==
  ASSUME WalletInv, NEW tx \in Undelivered, NEW txs \in SUBSET (Undelivered \ {tx})
  PROVE  Worth(txs) \in Nat /\ Worth(txs) + tx.amount <= Worth(Undelivered)
<1> DEFINE rest == Undelivered \ {tx}
<1>1. IsFiniteSet(Undelivered) /\ Undelivered \subseteq Transactions
  BY UndeliveredFacts
<1>2. IsFiniteSet(rest) /\ rest \subseteq Transactions /\ tx \in Transactions /\ tx \notin rest
  BY <1>1, FS_Subset
<1>3. rest \cup {tx} = Undelivered
  OBVIOUS
<1>4. txs \in SUBSET rest
  OBVIOUS
<1> HIDE DEF rest
<1>5. Worth(Undelivered) = Worth(rest) + tx.amount /\ Worth(rest) \in Nat
  <2>1. Worth(rest \cup {tx}) = Worth(rest) + tx.amount
    BY <1>2, WorthAdd
  <2> QED
    BY <1>2, <1>3, <2>1, WorthFacts
<1>6. IsFiniteSet(txs) /\ txs \subseteq Transactions /\ Worth(txs) <= Worth(rest)
  BY <1>2, <1>4, WorthOfPart
<1>7. Worth(txs) \in Nat /\ tx.amount \in Nat
  BY <1>2, <1>6, WorthFacts, TransactionFields
<1> QED
  BY <1>5, <1>6, <1>7

\* The sender pays what the recipient will get and the fee; nothing saturates as
\* long as the sender holds less than u128::MAX.
LEMMA SenderPays ==
  ASSUME NEW n \in Ids, NEW l, LedgerTypeOK(l), NEW tx \in Transactions, tx.recipient # n,
         NEW bps \in Nat, ApplyTransferWithFeeOk(l, tx, n, bps), Get(l.balances, n) < MaxAtoms
  PROVE  LET g == ApplyTransferWithFee(l, tx, n, bps)
         IN  /\ Get(g.balances, n) + g.fees + tx.amount <= Get(l.balances, n) + l.fees
             /\ g.received = l.received
<1> DEFINE g == ApplyTransferWithFee(l, tx, n, bps)
           fee == Fee(tx, bps)
           old == Get(l.balances, n)
           a == tx.amount
           out == SatAdd(a, fee)
           rest == old - out
           d == Put(l.balances, n, rest)
<1>1. /\ g.fees = SatAdd(l.fees, fee) /\ g.received = l.received
      /\ g.balances = Put(d, tx.recipient, SatAdd(Get(d, tx.recipient), a))
  BY DEF ApplyTransferWithFee, LedgerTypeOK, MoveFunds
<1>2. a \in Nat /\ old \in Nat /\ l.fees \in Nat /\ fee \in Nat /\ old < MaxAtoms
  <2>1. fee \in Atoms
    BY FeeType
  <2> QED
    BY <2>1, TransactionFields, LedgerNumbers, LedgerAssumption DEF Atoms
<1>3. old >= out
  BY DEF ApplyTransferWithFeeOk, TransferOk
<1> HIDE DEF fee, a, old
<1>4. out \in Nat /\ (out < MaxAtoms => out = a + fee)
  BY <1>2, LedgerAssumption DEF SatAdd
<1>5. SatAdd(l.fees, fee) <= l.fees + fee /\ SatAdd(l.fees, fee) \in Nat
  BY <1>2, LedgerAssumption DEF SatAdd
<1> HIDE DEF out
<1>6. rest \in Nat /\ rest = old - (a + fee)
  BY <1>2, <1>3, <1>4, LedgerAssumption
<1>7. Get(d, n) = rest
  BY DEF d, Get, Put
<1> HIDE DEF rest, d
<1>8. Get(g.balances, n) = Get(d, n)
  <2> DEFINE v == SatAdd(Get(d, tx.recipient), a)
  <2> HIDE DEF v, g
  <2>1. g.balances = Put(d, tx.recipient, v)
    BY <1>1 DEF v
  <2> QED
    BY <2>1 DEF Get, Put
<1> HIDE DEF g
<1>9. Get(g.balances, n) + g.fees + a <= old + l.fees
  BY <1>1, <1>2, <1>5, <1>6, <1>7, <1>8
<1> QED
  BY <1>1, <1>9 DEF g, a, old

\* A credit adds the amount, or less when the balance saturates.
LEMMA RecipientGets ==
  ASSUME NEW n \in Ids, NEW l, LedgerTypeOK(l), NEW tx \in Transactions, NEW key \in Ids
  PROVE  LET g == ReceiveTransfer(l, tx, key, n)
         IN  /\ Get(g.balances, n) <= Get(l.balances, n)
                                        + (IF tx \in l.received THEN 0 ELSE tx.amount)
             /\ g.fees = l.fees
             /\ g.received = l.received \cup {tx}
<1> DEFINE h == EnsureMember(l, key)
           k == EnsureMember(h, n)
           v == SatAdd(Get(k.balances, n), tx.amount)
           g == ReceiveTransfer(l, tx, key, n)
<1>1. LedgerTypeOK(h) /\ (\A x : Get(h.balances, x) = Get(l.balances, x))
      /\ h.fees = l.fees /\ h.received = l.received
  BY EnsureMemberType, EnsureMemberConserves
<1>2. LedgerTypeOK(k) /\ Get(k.balances, n) = Get(l.balances, n) /\ k.fees = l.fees /\ k.received = l.received
  <2> HIDE DEF h
  <2> QED BY <1>1, EnsureMemberType, EnsureMemberConserves
<1>3. g = IF tx \in k.received THEN k
          ELSE [k EXCEPT !.balances = Put(@, n, v), !.received = @ \cup {tx}]
  BY DEF ReceiveTransfer
<1>4. Get(l.balances, n) \in Nat /\ tx.amount \in Nat
  BY LedgerNumbers, TransactionFields
<1> HIDE DEF k
<1>5. v <= Get(l.balances, n) + tx.amount
  BY <1>2, <1>4, LedgerAssumption DEF SatAdd
<1> HIDE DEF v, g
<1>6. CASE tx \in l.received
  BY <1>2, <1>3, <1>4, <1>6 DEF g
<1>7. CASE tx \notin l.received
  <2>1. g = [k EXCEPT !.balances = Put(@, n, v), !.received = @ \cup {tx}]
    BY <1>2, <1>3, <1>7
  <2>2. g.balances = Put(k.balances, n, v) /\ g.fees = k.fees /\ g.received = k.received \cup {tx}
    BY <1>2, <2>1 DEF LedgerTypeOK
  <2>3. Get(g.balances, n) = v
    BY <2>2 DEF Get, Put
  <2> QED
    BY <1>2, <1>5, <1>7, <2>2, <2>3 DEF g
<1> QED
  BY <1>6, <1>7

\* Genesis of all nodes is a number.
LEMMA GenesisRoom == GenesisAllocation * MaxIds \in Nat /\ GenesisAllocation * MaxIds < MaxAtoms
BY LedgerAssumption, WalletInputs, ProductIsNat

LEMMA Balance ==
  ASSUME NEW sum \in Nat, NEW sum1 \in Nat, NEW worth \in Nat, NEW worth1 \in Nat,
         NEW old \in Nat, NEW new \in Nat, NEW room \in Nat, sum1 + old = sum + new,
         new + worth1 <= old + worth, sum + worth <= room
  PROVE  sum1 + worth1 <= room
OBVIOUS

\* A step of node n that hands on at least what it takes.
LEMMA NothingGained ==
  ASSUME WalletInv, WalletInv', NoInflation, crashes = 0, NEW n \in Ids, NEW l, LedgerOK(l, n),
         mem' = [mem EXCEPT ![n] = l],
         (Get(l.balances, n) + l.fees) + Worth(Undelivered')
           <= (OwnBalance(n) + mem[n].fees) + Worth(Undelivered)
  PROVE  SumFunctionOnSet(Holdings', Ids) + Worth(Undelivered') <= GenesisAllocation * MaxIds
<1>1. /\ SumFunctionOnSet(Holdings', Ids) \in Nat
      /\ SumFunctionOnSet(Holdings', Ids) + (OwnBalance(n) + mem[n].fees)
           = SumFunctionOnSet(Holdings, Ids) + (Get(l.balances, n) + l.fees)
  BY HoldingsChange
<1>2. SumFunctionOnSet(Holdings, Ids) \in Nat /\ OwnBalance(n) \in Nat /\ mem[n].fees \in Nat
  BY HoldingsFacts
<1>3. Worth(Undelivered) \in Nat
  BY UndeliveredFacts
<1>4. Worth(Undelivered') \in Nat
  <2>1. /\ IsFiniteSet(inbox') /\ \A m \in inbox' : m.tx \in Transactions
    BY DEF WalletInv
  <2>2. IsFiniteSet({m.tx : m \in inbox'})
    <3> DEFINE carried == [m \in inbox' |-> m.tx]
    <3>1. carried \in Surjection(inbox', {m.tx : m \in inbox'})
      BY DEF Surjection
    <3> HIDE DEF carried
    <3> QED
      BY <2>1, <3>1, FS_Surjection
  <2>3. Undelivered' \subseteq {m.tx : m \in inbox'}
    BY DEF Undelivered
  <2>4. IsFiniteSet(Undelivered') /\ Undelivered' \subseteq Transactions
    BY <2>1, <2>2, <2>3, FS_Subset
  <2> QED
    BY <2>4, WorthFacts
<1>5. Get(l.balances, n) \in Nat /\ l.fees \in Nat
  <2>1. LedgerTypeOK(l)
    BY DEF LedgerOK
  <2> QED
    BY <2>1, LedgerNumbers
<1>6. SumFunctionOnSet(Holdings, Ids) + Worth(Undelivered) <= GenesisAllocation * MaxIds
  BY DEF NoInflation
<1> DEFINE sum == SumFunctionOnSet(Holdings, Ids)
           sum1 == SumFunctionOnSet(Holdings', Ids)
           worth == Worth(Undelivered)
           worth1 == Worth(Undelivered')
           old == OwnBalance(n) + mem[n].fees
           new == Get(l.balances, n) + l.fees
           room == GenesisAllocation * MaxIds
<1>7. sum \in Nat /\ sum1 \in Nat /\ worth \in Nat /\ worth1 \in Nat
  BY <1>1, <1>2, <1>3, <1>4
<1>8. old \in Nat /\ new \in Nat /\ room \in Nat
  BY <1>2, <1>5, GenesisRoom
<1>9. sum1 + old = sum + new /\ new + worth1 <= old + worth /\ sum + worth <= room
  BY <1>1, <1>6
<1> HIDE DEF sum, sum1, worth, worth1, old, new, room
<1>10. sum1 + worth1 <= room
  BY <1>7, <1>8, <1>9, Balance
<1> QED
  BY <1>10 DEF sum1, worth1, room

\* No wallet can hold as much as u128::MAX.
LEMMA BelowMax ==
  ASSUME WalletInv, NoInflation, crashes = 0, NEW n \in Ids
  PROVE  OwnBalance(n) < MaxAtoms
<1>1. /\ SumFunctionOnSet(Holdings, Ids) \in Nat /\ OwnBalance(n) \in Nat
      /\ OwnBalance(n) <= SumFunctionOnSet(Holdings, Ids)
  BY HoldingsFacts
<1>2. Worth(Undelivered) \in Nat
  BY UndeliveredFacts
<1>3. SumFunctionOnSet(Holdings, Ids) + Worth(Undelivered) <= GenesisAllocation * MaxIds
  BY DEF NoInflation
<1> DEFINE room == GenesisAllocation * MaxIds
<1>4. room \in Nat /\ room < MaxAtoms
  BY GenesisRoom
<1>5. SumFunctionOnSet(Holdings, Ids) + Worth(Undelivered) <= room
  BY <1>3
<1> HIDE DEF room
<1> QED
  BY <1>1, <1>2, <1>4, <1>5, LedgerAssumption

\* A ledger that has received nothing new leaves Credited alone.
LEMMA CreditedSame ==
  ASSUME WalletInv, NEW n \in Ids, NEW l, mem' = [mem EXCEPT ![n] = l],
         l.received = mem[n].received
  PROVE  Credited' = Credited
<1>1. \A k \in Ids : mem'[k].received = mem[k].received
  BY DEF WalletInv
<1> QED
  BY <1>1 DEF Credited

\* What a send does to the sender's own ledger.
LEMMA SendLoses ==
  ASSUME WalletInv, NoInflation, crashes = 0, NEW n \in Ids, NEW r \in Ids,
         NEW a \in SendAmounts, SendAccepted(n, r, a)
  PROVE  /\ LedgerOK(SendResult(n, r, a), n)
         /\ SendTx(n, r, a) \in Transactions /\ SendTx(n, r, a).amount = a /\ a \in Nat
         /\ SendResult(n, r, a).received = mem[n].received
         /\ (Get(SendResult(n, r, a).balances, n) + SendResult(n, r, a).fees) + a
              <= OwnBalance(n) + mem[n].fees
<1> DEFINE tx == SendTx(n, r, a)
           l == SendLedger(n, r)
           g == ApplyTransferWithFee(l, tx, n, WALLET_FEE_BPS)
<1>1. /\ tx \in Transactions /\ tx.amount = a /\ tx.recipient = r /\ r # n
      /\ LedgerOK(l, n) /\ ApplyTransferWithFeeOk(l, tx, n, WALLET_FEE_BPS)
      /\ LedgerOK(SendResult(n, r, a), n) /\ SendResult(n, r, a) = g
  BY SendFacts DEF SendAccepted, SendResult
<1>2. LedgerTypeOK(mem[n])
  BY DEF WalletInv, LedgerOK
<1>3. /\ Get(l.balances, n) = OwnBalance(n) /\ l.fees = mem[n].fees /\ l.received = mem[n].received
  BY <1>2, EnsureMemberConserves DEF SendLedger, OwnBalance
<1>4. Get(l.balances, n) < MaxAtoms
  BY <1>3, BelowMax
<1>5. LedgerTypeOK(l) /\ WALLET_FEE_BPS \in Nat
  BY <1>1 DEF LedgerOK, WALLET_FEE_BPS
<1>6. /\ Get(g.balances, n) + g.fees + tx.amount <= Get(l.balances, n) + l.fees
      /\ g.received = l.received
  <2> HIDE DEF tx, l
  <2> QED BY <1>1, <1>4, <1>5, SenderPays
<1>7. a \in Nat
  BY <1>1, TransactionFields
<1> HIDE DEF g, tx, l
<1> QED
  BY <1>1, <1>3, <1>6, <1>7 DEF tx

LEMMA SendGainsNothing ==
  ASSUME WalletInv, WalletInv', NoInflation, crashes = 0, NEW n \in Ids, NEW r \in Ids,
         NEW a \in SendAmounts, SendAccepted(n, r, a), mem' = [mem EXCEPT ![n] = SendResult(n, r, a)],
         \A m \in inbox' : m \in inbox \/ m.tx = SendTx(n, r, a)
  PROVE  SumFunctionOnSet(Holdings', Ids) + Worth(Undelivered') <= GenesisAllocation * MaxIds
<1> DEFINE l == SendResult(n, r, a)
           tx == SendTx(n, r, a)
<1>1. /\ LedgerOK(l, n) /\ tx \in Transactions /\ tx.amount = a /\ a \in Nat
      /\ l.received = mem[n].received
      /\ (Get(l.balances, n) + l.fees) + a <= OwnBalance(n) + mem[n].fees
  BY SendLoses
<1> HIDE DEF l
<1>2. mem' = [mem EXCEPT ![n] = l]
  BY DEF l
<1>3. Credited' = Credited
  BY <1>1, <1>2, CreditedSame
<1>4. Undelivered' \in SUBSET (Undelivered \cup {tx})
  BY <1>3 DEF Undelivered, Credited
<1> HIDE DEF tx
<1>5. Worth(Undelivered') \in Nat /\ Worth(Undelivered') <= Worth(Undelivered) + a
  BY <1>1, <1>4, WorthGrows
<1>6. Worth(Undelivered) \in Nat /\ OwnBalance(n) \in Nat /\ mem[n].fees \in Nat
  BY UndeliveredFacts, HoldingsFacts
<1>7. Get(l.balances, n) \in Nat /\ l.fees \in Nat
  <2>1. LedgerTypeOK(l)
    BY <1>1 DEF LedgerOK
  <2> QED
    BY <2>1, LedgerNumbers
<1>8. (Get(l.balances, n) + l.fees) + Worth(Undelivered')
        <= (OwnBalance(n) + mem[n].fees) + Worth(Undelivered)
  BY <1>1, <1>5, <1>6, <1>7
<1> QED
  BY <1>1, <1>2, <1>8, NothingGained

LEMMA ReceiveGainsNothing ==
  ASSUME WalletInv, WalletInv', NoInflation, crashes = 0, NEW n \in Ids, NEW m \in inbox,
         WalletReceive(n, m)
  PROVE  SumFunctionOnSet(Holdings', Ids) + Worth(Undelivered') <= GenesisAllocation * MaxIds
<1> DEFINE tx == m.tx
           known == ReceiveLedger(n, tx.sender)
           l == ReceiveResult(n, tx)
           more == IF tx \in mem[n].received THEN 0 ELSE tx.amount
<1>1. /\ tx.recipient = n /\ tx \in Transactions /\ tx.sender \in Ids
      /\ LedgerOK(known, n) /\ LedgerOK(l, n)
  BY ReceiveFacts DEF WalletReceive
<1>2. LedgerTypeOK(mem[n])
  BY DEF WalletInv, LedgerOK
<1>3. /\ Get(known.balances, n) = OwnBalance(n) /\ known.fees = mem[n].fees
      /\ known.received = mem[n].received
  BY <1>1, RefusedFacts DEF OwnBalance
<1>4. LedgerTypeOK(known)
  BY <1>1 DEF LedgerOK
<1>5. l = ReceiveTransfer(known, tx, tx.sender, n)
  BY DEF ReceiveResult
<1> HIDE DEF known, l
<1>6. /\ Get(l.balances, n) <= OwnBalance(n) + more /\ l.fees = mem[n].fees
      /\ l.received = mem[n].received \cup {tx}
  <2> HIDE DEF tx
  <2>1. /\ Get(l.balances, n) <= Get(known.balances, n)
                                   + (IF tx \in known.received THEN 0 ELSE tx.amount)
        /\ l.fees = known.fees /\ l.received = known.received \cup {tx}
    BY <1>1, <1>4, <1>5, RecipientGets
  <2> QED
    BY <1>3, <2>1
<1>7. mem' = [mem EXCEPT ![n] = l] /\ inbox' = inbox \ {m} /\ DOMAIN mem = Ids
  BY DEF WalletReceive, l, WalletInv
<1>8. mem'[n] = l /\ \A k \in Ids \ {n} : mem'[k] = mem[k]
  BY <1>7
<1>9. Credited \cup {tx} \subseteq Credited'
  BY <1>6, <1>8 DEF Credited
<1>10. Undelivered' \in SUBSET (Undelivered \ {tx})
  BY <1>7, <1>9 DEF Undelivered, Credited
<1>11. Worth(Undelivered') \in Nat /\ Worth(Undelivered') + more <= Worth(Undelivered)
  <2>1. CASE tx \in mem[n].received
    <3>1. Undelivered' \in SUBSET Undelivered
      BY <1>10
    <3>2. Worth(Undelivered') \in Nat /\ Worth(Undelivered') <= Worth(Undelivered)
      BY <3>1, WorthFalls
    <3> QED
      BY <2>1, <3>2
  <2>2. CASE tx \notin mem[n].received
    <3>1. \A k \in Ids : tx \notin mem[k].received
      BY <1>1, <2>2 DEF WalletInv, LedgerOK
    <3>2. tx \in Undelivered
      BY <3>1 DEF Undelivered
    <3>3. Worth(Undelivered') \in Nat /\ Worth(Undelivered') + tx.amount <= Worth(Undelivered)
      BY <1>10, <3>2, WorthCredited
    <3> QED
      BY <2>2, <3>3
  <2> QED
    BY <2>1, <2>2
<1>12. Worth(Undelivered) \in Nat /\ OwnBalance(n) \in Nat /\ mem[n].fees \in Nat
  BY UndeliveredFacts, HoldingsFacts
<1>13. Get(l.balances, n) \in Nat /\ more \in Nat
  <2>1. LedgerTypeOK(l)
    BY <1>1 DEF LedgerOK
  <2> QED
    BY <1>1, <2>1, LedgerNumbers, TransactionFields
<1> HIDE DEF more
<1>14. (Get(l.balances, n) + l.fees) + Worth(Undelivered')
        <= (OwnBalance(n) + mem[n].fees) + Worth(Undelivered)
  BY <1>6, <1>11, <1>12, <1>13
<1> QED
  BY <1>1, <1>7, <1>14, NothingGained

\* No step of the wallets brings atoms into being while nobody has crashed.
LEMMA NoInflationStep ==
  ASSUME WalletInv, WalletInv', NoInflation, [WalletNext]_walletVars
  PROVE  NoInflation'
<1> DEFINE Goal == SumFunctionOnSet(Holdings', Ids) + Worth(Undelivered')
                     <= GenesisAllocation * MaxIds
<1> SUFFICES ASSUME crashes' = 0 PROVE Goal
  BY DEF NoInflation
<1>1. crashes \in Nat /\ DOMAIN mem = Ids
  BY DEF WalletInv
<1>2. ASSUME NEW n \in Ids, NEW l, LedgerOK(l, n), mem' = [mem EXCEPT ![n] = l], inbox' = inbox,
             crashes' = crashes, Get(l.balances, n) = OwnBalance(n), l.fees = mem[n].fees,
             l.received = mem[n].received
      PROVE  Goal
  <2>1. Credited' = Credited
    BY <1>2, CreditedSame
  <2>2. Undelivered' = Undelivered
    BY <1>2, <2>1 DEF Undelivered, Credited
  <2>3. OwnBalance(n) \in Nat /\ mem[n].fees \in Nat /\ Worth(Undelivered) \in Nat
    BY HoldingsFacts, UndeliveredFacts
  <2>4. (Get(l.balances, n) + l.fees) + Worth(Undelivered')
          <= (OwnBalance(n) + mem[n].fees) + Worth(Undelivered)
    BY <1>2, <2>2, <2>3
  <2> QED
    BY <1>2, <2>4, NothingGained
<1>10. ASSUME NEW n \in Ids, NEW r \in Ids, NEW a \in SendAmounts, SendRefused(n, r, a)
       PROVE  Goal
  <2> DEFINE l == SendLedger(n, r)
  <2>1. /\ mem' = [mem EXCEPT ![n] = l] /\ inbox' = inbox /\ crashes' = crashes
    BY <1>10 DEF SendRefused
  <2>a. LedgerOK(l, n)
    BY SendFacts
  <2>b. LedgerOK(mem[n], n)
    BY DEF WalletInv
  <2>2. LedgerOK(l, n) /\ LedgerTypeOK(mem[n])
    BY <2>a, <2>b DEF LedgerOK
  <2>3. Get(l.balances, n) = OwnBalance(n) /\ l.fees = mem[n].fees /\ l.received = mem[n].received
    BY <2>2, EnsureMemberConserves DEF SendLedger, OwnBalance
  <2> HIDE DEF l
  <2> QED
    BY <1>2, <2>1, <2>2, <2>3
<1>11. ASSUME NEW n \in Ids, NEW s \in Ids, ReceiveRefused(n, s) PROVE Goal
  <2> DEFINE l == ReceiveLedger(n, s)
  <2>1. /\ mem' = [mem EXCEPT ![n] = l] /\ inbox' = inbox /\ crashes' = crashes
    BY <1>11 DEF ReceiveRefused
  <2>2. /\ LedgerOK(l, n) /\ Get(l.balances, n) = OwnBalance(n)
        /\ l.fees = mem[n].fees /\ l.received = mem[n].received
    BY RefusedFacts DEF OwnBalance
  <2> HIDE DEF l
  <2> QED
    BY <1>2, <2>1, <2>2
<1>3. ASSUME NEW n \in Ids, NEW r \in Ids, NEW a \in SendAmounts,
             SendUnserializable(n, r, a) \/ Send(n, r, a)
      PROVE  Goal
  <2>1. /\ SendAccepted(n, r, a) /\ mem' = [mem EXCEPT ![n] = SendResult(n, r, a)]
        /\ crashes = 0
    BY <1>3 DEF SendUnserializable, Send
  <2>2. \A m \in inbox' : m \in inbox \/ m.tx = SendTx(n, r, a)
    BY <1>3 DEF SendUnserializable, Send
  <2> QED
    BY <2>1, <2>2, SendGainsNothing
<1>4. ASSUME NEW n \in Ids, NEW r \in Ids, NEW a \in SendAmounts, CrashInWrite(n, r, a)
      PROVE  FALSE
  BY <1>1, <1>4 DEF CrashInWrite
<1>5. ASSUME NEW m \in inbox, NEW n \in Ids, WalletReceive(n, m) PROVE Goal
  <2>1. crashes = 0
    BY <1>5 DEF WalletReceive
  <2> QED
    BY <1>5, <2>1, ReceiveGainsNothing
<1>6. ASSUME mem' = mem, inbox' \subseteq inbox, crashes' = crashes PROVE Goal
  <2>1. Undelivered' \in SUBSET Undelivered
    BY <1>6 DEF Undelivered
  <2>2. /\ Worth(Undelivered') \in Nat /\ Worth(Undelivered') <= Worth(Undelivered)
        /\ Worth(Undelivered) \in Nat
    BY <2>1, WorthFalls, UndeliveredFacts
  <2>3. Holdings' = Holdings /\ SumFunctionOnSet(Holdings, Ids) \in Nat
    BY <1>6, HoldingsFacts DEF Holdings, OwnBalance
  <2>4. SumFunctionOnSet(Holdings, Ids) + Worth(Undelivered) <= GenesisAllocation * MaxIds
    BY <1>6 DEF NoInflation
  <2> DEFINE room == GenesisAllocation * MaxIds
  <2>5. room \in Nat /\ SumFunctionOnSet(Holdings, Ids) + Worth(Undelivered) <= room
    BY <2>4, GenesisRoom
  <2> HIDE DEF room
  <2>6. SumFunctionOnSet(Holdings', Ids) + Worth(Undelivered') <= room
    BY <2>2, <2>3, <2>5
  <2> QED
    BY <2>6 DEF room
<1>7. ASSUME NEW m \in inbox, Lose(m) PROVE Goal
  BY <1>6, <1>7 DEF Lose
<1>8. ASSUME NEW n \in Ids, Crash(n) \/ Restart(n) PROVE FALSE
  BY <1>1, <1>8 DEF Crash, Restart, WalletInv
<1>9. CASE UNCHANGED walletVars
  BY <1>6, <1>9 DEF walletVars
<1> HIDE DEF Goal
<1> QED
  BY <1>3, <1>4, <1>5, <1>7, <1>8, <1>9, <1>10, <1>11 DEF WalletNext

\* Every node starts with its own allocation and nothing is on its way.
LEMMA NoInflationInit ==
  ASSUME WalletInit, WalletInv
  PROVE  NoInflation
<1>1. \A n \in Ids : Holdings[n] = GenesisAllocation
  <2>1. ASSUME NEW n \in Ids
        PROVE  Get(OwnGenesis(n).balances, n) = GenesisAllocation /\ OwnGenesis(n).fees = 0
    BY LedgerAssumption DEF OwnGenesis, InitializeGenesis, DefaultLedger, Get
  <2>2. \A n \in Ids : mem[n] = OwnGenesis(n)
    BY DEF WalletInit
  <2> QED
    BY <2>1, <2>2, LedgerAssumption DEF Holdings, OwnBalance
<1>2. GenesisAllocation \in Nat /\ Summable(Holdings, Ids) /\ \A n \in Ids : Holdings[n] <= GenesisAllocation
  BY <1>1, HoldingsFacts, LedgerAssumption
<1>3. SumFunctionOnSet(Holdings, Ids) <= Cardinality(Ids) * GenesisAllocation
  BY <1>2, SumBound
<1>4. Cardinality(Ids) = MaxIds
  BY FS_Interval, LedgerAssumption DEF Ids
<1>5. MaxIds * GenesisAllocation = GenesisAllocation * MaxIds
  BY LedgerAssumption
<1>6. Undelivered = {}
  BY DEF Undelivered, WalletInit
<1>7. Worth(Undelivered) = 0
  BY <1>6, WorthEmpty
<1>8. SumFunctionOnSet(Holdings, Ids) \in Nat
  BY HoldingsFacts
<1> QED
  BY <1>3, <1>4, <1>5, <1>7, <1>8 DEF NoInflation

\* With lost, repeated and reordered deliveries and failing file writes, the
\* wallets never own more together than their genesis gave them, for any number
\* of wallets, as long as none had to restart from its file.
THEOREM NoCoinFromNothing == WalletSpec => []NoInflation
<1>1. WalletInit /\ WalletInv => NoInflation
  BY NoInflationInit
<1>2. WalletInv /\ WalletInv' /\ NoInflation /\ [WalletNext]_walletVars => NoInflation'
  BY NoInflationStep
<1> QED
  BY <1>1, <1>2, WalletAlways, PTL DEF WalletSpec
=============================================================================
