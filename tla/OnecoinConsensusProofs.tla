---------------------- MODULE OnecoinConsensusProofs -----------------------
(***************************************************************************)
(* Finality for every set of validators, every payload and every number of *)
(* proposals, crashes and failed writes.                                   *)
(*                                                                         *)
(* Three definitions are recursive: the blocks below a tip, the execution  *)
(* of a block, the replay of a chain.  For each, a lemma shows that the    *)
(* recursion has a solution, by induction in the form of NatSetInduction,  *)
(* and the others use the equations it satisfies.                          *)
(***************************************************************************)
EXTENDS OnecoinConsensus, LedgerOpsProofs

-----------------------------------------------------------------------------
(* The blocks of a chain *)

IsDown(f, tip, n) ==
  f = [k \in 0..n |-> IF k = 0 THEN tip ELSE f[k - 1].prev]

LEMMA DownFacts ==
  ASSUME NEW tip, tip.height \in Nat
  PROVE  /\ Down(tip)[0] = tip
         /\ \A k \in 1..tip.height : Down(tip)[k] = Down(tip)[k - 1].prev
<1> DEFINE S == {n \in Nat : \E f : IsDown(f, tip, n)}
<1>1. 0 \in S
  <2> DEFINE f == [k \in 0..0 |-> tip]
  <2>1. IsDown(f, tip, 0)
    BY DEF IsDown
  <2> QED
    BY <2>1
<1>2. ASSUME NEW n \in S PROVE n + 1 \in S
  <2>1. PICK f : IsDown(f, tip, n)
    OBVIOUS
  <2>2. n \in Nat /\ n + 1 \in Nat
    OBVIOUS
  <2> DEFINE g == [k \in 0..(n + 1) |-> IF k = n + 1 THEN f[n].prev ELSE f[k]]
  <2>3. \A k \in 0..n : f[k] = IF k = 0 THEN tip ELSE f[k - 1].prev
    BY <2>1 DEF IsDown
  <2>4. \A k \in 0..(n + 1) : g[k] = IF k = 0 THEN tip ELSE g[k - 1].prev
    <3> SUFFICES ASSUME NEW k \in 0..(n + 1)
                 PROVE  g[k] = IF k = 0 THEN tip ELSE g[k - 1].prev
      OBVIOUS
    <3>1. CASE k = n + 1
      BY <2>2, <3>1
    <3>2. CASE k # n + 1
      <4>1. k \in 0..n /\ (k # 0 => k - 1 \in 0..n)
        BY <2>2, <3>2
      <4>2. g[k] = f[k] /\ (k # 0 => g[k - 1] = f[k - 1])
        BY <2>2, <4>1
      <4> QED
        BY <2>3, <4>1, <4>2
    <3> QED
      BY <3>1, <3>2
  <2>5. g = [k \in 0..(n + 1) |-> g[k]]
    OBVIOUS
  <2>6. IsDown(g, tip, n + 1)
    <3> HIDE DEF g
    <3> QED
      BY <2>4, <2>5 DEF IsDown
  <2> QED
    BY <2>2, <2>6
<1>3. S = Nat
  <2> HIDE DEF S
  <2>1. S \in SUBSET Nat
    BY DEF S
  <2> QED
    BY <1>1, <1>2, <2>1, NatSetInduction
<1>4. PICK f : f = [k \in 0..tip.height |-> IF k = 0 THEN tip ELSE f[k - 1].prev]
  BY <1>3 DEF IsDown
<1>5. Down(tip) = [k \in 0..tip.height |-> IF k = 0 THEN tip ELSE Down(tip)[k - 1].prev]
  BY <1>4, Zenon DEF Down
<1> DEFINE d == Down(tip)
<1> HIDE DEF d
<1>6. d = [k \in 0..tip.height |-> IF k = 0 THEN tip ELSE d[k - 1].prev]
  BY <1>5 DEF d
<1>7. \A k \in 0..tip.height : d[k] = IF k = 0 THEN tip ELSE d[k - 1].prev
  BY <1>6, Zenon
<1>8. d[0] = tip /\ \A k \in 1..tip.height : d[k] = d[k - 1].prev
  BY <1>7
<1> QED
  BY <1>8 DEF d

\* A block on top of a chain adds itself and changes nothing below.
LEMMA ChainGrows ==
  ASSUME NEW t, NEW b, t.height \in Nat, b.height = t.height + 1, b.prev = t
  PROVE  /\ \A i \in 1..t.height : Chain(b)[i] = Chain(t)[i]
         /\ Chain(b)[b.height] = b
<1> DEFINE S == {n \in Nat : n <= t.height => Down(b)[n + 1] = Down(t)[n]}
<1>1. b.height \in Nat /\ \A k \in 1..b.height : Down(b)[k] = Down(b)[k - 1].prev
  BY DownFacts
<1>2. Down(b)[0] = b /\ Down(t)[0] = t /\ \A k \in 1..t.height : Down(t)[k] = Down(t)[k - 1].prev
  BY <1>1, DownFacts
<1>3. 0 \in S
  <2>1. 1 \in 1..b.height /\ 1 - 1 = 0 /\ 0 + 1 = 1
    BY <1>1
  <2>2. Down(b)[1] = Down(b)[0].prev
    BY <1>1, <2>1
  <2>3. Down(b)[0 + 1] = Down(t)[0]
    BY <1>2, <2>1, <2>2
  <2> QED
    BY <2>3
<1>4. ASSUME NEW n \in S PROVE n + 1 \in S
  <2>1. n \in Nat /\ n + 1 \in Nat
    OBVIOUS
  <2>2. ASSUME n + 1 <= t.height PROVE Down(b)[(n + 1) + 1] = Down(t)[n + 1]
    <3>1. Down(b)[n + 1] = Down(t)[n]
      BY <2>1, <2>2
    <3>2. (n + 1) + 1 \in 1..b.height /\ ((n + 1) + 1) - 1 = n + 1 /\ n + 1 \in 1..t.height /\ (n + 1) - 1 = n
      BY <2>1, <2>2
    <3> QED
      BY <1>1, <1>2, <3>1, <3>2
  <2> QED
    BY <2>1, <2>2
<1>5. S = Nat
  <2> HIDE DEF S
  <2>1. S \in SUBSET Nat
    BY DEF S
  <2> QED
    BY <1>3, <1>4, <2>1, NatSetInduction
<1>6. ASSUME NEW i \in 1..t.height PROVE Chain(b)[i] = Chain(t)[i]
  <2>1. /\ t.height - i \in Nat /\ t.height - i <= t.height /\ (t.height - i) + 1 = b.height - i
        /\ i \in 1..b.height
    OBVIOUS
  <2>2. Down(b)[b.height - i] = Down(t)[t.height - i]
    BY <1>5, <2>1
  <2> QED
    BY <2>1, <2>2 DEF Chain
<1>7. Chain(b)[b.height] = b
  <2>1. b.height \in 1..b.height /\ b.height - b.height = 0
    BY <1>1
  <2> QED
    BY <1>2, <2>1 DEF Chain
<1> QED
  BY <1>6, <1>7

\* What a state says of itself.
Shape(st) == st.height \in Nat /\ st.tip.height = st.height

LEMMA BlocksGrow ==
  ASSUME NEW st, Shape(st), NEW b, ExtendsTip(st, b)
  PROVE  /\ Shape(Finalized(st, b)) /\ Finalized(st, b).tip = b
         /\ Finalized(st, b).height = st.height + 1
         /\ BlocksIn(Finalized(st, b)) = BlocksIn(st) \cup {b}
<1>1. b.height = st.height + 1 /\ b.prev = st.tip /\ st.height \in Nat /\ st.tip.height = st.height
  BY DEF ExtendsTip, Shape
<1>2. Finalized(st, b).height = b.height /\ Finalized(st, b).tip = b
  BY DEF Finalized
<1>3. BlocksIn(Finalized(st, b)) = {Chain(b)[i] : i \in 1..b.height}
  BY <1>2 DEF BlocksIn
<1>4. BlocksIn(st) = {Chain(st.tip)[i] : i \in 1..st.height}
  BY DEF BlocksIn
<1>5. /\ \A i \in 1..st.height : Chain(b)[i] = Chain(st.tip)[i]
      /\ Chain(b)[b.height] = b
  BY <1>1, ChainGrows
<1>6. b.height \in 1..b.height /\ \A i \in 1..b.height : i \in 1..st.height \/ i = b.height
  BY <1>1
<1>7. \A i \in 1..st.height : i \in 1..b.height
  BY <1>1
<1>8. BlocksIn(Finalized(st, b)) = BlocksIn(st) \cup {b}
  BY <1>3, <1>4, <1>5, <1>6, <1>7
<1> QED
  BY <1>1, <1>2, <1>8 DEF Shape

-----------------------------------------------------------------------------
(* Execution of a block *)

IsExecution(f, l, txs, n) ==
  f = [i \in 0..n |-> IF i = 0 THEN [ok |-> TRUE, ledger |-> l] ELSE ExecuteOne(f[i - 1], txs[i])]

LEMMA ExecutionFacts ==
  ASSUME NEW l, NEW txs, Len(txs) \in Nat
  PROVE  /\ Execution(l, txs)[0] = [ok |-> TRUE, ledger |-> l]
         /\ \A i \in 1..Len(txs) : Execution(l, txs)[i] = ExecuteOne(Execution(l, txs)[i - 1], txs[i])
<1> DEFINE S == {n \in Nat : \E f : IsExecution(f, l, txs, n)}
           base == [ok |-> TRUE, ledger |-> l]
<1>1. 0 \in S
  <2> DEFINE f == [i \in 0..0 |-> base]
  <2>1. IsExecution(f, l, txs, 0)
    BY DEF IsExecution
  <2> QED
    BY <2>1
<1>2. ASSUME NEW n \in S PROVE n + 1 \in S
  <2>1. PICK f : IsExecution(f, l, txs, n)
    OBVIOUS
  <2>2. n \in Nat /\ n + 1 \in Nat
    OBVIOUS
  <2> DEFINE g == [i \in 0..(n + 1) |-> IF i = n + 1 THEN ExecuteOne(f[n], txs[n + 1]) ELSE f[i]]
  <2>3. \A i \in 0..n : f[i] = IF i = 0 THEN base ELSE ExecuteOne(f[i - 1], txs[i])
    BY <2>1 DEF IsExecution
  <2> HIDE DEF base
  <2>4. \A i \in 0..(n + 1) : g[i] = IF i = 0 THEN base ELSE ExecuteOne(g[i - 1], txs[i])
    <3> SUFFICES ASSUME NEW i \in 0..(n + 1)
                 PROVE  g[i] = IF i = 0 THEN base ELSE ExecuteOne(g[i - 1], txs[i])
      OBVIOUS
    <3>1. CASE i = n + 1
      <4>1. g[i] = ExecuteOne(f[n], txs[n + 1]) /\ g[i - 1] = f[n] /\ i # 0
        BY <2>2, <3>1
      <4> QED
        BY <3>1, <4>1
    <3>2. CASE i # n + 1
      <4>1. i \in 0..n /\ (i # 0 => i - 1 \in 0..n)
        BY <2>2, <3>2
      <4>2. g[i] = f[i] /\ (i # 0 => g[i - 1] = f[i - 1])
        BY <2>2, <4>1
      <4> QED
        BY <2>3, <4>1, <4>2
    <3> QED
      BY <3>1, <3>2
  <2>5. g = [i \in 0..(n + 1) |-> g[i]]
    OBVIOUS
  <2>6. IsExecution(g, l, txs, n + 1)
    <3> HIDE DEF g
    <3> QED
      BY <2>4, <2>5 DEF IsExecution, base
  <2> QED
    BY <2>2, <2>6
<1>3. S = Nat
  <2> HIDE DEF S
  <2>1. S \in SUBSET Nat
    BY DEF S
  <2> QED
    BY <1>1, <1>2, <2>1, NatSetInduction
<1>4. PICK f : f = [i \in 0..Len(txs) |-> IF i = 0 THEN base ELSE ExecuteOne(f[i - 1], txs[i])]
  BY <1>3 DEF IsExecution
<1>5. Execution(l, txs) =
        [i \in 0..Len(txs) |-> IF i = 0 THEN base ELSE ExecuteOne(Execution(l, txs)[i - 1], txs[i])]
  BY <1>4, Zenon DEF Execution
<1> DEFINE e == Execution(l, txs)
<1> HIDE DEF e, base
<1>6. e = [i \in 0..Len(txs) |-> IF i = 0 THEN base ELSE ExecuteOne(e[i - 1], txs[i])]
  BY <1>5 DEF e
<1>7. \A i \in 0..Len(txs) : e[i] = IF i = 0 THEN base ELSE ExecuteOne(e[i - 1], txs[i])
  BY <1>6, Zenon
<1>8. e[0] = base /\ \A i \in 1..Len(txs) : e[i] = ExecuteOne(e[i - 1], txs[i])
  BY <1>7
<1> QED
  BY <1>8 DEF e, base

\* The checks of validate_state, with the types they rest on.
SoundLedger(l) ==
  /\ l \in [ members : SUBSET Ids, balances : {l.balances}, nonces : {l.nonces},
             issued : Atoms, fees : {l.fees}, received : {l.received},
             remainder : {l.remainder}, joinActive : {l.joinActive}, floor : {l.floor},
             band : {l.band}, verifiers : {l.verifiers}, rewarded : {l.rewarded} ]
  /\ DOMAIN l.balances = l.members /\ DOMAIN l.nonces = l.members
  /\ Balances(l.balances)
  /\ Total(l.balances) <= l.issued

\* A transfer leaves the sum of the balances alone, also one to oneself.
LEMMA TransferIsSound ==
  ASSUME NEW l, SoundLedger(l), NEW tx \in Transfers, ApplyTransferOk(l, tx, tx.sender)
  PROVE  SoundLedger(ApplyTransfer(l, tx, tx.sender))
<1> DEFINE f == l.balances
           key == tx.sender
           r == tx.recipient
           a == tx.amount
           d == Put(f, key, Get(f, key) - a)
           v == Get(d, r) + a
<1>1. /\ key \in Ids /\ r \in Ids /\ a \in Nat /\ a <= MaxAtoms
      /\ key \in l.members /\ r \in l.members
  BY LedgerAssumption DEF Transfers, Atoms, ApplyTransferOk, TransferOk
<1>2. SatAdd(a, 0) = a
  BY <1>1, SatAddFacts
<1>3. /\ Balances(f) /\ Get(f, key) \in Nat /\ Get(f, key) >= a /\ Total(f) \in Nat
      /\ Total(f) <= l.issued /\ l.issued <= MaxAtoms /\ l.issued \in Nat
  BY <1>1, <1>2, GetIsNat, TotalIsNat, LedgerAssumption
     DEF SoundLedger, ApplyTransferOk, TransferOk, Atoms
<1>4. MoveFunds(f, tx, key, 0) = Put(d, r, SatAdd(Get(d, r), a))
  BY <1>2 DEF MoveFunds
<1>5. Balances(d) /\ Total(d) = (Total(f) - Get(f, key)) + (Get(f, key) - a) /\ DOMAIN d = DOMAIN f \cup {key}
  <2> DEFINE rest == Get(f, key) - a
  <2>1. rest \in Nat
    BY <1>1, <1>3
  <2> HIDE DEF rest
  <2>2. Balances(f) /\ key \in Ids
    BY <1>1, <1>3
  <2> HIDE DEF f, key
  <2>3. Balances(Put(f, key, rest))
    BY <2>1, <2>2, PutFacts
  <2>4. Total(Put(f, key, rest)) = (Total(f) - Get(f, key)) + rest
    BY <2>1, <2>2, TotalPut
  <2>5. DOMAIN Put(f, key, rest) = DOMAIN f \cup {key}
    BY DEF Put
  <2> QED
    BY <2>3, <2>4, <2>5 DEF rest
<1> HIDE DEF d
<1>6. Get(d, r) \in Nat /\ Get(d, r) <= Total(d) /\ Total(d) \in Nat
  BY <1>1, <1>5, GetIsNat, GetLeqTotal, TotalIsNat
<1>7. v <= MaxAtoms /\ v \in Nat /\ SatAdd(Get(d, r), a) = v
  BY <1>1, <1>3, <1>5, <1>6, SatAddFacts, LedgerAssumption
<1> HIDE DEF v
<1>8. /\ Balances(Put(d, r, v)) /\ Total(Put(d, r, v)) = (Total(d) - Get(d, r)) + v
      /\ DOMAIN Put(d, r, v) = DOMAIN d \cup {r}
  BY <1>1, <1>5, <1>7, PutFacts, TotalPut DEF Put
<1>9. Total(Put(d, r, v)) = Total(f)
  BY <1>1, <1>3, <1>5, <1>6, <1>7, <1>8 DEF v
<1> DEFINE g == ApplyTransfer(l, tx, tx.sender)
<1>10. /\ g.balances = Put(d, r, v) /\ g.nonces = Put(l.nonces, key, Get(l.nonces, key) + 1)
       /\ g.members = l.members /\ g.issued = l.issued
       /\ g \in [ members : SUBSET Ids, balances : {g.balances}, nonces : {g.nonces},
             issued : Atoms, fees : {g.fees}, received : {g.received},
             remainder : {g.remainder}, joinActive : {g.joinActive}, floor : {g.floor},
             band : {g.band}, verifiers : {g.verifiers}, rewarded : {g.rewarded} ]
  BY <1>4, <1>7 DEF ApplyTransfer, SoundLedger
<1>11. DOMAIN g.nonces = l.members
  BY <1>1, <1>10 DEF Put, SoundLedger
<1> HIDE DEF g, f, key, r
<1>12. DOMAIN g.balances = l.members
  BY <1>1, <1>5, <1>8, <1>10 DEF SoundLedger, f
<1>13. SoundLedger(g)
  BY <1>3, <1>8, <1>9, <1>10, <1>11, <1>12 DEF SoundLedger
<1> QED
  BY <1>13 DEF g

\* A block leaves a sound ledger, whether or not all its transactions pass.
LEMMA BlockIsSound ==
  ASSUME NEW l, SoundLedger(l), NEW txs \in Seq(Transfers)
  PROVE  SoundLedger(ExecuteBlock(l, txs).ledger)
<1> DEFINE e == Execution(l, txs)
           S == {n \in Nat : n <= Len(txs) => SoundLedger(e[n].ledger)}
<1>1. /\ Len(txs) \in Nat /\ e[0] = [ok |-> TRUE, ledger |-> l]
      /\ \A i \in 1..Len(txs) : e[i] = ExecuteOne(e[i - 1], txs[i])
  BY ExecutionFacts
<1> HIDE DEF e
<1>2. 0 \in S
  BY <1>1
<1>3. ASSUME NEW n \in S PROVE n + 1 \in S
  <2>1. n \in Nat /\ n + 1 \in Nat
    OBVIOUS
  <2>2. ASSUME n + 1 <= Len(txs) PROVE SoundLedger(e[n + 1].ledger)
    <3>1. n + 1 \in 1..Len(txs) /\ (n + 1) - 1 = n
      BY <1>1, <2>1, <2>2
    <3>2. SoundLedger(e[n].ledger)
      BY <1>1, <2>1, <2>2
    <3>3. e[n + 1] = ExecuteOne(e[n], txs[n + 1]) /\ txs[n + 1] \in Transfers
      BY <1>1, <3>1
    <3>4. CASE e[n].ok /\ ApplyTransferOk(e[n].ledger, txs[n + 1], txs[n + 1].sender)
      <4>1. e[n + 1].ledger = ApplyTransfer(e[n].ledger, txs[n + 1], txs[n + 1].sender)
        BY <3>3, <3>4 DEF ExecuteOne
      <4> QED
        BY <3>2, <3>3, <3>4, <4>1, TransferIsSound
    <3>5. CASE ~(e[n].ok /\ ApplyTransferOk(e[n].ledger, txs[n + 1], txs[n + 1].sender))
      <4>1. e[n + 1].ledger = e[n].ledger
        BY <3>3, <3>5 DEF ExecuteOne
      <4> QED
        BY <3>2, <4>1
    <3> QED
      BY <3>4, <3>5
  <2> QED
    BY <2>1, <2>2
<1>4. S = Nat
  <2> HIDE DEF S
  <2>1. S \in SUBSET Nat
    BY DEF S
  <2> QED
    BY <1>2, <1>3, <2>1, NatSetInduction
<1>5. SoundLedger(e[Len(txs)].ledger)
  BY <1>1, <1>4
<1> QED
  BY <1>5 DEF e, ExecuteBlock

-----------------------------------------------------------------------------
(* Replay of a chain *)

GenesisRun == [ok |-> TRUE, ledger |-> GenesisState.ledger]

IsReplay(f, tip, n) ==
  f = [i \in 0..n |-> IF i = 0 THEN GenesisRun ELSE ReplayOne(f[i - 1], Chain(tip)[i])]

LEMMA ReplaysFacts ==
  ASSUME NEW tip, tip.height \in Nat
  PROVE  /\ Replays(tip)[0] = GenesisRun
         /\ \A i \in 1..tip.height : Replays(tip)[i] = ReplayOne(Replays(tip)[i - 1], Chain(tip)[i])
<1> DEFINE S == {n \in Nat : \E f : IsReplay(f, tip, n)}
           c == Chain(tip)
<1> HIDE DEF c
<1>1. 0 \in S
  <2> DEFINE f == [i \in 0..0 |-> GenesisRun]
  <2>1. IsReplay(f, tip, 0)
    BY DEF IsReplay
  <2> QED
    BY <2>1
<1>2. ASSUME NEW n \in S PROVE n + 1 \in S
  <2>1. PICK f : IsReplay(f, tip, n)
    OBVIOUS
  <2>2. n \in Nat /\ n + 1 \in Nat
    OBVIOUS
  <2> DEFINE g == [i \in 0..(n + 1) |-> IF i = n + 1 THEN ReplayOne(f[n], c[n + 1]) ELSE f[i]]
  <2>3. \A i \in 0..n : f[i] = IF i = 0 THEN GenesisRun ELSE ReplayOne(f[i - 1], c[i])
    BY <2>1 DEF IsReplay, c
  <2>4. \A i \in 0..(n + 1) : g[i] = IF i = 0 THEN GenesisRun ELSE ReplayOne(g[i - 1], c[i])
    <3> SUFFICES ASSUME NEW i \in 0..(n + 1)
                 PROVE  g[i] = IF i = 0 THEN GenesisRun ELSE ReplayOne(g[i - 1], c[i])
      OBVIOUS
    <3>1. CASE i = n + 1
      <4>1. g[i] = ReplayOne(f[n], c[n + 1]) /\ g[i - 1] = f[n] /\ i # 0
        BY <2>2, <3>1
      <4> QED
        BY <3>1, <4>1
    <3>2. CASE i # n + 1
      <4>1. i \in 0..n /\ (i # 0 => i - 1 \in 0..n)
        BY <2>2, <3>2
      <4>2. g[i] = f[i] /\ (i # 0 => g[i - 1] = f[i - 1])
        BY <2>2, <4>1
      <4> QED
        BY <2>3, <4>1, <4>2
    <3> QED
      BY <3>1, <3>2
  <2>5. g = [i \in 0..(n + 1) |-> g[i]]
    OBVIOUS
  <2>6. IsReplay(g, tip, n + 1)
    <3> HIDE DEF g
    <3> QED
      BY <2>4, <2>5 DEF IsReplay, c
  <2> QED
    BY <2>2, <2>6
<1>3. S = Nat
  <2> HIDE DEF S
  <2>1. S \in SUBSET Nat
    BY DEF S
  <2> QED
    BY <1>1, <1>2, <2>1, NatSetInduction
<1>4. PICK f : f = [i \in 0..tip.height |-> IF i = 0 THEN GenesisRun ELSE ReplayOne(f[i - 1], Chain(tip)[i])]
  BY <1>3 DEF IsReplay
<1>5. Replays(tip) =
        [i \in 0..tip.height |->
           IF i = 0 THEN GenesisRun ELSE ReplayOne(Replays(tip)[i - 1], Chain(tip)[i])]
  BY <1>4, Zenon DEF Replays, GenesisRun
<1> DEFINE r == Replays(tip)
<1> HIDE DEF r
<1>6. r = [i \in 0..tip.height |-> IF i = 0 THEN GenesisRun ELSE ReplayOne(r[i - 1], c[i])]
  BY <1>5 DEF r, c
<1>7. \A i \in 0..tip.height : r[i] = IF i = 0 THEN GenesisRun ELSE ReplayOne(r[i - 1], c[i])
  BY <1>6, Zenon
<1>8. r[0] = GenesisRun /\ \A i \in 1..tip.height : r[i] = ReplayOne(r[i - 1], c[i])
  BY <1>7
<1> QED
  BY <1>8 DEF r, c

\* The replay of a longer chain is the replay of the shorter one and its block.
LEMMA ReplayGrows ==
  ASSUME NEW st, Shape(st), NEW b, ExtendsTip(st, b)
  PROVE  Replay(Finalized(st, b)) = ReplayOne(Replay(st), b)
<1> DEFINE t == st.tip
           p == Replays(t)
           q == Replays(b)
           S == {n \in Nat : n <= t.height => q[n] = p[n]}
<1>1. /\ b.height = t.height + 1 /\ b.prev = t /\ t.height \in Nat /\ b.height \in Nat
      /\ st.height = t.height
  BY DEF ExtendsTip, Shape
<1>2. p[0] = GenesisRun /\ \A i \in 1..t.height : p[i] = ReplayOne(p[i - 1], Chain(t)[i])
  BY <1>1, ReplaysFacts
<1>3. q[0] = GenesisRun /\ \A i \in 1..b.height : q[i] = ReplayOne(q[i - 1], Chain(b)[i])
  BY <1>1, ReplaysFacts
<1>4. (\A i \in 1..t.height : Chain(b)[i] = Chain(t)[i]) /\ Chain(b)[b.height] = b
  BY <1>1, ChainGrows
<1>5. Replay(Finalized(st, b)) = q[b.height] /\ Replay(st) = p[t.height]
  BY <1>1 DEF Replay, Finalized
<1> HIDE DEF p, q, t
<1>6. 0 \in S
  BY <1>2, <1>3
<1>7. ASSUME NEW n \in S PROVE n + 1 \in S
  <2>1. n \in Nat /\ n + 1 \in Nat
    OBVIOUS
  <2>2. ASSUME n + 1 <= t.height PROVE q[n + 1] = p[n + 1]
    <3>1. n + 1 \in 1..t.height /\ n + 1 \in 1..b.height /\ (n + 1) - 1 = n /\ n <= t.height
      BY <1>1, <2>1, <2>2
    <3>2. q[n] = p[n]
      BY <2>1, <3>1
    <3>3. q[n + 1] = ReplayOne(q[n], Chain(b)[n + 1]) /\ p[n + 1] = ReplayOne(p[n], Chain(t)[n + 1])
      BY <1>2, <1>3, <3>1
    <3> QED
      BY <1>4, <3>1, <3>2, <3>3
  <2> QED
    BY <2>1, <2>2
<1>8. S = Nat
  <2> HIDE DEF S
  <2>1. S \in SUBSET Nat
    BY DEF S
  <2> QED
    BY <1>6, <1>7, <2>1, NatSetInduction
<1>9. q[t.height] = p[t.height]
  BY <1>1, <1>8
<1>10. b.height \in 1..b.height /\ b.height - 1 = t.height
  BY <1>1
<1>11. q[b.height] = ReplayOne(q[b.height - 1], Chain(b)[b.height])
  BY <1>3, <1>10
<1> QED
  BY <1>4, <1>5, <1>9, <1>10, <1>11

-----------------------------------------------------------------------------
(* Quorums *)

HasQuorum(b, ms) ==
  Cardinality({v \in Validators : Vote(v, b) \in ms}) * 10000 >= Cardinality(Validators) * QUORUM_BPS

LEMMA ValidatorsFinite ==
  ASSUME NEW A \in SUBSET Validators
  PROVE  /\ IsFiniteSet(A) /\ Cardinality(A) \in Nat
         /\ IsFiniteSet(Validators) /\ Cardinality(Validators) \in Nat \ {0}
<1>1. IsFiniteSet(Ids)
  BY LedgerAssumption, FS_Interval DEF Ids
<1>2. IsFiniteSet(Validators) /\ Validators # {}
  BY <1>1, FS_Subset, ConsensusInputs
<1>3. IsFiniteSet(A)
  BY <1>2, FS_Subset
<1>4. Cardinality(Validators) # 0
  BY <1>2, FS_EmptySet
<1> QED
  BY <1>2, <1>3, <1>4, FS_CardinalityType

\* An accepted certificate holds at least 66.66 % of the validators: the
\* division of required_votes rounds up.
LEMMA CertificateIsQuorum ==
  ASSUME NEW voters, CertificateOk(voters)
  PROVE  Cardinality(voters \cap Validators) * 10000 >= Cardinality(Validators) * QUORUM_BPS
<1> DEFINE c == Cardinality(voters \cap Validators)
           n == Cardinality(Validators)
<1>1. c \in Nat /\ n \in Nat
  BY ValidatorsFinite
<1>2. c >= (n * 6666 + 9999) \div 10000
  BY DEF CertificateOk, RequiredVotes, QUORUM_BPS
<1> HIDE DEF c, n
<1>3. c * 10000 >= n * 6666
  BY <1>1, <1>2
<1> QED
  BY <1>3 DEF c, n, QUORUM_BPS

\* Two quorums share a validator, whatever the number of validators.
LEMMA QuorumsMeet ==
  ASSUME NEW A \in SUBSET Validators, NEW B \in SUBSET Validators,
         Cardinality(A) * 10000 >= Cardinality(Validators) * QUORUM_BPS,
         Cardinality(B) * 10000 >= Cardinality(Validators) * QUORUM_BPS
  PROVE  A \cap B # {}
<1> SUFFICES ASSUME A \cap B = {} PROVE FALSE
  OBVIOUS
<1> DEFINE a == Cardinality(A)
           b == Cardinality(B)
           n == Cardinality(Validators)
<1>1. a \in Nat /\ b \in Nat /\ n \in Nat \ {0} /\ IsFiniteSet(A) /\ IsFiniteSet(B) /\ IsFiniteSet(Validators)
  BY ValidatorsFinite
<1>2. Cardinality(A \cup B) = a + b - Cardinality(A \cap B)
  BY <1>1, FS_Union
<1>3. Cardinality(A \cap B) = 0
  BY FS_EmptySet
<1>4. Cardinality(A \cup B) <= n
  BY <1>1, FS_Subset
<1>5. a * 10000 >= n * 6666 /\ b * 10000 >= n * 6666
  BY DEF QUORUM_BPS
<1> HIDE DEF a, b, n
<1> QED
  BY <1>1, <1>2, <1>3, <1>4, <1>5

-----------------------------------------------------------------------------
(* The inductive invariant *)

\* What holds of every finalized state, in memory or in a file.
StateOk(st, ms) ==
  /\ Shape(st)
  /\ st.tip \in BlocksIn(st) \cup {GenesisTip}
  /\ SoundLedger(st.ledger)
  /\ Replay(st) = [ok |-> TRUE, ledger |-> st.ledger]
  /\ \A b \in BlocksIn(st) : HasQuorum(b, ms)

\* What holds of every message ever sent.
MessageOk(m, ms, files) ==
  /\ m.to \in Nodes
  /\ m.block.txs \in Seq(Transfers)
  /\ m.kind = "vote" => m = Vote(m.from, m.block)
  /\ m.kind = "certificate" =>
       /\ m.from \in Nodes
       /\ m.block \in BlocksIn(files[m.from])
       /\ \A v \in m.voters \cap Validators : Vote(v, m.block) \in ms

\* Memory holds at least what the file holds.
FileBehind(st, file) ==
  /\ BlocksIn(file) \subseteq BlocksIn(st)
  /\ file.height <= st.height

Domains ==
  DOMAIN state = Nodes /\ DOMAIN disk = Nodes /\ DOMAIN pending = Nodes /\ DOMAIN votes = Nodes

\* A vote that was counted was sent.
VotesSent(vs, ms) == \A v \in vs : v[2] \in Validators => Vote(v[2], v[1]) \in ms

ConsensusInv ==
  /\ Domains
  /\ \A n \in Nodes :
       /\ StateOk(state[n], net)
       /\ StateOk(disk[n], net)
       /\ FileBehind(state[n], disk[n])
       /\ VotesSent(votes[n], net)
  /\ \A m \in net : MessageOk(m, net, disk)

\* Nothing is lost when messages are added.
LEMMA MoreMessages ==
  ASSUME NEW ms, NEW more, ms \subseteq more
  PROVE  /\ \A st : StateOk(st, ms) => StateOk(st, more)
         /\ \A vs : VotesSent(vs, ms) => VotesSent(vs, more)
<1>1. ASSUME NEW b, HasQuorum(b, ms) PROVE HasQuorum(b, more)
  <2> DEFINE A == {v \in Validators : Vote(v, b) \in ms}
             B == {v \in Validators : Vote(v, b) \in more}
  <2>1. A \in SUBSET B /\ A \in SUBSET Validators /\ B \in SUBSET Validators
    OBVIOUS
  <2>2. Cardinality(A) * 10000 >= Cardinality(Validators) * QUORUM_BPS
    BY <1>1 DEF HasQuorum
  <2>3. SUFFICES Cardinality(B) * 10000 >= Cardinality(Validators) * QUORUM_BPS
    BY DEF HasQuorum
  <2> HIDE DEF A, B
  <2>4. /\ Cardinality(A) \in Nat /\ Cardinality(B) \in Nat /\ IsFiniteSet(B)
        /\ Cardinality(Validators) * QUORUM_BPS \in Nat
    BY <2>1, ValidatorsFinite DEF QUORUM_BPS
  <2>5. Cardinality(A) <= Cardinality(B)
    BY <2>1, <2>4, FS_Subset
  <2> QED
    BY <2>2, <2>4, <2>5
<1>2. \A st : StateOk(st, ms) => StateOk(st, more)
  BY <1>1 DEF StateOk
<1> QED
  BY <1>2 DEF VotesSent

\* A message stays good when messages are sent and files grow.
LEMMA MessageStays ==
  ASSUME NEW m, NEW ms, NEW more, NEW files, NEW newer, ms \subseteq more,
         \A n \in Nodes : BlocksIn(files[n]) \subseteq BlocksIn(newer[n]),
         MessageOk(m, ms, files)
  PROVE  MessageOk(m, more, newer)
BY DEF MessageOk

\* A finalized state stays sound with the block that finalize accepts.
LEMMA StateGrows ==
  ASSUME NEW st, NEW ms, StateOk(st, ms), NEW b, b.txs \in Seq(Transfers),
         NEW voters, FinalizeOk(st, b, voters),
         \A v \in voters \cap Validators : Vote(v, b) \in ms
  PROVE  /\ StateOk(Finalized(st, b), ms)
         /\ BlocksIn(Finalized(st, b)) = BlocksIn(st) \cup {b}
         /\ Finalized(st, b).height = st.height + 1 /\ st.height \in Nat
<1> DEFINE g == Finalized(st, b)
<1>1. Shape(st) /\ ExtendsTip(st, b) /\ CertificateOk(voters) /\ ExecuteBlock(st.ledger, b.txs).ok
  BY DEF StateOk, FinalizeOk
<1>2. Shape(g) /\ g.tip = b /\ g.height = st.height + 1 /\ BlocksIn(g) = BlocksIn(st) \cup {b}
  BY <1>1, BlocksGrow
<1>3. SoundLedger(g.ledger) /\ g.ledger = ExecuteBlock(st.ledger, b.txs).ledger
  BY BlockIsSound DEF StateOk, Finalized
<1>4. Replay(g) = [ok |-> TRUE, ledger |-> g.ledger]
  <2>1. Replay(g) = ReplayOne(Replay(st), b)
    BY <1>1, ReplayGrows
  <2>2. Replay(st) = [ok |-> TRUE, ledger |-> st.ledger]
    BY DEF StateOk
  <2>3. Replay(st).ok = TRUE /\ Replay(st).ledger = st.ledger
    BY <2>2
  <2>4. (Replay(st).ok /\ ExecuteBlock(Replay(st).ledger, b.txs).ok) = TRUE
    BY <1>1, <2>3
  <2> HIDE DEF g
  <2>5. ReplayOne(Replay(st), b) = [ok |-> TRUE, ledger |-> ExecuteBlock(st.ledger, b.txs).ledger]
    BY <2>3, <2>4, Zenon DEF ReplayOne
  <2> QED
    BY <1>3, <2>1, <2>5, Zenon
<1>5. HasQuorum(b, ms)
  <2> DEFINE A == voters \cap Validators
             B == {v \in Validators : Vote(v, b) \in ms}
  <2>1. A \in SUBSET B /\ A \in SUBSET Validators /\ B \in SUBSET Validators
    OBVIOUS
  <2>2. Cardinality(A) * 10000 >= Cardinality(Validators) * QUORUM_BPS
    BY <1>1, CertificateIsQuorum
  <2>3. SUFFICES Cardinality(B) * 10000 >= Cardinality(Validators) * QUORUM_BPS
    BY DEF HasQuorum
  <2> HIDE DEF A, B
  <2>4. /\ Cardinality(A) \in Nat /\ Cardinality(B) \in Nat /\ IsFiniteSet(B)
        /\ Cardinality(Validators) * QUORUM_BPS \in Nat
    BY <2>1, ValidatorsFinite DEF QUORUM_BPS
  <2>5. Cardinality(A) <= Cardinality(B)
    BY <2>1, <2>4, FS_Subset
  <2> QED
    BY <2>2, <2>4, <2>5
<1> HIDE DEF g
<1>6. StateOk(g, ms)
  BY <1>2, <1>3, <1>4, <1>5 DEF StateOk
<1> QED
  BY <1>1, <1>2, <1>6 DEF g, Shape

\* The genesis state is sound: what it issued is what its members hold.
LEMMA GenesisIsSound == StateOk(GenesisState, {})
<1> DEFINE g == GenesisState.ledger
           n == Cardinality(Validators)
<1>1. n \in Nat /\ GenesisAllocation \in Nat /\ GenesisAllocation * n <= MaxAtoms /\ Validators \in SUBSET Ids
  BY ValidatorsFinite, LedgerAssumption, ConsensusInputs
<1>2. GenesisAllocation * n \in Nat
  BY <1>1, ProductIsNat
<1>3. /\ g.members = Validators /\ g.balances = [x \in Validators |-> GenesisAllocation]
      /\ g.nonces = [x \in Validators |-> 0] /\ g.issued = GenesisAllocation * n
  <2>1. SatMul(GenesisAllocation, n) = GenesisAllocation * n
    BY <1>1, <1>2, LedgerAssumption DEF SatMul
  <2> HIDE DEF n
  <2>2. {} \cup Validators = Validators
    OBVIOUS
  <2> QED
    BY <2>1, <2>2 DEF GenesisState, InitializeGenesis, DefaultLedger, EmptyMap, n
<1>4. Total(g.balances) = GenesisAllocation * n
  <2> DEFINE z == [i \in 0..MaxIds |-> 0]
  <2>1. Balances(EmptyMap) /\ \A k : Get(EmptyMap, k) = 0
    BY DEF EmptyMap, Balances, Get
  <2>2. IsRun(EmptyMap, z) /\ z[MaxIds] = 0
    BY <2>1, LedgerAssumption DEF IsRun
  <2>3. Total(EmptyMap) = 0
    <3> HIDE DEF z
    <3> QED
      BY <2>1, <2>2, TotalIsRun
  <2>4. Balances(g.balances) /\ \A k \in Ids : Get(g.balances, k) = IF k \in Validators THEN GenesisAllocation ELSE 0
    BY <1>1, <1>3 DEF Balances, Get
  <2> HIDE DEF g, n
  <2>5. \A k \in Ids : Get(g.balances, k) = Get(EmptyMap, k) + (IF k \in Validators THEN GenesisAllocation ELSE 0)
    BY <1>1, <2>1, <2>4
  <2>6. Total(g.balances) = Total(EmptyMap) + GenesisAllocation * Cardinality(Validators)
    BY <1>1, <2>1, <2>4, <2>5, TotalAddToAll
  <2> QED
    BY <1>2, <2>3, <2>6 DEF n
<1>5. SoundLedger(g)
  <2>1. g \in [ members : SUBSET Ids, balances : {g.balances}, nonces : {g.nonces},
             issued : Atoms, fees : {g.fees}, received : {g.received},
             remainder : {g.remainder}, joinActive : {g.joinActive}, floor : {g.floor},
             band : {g.band}, verifiers : {g.verifiers}, rewarded : {g.rewarded} ]
    <3>1. g.issued \in Atoms /\ g.members \in SUBSET Ids
      BY <1>1, <1>2, <1>3, LedgerAssumption DEF Atoms
    <3> QED
      BY <3>1 DEF GenesisState, InitializeGenesis, DefaultLedger
  <2> HIDE DEF g, n
  <2>2. Balances(g.balances) /\ DOMAIN g.balances = g.members /\ DOMAIN g.nonces = g.members
    BY <1>1, <1>3 DEF Balances
  <2> QED
    BY <1>2, <1>3, <1>4, <2>1, <2>2 DEF SoundLedger
<1>6. /\ GenesisState.height = 0 /\ GenesisState.tip = GenesisTip /\ GenesisTip.height = 0
  BY DEF GenesisState, GenesisTip
<1>7. Shape(GenesisState) /\ BlocksIn(GenesisState) = {}
  <2>1. 1..0 = {}
    OBVIOUS
  <2> QED
    BY <1>6, <2>1 DEF Shape, BlocksIn
<1>8. Replay(GenesisState) = [ok |-> TRUE, ledger |-> g]
  <2>1. Replays(GenesisTip)[0] = GenesisRun
    BY <1>6, ReplaysFacts
  <2>2. Replay(GenesisState) = Replays(GenesisTip)[0]
    BY <1>6, Zenon DEF Replay
  <2> QED
    BY <2>1, <2>2, Zenon DEF GenesisRun
<1> QED
  BY <1>5, <1>6, <1>7, <1>8 DEF StateOk

-----------------------------------------------------------------------------
(* Every step keeps the invariant *)

LEMMA InvInit == Init => ConsensusInv
<1> SUFFICES ASSUME Init PROVE ConsensusInv
  OBVIOUS
<1>1. net = {} /\ Domains
  BY DEF Init, Domains
<1>2. ASSUME NEW n \in Nodes
      PROVE  state[n] = GenesisState /\ disk[n] = GenesisState /\ votes[n] = {}
  BY DEF Init
<1>3. StateOk(GenesisState, net) /\ Shape(GenesisState)
  BY <1>1, GenesisIsSound DEF StateOk
<1>4. FileBehind(GenesisState, GenesisState) /\ VotesSent({}, net)
  BY <1>3 DEF FileBehind, VotesSent, Shape
<1> QED
  BY <1>1, <1>2, <1>3, <1>4 DEF ConsensusInv

\* What a step has to show: messages stay, files keep their blocks, and what is
\* new is good.
LEMMA InvKept ==
  ASSUME ConsensusInv, net \subseteq net', Domains',
         \A n \in Nodes : /\ StateOk(state'[n], net')
                          /\ StateOk(disk'[n], net')
                          /\ FileBehind(state'[n], disk'[n])
                          /\ VotesSent(votes'[n], net')
                          /\ BlocksIn(disk[n]) \subseteq BlocksIn(disk'[n]),
         \A m \in net' : m \in net \/ MessageOk(m, net', disk')
  PROVE  ConsensusInv'
<1>1. ASSUME NEW m \in net' PROVE MessageOk(m, net', disk')
  <2>1. CASE m \in net
    <3>1. MessageOk(m, net, disk)
      BY <2>1 DEF ConsensusInv
    <3> QED
      BY <3>1, MessageStays
  <2> QED
    BY <2>1
<1> QED
  BY <1>1 DEF ConsensusInv

\* A step that finalizes nothing and starts nothing over.
LEMMA InvKeptByMessages ==
  ASSUME ConsensusInv, net \subseteq net', UNCHANGED <<state, disk>>,
         DOMAIN pending' = Nodes, DOMAIN votes' = Nodes,
         \A n \in Nodes : VotesSent(votes'[n], net'),
         \A m \in net' : m \in net \/ MessageOk(m, net', disk')
  PROVE  ConsensusInv'
<1>1. Domains'
  BY DEF ConsensusInv, Domains
<1>2. ASSUME NEW n \in Nodes
      PROVE  /\ StateOk(state'[n], net')
             /\ StateOk(disk'[n], net')
             /\ FileBehind(state'[n], disk'[n])
             /\ VotesSent(votes'[n], net')
             /\ BlocksIn(disk[n]) \subseteq BlocksIn(disk'[n])
  BY MoreMessages DEF ConsensusInv
<1> QED
  BY <1>1, <1>2, InvKept

LEMMA ProposeStep ==
  ASSUME ConsensusInv, NEW n \in Validators, NEW p \in Payloads, Propose(n, p)
  PROVE  ConsensusInv'
<1>1. PICK txs \in Canonical(p) :
        net' = net \cup {Proposal(to, NewBlock(n, state[n], txs)) : to \in Nodes}
  BY DEF Propose
<1>2. txs \in Seq(Transfers)
  <2>1. p \in Seq(Transfers) /\ DOMAIN p = 1..Len(p) /\ Len(p) \in Nat
    BY ConsensusInputs
  <2>2. PICK q \in [DOMAIN p -> DOMAIN p] : txs = [i \in DOMAIN p |-> p[q[i]]]
    BY <1>1, Zenon DEF Canonical, Bijection, Injection, Surjection
  <2>3. txs \in [1..Len(p) -> Transfers]
    BY <2>1, <2>2
  <2> QED
    BY <2>1, <2>3
<1> DEFINE b == NewBlock(n, state[n], txs)
<1>3. b.txs \in Seq(Transfers)
  BY <1>2 DEF NewBlock
<1> HIDE DEF b
<1>4. \A m \in net' : m \in net \/ MessageOk(m, net', disk')
  BY <1>1, <1>3 DEF b, Proposal, MessageOk
<1>5. net \subseteq net' /\ UNCHANGED <<state, disk, pending, votes>>
  BY <1>1 DEF Propose
<1>6. \A k \in Nodes : VotesSent(votes'[k], net')
  BY <1>5, MoreMessages DEF ConsensusInv
<1> QED
  BY <1>4, <1>5, <1>6, InvKeptByMessages DEF ConsensusInv, Domains

LEMMA HandleProposalStep ==
  ASSUME ConsensusInv, NEW m \in net, HandleProposal(m.to, m)
  PROVE  ConsensusInv'
<1>1. MessageOk(m, net, disk)
  BY DEF ConsensusInv
<1>2. net \subseteq net' /\ UNCHANGED <<state, disk, votes>> /\ DOMAIN pending' = Nodes
  BY DEF HandleProposal, ConsensusInv, Domains
<1>3. \A k \in net' : k \in net \/ k = Vote(m.to, m.block)
  BY DEF HandleProposal
<1>4. MessageOk(Vote(m.to, m.block), net', disk') \/ m.block.proposer \notin Nodes
  BY <1>1 DEF MessageOk, Vote
<1>5. m.block.proposer \in Nodes
  BY ConsensusInputs DEF HandleProposal, Nodes
<1>6. \A k \in Nodes : VotesSent(votes'[k], net')
  BY <1>2, MoreMessages DEF ConsensusInv
<1> QED
  BY <1>2, <1>3, <1>4, <1>5, <1>6, InvKeptByMessages DEF ConsensusInv, Domains

\* The voters a node counts, with the one it is hearing, have all voted.
LEMMA CountedVoted ==
  ASSUME ConsensusInv, NEW m \in net, VoteAccepted(m.to, m)
  PROVE  /\ MessageOk(m, net, disk) /\ m.to \in Nodes
         /\ Vote(m.from, m.block) \in net
         /\ \A v \in (Counted(m.to, m.block) \cup {m.from}) \cap Validators : Vote(v, m.block) \in net
<1>1. MessageOk(m, net, disk)
  BY DEF ConsensusInv
<1>2. m.to \in Nodes /\ Vote(m.from, m.block) \in net
  BY <1>1 DEF MessageOk, VoteAccepted
<1>3. ASSUME NEW v \in Counted(m.to, m.block) PROVE Vote(v, m.block) \in net
  <2>1. v \in Validators /\ <<m.block, v>> \in votes[m.to] /\ VotesSent(votes[m.to], net)
    BY <1>2, <1>3 DEF Counted, ConsensusInv
  <2> QED
    BY <2>1 DEF VotesSent
<1> QED
  BY <1>1, <1>2, <1>3

LEMMA VotesGrow ==
  ASSUME ConsensusInv, NEW m \in net, VoteAccepted(m.to, m),
         votes' = [votes EXCEPT ![m.to] = @ \cup {<<m.block, m.from>>}]
  PROVE  DOMAIN votes' = Nodes /\ \A n \in Nodes : VotesSent(votes'[n], net)
<1>1. Vote(m.from, m.block) \in net
  BY CountedVoted
<1>2. DOMAIN votes' = Nodes /\ \A n \in Nodes : votes'[n] \subseteq votes[n] \cup {<<m.block, m.from>>}
  BY DEF ConsensusInv, Domains
<1>3. \A n \in Nodes : VotesSent(votes[n], net)
  BY DEF ConsensusInv
<1>4. <<m.block, m.from>>[1] = m.block /\ <<m.block, m.from>>[2] = m.from
  OBVIOUS
<1>5. ASSUME NEW n \in Nodes PROVE VotesSent(votes'[n], net)
  <2> SUFFICES ASSUME NEW v \in votes'[n], v[2] \in Validators PROVE Vote(v[2], v[1]) \in net
    BY DEF VotesSent
  <2>1. CASE v \in votes[n]
    BY <1>3, <2>1 DEF VotesSent
  <2>2. CASE v = <<m.block, m.from>>
    BY <1>1, <1>4, <2>2
  <2> QED
    BY <1>2, <2>1, <2>2
<1> QED
  BY <1>2, <1>5

LEMMA CountVoteStep ==
  ASSUME ConsensusInv, NEW m \in net, CountVote(m.to, m)
  PROVE  ConsensusInv'
<1>1. /\ VoteAccepted(m.to, m) /\ UNCHANGED <<state, disk, pending, net>>
      /\ votes' = [votes EXCEPT ![m.to] = @ \cup {<<m.block, m.from>>}]
  BY DEF CountVote
<1>2. DOMAIN votes' = Nodes /\ \A n \in Nodes : VotesSent(votes'[n], net')
  BY <1>1, VotesGrow
<1> QED
  BY <1>1, <1>2, InvKeptByMessages DEF ConsensusInv, Domains

\* The state of one node moves to the next block; its file moves along or stays.
LEMMA FinalizeStates ==
  ASSUME ConsensusInv, NEW n \in Nodes, NEW b, b.txs \in Seq(Transfers),
         NEW voters, FinalizeOk(state[n], b, voters),
         \A v \in voters \cap Validators : Vote(v, b) \in net,
         net \subseteq net',
         state' = [state EXCEPT ![n] = Finalized(state[n], b)],
         disk' = disk \/ disk' = [disk EXCEPT ![n] = Finalized(state[n], b)]
  PROVE  /\ DOMAIN state' = Nodes /\ DOMAIN disk' = Nodes
         /\ \A k \in Nodes : /\ StateOk(state'[k], net')
                             /\ StateOk(disk'[k], net')
                             /\ FileBehind(state'[k], disk'[k])
                             /\ BlocksIn(disk[k]) \subseteq BlocksIn(disk'[k])
<1> DEFINE g == Finalized(state[n], b)
<1>1. /\ StateOk(g, net) /\ BlocksIn(g) = BlocksIn(state[n]) \cup {b}
      /\ g.height = state[n].height + 1 /\ state[n].height \in Nat
  BY StateGrows DEF ConsensusInv
<1>2. DOMAIN state = Nodes /\ DOMAIN disk = Nodes
  BY DEF ConsensusInv, Domains
<1> HIDE DEF g
<1>3. state' = [state EXCEPT ![n] = g] /\ (disk' = disk \/ disk' = [disk EXCEPT ![n] = g])
  BY DEF g
<1>4. ASSUME NEW k \in Nodes
      PROVE  /\ StateOk(state[k], net') /\ StateOk(disk[k], net') /\ StateOk(g, net')
             /\ FileBehind(state[k], disk[k]) /\ disk[k].height \in Nat
  BY <1>1, MoreMessages DEF ConsensusInv, StateOk, Shape
<1>5. FileBehind(g, disk[n]) /\ FileBehind(g, g) /\ BlocksIn(disk[n]) \subseteq BlocksIn(g)
  <2>1. /\ BlocksIn(disk[n]) \subseteq BlocksIn(state[n]) /\ disk[n].height <= state[n].height
        /\ disk[n].height \in Nat
    BY <1>4 DEF FileBehind
  <2>2. g.height \in Nat /\ disk[n].height <= g.height /\ g.height <= g.height
    BY <1>1, <2>1
  <2> QED
    BY <1>1, <2>1, <2>2 DEF FileBehind
<1>6. ASSUME NEW k \in Nodes
      PROVE  /\ StateOk(state'[k], net')
             /\ StateOk(disk'[k], net')
             /\ FileBehind(state'[k], disk'[k])
             /\ BlocksIn(disk[k]) \subseteq BlocksIn(disk'[k])
  <2>1. CASE k = n
    BY <1>2, <1>3, <1>4, <1>5, <2>1
  <2>2. CASE k # n
    BY <1>2, <1>3, <1>4, <2>2
  <2> QED
    BY <2>1, <2>2
<1> QED
  BY <1>2, <1>3, <1>6

\* Votes of a settled block are forgotten; no vote appears.
LEMMA SettleVotes ==
  ASSUME ConsensusInv, NEW n, NEW b, Settle(n, b), net \subseteq net'
  PROVE  /\ DOMAIN votes' = Nodes /\ DOMAIN pending' = Nodes
         /\ \A k \in Nodes : VotesSent(votes'[k], net')
<1>1. DOMAIN votes' = Nodes /\ DOMAIN pending' = Nodes /\ \A k \in Nodes : votes'[k] \subseteq votes[k]
  BY DEF Settle, ConsensusInv, Domains
<1> QED
  BY <1>1 DEF ConsensusInv, VotesSent

LEMMA FinalizeOnVoteStep ==
  ASSUME ConsensusInv, NEW m \in net, FinalizeOnVote(m.to, m)
  PROVE  ConsensusInv'
<1> DEFINE n == m.to
           b == m.block
           voters == Counted(n, b) \cup {m.from}
<1>1. /\ VoteAccepted(n, m) /\ FinalizeOk(state[n], b, voters) /\ CommitState(n, b) /\ Settle(n, b)
      /\ net' = net \cup {Certificate(n, to, b, voters) : to \in Validators}
  BY DEF FinalizeOnVote
<1>2. n \in Nodes /\ b.txs \in Seq(Transfers) /\ \A v \in voters \cap Validators : Vote(v, b) \in net
  BY <1>1, CountedVoted DEF MessageOk
<1> HIDE DEF n, b, voters
<1>3. net \subseteq net'
  BY <1>1
<1>4. /\ state' = [state EXCEPT ![n] = Finalized(state[n], b)]
      /\ disk' = [disk EXCEPT ![n] = Finalized(state[n], b)]
  BY <1>1 DEF CommitState
<1>5. /\ DOMAIN state' = Nodes /\ DOMAIN disk' = Nodes
      /\ \A k \in Nodes : /\ StateOk(state'[k], net')
                          /\ StateOk(disk'[k], net')
                          /\ FileBehind(state'[k], disk'[k])
                          /\ BlocksIn(disk[k]) \subseteq BlocksIn(disk'[k])
  BY <1>1, <1>2, <1>3, <1>4, FinalizeStates
<1>6. /\ DOMAIN votes' = Nodes /\ DOMAIN pending' = Nodes
      /\ \A k \in Nodes : VotesSent(votes'[k], net')
  BY <1>1, <1>3, SettleVotes
<1>7. b \in BlocksIn(disk'[n])
  <2>1. BlocksIn(Finalized(state[n], b)) = BlocksIn(state[n]) \cup {b}
    BY <1>1, <1>2, StateGrows DEF ConsensusInv
  <2>2. disk'[n] = Finalized(state[n], b)
    BY <1>2, <1>4 DEF ConsensusInv, Domains
  <2> QED
    BY <2>1, <2>2
<1>8. ASSUME NEW to \in Validators PROVE MessageOk(Certificate(n, to, b, voters), net', disk')
  BY <1>2, <1>3, <1>7, ConsensusInputs DEF MessageOk, Certificate, Nodes
<1>9. \A k \in net' : k \in net \/ MessageOk(k, net', disk')
  BY <1>1, <1>8
<1> QED
  BY <1>3, <1>5, <1>6, <1>9, InvKept DEF Domains

LEMMA FinalizeOnCertificateStep ==
  ASSUME ConsensusInv, NEW m \in net, FinalizeOnCertificate(m.to, m)
  PROVE  ConsensusInv'
<1> DEFINE n == m.to
           b == m.block
<1>1. /\ m.kind = "certificate" /\ FinalizeOk(state[n], b, m.voters) /\ CommitState(n, b)
      /\ Settle(n, b) /\ net' = net
  BY DEF FinalizeOnCertificate
<1>2. MessageOk(m, net, disk)
  BY DEF ConsensusInv
<1>3. n \in Nodes /\ b.txs \in Seq(Transfers) /\ \A v \in m.voters \cap Validators : Vote(v, b) \in net
  BY <1>1, <1>2 DEF MessageOk
<1> HIDE DEF n, b
<1>4. /\ state' = [state EXCEPT ![n] = Finalized(state[n], b)]
      /\ disk' = [disk EXCEPT ![n] = Finalized(state[n], b)]
  BY <1>1 DEF CommitState
<1>5. /\ DOMAIN state' = Nodes /\ DOMAIN disk' = Nodes
      /\ \A k \in Nodes : /\ StateOk(state'[k], net')
                          /\ StateOk(disk'[k], net')
                          /\ FileBehind(state'[k], disk'[k])
                          /\ BlocksIn(disk[k]) \subseteq BlocksIn(disk'[k])
  BY <1>1, <1>3, <1>4, FinalizeStates
<1>6. /\ DOMAIN votes' = Nodes /\ DOMAIN pending' = Nodes
      /\ \A k \in Nodes : VotesSent(votes'[k], net')
  BY <1>1, SettleVotes
<1> QED
  BY <1>1, <1>5, <1>6, InvKept DEF Domains

LEMMA SaveFailsStep ==
  ASSUME ConsensusInv, NEW m \in net, SaveFails(m.to, m)
  PROVE  ConsensusInv'
<1> DEFINE n == m.to
           b == m.block
<1>1. UNCHANGED <<disk, pending, net>> /\ state' = [state EXCEPT ![n] = Finalized(state[n], b)]
  BY DEF SaveFails
<1>2. MessageOk(m, net, disk) /\ n \in Nodes /\ b.txs \in Seq(Transfers)
  BY DEF ConsensusInv, MessageOk
<1>3. PICK voters : /\ FinalizeOk(state[n], b, voters)
                    /\ \A v \in voters \cap Validators : Vote(v, b) \in net
                    /\ DOMAIN votes' = Nodes
                    /\ \A k \in Nodes : VotesSent(votes'[k], net')
  <2>1. CASE /\ VoteAccepted(n, m)
             /\ FinalizeOk(state[n], b, Counted(n, b) \cup {m.from})
             /\ votes' = [votes EXCEPT ![n] = @ \cup {<<b, m.from>>}]
    <3>1. \A v \in (Counted(n, b) \cup {m.from}) \cap Validators : Vote(v, b) \in net
      BY <2>1, CountedVoted
    <3>2. DOMAIN votes' = Nodes /\ \A k \in Nodes : VotesSent(votes'[k], net')
      BY <1>1, <2>1, VotesGrow
    <3> QED
      BY <2>1, <3>1, <3>2
  <2>2. CASE /\ m.kind = "certificate" /\ FinalizeOk(state[n], b, m.voters) /\ votes' = votes
    <3>1. \A v \in m.voters \cap Validators : Vote(v, b) \in net
      BY <1>2, <2>2 DEF MessageOk
    <3>2. DOMAIN votes' = Nodes /\ \A k \in Nodes : VotesSent(votes'[k], net')
      BY <1>1, <2>2 DEF ConsensusInv, Domains
    <3> QED
      BY <2>2, <3>1, <3>2
  <2> QED
    BY <2>1, <2>2 DEF SaveFails
<1> HIDE DEF n, b
<1>4. /\ DOMAIN state' = Nodes /\ DOMAIN disk' = Nodes
      /\ \A k \in Nodes : /\ StateOk(state'[k], net')
                          /\ StateOk(disk'[k], net')
                          /\ FileBehind(state'[k], disk'[k])
                          /\ BlocksIn(disk[k]) \subseteq BlocksIn(disk'[k])
  BY <1>1, <1>2, <1>3, FinalizeStates
<1> QED
  BY <1>1, <1>3, <1>4, InvKept DEF Domains, ConsensusInv

LEMMA CrashStep ==
  ASSUME ConsensusInv, NEW n \in Nodes, CrashRestart(n)
  PROVE  ConsensusInv'
<1>1. /\ UNCHANGED <<disk, net>> /\ state' = [state EXCEPT ![n] = disk[n]]
      /\ votes' = [votes EXCEPT ![n] = {}] /\ pending' = [pending EXCEPT ![n] = {}]
  BY DEF CrashRestart
<1>2. Domains'
  BY <1>1 DEF ConsensusInv, Domains
<1>3. FileBehind(disk[n], disk[n]) /\ VotesSent({}, net)
  <2>1. disk[n].height \in Nat
    BY DEF ConsensusInv, StateOk, Shape
  <2>2. disk[n].height <= disk[n].height
    BY <2>1
  <2> QED
    BY <2>2 DEF FileBehind, VotesSent
<1>4. ASSUME NEW k \in Nodes
      PROVE  /\ StateOk(state'[k], net') /\ StateOk(disk'[k], net')
             /\ FileBehind(state'[k], disk'[k]) /\ VotesSent(votes'[k], net')
  BY <1>1, <1>3 DEF ConsensusInv, Domains
<1> QED
  BY <1>1, <1>2, <1>4, InvKept

LEMMA InvStep == ConsensusInv /\ [Next]_vars => ConsensusInv'
<1> SUFFICES ASSUME ConsensusInv, [Next]_vars PROVE ConsensusInv'
  OBVIOUS
<1>1. ASSUME NEW n \in Validators, NEW p \in Payloads, Propose(n, p) PROVE ConsensusInv'
  BY <1>1, ProposeStep
<1>2. ASSUME NEW m \in net, Handle(m.to, m) PROVE ConsensusInv'
  BY <1>2, HandleProposalStep, CountVoteStep, FinalizeOnVoteStep, FinalizeOnCertificateStep,
     SaveFailsStep DEF Handle
<1>3. ASSUME NEW n \in Nodes, CrashRestart(n) PROVE ConsensusInv'
  BY <1>3, CrashStep
<1>4. CASE UNCHANGED vars
  <2>1. UNCHANGED <<state, disk, pending, votes, net>>
    BY <1>4 DEF vars
  <2> QED
    BY <2>1, InvKeptByMessages DEF ConsensusInv, Domains
<1> QED
  BY <1>1, <1>2, <1>3, <1>4 DEF Next

-----------------------------------------------------------------------------
(* The theorems *)

LEMMA InvAlways == Spec => []ConsensusInv
BY InvInit, InvStep, PTL DEF Spec

\* Every block that a node has finalized was approved by at least 66.66 % of the
\* validators, whatever is lost, repeated or delayed and whoever crashes.
THEOREM QuorumTheorem == Spec => []FinalizedByQuorum
<1>1. ConsensusInv => FinalizedByQuorum
  <2> SUFFICES ASSUME ConsensusInv, NEW n \in Nodes, NEW b \in BlocksIn(state[n])
               PROVE  Cardinality(Approvers(b)) * 10000 >= Cardinality(Validators) * QUORUM_BPS
    BY DEF FinalizedByQuorum
  <2> DEFINE A == {v \in Validators : Vote(v, b) \in net}
  <2>1. HasQuorum(b, net)
    BY DEF ConsensusInv, StateOk
  <2>2. A = Approvers(b)
    BY DEF Approvers
  <2>3. Cardinality(A) * 10000 >= Cardinality(Validators) * QUORUM_BPS
    BY <2>1 DEF HasQuorum
  <2> HIDE DEF A
  <2> QED
    BY <2>2, <2>3
<1> QED
  BY <1>1, InvAlways, PTL

\* Two nodes finalize different blocks at one height only if some validator
\* approved both: handle_proposal is the only place a fork can come from.
THEOREM ForkTheorem == Spec => []ForkNeedsDoubleVote
<1>1. FinalizedByQuorum => ForkNeedsDoubleVote
  <2> SUFFICES ASSUME FinalizedByQuorum, NEW n \in Nodes, NEW k \in Nodes,
                      NEW b \in BlocksIn(state[n]), NEW c \in BlocksIn(state[k])
               PROVE  Approvers(b) \cap Approvers(c) # {}
    BY DEF ForkNeedsDoubleVote
  <2>1. Approvers(b) \in SUBSET Validators /\ Approvers(c) \in SUBSET Validators
    BY DEF Approvers
  <2>2. /\ Cardinality(Approvers(b)) * 10000 >= Cardinality(Validators) * QUORUM_BPS
        /\ Cardinality(Approvers(c)) * 10000 >= Cardinality(Validators) * QUORUM_BPS
    BY DEF FinalizedByQuorum
  <2> QED
    BY <2>1, <2>2, QuorumsMeet
<1> QED
  BY <1>1, QuorumTheorem, PTL

\* A certificate is sent only for a block that the sender's file holds, and the
\* file never loses it.
THEOREM DurableTheorem == Spec => []AnnouncedIsDurable
<1>1. ConsensusInv => AnnouncedIsDurable
  BY DEF ConsensusInv, MessageOk, AnnouncedIsDurable
<1> QED
  BY <1>1, InvAlways, PTL

\* save() and open() accept every finalized state: the counts of members,
\* balances and nonces agree and no more is held than was issued.
THEOREM LoadTheorem == Spec => []StateLoads
<1>1. ASSUME NEW l, SoundLedger(l) PROVE SaturatedTotal(l.balances) <= l.issued
  <2>1. Total(l.balances) \in Nat /\ l.issued \in Nat /\ MaxAtoms \in Nat /\ l.issued <= MaxAtoms
    BY <1>1, TotalIsNat, LedgerAssumption DEF SoundLedger, Atoms
  <2> QED
    BY <1>1, <2>1 DEF SoundLedger, SaturatedTotal
<1>2. ConsensusInv => StateLoads
  BY <1>1 DEF ConsensusInv, StateOk, SoundLedger, StateLoads, ValidateState
<1> QED
  BY <1>2, InvAlways, PTL

\* The ledger of a finalized state, in memory and in the file, is what executing
\* its chain from genesis gives, and no block of the chain fails.
THEOREM ReplayTheorem == Spec => []LedgerIsReplay
<1>1. ConsensusInv => LedgerIsReplay
  BY DEF ConsensusInv, StateOk, LedgerIsReplay
<1> QED
  BY <1>1, InvAlways, PTL

\* A step leaves a file alone or writes a longer chain that contains it.
FileGrows(n) ==
  /\ disk'[n] = disk[n] \/ disk'[n].tip.prev = disk[n].tip
     \/ (disk'[n].height > disk[n].height /\ disk[n].tip
           \in BlocksIn(disk'[n]) \cup {GenesisTip})
  /\ disk'[n].height <= state'[n].height

LEMMA CommitGrows ==
  ASSUME ConsensusInv, ConsensusInv', NEW n \in Nodes, NEW b, NEW voters,
         FinalizeOk(state[n], b, voters), CommitState(n, b)
  PROVE  \A k \in Nodes : FileGrows(k)
<1> DEFINE g == Finalized(state[n], b)
<1>1. Shape(state[n]) /\ ExtendsTip(state[n], b) /\ disk[n].height \in Nat
  BY DEF ConsensusInv, StateOk, FinalizeOk, Shape
<1>2. g.height = state[n].height + 1 /\ BlocksIn(g) = BlocksIn(state[n]) \cup {b}
  BY <1>1, BlocksGrow
<1>3. disk' = [disk EXCEPT ![n] = g] /\ DOMAIN disk = Nodes
  BY DEF CommitState, ConsensusInv, Domains
<1> HIDE DEF g
<1>4. /\ disk[n].tip \in BlocksIn(disk[n]) \cup {GenesisTip}
      /\ BlocksIn(disk[n]) \subseteq BlocksIn(state[n]) /\ disk[n].height <= state[n].height
  BY DEF ConsensusInv, StateOk, FileBehind
<1>5. disk[n].tip \in BlocksIn(g) \cup {GenesisTip} /\ g.height > disk[n].height
  BY <1>1, <1>2, <1>4 DEF Shape
<1>6. \A k \in Nodes : disk'[k].height <= state'[k].height
  BY DEF ConsensusInv, FileBehind
<1> QED
  BY <1>3, <1>5, <1>6 DEF FileGrows

\* A restart never takes a node back: its file is only ever replaced by a longer
\* chain with the old tip in it, and memory is never behind the file.
THEOREM FileTheorem == Spec => FileOnlyGrows
<1>1. ConsensusInv /\ [Next]_vars => [\A n \in Nodes : FileGrows(n)]_vars
  <2> SUFFICES ASSUME ConsensusInv, Next PROVE \A n \in Nodes : FileGrows(n)
    OBVIOUS
  <2>1. ConsensusInv'
    BY InvStep
  <2>2. CASE disk' = disk
    <3>1. \A k \in Nodes : disk'[k].height <= state'[k].height
      BY <2>1 DEF ConsensusInv, FileBehind
    <3> QED
      BY <2>2, <3>1 DEF FileGrows
  <2>3. ASSUME NEW m \in net, FinalizeOnVote(m.to, m) \/ FinalizeOnCertificate(m.to, m)
        PROVE  \A n \in Nodes : FileGrows(n)
    <3>1. m.to \in Nodes
      BY DEF ConsensusInv, MessageOk
    <3>2. PICK voters : FinalizeOk(state[m.to], m.block, voters) /\ CommitState(m.to, m.block)
      BY <2>3 DEF FinalizeOnVote, FinalizeOnCertificate
    <3> QED
      BY <2>1, <3>1, <3>2, CommitGrows
  <2>4. \/ disk' = disk
        \/ \E m \in net : FinalizeOnVote(m.to, m) \/ FinalizeOnCertificate(m.to, m)
    BY DEF Next, Handle, Propose, HandleProposal, CountVote, SaveFails, CrashRestart
  <2> QED
    BY <2>2, <2>3, <2>4
<1>2. Spec => [][\A n \in Nodes : FileGrows(n)]_vars
  BY <1>1, InvAlways, PTL DEF Spec
<1> QED
  BY <1>2 DEF FileOnlyGrows, FileGrows
=============================================================================
