-------------------------- MODULE NodePartsProofs --------------------------
(***************************************************************************)
(* Invariants of the parts of a node, for every size of their tables and   *)
(* every number of tasks, messages and operations.                         *)
(***************************************************************************)
EXTENDS NodeParts, SumTheorems, NaturalsInduction, SequenceTheorems

-----------------------------------------------------------------------------
(* The parts side by side *)

\* A step of the node is a step of a part or leaves it alone.
LEMMA PartsStep ==
  ASSUME [PartsNext]_partsVars
  PROVE  /\ [Next]_vars
         /\ [InboxNext]_inboxVars
         /\ [StoreNext]_storeVars
         /\ [FedNext]_fedVars
         /\ [SessionNext]_sessionVars
         /\ [CapacityNext]_planVars
         /\ [BankNext]_bankVars
         /\ [DiscoveryNext]_discoveryVars
         /\ [SupervisorNext]_supervisorVars
         /\ [TopologyNext]_topologyVars
<1>1. CASE UNCHANGED partsVars
  BY <1>1 DEF partsVars
<1>2. CASE PartsNext
  BY <1>2, Zenon DEF PartsNext, Replays, Receives, Installs, Federates, Talks, Supervises, Places,
     Discovers, Banks, TopologyChanges
<1> QED
  BY <1>1, <1>2

LEMMA PartsStart ==
  ASSUME PartsInit
  PROVE  Init /\ InboxInit /\ StoreInit /\ FedInit /\ SessionInit /\ CapacityInit /\ BankInit
         /\ DiscoveryInit /\ SupervisorInit /\ TopologyInit
BY DEF PartsInit

-----------------------------------------------------------------------------
(* The replay guard *)

\* The inductive invariant.
ReplayInv == TypeOK /\ HighestIsHighest /\ WindowIsExact

\* What all four actions say about one entry e with history a: the
\* conjuncts of the invariant for one peer.
EntryOK(e, a) ==
  /\ e.highest \in a
  /\ \A seq \in a : seq <= e.highest
  /\ \A seq \in Sequences64 :
       Inside(e, seq) => (e.highest - seq \in e.bitmap <=> seq \in a)

\* The two invariants of the window, entry by entry.
LEMMA EntriesOK ==
  HighestIsHighest /\ WindowIsExact <=> \A p \in DOMAIN states : EntryOK(states[p], accepted[p])
BY DEF HighestIsHighest, WindowIsExact, EntryOK

Entries == [highest : Sequences64, bitmap : SUBSET (0..(Window - 1)), generation : Nat]

\* Sliding the window by any distance keeps the bits of the numbers that are
\* still inside and adds the new one.
LEMMA AdvanceKeepsWindow ==
  ASSUME NEW e \in Entries, NEW a \in SUBSET Sequences64, EntryOK(e, a),
         NEW seq \in Sequences64, seq > e.highest, NEW g \in Nat
  PROVE  /\ Entry(seq, Advance(e, seq), g) \in Entries
         /\ EntryOK(Entry(seq, Advance(e, seq), g), a \cup {seq})
<1> DEFINE n == Entry(seq, Advance(e, seq), g)
<1>1. n.highest = seq /\ n.bitmap = Advance(e, seq) /\ n.generation = g
  BY DEF Entry
<1>2. Advance(e, seq) \in SUBSET (0..(Window - 1))
  BY ReplayAssumption DEF Advance, ShiftLeft
<1>3. n \in Entries
  BY <1>2 DEF Entry, Entries
<1>4. e.highest \in Nat /\ seq \in Nat /\ Window \in Nat \ {0} /\ a \subseteq Nat
  BY ReplayAssumption DEF Entries, Sequences64
<1> HIDE DEF n
<1>5. n.highest \in a \cup {seq} /\ \A s \in a \cup {seq} : s <= n.highest
  BY <1>1, <1>4 DEF EntryOK
<1>6. ASSUME NEW s \in Sequences64, Inside(n, s)
      PROVE  n.highest - s \in n.bitmap <=> s \in a \cup {seq}
  <2>1. s \in Nat /\ s <= seq /\ seq - s < Window
    BY <1>1, <1>6, ReplayAssumption DEF Inside, Sequences64
  <2>2. CASE s = seq
    BY <1>1, <1>4, <2>2 DEF Advance
  <2>3. CASE s # seq
    <3>1. seq - s # 0 /\ seq - s \in 0..(Window - 1)
      BY <1>4, <2>1, <2>3
    <3>2. seq - s \in Advance(e, seq) <=> (seq - s) - (seq - e.highest) \in e.bitmap
      BY <3>1 DEF Advance, ShiftLeft
    <3>3. (seq - s) - (seq - e.highest) = e.highest - s
      BY <1>4, <2>1
    <3>4. CASE s <= e.highest
      <4>1. Inside(e, s)
        BY <1>4, <2>1, <3>4 DEF Inside
      <4> QED
        BY <1>1, <2>3, <3>2, <3>3, <4>1 DEF EntryOK
    <3>5. CASE s > e.highest
      <4>1. e.highest - s \notin e.bitmap
        BY <1>4, <2>1, <3>5 DEF Entries
      <4>2. s \notin a
        BY <1>4, <2>1, <3>5 DEF EntryOK
      <4> QED
        BY <1>1, <2>3, <3>2, <3>3, <4>1, <4>2
    <3> QED
      BY <1>4, <2>1, <3>4, <3>5
  <2> QED
    BY <2>2, <2>3
<1>7. EntryOK(n, a \cup {seq})
  BY <1>5, <1>6 DEF EntryOK
<1> QED
  BY <1>3, <1>7 DEF n

\* Setting the bit of a late number.
LEMMA LateKeepsWindow ==
  ASSUME NEW e \in Entries, NEW a \in SUBSET Sequences64, EntryOK(e, a),
         NEW seq \in Sequences64, Inside(e, seq), NEW g \in Nat
  PROVE  Mark(e, seq, g) \in Entries /\ EntryOK(Mark(e, seq, g), a \cup {seq})
<1> DEFINE n == Mark(e, seq, g)
<1>1. n.highest = e.highest /\ n.bitmap = e.bitmap \cup {e.highest - seq}
  BY DEF Entries, Mark
<1>2. e.highest \in Nat /\ seq \in Nat /\ Window \in Nat \ {0} /\ seq <= e.highest
      /\ e.highest - seq \in 0..(Window - 1)
  BY ReplayAssumption DEF Entries, Sequences64, Inside
<1>3. n \in Entries
  BY <1>2 DEF Entries, Mark
<1> HIDE DEF n
<1>4. n.highest \in a \cup {seq} /\ \A s \in a \cup {seq} : s <= n.highest
  BY <1>1, <1>2 DEF EntryOK
<1>5. ASSUME NEW s \in Sequences64, Inside(n, s)
      PROVE  n.highest - s \in n.bitmap <=> s \in a \cup {seq}
  <2>1. s \in Nat /\ Inside(e, s)
    BY <1>1, <1>5 DEF Inside, Sequences64
  <2>2. e.highest - s = e.highest - seq <=> s = seq
    BY <1>2, <2>1
  <2> QED
    BY <1>1, <2>1, <2>2 DEF EntryOK
<1>6. EntryOK(n, a \cup {seq})
  BY <1>4, <1>5 DEF EntryOK
<1> QED
  BY <1>3, <1>6 DEF n

\* The entry made for a peer's first frame.
LEMMA FirstEntryOK ==
  ASSUME NEW seq \in Sequences64, NEW g \in Nat
  PROVE  Entry(seq, {0}, g) \in Entries /\ EntryOK(Entry(seq, {0}, g), {seq})
<1>1. seq \in Nat
  BY DEF Sequences64
<1>2. Entry(seq, {0}, g) \in Entries
  BY ReplayAssumption DEF Entry, Entries
<1>3. ASSUME NEW s \in Sequences64 PROVE seq - s \in {0} <=> s \in {seq}
  BY <1>1 DEF Sequences64
<1> QED
  BY <1>1, <1>2, <1>3 DEF Entry, EntryOK

LEMMA ReplayStep == ReplayInv /\ [Next]_vars => ReplayInv'
<1>1. ASSUME ReplayInv, [Next]_vars PROVE ReplayInv'
  <2>1. /\ DOMAIN states \subseteq Peers /\ states \in [DOMAIN states -> Entries]
        /\ generation \in Nat /\ accepted \in [Peers -> SUBSET Sequences64]
        /\ \A p \in DOMAIN states : EntryOK(states[p], accepted[p])
    BY <1>1, EntriesOK DEF ReplayInv, TypeOK, Entries
  <2>2. SUFFICES /\ DOMAIN states' \subseteq Peers /\ states' \in [DOMAIN states' -> Entries]
                 /\ generation' \in Nat /\ accepted' \in [Peers -> SUBSET Sequences64]
                 /\ \A p \in DOMAIN states' : EntryOK(states'[p], accepted'[p])
    BY DEF ReplayInv, TypeOK, Entries, HighestIsHighest, WindowIsExact, EntryOK
  <2>3. CASE UNCHANGED vars
    BY <2>1, <2>3 DEF vars
  <2>4. ASSUME NEW p \in Peers, NEW seq \in Sequences64, AcceptNewer(p, seq)
        PROVE  /\ DOMAIN states' \subseteq Peers /\ states' \in [DOMAIN states' -> Entries]
               /\ generation' \in Nat /\ accepted' \in [Peers -> SUBSET Sequences64]
               /\ \A q \in DOMAIN states' : EntryOK(states'[q], accepted'[q])
    <3> DEFINE n == Entry(seq, Advance(states[p], seq), generation')
    <3>1. /\ p \in DOMAIN states /\ seq > states[p].highest /\ generation' \in Nat
          /\ states' = [states EXCEPT ![p] = n]
          /\ accepted' = [accepted EXCEPT ![p] = accepted[p] \cup {seq}]
      BY <2>1, <2>4 DEF AcceptNewer
    <3>2. n \in Entries /\ EntryOK(n, accepted[p] \cup {seq})
      BY <2>1, <3>1, AdvanceKeepsWindow
    <3> HIDE DEF n
    <3> QED
      BY <2>1, <3>1, <3>2
  <2>5. ASSUME NEW p \in Peers, NEW seq \in Sequences64, AcceptLate(p, seq)
        PROVE  /\ DOMAIN states' \subseteq Peers /\ states' \in [DOMAIN states' -> Entries]
               /\ generation' \in Nat /\ accepted' \in [Peers -> SUBSET Sequences64]
               /\ \A q \in DOMAIN states' : EntryOK(states'[q], accepted'[q])
    <3> DEFINE n == Mark(states[p], seq, generation')
    <3>1. /\ p \in DOMAIN states /\ Inside(states[p], seq) /\ generation' \in Nat
          /\ states' = [states EXCEPT ![p] = n]
          /\ accepted' = [accepted EXCEPT ![p] = accepted[p] \cup {seq}]
      BY <2>1, <2>5 DEF AcceptLate
    <3>2. n \in Entries /\ EntryOK(n, accepted[p] \cup {seq})
      BY <2>1, <3>1, LateKeepsWindow
    <3> HIDE DEF n
    <3> QED
      BY <2>1, <3>1, <3>2
  <2>6. ASSUME NEW p \in Peers, NEW seq \in Sequences64, RejectDuplicate(p, seq)
        PROVE  /\ DOMAIN states' \subseteq Peers /\ states' \in [DOMAIN states' -> Entries]
               /\ generation' \in Nat /\ accepted' \in [Peers -> SUBSET Sequences64]
               /\ \A q \in DOMAIN states' : EntryOK(states'[q], accepted'[q])
    BY <2>1, <2>6 DEF RejectDuplicate
  <2>7. ASSUME NEW p \in Peers, NEW seq \in Sequences64, AcceptFirst(p, seq)
        PROVE  /\ DOMAIN states' \subseteq Peers /\ states' \in [DOMAIN states' -> Entries]
               /\ generation' \in Nat /\ accepted' \in [Peers -> SUBSET Sequences64]
               /\ \A q \in DOMAIN states' : EntryOK(states'[q], accepted'[q])
    <3> DEFINE n == Entry(seq, {0}, generation')
    <3>1. p \notin DOMAIN states /\ generation' \in Nat
      BY <2>1, <2>7 DEF AcceptFirst
    <3>2. PICK evicted \in SUBSET DOMAIN states :
            /\ states' = [q \in (DOMAIN states \ evicted) \cup {p} |->
                            IF q = p THEN n ELSE states[q]]
            /\ accepted' = [q \in Peers |-> IF q \in evicted THEN {}
                                            ELSE IF q = p THEN {seq} ELSE accepted[q]]
      BY <2>7 DEF AcceptFirst
    <3>3. n \in Entries /\ EntryOK(n, {seq})
      BY <3>1, FirstEntryOK
    <3> HIDE DEF n
    <3> QED
      BY <2>1, <3>1, <3>2, <3>3
  <2> QED
    BY <1>1, <2>3, <2>4, <2>5, <2>6, <2>7 DEF Next
<1> QED
  BY <1>1

\* For every window size, table size and order of arrival: inside the window a
\* frame is refused exactly when it was accepted before, and nothing above the
\* window's end was ever accepted.
THEOREM WindowExact == PartsSpec => [](TypeOK /\ HighestIsHighest /\ WindowIsExact)
<1>1. PartsInit => ReplayInv
  BY PartsStart DEF Init, ReplayInv, TypeOK, HighestIsHighest, WindowIsExact
<1>2. ReplayInv /\ [PartsNext]_partsVars => ReplayInv'
  BY ReplayStep, PartsStep
<1> QED
  BY <1>1, <1>2, PTL DEF PartsSpec, ReplayInv

-----------------------------------------------------------------------------
(* The inbox *)

IsCount(f, q) ==
  /\ f \in [0..Len(q) -> Nat]
  /\ f[0] = 0
  /\ \A i \in 1..Len(q) : f[i] = f[i - 1] + Size[q[i]]

\* The sum over a queue exists ...
LEMMA CountExists ==
  ASSUME NEW q \in Seq(Messages)
  PROVE  \E f : IsCount(f, q)
<1> DEFINE Upto(n) == \E f \in [0..n -> Nat] : f[0] = 0 /\ \A i \in 1..n : f[i] = f[i - 1] + Size[q[i]]
           S == {n \in Nat : n <= Len(q) => Upto(n)}
<1>1. 0 \in S
  <2> DEFINE z == [i \in 0..0 |-> 0]
  <2>1. z \in [0..0 -> Nat] /\ z[0] = 0 /\ \A i \in 1..0 : z[i] = z[i - 1] + Size[q[i]]
    OBVIOUS
  <2>2. Upto(0)
    <3> HIDE DEF z
    <3> QED
      BY <2>1
  <2> HIDE DEF Upto
  <2> QED
    BY <2>2
<1>2. ASSUME NEW n \in S PROVE n + 1 \in S
  <2>1. n \in Nat /\ n + 1 \in Nat /\ Len(q) \in Nat
    OBVIOUS
  <2>2. ASSUME n + 1 <= Len(q) PROVE Upto(n + 1)
    <3>0. Upto(n)
      <4> HIDE DEF Upto
      <4> QED
        BY <2>1, <2>2
    <3>1. PICK f \in [0..n -> Nat] : f[0] = 0 /\ \A i \in 1..n : f[i] = f[i - 1] + Size[q[i]]
      BY <3>0
    <3>2. Size[q[n + 1]] \in Nat
      <4>1. n + 1 \in 1..Len(q)
        BY <2>1, <2>2
      <4> QED
        BY <4>1, InboxAssumption
    <3> DEFINE g == [i \in 0..(n + 1) |-> IF i = n + 1 THEN f[n] + Size[q[n + 1]] ELSE f[i]]
    <3>3. g \in [0..(n + 1) -> Nat] /\ g[0] = 0
      BY <2>1, <3>1, <3>2
    <3>4. ASSUME NEW i \in 1..(n + 1) PROVE g[i] = g[i - 1] + Size[q[i]]
      <4>1. CASE i = n + 1
        BY <2>1, <3>1, <4>1
      <4>2. CASE i # n + 1
        <5>1. i \in 1..n /\ i - 1 \in 0..n /\ i - 1 # n + 1 /\ i \in 0..(n + 1) /\ i - 1 \in 0..(n + 1)
          BY <2>1, <4>2
        <5>2. g[i] = f[i] /\ g[i - 1] = f[i - 1]
          BY <4>2, <5>1
        <5> QED
          BY <3>1, <5>1, <5>2
      <4> QED
        BY <4>1, <4>2
    <3> HIDE DEF g
    <3> QED
      BY <3>3, <3>4
  <2> HIDE DEF Upto
  <2> QED
    BY <2>1, <2>2
<1>3. S = Nat
  <2> HIDE DEF S
  <2>1. S \in SUBSET Nat
    BY DEF S
  <2> QED
    BY <1>1, <1>2, <2>1, NatSetInduction
<1>4. Upto(Len(q))
  <2> HIDE DEF Upto
  <2> QED
    BY <1>3
<1> QED
  BY <1>4 DEF IsCount

\* ... and Held is its last value.
LEMMA HeldIsCount ==
  ASSUME NEW q \in Seq(Messages), NEW f, IsCount(f, q)
  PROVE  Held(q) = f[Len(q)] /\ f[Len(q)] \in Nat
<1>1. f = [i \in 0..Len(q) |-> IF i = 0 THEN 0 ELSE f[i - 1] + Size[q[i]]]
  <2>1. \A i \in 0..Len(q) : f[i] = IF i = 0 THEN 0 ELSE f[i - 1] + Size[q[i]]
    BY DEF IsCount
  <2> QED
    BY <2>1 DEF IsCount
<1>2. RunningBytes(q) = [i \in 0..Len(q) |-> IF i = 0 THEN 0 ELSE RunningBytes(q)[i - 1] + Size[q[i]]]
  BY <1>1, Zenon DEF RunningBytes
<1> DEFINE r == RunningBytes(q)
           S == {n \in Nat : n <= Len(q) => r[n] = f[n]}
<1> HIDE DEF r
<1>3. \A i \in 0..Len(q) : r[i] = IF i = 0 THEN 0 ELSE r[i - 1] + Size[q[i]]
  <2>1. r = [i \in 0..Len(q) |-> IF i = 0 THEN 0 ELSE r[i - 1] + Size[q[i]]]
    BY <1>2 DEF r
  <2> QED
    BY <2>1, Zenon
<1>4. 0 \in S
  BY <1>3 DEF IsCount
<1>5. ASSUME NEW n \in S PROVE n + 1 \in S
  <2>1. n \in Nat /\ n + 1 \in Nat /\ Len(q) \in Nat
    OBVIOUS
  <2>2. ASSUME n + 1 <= Len(q) PROVE r[n + 1] = f[n + 1]
    <3>1. n + 1 \in 0..Len(q) /\ n + 1 \in 1..Len(q) /\ (n + 1) - 1 = n /\ n + 1 # 0 /\ r[n] = f[n]
      BY <2>1, <2>2
    <3>2. r[n + 1] = r[n] + Size[q[n + 1]] /\ f[n + 1] = f[n] + Size[q[n + 1]]
      BY <1>3, <3>1 DEF IsCount
    <3> QED
      BY <3>1, <3>2
  <2> QED
    BY <2>1, <2>2
<1>6. S = Nat
  <2> HIDE DEF S
  <2>1. S \in SUBSET Nat
    BY DEF S
  <2> QED
    BY <1>4, <1>5, <2>1, NatSetInduction
<1>7. r[Len(q)] = f[Len(q)] /\ f[Len(q)] \in Nat
  BY <1>6 DEF IsCount
<1> QED
  BY <1>7 DEF r, Held

\* An empty queue holds nothing, and a push adds the size of its message.
LEMMA HeldFacts ==
  /\ Held(<<>>) = 0
  /\ \A q \in Seq(Messages) : Held(q) \in Nat
  /\ \A q \in Seq(Messages), m \in Messages : Held(Append(q, m)) = Held(q) + Size[m]
<1>1. ASSUME NEW q \in Seq(Messages) PROVE Held(q) \in Nat
  BY CountExists, HeldIsCount
<1>2. Held(<<>>) = 0
  <2>1. <<>> \in Seq(Messages) /\ Len(<<>>) = 0
    OBVIOUS
  <2>2. PICK f : IsCount(f, <<>>)
    BY <2>1, CountExists
  <2>3. Held(<<>>) = f[0] /\ f[0] = 0
    BY <2>1, <2>2, HeldIsCount DEF IsCount
  <2> QED
    BY <2>3
<1>3. ASSUME NEW q \in Seq(Messages), NEW m \in Messages
      PROVE  Held(Append(q, m)) = Held(q) + Size[m]
  <2> DEFINE l == Len(q)
             a == Append(q, m)
  <2>1. PICK f : IsCount(f, q)
    BY CountExists
  <2>2. /\ a \in Seq(Messages) /\ Len(a) = l + 1 /\ l \in Nat /\ a[l + 1] = m
        /\ \A i \in 1..l : a[i] = q[i]
    OBVIOUS
  <2>3. Size[m] \in Nat /\ f \in [0..l -> Nat] /\ f[0] = 0
        /\ \A i \in 1..l : f[i] = f[i - 1] + Size[q[i]]
    BY <2>1, InboxAssumption DEF IsCount
  <2> HIDE DEF a, l
  <2> DEFINE g == [i \in 0..(l + 1) |-> IF i = l + 1 THEN f[l] + Size[m] ELSE f[i]]
  <2>4. g \in [0..(l + 1) -> Nat] /\ g[0] = 0 /\ g[l + 1] = f[l] + Size[m]
    BY <2>2, <2>3
  <2>5. ASSUME NEW i \in 1..(l + 1) PROVE g[i] = g[i - 1] + Size[a[i]]
    <3>1. CASE i = l + 1
      BY <2>2, <2>3, <3>1
    <3>2. CASE i # l + 1
      <4>1. i \in 1..l /\ i - 1 \in 0..l /\ i - 1 # l + 1 /\ i \in 0..(l + 1) /\ i - 1 \in 0..(l + 1)
        BY <2>2, <3>2
      <4>2. g[i] = f[i] /\ g[i - 1] = f[i - 1]
        BY <3>2, <4>1
      <4> QED
        BY <2>2, <2>3, <4>1, <4>2
    <3> QED
      BY <3>1, <3>2
  <2> HIDE DEF g
  <2>6. IsCount(g, a)
    BY <2>2, <2>4, <2>5 DEF IsCount
  <2>7. Held(a) = g[l + 1]
    BY <2>2, <2>6, HeldIsCount
  <2>8. Held(q) = f[l]
    BY <2>1, HeldIsCount DEF l
  <2> QED
    BY <2>4, <2>7, <2>8 DEF a
<1> QED
  BY <1>1, <1>2, <1>3

\* The counter may fall behind the queue by what arrived between the two steps of
\* one take_inbox, and that fitted into the counter as it was.
InboxInv ==
  /\ inbox \in Seq(Messages) /\ pushed \in Seq(Messages) /\ taken \in Seq(Messages)
  /\ taken \o inbox = pushed
  /\ inboxBytes \in Nat /\ inboxBytes <= MaxBytes
  /\ dispatcher \in {"idle", "resetting"}
  /\ dispatcher = "resetting" => Held(inbox) <= inboxBytes
  /\ Held(inbox) <= inboxBytes + MaxBytes

LEMMA InboxStep == InboxInv /\ [InboxNext]_inboxVars => InboxInv'
<1> SUFFICES ASSUME InboxInv, [InboxNext]_inboxVars PROVE InboxInv'
  OBVIOUS
<1>0. MaxBytes \in Nat /\ Held(inbox) \in Nat
  BY InboxAssumption, HeldFacts DEF InboxInv
<1>1. ASSUME NEW m \in Messages, Push(m) PROVE InboxInv'
  <2>1. /\ inbox' = Append(inbox, m) /\ pushed' = Append(pushed, m) /\ UNCHANGED <<dispatcher, taken>>
        /\ inboxBytes' = inboxBytes + Size[m] /\ ~(Size[m] > MaxBytes \/ inboxBytes > MaxBytes - Size[m])
    BY <1>1 DEF Push, Accepts, CounterFull
  <2>2. Held(inbox') = Held(inbox) + Size[m] /\ Size[m] \in Nat
    BY <2>1, HeldFacts, InboxAssumption DEF InboxInv
  <2>3. taken \o Append(inbox, m) = Append(taken \o inbox, m)
    <3>1. taken \in Seq(Messages) /\ inbox \in Seq(Messages) /\ <<m>> \in Seq(Messages)
      BY DEF InboxInv
    <3>2. taken \o inbox \in Seq(Messages)
      BY <3>1, ConcatProperties
    <3>3. Append(inbox, m) = inbox \o <<m>> /\ Append(taken \o inbox, m) = (taken \o inbox) \o <<m>>
      BY <3>1, <3>2, AppendIsConcat
    <3> QED
      BY <3>1, <3>3, ConcatAssociative
  <2>4. inbox' \in Seq(Messages) /\ pushed' \in Seq(Messages) /\ taken' \in Seq(Messages) /\ taken' \o inbox' = pushed'
    BY <2>1, <2>3 DEF InboxInv
  <2> DEFINE size == Size[m]
             held == Held(inbox)
             more == Held(inbox')
  <2>5. /\ size \in Nat /\ held \in Nat /\ more = held + size /\ inboxBytes' = inboxBytes + size
        /\ ~(size > MaxBytes \/ inboxBytes > MaxBytes - size) /\ inboxBytes \in Nat
        /\ dispatcher' = "resetting" => held <= inboxBytes
        /\ held <= inboxBytes + MaxBytes
    BY <1>0, <2>1, <2>2 DEF InboxInv
  <2> HIDE DEF size, held, more
  <2>6. /\ inboxBytes' \in Nat /\ inboxBytes' <= MaxBytes
        /\ more <= inboxBytes' + MaxBytes
        /\ dispatcher' = "resetting" => more <= inboxBytes'
    BY <1>0, <2>5
  <2> QED
    BY <2>1, <2>4, <2>6 DEF InboxInv, more
<1>2. CASE TakeQueue
  <2>1. /\ taken' = taken \o inbox /\ inbox' = <<>> /\ dispatcher' = "resetting"
        /\ UNCHANGED <<inboxBytes, pushed>>
    BY <1>2 DEF TakeQueue
  <2>2. Held(inbox') = 0
    BY <2>1, HeldFacts
  <2>3. (taken \o inbox) \o <<>> = taken \o inbox /\ taken \o inbox \in Seq(Messages)
    BY DEF InboxInv
  <2> QED
    BY <1>0, <2>1, <2>2, <2>3 DEF InboxInv
<1>3. CASE ResetBytes
  BY <1>0, <1>3 DEF ResetBytes, InboxInv
<1>4. CASE UNCHANGED inboxVars
  BY <1>4 DEF inboxVars, InboxInv
<1> QED
  BY <1>1, <1>2, <1>3, <1>4 DEF InboxNext

LEMMA InboxStart == InboxInit => InboxInv
<1> SUFFICES ASSUME InboxInit PROVE InboxInv
  OBVIOUS
<1>1. <<>> \o <<>> = <<>> /\ <<>> \in Seq(Messages)
  OBVIOUS
<1> QED
  BY <1>1, HeldFacts, InboxAssumption DEF InboxInit, InboxInv

LEMMA InboxAlways == PartsSpec => []InboxInv
<1>1. PartsInit => InboxInv
  BY InboxStart, PartsStart
<1>2. InboxInv /\ [PartsNext]_partsVars => InboxInv'
  BY InboxStep, PartsStep
<1> QED
  BY <1>1, <1>2, PTL DEF PartsSpec

\* Every message that was acknowledged reaches the dispatcher once and in order,
\* also those that are pushed between the two steps of take_inbox.
THEOREM InboxOrder == PartsSpec => []EachTakenOnce
<1>1. InboxInv => EachTakenOnce
  BY DEF InboxInv, EachTakenOnce
<1> QED
  BY <1>1, InboxAlways, PTL

\* The inbox never holds more than twice MAX_INBOX_BYTES, although the counter
\* forgets what arrives while take_inbox runs.
THEOREM InboxBound == PartsSpec => []BytesBoundedTwice
<1>1. InboxInv => BytesBoundedTwice
  BY HeldFacts, InboxAssumption DEF InboxInv, BytesBoundedTwice
<1> QED
  BY <1>1, InboxAlways, PTL

-----------------------------------------------------------------------------
(* The federation *)

\* An import that waits for bootstrap has its data centres in memory already, and
\* memory loses none: what is saved later contains them.
FedInv ==
  /\ federation \in Configurations
  /\ awenet \in Configurations \union {TornConfig}
  /\ fedSaved \in BOOLEAN
  /\ DOMAIN importing = ImportTasks
  /\ \A t \in ImportTasks : \A i \in importing[t] :
       i.file \in ImportFiles /\ i.file.centres \subseteq federation.joined
  /\ fedSaved => awenet # TornConfig
  /\ JoinsSurvive

\* An import adds the data centres of its file and takes none away.
LEMMA ImportJoins ==
  ASSUME NEW s \in Configurations, NEW f \in ImportFiles
  PROVE  /\ Imported(s, f) \in Configurations
         /\ s.joined \subseteq Imported(s, f).joined
         /\ f.centres \subseteq Imported(s, f).joined
<1> DEFINE named == UNION {g.centres : g \in ImportFiles}
           brought == UNION {g.endpoints : g \in ImportFiles}
<1>1. f.kind \in Kinds /\ f.centres # {} /\ f.centres \subseteq named /\ f.endpoints \subseteq brought
  BY FederationAssumption
<1>2. Configurations = [centre : named \union {OwnCentre, NoCentre}, joined : SUBSET named, endpoints : SUBSET brought]
  BY DEF Configurations
<1> HIDE DEF named, brought
<1>3. CASE f.kind = "awenode"
  <2>1. (CHOOSE c \in f.centres : TRUE) \in f.centres
    BY <1>1
  <2>2. Imported(s, f) = JoinCentre(s, f)
    BY <1>3 DEF Imported
  <2> QED
    BY <1>1, <1>2, <2>1, <2>2 DEF JoinCentre
<1>4. CASE f.kind = "awedc"
  <2>1. Imported(s, f) = AcceptInvitation(s, f)
    BY <1>4 DEF Imported
  <2> QED
    BY <1>1, <1>2, <2>1 DEF AcceptInvitation
<1>5. CASE f.kind = "dgc"
  <2>1. Imported(s, f) = JoinGroup(s, f)
    BY <1>5 DEF Imported
  <2> QED
    BY <1>1, <1>2, <2>1 DEF JoinGroup
<1> QED
  BY <1>1, <1>3, <1>4, <1>5 DEF Kinds

LEMMA EmptyConfiguration == Unfederated \in Configurations /\ TornConfig \notin Configurations
BY FederationAssumption DEF Unfederated, Configurations

\* What a save leaves: all of the configuration, or a file that counts for nothing.
LEMMA Saves ==
  ASSUME FedInv, NEW c \in Configurations, SaveJson(c)
  PROVE  /\ awenet' \in Configurations \union {TornConfig}
         /\ fedSaved' \in BOOLEAN
         /\ fedSaved' => awenet' = c /\ awenet' # TornConfig
BY EmptyConfiguration DEF SaveJson, FedInv

LEMMA FedStep == FedInv /\ [FedNext]_fedVars => FedInv'
<1> SUFFICES ASSUME FedInv, [FedNext]_fedVars PROVE FedInv'
  OBVIOUS
<1>1. ASSUME NEW t \in ImportTasks, NEW f \in ImportFiles, Import(t, f) PROVE FedInv'
  <2>1. /\ federation' = Imported(federation, f) /\ UNCHANGED <<awenet, imported, fedSaved>>
        /\ importing' = [importing EXCEPT ![t] = {[file |-> f, seen |-> federation']}]
    BY <1>1 DEF Import
  <2>2. /\ federation' \in Configurations /\ federation.joined \subseteq federation'.joined
        /\ f.centres \subseteq federation'.joined
    BY <2>1, ImportJoins DEF FedInv
  <2>3. ASSUME NEW u \in ImportTasks, NEW i \in importing'[u]
        PROVE  i.file \in ImportFiles /\ i.file.centres \subseteq federation'.joined
    <3>1. CASE u = t
      <4>1. importing'[u] = {[file |-> f, seen |-> federation']}
        BY <2>1, <3>1 DEF FedInv
      <4> QED
        BY <2>2, <4>1
    <3>2. CASE u # t
      <4>1. importing'[u] = importing[u]
        BY <2>1, <3>2 DEF FedInv
      <4> QED
        BY <2>2, <4>1 DEF FedInv
    <3> QED
      BY <3>1, <3>2
  <2>4. DOMAIN importing' = ImportTasks
    BY <2>1 DEF FedInv
  <2>5. JoinsSurvive'
    BY <2>1, <2>2 DEF FedInv, JoinsSurvive
  <2> QED
    BY <2>1, <2>2, <2>3, <2>4, <2>5 DEF FedInv
<1>2. ASSUME NEW t \in ImportTasks, ImportSaved(t) PROVE FedInv'
  <2>1. PICK i \in importing[t] :
          SaveJson(federation) /\ imported' = imported \union {i.file}
    BY <1>2 DEF ImportSaved, ToSave
  <2>2. importing' = [importing EXCEPT ![t] = {}] /\ federation' = federation
    BY <1>2 DEF ImportSaved
  <2>3. i.file \in ImportFiles /\ i.file.centres \subseteq federation.joined
    BY DEF FedInv
  <2>4. DOMAIN importing' = ImportTasks /\ \A u \in ImportTasks : importing'[u] \subseteq importing[u]
    BY <2>2 DEF FedInv
  <2>5. /\ awenet' \in Configurations \union {TornConfig} /\ fedSaved' \in BOOLEAN
        /\ fedSaved' => awenet' = federation /\ awenet' # TornConfig
    BY <2>1, Saves DEF FedInv
  <2>6. ASSUME NEW f \in imported' PROVE f.centres \subseteq federation.joined
    <3>1. f \in imported \/ f = i.file
      BY <2>1
    <3> QED
      BY <2>3, <3>1 DEF FedInv, JoinsSurvive
  <2>7. JoinsSurvive'
    BY <2>2, <2>5, <2>6 DEF JoinsSurvive
  <2>8. \A u \in ImportTasks : \A k \in importing'[u] :
          k.file \in ImportFiles /\ k.file.centres \subseteq federation'.joined
    BY <2>2, <2>4 DEF FedInv
  <2> QED
    BY <2>2, <2>4, <2>5, <2>7, <2>8 DEF FedInv
<1>3. ASSUME NEW read \in BOOLEAN, FedRestart(read) PROVE FedInv'
  <2>1. /\ federation' = (IF read /\ awenet # TornConfig THEN awenet ELSE Unfederated)
        /\ SaveJson(federation') /\ imported' = (IF read /\ fedSaved THEN imported ELSE {})
        /\ importing' = [t \in ImportTasks |-> {}]
    BY <1>3 DEF FedRestart
  <2>2. federation' \in Configurations
    BY <2>1, EmptyConfiguration DEF FedInv
  <2>3. /\ awenet' \in Configurations \union {TornConfig} /\ fedSaved' \in BOOLEAN
        /\ fedSaved' => awenet' = federation' /\ awenet' # TornConfig
    BY <2>1, <2>2, Saves
  <2>4. \A f \in imported' : f.centres \subseteq federation'.joined
    BY <2>1 DEF FedInv, JoinsSurvive
  <2>5. JoinsSurvive'
    BY <2>3, <2>4 DEF JoinsSurvive
  <2> QED
    BY <2>1, <2>2, <2>3, <2>5 DEF FedInv
<1>4. CASE UNCHANGED fedVars
  BY <1>4 DEF fedVars, FedInv, JoinsSurvive
<1> QED
  BY <1>1, <1>2, <1>3, <1>4 DEF FedNext

\* Data centres of an import that was answered stay joined however imports,
\* failing saves and restarts interleave, in awenet.json too unless the last save
\* failed: only a start after a failed save or a failed read forgets them.
THEOREM FederationKeepsJoins == PartsSpec => []JoinsSurvive
<1>1. PartsInit => FedInv
  BY PartsStart, EmptyConfiguration DEF FedInit, FedInv, JoinsSurvive
<1>2. FedInv /\ [PartsNext]_partsVars => FedInv'
  BY FedStep, PartsStep
<1>3. FedInv => JoinsSurvive
  BY DEF FedInv
<1> QED
  BY <1>1, <1>2, <1>3, PTL DEF PartsSpec

-----------------------------------------------------------------------------
(* Sessions *)

Ciphertexts == [seq : Nat, claimed : Nat]

\* What is shown was offered, and the receiver waits for the successor of the
\* last that was shown.
SessionInv ==
  /\ sendSequence \in Nat /\ receiveSequence \in Nat
  /\ underway \subseteq Ciphertexts /\ offline \subseteq Ciphertexts
  /\ offered \in Seq(Ciphertexts) /\ shown \in Seq(Nat)
  /\ \A k \in 1..Len(shown) :
       shown[k] < receiveSequence /\ \E j \in 1..Len(offered) : Honest(j) /\ offered[j].seq = shown[k]
  /\ receiveSequence # 0 => Len(shown) # 0 /\ shown[Len(shown)] = receiveSequence - 1
  /\ ShownExactly

LEMMA DecryptStep ==
  ASSUME SessionInv, NEW m \in underway, Decrypt(m)
  PROVE  SessionInv'
<1> DEFINE l == Len(offered)
           s == Len(shown)
           Fair(i) == offered'[i].claimed = offered'[i].seq
<1>1. /\ m \in Ciphertexts /\ m.seq \in Nat /\ m.claimed \in Nat
      /\ offered \in Seq(Ciphertexts) /\ shown \in Seq(Nat) /\ receiveSequence \in Nat
      /\ l \in Nat /\ s \in Nat
  BY DEF SessionInv, Ciphertexts
<1>2. offered' = Append(offered, m) /\ UNCHANGED <<sendSequence, underway, offline>>
  BY DEF Decrypt
<1>3. /\ offered' \in Seq(Ciphertexts) /\ Len(offered') = l + 1 /\ offered'[l + 1] = m
      /\ \A i \in 1..l : offered'[i] = offered[i]
  BY <1>1, <1>2
<1> HIDE DEF l
<1>4. \A i \in 1..(l + 1) : i \in 1..l \/ i = l + 1
  BY <1>1
\* What was true of the messages offered before.
<1>5. /\ \A i \in 1..l : Fair(i) <=> Honest(i)
      /\ Fair(l + 1) <=> m.claimed = m.seq
  BY <1>1, <1>3 DEF Honest, l
<1> HIDE DEF Fair
<1>6. \A k \in 1..s : \E j \in 1..(l + 1) : Fair(j) /\ offered'[j].seq = shown[k]
  <2> SUFFICES ASSUME NEW k \in 1..s
               PROVE  \E j \in 1..(l + 1) : Fair(j) /\ offered'[j].seq = shown[k]
    OBVIOUS
  <2>1. PICK j \in 1..l : Honest(j) /\ offered[j].seq = shown[k]
    BY DEF SessionInv, l
  <2>2. j \in 1..(l + 1)
    BY <1>1
  <2> QED
    BY <1>3, <1>5, <2>1, <2>2
<1>7. ASSUME NEW i \in 1..l, Honest(i)
      PROVE  \E k \in 1..s : /\ shown[k] >= offered'[i].seq
                             /\ \E j \in 1..i : Fair(j) /\ offered'[j].seq = shown[k]
  <2>1. PICK k \in 1..s : shown[k] >= offered[i].seq /\ \E j \in 1..i : Honest(j) /\ offered[j].seq = shown[k]
    BY <1>7 DEF SessionInv, ShownExactly, l
  <2>2. PICK j \in 1..i : Honest(j) /\ offered[j].seq = shown[k]
    BY <2>1
  <2>3. j \in 1..l
    BY <1>1
  <2>4. Fair(j) /\ offered'[j].seq = shown[k] /\ shown[k] >= offered'[i].seq
    BY <1>3, <1>5, <2>1, <2>2, <2>3
  <2> QED
    BY <2>4
<1>8. CASE IsReplay(m.seq) \/ m.claimed # m.seq
  <2>1. UNCHANGED <<receiveSequence, shown>>
    BY <1>8 DEF Decrypt
  <2>2. ASSUME m.claimed = m.seq
        PROVE  s \in 1..s /\ shown[s] >= m.seq
    <3>1. m.seq < receiveSequence
      BY <1>8, <2>2 DEF IsReplay
    <3>2. s # 0 /\ shown[s] = receiveSequence - 1
      BY <1>1, <3>1 DEF SessionInv
    <3> QED
      BY <1>1, <3>1, <3>2
  <2>3. ASSUME NEW i \in 1..(l + 1), Fair(i)
        PROVE  \E k \in 1..s : /\ shown[k] >= offered'[i].seq
                               /\ \E j \in 1..i : Fair(j) /\ offered'[j].seq = shown[k]
    <3>1. CASE i \in 1..l
      BY <1>5, <1>7, <2>3, <3>1
    <3>2. CASE i = l + 1
      <4>1. s \in 1..s /\ shown[s] >= offered'[i].seq
        BY <1>3, <1>5, <2>2, <2>3, <3>2
      <4>2. \E j \in 1..i : Fair(j) /\ offered'[j].seq = shown[s]
        BY <1>6, <3>2, <4>1
      <4> QED
        BY <4>1, <4>2
    <3> QED
      BY <1>4, <3>1, <3>2
  <2>4. ShownExactly'
    BY <1>3, <2>1, <2>3 DEF SessionInv, ShownExactly, Honest, Fair
  <2> QED
    BY <1>2, <1>3, <1>6, <2>1, <2>4 DEF SessionInv, Honest, Fair
<1>9. CASE ~(IsReplay(m.seq) \/ m.claimed # m.seq)
  <2>1. receiveSequence' = m.seq + 1 /\ shown' = Append(shown, m.seq) /\ m.claimed = m.seq /\ ~(m.seq < receiveSequence)
    BY <1>9 DEF Decrypt, IsReplay
  <2>2. /\ shown' \in Seq(Nat) /\ Len(shown') = s + 1 /\ shown'[s + 1] = m.seq
        /\ \A k \in 1..s : shown'[k] = shown[k] /\ shown[k] \in Nat /\ shown[k] < receiveSequence
    BY <1>1, <2>1 DEF SessionInv
  <2> HIDE DEF s
  <2>3. \A k \in 1..(s + 1) : k \in 1..s \/ k = s + 1
    BY <1>1
  <2>4. l + 1 \in 1..(l + 1) /\ s + 1 \in 1..(s + 1) /\ \A k \in 1..s : k \in 1..(s + 1)
    BY <1>1
  <2>5. ASSUME NEW k \in 1..(s + 1)
        PROVE  /\ shown'[k] < receiveSequence'
               /\ \E j \in 1..(l + 1) : Fair(j) /\ offered'[j].seq = shown'[k]
    <3>1. CASE k \in 1..s
      <4>1. shown'[k] < receiveSequence'
        BY <1>1, <2>1, <2>2, <3>1
      <4> QED
        BY <1>6, <2>2, <3>1, <4>1
    <3>2. CASE k = s + 1
      <4>1. shown'[k] < receiveSequence'
        BY <1>1, <2>1, <2>2, <3>2
      <4>2. Fair(l + 1) /\ offered'[l + 1].seq = shown'[k]
        BY <1>3, <1>5, <2>1, <2>2, <3>2
      <4> QED
        BY <2>4, <4>1, <4>2
    <3> QED
      BY <2>3, <3>1, <3>2
  <2>6. ASSUME NEW i \in 1..(s + 1), NEW j \in 1..(s + 1), i < j PROVE shown'[i] < shown'[j]
    <3>1. i \in 1..s
      BY <1>1, <2>6
    <3>2. CASE j \in 1..s
      BY <2>2, <2>6, <3>1, <3>2 DEF SessionInv, ShownExactly, s
    <3>3. CASE j = s + 1
      BY <1>1, <2>1, <2>2, <3>1, <3>3
    <3> QED
      BY <2>3, <3>2, <3>3
  <2>7. ASSUME NEW i \in 1..(l + 1), Fair(i)
        PROVE  \E k \in 1..(s + 1) : /\ shown'[k] >= offered'[i].seq
                                     /\ \E j \in 1..i : Fair(j) /\ offered'[j].seq = shown'[k]
    <3>1. CASE i \in 1..l
      <4>1. PICK k \in 1..s : /\ shown[k] >= offered'[i].seq
                              /\ \E j \in 1..i : Fair(j) /\ offered'[j].seq = shown[k]
        BY <1>5, <1>7, <2>7, <3>1
      <4> QED
        BY <2>2, <2>4, <4>1
    <3>2. CASE i = l + 1
      <4>1. shown'[s + 1] = offered'[i].seq /\ offered'[i].seq \in Nat
        BY <1>1, <1>3, <2>2, <3>2
      <4>2. shown'[s + 1] >= offered'[i].seq
        BY <4>1
      <4> QED
        BY <2>4, <2>7, <3>2, <4>1, <4>2
    <3> QED
      BY <1>4, <3>1, <3>2
  <2>8. ShownExactly'
    BY <1>3, <2>2, <2>6, <2>7 DEF ShownExactly, Honest, Fair
  <2>9. receiveSequence' \in Nat /\ Len(shown') # 0 /\ shown'[Len(shown')] = receiveSequence' - 1
    BY <1>1, <2>1, <2>2
  <2> QED
    BY <1>2, <1>3, <2>2, <2>5, <2>8, <2>9 DEF SessionInv, Honest, Fair
<1> QED
  BY <1>8, <1>9

LEMMA SessionStep == SessionInv /\ [SessionNext]_sessionVars => SessionInv'
<1> SUFFICES ASSUME SessionInv, [SessionNext]_sessionVars PROVE SessionInv'
  OBVIOUS
<1>1. ASSUME UNCHANGED <<offered, shown, receiveSequence>>, sendSequence' \in Nat,
             underway' \subseteq Ciphertexts, offline' \subseteq Ciphertexts
      PROVE  SessionInv'
  <2>1. \A i : Honest(i)' <=> Honest(i)
    BY <1>1 DEF Honest
  <2> QED
    BY <1>1, <2>1 DEF SessionInv, ShownExactly
<1>2. ASSUME NEW claimed \in 0..MaxNumber, Encrypt(claimed) PROVE SessionInv'
  <2>1. [seq |-> sendSequence, claimed |-> claimed] \in Ciphertexts /\ sendSequence' \in Nat
    BY <1>2, SessionAssumption DEF Encrypt, SessionInv, Ciphertexts
  <2> QED
    BY <1>1, <1>2, <2>1 DEF Encrypt, SessionInv
<1>3. ASSUME NEW m \in offline, TakeOffline(m) PROVE SessionInv'
  BY <1>1, <1>3 DEF TakeOffline, SessionInv
<1>4. ASSUME NEW m \in underway, Decrypt(m) PROVE SessionInv'
  BY <1>4, DecryptStep
<1>5. CASE UNCHANGED sessionVars
  BY <1>1, <1>5 DEF sessionVars, SessionInv
<1> QED
  BY <1>2, <1>3, <1>4, <1>5 DEF SessionNext

\* Of the messages of a session exactly those are shown that no accepted one
\* overtook, each once and in the order they were sent.
THEOREM SessionShowsExactly == PartsSpec => []ShownExactly
<1>1. PartsInit => SessionInv
  <2> SUFFICES ASSUME SessionInit PROVE SessionInv
    BY PartsStart
  <2>1. Len(<<>>) = 0 /\ 1..0 = {} /\ <<>> \in Seq(Nat) /\ <<>> \in Seq(Ciphertexts)
    OBVIOUS
  <2> QED
    BY <2>1 DEF SessionInit, SessionInv, ShownExactly
<1>2. SessionInv /\ [PartsNext]_partsVars => SessionInv'
  BY SessionStep, PartsStep
<1>3. SessionInv => ShownExactly
  BY DEF SessionInv
<1> QED
  BY <1>1, <1>2, <1>3, PTL DEF PartsSpec

-----------------------------------------------------------------------------
(* The bank *)

\* A task has one request at most, and only a post of an offer brings one.
PostsInv ==
  /\ DOMAIN posts = PostTasks
  /\ \A t \in PostTasks : \A p, q \in posts[t] :
       p = q /\ p.file \in {"offers", "resources"} /\ (p.file = "resources" => p.offer = {})

\* A step that changes the request of one task leaves the others.
LEMMA OneTask ==
  ASSUME PostsInv, NEW t \in PostTasks, NEW S, posts' = [posts EXCEPT ![t] = S]
  PROVE  DOMAIN posts' = PostTasks /\ posts'[t] = S /\ \A u \in PostTasks : u # t => posts'[u] = posts[u]
BY DEF PostsInv

LEMMA Opened ==
  ASSUME NEW p
  PROVE  LET k == [p EXCEPT !.open = TRUE]
         IN  k.file = p.file /\ k.content = p.content /\ k.offer = p.offer
OBVIOUS

LEMMA PostsStep == PostsInv /\ [BankNext]_bankVars => PostsInv'
<1> SUFFICES ASSUME PostsInv, [BankNext]_bankVars PROVE PostsInv'
  OBVIOUS
<1>1. ASSUME NEW t \in PostTasks, NEW S, posts' = [posts EXCEPT ![t] = S],
             \A p, q \in S : p = q /\ p.file \in {"offers", "resources"} /\ (p.file = "resources" => p.offer = {})
      PROVE  PostsInv'
  <2>1. DOMAIN posts' = PostTasks /\ posts'[t] = S /\ \A u \in PostTasks : u # t => posts'[u] = posts[u]
    BY <1>1, OneTask
  <2> QED
    BY <1>1, <2>1 DEF PostsInv
<1>2. ASSUME NEW t \in PostTasks, NEW r \in PostedResources, PostContribution(t, r) PROVE PostsInv'
  <2> DEFINE k == [file |-> "resources", content |-> r, offer |-> {}, open |-> FALSE]
  <2>1. posts' = [posts EXCEPT ![t] = {k}]
    BY <1>2 DEF PostContribution, BeginsPost
  <2>2. k.file = "resources" /\ k.offer = {}
    OBVIOUS
  <2> HIDE DEF k
  <2>3. \A p, q \in {k} : p = q /\ p.file \in {"offers", "resources"} /\ (p.file = "resources" => p.offer = {})
    BY <2>2
  <2> QED
    BY <1>1, <2>1, <2>3
<1>3. ASSUME NEW t \in PostTasks, NEW o \in Offers, NEW read \in BOOLEAN, PostOffer(t, o, read) PROVE PostsInv'
  <2> DEFINE new == Append(IF read THEN Listed(offersFile) ELSE <<>>, o)
             k == [file |-> "offers", content |-> new, offer |-> {o}, open |-> FALSE]
  <2>1. posts' = [posts EXCEPT ![t] = {k}]
    BY <1>3 DEF PostOffer, BeginsPost
  <2> HIDE DEF new
  <2>2. k.file = "offers"
    OBVIOUS
  <2> HIDE DEF k
  <2>3. \A p, q \in {k} : p = q /\ p.file \in {"offers", "resources"} /\ (p.file = "resources" => p.offer = {})
    BY <2>2
  <2> QED
    BY <1>1, <2>1, <2>3
<1>4. ASSUME NEW t \in PostTasks, NEW p \in posts[t],
             PostFills(t, p) \/ PostRefused(t, p) \/ PostFails(t, p) PROVE PostsInv'
  <2>1. posts' = [posts EXCEPT ![t] = {}]
    BY <1>4 DEF PostFills, PostRefused, PostFails, PostEnds
  <2> QED
    BY <1>1, <2>1
<1>5. ASSUME NEW t \in PostTasks, NEW p \in posts[t], PostOpens(t, p) PROVE PostsInv'
  <2> DEFINE k == [p EXCEPT !.open = TRUE]
  <2>1. posts' = [posts EXCEPT ![t] = {k}]
    BY <1>5 DEF PostOpens
  <2>2. k.file = p.file /\ k.offer = p.offer
    BY Opened
  <2> HIDE DEF k
  <2> QED
    BY <1>1, <2>1, <2>2 DEF PostsInv
<1>6. ASSUME NEW read \in BOOLEAN, BankRestart(read) PROVE PostsInv'
  BY <1>6 DEF BankRestart, PostsInv
<1>7. CASE UNCHANGED bankVars
  BY <1>7 DEF bankVars, PostsInv
<1> QED
  BY <1>2, <1>3, <1>4, <1>5, <1>6, <1>7 DEF BankNext

\* What the requests for the list find and will leave, as long as none overlapped
\* another: the content about to be written holds every offer that was answered,
\* and the list is torn only while it is open.
ListHolds == offersFile \in Seq(Offers) /\ answered \subseteq ToSet(offersFile)

OfferPostOk(p, list, done) ==
  /\ p.content \in Seq(Offers) /\ done \union p.offer \subseteq ToSet(p.content)
  /\ IF p.open THEN list = TornBank ELSE list \in Seq(Offers) /\ done \subseteq ToSet(list)

OffersInv ==
  "offers" \notin disturbed =>
    /\ \A t, u \in Posting("offers") : t = u
    /\ Posting("offers") = {} => ListHolds
    /\ \A t \in PostTasks : \A p \in posts[t] : p.file = "offers" => OfferPostOk(p, offersFile, answered)

\* A step of the other file changes nothing for the list.
LEMMA OffersUntouched ==
  ASSUME PostsInv, OffersInv, NEW t \in PostTasks, NEW S, posts' = [posts EXCEPT ![t] = S],
         \A p \in S : p.file # "offers", \A p \in posts[t] : p.file # "offers",
         "offers" \notin disturbed' => "offers" \notin disturbed, UNCHANGED <<offersFile, answered>>
  PROVE  OffersInv'
<1>1. DOMAIN posts' = PostTasks /\ posts'[t] = S /\ \A u \in PostTasks : u # t => posts'[u] = posts[u]
  BY OneTask
<1>2. Posting("offers")' = Posting("offers")
  BY <1>1 DEF Posting
<1>3. \A u \in PostTasks : \A p \in posts'[u] : p.file = "offers" => p \in posts[u]
  BY <1>1
<1> QED
  BY <1>2, <1>3 DEF OffersInv, ListHolds

\* The only request for the list, and after it there is none or the one it became.
LEMMA OffersOnly ==
  ASSUME PostsInv, OffersInv, "offers" \notin disturbed, NEW t \in PostTasks, NEW p \in posts[t], p.file = "offers",
         NEW S, posts' = [posts EXCEPT ![t] = S]
  PROVE  /\ OfferPostOk(p, offersFile, answered)
         /\ \A u \in PostTasks : \A q \in posts'[u] : q.file = "offers" => u = t /\ q \in S
<1>1. DOMAIN posts' = PostTasks /\ posts'[t] = S /\ \A u \in PostTasks : u # t => posts'[u] = posts[u]
  BY OneTask
<1>2. t \in Posting("offers") /\ \A u \in Posting("offers") : u = t
  BY DEF OffersInv, Posting
<1>3. ASSUME NEW u \in PostTasks, NEW q \in posts'[u], q.file = "offers", u # t PROVE FALSE
  <2>1. u \in Posting("offers")
    BY <1>1, <1>3 DEF Posting
  <2> QED
    BY <1>2, <1>3, <2>1
<1> QED
  BY <1>1, <1>3 DEF OffersInv

\* An offer at the end of a list keeps the list.
LEMMA AppendKeeps ==
  ASSUME NEW s \in Seq(Offers), NEW o \in Offers
  PROVE  /\ Append(s, o) \in Seq(Offers) /\ ToSet(s) \union {o} \subseteq ToSet(Append(s, o))
         /\ Append(s, o) # <<>> /\ Last(Append(s, o)) = o
<1> DEFINE new == Append(s, o)
<1>1. /\ new \in Seq(Offers) /\ Len(new) = Len(s) + 1 /\ new[Len(s) + 1] = o /\ Len(s) \in Nat
      /\ \A i \in 1..Len(s) : new[i] = s[i]
  OBVIOUS
<1> HIDE DEF new
<1>2. DOMAIN s = 1..Len(s) /\ DOMAIN new = 1..(Len(s) + 1)
  BY <1>1
<1>3. ToSet(s) \subseteq ToSet(new) /\ o \in ToSet(new)
  BY <1>1, <1>2 DEF ToSet
<1>4. new # <<>> /\ Last(new) = o
  BY <1>1 DEF Last
<1> QED
  BY <1>1, <1>3, <1>4 DEF new

LEMMA OffersStep == PostsInv /\ OffersInv /\ [BankNext]_bankVars => OffersInv'
<1> SUFFICES ASSUME PostsInv, OffersInv, [BankNext]_bankVars PROVE OffersInv'
  OBVIOUS
<1>1. ASSUME NEW t \in PostTasks, NEW r \in PostedResources, PostContribution(t, r) PROVE OffersInv'
  <2> DEFINE k == [file |-> "resources", content |-> r, offer |-> {}, open |-> FALSE]
  <2>1. /\ posts[t] = {} /\ posts' = [posts EXCEPT ![t] = {k}] /\ UNCHANGED <<offersFile, answered>>
        /\ "offers" \notin disturbed' => "offers" \notin disturbed
    BY <1>1 DEF PostContribution, BeginsPost
  <2>2. \A p \in {k} : p.file # "offers"
    OBVIOUS
  <2> HIDE DEF k
  <2> QED
    BY <2>1, <2>2, OffersUntouched
<1>2. ASSUME NEW t \in PostTasks, NEW o \in Offers, NEW read \in BOOLEAN, PostOffer(t, o, read) PROVE OffersInv'
  <2> SUFFICES ASSUME "offers" \notin disturbed' PROVE OffersInv'
    BY DEF OffersInv
  <2> DEFINE new == Append(IF read THEN Listed(offersFile) ELSE <<>>, o)
             k == [file |-> "offers", content |-> new, offer |-> {o}, open |-> FALSE]
  <2>1. /\ posts[t] = {} /\ posts' = [posts EXCEPT ![t] = {k}] /\ UNCHANGED <<offersFile, answered>>
        /\ disturbed' = IF read /\ Posting("offers") = {} THEN disturbed ELSE disturbed \union {"offers"}
    BY <1>2 DEF PostOffer, BeginsPost
  <2>2. read /\ Posting("offers") = {} /\ "offers" \notin disturbed
    BY <2>1
  <2>3. offersFile \in Seq(Offers) /\ answered \subseteq ToSet(offersFile)
    BY <2>2 DEF OffersInv, ListHolds
  <2>4. new = Append(offersFile, o)
    BY <2>2, <2>3, BankAssumption DEF Listed
  <2>5. k.file = "offers" /\ k.content = new /\ k.offer = {o} /\ k.open = FALSE
    OBVIOUS
  <2> HIDE DEF new, k
  <2>6. OfferPostOk(k, offersFile', answered')
    BY <2>1, <2>3, <2>4, <2>5, AppendKeeps DEF OfferPostOk
  <2>7. posts'[t] = {k} /\ \A u \in PostTasks : u # t => posts'[u] = posts[u]
    BY <2>1, OneTask
  <2>8. Posting("offers")' = {t} /\ \A u \in PostTasks : \A q \in posts'[u] : q.file = "offers" => q = k
    BY <2>2, <2>5, <2>7 DEF Posting
  <2> QED
    BY <2>6, <2>8 DEF OffersInv
<1>3. ASSUME NEW t \in PostTasks, NEW p \in posts[t], PostOpens(t, p) PROVE OffersInv'
  <2> DEFINE k == [p EXCEPT !.open = TRUE]
  <2>1. /\ posts' = [posts EXCEPT ![t] = {k}] /\ UNCHANGED <<answered, disturbed>>
        /\ offersFile' = IF p.file = "offers" THEN TornBank ELSE offersFile
    BY <1>3 DEF PostOpens
  <2>2. k.file = p.file /\ k.content = p.content /\ k.offer = p.offer
    BY Opened
  <2>3. CASE p.file # "offers"
    <3>1. (\A q \in {k} : q.file # "offers") /\ \A q \in posts[t] : q.file # "offers"
      BY <2>2, <2>3 DEF PostsInv
    <3> HIDE DEF k
    <3> QED
      BY <2>1, <2>3, <3>1, OffersUntouched
  <2>4. CASE p.file = "offers" /\ "offers" \notin disturbed
    <3> HIDE DEF k
    <3>1. /\ OfferPostOk(p, offersFile, answered)
          /\ \A u \in PostTasks : \A q \in posts'[u] : q.file = "offers" => u = t /\ q \in {k}
      BY <2>1, <2>4, OffersOnly
    <3>2. OfferPostOk(k, offersFile', answered')
      BY <2>1, <2>2, <2>4, <3>1 DEF OfferPostOk, k
    <3>3. \A u \in Posting("offers")' : u = t
      BY <3>1 DEF Posting
    <3>4. posts'[t] = {k}
      BY <2>1, OneTask
    <3>5. t \in Posting("offers")'
      BY <2>2, <2>4, <3>4 DEF Posting
    <3> QED
      BY <3>1, <3>2, <3>3, <3>5 DEF OffersInv
  <2> QED
    BY <2>1, <2>3, <2>4 DEF OffersInv
<1>4. ASSUME NEW t \in PostTasks, NEW p \in posts[t],
             PostFills(t, p) \/ PostRefused(t, p) \/ PostFails(t, p) PROVE OffersInv'
  <2>1. posts' = [posts EXCEPT ![t] = {}] /\ ("offers" \notin disturbed' => "offers" \notin disturbed)
    BY <1>4 DEF PostFills, PostRefused, PostFails, PostEnds
  <2>2. CASE p.file # "offers"
    <3>1. UNCHANGED <<offersFile, answered>>
      BY <1>4, <2>2 DEF PostFills, PostRefused, PostFails, PostEnds, PostsInv
    <3> DEFINE none == {}
    <3>2. (\A q \in none : q.file # "offers") /\ \A q \in posts[t] : q.file # "offers"
      BY <2>2 DEF PostsInv
    <3>3. posts' = [posts EXCEPT ![t] = none]
      BY <2>1
    <3> HIDE DEF none
    <3> QED
      BY <2>1, <3>1, <3>2, <3>3, OffersUntouched
  <2>3. CASE p.file = "offers" /\ "offers" \notin disturbed'
    <3>1. /\ OfferPostOk(p, offersFile, answered)
          /\ \A u \in PostTasks : \A q \in posts'[u] : q.file = "offers" => u = t /\ q \in {}
      BY <2>1, <2>3, OffersOnly
    <3>2. Posting("offers")' = {}
      BY <3>1 DEF Posting
    <3>3. CASE PostFills(t, p)
      <4>1. /\ p.open /\ answered' = answered \union p.offer
            /\ offersFile' \in Filled(offersFile, p.content)
        BY <2>3, <3>3 DEF PostFills, PostEnds, FileOf
      <4>2. offersFile' = p.content
        BY <3>1, <4>1 DEF OfferPostOk, Filled
      <4> QED
        BY <3>1, <3>2, <4>1, <4>2 DEF OfferPostOk, OffersInv, ListHolds
    <3>4. CASE PostRefused(t, p)
      <4>1. ~p.open /\ answered' = answered /\ offersFile' = offersFile
        BY <2>3, <3>4 DEF PostRefused, PostEnds, FileOf
      <4> QED
        BY <3>1, <3>2, <4>1 DEF OfferPostOk, OffersInv, ListHolds
    <3>5. CASE PostFails(t, p)
      BY <2>3, <3>5 DEF PostFails
    <3> QED
      BY <1>4, <3>3, <3>4, <3>5
  <2> QED
    BY <2>2, <2>3 DEF OffersInv
<1>5. ASSUME NEW read \in BOOLEAN, BankRestart(read) PROVE OffersInv'
  <2> SUFFICES ASSUME "offers" \notin disturbed' PROVE OffersInv'
    BY DEF OffersInv
  <2>1. /\ posts' = [t \in PostTasks |-> {}] /\ UNCHANGED <<offersFile, answered>>
        /\ "offers" \notin disturbed
        /\ ~ \E t \in PostTasks : \E p \in posts[t] : p.file = "offers" /\ p.open
    BY <1>5 DEF BankRestart
  <2>2. ListHolds
    <3>1. CASE Posting("offers") = {}
      BY <2>1, <3>1 DEF OffersInv
    <3>2. CASE Posting("offers") # {}
      <4>1. PICK t \in PostTasks : \E p \in posts[t] : p.file = "offers"
        BY <3>2 DEF Posting
      <4>2. PICK p \in posts[t] : p.file = "offers"
        BY <4>1
      <4>3. OfferPostOk(p, offersFile, answered) /\ ~p.open
        BY <2>1, <4>2 DEF OffersInv
      <4> QED
        BY <4>3 DEF OfferPostOk, ListHolds
    <3> QED
      BY <3>1, <3>2
  <2>3. Posting("offers")' = {} /\ \A u \in PostTasks : posts'[u] = {}
    BY <2>1 DEF Posting
  <2> QED
    BY <2>1, <2>2, <2>3 DEF OffersInv, ListHolds
<1>6. CASE UNCHANGED bankVars
  BY <1>6 DEF bankVars, OffersInv, Posting, ListHolds
<1> QED
  BY <1>1, <1>2, <1>3, <1>4, <1>5, <1>6 DEF BankNext

\* Memory and file of the contribution: the request that runs alone writes what is
\* in memory.
ResourcesInv ==
  "resources" \notin disturbed =>
    /\ \A t, u \in Posting("resources") : t = u
    /\ Posting("resources") = {} => resourcesFile = resources
    /\ \A t \in PostTasks : \A p \in posts[t] :
         p.file = "resources" => p.content = resources /\ (p.open => resourcesFile = TornBank)

LEMMA ResourcesUntouched ==
  ASSUME PostsInv, ResourcesInv, NEW t \in PostTasks, NEW S, posts' = [posts EXCEPT ![t] = S],
         \A p \in S : p.file # "resources", \A p \in posts[t] : p.file # "resources",
         "resources" \notin disturbed' => "resources" \notin disturbed, UNCHANGED <<resourcesFile, resources>>
  PROVE  ResourcesInv'
<1>1. DOMAIN posts' = PostTasks /\ posts'[t] = S /\ \A u \in PostTasks : u # t => posts'[u] = posts[u]
  BY OneTask
<1>2. Posting("resources")' = Posting("resources")
  BY <1>1 DEF Posting
<1>3. \A u \in PostTasks : \A p \in posts'[u] : p.file = "resources" => p \in posts[u]
  BY <1>1
<1> QED
  BY <1>2, <1>3 DEF ResourcesInv

LEMMA ResourcesOnly ==
  ASSUME PostsInv, ResourcesInv, "resources" \notin disturbed, NEW t \in PostTasks, NEW p \in posts[t],
         p.file = "resources", NEW S, posts' = [posts EXCEPT ![t] = S]
  PROVE  /\ p.content = resources /\ (p.open => resourcesFile = TornBank)
         /\ \A u \in PostTasks : \A q \in posts'[u] : q.file = "resources" => u = t /\ q \in S
<1>1. DOMAIN posts' = PostTasks /\ posts'[t] = S /\ \A u \in PostTasks : u # t => posts'[u] = posts[u]
  BY OneTask
<1>2. t \in Posting("resources") /\ \A u \in Posting("resources") : u = t
  BY DEF ResourcesInv, Posting
<1>3. ASSUME NEW u \in PostTasks, NEW q \in posts'[u], q.file = "resources", u # t PROVE FALSE
  <2>1. u \in Posting("resources")
    BY <1>1, <1>3 DEF Posting
  <2> QED
    BY <1>2, <1>3, <2>1
<1> QED
  BY <1>1, <1>3 DEF ResourcesInv

LEMMA ResourcesStep == PostsInv /\ ResourcesInv /\ [BankNext]_bankVars => ResourcesInv'
<1> SUFFICES ASSUME PostsInv, ResourcesInv, [BankNext]_bankVars PROVE ResourcesInv'
  OBVIOUS
<1>1. ASSUME NEW t \in PostTasks, NEW r \in PostedResources, PostContribution(t, r) PROVE ResourcesInv'
  <2> SUFFICES ASSUME "resources" \notin disturbed' PROVE ResourcesInv'
    BY DEF ResourcesInv
  <2> DEFINE k == [file |-> "resources", content |-> r, offer |-> {}, open |-> FALSE]
  <2>1. /\ posts[t] = {} /\ posts' = [posts EXCEPT ![t] = {k}] /\ resources' = r
        /\ Posting("resources") = {}
    BY <1>1 DEF PostContribution, BeginsPost
  <2>2. k.file = "resources" /\ k.content = r /\ k.open = FALSE
    OBVIOUS
  <2> HIDE DEF k
  <2>3. posts'[t] = {k} /\ \A u \in PostTasks : u # t => posts'[u] = posts[u]
    BY <2>1, OneTask
  <2>4. /\ Posting("resources")' = {t}
        /\ \A u \in PostTasks : \A q \in posts'[u] : q.file = "resources" => q = k
    BY <2>1, <2>2, <2>3 DEF Posting
  <2> QED
    BY <2>1, <2>2, <2>4 DEF ResourcesInv
<1>2. ASSUME NEW t \in PostTasks, NEW o \in Offers, NEW read \in BOOLEAN, PostOffer(t, o, read) PROVE ResourcesInv'
  <2> DEFINE new == Append(IF read THEN Listed(offersFile) ELSE <<>>, o)
             k == [file |-> "offers", content |-> new, offer |-> {o}, open |-> FALSE]
  <2>1. /\ posts[t] = {} /\ posts' = [posts EXCEPT ![t] = {k}] /\ UNCHANGED <<resourcesFile, resources>>
        /\ "resources" \notin disturbed' => "resources" \notin disturbed
    BY <1>2 DEF PostOffer, BeginsPost
  <2> HIDE DEF new
  <2>2. \A p \in {k} : p.file # "resources"
    OBVIOUS
  <2> HIDE DEF k
  <2> QED
    BY <2>1, <2>2, ResourcesUntouched
<1>3. ASSUME NEW t \in PostTasks, NEW p \in posts[t], PostOpens(t, p) PROVE ResourcesInv'
  <2> DEFINE k == [p EXCEPT !.open = TRUE]
  <2>1. /\ posts' = [posts EXCEPT ![t] = {k}] /\ UNCHANGED <<resources, disturbed>>
        /\ resourcesFile' = IF p.file = "resources" THEN TornBank ELSE resourcesFile
    BY <1>3 DEF PostOpens
  <2>2. k.file = p.file /\ k.content = p.content
    BY Opened
  <2> HIDE DEF k
  <2>3. CASE p.file # "resources"
    <3>1. (\A q \in {k} : q.file # "resources") /\ \A q \in posts[t] : q.file # "resources"
      BY <2>2, <2>3 DEF PostsInv
    <3> QED
      BY <2>1, <2>3, <3>1, ResourcesUntouched
  <2>4. CASE p.file = "resources" /\ "resources" \notin disturbed
    <3>1. /\ p.content = resources
          /\ \A u \in PostTasks : \A q \in posts'[u] : q.file = "resources" => u = t /\ q \in {k}
      BY <2>1, <2>4, ResourcesOnly
    <3>2. \A u \in Posting("resources")' : u = t
      BY <3>1 DEF Posting
    <3>3. posts'[t] = {k}
      BY <2>1, OneTask
    <3>4. t \in Posting("resources")'
      BY <2>2, <2>4, <3>3 DEF Posting
    <3> QED
      BY <2>1, <2>2, <2>4, <3>1, <3>2, <3>4 DEF ResourcesInv
  <2> QED
    BY <2>1, <2>3, <2>4 DEF ResourcesInv
<1>4. ASSUME NEW t \in PostTasks, NEW p \in posts[t],
             PostFills(t, p) \/ PostRefused(t, p) \/ PostFails(t, p) PROVE ResourcesInv'
  <2>1. /\ posts' = [posts EXCEPT ![t] = {}] /\ resources' = resources
        /\ "resources" \notin disturbed' => "resources" \notin disturbed
    BY <1>4 DEF PostFills, PostRefused, PostFails, PostEnds
  <2>2. CASE p.file # "resources"
    <3>1. UNCHANGED <<resourcesFile, resources>>
      BY <1>4, <2>2 DEF PostFills, PostRefused, PostFails, PostEnds
    <3> DEFINE none == {}
    <3>2. (\A q \in none : q.file # "resources") /\ \A q \in posts[t] : q.file # "resources"
      BY <2>2 DEF PostsInv
    <3>3. posts' = [posts EXCEPT ![t] = none]
      BY <2>1
    <3> HIDE DEF none
    <3> QED
      BY <2>1, <3>1, <3>2, <3>3, ResourcesUntouched
  <2>3. CASE p.file = "resources" /\ "resources" \notin disturbed'
    <3>1. /\ p.content = resources /\ (p.open => resourcesFile = TornBank)
          /\ \A u \in PostTasks : \A q \in posts'[u] : q.file = "resources" => u = t /\ q \in {}
      BY <2>1, <2>3, ResourcesOnly
    <3>2. Posting("resources")' = {}
      BY <3>1 DEF Posting
    <3>3. PostFills(t, p)
      BY <1>4, <2>3 DEF PostRefused, PostFails
    <3>4. p.open /\ resourcesFile' \in Filled(resourcesFile, p.content)
      BY <2>3, <3>3 DEF PostFills, PostEnds, FileOf
    <3>5. resourcesFile' = resources
      BY <3>1, <3>4 DEF Filled
    <3> QED
      BY <2>1, <3>1, <3>2, <3>5 DEF ResourcesInv
  <2> QED
    BY <2>2, <2>3 DEF ResourcesInv
<1>5. ASSUME NEW read \in BOOLEAN, BankRestart(read) PROVE ResourcesInv'
  <2>1. /\ posts' = [t \in PostTasks |-> {}] /\ resourcesFile' = resourcesFile
        /\ "resources" \notin disturbed' => resources' = resourcesFile
    BY <1>5 DEF BankRestart
  <2>2. Posting("resources")' = {} /\ \A u \in PostTasks : posts'[u] = {}
    BY <2>1 DEF Posting
  <2> QED
    BY <2>1, <2>2 DEF ResourcesInv
<1>6. CASE UNCHANGED bankVars
  BY <1>6 DEF bankVars, ResourcesInv, Posting
<1> QED
  BY <1>1, <1>2, <1>3, <1>4, <1>5, <1>6 DEF BankNext

\* However requests overlap and fail, a list that is written ends with the offer of
\* the request that wrote it.
LastInv ==
  /\ offersFile \in Seq(Offers) \union {TornBank}
  /\ answered # {} /\ offersFile # TornBank => offersFile # <<>> /\ Last(offersFile) \in answered
  /\ \A t \in PostTasks : \A p \in posts[t] :
       p.file = "offers" => p.content \in Seq(Offers) /\ p.content # <<>> /\ p.offer = {Last(p.content)}

LEMMA LastStep == PostsInv /\ LastInv /\ [BankNext]_bankVars => LastInv'
<1> SUFFICES ASSUME PostsInv, LastInv, [BankNext]_bankVars PROVE LastInv'
  OBVIOUS
<1>1. ASSUME NEW t \in PostTasks, NEW r \in PostedResources, PostContribution(t, r) PROVE LastInv'
  <2>1. /\ posts' = [posts EXCEPT ![t] = {[file |-> "resources", content |-> r, offer |-> {}, open |-> FALSE]}]
        /\ UNCHANGED <<offersFile, answered>>
    BY <1>1 DEF PostContribution, BeginsPost
  <2>2. \A u \in PostTasks : \A p \in posts'[u] : p.file = "offers" => p \in posts[u]
    BY <2>1 DEF PostsInv
  <2> QED
    BY <2>1, <2>2 DEF LastInv
<1>2. ASSUME NEW t \in PostTasks, NEW o \in Offers, NEW read \in BOOLEAN, PostOffer(t, o, read) PROVE LastInv'
  <2> DEFINE old == IF read THEN Listed(offersFile) ELSE <<>>
             new == Append(old, o)
             k == [file |-> "offers", content |-> new, offer |-> {o}, open |-> FALSE]
  <2>1. posts' = [posts EXCEPT ![t] = {k}] /\ UNCHANGED <<offersFile, answered>>
    BY <1>2 DEF PostOffer, BeginsPost
  <2>2. old \in Seq(Offers)
    BY DEF LastInv, Listed
  <2>3. k.content = new /\ k.offer = {o}
    OBVIOUS
  <2> HIDE DEF old
  <2>4. new \in Seq(Offers) /\ new # <<>> /\ Last(new) = o
    BY <2>2, AppendKeeps
  <2> HIDE DEF k, new
  <2>5. posts'[t] = {k} /\ \A u \in PostTasks : u # t => posts'[u] = posts[u]
    BY <2>1, OneTask
  <2> QED
    BY <2>1, <2>3, <2>4, <2>5 DEF LastInv
<1>3. ASSUME NEW t \in PostTasks, NEW p \in posts[t], PostOpens(t, p) PROVE LastInv'
  <2> DEFINE k == [p EXCEPT !.open = TRUE]
  <2>1. /\ posts' = [posts EXCEPT ![t] = {k}] /\ UNCHANGED answered
        /\ offersFile' = IF p.file = "offers" THEN TornBank ELSE offersFile
    BY <1>3 DEF PostOpens
  <2>2. k.file = p.file /\ k.content = p.content /\ k.offer = p.offer
    BY Opened
  <2> HIDE DEF k
  <2>3. posts'[t] = {k} /\ \A u \in PostTasks : u # t => posts'[u] = posts[u]
    BY <2>1, OneTask
  <2> QED
    BY <2>1, <2>2, <2>3 DEF LastInv
<1>4. ASSUME NEW t \in PostTasks, NEW p \in posts[t],
             PostFills(t, p) \/ PostRefused(t, p) \/ PostFails(t, p) PROVE LastInv'
  <2>1. posts' = [posts EXCEPT ![t] = {}]
    BY <1>4 DEF PostFills, PostRefused, PostFails, PostEnds
  <2>2. \A u \in PostTasks : \A q \in posts'[u] : q \in posts[u]
    BY <2>1 DEF PostsInv
  <2>3. CASE PostFills(t, p) /\ p.file = "offers"
    <3>1. /\ answered' = answered \union p.offer
          /\ offersFile' \in {p.content, TornBank}
      BY <2>3 DEF PostFills, PostEnds, FileOf, Filled
    <3>2. p.content \in Seq(Offers) /\ p.content # <<>> /\ p.offer = {Last(p.content)}
      BY <2>3 DEF LastInv
    <3> QED
      BY <2>2, <3>1, <3>2 DEF LastInv
  <2>4. CASE ~(PostFills(t, p) /\ p.file = "offers")
    <3>1. answered' = answered
      BY <1>4, <2>4 DEF PostFills, PostRefused, PostFails, PostsInv
    <3>2. offersFile' \in {offersFile, TornBank}
      BY <1>4, <2>4 DEF PostFills, PostRefused, PostFails, PostEnds, FileOf
    <3> QED
      BY <2>2, <3>1, <3>2 DEF LastInv
  <2> QED
    BY <2>3, <2>4
<1>5. ASSUME NEW read \in BOOLEAN, BankRestart(read) PROVE LastInv'
  BY <1>5 DEF BankRestart, LastInv
<1>6. CASE UNCHANGED bankVars
  BY <1>6 DEF bankVars, LastInv
<1> QED
  BY <1>1, <1>2, <1>3, <1>4, <1>5, <1>6 DEF BankNext

\* An offer that was answered stays in the list and the contribution on disk is the
\* one in memory, for any number of requests of which none that writes the file
\* overlaps another, is cut or fails; and whatever happens, a list that is not cut
\* short ends with an offer that was answered.
THEOREM BankKeepsAnswers == PartsSpec => []AnsweredIsKept
<1> DEFINE BankInv == PostsInv /\ OffersInv /\ ResourcesInv /\ LastInv
<1>1. PartsInit => BankInv
  <2> SUFFICES ASSUME BankInit PROVE BankInv
    BY PartsStart
  <2>1. <<>> \in Seq(Offers) /\ \A t \in PostTasks : posts[t] = {}
    BY DEF BankInit
  <2>2. PostsInv /\ OffersInv
    BY <2>1 DEF BankInit, PostsInv, OffersInv, Posting, ListHolds
  <2>3. ResourcesInv /\ LastInv
    BY <2>1 DEF BankInit, ResourcesInv, LastInv, Posting
  <2> QED
    BY <2>2, <2>3
<1>2. BankInv /\ [PartsNext]_partsVars => BankInv'
  BY PostsStep, OffersStep, ResourcesStep, LastStep, PartsStep
<1>3. BankInv => AnsweredIsKept
  BY DEF OffersInv, ListHolds, ResourcesInv, LastInv, AnsweredIsKept
<1> QED
  BY <1>1, <1>2, <1>3, PTL DEF PartsSpec

-----------------------------------------------------------------------------
(* The application store *)

\* What an operation that runs alone finds at each of its steps: one of the two
\* files holds a version while the other is open.
TaskOk(k, record, copy, temporary) ==
  \/ k.pc = "copy" /\ k.version \in Versions /\ record \in Versions
  \/ /\ k.pc = "fill" /\ k.version \in Versions /\ k.copy \in Versions
     /\ record \in Versions /\ copy = TornFile
  \/ k.pc = "open" /\ k.version \in Versions
  \/ k.pc = "write" /\ k.version \in Versions /\ k.file = "part" /\ temporary = TornFile
  \/ k.pc = "rename" /\ k.version \in Versions /\ temporary \in Versions
  \/ /\ k.pc = "restore" /\ k.copy \in Versions /\ k.file = "active"
     /\ record = TornFile /\ copy \in Versions

FilesOk(record, copy, done) ==
  /\ record \in Versions \union {NoFile, TornFile} /\ copy \in Versions \union {NoFile, TornFile}
  /\ done # {} => record \in Versions \/ copy \in Versions

StoreInv ==
  /\ DOMAIN task = StoreTasks
  /\ ~unsafe =>
       /\ FilesOk(active, backup, confirmed)
       /\ \A t, u \in Busy : t = u
       /\ \A t \in Busy : TaskOk(task[t], active, backup, part)

\* One task goes from one step to the next, and no other is busy.
LEMMA TaskMoves ==
  ASSUME StoreInv, NEW t \in StoreTasks, NEW record, Enters(t, record),
         ~unsafe' => /\ FilesOk(active', backup', confirmed')
                     /\ \A u \in Busy : u = t
                     /\ record = Resting \/ TaskOk(record, active', backup', part')
  PROVE  StoreInv'
<1>1. /\ DOMAIN task = StoreTasks /\ DOMAIN task' = StoreTasks /\ task'[t] = record
      /\ \A u \in StoreTasks : u # t => task'[u] = task[u]
  BY DEF Enters, StoreInv
<1>2. ASSUME ~unsafe' PROVE \A u \in Busy' : u = t /\ TaskOk(task'[u], active', backup', part')
  BY <1>1, <1>2 DEF Busy
<1> QED
  BY <1>1, <1>2 DEF StoreInv

\* The busy task of an undisturbed store.
LEMMA TaskAlone ==
  ASSUME StoreInv, NEW t \in StoreTasks, task[t].pc # "idle", ~unsafe
  PROVE  /\ FilesOk(active, backup, confirmed)
         /\ \A u \in Busy : u = t
         /\ TaskOk(task[t], active, backup, part)
<1>1. t \in Busy
  BY DEF Busy, Resting
<1> QED
  BY <1>1 DEF StoreInv

\* An operation that begins undisturbed finds no task busy and no file torn.
LEMMA TaskBegins ==
  ASSUME StoreInv, NEW t, Begins(t), ~unsafe'
  PROVE  ~unsafe /\ Busy = {} /\ FilesOk(active, backup, confirmed)
         /\ active # TornFile /\ backup # TornFile
BY DEF Begins, StoreInv

LEMMA StoreStep == StoreInv /\ [StoreNext]_storeVars => StoreInv'
<1> SUFFICES ASSUME StoreInv, [StoreNext]_storeVars PROVE StoreInv'
  OBVIOUS
<1>1. ASSUME NEW v \in Versions, Publish(v) \/ Alter(v) PROVE StoreInv'
  <2>1. UNCHANGED <<active, backup, part, task, confirmed, unsafe>>
    BY <1>1 DEF Publish, Alter
  <2> QED
    BY <2>1 DEF StoreInv, Busy
<1>2. ASSUME NEW t \in StoreTasks, NEW v \in Versions, NEW granted, Install(t, v, granted)
      PROVE  StoreInv'
  <2> DEFINE record == [pc |-> IF active = NoFile THEN "open" ELSE "copy", version |-> v]
  <2>1. Begins(t) /\ Enters(t, record) /\ UNCHANGED <<active, backup, part, confirmed>>
    BY <1>2 DEF Install
  <2>2. ASSUME ~unsafe'
        PROVE  /\ FilesOk(active', backup', confirmed') /\ \A u \in Busy : u = t
               /\ TaskOk(record, active', backup', part')
    <3>1. Busy = {} /\ FilesOk(active, backup, confirmed) /\ active # TornFile
      BY <2>1, <2>2, TaskBegins
    <3> QED
      BY <2>1, <3>1 DEF TaskOk, FilesOk
  <2> HIDE DEF record
  <2> QED
    BY <2>1, <2>2, TaskMoves
<1>3. ASSUME NEW t \in StoreTasks, InstallCopy(t) PROVE StoreInv'
  <2>1. task[t].pc = "copy" /\ UNCHANGED <<active, part, confirmed, unsafe>>
    BY <1>3 DEF InstallCopy
  <2>2. ASSUME ~unsafe
        PROVE  /\ FilesOk(active, backup, confirmed) /\ \A u \in Busy : u = t
               /\ task[t].version \in Versions /\ active \in Versions
    BY <2>1, <2>2, TaskAlone DEF TaskOk
  <2>3. CASE active = NoFile
    <3>1. Enters(t, Resting) /\ backup' = backup
      BY <1>3, <2>3 DEF InstallCopy
    <3> QED
      BY <2>1, <2>2, <2>3, <3>1, TaskMoves
  <2>4. CASE active # NoFile
    <3> DEFINE record == [pc |-> "fill", version |-> task[t].version, copy |-> active]
    <3>1. Enters(t, record) /\ backup' = TornFile
      BY <1>3, <2>4 DEF InstallCopy
    <3>2. ~unsafe' => FilesOk(active', backup', confirmed') /\ TaskOk(record, active', backup', part')
      BY <2>1, <2>2, <3>1 DEF FilesOk, TaskOk
    <3> HIDE DEF record
    <3> QED
      BY <2>1, <2>2, <3>1, <3>2, TaskMoves
  <2> QED
    BY <2>3, <2>4
<1>4. ASSUME NEW t \in StoreTasks, InstallFill(t) PROVE StoreInv'
  <2> DEFINE record == [pc |-> "open", version |-> task[t].version]
  <2>1. /\ task[t].pc = "fill" /\ UNCHANGED <<active, part, confirmed, unsafe>> /\ Enters(t, record)
        /\ backup' \in Written(backup, task[t].copy)
    BY <1>4 DEF InstallFill
  <2>2. ASSUME ~unsafe
        PROVE  /\ FilesOk(active, backup, confirmed) /\ \A u \in Busy : u = t
               /\ task[t].version \in Versions /\ task[t].copy \in Versions /\ backup = TornFile
               /\ active \in Versions
    BY <2>1, <2>2, TaskAlone DEF TaskOk
  <2>3. ~unsafe' => FilesOk(active', backup', confirmed') /\ TaskOk(record, active', backup', part')
    BY <2>1, <2>2 DEF FilesOk, TaskOk, Written
  <2> HIDE DEF record
  <2> QED
    BY <2>1, <2>2, <2>3, TaskMoves
<1>5. ASSUME NEW t \in StoreTasks, InstallOpen(t) PROVE StoreInv'
  <2> DEFINE record == [pc |-> "write", version |-> task[t].version, file |-> "part"]
  <2>1. /\ task[t].pc = "open" /\ UNCHANGED <<active, backup, confirmed, unsafe>> /\ Enters(t, record)
        /\ part' = TornFile
    BY <1>5 DEF InstallOpen
  <2>2. ASSUME ~unsafe
        PROVE  /\ FilesOk(active, backup, confirmed) /\ \A u \in Busy : u = t
               /\ task[t].version \in Versions
    BY <2>1, <2>2, TaskAlone DEF TaskOk
  <2>3. ~unsafe' => FilesOk(active', backup', confirmed') /\ TaskOk(record, active', backup', part')
    BY <2>1, <2>2 DEF TaskOk
  <2> HIDE DEF record
  <2> QED
    BY <2>1, <2>2, <2>3, TaskMoves
<1>6. ASSUME NEW t \in StoreTasks, InstallWrite(t) PROVE StoreInv'
  <2> DEFINE v == task[t].version
             f == task[t].file
             record == [pc |-> "rename", version |-> v]
  <2>1. /\ task[t].pc = "write" /\ UNCHANGED <<backup, confirmed, unsafe>> /\ Enters(t, record)
        /\ part' \in IF f = "part" THEN Written(part, v) ELSE {part}
        /\ active' \in IF f = "active" THEN Written(active, v) ELSE {active}
    BY <1>6 DEF InstallWrite
  <2>2. ASSUME ~unsafe
        PROVE  /\ FilesOk(active, backup, confirmed) /\ \A u \in Busy : u = t
               /\ v \in Versions /\ f = "part" /\ part = TornFile
    BY <2>1, <2>2, TaskAlone DEF TaskOk
  <2>3. ~unsafe' => FilesOk(active', backup', confirmed') /\ TaskOk(record, active', backup', part')
    BY <2>1, <2>2 DEF TaskOk, Written
  <2> HIDE DEF record
  <2> QED
    BY <2>1, <2>2, <2>3, TaskMoves
<1>7. ASSUME NEW t \in StoreTasks, InstallFails(t) PROVE StoreInv'
  <2>1. task[t].pc = "write" /\ UNCHANGED <<active, backup, part, confirmed, unsafe>> /\ Enters(t, Resting)
    BY <1>7 DEF InstallFails
  <2> QED
    BY <2>1, TaskAlone, TaskMoves
<1>8. ASSUME NEW t \in StoreTasks, InstallRename(t) PROVE StoreInv'
  <2>1. task[t].pc = "rename" /\ UNCHANGED <<backup, unsafe>>
    BY <1>8 DEF InstallRename
  <2>2. ASSUME ~unsafe
        PROVE  /\ FilesOk(active, backup, confirmed) /\ \A u \in Busy : u = t
               /\ task[t].version \in Versions /\ part \in Versions
    BY <2>1, <2>2, TaskAlone DEF TaskOk
  <2>3. CASE part = NoFile
    <3>1. Enters(t, Resting) /\ UNCHANGED <<active, part, confirmed>>
      BY <1>8, <2>3 DEF InstallRename
    <3> QED
      BY <2>1, <2>2, <3>1, TaskMoves
  <2>4. CASE part # NoFile
    <3> DEFINE rested == [task EXCEPT ![t] = Resting]
    <3>1. /\ active' = part /\ task' = Renamed(rested, "part", "active")
          /\ confirmed' = confirmed \union {task[t].version}
      BY <1>8, <2>4 DEF InstallRename
    <3>2. DOMAIN task' = StoreTasks
      BY <3>1 DEF Renamed
    <3>3. ASSUME ~unsafe PROVE Busy' = {} /\ FilesOk(active', backup', confirmed')
      <4>1. \A u \in StoreTasks : rested[u] = Resting
        BY <2>2, <3>3 DEF Busy, StoreInv
      <4> HIDE DEF rested
      <4>2. \A u \in StoreTasks : task'[u] = Resting
        BY <3>1, <4>1 DEF Renamed, Resting
      <4> QED
        BY <2>1, <2>2, <3>1, <3>3, <4>2 DEF FilesOk, Busy
    <3> QED
      BY <2>1, <3>2, <3>3 DEF StoreInv
  <2> QED
    BY <2>3, <2>4
<1>9. ASSUME NEW t \in StoreTasks, Uninstall(t) PROVE StoreInv'
  <2>1. /\ Begins(t) /\ active' = NoFile /\ task' = Renamed(task, "active", "gone") /\ confirmed' = {}
        /\ UNCHANGED <<backup, part>>
    BY <1>9 DEF Uninstall
  <2>2. DOMAIN task' = StoreTasks
    BY <2>1 DEF Renamed
  <2>3. ASSUME ~unsafe' PROVE Busy' = {} /\ FilesOk(active', backup', confirmed')
    <3>1. Busy = {} /\ FilesOk(active, backup, confirmed)
      BY <2>1, <2>3, TaskBegins
    <3>2. \A u \in StoreTasks : task[u] = Resting
      BY <3>1 DEF Busy
    <3>3. \A u \in StoreTasks : task'[u] = Resting
      BY <2>1, <3>2 DEF Renamed, Resting
    <3> QED
      BY <2>1, <3>1, <3>3 DEF FilesOk, Busy
  <2> QED
    BY <2>2, <2>3 DEF StoreInv
<1>10. ASSUME NEW t \in StoreTasks, Rollback(t) PROVE StoreInv'
  <2> DEFINE record == [pc |-> "restore", file |-> "active", copy |-> backup]
  <2>1. /\ Begins(t) /\ active' = TornFile /\ Enters(t, record) /\ backup # NoFile
        /\ UNCHANGED <<backup, part, confirmed>>
    BY <1>10 DEF Rollback
  <2>2. ASSUME ~unsafe'
        PROVE  /\ FilesOk(active', backup', confirmed') /\ \A u \in Busy : u = t
               /\ TaskOk(record, active', backup', part')
    <3>1. Busy = {} /\ FilesOk(active, backup, confirmed) /\ backup # TornFile
      BY <2>1, <2>2, TaskBegins
    <3> QED
      BY <2>1, <3>1 DEF FilesOk, TaskOk
  <2> HIDE DEF record
  <2> QED
    BY <2>1, <2>2, TaskMoves
<1>11. ASSUME NEW t \in StoreTasks, RollbackFill(t) PROVE StoreInv'
  <2>1. /\ task[t].pc = "restore" /\ UNCHANGED <<backup, part, confirmed, unsafe>> /\ Enters(t, Resting)
        /\ active' \in IF task[t].file = "active" THEN Written(active, task[t].copy) ELSE {active}
    BY <1>11 DEF RollbackFill
  <2>2. ASSUME ~unsafe
        PROVE  /\ FilesOk(active, backup, confirmed) /\ \A u \in Busy : u = t
               /\ task[t].copy \in Versions /\ task[t].file = "active" /\ active = TornFile
    BY <2>1, <2>2, TaskAlone DEF TaskOk
  <2>3. ~unsafe' => FilesOk(active', backup', confirmed')
    BY <2>1, <2>2 DEF FilesOk, Written
  <2> QED
    BY <2>1, <2>2, <2>3, TaskMoves
<1>12. CASE StoreCrash
  <2>1. /\ task' = [t \in StoreTasks |-> Resting]
        /\ UNCHANGED <<active, backup, part, confirmed, unsafe>>
    BY <1>12 DEF StoreCrash
  <2>2. Busy' = {} /\ DOMAIN task' = StoreTasks
    BY <2>1 DEF Busy
  <2> QED
    BY <2>1, <2>2 DEF StoreInv
<1>13. CASE UNCHANGED storeVars
  BY <1>13 DEF storeVars, StoreInv, Busy
<1> QED
  BY <1>1, <1>2, <1>3, <1>4, <1>5, <1>6, <1>7, <1>8, <1>9, <1>10, <1>11, <1>12, <1>13 DEF StoreNext

\* An app whose install was answered keeps a readable record or a readable copy,
\* wherever a crash cuts an install or a rollback, if operations do not overlap
\* and none begins on a torn file.
THEOREM StoreKeepsVersion == PartsSpec => []OneVersionSurvives
<1>1. PartsInit => StoreInv
  <2> SUFFICES ASSUME StoreInit PROVE StoreInv
    BY PartsStart
  <2>1. Busy = {}
    BY DEF StoreInit, Busy
  <2> QED
    BY <2>1 DEF StoreInit, StoreInv, FilesOk
<1>2. StoreInv /\ [PartsNext]_partsVars => StoreInv'
  BY StoreStep, PartsStep
<1>3. StoreInv => OneVersionSurvives
  BY DEF StoreInv, FilesOk, OneVersionSurvives
<1> QED
  BY <1>1, <1>2, <1>3, PTL DEF PartsSpec

-----------------------------------------------------------------------------
(* The plan of a file and its repairs *)

\* The nodes at a load.
At(f, q) == {n \in StorageNodes : f[n] = q}

\* After k shards every load is q or q + 1, and h of them are q + 1.
Balanced(f, k, q, h) ==
  /\ \A n \in StorageNodes : f[n] = q \/ f[n] = q + 1
  /\ Cardinality(At(f, q + 1)) = h
  /\ Cardinality(StorageNodes) * q + h = k * PlanReplicas

Placement == {p \in SUBSET StorageNodes : Cardinality(p) = PlanReplicas}

PlanInv ==
  /\ loads \in [StorageNodes -> Nat]
  /\ placements \in Seq(Placement)
  /\ ~exhausted
  /\ \E q, h \in Nat : Balanced(loads, Len(placements), q, h)
  /\ \A r \in repairs :
       /\ Len(placements) = PlanShards
       /\ Cardinality((placements[r[1]] \union r[2]) \intersect online) = PlanReplicas

\* Room for one more shard bounds the lower of the two loads.
LEMMA RoomLeft ==
  ASSUME NEW n \in Nat, NEW m \in Nat, NEW q \in Nat, NEW x \in Nat, n * q + x <= n * m, x > 0
  PROVE  q < m
<1> SUFFICES ASSUME q >= m PROVE FALSE
  OBVIOUS
<1>1. PICK d \in Nat : q = m + d
  <2>1. q - m \in Nat /\ q = m + (q - m)
    OBVIOUS
  <2> QED
    BY <2>1
<1>2. n * q = n * m + n * d /\ n * d \in Nat /\ n * m \in Nat
  BY <1>1, SMT
<1> QED
  BY <1>2

LEMMA NextShard ==
  ASSUME NEW k \in Nat, k < PlanShards
  PROVE  (k + 1) * PlanReplicas = k * PlanReplicas + PlanReplicas
         /\ k * PlanReplicas + PlanReplicas <= Cardinality(StorageNodes) * MaxPerNode
<1> DEFINE s == PlanShards  r == PlanReplicas  total == Cardinality(StorageNodes) * MaxPerNode
<1>1. s \in Nat /\ r \in Nat /\ total \in Int /\ s * r <= total
  BY CapacityAssumption, FS_CardinalityType DEF s, r, total
<1>2. PICK d \in Nat : s = (k + 1) + d
  <2>1. s - (k + 1) \in Nat /\ s = (k + 1) + (s - (k + 1))
    BY <1>1
  <2> QED
    BY <2>1
<1> HIDE DEF s, r, total
<1>3. s * r = (k + 1) * r + d * r /\ d * r \in Nat /\ (k + 1) * r = k * r + r /\ k * r \in Nat
  BY <1>1, <1>2, SMT
<1>4. (k + 1) * r <= total
  BY <1>1, <1>3
<1> QED
  BY <1>3, <1>4 DEF r, total

\* The load of a balanced plan after one more shard.
LEMMA StaysBalanced ==
  ASSUME NEW f \in [StorageNodes -> Nat], NEW k \in Nat, NEW q \in Nat, NEW h \in Nat,
         Balanced(f, k, q, h), k < PlanShards,
         NEW room, room = {n \in StorageNodes : f[n] < MaxPerNode}
  PROVE  /\ PlanReplicas <= Cardinality(room)
         /\ \A chosen \in SUBSET room :
              (Cardinality(chosen) = PlanReplicas /\ \A n \in chosen, j \in room \ chosen : f[n] <= f[j]) =>
              \E p, g \in Nat :
                Balanced([n \in StorageNodes |-> f[n] + IF n \in chosen THEN 1 ELSE 0], k + 1, p, g)
<1> DEFINE N == Cardinality(StorageNodes)
           R == PlanReplicas
           Lo == At(f, q)
           Hi == At(f, q + 1)
<1>1. /\ IsFiniteSet(StorageNodes) /\ N \in Nat /\ R \in Nat /\ R <= N /\ MaxPerNode \in Nat
  BY CapacityAssumption, FS_CardinalityType
<1>2. /\ IsFiniteSet(Lo) /\ IsFiniteSet(Hi) /\ Lo \subseteq StorageNodes /\ Hi \subseteq StorageNodes
      /\ Lo \union Hi = StorageNodes /\ Lo \intersect Hi = {}
      /\ room \subseteq StorageNodes /\ IsFiniteSet(room) /\ Cardinality(room) \in Nat
  <2>1. Lo \subseteq StorageNodes /\ Hi \subseteq StorageNodes /\ room \subseteq StorageNodes
    BY DEF At
  <2>2. Lo \union Hi = StorageNodes /\ Lo \intersect Hi = {}
    BY DEF At, Balanced
  <2> QED
    BY <1>1, <2>1, <2>2, FS_Subset, FS_CardinalityType
<1>3. Cardinality(Hi) = h /\ Cardinality(Lo) = N - h /\ h <= N
  <2>1. Cardinality(Hi) = h
    BY DEF Balanced
  <2>2. Lo = StorageNodes \ Hi /\ StorageNodes \intersect Hi = Hi
    BY <1>2
  <2>3. Cardinality(Lo) = N - Cardinality(Hi)
    BY <1>1, <2>2, FS_Difference, ZenonT(40)
  <2> QED
    BY <1>1, <1>2, <2>1, <2>3, FS_CardinalityType
<1>4. N * q + h = k * R /\ N * q + h + R <= N * MaxPerNode /\ (k + 1) * R = N * q + h + R
  BY NextShard DEF Balanced
<1>5. N * q \in Nat /\ N * (q + 1) = N * q + N /\ N * MaxPerNode \in Nat
  BY <1>1, SMT
<1>6. \A n \in StorageNodes : n \in Lo <=> f[n] = q
  BY DEF At
<1>7. \A n \in StorageNodes : n \in Hi <=> f[n] = q + 1
  BY DEF At
<1> HIDE DEF N, R, Lo, Hi
<1>8. CASE R <= N - h
  <2>1. R # 0 => Lo \subseteq room
    <3> SUFFICES ASSUME R # 0 PROVE Lo \subseteq room
      OBVIOUS
    <3>1. N * q + (h + R) <= N * MaxPerNode /\ h + R \in Nat /\ h + R > 0
      BY <1>1, <1>4, <1>5
    <3>2. q < MaxPerNode
      BY <1>1, <3>1, RoomLeft
    <3> QED
      BY <1>2, <1>6, <3>2
  <2>2. R <= Cardinality(room)
    <3>1. CASE R = 0
      BY <1>2, <3>1
    <3>2. CASE R # 0
      <4>1. Cardinality(Lo) <= Cardinality(room)
        BY <1>2, <2>1, <3>2, FS_Subset
      <4> QED
        BY <1>1, <1>2, <1>3, <1>8, <4>1
    <3> QED
      BY <3>1, <3>2
  <2>3. ASSUME NEW chosen \in SUBSET room, Cardinality(chosen) = R,
               \A n \in chosen, j \in room \ chosen : f[n] <= f[j]
        PROVE  Balanced([n \in StorageNodes |-> f[n] + IF n \in chosen THEN 1 ELSE 0], k + 1, q, h + R)
    <3>1. IsFiniteSet(chosen) /\ chosen \subseteq StorageNodes
      BY <1>2, FS_Subset
    <3>2. chosen \subseteq Lo
      <4> SUFFICES ASSUME NEW n \in chosen, n \notin Lo PROVE FALSE
        OBVIOUS
      <4>1. R # 0
        BY <2>3, <3>1, FS_EmptySet
      <4>2. f[n] = q + 1
        BY <1>2, <1>7, <3>1
      <4>3. Lo \subseteq chosen
        <5> SUFFICES ASSUME NEW j \in Lo, j \notin chosen PROVE FALSE
          OBVIOUS
        <5>1. j \in room \ chosen /\ f[j] = q
          BY <1>2, <1>6, <2>1, <4>1
        <5> QED
          BY <2>3, <4>2, <5>1
      <4>4. Lo \union {n} \subseteq chosen /\ Cardinality(Lo \union {n}) = Cardinality(Lo) + 1
        BY <1>2, <4>3, FS_AddElement
      <4>5. Cardinality(Lo \union {n}) <= Cardinality(chosen)
        BY <3>1, <4>4, FS_Subset
      <4> QED
        BY <1>1, <1>3, <1>8, <2>3, <4>4, <4>5
    <3> DEFINE g == [n \in StorageNodes |-> f[n] + IF n \in chosen THEN 1 ELSE 0]
    <3>3. \A n \in StorageNodes : g[n] = IF n \in chosen THEN q + 1 ELSE f[n]
      BY <1>6, <3>2
    <3>4. At(g, q + 1) = Hi \union chosen
      BY <1>2, <1>7, <3>1, <3>3 DEF At
    <3>5. Hi \intersect chosen = {}
      BY <1>2, <3>2
    <3>6. Cardinality(Hi \union chosen) = h + R
      <4>1. Cardinality(Hi \union chosen) = Cardinality(Hi) + Cardinality(chosen) - Cardinality(Hi \intersect chosen)
        BY <1>2, <3>1, FS_Union
      <4> QED
        BY <1>1, <1>3, <2>3, <3>5, <4>1, FS_EmptySet
    <3>7. \A n \in StorageNodes : g[n] = q \/ g[n] = q + 1
      BY <1>2, <1>6, <1>7, <3>3
    <3>8. N * q + (h + R) = (k + 1) * R
      BY <1>1, <1>4, <1>5
    <3> HIDE DEF g
    <3>9. Balanced(g, k + 1, q, h + R)
      BY <3>4, <3>6, <3>7, <3>8 DEF Balanced, N, R
    <3> QED
      BY <3>9 DEF g
  <2>4. h + R \in Nat
    BY <1>1
  <2> QED
    BY <2>2, <2>3, <2>4, Zenon DEF R
<1>9. CASE ~(R <= N - h)
  <2>1. room = StorageNodes
    <3>1. N * (q + 1) + (h + R - N) <= N * MaxPerNode /\ h + R - N \in Nat /\ h + R - N > 0
      BY <1>1, <1>3, <1>4, <1>5, <1>9
    <3>2. q + 1 < MaxPerNode
      <4>1. q + 1 \in Nat
        OBVIOUS
      <4> QED
        BY <1>1, <3>1, <4>1, RoomLeft
    <3> QED
      BY <1>1, <1>2, <1>6, <1>7, <3>2
  <2>2. R <= Cardinality(room)
    BY <1>1, <2>1 DEF N
  <2>3. ASSUME NEW chosen \in SUBSET room, Cardinality(chosen) = R,
               \A n \in chosen, j \in room \ chosen : f[n] <= f[j]
        PROVE  Balanced([n \in StorageNodes |-> f[n] + IF n \in chosen THEN 1 ELSE 0], k + 1, q + 1,
                        h + R - N)
    <3>1. IsFiniteSet(chosen) /\ chosen \subseteq StorageNodes
      BY <1>2, FS_Subset
    <3>2. Lo \subseteq chosen
      <4> SUFFICES ASSUME NEW j \in Lo, j \notin chosen PROVE FALSE
        OBVIOUS
      <4>1. j \in room \ chosen /\ f[j] = q
        BY <1>2, <1>6, <2>1
      <4>2. \A n \in chosen : f[n] = q
        BY <1>2, <1>6, <1>7, <2>3, <3>1, <4>1
      <4>3. chosen \subseteq Lo
        BY <1>6, <3>1, <4>2
      <4>4. Cardinality(chosen) <= Cardinality(Lo)
        BY <1>2, <4>3, FS_Subset
      <4> QED
        BY <1>1, <1>3, <1>9, <2>3, <4>4
    <3> DEFINE g == [n \in StorageNodes |-> f[n] + IF n \in chosen THEN 1 ELSE 0]
    <3>3. \A n \in StorageNodes : IF n \in chosen \ Lo THEN g[n] = q + 2 ELSE g[n] = q + 1
      BY <1>2, <1>6, <1>7, <3>2
    <3>4. At(g, q + 1 + 1) = chosen \ Lo
      BY <3>1, <3>3 DEF At
    <3>5. Cardinality(chosen \ Lo) = h + R - N
      <4>1. chosen \intersect Lo = Lo
        BY <3>2
      <4>2. Cardinality(chosen \ Lo) = Cardinality(chosen) - Cardinality(Lo)
        BY <3>1, <4>1, FS_Difference
      <4> QED
        BY <1>1, <1>3, <2>3, <4>2
    <3>6. \A n \in StorageNodes : g[n] = q + 1 \/ g[n] = q + 1 + 1
      BY <3>3
    <3>7. N * (q + 1) + (h + R - N) = (k + 1) * R
      BY <1>1, <1>4, <1>5
    <3> HIDE DEF g
    <3>8. Balanced(g, k + 1, q + 1, h + R - N)
      BY <3>4, <3>5, <3>6, <3>7 DEF Balanced, N, R
    <3> QED
      BY <3>8 DEF g
  <2>4. h + R - N \in Nat /\ q + 1 \in Nat
    BY <1>1, <1>3, <1>9
  <2> QED
    BY <2>2, <2>3, <2>4, Zenon DEF R
<1> QED
  BY <1>8, <1>9

LEMMA PlanStep == PlanInv /\ [CapacityNext]_planVars => PlanInv'
<1> SUFFICES ASSUME PlanInv, [CapacityNext]_planVars PROVE PlanInv'
  OBVIOUS
<1>1. CASE PlaceShard
  <2>1. PICK q \in Nat, h \in Nat : Balanced(loads, Len(placements), q, h)
    BY DEF PlanInv
  <2>2. /\ loads \in [StorageNodes -> Nat] /\ placements \in Seq(Placement)
        /\ Len(placements) \in Nat /\ Len(placements) < PlanShards
        /\ WithRoom = {n \in StorageNodes : loads[n] < MaxPerNode}
    BY <1>1 DEF PlanInv, PlaceShard, Planning, WithRoom
  <2>3. /\ PlanReplicas <= Cardinality(WithRoom)
        /\ \A chosen \in SUBSET WithRoom :
             (Cardinality(chosen) = PlanReplicas
              /\ \A n \in chosen, j \in WithRoom \ chosen : loads[n] <= loads[j]) =>
             \E p, g \in Nat :
               Balanced([n \in StorageNodes |-> loads[n] + IF n \in chosen THEN 1 ELSE 0],
                        Len(placements) + 1, p, g)
    BY <2>1, <2>2, StaysBalanced
  <2>4. PlanReplicas \in Nat /\ Cardinality(WithRoom) \in Nat /\ PlanShards \in Nat
    <3>1. IsFiniteSet(WithRoom)
      BY CapacityAssumption, FS_Subset DEF WithRoom
    <3> QED
      BY <3>1, CapacityAssumption, FS_CardinalityType
  <2>5. PICK chosen \in Ranked :
          /\ loads' = [n \in StorageNodes |-> loads[n] + IF n \in chosen THEN 1 ELSE 0]
          /\ placements' = Append(placements, chosen)
          /\ UNCHANGED exhausted
    BY <1>1, <2>3, <2>4 DEF PlaceShard
  <2>6. /\ chosen \in SUBSET WithRoom /\ Cardinality(chosen) = PlanReplicas
        /\ \A n \in chosen, j \in WithRoom \ chosen : loads[n] <= loads[j]
        /\ chosen \in Placement
    BY <2>2 DEF Ranked, kSubset, Placement
  <2>7. Len(placements') = Len(placements) + 1 /\ placements' \in Seq(Placement)
    BY <2>2, <2>5, <2>6
  <2>8. \E p, g \in Nat : Balanced(loads', Len(placements'), p, g)
    <3> HIDE DEF PlanInv
    <3>1. \E p, g \in Nat :
               Balanced([n \in StorageNodes |-> loads[n] + IF n \in chosen THEN 1 ELSE 0],
                        Len(placements) + 1, p, g)
      BY <2>3, <2>6
    <3> QED
      BY <2>5, <2>7, <3>1
  <2>9. repairs' = {}
    <3>1. UNCHANGED repairs
      BY <1>1 DEF PlaceShard
    <3>2. \A r \in repairs : Len(placements) = PlanShards
      BY DEF PlanInv
    <3> QED
      BY <2>2, <2>4, <3>1, <3>2
  <2>10. loads' \in [StorageNodes -> Nat]
    BY <2>2, <2>5
  <2> QED
    BY <2>5, <2>7, <2>8, <2>9, <2>10 DEF PlanInv
<1>2. ASSUME NEW nodes \in SUBSET StorageNodes, PlanRepairs(nodes) PROVE PlanInv'
  <2>1. /\ Len(placements) = PlanShards /\ online' = nodes
        /\ repairs' = UNION {RepairsFor(s, nodes) : s \in 1..PlanShards}
        /\ UNCHANGED <<loads, placements, exhausted>>
    BY <1>2 DEF PlanRepairs
  <2>2. ASSUME NEW r \in repairs'
        PROVE  Cardinality((placements[r[1]] \union r[2]) \intersect nodes) = PlanReplicas
    <3>1. PICK s \in 1..PlanShards : r \in RepairsFor(s, nodes)
      BY <2>1, <2>2
    <3> DEFINE p == placements[s]
    <3>2. PICK targets \in SUBSET (nodes \ p) :
            r = <<s, targets>> /\ Cardinality(targets) = PlanReplicas - Cardinality(p \intersect nodes)
      BY <3>1 DEF RepairsFor, Missing, kSubset
    <3>3. IsFiniteSet(targets) /\ IsFiniteSet(p \intersect nodes)
      BY CapacityAssumption, FS_Subset
    <3>4. (p \union targets) \intersect nodes = (p \intersect nodes) \union targets
          /\ (p \intersect nodes) \intersect targets = {}
      OBVIOUS
    <3>5. Cardinality((p \intersect nodes) \union targets)
            = Cardinality(p \intersect nodes) + Cardinality(targets) - Cardinality((p \intersect nodes) \intersect targets)
      BY <3>3, FS_Union
    <3>6. Cardinality(p \intersect nodes) \in Nat /\ PlanReplicas \in Nat
      BY <3>3, FS_CardinalityType, CapacityAssumption
    <3>7. Cardinality((p \intersect nodes) \union targets) = PlanReplicas
      <4>1. Cardinality((p \intersect nodes) \intersect targets) = 0
        BY <3>4, FS_EmptySet, Zenon
      <4> HIDE DEF p
      <4> QED
        BY <3>2, <3>5, <3>6, <4>1
    <3>8. Cardinality((p \union targets) \intersect nodes) = PlanReplicas
      BY <3>4, <3>7, Zenon
    <3> QED
      BY <3>2, <3>8
  <2> QED
    BY <2>1, <2>2 DEF PlanInv
<1>3. CASE UNCHANGED planVars
  BY <1>3 DEF planVars, PlanInv
<1> QED
  BY <1>1, <1>2, <1>3 DEF CapacityNext

\* Least loaded first never runs out of room before the last shard, though it
\* does not look ahead, and a planned repair gives its shard all its replicas.
THEOREM PlanIsCompleted == PartsSpec => []PlanCompletes
<1>1. PartsInit => PlanInv
  <2> SUFFICES ASSUME CapacityInit PROVE PlanInv
    BY PartsStart
  <2>1. loads = [n \in StorageNodes |-> 0] /\ placements = <<>> /\ ~exhausted /\ repairs = {}
    BY DEF CapacityInit
  <2>2. At(loads, 1) = {}
    BY <2>1 DEF At
  <2>3. Cardinality(StorageNodes) \in Nat /\ PlanReplicas \in Nat
    BY CapacityAssumption, FS_CardinalityType
  <2>4. Balanced(loads, Len(placements), 0, 0)
    <3>1. Cardinality(At(loads, 0 + 1)) = 0
      BY <2>2, FS_EmptySet
    <3>2. Len(placements) = 0
      BY <2>1
    <3>3. Cardinality(StorageNodes) * 0 + 0 = 0 * PlanReplicas
      BY <2>3
    <3>4. \A n \in StorageNodes : loads[n] = 0
      BY <2>1
    <3> QED
      BY <3>1, <3>2, <3>3, <3>4 DEF Balanced
  <2>5. \E q, h \in Nat : Balanced(loads, Len(placements), q, h)
    BY <2>4
  <2>6. loads \in [StorageNodes -> Nat] /\ placements \in Seq(Placement)
    BY <2>1
  <2> QED
    BY <2>1, <2>5, <2>6 DEF PlanInv
<1>2. PlanInv /\ [PartsNext]_partsVars => PlanInv'
  BY PlanStep, PartsStep
<1>3. PlanInv => PlanCompletes
  <2> SUFFICES ASSUME PlanInv PROVE PlanCompletes
    OBVIOUS
  <2>1. PICK q \in Nat, h \in Nat : Balanced(loads, Len(placements), q, h)
    BY DEF PlanInv
  <2>2. \A n, k \in StorageNodes : loads[n] <= loads[k] + 1
    BY <2>1 DEF Balanced
  <2> QED
    BY <2>2 DEF PlanInv, PlanCompletes
<1> QED
  BY <1>1, <1>2, <1>3, PTL DEF PartsSpec
-----------------------------------------------------------------------------
(* The table of peers *)

\* The inductive invariant: no list of addresses is longer than allowed.
KnownInv == \A p \in DOMAIN known : known[p] \in Records

\* What a step may do to the record of a peer that stays.
KeepsEndpoint(old, new) ==
  /\ old.addresses \subseteq new.addresses \/ ListLength(new) = MaxAddresses
  /\ new.seen >= old.seen \/ new.seen = Now

LEMMA MaxMinOfTwo ==
  ASSUME NEW a \in Int, NEW b \in Int
  PROVE  /\ Max({a, b}) = IF a >= b THEN a ELSE b
         /\ Min({a, b}) = IF a <= b THEN a ELSE b
BY DEF Max, Min

LEMMA RecordFacts ==
  ASSUME NEW r \in Records
  PROVE  /\ r = Record(r.addresses, r.repeats, r.seen)
         /\ r.addresses \subseteq PeerAddresses /\ IsFiniteSet(r.addresses) /\ Cardinality(r.addresses) \in Nat
         /\ r.repeats \in Nat /\ r.seen \in Times /\ r.seen \in Nat
         /\ ListLength(r) \in Nat /\ ListLength(r) <= MaxAddresses /\ (r.addresses = {} => r.repeats = 0)
<1>1. PICK a \in SUBSET PeerAddresses, n \in 0..MaxAddresses, t \in Times : r = Record(a, n, t)
  BY DEF Records
<1>2. r = Record(r.addresses, r.repeats, r.seen) /\ r.addresses = a /\ r.repeats = n /\ r.seen = t
  BY <1>1 DEF Record
<1>3. r.addresses \in SUBSET PeerAddresses /\ r.repeats \in Nat /\ r.seen \in Times /\ r.seen \in Nat
  BY <1>2, DiscoveryAssumption
<1>4. IsFiniteSet(r.addresses) /\ Cardinality(r.addresses) \in Nat
  BY <1>3, DiscoveryAssumption, FS_Subset, FS_CardinalityType
<1>5. ListLength(r) <= MaxAddresses /\ (r.addresses = {} => r.repeats = 0)
  BY DEF Records
<1> QED
  BY <1>2, <1>3, <1>4, <1>5 DEF ListLength

LEMMA IsRecord ==
  ASSUME NEW a \in SUBSET PeerAddresses, NEW n \in Nat, NEW t \in Times,
         Cardinality(a) + n <= MaxAddresses, a = {} => n = 0
  PROVE  Record(a, n, t) \in Records
<1> DEFINE r == Record(a, n, t)
<1>1. r.addresses = a /\ r.repeats = n /\ r.seen = t
  BY DEF Record
<1>2. n \in 0..MaxAddresses
  <2>1. Cardinality(a) \in Nat
    BY DiscoveryAssumption, FS_Subset, FS_CardinalityType
  <2> QED
    BY <2>1, DiscoveryAssumption
<1>3. r \in {Record(x, y, z) : x \in SUBSET PeerAddresses, y \in 0..MaxAddresses, z \in Times}
  BY <1>2
<1> HIDE DEF r
<1>4. r \in Records
  BY <1>1, <1>3 DEF Records, ListLength
<1> QED
  BY <1>4 DEF r

\* The merge of insert_peer_bounded keeps all addresses there were, or fills the
\* list, and never makes it too long.
LEMMA MergeKeeps ==
  ASSUME NEW old \in Records, NEW r \in Records, NEW m \in Merged(old, r)
  PROVE  m \in Records /\ KeepsEndpoint(old, m)
<1> DEFINE lost == old.addresses \ r.addresses
           room == MaxAddresses - ListLength(r)
<1>1. PICK kept \in SUBSET lost :
        /\ Cardinality(kept) = Min({Cardinality(lost), room})
        /\ m = Record(r.addresses \union kept, r.repeats, Max({old.seen, r.seen}))
  BY DEF Merged
<1>3. /\ IsFiniteSet(old.addresses) /\ IsFiniteSet(r.addresses)
      /\ old.addresses \subseteq PeerAddresses /\ r.addresses \subseteq PeerAddresses
      /\ Cardinality(r.addresses) \in Nat /\ r.repeats \in Nat /\ (r.addresses = {} => r.repeats = 0)
      /\ ListLength(r) \in Nat /\ ListLength(r) <= MaxAddresses
      /\ old.seen \in Times /\ r.seen \in Times /\ old.seen \in Nat /\ r.seen \in Nat
  BY RecordFacts
<1>4. room \in Nat
  BY <1>3, DiscoveryAssumption
<1>5. IsFiniteSet(lost) /\ Cardinality(lost) \in Nat
  BY <1>3, FS_Subset, FS_CardinalityType
<1>6. IsFiniteSet(kept) /\ Cardinality(kept) \in Nat
  BY <1>5, FS_Subset, FS_CardinalityType
<1>7. Cardinality(kept) = IF Cardinality(lost) <= room THEN Cardinality(lost) ELSE room
  <2> DEFINE c == Cardinality(lost)
  <2>1. c \in Int /\ room \in Int
    BY <1>4, <1>5
  <2> HIDE DEF c, room
  <2>2. Min({c, room}) = IF c <= room THEN c ELSE room
    BY <2>1, MaxMinOfTwo
  <2>3. Cardinality(kept) = Min({c, room})
    BY <1>1 DEF c
  <2> QED
    BY <2>2, <2>3 DEF c
<1>8. Cardinality(r.addresses \union kept) = Cardinality(r.addresses) + Cardinality(kept)
  <2>1. r.addresses \cap kept = {}
    OBVIOUS
  <2>2. Cardinality(r.addresses \cap kept) = 0
    BY <2>1, FS_EmptySet
  <2>3. Cardinality(r.addresses \union kept)
          = Cardinality(r.addresses) + Cardinality(kept) - Cardinality(r.addresses \cap kept)
    BY <1>3, <1>6, FS_Union
  <2> QED
    BY <2>2, <2>3, <1>3, <1>6
<1> DEFINE all == r.addresses \union kept
<1>9. old.addresses \subseteq all \/ Cardinality(all) + r.repeats = MaxAddresses
  <2>1. CASE Cardinality(lost) <= room
    <3>1. kept = lost
      BY <2>1, <1>5, <1>7, FS_Subset
    <3> QED
      BY <3>1
  <2>2. CASE ~(Cardinality(lost) <= room)
    BY <2>2, <1>3, <1>7, <1>8, DiscoveryAssumption DEF ListLength
  <2> QED
    BY <2>1, <2>2
<1>10. Cardinality(all) + r.repeats <= MaxAddresses /\ all \in SUBSET PeerAddresses /\ (all = {} => r.repeats = 0)
  <2>1. Cardinality(all) + r.repeats <= MaxAddresses
    BY <1>3, <1>4, <1>5, <1>6, <1>7, <1>8, DiscoveryAssumption DEF ListLength
  <2> QED
    BY <1>3, <2>1
<1>11. Max({old.seen, r.seen}) \in Times /\ Max({old.seen, r.seen}) >= old.seen
  BY <1>3, MaxMinOfTwo
<1>12. m.addresses = all /\ m.repeats = r.repeats /\ m.seen = Max({old.seen, r.seen})
  BY <1>1 DEF Record
<1> HIDE DEF lost, room, all
<1>13. m \in Records
  <2>1. m = Record(all, r.repeats, Max({old.seen, r.seen}))
    BY <1>1 DEF all
  <2> QED
    BY <1>3, <1>10, <1>11, <2>1, IsRecord
<1>14. ListLength(m) = Cardinality(all) + r.repeats
  BY <1>12 DEF ListLength
<1> QED
  BY <1>9, <1>11, <1>12, <1>13, <1>14 DEF KeepsEndpoint

LEMMA SameKeeps ==
  ASSUME NEW r \in Records
  PROVE  KeepsEndpoint(r, r)
<1>1. r.seen \in Nat
  BY RecordFacts
<1> QED
  BY <1>1 DEF KeepsEndpoint

\* An insertion into the table of peers, with or without an eviction.
LEMMA InsertKeeps ==
  ASSUME KnownInv, NEW p, NEW r \in Records, NEW table \in KnownInsert(known, p, r)
  PROVE  /\ \A q \in DOMAIN table : table[q] \in Records
         /\ \A q \in DOMAIN known \cap DOMAIN table : KeepsEndpoint(known[q], table[q])
<1>1. \A q \in DOMAIN known : known[q] \in Records /\ KeepsEndpoint(known[q], known[q])
  BY SameKeeps DEF KnownInv
<1>2. CASE p \in DOMAIN known
  <2>1. PICK m \in Merged(known[p], r) : table = With(known, p, m)
    BY <1>2 DEF KnownInsert
  <2>2. m \in Records /\ KeepsEndpoint(known[p], m)
    BY <1>1, <1>2, MergeKeeps
  <2>3. DOMAIN table = DOMAIN known /\ \A q \in DOMAIN table : table[q] = IF q = p THEN m ELSE known[q]
    BY <2>1, <1>2 DEF With
  <2> QED
    BY <1>1, <2>2, <2>3
<1>3. CASE p \notin DOMAIN known
  <2>1. PICK t : /\ DOMAIN t \subseteq DOMAIN known
                 /\ \A q \in DOMAIN t : t[q] = known[q]
                 /\ table = With(t, p, r)
    <3>1. CASE Cardinality(DOMAIN known) >= MaxKnown
      <4>1. PICK t \in Evicted(known) : table = With(t, p, r)
        BY <1>3, <3>1 DEF KnownInsert
      <4>2. PICK q \in DOMAIN known : t = Restrict(known, DOMAIN known \ {q})
        BY <4>1 DEF Evicted
      <4>3. DOMAIN t = DOMAIN known \ {q} /\ \A o \in DOMAIN known \ {q} : t[o] = known[o]
        BY <4>2 DEF Restrict
      <4> QED
        BY <4>1, <4>3
    <3>2. CASE ~(Cardinality(DOMAIN known) >= MaxKnown)
      BY <1>3, <3>2 DEF KnownInsert
    <3> QED
      BY <3>1, <3>2
  <2>2. /\ DOMAIN table \subseteq DOMAIN known \union {p}
        /\ \A q \in DOMAIN table : table[q] = IF q = p THEN r ELSE known[q]
    BY <2>1 DEF With
  <2> QED
    BY <1>1, <1>3, <2>2
<1> QED
  BY <1>2, <1>3

LEMMA DiscoveryKeeps ==
  ASSUME KnownInv, [DiscoveryNext]_discoveryVars
  PROVE  KnownInv' /\ \A p \in DOMAIN known \cap DOMAIN known' : KeepsEndpoint(known[p], known'[p])
<1> DEFINE Goal == KnownInv' /\ \A p \in DOMAIN known \cap DOMAIN known' : KeepsEndpoint(known[p], known'[p])
<1>1. \A q \in DOMAIN known : known[q] \in Records /\ KeepsEndpoint(known[q], known[q])
  BY SameKeeps DEF KnownInv
<1>2. ASSUME known' = known PROVE Goal
  BY <1>1, <1>2 DEF KnownInv
<1>3. ASSUME NEW p, NEW r \in Records, Inserts(p, r) PROVE Goal
  <2>1. known' \in KnownInsert(known, p, r)
    BY <1>3 DEF Inserts
  <2> QED
    BY <2>1, InsertKeeps DEF KnownInv
<1>4. \A r \in Advertised : r \in Records
  BY AdvertisedAssumption
<1>5. ASSUME NEW p \in Remotes, NEW a \in PeerAddresses, Meet(p, a) PROVE Goal
  <2> DEFINE one == {a}
  <2>1. one \in SUBSET PeerAddresses /\ one # {} /\ Cardinality(one) = 1 /\ Cardinality(one) + 0 <= MaxAddresses
    BY FS_Singleton, DiscoveryAssumption
  <2>2. Record({a}, 0, Now) \in Records
    <3> HIDE DEF one
    <3>1. Record(one, 0, Now) \in Records
      BY <2>1, DiscoveryAssumption, IsRecord
    <3> QED
      BY <3>1 DEF one
  <2> QED
    BY <1>3, <1>5, <2>2 DEF Meet
<1>6. ASSUME NEW p \in Remotes, Leave(p) PROVE Goal
  <2>1. CASE known' = known
    BY <1>2, <2>1
  <2>2. CASE p \in DOMAIN known /\ known' = [known EXCEPT ![p].seen = Now]
    <3>1. /\ DOMAIN known' = DOMAIN known
          /\ \A q \in DOMAIN known : known'[q] = IF q = p THEN [known[p] EXCEPT !.seen = Now] ELSE known[q]
      BY <2>2
    <3> DEFINE new == [known[p] EXCEPT !.seen = Now]
    <3>0. known[p] \in Records
      BY <1>1, <2>2
    <3>01. /\ known[p] = Record(known[p].addresses, known[p].repeats, known[p].seen)
           /\ known[p].addresses \in SUBSET PeerAddresses /\ known[p].repeats \in Nat
           /\ ListLength(known[p]) <= MaxAddresses /\ (known[p].addresses = {} => known[p].repeats = 0)
      BY <3>0, RecordFacts
    <3>02. new = Record(known[p].addresses, known[p].repeats, Now)
      BY <3>01 DEF Record
    <3>2. new \in Records /\ new.addresses = known[p].addresses /\ new.seen = Now
      <4>1. Record(known[p].addresses, known[p].repeats, Now) \in Records
        BY <3>01, DiscoveryAssumption, IsRecord DEF ListLength
      <4> QED
        BY <3>02, <4>1 DEF Record
    <3>3. KeepsEndpoint(known[p], new)
      BY <3>2 DEF KeepsEndpoint
    <3> HIDE DEF new
    <3>4. \A q \in DOMAIN known : known'[q] = IF q = p THEN new ELSE known[q]
      BY <3>1 DEF new
    <3> QED
      BY <1>1, <3>1, <3>2, <3>3, <3>4 DEF KnownInv
  <2> QED
    BY <1>6, <2>1, <2>2 DEF Leave
<1>7. ASSUME NEW p \in Remotes, NEW r \in Advertised, Hear(p, r) PROVE Goal
  BY <1>3, <1>4, <1>7 DEF Hear
<1>8. ASSUME NEW p \in Remotes, NEW q \in Remotes, NEW r \in Advertised, LookupAnswer(p, q, r) PROVE Goal
  BY <1>3, <1>4, <1>8 DEF LookupAnswer
<1>9. CASE LookupBegins \/ LookupRound \/ LookupRoundEnds \/ (\E p \in Remotes : LookupFails(p))
  BY <1>2, <1>9 DEF LookupBegins, LookupRound, LookupRoundEnds, LookupFails
<1>10. CASE UNCHANGED discoveryVars
  BY <1>2, <1>10 DEF discoveryVars
<1> QED
  BY <1>5, <1>6, <1>7, <1>8, <1>9, <1>10 DEF DiscoveryNext, LookupStep

\* While a peer stays in the table, no advertisement takes an address from it
\* unless the list is full of newer ones or of repeats, and its time never goes back behind
\* this node's clock (insert_peer_bounded), for any sizes of tables and lists.
THEOREM EndpointTheorem == PartsSpec => EndpointKept
<1>1. PartsInit => KnownInv
  BY PartsStart DEF DiscoveryInit, KnownInv
<1>2. KnownInv /\ [PartsNext]_partsVars => KnownInv'
  BY PartsStep, DiscoveryKeeps
<1> DEFINE Step ==
      \A p \in DOMAIN known \intersect DOMAIN known' :
        /\ \/ known[p].addresses \subseteq known'[p].addresses
           \/ ListLength(known'[p]) = MaxAddresses
        /\ known'[p].seen >= known[p].seen \/ known'[p].seen = Now
<1>3. KnownInv /\ [PartsNext]_partsVars => [Step]_discoveryVars
  BY PartsStep, DiscoveryKeeps DEF KeepsEndpoint
<1> QED
  BY <1>1, <1>2, <1>3, PTL DEF PartsSpec, EndpointKept

-----------------------------------------------------------------------------
(* The supervisor *)

\* f doubles from 1 up to n.
Doubles(f, n) ==
  /\ f \in [0..n -> Nat \ {0}]
  /\ f[0] = 1
  /\ \A i \in 1..n : f[i] = 2 * f[i - 1]

\* v is what the doubling reaches at n.
Reaches(n, v) == \E f : Doubles(f, n) /\ f[n] = v

LEMMA ReachesZero == \A v : Reaches(0, v) <=> v = 1
<1>1. ASSUME NEW v, Reaches(0, v) PROVE v = 1
  BY <1>1 DEF Reaches, Doubles
<1>2. Reaches(0, 1)
  <2> DEFINE f == [i \in 0..0 |-> 1]
  <2>1. Doubles(f, 0) /\ f[0] = 1
    BY DEF Doubles
  <2> HIDE DEF f
  <2> QED
    BY <2>1 DEF Reaches
<1> QED
  BY <1>1, <1>2

LEMMA ReachesNext ==
  ASSUME NEW n \in Nat
  PROVE  \A w : Reaches(n + 1, w) <=> \E v \in Nat \ {0} : Reaches(n, v) /\ w = 2 * v
<1>1. ASSUME NEW w, Reaches(n + 1, w)
      PROVE  \E v \in Nat \ {0} : Reaches(n, v) /\ w = 2 * v
  <2>1. PICK f : Doubles(f, n + 1) /\ f[n + 1] = w
    BY <1>1 DEF Reaches
  <2> DEFINE g == [i \in 0..n |-> f[i]]
  <2>2. Doubles(g, n)
    <3>1. g \in [0..n -> Nat \ {0}] /\ g[0] = 1
      BY <2>1 DEF Doubles
    <3>2. ASSUME NEW i \in 1..n PROVE g[i] = 2 * g[i - 1]
      <4>1. i \in 0..n /\ i - 1 \in 0..n /\ i \in 1..(n + 1)
        OBVIOUS
      <4>2. f[i] = 2 * f[i - 1]
        BY <2>1, <4>1 DEF Doubles
      <4> QED
        BY <4>1, <4>2
    <3> HIDE DEF g
    <3> QED
      BY <3>1, <3>2 DEF Doubles
  <2>3. g[n] = f[n] /\ f[n] \in Nat \ {0} /\ w = 2 * f[n]
    <3>1. n \in 0..n /\ n \in 0..(n + 1) /\ n + 1 \in 1..(n + 1) /\ (n + 1) - 1 = n
      OBVIOUS
    <3> QED
      BY <2>1, <3>1 DEF Doubles
  <2> HIDE DEF g
  <2> QED
    BY <2>2, <2>3 DEF Reaches
<1>2. ASSUME NEW v \in Nat \ {0}, Reaches(n, v) PROVE Reaches(n + 1, 2 * v)
  <2>1. PICK f : Doubles(f, n) /\ f[n] = v
    BY <1>2 DEF Reaches
  <2> DEFINE g == [i \in 0..(n + 1) |-> IF i = n + 1 THEN 2 * v ELSE f[i]]
  <2>2. Doubles(g, n + 1) /\ g[n + 1] = 2 * v
    <3>1. g \in [0..(n + 1) -> Nat \ {0}] /\ g[0] = 1 /\ g[n + 1] = 2 * v
      BY <2>1 DEF Doubles
    <3>2. ASSUME NEW i \in 1..(n + 1) PROVE g[i] = 2 * g[i - 1]
      <4>1. CASE i = n + 1
        BY <2>1, <4>1
      <4>2. CASE i # n + 1
        <5>1. i \in 1..n /\ i - 1 \in 0..n /\ i - 1 # n + 1 /\ i \in 0..(n + 1) /\ i - 1 \in 0..(n + 1)
          BY <4>2
        <5>2. g[i] = f[i] /\ g[i - 1] = f[i - 1]
          BY <4>2, <5>1
        <5> QED
          BY <2>1, <5>1, <5>2 DEF Doubles
      <4> QED
        BY <4>1, <4>2
    <3> HIDE DEF g
    <3> QED
      BY <3>1, <3>2 DEF Doubles
  <2> HIDE DEF g
  <2> QED
    BY <2>2 DEF Reaches
<1> QED
  BY <1>1, <1>2

\* The doubling reaches one number, not zero, at every n.
LEMMA ReachesOne ==
  ASSUME NEW n \in Nat
  PROVE  \E v \in Nat \ {0} : \A w : Reaches(n, w) <=> w = v
<1> DEFINE One(k) == \E v \in Nat \ {0} : \A w : Reaches(k, w) <=> w = v
           S == {k \in Nat : One(k)}
<1>1. One(0)
  BY ReachesZero
<1>2. ASSUME NEW k \in Nat, One(k) PROVE One(k + 1)
  <2>1. PICK v \in Nat \ {0} : \A w : Reaches(k, w) <=> w = v
    BY <1>2
  <2>2. \A w : Reaches(k + 1, w) <=> w = 2 * v
    BY <2>1, ReachesNext
  <2>3. 2 * v \in Nat \ {0}
    OBVIOUS
  <2> QED
    BY <2>2, <2>3
<1> HIDE DEF One
<1>3. 0 \in S /\ \A k \in S : k + 1 \in S
  BY <1>1, <1>2
<1>4. S \in SUBSET Nat
  OBVIOUS
<1> HIDE DEF S
<1>5. S = Nat
  BY <1>3, <1>4, NatSetInduction
<1> QED
  BY <1>5 DEF S, One

\* The recursive definition of 1u64 << k has a solution.
LEMMA PowerOfTwoFacts ==
  /\ PowerOfTwo[0] = 1
  /\ \A k \in Nat : PowerOfTwo[k] \in Nat \ {0} /\ PowerOfTwo[k + 1] = 2 * PowerOfTwo[k]
<1> DEFINE h == [k \in Nat |-> CHOOSE v \in Nat \ {0} : \A w : Reaches(k, w) <=> w = v]
           Eq(g) == g = [k \in Nat |-> IF k = 0 THEN 1 ELSE 2 * g[k - 1]]
<1>1. ASSUME NEW k \in Nat PROVE h[k] \in Nat \ {0} /\ \A w : Reaches(k, w) <=> w = h[k]
  <2>1. \E v \in Nat \ {0} : \A w : Reaches(k, w) <=> w = v
    BY ReachesOne
  <2> QED
    BY <2>1, Zenon
<1>2. h = [k \in Nat |-> h[k]]
  OBVIOUS
<1> HIDE DEF h
<1>3. h[0] = 1
  BY <1>1, ReachesZero
<1>4. ASSUME NEW k \in Nat PROVE h[k + 1] = 2 * h[k]
  <2>1. Reaches(k + 1, h[k + 1]) /\ h[k] \in Nat \ {0} /\ \A w : Reaches(k, w) <=> w = h[k]
    BY <1>1
  <2>2. PICK v \in Nat \ {0} : Reaches(k, v) /\ h[k + 1] = 2 * v
    BY <2>1, ReachesNext
  <2> QED
    BY <2>1, <2>2
<1>5. ASSUME NEW k \in Nat PROVE h[k] = IF k = 0 THEN 1 ELSE 2 * h[k - 1]
  <2>1. CASE k = 0
    BY <1>3, <2>1
  <2>2. CASE k # 0
    <3>1. k - 1 \in Nat /\ (k - 1) + 1 = k
      BY <2>2
    <3>2. h[(k - 1) + 1] = 2 * h[k - 1]
      BY <1>4, <3>1
    <3> QED
      BY <2>2, <3>1, <3>2
  <2> QED
    BY <2>1, <2>2
<1>6. Eq(h)
  BY <1>2, <1>5
<1>7. Eq(PowerOfTwo)
  <2>1. PowerOfTwo = CHOOSE g : Eq(g)
    BY Zenon DEF PowerOfTwo
  <2> HIDE DEF Eq
  <2> QED
    BY <1>6, <2>1, Zenon
<1>8. \A k \in Nat : PowerOfTwo[k] = IF k = 0 THEN 1 ELSE 2 * PowerOfTwo[k - 1]
  BY <1>7, Zenon
<1>9. PowerOfTwo[0] = 1
  BY <1>8
<1>10. ASSUME NEW k \in Nat PROVE PowerOfTwo[k + 1] = 2 * PowerOfTwo[k]
  <2>1. k + 1 \in Nat /\ k + 1 # 0 /\ (k + 1) - 1 = k
    OBVIOUS
  <2> QED
    BY <1>8, <2>1
<1> DEFINE S == {k \in Nat : PowerOfTwo[k] \in Nat \ {0}}
<1>11. S \in SUBSET Nat /\ 0 \in S /\ \A k \in S : k + 1 \in S
  <2>1. ASSUME NEW k \in S PROVE k + 1 \in S
    BY <1>10
  <2> QED
    BY <1>9, <2>1
<1>12. S = Nat
  <2> HIDE DEF S
  <2> QED
    BY <1>11, NatSetInduction
<1> QED
  BY <1>9, <1>10, <1>12

\* A longer shift gives no less.
LEMMA PowerOfTwoGrows ==
  ASSUME NEW a \in Nat, NEW b \in Nat, a <= b
  PROVE  PowerOfTwo[a] <= PowerOfTwo[b]
<1> DEFINE S == {d \in Nat : PowerOfTwo[a] <= PowerOfTwo[a + d]}
<1>0. \A k \in Nat : PowerOfTwo[k] \in Nat
  BY PowerOfTwoFacts
<1>1. 0 \in S
  BY <1>0
<1>2. ASSUME NEW d \in S PROVE d + 1 \in S
  <2>1. d \in Nat /\ a + d \in Nat /\ (a + d) + 1 = a + (d + 1)
    OBVIOUS
  <2>2. PowerOfTwo[a + (d + 1)] = 2 * PowerOfTwo[a + d]
    BY <2>1, PowerOfTwoFacts
  <2>3. PowerOfTwo[a] <= PowerOfTwo[a + d]
    OBVIOUS
  <2>4. PowerOfTwo[a] <= PowerOfTwo[a + (d + 1)]
    BY <1>0, <2>1, <2>2, <2>3
  <2> QED
    BY <2>1, <2>4
<1>3. S = Nat
  <2>1. S \in SUBSET Nat
    OBVIOUS
  <2> HIDE DEF S
  <2> QED
    BY <1>1, <1>2, <2>1, NatSetInduction
<1>4. b - a \in Nat /\ a + (b - a) = b
  OBVIOUS
<1> QED
  BY <1>3, <1>4

LEMMA MinOfThree ==
  ASSUME NEW a \in Int, NEW b \in Int, NEW c \in Int
  PROVE  Min({a, b, c}) = Min({a, Min({b, c})})
<1>1. Min({b, c}) \in Int /\ Min({b, c}) = IF b <= c THEN b ELSE c
  BY MaxMinOfTwo
<1>2. Min({a, Min({b, c})}) = IF a <= Min({b, c}) THEN a ELSE Min({b, c})
  BY <1>1, MaxMinOfTwo
<1>3. \E m \in {a, b, c} : \A x \in {a, b, c} : m <= x
  OBVIOUS
<1>4. Min({a, b, c}) \in {a, b, c} /\ \A x \in {a, b, c} : Min({a, b, c}) <= x
  BY <1>3 DEF Min
<1> QED
  BY <1>1, <1>2, <1>4

\* The steps at which the shift stops.
ShiftCap == Min({Max({AttemptsCap, 1}), 20})

LEMMA BackoffNumbers ==
  /\ FirstBackoff \in Nat /\ LastBackoff \in Nat /\ ShiftCap \in Nat /\ MaxWord \in Nat
  /\ MaxWord >= LastBackoff
  /\ FirstBackoff * PowerOfTwo[ShiftCap] >= LastBackoff
<1>1. {InitialBackoff, MaxBackoff, AttemptsCap, MaxWord} \subseteq Nat
  BY SupervisorAssumption
<1>2. FirstBackoff \in Nat
  BY <1>1, MaxMinOfTwo DEF FirstBackoff
<1>3. LastBackoff \in Nat
  BY <1>1, <1>2, MaxMinOfTwo DEF LastBackoff
<1>4. ShiftCap \in Nat
  <2>1. Max({AttemptsCap, 1}) \in Nat
    BY <1>1, MaxMinOfTwo
  <2> DEFINE m == Max({AttemptsCap, 1})
  <2>2. m \in Int /\ 20 \in Int
    BY <2>1
  <2> HIDE DEF m
  <2>3. Min({m, 20}) = IF m <= 20 THEN m ELSE 20
    BY <2>2, MaxMinOfTwo, Zenon
  <2> QED
    BY <2>1, <2>3 DEF ShiftCap, m
<1> QED
  BY <1>1, <1>2, <1>3, <1>4, SupervisorAssumption DEF ShiftCap

LEMMA LargerFactor ==
  ASSUME NEW a \in Nat, NEW b \in Nat, NEW c \in Nat, b <= c
  PROVE  a * b \in Nat /\ a * c \in Nat /\ a * b <= a * c
OBVIOUS

\* The clamps of the shift and of the product do not show: the delay after k
\* failures is the first one doubled, up to the last one.
LEMMA BackoffIs ==
  ASSUME NEW k \in Nat
  PROVE  Backoff(k) = Min({LastBackoff, FirstBackoff * PowerOfTwo[Max({k - 1, 0})]})
<1> DEFINE n == Max({k - 1, 0})
           F == FirstBackoff
           L == LastBackoff
           c == ShiftCap
<1>1. n \in Nat
  BY MaxMinOfTwo
<1>2. F \in Nat /\ L \in Nat /\ c \in Nat /\ MaxWord \in Nat /\ MaxWord >= L /\ F * PowerOfTwo[c] >= L
  BY BackoffNumbers
<1>3. Shift(k) = Min({n, c})
  <2>1. Max({AttemptsCap, 1}) \in Int
    BY SupervisorAssumption, MaxMinOfTwo
  <2> DEFINE m == Max({AttemptsCap, 1})
  <2>2. m \in Int /\ n \in Int /\ 20 \in Int
    BY <1>1, <2>1
  <2> HIDE DEF n, m
  <2>3. Min({n, m, 20}) = Min({n, Min({m, 20})})
    BY <2>2, MinOfThree, ZenonT(60)
  <2> QED
    BY <2>3 DEF Shift, n, m, ShiftCap
<1>4. Backoff(k) = Min({L, Min({MaxWord, F * PowerOfTwo[Shift(k)]})})
  BY DEF Backoff
<1> HIDE DEF n, F, L, c
<1>5. PowerOfTwo[n] \in Nat /\ PowerOfTwo[c] \in Nat
  BY <1>1, <1>2, PowerOfTwoFacts
<1>6. F * PowerOfTwo[n] \in Nat /\ F * PowerOfTwo[c] \in Nat
  BY <1>2, <1>5, LargerFactor
<1> DEFINE Smaller(a, b) == IF a <= b THEN a ELSE b
<1>7. \A a, b \in Nat : Min({a, b}) = Smaller(a, b) /\ Smaller(a, b) \in Nat
  <2> SUFFICES ASSUME NEW a \in Nat, NEW b \in Nat PROVE Min({a, b}) = Smaller(a, b) /\ Smaller(a, b) \in Nat
    OBVIOUS
  <2>1. a \in Int /\ b \in Int
    OBVIOUS
  <2>2. Min({a, b}) = Smaller(a, b)
    BY <2>1, MaxMinOfTwo, Zenon
  <2> QED
    BY <2>2
<1>8. CASE n <= c
  <2>1. Shift(k) = n
    <3>1. Min({n, c}) = Smaller(n, c)
      BY <1>1, <1>2, <1>7, Zenon
    <3> QED
      BY <1>3, <1>8, <3>1
  <2> DEFINE x == F * PowerOfTwo[n]
  <2>2. x \in Nat /\ Backoff(k) = Min({L, Min({MaxWord, x})})
    BY <1>4, <1>6, <2>1
  <2> HIDE DEF x
  <2>3. Backoff(k) = Smaller(L, Smaller(MaxWord, x)) /\ Min({L, x}) = Smaller(L, x)
    BY <1>2, <1>7, <2>2, Zenon
  <2>4. Backoff(k) = Min({L, x})
    BY <1>2, <2>2, <2>3
  <2> QED
    BY <2>4 DEF x, L, F, n
<1>9. CASE n > c
  <2>1. Shift(k) = c
    <3>1. Min({n, c}) = Smaller(n, c)
      BY <1>1, <1>2, <1>7, Zenon
    <3> QED
      BY <1>1, <1>2, <1>3, <1>9, <3>1
  <2>2. PowerOfTwo[c] <= PowerOfTwo[n]
    BY <1>1, <1>2, <1>9, PowerOfTwoGrows
  <2>3. F * PowerOfTwo[c] <= F * PowerOfTwo[n]
    BY <1>2, <1>5, <2>2, LargerFactor
  <2> DEFINE x == F * PowerOfTwo[c]
             y == F * PowerOfTwo[n]
  <2>4. x \in Nat /\ y \in Nat /\ L <= x /\ x <= y /\ Backoff(k) = Min({L, Min({MaxWord, x})})
    BY <1>2, <1>4, <1>6, <2>1, <2>3
  <2> HIDE DEF x, y
  <2>5. Backoff(k) = Smaller(L, Smaller(MaxWord, x)) /\ Min({L, y}) = Smaller(L, y)
    BY <1>2, <1>7, <2>4, Zenon
  <2>6. Backoff(k) = L /\ Min({L, y}) = L
    BY <1>2, <2>4, <2>5
  <2> QED
    BY <2>6 DEF y, L, F, n
<1> QED
  BY <1>1, <1>2, <1>8, <1>9

-----------------------------------------------------------------------------
OpenSessions == {e \in Endpoints : link[e].pc = "session"}

\* The inductive invariant: the task counts the failures of the streak, sleeps for
\* what that number gives, and has none while its session is open.
SupervisorInv ==
  /\ DOMAIN link = Endpoints /\ streak \in [Endpoints -> Nat]
  /\ \A e \in Endpoints :
       /\ DOMAIN link[e] = {"pc", "failures", "delay"}
       /\ link[e].failures = streak[e]
       /\ link[e].pc = "session" => streak[e] = 0
       /\ link[e].pc = "sleeping" => link[e].delay = Backoff(streak[e])
  /\ DOMAIN counters = {"attempts", "sessions", "reconnects", "lost"}
  /\ counters.sessions \in Nat /\ counters.lost \in Nat
  /\ counters.sessions - counters.lost = Cardinality(OpenSessions)

LEMMA SessionSets ==
  /\ IsFiniteSet(OpenSessions) /\ Cardinality(OpenSessions) \in Nat
  /\ \A e \in Endpoints :
       /\ e \notin OpenSessions => Cardinality(OpenSessions \cup {e}) = Cardinality(OpenSessions) + 1
       /\ e \in OpenSessions => Cardinality(OpenSessions \ {e}) = Cardinality(OpenSessions) - 1
<1>1. IsFiniteSet(OpenSessions)
  BY SupervisorAssumption, FS_Subset DEF OpenSessions
<1> QED
  BY <1>1, FS_CardinalityType, FS_AddElement, FS_RemoveElement

LEMMA SupervisorStep == SupervisorInv /\ [SupervisorNext]_supervisorVars => SupervisorInv'
<1> SUFFICES ASSUME SupervisorInv, [SupervisorNext]_supervisorVars PROVE SupervisorInv'
  OBVIOUS
<1>0. /\ DOMAIN link = Endpoints /\ streak \in [Endpoints -> Nat]
      /\ DOMAIN counters = {"attempts", "sessions", "reconnects", "lost"}
      /\ counters.sessions \in Nat /\ counters.lost \in Nat
      /\ counters.sessions - counters.lost = Cardinality(OpenSessions)
      /\ Cardinality(OpenSessions) \in Nat
  BY SessionSets DEF SupervisorInv
<1>1. ASSUME NEW e \in Endpoints, Connected(e) PROVE SupervisorInv'
  <2>1. OpenSessions' = OpenSessions \cup {e} /\ e \notin OpenSessions
    BY <1>0, <1>1 DEF Connected, OpenSessions
  <2>2. Cardinality(OpenSessions') = Cardinality(OpenSessions) + 1
    BY <2>1, SessionSets
  <2>3. /\ DOMAIN counters' = DOMAIN counters /\ counters'.sessions = counters.sessions + 1
        /\ counters'.lost = counters.lost
    BY <1>0, <1>1 DEF Connected
  <2>4. counters'.sessions - counters'.lost = Cardinality(OpenSessions')
    BY <1>0, <2>2, <2>3
  <2> QED
    BY <1>0, <1>1, <2>3, <2>4 DEF Connected, SupervisorInv
<1>2. ASSUME NEW e \in Endpoints, ConnectFails(e) PROVE SupervisorInv'
  <2>1. OpenSessions' = OpenSessions
    BY <1>0, <1>2 DEF ConnectFails, Sleeps, OpenSessions
  <2>2. /\ DOMAIN counters' = DOMAIN counters /\ counters'.sessions = counters.sessions
        /\ counters'.lost = counters.lost
    BY <1>0, <1>2 DEF ConnectFails
  <2>3. link[e].failures = streak[e]
    BY DEF SupervisorInv
  <2> QED
    BY <1>0, <1>2, <2>1, <2>2, <2>3 DEF ConnectFails, Sleeps, SupervisorInv
<1>3. ASSUME NEW e \in Endpoints, PingFails(e) PROVE SupervisorInv'
  <2>1. OpenSessions' = OpenSessions \ {e} /\ e \in OpenSessions
    BY <1>0, <1>3 DEF PingFails, Sleeps, OpenSessions
  <2>2. Cardinality(OpenSessions') = Cardinality(OpenSessions) - 1
    BY <2>1, SessionSets
  <2>3. /\ DOMAIN counters' = DOMAIN counters /\ counters'.sessions = counters.sessions
        /\ counters'.lost = counters.lost + 1
    BY <1>0, <1>3 DEF PingFails
  <2>4. counters'.sessions - counters'.lost = Cardinality(OpenSessions')
    BY <1>0, <2>2, <2>3
  <2>5. link[e].failures = streak[e]
    BY DEF SupervisorInv
  <2> QED
    BY <1>0, <1>3, <2>3, <2>4, <2>5 DEF PingFails, Sleeps, SupervisorInv
<1>4. ASSUME NEW e \in Endpoints, Wake(e) PROVE SupervisorInv'
  <2>1. OpenSessions' = OpenSessions
    BY <1>0, <1>4 DEF Wake, OpenSessions, SupervisorInv
  <2>2. /\ DOMAIN counters' = DOMAIN counters /\ counters'.sessions = counters.sessions
        /\ counters'.lost = counters.lost
    BY <1>0, <1>4 DEF Wake
  <2> QED
    BY <1>0, <1>4, <2>1, <2>2 DEF Wake, SupervisorInv
<1>5. CASE UNCHANGED supervisorVars
  BY <1>5 DEF supervisorVars, SupervisorInv, OpenSessions
<1> QED
  BY <1>1, <1>2, <1>3, <1>4, <1>5 DEF SupervisorNext

\* The delays of every supervised endpoint double up to the last one, for any
\* number of endpoints and failures, and the shared counters account for every
\* open session, however the tasks interleave.
THEOREM DelaysDouble == PartsSpec => []BackoffDoubles
<1>1. PartsInit => SupervisorInv
  <2> SUFFICES ASSUME SupervisorInit PROVE SupervisorInv
    BY PartsStart
  <2>1. OpenSessions = {}
    BY DEF OpenSessions, SupervisorInit
  <2>2. Cardinality(OpenSessions) = 0
    BY <2>1, FS_EmptySet
  <2> QED
    BY <2>2 DEF SupervisorInit, SupervisorInv
<1>2. SupervisorInv /\ [PartsNext]_partsVars => SupervisorInv'
  BY SupervisorStep, PartsStep
<1>3. SupervisorInv => BackoffDoubles
  <2> SUFFICES ASSUME SupervisorInv PROVE BackoffDoubles
    OBVIOUS
  <2>1. ASSUME NEW e \in Endpoints, link[e].pc = "sleeping"
        PROVE  link[e].delay = Min({LastBackoff, FirstBackoff * PowerOfTwo[Max({streak[e] - 1, 0})]})
    <3>1. link[e].delay = Backoff(streak[e]) /\ streak[e] \in Nat
      BY <2>1 DEF SupervisorInv
    <3> QED
      BY <3>1, BackoffIs
  <2> QED
    BY <2>1 DEF SupervisorInv, BackoffDoubles, OpenSessions
<1> QED
  BY <1>1, <1>2, <1>3, PTL DEF PartsSpec

-----------------------------------------------------------------------------
(* Tiers *)

LEMMA Ranks ==
  /\ Rank("Free") = 1 /\ Rank("Basic") = 2 /\ Rank("NetPlus") = 3 /\ Rank("NetPro") = 4
  /\ Rank("NetUltra") = 5 /\ Rank("Pro") = 6 /\ Rank("DataGroup") = 7 /\ Rank("CentreGroup") = 8
<1>1. DOMAIN UserTier = 1..8
  BY DEF UserTier
<1>2. ASSUME NEW k \in 1..8 PROVE Rank(UserTier[k]) = k
  <2>1. \A i \in 1..8 : UserTier[i] = UserTier[k] => i = k
    BY DEF UserTier
  <2> QED
    BY <1>1, <2>1 DEF Rank
<1> QED
  BY <1>2 DEF UserTier

\* The rank of a contribution, as a number.
LEMMA TierRank ==
  ASSUME NEW r
  PROVE  Rank(ClassifyTier(r)) =
           IF r.servers >= 4 THEN 8
           ELSE IF r.servers >= 3 THEN 7
           ELSE IF r.servers >= 2 THEN 6
           ELSE IF r.nodes >= 1 \/ r.servers >= 1 THEN 5
           ELSE IF Equipped(r, 2) /\ r.gpu >= 1 THEN 4
           ELSE IF Equipped(r, 1) /\ r.bandwidth >= 1 THEN 3
           ELSE IF r.any >= 1 THEN 2
           ELSE 1
BY Ranks DEF ClassifyTier

ContributionRecords ==
  [storage : 0..2, cores : 0..2, ram : 0..2, gpu : 0..1, bandwidth : 0..1,
   nodes : 0..1, servers : 0..4, any : 0..1]

\* One threshold more of one resource.
LEMMA MoreRanksNoLower ==
  ASSUME NEW r \in Contributions, NEW f \in DOMAIN r, [r EXCEPT ![f] = @ + 1] \in Contributions
  PROVE  /\ Rank(ClassifyTier(r)) \in 1..8
         /\ Rank(ClassifyTier(r)) <= Rank(ClassifyTier([r EXCEPT ![f] = @ + 1]))
<1> DEFINE more == [r EXCEPT ![f] = @ + 1]
<1>1. r \in ContributionRecords /\ more \in ContributionRecords
  BY DEF Contributions, ContributionRecords
<1>2. f \in {"storage", "cores", "ram", "gpu", "bandwidth", "nodes", "servers", "any"}
  BY <1>1 DEF ContributionRecords
<1>3. /\ r.storage \in Nat /\ r.cores \in Nat /\ r.ram \in Nat /\ r.gpu \in Nat
      /\ r.bandwidth \in Nat /\ r.nodes \in Nat /\ r.servers \in Nat /\ r.any \in Nat
  BY <1>1 DEF ContributionRecords
<1>4. /\ more.storage \in Nat /\ more.cores \in Nat /\ more.ram \in Nat /\ more.gpu \in Nat
      /\ more.bandwidth \in Nat /\ more.nodes \in Nat /\ more.servers \in Nat /\ more.any \in Nat
  <2> HIDE DEF more
  <2> QED
    BY <1>1 DEF ContributionRecords
<1>5. /\ r.storage <= more.storage /\ r.cores <= more.cores /\ r.ram <= more.ram
      /\ r.gpu <= more.gpu /\ r.bandwidth <= more.bandwidth /\ r.nodes <= more.nodes
      /\ r.servers <= more.servers /\ r.any <= more.any
  BY <1>1, <1>2, <1>3 DEF ContributionRecords
<1> HIDE DEF more
<1>6. Equipped(r, 2) => Equipped(more, 2)
  BY <1>3, <1>4, <1>5 DEF Equipped
<1>7. Equipped(r, 1) => Equipped(more, 1)
  BY <1>3, <1>4, <1>5 DEF Equipped
<1>8. Rank(ClassifyTier(r)) <= Rank(ClassifyTier(more))
  <2> DEFINE a == Rank(ClassifyTier(r))
             b == Rank(ClassifyTier(more))
             pro == Equipped(r, 2)
             plus == Equipped(r, 1)
             morePro == Equipped(more, 2)
             morePlus == Equipped(more, 1)
  <2>1. a = IF r.servers >= 4 THEN 8 ELSE IF r.servers >= 3 THEN 7 ELSE IF r.servers >= 2 THEN 6
            ELSE IF r.nodes >= 1 \/ r.servers >= 1 THEN 5
            ELSE IF pro /\ r.gpu >= 1 THEN 4 ELSE IF plus /\ r.bandwidth >= 1 THEN 3
            ELSE IF r.any >= 1 THEN 2 ELSE 1
    BY TierRank
  <2>2. b = IF more.servers >= 4 THEN 8 ELSE IF more.servers >= 3 THEN 7 ELSE IF more.servers >= 2 THEN 6
            ELSE IF more.nodes >= 1 \/ more.servers >= 1 THEN 5
            ELSE IF morePro /\ more.gpu >= 1 THEN 4 ELSE IF morePlus /\ more.bandwidth >= 1 THEN 3
            ELSE IF more.any >= 1 THEN 2 ELSE 1
    BY TierRank
  <2> HIDE DEF a, b
  <2>3. (pro => morePro) /\ (plus => morePlus)
    BY <1>6, <1>7
  <2> HIDE DEF pro, plus, morePro, morePlus
  <2>4. a <= b
    BY <1>3, <1>4, <1>5, <2>1, <2>2, <2>3
  <2> QED
    BY <2>4 DEF a, b
<1>9. Rank(ClassifyTier(r)) \in 1..8
  BY TierRank
<1> QED
  BY <1>8, <1>9 DEF more

\* A higher rank has every right of a lower one.
LEMMA RightsGrow ==
  ASSUME NEW old, NEW new, Rank(old) \in 1..8, Rank(new) \in 1..8, Rank(old) <= Rank(new)
  PROVE  Rights(old) \subseteq Rights(new)
<1> DEFINE T == {<<"vps_24_7", "Basic">>, <<"node_server_management", "NetPlus">>,
                 <<"data_centre_management", "NetUltra">>, <<"data_group_management", "Pro">>,
                 <<"centre_group_management", "CentreGroup">>}
<1>1. \A y \in T : Rank(y[2]) \in 1..8
  BY Ranks
<1>2. \A tier : Rights(tier) = {x[1] : x \in {y \in T : Rank(y[2]) <= Rank(tier)}}
  BY DEF Rights
<1> HIDE DEF T
<1>3. ASSUME NEW y \in T, Rank(y[2]) <= Rank(old) PROVE Rank(y[2]) <= Rank(new)
  BY <1>1, <1>3
<1> QED
  BY <1>2, <1>3

\* What the node may have declared: the contribution it works with, the one in its
\* file and the one a request is about to write.
DeclaredInv ==
  /\ resources \in Contributions
  /\ resourcesFile \in Contributions \union {TornBank}
  /\ DOMAIN posts = PostTasks
  /\ \A t \in PostTasks : \A p \in posts[t] : p.file = "resources" => p.content \in Contributions

LEMMA NothingDeclared == NoResources \in Contributions
<1> DEFINE z == [storage |-> 0, cores |-> 0, ram |-> 0, gpu |-> 0, bandwidth |-> 0, nodes |-> 0,
                 servers |-> 0, any |-> 0]
<1>1. z \in Contributions /\ z.any = 0
  BY DEF Contributions
<1> HIDE DEF z
<1> QED
  BY <1>1 DEF NoResources

LEMMA DeclaredStep == DeclaredInv /\ [BankNext]_bankVars => DeclaredInv'
<1> SUFFICES ASSUME DeclaredInv, [BankNext]_bankVars PROVE DeclaredInv'
  OBVIOUS
<1>1. ASSUME NEW t \in PostTasks, NEW r \in PostedResources, PostContribution(t, r) PROVE DeclaredInv'
  <2>1. r \in Contributions
    BY BankAssumption
  <2> QED
    BY <1>1, <2>1 DEF DeclaredInv, PostContribution, BeginsPost
<1>2. ASSUME NEW t \in PostTasks, NEW o \in Offers, NEW read \in BOOLEAN, PostOffer(t, o, read) PROVE DeclaredInv'
  <2> DEFINE new == Append(IF read THEN Listed(offersFile) ELSE <<>>, o)
  <2>1. /\ posts' = [posts EXCEPT ![t] = {[file |-> "offers", content |-> new, offer |-> {o}, open |-> FALSE]}]
        /\ UNCHANGED <<resources, resourcesFile>>
    BY <1>2 DEF PostOffer, BeginsPost
  <2> HIDE DEF new
  <2> QED
    BY <2>1 DEF DeclaredInv
<1>3. ASSUME NEW t \in PostTasks, NEW p \in posts[t], PostOpens(t, p) PROVE DeclaredInv'
  <2>1. posts' = [posts EXCEPT ![t] = {[p EXCEPT !.open = TRUE]}]
    BY <1>3 DEF PostOpens
  <2>2. [p EXCEPT !.open = TRUE].file = p.file /\ [p EXCEPT !.open = TRUE].content = p.content
    OBVIOUS
  <2>3. \A u \in PostTasks : \A q \in posts'[u] : q.file = "resources" => q.content \in Contributions
    BY <2>1, <2>2 DEF DeclaredInv
  <2> QED
    BY <1>3, <2>1, <2>3 DEF DeclaredInv, PostOpens
<1>4. ASSUME NEW t \in PostTasks, NEW p \in posts[t],
             PostFills(t, p) \/ PostRefused(t, p) \/ PostFails(t, p) PROVE DeclaredInv'
  <2>1. posts' = [posts EXCEPT ![t] = {}] /\ resources' = resources
    BY <1>4 DEF PostFills, PostRefused, PostFails, PostEnds
  <2>2. resourcesFile' \in Contributions \union {TornBank}
    BY <1>4 DEF DeclaredInv, PostFills, PostRefused, PostFails, PostEnds, FileOf, Filled
  <2> QED
    BY <2>1, <2>2 DEF DeclaredInv
<1>5. ASSUME NEW read \in BOOLEAN, BankRestart(read) PROVE DeclaredInv'
  BY <1>5, NothingDeclared DEF DeclaredInv, BankRestart
<1>6. CASE UNCHANGED bankVars
  BY <1>6 DEF DeclaredInv, bankVars
<1> QED
  BY <1>1, <1>2, <1>3, <1>4, <1>5, <1>6 DEF BankNext

\* Whatever was declared, lost to a torn file or restored, more of a resource is
\* never ranked lower and loses no right.
THEOREM TiersMonotone == PartsSpec => []TierMonotone
<1>1. PartsInit => DeclaredInv
  <2> SUFFICES ASSUME BankInit PROVE DeclaredInv
    BY PartsStart
  <2> QED
    BY DEF BankInit, DeclaredInv
<1>2. DeclaredInv /\ [PartsNext]_partsVars => DeclaredInv'
  BY DeclaredStep, PartsStep
<1>3. DeclaredInv => TierMonotone
  <2> SUFFICES ASSUME resources \in Contributions, NEW f \in DOMAIN resources,
                      [resources EXCEPT ![f] = @ + 1] \in Contributions
               PROVE  /\ Rank(ClassifyTier(resources)) <= Rank(ClassifyTier([resources EXCEPT ![f] = @ + 1]))
                      /\ Rights(ClassifyTier(resources))
                           \subseteq Rights(ClassifyTier([resources EXCEPT ![f] = @ + 1]))
    BY Zenon DEF DeclaredInv, TierMonotone
  <2> DEFINE old == ClassifyTier(resources)
             new == ClassifyTier([resources EXCEPT ![f] = @ + 1])
  <2>1. Rank(old) \in 1..8 /\ Rank(old) <= Rank(new)
    BY MoreRanksNoLower
  <2>2. Rank(new) \in 1..8
    BY TierRank
  <2> HIDE DEF old, new
  <2>3. Rights(old) \subseteq Rights(new)
    BY <2>1, <2>2, RightsGrow
  <2> QED
    BY <2>1, <2>3 DEF old, new
<1> QED
  BY <1>1, <1>2, <1>3, PTL DEF PartsSpec

-----------------------------------------------------------------------------
(***************************************************************************)
(* Routes: the search of route(), with its queue and its prev map, finds a *)
(* path of live peers whenever there is one, and none is shorter.  The     *)
(* argument compares it with a search by rounds: f[k] is what k rounds     *)
(* reach.  At each turn there is a round L such that the queue holds nodes *)
(* of f[L] and behind them nodes that only f[L + 1] has, everything in     *)
(* f[L] has an entry in prev, and an entry leads to the round before.      *)
(***************************************************************************)
Rounds == Cardinality(TopologyNodes)

LEMMA RoundsAreMany == Rounds \in Nat
BY TopologyAssumption, FS_CardinalityType DEF Rounds

\* One round of the search.
Wider(S) == S \union UNION {Adjacent(n) : n \in S}

\* The three things that are repeated: a round, a turn of the loop of route(), and
\* a step back along prev.
Turned(what, x) ==
  CASE what.kind = "round" -> Wider(x)
    [] what.kind = "visit" -> Visit(x, what.dst)
    [] what.kind = "back" -> what.prev[x]

Repeats(f, first, what) == f = [k \in 0..Rounds |-> IF k = 0 THEN first ELSE Turned(what, f[k - 1])]

LEMMA RepeatExists ==
  ASSUME NEW first, NEW what
  PROVE  \E f : Repeats(f, first, what)
<1> DEFINE Upto(n) == \E f : f = [k \in 0..n |-> IF k = 0 THEN first ELSE Turned(what, f[k - 1])]
           S == {n \in Nat : Upto(n)}
<1>1. 0 \in S
  <2> DEFINE f == [k \in 0..0 |-> first]
  <2>1. f = [k \in 0..0 |-> IF k = 0 THEN first ELSE Turned(what, f[k - 1])]
    <3>1. \A k \in 0..0 : k = 0
      OBVIOUS
    <3> QED
      BY <3>1
  <2>2. Upto(0)
    <3> HIDE DEF f
    <3> QED
      BY <2>1
  <2> HIDE DEF Upto
  <2> QED
    BY <2>2
<1>2. ASSUME NEW n \in S PROVE n + 1 \in S
  <2>1. n \in Nat /\ n + 1 \in Nat /\ Upto(n)
    <3> HIDE DEF Upto
    <3> QED
      OBVIOUS
  <2>2. PICK f : f = [k \in 0..n |-> IF k = 0 THEN first ELSE Turned(what, f[k - 1])]
    BY <2>1
  <2> DEFINE g == [k \in 0..(n + 1) |-> IF k = n + 1 THEN Turned(what, f[n]) ELSE f[k]]
  <2>3. ASSUME NEW k \in 0..(n + 1) PROVE g[k] = IF k = 0 THEN first ELSE Turned(what, g[k - 1])
    <3>1. CASE k = n + 1
      <4>1. k # 0 /\ k - 1 = n /\ n \in 0..(n + 1) /\ n # n + 1
        BY <2>1, <3>1
      <4>2. g[k] = Turned(what, f[n]) /\ g[n] = f[n]
        BY <3>1, <4>1
      <4> QED
        BY <4>1, <4>2
    <3>2. CASE k # n + 1 /\ k # 0
      <4>1. k \in 0..n /\ k - 1 \in 0..(n + 1) /\ k - 1 # n + 1
        BY <2>1, <3>2
      <4>2. g[k] = f[k] /\ g[k - 1] = f[k - 1] /\ f[k] = Turned(what, f[k - 1])
        BY <2>2, <3>2, <4>1
      <4> QED
        BY <3>2, <4>2
    <3>3. CASE k = 0
      BY <2>1, <2>2, <3>3
    <3> QED
      BY <3>1, <3>2, <3>3
  <2>4. g = [k \in 0..(n + 1) |-> g[k]]
    OBVIOUS
  <2> HIDE DEF g
  <2>5. g = [k \in 0..(n + 1) |-> IF k = 0 THEN first ELSE Turned(what, g[k - 1])]
    BY <2>3, <2>4
  <2>6. Upto(n + 1)
    BY <2>5
  <2> HIDE DEF Upto
  <2> QED
    BY <2>1, <2>6
<1>3. S = Nat
  <2>1. S \in SUBSET Nat
    OBVIOUS
  <2> HIDE DEF S
  <2> QED
    BY <1>1, <1>2, <2>1, NatSetInduction
<1> HIDE DEF Upto
<1>4. Upto(Rounds)
  BY <1>3, RoundsAreMany
<1> QED
  BY <1>4 DEF Upto, Repeats

\* What the rounds have found.
IsSearch(f, src) ==
  /\ DOMAIN f = 0..Rounds
  /\ f[0] = {src}
  /\ \A k \in 1..Rounds : f[k] = Wider(f[k - 1])

LEMMA SearchExists ==
  ASSUME NEW src
  PROVE  \E f : IsSearch(f, src)
<1> DEFINE what == [kind |-> "round"]
<1>1. \A x : Turned(what, x) = Wider(x)
  BY DEF Turned
<1> HIDE DEF what
<1>2. PICK f : Repeats(f, {src}, what)
  BY RepeatExists
<1>3. DOMAIN f = 0..Rounds /\ \A k \in 0..Rounds : f[k] = IF k = 0 THEN {src} ELSE Turned(what, f[k - 1])
  BY <1>2, Zenon DEF Repeats
<1>4. IsSearch(f, src)
  BY <1>1, <1>3, RoundsAreMany DEF IsSearch
<1> QED
  BY <1>4

Start(src) == [queue |-> <<src>>, prev |-> [x \in {src} |-> src]]

\* The turns of the loop.
AreTurns(g, src, dst) ==
  /\ g[0] = Start(src)
  /\ \A k \in 1..Rounds : g[k] = Visit(g[k - 1], dst)

LEMMA TurnsExist ==
  ASSUME NEW src, NEW dst
  PROVE  \E g : AreTurns(g, src, dst) /\ Search(src, dst) = g[Rounds]
<1> DEFINE what == [kind |-> "visit", dst |-> dst]
           Eq(g) == g = [k \in 0..Rounds |-> IF k = 0 THEN Start(src) ELSE Visit(g[k - 1], dst)]
<1>1. \A x : Turned(what, x) = Visit(x, dst)
  BY DEF Turned
<1> HIDE DEF what
<1>2. PICK h : Repeats(h, Start(src), what)
  BY RepeatExists
<1>3. Eq(h)
  BY <1>1, <1>2 DEF Repeats
<1> DEFINE g == CHOOSE x : Eq(x)
<1>4. Search(src, dst) = g[Rounds]
  BY Zenon DEF Search, Rounds, Start
<1>5. Eq(g)
  <2> HIDE DEF Eq
  <2> QED
    BY <1>3, Zenon
<1> HIDE DEF g
<1>6. \A k \in 0..Rounds : g[k] = IF k = 0 THEN Start(src) ELSE Visit(g[k - 1], dst)
  BY <1>5, Zenon
<1>7. AreTurns(g, src, dst)
  BY <1>6, RoundsAreMany DEF AreTurns
<1> QED
  BY <1>4, <1>7

\* Nothing is lost from round to round.
LEMMA SearchGrows ==
  ASSUME NEW src, NEW f, IsSearch(f, src), NEW k \in 0..(Rounds - 1)
  PROVE  f[k] \subseteq f[k + 1] /\ \A n \in f[k] : Adjacent(n) \subseteq f[k + 1]
<1>1. k + 1 \in 1..Rounds /\ (k + 1) - 1 = k
  BY RoundsAreMany
<1>2. f[k + 1] = Wider(f[k])
  BY <1>1 DEF IsSearch
<1> QED
  BY <1>2 DEF Wider

LEMMA SearchMonotone ==
  ASSUME NEW src, NEW f, IsSearch(f, src), NEW i \in 0..Rounds, NEW j \in i..Rounds
  PROVE  f[i] \subseteq f[j]
<1> DEFINE S == {m \in Nat : i + m <= Rounds => f[i] \subseteq f[i + m]}
<1>0. i \in Nat /\ Rounds \in Nat
  BY RoundsAreMany
<1>1. 0 \in S
  BY <1>0
<1>2. ASSUME NEW m \in S PROVE m + 1 \in S
  <2> SUFFICES ASSUME i + (m + 1) <= Rounds PROVE f[i] \subseteq f[i + (m + 1)]
    OBVIOUS
  <2>1. m \in Nat /\ i + m \in 0..(Rounds - 1) /\ (i + m) + 1 = i + (m + 1) /\ f[i] \subseteq f[i + m]
    BY <1>0
  <2>2. f[i + m] \subseteq f[(i + m) + 1]
    BY <2>1, SearchGrows
  <2> QED
    BY <2>1, <2>2
<1>3. S = Nat
  <2>1. S \in SUBSET Nat
    OBVIOUS
  <2> HIDE DEF S
  <2> QED
    BY <1>1, <1>2, <2>1, NatSetInduction
<1>4. j - i \in Nat /\ i + (j - i) = j /\ j <= Rounds
  BY <1>0
<1> QED
  BY <1>3, <1>4

\* A path reaches its i-th node no earlier than the rounds do.
LEMMA PathIsFound ==
  ASSUME NEW src, NEW dst, NEW f, IsSearch(f, src), NEW k \in 1..Rounds, NEW p \in [1..k -> TopologyNodes],
         IsPath(p, src, dst)
  PROVE  dst \in f[k - 1]
<1> DEFINE S == {i \in Nat : i < k => p[i + 1] \in f[i]}
<1>0. k \in Nat /\ k <= Rounds /\ Len(p) = k /\ Rounds \in Nat
  BY RoundsAreMany
<1>1. 0 \in S
  BY DEF IsPath, IsSearch
<1>2. ASSUME NEW i \in S PROVE i + 1 \in S
  <2> SUFFICES ASSUME i + 1 < k PROVE p[(i + 1) + 1] \in f[i + 1]
    OBVIOUS
  <2>1. i \in Nat /\ p[i + 1] \in f[i] /\ i \in 0..(Rounds - 1) /\ i + 1 \in 1..(k - 1)
    BY <1>0
  <2>2. p[(i + 1) + 1] \in Adjacent(p[i + 1])
    BY <1>0, <2>1 DEF IsPath
  <2> QED
    BY <2>1, <2>2, SearchGrows
<1>3. S = Nat
  <2>1. S \in SUBSET Nat
    OBVIOUS
  <2> HIDE DEF S
  <2> QED
    BY <1>1, <1>2, <2>1, NatSetInduction
<1>4. k - 1 \in S
  BY <1>0, <1>3
<1>5. p[k] \in f[k - 1]
  BY <1>0, <1>4
<1> QED
  BY <1>0, <1>5 DEF IsPath

(***************************************************************************)
(* The invariant of the search                                             *)
(***************************************************************************)
Waiting(s) == {s.queue[i] : i \in 1..Len(s.queue)}

\* The queue holds each node once: m of f[L], and behind them later ones.
QueueOK(s, f, L, m) ==
  /\ s.queue \in Seq(TopologyNodes) /\ m \in 0..Len(s.queue)
  /\ \A i \in 1..m : s.queue[i] \in f[L]
  /\ \A i \in (m + 1)..Len(s.queue) : s.queue[i] \notin f[L]
  /\ \A i, j \in 1..Len(s.queue) : s.queue[i] = s.queue[j] => i = j

\* An entry leads to the round before the one that found its node.
LeadsBack(s, f, L, y) ==
  /\ s.prev[y] \in DOMAIN s.prev /\ y \in Adjacent(s.prev[y])
  /\ \E j \in 0..L : s.prev[y] \in f[j] /\ y \notin f[j] /\ y \in f[j + 1]

PrevOK(s, f, L, src) ==
  /\ Waiting(s) \subseteq DOMAIN s.prev
  /\ f[L] \subseteq DOMAIN s.prev /\ DOMAIN s.prev \subseteq f[L + 1]
  /\ DOMAIN s.prev \subseteq TopologyNodes /\ src \in DOMAIN s.prev
  /\ \A y \in DOMAIN s.prev \ Waiting(s) : Adjacent(y) \subseteq DOMAIN s.prev
  /\ \A y \in DOMAIN s.prev \ {src} : LeadsBack(s, f, L, y)

\* When the queue has no node of f[L] left, f[L + 1] is complete.
LEMMA NextRound ==
  ASSUME NEW src, NEW f, IsSearch(f, src), NEW s, NEW L \in Nat, L + 2 <= Rounds,
         QueueOK(s, f, L, 0), PrevOK(s, f, L, src)
  PROVE  QueueOK(s, f, L + 1, Len(s.queue)) /\ PrevOK(s, f, L + 1, src)
<1>0. /\ Rounds \in Nat /\ L \in 0..(Rounds - 1) /\ L + 1 \in 0..(Rounds - 1) /\ L + 1 \in 1..Rounds
      /\ (L + 1) - 1 = L /\ (L + 1) + 1 = L + 2 /\ L + 1 \in Nat
  BY RoundsAreMany
<1>1. f[L + 1] = Wider(f[L]) /\ f[L + 1] \subseteq f[(L + 1) + 1]
  BY <1>0, SearchGrows DEF IsSearch
<1>2. Len(s.queue) \in Nat /\ \A i \in 1..Len(s.queue) : s.queue[i] \notin f[L]
  BY DEF QueueOK
<1>3. \A y \in f[L] : y \notin Waiting(s)
  BY <1>2 DEF Waiting
<1>4. f[L + 1] \subseteq DOMAIN s.prev
  BY <1>1, <1>3 DEF PrevOK, Wider
<1>5. \A i \in 1..Len(s.queue) : s.queue[i] \in f[L + 1]
  BY DEF PrevOK, Waiting
<1>6. QueueOK(s, f, L + 1, Len(s.queue))
  <2>1. \A i \in (Len(s.queue) + 1)..Len(s.queue) : FALSE
    BY <1>2
  <2>2. s.queue \in Seq(TopologyNodes) /\ \A i, j \in 1..Len(s.queue) : s.queue[i] = s.queue[j] => i = j
    BY DEF QueueOK
  <2>3. Len(s.queue) \in 0..Len(s.queue)
    BY <1>2
  <2> QED
    BY <1>5, <2>1, <2>2, <2>3 DEF QueueOK
<1>7. \A y \in DOMAIN s.prev \ {src} : LeadsBack(s, f, L + 1, y)
  <2>1. \A j \in 0..L : j \in 0..(L + 1)
    BY <1>0
  <2> QED
    BY <2>1 DEF PrevOK, LeadsBack
<1>8. PrevOK(s, f, L + 1, src)
  BY <1>0, <1>1, <1>4, <1>7 DEF PrevOK
<1> QED
  BY <1>6, <1>8

\* The peers that a turn brings come in some order, each once.
LEMMA Ordered ==
  ASSUME NEW S \in SUBSET TopologyNodes
  PROVE  /\ SetToSeq(S) \in Seq(TopologyNodes)
         /\ \A x : x \in S <=> \E i \in 1..Len(SetToSeq(S)) : SetToSeq(S)[i] = x
         /\ \A i, j \in 1..Len(SetToSeq(S)) : SetToSeq(S)[i] = SetToSeq(S)[j] => i = j
<1>1. IsFiniteSet(S) /\ Cardinality(S) \in Nat /\ ExistsBijection(1..Cardinality(S), S)
  BY TopologyAssumption, FS_Subset, FS_CardinalityType
<1> DEFINE q == SetToSeq(S)
           c == Cardinality(S)
<1>2. PICK b : b \in Bijection(1..c, S)
  BY <1>1 DEF ExistsBijection
<1>3. b \in [1..c -> S] /\ IsInjective(b)
  BY <1>2 DEF Bijection, Injection, Surjection, IsInjective
<1>4. q \in [1..c -> S] /\ IsInjective(q)
  BY <1>3, Zenon DEF SetToSeq
<1> HIDE DEF q
<1>5. q \in Seq(TopologyNodes) /\ Len(q) = c
  BY <1>1, <1>4
<1>6. \A i, j \in 1..c : q[i] = q[j] => i = j
  BY <1>4 DEF IsInjective
<1>7. q \in Injection(1..c, S)
  BY <1>4, <1>6 DEF Injection, IsInjective
<1>8. IsFiniteSet(1..c) /\ Cardinality(1..c) = c
  BY <1>1, FS_Interval
<1>9. q \in Surjection(1..c, S)
  BY <1>1, <1>7, <1>8, FS_Injection
<1>10. \A x \in S : \E i \in 1..c : q[i] = x
  BY <1>9 DEF Surjection
<1> QED
  BY <1>4, <1>5, <1>6, <1>10 DEF q

Visited(s) == DOMAIN s.prev \ Waiting(s)

PeersInNetwork == \A n : Adjacent(n) \subseteq TopologyNodes

Appends(c, a, b) == a \in Seq(TopologyNodes) /\ b \in Seq(TopologyNodes) /\ c = a \o b

AppendedOK(c, a, b) ==
  /\ c \in Seq(TopologyNodes) /\ Len(c) = Len(a) + Len(b)
  /\ \A i \in 1..Len(a) : c[i] = a[i]
  /\ \A i \in 1..Len(b) : c[Len(a) + i] = b[i]

LEMMA Appended ==
  ASSUME NEW a, NEW b, NEW c, Appends(c, a, b)
  PROVE  AppendedOK(c, a, b)
BY DEF Appends, AppendedOK

\* What the search is in before a turn that takes a node of f[L].
BeforeTurn(src, dst, f, s, L, m) ==
  /\ IsSearch(f, src) /\ L \in Nat /\ L + 1 <= Rounds /\ m \in Nat /\ m # 0
  /\ QueueOK(s, f, L, m) /\ PrevOK(s, f, L, src) /\ s.queue # <<>> /\ Head(s.queue) # dst

AfterTurn(src, dst, f, s, v, L, m) ==
  /\ QueueOK(v, f, L, m - 1) /\ PrevOK(v, f, L, src)
  /\ Visited(v) = Visited(s) \union {Head(s.queue)} /\ Head(s.queue) \notin Visited(s)

\* A turn that takes a node of f[L] keeps the invariant, and visits that node.
LEMMA TakesTurn ==
  ASSUME PeersInNetwork, NEW src, NEW dst, NEW f, NEW s, NEW L, NEW m, BeforeTurn(src, dst, f, s, L, m)
  PROVE  AfterTurn(src, dst, f, s, Visit(s, dst), L, m)
<1>0. /\ IsSearch(f, src) /\ L \in Nat /\ L + 1 <= Rounds /\ m \in Nat /\ m # 0
      /\ QueueOK(s, f, L, m) /\ PrevOK(s, f, L, src) /\ s.queue # <<>> /\ Head(s.queue) # dst
  BY DEF BeforeTurn
<1> USE <1>0
<1> DEFINE x == Head(s.queue)
           new == Adjacent(x) \ DOMAIN s.prev
           q == SetToSeq(new)
           n == Len(s.queue)
           v == Visit(s, dst)
           ahead == v.queue
<1>1. /\ v = [queue |-> Tail(s.queue) \o q,
              prev |-> [y \in DOMAIN s.prev \union new |-> IF y \in new THEN x ELSE s.prev[y]]]
  BY DEF Visit
<1>2. /\ ahead = Tail(s.queue) \o q /\ DOMAIN v.prev = DOMAIN s.prev \union new
      /\ \A y \in new : v.prev[y] = x
      /\ \A y \in DOMAIN s.prev : v.prev[y] = s.prev[y]
  BY <1>1
<1>3. new \in SUBSET TopologyNodes
  BY DEF PeersInNetwork
<1>4. /\ q \in Seq(TopologyNodes)
      /\ \A y : y \in new <=> \E i \in 1..Len(q) : q[i] = y
      /\ \A i, j \in 1..Len(q) : q[i] = q[j] => i = j
  <2> HIDE DEF new
  <2> QED
    BY <1>3, Ordered
<1>5. s.queue \in Seq(TopologyNodes) /\ n \in Nat /\ n # 0 /\ m \in 1..n /\ x = s.queue[1] /\ 1 \in 1..n
  BY DEF QueueOK
<1>6. x \in f[L] /\ x \in Waiting(s) /\ x \in DOMAIN s.prev
  <2>1. x \in f[L]
    BY <1>5 DEF QueueOK
  <2> HIDE DEF x
  <2>2. x \in Waiting(s)
    BY <1>5, Zenon DEF Waiting
  <2> QED
    BY <2>1, <2>2 DEF PrevOK
<1>7. \A y \in new : y \in f[L + 1] /\ y \notin f[L] /\ y \notin DOMAIN s.prev /\ y \in Adjacent(x)
  <2>1. L \in 0..(Rounds - 1)
    BY RoundsAreMany
  <2>2. Adjacent(x) \subseteq f[L + 1]
    BY <1>6, <2>1, SearchGrows
  <2> QED
    BY <2>2 DEF PrevOK
<1> HIDE DEF x, new, q, v
<1>8. /\ ahead \in Seq(TopologyNodes) /\ Len(q) \in Nat /\ Len(ahead) = (n - 1) + Len(q)
      /\ \A i \in 1..(n - 1) : ahead[i] = s.queue[i + 1]
      /\ \A i \in 1..Len(q) : ahead[(n - 1) + i] = q[i]
  <2>1. /\ Tail(s.queue) \in Seq(TopologyNodes) /\ Len(Tail(s.queue)) = n - 1
        /\ \A i \in 1..(n - 1) : Tail(s.queue)[i] = s.queue[i + 1]
    BY <1>5
  <2> DEFINE rest == Tail(s.queue)
  <2> HIDE DEF rest
  <2>2. /\ rest \in Seq(TopologyNodes) /\ Len(rest) = n - 1 /\ ahead = rest \o q
        /\ \A i \in 1..(n - 1) : rest[i] = s.queue[i + 1]
    BY <1>2, <2>1 DEF rest
  <2> HIDE DEF ahead, n
  <2>3. q \in Seq(TopologyNodes) /\ Len(q) \in Nat /\ n \in Nat /\ n # 0
    BY <1>4, <1>5
  <2>4. /\ ahead \in Seq(TopologyNodes) /\ Len(ahead) = Len(rest) + Len(q)
        /\ \A i \in 1..Len(rest) : ahead[i] = rest[i]
        /\ \A i \in 1..Len(q) : ahead[Len(rest) + i] = q[i]
    <3>1. Appends(ahead, rest, q)
      BY <2>2, <2>3 DEF Appends
    <3>2. AppendedOK(ahead, rest, q)
      BY <3>1, Appended, Zenon
    <3> QED
      BY <3>2 DEF AppendedOK
  <2> QED
    BY <2>2, <2>3, <2>4
<1> HIDE DEF n, ahead
<1> DEFINE c == Len(q)
           z == Len(ahead)
<1>80. n \in Nat /\ n # 0 /\ c \in Nat /\ z = (n - 1) + c
  BY <1>5, <1>8
\* The i-th of the new queue: an old one or a new one.
<1>9. ASSUME NEW i \in 1..Len(ahead)
      PROVE  \/ i <= n - 1 /\ i + 1 \in 1..n /\ ahead[i] = s.queue[i + 1] /\ ahead[i] \in Waiting(s)
             \/ i > n - 1 /\ i - (n - 1) \in 1..Len(q) /\ ahead[i] = q[i - (n - 1)] /\ ahead[i] \in new
  <2>1. CASE i <= n - 1
    <3>1. i \in 1..(n - 1) /\ i + 1 \in 1..n
      BY <1>5, <1>8, <2>1
    <3>2. ahead[i] = s.queue[i + 1]
      BY <1>8, <3>1
    <3> QED
      BY <2>1, <3>1, <3>2 DEF Waiting, n
  <2>2. CASE i > n - 1
    <3>1. i - (n - 1) \in 1..Len(q) /\ (n - 1) + (i - (n - 1)) = i
      <4>1. i \in 1..z
        OBVIOUS
      <4> HIDE DEF c, z
      <4>2. i - (n - 1) \in 1..c /\ (n - 1) + (i - (n - 1)) = i
        BY <1>80, <2>2, <4>1
      <4> QED
        BY <4>2 DEF c
    <3>2. ahead[i] = q[i - (n - 1)]
      BY <1>8, <3>1
    <3> QED
      BY <1>4, <2>2, <3>1, <3>2
  <2> QED
    BY <1>5, <1>8, <2>1, <2>2
<1>10. Waiting(v) = (Waiting(s) \ {x}) \union new
  <2>1. ASSUME NEW i \in 1..Len(ahead) PROVE ahead[i] \in (Waiting(s) \ {x}) \union new
    <3>1. CASE ahead[i] \in new
      BY <3>1
    <3>2. CASE i + 1 \in 1..n /\ ahead[i] = s.queue[i + 1] /\ ahead[i] \in Waiting(s)
      <4>1. s.queue[i + 1] # s.queue[1]
        BY <1>5, <1>8, <3>2 DEF QueueOK, n
      <4> QED
        BY <1>5, <3>2, <4>1
    <3> QED
      BY <1>9, <3>1, <3>2
  <2>2. ASSUME NEW y \in Waiting(s), y # x PROVE \E i \in 1..Len(ahead) : ahead[i] = y
    <3>1. PICK k \in 1..n : s.queue[k] = y
      BY DEF Waiting, n
    <3>2. k # 1
      BY <1>5, <2>2, <3>1, Zenon
    <3>4. k - 1 \in 1..(n - 1) /\ (k - 1) + 1 = k
      BY <1>80, <3>2
    <3>3. k - 1 \in 1..Len(ahead) /\ ahead[k - 1] = s.queue[k]
      BY <1>5, <1>8, <3>4
    <3> QED
      BY <3>1, <3>3
  <2>3. ASSUME NEW y \in new PROVE \E i \in 1..Len(ahead) : ahead[i] = y
    <3>1. PICK k \in 1..Len(q) : q[k] = y
      BY <1>4
    <3>2. (n - 1) + k \in 1..Len(ahead) /\ ahead[(n - 1) + k] = q[k]
      BY <1>5, <1>8, <3>1
    <3> QED
      BY <3>1, <3>2
  <2>4. Waiting(v) = {ahead[i] : i \in 1..Len(ahead)}
    BY DEF Waiting, ahead
  <2> QED
    BY <2>1, <2>2, <2>3, <2>4
<1>11. QueueOK(v, f, L, m - 1)
  <2>1. m - 1 \in 0..Len(ahead)
    BY <1>5, <1>8
  <2>2. ASSUME NEW i \in 1..(m - 1) PROVE ahead[i] \in f[L]
    <3>1. i \in 1..(n - 1) /\ i + 1 \in 1..m
      BY <1>5
    <3> QED
      BY <1>8, <3>1 DEF QueueOK
  <2>3. ASSUME NEW i \in ((m - 1) + 1)..Len(ahead) PROVE ahead[i] \notin f[L]
    <3>1. i \in 1..Len(ahead)
      BY <1>5, <1>8
    <3>2. CASE ahead[i] \in new
      BY <1>7, <3>2
    <3>3. CASE i + 1 \in 1..n /\ ahead[i] = s.queue[i + 1]
      <4>1. i + 1 \in (m + 1)..n
        BY <1>5, <1>8, <3>3
      <4> QED
        BY <3>3, <4>1 DEF QueueOK, n
    <3> QED
      BY <1>9, <3>1, <3>2, <3>3
  <2>4. ASSUME NEW i \in 1..Len(ahead), NEW j \in 1..Len(ahead), ahead[i] = ahead[j] PROVE i = j
    <3>1. new \intersect Waiting(s) = {}
      BY <1>7 DEF PrevOK
    <3>2. CASE ahead[i] \in new
      <4>1. /\ i > n - 1 /\ i - (n - 1) \in 1..Len(q) /\ ahead[i] = q[i - (n - 1)]
            /\ j > n - 1 /\ j - (n - 1) \in 1..Len(q) /\ ahead[j] = q[j - (n - 1)]
        BY <1>9, <2>4, <3>1, <3>2
      <4>2. i - (n - 1) = j - (n - 1)
        BY <1>4, <2>4, <4>1
      <4> QED
        BY <1>5, <1>8, <4>2
    <3>3. CASE ahead[i] \notin new
      <4>1. /\ i + 1 \in 1..n /\ ahead[i] = s.queue[i + 1]
            /\ j + 1 \in 1..n /\ ahead[j] = s.queue[j + 1]
        BY <1>9, <2>4, <3>3
      <4>2. i + 1 = j + 1
        BY <2>4, <4>1 DEF QueueOK, n
      <4> QED
        BY <1>5, <1>8, <4>2
    <3> QED
      BY <3>2, <3>3
  <2> QED
    BY <1>8, <2>1, <2>2, <2>3, <2>4 DEF QueueOK, ahead
<1>12. /\ \A y \in Visited(v) : y = x \/ y \in Visited(s)
       /\ Visited(v) = Visited(s) \union {x} /\ x \notin Visited(s)
  BY <1>2, <1>6, <1>7, <1>10 DEF Visited, PrevOK
<1>13. ASSUME NEW y \in DOMAIN v.prev \ {src} PROVE LeadsBack(v, f, L, y)
  <2>1. CASE y \in new
    <3>1. v.prev[y] = x /\ x \in DOMAIN v.prev /\ L \in 0..L
      BY <1>2, <1>6, <2>1
    <3> QED
      BY <1>6, <1>7, <2>1, <3>1 DEF LeadsBack
  <2>2. CASE y \notin new
    <3>1. y \in DOMAIN s.prev /\ v.prev[y] = s.prev[y] /\ DOMAIN s.prev \subseteq DOMAIN v.prev
      BY <1>2, <2>2
    <3> QED
      BY <3>1 DEF LeadsBack, PrevOK
  <2> QED
    BY <2>1, <2>2
<1>14. \A y \in DOMAIN v.prev \ Waiting(v) : Adjacent(y) \subseteq DOMAIN v.prev
  <2>1. Adjacent(x) \subseteq DOMAIN v.prev
    BY <1>2 DEF new
  <2>2. \A y \in Visited(s) : Adjacent(y) \subseteq DOMAIN v.prev
    BY <1>2 DEF PrevOK, Visited
  <2> QED
    BY <1>12, <2>1, <2>2 DEF Visited
<1>15. PrevOK(v, f, L, src)
  BY <1>2, <1>3, <1>7, <1>10, <1>13, <1>14 DEF PrevOK
<1> QED
  BY <1>11, <1>12, <1>15 DEF x, v, AfterTurn

Over(s, dst) == s.queue = <<>> \/ Head(s.queue) = dst

\* After k turns, the search is over or has visited k nodes.
TurnOK(s, f, src, dst, k) ==
  \E L, m \in Nat :
    /\ L + 1 <= Rounds /\ (L < k \/ (k = 0 /\ L = 0 /\ m = 1))
    /\ QueueOK(s, f, L, m) /\ PrevOK(s, f, L, src)
    /\ Over(s, dst) \/ Cardinality(Visited(s)) = k

LEMMA FirstTurn ==
  ASSUME NEW src \in TopologyNodes, NEW dst, NEW f, IsSearch(f, src)
  PROVE  TurnOK(Start(src), f, src, dst, 0)
<1> DEFINE s == Start(src)
<1>1. Rounds \in Nat /\ 1 <= Rounds /\ 0 \in 0..(Rounds - 1)
  <2>1. Rounds # 0
    BY TopologyAssumption, FS_EmptySet DEF Rounds
  <2> QED
    BY <2>1, RoundsAreMany
<1>2. /\ s.queue = <<src>> /\ s.queue \in Seq(TopologyNodes) /\ Len(s.queue) = 1 /\ s.queue[1] = src
      /\ DOMAIN s.prev = {src}
  BY DEF Start
<1> HIDE DEF s
<1>3. f[0] = {src} /\ f[0] \subseteq f[0 + 1]
  BY <1>1, SearchGrows DEF IsSearch
<1>4. Waiting(s) = {src}
  BY <1>2 DEF Waiting
<1>5. QueueOK(s, f, 0, 1)
  BY <1>2, <1>3 DEF QueueOK
<1>6. PrevOK(s, f, 0, src)
  BY <1>2, <1>3, <1>4 DEF PrevOK
<1>7. Visited(s) = {}
  BY <1>2, <1>4 DEF Visited
<1>8. Cardinality(Visited(s)) = 0
  BY <1>7, FS_EmptySet
<1> QED
  BY <1>1, <1>5, <1>6, <1>8 DEF TurnOK, s

LEMMA NextTurn ==
  ASSUME PeersInNetwork, NEW src, NEW dst, NEW f, IsSearch(f, src), NEW s, NEW k \in Nat, k + 1 <= Rounds,
         TurnOK(s, f, src, dst, k)
  PROVE  TurnOK(Visit(s, dst), f, src, dst, k + 1)
<1> DEFINE v == Visit(s, dst)
<1>1. PICK L \in Nat, m \in Nat :
        /\ L + 1 <= Rounds /\ (L < k \/ (k = 0 /\ L = 0 /\ m = 1))
        /\ QueueOK(s, f, L, m) /\ PrevOK(s, f, L, src)
        /\ Over(s, dst) \/ Cardinality(Visited(s)) = k
  BY DEF TurnOK
<1>2. CASE Over(s, dst)
  <2>1. v = s
    BY <1>2 DEF Visit, Over
  <2>2. L < k + 1
    BY <1>1
  <2> QED
    BY <1>1, <1>2, <2>1, <2>2 DEF TurnOK
<1>3. CASE ~Over(s, dst)
  <2>1. s.queue # <<>> /\ Head(s.queue) # dst /\ Cardinality(Visited(s)) = k
    BY <1>1, <1>3 DEF Over
  <2>2. \E M \in Nat, l \in Nat : M + 1 <= Rounds /\ M < k + 1 /\ l # 0 /\ QueueOK(s, f, M, l) /\ PrevOK(s, f, M, src)
    <3>1. CASE m # 0
      BY <1>1, <3>1
    <3>2. CASE m = 0
      <4>1. L + 2 <= Rounds /\ L + 1 \in Nat /\ (L + 1) + 1 <= Rounds /\ L + 1 < k + 1
        BY <1>1, <3>2, RoundsAreMany
      <4>2. QueueOK(s, f, L + 1, Len(s.queue)) /\ PrevOK(s, f, L + 1, src)
        BY <1>1, <3>2, <4>1, NextRound
      <4>3. Len(s.queue) \in Nat /\ Len(s.queue) # 0
        BY <1>1, <2>1 DEF QueueOK
      <4> QED
        BY <4>1, <4>2, <4>3
    <3> QED
      BY <3>1, <3>2
  <2>3. PICK M \in Nat, l \in Nat :
          M + 1 <= Rounds /\ M < k + 1 /\ l # 0 /\ QueueOK(s, f, M, l) /\ PrevOK(s, f, M, src)
    BY <2>2
  <2>4. /\ QueueOK(v, f, M, l - 1) /\ PrevOK(v, f, M, src)
        /\ Visited(v) = Visited(s) \union {Head(s.queue)} /\ Head(s.queue) \notin Visited(s)
    <3>1. BeforeTurn(src, dst, f, s, M, l)
      BY <2>1, <2>3 DEF BeforeTurn
    <3>2. AfterTurn(src, dst, f, s, v, M, l)
      BY <3>1, TakesTurn, Zenon
    <3> QED
      BY <3>2 DEF AfterTurn
  <2>5. IsFiniteSet(Visited(s))
    <3>1. Visited(s) \in SUBSET TopologyNodes
      BY <1>1 DEF PrevOK, Visited
    <3> QED
      BY <3>1, TopologyAssumption, FS_Subset
  <2>6. Cardinality(Visited(v)) = k + 1
    BY <2>1, <2>4, <2>5, FS_AddElement
  <2>7. l - 1 \in Nat
    BY <2>3
  <2> HIDE DEF v
  <2> QED
    BY <2>3, <2>4, <2>6, <2>7 DEF TurnOK, v
<1> QED
  BY <1>2, <1>3

\* When the loop ends, prev has dst or everything that can be reached.
LEMMA SearchEnds ==
  ASSUME PeersInNetwork, NEW src \in TopologyNodes, NEW dst, NEW f, IsSearch(f, src)
  PROVE  \E L \in Nat :
           /\ L + 1 <= Rounds /\ PrevOK(Search(src, dst), f, L, src)
           /\ dst \in DOMAIN Search(src, dst).prev \/ Waiting(Search(src, dst)) = {}
<1>1. PICK g : AreTurns(g, src, dst) /\ Search(src, dst) = g[Rounds]
  BY TurnsExist
<1> DEFINE S == {k \in Nat : k <= Rounds => TurnOK(g[k], f, src, dst, k)}
<1>2. 0 \in S
  BY <1>1, FirstTurn DEF AreTurns
<1>3. ASSUME NEW k \in S PROVE k + 1 \in S
  <2> SUFFICES ASSUME k + 1 <= Rounds PROVE TurnOK(g[k + 1], f, src, dst, k + 1)
    OBVIOUS
  <2>1. k \in Nat /\ k + 1 \in 1..Rounds /\ (k + 1) - 1 = k /\ TurnOK(g[k], f, src, dst, k)
    BY RoundsAreMany
  <2>2. g[k + 1] = Visit(g[k], dst)
    BY <1>1, <2>1 DEF AreTurns
  <2> QED
    BY <2>1, <2>2, NextTurn
<1>4. S = Nat
  <2>1. S \in SUBSET Nat
    OBVIOUS
  <2> HIDE DEF S
  <2> QED
    BY <1>2, <1>3, <2>1, NatSetInduction
<1> DEFINE s == Search(src, dst)
<1>5. TurnOK(s, f, src, dst, Rounds)
  BY <1>1, <1>4, RoundsAreMany
<1> HIDE DEF s
<1>6. PICK L \in Nat, m \in Nat :
        /\ L + 1 <= Rounds /\ QueueOK(s, f, L, m) /\ PrevOK(s, f, L, src)
        /\ Over(s, dst) \/ Cardinality(Visited(s)) = Rounds
  BY <1>5 DEF TurnOK
<1>7. dst \in DOMAIN s.prev \/ Waiting(s) = {}
  <2>1. CASE s.queue = <<>>
    BY <2>1 DEF Waiting
  <2>2. CASE s.queue # <<>> /\ Head(s.queue) = dst
    <3>1. 1 \in 1..Len(s.queue) /\ s.queue[1] = dst
      BY <1>6, <2>2 DEF QueueOK
    <3>2. dst \in Waiting(s)
      BY <3>1 DEF Waiting
    <3> QED
      BY <1>6, <3>2 DEF PrevOK
  <2>3. CASE Cardinality(Visited(s)) = Rounds
    <3>1. Visited(s) \in SUBSET TopologyNodes
      BY <1>6 DEF PrevOK, Visited
    <3>2. Visited(s) = TopologyNodes
      BY <2>3, <3>1, TopologyAssumption, FS_Subset DEF Rounds
    <3> QED
      BY <1>6, <3>2 DEF PrevOK, Visited
  <2> QED
    BY <1>6, <2>1, <2>2, <2>3 DEF Over
<1> QED
  BY <1>6, <1>7 DEF s

\* The way back from dst.
IsBack(q, prev, dst) == q[0] = dst /\ \A k \in 1..Rounds : q[k] = prev[q[k - 1]]

\* What route() returns, once the way back is known to end after length steps.
LEMMA RouteIs ==
  ASSUME NEW src, NEW dst
  PROVE  LET prev == Search(src, dst).prev
         IN  /\ dst \notin DOMAIN prev => Route(src, dst) = <<>>
             /\ dst \in DOMAIN prev =>
                  \E q : /\ IsBack(q, prev, dst)
                         /\ \A length \in 0..Rounds :
                              q[length] = src /\ (\A l \in 0..(length - 1) : q[l] # src) =>
                                Route(src, dst) = [i \in 1..(length + 1) |-> q[length + 1 - i]]
<1> DEFINE prev == Search(src, dst).prev
           what == [kind |-> "back", prev |-> prev]
           Eq(q) == q = [k \in 0..Rounds |-> IF k = 0 THEN dst ELSE prev[q[k - 1]]]
           back == CHOOSE q : Eq(q)
           Ends(k) == back[k] = src /\ \A l \in 0..(k - 1) : back[l] # src
           last == CHOOSE k \in DOMAIN back : Ends(k)
<1>1. Route(src, dst) = IF dst \in DOMAIN prev THEN [i \in 1..(last + 1) |-> back[last + 1 - i]] ELSE <<>>
  BY Zenon DEF Route, Rounds
<1> HIDE DEF prev
<1>2. \A x : Turned(what, x) = prev[x]
  BY DEF Turned
<1> HIDE DEF what
<1>3. PICK h : Repeats(h, dst, what)
  BY RepeatExists
<1>4. Eq(h)
  BY <1>2, <1>3 DEF Repeats
<1>5. Eq(back)
  <2> HIDE DEF Eq
  <2> QED
    BY <1>4, Zenon
<1> HIDE DEF back
<1>6. DOMAIN back = 0..Rounds /\ \A k \in 0..Rounds : back[k] = IF k = 0 THEN dst ELSE prev[back[k - 1]]
  BY <1>5, Zenon
<1>7. IsBack(back, prev, dst)
  BY <1>6, RoundsAreMany DEF IsBack
<1>8. ASSUME NEW length \in 0..Rounds, Ends(length) PROVE last = length
  <2>1. last \in 0..Rounds /\ Ends(last)
    <3> HIDE DEF Ends
    <3> QED
      BY <1>6, <1>8, Zenon
  <2> HIDE DEF last
  <2>2. ~(last < length) /\ ~(length < last)
    BY <1>8, <2>1, RoundsAreMany
  <2> QED
    BY <2>1, <2>2, RoundsAreMany
<1> HIDE DEF last
<1> QED
  BY <1>1, <1>7, <1>8 DEF prev

\* prev is complete up to round L, and q leads from dst back.
HasWayBack(src, dst, f, s, L, q) ==
  /\ IsSearch(f, src) /\ L \in Nat /\ L + 1 <= Rounds /\ PrevOK(s, f, L, src)
  /\ dst \in DOMAIN s.prev /\ IsBack(q, s.prev, dst)

\* The way back takes last steps, and no fewer rounds find dst.
TakesBack(src, dst, f, q, last) ==
  /\ q[last] = src /\ \A k \in 0..(last - 1) : q[k] # src /\ q[k] \in Adjacent(q[k + 1])
  /\ \A k \in 0..(last - 1) : dst \notin f[k]

\* The k-th step back is in the round k before that of dst, and no earlier.
LEMMA BackThroughRounds ==
  ASSUME NEW src, NEW dst, NEW f, NEW s, NEW L, NEW q, HasWayBack(src, dst, f, s, L, q)
  PROVE  \E last \in 0..Rounds : TakesBack(src, dst, f, q, last)
<1>00. /\ IsSearch(f, src) /\ L \in Nat /\ L + 1 <= Rounds /\ PrevOK(s, f, L, src)
       /\ dst \in DOMAIN s.prev /\ IsBack(q, s.prev, dst)
  BY DEF HasWayBack
<1> USE <1>00
<1> DEFINE New(x, k) == x \in f[k] /\ (k # 0 => x \notin f[k - 1])
<1>0. Rounds \in Nat /\ L \in 0..Rounds /\ L + 1 \in 0..Rounds /\ f[0] = {src}
  BY RoundsAreMany DEF IsSearch
\* What an entry says of rounds.
<1>1. ASSUME NEW y \in DOMAIN s.prev, NEW k \in 1..Rounds, New(y, k)
      PROVE  y # src /\ s.prev[y] \in DOMAIN s.prev /\ y \in Adjacent(s.prev[y]) /\ New(s.prev[y], k - 1)
  <2>1. y # src
    <3>1. f[0] \subseteq f[k - 1]
      <4>1. 0 \in 0..Rounds /\ k - 1 \in 0..Rounds /\ k - 1 \in 0..Rounds
        BY <1>0
      <4> QED
        BY <4>1, SearchMonotone
    <3> QED
      BY <1>0, <1>1, <3>1
  <2>2. LeadsBack(s, f, L, y)
    BY <2>1 DEF PrevOK
  <2>3. PICK j \in 0..L : s.prev[y] \in f[j] /\ y \notin f[j] /\ y \in f[j + 1]
    BY <2>2 DEF LeadsBack
  <2>4. j \in Nat /\ j + 1 <= Rounds /\ j \in 0..Rounds /\ j \in 0..(Rounds - 1) /\ k \in Nat /\ k - 1 \in 0..Rounds
    BY <1>0
  <2>5. ~(j + 1 < k)
    <3> SUFFICES ASSUME j + 1 < k PROVE FALSE
      OBVIOUS
    <3>1. j + 1 \in 0..Rounds /\ k - 1 \in (j + 1)..Rounds
      BY <1>0, <2>4
    <3>2. f[j + 1] \subseteq f[k - 1]
      BY <3>1, SearchMonotone
    <3> QED
      BY <1>1, <2>3, <3>2
  <2>6. ~(k < j + 1)
    <3> SUFFICES ASSUME k < j + 1 PROVE FALSE
      OBVIOUS
    <3>1. k \in 0..Rounds /\ j \in k..Rounds
      BY <1>0, <2>4
    <3>2. f[k] \subseteq f[j]
      BY <3>1, SearchMonotone
    <3> QED
      BY <1>1, <2>3, <3>2
  <2>7. j = k - 1
    BY <2>4, <2>5, <2>6
  <2>8. ASSUME j # 0 PROVE s.prev[y] \notin f[j - 1]
    <3>1. j - 1 \in 0..(Rounds - 1) /\ (j - 1) + 1 = j
      BY <1>0, <2>4, <2>8
    <3>2. \A n \in f[j - 1] : Adjacent(n) \subseteq f[j]
      BY <3>1, SearchGrows
    <3> QED
      BY <2>2, <2>3, <3>2 DEF LeadsBack
  <2> QED
    BY <2>1, <2>2, <2>3, <2>7, <2>8 DEF LeadsBack
<1>2. \E k \in 0..Rounds : New(dst, k)
  <2> DEFINE H == {k \in 0..Rounds : dst \in f[k]}
  <2>1. L + 1 \in H
    BY <1>0 DEF PrevOK
  <2>2. H \in SUBSET Nat
    OBVIOUS
  <2>3. PICK k \in H : \A l \in H : k <= l
    <3> HIDE DEF H
    <3> QED
      BY <2>1, <2>2, LeastElement
  <2>4. ASSUME k # 0 PROVE dst \notin f[k - 1]
    <3>1. k \in 0..Rounds /\ k - 1 \in 0..Rounds /\ ~(k <= k - 1)
      BY <1>0, <2>3, <2>4
    <3> QED
      BY <2>3, <3>1
  <2> QED
    BY <2>3, <2>4
<1>3. PICK last \in 0..Rounds : New(dst, last)
  BY <1>2
<1> DEFINE S == {k \in Nat : k <= last => q[k] \in DOMAIN s.prev /\ New(q[k], last - k)}
<1> HIDE DEF New
<1>4. 0 \in S
  BY <1>0, <1>3 DEF IsBack
<1>5. ASSUME NEW k \in S PROVE k + 1 \in S
  <2> SUFFICES ASSUME k + 1 <= last PROVE q[k + 1] \in DOMAIN s.prev /\ New(q[k + 1], last - (k + 1))
    OBVIOUS
  <2>1. /\ k \in Nat /\ q[k] \in DOMAIN s.prev /\ New(q[k], last - k) /\ last - k \in 1..Rounds
        /\ (last - k) - 1 = last - (k + 1) /\ k + 1 \in 1..Rounds /\ (k + 1) - 1 = k
    BY <1>0
  <2>2. q[k + 1] = s.prev[q[k]]
    BY <2>1 DEF IsBack
  <2> QED
    BY <1>1, <2>1, <2>2
<1>6. S = Nat
  <2>1. S \in SUBSET Nat
    OBVIOUS
  <2> HIDE DEF S
  <2> QED
    BY <1>4, <1>5, <2>1, NatSetInduction
<1>7. ASSUME NEW k \in 0..(last - 1) PROVE q[k] # src /\ q[k] \in Adjacent(q[k + 1])
  <2>1. /\ k \in Nat /\ k <= last /\ last - k \in 1..Rounds /\ k + 1 \in 1..Rounds /\ (k + 1) - 1 = k
    BY <1>0
  <2>2. q[k] \in DOMAIN s.prev /\ New(q[k], last - k) /\ q[k + 1] = s.prev[q[k]]
    BY <1>6, <2>1 DEF IsBack
  <2> QED
    BY <1>1, <2>1, <2>2
<1>8. q[last] = src
  <2>1. last \in Nat /\ last - last = 0
    BY <1>0
  <2>2. New(q[last], 0)
    BY <1>6, <2>1
  <2> QED
    BY <1>0, <2>2 DEF New
<1>9. ASSUME NEW k \in 0..(last - 1) PROVE dst \notin f[k]
  <2>1. last # 0 /\ k \in 0..Rounds /\ last - 1 \in k..Rounds
    BY <1>0
  <2>2. f[k] \subseteq f[last - 1]
    BY <2>1, SearchMonotone
  <2> QED
    BY <1>3, <2>1, <2>2 DEF New
<1> QED
  BY <1>7, <1>8, <1>9 DEF TakesBack

LEMMA RoutesAreShortest ==
  ASSUME PeersInNetwork
  PROVE  RoutesShortest
<1> SUFFICES ASSUME NEW src \in TopologyNodes, NEW dst \in TopologyNodes
             PROVE  LET route == Route(src, dst)
                        shorter == IF route = <<>> THEN Rounds ELSE Len(route) - 1
                    IN  /\ route # <<>> => IsPath(route, src, dst)
                        /\ \A k \in 1..shorter : \A p \in [1..k -> TopologyNodes] : ~IsPath(p, src, dst)
  BY DEF RoutesShortest, Rounds
<1> DEFINE route == Route(src, dst)
           s == Search(src, dst)
<1>1. PICK f : IsSearch(f, src)
  BY SearchExists
<1>2. PICK L \in Nat : /\ L + 1 <= Rounds /\ PrevOK(s, f, L, src)
                       /\ dst \in DOMAIN s.prev \/ Waiting(s) = {}
  BY <1>1, SearchEnds
<1>3. CASE dst \notin DOMAIN s.prev
  <2>1. route = <<>>
    BY <1>3, RouteIs
  <2> HIDE DEF s, route
  <2>2. src \in DOMAIN s.prev /\ \A y \in DOMAIN s.prev : Adjacent(y) \subseteq DOMAIN s.prev
    BY <1>2, <1>3 DEF PrevOK
  <2> DEFINE S == {k \in Nat : k <= Rounds => f[k] \subseteq DOMAIN s.prev}
  <2>3. 0 \in S
    BY <1>1, <2>2 DEF IsSearch
  <2>4. ASSUME NEW k \in S PROVE k + 1 \in S
    <3> SUFFICES ASSUME k + 1 <= Rounds PROVE f[k + 1] \subseteq DOMAIN s.prev
      OBVIOUS
    <3>1. k \in Nat /\ k + 1 \in 1..Rounds /\ (k + 1) - 1 = k /\ f[k] \subseteq DOMAIN s.prev
      BY RoundsAreMany
    <3>2. f[k + 1] = Wider(f[k])
      BY <1>1, <3>1 DEF IsSearch
    <3> QED
      BY <2>2, <3>1, <3>2 DEF Wider
  <2>5. S = Nat
    <3>1. S \in SUBSET Nat
      OBVIOUS
    <3> HIDE DEF S
    <3> QED
      BY <2>3, <2>4, <3>1, NatSetInduction
  <2>6. ASSUME NEW k \in 1..Rounds, NEW p \in [1..k -> TopologyNodes], IsPath(p, src, dst) PROVE FALSE
    <3>1. k - 1 \in Nat /\ k - 1 <= Rounds
      BY RoundsAreMany
    <3>2. dst \in f[k - 1]
      BY <1>1, <2>6, PathIsFound
    <3> QED
      BY <1>3, <2>5, <3>1, <3>2
  <2> QED
    BY <2>1, <2>6 DEF route
<1>4. CASE dst \in DOMAIN s.prev
  <2>1. PICK q : /\ IsBack(q, s.prev, dst)
                 /\ \A length \in 0..Rounds :
                      q[length] = src /\ (\A l \in 0..(length - 1) : q[l] # src) =>
                        route = [i \in 1..(length + 1) |-> q[length + 1 - i]]
    BY <1>4, RouteIs
  <2> HIDE DEF s, route
  <2>2. PICK last \in 0..Rounds :
          /\ q[last] = src /\ \A k \in 0..(last - 1) : q[k] # src /\ q[k] \in Adjacent(q[k + 1])
          /\ \A k \in 0..(last - 1) : dst \notin f[k]
    <3>1. HasWayBack(src, dst, f, s, L, q)
      BY <1>1, <1>2, <1>4, <2>1 DEF HasWayBack
    <3>2. \E last \in 0..Rounds : TakesBack(src, dst, f, q, last)
      BY <3>1, BackThroughRounds, Zenon
    <3> QED
      BY <3>2 DEF TakesBack
  <2>3. route = [i \in 1..(last + 1) |-> q[last + 1 - i]]
    BY <2>1, <2>2
  <2>4. last \in Nat /\ Rounds \in Nat /\ last <= Rounds
    BY <2>2, RoundsAreMany
  <2>5. Len(route) = last + 1 /\ route # <<>>
    BY <2>3, <2>4
  <2>6. IsPath(route, src, dst)
    <3>1. route[1] = src /\ route[last + 1] = dst
      BY <2>1, <2>2, <2>3, <2>4 DEF IsBack
    <3>2. ASSUME NEW i \in 1..last PROVE route[i + 1] \in Adjacent(route[i])
      <4>1. /\ last - i \in 0..(last - 1) /\ (last - i) + 1 = last + 1 - i /\ last + 1 - (i + 1) = last - i
            /\ i \in 1..(last + 1) /\ i + 1 \in 1..(last + 1)
        BY <2>4
      <4>2. route[i + 1] = q[last - i] /\ route[i] = q[(last - i) + 1]
        BY <2>3, <4>1
      <4> QED
        BY <2>2, <4>1, <4>2
    <3>3. Len(route) - 1 = last
      BY <2>4, <2>5
    <3> QED
      BY <2>5, <3>1, <3>2, <3>3 DEF IsPath
  <2>7. ASSUME NEW k \in 1..last, NEW p \in [1..k -> TopologyNodes], IsPath(p, src, dst) PROVE FALSE
    <3>1. k \in 1..Rounds /\ k - 1 \in 0..(last - 1)
      BY <2>4
    <3>2. dst \in f[k - 1]
      BY <1>1, <2>7, <3>1, PathIsFound
    <3> QED
      BY <2>2, <3>1, <3>2
  <2>8. Len(route) - 1 = last
    BY <2>4, <2>5
  <2> QED
    BY <2>5, <2>6, <2>7, <2>8 DEF route
<1> QED
  BY <1>3, <1>4

-----------------------------------------------------------------------------
(***************************************************************************)
(* The network: what the calls of network_topology.rs keep, for a network  *)
(* t before and u after a call.                                            *)
(***************************************************************************)
CentreOK(dc) ==
  /\ DOMAIN dc = {"nodes", "links"} /\ DOMAIN dc.nodes \subseteq TopologyNodes
  /\ \A n \in DOMAIN dc.nodes : DOMAIN dc.nodes[n] = {"peers", "alive", "score"}

\* No centre is linked to itself or to one that does not exist.
WellFormed(t) ==
  \A a \in DOMAIN t : CentreOK(t[a]) /\ DOMAIN t[a].links \subseteq DOMAIN t \ {a}

IsNode(t, p) == \E d \in DOMAIN t : p \in DOMAIN t[d].nodes

Known(t) ==
  \A a \in DOMAIN t : \A n \in DOMAIN t[a].nodes : \A p \in t[a].nodes[n].peers : IsNode(t, p)

Agree(t) ==
  \A a, b \in DOMAIN t : b \in DOMAIN t[a].links =>
    a \in DOMAIN t[b].links /\ t[a].links[b] = t[b].links[a]

\* r of centre c and a node of centre d are peers of each other.
Spans(t, r, c, d) ==
  /\ c # d /\ r \in DOMAIN t[c].nodes
  /\ \E x \in t[c].nodes[r].peers : x \in DOMAIN t[d].nodes /\ r \in t[d].nodes[x].peers

Crosses(t) ==
  \A a, b \in DOMAIN t : b \in DOMAIN t[a].links =>
    \A r \in t[a].links[b] : Spans(t, r, a, b) \/ Spans(t, r, b, a)

NamesKept(t, u) ==
  DOMAIN t \subseteq DOMAIN u /\ \A a \in DOMAIN t : DOMAIN t[a].nodes \subseteq DOMAIN u[a].nodes

PeersKept(t, u) ==
  \A a \in DOMAIN t : \A n \in DOMAIN t[a].nodes : t[a].nodes[n].peers \subseteq u[a].nodes[n].peers

\* A peer is an old one or a node of the network.
PeersNamed(t, u) ==
  \A a \in DOMAIN u : \A n \in DOMAIN u[a].nodes : \A p \in u[a].nodes[n].peers :
    \/ a \in DOMAIN t /\ n \in DOMAIN t[a].nodes /\ p \in t[a].nodes[n].peers
    \/ IsNode(u, p)

LinksKept(t, u) ==
  \A a \in DOMAIN u :
    /\ a \in DOMAIN t => u[a].links = t[a].links
    /\ a \notin DOMAIN t => DOMAIN u[a].links = {}

LEMMA KnownKept ==
  ASSUME NEW t, NEW u, NamesKept(t, u), PeersNamed(t, u), Known(t)
  PROVE  Known(u)
BY DEF NamesKept, PeersNamed, Known, IsNode

LEMMA AgreeKept ==
  ASSUME NEW t, NEW u, NamesKept(t, u), LinksKept(t, u), WellFormed(t), Agree(t)
  PROVE  Agree(u)
BY DEF NamesKept, LinksKept, WellFormed, Agree

LEMMA SpansKept ==
  ASSUME NEW t, NEW u, NamesKept(t, u), PeersKept(t, u),
         NEW r, NEW c \in DOMAIN t, NEW d \in DOMAIN t, Spans(t, r, c, d)
  PROVE  Spans(u, r, c, d)
BY DEF NamesKept, PeersKept, Spans

LEMMA CrossesKept ==
  ASSUME NEW t, NEW u, NamesKept(t, u), PeersKept(t, u), LinksKept(t, u), WellFormed(t), Crosses(t)
  PROVE  Crosses(u)
<1> SUFFICES ASSUME NEW a \in DOMAIN u, NEW b \in DOMAIN u, b \in DOMAIN u[a].links,
                    NEW r \in u[a].links[b]
             PROVE  Spans(u, r, a, b) \/ Spans(u, r, b, a)
  BY DEF Crosses
<1>1. a \in DOMAIN t /\ u[a].links = t[a].links
  BY DEF LinksKept
<1>2. b \in DOMAIN t
  BY <1>1 DEF WellFormed
<1>3. Spans(t, r, a, b) \/ Spans(t, r, b, a)
  BY <1>1, <1>2 DEF Crosses
<1> QED
  BY <1>1, <1>2, <1>3, SpansKept

\* A call on one centre that takes no node away and adds only peers of the centre.
LEMMA OneCentre ==
  ASSUME NEW t, WellFormed(t), NEW c \in DOMAIN t, NEW dc, CentreOK(dc), dc.links = t[c].links,
         DOMAIN t[c].nodes \subseteq DOMAIN dc.nodes,
         \A n \in DOMAIN dc.nodes : \A p \in dc.nodes[n].peers :
           (n \in DOMAIN t[c].nodes /\ p \in t[c].nodes[n].peers) \/ p \in DOMAIN dc.nodes,
         NEW u, u = [t EXCEPT ![c] = dc]
  PROVE  /\ WellFormed(u) /\ NamesKept(t, u) /\ PeersNamed(t, u) /\ LinksKept(t, u)
         /\ (\A n \in DOMAIN t[c].nodes : t[c].nodes[n].peers \subseteq dc.nodes[n].peers)
              => PeersKept(t, u)
<1>1. DOMAIN u = DOMAIN t /\ u[c] = dc /\ \A a \in DOMAIN t \ {c} : u[a] = t[a]
  OBVIOUS
<1>2. WellFormed(u)
  BY <1>1 DEF WellFormed
<1>3. NamesKept(t, u)
  BY <1>1 DEF NamesKept
<1>4. LinksKept(t, u)
  BY <1>1 DEF LinksKept
<1>5. PeersNamed(t, u)
  <2> SUFFICES ASSUME NEW a \in DOMAIN u, NEW n \in DOMAIN u[a].nodes, NEW p \in u[a].nodes[n].peers
               PROVE  \/ a \in DOMAIN t /\ n \in DOMAIN t[a].nodes /\ p \in t[a].nodes[n].peers
                      \/ IsNode(u, p)
    BY DEF PeersNamed
  <2>1. CASE a = c
    BY <1>1, <2>1 DEF IsNode
  <2>2. CASE a # c
    BY <1>1, <2>2
  <2> QED
    BY <2>1, <2>2
<1>6. ASSUME \A n \in DOMAIN t[c].nodes : t[c].nodes[n].peers \subseteq dc.nodes[n].peers
      PROVE  PeersKept(t, u)
  BY <1>1, <1>6 DEF PeersKept
<1> QED
  BY <1>2, <1>3, <1>4, <1>5, <1>6

\* What add_node does to a centre.
LEMMA WithNodeFacts ==
  ASSUME NEW dc, CentreOK(dc), NEW n \in TopologyNodes, NEW alive
  PROVE  /\ CentreOK(WithNode(dc, n, alive))
         /\ WithNode(dc, n, alive).links = dc.links
         /\ DOMAIN WithNode(dc, n, alive).nodes = DOMAIN dc.nodes \union {n}
         /\ WithNode(dc, n, alive).nodes[n].peers = {}
         /\ \A m \in DOMAIN dc.nodes \ {n} :
              /\ dc.nodes[m].peers \subseteq WithNode(dc, n, alive).nodes[m].peers
              /\ WithNode(dc, n, alive).nodes[m].peers \subseteq dc.nodes[m].peers \union {n}
<1> DEFINE dialler == IF alive THEN Nearest(dc, n) ELSE {}
           dialling == [m \in DOMAIN dc.nodes |->
                         IF m \in dialler THEN [dc.nodes[m] EXCEPT !.peers = @ \union {n}] ELSE dc.nodes[m]]
           w == WithNode(dc, n, alive)
<1>1. w = [dc EXCEPT !.nodes = Inserted(dialling, n, NewNode(alive))]
  BY DEF WithNode
<1>2. /\ DOMAIN NewNode(alive) = {"peers", "alive", "score"} /\ NewNode(alive).peers = {}
  BY DEF NewNode
<1>3. \A m \in DOMAIN dc.nodes :
        /\ DOMAIN dialling[m] = {"peers", "alive", "score"}
        /\ dc.nodes[m].peers \subseteq dialling[m].peers
        /\ dialling[m].peers \subseteq dc.nodes[m].peers \union {n}
  BY DEF CentreOK
<1>4. DOMAIN dialling = DOMAIN dc.nodes
  OBVIOUS
<1> HIDE DEF dialling, w
<1>5. DOMAIN w = {"nodes", "links"} /\ w.links = dc.links /\ w.nodes = Inserted(dialling, n, NewNode(alive))
  BY <1>1 DEF CentreOK
<1>6. /\ DOMAIN w.nodes = DOMAIN dc.nodes \union {n} /\ w.nodes[n] = NewNode(alive)
      /\ \A m \in DOMAIN dc.nodes \ {n} : w.nodes[m] = dialling[m]
  BY <1>4, <1>5 DEF Inserted
<1>7. CentreOK(w)
  BY <1>2, <1>3, <1>5, <1>6 DEF CentreOK
<1> QED
  BY <1>2, <1>3, <1>5, <1>6, <1>7 DEF w

\* The last of some nodes is one of them.
LEMMA LastNode ==
  ASSUME NEW s \in SUBSET TopologyNodes, s # {}
  PROVE  Max(s) \in s
<1> DEFINE own == [x \in s |-> x]
<1>1. IsFiniteSet(s) /\ s \subseteq Nat
  BY TopologyAssumption, FS_Subset
<1>2. Summable(own, s) /\ \A x \in s : own[x] = x
  BY <1>1 DEF Summable
<1> HIDE DEF own
<1>3. \E x \in s : \A y \in s : own[y] <= own[x]
  BY <1>2, LargestValue
<1>4. \E x \in s : \A y \in s : x >= y
  BY <1>1, <1>2, <1>3
<1> QED
  BY <1>4, Zenon DEF Max

\* The recursive function of a new centre exists.
FillsFrom(g, s, dead) == g[s] = IF s = {} THEN NewCentre ELSE WithNode(g[s \ {Max(s)}], Max(s), Max(s) \notin dead)

LEMMA FillingExists ==
  ASSUME NEW nodes \in SUBSET TopologyNodes, NEW dead
  PROVE  \E g : DOMAIN g = SUBSET nodes /\ (\A s \in SUBSET nodes : FillsFrom(g, s, dead))
                /\ g = [s \in SUBSET nodes |-> g[s]]
<1> DEFINE Good(g, n) == /\ DOMAIN g = SUBSET nodes /\ g = [s \in SUBSET nodes |-> g[s]]
                         /\ \A s \in SUBSET nodes : Cardinality(s) <= n => FillsFrom(g, s, dead)
           Upto(n) == \E g : Good(g, n)
           A == {n \in Nat : Upto(n)}
<1>0. IsFiniteSet(nodes)
  BY TopologyAssumption, FS_Subset
<1>1. Upto(0)
  <2> DEFINE z == [s \in SUBSET nodes |-> NewCentre]
  <2>1. DOMAIN z = SUBSET nodes /\ z = [s \in SUBSET nodes |-> z[s]]
    OBVIOUS
  <2>2. ASSUME NEW s \in SUBSET nodes, Cardinality(s) <= 0 PROVE FillsFrom(z, s, dead)
    <3>1. s = {}
      BY <1>0, <2>2, SmallerSubset
    <3> QED
      BY <3>1 DEF FillsFrom
  <2> HIDE DEF z
  <2>3. Good(z, 0)
    BY <2>1, <2>2
  <2> HIDE DEF Good
  <2> QED
    BY <2>3
<1>2. ASSUME NEW n \in Nat, Upto(n) PROVE Upto(n + 1)
  <2>1. PICK g : Good(g, n)
    BY <1>2
  <2> DEFINE h == [s \in SUBSET nodes |-> IF s = {} THEN NewCentre ELSE WithNode(g[s \ {Max(s)}], Max(s), Max(s) \notin dead)]
  <2>2. DOMAIN h = SUBSET nodes /\ h = [s \in SUBSET nodes |-> h[s]]
    OBVIOUS
  <2>3. ASSUME NEW s \in SUBSET nodes, Cardinality(s) <= n + 1 PROVE FillsFrom(h, s, dead)
    <3>1. CASE s = {}
      BY <3>1 DEF FillsFrom
    <3>2. CASE s # {}
      <4> DEFINE t == s \ {Max(s)}
      <4>1. t \in SUBSET nodes /\ Max(s) \in s
        BY <3>2, LastNode
      <4>2. IsFiniteSet(s)
        BY <1>0, SmallerSubset
      <4>3. Cardinality(t) <= n
        <5>1. Cardinality(s) = Cardinality(t) + 1 /\ Cardinality(t) \in Nat
          BY <4>1, <4>2, OneLess
        <5> QED
          BY <5>1, <2>3
      <4>4. h[t] = g[t]
        <5>1. FillsFrom(g, t, dead)
          BY <2>1, <4>1, <4>3
        <5>2. h[t] = IF t = {} THEN NewCentre ELSE WithNode(g[t \ {Max(t)}], Max(t), Max(t) \notin dead)
          BY <4>1
        <5> QED
          BY <5>1, <5>2 DEF FillsFrom
      <4>5. h[s] = WithNode(g[t], Max(s), Max(s) \notin dead)
        BY <3>2
      <4> HIDE DEF h
      <4> QED
        BY <3>2, <4>4, <4>5 DEF FillsFrom
    <3> QED
      BY <3>1, <3>2
  <2> HIDE DEF h
  <2>4. Good(h, n + 1)
    BY <2>2, <2>3
  <2> HIDE DEF Good
  <2> QED
    BY <2>4
<1>3. A = Nat
  <2> HIDE DEF Upto
  <2>1. A \in SUBSET Nat /\ 0 \in A /\ \A n \in A : n + 1 \in A
    BY <1>1, <1>2
  <2> HIDE DEF A
  <2> QED
    BY <2>1, NatSetInduction
<1>4. Upto(Cardinality(nodes))
  <2>1. Cardinality(nodes) \in A
    BY <1>0, <1>3, FS_CardinalityType
  <2> HIDE DEF Upto
  <2> QED
    BY <2>1
<1>5. PICK g : Good(g, Cardinality(nodes))
  BY <1>4
<1>6. \A s \in SUBSET nodes : FillsFrom(g, s, dead)
  BY <1>0, <1>5, SmallerSubset
<1> QED
  BY <1>5, <1>6

\* A new centre has the nodes it was given, peers among them, and no links.
LEMMA CentreOfFacts ==
  ASSUME NEW nodes \in SUBSET TopologyNodes, NEW dead
  PROVE  /\ CentreOK(CentreOf(nodes, dead)) /\ DOMAIN CentreOf(nodes, dead).links = {}
         /\ DOMAIN CentreOf(nodes, dead).nodes = nodes
         /\ \A n \in nodes : CentreOf(nodes, dead).nodes[n].peers \subseteq nodes
<1> DEFINE Eq(g) == g = [s \in SUBSET nodes |->
                          IF s = {} THEN NewCentre ELSE WithNode(g[s \ {Max(s)}], Max(s), Max(s) \notin dead)]
           g == CHOOSE f : Eq(f)
<1>1. CentreOf(nodes, dead) = g[nodes]
  BY Zenon DEF CentreOf
<1>2. Eq(g)
  <2>1. \E f : Eq(f)
    <3>1. PICK f : DOMAIN f = SUBSET nodes /\ (\A s \in SUBSET nodes : FillsFrom(f, s, dead))
                   /\ f = [s \in SUBSET nodes |-> f[s]]
      BY FillingExists
    <3>2. Eq(f)
      BY <3>1 DEF FillsFrom
    <3> QED
      BY <3>2
  <2> HIDE DEF Eq
  <2> QED
    BY <2>1, Zenon
<1>3. \A s \in SUBSET nodes : g[s] = IF s = {} THEN NewCentre ELSE WithNode(g[s \ {Max(s)}], Max(s), Max(s) \notin dead)
  <2> HIDE DEF g
  <2> QED
    BY <1>2, Zenon
<1> HIDE DEF g
<1> DEFINE Full(s) == /\ CentreOK(g[s]) /\ DOMAIN g[s].links = {} /\ DOMAIN g[s].nodes = s
                      /\ \A n \in s : g[s].nodes[n].peers \subseteq s
           All(k) == \A s \in SUBSET nodes : Cardinality(s) <= k => Full(s)
           A == {k \in Nat : All(k)}
<1>4. IsFiniteSet(nodes)
  BY TopologyAssumption, FS_Subset
<1>5. All(0)
  <2> SUFFICES ASSUME NEW s \in SUBSET nodes, Cardinality(s) <= 0 PROVE Full(s)
    OBVIOUS
  <2>1. s = {}
    BY <1>4, SmallerSubset
  <2>2. g[s] = NewCentre
    BY <1>3, <2>1
  <2> QED
    BY <2>1, <2>2 DEF NewCentre, CentreOK
<1>6. ASSUME NEW k \in Nat, All(k) PROVE All(k + 1)
  <2> SUFFICES ASSUME NEW s \in SUBSET nodes, Cardinality(s) <= k + 1 PROVE Full(s)
    OBVIOUS
  <2>1. CASE s = {}
    <3>1. g[s] = NewCentre
      BY <1>3, <2>1
    <3> QED
      BY <2>1, <3>1 DEF NewCentre, CentreOK
  <2>2. CASE s # {}
    <3> DEFINE x == Max(s)
               t == s \ {x}
               old == g[t]
    <3>1. x \in s /\ x \in TopologyNodes /\ t \in SUBSET nodes /\ IsFiniteSet(s)
      BY <1>4, <2>2, LastNode, SmallerSubset
    <3>2. Cardinality(t) <= k
      <4>1. Cardinality(s) = Cardinality(t) + 1 /\ Cardinality(t) \in Nat
        BY <3>1, OneLess
      <4> QED
        BY <4>1
    <3>3. Full(t)
      BY <1>6, <3>1, <3>2
    <3>4. g[s] = WithNode(old, x, x \notin dead)
      BY <1>3, <2>2
    <3> HIDE DEF x
    <3>5. x \notin t /\ s = t \union {x}
      BY <3>1
    <3> HIDE DEF t
    <3>6. /\ CentreOK(old) /\ DOMAIN old.links = {} /\ DOMAIN old.nodes = t
          /\ \A n \in t : old.nodes[n].peers \subseteq t
      BY <3>3
    <3> HIDE DEF old
    <3>7. /\ CentreOK(g[s]) /\ g[s].links = old.links /\ DOMAIN g[s].nodes = t \union {x}
          /\ g[s].nodes[x].peers = {}
          /\ \A n \in t \ {x} : g[s].nodes[n].peers \subseteq old.nodes[n].peers \union {x}
      BY <3>1, <3>4, <3>6, WithNodeFacts
    <3> QED
      BY <3>5, <3>6, <3>7
  <2> QED
    BY <2>1, <2>2
<1> HIDE DEF Full
<1>7. A = Nat
  <2> HIDE DEF All
  <2>1. A \in SUBSET Nat /\ 0 \in A /\ \A k \in A : k + 1 \in A
    BY <1>5, <1>6
  <2> HIDE DEF A
  <2> QED
    BY <2>1, NatSetInduction
<1>8. Cardinality(nodes) \in A
  BY <1>4, <1>7, FS_CardinalityType
<1>9. Full(nodes)
  <2>1. Cardinality(nodes) \in Nat /\ nodes \in SUBSET nodes
    BY <1>4, FS_CardinalityType
  <2> QED
    BY <1>8, <2>1
<1> QED
  BY <1>1, <1>9 DEF Full

-----------------------------------------------------------------------------
(* Links *)

\* The peers that node n of centre c gets by these dials.
Called(dials, c, n) == {d[3] : d \in {e \in dials : e[1] = c /\ e[2] = n}}

LEMMA DialledFacts ==
  ASSUME WellFormed(topology), NEW dials
  PROVE  /\ DOMAIN Dialled(dials) = DOMAIN topology
         /\ \A c \in DOMAIN topology :
              /\ CentreOK(Dialled(dials)[c]) /\ Dialled(dials)[c].links = topology[c].links
              /\ DOMAIN Dialled(dials)[c].nodes = DOMAIN topology[c].nodes
              /\ \A n \in DOMAIN topology[c].nodes :
                   Dialled(dials)[c].nodes[n].peers = topology[c].nodes[n].peers \union Called(dials, c, n)
<1> DEFINE v == Dialled(dials)
           New(c) == [n \in DOMAIN topology[c].nodes |->
                       [topology[c].nodes[n] EXCEPT !.peers = @ \union Called(dials, c, n)]]
<1>1. v = [c \in DOMAIN topology |-> [topology[c] EXCEPT !.nodes = New(c)]]
  BY DEF Dialled, Called
<1>2. ASSUME NEW c \in DOMAIN topology
      PROVE  /\ DOMAIN New(c) = DOMAIN topology[c].nodes
             /\ \A n \in DOMAIN topology[c].nodes :
                  /\ DOMAIN New(c)[n] = {"peers", "alive", "score"}
                  /\ New(c)[n].peers = topology[c].nodes[n].peers \union Called(dials, c, n)
  BY DEF WellFormed, CentreOK
<1> HIDE DEF New, v
<1>3. ASSUME NEW c \in DOMAIN topology
      PROVE  DOMAIN v[c] = {"nodes", "links"} /\ v[c].nodes = New(c) /\ v[c].links = topology[c].links
  BY <1>1 DEF WellFormed, CentreOK
<1>4. ASSUME NEW c \in DOMAIN topology PROVE CentreOK(v[c])
  <2>1. DOMAIN topology[c].nodes \subseteq TopologyNodes
    BY DEF WellFormed, CentreOK
  <2> QED
    BY <1>2, <1>3, <2>1 DEF CentreOK
<1>5. DOMAIN v = DOMAIN topology
  BY <1>1
<1> QED
  BY <1>2, <1>3, <1>4, <1>5 DEF v

\* The same nodes, whatever the links.
SameNodes(v, u) == DOMAIN u = DOMAIN v /\ \A c \in DOMAIN v : u[c].nodes = v[c].nodes

\* Dialling nodes of the network keeps what there is.
LEMMA DialledKeeps ==
  ASSUME WellFormed(topology), NEW dials, \A e \in dials : IsNode(topology, e[3]),
         NEW u, SameNodes(Dialled(dials), u)
  PROVE  NamesKept(topology, u) /\ PeersKept(topology, u) /\ PeersNamed(topology, u)
<1> DEFINE v == Dialled(dials)
<1>1. /\ DOMAIN v = DOMAIN topology
      /\ \A c \in DOMAIN topology :
           /\ DOMAIN v[c].nodes = DOMAIN topology[c].nodes
           /\ \A n \in DOMAIN topology[c].nodes :
                v[c].nodes[n].peers = topology[c].nodes[n].peers \union Called(dials, c, n)
  BY DialledFacts
<1> HIDE DEF v
<1>2. /\ DOMAIN u = DOMAIN topology
      /\ \A c \in DOMAIN topology :
           /\ DOMAIN u[c].nodes = DOMAIN topology[c].nodes
           /\ \A n \in DOMAIN topology[c].nodes :
                u[c].nodes[n].peers = topology[c].nodes[n].peers \union Called(dials, c, n)
  BY <1>1 DEF SameNodes, v
<1>3. NamesKept(topology, u)
  BY <1>2 DEF NamesKept
<1>4. PeersKept(topology, u)
  BY <1>2 DEF PeersKept
<1>5. PeersNamed(topology, u)
  <2> SUFFICES ASSUME NEW a \in DOMAIN u, NEW n \in DOMAIN u[a].nodes, NEW p \in u[a].nodes[n].peers,
                      p \notin topology[a].nodes[n].peers
               PROVE  IsNode(u, p)
    BY <1>2 DEF PeersNamed
  <2>1. p \in Called(dials, a, n)
    BY <1>2
  <2>2. PICK e \in dials : p = e[3]
    BY <2>1 DEF Called
  <2>3. IsNode(topology, p)
    BY <2>2
  <2> QED
    BY <1>2, <2>3 DEF IsNode
<1> QED
  BY <1>3, <1>4, <1>5

\* A dial in both directions spans the two centres.
LEMMA DialSpans ==
  ASSUME WellFormed(topology), NEW dials, NEW u, SameNodes(Dialled(dials), u),
         NEW a \in DOMAIN topology, NEW b \in DOMAIN topology, a # b,
         NEW x \in DOMAIN topology[a].nodes, NEW y \in DOMAIN topology[b].nodes,
         Dials(a, x, b, y) \subseteq dials
  PROVE  Spans(u, x, a, b)
<1> DEFINE v == Dialled(dials)
<1>1. /\ DOMAIN v = DOMAIN topology
      /\ \A c \in DOMAIN topology :
           /\ DOMAIN v[c].nodes = DOMAIN topology[c].nodes
           /\ \A n \in DOMAIN topology[c].nodes :
                v[c].nodes[n].peers = topology[c].nodes[n].peers \union Called(dials, c, n)
  BY DialledFacts
<1>2. <<a, x, y>> \in dials /\ <<b, y, x>> \in dials
  BY DEF Dials
<1>3. y \in Called(dials, a, x) /\ x \in Called(dials, b, y)
  BY <1>2 DEF Called
<1> HIDE DEF v
<1>4. u[a].nodes = v[a].nodes /\ u[b].nodes = v[b].nodes
  BY <1>1 DEF SameNodes, v
<1> QED
  BY <1>1, <1>3, <1>4 DEF Spans

\* The relays R that one side has of a link and the relays Q of the other agree and
\* cross it, when those of the other links do.
LinkSound(t, u, a, b, R, Q) ==
  /\ R = Q /\ Agree(t) => Agree(u)
  /\ /\ Crosses(t) /\ NamesKept(t, u) /\ PeersKept(t, u)
     /\ \A r \in R \union Q : Spans(u, r, a, b) \/ Spans(u, r, b, a)
     => Crosses(u)

\* The two records of one link change.
LEMMA LinkChanges ==
  ASSUME NEW t, WellFormed(t), NEW a \in DOMAIN t, NEW b \in DOMAIN t, a # b, NEW R, NEW Q,
         NEW u, DOMAIN u = DOMAIN t, \A c \in DOMAIN u : CentreOK(u[c]),
         u[a].links = Inserted(t[a].links, b, R), u[b].links = Inserted(t[b].links, a, Q),
         \A c \in DOMAIN t \ {a, b} : u[c].links = t[c].links
  PROVE  WellFormed(u) /\ LinkSound(t, u, a, b, R, Q)
<1>1. /\ DOMAIN u[a].links = DOMAIN t[a].links \union {b} /\ u[a].links[b] = R
      /\ \A c \in DOMAIN t[a].links \ {b} : u[a].links[c] = t[a].links[c]
  BY DEF Inserted
<1>2. /\ DOMAIN u[b].links = DOMAIN t[b].links \union {a} /\ u[b].links[a] = Q
      /\ \A c \in DOMAIN t[b].links \ {a} : u[b].links[c] = t[b].links[c]
  BY DEF Inserted
<1>3. WellFormed(u)
  BY <1>1, <1>2 DEF WellFormed
<1>4. ASSUME R = Q, Agree(t) PROVE Agree(u)
  <2> SUFFICES ASSUME NEW c \in DOMAIN u, NEW d \in DOMAIN u, d \in DOMAIN u[c].links
               PROVE  c \in DOMAIN u[d].links /\ u[c].links[d] = u[d].links[c]
    BY DEF Agree
  <2>1. CASE {c, d} = {a, b}
    BY <1>1, <1>2, <1>4, <2>1
  <2>2. CASE {c, d} # {a, b}
    <3>1. d \in DOMAIN t[c].links /\ u[c].links[d] = t[c].links[d]
      BY <1>1, <1>2, <2>2
    <3>2. c \in DOMAIN t[d].links /\ t[c].links[d] = t[d].links[c]
      BY <1>4, <3>1 DEF Agree
    <3>3. c \in DOMAIN u[d].links /\ u[d].links[c] = t[d].links[c]
      BY <1>1, <1>2, <2>2, <3>2
    <3> QED
      BY <3>1, <3>2, <3>3
  <2> QED
    BY <2>1, <2>2
<1>5. ASSUME Crosses(t), NamesKept(t, u), PeersKept(t, u),
             \A r \in R \union Q : Spans(u, r, a, b) \/ Spans(u, r, b, a)
      PROVE  Crosses(u)
  <2> SUFFICES ASSUME NEW c \in DOMAIN u, NEW d \in DOMAIN u, d \in DOMAIN u[c].links,
                      NEW r \in u[c].links[d]
               PROVE  Spans(u, r, c, d) \/ Spans(u, r, d, c)
    BY DEF Crosses
  <2>1. CASE {c, d} = {a, b}
    <3>1. (c = a /\ d = b) \/ (c = b /\ d = a)
      BY <2>1
    <3> QED
      BY <1>1, <1>2, <1>5, <3>1
  <2>2. CASE {c, d} # {a, b}
    <3>1. d \in DOMAIN t[c].links /\ u[c].links[d] = t[c].links[d]
      BY <1>1, <1>2, <2>2
    <3>2. Spans(t, r, c, d) \/ Spans(t, r, d, c)
      BY <1>5, <3>1 DEF Crosses
    <3> QED
      BY <1>5, <3>2, SpansKept
  <2> QED
    BY <2>1, <2>2
<1> QED
  BY <1>3, <1>4, <1>5 DEF LinkSound

-----------------------------------------------------------------------------
(* The invariant of the network, and the calls that keep it *)

NetworkOK(t, f) ==
  /\ WellFormed(t)
  /\ "centre" \notin f => Known(t) /\ Agree(t) /\ "panic" \notin f
  /\ f \intersect {"node", "centre"} = {} => Crosses(t)

GroupsOK(t, groups, top, f) ==
  /\ \A g \in DOMAIN groups : groups[g] \subseteq DOMAIN t /\ ("group" \notin f => Cardinality(groups[g]) >= 3)
  /\ top \subseteq DOMAIN groups /\ (top # {} /\ "group" \notin f => Cardinality(top) >= 2)

TopologyInv == NetworkOK(topology, flaws) /\ GroupsOK(topology, dataGroups, centreGroup, flaws)

\* A call that leaves the links alone.
LEMMA NetworkKept ==
  ASSUME NEW t, NEW f, NetworkOK(t, f), NEW u, WellFormed(u), NamesKept(t, u), PeersNamed(t, u),
         LinksKept(t, u), NEW g, f \subseteq g, g \subseteq f \union {"node"},
         "node" \notin g => PeersKept(t, u)
  PROVE  NetworkOK(u, g)
<1>1. ASSUME "centre" \notin g PROVE Known(u) /\ Agree(u) /\ "panic" \notin g
  <2>1. Known(t) /\ Agree(t) /\ WellFormed(t) /\ "panic" \notin f
    BY <1>1 DEF NetworkOK
  <2> QED
    BY <2>1, KnownKept, AgreeKept
<1>2. ASSUME g \intersect {"node", "centre"} = {} PROVE Crosses(u)
  <2>1. Crosses(t) /\ WellFormed(t) /\ PeersKept(t, u)
    BY <1>2 DEF NetworkOK
  <2> QED
    BY <2>1, CrossesKept
<1> QED
  BY <1>1, <1>2 DEF NetworkOK

LEMMA GroupsKept ==
  ASSUME NEW t, NEW f, NEW groups, NEW top, GroupsOK(t, groups, top, f),
         NEW u, DOMAIN t \subseteq DOMAIN u, NEW g, f \subseteq g
  PROVE  GroupsOK(u, groups, top, g)
BY DEF GroupsOK

\* A call that changes one link and dials between nodes of the network.
LEMMA LinkKept ==
  ASSUME NetworkOK(topology, flaws), NEW a \in DOMAIN topology, NEW b \in DOMAIN topology, a # b,
         NEW dials, \A e \in dials : IsNode(topology, e[3]),
         NEW u, SameNodes(Dialled(dials), u), \A c \in DOMAIN u : CentreOK(u[c]), NEW R, NEW Q,
         u[a].links = Inserted(topology[a].links, b, R), u[b].links = Inserted(topology[b].links, a, Q),
         \A c \in DOMAIN topology \ {a, b} : u[c].links = topology[c].links,
         "centre" \notin flaws => R = Q,
         flaws \intersect {"node", "centre"} = {} =>
           \A r \in R \union Q : Spans(u, r, a, b) \/ Spans(u, r, b, a)
  PROVE  NetworkOK(u, flaws)
<1>1. WellFormed(topology)
  BY DEF NetworkOK
<1>2. NamesKept(topology, u) /\ PeersKept(topology, u) /\ PeersNamed(topology, u)
  BY <1>1, DialledKeeps
<1>3. DOMAIN u = DOMAIN topology
  BY <1>1, DialledFacts DEF SameNodes
<1>4. WellFormed(u) /\ LinkSound(topology, u, a, b, R, Q)
  BY <1>1, <1>3, LinkChanges
<1>5. Known(topology) => Known(u)
  BY <1>2, KnownKept
<1> QED
  BY <1>2, <1>4, <1>5 DEF NetworkOK, LinkSound

LEMMA AddNodeStep ==
  ASSUME TopologyInv, NEW c \in DOMAIN topology, NEW n \in TopologyNodes, NEW alive \in BOOLEAN, AddNode(c, n, alive)
  PROVE  TopologyInv'
<1> DEFINE dc == WithNode(topology[c], n, alive)
<1>1. topology' = [topology EXCEPT ![c] = dc] /\ UNCHANGED <<dataGroups, centreGroup>>
  BY DEF AddNode
<1>2. WellFormed(topology) /\ CentreOK(topology[c])
  BY DEF TopologyInv, NetworkOK, WellFormed
<1>3. /\ CentreOK(dc) /\ dc.links = topology[c].links
      /\ DOMAIN dc.nodes = DOMAIN topology[c].nodes \union {n}
      /\ dc.nodes[n].peers = {}
      /\ \A m \in DOMAIN topology[c].nodes \ {n} :
           /\ topology[c].nodes[m].peers \subseteq dc.nodes[m].peers
           /\ dc.nodes[m].peers \subseteq topology[c].nodes[m].peers \union {n}
  BY <1>2, WithNodeFacts
<1> HIDE DEF dc
<1>4. /\ WellFormed(topology') /\ NamesKept(topology, topology')
      /\ PeersNamed(topology, topology') /\ LinksKept(topology, topology')
      /\ (\A m \in DOMAIN topology[c].nodes : topology[c].nodes[m].peers \subseteq dc.nodes[m].peers)
           => PeersKept(topology, topology')
  <2>1. \A m \in DOMAIN dc.nodes : \A p \in dc.nodes[m].peers :
          (m \in DOMAIN topology[c].nodes /\ p \in topology[c].nodes[m].peers) \/ p \in DOMAIN dc.nodes
    BY <1>3
  <2> QED
    BY <1>1, <1>2, <1>3, <2>1, OneCentre
<1>5. flaws \subseteq flaws' /\ flaws' \subseteq flaws \union {"node"}
  BY DEF AddNode, Flawed
<1>6. ASSUME "node" \notin flaws' PROVE PeersKept(topology, topology')
  <2>1. n \notin DOMAIN topology[c].nodes
    BY <1>6 DEF AddNode, Flawed
  <2> QED
    BY <1>3, <1>4, <2>1
<1>7. NetworkOK(topology', flaws')
  BY <1>4, <1>5, <1>6, NetworkKept DEF TopologyInv
<1>8. GroupsOK(topology', dataGroups', centreGroup', flaws')
  BY <1>1, <1>5, GroupsKept DEF TopologyInv
<1> QED
  BY <1>7, <1>8 DEF TopologyInv

\* The calls that replace the nodes of one centre: full_mesh, mark_node, update_metrics.
LEMMA NodesStep ==
  ASSUME TopologyInv, NEW c \in DOMAIN topology, NEW nodes,
         topology' = [topology EXCEPT ![c].nodes = nodes], UNCHANGED <<dataGroups, centreGroup, flaws>>,
         DOMAIN nodes = DOMAIN topology[c].nodes,
         \A n \in DOMAIN nodes :
           /\ DOMAIN nodes[n] = {"peers", "alive", "score"}
           /\ topology[c].nodes[n].peers \subseteq nodes[n].peers
           /\ nodes[n].peers \subseteq topology[c].nodes[n].peers \union DOMAIN nodes
  PROVE  TopologyInv'
<1> DEFINE dc == [topology[c] EXCEPT !.nodes = nodes]
<1>1. topology' = [topology EXCEPT ![c] = dc]
  OBVIOUS
<1>2. WellFormed(topology) /\ CentreOK(topology[c])
  BY DEF TopologyInv, NetworkOK, WellFormed
<1>3. CentreOK(dc) /\ dc.links = topology[c].links /\ dc.nodes = nodes
  BY <1>2 DEF CentreOK
<1> HIDE DEF dc
<1>4. /\ WellFormed(topology') /\ NamesKept(topology, topology')
      /\ PeersNamed(topology, topology') /\ LinksKept(topology, topology')
      /\ PeersKept(topology, topology')
  <2>1. /\ DOMAIN topology[c].nodes \subseteq DOMAIN dc.nodes
        /\ \A m \in DOMAIN dc.nodes : \A p \in dc.nodes[m].peers :
             (m \in DOMAIN topology[c].nodes /\ p \in topology[c].nodes[m].peers) \/ p \in DOMAIN dc.nodes
        /\ \A m \in DOMAIN topology[c].nodes : topology[c].nodes[m].peers \subseteq dc.nodes[m].peers
    BY <1>3
  <2> QED
    BY <1>1, <1>2, <1>3, <2>1, OneCentre
<1>5. NetworkOK(topology', flaws')
  BY <1>4, NetworkKept DEF TopologyInv
<1>6. GroupsOK(topology', dataGroups', centreGroup', flaws')
  BY <1>1, GroupsKept DEF TopologyInv
<1> QED
  BY <1>5, <1>6 DEF TopologyInv

LEMMA FullMeshStep ==
  ASSUME TopologyInv, NEW c \in DOMAIN topology, FullMesh(c)
  PROVE  TopologyInv'
<1> DEFINE old == topology[c].nodes
           live == Live(topology[c])
           meshed(n) == [old[n] EXCEPT !.peers = @ \union (live \ {n})]
           nodes == [n \in DOMAIN old |-> IF n \in live THEN meshed(n) ELSE old[n]]
<1>1. topology' = [topology EXCEPT ![c].nodes = nodes] /\ UNCHANGED <<dataGroups, centreGroup, flaws>>
  BY DEF FullMesh
<1>2. \A n \in DOMAIN old : DOMAIN old[n] = {"peers", "alive", "score"}
  BY DEF TopologyInv, NetworkOK, WellFormed, CentreOK
<1>3. live \subseteq DOMAIN old
  BY DEF Live
<1> HIDE DEF live
<1>4. DOMAIN nodes = DOMAIN old
  OBVIOUS
<1>5. ASSUME NEW n \in DOMAIN old
      PROVE  /\ DOMAIN nodes[n] = {"peers", "alive", "score"}
             /\ old[n].peers \subseteq nodes[n].peers
             /\ nodes[n].peers \subseteq old[n].peers \union DOMAIN nodes
  <2>1. /\ DOMAIN meshed(n) = {"peers", "alive", "score"}
        /\ meshed(n).peers = old[n].peers \union (live \ {n})
    BY <1>2
  <2> QED
    BY <1>2, <1>3, <2>1
<1> HIDE DEF nodes
<1> QED
  BY <1>1, <1>4, <1>5, NodesStep

LEMMA MarkNodeStep ==
  ASSUME TopologyInv, NEW c \in DOMAIN topology, NEW n \in DOMAIN topology[c].nodes,
         NEW alive, MarkNode(c, n, alive)
  PROVE  TopologyInv'
<1> DEFINE old == topology[c].nodes
           nodes == [old EXCEPT ![n].alive = alive]
<1>1. topology' = [topology EXCEPT ![c].nodes = nodes] /\ UNCHANGED <<dataGroups, centreGroup, flaws>>
  BY DEF MarkNode
<1>2. \A m \in DOMAIN old : DOMAIN old[m] = {"peers", "alive", "score"}
  BY DEF TopologyInv, NetworkOK, WellFormed, CentreOK
<1>3. /\ DOMAIN nodes = DOMAIN old
      /\ \A m \in DOMAIN old : DOMAIN nodes[m] = {"peers", "alive", "score"} /\ nodes[m].peers = old[m].peers
  BY <1>2
<1> HIDE DEF nodes
<1> QED
  BY <1>1, <1>3, NodesStep

LEMMA UpdateMetricsStep ==
  ASSUME TopologyInv, NEW c \in DOMAIN topology, NEW n \in DOMAIN topology[c].nodes,
         NEW score, UpdateMetrics(c, n, score)
  PROVE  TopologyInv'
<1> DEFINE old == topology[c].nodes
           nodes == [old EXCEPT ![n].score = score]
<1>1. topology' = [topology EXCEPT ![c].nodes = nodes] /\ UNCHANGED <<dataGroups, centreGroup, flaws>>
  BY DEF UpdateMetrics
<1>2. \A m \in DOMAIN old : DOMAIN old[m] = {"peers", "alive", "score"}
  BY DEF TopologyInv, NetworkOK, WellFormed, CentreOK
<1>3. /\ DOMAIN nodes = DOMAIN old
      /\ \A m \in DOMAIN old : DOMAIN nodes[m] = {"peers", "alive", "score"} /\ nodes[m].peers = old[m].peers
  BY <1>2
<1> HIDE DEF nodes
<1> QED
  BY <1>1, <1>3, NodesStep

\* A new centre changes nothing else; one that replaces another is a flaw.
LEMMA AddCentreStep ==
  ASSUME TopologyInv, NEW c, NEW nodes \in SUBSET TopologyNodes, NEW dead \in SUBSET nodes, AddCentre(c, nodes, dead)
  PROVE  TopologyInv'
<1> DEFINE dc == CentreOf(nodes, dead)
           u == topology'
<1>1. u = Inserted(topology, c, dc) /\ UNCHANGED <<dataGroups, centreGroup>>
  BY DEF AddCentre
<1>2. /\ CentreOK(dc) /\ DOMAIN dc.links = {} /\ DOMAIN dc.nodes = nodes
      /\ \A n \in nodes : dc.nodes[n].peers \subseteq nodes
  BY CentreOfFacts
<1>3. WellFormed(topology)
  BY DEF TopologyInv, NetworkOK
<1> HIDE DEF dc
<1>4. /\ DOMAIN u = DOMAIN topology \union {c} /\ u[c] = dc
      /\ \A a \in DOMAIN topology \ {c} : u[a] = topology[a]
  BY <1>1 DEF Inserted
<1>5. flaws' = IF c \notin DOMAIN topology THEN flaws ELSE flaws \union {"centre"}
  BY DEF AddCentre, Flawed
<1> HIDE DEF u
<1>6. WellFormed(u)
  BY <1>2, <1>3, <1>4 DEF WellFormed
<1>7. ASSUME c \in DOMAIN topology PROVE NetworkOK(u, flaws')
  BY <1>5, <1>6, <1>7 DEF NetworkOK
<1>8. ASSUME c \notin DOMAIN topology PROVE NetworkOK(u, flaws')
  <2>1. \A a \in DOMAIN topology : u[a] = topology[a]
    BY <1>4, <1>8
  <2>2. NamesKept(topology, u) /\ PeersKept(topology, u)
    BY <1>4, <2>1 DEF NamesKept, PeersKept
  <2>3. LinksKept(topology, u)
    BY <1>2, <1>4, <2>1 DEF LinksKept
  <2>4. PeersNamed(topology, u)
    <3> SUFFICES ASSUME NEW a \in DOMAIN u, NEW n \in DOMAIN u[a].nodes, NEW p \in u[a].nodes[n].peers,
                        a \notin DOMAIN topology
                 PROVE  IsNode(u, p)
      BY <2>1 DEF PeersNamed
    <3>1. a = c /\ p \in DOMAIN u[c].nodes
      BY <1>2, <1>4
    <3> QED
      BY <3>1 DEF IsNode
  <2> QED
    BY <1>5, <1>6, <1>8, <2>2, <2>3, <2>4, NetworkKept DEF TopologyInv
<1>9. NetworkOK(u, flaws')
  BY <1>7, <1>8
<1>10. GroupsOK(u, dataGroups', centreGroup', flaws')
  BY <1>1, <1>4, <1>5, GroupsKept DEF TopologyInv
<1> QED
  BY <1>9, <1>10 DEF TopologyInv, u

\* A list without repetitions has as many members as entries.
LEMMA AddDataGroupStep ==
  ASSUME TopologyInv, NEW g, NEW list \in [1..3 -> DOMAIN topology], AddDataGroup(g, list)
  PROVE  TopologyInv'
<1>1. /\ ToSet(list) \subseteq DOMAIN topology
      /\ dataGroups' = Inserted(dataGroups, g, ToSet(list))
      /\ UNCHANGED <<topology, centreGroup>>
      /\ flaws' = IF Cardinality(ToSet(list)) = Len(list) THEN flaws ELSE flaws \union {"group"}
  BY DEF AddDataGroup, Flawed
<1>2. Len(list) = 3
  BY DEF AddDataGroup
<1>3. NetworkOK(topology', flaws')
  BY <1>1 DEF TopologyInv, NetworkOK
<1>4. /\ DOMAIN dataGroups' = DOMAIN dataGroups \union {g} /\ dataGroups'[g] = ToSet(list)
      /\ \A h \in DOMAIN dataGroups \ {g} : dataGroups'[h] = dataGroups[h]
  BY <1>1 DEF Inserted
<1>5. "group" \notin flaws' => Cardinality(ToSet(list)) >= 3 /\ "group" \notin flaws
  BY <1>1, <1>2
<1>6. GroupsOK(topology', dataGroups', centreGroup', flaws')
  BY <1>1, <1>4, <1>5 DEF TopologyInv, GroupsOK
<1> QED
  BY <1>3, <1>6 DEF TopologyInv

LEMMA AddCentreGroupStep ==
  ASSUME TopologyInv, NEW list \in [1..2 -> DOMAIN dataGroups], AddCentreGroup(list)
  PROVE  TopologyInv'
<1>1. /\ ToSet(list) \subseteq DOMAIN dataGroups
      /\ centreGroup' = ToSet(list)
      /\ UNCHANGED <<topology, dataGroups>>
      /\ flaws' = IF Cardinality(ToSet(list)) = Len(list) THEN flaws ELSE flaws \union {"group"}
  BY DEF AddCentreGroup, Flawed
<1>2. Len(list) = 2
  BY DEF AddCentreGroup
<1>3. NetworkOK(topology', flaws')
  BY <1>1 DEF TopologyInv, NetworkOK
<1>4. "group" \notin flaws' => Cardinality(ToSet(list)) >= 2 /\ "group" \notin flaws
  BY <1>1, <1>2
<1>5. GroupsOK(topology', dataGroups', centreGroup', flaws')
  BY <1>1, <1>4 DEF TopologyInv, GroupsOK
<1> QED
  BY <1>3, <1>5 DEF TopologyInv

LEMMA DialsFacts ==
  ASSUME NEW a, NEW x, NEW b, NEW y, NEW e \in Dials(a, x, b, y)
  PROVE  e[3] \in {x, y}
BY DEF Dials

Relinked(v, a, b, left, right) == [v EXCEPT ![a].links = left, ![b].links = right]

LinkWritten(dials, a, b, R, Q, u) ==
  /\ SameNodes(Dialled(dials), u) /\ \A c \in DOMAIN u : CentreOK(u[c])
  /\ u[a].links = Inserted(topology[a].links, b, R)
  /\ u[b].links = Inserted(topology[b].links, a, Q)
  /\ \A c \in DOMAIN topology \ {a, b} : u[c].links = topology[c].links

\* The centres after a link was written on both sides.
LEMMA LinkedFacts ==
  ASSUME WellFormed(topology), NEW a \in DOMAIN topology, NEW b \in DOMAIN topology, a # b,
         NEW dials, NEW R, NEW Q, NEW u,
         u = Relinked(Dialled(dials), a, b, Inserted(topology[a].links, b, R), Inserted(topology[b].links, a, Q))
  PROVE  LinkWritten(dials, a, b, R, Q, u)
<1> DEFINE v == Dialled(dials)
           left == Inserted(topology[a].links, b, R)
           right == Inserted(topology[b].links, a, Q)
<1>1. /\ DOMAIN v = DOMAIN topology
      /\ \A c \in DOMAIN topology : CentreOK(v[c]) /\ v[c].links = topology[c].links
  BY DialledFacts
<1> HIDE DEF v, left, right
<1>2. u = [v EXCEPT ![a].links = left, ![b].links = right]
  BY DEF Relinked, v, left, right
<1>3. /\ DOMAIN u = DOMAIN topology
      /\ u[a] = [v[a] EXCEPT !.links = left] /\ u[b] = [v[b] EXCEPT !.links = right]
      /\ \A c \in DOMAIN topology \ {a, b} : u[c] = v[c]
  BY <1>1, <1>2
<1>4. ASSUME NEW c \in {a, b}, NEW links, u[c] = [v[c] EXCEPT !.links = links]
      PROVE  CentreOK(u[c]) /\ u[c].nodes = v[c].nodes /\ u[c].links = links
  <2>1. CentreOK(v[c])
    BY <1>1
  <2> QED
    BY <1>4, <2>1 DEF CentreOK
<1>5. /\ CentreOK(u[a]) /\ u[a].nodes = v[a].nodes /\ u[a].links = left
      /\ CentreOK(u[b]) /\ u[b].nodes = v[b].nodes /\ u[b].links = right
  BY <1>3, <1>4
<1>6. SameNodes(v, u)
  BY <1>1, <1>3, <1>5 DEF SameNodes
<1>7. \A c \in DOMAIN u : CentreOK(u[c])
  BY <1>1, <1>3, <1>5
<1> QED
  BY <1>1, <1>3, <1>5, <1>6, <1>7 DEF LinkWritten, v, left, right

\* What connect_centres does, for either of its two modes: relays of a that are
\* dialled by a node of b.
LEMMA LinkedStep ==
  ASSUME TopologyInv, NEW a \in DOMAIN topology, NEW b \in DOMAIN topology, a # b, NEW dials, NEW R,
         \A e \in dials : IsNode(topology, e[3]),
         \A r \in R : r \in DOMAIN topology[a].nodes
                      /\ \E y \in DOMAIN topology[b].nodes : Dials(a, r, b, y) \subseteq dials,
         topology' = Linked(a, b, dials, R), UNCHANGED <<dataGroups, centreGroup, flaws>>
  PROVE  TopologyInv'
<1>1. WellFormed(topology) /\ NetworkOK(topology, flaws)
  BY DEF TopologyInv, NetworkOK
<1>2. DOMAIN Dialled(dials) = DOMAIN topology
      /\ \A c \in DOMAIN topology : Dialled(dials)[c].links = topology[c].links
  BY <1>1, DialledFacts
<1>3. topology' = Relinked(Dialled(dials), a, b, Inserted(topology[a].links, b, R), Inserted(topology[b].links, a, R))
  BY <1>2 DEF Linked, Relinked
<1>4. /\ SameNodes(Dialled(dials), topology') /\ \A c \in DOMAIN topology' : CentreOK(topology'[c])
      /\ topology'[a].links = Inserted(topology[a].links, b, R)
      /\ topology'[b].links = Inserted(topology[b].links, a, R)
      /\ \A c \in DOMAIN topology \ {a, b} : topology'[c].links = topology[c].links
  <2>1. LinkWritten(dials, a, b, R, R, topology')
    BY <1>1, <1>3, LinkedFacts
  <2> QED
    BY <2>1 DEF LinkWritten
<1>5. ASSUME NEW r \in R PROVE Spans(topology', r, a, b)
  <2>1. r \in DOMAIN topology[a].nodes
    OBVIOUS
  <2>2. PICK y \in DOMAIN topology[b].nodes : Dials(a, r, b, y) \subseteq dials
    OBVIOUS
  <2> QED
    BY <1>1, <1>4, <2>1, <2>2, DialSpans
<1>6. NetworkOK(topology', flaws)
  BY <1>1, <1>4, <1>5, LinkKept
<1>7. DOMAIN topology' = DOMAIN topology
  BY <1>2, <1>4 DEF SameNodes
<1>8. GroupsOK(topology', dataGroups', centreGroup', flaws')
  BY <1>7, GroupsKept DEF TopologyInv
<1> QED
  BY <1>6, <1>8 DEF TopologyInv

LEMMA ConnectCentresStep ==
  ASSUME TopologyInv, NEW a \in DOMAIN topology, NEW b \in DOMAIN topology, ConnectCentres(a, b)
  PROVE  TopologyInv'
<1> DEFINE left == Live(topology[a])
           right == Live(topology[b])
           mesh == Mesh(a, left, b, right)
<1>1. left \subseteq DOMAIN topology[a].nodes /\ right \subseteq DOMAIN topology[b].nodes
  BY DEF Live
<1>2. a # b /\ right # {} /\ UNCHANGED <<dataGroups, centreGroup, flaws>>
  BY DEF ConnectCentres
<1>5. \/ topology' = Linked(a, b, mesh, left)
      \/ \E relay \in left, target \in Least(topology[b], right) :
           topology' = Linked(a, b, Dials(a, relay, b, target), {relay})
  BY Zenon DEF ConnectCentres
<1> HIDE DEF left, right, mesh
<1>3. CASE topology' = Linked(a, b, mesh, left)
  <2>1. ASSUME NEW e \in mesh PROVE IsNode(topology, e[3])
    <3>1. PICK x \in left, y \in right : e \in Dials(a, x, b, y)
      BY DEF Mesh, mesh
    <3>2. e[3] \in {x, y}
      BY <3>1, DialsFacts
    <3> QED
      BY <1>1, <3>2 DEF IsNode
  <2>2. ASSUME NEW r \in left
        PROVE  r \in DOMAIN topology[a].nodes
               /\ \E y \in DOMAIN topology[b].nodes : Dials(a, r, b, y) \subseteq mesh
    <3>1. PICK y \in right : TRUE
      BY <1>2
    <3>2. Dials(a, r, b, y) \subseteq mesh
      BY DEF Mesh, mesh
    <3> QED
      BY <1>1, <3>2
  <2> QED
    BY <1>2, <1>3, <2>1, <2>2, LinkedStep
<1>4. ASSUME NEW relay \in left, NEW target \in Least(topology[b], right),
             topology' = Linked(a, b, Dials(a, relay, b, target), {relay})
      PROVE  TopologyInv'
  <2>1. target \in right
    BY DEF Least
  <2>2. \A e \in Dials(a, relay, b, target) : IsNode(topology, e[3])
    BY <1>1, <2>1, DialsFacts DEF IsNode
  <2>3. \A r \in {relay} : r \in DOMAIN topology[a].nodes
           /\ \E y \in DOMAIN topology[b].nodes : Dials(a, r, b, y) \subseteq Dials(a, relay, b, target)
    BY <1>1, <2>1
  <2> QED
    BY <1>2, <1>4, <2>2, <2>3, LinkedStep
<1> QED
  BY <1>3, <1>4, <1>5

\* A failover: the records of both sides grow by the candidate, or the other side
\* has none and a centre was replaced before.
LEMMA FailoverRelayStep ==
  ASSUME TopologyInv, NEW a \in DOMAIN topology, NEW b \in DOMAIN topology, FailoverRelay(a, b)
  PROVE  TopologyInv'
<1>1. WellFormed(topology) /\ NetworkOK(topology, flaws)
  BY DEF TopologyInv, NetworkOK
<1>2. b \in DOMAIN topology[a].links /\ a # b /\ UNCHANGED <<dataGroups, centreGroup>>
  BY <1>1 DEF FailoverRelay, WellFormed
<1>3. PICK candidate \in Least(topology[a], Live(topology[a]) \ topology[a].links[b]),
           target \in Least(topology[b], Live(topology[b])) :
        LET dialled == [Dialled(Dials(a, candidate, b, target)) EXCEPT ![a].links[b] = @ \union {candidate}] IN
        IF a \in DOMAIN topology[b].links
        THEN topology' = [dialled EXCEPT ![b].links[a] = @ \union {candidate}] /\ UNCHANGED flaws
        ELSE topology' = dialled /\ flaws' = flaws \union {"panic"}
  BY DEF FailoverRelay
<1> DEFINE dials == Dials(a, candidate, b, target)
           v == Dialled(dials)
           R == topology[a].links[b] \union {candidate}
           Q == topology[b].links[a] \union {candidate}
           one == [v EXCEPT ![a].links[b] = @ \union {candidate}]
<1>4. /\ candidate \in DOMAIN topology[a].nodes /\ target \in DOMAIN topology[b].nodes
  BY DEF Least, Live
<1>5. \A e \in dials : IsNode(topology, e[3])
  BY <1>4, DialsFacts DEF IsNode
<1>6. /\ DOMAIN v = DOMAIN topology
      /\ \A c \in DOMAIN topology : CentreOK(v[c]) /\ v[c].links = topology[c].links
  BY <1>1, DialledFacts
<1>7. /\ a \in DOMAIN topology[b].links =>
           topology' = [one EXCEPT ![b].links[a] = @ \union {candidate}] /\ UNCHANGED flaws
      /\ a \notin DOMAIN topology[b].links => topology' = one /\ flaws' = flaws \union {"panic"}
  BY <1>3
<1> HIDE DEF dials, v
<1>8. CASE a \in DOMAIN topology[b].links
  <2>1. topology' = [v EXCEPT ![a].links = [topology[a].links EXCEPT ![b] = R],
                              ![b].links = [topology[b].links EXCEPT ![a] = Q]]
    BY <1>2, <1>6, <1>7, <1>8
  <2>2. /\ [topology[a].links EXCEPT ![b] = R] = Inserted(topology[a].links, b, R)
        /\ [topology[b].links EXCEPT ![a] = Q] = Inserted(topology[b].links, a, Q)
    BY <1>2, <1>8 DEF Inserted
  <2>3. topology' = Relinked(Dialled(dials), a, b, Inserted(topology[a].links, b, R), Inserted(topology[b].links, a, Q))
    BY <2>1, <2>2 DEF Relinked, v
  <2> HIDE DEF R, Q
  <2>4. /\ SameNodes(Dialled(dials), topology') /\ \A c \in DOMAIN topology' : CentreOK(topology'[c])
        /\ topology'[a].links = Inserted(topology[a].links, b, R)
        /\ topology'[b].links = Inserted(topology[b].links, a, Q)
        /\ \A c \in DOMAIN topology \ {a, b} : topology'[c].links = topology[c].links
    <3>1. LinkWritten(dials, a, b, R, Q, topology')
      BY <1>1, <1>2, <2>3, LinkedFacts
    <3> QED
      BY <3>1 DEF LinkWritten
  <2>5. ASSUME "centre" \notin flaws PROVE R = Q
    BY <1>1, <1>2, <2>5 DEF NetworkOK, Agree, R, Q
  <2>6. ASSUME flaws \intersect {"node", "centre"} = {}, NEW r \in R \union Q
        PROVE  Spans(topology', r, a, b) \/ Spans(topology', r, b, a)
    <3>1. r \in topology[a].links[b] \/ r = candidate
      BY <2>5, <2>6 DEF R
    <3>2. CASE r = candidate
      <4>1. Dials(a, candidate, b, target) \subseteq dials
        BY DEF dials
      <4> QED
        BY <1>1, <1>2, <1>4, <2>4, <3>2, <4>1, DialSpans
    <3>3. CASE r \in topology[a].links[b]
      <4>1. Spans(topology, r, a, b) \/ Spans(topology, r, b, a)
        BY <1>1, <1>2, <2>6, <3>3 DEF NetworkOK, Crosses
      <4>2. NamesKept(topology, topology') /\ PeersKept(topology, topology')
        BY <1>1, <1>5, <2>4, DialledKeeps
      <4> QED
        BY <4>1, <4>2, SpansKept
    <3> QED
      BY <3>1, <3>2, <3>3
  <2>7. NetworkOK(topology', flaws)
    BY <1>1, <1>2, <1>5, <2>4, <2>5, <2>6, LinkKept
  <2>8. DOMAIN topology' = DOMAIN topology /\ flaws' = flaws
    BY <1>6, <1>7, <1>8, <2>4 DEF SameNodes, v
  <2>9. GroupsOK(topology', dataGroups', centreGroup', flaws')
    BY <1>2, <2>8, GroupsKept DEF TopologyInv
  <2> QED
    BY <2>7, <2>8, <2>9 DEF TopologyInv
<1>9. CASE a \notin DOMAIN topology[b].links
  <2>1. "centre" \in flaws
    BY <1>1, <1>2, <1>9 DEF NetworkOK, Agree
  <2>2. topology' = [v EXCEPT ![a].links = [topology[a].links EXCEPT ![b] = R]]
    BY <1>6, <1>7, <1>9
  <2>3. DOMAIN [topology[a].links EXCEPT ![b] = R] = DOMAIN topology[a].links
    OBVIOUS
  <2>4. /\ DOMAIN topology' = DOMAIN topology
        /\ topology'[a] = [v[a] EXCEPT !.links = [topology[a].links EXCEPT ![b] = R]]
        /\ \A c \in DOMAIN topology \ {a} : topology'[c] = v[c]
    BY <1>6, <2>2
  <2> HIDE DEF R
  <2>5. CentreOK(topology'[a]) /\ DOMAIN topology'[a].links = DOMAIN topology[a].links
    BY <1>6, <2>3, <2>4 DEF CentreOK
  <2>6. WellFormed(topology')
    BY <1>1, <1>6, <2>4, <2>5 DEF WellFormed
  <2>7. NetworkOK(topology', flaws') /\ flaws \subseteq flaws'
    BY <1>7, <1>9, <2>1, <2>6 DEF NetworkOK
  <2>8. GroupsOK(topology', dataGroups', centreGroup', flaws')
    BY <1>2, <2>4, <2>7, GroupsKept DEF TopologyInv
  <2> QED
    BY <2>7, <2>8 DEF TopologyInv
<1> QED
  BY <1>8, <1>9

LEMMA TopologyStep == TopologyInv /\ [TopologyNext]_topologyVars => TopologyInv'
<1> SUFFICES ASSUME TopologyInv, [TopologyNext]_topologyVars PROVE TopologyInv'
  OBVIOUS
<1>1. CASE UNCHANGED topologyVars
  BY <1>1 DEF topologyVars, TopologyInv
<1>2. ASSUME NEW c, NEW nodes \in SUBSET TopologyNodes, NEW dead \in SUBSET nodes, AddCentre(c, nodes, dead) PROVE TopologyInv'
  BY <1>2, AddCentreStep
<1>3. ASSUME NEW c \in DOMAIN topology, FullMesh(c) PROVE TopologyInv'
  BY <1>3, FullMeshStep
<1>4. ASSUME NEW c \in DOMAIN topology, NEW n \in TopologyNodes, NEW alive \in BOOLEAN, AddNode(c, n, alive)
      PROVE  TopologyInv'
  BY <1>4, AddNodeStep
<1>5. ASSUME NEW c \in DOMAIN topology, NEW n \in DOMAIN topology[c].nodes,
             NEW alive \in BOOLEAN, MarkNode(c, n, alive)
      PROVE  TopologyInv'
  BY <1>5, MarkNodeStep
<1>6. ASSUME NEW c \in DOMAIN topology, NEW n \in DOMAIN topology[c].nodes,
             NEW score \in Scores, UpdateMetrics(c, n, score)
      PROVE  TopologyInv'
  BY <1>6, UpdateMetricsStep
<1>7. ASSUME NEW c \in DOMAIN topology, NEW b \in DOMAIN topology, ConnectCentres(c, b) PROVE TopologyInv'
  BY <1>7, ConnectCentresStep
<1>8. ASSUME NEW c \in DOMAIN topology, NEW b \in DOMAIN topology, FailoverRelay(c, b) PROVE TopologyInv'
  BY <1>8, FailoverRelayStep
<1>9. ASSUME NEW g, NEW list \in [1..3 -> DOMAIN topology], AddDataGroup(g, list) PROVE TopologyInv'
  BY <1>9, AddDataGroupStep
<1>10. ASSUME NEW list \in [1..2 -> DOMAIN dataGroups], AddCentreGroup(list) PROVE TopologyInv'
  BY <1>10, AddCentreGroupStep
<1> QED
  BY <1>1, <1>2, <1>3, <1>4, <1>5, <1>6, <1>7, <1>8, <1>9, <1>10, Zenon DEF TopologyNext

LEMMA TopologyStart == TopologyInit => TopologyInv
BY DEF TopologyInit, TopologyInv, NetworkOK, GroupsOK, WellFormed, Known, Agree, Crosses

LEMMA TopologyFollows == TopologyInv => TopologyHolds
<1> SUFFICES ASSUME TopologyInv PROVE TopologyHolds
  OBVIOUS
<1>1. ASSUME "centre" \notin flaws PROVE LinksAgree /\ PeersKnown /\ "panic" \notin flaws
  <2>1. Known(topology) /\ Agree(topology) /\ "panic" \notin flaws
    BY <1>1 DEF TopologyInv, NetworkOK
  <2>2. LinksAgree
    BY <2>1 DEF Agree, LinksAgree
  <2>3. PeersKnown
    BY <2>1 DEF Known, IsNode, PeersKnown
  <2> QED
    BY <2>1, <2>2, <2>3
<1>2. ASSUME flaws \subseteq {"node"} PROVE Validate
  <2>1. "centre" \notin flaws /\ "group" \notin flaws
    BY <1>2
  <2> QED
    BY <1>1, <2>1 DEF TopologyInv, GroupsOK, Validate
<1>3. ASSUME flaws \intersect {"node", "centre"} = {} PROVE RelaysCross
  <2>1. Crosses(topology)
    BY <1>3 DEF TopologyInv, NetworkOK
  <2> SUFFICES ASSUME NEW a \in DOMAIN topology, NEW b \in DOMAIN topology,
                      b \in DOMAIN topology[a].links, NEW r \in topology[a].links[b]
               PROVE  \E c, d \in {a, b} : c # d /\ r \in DOMAIN topology[c].nodes /\
                        \E x \in topology[c].nodes[r].peers :
                          x \in DOMAIN topology[d].nodes /\ r \in topology[d].nodes[x].peers
    BY DEF RelaysCross
  <2>2. Spans(topology, r, a, b) \/ Spans(topology, r, b, a)
    BY <2>1 DEF Crosses
  <2> QED
    BY <2>2 DEF Spans
<1>4. PeersInNetwork
  <2>1. \A c \in DOMAIN topology : DOMAIN topology[c].nodes \subseteq TopologyNodes
    BY DEF TopologyInv, NetworkOK, WellFormed, CentreOK
  <2> QED
    BY <2>1 DEF PeersInNetwork, Adjacent, LiveNodes, Live
<1> QED
  BY <1>1, <1>2, <1>3, <1>4, RoutesAreShortest DEF TopologyHolds

\* After any sequence of calls of network_topology.rs, for every set of centres,
\* nodes and groups: the two records of a link agree, failover never unwraps a
\* record that is missing, validate() accepts and the relays of a link cross it in
\* both directions, unless a call that the code accepts replaced a centre, added a
\* node twice or listed a member of a group twice; and every route is a shortest
\* path of live nodes.
THEOREM TopologyTheorem == PartsSpec => []TopologyHolds
<1>1. PartsInit => TopologyInv
  BY PartsStart, TopologyStart
<1>2. TopologyInv /\ [PartsNext]_partsVars => TopologyInv'
  BY PartsStep, TopologyStep
<1> QED
  BY <1>1, <1>2, TopologyFollows, PTL DEF PartsSpec
=============================================================================
