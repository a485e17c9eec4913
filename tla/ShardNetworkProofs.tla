------------------------- MODULE ShardNetworkProofs -------------------------
(***************************************************************************)
(* What shared stream numbers make of the shard network, for any number of *)
(* nodes, shards, operations and frames on their way; and the directory    *)
(* that keeps the shards, for any number of requests that race in it.      *)
(***************************************************************************)
EXTENDS ShardNetwork, LocalStore, SumTheorems, NaturalsInduction, SequenceTheorems

-----------------------------------------------------------------------------
(* Nothing leaves the node *)

\* Only Self stores, and only the storage branch would store elsewhere or keep an
\* acknowledgement; the consensus branch comes first.
LocalInv ==
  /\ DOMAIN store = Nodes /\ DOMAIN acks = Nodes
  /\ SharesNeverLeave

LEMMA ConsensusTakesAll == Branch(STORAGE_STREAM) # "storage"
BY DEF Branch, STORAGE_STREAM, ONECOIN_CONSENSUS_STREAM

\* The dispatcher drops every frame of the data plane.
LEMMA DispatchDrops ==
  ASSUME NEW msg, Dispatch(msg)
  PROVE  UNCHANGED <<known, policy, store, manifest, acks, up, get, rep, answer, lost, used>>
BY ConsensusTakesAll DEF Dispatch

LEMMA LocalFrame ==
  ASSUME LocalInv, \A n \in Nodes : acks'[n] \subseteq acks[n], DOMAIN acks' = Nodes,
         NEW kept, store' = [store EXCEPT ![Self] = kept]
  PROVE  LocalInv'
<1>1. Self \notin Peers /\ Peers \subseteq Nodes
  BY ShardAssumption DEF Nodes
<1> QED
  BY <1>1 DEF LocalInv, SharesNeverLeave

LEMMA LocalSame == ASSUME LocalInv, UNCHANGED <<store, acks>> PROVE LocalInv'
BY DEF LocalInv, SharesNeverLeave

LEMMA LocalStep == LocalInv /\ [Next]_vars => LocalInv'
<1> SUFFICES ASSUME LocalInv, [Next]_vars PROVE LocalInv'
  OBVIOUS
<1>1. CASE Upload
  <2>1. CASE UNCHANGED store
    BY <1>1, <2>1, LocalSame DEF Upload
  <2>2. CASE UploadPlan
    <3>1. PICK stored : store' = [store EXCEPT ![Self] = @ \union stored]
      BY <2>2 DEF UploadPlan
    <3>2. store' = [store EXCEPT ![Self] = store[Self] \union stored]
      BY <3>1
    <3>3. acks' = acks
      BY <1>1 DEF Upload
    <3> QED
      BY <3>2, <3>3, LocalFrame DEF LocalInv
  <2> QED
    BY <1>1, <2>1, <2>2 DEF Upload
<1>2. CASE UploadStep
  <2>1. ASSUME NEW t \in Shards \X Peers, UploadAwait(t) PROVE LocalInv'
    BY <2>1 DEF UploadAwait, LocalInv, SharesNeverLeave
  <2>2. ASSUME NEW t \in Shards \X Peers, UploadSend(t) PROVE LocalInv'
    BY <2>2, LocalSame DEF UploadSend
  <2> QED
    BY <1>2, <2>1, <2>2, LocalSame DEF UploadStep, UploadTruncate, UploadWrite, UploadUnwritten
<1>3. CASE Get \/ GetStep \/ Repair
  BY <1>3, LocalSame DEF Get, GetStep, GetAsk, GetGivesUp, Repair
<1>4. CASE RepairStep
  <2>1. CASE RepairAwait
    BY <2>1 DEF RepairAwait, LocalInv, SharesNeverLeave
  <2>2. ASSUME NEW n \in Nodes, RepairTarget(n) PROVE LocalInv'
    <3>1. acks' = acks
      BY <2>2 DEF RepairTarget
    <3>2. CASE UNCHANGED store
      BY <3>1, <3>2, LocalSame
    <3>3. CASE store' = [store EXCEPT ![Self] = @ \union {RepairIndex}]
      <4>1. store' = [store EXCEPT ![Self] = store[Self] \union {RepairIndex}]
        BY <3>3
      <4> QED
        BY <3>1, <4>1, LocalFrame DEF LocalInv
    <3> QED
      BY <2>2, <3>2, <3>3 DEF RepairTarget
  <2>3. ASSUME NEW n \in Nodes, RepairSource(n) PROVE LocalInv'
    BY <2>3, LocalSame DEF RepairSource
  <2> QED
    BY <1>4, <2>1, <2>2, <2>3, LocalSame DEF RepairStep, RepairShard, RepairNoSource, RepairNoTarget, RepairEnd
<1>5. ASSUME NEW s \in Shards, NEW n \in Peers, Push(s, n) PROVE LocalInv'
  BY <1>5, LocalSame DEF Push
<1>6. ASSUME NEW msg \in net, Dispatch(msg) PROVE LocalInv'
  BY <1>6, DispatchDrops, LocalSame
<1>7. ASSUME NEW n \in Peers, Discovery(n) PROVE LocalInv'
  BY <1>7, LocalSame DEF Discovery
<1>8. ASSUME NEW p \in Policies, RefreshPolicy(p) PROVE LocalInv'
  BY <1>8, LocalSame DEF RefreshPolicy
<1>9. ASSUME NEW s \in Shards, LoseObject(s) PROVE LocalInv'
  <2>1. store' = [store EXCEPT ![Self] = store[Self] \ {s}] /\ acks' = acks
    BY <1>9 DEF LoseObject
  <2> QED
    BY <2>1, LocalFrame DEF LocalInv
<1>10. CASE Crash
  BY <1>10 DEF Crash, LocalInv, SharesNeverLeave
<1>11. CASE UNCHANGED vars
  BY <1>11, LocalSame DEF vars
<1> QED
  BY <1>1, <1>2, <1>3, <1>4, <1>5, <1>6, <1>7, <1>8, <1>9, <1>10, <1>11 DEF Next

LEMMA LocalAlways == Spec => []LocalInv
<1>1. Init => LocalInv
  BY DEF Init, LocalInv, SharesNeverLeave, Nodes
<1> QED
  BY <1>1, LocalStep, PTL DEF Spec

\* No peer ever holds a shard and no acknowledgement reaches a waiting task,
\* whatever is uploaded, pushed and repaired and for however long.
THEOREM NothingLeaves == Spec => []SharesNeverLeave
<1>1. LocalInv => SharesNeverLeave
  BY DEF LocalInv
<1> QED
  BY <1>1, LocalAlways, PTL

-----------------------------------------------------------------------------
(* The repair cycle *)

Plans == [Shards -> SUBSET Nodes]

Uploads ==
  [pc : {"sending", "writing"}, plan : Plans, failed : BOOLEAN,
   tasks : SUBSET (Shards \X Peers), waiting : SUBSET (Shards \X Peers), hung : BOOLEAN]

Cycles ==
  [pc : {"shard", "source", "target", "await", "hung"}, plan : Plans, peers : SUBSET Peers,
   policy : Policies, todo : SUBSET Shards, sources : SUBSET Nodes, targets : SUBSET Nodes,
   changed : {FALSE}]

\* Bytes come from Self alone, which is then in the placement, and so the
\* candidates outside the placement are peers, which never acknowledge.
CycleOk(r) ==
  r # Idle =>
    /\ r \in Cycles
    /\ r.pc = "source" => r.sources \subseteq r.plan[Min(r.todo)]
    /\ r.pc \in {"target", "await"} => Self \notin r.targets

RepairInv ==
  /\ known \subseteq Peers /\ policy \in Policies
  /\ manifest \in Plans \union {NoManifest, Torn}
  /\ up # Idle => up \in Uploads
  /\ CycleOk(rep)

LEMMA SelectionIsPlan == ASSUME NEW nodes \in SUBSET Nodes PROVE Plan(nodes) \in Plans
BY DEF Plan, Plans, SelectReplicas

LEMMA MinIsIn ==
  ASSUME NEW S \in SUBSET Nat, S # {}
  PROVE  Min(S) \in S
<1>1. PICK x \in S : \A y \in S : ~(<<y, x>> \in OpToRel(<, Nat))
  BY NatLessThanWellFounded, WFMin
<1>2. \A y \in S : ~(y < x)
  BY <1>1 DEF OpToRel
<1>3. \A y \in S : x =< y
  BY <1>2
<1> QED
  BY <1>3 DEF Min

LEMMA IdleFacts ==
  /\ Idle.pc = "idle"
  /\ \A r \in Cycles : r # Idle
<1>1. Idle.pc = "idle"
  BY DEF Idle
<1> QED
  BY <1>1 DEF Cycles

LEMMA CycleNext ==
  ASSUME NEW r \in Cycles, NEW i
  PROVE  CycleOk([r EXCEPT !.pc = "shard", !.todo = @ \ {i}])
BY DEF CycleOk, Cycles

LEMMA HangKeeps == ASSUME rep \in Cycles PROVE CycleOk(RepairHangs)
BY DEF CycleOk, Cycles, RepairHangs

\* A step of the cycle leaves the manifest alone and keeps the cycle in order.
LEMMA CycleStep ==
  ASSUME LocalInv, RepairInv, RepairStep
  PROVE  CycleOk(rep') /\ UNCHANGED <<manifest, store, lost>>
<1>1. rep.pc # "idle" => rep \in Cycles /\ CycleOk(rep)
  BY IdleFacts DEF RepairInv, CycleOk
<1>2. Idle.pc = "idle" /\ CycleOk(Idle)
  BY IdleFacts DEF CycleOk
<1>3. CASE RepairShard
  <2>1. rep \in Cycles /\ rep.pc = "shard" /\ UNCHANGED <<manifest, store, lost>>
    BY <1>1, <1>3 DEF RepairShard
  <2>2. CASE rep' = NextShard(rep)
    BY <2>1, <2>2, CycleNext DEF NextShard
  <2>3. CASE rep' = [rep EXCEPT !.pc = "source",
                       !.sources = rep.plan[RepairIndex] \intersect ({Self} \union rep.peers)]
    <3> DEFINE from == rep.plan[RepairIndex] \intersect ({Self} \union rep.peers)
    <3>1. from \in SUBSET Nodes /\ from \subseteq rep.plan[Min(rep.todo)]
      BY <2>1 DEF Cycles, Nodes, RepairIndex
    <3>2. rep' = [rep EXCEPT !.pc = "source", !.sources = from]
      BY <2>3
    <3> HIDE DEF from
    <3> QED
      BY <2>1, <3>1, <3>2 DEF CycleOk, Cycles
  <2> QED
    BY <1>3, <2>1, <2>2, <2>3 DEF RepairShard
<1>4. ASSUME NEW n \in Nodes, RepairSource(n) PROVE CycleOk(rep') /\ UNCHANGED <<manifest, store, lost>>
  <2>1. /\ rep \in Cycles /\ rep.pc = "source" /\ n \in rep.sources
        /\ rep.sources \subseteq rep.plan[Min(rep.todo)] /\ UNCHANGED <<manifest, store, lost>>
    BY <1>1, <1>4, IdleFacts DEF RepairSource, CycleOk
  <2>2. CASE rep' = [rep EXCEPT !.sources = @ \ {n}]
    BY <2>1, <2>2 DEF CycleOk, Cycles
  <2>3. CASE n = Self /\ rep' = RepairWithData
    <3> DEFINE to == ({Self} \union rep.peers) \ rep.plan[RepairIndex]
    <3>1. CASE rep' = NextShard(rep)
      BY <2>1, <3>1, CycleNext DEF NextShard
    <3>2. CASE rep' = [rep EXCEPT !.pc = "target", !.targets = to]
      <4>1. to \in SUBSET Nodes /\ Self \notin to
        BY <2>1, <2>3 DEF Cycles, Nodes, RepairIndex
      <4> HIDE DEF to
      <4> QED
        BY <2>1, <3>2, <4>1 DEF CycleOk, Cycles
    <3> QED
      BY <2>3, <3>1, <3>2 DEF RepairWithData
  <2>4. CASE rep' = RepairHangs
    BY <2>1, <2>4, HangKeeps
  <2> QED
    BY <1>4, <2>1, <2>2, <2>3, <2>4 DEF RepairSource
<1>5. CASE RepairNoSource \/ RepairNoTarget
  <2>1. rep \in Cycles /\ rep' = NextShard(rep) /\ UNCHANGED <<manifest, store, lost>>
    BY <1>1, <1>5 DEF RepairNoSource, RepairNoTarget
  <2> QED
    BY <2>1, CycleNext DEF NextShard
<1>6. ASSUME NEW n, rep.pc \in {"target", "await"}, rep' = DropTarget(n) PROVE CycleOk(rep')
  <2>1. rep \in Cycles /\ Self \notin rep.targets
    BY <1>1, <1>6, IdleFacts DEF CycleOk
  <2> QED
    BY <1>6, <2>1 DEF DropTarget, CycleOk, Cycles
<1>7. ASSUME NEW n \in Nodes, RepairTarget(n) PROVE CycleOk(rep') /\ UNCHANGED <<manifest, store, lost>>
  <2>1. /\ rep \in Cycles /\ rep.pc = "target" /\ n = Min(rep.targets) /\ rep.targets # {}
        /\ Self \notin rep.targets /\ UNCHANGED <<manifest, lost>>
    BY <1>1, <1>7, IdleFacts DEF RepairTarget, CycleOk
  <2>2. n \in rep.targets
    <3>1. rep.targets \in SUBSET Nat
      BY <2>1, ShardAssumption DEF Cycles
    <3> QED
      BY <2>1, <3>1, MinIsIn
  <2>3. CASE rep' = DropTarget(n)
    BY <1>6, <1>7, <2>1, <2>2, <2>3 DEF RepairTarget
  <2>4. CASE rep' = [rep EXCEPT !.pc = "await"]
    BY <1>7, <2>1, <2>2, <2>4 DEF RepairTarget, CycleOk, Cycles
  <2>5. CASE rep' = RepairHangs
    BY <1>7, <2>1, <2>2, <2>5, HangKeeps DEF RepairTarget
  <2> QED
    BY <1>7, <2>1, <2>2, <2>3, <2>4, <2>5 DEF RepairTarget
<1>8. CASE RepairAwait
  <2>1. acks[Self] = {}
    BY DEF LocalInv, SharesNeverLeave, Nodes
  <2>2. rep.pc = "await" /\ rep' = DropTarget(Min(rep.targets)) /\ UNCHANGED <<manifest, store, lost>>
    BY <1>8, <2>1 DEF RepairAwait
  <2> QED
    BY <1>6, <2>2
<1>9. CASE RepairEnd
  <2>1. rep \in Cycles
    BY <1>1, <1>9 DEF RepairEnd
  <2>2. rep.changed = FALSE
    BY <2>1 DEF Cycles
  <2> QED
    BY <1>2, <1>9, <2>2 DEF RepairEnd
<1> QED
  BY <1>3, <1>4, <1>5, <1>7, <1>8, <1>9 DEF RepairStep

LEMMA RepairStepKeeps == LocalInv /\ RepairInv /\ [Next]_vars => RepairInv'
<1> SUFFICES ASSUME LocalInv, RepairInv, [Next]_vars PROVE RepairInv'
  OBVIOUS
<1>1. CycleOk(Idle)
  BY DEF CycleOk
<1>2. CASE Upload
  <2>1. CASE up' = up
    BY <1>2, <2>1 DEF Upload, RepairInv
  <2>2. CASE UploadPlan
    <3>1. {Self} \union known \in SUBSET Nodes
      BY DEF RepairInv, Nodes
    <3>2. Plan({Self} \union known) \in Plans
      BY <3>1, SelectionIsPlan
    <3>3. up' \in Uploads
      BY <2>2, <3>2 DEF UploadPlan, Uploads
    <3> QED
      BY <1>2, <3>3 DEF Upload, RepairInv
  <2> QED
    BY <1>2, <2>1, <2>2 DEF Upload
<1>3. CASE UploadStep
  <2>1. up \in Uploads
    BY <1>3, IdleFacts DEF UploadStep, UploadSend, UploadAwait, UploadTruncate, UploadWrite,
       UploadUnwritten, Joined, RepairInv
  <2>2. UNCHANGED <<known, policy, rep>> /\ manifest' \in {manifest, Torn, up.plan}
    BY <1>3 DEF UploadStep, UploadSend, UploadAwait, UploadTruncate, UploadWrite, UploadUnwritten
  <2>3. ASSUME NEW t \in Shards \X Peers, UploadSend(t) \/ UploadAwait(t) PROVE up' \in Uploads
    <3>1. CASE up' = [up EXCEPT !.tasks = @ \ {t}, !.waiting = @ \union {t}]
      BY <2>1, <3>1 DEF Uploads
    <3>2. CASE up' = [up EXCEPT !.tasks = @ \ {t}, !.failed = TRUE]
      BY <2>1, <3>2 DEF Uploads
    <3>3. CASE up' = [up EXCEPT !.waiting = @ \ {t}]
      BY <2>1, <3>3 DEF Uploads
    <3>4. CASE up' = [up EXCEPT !.tasks = @ \ {t}, !.hung = TRUE]
      BY <2>1, <3>4 DEF Uploads
    <3> QED
      BY <2>3, <3>1, <3>2, <3>3, <3>4 DEF UploadSend, UploadAwait
  <2>4. CASE UploadTruncate
    BY <2>1, <2>2, <2>4 DEF UploadTruncate, Uploads, RepairInv
  <2>5. CASE UploadWrite \/ UploadUnwritten
    BY <2>1, <2>2, <2>5 DEF UploadWrite, UploadUnwritten, Uploads, RepairInv
  <2>6. ASSUME NEW t \in Shards \X Peers, UploadSend(t) \/ UploadAwait(t) PROVE RepairInv'
    <3>1. manifest' = manifest
      BY <2>6 DEF UploadSend, UploadAwait
    <3> QED
      BY <2>2, <2>3, <2>6, <3>1 DEF RepairInv
  <2> QED
    BY <1>3, <2>4, <2>5, <2>6 DEF UploadStep
<1>4. CASE Get \/ GetStep
  BY <1>4 DEF Get, GetStep, GetAsk, GetGivesUp, RepairInv
<1>5. CASE Repair
  <2>1. manifest \in Plans
    BY <1>5 DEF Repair, Parsable, RepairInv
  <2>2. CycleOk(rep')
    BY <1>5, <2>1 DEF Repair, RepairInv, CycleOk, Cycles
  <2> QED
    BY <1>5, <2>2 DEF Repair, RepairInv
<1>6. CASE RepairStep
  <2>1. CycleOk(rep') /\ manifest' = manifest
    BY <1>6, CycleStep
  <2>2. UNCHANGED <<known, policy, up>>
    BY <1>6 DEF RepairStep, RepairShard, RepairSource, RepairNoSource, RepairTarget, RepairAwait,
       RepairNoTarget, RepairEnd
  <2> QED
    BY <2>1, <2>2 DEF RepairInv
<1>7. ASSUME NEW s \in Shards, NEW n \in Peers, Push(s, n) PROVE RepairInv'
  BY <1>7 DEF Push, RepairInv
<1>8. ASSUME NEW msg \in net, Dispatch(msg) PROVE RepairInv'
  BY <1>8, DispatchDrops DEF RepairInv
<1>9. ASSUME NEW n \in Peers, Discovery(n) PROVE RepairInv'
  BY <1>9 DEF Discovery, RepairInv
<1>10. ASSUME NEW p \in Policies, RefreshPolicy(p) PROVE RepairInv'
  BY <1>10 DEF RefreshPolicy, RepairInv
<1>11. ASSUME NEW s \in Shards, LoseObject(s) PROVE RepairInv'
  BY <1>11 DEF LoseObject, RepairInv
<1>12. CASE Crash
  BY <1>1, <1>12 DEF Crash, RepairInv
<1>13. CASE UNCHANGED vars
  BY <1>13 DEF vars, RepairInv
<1> QED
  BY <1>2, <1>3, <1>4, <1>5, <1>6, <1>7, <1>8, <1>9, <1>10, <1>11, <1>12, <1>13 DEF Next

LEMMA RepairAlways == Spec => [](LocalInv /\ RepairInv)
<1>1. Init => RepairInv
  BY DEF Init, RepairInv, Policies, CycleOk
<1> QED
  BY <1>1, RepairStepKeeps, LocalAlways, PTL DEF Spec

\* A repair cycle never changes a manifest, however peers come and go and however
\* it overlaps with an upload.
THEOREM RepairIsIdle == Spec => RepairWritesNothing
<1>1. LocalInv /\ RepairInv /\ [Next]_vars => [rep' # rep => manifest' = manifest]_vars
  <2> SUFFICES ASSUME LocalInv, RepairInv, Next, rep' # rep PROVE manifest' = manifest
    OBVIOUS
  <2>1. CASE RepairStep
    BY <2>1, CycleStep
  <2>2. CASE Repair \/ Crash
    BY <2>2 DEF Repair, Crash
  <2>3. ASSUME NEW msg \in net, Dispatch(msg) PROVE FALSE
    BY <2>3, DispatchDrops
  <2> QED
    BY <2>1, <2>2, <2>3 DEF Next, Upload, UploadStep, UploadSend, UploadAwait, UploadTruncate, UploadWrite,
       UploadUnwritten, Get, GetStep, GetAsk, GetGivesUp, Push, Discovery, RefreshPolicy, LoseObject
<1> QED
  BY <1>1, RepairAlways, PTL DEF Spec, RepairWritesNothing

-----------------------------------------------------------------------------
(* What "stored" is worth *)

Answers ==
  [up : {"none", "refused", "partial", "stored"},
   get : {"none", "not found", "error", "file", "insufficient"}]

Counted == [up : Nat, get : Nat, event : Nat]

Kept(plan) == \A s \in Shards : Self \in plan[s] => s \in store[Self] \union lost

Asked == get # Idle \/ answer.get = "insufficient"

Excused == lost # {} \/ ~Recoverable({s \in Shards : Self \in manifest[s]})

\* As long as there was no second upload: before the first has written its
\* manifest nothing can be read, and what it then answers "stored" was stored.
FirstUpload ==
  /\ Asked => Parsable(manifest)
  /\ up # Idle => ~Parsable(manifest) /\ answer.up # "stored" /\ (~up.failed => Kept(up.plan))
  /\ answer.up = "stored" /\ Parsable(manifest) => Kept(manifest)
  /\ answer.up = "stored" /\ Asked => Excused
  /\ answer.up = "stored" /\ answer.get \in {"error", "not found"} => ~Parsable(manifest)

ServeInv ==
  /\ used \in Counted /\ answer \in Answers
  /\ used.up = 0 => up = Idle /\ manifest = NoManifest /\ ~Asked /\ answer.up = "none"
  /\ used.up = 1 => FirstUpload

\* Objects are only lost, and remembered as lost.
LEMMA ServeFrame ==
  ASSUME ServeInv, UNCHANGED <<manifest, up, get, answer>>, used' \in Counted, used'.up = used.up,
         store[Self] \union lost \subseteq store'[Self] \union lost', lost \subseteq lost'
  PROVE  ServeInv'
<1>1. \A plan : Kept(plan) => Kept(plan)'
  BY DEF Kept
<1>2. Excused => Excused'
  BY DEF Excused, Recoverable
<1>3. Asked' <=> Asked
  BY DEF Asked
<1>4. FirstUpload => FirstUpload'
  BY <1>1, <1>2, <1>3 DEF FirstUpload, Parsable
<1> QED
  BY <1>3, <1>4 DEF ServeInv

LEMMA ServeSame ==
  ASSUME ServeInv, UNCHANGED <<store, manifest, up, get, answer, lost, used>>
  PROVE  ServeInv'
BY ServeFrame DEF ServeInv

LEMMA ServeUpload == ASSUME LocalInv, RepairInv, ServeInv, Upload PROVE ServeInv'
<1>1. used' = [used EXCEPT !.up = used.up + 1] /\ UNCHANGED <<manifest, get>> /\ up = Idle
  BY DEF Upload
<1>2. used.up \in Nat /\ used' \in Counted /\ used'.up = used.up + 1
  BY <1>1 DEF ServeInv, Counted
<1>3. answer' \in Answers /\ answer'.get = answer.get /\ (used.up = 0 => answer'.up # "stored")
  BY DEF Upload, UploadPlan, ServeInv, Answers
<1>4. ASSUME used.up = 0 PROVE FirstUpload'
  <2>1. manifest' = NoManifest /\ ~Asked' /\ answer'.up # "stored"
    BY <1>1, <1>3, <1>4 DEF ServeInv, Asked
  <2>2. ASSUME up' # Idle, ~up'.failed PROVE Kept(up.plan)'
    <3>1. UploadPlan
      BY <1>1, <2>2 DEF Upload
    <3> DEFINE plan == Plan({Self} \union known)
               own == {s \in Shards : Self \in plan[s]}
    <3>2. PICK stored \in SUBSET own :
            /\ store' = [store EXCEPT ![Self] = @ \union stored]
            /\ up'.plan = plan /\ (FailuresOf(own, stored) # {} => up'.failed)
      <4>1. PICK stored \in SUBSET own :
              /\ store' = [store EXCEPT ![Self] = @ \union stored]
              /\ up' = [pc |-> "sending", plan |-> plan, failed |-> FailuresOf(own, stored) # {},
                        tasks |-> {t \in Shards \X Peers : t[2] \in plan[t[1]]}, waiting |-> {},
                        hung |-> FALSE]
        BY <3>1, Zenon DEF UploadPlan
      <4> HIDE DEF plan, own
      <4> QED
        BY <4>1
    <3>3. own \subseteq stored
      BY <2>2, <3>2 DEF FailuresOf
    <3>4. stored \subseteq store'[Self]
      BY <3>2 DEF LocalInv, Nodes
    <3> QED
      BY <3>2, <3>3, <3>4 DEF Kept
  <2> QED
    BY <2>1, <2>2 DEF FirstUpload, Parsable
<1> QED
  BY <1>2, <1>3, <1>4 DEF ServeInv

LEMMA ServeUploadStep == ASSUME LocalInv, RepairInv, ServeInv, UploadStep PROVE ServeInv'
<1>1. up # Idle /\ up \in Uploads
  BY IdleFacts DEF UploadStep, UploadSend, UploadAwait, UploadTruncate, UploadWrite,
     UploadUnwritten, Joined, RepairInv
<1>2. UNCHANGED <<store, get, lost, used>>
  BY DEF UploadStep, UploadSend, UploadAwait, UploadTruncate, UploadWrite, UploadUnwritten
<1>3. used.up # 0 /\ used.up \in Nat /\ used \in Counted /\ answer \in Answers
  BY <1>1 DEF ServeInv, Counted
<1>4. SUFFICES ASSUME used.up = 1 PROVE answer' \in Answers /\ FirstUpload'
  <2>1. answer' = answer \/ answer' = UploadAnswer
    BY DEF UploadStep, UploadSend, UploadAwait, UploadTruncate, UploadWrite, UploadUnwritten
  <2>2. UploadAnswer \in Answers
    BY DEF UploadAnswer, Answers
  <2> QED
    BY <1>2, <1>3, <1>4, <2>1, <2>2 DEF ServeInv
<1>5. ~Parsable(manifest) /\ answer.up # "stored" /\ (~up.failed => Kept(up.plan)) /\ ~Asked
  BY <1>1, <1>4 DEF ServeInv, FirstUpload
<1>6. CASE UploadWrite \/ UploadUnwritten
  <2>1. up' = Idle /\ manifest' \in {up.plan, Torn, manifest} /\ answer' = UploadAnswer
    BY <1>6 DEF UploadWrite, UploadUnwritten
  <2>2. answer' \in Answers /\ answer'.get = "none" /\ (answer'.up = "stored" <=> ~up.failed)
    BY <2>1 DEF UploadAnswer, Answers
  <2>3. ~Asked'
    BY <1>2, <1>5, <2>2 DEF Asked
  <2>4. ~up.failed /\ Parsable(manifest)' => Kept(manifest)'
    BY <1>2, <1>5, <2>1 DEF Kept, Parsable
  <2> QED
    BY <2>1, <2>2, <2>3, <2>4 DEF FirstUpload
<1>7. ASSUME answer' = answer, up' \in Uploads, up'.plan = up.plan, up.failed => up'.failed,
             manifest' \in {manifest, Torn}
      PROVE  answer' \in Answers /\ FirstUpload'
  <2>1. ~Parsable(manifest)' /\ ~Asked'
    BY <1>2, <1>5, <1>7 DEF Parsable, Asked
  <2>2. ~up'.failed => Kept(up.plan)'
    BY <1>2, <1>5, <1>7 DEF Kept
  <2> QED
    BY <1>3, <1>5, <1>7, <2>1, <2>2 DEF FirstUpload
<1>8. CASE UploadTruncate
  BY <1>1, <1>7, <1>8 DEF UploadTruncate, Uploads
<1>9. ASSUME NEW t \in Shards \X Peers, UploadSend(t) \/ UploadAwait(t)
      PROVE  answer' \in Answers /\ FirstUpload'
  <2>1. answer' = answer /\ manifest' = manifest
    BY <1>9 DEF UploadSend, UploadAwait
  <2>2. CASE up' = [up EXCEPT !.tasks = @ \ {t}, !.waiting = @ \union {t}]
    BY <1>1, <1>7, <2>1, <2>2 DEF Uploads
  <2>3. CASE up' = [up EXCEPT !.tasks = @ \ {t}, !.failed = TRUE]
    BY <1>1, <1>7, <2>1, <2>3 DEF Uploads
  <2>4. CASE up' = [up EXCEPT !.waiting = @ \ {t}]
    BY <1>1, <1>7, <2>1, <2>4 DEF Uploads
  <2>5. CASE up' = [up EXCEPT !.tasks = @ \ {t}, !.hung = TRUE]
    BY <1>1, <1>7, <2>1, <2>5 DEF Uploads
  <2> QED
    BY <1>9, <2>2, <2>3, <2>4, <2>5 DEF UploadSend, UploadAwait
<1> QED
  BY <1>6, <1>8, <1>9 DEF UploadStep

\* A download that cannot be served finds every shard of the placement that was
\* not lost, so the placement itself is too small or something was lost.
LEMMA ServeGet == ASSUME RepairInv, ServeInv, Get PROVE ServeInv'
<1>1. UNCHANGED <<store, manifest, up, lost>> /\ used' \in Counted /\ used'.up = used.up
  <2>1. UNCHANGED <<store, manifest, up, lost>> /\ used' = [used EXCEPT !.get = used.get + 1]
    BY DEF Get
  <2>2. used \in Counted
    BY DEF ServeInv
  <2> QED
    BY <2>1, <2>2 DEF Counted
<1>2. answer' \in Answers /\ answer'.up = answer.up
  BY DEF Get, ServeInv, Answers
<1>3. CASE Parsable(manifest) /\ ~Recoverable(Present(manifest))
  <2>1. used.up # 0 /\ answer' = answer
    BY <1>3 DEF Get, Parsable, ServeInv
  <2>2. ASSUME Kept(manifest) PROVE Excused'
    <3>1. lost = {} => Present(manifest) = {s \in Shards : Self \in manifest[s]}
      BY <2>2 DEF Kept, Present
    <3>2. lost = {} => ~Recoverable({s \in Shards : Self \in manifest[s]})
      BY <1>3, <3>1
    <3> QED
      BY <1>1, <3>2 DEF Excused, Recoverable
  <2>3. FirstUpload => FirstUpload'
    BY <1>1, <1>3, <2>1, <2>2 DEF FirstUpload, Parsable, Kept
  <2> QED
    BY <1>1, <1>2, <2>1, <2>3 DEF ServeInv
<1>4. CASE ~(Parsable(manifest) /\ ~Recoverable(Present(manifest)))
  <2>1. /\ get' = get /\ get = Idle /\ answer'.get # "insufficient"
        /\ answer'.get \in {"error", "not found"} => ~Parsable(manifest)
    BY <1>4 DEF Get, ServeInv, Answers, Parsable
  <2>2. ~Asked'
    BY <2>1 DEF Asked
  <2>3. FirstUpload => FirstUpload'
    BY <1>1, <1>2, <2>1, <2>2 DEF FirstUpload, Parsable, Kept
  <2> QED
    BY <1>1, <1>2, <2>2, <2>3 DEF ServeInv
<1> QED
  BY <1>3, <1>4

LEMMA ServeGetStep == ASSUME ServeInv, GetStep PROVE ServeInv'
<1>1. get # Idle
  BY IdleFacts DEF GetStep, GetAsk, GetGivesUp
<1>2. UNCHANGED <<store, manifest, up, lost, used>>
  BY DEF GetStep, GetAsk, GetGivesUp
<1>3. /\ answer' \in Answers /\ answer'.up = answer.up
      /\ answer'.get = answer.get \/ answer'.get = "insufficient"
  BY DEF GetStep, GetAsk, GetGivesUp, ServeInv, Answers
<1>4. Asked /\ used.up # 0
  BY <1>1 DEF Asked, ServeInv
<1>5. FirstUpload => FirstUpload'
  BY <1>2, <1>3, <1>4 DEF FirstUpload, Parsable, Kept, Excused, Recoverable
<1> QED
  BY <1>2, <1>3, <1>4, <1>5 DEF ServeInv

LEMMA ServeCrash == ASSUME ServeInv, Crash PROVE ServeInv'
<1>1. /\ UNCHANGED <<store, manifest, lost, answer>> /\ up' = Idle /\ get' = Idle
      /\ used' \in Counted /\ used'.up = used.up
  BY DEF Crash, ServeInv, Counted
<1>2. Asked' => Asked
  BY <1>1 DEF Asked
<1>3. FirstUpload => FirstUpload'
  BY <1>1, <1>2 DEF FirstUpload, Parsable, Kept, Excused, Recoverable
<1> QED
  BY <1>1, <1>2, <1>3 DEF ServeInv

LEMMA ServeStep == LocalInv /\ RepairInv /\ ServeInv /\ [Next]_vars => ServeInv'
<1> SUFFICES ASSUME LocalInv, RepairInv, ServeInv, [Next]_vars PROVE ServeInv'
  OBVIOUS
<1>1. CASE Repair
  BY <1>1, ServeSame DEF Repair
<1>2. CASE RepairStep
  <2>1. UNCHANGED <<up, get, answer, used>>
    BY <1>2 DEF RepairStep, RepairShard, RepairSource, RepairNoSource, RepairTarget, RepairAwait,
       RepairNoTarget, RepairEnd
  <2> QED
    BY <1>2, <2>1, CycleStep, ServeSame
<1>3. ASSUME NEW s \in Shards, NEW n \in Peers, Push(s, n) PROVE ServeInv'
  BY <1>3, ServeSame DEF Push
<1>4. ASSUME NEW msg \in net, Dispatch(msg) PROVE ServeInv'
  BY <1>4, DispatchDrops, ServeSame
<1>5. ASSUME NEW e, used' = [used EXCEPT !.event = e], e \in Nat PROVE used' \in Counted /\ used'.up = used.up
  BY <1>5 DEF ServeInv, Counted
<1>6. used.event + 1 \in Nat
  BY DEF ServeInv, Counted
<1>7. ASSUME NEW n \in Peers, Discovery(n) PROVE ServeInv'
  BY <1>5, <1>6, <1>7, ServeFrame DEF Discovery
<1>8. ASSUME NEW p \in Policies, RefreshPolicy(p) PROVE ServeInv'
  BY <1>5, <1>6, <1>8, ServeFrame DEF RefreshPolicy
<1>9. ASSUME NEW s \in Shards, LoseObject(s) PROVE ServeInv'
  <2>1. store'[Self] = store[Self] \ {s} /\ lost' = lost \union {s}
    BY <1>9 DEF LoseObject, LocalInv, Nodes
  <2> QED
    BY <1>5, <1>6, <1>9, <2>1, ServeFrame DEF LoseObject
<1>10. CASE UNCHANGED vars
  BY <1>10, ServeSame DEF vars
<1> QED
  BY <1>1, <1>2, <1>3, <1>4, <1>7, <1>8, <1>9, <1>10, ServeUpload, ServeUploadStep, ServeGet, ServeGetStep,
     ServeCrash DEF Next

\* A file whose upload was answered "stored" reads back on this node, through
\* crashes, repairs and changes of peers, unless objects were destroyed, the
\* placement gives this node too few shards, or the manifest was not written.
THEOREM StoredReadsBack == Spec => []StoredIsServed
<1>1. Init => ServeInv
  BY DEF Init, ServeInv, Counted, Answers, Asked
<1>2. ServeInv => StoredIsServed
  <2> SUFFICES ASSUME ServeInv, answer.up = "stored", used.up = 1, Parsable(manifest)
               PROVE  \/ answer.get \in {"none", "file"}
                      \/ answer.get = "insufficient" /\ Excused
    BY DEF StoredIsServed, Excused
  <2> QED
    BY DEF ServeInv, FirstUpload, Asked, Answers
<1> QED
  BY <1>1, <1>2, ServeStep, RepairAlways, PTL DEF Spec

-----------------------------------------------------------------------------
(***************************************************************************)
(* The directory under the shards: LocalStore, whose puts are the single   *)
(* steps of an upload above, for any number of requests, files and shards. *)
(***************************************************************************)
PutSteps == {"exists", "measure", "open", "fill", "rename"}
Contents == {"absent", "empty", "full"}
Requests ==
  [step : PutSteps \union {"create", "write"}, file : Files, todo : Seq(StoredShards),
   handle : {"none", "part", "object", "gone"}]

TaskOk(r) == r = NoRequest \/ (r \in Requests /\ (r.step \in PutSteps => r.todo # <<>>))

DiskType ==
  /\ object \in [StoredShards -> Contents] /\ part \in [StoredShards -> Contents]
  /\ DOMAIN task = Tasks /\ task = [t \in Tasks |-> task[t]]
  /\ \A t \in Tasks : TaskOk(task[t])
  /\ acked \subseteq StoredShards /\ crashes \in Nat /\ errors \in Nat

\* A task that writes shard s, with the file it opened under that name.
Writes(t, s, steps, handle) ==
  task[t].step \in steps /\ Current(t) = s /\ task[t].handle = handle

\* Whoever opened the .part file last has it still open, and fills an empty file,
\* also when another put has renamed it meanwhile.
Healing(s) ==
  /\ part[s] # "absent" => \E t \in Tasks : Writes(t, s, {"fill", "rename"}, "part")
  /\ part[s] = "empty" => \E t \in Tasks : Writes(t, s, {"fill"}, "part")
  /\ object[s] = "empty" => \E t \in Tasks : Writes(t, s, {"fill"}, "object")

Calm == crashes = 0 /\ errors = 0

\* The inductive invariant.
DiskInv ==
  /\ DiskType
  /\ \A s \in acked : object[s] # "absent"
  /\ Calm => \A s \in StoredShards : Healing(s)

LEMMA RequestFacts ==
  ASSUME NEW r, TaskOk(r), r.step \in PutSteps
  PROVE  r \in Requests /\ Head(r.todo) \in StoredShards /\ r.todo # <<>>
BY DEF TaskOk, Requests, PutSteps, NoRequest

\* Going on to another step of the same put, with another file or the same.
LEMMA OtherStep ==
  ASSUME NEW r, TaskOk(r), r.step \in PutSteps, NEW step \in PutSteps,
         NEW handle \in {"none", "part", "object", "gone"}
  PROVE  /\ TaskOk([r EXCEPT !.step = step])
         /\ TaskOk([r EXCEPT !.step = step, !.handle = handle])
         /\ TaskOk([r EXCEPT !.handle = handle])
<1>1. r \in Requests /\ r.todo # <<>>
  BY RequestFacts
<1>2. /\ [r EXCEPT !.step = step] \in Requests /\ [r EXCEPT !.step = step].todo # <<>>
      /\ [r EXCEPT !.handle = handle] \in Requests /\ [r EXCEPT !.handle = handle].todo # <<>>
  BY <1>1 DEF Requests
<1>3. /\ [r EXCEPT !.step = step, !.handle = handle] \in Requests
      /\ [r EXCEPT !.step = step, !.handle = handle].todo # <<>>
  BY <1>1 DEF Requests
<1> QED
  BY <1>2, <1>3 DEF TaskOk

\* The end of one put.
LEMMA AfterFacts ==
  ASSUME NEW r, TaskOk(r), r.step \in PutSteps
  PROVE  TaskOk(After(r))
<1>1. r \in Requests /\ r.todo # <<>> /\ r.todo \in Seq(StoredShards)
  BY RequestFacts DEF Requests
<1>2. Tail(r.todo) \in Seq(StoredShards) /\ Len(Tail(r.todo)) = Len(r.todo) - 1 /\ Len(r.todo) \in Nat
  BY <1>1
<1>3. Len(r.todo) > 1 => Tail(r.todo) # <<>>
  <2> DEFINE tail == Tail(r.todo)
             length == Len(r.todo)
  <2>1. Len(tail) = length - 1 /\ length \in Nat
    BY <1>2
  <2>2. Len(<<>>) = 0
    OBVIOUS
  <2> HIDE DEF tail, length
  <2>3. length > 1 => tail # <<>>
    BY <2>1, <2>2
  <2> QED
    BY <2>3 DEF tail, length
<1> DEFINE tail == Tail(r.todo)
           step == IF Len(r.todo) > 1 THEN "exists" ELSE "create"
<1>4. After(r) = [r EXCEPT !.todo = tail, !.handle = "none", !.step = step]
  BY DEF After
<1>5. step \in {"exists", "create"} /\ tail \in Seq(StoredShards) /\ (step = "exists" => tail # <<>>)
  BY <1>2, <1>3
<1> HIDE DEF tail, step
<1>6. After(r) = [step |-> step, file |-> r.file, todo |-> tail, handle |-> "none"] /\ r.file \in Files
  BY <1>1, <1>4 DEF Requests
<1> QED
  BY <1>5, <1>6 DEF TaskOk, Requests, PutSteps

\* A task that is not writing takes a step that touches no shard.
LEMMA QuietStep ==
  ASSUME DiskInv, NEW t \in Tasks, NEW r, TaskOk(r), task' = [task EXCEPT ![t] = r],
         task[t].step \notin {"fill", "rename"},
         object' = object, part' = part, crashes' = crashes, errors' = errors,
         acked' \subseteq StoredShards, \A s \in acked' : object[s] # "absent"
  PROVE  DiskInv'
<1>1. /\ DOMAIN task' = Tasks /\ task' = [u \in Tasks |-> task'[u]] /\ task'[t] = r
      /\ \A u \in Tasks \ {t} : task'[u] = task[u]
  BY DEF DiskInv, DiskType
<1>2. DiskType'
  BY <1>1 DEF DiskInv, DiskType
<1>3. ASSUME NEW u \in Tasks, NEW s, NEW steps \in SUBSET {"fill", "rename"}, NEW h, Writes(u, s, steps, h)
      PROVE  Writes(u, s, steps, h)'
  <2>1. u # t
    BY <1>3 DEF Writes
  <2> QED
    BY <1>1, <1>3, <2>1 DEF Writes, Current
<1>4. ASSUME Calm', NEW s \in StoredShards PROVE Healing(s)'
  <2>1. Healing(s)
    BY <1>4 DEF DiskInv, Calm
  <2> QED
    BY <1>3, <2>1 DEF Healing
<1> QED
  BY <1>2, <1>4 DEF DiskInv

\* The process failed: the tasks that were writing are gone or give up.
LEMMA FailStep ==
  ASSUME DiskInv, DOMAIN task' = Tasks, task' = [u \in Tasks |-> task'[u]],
         \A u \in Tasks : TaskOk(task'[u]),
         object' = object, part' = part, acked' = acked,
         crashes' \in Nat, errors' \in Nat, ~Calm'
  PROVE  DiskInv'
BY DEF DiskInv, DiskType

\* Opening truncates the .part file, and who opens it fills it.
LEMMA OpenStep ==
  ASSUME DiskInv, NEW t \in Tasks, Open(t)
  PROVE  DiskInv'
<1> DEFINE s == Head(task[t].todo)
           r == [task[t] EXCEPT !.step = "fill", !.handle = "part"]
<1>1. TaskOk(task[t]) /\ task[t].step = "open" /\ task[t].step \in PutSteps /\ DOMAIN task = Tasks
  BY DEF DiskInv, DiskType, Open, PutSteps
<1>2. /\ s \in StoredShards /\ TaskOk(r)
      /\ r.step = "fill" /\ r.handle = "part" /\ r.todo = task[t].todo
  <2>1. task[t] \in Requests /\ s \in StoredShards
    BY <1>1, RequestFacts
  <2>2. TaskOk(r)
    <3>1. "fill" \in PutSteps /\ "part" \in {"none", "part", "object", "gone"}
      BY DEF PutSteps
    <3> QED
      BY <1>1, <3>1, OtherStep, Zenon
  <2> QED
    BY <2>1, <2>2 DEF Requests
<1>3. /\ task' = [task EXCEPT ![t] = r] /\ part' = [part EXCEPT ![s] = "empty"]
      /\ object' = object /\ acked' = acked /\ crashes' = crashes /\ errors' = errors
  BY <1>1 DEF Open, Current
<1> HIDE DEF r
<1>4. /\ DOMAIN task' = Tasks /\ task' = [u \in Tasks |-> task'[u]] /\ task'[t] = r
      /\ \A u \in Tasks \ {t} : task'[u] = task[u]
  BY <1>1, <1>3 DEF DiskInv, DiskType
<1>5. DiskType'
  BY <1>2, <1>3, <1>4 DEF DiskInv, DiskType, Contents
<1>6. ASSUME Calm', NEW x \in StoredShards PROVE Healing(x)'
  <2>1. Healing(x)
    BY <1>3, <1>6 DEF DiskInv, Calm
  <2>2. ASSUME NEW u \in Tasks, NEW steps \in SUBSET {"fill", "rename"}, NEW h, Writes(u, x, steps, h)
        PROVE  Writes(u, x, steps, h)'
    <3>1. u # t
      BY <1>1, <2>2 DEF Writes
    <3> QED
      BY <1>4, <2>2, <3>1 DEF Writes, Current
  <2>3. CASE x = s
    <3>1. Writes(t, x, {"fill"}, "part")' /\ Writes(t, x, {"fill", "rename"}, "part")'
      BY <1>2, <1>4, <2>3 DEF Writes, Current
    <3>2. object[x] = "empty" => \E u \in Tasks : Writes(u, x, {"fill"}, "object")'
      BY <2>1, <2>2 DEF Healing
    <3> QED
      BY <1>3, <3>1, <3>2 DEF Healing
  <2>4. CASE x # s
    <3>1. part'[x] = part[x] /\ object'[x] = object[x]
      BY <1>3, <2>4 DEF DiskInv, DiskType
    <3> QED
      BY <2>1, <2>2, <3>1 DEF Healing
  <2> QED
    BY <2>3, <2>4
<1> QED
  BY <1>3, <1>5, <1>6 DEF DiskInv

\* Filling repairs the file that is open, under whichever name it is now.
LEMMA FillStep ==
  ASSUME DiskInv, NEW t \in Tasks, Fill(t)
  PROVE  DiskInv'
<1> DEFINE s == Head(task[t].todo)
           r == [task[t] EXCEPT !.step = "rename"]
<1>1. TaskOk(task[t]) /\ task[t].step = "fill" /\ task[t].step \in PutSteps /\ DOMAIN task = Tasks
  BY DEF DiskInv, DiskType, Fill, PutSteps
<1>2. /\ s \in StoredShards /\ TaskOk(r)
      /\ r.step = "rename" /\ r.handle = task[t].handle /\ r.todo = task[t].todo
  <2>1. task[t] \in Requests /\ s \in StoredShards
    BY <1>1, RequestFacts
  <2>2. TaskOk(r)
    <3>1. "rename" \in PutSteps /\ "part" \in {"none", "part", "object", "gone"}
      BY DEF PutSteps
    <3> QED
      BY <1>1, <3>1, OtherStep, Zenon
  <2> QED
    BY <2>1, <2>2 DEF Requests
<1>3. /\ task' = [task EXCEPT ![t] = r]
      /\ part' = IF task[t].handle = "part" THEN [part EXCEPT ![s] = "full"] ELSE part
      /\ object' = IF task[t].handle = "object" THEN [object EXCEPT ![s] = "full"] ELSE object
      /\ acked' = acked /\ crashes' = crashes /\ errors' = errors
  BY <1>1 DEF Fill, Current, Goto
<1> HIDE DEF r
<1>4. /\ DOMAIN task' = Tasks /\ task' = [u \in Tasks |-> task'[u]] /\ task'[t] = r
      /\ \A u \in Tasks \ {t} : task'[u] = task[u]
  BY <1>1, <1>3 DEF DiskInv, DiskType
<1>5. /\ part' \in [StoredShards -> Contents] /\ object' \in [StoredShards -> Contents]
      /\ \A x \in StoredShards : part'[x] = part[x] \/ (x = s /\ task[t].handle = "part" /\ part'[x] = "full")
      /\ \A x \in StoredShards : object'[x] = object[x] \/ (x = s /\ task[t].handle = "object" /\ object'[x] = "full")
      /\ task[t].handle = "part" => part'[s] = "full"
      /\ task[t].handle = "object" => object'[s] = "full"
  BY <1>2, <1>3 DEF DiskInv, DiskType, Contents
<1>6. DiskType'
  BY <1>2, <1>3, <1>4, <1>5 DEF DiskInv, DiskType
<1>7. ASSUME Calm', NEW x \in StoredShards PROVE Healing(x)'
  <2>1. Healing(x)
    BY <1>3, <1>7 DEF DiskInv, Calm
  <2>2. ASSUME NEW u \in Tasks, NEW steps \in SUBSET {"fill", "rename"}, NEW h, Writes(u, x, steps, h), u # t
        PROVE  Writes(u, x, steps, h)'
    BY <1>4, <2>2 DEF Writes, Current
  <2>3. part'[x] # "absent" => \E u \in Tasks : Writes(u, x, {"fill", "rename"}, "part")'
    <3> SUFFICES ASSUME part'[x] # "absent" PROVE \E u \in Tasks : Writes(u, x, {"fill", "rename"}, "part")'
      OBVIOUS
    <3>1. CASE x = s /\ task[t].handle = "part"
      <4>1. Writes(t, x, {"fill", "rename"}, "part")'
        BY <1>2, <1>4, <3>1 DEF Writes, Current
      <4> QED
        BY <4>1
    <3>2. CASE ~(x = s /\ task[t].handle = "part")
      <4>1. PICK u \in Tasks : Writes(u, x, {"fill", "rename"}, "part")
        BY <1>5, <2>1, <3>2 DEF Healing
      <4>2. u # t
        BY <4>1, <3>2 DEF Writes, Current
      <4> QED
        BY <4>1, <4>2, <2>2
    <3> QED
      BY <3>1, <3>2
  <2>4. part'[x] = "empty" => \E u \in Tasks : Writes(u, x, {"fill"}, "part")'
    <3> SUFFICES ASSUME part'[x] = "empty" PROVE \E u \in Tasks : Writes(u, x, {"fill"}, "part")'
      OBVIOUS
    <3>1. part[x] = "empty" /\ ~(x = s /\ task[t].handle = "part")
      BY <1>5
    <3>2. PICK u \in Tasks : Writes(u, x, {"fill"}, "part")
      BY <2>1, <3>1 DEF Healing
    <3>3. u # t
      BY <3>1, <3>2 DEF Writes, Current
    <3> QED
      BY <3>2, <3>3, <2>2
  <2>5. object'[x] = "empty" => \E u \in Tasks : Writes(u, x, {"fill"}, "object")'
    <3> SUFFICES ASSUME object'[x] = "empty" PROVE \E u \in Tasks : Writes(u, x, {"fill"}, "object")'
      OBVIOUS
    <3>1. object[x] = "empty" /\ ~(x = s /\ task[t].handle = "object")
      BY <1>5
    <3>2. PICK u \in Tasks : Writes(u, x, {"fill"}, "object")
      BY <2>1, <3>1 DEF Healing
    <3>3. u # t
      BY <3>1, <3>2 DEF Writes, Current
    <3> QED
      BY <3>2, <3>3, <2>2
  <2> QED
    BY <2>3, <2>4, <2>5 DEF Healing
<1>8. \A x \in acked' : object'[x] # "absent"
  BY <1>3, <1>5 DEF DiskInv, DiskType
<1> QED
  BY <1>6, <1>7, <1>8 DEF DiskInv

\* Renaming takes the .part file away from all who have it open: their file is the
\* object now, so one that was empty is still filled.
LEMMA RenameStep ==
  ASSUME DiskInv, NEW t \in Tasks, Rename(t)
  PROVE  DiskInv'
<1> DEFINE s == Head(task[t].todo)
           r == After(task[t])
<1>1. TaskOk(task[t]) /\ task[t].step = "rename" /\ task[t].step \in PutSteps /\ DOMAIN task = Tasks
  BY DEF DiskInv, DiskType, Rename, PutSteps
<1>2. s \in StoredShards /\ TaskOk(r)
  BY <1>1, RequestFacts, AfterFacts
<1>3. crashes' = crashes /\ errors' = errors
  BY DEF Rename
<1>4. CASE part[s] = "absent"
  <2>1. task' = [task EXCEPT ![t] = r] /\ object' = object /\ part' = part /\ acked' = acked
    BY <1>1, <1>4 DEF Rename, Current
  <2> HIDE DEF r
  <2>2. /\ DOMAIN task' = Tasks /\ task' = [u \in Tasks |-> task'[u]] /\ task'[t] = r
        /\ \A u \in Tasks \ {t} : task'[u] = task[u]
    BY <1>1, <2>1 DEF DiskInv, DiskType
  <2>3. DiskType'
    BY <1>2, <1>3, <2>1, <2>2 DEF DiskInv, DiskType
  <2>4. ASSUME Calm', NEW x \in StoredShards PROVE Healing(x)'
    <3>1. Healing(x)
      BY <1>3, <2>4 DEF DiskInv, Calm
    <3>2. ASSUME NEW u \in Tasks, NEW steps \in SUBSET {"fill", "rename"}, NEW h,
                 Writes(u, x, steps, h), u # t
          PROVE  Writes(u, x, steps, h)'
      BY <2>2, <3>2 DEF Writes, Current
    <3>3. part[x] # "absent" => \E u \in Tasks : Writes(u, x, {"fill", "rename"}, "part")'
      <4> SUFFICES ASSUME part[x] # "absent" PROVE \E u \in Tasks : Writes(u, x, {"fill", "rename"}, "part")'
        OBVIOUS
      <4>1. PICK u \in Tasks : Writes(u, x, {"fill", "rename"}, "part")
        BY <3>1 DEF Healing
      <4>2. u # t
        BY <1>4, <4>1 DEF Writes, Current
      <4> QED
        BY <4>1, <4>2, <3>2
    <3>4. \A u \in Tasks, h \in {"part", "object"} : Writes(u, x, {"fill"}, h) => Writes(u, x, {"fill"}, h)'
      BY <1>1, <3>2 DEF Writes
    <3> QED
      BY <2>1, <3>1, <3>3, <3>4 DEF Healing
  <2> QED
    BY <2>1, <2>3, <2>4 DEF DiskInv
<1>5. CASE part[s] # "absent"
  <2>1. /\ object' = [object EXCEPT ![s] = part[s]] /\ part' = [part EXCEPT ![s] = "absent"]
        /\ task' = [u \in Tasks |-> IF u = t THEN r ELSE Moved(u, s)]
        /\ acked' = acked \union {s}
    BY <1>1, <1>5 DEF Rename, Current
  <2> HIDE DEF r
  <2>2. /\ DOMAIN task' = Tasks /\ task' = [u \in Tasks |-> task'[u]] /\ task'[t] = r
        /\ \A u \in Tasks \ {t} : task'[u] = Moved(u, s)
    BY <2>1
  <2>3. ASSUME NEW u \in Tasks
        PROVE  /\ TaskOk(Moved(u, s))
               /\ \/ Moved(u, s) = task[u] /\ ~(Putting(u) /\ Current(u) = s)
                  \/ /\ task[u] \in Requests
                     /\ \E h \in {"none", "part", "object", "gone"} :
                          /\ Moved(u, s) = [task[u] EXCEPT !.handle = h]
                          /\ task[u].handle = "part" => h = "object"
    <3>1. TaskOk(task[u])
      BY DEF DiskInv, DiskType
    <3>2. CASE Putting(u) /\ Current(u) = s
      <4>1. task[u].step \in PutSteps
        BY <3>2 DEF Putting, PutSteps
      <4>2. task[u] \in Requests /\ task[u].handle \in {"none", "part", "object", "gone"}
        BY <3>1, <4>1, RequestFacts DEF Requests
      <4>3. PICK h \in {"none", "part", "object", "gone"} :
              /\ Moved(u, s) = [task[u] EXCEPT !.handle = h]
              /\ task[u].handle = "part" => h = "object"
        BY <3>2, <4>2 DEF Moved
      <4>4. TaskOk(Moved(u, s))
        <5>1. TaskOk([task[u] EXCEPT !.handle = h])
          BY <3>1, <4>1, OtherStep, Zenon
        <5> QED
          BY <4>3, <5>1
      <4> QED
        BY <4>2, <4>3, <4>4
    <3>3. CASE ~(Putting(u) /\ Current(u) = s)
      BY <3>1, <3>3 DEF Moved
    <3> QED
      BY <3>2, <3>3
  <2>4. /\ object' \in [StoredShards -> Contents] /\ part' \in [StoredShards -> Contents]
        /\ object'[s] = part[s] /\ part'[s] = "absent"
        /\ \A x \in StoredShards \ {s} : object'[x] = object[x] /\ part'[x] = part[x]
    BY <1>2, <2>1 DEF DiskInv, DiskType, Contents
  <2>5. DiskType'
    <3>1. \A u \in Tasks : TaskOk(task'[u])
      BY <1>2, <2>2, <2>3
    <3> QED
      BY <1>2, <1>3, <2>1, <2>2, <2>4, <3>1 DEF DiskInv, DiskType
  <2>6. \A x \in acked' : object'[x] # "absent"
    BY <1>5, <2>1, <2>4 DEF DiskInv, DiskType
  <2>7. ASSUME Calm', NEW x \in StoredShards PROVE Healing(x)'
    <3>1. Healing(x)
      BY <1>3, <2>7 DEF DiskInv, Calm
    <3>2. CASE x = s
      <4>1. object'[x] = "empty" => \E u \in Tasks : Writes(u, x, {"fill"}, "object")'
        <5> SUFFICES ASSUME part[s] = "empty" PROVE \E u \in Tasks : Writes(u, x, {"fill"}, "object")'
          BY <2>4, <3>2
        <5>1. PICK u \in Tasks : Writes(u, s, {"fill"}, "part")
          BY <3>1, <3>2 DEF Healing
        <5>2. u # t
          BY <1>1, <5>1 DEF Writes
        <5>3. task[u] \in Requests /\ task'[u] = [task[u] EXCEPT !.handle = "object"]
          BY <2>2, <2>3, <5>1, <5>2 DEF Writes, Putting
        <5>4. task'[u].step = "fill" /\ task'[u].handle = "object" /\ task'[u].todo = task[u].todo
          BY <5>1, <5>3 DEF Writes, Requests
        <5>5. Writes(u, x, {"fill"}, "object")'
          BY <3>2, <5>1, <5>4 DEF Writes, Current
        <5> QED
          BY <5>5
      <4> QED
        BY <2>4, <3>2, <4>1 DEF Healing
    <3>3. CASE x # s
      <4>1. ASSUME NEW u \in Tasks, NEW steps \in SUBSET {"fill", "rename"}, NEW h, Writes(u, x, steps, h)
            PROVE  Writes(u, x, steps, h)'
        <5>1. u # t /\ Current(u) # s
          BY <3>3, <4>1 DEF Writes, Current
        <5>2. task'[u] = task[u]
          BY <2>2, <5>1 DEF Moved
        <5> QED
          BY <4>1, <5>2 DEF Writes, Current
      <4>2. object'[x] = object[x] /\ part'[x] = part[x]
        BY <2>4, <3>3
      <4> QED
        BY <3>1, <4>1, <4>2 DEF Healing
    <3> QED
      BY <3>2, <3>3
  <2> QED
    BY <2>5, <2>6, <2>7 DEF DiskInv
<1> QED
  BY <1>4, <1>5

LEMMA DiskStep ==
  ASSUME DiskInv, [DiskNext]_diskVars
  PROVE  DiskInv'
<1>1. \A t \in Tasks : TaskOk(task[t])
  BY DEF DiskInv, DiskType
<1>2. /\ DOMAIN task = Tasks /\ task = [t \in Tasks |-> task[t]]
      /\ acked \subseteq StoredShards /\ (\A s \in acked : object[s] # "absent")
  BY DEF DiskInv, DiskType
<1>3. ASSUME NEW t \in Tasks, NEW f \in Files, Begin(t, f) PROVE DiskInv'
  <2> DEFINE r == [step |-> IF Placed[f] = <<>> THEN "create" ELSE "exists",
                   file |-> f, todo |-> Placed[f], handle |-> "none"]
  <2>1. Placed[f] \in Seq(StoredShards)
    BY StoreAssumption
  <2>2. TaskOk(r)
    BY <2>1 DEF TaskOk, Requests, PutSteps
  <2>3. /\ task' = [task EXCEPT ![t] = r] /\ task[t].step \notin {"fill", "rename"}
        /\ object' = object /\ part' = part /\ crashes' = crashes /\ errors' = errors /\ acked' = acked
    BY <1>3 DEF Begin, files
  <2> HIDE DEF r
  <2> QED
    BY <1>2, <2>2, <2>3, QuietStep
<1>4. ASSUME NEW t \in Tasks, Exists(t) PROVE DiskInv'
  <2>1. TaskOk(task[t]) /\ task[t].step = "exists" /\ task[t].step \in PutSteps
    BY <1>1, <1>4 DEF Exists, PutSteps
  <2>2. Head(task[t].todo) \in StoredShards /\ TaskOk(After(task[t])) /\ TaskOk([task[t] EXCEPT !.step = "measure"])
    BY <2>1, RequestFacts, AfterFacts, OtherStep DEF PutSteps
  <2>3. PICK r : TaskOk(r) /\ task' = [task EXCEPT ![t] = r]
    BY <1>4, <2>2 DEF Exists, Goto
  <2>4. acked' \subseteq StoredShards /\ \A s \in acked' : object[s] # "absent"
    BY <1>2, <1>4, <2>2 DEF Exists, Current
  <2>5. object' = object /\ part' = part /\ crashes' = crashes /\ errors' = errors
    BY <1>4 DEF Exists, files
  <2> QED
    BY <2>1, <2>3, <2>4, <2>5, QuietStep
<1>5. ASSUME NEW t \in Tasks, Measure(t) \/ MeasureFails(t) PROVE DiskInv'
  <2>1. TaskOk(task[t]) /\ task[t].step = "measure" /\ task[t].step \in PutSteps
    BY <1>1, <1>5 DEF Measure, MeasureFails, PutSteps
  <2>2. TaskOk(After(task[t])) /\ TaskOk([task[t] EXCEPT !.step = "open"])
    BY <2>1, AfterFacts, OtherStep DEF PutSteps
  <2>3. PICK r : TaskOk(r) /\ task' = [task EXCEPT ![t] = r]
    BY <1>5, <2>2 DEF Measure, MeasureFails, Goto
  <2>4. object' = object /\ part' = part /\ crashes' = crashes /\ errors' = errors /\ acked' = acked
    BY <1>5 DEF Measure, MeasureFails, files
  <2> QED
    BY <1>2, <2>1, <2>3, <2>4, QuietStep
<1>6. ASSUME NEW t \in Tasks, CreateManifest(t) \/ WriteManifest(t) PROVE DiskInv'
  <2>1. /\ TaskOk(task[t]) /\ task[t].step \in {"create", "write"}
        /\ object' = object /\ part' = part /\ crashes' = crashes /\ errors' = errors /\ acked' = acked
    BY <1>1, <1>6 DEF CreateManifest, WriteManifest
  <2>2. TaskOk([task[t] EXCEPT !.step = "write"]) /\ TaskOk(NoRequest)
    <3>1. task[t] \in Requests
      BY <2>1 DEF TaskOk, NoRequest
    <3>2. [task[t] EXCEPT !.step = "write"] \in Requests /\ [task[t] EXCEPT !.step = "write"].step = "write"
      BY <3>1 DEF Requests
    <3> QED
      BY <3>2 DEF TaskOk, PutSteps
  <2>3. PICK r : TaskOk(r) /\ task' = [task EXCEPT ![t] = r]
    BY <1>6, <2>2 DEF CreateManifest, WriteManifest, Goto
  <2> QED
    BY <1>2, <2>1, <2>3, QuietStep
<1>7. ASSUME NEW t \in Tasks, PutError(t) \/ ManifestError(t) PROVE DiskInv'
  <2>1. /\ TaskOk(task[t]) /\ crashes' = crashes /\ errors' = errors + 1
        /\ object' = object /\ part' = part /\ acked' = acked
    BY <1>1, <1>7 DEF PutError, ManifestError, files
  <2>2. PICK r : TaskOk(r) /\ task' = [task EXCEPT ![t] = r]
    <3>1. CASE PutError(t)
      <4>1. task[t].step \in PutSteps
        BY <3>1 DEF PutError, PutSteps
      <4> QED
        BY <2>1, <3>1, <4>1, AfterFacts DEF PutError
    <3>2. CASE ManifestError(t)
      BY <3>2 DEF ManifestError, TaskOk
    <3> QED
      BY <1>7, <3>1, <3>2
  <2>3. /\ DOMAIN task' = Tasks /\ task' = [u \in Tasks |-> task'[u]]
        /\ \A u \in Tasks : TaskOk(task'[u])
    BY <1>1, <1>2, <2>2
  <2>4. crashes' \in Nat /\ errors' \in Nat /\ ~Calm'
    BY <2>1 DEF DiskInv, DiskType, Calm
  <2> QED
    BY <2>1, <2>3, <2>4, FailStep
<1>8. CASE DiskCrash
  <2>1. /\ \A u \in Tasks : TaskOk(task'[u])
        /\ DOMAIN task' = Tasks /\ task' = [u \in Tasks |-> task'[u]]
    BY <1>8 DEF DiskCrash, TaskOk
  <2>2. /\ object' = object /\ part' = part /\ acked' = acked
        /\ crashes' \in Nat /\ errors' \in Nat /\ ~Calm'
    BY <1>8 DEF DiskCrash, files, DiskInv, DiskType, Calm
  <2> QED
    BY <2>1, <2>2, FailStep
<1>9. CASE UNCHANGED diskVars
  BY <1>9 DEF diskVars, DiskInv, DiskType, Healing, Writes, Calm, Current
<1> QED
  BY <1>3, <1>4, <1>5, <1>6, <1>7, <1>8, <1>9, OpenStep, FillStep, RenameStep DEF DiskNext

LEMMA DiskAlways == DiskSpec => []DiskInv
<1>1. DiskInit => DiskInv
  BY DEF DiskInit, DiskInv, DiskType, Contents, TaskOk, Calm, Healing
<1>2. DiskInv /\ [DiskNext]_diskVars => DiskInv'
  BY DiskStep
<1> QED
  BY <1>1, <1>2, PTL DEF DiskSpec

\* Two puts of one shard truncate and rename each other's .part file, and repair
\* it: with any number of requests, a shard nobody is writing is absent or
\* complete (LocalNodeStore::put).
THEOREM RacesTheorem == DiskSpec => []RacesHeal
<1>1. DiskInv => RacesHeal
  BY DEF DiskInv, DiskType, Contents, Calm, Healing, Writes, RacesHeal, Writing
<1> QED
  BY <1>1, DiskAlways, PTL

\* A shard for which some put returned Ok has a file for good, and a complete one
\* as soon as nobody writes it, unless something failed.
THEOREM AckTheorem == DiskSpec => []AckedIsStored
<1>1. DiskInv => AckedIsStored
  BY DEF DiskInv, DiskType, Contents, Calm, Healing, Writes, AckedIsStored, Writing
<1> QED
  BY <1>1, DiskAlways, PTL

-----------------------------------------------------------------------------
(* The quota *)

\* The bytes a request may still write: it has passed the check of the quota and
\* has not written yet.
Pending ==
  [t \in Tasks |-> IF task[t].step \in {"open", "fill"} THEN Size[Current(t)] ELSE 0]
Promised == SumFunctionOnSet(Pending, Tasks)

\* The inductive invariant: what is on disk and what is promised.
QuotaInv == Used + Promised <= Quota + (Cardinality(Tasks) - 1) * MaxSize

\* No shard is larger than the largest.
LEMMA MaxSizeFacts == MaxSize \in Nat /\ \A s \in StoredShards : Size[s] \in Nat /\ Size[s] <= MaxSize
<1>1. \A s \in StoredShards : Size[s] \in Nat
  BY StoreAssumption
<1>2. Summable(Size, StoredShards)
  BY <1>1, StoreAssumption DEF Summable
<1>3. PICK m \in StoredShards : \A s \in StoredShards : Size[s] <= Size[m]
  BY <1>2, StoreAssumption, LargestValue
<1> DEFINE Sizes == {Size[s] : s \in StoredShards}
<1>4. Size[m] \in Sizes /\ \A y \in Sizes : Size[m] >= y
  BY <1>1, <1>3
<1>5. Max(Sizes) \in Sizes /\ \A y \in Sizes : Max(Sizes) >= y
  <2> HIDE DEF Sizes
  <2> QED BY <1>4 DEF Max
<1>6. MaxSize = Max(Sizes)
  BY DEF MaxSize
<1> QED
  BY <1>1, <1>5, <1>6

\* What the two sums add up.
LEMMA QuotaTypes ==
  ASSUME DiskType
  PROVE  /\ Summable(OnDisk, StoredShards) /\ Used \in Nat
         /\ Summable(Pending, Tasks) /\ Promised \in Nat
         /\ \A t \in Tasks : Pending[t] \in Nat /\ Pending[t] <= MaxSize
         /\ \A t \in Tasks : task[t].step \in PutSteps => Current(t) \in StoredShards
<1>1. \A s \in StoredShards : OnDisk[s] \in Nat
  BY MaxSizeFacts DEF OnDisk
<1>2. ASSUME NEW t \in Tasks, task[t].step \in PutSteps PROVE Current(t) \in StoredShards
  BY <1>2, RequestFacts DEF DiskType, Current
<1>3. ASSUME NEW t \in Tasks PROVE Pending[t] \in Nat /\ Pending[t] <= MaxSize
  <2>1. CASE task[t].step \in {"open", "fill"}
    <3>1. Current(t) \in StoredShards
      BY <1>2, <2>1 DEF PutSteps
    <3> QED
      BY <2>1, <3>1, MaxSizeFacts DEF Pending
  <2>2. CASE task[t].step \notin {"open", "fill"}
    BY <2>2, MaxSizeFacts DEF Pending
  <2> QED
    BY <2>1, <2>2
<1>4. Summable(OnDisk, StoredShards) /\ Summable(Pending, Tasks)
  BY <1>1, <1>3, StoreAssumption DEF Summable
<1> QED
  BY <1>2, <1>3, <1>4, SumIsNat DEF Used, Promised

\* The same for the state after a step.
LEMMA QuotaTypesNext ==
  ASSUME DiskType'
  PROVE  /\ Summable(OnDisk', StoredShards) /\ Used' \in Nat
         /\ Summable(Pending', Tasks) /\ Promised' \in Nat
         /\ \A t \in Tasks : Pending'[t] \in Nat /\ Pending'[t] <= MaxSize
         /\ \A t \in Tasks : task'[t].step \in PutSteps => Current(t)' \in StoredShards
<1>1. \A s \in StoredShards : OnDisk'[s] \in Nat
  BY MaxSizeFacts DEF OnDisk
<1>2. ASSUME NEW t \in Tasks, task'[t].step \in PutSteps PROVE Current(t)' \in StoredShards
  BY <1>2, RequestFacts DEF DiskType, Current
<1>3. ASSUME NEW t \in Tasks PROVE Pending'[t] \in Nat /\ Pending'[t] <= MaxSize
  <2>1. CASE task'[t].step \in {"open", "fill"}
    <3>1. Current(t)' \in StoredShards
      BY <1>2, <2>1 DEF PutSteps
    <3> QED
      BY <2>1, <3>1, MaxSizeFacts DEF Pending
  <2>2. CASE task'[t].step \notin {"open", "fill"}
    BY <2>2, MaxSizeFacts DEF Pending
  <2> QED
    BY <2>1, <2>2
<1>4. Summable(OnDisk', StoredShards) /\ Summable(Pending', Tasks)
  BY <1>1, <1>3, StoreAssumption DEF Summable
<1> QED
  BY <1>2, <1>3, <1>4, SumIsNat DEF Used, Promised

\* The room there is is a number.
LEMMA RoomIsNat ==
  /\ Cardinality(Tasks) - 1 \in Nat
  /\ (Cardinality(Tasks) - 1) * MaxSize \in Nat /\ Quota \in Nat
<1>1. Cardinality(Tasks) \in Nat /\ Cardinality(Tasks) # 0
  BY StoreAssumption, FS_CardinalityType, FS_EmptySet
<1>2. Cardinality(Tasks) - 1 \in Nat
  BY <1>1
<1> HIDE DEF MaxSize
<1>3. (Cardinality(Tasks) - 1) * MaxSize \in Nat
  <2> DEFINE n == Cardinality(Tasks) - 1
  <2>1. n \in Nat /\ MaxSize \in Nat
    BY <1>2, MaxSizeFacts
  <2> HIDE DEF n
  <2>2. n * MaxSize \in Nat
    BY <2>1
  <2> QED
    BY <2>2 DEF n
<1> QED
  BY <1>2, <1>3, StoreAssumption

\* A step that writes nothing and promises nothing new.
LEMMA QuotaFalls ==
  ASSUME DiskType, DiskType', QuotaInv,
         \A s \in StoredShards : OnDisk'[s] <= OnDisk[s],
         \A t \in Tasks : Pending'[t] <= Pending[t]
  PROVE  QuotaInv'
<1>1. Used' <= Used
  BY QuotaTypes, QuotaTypesNext, SumLess DEF Used
<1>2. Promised' <= Promised
  BY QuotaTypes, QuotaTypesNext, SumLess DEF Promised
<1>3. Used \in Nat /\ Used' \in Nat /\ Promised \in Nat /\ Promised' \in Nat
  BY QuotaTypes, QuotaTypesNext
<1> DEFINE room == Quota + (Cardinality(Tasks) - 1) * MaxSize
<1>4. room \in Nat
  BY RoomIsNat
<1>5. Used + Promised <= room
  BY DEF QuotaInv
<1>6. (Quota + (Cardinality(Tasks) - 1) * MaxSize)' = room
  BY DEF MaxSize
<1> HIDE DEF room
<1>7. Used' + Promised' <= room
  BY <1>1, <1>2, <1>3, <1>4, <1>5
<1> QED
  BY <1>6, <1>7 DEF QuotaInv

\* A request goes to a step in which it promises nothing.
LEMMA QuotaGivenUp ==
  ASSUME DiskInv, DiskInv', QuotaInv, NEW t \in Tasks, NEW r, task' = [task EXCEPT ![t] = r],
         r.step \notin {"open", "fill"}, object' = object, part' = part
  PROVE  QuotaInv'
<1>1. DiskType /\ DiskType'
  BY DEF DiskInv
<1>2. \A s \in StoredShards : OnDisk'[s] <= OnDisk[s]
  <2>1. OnDisk' = OnDisk /\ \A s \in StoredShards : OnDisk[s] \in Nat
    BY <1>1, QuotaTypes DEF OnDisk, Summable
  <2> QED
    BY <2>1
<1>3. ASSUME NEW u \in Tasks PROVE Pending'[u] <= Pending[u]
  <2>1. Pending[u] \in Nat
    BY <1>1, QuotaTypes
  <2>2. CASE u = t
    <3>1. Pending'[u] = 0
      BY <1>1, <2>2 DEF Pending, DiskType
    <3> QED
      BY <2>1, <3>1
  <2>3. CASE u # t
    <3>1. task'[u] = task[u]
      BY <1>1, <2>3 DEF DiskType
    <3>2. Pending'[u] = Pending[u]
      BY <3>1 DEF Pending, Current
    <3> QED
      BY <2>1, <3>2
  <2> QED
    BY <2>2, <2>3
<1> QED
  BY <1>1, <1>2, <1>3, QuotaFalls

LEMMA AfterStep ==
  ASSUME NEW r, TaskOk(r), r.step \in PutSteps
  PROVE  After(r).step \in {"exists", "create"}
BY RequestFacts DEF After, Requests

\* The check of the quota: this request and one for each other request.
LEMMA QuotaMeasured ==
  ASSUME DiskInv, DiskInv', NEW t \in Tasks, task[t].step = "measure",
         Fits(Current(t)), task' = Goto(t, "open"), object' = object, part' = part
  PROVE  QuotaInv'
<1>1. DiskType /\ DiskType' /\ DOMAIN task = Tasks
  BY DEF DiskInv, DiskType
<1>2. Used' = Used /\ Used \in Nat
  BY <1>1, QuotaTypes DEF Used, OnDisk
<1> DEFINE c == Current(t)
           rest == SumFunctionOnSet(Pending', Tasks \ {t})
           n == Cardinality(Tasks) - 1
<1>3. c \in StoredShards
  BY <1>1, QuotaTypes DEF PutSteps
<1>4. Size[c] \in Nat
  BY <1>3, MaxSizeFacts
<1>5. Pending'[t] = Size[c]
  <2>1. task'[t] = [task[t] EXCEPT !.step = "open"]
    BY <1>1 DEF Goto
  <2>2. task[t] \in Requests
    BY <1>1, RequestFacts DEF DiskType, PutSteps
  <2>3. task'[t].step = "open" /\ task'[t].todo = task[t].todo
    BY <2>1, <2>2 DEF Requests
  <2> QED
    BY <2>3 DEF Pending, Current
<1>6. Promised' = Size[c] + rest /\ rest \in Nat /\ Summable(Pending', Tasks \ {t})
  BY <1>1, <1>5, QuotaTypesNext, SumSplit DEF Promised
<1>7. Cardinality(Tasks \ {t}) = n
  <2>1. Cardinality(Tasks) \in Nat /\ Cardinality(Tasks \ {t}) \in Nat
        /\ Cardinality(Tasks) = Cardinality(Tasks \ {t}) + 1
    BY StoreAssumption, OneLess
  <2> QED
    BY <2>1
<1>8. rest <= n * MaxSize
  <2>1. rest <= Cardinality(Tasks \ {t}) * MaxSize
    BY <1>1, <1>6, QuotaTypesNext, MaxSizeFacts, SumBound
  <2> QED
    BY <2>1, <1>7
<1>9. Used + Size[c] <= Quota
  BY DEF Fits
<1>10. n * MaxSize \in Nat /\ Quota \in Nat
  BY RoomIsNat
<1>11. (Quota + (Cardinality(Tasks) - 1) * MaxSize)' = Quota + n * MaxSize
  BY DEF MaxSize
<1> DEFINE size == Size[c]
           more == n * MaxSize
<1> HIDE DEF rest, size, more
<1>12. Used + (size + rest) <= Quota + more
  BY <1>2, <1>4, <1>6, <1>8, <1>9, <1>10 DEF size, more
<1> QED
  BY <1>2, <1>6, <1>11, <1>12 DEF QuotaInv, size, more

LEMMA QuotaOpen ==
  ASSUME DiskInv, DiskInv', QuotaInv, NEW t \in Tasks, Open(t)
  PROVE  QuotaInv'
<1>1. DiskType /\ DiskType' /\ DOMAIN task = Tasks
  BY DEF DiskInv, DiskType
<1>2. ASSUME NEW s \in StoredShards PROVE OnDisk'[s] <= OnDisk[s]
  <2>1. part'[s] \in {part[s], "empty"} /\ object' = object
    BY <1>1 DEF Open, DiskType
  <2>2. Size[s] \in Nat
    BY MaxSizeFacts
  <2> QED
    BY <2>1, <2>2 DEF OnDisk
<1>3. ASSUME NEW u \in Tasks PROVE Pending'[u] <= Pending[u]
  <2>1. Pending[u] \in Nat
    BY <1>1, QuotaTypes
  <2>2. CASE u = t
    <3>1. task[t] \in Requests /\ task[t].step = "open"
      BY <1>1, RequestFacts DEF DiskType, PutSteps, Open
    <3>2. task'[t] = [task[t] EXCEPT !.step = "fill", !.handle = "part"]
      BY <1>1 DEF Open
    <3>3. task'[t].step = "fill" /\ task'[t].todo = task[t].todo
      BY <3>1, <3>2 DEF Requests
    <3>4. Pending'[u] = Pending[u]
      BY <2>2, <3>1, <3>3 DEF Pending, Current
    <3> QED
      BY <2>1, <3>4
  <2>3. CASE u # t
    <3>1. task'[u] = task[u]
      BY <1>1, <2>3 DEF Open
    <3>2. Pending'[u] = Pending[u]
      BY <3>1 DEF Pending, Current
    <3> QED
      BY <2>1, <3>2
  <2> QED
    BY <2>2, <2>3
<1> QED
  BY <1>1, <1>2, <1>3, QuotaFalls

LEMMA PromiseKept ==
  ASSUME NEW a \in Nat, NEW a1 \in Nat, NEW b \in Nat, NEW b1 \in Nat, NEW room \in Nat,
         NEW size \in Nat, a1 <= a + size, b1 + size = b, a + b <= room
  PROVE  a1 + b1 <= room
OBVIOUS

\* Writing keeps the promise.
LEMMA QuotaFill ==
  ASSUME DiskInv, DiskInv', QuotaInv, NEW t \in Tasks, Fill(t)
  PROVE  QuotaInv'
<1>1. DiskType /\ DiskType' /\ DOMAIN task = Tasks
  BY DEF DiskInv, DiskType
<1> DEFINE c == Current(t)
<1>2. c \in StoredShards /\ Size[c] \in Nat
  BY <1>1, QuotaTypes, MaxSizeFacts DEF PutSteps, Fill
<1>3. Used' <= Used + Size[c]
  <2>1. ASSUME NEW s \in StoredShards \ {c} PROVE OnDisk'[s] = OnDisk[s]
    <3>1. part'[s] = part[s] /\ object'[s] = object[s]
      BY <1>1 DEF Fill, DiskType
    <3> QED
      BY <3>1 DEF OnDisk
  <2>2. OnDisk'[c] <= OnDisk[c] + Size[c] /\ OnDisk'[c] \in Nat /\ OnDisk[c] \in Nat
    <3>1. \/ part' = part
          \/ object' = object
      BY DEF Fill
    <3>2. /\ OnDisk[c] = (IF object[c] = "full" THEN Size[c] ELSE 0)
                          + (IF part[c] = "full" THEN Size[c] ELSE 0)
          /\ OnDisk'[c] = (IF object'[c] = "full" THEN Size[c] ELSE 0)
                           + (IF part'[c] = "full" THEN Size[c] ELSE 0)
      BY <1>2 DEF OnDisk
    <3> HIDE DEF c
    <3> QED
      BY <1>2, <3>1, <3>2
  <2>3. Summable(OnDisk, StoredShards) /\ Used \in Nat /\ Used' \in Nat
    BY <1>1, QuotaTypes, QuotaTypesNext
  <2>4. SumFunctionOnSet(OnDisk', StoredShards) + OnDisk[c] = SumFunctionOnSet(OnDisk, StoredShards) + OnDisk'[c]
    <3> HIDE DEF c
    <3> QED BY <1>2, <2>1, <2>2, <2>3, SumChange
  <2>5. Used' + OnDisk[c] = Used + OnDisk'[c]
    BY <2>4 DEF Used
  <2> QED
    BY <1>2, <2>2, <2>3, <2>5
<1>4. Promised' + Size[c] = Promised
  <2>1. task[t] \in Requests /\ task[t].step = "fill"
    BY <1>1, RequestFacts DEF DiskType, PutSteps, Fill
  <2>2. task'[t].step = "rename"
    BY <1>1, <2>1 DEF Fill, Goto, Requests
  <2>3. Pending[t] = Size[c] /\ Pending'[t] = 0
    BY <2>1, <2>2 DEF Pending
  <2>4. ASSUME NEW u \in Tasks \ {t} PROVE Pending'[u] = Pending[u]
    <3>1. task'[u] = task[u]
      BY <1>1 DEF Fill, Goto
    <3> QED
      BY <3>1 DEF Pending, Current
  <2>5. Summable(Pending, Tasks) /\ Promised \in Nat /\ Promised' \in Nat
    BY <1>1, QuotaTypes, QuotaTypesNext
  <2>6. SumFunctionOnSet(Pending', Tasks) + Pending[t] = SumFunctionOnSet(Pending, Tasks) + Pending'[t]
    BY <2>3, <2>4, <2>5, SumChange
  <2> QED
    BY <2>3, <2>5, <2>6 DEF Promised
<1>5. Used \in Nat /\ Used' \in Nat /\ Promised \in Nat /\ Promised' \in Nat
  BY <1>1, QuotaTypes, QuotaTypesNext
<1> DEFINE room == Quota + (Cardinality(Tasks) - 1) * MaxSize
           size == Size[c]
<1>6. room \in Nat /\ Used + Promised <= room
  BY RoomIsNat DEF QuotaInv
<1>7. (Quota + (Cardinality(Tasks) - 1) * MaxSize)' = room
  BY DEF MaxSize
<1>8. size \in Nat /\ Used' <= Used + size /\ Promised' + size = Promised
  BY <1>2, <1>3, <1>4
<1> HIDE DEF room, size
<1>9. Used' + Promised' <= room
  BY <1>5, <1>6, <1>8, PromiseKept
<1> QED
  BY <1>7, <1>9 DEF QuotaInv

LEMMA QuotaRename ==
  ASSUME DiskInv, DiskInv', QuotaInv, NEW t \in Tasks, Rename(t)
  PROVE  QuotaInv'
<1>1. DiskType /\ DiskType' /\ DOMAIN task = Tasks
  BY DEF DiskInv, DiskType
<1> DEFINE c == Current(t)
<1>2. c \in StoredShards /\ TaskOk(task[t]) /\ task[t].step \in PutSteps
  BY <1>1, QuotaTypes DEF PutSteps, Rename, DiskType
<1>3. After(task[t]).step \in {"exists", "create"}
  BY <1>2, AfterStep
<1>4. CASE part[c] = "absent"
  <2>1. task' = [task EXCEPT ![t] = After(task[t])] /\ object' = object /\ part' = part
    BY <1>4 DEF Rename
  <2> DEFINE r == After(task[t])
  <2>2. r.step \notin {"open", "fill"} /\ task' = [task EXCEPT ![t] = r]
    BY <1>3, <2>1
  <2> HIDE DEF r
  <2> QED
    BY <2>1, <2>2, QuotaGivenUp
<1>5. CASE part[c] # "absent"
  <2>1. /\ object' = [object EXCEPT ![c] = part[c]] /\ part' = [part EXCEPT ![c] = "absent"]
        /\ task' = [u \in Tasks |-> IF u = t THEN After(task[t]) ELSE Moved(u, c)]
    BY <1>5 DEF Rename
  <2>2. ASSUME NEW s \in StoredShards PROVE OnDisk'[s] <= OnDisk[s]
    <3>1. Size[s] \in Nat
      BY MaxSizeFacts
    <3>2. \/ object'[s] = object[s] /\ part'[s] = part[s]
          \/ object'[s] = part[s] /\ part'[s] = "absent"
      BY <1>1, <2>1 DEF DiskType
    <3> HIDE DEF c
    <3> QED
      BY <3>1, <3>2 DEF OnDisk
  <2>3. ASSUME NEW u \in Tasks PROVE Pending'[u] <= Pending[u]
    <3>1. Pending[u] \in Nat
      BY <1>1, QuotaTypes
    <3>2. CASE u = t
      <4>1. Pending'[u] = 0
        BY <1>3, <2>1, <3>2 DEF Pending
      <4> QED
        BY <3>1, <4>1
    <3>3. CASE u # t
      <4>1. task'[u] = Moved(u, c)
        BY <2>1, <3>3
      <4>2. task'[u].step = task[u].step /\ (task[u].step \in PutSteps => task'[u].todo = task[u].todo)
        <5>1. CASE Putting(u) /\ Current(u) = c
          <6>1. task[u] \in Requests
            BY <1>1, <5>1, RequestFacts DEF DiskType, PutSteps, Putting
          <6>2. PICK h : task'[u] = [task[u] EXCEPT !.handle = h]
            BY <4>1, <5>1 DEF Moved
          <6> QED
            BY <6>1, <6>2 DEF Requests
        <5>2. CASE ~(Putting(u) /\ Current(u) = c)
          BY <4>1, <5>2 DEF Moved
        <5> QED
          BY <5>1, <5>2
      <4>3. Pending'[u] = Pending[u]
        BY <4>2 DEF Pending, Current, PutSteps
      <4> QED
        BY <3>1, <4>3
    <3> QED
      BY <3>2, <3>3
  <2> QED
    BY <1>1, <2>2, <2>3, QuotaFalls
<1> QED
  BY <1>4, <1>5

LEMMA QuotaStep ==
  ASSUME DiskInv, DiskInv', QuotaInv, [DiskNext]_diskVars
  PROVE  QuotaInv'
<1>1. \A t \in Tasks : TaskOk(task[t])
  BY DEF DiskInv, DiskType
<1>2. ASSUME NEW t \in Tasks, task[t].step \in PutSteps,
             task' = [task EXCEPT ![t] = After(@)], object' = object, part' = part
      PROVE  QuotaInv'
  <2> DEFINE r == After(task[t])
  <2>1. r.step \notin {"open", "fill"}
    BY <1>1, <1>2, AfterStep
  <2>2. task' = [task EXCEPT ![t] = r]
    BY <1>2
  <2> HIDE DEF r
  <2> QED
    BY <1>2, <2>1, <2>2, QuotaGivenUp
<1>3. ASSUME NEW t \in Tasks, NEW f \in Files, Begin(t, f) PROVE QuotaInv'
  <2> DEFINE r == [step |-> IF Placed[f] = <<>> THEN "create" ELSE "exists",
                   file |-> f, todo |-> Placed[f], handle |-> "none"]
  <2>1. task' = [task EXCEPT ![t] = r] /\ object' = object /\ part' = part
    BY <1>3 DEF Begin, files
  <2>2. r.step \notin {"open", "fill"}
    OBVIOUS
  <2> HIDE DEF r
  <2> QED
    BY <2>1, <2>2, QuotaGivenUp
<1>4. ASSUME NEW t \in Tasks, Exists(t) PROVE QuotaInv'
  <2>1. object' = object /\ part' = part /\ task[t].step \in PutSteps
    BY <1>4 DEF Exists, files, PutSteps
  <2>2. CASE task' = Goto(t, "measure")
    <3> DEFINE r == [task[t] EXCEPT !.step = "measure"]
    <3>1. task[t] \in Requests
      BY <1>1, <2>1, RequestFacts
    <3>2. r.step \notin {"open", "fill"}
      BY <3>1 DEF Requests
    <3>3. task' = [task EXCEPT ![t] = r]
      BY <2>2 DEF Goto
    <3> HIDE DEF r
    <3> QED
      BY <2>1, <3>2, <3>3, QuotaGivenUp
  <2> QED
    BY <1>2, <1>4, <2>1, <2>2 DEF Exists
<1>5. ASSUME NEW t \in Tasks, Measure(t) \/ MeasureFails(t) PROVE QuotaInv'
  <2>1. object' = object /\ part' = part /\ task[t].step = "measure" /\ task[t].step \in PutSteps
    BY <1>5 DEF Measure, MeasureFails, files, PutSteps
  <2> QED
    BY <1>2, <1>5, <2>1, QuotaMeasured DEF Measure, MeasureFails
<1>6. ASSUME NEW t \in Tasks, PutError(t) PROVE QuotaInv'
  <2>1. object' = object /\ part' = part /\ task[t].step \in PutSteps
    BY <1>6 DEF PutError, files, PutSteps
  <2> QED
    BY <1>2, <1>6, <2>1 DEF PutError
<1>7. ASSUME NEW t \in Tasks, CreateManifest(t) PROVE QuotaInv'
  <2>1. task[t] \in Requests
    BY <1>1, <1>7 DEF CreateManifest, TaskOk, NoRequest
  <2> DEFINE r == [task[t] EXCEPT !.step = "write"]
  <2>2. r.step \notin {"open", "fill"}
    BY <2>1 DEF Requests
  <2>3. task' = [task EXCEPT ![t] = r] /\ object' = object /\ part' = part
    BY <1>7 DEF CreateManifest, Goto
  <2> HIDE DEF r
  <2> QED
    BY <2>2, <2>3, QuotaGivenUp
<1>8. ASSUME NEW t \in Tasks, WriteManifest(t) \/ ManifestError(t) PROVE QuotaInv'
  <2>1. NoRequest.step \notin {"open", "fill"}
    BY DEF NoRequest
  <2>2. task' = [task EXCEPT ![t] = NoRequest] /\ object' = object /\ part' = part
    BY <1>8 DEF WriteManifest, ManifestError, files
  <2> QED
    BY <2>1, <2>2, QuotaGivenUp
<1>9. ASSUME DiskCrash \/ UNCHANGED diskVars PROVE QuotaInv'
  <2>1. DiskType /\ DiskType'
    BY DEF DiskInv
  <2>2. OnDisk' = OnDisk /\ \A s \in StoredShards : OnDisk[s] \in Nat
    BY <1>9, <2>1, QuotaTypes DEF DiskCrash, diskVars, files, OnDisk, Summable
  <2>3. \A t \in Tasks : Pending[t] \in Nat /\ Pending'[t] \in {0, Pending[t]}
    BY <1>9, <2>1, QuotaTypes DEF DiskCrash, diskVars, Pending, NoRequest, Current
  <2>4. \A s \in StoredShards : OnDisk'[s] <= OnDisk[s]
    BY <2>2
  <2>5. \A t \in Tasks : Pending'[t] <= Pending[t]
    BY <2>3
  <2> QED
    BY <2>1, <2>4, <2>5, QuotaFalls
<1> QED
  BY <1>3, <1>4, <1>5, <1>6, <1>7, <1>8, <1>9, QuotaOpen, QuotaFill, QuotaRename DEF DiskNext

\* The quota is checked before the write and without a lock: any number of
\* requests that race overrun it by at most one largest shard for each but one of
\* them, with whatever .part files crashes and failures leave in the directory
\* (LocalNodeStore::put and stats).
THEOREM QuotaTheorem == DiskSpec => []QuotaOverrun
<1>1. DiskInit => QuotaInv
  <2> SUFFICES ASSUME DiskInit PROVE QuotaInv
    OBVIOUS
  <2>1. DiskType
    BY DEF DiskInit, DiskType, Contents, TaskOk
  <2>2. \A s \in StoredShards : OnDisk[s] = 0
    BY DEF DiskInit, OnDisk
  <2>3. \A t \in Tasks : Pending[t] = 0
    BY DEF DiskInit, Pending, NoRequest
  <2>4. Used <= Cardinality(StoredShards) * 0
    BY <2>1, <2>2, QuotaTypes, SumBound DEF Used
  <2>5. Promised <= Cardinality(Tasks) * 0
    BY <2>1, <2>3, QuotaTypes, SumBound DEF Promised
  <2>6. Cardinality(StoredShards) \in Nat /\ Cardinality(Tasks) \in Nat
    BY StoreAssumption, FS_CardinalityType
  <2>7. Used = 0 /\ Promised = 0
    BY <2>1, <2>4, <2>5, <2>6, QuotaTypes
  <2> DEFINE more == (Cardinality(Tasks) - 1) * MaxSize
  <2>8. more \in Nat /\ Quota \in Nat
    BY RoomIsNat
  <2> HIDE DEF more
  <2>9. Used + Promised <= Quota + more
    BY <2>7, <2>8
  <2> QED
    BY <2>9 DEF QuotaInv, more
<1>2. DiskInv /\ DiskInv' /\ QuotaInv /\ [DiskNext]_diskVars => QuotaInv'
  BY QuotaStep
<1>3. DiskInv /\ QuotaInv => QuotaOverrun
  <2> SUFFICES ASSUME DiskInv, QuotaInv PROVE QuotaOverrun
    OBVIOUS
  <2>1. Used \in Nat /\ Promised \in Nat
    BY QuotaTypes DEF DiskInv
  <2> DEFINE room == Quota + (Cardinality(Tasks) - 1) * MaxSize
  <2>2. room \in Nat /\ Used + Promised <= room
    BY RoomIsNat DEF QuotaInv
  <2> HIDE DEF room
  <2>3. Used <= room
    BY <2>1, <2>2
  <2> QED
    BY <2>3 DEF QuotaOverrun, room
<1> QED
  BY <1>1, <1>2, <1>3, DiskAlways, PTL DEF DiskSpec
=============================================================================
