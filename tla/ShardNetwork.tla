---------------------------- MODULE ShardNetwork ----------------------------
(***************************************************************************)
(* A file cut into shards: the storage API of one awe-node (Self), its     *)
(* repair loop, and the inbox dispatchers of Self and its peers            *)
(* (apps/awe-node/src/main.rs, core/src/replication.rs, data_plane.rs).    *)
(*                                                                         *)
(* One file, uploaded, read back and repaired.  A shard is its index: the  *)
(* store is content addressed and every receiver compares hashes, so a     *)
(* node holds a shard or it does not.  Request ids are hashes of the       *)
(* operation, the shard, the target and the second; here they are the      *)
(* first three.  Nobody waits for the answer to a shard request.           *)
(*                                                                         *)
(* Shard transfers, requests and acknowledgements travel on                *)
(* STORAGE_STREAM, which is the number of ONECOIN_CONSENSUS_STREAM; the    *)
(* dispatcher compares with the latter first.  Nothing in the program ever *)
(* inserts into pending_shards, so a wait for a requested shard ends with  *)
(* its deadline.                                                           *)
(*                                                                         *)
(* Frames leave through send_to_peer, which may fail and may never return  *)
(* (module PeerTransport); no operation puts a deadline on it.  An upload  *)
(* plans with closest_peers, a download and a repair cycle with peers();   *)
(* the two tables are filled together and are one variable here.           *)
(***************************************************************************)
EXTENDS Integers, FiniteSets, FiniteSetsExt

CONSTANTS
  Self,          \* the node whose API is used
  Peers,         \* the other nodes, numbers in the order of their uids
  Shards,        \* indexes of the shards of the file
  DataShards,    \* StoragePolicy.data_shards: as many rebuild the file
  Rank,          \* Rank[s][n]: the hash that orders nodes for a shard
  MaxUploads,    \* bound: uploads of a run
  MaxGets,       \* bound: downloads of a run
  MaxEvents,     \* bound: crashes, lost objects, changes of the peer table and
                 \* of the policy, together
  MaxNet,        \* bound: frames on their way at once
  Loses,         \* whether frames are lost with their connections
  NoManifest, Torn  \* no manifest file, and one cut short

Nodes == {Self} \union Peers
REQUIRED_REPLICAS == 3
STORAGE_STREAM == 200
ONECOIN_CONSENSUS_STREAM == 200

ASSUME ShardAssumption ==
  /\ Nodes \subseteq Nat /\ Self \notin Peers /\ Shards \subseteq Nat
  /\ DataShards \in 1..Cardinality(Shards)
  /\ \A s \in Shards, n \in Nodes : Rank[s][n] \in Nat
  /\ Loses \in BOOLEAN

VARIABLES
  known,     \* peers in the routing table of Self
  policy,    \* the policy of Self: "on", "noshards" (shards too large), "off"
  store,     \* the objects of every node
  manifest,  \* the manifest file of Self
  net,       \* frames sent and not yet dispatched
  acks,      \* pending_acks of every node
  up, get, rep,  \* the upload, the download and the repair cycle in progress
  answer,    \* what the last finished upload answered, and the last download
             \* after it
  lost,      \* shards whose local object was destroyed on disk
  used       \* how often each bounded event happened

vars == <<known, policy, store, manifest, net, acks, up, get, rep, answer, lost, used>>

Idle == [pc |-> "idle"]

Init ==
  /\ known \in SUBSET Peers
  /\ policy = "on"
  /\ store = [n \in Nodes |-> {}]
  /\ manifest = NoManifest
  /\ net = {} /\ acks = [n \in Nodes |-> {}]
  /\ up = Idle /\ get = Idle /\ rep = Idle
  /\ answer = [up |-> "none", get |-> "none"]
  /\ lost = {}
  /\ used = [up |-> 0, get |-> 0, event |-> 0]

\* The policies that pass validate, by what they allow; the refresh loop keeps
\* the one it has when the file is missing, does not parse or does not pass.
Policies == {"on", "noshards", "off"}

AllowsStream == policy # "off"

Parsable(file) == file \notin {NoManifest, Torn}

Transfer(op, s, from, to) == [kind |-> "transfer", op |-> op, shard |-> s, from |-> from, to |-> to]

Request(s, to) == [kind |-> "request", op |-> "request", shard |-> s, from |-> Self, to |-> to]

Ack(msg) == [kind |-> "ack", op |-> msg.op, shard |-> msg.shard, from |-> msg.to, to |-> msg.from]

\* send_to_peer returns Ok once the frame is written, and a written frame may
\* still be lost with its connection.
Sends(msg) ==
  \/ Cardinality(net) < MaxNet /\ net' = net \union {msg}
  \/ Loses /\ UNCHANGED net

\* The caller goes on in the same way when send_to_peer fails.
SendsOrFails(msg) == Sends(msg) \/ UNCHANGED net

(***************************************************************************)
(* replication                                                             *)
(***************************************************************************)
SelectReplicas(s, nodes) ==
  {n \in nodes : Cardinality({k \in nodes : Rank[s][k] < Rank[s][n]}) < REQUIRED_REPLICAS}

Plan(nodes) == [s \in Shards |-> SelectReplicas(s, nodes)]

Available(plan, s, peers) == Cardinality(plan[s] \intersect ({Self} \union peers))

\* /api/storage/health: every placement has three nodes that are known.  It
\* looks into no store.
Healthy == Parsable(manifest) /\ \A s \in Shards : Available(manifest, s, known) >= REQUIRED_REPLICAS

(***************************************************************************)
(* /api/storage/put                                                        *)
(***************************************************************************)
\* Fault: a local shard that could not be stored is not reported.
FailuresOfSilent(own, stored) == {}

FailuresOf(own, stored) == own \ stored

\* The loop over the shards: local puts, some of which may fail, and one task
\* for each remote replica.
UploadPlan ==
  LET plan  == Plan({Self} \union known)
      own   == {s \in Shards : Self \in plan[s]}
  IN  \E stored \in SUBSET own :
        /\ store' = [store EXCEPT ![Self] = @ \union stored]
        /\ lost' = lost \ stored
        /\ up' = [pc |-> "sending", plan |-> plan, failed |-> FailuresOf(own, stored) # {},
                  tasks |-> {t \in Shards \X Peers : t[2] \in plan[t[1]]}, waiting |-> {},
                  hung |-> FALSE]
        /\ UNCHANGED answer

Upload ==
  /\ up = Idle /\ used.up < MaxUploads
  /\ used' = [used EXCEPT !.up = @ + 1]
  /\ IF ~AllowsStream \/ Cardinality(known) + 1 < REQUIRED_REPLICAS
     THEN /\ answer' = [answer EXCEPT !.up = "refused"]
          /\ UNCHANGED <<up, store, lost>>
     ELSE UploadPlan
  /\ UNCHANGED <<known, policy, manifest, net, acks, get, rep>>

\* A task sends its shard; send_to_peer may fail, or never return.
UploadSend(t) ==
  /\ up.pc = "sending" /\ t \in up.tasks
  /\ \/ /\ up' = [up EXCEPT !.tasks = @ \ {t}, !.waiting = @ \union {t}]
        /\ Sends(Transfer("upload", t[1], Self, t[2]))
     \/ /\ \/ up' = [up EXCEPT !.tasks = @ \ {t}, !.failed = TRUE]
           \/ up' = [up EXCEPT !.tasks = @ \ {t}, !.hung = TRUE]
        /\ UNCHANGED net
  /\ UNCHANGED <<known, policy, store, manifest, acks, get, rep, answer, lost, used>>

\* Fault: the wait for the acknowledgement has no deadline.
UploadAwaitForever(t) ==
  /\ up.pc = "sending" /\ t \in up.waiting
  /\ \E a \in acks[Self] : a.op = "upload" /\ a.shard = t[1] /\ a.from = t[2]
  /\ up' = [up EXCEPT !.waiting = @ \ {t}]
  /\ UNCHANGED <<known, policy, store, manifest, net, acks, get, rep, answer, lost, used>>

\* The task takes its acknowledgement, or meets the deadline: the replica counts
\* either way.
UploadAwait(t) ==
  /\ up.pc = "sending" /\ t \in up.waiting
  /\ up' = [up EXCEPT !.waiting = @ \ {t}]
  /\ acks' = [acks EXCEPT ![Self] = {a \in @ : ~(a.op = "upload" /\ a.shard = t[1] /\ a.from = t[2])}]
  /\ UNCHANGED <<known, policy, store, manifest, net, get, rep, answer, lost, used>>

\* join_next has seen the end of every task.
Joined == up.pc = "sending" /\ up.tasks = {} /\ up.waiting = {} /\ ~up.hung

UploadAnswer == [up |-> IF up.failed THEN "partial" ELSE "stored", get |-> "none"]

\* fs::write truncates the manifest and then writes it ...
UploadTruncate ==
  /\ Joined
  /\ manifest' = Torn
  /\ up' = [up EXCEPT !.pc = "writing"]
  /\ UNCHANGED <<known, policy, store, net, acks, get, rep, answer, lost, used>>

\* ... and its result is ignored, whether the write fails ...
UploadWrite ==
  /\ up.pc = "writing"
  /\ manifest' \in {up.plan, Torn}
  /\ answer' = UploadAnswer
  /\ up' = Idle
  /\ UNCHANGED <<known, policy, store, net, acks, get, rep, lost, used>>

\* ... or the file cannot be opened.
UploadUnwritten ==
  /\ Joined
  /\ answer' = UploadAnswer
  /\ up' = Idle
  /\ UNCHANGED <<known, policy, store, manifest, net, acks, get, rep, lost, used>>

\* /api/storage/push sends one shard, whatever the policy says.
Push(s, n) ==
  /\ n \in known /\ used.up > 0
  /\ SendsOrFails(Transfer("push", s, Self, n))
  /\ UNCHANGED <<known, policy, store, manifest, acks, up, get, rep, answer, lost, used>>

(***************************************************************************)
(* /api/storage/get                                                        *)
(***************************************************************************)
Present(plan) == {s \in Shards : Self \in plan[s] /\ s \in store[Self]}

\* recover_shards: any data_shards of them rebuild the file.
Recoverable(shards) == Cardinality(shards) >= DataShards

Get ==
  /\ get = Idle /\ used.get < MaxGets
  /\ used' = [used EXCEPT !.get = @ + 1]
  /\ IF Parsable(manifest) /\ ~Recoverable(Present(manifest))
     THEN /\ get' = [pc |-> "asking",
                     asks |-> {t \in (Shards \ Present(manifest)) \X known : t[2] \in manifest[t[1]]}]
          /\ UNCHANGED answer
     ELSE /\ answer' = [answer EXCEPT !.get =
                          IF manifest = NoManifest THEN "not found"
                          ELSE IF manifest = Torn THEN "error" ELSE "file"]
          /\ UNCHANGED get
  /\ UNCHANGED <<known, policy, store, manifest, net, acks, up, rep, lost>>

\* One peer is asked; the wait on pending_shards ends with its deadline, the send
\* may never.
GetAsk(t) ==
  /\ get.pc = "asking" /\ t \in get.asks
  /\ \/ get' = [get EXCEPT !.asks = @ \ {t}] /\ SendsOrFails(Request(t[1], t[2]))
     \/ get' = [get EXCEPT !.pc = "hung"] /\ UNCHANGED net
  /\ UNCHANGED <<known, policy, store, manifest, acks, up, rep, answer, lost, used>>

GetGivesUp ==
  /\ get.pc = "asking" /\ get.asks = {}
  /\ get' = Idle
  /\ answer' = [answer EXCEPT !.get = "insufficient"]
  /\ UNCHANGED <<known, policy, store, manifest, net, acks, up, rep, lost, used>>

(***************************************************************************)
(* autonomous_repair_cycle                                                 *)
(***************************************************************************)
\* The cycle works on copies of the policy, the peers and the manifest.
Repair ==
  /\ rep = Idle /\ AllowsStream /\ Parsable(manifest)
  /\ rep' = [pc |-> "shard", plan |-> manifest, peers |-> known, policy |-> policy,
             todo |-> Shards, sources |-> {}, targets |-> {}, changed |-> FALSE]
  /\ UNCHANGED <<known, policy, store, manifest, net, acks, up, get, answer, lost, used>>

RepairIndex == Min(rep.todo)

NextShard(r) == [r EXCEPT !.pc = "shard", !.todo = @ \ {RepairIndex}]

RepairShard ==
  /\ rep.pc = "shard" /\ rep.todo # {}
  /\ rep' = IF Available(rep.plan, RepairIndex, rep.peers) >= REQUIRED_REPLICAS
            THEN NextShard(rep)
            ELSE [rep EXCEPT !.pc = "source",
                             !.sources = rep.plan[RepairIndex] \intersect ({Self} \union rep.peers)]
  /\ UNCHANGED <<known, policy, store, manifest, net, acks, up, get, answer, lost, used>>

\* What follows when the bytes are there: the size limit, then the candidates.
RepairWithData ==
  IF rep.policy = "noshards"
  THEN NextShard(rep)
  ELSE [rep EXCEPT !.pc = "target", !.targets = ({Self} \union rep.peers) \ rep.plan[RepairIndex]]

\* A send_to_peer of the cycle does not return, and the repair loop with it.
RepairHangs == [rep EXCEPT !.pc = "hung"]

RepairSource(n) ==
  /\ rep.pc = "source" /\ n \in rep.sources
  /\ IF n = Self
     THEN /\ rep' = IF RepairIndex \in store[Self]
                    THEN RepairWithData
                    ELSE [rep EXCEPT !.sources = @ \ {n}]
          /\ UNCHANGED net
     ELSE \/ rep' = [rep EXCEPT !.sources = @ \ {n}] /\ SendsOrFails(Request(RepairIndex, n))
          \/ rep' = RepairHangs /\ UNCHANGED net
  /\ UNCHANGED <<known, policy, store, manifest, acks, up, get, answer, lost, used>>

RepairNoSource ==
  /\ rep.pc = "source" /\ rep.sources = {}
  /\ rep' = NextShard(rep)
  /\ UNCHANGED <<known, policy, store, manifest, net, acks, up, get, answer, lost, used>>

Listed(n) ==
  NextShard([rep EXCEPT !.plan[RepairIndex] = @ \union {n}, !.changed = TRUE])

DropTarget(n) == [rep EXCEPT !.pc = "target", !.targets = @ \ {n}]

RepairTarget(n) ==
  /\ rep.pc = "target" /\ rep.targets # {} /\ n = Min(rep.targets)
  /\ IF n = Self
     THEN /\ \/ rep' = Listed(n) /\ store' = [store EXCEPT ![Self] = @ \union {RepairIndex}]
             \/ rep' = DropTarget(n) /\ UNCHANGED store
          /\ UNCHANGED net
     ELSE /\ UNCHANGED store
          /\ \/ rep' \in {DropTarget(n), RepairHangs} /\ UNCHANGED net
             \/ rep' = [rep EXCEPT !.pc = "await"] /\ Sends(Transfer("repair", RepairIndex, Self, n))
  /\ UNCHANGED <<known, policy, manifest, acks, up, get, answer, lost, used>>

\* Fault: as in an upload, a written frame counts as a stored replica.
RepairAwaitTrusting ==
  /\ rep.pc = "await"
  /\ rep' = Listed(Min(rep.targets))
  /\ UNCHANGED <<known, policy, store, manifest, net, acks, up, get, answer, lost, used>>

\* The target is listed if its acknowledgement comes before the deadline.
RepairAwait ==
  LET n    == Min(rep.targets)
      mine == {a \in acks[Self] : a.op = "repair" /\ a.shard = RepairIndex /\ a.from = n}
  IN  /\ rep.pc = "await"
      /\ rep' = IF mine = {} THEN DropTarget(n) ELSE Listed(n)
      /\ acks' = [acks EXCEPT ![Self] = @ \ mine]
      /\ UNCHANGED <<known, policy, store, manifest, net, up, get, answer, lost, used>>

RepairNoTarget ==
  /\ rep.pc = "target" /\ rep.targets = {}
  /\ rep' = NextShard(rep)
  /\ UNCHANGED <<known, policy, store, manifest, net, acks, up, get, answer, lost, used>>

\* A changed manifest is written in place, over whatever is there by now.
RepairEnd ==
  /\ rep.pc = "shard" /\ rep.todo = {}
  /\ manifest' \in IF rep.changed THEN {rep.plan, Torn, manifest} ELSE {manifest}
  /\ rep' = Idle
  /\ UNCHANGED <<known, policy, store, net, acks, up, get, answer, lost, used>>

(***************************************************************************)
(* The inbox dispatchers                                                   *)
(***************************************************************************)
\* Fault: the consensus branch tests a stream of its own.
BranchSplit(stream) == "storage"

Branch(stream) ==
  IF stream = ONECOIN_CONSENSUS_STREAM THEN "consensus"   \* does not decode: dropped
  ELSE IF stream = STORAGE_STREAM THEN "storage" ELSE "drop"

\* The storage branch: keep an acknowledgement, answer a request, store and
\* acknowledge a transfer.
OnStorage(msg) ==
  LET n == msg.to IN
  CASE msg.kind = "ack" ->
         /\ acks' = [acks EXCEPT ![n] = @ \union {msg}]
         /\ net' = net \ {msg}
         /\ UNCHANGED <<store, lost>>
    [] msg.kind = "request" ->
         /\ net' = (net \ {msg}) \union
                   (IF msg.shard \in store[n] THEN {Transfer(msg.op, msg.shard, n, msg.from)} ELSE {})
         /\ UNCHANGED <<acks, store, lost>>
    [] OTHER ->
         /\ \/ /\ store' = [store EXCEPT ![n] = @ \union {msg.shard}]
               /\ lost' = IF n = Self THEN lost \ {msg.shard} ELSE lost
               /\ net' = (net \ {msg}) \union {Ack(msg)}
            \/ net' = net \ {msg} /\ UNCHANGED <<store, lost>>
         /\ UNCHANGED acks

Dispatch(msg) ==
  /\ IF Branch(STORAGE_STREAM) = "storage" /\ (msg.to = Self => AllowsStream)
     THEN OnStorage(msg)
     ELSE net' = net \ {msg} /\ UNCHANGED <<store, acks, lost>>
  /\ UNCHANGED <<known, policy, manifest, up, get, rep, answer, used>>

(***************************************************************************)
(* What happens around the node                                            *)
(***************************************************************************)
\* The routing table gains and loses peers.
Discovery(n) ==
  /\ used.event < MaxEvents
  /\ used' = [used EXCEPT !.event = @ + 1]
  /\ known' = IF n \in known THEN known \ {n} ELSE known \union {n}
  /\ UNCHANGED <<policy, store, manifest, net, acks, up, get, rep, answer, lost>>

\* The refresh loop reads a policy file the operator edited.
RefreshPolicy(p) ==
  /\ p # policy /\ used.event < MaxEvents
  /\ used' = [used EXCEPT !.event = @ + 1]
  /\ policy' = p
  /\ UNCHANGED <<known, store, manifest, net, acks, up, get, rep, answer, lost>>

\* An object of Self is destroyed or altered on disk: storage.get refuses it.
LoseObject(s) ==
  /\ used.event < MaxEvents /\ s \in store[Self]
  /\ store' = [store EXCEPT ![Self] = @ \ {s}]
  /\ lost' = lost \union {s}
  /\ used' = [used EXCEPT !.event = @ + 1]
  /\ UNCHANGED <<known, policy, manifest, net, acks, up, get, rep, answer>>

\* A crash of a node with an operation in progress; the others leave no trace.
Crash ==
  /\ used.event < MaxEvents /\ {up, get, rep} # {Idle}
  /\ used' = [used EXCEPT !.event = @ + 1]
  /\ up' = Idle /\ get' = Idle /\ rep' = Idle
  /\ acks' = [acks EXCEPT ![Self] = {}]
  /\ UNCHANGED <<known, policy, store, manifest, net, answer, lost>>

UploadStep ==
  \/ \E t \in Shards \X Peers : UploadSend(t) \/ UploadAwait(t)
  \/ UploadTruncate \/ UploadWrite \/ UploadUnwritten

GetStep == (\E t \in Shards \X Peers : GetAsk(t)) \/ GetGivesUp

RepairStep ==
  \/ RepairShard \/ RepairNoSource \/ RepairAwait \/ RepairNoTarget \/ RepairEnd
  \/ \E n \in Nodes : RepairSource(n) \/ RepairTarget(n)

Next ==
  \/ Upload \/ UploadStep \/ Get \/ GetStep \/ Repair \/ RepairStep
  \/ \E s \in Shards, n \in Peers : Push(s, n)
  \/ \E msg \in net : Dispatch(msg)
  \/ \E n \in Peers : Discovery(n)
  \/ \E p \in Policies : RefreshPolicy(p)
  \/ \E s \in Shards : LoseObject(s)
  \/ Crash

\* Tasks that have begun go on: deadlines pass, and a send returns or is one of
\* those that never do.
Spec == Init /\ [][Next]_vars /\ WF_vars(UploadStep) /\ WF_vars(GetStep) /\ WF_vars(RepairStep)

-----------------------------------------------------------------------------
\* Every transfer, request and acknowledgement is taken by the consensus branch
\* of the dispatcher (main.rs: stream == ONECOIN_CONSENSUS_STREAM comes first and
\* both streams are 200): however uploads, pushes and repairs run, no peer ever
\* holds a shard and no acknowledgement ever reaches a waiting task.
SharesNeverLeave == (\A n \in Peers : store[n] = {}) /\ \A n \in Nodes : acks[n] = {}

\* What an answer "stored" is worth (main.rs: "stored" if no entry of failed has
\* an "error"; a get needs data_shards local shards).  Across crashes, repairs and
\* a changing peer table every later download on this node gives the file back,
\* with three exceptions: objects were destroyed on disk; the placement puts too
\* few shards here; or the manifest was not written, which "stored" does not tell.
StoredIsServed ==
  answer.up = "stored" /\ used.up = 1 =>
    \/ answer.get \in {"none", "file"}
    \/ answer.get = "insufficient" /\ (lost # {} \/ ~Recoverable({s \in Shards : Self \in manifest[s]}))
    \/ ~Parsable(manifest)

\* The repair cycle needs bytes from a node of the placement and a target outside
\* it.  Only this node ever yields bytes and only this node can be a target
\* without an acknowledgement, so a cycle never changes a manifest, and in
\* particular never writes an old copy over a newer upload's.
RepairWritesNothing == [][rep' # rep => manifest' = manifest]_vars

\* Uploads, downloads and repair cycles end, although no answer ever comes: every
\* wait of the three has a deadline, except the wait for send_to_peer.  One call
\* that hangs keeps its upload, its download or all further repair from ending.
OperationsEnd ==
  /\ []<>(up = Idle \/ (up.pc = "sending" /\ up.hung))
  /\ []<>(get.pc \in {"idle", "hung"})
  /\ []<>(rep.pc \in {"idle", "hung"})

\* "The transport accepted the shard and the receiver's data-plane handler
\* persists it before attempting the application ACK" (main.rs, upload): a file
\* answered as stored, with every placement healthy and every frame handled by
\* its receiver, is on the nodes named.
StoredIsHeld ==
  answer.up = "stored" /\ Healthy /\ net = {}
    => \A s \in Shards : \A n \in manifest[s] : s \in store[n] \union lost
=============================================================================
