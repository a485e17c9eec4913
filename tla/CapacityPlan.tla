---------------------------- MODULE CapacityPlan ----------------------------
(***************************************************************************)
(* build_capacity_limited_plan (core/src/replication.rs), which places the *)
(* shards of a file one by one on the least loaded nodes that have room,   *)
(* and plan_repairs (core/src/repair.rs), which finds new nodes for the    *)
(* replicas that assess finds missing.                                     *)
(*                                                                         *)
(* Nodes of equal load are ordered by a hash; the plan takes any order.    *)
(***************************************************************************)
EXTENDS Integers, FiniteSets, FiniteSetsExt, Sequences

CONSTANTS
  StorageNodes,     \* the distinct nodes that are offered
  PlanShards,       \* REQUIRED_SHARDS
  PlanReplicas,     \* REQUIRED_REPLICAS
  MaxPerNode        \* MAX_SHARDS_PER_NODE

\* MIN_NODES_FOR_CAPACITY_LIMIT nodes; fewer are refused.
ASSUME CapacityAssumption ==
  /\ IsFiniteSet(StorageNodes)
  /\ PlanShards \in Nat /\ PlanReplicas \in Nat /\ MaxPerNode \in Nat
  /\ PlanReplicas <= Cardinality(StorageNodes)
  /\ PlanShards * PlanReplicas <= Cardinality(StorageNodes) * MaxPerNode

VARIABLES
  loads,       \* shards placed on each node
  placements,  \* the nodes of each shard placed so far
  exhausted,   \* the plan was given up: capacity exhausted
  online,      \* nodes that answer, once the plan is made
  repairs      \* what plan_repairs returned for them

planVars == <<loads, placements, exhausted, online, repairs>>

CapacityInit ==
  /\ loads = [n \in StorageNodes |-> 0]
  /\ placements = <<>>
  /\ exhausted = FALSE
  /\ online = StorageNodes /\ repairs = {}

WithRoom == {n \in StorageNodes : loads[n] < MaxPerNode}

\* Fault: the hash alone orders the nodes.
RankedByScore == kSubset(PlanReplicas, WithRoom)

\* The choices for the next shard: no node with room is less loaded than one
\* that is taken.
Ranked ==
  {chosen \in kSubset(PlanReplicas, WithRoom) :
     \A n \in chosen, k \in WithRoom \ chosen : loads[n] <= loads[k]}

Planning == Len(placements) < PlanShards /\ ~exhausted

PlaceShard ==
  /\ Planning
  /\ IF Cardinality(WithRoom) < PlanReplicas
     THEN exhausted' = TRUE /\ UNCHANGED <<loads, placements>>
     ELSE \E chosen \in Ranked :
            /\ loads' = [n \in StorageNodes |-> loads[n] + IF n \in chosen THEN 1 ELSE 0]
            /\ placements' = Append(placements, chosen)
            /\ UNCHANGED exhausted
  /\ UNCHANGED <<online, repairs>>

Missing(s, nodes) == PlanReplicas - Cardinality(placements[s] \intersect nodes)

\* The first candidates in the order of the ids, and only if they are enough;
\* any choice stands for that order.
RepairsFor(s, nodes) ==
  IF Missing(s, nodes) = 0 THEN {}
  ELSE {<<s, targets>> : targets \in kSubset(Missing(s, nodes), nodes \ placements[s])}

\* Nodes go away or come back, and the repairs are planned.
PlanRepairs(nodes) ==
  /\ Len(placements) = PlanShards
  /\ online' = nodes
  /\ repairs' = UNION {RepairsFor(s, nodes) : s \in 1..PlanShards}
  /\ UNCHANGED <<loads, placements, exhausted>>

CapacityNext == PlaceShard \/ \E nodes \in SUBSET StorageNodes : PlanRepairs(nodes)

-----------------------------------------------------------------------------
\* With MIN_NODES_FOR_CAPACITY_LIMIT nodes the plan is never given up, though it
\* never looks ahead: least loaded first keeps loads within one of each other,
\* so room is left on enough distinct nodes to the last shard.  And a repair that
\* is planned leaves its shard with all its replicas on nodes that are online.
PlanCompletes ==
  /\ ~exhausted
  /\ \A n, k \in StorageNodes : loads[n] <= loads[k] + 1
  /\ \A r \in repairs : Cardinality((placements[r[1]] \union r[2]) \intersect online) = PlanReplicas
=============================================================================
