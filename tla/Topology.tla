------------------------------ MODULE Topology ------------------------------
(***************************************************************************)
(* The logical network of core/src/network_topology.rs: data centres with  *)
(* their nodes, links between centres that are a full mesh or go over a    *)
(* relay, groups of centres, failover to another relay, and routes.        *)
(*                                                                         *)
(* The score of a node's metrics is a small number, less is better.  The   *)
(* links of a centre and the keys of its link_state are always the same    *)
(* set; mode and healthy of a link are written and never read.  Centres    *)
(* stay reachable for their owner after add_centre, so nodes are added and *)
(* marked in the network itself as well as before.                         *)
(***************************************************************************)
EXTENDS Integers, FiniteSets, SequencesExt

CONSTANTS
  Centres,         \* identifiers of data centres
  TopologyNodes,   \* identifiers of nodes, in their order
  GroupIds,        \* identifiers of data groups
  Scores,          \* scores of metrics; the largest is that of unmeasured ones
  MaxTopologyOps   \* bound: calls

ASSUME TopologyAssumption ==
  TopologyNodes \subseteq Nat /\ IsFiniteSet(TopologyNodes) /\ Scores \subseteq Nat /\ Scores # {}

VARIABLES
  topology,        \* partial function from Centres to their nodes and links
  dataGroups,      \* partial function from GroupIds to sets of centres
  centreGroup,     \* the groups of the centre group, {} before there is one
  flaws,           \* history: calls that the code accepts and does not survive
  topologyOps      \* bound

topologyVars == <<topology, dataGroups, centreGroup, flaws, topologyOps>>

NewNode(alive) == [peers |-> {}, alive |-> alive, score |-> CHOOSE s \in Scores : \A t \in Scores : t <= s]

NewCentre == [nodes |-> <<>>, links |-> <<>>]

TopologyInit ==
  topology = <<>> /\ dataGroups = <<>> /\ centreGroup = {} /\ flaws = {} /\ topologyOps = 0

Call == topologyOps < MaxTopologyOps /\ topologyOps' = topologyOps + 1

\* HashMap::insert
Inserted(map, k, v) == [x \in DOMAIN map \union {k} |-> IF x = k THEN v ELSE map[x]]

Flawed(flaw, accepted) == flaws' = IF accepted THEN flaws ELSE flaws \union {flaw}

(***************************************************************************)
(* One data centre                                                         *)
(***************************************************************************)
Live(dc) == {n \in DOMAIN dc.nodes : dc.nodes[n].alive}

\* The least by score, then by number of peers, then by identifier: one or none.
Nearest(dc, from) ==
  LET key(n) == <<dc.nodes[n].score, Cardinality(dc.nodes[n].peers), n>>
      Less(k, l) == \E i \in 1..3 : k[i] < l[i] /\ \A j \in 1..(i - 1) : k[j] = l[j]
  IN  {n \in Live(dc) \ {from} : \A m \in Live(dc) \ {from, n} : Less(key(n), key(m))}

\* The nearest node dials the new one if that is alive, and not the other way
\* round; a node of that identifier is replaced.
WithNode(dc, n, alive) ==
  LET dialler == IF alive THEN Nearest(dc, n) ELSE {}
      dialling == [m \in DOMAIN dc.nodes |->
                     IF m \in dialler THEN [dc.nodes[m] EXCEPT !.peers = @ \union {n}] ELSE dc.nodes[m]]
  IN  [dc EXCEPT !.nodes = Inserted(dialling, n, NewNode(alive))]

AddNode(c, n, alive) ==
  /\ Call
  /\ topology' = [topology EXCEPT ![c] = WithNode(@, n, alive)]
  /\ Flawed("node", \A d \in DOMAIN topology : n \notin DOMAIN topology[d].nodes)
  /\ UNCHANGED <<dataGroups, centreGroup>>

FullMesh(c) ==
  /\ Call
  /\ LET nodes == topology[c].nodes
         live == Live(topology[c])
         meshed(n) == [nodes[n] EXCEPT !.peers = @ \union (live \ {n})]
     IN  topology' = [topology EXCEPT ![c].nodes =
           [n \in DOMAIN nodes |-> IF n \in live THEN meshed(n) ELSE nodes[n]]]
  /\ UNCHANGED <<dataGroups, centreGroup, flaws>>

MarkNode(c, n, alive) ==
  /\ Call
  /\ topology' = [topology EXCEPT ![c].nodes[n].alive = alive]
  /\ UNCHANGED <<dataGroups, centreGroup, flaws>>

UpdateMetrics(c, n, score) ==
  /\ Call
  /\ topology' = [topology EXCEPT ![c].nodes[n].score = score]
  /\ UNCHANGED <<dataGroups, centreGroup, flaws>>

(***************************************************************************)
(* Centres and groups                                                      *)
(***************************************************************************)
\* A new centre to which add_node gave these nodes, in their order.
CentreOf(nodes, dead) ==
  LET filled[s \in SUBSET nodes] ==
        IF s = {} THEN NewCentre ELSE WithNode(filled[s \ {Max(s)}], Max(s), Max(s) \notin dead)
  IN  filled[nodes]

\* A centre takes the place of one of its identifier.
AddCentre(c, nodes, dead) ==
  /\ Call
  /\ \A d \in DOMAIN topology : DOMAIN topology[d].nodes \intersect nodes = {}
  /\ topology' = Inserted(topology, c, CentreOf(nodes, dead))
  /\ Flawed("centre", c \notin DOMAIN topology)
  /\ UNCHANGED <<dataGroups, centreGroup>>

\* The length of the list is tested, and its set is kept.
DataGroupAccepted(list) == Len(list) >= 3

CentreGroupAccepted(list) == Len(list) >= 2

AddDataGroup(g, list) ==
  /\ Call /\ DataGroupAccepted(list) /\ ToSet(list) \subseteq DOMAIN topology
  /\ dataGroups' = Inserted(dataGroups, g, ToSet(list))
  /\ Flawed("group", Cardinality(ToSet(list)) = Len(list))
  /\ UNCHANGED <<topology, centreGroup>>

AddCentreGroup(list) ==
  /\ Call /\ CentreGroupAccepted(list) /\ ToSet(list) \subseteq DOMAIN dataGroups
  /\ centreGroup' = ToSet(list)
  /\ Flawed("group", Cardinality(ToSet(list)) = Len(list))
  /\ UNCHANGED <<topology, dataGroups>>

(***************************************************************************)
(* Links between centres                                                   *)
(***************************************************************************)
\* Fault: only the first of the two ends dials.
DialsOneWay(a, x, b, y) == {<<a, x, y>>}

\* x of centre a and y of centre b become peers of each other.
Dials(a, x, b, y) == {<<a, x, y>>, <<b, y, x>>}

\* Each live node of one centre with each of the other.
Mesh(a, left, b, right) == UNION {Dials(a, x, b, y) : x \in left, y \in right}

Dialled(dials) ==
  LET called(c, n) == {d[3] : d \in {e \in dials : e[1] = c /\ e[2] = n}}
      nodes(c) == [n \in DOMAIN topology[c].nodes |->
                     [topology[c].nodes[n] EXCEPT !.peers = @ \union called(c, n)]]
  IN  [c \in DOMAIN topology |-> [topology[c] EXCEPT !.nodes = nodes(c)]]

Linked(a, b, dials, relays) ==
  [Dialled(dials) EXCEPT ![a].links = Inserted(@, b, relays), ![b].links = Inserted(@, a, relays)]

Least(dc, nodes) == {n \in nodes : \A m \in nodes : dc.nodes[n].score <= dc.nodes[m].score}

\* Both centres have live nodes; min_by_key takes any of the least.
ConnectCentres(a, b) ==
  LET left == Live(topology[a])  right == Live(topology[b]) IN
  /\ Call /\ a # b /\ left # {} /\ right # {}
  /\ \/ topology' = Linked(a, b, Mesh(a, left, b, right), left)
     \/ \E relay \in left, target \in Least(topology[b], right) :
          topology' = Linked(a, b, Dials(a, relay, b, target), {relay})
  /\ UNCHANGED <<dataGroups, centreGroup, flaws>>

\* A live node that was no relay of the link yet becomes one.  The record of the
\* other centre is unwrapped last.
FailoverRelay(a, b) ==
  /\ Call /\ b \in DOMAIN topology[a].links
  /\ \E candidate \in Least(topology[a], Live(topology[a]) \ topology[a].links[b]),
        target \in Least(topology[b], Live(topology[b])) :
       LET dialled == [Dialled(Dials(a, candidate, b, target)) EXCEPT ![a].links[b] = @ \union {candidate}] IN
       IF a \in DOMAIN topology[b].links
       THEN topology' = [dialled EXCEPT ![b].links[a] = @ \union {candidate}] /\ UNCHANGED flaws
       ELSE topology' = dialled /\ flaws' = flaws \union {"panic"}
  /\ UNCHANGED <<dataGroups, centreGroup>>

\* What AweNet::validate accepts.
PeersKnown ==
  \A c \in DOMAIN topology, n \in TopologyNodes : n \in DOMAIN topology[c].nodes =>
    \A p \in topology[c].nodes[n].peers : \E d \in DOMAIN topology : p \in DOMAIN topology[d].nodes

Validate ==
  /\ PeersKnown
  /\ \A g \in DOMAIN dataGroups : Cardinality(dataGroups[g]) >= 3 /\ dataGroups[g] \subseteq DOMAIN topology
  /\ centreGroup # {} => Cardinality(centreGroup) >= 2 /\ centreGroup \subseteq DOMAIN dataGroups

(***************************************************************************)
(* Routes                                                                  *)
(***************************************************************************)
LiveNodes == UNION {Live(topology[c]) : c \in DOMAIN topology}

\* The peers of a live node that are live.
Adjacent(n) ==
  LiveNodes \intersect UNION {topology[c].nodes[n].peers : c \in {d \in DOMAIN topology : n \in Live(topology[d])}}

\* One turn of the loop: the first of the queue, unless it is dst, brings its
\* peers that have no entry in prev yet.  HashSets decide in which order.
Visit(s, dst) ==
  LET x == Head(s.queue)
      new == Adjacent(x) \ DOMAIN s.prev
  IN  IF s.queue = <<>> \/ x = dst THEN s
      ELSE [queue |-> Tail(s.queue) \o SetToSeq(new),
            prev |-> [y \in DOMAIN s.prev \union new |-> IF y \in new THEN x ELSE s.prev[y]]]

\* The search after as many turns as there are nodes, when it is over.  The entry
\* of src, None in the code, is src itself.
Search(src, dst) ==
  LET turn[k \in 0..Cardinality(TopologyNodes)] ==
        IF k = 0 THEN [queue |-> <<src>>, prev |-> [x \in {src} |-> src]] ELSE Visit(turn[k - 1], dst)
  IN  turn[Cardinality(TopologyNodes)]

\* Back from dst along prev, and reversed; <<>> for None.
Route(src, dst) ==
  LET prev == Search(src, dst).prev
      back[k \in 0..Cardinality(TopologyNodes)] == IF k = 0 THEN dst ELSE prev[back[k - 1]]
      length == CHOOSE k \in DOMAIN back : back[k] = src /\ \A l \in 0..(k - 1) : back[l] # src
  IN  IF dst \in DOMAIN prev THEN [i \in 1..(length + 1) |-> back[length + 1 - i]] ELSE <<>>

\* Identifiers that are in use, and one that is not: the code only compares them.
Names(used, all) == used \union (IF used = all THEN {} ELSE {CHOOSE x \in all : x \notin used})

TopologyNext ==
  \/ \E c \in Names(DOMAIN topology, Centres), nodes \in SUBSET TopologyNodes :
       \E dead \in SUBSET nodes : AddCentre(c, nodes, dead)
  \/ \E c \in DOMAIN topology :
       \/ FullMesh(c)
       \/ \E n \in TopologyNodes, alive \in BOOLEAN : AddNode(c, n, alive)
       \/ \E n \in DOMAIN topology[c].nodes :
            \/ \E alive \in BOOLEAN : MarkNode(c, n, alive)
            \/ \E score \in Scores : UpdateMetrics(c, n, score)
       \/ \E b \in DOMAIN topology : ConnectCentres(c, b) \/ FailoverRelay(c, b)
  \/ \E g \in Names(DOMAIN dataGroups, GroupIds), list \in [1..3 -> DOMAIN topology] : AddDataGroup(g, list)
  \/ \E list \in [1..2 -> DOMAIN dataGroups] : AddCentreGroup(list)

-----------------------------------------------------------------------------
\* The two centres of a link have the same record of it.
LinksAgree ==
  \A a, b \in DOMAIN topology : b \in DOMAIN topology[a].links =>
    a \in DOMAIN topology[b].links /\ topology[a].links[b] = topology[b].links[a]

\* A relay of a link is a node of one of its centres that has a peer in the
\* other, and is a peer of that peer.
RelaysCross ==
  \A a, b \in DOMAIN topology : b \in DOMAIN topology[a].links => \A r \in topology[a].links[b] :
    \E c, d \in {a, b} : c # d /\ r \in DOMAIN topology[c].nodes /\
      \E x \in topology[c].nodes[r].peers :
        x \in DOMAIN topology[d].nodes /\ r \in topology[d].nodes[x].peers

\* A route goes over live nodes that are peers, and nothing shorter does.
IsPath(p, src, dst) ==
  p[1] = src /\ p[Len(p)] = dst /\ \A i \in 1..(Len(p) - 1) : p[i + 1] \in Adjacent(p[i])

RoutesShortest ==
  \A src, dst \in TopologyNodes :
    LET route == Route(src, dst)
        shorter == IF route = <<>> THEN Cardinality(TopologyNodes) ELSE Len(route) - 1
    IN  /\ route # <<>> => IsPath(route, src, dst)
        /\ \A k \in 1..shorter : \A p \in [1..k -> TopologyNodes] : ~IsPath(p, src, dst)

\* After any sequence of calls (network_topology.rs): both centres of a link tell
\* the same relays, failover never unwraps a missing record and validate() holds,
\* unless a call that was accepted replaced a centre, which leaves its neighbours
\* with links and peers that are gone, or listed a member of a group twice.  Relays
\* cross their link in both directions as long as no node was added twice.  Routes
\* are shortest paths of live nodes.
TopologyHolds ==
  /\ "centre" \notin flaws => LinksAgree /\ PeersKnown /\ "panic" \notin flaws
  /\ flaws \subseteq {"node"} => Validate
  /\ flaws \intersect {"node", "centre"} = {} => RelaysCross
  /\ RoutesShortest
=============================================================================
