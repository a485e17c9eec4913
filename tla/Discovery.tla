----------------------------- MODULE Discovery -----------------------------
(***************************************************************************)
(* What a node knows of other nodes (core/src/network.rs): the routing     *)
(* table, from which lookups choose whom to ask, and the table of peers,   *)
(* from which connections are made; and find_nodes_iterative, which asks   *)
(* the closest nodes in rounds.                                            *)
(*                                                                         *)
(* The two tables differ: RoutingTable.insert overwrites a record and then *)
(* evicts the one seen longest ago, insert_peer_bounded merges and evicts  *)
(* first.  A record's times come from its sender; Now is this node's.      *)
(*                                                                         *)
(* The lookup opens connections with a timeout, but awaits the answer to   *)
(* FindNode without one: nodes of Silent accept a connection and send      *)
(* nothing, as a partition or a stopped process does.                      *)
(***************************************************************************)
EXTENDS Integers, FiniteSets, FiniteSetsExt, Functions

CONSTANTS
  Remotes,           \* other nodes
  Silent,            \* those that do not answer
  PeerAddresses,     \* addresses a record may hold
  MaxAddresses,      \* MAX_ADDRESSES_PER_PEER
  Advertised,        \* records that peers send
  MaxRouting,        \* MAX_ROUTING_RECORDS
  MaxKnown,          \* MAX_PEER_RECORDS
  Times, Now,        \* times of records, and the time of this node
  Alpha, MaxRounds   \* DISCOVERY_ALPHA, DISCOVERY_ROUNDS

ASSUME DiscoveryAssumption ==
  Silent \subseteq Remotes /\ Now \in Times /\ Times \subseteq Nat
  /\ IsFiniteSet(PeerAddresses) /\ MaxAddresses \in Nat /\ MaxAddresses > 0 /\ MaxRouting > 0 /\ MaxKnown > 0 /\ Alpha > 0 /\ MaxRounds > 0

VARIABLES
  routing,    \* RoutingTable.peers
  known,      \* Node.peers
  lookup      \* find_nodes_iterative: its round, whom it asked, who has yet to answer

discoveryVars == <<routing, known, lookup>>

\* A record's addresses are a list, in which a sender may repeat one.  The order
\* only decides which of them a merge drops, so the list is kept as its set and
\* the number of its repeats.
Record(addresses, repeats, seen) == [addresses |-> addresses, repeats |-> repeats, seen |-> seen]

ListLength(r) == Cardinality(r.addresses) + r.repeats

\* decode refuses longer lists.
Records ==
  {r \in {Record(a, n, t) : a \in SUBSET PeerAddresses, n \in 0..MaxAddresses, t \in Times} :
     ListLength(r) <= MaxAddresses /\ (r.addresses = {} => r.repeats = 0)}

ASSUME AdvertisedAssumption == Advertised \subseteq Records

NoLookup == [pc |-> "idle", round |-> 0, queried |-> {}, jobs |-> {}, found |-> FALSE]

DiscoveryInit ==
  /\ routing = << >> /\ known = << >>
  /\ lookup = NoLookup

With(table, p, r) == [q \in DOMAIN table \union {p} |-> IF q = p THEN r ELSE table[q]]

\* The tables that an eviction of the record seen longest ago may leave.
Evicted(table) ==
  {Restrict(table, DOMAIN table \ {q}) :
     q \in {k \in DOMAIN table : \A o \in DOMAIN table : table[k].seen <= table[o].seen}}

\* RoutingTable.insert
RoutingInsert(table, p, r) ==
  LET inserted == With(table, p, r)
  IN  IF Cardinality(DOMAIN inserted) > MaxRouting THEN Evicted(inserted) ELSE {inserted}

\* Fault: the record that came replaces the one that was there.
MergedBlind(old, r) == {r}

\* insert_peer_bounded, for a peer that is known: the addresses it had are kept,
\* once each, while the list has room, and the later time.
Merged(old, r) ==
  LET missing == old.addresses \ r.addresses
      room == MaxAddresses - ListLength(r)
  IN  {Record(r.addresses \union kept, r.repeats, Max({old.seen, r.seen})) :
         kept \in {k \in SUBSET missing : Cardinality(k) = Min({Cardinality(missing), room})}}

KnownInsert(table, p, r) ==
  IF p \in DOMAIN table THEN {With(table, p, m) : m \in Merged(table[p], r)}
  ELSE IF Cardinality(DOMAIN table) >= MaxKnown THEN {With(t, p, r) : t \in Evicted(table)}
  ELSE {With(table, p, r)}

Inserts(p, r) == routing' \in RoutingInsert(routing, p, r) /\ known' \in KnownInsert(known, p, r)

\* A connection in either direction: bootstrap or handle enters the peer with
\* the address it announced.
Meet(p, a) == Inserts(p, Record({a}, 0, Now)) /\ UNCHANGED lookup

\* A peer that is asked by bootstrap, under a timeout, advertises another.
Hear(p, r) == Inserts(p, r) /\ UNCHANGED lookup

\* The end of a session: the time is set in each table that is not locked.
Leave(p) ==
  /\ routing' \in {routing} \union IF p \in DOMAIN routing THEN {[routing EXCEPT ![p].seen = Now]} ELSE {}
  /\ known' \in {known} \union IF p \in DOMAIN known THEN {[known EXCEPT ![p].seen = Now]} ELSE {}
  /\ UNCHANGED lookup

(***************************************************************************)
(* find_nodes_iterative                                                    *)
(***************************************************************************)
\* The closest nodes to a target, in an order that the distances give.
Closest(limit) == kSubset(Min({limit, Cardinality(DOMAIN routing)}), DOMAIN routing)

\* Of those, the ones not yet asked that have an address.
Fresh(candidates) == {p \in candidates : p \notin lookup.queried /\ routing[p].addresses # {}}

\* The batches that a round may ask.
Batches ==
  UNION {kSubset(Min({Alpha, Cardinality(Fresh(c))}), Fresh(c)) : c \in Closest(4 * Alpha)}

\* The discovery loop, or an operation that bootstraps.
LookupBegins ==
  /\ lookup.pc = "idle"
  /\ lookup' = [NoLookup EXCEPT !.pc = "round"]
  /\ UNCHANGED <<routing, known>>

LookupRound ==
  /\ lookup.pc = "round"
  /\ \E batch \in Batches :
       lookup' = IF batch = {} \/ lookup.round = MaxRounds
                 THEN NoLookup
                 ELSE [pc |-> "asking", round |-> lookup.round + 1,
                       queried |-> lookup.queried \union batch, jobs |-> batch, found |-> FALSE]
  /\ UNCHANGED <<routing, known>>

\* One answer: the record it brings enters both tables.  The locks are released
\* after each record, so the others of an answer are as many calls of Hear.
LookupAnswer(p, q, r) ==
  /\ lookup.pc = "asking" /\ p \in lookup.jobs \ Silent
  /\ Inserts(q, r)
  /\ lookup' = [lookup EXCEPT !.jobs = @ \ {p}, !.found = @ \/ q \notin DOMAIN known]

\* Fault: a node that could not be asked is asked again, and the round does not
\* count.
LookupFailsRetried(p) ==
  /\ lookup.pc = "asking" /\ p \in lookup.jobs \ Silent
  /\ lookup' = [lookup EXCEPT !.jobs = @ \ {p}, !.queried = @ \ {p}, !.round = @ - 1, !.found = TRUE]
  /\ UNCHANGED <<routing, known>>

\* No address connects, the connection breaks, or the answer is empty.
LookupFails(p) ==
  /\ lookup.pc = "asking" /\ p \in lookup.jobs \ Silent
  /\ lookup' = [lookup EXCEPT !.jobs = @ \ {p}]
  /\ UNCHANGED <<routing, known>>

LookupRoundEnds ==
  /\ lookup.pc = "asking" /\ lookup.jobs = {}
  /\ lookup' = IF lookup.found THEN [lookup EXCEPT !.pc = "round"] ELSE NoLookup
  /\ UNCHANGED <<routing, known>>

\* What a lookup does by itself: a node that is not silent answers, or its
\* connection ends.
LookupStep ==
  \/ LookupRound \/ LookupRoundEnds
  \/ \E p \in Remotes : LookupFails(p) \/ \E q \in Remotes, r \in Advertised : LookupAnswer(p, q, r)

DiscoveryNext ==
  \/ \E p \in Remotes : Leave(p) \/ (\E a \in PeerAddresses : Meet(p, a)) \/ (\E r \in Advertised : Hear(p, r))
  \/ LookupBegins
  \/ LookupStep

-----------------------------------------------------------------------------
\* "A routing advertisement with no endpoints must not erase the last
\* authenticated endpoint learned from a direct connection" (network.rs,
\* insert_peer_bounded): while a peer stays in the table of peers, an address is
\* lost only to a full list of newer ones, which may be one address repeated, and
\* its time goes back only to Now, when a session ends after a sender's clock ran
\* ahead.
EndpointKept ==
  [][\A p \in DOMAIN known \intersect DOMAIN known' :
       /\ \/ known[p].addresses \subseteq known'[p].addresses
          \/ ListLength(known'[p]) = MaxAddresses
       /\ known'[p].seen >= known[p].seen \/ known'[p].seen = Now]_discoveryVars

\* A lookup ends, over failing nodes, advertisements that never stop and
\* evictions, unless it waits for nodes that stay silent.  That wait has no
\* timeout: one silent node stops the discovery loop for good.
LookupEnds ==
  lookup.pc # "idle" ~> (lookup.pc = "idle" \/ (lookup.jobs # {} /\ lookup.jobs \subseteq Silent))
=============================================================================
