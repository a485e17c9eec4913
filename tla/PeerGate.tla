------------------------------ MODULE PeerGate ------------------------------
(***************************************************************************)
(* What an inbound connection has to pass before a Node serves it          *)
(* (Node::listen and Node::handle of core/src/network.rs): a permit of the *)
(* connection semaphore, the token bucket of its IP address, after the     *)
(* handshake the token bucket of its peer, and the peer's record in the    *)
(* defense table; then the peer's bucket again for every message.          *)
(* TokenBucket, IpAdmission and PeerAdmission are core/src/limits.rs,      *)
(* PeerDefense is core/src/defense.rs.                                     *)
(*                                                                         *)
(* Every connection is a task of its own.  Buckets and defense are behind  *)
(* two mutexes that are never held together, so each call is one step and  *)
(* other tasks run between a refusal and the strike that follows it.       *)
(*                                                                         *)
(* spent and since are history: the cost admitted for a peer since its     *)
(* bucket was made, and when that was.  permits is the semaphore.          *)
(***************************************************************************)
EXTENDS Integers, FiniteSets

CONSTANTS
  Inbound,        \* connection tasks
  Peers, Ips,     \* authenticated peers, source addresses
  MaxConcurrent,  \* MAX_CONCURRENT_CONNECTIONS
  MaxBuckets,     \* PeerAdmission.max_peers
  Capacity,       \* PEER_RATE_CAPACITY
  Refill,         \* PEER_RATE_REFILL_PER_SECOND
  MaxIps,         \* PREAUTH_MAX_IPS
  IpCapacity,     \* PREAUTH_RATE_CAPACITY
  IpRefill,       \* PREAUTH_RATE_REFILL_PER_SECOND
  MaxEntries,     \* PeerDefense.max_entries
  BanStrikes,     \* PeerDefense.max_strikes
  QuarantineSecs, \* PeerDefense.quarantine_secs
  MaxU32,         \* u32::MAX, where the strike counter saturates
  Costs,          \* costs of the messages peers send
  MaxClock        \* bound: seconds that pass

ASSUME GateAssumption ==
  /\ MaxConcurrent \in Nat /\ MaxBuckets \in Nat \ {0} /\ MaxIps \in Nat \ {0}
  /\ Capacity \in Nat \ {0} /\ Refill \in Nat \ {0}
  /\ IpCapacity \in Nat \ {0} /\ IpRefill \in Nat \ {0}
  /\ MaxEntries \in Nat \ {0} /\ BanStrikes \in Nat \ {0} /\ QuarantineSecs \in Nat
  /\ MaxU32 \in Nat /\ MaxU32 >= BanStrikes
  /\ Costs \subseteq Nat \ {0}
  /\ MaxClock \in Nat

VARIABLES clock, permits, session, ipBuckets, buckets, defense, spent, since

gateVars == <<clock, permits, session, ipBuckets, buckets, defense, spent, since>>

(***************************************************************************)
(* TokenBucket                                                             *)
(***************************************************************************)
NewBucket(cap, now) == [tokens |-> cap, last |-> now]

Refilled(b, cap, refill, now) ==
  LET more == b.tokens + (now - b.last) * refill
  IN  [tokens |-> IF more > cap THEN cap ELSE more, last |-> now]

Allows(b, cap, refill, cost, now) ==
  cost <= cap /\ cost <= Refilled(b, cap, refill, now).tokens

\* Fault: the tokens are looked at and left.
AfterAllowFree(b, cap, refill, cost, now) ==
  IF cost > cap THEN b ELSE Refilled(b, cap, refill, now)

\* A cost above the capacity is refused before the refill.
AfterAllow(b, cap, refill, cost, now) ==
  IF cost > cap THEN b
  ELSE [Refilled(b, cap, refill, now) EXCEPT
          !.tokens = IF cost <= @ THEN @ - cost ELSE @]

(***************************************************************************)
(* The bounded tables.  Entered is every table that looking k up may leave *)
(* behind: a new key gets a fresh entry, and when the table is full an     *)
(* entry of least rank goes first.  Which one of several, the first in key *)
(* order, is left open.                                                    *)
(***************************************************************************)
Least(rank) == {q \in DOMAIN rank : \A r \in DOMAIN rank : rank[q] <= rank[r]}

With(table, keys, k, fresh) ==
  [q \in keys \cup {k} |-> IF q = k THEN fresh ELSE table[q]]

Entered(table, k, fresh, max, rank) ==
  IF k \in DOMAIN table THEN {table}
  ELSE IF Cardinality(DOMAIN table) >= max
  THEN {With(table, DOMAIN table \ {q}, k, fresh) : q \in Least(rank)}
  ELSE {With(table, DOMAIN table, k, fresh)}

Remaining(table) == [q \in DOMAIN table |-> table[q].tokens]
LastSeen(table) == [q \in DOMAIN table |-> table[q].seen]
FreshDefense == [strikes |-> 0, until |-> 0, seen |-> clock]

LookUpPeer(p) ==
  Entered(buckets, p, NewBucket(Capacity, clock), MaxBuckets, Remaining(buckets))
LookUpIp(ip) ==
  Entered(ipBuckets, ip, NewBucket(IpCapacity, clock), MaxIps, Remaining(ipBuckets))
LookUpDefense(p) ==
  Entered(defense, p, FreshDefense, MaxEntries, LastSeen(defense))

(***************************************************************************)
(* PeerAdmission::allow for peer p; ok is its answer.                      *)
(***************************************************************************)
Admission(p, cost, ok) ==
  \E table \in LookUpPeer(p) :
    /\ ok = Allows(table[p], Capacity, Refill, cost, clock)
    /\ buckets' = [table EXCEPT ![p] = AfterAllow(@, Capacity, Refill, cost, clock)]
    /\ since' = IF p \in DOMAIN buckets THEN since ELSE [since EXCEPT ![p] = clock]
    /\ spent' = [spent EXCEPT ![p] = (IF p \in DOMAIN buckets THEN @ ELSE 0)
                                     + (IF ok THEN cost ELSE 0)]

Idle == [phase |-> "closed"]
Task(phase, p) == [phase |-> phase, peer |-> p]
GateInit ==
  /\ clock = 0
  /\ permits = MaxConcurrent
  /\ session = [c \in Inbound |-> Idle]
  /\ ipBuckets = [i \in {} |-> NewBucket(IpCapacity, 0)]
  /\ buckets = [p \in {} |-> NewBucket(Capacity, 0)]
  /\ defense = [p \in {} |-> FreshDefense]
  /\ spent = [p \in Peers |-> 0]
  /\ since = [p \in Peers |-> 0]

Tick ==
  /\ clock < MaxClock
  /\ clock' = clock + 1
  /\ UNCHANGED <<permits, session, ipBuckets, buckets, defense, spent, since>>

\* The listener takes a permit, then asks the bucket of the address; without a
\* permit the socket is dropped before that.
Accept(c, ip, p) ==
  /\ session[c].phase = "closed"
  /\ permits > 0
  /\ \E table \in LookUpIp(ip) :
       LET ok == Allows(table[ip], IpCapacity, IpRefill, 1, clock)
       IN  /\ ipBuckets' = [table EXCEPT ![ip] = AfterAllow(@, IpCapacity, IpRefill, 1, clock)]
           /\ permits' = IF ok THEN permits - 1 ELSE permits
           /\ session' = IF ok THEN [session EXCEPT ![c] = Task("handshake", p)] ELSE session
  /\ UNCHANGED <<clock, buckets, defense, spent, since>>

\* The task returns and its permit with it: a failed handshake, the end of a
\* session by silence, by a full inbox or by an unexpected message.
Leave(c) ==
  /\ session[c].phase \in {"handshake", "open"}
  /\ session' = [session EXCEPT ![c] = Idle]
  /\ permits' = permits + 1
  /\ UNCHANGED <<clock, ipBuckets, buckets, defense, spent, since>>

\* After the handshake the peer pays 1 for the connection.
AdmitPeer(c) ==
  /\ session[c].phase = "handshake"
  /\ \E ok \in BOOLEAN :
       /\ Admission(session[c].peer, 1, ok)
       /\ session' = [session EXCEPT ![c].phase = IF ok THEN "admitted" ELSE "striking"]
  /\ UNCHANGED <<clock, permits, ipBuckets, defense>>

MayEnter(s) == s.strikes < BanStrikes /\ s.until <= clock

\* PeerDefense::check
CheckDefense(c) ==
  /\ session[c].phase = "admitted"
  /\ \E table \in LookUpDefense(session[c].peer) :
       /\ defense' = [table EXCEPT ![session[c].peer].seen = clock]
       /\ IF MayEnter(table[session[c].peer])
          THEN session' = [session EXCEPT ![c].phase = "open"] /\ permits' = permits
          ELSE session' = [session EXCEPT ![c] = Idle] /\ permits' = permits + 1
  /\ UNCHANGED <<clock, ipBuckets, buckets, spent, since>>

\* A message of an open session; one that is too expensive ends it.
Message(c, cost) ==
  /\ session[c].phase = "open"
  /\ \E ok \in BOOLEAN :
       /\ Admission(session[c].peer, cost, ok)
       /\ session' = IF ok THEN session ELSE [session EXCEPT ![c].phase = "striking"]
  /\ UNCHANGED <<clock, permits, ipBuckets, defense>>

\* recv() fails: a frame that does not decrypt, is replayed or is malformed, or
\* the peer closed the connection.
BadFrame(c) ==
  /\ session[c].phase = "open"
  /\ session' = [session EXCEPT ![c].phase = "striking"]
  /\ UNCHANGED <<clock, permits, ipBuckets, buckets, defense, spent, since>>

\* Fault: the strikes start over once the quarantine is served.
AfterStrikeForgetful(s) ==
  LET n == IF s.until <= clock THEN 1
           ELSE IF s.strikes < MaxU32 THEN s.strikes + 1 ELSE s.strikes
  IN  [strikes |-> n,
       until |-> IF n >= BanStrikes THEN s.until ELSE clock + QuarantineSecs,
       seen |-> clock]

\* A strike that bans leaves quarantined_until alone.
AfterStrike(s) ==
  LET n == IF s.strikes < MaxU32 THEN s.strikes + 1 ELSE s.strikes
  IN  [strikes |-> n,
       until |-> IF n >= BanStrikes THEN s.until ELSE clock + QuarantineSecs,
       seen |-> clock]

\* PeerDefense::strike, then the task returns.
Strike(c) ==
  /\ session[c].phase = "striking"
  /\ \E table \in LookUpDefense(session[c].peer) :
       defense' = [table EXCEPT ![session[c].peer] = AfterStrike(@)]
  /\ session' = [session EXCEPT ![c] = Idle]
  /\ permits' = permits + 1
  /\ UNCHANGED <<clock, ipBuckets, buckets, spent, since>>

GateNext ==
  \/ Tick
  \/ \E c \in Inbound :
       \/ \E ip \in Ips, p \in Peers : Accept(c, ip, p)
       \/ Leave(c) \/ AdmitPeer(c) \/ CheckDefense(c) \/ BadFrame(c) \/ Strike(c)
       \/ \E cost \in Costs : Message(c, cost)

GateSpec == GateInit /\ [][GateNext]_gateVars

-----------------------------------------------------------------------------
Phases == {"handshake", "admitted", "open", "striking"}
Buckets(cap) == [tokens : 0..cap, last : 0..MaxClock]

\* Type invariant.
GateTypeOK ==
  /\ clock \in 0..MaxClock
  /\ permits \in 0..MaxConcurrent
  /\ session \in [Inbound -> {Idle} \cup [phase : Phases, peer : Peers]]
  /\ DOMAIN ipBuckets \subseteq Ips /\ ipBuckets \in [DOMAIN ipBuckets -> Buckets(IpCapacity)]
  /\ DOMAIN buckets \subseteq Peers /\ buckets \in [DOMAIN buckets -> Buckets(Capacity)]
  /\ DOMAIN defense \subseteq Peers
  /\ defense \in [DOMAIN defense -> [strikes : 0..MaxU32, until : Nat, seen : 0..MaxClock]]
  /\ spent \in [Peers -> Nat] /\ since \in [Peers -> 0..MaxClock]

\* The rate limit: over all connections of a peer together, and however they
\* are interleaved with the clock, the cost admitted since its bucket exists is
\* at most one full bucket plus the refill of the time since then.
RateBound ==
  \A p \in DOMAIN buckets : spent[p] <= Capacity + Refill * (clock - since[p])

\* Escalation: while its record exists, a peer's strikes only go up, and a
\* session begins only for a peer whose last strike is a full quarantine ago
\* and that is not banned, whatever its other connections do at that time.
Escalation ==
  [][/\ \A p \in DOMAIN defense \cap DOMAIN defense' :
          defense'[p].strikes >= defense[p].strikes /\ defense'[p].until >= defense[p].until
     /\ \A c \in Inbound :
          (session[c].phase # "open" /\ session'[c].phase = "open"
             /\ session[c].peer \in DOMAIN defense /\ defense[session[c].peer].strikes > 0)
            => /\ defense[session[c].peer].strikes < BanStrikes
               /\ clock >= defense[session[c].peer].until]_gateVars
=============================================================================
