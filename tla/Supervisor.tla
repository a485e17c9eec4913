----------------------------- MODULE Supervisor -----------------------------
(***************************************************************************)
(* PeerSupervisor (core/src/supervisor.rs): one task for each endpoint     *)
(* connects, pings the session until a ping fails, and sleeps before it    *)
(* tries again; the tasks share counters.                                  *)
(*                                                                         *)
(* Failures are counted over attempts to connect only: a session that is   *)
(* lost resets them, and is retried after the first delay.  A ping that is *)
(* answered changes nothing that is modelled.                              *)
(***************************************************************************)
EXTENDS Integers, FiniteSets, FiniteSetsExt

CONSTANTS
  Endpoints,        \* the configured endpoints
  InitialBackoff,   \* initial_backoff_secs
  MaxBackoff,       \* max_backoff_secs
  AttemptsCap,      \* max_attempts_before_cap
  MaxWord,          \* u64::MAX
  MaxAttempts       \* bound: attempts to connect of all endpoints

VARIABLES
  link,         \* [Endpoints -> what the task does, its failures and its delay]
  counters,     \* the shared counters
  streak        \* history: failed attempts since the last session

supervisorVars == <<link, counters, streak>>

FirstBackoff == Max({InitialBackoff, 1})
LastBackoff == Max({MaxBackoff, FirstBackoff})

\* Fault: the counter is used as it is, not less one.
ShiftOfAll(failures) == Min({failures, Max({AttemptsCap, 1}), 20})

Shift(failures) == Min({Max({failures - 1, 0}), Max({AttemptsCap, 1}), 20})

\* 1u64 << k
PowerOfTwo[k \in Nat] == IF k = 0 THEN 1 ELSE 2 * PowerOfTwo[k - 1]

Backoff(failures) ==
  Min({LastBackoff, Min({MaxWord, FirstBackoff * PowerOfTwo[Shift(failures)]})})

\* The default configuration (1 s, 60 s, 8) reaches max_backoff_secs before the cap
\* on attempts.
ASSUME SupervisorAssumption ==
  /\ IsFiniteSet(Endpoints)
  /\ {InitialBackoff, MaxBackoff, AttemptsCap, MaxWord, MaxAttempts} \subseteq Nat
  /\ FirstBackoff * PowerOfTwo[Min({Max({AttemptsCap, 1}), 20})] >= LastBackoff
  /\ MaxWord >= LastBackoff

SupervisorInit ==
  /\ link = [e \in Endpoints |-> [pc |-> "connecting", failures |-> 0, delay |-> 0]]
  /\ counters = [attempts |-> Cardinality(Endpoints), sessions |-> 0, reconnects |-> 0, lost |-> 0]
  /\ streak = [e \in Endpoints |-> 0]

Sleeps(e, failures) ==
  link' = [link EXCEPT ![e] = [pc |-> "sleeping", failures |-> failures, delay |-> Backoff(failures)]]

Connected(e) ==
  /\ link[e].pc = "connecting"
  /\ link' = [link EXCEPT ![e] = [pc |-> "session", failures |-> 0, delay |-> 0]]
  /\ counters' = [counters EXCEPT !.sessions = @ + 1]
  /\ streak' = [streak EXCEPT ![e] = 0]

ConnectFails(e) ==
  /\ link[e].pc = "connecting"
  /\ Sleeps(e, link[e].failures + 1)
  /\ counters' = [counters EXCEPT !.reconnects = @ + 1]
  /\ streak' = [streak EXCEPT ![e] = @ + 1]

PingFails(e) ==
  /\ link[e].pc = "session"
  /\ Sleeps(e, link[e].failures)
  /\ counters' = [counters EXCEPT !.lost = @ + 1, !.reconnects = @ + 1]
  /\ UNCHANGED streak

Wake(e) ==
  /\ link[e].pc = "sleeping" /\ counters.attempts < MaxAttempts
  /\ link' = [link EXCEPT ![e] = [@ EXCEPT !.pc = "connecting", !.delay = 0]]
  /\ counters' = [counters EXCEPT !.attempts = @ + 1]
  /\ UNCHANGED streak

SupervisorNext == \E e \in Endpoints : Connected(e) \/ ConnectFails(e) \/ PingFails(e) \/ Wake(e)

-----------------------------------------------------------------------------
\* The delay after k failures in a row is the first one doubled k - 1 times and
\* never above the last one, whatever the clamps of the shift and of the product
\* do on the way; a lost session begins again at the first.  The counters of all
\* endpoints account for every session that is open.
BackoffDoubles ==
  /\ \A e \in Endpoints : link[e].pc = "sleeping" =>
       link[e].delay = Min({LastBackoff, FirstBackoff * PowerOfTwo[Max({streak[e] - 1, 0})]})
  /\ counters.sessions - counters.lost = Cardinality({e \in Endpoints : link[e].pc = "session"})
=============================================================================
