--------------------------- MODULE PeerTransport ---------------------------
(***************************************************************************)
(* Sessions between a node that sends and a peer that listens              *)
(* (core/src/network.rs): the cache of active connections, send_to_peer,   *)
(* send_to_peer_confirmed, the heartbeat tasks that bootstrap starts, the  *)
(* handle task of the listener.                                            *)
(*                                                                         *)
(* A connection is a pair of byte pipes of limited size (Buffer frames     *)
(* each); writing to a full pipe waits, and no write has a timeout.  The   *)
(* mutex of a cached connection is the field lock, whose value says who    *)
(* holds it and why.  A connection is closed on the sender's side when     *)
(* nothing refers to it any more.  The sender is an honest node: it sends  *)
(* nothing but what these functions send.                                  *)
(*                                                                         *)
(* Node.active is behind a tokio RwLock, which is fair: a writer that      *)
(* waits keeps later readers out.  Who reads and who waits to write is     *)
(* read off the states of the calls and of the heartbeat tasks; a lock     *)
(* that is free is taken in the step that asks for it.                     *)
(*                                                                         *)
(* Frames are abstracted to what they carry: the cipher, the padding and   *)
(* the sequence numbers are those of module ReplayGuard; the rate limits   *)
(* of the listener are those of module PeerGate and are not reached here;  *)
(* whether the inbox has room is a choice here and module NodeInbox's      *)
(* business.                                                               *)
(***************************************************************************)
EXTENDS Integers, Sequences, FiniteSets

CONSTANTS
  Messages,      \* what is sent in a run: numbers, submitted in their order
  Confirmed,     \* the messages sent by send_to_peer_confirmed
  MaxConns,      \* bound: connections opened in a run, 1..MaxConns
  Buffer,        \* bound: frames that the two ends of a pipe hold
  Permits,       \* MAX_CONCURRENT_CONNECTIONS of the listener
  MaxStrikes,    \* PeerDefense.max_strikes
  Breaks,        \* whether the network breaks connections
  None           \* model value

ASSUME TransportAssumption ==
  /\ Messages \subseteq Nat
  /\ Confirmed \subseteq Messages
  /\ MaxConns \in Nat /\ Buffer \in Nat \ {0} /\ Permits \in Nat \ {0}
  /\ MaxStrikes \in Nat \ {0} /\ Breaks \in BOOLEAN
  /\ None \notin Int

VARIABLES
  conn,          \* [Conns -> the two ends of a connection]
  active,        \* the entry of Node.active for the peer
  send,          \* [Messages -> the call that sends it]
  strikes,       \* of the sender, in the peer's PeerDefense
  arrivals       \* [Messages -> how often the peer's inbox has taken it]

clientVars == <<active, send>>
vars == <<conn, active, send, strikes, arrivals>>

Conns == 1..MaxConns

\* Frames other than messages.  As the holder of a lock, Ping is a heartbeat
\* that has its ping to write, Pong one that waits for the pong, and Owes one
\* that has a ping of the peer to answer.
Ping == -1
Pong == -2
Ack == -3
Owes == -4

Unopened == [server |-> "none", up |-> <<>>, down |-> <<>>, lock |-> None, beat |-> "none"]
Opened(up, beat) ==
  [server |-> "new", up |-> up, down |-> <<>>, lock |-> None, beat |-> beat]

Init ==
  /\ conn = [c \in Conns |-> Unopened]
  /\ active = None
  /\ send = [m \in Messages |-> [state |-> "new", conn |-> None]]
  /\ strikes = 0
  /\ arrivals = [m \in Messages |-> 0]

Calls(m, state, c) == send' = [send EXCEPT ![m] = [state |-> state, conn |-> c]]

\* Something on the sender's side still holds the connection.
Referenced(c) ==
  \/ active = c
  \/ conn[c].beat \in {"caching", "running"}
  \/ \E m \in Messages : send[m].conn = c

\* The calls of send_to_peer that hold a read guard on the table.  The guard is
\* a temporary of the if let and lives until its else branch ends.
Readers == {m \in Messages \ Confirmed : send[m].state \in {"connecting", "caching"}}

\* Somebody waits for the write lock of the table: later readers wait too.
WriterWaits ==
  \/ \E m \in Messages : send[m].state \in {"caching", "failing"}
  \/ \E c \in Conns : conn[c].beat \in {"caching", "removing"}

Serving == {c \in Conns : conn[c].server \notin {"none", "closed"}}
Broken(c) == conn[c].server = "closed"
Room(pipe) == Len(pipe) < Buffer

\* Node::connect on the next connection: the listener has a permit and the
\* peers know each other's version and keys; the handshake checks both.
CanConnect(c) ==
  /\ conn[c].server = "none"
  /\ \A d \in 1..(c - 1) : conn[d].server # "none"
  /\ Cardinality(Serving) < Permits

-----------------------------------------------------------------------------
(* The sender *)

\* Node::bootstrap: the new connection replaces the cached one, whose
\* heartbeat task keeps it open, and gets a heartbeat task of its own; or it
\* waits for the readers of the table.
Bootstrap(c) ==
  /\ CanConnect(c)
  /\ IF Readers = {}
     THEN conn' = [conn EXCEPT ![c] = Opened(<<>>, "running")] /\ active' = c
     ELSE conn' = [conn EXCEPT ![c] = Opened(<<>>, "caching")] /\ active' = active
  /\ UNCHANGED <<send, strikes, arrivals>>

\* The readers of the table are gone.
BootstrapCaches(c) ==
  /\ conn[c].beat = "caching" /\ Readers = {}
  /\ conn' = [conn EXCEPT ![c].beat = "running"]
  /\ active' = c
  /\ UNCHANGED <<send, strikes, arrivals>>

\* send_to_peer takes the cached connection, or goes on to open one under its
\* read guard.
LooksUp(m) ==
  IF active = None THEN Calls(m, "connecting", None) ELSE Calls(m, "queued", active)

\* send_to_peer asks for the table, and gets it unless a writer waits.
SendToPeer(m) ==
  /\ m \notin Confirmed /\ send[m].state = "new"
  /\ \A k \in Messages \ Confirmed : k < m => send[k].state # "new"
  /\ IF WriterWaits THEN Calls(m, "asking", None) ELSE LooksUp(m)
  /\ UNCHANGED <<conn, active, strikes, arrivals>>

\* No writer waits any more.
SendLooksUp(m) ==
  /\ send[m].state = "asking" /\ ~WriterWaits
  /\ LooksUp(m)
  /\ UNCHANGED <<conn, active, strikes, arrivals>>

\* send_to_peer_confirmed: a fresh connection for one message.
SendConfirmed(m) ==
  /\ m \in Confirmed /\ send[m].state = "new"
  /\ Calls(m, "connecting", None)
  /\ UNCHANGED <<conn, active, strikes, arrivals>>

\* Node::connect for either call.  A failure returns and drops the guard of
\* send_to_peer.  With its connection, send_to_peer asks for the write lock of
\* the table, which waits for all read guards, its own among them: "caching" is
\* a state that no step leaves.
SendConnect(m) ==
  /\ send[m].state = "connecting"
  /\ \/ \E c \in Conns :
          /\ CanConnect(c)
          /\ IF m \in Confirmed
             THEN conn' = [conn EXCEPT ![c] = Opened(<<m>>, "none")] /\ Calls(m, "waiting", c)
             ELSE conn' = [conn EXCEPT ![c] = Opened(<<>>, "none")] /\ Calls(m, "caching", c)
     \/ Calls(m, "failed", None) /\ UNCHANGED conn
  /\ UNCHANGED <<active, strikes, arrivals>>

\* The call has the mutex of the connection, or gets it now.
Holds(m) ==
  \/ send[m].state = "writing"
  \/ send[m].state = "queued" /\ conn[send[m].conn].lock = None

\* A write to a broken connection fails, or is buffered and lost.  After a
\* failure the call removes whatever connection is cached; while somebody reads
\* the table it waits, with the connection's mutex in hand.
SendFailed(m) ==
  LET c == send[m].conn
  IN  /\ Holds(m) /\ Broken(c)
      /\ \/ Readers = {} /\ Calls(m, "failed", None) /\ active' = None
             /\ conn' = [conn EXCEPT ![c].lock = None]
         \/ Readers # {} /\ Calls(m, "failing", c) /\ active' = active
             /\ conn' = [conn EXCEPT ![c].lock = m]
         \/ Calls(m, "sent", None) /\ active' = active
             /\ conn' = [conn EXCEPT ![c].lock = None]
      /\ UNCHANGED <<strikes, arrivals>>

\* The readers of the table are gone.
SendRemoves(m) ==
  /\ send[m].state = "failing" /\ Readers = {}
  /\ conn' = [conn EXCEPT ![send[m].conn].lock = None]
  /\ active' = None
  /\ Calls(m, "failed", None)
  /\ UNCHANGED <<strikes, arrivals>>

\* The call returns when the frame is in the pipe; nobody waits for the
\* acknowledgement.  Without room it waits, with the mutex.
SendWrite(m) ==
  LET c == send[m].conn
  IN  /\ Holds(m) /\ ~Broken(c)
      /\ IF Room(conn[c].up)
         THEN /\ conn' = [conn EXCEPT ![c].up = Append(@, m), ![c].lock = None]
              /\ Calls(m, "sent", None)
         ELSE /\ conn' = [conn EXCEPT ![c].lock = m]
              /\ Calls(m, "writing", c)
      /\ UNCHANGED <<active, strikes, arrivals>>

\* The acknowledgement is the first frame of a fresh connection.
ConfirmRecv(m) ==
  LET c == send[m].conn
  IN  /\ send[m].state = "waiting"
      /\ conn[c].down # <<>> /\ Head(conn[c].down) = Ack
      /\ Calls(m, "confirmed", None)
      /\ conn' = [conn EXCEPT ![c].down = <<>>]
      /\ UNCHANGED <<active, strikes, arrivals>>

\* HELLO_TIMEOUT without a frame, or a broken connection.
ConfirmFails(m) ==
  /\ send[m].state = "waiting"
  /\ Calls(m, "failed", None)
  /\ conn' = [conn EXCEPT ![send[m].conn].down = <<>>]
  /\ UNCHANGED <<active, strikes, arrivals>>

\* try_lock fails while a call holds the mutex or is queued for it.
TryLock(c) ==
  /\ conn[c].lock = None
  /\ \A m \in Messages : ~(send[m].state = "queued" /\ send[m].conn = c)

\* The heartbeat task of bootstrap: the writes of ping_roundtrip, its ping and
\* its answers to pings of the peer.
Beat(c) ==
  LET frame == IF conn[c].lock = Owes THEN Pong ELSE Ping
  IN  /\ conn[c].lock \in {Ping, Owes} \/ (conn[c].beat = "running" /\ TryLock(c))
      /\ ~Broken(c)
      /\ conn' = IF Room(conn[c].up)
                 THEN [conn EXCEPT ![c].up = Append(@, frame), ![c].lock = Pong]
                 ELSE [conn EXCEPT ![c].lock = IF frame = Ping THEN Ping ELSE Owes]
      /\ UNCHANGED <<clientVars, strikes, arrivals>>

\* The reads of ping_roundtrip: the pong ends it, acknowledgements are skipped.
BeatRecv(c) ==
  /\ conn[c].lock = Pong /\ conn[c].down # <<>>
  /\ LET lock == CASE Head(conn[c].down) = Pong -> None
                   [] Head(conn[c].down) = Ping -> Owes
                   [] OTHER -> Pong
     IN  conn' = [conn EXCEPT ![c].down = Tail(@), ![c].lock = lock]
  /\ UNCHANGED <<clientVars, strikes, arrivals>>

\* No frame in time, or the connection is known to be broken.
NoPong(c) ==
  \/ conn[c].lock = Pong /\ conn[c].down = <<>>
  \/ Broken(c) /\ conn[c].beat = "running" /\ (TryLock(c) \/ conn[c].lock \in {Ping, Owes})

\* Fault: the entry of the dead connection stays in Node.active.
BeatFailsKeepsEntry(c) ==
  /\ NoPong(c)
  /\ conn' = [conn EXCEPT ![c].lock = None, ![c].beat = "ended"]
  /\ UNCHANGED <<clientVars, strikes, arrivals>>

\* The task removes the entry of the peer, which may be that of a newer
\* connection, and ends; or it waits for the readers of the table.
Removal(c, lock) ==
  IF Readers = {}
  THEN conn' = [conn EXCEPT ![c].lock = lock, ![c].beat = "ended"] /\ active' = None
  ELSE conn' = [conn EXCEPT ![c].lock = lock, ![c].beat = "removing"] /\ active' = active

\* Fault: the task goes on with the mutex locked.
BeatFailsLocked(c) ==
  /\ NoPong(c)
  /\ Removal(c, conn[c].lock)
  /\ UNCHANGED <<send, strikes, arrivals>>

\* The task lets the mutex go before it asks for the table.
BeatFails(c) ==
  /\ NoPong(c)
  /\ Removal(c, None)
  /\ UNCHANGED <<send, strikes, arrivals>>

\* The readers of the table are gone.
BeatRemoves(c) ==
  /\ conn[c].beat = "removing" /\ Readers = {}
  /\ conn' = [conn EXCEPT ![c].beat = "ended"]
  /\ active' = None
  /\ UNCHANGED <<send, strikes, arrivals>>

-----------------------------------------------------------------------------
(* The peer: one handle task per connection *)

\* The task returns; what it has not read is lost.
Close(c) == conn' = [conn EXCEPT ![c].server = "closed", ![c].up = <<>>]

Struck == strikes' = IF strikes < MaxStrikes THEN strikes + 1 ELSE strikes

\* The defense table is asked when the session begins, and only then.  A strike
\* short of the ban closes the door until the quarantine is over.
Admit(c) ==
  /\ conn[c].server = "new"
  /\ \/ strikes > 0 /\ Close(c)
     \/ strikes < MaxStrikes /\ conn' = [conn EXCEPT ![c].server = "serving"]
  /\ UNCHANGED <<clientVars, strikes, arrivals>>

Queued(m) == arrivals' = [arrivals EXCEPT ![m] = @ + 1]

\* The first frame is read and answered; without room for the answer, or with
\* nobody there to get it, the task waits.
Answers(c, frame, state) ==
  conn' = IF Referenced(c) /\ Room(conn[c].down)
          THEN [conn EXCEPT ![c].up = Tail(@), ![c].down = Append(@, frame)]
          ELSE [conn EXCEPT ![c].up = Tail(@), ![c].server = state]

\* Fault: the frame is acknowledged whether or not the inbox took it.
RecvAcksAlways(c) ==
  /\ conn[c].server = "serving" /\ conn[c].up # <<>>
  /\ LET frame == Head(conn[c].up)
     IN  \/ frame = Ping /\ Answers(c, Pong, "pong") /\ UNCHANGED arrivals
         \/ frame \in Messages /\ Answers(c, Ack, "ack") /\ (Queued(frame) \/ UNCHANGED arrivals)
  /\ UNCHANGED <<clientVars, strikes>>

\* A data frame that the inbox refuses ends the session.
Recv(c) ==
  /\ conn[c].server = "serving" /\ conn[c].up # <<>>
  /\ LET frame == Head(conn[c].up)
     IN  \/ frame = Ping /\ Answers(c, Pong, "pong") /\ UNCHANGED arrivals
         \/ frame = Pong /\ conn' = [conn EXCEPT ![c].up = Tail(@)] /\ UNCHANGED arrivals
         \/ frame \in Messages /\ Answers(c, Ack, "ack") /\ Queued(frame)
         \/ frame \in Messages /\ Close(c) /\ UNCHANGED arrivals
  /\ UNCHANGED <<clientVars, strikes>>

\* The frame that a handle task waits to write.
Due(state) == CASE state = "ack" -> Ack [] state = "pong" -> Pong [] state = "ping" -> Ping

\* The write has waited.  When the sender is gone it fails, which is not a
\* strike, or vanishes.
Reply(c) ==
  /\ conn[c].server \in {"ack", "pong", "ping"}
  /\ IF Referenced(c)
     THEN /\ Room(conn[c].down)
          /\ conn' = [conn EXCEPT ![c].down = Append(@, Due(conn[c].server)), ![c].server = "serving"]
     ELSE Close(c) \/ conn' = [conn EXCEPT ![c].server = "serving"]
  /\ UNCHANGED <<clientVars, strikes, arrivals>>

\* HEARTBEAT without a frame: a ping, which waits for room like an answer.  It
\* restarts last_activity, so is_idle never ends a session.
Quiet(c) ==
  /\ conn[c].server = "serving" /\ conn[c].up = <<>>
  /\ Referenced(c)
  /\ conn' = IF Room(conn[c].down) THEN [conn EXCEPT ![c].down = Append(@, Ping)]
             ELSE [conn EXCEPT ![c].server = "ping"]
  /\ UNCHANGED <<clientVars, strikes, arrivals>>

\* The sender has closed the connection: recv fails, which is a strike.
Eof(c) ==
  /\ conn[c].server = "serving" /\ conn[c].up = <<>> /\ ~Referenced(c)
  /\ Close(c)
  /\ Struck
  /\ UNCHANGED <<clientVars, arrivals>>

\* The network breaks the connection, or a frame is cut in two by the HEARTBEAT
\* timeout, which drops the half that was read: recv fails.
Break(c) ==
  /\ Breaks /\ strikes < MaxStrikes
  /\ conn[c].server = "serving"
  /\ Close(c)
  /\ Struck
  /\ UNCHANGED <<clientVars, arrivals>>

Next ==
  \/ \E c \in Conns :
       \/ Bootstrap(c) \/ BootstrapCaches(c)
       \/ Beat(c) \/ BeatRecv(c) \/ BeatFails(c) \/ BeatRemoves(c)
       \/ Admit(c) \/ Recv(c) \/ Reply(c) \/ Quiet(c) \/ Eof(c) \/ Break(c)
  \/ \E m \in Messages :
       \/ SendToPeer(m) \/ SendLooksUp(m) \/ SendConnect(m)
       \/ SendWrite(m) \/ SendFailed(m) \/ SendRemoves(m)
       \/ SendConfirmed(m) \/ ConfirmRecv(m) \/ ConfirmFails(m)

\* A step of a call that is under way.
CallGoesOn(m) ==
  \/ SendLooksUp(m) \/ SendConnect(m) \/ SendWrite(m) \/ SendFailed(m) \/ SendRemoves(m)
  \/ ConfirmRecv(m) \/ ConfirmFails(m)

\* Tasks that can go on do so; nothing forces a call of the interface, a broken
\* connection or a discovery round.  A call takes finitely many steps, so one
\* condition serves all calls.
Fairness ==
  /\ \A c \in Conns :
       /\ WF_vars(BootstrapCaches(c) \/ Beat(c) \/ BeatRecv(c) \/ BeatFails(c) \/ BeatRemoves(c))
       /\ WF_vars(Admit(c) \/ Recv(c) \/ Reply(c) \/ Eof(c))
  /\ WF_vars(\E m \in Messages : CallGoesOn(m))

Spec == Init /\ [][Next]_vars /\ Fairness
-----------------------------------------------------------------------------
Outcome(state) ==
  IF state \in {"new", "sent", "confirmed", "failed"} THEN state ELSE "pending"

Mailbox == INSTANCE PeerMailbox WITH
  outcome <- [m \in Messages |-> Outcome(send[m].state)],
  arrived <- arrivals

\* The two ways to send implement PeerMailbox, whatever happens to
\* connections, cache, locks and inbox: no message arrives twice, none arrives
\* unsent, and Ok of send_to_peer_confirmed means that the inbox has it.
ImplementsMailbox == Mailbox!Spec

\* Both pipes of a connection are full of frames that nobody reads: the peer
\* waits to write, and who holds the mutex waits to write.
Jammed(c) ==
  /\ conn[c].server \in {"ack", "pong", "ping"}
  /\ ~Room(conn[c].down) /\ ~Room(conn[c].up)
  /\ conn[c].lock \notin {None, Pong}

Returned(m) == send[m].state \in {"new", "sent", "confirmed", "failed"}

\* A call of send_to_peer waits for the write lock that its own guard denies it.
TableStuck == \E m \in Messages : send[m].state = "caching"

\* A call on this connection has a failed write and waits for the stuck table.
RemovalStuck(c) ==
  TableStuck /\ \E m \in Messages : send[m].state = "failing" /\ send[m].conn = c

\* Every call of send_to_peer and send_to_peer_confirmed returns, and every
\* holder of a connection's mutex lets it go, with two exceptions.  A connection
\* jams when the acknowledgements of earlier messages are unread.  And a call of
\* send_to_peer that had to open its connection waits on its own read guard for
\* ever: with it every later call of send_to_peer, every call that has to remove
\* a dead connection, and those that wait for such a call's mutex.  A confirmed
\* call always returns; a broken, refused or replaced connection holds nobody.
SendReturns ==
  /\ \A m \in Messages :
       []<>(\/ Returned(m)
            \/ TableStuck /\ send[m].state \in {"asking", "caching", "failing"}
            \/ send[m].state \in {"queued", "writing"}
                 /\ (Jammed(send[m].conn) \/ RemovalStuck(send[m].conn)))
  /\ \A c \in Conns : []<>(conn[c].lock = None \/ Jammed(c) \/ RemovalStuck(c))

\* A dead connection does not stay in the cache, where it would swallow the
\* messages of send_to_peer, unless a call has the table stuck.
DeadLeavesActive == []<>(active = None \/ ~Broken(active) \/ TableStuck)
=============================================================================
