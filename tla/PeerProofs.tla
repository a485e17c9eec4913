----------------------------- MODULE PeerProofs -----------------------------
(***************************************************************************)
(* Between two nodes: send_to_peer and send_to_peer_confirmed implement    *)
(* PeerMailbox for every number of connections, messages, permits and      *)
(* strikes and every size of the pipes; and what a listener admits, module *)
(* PeerGate, stays within its rates for every capacity, refill, table size *)
(* and number of connections.                                              *)
(***************************************************************************)
EXTENDS PeerTransport, PeerGate, TLAPS


ServerStates == {"none", "new", "serving", "ack", "pong", "ping", "closed"}
CallStates ==
  {"new", "asking", "connecting", "caching", "queued", "writing", "failing", "waiting",
   "sent", "confirmed", "failed"}

\* The calls that have not written their frame.
Unwritten == {"new", "asking", "connecting", "caching", "queued", "writing", "failing"}

\* The calls that hold a connection.
Holding == {"caching", "queued", "writing", "failing", "waiting"}

Frames == Messages \cup {Ping, Pong, Ack}

Sides ==
  [server : ServerStates, up : Seq(Frames), down : Seq(Frames),
   lock : Messages \cup {None, Ping, Pong, Owes},
   beat : {"none", "caching", "running", "removing", "ended"}]

TypeOK ==
  /\ conn \in [Conns -> Sides]
  /\ active \in Conns \cup {None}
  /\ send \in [Messages -> [state : CallStates, conn : Conns \cup {None}]]
  /\ strikes \in Nat
  /\ arrivals \in [Messages -> {0, 1}]

\* What the client refers to is a connection that was opened.
RefersToOpened ==
  /\ active # None => conn[active].server # "none"
  /\ \A c \in Conns : conn[c].beat = "caching" => conn[c].server # "none"
  /\ \A m \in Messages :
       /\ send[m].state \in Holding <=> send[m].conn # None
       /\ send[m].conn # None => conn[send[m].conn].server # "none"

Travels(m, c, i) == i \in 1..Len(conn[c].up) /\ conn[c].up[i] = m

\* A message is on its way at one place, after its frame was written and before
\* the inbox took it.
OneCopy ==
  \A m \in Messages :
    /\ send[m].state \in Unwritten => arrivals[m] = 0
    /\ \A c \in Conns : \A i \in 1..Len(conn[c].up) : Travels(m, c, i) =>
         /\ arrivals[m] = 0
         /\ send[m].state \notin Unwritten
         /\ \A d \in Conns : \A j \in 1..Len(conn[d].up) : Travels(m, d, j) => d = c /\ j = i

Acknowledges(c) ==
  conn[c].server = "ack" \/ \E i \in 1..Len(conn[c].down) : conn[c].down[i] = Ack

\* The connection of a confirmed send carries its message and no other, so an
\* acknowledgement on it is the acknowledgement of this message.
OwnConnection(m) ==
  LET c == send[m].conn
  IN  /\ active # c /\ conn[c].beat # "caching"
      /\ \A k \in Messages \ {m} : send[k].conn # c
      /\ \A i \in 1..Len(conn[c].up) : conn[c].up[i] \in Messages => conn[c].up[i] = m
      /\ Acknowledges(c) => arrivals[m] = 1

AckMeansArrived == \A m \in Messages : send[m].state = "waiting" => OwnConnection(m)

\* The inductive invariant.
TransportInv == TypeOK /\ RefersToOpened /\ OneCopy /\ AckMeansArrived

-----------------------------------------------------------------------------
\* Every message of a pipe stands in another one, a fixed number of places
\* further back.
MovedUp(new, old) ==
  \E k \in Nat : \A i \in 1..Len(new) :
    new[i] \in Messages => i + k \in 1..Len(old) /\ old[i + k] = new[i]

LEMMA PipeFacts ==
  ASSUME NEW q \in Seq(Frames)
  PROVE  /\ MovedUp(q, q) /\ MovedUp(<<>>, q)
         /\ \A f \in {Ping, Pong, Ack} : MovedUp(Append(q, f), q)
         /\ q # <<>> => MovedUp(Tail(q), q) /\ Tail(q) \in Seq(Frames) /\ Head(q) \in Frames
                        /\ Head(q) = q[1] /\ 1 \in 1..Len(q)
                        /\ \A i \in 1..Len(Tail(q)) : i + 1 \in 1..Len(q) /\ Tail(q)[i] = q[i + 1]
<1>1. MovedUp(q, q) /\ MovedUp(<<>>, q)
  <2>1. \A i \in 1..Len(q) : i + 0 \in 1..Len(q) /\ q[i + 0] = q[i]
    OBVIOUS
  <2> QED
    BY <2>1 DEF MovedUp
<1>2. ASSUME NEW f \in {Ping, Pong, Ack} PROVE MovedUp(Append(q, f), q)
  <2>1. f \notin Messages
    BY TransportAssumption DEF Ping, Pong, Ack
  <2>2. \A i \in 1..Len(Append(q, f)) :
          Append(q, f)[i] \in Messages => i + 0 \in 1..Len(q) /\ q[i + 0] = Append(q, f)[i]
    BY <2>1
  <2> QED
    BY <2>2 DEF MovedUp
<1>3. ASSUME q # <<>>
      PROVE  /\ Tail(q) \in Seq(Frames) /\ Head(q) \in Frames /\ Head(q) = q[1] /\ 1 \in 1..Len(q)
             /\ \A i \in 1..Len(Tail(q)) : i + 1 \in 1..Len(q) /\ Tail(q)[i] = q[i + 1]
  BY <1>3
<1>4. q # <<>> => MovedUp(Tail(q), q)
  BY <1>3 DEF MovedUp
<1> QED
  BY <1>1, <1>2, <1>3, <1>4

\* A step of one connection that writes no message, delivers none and makes no
\* acknowledgement: what heartbeats and handle tasks do most of the time.
LEMMA ConnectionStep ==
  ASSUME TransportInv, NEW c \in Conns, NEW s \in Sides,
         conn' = [conn EXCEPT ![c] = s],
         active' = active \/ active' = None \/ (active' = c /\ conn[c].beat = "caching"),
         send' = send, arrivals' = arrivals, strikes' \in Nat,
         s.server = "none" => conn[c].server = "none",
         s.beat = "caching" => conn[c].beat = "caching",
         MovedUp(s.up, conn[c].up),
         (s.server = "ack" \/ \E i \in 1..Len(s.down) : s.down[i] = Ack) => Acknowledges(c)
  PROVE  TransportInv'
<1> USE DEF TransportInv
<1>1. TypeOK'
  BY DEF TypeOK
<1>2. conn'[c] = s /\ \A d \in Conns \ {c} : conn'[d] = conn[d]
  BY DEF TypeOK
<1>3. RefersToOpened'
  BY <1>2 DEF TypeOK, RefersToOpened
<1>4. PICK k \in Nat : \A i \in 1..Len(s.up) :
        s.up[i] \in Messages => i + k \in 1..Len(conn[c].up) /\ conn[c].up[i + k] = s.up[i]
  BY DEF MovedUp
<1>5. OneCopy'
  <2> DEFINE back(d, i) == IF d = c THEN i + k ELSE i
  <2>1. ASSUME NEW m \in Messages, NEW d \in Conns, NEW i \in 1..Len(conn'[d].up),
               Travels(m, d, i)'
        PROVE  back(d, i) \in 1..Len(conn[d].up) /\ Travels(m, d, back(d, i))
    BY <1>2, <1>4, <2>1 DEF Travels
  <2> HIDE DEF back
  <2>2. ASSUME NEW m \in Messages, NEW d \in Conns, NEW i \in 1..Len(conn'[d].up),
               Travels(m, d, i)'
        PROVE  /\ arrivals'[m] = 0
               /\ send'[m].state \notin Unwritten
               /\ \A e \in Conns : \A j \in 1..Len(conn'[e].up) : Travels(m, e, j)' => e = d /\ j = i
    <3>1. /\ arrivals[m] = 0 /\ send[m].state \notin Unwritten
          /\ \A e \in Conns : \A j \in 1..Len(conn[e].up) : Travels(m, e, j) => e = d /\ j = back(d, i)
      BY <2>1, <2>2 DEF OneCopy
    <3>2. ASSUME NEW e \in Conns, NEW j \in 1..Len(conn'[e].up), Travels(m, e, j)'
          PROVE  e = d /\ j = i
      <4>1. e = d /\ back(e, j) = back(d, i)
        BY <2>1, <3>1, <3>2
      <4>2. i \in Int /\ j \in Int
        OBVIOUS
      <4> QED
        BY <4>1, <4>2 DEF back
    <3> QED
      BY <3>1, <3>2
  <2> QED
    BY <2>2 DEF OneCopy
<1>6. AckMeansArrived'
  <2> SUFFICES ASSUME NEW m \in Messages, send[m].state = "waiting"
               PROVE  OwnConnection(m)'
    BY DEF AckMeansArrived
  <2>1. OwnConnection(m) /\ send[m].conn \in Conns
    BY TransportAssumption DEF AckMeansArrived, RefersToOpened, TypeOK, Holding
  <2>2. CASE send[m].conn = c
    <3>1. active' # c /\ s.beat # "caching" /\ \A j \in Messages \ {m} : send'[j].conn # c
      BY <2>1, <2>2, TransportAssumption DEF OwnConnection, Conns
    <3>2. ASSUME NEW i \in 1..Len(s.up), s.up[i] \in Messages PROVE s.up[i] = m
      BY <1>4, <2>1, <2>2, <3>2 DEF OwnConnection
    <3>3. Acknowledges(c)' => arrivals'[m] = 1
      BY <1>2, <2>1, <2>2 DEF OwnConnection, Acknowledges
    <3> QED
      BY <1>2, <2>2, <3>1, <3>2, <3>3 DEF OwnConnection
  <2>3. CASE send[m].conn # c
    BY <1>2, <2>1, <2>3, TransportAssumption DEF OwnConnection, Acknowledges, Conns
  <2> QED
    BY <2>2, <2>3
<1> QED
  BY <1>1, <1>3, <1>5, <1>6

\* The heartbeat task.
LEMMA HeartbeatStep ==
  ASSUME TransportInv, NEW c \in Conns,
         BootstrapCaches(c) \/ Beat(c) \/ BeatRecv(c) \/ BeatFails(c) \/ BeatRemoves(c)
  PROVE  TransportInv' /\ UNCHANGED <<send, arrivals>>
<1> USE DEF TransportInv
<1>1. conn[c] \in Sides /\ conn[c].up \in Seq(Frames) /\ conn[c].down \in Seq(Frames)
  BY DEF TypeOK, Sides
<1>2. /\ strikes' \in Nat /\ UNCHANGED <<send, arrivals>>
      /\ active' = active \/ active' = None \/ (active' = c /\ conn[c].beat = "caching")
  BY DEF TypeOK, BootstrapCaches, Beat, BeatRecv, BeatFails, BeatRemoves, Removal, clientVars
<1>3. CASE Beat(c)
  <2> DEFINE frame == IF conn[c].lock = Owes THEN Pong ELSE Ping
             s == IF Room(conn[c].up)
                  THEN [conn[c] EXCEPT !.up = Append(@, frame), !.lock = Pong]
                  ELSE [conn[c] EXCEPT !.lock = IF frame = Ping THEN Ping ELSE Owes]
  <2>1. frame \in {Ping, Pong} /\ Append(conn[c].up, frame) \in Seq(Frames)
    BY <1>1 DEF Frames
  <2>2. conn' = [conn EXCEPT ![c] = s]
    BY <1>3, <1>1 DEF Beat, TypeOK
  <2>3. MovedUp(s.up, conn[c].up)
    BY <1>1, <2>1, PipeFacts DEF Sides
  <2>4. s \in Sides /\ s.server = conn[c].server /\ s.down = conn[c].down /\ s.beat = conn[c].beat
    BY <1>1, <2>1 DEF Sides
  <2> QED
    BY <1>2, <2>2, <2>3, <2>4, ConnectionStep DEF Acknowledges
<1>4. CASE BeatRecv(c)
  <2> DEFINE lock == CASE Head(conn[c].down) = Pong -> None
                       [] Head(conn[c].down) = Ping -> Owes
                       [] OTHER -> Pong
  <2>0. lock \in {None, Owes, Pong}
    OBVIOUS
  <2>1. conn' = [conn EXCEPT ![c].down = Tail(@), ![c].lock = lock]
    BY <1>4, Zenon DEF BeatRecv
  <2> HIDE DEF lock
  <2> DEFINE s == [conn[c] EXCEPT !.down = Tail(@), !.lock = lock]
  <2>2. conn[c].down # <<>> /\ conn' = [conn EXCEPT ![c] = s]
    BY <1>4, <1>1, <2>1 DEF BeatRecv, TypeOK
  <2>3. /\ s \in Sides /\ s.server = conn[c].server /\ s.beat = conn[c].beat
        /\ s.up = conn[c].up /\ s.down = Tail(conn[c].down)
    BY <1>1, <2>0, <2>2, PipeFacts DEF Sides
  <2> HIDE DEF s
  <2>4. (\E i \in 1..Len(s.down) : s.down[i] = Ack) => Acknowledges(c)
    BY <1>1, <2>2, <2>3, PipeFacts DEF Acknowledges
  <2>5. s.server = "ack" => Acknowledges(c)
    BY <2>3 DEF Acknowledges
  <2>6. MovedUp(s.up, conn[c].up)
    BY <1>1, <2>3, PipeFacts
  <2> QED
    BY <1>2, <2>2, <2>3, <2>4, <2>5, <2>6, ConnectionStep
<1>5. ASSUME NEW s \in Sides, conn' = [conn EXCEPT ![c] = s], s.server = conn[c].server,
             s.up = conn[c].up, s.down = conn[c].down, s.beat # "caching"
      PROVE  TransportInv'
  <2>1. MovedUp(s.up, conn[c].up)
    BY <1>1, <1>5, PipeFacts
  <2> QED
    BY <1>2, <1>5, <2>1, ConnectionStep DEF Acknowledges
<1>6. CASE BeatFails(c)
  <2> DEFINE beat == IF Readers = {} THEN "ended" ELSE "removing"
             s == [conn[c] EXCEPT !.lock = None, !.beat = beat]
  <2>1. conn' = [conn EXCEPT ![c] = s]
    BY <1>6, <1>1 DEF BeatFails, Removal, TypeOK
  <2>2. beat \in {"ended", "removing"}
    OBVIOUS
  <2> HIDE DEF beat
  <2>3. /\ s \in Sides /\ s.server = conn[c].server /\ s.beat = beat
        /\ s.up = conn[c].up /\ s.down = conn[c].down
    BY <1>1, <2>2 DEF Sides
  <2> HIDE DEF s
  <2> QED
    BY <1>2, <1>5, <2>1, <2>2, <2>3
<1>7. ASSUME NEW beat \in {"running", "ended"}, conn' = [conn EXCEPT ![c].beat = beat]
      PROVE  TransportInv'
  <2> DEFINE s == [conn[c] EXCEPT !.beat = beat]
  <2>1. conn' = [conn EXCEPT ![c] = s]
    BY <1>7, <1>1 DEF TypeOK
  <2>2. /\ s \in Sides /\ s.server = conn[c].server /\ s.beat = beat
        /\ s.up = conn[c].up /\ s.down = conn[c].down
    BY <1>1 DEF Sides
  <2> HIDE DEF s
  <2> QED
    BY <1>5, <2>1, <2>2
<1>8. CASE BootstrapCaches(c) \/ BeatRemoves(c)
  BY <1>2, <1>7, <1>8 DEF BootstrapCaches, BeatRemoves
<1> QED
  BY <1>2, <1>3, <1>4, <1>6, <1>8

\* The task of the listener closes: what it has not read is lost.
LEMMA CloseStep ==
  ASSUME TransportInv, NEW c \in Conns, Close(c),
         UNCHANGED <<active, send, arrivals>>, strikes' \in Nat
  PROVE  TransportInv'
<1> DEFINE s == [conn[c] EXCEPT !.server = "closed", !.up = <<>>]
<1>1. conn[c] \in Sides /\ conn[c].up \in Seq(Frames)
  BY DEF TypeOK, Sides, TransportInv
<1>2. conn' = [conn EXCEPT ![c] = s]
  BY <1>1 DEF Close, TypeOK, TransportInv
<1>3. /\ s \in Sides /\ s.server = "closed" /\ s.beat = conn[c].beat
      /\ s.up = <<>> /\ s.down = conn[c].down
  <2>1. <<>> \in Seq(Frames) /\ "closed" \in ServerStates
    BY DEF ServerStates
  <2> QED
    BY <1>1, <2>1 DEF Sides
<1> HIDE DEF s
<1>4. MovedUp(s.up, conn[c].up)
  BY <1>1, <1>3, PipeFacts
<1> QED
  BY <1>2, <1>3, <1>4, ConnectionStep DEF Acknowledges

\* The handle task admits the sender, closes, pings or writes what it owes.
LEMMA ListenerStep ==
  ASSUME TransportInv, NEW c \in Conns, Admit(c) \/ Reply(c) \/ Quiet(c) \/ Eof(c) \/ Break(c)
  PROVE  TransportInv' /\ UNCHANGED <<send, arrivals>>
<1> USE DEF TransportInv
<1>1. conn[c] \in Sides /\ conn[c].up \in Seq(Frames) /\ conn[c].down \in Seq(Frames)
  BY DEF TypeOK, Sides
<1>2. strikes' \in Nat /\ UNCHANGED <<active, send, arrivals>>
  BY DEF TypeOK, Admit, Reply, Quiet, Eof, Break, Struck, clientVars
<1>3. CASE Close(c)
  BY <1>2, <1>3, CloseStep
<1>4. ASSUME NEW s \in Sides, conn' = [conn EXCEPT ![c] = s], s.server # "none", s.up = conn[c].up,
             s.beat = conn[c].beat,
             (s.server = "ack" \/ \E i \in 1..Len(s.down) : s.down[i] = Ack) => Acknowledges(c)
      PROVE  TransportInv'
  <2>1. MovedUp(s.up, conn[c].up)
    BY <1>1, <1>4, PipeFacts
  <2> QED
    BY <1>2, <1>4, <2>1, ConnectionStep
<1>5. ASSUME conn' = [conn EXCEPT ![c].server = "serving"] PROVE TransportInv'
  <2> DEFINE s == [conn[c] EXCEPT !.server = "serving"]
  <2>1. conn' = [conn EXCEPT ![c] = s]
    BY <1>5, <1>1 DEF TypeOK
  <2>2. s \in Sides /\ s.server = "serving" /\ s.up = conn[c].up /\ s.down = conn[c].down
        /\ s.beat = conn[c].beat
    BY <1>1 DEF Sides, ServerStates
  <2> QED
    BY <1>4, <2>1, <2>2 DEF Acknowledges
<1>6. ASSUME NEW f \in {Ping, Pong, Ack}, f = Ack => Acknowledges(c),
             conn' = [conn EXCEPT ![c].down = Append(@, f), ![c].server = "serving"]
      PROVE  TransportInv'
  <2> DEFINE s == [conn[c] EXCEPT !.down = Append(@, f), !.server = "serving"]
  <2>1. conn' = [conn EXCEPT ![c] = s]
    BY <1>6, <1>1 DEF TypeOK
  <2>2. /\ Append(conn[c].down, f) \in Seq(Frames)
        /\ \A i \in 1..Len(Append(conn[c].down, f)) :
             \/ i \in 1..Len(conn[c].down) /\ Append(conn[c].down, f)[i] = conn[c].down[i]
             \/ Append(conn[c].down, f)[i] = f
    BY <1>1 DEF Frames
  <2>3. s \in Sides /\ s.server = "serving" /\ s.up = conn[c].up /\ s.down = Append(conn[c].down, f)
        /\ s.beat = conn[c].beat
    BY <1>1, <2>2 DEF Sides, ServerStates
  <2>4. (\E i \in 1..Len(s.down) : s.down[i] = Ack) => Acknowledges(c)
    BY <1>6, <2>2, <2>3 DEF Acknowledges
  <2> QED
    BY <1>4, <2>1, <2>3, <2>4
<1>7. CASE Admit(c)
  BY <1>2, <1>3, <1>5, <1>7 DEF Admit
<1>8. CASE Reply(c)
  <2>1. CASE conn' = [conn EXCEPT ![c].down = Append(@, Due(conn[c].server)), ![c].server = "serving"]
    <3>1. /\ Due(conn[c].server) \in {Ping, Pong, Ack}
          /\ Due(conn[c].server) = Ack => Acknowledges(c)
      BY <1>8 DEF Reply, Due, Acknowledges, Ping, Pong, Ack
    <3> QED
      BY <1>2, <1>6, <2>1, <3>1
  <2> QED
    BY <1>2, <1>3, <1>5, <1>8, <2>1 DEF Reply
<1>9. CASE Quiet(c)
  <2>1. CASE conn' = [conn EXCEPT ![c].down = Append(@, Ping)]
    <3>1. conn' = [conn EXCEPT ![c].down = Append(@, Ping), ![c].server = "serving"]
      BY <1>1, <1>9, <2>1, ZenonT(40) DEF Quiet, TypeOK, Sides
    <3>2. Ping # Ack
      BY DEF Ping, Ack
    <3> QED
      BY <1>2, <1>6, <3>1, <3>2
  <2>2. CASE conn' = [conn EXCEPT ![c].server = "ping"]
    <3> DEFINE s == [conn[c] EXCEPT !.server = "ping"]
    <3>1. conn' = [conn EXCEPT ![c] = s]
      BY <2>2, <1>1 DEF TypeOK
    <3>2. s \in Sides /\ s.server = "ping" /\ s.up = conn[c].up /\ s.down = conn[c].down
          /\ s.beat = conn[c].beat
      BY <1>1 DEF Sides, ServerStates
    <3> QED
      BY <1>2, <1>4, <3>1, <3>2 DEF Acknowledges
  <2> QED
    BY <1>9, <2>1, <2>2 DEF Quiet
<1>10. CASE Eof(c) \/ Break(c)
  BY <1>2, <1>3, <1>10 DEF Eof, Break
<1> QED
  BY <1>2, <1>7, <1>8, <1>9, <1>10

\* The frame of a message is read and the inbox takes it: its only copy is gone,
\* and the acknowledgement on its way is the acknowledgement of an arrival.
LEMMA DeliveryStep ==
  ASSUME TransportInv, NEW c \in Conns, NEW m \in Messages, NEW s \in Sides,
         conn[c].up # <<>>, Head(conn[c].up) = m,
         conn' = [conn EXCEPT ![c] = s], s.server # "none", s.up = Tail(conn[c].up),
         s.beat = conn[c].beat, Queued(m), UNCHANGED <<active, send, strikes>>
  PROVE  TransportInv' /\ arrivals[m] = 0 /\ send[m].state # "new"
<1> USE DEF TransportInv
<1>1. conn[c].up \in Seq(Frames) /\ m = conn[c].up[1] /\ 1 \in 1..Len(conn[c].up)
  BY PipeFacts DEF TypeOK, Sides
<1>2. \A i \in 1..Len(s.up) : i + 1 \in 1..Len(conn[c].up) /\ s.up[i] = conn[c].up[i + 1]
  BY <1>1, PipeFacts
<1>3. Travels(m, c, 1)
  BY <1>1 DEF Travels
<1>4. /\ arrivals[m] = 0 /\ send[m].state \notin Unwritten
      /\ \A d \in Conns : \A j \in 1..Len(conn[d].up) : Travels(m, d, j) => d = c /\ j = 1
  BY <1>1, <1>3 DEF OneCopy
<1>5. arrivals' = [arrivals EXCEPT ![m] = 1]
  BY <1>4 DEF Queued, TypeOK
<1>6. TypeOK'
  BY <1>5 DEF TypeOK
<1>7. conn'[c] = s /\ \A d \in Conns \ {c} : conn'[d] = conn[d]
  BY DEF TypeOK
<1>8. RefersToOpened'
  BY <1>7 DEF TypeOK, RefersToOpened
<1>9. OneCopy'
  <2> DEFINE back(d, i) == IF d = c THEN i + 1 ELSE i
  <2>1. ASSUME NEW k \in Messages, NEW d \in Conns, NEW i \in 1..Len(conn'[d].up),
               Travels(k, d, i)'
        PROVE  back(d, i) \in 1..Len(conn[d].up) /\ Travels(k, d, back(d, i))
    BY <1>2, <1>7, <2>1 DEF Travels
  <2>2. ASSUME NEW k \in Messages, NEW d \in Conns, NEW i \in 1..Len(conn'[d].up),
               Travels(k, d, i)'
        PROVE  /\ k # m
               /\ arrivals'[k] = 0
               /\ send'[k].state \notin Unwritten
               /\ \A e \in Conns : \A j \in 1..Len(conn'[e].up) : Travels(k, e, j)' => e = d /\ j = i
    <3>1. /\ arrivals[k] = 0 /\ send[k].state \notin Unwritten
          /\ \A e \in Conns : \A j \in 1..Len(conn[e].up) : Travels(k, e, j) => e = d /\ j = back(d, i)
      BY <2>1, <2>2 DEF OneCopy
    <3>2. k # m
      BY <1>4, <2>1, <2>2
    <3>3. ASSUME NEW e \in Conns, NEW j \in 1..Len(conn'[e].up), Travels(k, e, j)'
          PROVE  e = d /\ j = i
      <4> HIDE DEF back
      <4>1. e = d /\ back(e, j) = back(d, i)
        BY <2>1, <3>1, <3>3
      <4>2. i \in Int /\ j \in Int
        OBVIOUS
      <4> QED
        BY <4>1, <4>2 DEF back
    <3> QED
      BY <1>5, <3>1, <3>2, <3>3 DEF TypeOK
  <2>3. ASSUME NEW k \in Messages, send'[k].state \in Unwritten PROVE arrivals'[k] = 0
    BY <1>4, <1>5, <2>3 DEF OneCopy, TypeOK
  <2> QED
    BY <2>2, <2>3 DEF OneCopy
<1>10. AckMeansArrived'
  <2> SUFFICES ASSUME NEW k \in Messages, send[k].state = "waiting"
               PROVE  OwnConnection(k)'
    BY DEF AckMeansArrived
  <2>1. OwnConnection(k) /\ send[k].conn \in Conns
    BY TransportAssumption DEF AckMeansArrived, RefersToOpened, TypeOK, Holding
  <2>2. CASE send[k].conn = c
    <3>1. k = m
      BY <1>1, <2>1, <2>2 DEF OwnConnection
    <3>2. active' # c /\ s.beat # "caching" /\ \A j \in Messages \ {k} : send'[j].conn # c
      BY <2>1, <2>2 DEF OwnConnection
    <3>3. ASSUME NEW i \in 1..Len(s.up), s.up[i] \in Messages PROVE s.up[i] = k
      BY <1>2, <2>1, <2>2, <3>3 DEF OwnConnection
    <3>4. arrivals'[k] = 1
      BY <1>5, <3>1 DEF TypeOK
    <3> QED
      BY <1>7, <2>2, <3>2, <3>3, <3>4 DEF OwnConnection
  <2>3. CASE send[k].conn # c
    <3>1. arrivals[k] = 1 => arrivals'[k] = 1
      BY <1>5 DEF TypeOK
    <3> QED
      BY <1>7, <2>1, <2>3, <3>1 DEF OwnConnection, Acknowledges
  <2> QED
    BY <2>2, <2>3
<1> QED
  BY <1>4, <1>6, <1>8, <1>9, <1>10 DEF Unwritten

LEMMA AnswersStep ==
  ASSUME TypeOK, NEW c \in Conns, conn[c].up # <<>>, NEW f \in {Pong, Ack},
         NEW state \in {"pong", "ack"}, Answers(c, f, state)
  PROVE  \E s \in Sides :
           /\ conn' = [conn EXCEPT ![c] = s]
           /\ s.up = Tail(conn[c].up) /\ s.beat = conn[c].beat
           /\ \/ s.server = conn[c].server /\ s.down = Append(conn[c].down, f)
              \/ s.server = state /\ s.down = conn[c].down
<1>1. conn[c] \in Sides /\ conn[c].up \in Seq(Frames) /\ conn[c].down \in Seq(Frames)
  BY DEF TypeOK, Sides
<1>2. Tail(conn[c].up) \in Seq(Frames) /\ Append(conn[c].down, f) \in Seq(Frames)
  BY <1>1, PipeFacts DEF Frames
<1>3. CASE Referenced(c) /\ Room(conn[c].down)
  <2> DEFINE s == [conn[c] EXCEPT !.up = Tail(@), !.down = Append(@, f)]
  <2>1. conn' = [conn EXCEPT ![c] = s]
    BY <1>3, <1>1 DEF Answers, TypeOK
  <2>2. s \in Sides /\ s.up = Tail(conn[c].up) /\ s.server = conn[c].server /\ s.down = Append(conn[c].down, f)
        /\ s.beat = conn[c].beat
    BY <1>1, <1>2 DEF Sides
  <2> QED
    BY <2>1, <2>2
<1>4. CASE ~(Referenced(c) /\ Room(conn[c].down))
  <2> DEFINE s == [conn[c] EXCEPT !.up = Tail(@), !.server = state]
  <2>1. conn' = [conn EXCEPT ![c] = s]
    BY <1>4, <1>1 DEF Answers, TypeOK
  <2>2. s \in Sides /\ s.up = Tail(conn[c].up) /\ s.server = state /\ s.down = conn[c].down
        /\ s.beat = conn[c].beat
    BY <1>1, <1>2 DEF Sides, ServerStates
  <2> QED
    BY <2>1, <2>2
<1> QED
  BY <1>3, <1>4

\* The first frame of a connection is handled.
LEMMA RecvStep ==
  ASSUME TransportInv, NEW c \in Conns, Recv(c)
  PROVE  /\ TransportInv' /\ send' = send
         /\ \/ arrivals' = arrivals
            \/ \E m \in Messages : /\ arrivals[m] = 0 /\ send[m].state # "new"
                                   /\ arrivals' = [arrivals EXCEPT ![m] = 1]
<1> USE DEF TransportInv
<1>1. conn[c] \in Sides /\ conn[c].up \in Seq(Frames) /\ conn[c].down \in Seq(Frames)
  BY DEF TypeOK, Sides
<1>2. /\ conn[c].up # <<>> /\ conn[c].server = "serving"
      /\ UNCHANGED <<active, send, strikes>> /\ strikes \in Nat
  BY DEF Recv, clientVars, TypeOK
<1> DEFINE frame == Head(conn[c].up)
<1>3. CASE frame = Ping /\ Answers(c, Pong, "pong") /\ UNCHANGED arrivals
  <2>1. PICK s \in Sides :
           /\ conn' = [conn EXCEPT ![c] = s]
           /\ s.up = Tail(conn[c].up) /\ s.beat = conn[c].beat
           /\ \/ s.server = conn[c].server /\ s.down = Append(conn[c].down, Pong)
              \/ s.server = "pong" /\ s.down = conn[c].down
    BY <1>2, <1>3, AnswersStep
  <2>2. MovedUp(s.up, conn[c].up)
    BY <1>1, <1>2, <2>1, PipeFacts
  <2>3. \A i \in 1..Len(s.down) : s.down[i] = Ack => i \in 1..Len(conn[c].down) /\ conn[c].down[i] = Ack
    <3>1. CASE s.down = conn[c].down
      BY <3>1
    <3>2. CASE s.down = Append(conn[c].down, Pong)
      <4>1. Pong # Ack /\ Pong \in Frames
        BY DEF Pong, Ack, Frames
      <4>2. \A i \in 1..Len(Append(conn[c].down, Pong)) :
              \/ i \in 1..Len(conn[c].down) /\ Append(conn[c].down, Pong)[i] = conn[c].down[i]
              \/ Append(conn[c].down, Pong)[i] = Pong
        BY <1>1, <4>1
      <4> QED
        BY <3>2, <4>1, <4>2
    <3> QED
      BY <2>1, <3>1, <3>2
  <2>4. (s.server = "ack" \/ \E i \in 1..Len(s.down) : s.down[i] = Ack) => Acknowledges(c)
    BY <1>2, <2>1, <2>3 DEF Acknowledges
  <2>5. s.server # "none"
    BY <1>2, <2>1
  <2> QED
    BY <1>2, <1>3, <2>1, <2>2, <2>4, <2>5, ConnectionStep
<1>4. CASE frame = Pong /\ conn' = [conn EXCEPT ![c].up = Tail(@)] /\ UNCHANGED arrivals
  <2> DEFINE s == [conn[c] EXCEPT !.up = Tail(@)]
  <2>1. conn' = [conn EXCEPT ![c] = s]
    BY <1>4, <1>1 DEF TypeOK
  <2>2. s \in Sides /\ s.up = Tail(conn[c].up) /\ s.server = conn[c].server /\ s.down = conn[c].down
        /\ s.beat = conn[c].beat
    BY <1>1, <1>2, PipeFacts DEF Sides
  <2> HIDE DEF s
  <2>3. MovedUp(s.up, conn[c].up)
    BY <1>1, <1>2, <2>2, PipeFacts
  <2>4. (s.server = "ack" \/ \E i \in 1..Len(s.down) : s.down[i] = Ack) => Acknowledges(c)
    BY <2>2 DEF Acknowledges
  <2>5. s.server = "none" => conn[c].server = "none"
    BY <2>2
  <2> QED
    BY <1>2, <1>4, <2>1, <2>2, <2>3, <2>4, <2>5, ConnectionStep
<1>5. CASE frame \in Messages /\ Answers(c, Ack, "ack") /\ Queued(frame)
  <2>1. PICK s \in Sides :
           /\ conn' = [conn EXCEPT ![c] = s]
           /\ s.up = Tail(conn[c].up) /\ s.beat = conn[c].beat
           /\ \/ s.server = conn[c].server /\ s.down = Append(conn[c].down, Ack)
              \/ s.server = "ack" /\ s.down = conn[c].down
    BY <1>2, <1>5, AnswersStep
  <2>2. s.server # "none"
    BY <1>2, <2>1
  <2>3. TransportInv' /\ arrivals[frame] = 0 /\ send[frame].state # "new"
    BY <1>2, <1>5, <2>1, <2>2, DeliveryStep
  <2>4. arrivals' = [arrivals EXCEPT ![frame] = 1]
    BY <1>5, <2>3 DEF Queued, TypeOK
  <2> QED
    BY <1>2, <1>5, <2>3, <2>4
<1>6. CASE frame \in Messages /\ Close(c) /\ UNCHANGED arrivals
  BY <1>2, <1>6, CloseStep
<1> QED
  BY <1>3, <1>4, <1>5, <1>6 DEF Recv

-----------------------------------------------------------------------------
\* A call moves on without writing a frame: it is submitted, queues for a
\* mutex, or returns.  Pipes stay as they are, but a returning confirmed send
\* no longer reads.
LEMMA CallStep ==
  ASSUME TransportInv, NEW m \in Messages,
         NEW r \in [state : CallStates, conn : Conns \cup {None}],
         send' = [send EXCEPT ![m] = r],
         active' = active \/ active' = None,
         UNCHANGED <<strikes, arrivals>>,
         conn' \in [Conns -> Sides],
         \A c \in Conns : /\ conn'[c].server = conn[c].server /\ conn'[c].up = conn[c].up
                          /\ conn'[c].down = conn[c].down \/ conn'[c].down = <<>>
                          /\ conn'[c].beat = conn[c].beat,
         r.state # "waiting",
         r.state \in Holding <=> r.conn # None,
         r.state \in Unwritten => send[m].state \in Unwritten,
         r.conn # None => r.conn = active \/ r.conn = send[m].conn
  PROVE  TransportInv'
<1> USE DEF TransportInv
<1>1. TypeOK'
  BY DEF TypeOK
<1>2. send'[m] = r /\ \A k \in Messages \ {m} : send'[k] = send[k]
  BY DEF TypeOK
<1>3. RefersToOpened'
  BY <1>2 DEF TypeOK, RefersToOpened
<1>4. \A k \in Messages, c \in Conns : \A i \in 1..Len(conn[c].up) : Travels(k, c, i)' <=> Travels(k, c, i)
  BY DEF Travels
<1>5. \A k \in Messages : send'[k].state \in Unwritten => send[k].state \in Unwritten
  BY <1>2
<1>6. OneCopy'
  BY <1>4, <1>5 DEF OneCopy
<1>7. AckMeansArrived'
  <2> SUFFICES ASSUME NEW k \in Messages, send'[k].state = "waiting"
               PROVE  OwnConnection(k)'
    BY DEF AckMeansArrived
  <2>1. k # m /\ send'[k] = send[k]
    BY <1>2
  <2>2. OwnConnection(k) /\ send[k].conn \in Conns
    BY <2>1, TransportAssumption DEF AckMeansArrived, RefersToOpened, TypeOK, Holding
  <2>3. send[k].conn # None
    BY <2>2, TransportAssumption DEF Conns
  <2>4. active' # send[k].conn /\ \A j \in Messages \ {k} : send'[j].conn # send[k].conn
    BY <1>2, <2>1, <2>2, <2>3 DEF OwnConnection
  <2>5. Acknowledges(send[k].conn)' => Acknowledges(send[k].conn)
    BY <2>1, <2>2 DEF Acknowledges
  <2> QED
    BY <2>1, <2>2, <2>4, <2>5 DEF OwnConnection
<1> QED
  BY <1>1, <1>3, <1>6, <1>7

\* A fresh connection c: nobody refers to it before.  It is empty and cached, or
\* waits to be cached, by bootstrap or by a call; or it carries the one message
\* of a confirmed send.
LEMMA OpenStep ==
  ASSUME TransportInv, NEW c \in Conns, conn[c].server = "none", NEW s \in Sides,
         conn' = [conn EXCEPT ![c] = s], s.server = "new", s.down = <<>>,
         UNCHANGED <<strikes, arrivals>>,
         \/ s.up = <<>> /\ active' \in {c, active} /\ send' = send
         \/ \E m \in Messages :
              /\ send[m].state = "connecting"
              /\ \/ /\ s.up = <<>> /\ active' = active
                    /\ send' = [send EXCEPT ![m] = [state |-> "caching", conn |-> c]]
                 \/ /\ s.up = <<m>> /\ active' = active /\ s.beat = "none"
                    /\ send' = [send EXCEPT ![m] = [state |-> "waiting", conn |-> c]]
  PROVE  TransportInv'
<1> USE DEF TransportInv
<1>1. conn'[c] = s /\ \A d \in Conns \ {c} : conn'[d] = conn[d]
  BY DEF TypeOK
<1>2. active # c /\ \A k \in Messages : send[k].conn # c
  BY TransportAssumption DEF RefersToOpened, Conns
<1>3. CASE s.up = <<>> /\ active' \in {c, active} /\ send' = send
  <2>1. TypeOK'
    BY <1>3 DEF TypeOK
  <2>2. RefersToOpened'
    BY <1>1, <1>2, <1>3, TransportAssumption DEF TypeOK, RefersToOpened, Conns
  <2>3. Len(conn'[c].up) = 0
    BY <1>1, <1>3
  <2>4. OneCopy'
    BY <1>1, <1>3, <2>3 DEF OneCopy, Travels
  <2>5. AckMeansArrived'
    BY <1>1, <1>2, <1>3, TransportAssumption
       DEF AckMeansArrived, OwnConnection, Acknowledges, RefersToOpened, TypeOK, Holding, Conns
  <2> QED
    BY <2>1, <2>2, <2>4, <2>5
<1>4. ASSUME NEW m \in Messages, send[m].state = "connecting", s.up = <<>>, active' = active,
             send' = [send EXCEPT ![m] = [state |-> "caching", conn |-> c]]
      PROVE  TransportInv'
  <2>1. TypeOK'
    BY <1>4 DEF TypeOK, CallStates
  <2>2. /\ send'[m].state = "caching" /\ send'[m].conn = c
        /\ \A k \in Messages \ {m} : send'[k] = send[k]
    BY <1>4 DEF TypeOK
  <2>3. RefersToOpened'
    BY <1>1, <1>2, <1>4, <2>2, TransportAssumption DEF TypeOK, RefersToOpened, Conns, Holding
  <2>4. Len(conn'[c].up) = 0
    BY <1>1, <1>4
  <2>5. \A k \in Messages : send'[k].state \in Unwritten => send[k].state \in Unwritten
    BY <1>4, <2>2 DEF Unwritten
  <2>6. OneCopy'
    BY <1>1, <2>4, <2>5 DEF OneCopy, Travels
  <2>7. AckMeansArrived'
    <3> SUFFICES ASSUME NEW k \in Messages, send'[k].state = "waiting"
                 PROVE  OwnConnection(k)'
      BY DEF AckMeansArrived
    <3>1. k # m /\ send'[k] = send[k]
      BY <2>2
    <3>2. OwnConnection(k) /\ send[k].conn \in Conns \ {c}
      BY <1>2, <3>1, TransportAssumption DEF AckMeansArrived, RefersToOpened, TypeOK, Holding
    <3>3. active' # send[k].conn /\ \A j \in Messages \ {k} : send'[j].conn # send[k].conn
      BY <1>4, <2>2, <3>2 DEF OwnConnection
    <3> QED
      BY <1>1, <3>1, <3>2, <3>3 DEF OwnConnection, Acknowledges
  <2> QED
    BY <2>1, <2>3, <2>6, <2>7
<1>5. ASSUME NEW m \in Messages, send[m].state = "connecting", s.up = <<m>>, active' = active, s.beat = "none",
             send' = [send EXCEPT ![m] = [state |-> "waiting", conn |-> c]]
      PROVE  TransportInv'
  <2>1. TypeOK'
    BY <1>5 DEF TypeOK, CallStates
  <2>2. /\ send'[m].state = "waiting" /\ send'[m].conn = c
        /\ \A k \in Messages \ {m} : send'[k] = send[k]
    BY <1>5 DEF TypeOK
  <2>3. RefersToOpened'
    BY <1>1, <1>2, <1>5, <2>2, TransportAssumption DEF TypeOK, RefersToOpened, Conns, Holding
  <2>4. Len(conn'[c].up) = 1 /\ conn'[c].up[1] = m
    <3>1. conn'[c].up = <<m>>
      BY <1>1, <1>5
    <3>2. Len(<<m>>) = 1 /\ <<m>>[1] = m
      OBVIOUS
    <3> QED
      BY <3>1, <3>2
  <2>5. arrivals[m] = 0 /\ \A d \in Conns : \A i \in 1..Len(conn[d].up) : ~Travels(m, d, i)
    BY <1>5 DEF OneCopy, Unwritten
  <2>6. ASSUME NEW k \in Messages, NEW d \in Conns, NEW i \in 1..Len(conn'[d].up), Travels(k, d, i)'
        PROVE  \/ k = m /\ d = c /\ i = 1
               \/ k # m /\ d # c /\ i \in 1..Len(conn[d].up) /\ Travels(k, d, i)
    BY <1>1, <2>4, <2>5, <2>6 DEF Travels
  <2>7. OneCopy'
    <3>1. ASSUME NEW k \in Messages, NEW d \in Conns, NEW i \in 1..Len(conn'[d].up), Travels(k, d, i)'
          PROVE  /\ arrivals[k] = 0
                 /\ send'[k].state \notin Unwritten
                 /\ \A e \in Conns : \A j \in 1..Len(conn'[e].up) : Travels(k, e, j)' => e = d /\ j = i
      <4>1. CASE k = m
        BY <2>2, <2>5, <2>6, <3>1, <4>1 DEF Unwritten
      <4>2. CASE k # m
        <5>1. arrivals[k] = 0 /\ send[k].state \notin Unwritten /\ send'[k] = send[k]
          BY <2>2, <2>6, <3>1, <4>2 DEF OneCopy
        <5>2. ASSUME NEW e \in Conns, NEW j \in 1..Len(conn'[e].up), Travels(k, e, j)'
              PROVE  e = d /\ j = i
          BY <2>6, <3>1, <4>2, <5>2 DEF OneCopy
        <5> QED
          BY <5>1, <5>2
      <4> QED
        BY <4>1, <4>2
    <3>2. ASSUME NEW k \in Messages, send'[k].state \in Unwritten PROVE arrivals'[k] = 0
      BY <2>2, <2>5, <3>2 DEF OneCopy
    <3> QED
      BY <3>1, <3>2 DEF OneCopy
  <2>8. AckMeansArrived'
    <3> SUFFICES ASSUME NEW k \in Messages, send'[k].state = "waiting"
                 PROVE  OwnConnection(k)'
      BY DEF AckMeansArrived
    <3>1. CASE k = m
      <4>1. active' # c /\ conn'[c].beat # "caching" /\ \A j \in Messages \ {k} : send'[j].conn # c
        BY <1>1, <1>2, <1>5, <2>2, <3>1
      <4>2. ~Acknowledges(c)'
        BY <1>1 DEF Acknowledges
      <4> QED
        BY <2>2, <2>4, <3>1, <4>1, <4>2 DEF OwnConnection
    <3>2. CASE k # m
      <4>1. send'[k] = send[k]
        BY <2>2, <3>2
      <4>2. OwnConnection(k) /\ send[k].conn \in Conns \ {c}
        BY <1>2, <4>1, TransportAssumption DEF AckMeansArrived, RefersToOpened, TypeOK, Holding
      <4>3. active' # send[k].conn /\ \A j \in Messages \ {k} : send'[j].conn # send[k].conn
        BY <1>5, <2>2, <4>2 DEF OwnConnection
      <4> QED
        BY <1>1, <4>1, <4>2, <4>3 DEF OwnConnection, Acknowledges
    <3> QED
      BY <3>1, <3>2
  <2> QED
    BY <2>1, <2>3, <2>7, <2>8
<1> QED
  BY <1>3, <1>4, <1>5

\* send_to_peer writes its frame: the one copy of the message.
LEMMA WriteStep ==
  ASSUME TransportInv, NEW m \in Messages, NEW c \in Conns,
         send[m].state \in {"queued", "writing"}, send[m].conn = c, NEW s \in Sides,
         conn' = [conn EXCEPT ![c] = s],
         s.server = conn[c].server, s.down = conn[c].down, s.up = Append(conn[c].up, m),
         s.beat = conn[c].beat,
         send' = [send EXCEPT ![m] = [state |-> "sent", conn |-> None]],
         UNCHANGED <<active, strikes, arrivals>>
  PROVE  TransportInv'
<1> USE DEF TransportInv
<1>1. conn'[c] = s /\ \A d \in Conns \ {c} : conn'[d] = conn[d]
  BY DEF TypeOK
<1>2. TypeOK'
  BY DEF TypeOK, CallStates
<1>3. /\ send'[m].state = "sent" /\ send'[m].conn = None
      /\ \A k \in Messages \ {m} : send'[k] = send[k]
  BY DEF TypeOK
<1>4. RefersToOpened'
  BY <1>1, <1>3 DEF TypeOK, RefersToOpened, Holding
<1>5. /\ conn[c].up \in Seq(Frames) /\ Len(conn[c].up) \in Nat
      /\ Len(s.up) = Len(conn[c].up) + 1 /\ s.up[Len(s.up)] = m
      /\ \A i \in 1..Len(conn[c].up) : s.up[i] = conn[c].up[i]
  <2>1. conn[c].up \in Seq(Frames) /\ m \in Frames
    BY DEF TypeOK, Sides, Frames
  <2> QED
    BY <2>1
<1>6. arrivals[m] = 0 /\ \A d \in Conns : \A i \in 1..Len(conn[d].up) : ~Travels(m, d, i)
  BY DEF OneCopy, Unwritten
<1>7. ASSUME NEW k \in Messages, NEW d \in Conns, NEW i \in 1..Len(conn'[d].up), Travels(k, d, i)'
      PROVE  \/ k = m /\ d = c /\ i = Len(s.up)
             \/ k # m /\ i \in 1..Len(conn[d].up) /\ Travels(k, d, i)
  <2>1. CASE d # c
    BY <1>1, <1>6, <1>7, <2>1 DEF Travels
  <2>2. CASE d = c /\ i = Len(s.up)
    BY <1>1, <1>5, <1>7, <2>2 DEF Travels
  <2>3. CASE d = c /\ i # Len(s.up)
    <3>1. conn'[d].up = s.up /\ i \in 1..Len(s.up) /\ s.up[i] = k
      BY <1>1, <1>7, <2>3 DEF Travels
    <3>2. i \in 1..Len(conn[c].up)
      BY <1>5, <2>3, <3>1
    <3>3. conn[c].up[i] = k
      BY <1>5, <3>1, <3>2
    <3> QED
      BY <1>6, <2>3, <3>2, <3>3 DEF Travels
  <2> QED
    BY <2>1, <2>2, <2>3
<1>8. OneCopy'
  <2>1. ASSUME NEW k \in Messages, NEW d \in Conns, NEW i \in 1..Len(conn'[d].up), Travels(k, d, i)'
        PROVE  /\ arrivals[k] = 0
               /\ send'[k].state \notin Unwritten
               /\ \A e \in Conns : \A j \in 1..Len(conn'[e].up) : Travels(k, e, j)' => e = d /\ j = i
    <3>1. CASE k = m
      BY <1>3, <1>6, <1>7, <2>1, <3>1 DEF Unwritten
    <3>2. CASE k # m
      <4>1. arrivals[k] = 0 /\ send[k].state \notin Unwritten /\ send'[k] = send[k]
        BY <1>3, <1>7, <2>1, <3>2 DEF OneCopy
      <4>2. ASSUME NEW e \in Conns, NEW j \in 1..Len(conn'[e].up), Travels(k, e, j)'
            PROVE  e = d /\ j = i
        BY <1>7, <2>1, <3>2, <4>2 DEF OneCopy
      <4> QED
        BY <4>1, <4>2
    <3> QED
      BY <3>1, <3>2
  <2>2. ASSUME NEW k \in Messages, send'[k].state \in Unwritten PROVE arrivals'[k] = 0
    BY <1>3, <1>6, <2>2 DEF OneCopy
  <2> QED
    BY <2>1, <2>2 DEF OneCopy
<1>9. AckMeansArrived'
  <2> SUFFICES ASSUME NEW k \in Messages, send'[k].state = "waiting"
               PROVE  OwnConnection(k)'
    BY DEF AckMeansArrived
  <2>1. k # m /\ send'[k] = send[k]
    BY <1>3
  <2>2. OwnConnection(k) /\ send[k].conn \in Conns
    BY <2>1, TransportAssumption DEF AckMeansArrived, RefersToOpened, TypeOK, Holding
  <2>3. send[k].conn # None /\ send[k].conn # c
    BY <2>1, <2>2, TransportAssumption DEF OwnConnection, Conns
  <2>4. active' # send[k].conn /\ \A j \in Messages \ {k} : send'[j].conn # send[k].conn
    BY <1>3, <2>2, <2>3 DEF OwnConnection
  <2> QED
    BY <1>1, <2>1, <2>2, <2>3, <2>4 DEF OwnConnection, Acknowledges
<1> QED
  BY <1>2, <1>4, <1>8, <1>9

-----------------------------------------------------------------------------
(* The calls of the interface: invariant and refinement, action by action *)

mailbox == <<[m \in Messages |-> Outcome(send[m].state)], arrivals>>

\* A call that moves on is a step of the mailbox or none.
LEMMA CallMaps ==
  ASSUME TypeOK, NEW m \in Messages, NEW state \in CallStates, NEW c,
         send' = [send EXCEPT ![m] = [state |-> state, conn |-> c]], arrivals' = arrivals,
         \/ send[m].state = "new" /\ Outcome(state) = "pending"
         \/ Outcome(send[m].state) = "pending" /\ Outcome(state) = "pending"
         \/ Outcome(send[m].state) = "pending" /\ state \in {"sent", "failed"}
         \/ Outcome(send[m].state) = "pending" /\ state = "confirmed" /\ arrivals[m] = 1
  PROVE  [Mailbox!Next]_mailbox
<1> DEFINE out == [k \in Messages |-> Outcome(send[k].state)]
<1>1. out' = [out EXCEPT ![m] = Outcome(state)] /\ out[m] = Outcome(send[m].state)
  BY DEF TypeOK
<1>2. \A k \in Messages : out[k] = Outcome(send[k].state)
  OBVIOUS
<1>3. out = [k \in Messages |-> out[k]]
  OBVIOUS
<1> HIDE DEF out
<1>4. CASE send[m].state = "new" /\ Outcome(state) = "pending"
  <2>1. out[m] = "new" /\ out' = [out EXCEPT ![m] = "pending"]
    BY <1>1, <1>4 DEF Outcome
  <2> QED
    BY <2>1 DEF Mailbox!Next, Mailbox!Submit, out
<1>5. CASE Outcome(send[m].state) = "pending" /\ Outcome(state) = "pending"
  <2>1. out' = out
    BY <1>1, <1>3, <1>5
  <2> QED
    BY <2>1 DEF out, mailbox
<1>6. CASE Outcome(send[m].state) = "pending" /\ state \in {"sent", "failed", "confirmed"}
             /\ (state = "confirmed" => arrivals[m] = 1)
  <2>1. out[m] = "pending" /\ out' = [out EXCEPT ![m] = state]
    BY <1>1, <1>6 DEF Outcome
  <2> QED
    BY <1>6, <2>1 DEF Mailbox!Next, Mailbox!Return, out
<1> QED
  BY <1>4, <1>5, <1>6

\* send_to_peer and send_to_peer_confirmed are called; send_to_peer looks up its
\* connection.
LEMMA SubmitStep ==
  ASSUME TransportInv, NEW m \in Messages, SendToPeer(m) \/ SendLooksUp(m) \/ SendConfirmed(m)
  PROVE  TransportInv' /\ [Mailbox!Next]_mailbox
<1> USE DEF TransportInv
<1>1. PICK r \in [state : CallStates, conn : Conns \cup {None}] :
        /\ send' = [send EXCEPT ![m] = r]
        /\ r = [state |-> r.state, conn |-> r.conn]
        /\ \/ r.state \in {"asking", "connecting"} /\ r.conn = None
           \/ r.state = "queued" /\ r.conn = active /\ active # None
  BY DEF SendToPeer, SendLooksUp, LooksUp, SendConfirmed, Calls, CallStates, TypeOK
<1>2. send[m].state \in {"new", "asking"} /\ UNCHANGED <<conn, active, strikes, arrivals>>
  BY DEF SendToPeer, SendLooksUp, SendConfirmed
<1>3. r.state \in Holding <=> r.conn # None
  BY <1>1 DEF Holding
<1>4. r.state \in Unwritten /\ send[m].state \in Unwritten /\ r.state # "waiting"
  BY <1>1, <1>2 DEF Unwritten
<1>5. conn' \in [Conns -> Sides]
  BY <1>2 DEF TypeOK
<1>6. TransportInv'
  BY <1>1, <1>2, <1>3, <1>4, <1>5, CallStep
<1>7. /\ Outcome(r.state) = "pending" /\ r.state \in CallStates
      /\ send[m].state = "new" \/ Outcome(send[m].state) = "pending"
  BY <1>1, <1>2 DEF Outcome, CallStates
<1> QED
  BY <1>1, <1>2, <1>6, <1>7, CallMaps

\* A call gives up, or a confirmed send returns.
LEMMA ReturnStep ==
  ASSUME TransportInv, NEW m \in Messages, NEW state \in {"sent", "failed", "confirmed"},
         Calls(m, state, None), Outcome(send[m].state) = "pending",
         state = "confirmed" => arrivals[m] = 1,
         active' = active \/ active' = None,
         UNCHANGED <<strikes, arrivals>>,
         conn' \in [Conns -> Sides],
         \A c \in Conns : /\ conn'[c].server = conn[c].server /\ conn'[c].up = conn[c].up
                          /\ conn'[c].down = conn[c].down \/ conn'[c].down = <<>>
                          /\ conn'[c].beat = conn[c].beat
  PROVE  TransportInv' /\ [Mailbox!Next]_mailbox
<1> USE DEF TransportInv
<1> DEFINE r == [state |-> state, conn |-> None]
<1>1. r \in [state : CallStates, conn : Conns \cup {None}] /\ r.state = state /\ r.conn = None
  BY DEF CallStates
<1>2. send' = [send EXCEPT ![m] = r]
  BY DEF Calls
<1>3. state \notin Holding /\ state \notin Unwritten /\ state # "waiting" /\ state \in CallStates
  BY DEF Holding, Unwritten, CallStates
<1>4. TransportInv'
  <2> HIDE DEF r
  <2> QED
    BY <1>1, <1>2, <1>3, CallStep
<1> QED
  BY <1>2, <1>3, <1>4, CallMaps

\* Node::connect, for a call that waits for it.
LEMMA ConnectStep ==
  ASSUME TransportInv, NEW m \in Messages, SendConnect(m)
  PROVE  TransportInv' /\ [Mailbox!Next]_mailbox
<1> USE DEF TransportInv
<1>1. send[m].state = "connecting" /\ UNCHANGED <<active, strikes, arrivals>>
  BY DEF SendConnect
<1>2. Outcome(send[m].state) = "pending"
  BY <1>1 DEF Outcome
<1>3. CASE Calls(m, "failed", None) /\ UNCHANGED conn
  BY <1>1, <1>2, <1>3, ReturnStep DEF TypeOK
<1>4. ASSUME NEW c \in Conns, CanConnect(c), m \in Confirmed,
             conn' = [conn EXCEPT ![c] = Opened(<<m>>, "none")],
             Calls(m, "waiting", c)
      PROVE  TransportInv' /\ [Mailbox!Next]_mailbox
  <2> DEFINE s == Opened(<<m>>, "none")
  <2>1. <<m>> \in Seq(Frames) /\ <<>> \in Seq(Frames)
    BY DEF Frames
  <2>2. s \in Sides /\ s.server = "new" /\ s.up = <<m>> /\ s.down = <<>> /\ s.beat = "none"
    BY <2>1 DEF Opened, Sides, ServerStates
  <2> HIDE DEF s
  <2>3. conn[c].server = "none" /\ conn' = [conn EXCEPT ![c] = s]
        /\ send' = [send EXCEPT ![m] = [state |-> "waiting", conn |-> c]]
    BY <1>4 DEF CanConnect, Calls, s
  <2>4. TransportInv'
    BY <1>1, <1>4, <2>2, <2>3, OpenStep
  <2>5. Outcome("waiting") = "pending" /\ "waiting" \in CallStates
    BY DEF Outcome, CallStates
  <2> QED
    BY <1>1, <1>2, <2>3, <2>4, <2>5, CallMaps
<1>5. ASSUME NEW c \in Conns, CanConnect(c),
             conn' = [conn EXCEPT ![c] = Opened(<<>>, "none")],
             Calls(m, "caching", c)
      PROVE  TransportInv' /\ [Mailbox!Next]_mailbox
  <2> DEFINE s == Opened(<<>>, "none")
  <2>1. <<>> \in Seq(Frames)
    OBVIOUS
  <2>2. s \in Sides /\ s.server = "new" /\ s.up = <<>> /\ s.down = <<>>
    BY <2>1 DEF Opened, Sides, ServerStates
  <2> HIDE DEF s
  <2>3. conn[c].server = "none" /\ conn' = [conn EXCEPT ![c] = s]
        /\ send' = [send EXCEPT ![m] = [state |-> "caching", conn |-> c]]
    BY <1>5 DEF CanConnect, Calls, s
  <2>4. TransportInv'
    BY <1>1, <1>5, <2>2, <2>3, OpenStep
  <2>5. Outcome("caching") = "pending" /\ "caching" \in CallStates
    BY DEF Outcome, CallStates
  <2> QED
    BY <1>1, <1>2, <2>3, <2>4, <2>5, CallMaps
<1> QED
  BY <1>3, <1>4, <1>5 DEF SendConnect

\* Node::bootstrap.
LEMMA BootstrapStep ==
  ASSUME TransportInv, NEW c \in Conns, Bootstrap(c)
  PROVE  TransportInv' /\ UNCHANGED <<send, arrivals>>
<1>1. <<>> \in Seq(Frames)
  OBVIOUS
<1>2. PICK beat \in {"running", "caching"} :
        /\ conn' = [conn EXCEPT ![c] = Opened(<<>>, beat)] /\ active' \in {c, active}
        /\ conn[c].server = "none" /\ UNCHANGED <<send, strikes, arrivals>>
  BY DEF Bootstrap, CanConnect
<1> DEFINE s == Opened(<<>>, beat)
<1>3. s \in Sides /\ s.server = "new" /\ s.up = <<>> /\ s.down = <<>>
  BY <1>1 DEF Opened, Sides, ServerStates
<1> HIDE DEF s
<1>4. conn' = [conn EXCEPT ![c] = s]
  BY <1>2 DEF s
<1> QED
  BY <1>2, <1>3, <1>4, OpenStep

\* The mutex of a connection changes hands.
LEMMA LockStep ==
  ASSUME TypeOK, NEW c \in Conns, NEW lock \in Messages \cup {None},
         conn' = [conn EXCEPT ![c].lock = lock]
  PROVE  /\ conn' \in [Conns -> Sides]
         /\ \A d \in Conns : /\ conn'[d].server = conn[d].server /\ conn'[d].up = conn[d].up
                              /\ conn'[d].down = conn[d].down /\ conn'[d].beat = conn[d].beat
<1>1. conn' \in [Conns -> Sides]
  BY ZenonT(40) DEF TypeOK, Sides
<1> QED
  BY <1>1 DEF TypeOK, Sides

\* send_to_peer waits with the mutex of its connection.
LEMMA HoldStep ==
  ASSUME TransportInv, NEW m \in Messages, NEW c \in Conns, NEW state \in {"writing", "failing"},
         send[m].state \in {"queued", "writing"}, send[m].conn = c, Calls(m, state, c),
         conn' = [conn EXCEPT ![c].lock = m], UNCHANGED <<active, strikes, arrivals>>
  PROVE  TransportInv' /\ [Mailbox!Next]_mailbox
<1> USE DEF TransportInv
<1> DEFINE r == [state |-> state, conn |-> c]
<1>1. /\ conn' \in [Conns -> Sides]
      /\ \A d \in Conns : /\ conn'[d].server = conn[d].server /\ conn'[d].up = conn[d].up
                           /\ conn'[d].down = conn[d].down /\ conn'[d].beat = conn[d].beat
  BY LockStep
<1>2. r \in [state : CallStates, conn : Conns \cup {None}] /\ r.state = state /\ r.conn = c
  BY DEF CallStates
<1>3. /\ state \in Holding /\ state \in CallStates /\ Outcome(state) = "pending" /\ state # "waiting"
      /\ send[m].state \in Unwritten /\ Outcome(send[m].state) = "pending" /\ c # None
  BY TransportAssumption DEF Holding, CallStates, Unwritten, Outcome, Conns
<1>4. send' = [send EXCEPT ![m] = r]
  BY DEF Calls
<1>5. TransportInv'
  <2> HIDE DEF r
  <2> QED
    BY <1>1, <1>2, <1>3, <1>4, CallStep
<1> QED
  BY <1>3, <1>4, <1>5, CallMaps

\* send_to_peer with the mutex of its connection.
LEMMA SendWriteStep ==
  ASSUME TransportInv, NEW m \in Messages, SendWrite(m) \/ SendFailed(m)
  PROVE  TransportInv' /\ [Mailbox!Next]_mailbox
<1> USE DEF TransportInv
<1> DEFINE c == send[m].conn
<1>1. /\ send[m].state \in {"queued", "writing"} /\ Outcome(send[m].state) = "pending"
      /\ UNCHANGED <<strikes, arrivals>>
  BY DEF SendWrite, SendFailed, Holds, Outcome
<1>2. c \in Conns
  BY <1>1 DEF RefersToOpened, TypeOK, Holding
<1>3. conn[c] \in Sides /\ conn[c].up \in Seq(Frames) /\ m \in Frames
  BY <1>2 DEF TypeOK, Sides, Frames
<1>4. CASE SendFailed(m)
  <2>1. ASSUME NEW lock \in {None, m}, conn' = [conn EXCEPT ![c].lock = lock]
        PROVE  /\ conn' \in [Conns -> Sides]
               /\ \A d \in Conns : /\ conn'[d].server = conn[d].server /\ conn'[d].up = conn[d].up
                                    /\ conn'[d].down = conn[d].down /\ conn'[d].beat = conn[d].beat
    BY <1>2, <2>1, LockStep
  <2>2. CASE conn' = [conn EXCEPT ![c].lock = None]
              /\ (Calls(m, "failed", None) \/ Calls(m, "sent", None))
              /\ (active' = active \/ active' = None)
    BY <1>1, <2>1, <2>2, ReturnStep
  <2>3. CASE Calls(m, "failing", c) /\ active' = active /\ conn' = [conn EXCEPT ![c].lock = m]
    BY <1>1, <1>2, <2>1, <2>3, HoldStep
  <2> QED
    BY <1>4, <2>2, <2>3 DEF SendFailed
<1>5. CASE SendWrite(m) /\ Room(conn[c].up)
  <2> DEFINE s == [conn[c] EXCEPT !.up = Append(@, m), !.lock = None]
  <2>1. conn' = [conn EXCEPT ![c] = s]
    BY <1>2, <1>5 DEF SendWrite, TypeOK
  <2>2. Append(conn[c].up, m) \in Seq(Frames)
    BY <1>3
  <2>3. /\ s \in Sides /\ s.server = conn[c].server /\ s.down = conn[c].down
        /\ s.up = Append(conn[c].up, m) /\ s.beat = conn[c].beat
    BY <1>3, <2>2 DEF Sides
  <2> HIDE DEF s
  <2>4. send' = [send EXCEPT ![m] = [state |-> "sent", conn |-> None]] /\ active' = active
    BY <1>5 DEF SendWrite, Calls
  <2>5. TransportInv'
    BY <1>1, <1>2, <2>1, <2>3, <2>4, WriteStep
  <2>6. "sent" \in CallStates
    BY DEF CallStates
  <2> QED
    BY <1>1, <2>4, <2>5, <2>6, CallMaps
<1>6. CASE SendWrite(m) /\ ~Room(conn[c].up)
  <2>1. conn' = [conn EXCEPT ![c].lock = m] /\ active' = active /\ Calls(m, "writing", c)
    BY <1>6 DEF SendWrite
  <2> QED
    BY <1>1, <1>2, <2>1, LockStep, HoldStep
<1> QED
  BY <1>4, <1>5, <1>6

\* send_to_peer has removed a dead connection from the cache.
LEMMA RemoveStep ==
  ASSUME TransportInv, NEW m \in Messages, SendRemoves(m)
  PROVE  TransportInv' /\ [Mailbox!Next]_mailbox
<1> DEFINE c == send[m].conn
<1>1. /\ send[m].state = "failing" /\ Outcome(send[m].state) = "pending" /\ active' = None
      /\ conn' = [conn EXCEPT ![c].lock = None]
      /\ Calls(m, "failed", None) /\ UNCHANGED <<strikes, arrivals>>
  BY DEF SendRemoves, Outcome
<1>2. c \in Conns
  BY <1>1 DEF RefersToOpened, TypeOK, Holding, TransportInv
<1> QED
  BY <1>1, <1>2, LockStep, ReturnStep DEF TransportInv

\* send_to_peer_confirmed has its answer, or none in time.
LEMMA ConfirmStep ==
  ASSUME TransportInv, NEW m \in Messages, ConfirmRecv(m) \/ ConfirmFails(m)
  PROVE  TransportInv' /\ [Mailbox!Next]_mailbox
<1> USE DEF TransportInv
<1> DEFINE c == send[m].conn
<1>1. /\ send[m].state = "waiting" /\ conn' = [conn EXCEPT ![c].down = <<>>]
      /\ UNCHANGED <<active, strikes, arrivals>>
  BY DEF ConfirmRecv, ConfirmFails
<1>2. c \in Conns /\ Outcome(send[m].state) = "pending"
  BY <1>1 DEF RefersToOpened, TypeOK, Holding, Outcome
<1>3. <<>> \in Seq(Frames)
  OBVIOUS
<1>4. conn' \in [Conns -> Sides]
  BY <1>1, <1>2, <1>3, ZenonT(40) DEF TypeOK, Sides
<1>5. \A d \in Conns : /\ conn'[d].server = conn[d].server /\ conn'[d].up = conn[d].up
                       /\ conn'[d].down = conn[d].down \/ conn'[d].down = <<>>
                       /\ conn'[d].beat = conn[d].beat
  BY <1>1, <1>2 DEF TypeOK, Sides
<1>6. CASE ConfirmFails(m)
  BY <1>1, <1>2, <1>4, <1>5, <1>6, ReturnStep DEF ConfirmFails
<1>7. CASE ConfirmRecv(m)
  <2>1. conn[c].down \in Seq(Frames) /\ conn[c].down # <<>> /\ Head(conn[c].down) = Ack
    BY <1>2, <1>7 DEF ConfirmRecv, TypeOK, Sides
  <2>2. Acknowledges(c)
    BY <2>1, PipeFacts DEF Acknowledges
  <2>3. arrivals[m] = 1
    BY <1>1, <2>2 DEF AckMeansArrived, OwnConnection
  <2>4. Calls(m, "confirmed", None)
    BY <1>7 DEF ConfirmRecv
  <2> QED
    BY <1>1, <1>2, <1>4, <1>5, <2>3, <2>4, ReturnStep
<1> QED
  BY <1>6, <1>7

-----------------------------------------------------------------------------
\* Whatever happens to connections, cache, locks and inbox, and for any number
\* of them: no message arrives twice, none arrives unsent, and Ok of
\* send_to_peer_confirmed means that the inbox has the message.
THEOREM TransportImplementsMailbox == Spec => ImplementsMailbox
<1>1. Init => TransportInv
  <2> SUFFICES ASSUME Init PROVE TransportInv
    OBVIOUS
  <2>1. <<>> \in Seq(Frames) /\ Unopened \in Sides
    BY DEF Unopened, Sides, ServerStates
  <2>2. TypeOK
    BY <2>1 DEF Init, TypeOK, CallStates
  <2>3. RefersToOpened
    BY DEF Init, RefersToOpened, Holding, Unopened
  <2>4. OneCopy
    BY DEF Init, OneCopy, Unopened, Travels
  <2>5. AckMeansArrived
    BY DEF Init, AckMeansArrived
  <2> QED
    BY <2>2, <2>3, <2>4, <2>5 DEF TransportInv
<1>2. Init => Mailbox!Init
  BY DEF Init, Mailbox!Init, Outcome
<1>3. TransportInv /\ [Next]_vars => TransportInv' /\ [Mailbox!Next]_mailbox
  <2> SUFFICES ASSUME TransportInv, [Next]_vars
               PROVE  TransportInv' /\ [Mailbox!Next]_mailbox
    OBVIOUS
  <2>1. ASSUME UNCHANGED <<send, arrivals>> PROVE UNCHANGED mailbox
    BY <2>1 DEF mailbox
  <2>2. ASSUME NEW c \in Conns,
               \/ Bootstrap(c) \/ BootstrapCaches(c)
               \/ Beat(c) \/ BeatRecv(c) \/ BeatFails(c) \/ BeatRemoves(c)
               \/ Admit(c) \/ Reply(c) \/ Quiet(c) \/ Eof(c) \/ Break(c)
        PROVE  TransportInv' /\ UNCHANGED mailbox
    BY <2>1, <2>2, BootstrapStep, HeartbeatStep, ListenerStep
  <2>3. ASSUME NEW c \in Conns, Recv(c)
        PROVE  TransportInv' /\ [Mailbox!Next]_mailbox
    <3>1. CASE UNCHANGED <<send, arrivals>>
      BY <2>1, <2>3, <3>1, RecvStep
    <3>2. ASSUME NEW m \in Messages, arrivals[m] = 0, send[m].state # "new", send' = send,
                 arrivals' = [arrivals EXCEPT ![m] = 1]
          PROVE  Mailbox!Next
      <4>1. Outcome(send[m].state) # "new"
        BY <3>2 DEF Outcome
      <4> QED
        BY <3>2, <4>1 DEF Mailbox!Next, Mailbox!Arrive
    <3> QED
      BY <2>3, <3>1, <3>2, RecvStep
  <2>4. ASSUME NEW m \in Messages,
               \/ SendToPeer(m) \/ SendLooksUp(m) \/ SendConnect(m)
               \/ SendWrite(m) \/ SendFailed(m) \/ SendRemoves(m)
               \/ SendConfirmed(m) \/ ConfirmRecv(m) \/ ConfirmFails(m)
        PROVE  TransportInv' /\ [Mailbox!Next]_mailbox
    BY <2>4, SubmitStep, ConnectStep, SendWriteStep, RemoveStep, ConfirmStep
  <2>5. CASE UNCHANGED vars
    <3>1. TransportInv'
      BY <2>5 DEF vars, TransportInv, TypeOK, RefersToOpened, OneCopy, Travels,
                  AckMeansArrived, OwnConnection, Acknowledges
    <3> QED
      BY <2>1, <2>5, <3>1 DEF vars
  <2> QED
    BY <2>2, <2>3, <2>4, <2>5 DEF Next
<1> QED
  BY <1>1, <1>2, <1>3, PTL DEF Spec, ImplementsMailbox, Mailbox!Spec, mailbox

-----------------------------------------------------------------------------
(***************************************************************************)
(* The gate.  RateBound is not inductive: a bucket that has not been asked *)
(* for a while is behind the clock, and what it may still grant are its    *)
(* tokens plus the refill it has not got yet.  RateInv relates what was    *)
(* spent to the tokens left at the time of the last refill instead.        *)
(***************************************************************************)
Bucket == [tokens : 0..Capacity, last : Nat]

RateType ==
  /\ clock \in Nat
  /\ session \in [Inbound -> {Idle} \cup [phase : Phases, peer : Peers]]
  /\ DOMAIN buckets \subseteq Peers
  /\ buckets \in [DOMAIN buckets -> Bucket]
  /\ spent \in [Peers -> Nat]
  /\ since \in [Peers -> Nat]

Paid(p) ==
  /\ since[p] <= buckets[p].last
  /\ buckets[p].last <= clock
  /\ spent[p] + buckets[p].tokens <= Capacity + Refill * (buckets[p].last - since[p])

RateInv == RateType /\ \A p \in DOMAIN buckets : Paid(p)

-----------------------------------------------------------------------------
\* Refill over two intervals is the refill over both.
LEMMA RefillAdds ==
  ASSUME NEW x \in Int, NEW y \in Int
  PROVE  /\ Refill * (x + y) = Refill * x + Refill * y
         /\ Refill * x \in Int
         /\ 0 <= x => 0 <= Refill * x
  BY GateAssumption

\* One call of TokenBucket::allow grants at most the tokens that leave the
\* bucket plus the refill it has just got.
LEMMA BucketStep ==
  ASSUME NEW b \in Bucket, NEW cost \in Nat, NEW now \in Nat, b.last <= now
  PROVE  LET n == AfterAllow(b, Capacity, Refill, cost, now)
             granted == IF Allows(b, Capacity, Refill, cost, now) THEN cost ELSE 0
         IN  /\ n \in Bucket
             /\ b.last <= n.last /\ n.last <= now
             /\ granted + n.tokens <= b.tokens + Refill * (n.last - b.last)
<1> DEFINE gain == Refill * (now - b.last)
<1>1. gain \in Nat
  <2>1. now - b.last \in Int /\ 0 <= now - b.last
    BY DEF Bucket
  <2>2. QED
    BY <2>1, RefillAdds
<1>2. (now - b.last) * Refill = gain
  BY GateAssumption DEF Bucket
<1>3. b.tokens \in 0..Capacity /\ b.last \in Nat /\ Capacity \in Nat
  BY GateAssumption DEF Bucket
<1> DEFINE r == Refilled(b, Capacity, Refill, now)
<1>4. r = [tokens |-> IF b.tokens + gain > Capacity THEN Capacity ELSE b.tokens + gain,
           last |-> now]
  BY <1>2 DEF Refilled
<1> HIDE DEF gain
<1>5. r.tokens \in 0..Capacity /\ r.tokens <= b.tokens + gain /\ r.last = now
  BY <1>1, <1>3, <1>4
<1>6. CASE cost > Capacity
  <2>1. AfterAllow(b, Capacity, Refill, cost, now) = b
    BY <1>6 DEF AfterAllow
  <2>2. ~Allows(b, Capacity, Refill, cost, now)
    BY <1>6, <1>3 DEF Allows
  <2>3. Refill * (b.last - b.last) = 0
    BY <1>3, GateAssumption
  <2>4. QED
    BY <2>1, <2>2, <2>3, <1>3
<1>7. CASE ~(cost > Capacity)
  <2>1. AfterAllow(b, Capacity, Refill, cost, now)
          = [tokens |-> IF cost <= r.tokens THEN r.tokens - cost ELSE r.tokens, last |-> now]
    <3>1. AfterAllow(b, Capacity, Refill, cost, now)
            = [r EXCEPT !.tokens = IF cost <= @ THEN @ - cost ELSE @]
      BY <1>7 DEF AfterAllow
    <3> HIDE DEF r
    <3>2. QED
      BY <3>1, <1>4
  <2>2. Allows(b, Capacity, Refill, cost, now) <=> cost <= r.tokens
    BY <1>7, <1>3 DEF Allows
  <2> HIDE DEF r
  <2>3. AfterAllow(b, Capacity, Refill, cost, now) \in Bucket
    BY <2>1, <1>5, <1>3, <1>7 DEF Bucket
  <2>4. QED
    BY <2>1, <2>2, <2>3, <1>5, <1>1, <1>3 DEF gain
<1>8. QED
  BY <1>6, <1>7

\* Looking a peer up leaves the buckets of the peers that stay as they were
\* and gives a new peer a full bucket that starts now.
LEMMA LookUp ==
  ASSUME RateType, NEW p \in Peers,
         NEW table \in LookUpPeer(p)
  PROVE  /\ DOMAIN table \subseteq Peers
         /\ table \in [DOMAIN table -> Bucket]
         /\ p \in DOMAIN table
         /\ \A q \in DOMAIN table \ {p} : q \in DOMAIN buckets /\ table[q] = buckets[q]
         /\ table[p] = IF p \in DOMAIN buckets THEN buckets[p] ELSE NewBucket(Capacity, clock)
<1>1. NewBucket(Capacity, clock) \in Bucket
  BY GateAssumption DEF NewBucket, Bucket, RateType
<1>2. CASE p \in DOMAIN buckets
  <2>1. table = buckets
    BY <1>2 DEF Entered, LookUpPeer
  <2>2. QED
    BY <2>1, <1>2 DEF RateType
<1>3. CASE p \notin DOMAIN buckets
  <2>1. PICK keys \in SUBSET DOMAIN buckets :
          table = With(buckets, keys, p, NewBucket(Capacity, clock))
    <3>1. CASE Cardinality(DOMAIN buckets) >= MaxBuckets
      <4>1. PICK q \in DOMAIN buckets :
              table = With(buckets, DOMAIN buckets \ {q}, p, NewBucket(Capacity, clock))
        BY <1>3, <3>1 DEF Entered, Least, LookUpPeer, Remaining
      <4>2. QED
        BY <4>1
    <3>2. CASE ~(Cardinality(DOMAIN buckets) >= MaxBuckets)
      BY <1>3, <3>2 DEF Entered, LookUpPeer
    <3>3. QED
      BY <3>1, <3>2
  <2>2. /\ DOMAIN table = keys \cup {p}
        /\ \A q \in DOMAIN table :
             table[q] = IF q = p THEN NewBucket(Capacity, clock) ELSE buckets[q]
        /\ table = [q \in keys \cup {p} |->
                      IF q = p THEN NewBucket(Capacity, clock) ELSE buckets[q]]
    BY <2>1 DEF With
  <2>3. \A q \in DOMAIN table : table[q] \in Bucket
    BY <2>2, <1>1 DEF RateType
  <2>4. table \in [DOMAIN table -> Bucket]
    BY <2>2, <2>3
  <2>5. QED
    BY <2>2, <2>4, <1>3 DEF RateType
<1>4. QED
  BY <1>2, <1>3

\* PeerAdmission::allow keeps the account of every peer that has a bucket.
LEMMA AdmissionStep ==
  ASSUME RateInv, NEW p \in Peers, NEW cost \in Nat, NEW ok \in BOOLEAN,
         Admission(p, cost, ok), clock' = clock,
         session' \in [Inbound -> {Idle} \cup [phase : Phases, peer : Peers]]
  PROVE  RateInv'
<1> USE DEF RateInv
<1>1. PICK table \in LookUpPeer(p) :
        /\ ok = Allows(table[p], Capacity, Refill, cost, clock)
        /\ buckets' = [table EXCEPT ![p] = AfterAllow(@, Capacity, Refill, cost, clock)]
        /\ since' = IF p \in DOMAIN buckets THEN since ELSE [since EXCEPT ![p] = clock]
        /\ spent' = [spent EXCEPT ![p] = (IF p \in DOMAIN buckets THEN @ ELSE 0)
                                         + (IF ok THEN cost ELSE 0)]
  BY DEF Admission
<1> DEFINE granted == IF ok THEN cost ELSE 0
           before == IF p \in DOMAIN buckets THEN spent[p] ELSE 0
           start == IF p \in DOMAIN buckets THEN since[p] ELSE clock
           n == AfterAllow(table[p], Capacity, Refill, cost, clock)
<1>2. /\ DOMAIN table \subseteq Peers
      /\ table \in [DOMAIN table -> Bucket]
      /\ p \in DOMAIN table
      /\ \A q \in DOMAIN table \ {p} : q \in DOMAIN buckets /\ table[q] = buckets[q]
      /\ table[p] = IF p \in DOMAIN buckets THEN buckets[p] ELSE NewBucket(Capacity, clock)
  BY <1>1, LookUp
<1>3. /\ table[p] \in Bucket
      /\ before \in Nat /\ start \in Nat
      /\ start <= table[p].last /\ table[p].last <= clock
      /\ before + table[p].tokens <= Capacity + Refill * (table[p].last - start)
  <2>1. CASE p \in DOMAIN buckets
    BY <2>1, <1>2 DEF Paid, RateType
  <2>2. CASE p \notin DOMAIN buckets
    <3>1. table[p] = [tokens |-> Capacity, last |-> clock] /\ start = clock /\ before = 0
      BY <2>2, <1>2 DEF NewBucket
    <3>2. Refill * (clock - clock) = 0
      BY GateAssumption DEF RateType
    <3>3. QED
      BY <3>1, <3>2, <1>2, GateAssumption DEF RateType
  <2>3. QED
    BY <2>1, <2>2
<1>4. /\ n \in Bucket
      /\ table[p].last <= n.last /\ n.last <= clock
      /\ granted + n.tokens <= table[p].tokens + Refill * (n.last - table[p].last)
  BY <1>1, <1>3, BucketStep DEF RateType
<1>5. before + granted + n.tokens <= Capacity + Refill * (n.last - start)
  <2> DEFINE x == table[p].last - start
             y == n.last - table[p].last
  <2>1. x \in Int /\ y \in Int /\ x + y = n.last - start
    BY <1>3, <1>4 DEF Bucket
  <2>2. /\ Refill * (x + y) = Refill * x + Refill * y
        /\ Refill * x \in Int /\ Refill * y \in Int
    BY <2>1, RefillAdds
  <2>3. /\ before + table[p].tokens <= Capacity + Refill * x
        /\ granted + n.tokens <= table[p].tokens + Refill * y
    BY <1>3, <1>4
  <2>4. Refill * (n.last - start) = Refill * x + Refill * y
    BY <2>1, <2>2
  <2>5. /\ before \in Nat /\ granted \in Nat /\ n.tokens \in Nat /\ table[p].tokens \in Nat
        /\ Capacity \in Nat
    BY <1>3, <1>4, GateAssumption DEF Bucket
  <2> HIDE DEF x, y, before, granted, n, start
  <2>6. before + granted + n.tokens <= Capacity + Refill * x + Refill * y
    BY <2>2, <2>3, <2>5
  <2>7. QED
    BY <2>6, <2>4, <2>2, <2>5
<1>6. /\ DOMAIN buckets' = DOMAIN table
      /\ buckets'[p] = n
      /\ \A q \in DOMAIN table \ {p} : buckets'[q] = buckets[q]
      /\ spent'[p] = before + granted /\ since'[p] = start
      /\ \A q \in Peers \ {p} : spent'[q] = spent[q] /\ since'[q] = since[q]
      /\ spent' \in [Peers -> Nat] /\ since' \in [Peers -> Nat]
  BY <1>1, <1>2, <1>3 DEF RateType
<1>7. buckets' \in [DOMAIN buckets' -> Bucket]
  BY <1>1, <1>2, <1>4
<1>8. RateType'
  BY <1>2, <1>6, <1>7 DEF RateType, Bucket
<1> HIDE DEF n, before, granted, start
<1>9. ASSUME NEW q \in DOMAIN buckets' PROVE Paid(q)'
  <2>1. CASE q = p
    <3>1. spent'[p] + buckets'[p].tokens
            <= Capacity + Refill * (buckets'[p].last - since'[p])
      BY <1>5, <1>6
    <3>2. since'[p] <= buckets'[p].last /\ buckets'[p].last <= clock'
      BY <1>3, <1>4, <1>6 DEF Bucket
    <3>3. QED
      BY <2>1, <3>1, <3>2 DEF Paid
  <2>2. CASE q # p
    <3>1. q \in DOMAIN buckets /\ q \in Peers /\ buckets'[q] = buckets[q]
      BY <2>2, <1>2, <1>6
    <3>2. Paid(q)
      BY <3>1
    <3>3. QED
      BY <2>2, <3>1, <3>2, <1>6 DEF Paid
  <2>3. QED
    BY <2>1, <2>2
<1>10. QED
  BY <1>8, <1>9

\* The rate limit of authenticated peers (PeerAdmission in Node::handle), for
\* any interleaving of any number of connections.
THEOREM RateLimit == GateSpec => []RateBound
<1>1. GateInit => RateInv
  BY GateAssumption DEF GateInit, RateInv, RateType, Idle, NewBucket, Bucket
<1>2. RateInv /\ [GateNext]_gateVars => RateInv'
  <2> SUFFICES ASSUME RateInv, [GateNext]_gateVars PROVE RateInv'
    OBVIOUS
  <2>0. \A c \in Inbound : session[c].phase # "closed" => session[c] \in [phase : Phases, peer : Peers]
    BY DEF RateInv, RateType, Idle
  <2>1. CASE Tick
    <3>1. clock' \in Nat /\ clock <= clock'
      BY <2>1 DEF Tick, RateInv, RateType
    <3>2. RateType'
      BY <2>1, <3>1 DEF Tick, RateInv, RateType
    <3>3. \A p \in DOMAIN buckets' : Paid(p)'
      BY <2>1, <3>1 DEF Tick, RateInv, RateType, Paid, Bucket
    <3>4. QED
      BY <3>2, <3>3 DEF RateInv
  <2>2. ASSUME NEW c \in Inbound, AdmitPeer(c) PROVE RateInv'
    <3>1. PICK ok \in BOOLEAN :
            /\ Admission(session[c].peer, 1, ok)
            /\ session' = [session EXCEPT ![c].phase = IF ok THEN "admitted" ELSE "striking"]
      BY <2>2 DEF AdmitPeer
    <3>2. session[c].peer \in Peers /\ session[c] \in [phase : Phases, peer : Peers]
      BY <2>2, <2>0 DEF AdmitPeer
    <3>3. session' \in [Inbound -> {Idle} \cup [phase : Phases, peer : Peers]]
      BY <3>1, <3>2 DEF RateInv, RateType, Phases
    <3>4. clock' = clock
      BY <2>2 DEF AdmitPeer
    <3>5. QED
      BY <3>1, <3>2, <3>3, <3>4, AdmissionStep
  <2>3. ASSUME NEW c \in Inbound, NEW cost \in Costs, Message(c, cost) PROVE RateInv'
    <3>1. PICK ok \in BOOLEAN :
            /\ Admission(session[c].peer, cost, ok)
            /\ session' = IF ok THEN session ELSE [session EXCEPT ![c].phase = "striking"]
      BY <2>3 DEF Message
    <3>2. session[c].peer \in Peers /\ session[c] \in [phase : Phases, peer : Peers]
      BY <2>3, <2>0 DEF Message
    <3>3. session' \in [Inbound -> {Idle} \cup [phase : Phases, peer : Peers]]
      BY <3>1, <3>2 DEF RateInv, RateType, Phases
    <3>4. clock' = clock /\ cost \in Nat
      BY <2>3, GateAssumption DEF Message
    <3>5. QED
      BY <3>1, <3>2, <3>3, <3>4, AdmissionStep
  <2>4. ASSUME UNCHANGED <<clock, buckets, spent, since>>,
               session' \in [Inbound -> {Idle} \cup [phase : Phases, peer : Peers]]
        PROVE  RateInv'
    BY <2>4 DEF RateInv, RateType, Paid
  <2>5. ASSUME NEW c \in Inbound, NEW ip \in Ips, NEW p \in Peers, Accept(c, ip, p)
        PROVE  RateInv'
    <3>1. session' = session \/ session' = [session EXCEPT ![c] = Task("handshake", p)]
      BY <2>5 DEF Accept
    <3>2. session' \in [Inbound -> {Idle} \cup [phase : Phases, peer : Peers]]
      BY <3>1 DEF RateInv, RateType, Task, Phases
    <3>3. QED
      BY <2>4, <2>5, <3>2 DEF Accept
  <2>6. ASSUME NEW c \in Inbound, Leave(c) PROVE RateInv'
    BY <2>4, <2>6 DEF Leave, RateInv, RateType
  <2>7. ASSUME NEW c \in Inbound, CheckDefense(c) PROVE RateInv'
    <3>1. \/ session' = [session EXCEPT ![c].phase = "open"]
          \/ session' = [session EXCEPT ![c] = Idle]
      BY <2>7 DEF CheckDefense
    <3>2. session[c] \in [phase : Phases, peer : Peers]
      BY <2>7, <2>0 DEF CheckDefense
    <3>3. session' \in [Inbound -> {Idle} \cup [phase : Phases, peer : Peers]]
      BY <3>1, <3>2 DEF RateInv, RateType, Phases
    <3>4. QED
      BY <2>4, <2>7, <3>3 DEF CheckDefense
  <2>8. ASSUME NEW c \in Inbound, BadFrame(c) PROVE RateInv'
    <3>1. session[c] \in [phase : Phases, peer : Peers]
      BY <2>8, <2>0 DEF BadFrame
    <3>2. session' \in [Inbound -> {Idle} \cup [phase : Phases, peer : Peers]]
      BY <2>8, <3>1 DEF BadFrame, RateInv, RateType, Phases
    <3>3. QED
      BY <2>4, <2>8, <3>2 DEF BadFrame
  <2>9. ASSUME NEW c \in Inbound, Strike(c) PROVE RateInv'
    BY <2>4, <2>9 DEF Strike, RateInv, RateType
  <2>10. CASE UNCHANGED gateVars
    BY <2>4, <2>10 DEF gateVars, RateInv, RateType
  <2>11. QED
    BY <2>1, <2>2, <2>3, <2>5, <2>6, <2>7, <2>8, <2>9, <2>10 DEF GateNext
<1>3. RateInv => RateBound
  <2> SUFFICES ASSUME RateInv, NEW p \in DOMAIN buckets
               PROVE  spent[p] <= Capacity + Refill * (clock - since[p])
    BY DEF RateBound
  <2> DEFINE x == buckets[p].last - since[p]
             y == clock - buckets[p].last
  <2>1. /\ spent[p] \in Nat /\ since[p] \in Nat /\ buckets[p] \in Bucket /\ clock \in Nat
        /\ since[p] <= buckets[p].last /\ buckets[p].last <= clock
        /\ spent[p] + buckets[p].tokens <= Capacity + Refill * x
    BY DEF RateInv, RateType, Paid
  <2>2. x \in Int /\ y \in Int /\ 0 <= y /\ x + y = clock - since[p]
    BY <2>1 DEF Bucket
  <2>3. /\ Refill * (clock - since[p]) = Refill * x + Refill * y
        /\ Refill * x \in Int /\ Refill * y \in Int /\ 0 <= Refill * y
    BY <2>2, RefillAdds
  <2>4. buckets[p].tokens \in Nat /\ Capacity \in Nat
    BY <2>1, GateAssumption DEF Bucket
  <2> HIDE DEF x, y
  <2>5. QED
    BY <2>1, <2>3, <2>4
<1>4. QED
  BY <1>1, <1>2, <1>3, PTL DEF GateSpec
-----------------------------------------------------------------------------
(***************************************************************************)
(* The defense table.  That quarantined_until never goes back needs that   *)
(* no entry of the table lies more than one quarantine ahead of the clock: *)
(* a strike sets it to exactly that.                                       *)
(***************************************************************************)
Records == [strikes : Nat, until : Nat, seen : Nat]
States == {Idle} \cup [phase : Phases, peer : Peers]

DefenseInv ==
  /\ clock \in Nat
  /\ session \in [Inbound -> States]
  /\ DOMAIN defense \subseteq Peers
  /\ defense \in [DOMAIN defense -> Records]
  /\ \A p \in DOMAIN defense : defense[p].until <= clock + QuarantineSecs

\* What may happen to the records of the table in one step.
Escalates ==
  \A p \in DOMAIN defense \cap DOMAIN defense' :
    defense'[p].strikes >= defense[p].strikes /\ defense'[p].until >= defense[p].until

\* Who may begin a session in one step.
Opens ==
  \A c \in Inbound :
    (session[c].phase # "open" /\ session'[c].phase = "open" /\ session[c].peer \in DOMAIN defense
       /\ defense[session[c].peer].strikes > 0)
      => /\ defense[session[c].peer].strikes < BanStrikes
         /\ clock >= defense[session[c].peer].until

\* Looking a peer up leaves the records of the peers that stay as they were and
\* gives a new peer one without strikes.
LEMMA LookUpRecord ==
  ASSUME DefenseInv, NEW p \in Peers, NEW table \in LookUpDefense(p)
  PROVE  /\ DOMAIN table \subseteq Peers /\ p \in DOMAIN table
         /\ table \in [DOMAIN table -> Records]
         /\ \A q \in DOMAIN table \cap DOMAIN defense : table[q] = defense[q]
         /\ \A q \in DOMAIN table : table[q].until <= clock + QuarantineSecs
<1>1. FreshDefense \in Records /\ FreshDefense.until <= clock + QuarantineSecs
  BY GateAssumption DEF FreshDefense, Records, DefenseInv
<1>2. CASE p \in DOMAIN defense
  <2>1. table = defense
    BY <1>2 DEF Entered, LookUpDefense
  <2> QED
    BY <2>1, <1>2 DEF DefenseInv
<1>3. CASE p \notin DOMAIN defense
  <2>1. PICK keys \in SUBSET DOMAIN defense : table = With(defense, keys, p, FreshDefense)
    <3>1. CASE Cardinality(DOMAIN defense) >= MaxEntries
      <4>1. PICK q \in DOMAIN defense :
              table = With(defense, DOMAIN defense \ {q}, p, FreshDefense)
        BY <1>3, <3>1 DEF Entered, Least, LookUpDefense, LastSeen
      <4> QED
        BY <4>1
    <3>2. CASE ~(Cardinality(DOMAIN defense) >= MaxEntries)
      BY <1>3, <3>2 DEF Entered, LookUpDefense
    <3> QED
      BY <3>1, <3>2
  <2>2. table = [q \in keys \cup {p} |-> IF q = p THEN FreshDefense ELSE defense[q]]
    BY <2>1 DEF With
  <2>3. \A q \in DOMAIN table : table[q] \in Records /\ table[q].until <= clock + QuarantineSecs
    BY <2>2, <1>1 DEF DefenseInv
  <2> QED
    BY <2>2, <2>3, <1>3 DEF DefenseInv
<1> QED
  BY <1>2, <1>3

\* A strike counts up and moves the quarantine to its full length from now, or
\* leaves it alone when it bans.
LEMMA StruckRecord ==
  ASSUME NEW s \in Records, clock \in Nat, s.until <= clock + QuarantineSecs
  PROVE  /\ AfterStrike(s) \in Records
         /\ AfterStrike(s).strikes >= s.strikes /\ AfterStrike(s).until >= s.until
         /\ AfterStrike(s).until <= clock + QuarantineSecs
BY GateAssumption DEF AfterStrike, Records

\* A step that replaces the record of one looked-up peer by a later one.
LEMMA RecordStep ==
  ASSUME DefenseInv, NEW p \in Peers, NEW table \in LookUpDefense(p), NEW r \in Records,
         defense' = [table EXCEPT ![p] = r], clock' = clock, session' \in [Inbound -> States],
         r.strikes >= table[p].strikes /\ r.until >= table[p].until,
         r.until <= clock + QuarantineSecs
  PROVE  DefenseInv' /\ Escalates
<1>1. /\ DOMAIN table \subseteq Peers /\ p \in DOMAIN table
      /\ table \in [DOMAIN table -> Records]
      /\ \A q \in DOMAIN table \cap DOMAIN defense : table[q] = defense[q]
      /\ \A q \in DOMAIN table : table[q].until <= clock + QuarantineSecs
  BY LookUpRecord
<1>2. /\ DOMAIN defense' = DOMAIN table /\ defense' \in [DOMAIN table -> Records]
      /\ defense'[p] = r
      /\ \A q \in DOMAIN table \ {p} : defense'[q] = table[q]
  BY <1>1
<1>3. DefenseInv'
  BY <1>1, <1>2 DEF DefenseInv
<1>4. Escalates
  <2> SUFFICES ASSUME NEW q \in DOMAIN defense \cap DOMAIN defense'
               PROVE  defense'[q].strikes >= defense[q].strikes /\ defense'[q].until >= defense[q].until
    BY DEF Escalates
  <2>1. table[q] = defense[q] /\ table[q] \in Records
    BY <1>1, <1>2
  <2>2. CASE q = p
    BY <2>1, <2>2, <1>2
  <2>3. CASE q # p
    BY <2>1, <2>3, <1>2 DEF Records
  <2> QED
    BY <2>2, <2>3
<1> QED
  BY <1>3, <1>4

\* Every step keeps the invariant and is allowed by the property.
LEMMA DefenseStep ==
  ASSUME DefenseInv, [GateNext]_gateVars
  PROVE  DefenseInv' /\ Escalates /\ Opens
<1>0. \A c \in Inbound : session[c].phase # "closed" => session[c] \in [phase : Phases, peer : Peers]
  BY DEF DefenseInv, States, Idle
<1>1. ASSUME defense' = defense PROVE Escalates
  BY <1>1 DEF Escalates, DefenseInv, Records
<1>2. ASSUME defense' = defense, clock' = clock, session' \in [Inbound -> States] PROVE DefenseInv'
  BY <1>2 DEF DefenseInv
<1>3. ASSUME NEW c \in Inbound, NEW s \in States, session' = [session EXCEPT ![c] = s], s.phase # "open"
      PROVE  session' \in [Inbound -> States] /\ Opens
  <2>1. session' \in [Inbound -> States]
    BY <1>3 DEF DefenseInv
  <2>2. \A d \in Inbound : session'[d].phase = "open" => session[d].phase = "open"
    BY <1>3 DEF DefenseInv
  <2> QED
    BY <2>1, <2>2 DEF Opens
<1>4. Idle \in States /\ Idle.phase # "open"
  BY DEF Idle, States
<1>5. ASSUME session' = session PROVE session' \in [Inbound -> States] /\ Opens
  BY <1>5 DEF DefenseInv, Opens
<1>6. ASSUME NEW c \in Inbound, session[c].phase # "closed", NEW f \in Phases, f # "open"
      PROVE  /\ [session[c] EXCEPT !.phase = f] \in States
             /\ [session[c] EXCEPT !.phase = f].phase # "open"
             /\ [session EXCEPT ![c].phase = f] = [session EXCEPT ![c] = [session[c] EXCEPT !.phase = f]]
  BY <1>0, <1>6 DEF States, DefenseInv
<1>7. CASE Tick \/ UNCHANGED gateVars
  <2>1. clock' \in Nat /\ clock <= clock' /\ defense' = defense /\ session' = session
    BY <1>7 DEF Tick, gateVars, DefenseInv
  <2>2. DefenseInv'
    BY <2>1, GateAssumption DEF DefenseInv, Records
  <2> QED
    BY <2>1, <2>2, <1>1, <1>5
<1>8. ASSUME NEW c \in Inbound, NEW ip \in Ips, NEW p \in Peers, Accept(c, ip, p)
      PROVE  DefenseInv' /\ Escalates /\ Opens
  <2>1. /\ defense' = defense /\ clock' = clock
        /\ session' = session \/ session' = [session EXCEPT ![c] = Task("handshake", p)]
    BY <1>8 DEF Accept
  <2>2. Task("handshake", p) \in States /\ Task("handshake", p).phase # "open"
    BY DEF Task, States, Phases
  <2>3. session' \in [Inbound -> States] /\ Opens
    BY <2>1, <2>2, <1>3, <1>5
  <2> QED
    BY <2>1, <2>3, <1>1, <1>2
<1>9. ASSUME NEW c \in Inbound, Leave(c) PROVE DefenseInv' /\ Escalates /\ Opens
  <2>1. defense' = defense /\ clock' = clock /\ session' = [session EXCEPT ![c] = Idle]
    BY <1>9 DEF Leave
  <2> QED
    BY <2>1, <1>1, <1>2, <1>3, <1>4
<1>10. ASSUME NEW c \in Inbound, AdmitPeer(c) PROVE DefenseInv' /\ Escalates /\ Opens
  <2>1. PICK f \in {"admitted", "striking"} : session' = [session EXCEPT ![c].phase = f]
    BY <1>10 DEF AdmitPeer
  <2>2. session[c].phase # "closed" /\ f \in Phases /\ f # "open" /\ defense' = defense /\ clock' = clock
    BY <1>10 DEF AdmitPeer, Phases
  <2>3. session' \in [Inbound -> States] /\ Opens
    BY <2>1, <2>2, <1>3, <1>6
  <2> QED
    BY <2>2, <2>3, <1>1, <1>2
<1>11. ASSUME NEW c \in Inbound, NEW cost \in Costs, Message(c, cost)
       PROVE  DefenseInv' /\ Escalates /\ Opens
  <2>1. session' = session \/ session' = [session EXCEPT ![c].phase = "striking"]
    BY <1>11 DEF Message
  <2>2. session[c].phase # "closed" /\ "striking" \in Phases /\ defense' = defense /\ clock' = clock
    BY <1>11 DEF Message, Phases
  <2>3. session' \in [Inbound -> States] /\ Opens
    BY <2>1, <2>2, <1>3, <1>5, <1>6, ZenonT(40)
  <2> QED
    BY <2>2, <2>3, <1>1, <1>2
<1>12. ASSUME NEW c \in Inbound, BadFrame(c) PROVE DefenseInv' /\ Escalates /\ Opens
  <2>1. /\ session' = [session EXCEPT ![c].phase = "striking"] /\ session[c].phase # "closed"
        /\ "striking" \in Phases /\ defense' = defense /\ clock' = clock
    BY <1>12 DEF BadFrame, Phases
  <2>2. session' \in [Inbound -> States] /\ Opens
    BY <2>1, <1>3, <1>6
  <2> QED
    BY <2>1, <2>2, <1>1, <1>2
<1>13. ASSUME NEW c \in Inbound, Strike(c) PROVE DefenseInv' /\ Escalates /\ Opens
  <2> DEFINE p == session[c].peer
  <2>1. p \in Peers /\ clock' = clock /\ session' = [session EXCEPT ![c] = Idle]
    BY <1>13, <1>0 DEF Strike
  <2>2. PICK table \in LookUpDefense(p) : defense' = [table EXCEPT ![p] = AfterStrike(@)]
    BY <1>13 DEF Strike
  <2>3. session' \in [Inbound -> States] /\ Opens
    BY <2>1, <1>3, <1>4
  <2> HIDE DEF p
  <2>4. /\ table \in [DOMAIN table -> Records] /\ p \in DOMAIN table
        /\ table[p] \in Records /\ table[p].until <= clock + QuarantineSecs
    BY <2>1, <2>2, LookUpRecord
  <2> DEFINE r == AfterStrike(table[p])
  <2>5. /\ r \in Records /\ r.strikes >= table[p].strikes /\ r.until >= table[p].until
        /\ r.until <= clock + QuarantineSecs
    BY <2>4, StruckRecord DEF DefenseInv
  <2>6. defense' = [table EXCEPT ![p] = r]
    BY <2>2, <2>4
  <2> HIDE DEF r
  <2>7. DefenseInv' /\ Escalates
    BY <2>1, <2>2, <2>3, <2>5, <2>6, RecordStep
  <2> QED
    BY <2>3, <2>7
<1>14. ASSUME NEW c \in Inbound, CheckDefense(c) PROVE DefenseInv' /\ Escalates /\ Opens
  <2> DEFINE p == session[c].peer
  <2>1. p \in Peers /\ clock' = clock /\ session[c] \in [phase : Phases, peer : Peers]
    BY <1>14, <1>0 DEF CheckDefense
  <2>2. PICK table \in LookUpDefense(p) :
          /\ defense' = [table EXCEPT ![p].seen = clock]
          /\ IF MayEnter(table[p]) THEN session' = [session EXCEPT ![c].phase = "open"]
                                   ELSE session' = [session EXCEPT ![c] = Idle]
    BY <1>14 DEF CheckDefense
  <2>3. /\ table \in [DOMAIN table -> Records] /\ p \in DOMAIN table
        /\ table[p] \in Records /\ table[p].until <= clock + QuarantineSecs
        /\ p \in DOMAIN defense => table[p] = defense[p]
    BY <2>1, <2>2, LookUpRecord
  <2>4. session' \in [Inbound -> States]
    BY <2>1, <2>2, <1>4 DEF DefenseInv, States, Phases
  <2>5. Opens
    <3>1. CASE MayEnter(table[p])
      <4>1. \A d \in Inbound \ {c} : session'[d] = session[d]
        BY <2>2, <3>1 DEF DefenseInv
      <4>2. p \in DOMAIN defense => defense[p].strikes < BanStrikes /\ clock >= defense[p].until
        BY <2>3, <3>1 DEF MayEnter, DefenseInv, Records
      <4> QED
        BY <4>1, <4>2 DEF Opens
    <3>2. CASE ~MayEnter(table[p])
      BY <2>2, <3>2, <1>3, <1>4
    <3> QED
      BY <3>1, <3>2
  <2> HIDE DEF p
  <2> DEFINE r == [table[p] EXCEPT !.seen = clock]
  <2>6. /\ r \in Records /\ r.strikes = table[p].strikes /\ r.until = table[p].until
        /\ table[p].strikes \in Nat /\ table[p].until \in Nat
    BY <2>3 DEF Records, DefenseInv
  <2>7. defense' = [table EXCEPT ![p] = r]
    BY <2>2, <2>3
  <2> HIDE DEF r
  <2>8. /\ r \in Records /\ r.strikes >= table[p].strikes /\ r.until >= table[p].until
        /\ r.until <= clock + QuarantineSecs
    BY <2>3, <2>6
  <2>9. DefenseInv' /\ Escalates
    BY <2>1, <2>2, <2>4, <2>7, <2>8, RecordStep
  <2> QED
    BY <2>5, <2>9
<1> QED
  BY <1>7, <1>8, <1>9, <1>10, <1>11, <1>12, <1>13, <1>14 DEF GateNext

\* Strikes and quarantines only grow while the record exists, and no session
\* begins for a peer in quarantine or banned (PeerDefense in Node::handle), for
\* any number of connections, strikes and evictions.
THEOREM EscalationTheorem == GateSpec => Escalation
<1>1. GateInit => DefenseInv
  BY GateAssumption DEF GateInit, DefenseInv, States, Idle
<1>2. DefenseInv /\ [GateNext]_gateVars => DefenseInv'
  BY DefenseStep
<1>3. DefenseInv /\ [GateNext]_gateVars => [Escalates /\ Opens]_gateVars
  BY DefenseStep
<1> QED
  BY <1>1, <1>2, <1>3, PTL DEF GateSpec, Escalation, Escalates, Opens
=============================================================================
