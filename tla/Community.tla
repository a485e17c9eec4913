----------------------------- MODULE Community -----------------------------
(***************************************************************************)
(* Groups, channels, direct messages and call signals of awe-node          *)
(* (apps/awe-node/src/main.rs): the HTTP handlers that change them, the    *)
(* dispatcher's branches for stream 100, and community.json, which a task  *)
(* rewrites in place every two seconds.                                    *)
(*                                                                         *)
(* One group and one channel, both created by Owner.  An envelope stays in *)
(* wire until its receiver dispatches it; one that never is, is lost, and  *)
(* envelopes overtake each other: what PeerMailbox promises of the         *)
(* transport.  A handler that tries send_to_peer_confirmed and then        *)
(* send_to_peer puts two copies in wire, since the first may have arrived. *)
(* The number of the operation stands for the content of a message.        *)
(*                                                                         *)
(* Every envelope is one that a handler below sends.  The dispatcher       *)
(* compares the owner that an upsert names with its sender, not with the   *)
(* owner of the copy it replaces; as the id of a group or channel is a     *)
(* hash over its owner, no handler sends an upsert for another's.          *)
(*                                                                         *)
(* The lists hold node ids as text: membership and ownership as the hex of *)
(* the id, the senders of the messenger as the short form of format_uid.   *)
(***************************************************************************)
EXTENDS Integers, Sequences, FiniteSets

CONSTANTS
  Nodes,         \* all nodes, which know each other
  Owner,         \* the node that creates the group and the channel
  Texts,         \* texts of direct messages
  SignalTypes,   \* types of the signals of a call
  MaxOps,        \* bound: operations of the interface and snapshots sent
  Seconds,       \* times at which direct messages and signals are sent
  MaxLog,        \* bound: entries of two logs when another is sent
  MaxRestarts,   \* bound: restarts
  NoCopy         \* model value: the node does not know the group or channel


VARIABLES
  group,         \* [Nodes -> NoCopy or the members and messages they have]
  channel,       \* [Nodes -> NoCopy or the subscribers and messages they have]
  log,           \* [Nodes -> the messenger log, in memory only]
  saved,         \* [Nodes -> community.json]
  wire,          \* envelopes sent and not dispatched
  made,          \* history: whether the group and the channel were created
  ops, restarts  \* bounds

vars == <<group, channel, log, saved, wire, made, ops, restarts>>

Hex(n) == <<"hex", n>>
Uid(n) == <<"uid", n>>
Others(n) == Nodes \ {n}

\* The copies of the group and of the channel.
Groups == [members : SUBSET {Hex(n) : n \in Nodes}, messages : Seq(Nat)]
Channels == [subscribers : SUBSET {Hex(n) : n \in Nodes}, messages : Seq(Nat)]

ASSUME CommunityAssumption ==
  /\ Owner \in Nodes /\ MaxOps \in Nat /\ MaxLog \in Nat /\ MaxRestarts \in Nat
  /\ NoCopy \notin Groups /\ NoCopy \notin Channels

Envelope(from, to, copy, body) ==
  [op |-> ops, copy |-> copy, from |-> from, to |-> to, body |-> body]

GroupUpsert(g) == [kind |-> "group", event |-> "upsert", owner |-> Hex(Owner), group |-> g]
GroupMessage(x) == [kind |-> "group", event |-> "message", message |-> x]
ChannelUpsert(c) == [kind |-> "channel", event |-> "upsert", owner |-> Hex(Owner), channel |-> c]
ChannelSubscribe == [kind |-> "channel", event |-> "subscribe"]
ChannelMessage(x) == [kind |-> "channel", event |-> "message", message |-> x]
Fallback(x) == [kind |-> "messenger", event |-> "fallback", message |-> x]
Direct(id) == [kind |-> "messenger", event |-> "direct", id |-> id]
Signal(id) == [kind |-> "call", event |-> "signal", id |-> id]

Init ==
  /\ group = [n \in Nodes |-> NoCopy]
  /\ channel = [n \in Nodes |-> NoCopy]
  /\ log = [n \in Nodes |-> <<>>]
  /\ saved = [n \in Nodes |-> [group |-> NoCopy, channel |-> NoCopy]]
  /\ wire = {}
  /\ made = {} /\ ops = 0 /\ restarts = 0

Operation == ops < MaxOps /\ ops' = ops + 1 /\ UNCHANGED <<saved, restarts>>

-----------------------------------------------------------------------------
(* The HTTP interface *)

\* Fault: the upsert goes to every peer, as that of a channel does.
InvitedAll(g) == Others(Owner)

Invited(g) == {n \in Others(Owner) : Hex(n) \in g.members}

\* POST /api/groups/create: one upsert to every known member.
CreateGroup(members) ==
  LET g == [members |-> {Hex(n) : n \in members \cup {Owner}}, messages |-> <<>>]
  IN  /\ Operation
      /\ "group" \notin made /\ made' = made \cup {"group"}
      /\ group' = [group EXCEPT ![Owner] = g]
      /\ wire' = wire \cup {Envelope(Owner, n, 1, GroupUpsert(g)) : n \in Invited(g)}
      /\ UNCHANGED <<channel, log>>

\* POST /api/groups/send: 404 without the group, 403 for a stranger.  Each
\* member gets send_to_peer_confirmed, then send_to_peer.
SendGroup(n) ==
  /\ Operation
  /\ group[n] # NoCopy /\ Hex(n) \in group[n].members
  /\ group' = [group EXCEPT ![n].messages = Append(@, ops)]
  /\ wire' = wire \cup
       {Envelope(n, p, k, GroupMessage(ops)) :
          p \in {q \in Others(n) : Hex(q) \in group[n].members}, k \in 1..2}
  /\ UNCHANGED <<channel, log, made>>

\* POST /api/channels/create: one upsert to every known peer.
CreateChannel ==
  LET c == [subscribers |-> {Hex(Owner)}, messages |-> <<>>]
  IN  /\ Operation
      /\ "channel" \notin made /\ made' = made \cup {"channel"}
      /\ channel' = [channel EXCEPT ![Owner] = c]
      /\ wire' = wire \cup {Envelope(Owner, n, 1, ChannelUpsert(c)) : n \in Others(Owner)}
      /\ UNCHANGED <<group, log>>

\* POST /api/channels/subscribe: the node adds itself to its own copy and tells
\* the owner.
Subscribe(n) ==
  /\ Operation
  /\ channel[n] # NoCopy
  /\ channel' = [channel EXCEPT ![n].subscribers = @ \cup {Hex(n)}]
  /\ wire' = IF n = Owner THEN wire
             ELSE wire \cup {Envelope(n, Owner, k, ChannelSubscribe) : k \in 1..2}
  /\ UNCHANGED <<group, log, made>>

\* POST /api/channels/publish, for the owner only: every active peer gets the
\* event and, over the messenger, a fallback that carries the same message.
Publish ==
  /\ Operation
  /\ channel[Owner] # NoCopy
  /\ channel' = [channel EXCEPT ![Owner].messages = Append(@, ops)]
  /\ wire' = wire \cup
       {Envelope(Owner, n, 1, b) : n \in Others(Owner), b \in {ChannelMessage(ops), Fallback(ops)}}
  /\ UNCHANGED <<group, log, made>>

\* The id of a direct message is a hash of these.
MessageId(from, to, text, at) == [from |-> from, to |-> to, text |-> text, at |-> at]

\* POST /api/messenger/send: the entry shows what send_to_peer returned.
SendDirect(n, to, text, at, result) ==
  LET id == MessageId(n, to, text, at)
  IN  /\ Operation /\ Len(log[n]) + Len(log[to]) < MaxLog
      /\ log' = [log EXCEPT ![n] = Append(@, [id |-> id, state |-> result])]
      /\ wire' = IF result = "sent" THEN wire \cup {Envelope(n, to, 1, Direct(id))} ELSE wire
      /\ UNCHANGED <<group, channel, made>>

\* The id of a call signal leaves out its data and its recipient.
SignalId(from, type, at) == [from |-> from, type |-> type, at |-> at]

\* POST /api/call/signal, for the signals of one call: a signal that could not be
\* sent leaves no entry.
SendSignal(n, to, type, at) ==
  LET id == SignalId(n, type, at)
  IN  /\ Operation /\ Len(log[n]) + Len(log[to]) < MaxLog
      /\ log' = [log EXCEPT ![n] = Append(@, [id |-> id, state |-> "sent"])]
      /\ wire' = wire \cup {Envelope(n, to, 1, Signal(id))}
      /\ UNCHANGED <<group, channel, made>>

-----------------------------------------------------------------------------
(* The dispatcher, for an envelope of stream 100 *)

OnGroup(n, e) ==
  /\ IF e.body.event = "upsert"
     THEN group' = IF e.body.owner = Hex(e.from)
                   THEN [group EXCEPT ![n] = e.body.group] ELSE group
     ELSE group' = IF group[n] # NoCopy /\ Hex(e.from) \in group[n].members
                   THEN [group EXCEPT ![n].messages = Append(@, e.body.message)]
                   ELSE group
  /\ wire' = wire \ {e}
  /\ UNCHANGED <<channel, log, ops>>

\* An upsert replaces the copy, messages and all.
OnChannelUpsert(n, e) ==
  /\ channel' = IF e.body.owner = Hex(e.from)
                THEN [channel EXCEPT ![n] = e.body.channel] ELSE channel
  /\ wire' = wire \ {e}
  /\ UNCHANGED <<group, log, ops>>

\* Fault: the snapshot is taken before the subscriber is added.
OnSubscribeEarly(n, e) ==
  LET c == [channel[n] EXCEPT !.subscribers = @ \cup {Hex(e.from)}]
  IN  /\ ops < MaxOps /\ ops' = ops + 1
      /\ channel' = [channel EXCEPT ![n] = c]
      /\ wire' = (wire \ {e}) \cup {Envelope(n, e.from, 1, ChannelUpsert(channel[n]))}
      /\ UNCHANGED <<group, log>>

\* At the owner, while it has the channel: the sender is subscribed and a task
\* is spawned that sends it a snapshot taken now.
OnSubscribe(n, e) ==
  LET c == [channel[n] EXCEPT !.subscribers = @ \cup {Hex(e.from)}]
  IN  /\ ops < MaxOps /\ ops' = ops + 1
      /\ channel' = [channel EXCEPT ![n] = c]
      /\ wire' = (wire \ {e}) \cup {Envelope(n, e.from, 1, ChannelUpsert(c))}
      /\ UNCHANGED <<group, log>>

Reads(c, id) == c # NoCopy /\ (id \in c.subscribers \/ id = Hex(Owner))

\* A copy takes messages from its owner and its subscribers, without looking
\* for one it has.
OnChannelMessage(n, e, id) ==
  /\ channel' = IF Reads(channel[n], id)
                THEN [channel EXCEPT ![n].messages = Append(@, e.body.message)]
                ELSE channel
  /\ wire' = wire \ {e}
  /\ UNCHANGED <<group, log, ops>>

\* Fault: the fallback names its sender the way the lists do.
FallbackSenderHex(n) == Hex(n)

FallbackSender(n) == Uid(n)

\* Fault: the log is not searched for the id.
OnDirectAgain(n, e) ==
  /\ log' = [log EXCEPT ![n] = Append(@, [id |-> e.body.id, state |-> "delivered"])]
  /\ wire' = wire \ {e}
  /\ UNCHANGED <<group, channel, ops>>

OnDirect(n, e) ==
  /\ log' = IF \E i \in 1..Len(log[n]) : log[n][i].id = e.body.id THEN log
            ELSE [log EXCEPT ![n] = Append(@, [id |-> e.body.id, state |-> "delivered"])]
  /\ wire' = wire \ {e}
  /\ UNCHANGED <<group, channel, ops>>

\* A signal is logged like a direct message, under its own id.
OnSignal(n, e) == OnDirect(n, e)

OnChannel(n, e) ==
  CASE e.body.event = "upsert" -> OnChannelUpsert(n, e)
    [] e.body.event = "message" -> OnChannelMessage(n, e, Hex(e.from))
    [] e.body.event = "subscribe" ->
         IF n = Owner /\ channel[n] # NoCopy THEN OnSubscribe(n, e)
         ELSE wire' = wire \ {e} /\ UNCHANGED <<group, channel, log, ops>>

Dispatch(e) ==
  /\ CASE e.body.kind = "group" -> OnGroup(e.to, e)
       [] e.body.kind = "channel" -> OnChannel(e.to, e)
       [] e.body.kind = "call" -> OnSignal(e.to, e)
       [] e.body.event = "fallback" -> OnChannelMessage(e.to, e, FallbackSender(e.from))
       [] OTHER -> OnDirect(e.to, e)
  /\ UNCHANGED <<saved, made, restarts>>

-----------------------------------------------------------------------------
(* The file and restarts *)

Save(n) ==
  /\ saved' = [saved EXCEPT ![n] = [group |-> group[n], channel |-> channel[n]]]
  /\ UNCHANGED <<group, channel, log, wire, made, ops, restarts>>

\* A file that a crash left half written does not parse: the node starts with
\* nothing.
Restart(n, torn) ==
  /\ restarts < MaxRestarts
  /\ restarts' = restarts + 1
  /\ group' = [group EXCEPT ![n] = IF torn THEN NoCopy ELSE saved[n].group]
  /\ channel' = [channel EXCEPT ![n] = IF torn THEN NoCopy ELSE saved[n].channel]
  /\ log' = [log EXCEPT ![n] = <<>>]
  /\ UNCHANGED <<saved, wire, made, ops>>

Next ==
  \/ \E members \in SUBSET Others(Owner) : CreateGroup(members)
  \/ CreateChannel
  \/ Publish
  \/ \E n \in Nodes :
       \/ SendGroup(n) \/ Subscribe(n) \/ Save(n)
       \/ \E to \in Others(n), text \in Texts, at \in Seconds, result \in {"sent", "failed"} :
            SendDirect(n, to, text, at, result)
       \/ \E to \in Others(n), type \in SignalTypes, at \in Seconds : SendSignal(n, to, type, at)
       \/ \E torn \in BOOLEAN : Restart(n, torn)
  \/ \E e \in wire : Dispatch(e)

Spec == Init /\ [][Next]_vars
-----------------------------------------------------------------------------
Times(x, messages) == Cardinality({i \in 1..Len(messages) : messages[i] = x})

\* Repeated delivery is bounded although nothing looks for repetitions: a group
\* message comes by its two attempts, a channel message by its event and inside
\* one snapshot, and no copy shows either more than twice.
AtMostTwice ==
  \A n \in Nodes, x \in 0..MaxOps :
    /\ group[n] # NoCopy => Times(x, group[n].messages) <= 2
    /\ channel[n] # NoCopy => Times(x, channel[n].messages) <= 2

\* Only members ever hold a copy of the group, and every copy lists the same
\* members.
GroupPrivate ==
  \A n, p \in {k \in Nodes : group[k] # NoCopy} :
    Hex(n) \in group[n].members /\ group[n].members = group[p].members

\* A direct message that came twice under one id, because the same text was sent
\* twice within a second, is shown once.  So is a call signal, though its id leaves
\* out the data: of two candidates sent within a second the second is dropped.
ReceivedOnce ==
  \A n \in Nodes : \A i, j \in 1..Len(log[n]) :
    (i # j /\ log[n][i].state = "delivered") => log[n][i].id # log[n][j].id

Subscribed(n) == channel[n] # NoCopy /\ Hex(n) \in channel[n].subscribers

\* A subscription sticks: no late upsert or snapshot of the owner, not even one
\* made after the owner lost the subscription in a restart, takes a node out of
\* the subscribers of its own copy.
SubscriptionSticks ==
  [][restarts' = restarts => \A n \in Nodes : Subscribed(n) => Subscribed(n)']_vars
=============================================================================
