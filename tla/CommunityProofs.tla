-------------------------- MODULE CommunityProofs --------------------------
(***************************************************************************)
(* Invariants of groups, channels and the messenger, for every number of   *)
(* nodes, messages and restarts.                                           *)
(***************************************************************************)
EXTENDS Community, FiniteSetTheorems, SequenceTheorems, TLAPS

-----------------------------------------------------------------------------
(* What the variables and the envelopes hold *)

Ids ==
  [from : Nodes, to : Nodes, text : Texts, at : Seconds]
  \union [from : Nodes, type : SignalTypes, at : Seconds]

Entries == [id : Ids, state : {"sent", "failed", "delivered"}]

GroupBodies == {GroupUpsert(g) : g \in Groups} \union {GroupMessage(x) : x \in Nat}
ChannelBodies == {ChannelUpsert(c) : c \in Channels} \union {ChannelMessage(x) : x \in Nat} \union {ChannelSubscribe}
LogBodies == {Direct(id) : id \in Ids} \union {Signal(id) : id \in Ids}
Bodies == GroupBodies \union ChannelBodies \union LogBodies \union {Fallback(x) : x \in Nat}

Letters == [op : Nat, copy : 1..2, from : Nodes, to : Nodes, body : Bodies]

CommunityTypes ==
  /\ group \in [Nodes -> Groups \union {NoCopy}]
  /\ channel \in [Nodes -> Channels \union {NoCopy}]
  /\ log \in [Nodes -> Seq(Entries)]
  /\ saved \in [Nodes -> [group : Groups \union {NoCopy}, channel : Channels \union {NoCopy}]]
  /\ wire \in SUBSET Letters
  /\ ops \in Nat /\ restarts \in Nat

\* The kind and the event tell the bodies apart.
LEMMA BodyKinds ==
  /\ \A b \in GroupBodies : b.kind = "group" /\ b.event # "fallback"
  /\ \A b \in ChannelBodies : b.kind = "channel" /\ b.event # "fallback"
  /\ \A b \in LogBodies : b.kind \in {"messenger", "call"} /\ b.event # "fallback"
  /\ \A x \in Nat : Fallback(x).kind = "messenger" /\ Fallback(x).event = "fallback"
BY DEF GroupBodies, ChannelBodies, LogBodies, GroupUpsert, GroupMessage, ChannelUpsert, ChannelMessage,
   ChannelSubscribe, Direct, Signal, Fallback

\* What the dispatcher does with each body.
LEMMA DispatchGroup ==
  ASSUME CommunityTypes, NEW e \in wire, Dispatch(e), e.body \in GroupBodies
  PROVE  /\ wire' = wire \ {e} /\ UNCHANGED <<channel, log, ops, saved, made, restarts>>
         /\ \/ \E g \in Groups :
                 /\ e.body = GroupUpsert(g)
                 /\ group' = [group EXCEPT ![e.to] = g] \/ group' = group
            \/ \E x \in Nat :
                 /\ e.body = GroupMessage(x)
                 /\ \/ group' = group
                    \/ group[e.to] # NoCopy /\ group' = [group EXCEPT ![e.to].messages = Append(@, x)]
<1>1. e.body.kind = "group" /\ e.body.event # "fallback"
  BY BodyKinds
<1>2. OnGroup(e.to, e) /\ UNCHANGED <<saved, made, restarts>>
  BY <1>1 DEF Dispatch
<1>3. wire' = wire \ {e} /\ UNCHANGED <<channel, log, ops, saved, made, restarts>>
  BY <1>2 DEF OnGroup
<1>4. ASSUME NEW g \in Groups, e.body = GroupUpsert(g)
      PROVE  group' = [group EXCEPT ![e.to] = g] \/ group' = group
  <2>1. e.body.event = "upsert" /\ e.body.group = g
    BY <1>4 DEF GroupUpsert
  <2> QED
    BY <1>2, <2>1 DEF OnGroup
<1>5. ASSUME NEW x \in Nat, e.body = GroupMessage(x)
      PROVE  \/ group' = group
             \/ group[e.to] # NoCopy /\ group' = [group EXCEPT ![e.to].messages = Append(@, x)]
  <2>1. e.body.event = "message" /\ e.body.message = x
    BY <1>5 DEF GroupMessage
  <2> QED
    BY <1>2, <2>1 DEF OnGroup
<1> QED
  BY <1>3, <1>4, <1>5 DEF GroupBodies

LEMMA DispatchChannel ==
  ASSUME CommunityTypes, NEW e \in wire, Dispatch(e), e.body \in ChannelBodies
  PROVE  /\ UNCHANGED <<group, log, saved, made, restarts>>
         /\ \/ \E c \in Channels :
                 /\ e.body = ChannelUpsert(c) /\ wire' = wire \ {e} /\ UNCHANGED ops
                 /\ channel' = [channel EXCEPT ![e.to] = c] \/ channel' = channel
            \/ \E x \in Nat :
                 /\ e.body = ChannelMessage(x) /\ wire' = wire \ {e} /\ UNCHANGED ops
                 /\ \/ channel' = channel
                    \/ channel[e.to] # NoCopy /\ channel' = [channel EXCEPT ![e.to].messages = Append(@, x)]
            \/ e.body = ChannelSubscribe /\ wire' = wire \ {e} /\ UNCHANGED <<channel, ops>>
            \/ /\ e.body = ChannelSubscribe /\ e.to = Owner /\ channel[Owner] # NoCopy
               /\ OnSubscribe(Owner, e)
<1>1. e.body.kind = "channel" /\ e.body.event # "fallback"
  BY BodyKinds
<1>2. OnChannel(e.to, e) /\ UNCHANGED <<saved, made, restarts>>
  BY <1>1 DEF Dispatch
<1>3. ASSUME NEW c \in Channels, e.body = ChannelUpsert(c)
      PROVE  /\ wire' = wire \ {e} /\ UNCHANGED <<group, log, ops>>
             /\ channel' = [channel EXCEPT ![e.to] = c] \/ channel' = channel
  <2>1. e.body.event = "upsert" /\ e.body.channel = c
    BY <1>3 DEF ChannelUpsert
  <2>2. OnChannelUpsert(e.to, e)
    BY <1>2, <2>1 DEF OnChannel
  <2> QED
    BY <2>1, <2>2 DEF OnChannelUpsert
<1>4. ASSUME NEW x \in Nat, e.body = ChannelMessage(x)
      PROVE  /\ wire' = wire \ {e} /\ UNCHANGED <<group, log, ops>>
             /\ \/ channel' = channel
                \/ channel[e.to] # NoCopy /\ channel' = [channel EXCEPT ![e.to].messages = Append(@, x)]
  <2>1. e.body.event = "message" /\ e.body.message = x
    BY <1>4 DEF ChannelMessage
  <2>2. OnChannelMessage(e.to, e, Hex(e.from))
    BY <1>2, <2>1 DEF OnChannel
  <2> QED
    BY <2>1, <2>2 DEF OnChannelMessage, Reads
<1>5. ASSUME e.body = ChannelSubscribe
      PROVE  /\ UNCHANGED <<group, log>>
             /\ \/ wire' = wire \ {e} /\ UNCHANGED <<channel, ops>>
                \/ e.to = Owner /\ channel[Owner] # NoCopy /\ OnSubscribe(Owner, e)
  <2>1. e.body.event = "subscribe"
    BY <1>5 DEF ChannelSubscribe
  <2> QED
    BY <1>2, <2>1 DEF OnChannel, OnSubscribe
<1> QED
  BY <1>2, <1>3, <1>4, <1>5 DEF ChannelBodies

\* A fallback names its sender by a form that no list holds.
LEMMA DispatchFallback ==
  ASSUME CommunityTypes, NEW e \in wire, Dispatch(e), NEW x \in Nat, e.body = Fallback(x)
  PROVE  wire' = wire \ {e} /\ UNCHANGED <<group, channel, log, ops, saved, made, restarts>>
<1>1. e.body.kind = "messenger" /\ e.body.event = "fallback"
  BY BodyKinds
<1>2. OnChannelMessage(e.to, e, Uid(e.from)) /\ UNCHANGED <<saved, made, restarts>>
  BY <1>1 DEF Dispatch, FallbackSender
<1>3. e.to \in Nodes /\ channel[e.to] \in Channels \union {NoCopy}
  BY DEF CommunityTypes, Letters
<1>4. \A n \in Nodes : Uid(e.from) # Hex(n)
  BY DEF Uid, Hex
<1>5. ~Reads(channel[e.to], Uid(e.from))
  BY <1>3, <1>4, CommunityAssumption DEF Reads, Channels
<1> QED
  BY <1>2, <1>5 DEF OnChannelMessage

LEMMA DispatchLog ==
  ASSUME CommunityTypes, NEW e \in wire, Dispatch(e), e.body \in LogBodies
  PROVE  /\ wire' = wire \ {e} /\ UNCHANGED <<group, channel, ops, saved, made, restarts>>
         /\ e.body.id \in Ids
         /\ \/ log' = log
            \/ /\ \A i \in 1..Len(log[e.to]) : log[e.to][i].id # e.body.id
               /\ log' = [log EXCEPT ![e.to] = Append(@, [id |-> e.body.id, state |-> "delivered"])]
<1>1. e.body.kind \in {"messenger", "call"} /\ e.body.event # "fallback"
  BY BodyKinds
<1>2. OnDirect(e.to, e) /\ UNCHANGED <<saved, made, restarts>>
  BY <1>1 DEF Dispatch, OnSignal
<1>3. e.body.id \in Ids
  BY DEF LogBodies, Direct, Signal
<1> QED
  BY <1>2, <1>3 DEF OnDirect

\* Envelopes are letters.
LEMMA EnvelopeType ==
  ASSUME ops \in Nat, NEW from \in Nodes, NEW to \in Nodes, NEW copy \in 1..2, NEW body \in Bodies
  PROVE  /\ Envelope(from, to, copy, body) \in Letters
         /\ Envelope(from, to, copy, body).to = to
         /\ Envelope(from, to, copy, body).from = from
         /\ Envelope(from, to, copy, body).copy = copy
         /\ Envelope(from, to, copy, body).body = body
BY DEF Envelope, Letters

LEMMA MessageBodies ==
  ASSUME NEW x \in Nat
  PROVE  GroupMessage(x) \in Bodies /\ ChannelMessage(x) \in Bodies /\ Fallback(x) \in Bodies
BY DEF Bodies, GroupBodies, ChannelBodies

\* The messages of a copy are the only field that a message changes.
LEMMA GroupAppend ==
  ASSUME NEW g \in Groups, NEW x \in Nat
  PROVE  /\ [g EXCEPT !.messages = Append(@, x)] \in Groups
         /\ [g EXCEPT !.messages = Append(@, x)].messages = Append(g.messages, x)
         /\ [g EXCEPT !.messages = Append(@, x)].members = g.members
<1> DEFINE m == Append(g.messages, x)
<1>1. g.messages \in Seq(Nat) /\ m \in Seq(Nat)
  BY DEF Groups
<1> HIDE DEF m
<1>2. /\ [g EXCEPT !.messages = m] \in Groups /\ [g EXCEPT !.messages = m].messages = m
      /\ [g EXCEPT !.messages = m].members = g.members
  BY <1>1 DEF Groups
<1> QED
  BY <1>2 DEF m

LEMMA ChannelAppend ==
  ASSUME NEW c \in Channels, NEW x \in Nat
  PROVE  /\ [c EXCEPT !.messages = Append(@, x)] \in Channels
         /\ [c EXCEPT !.messages = Append(@, x)].messages = Append(c.messages, x)
         /\ [c EXCEPT !.messages = Append(@, x)].subscribers = c.subscribers
<1> DEFINE m == Append(c.messages, x)
<1>1. c.messages \in Seq(Nat) /\ m \in Seq(Nat)
  BY DEF Channels
<1> HIDE DEF m
<1>2. /\ [c EXCEPT !.messages = m] \in Channels /\ [c EXCEPT !.messages = m].messages = m
      /\ [c EXCEPT !.messages = m].subscribers = c.subscribers
  BY <1>1 DEF Channels
<1> QED
  BY <1>2 DEF m

LEMMA ChannelSubscriber ==
  ASSUME NEW c \in Channels, NEW n \in Nodes
  PROVE  /\ [c EXCEPT !.subscribers = @ \cup {Hex(n)}] \in Channels
         /\ [c EXCEPT !.subscribers = @ \cup {Hex(n)}].messages = c.messages
         /\ [c EXCEPT !.subscribers = @ \cup {Hex(n)}].subscribers = c.subscribers \union {Hex(n)}
BY DEF Channels

\* What the operations of the interface and the file do, with types.
LEMMA CreateGroupStep ==
  ASSUME CommunityTypes, NEW members \in SUBSET Others(Owner), CreateGroup(members)
  PROVE  \E g \in Groups :
           /\ g.messages = <<>> /\ Hex(Owner) \in g.members
           /\ "group" \notin made /\ made' = made \union {"group"}
           /\ group' = [group EXCEPT ![Owner] = g]
           /\ wire' \subseteq Letters /\ wire \subseteq wire'
           /\ \A e \in wire' \ wire : e.body = GroupUpsert(g) /\ e.to \in Nodes /\ Hex(e.to) \in g.members
           /\ ops' = ops + 1 /\ UNCHANGED <<channel, log, saved, restarts>>
<1> DEFINE g == [members |-> {Hex(n) : n \in members \cup {Owner}}, messages |-> <<>>]
<1>1. members \cup {Owner} \subseteq Nodes
  BY CommunityAssumption DEF Others
<1>2. g \in Groups /\ g.messages = <<>> /\ Hex(Owner) \in g.members
  <2>1. g.members \in SUBSET {Hex(n) : n \in Nodes} /\ Hex(Owner) \in g.members
    BY <1>1
  <2> QED
    BY <2>1 DEF Groups
<1>3. /\ "group" \notin made /\ made' = made \union {"group"}
      /\ group' = [group EXCEPT ![Owner] = g]
      /\ wire' = wire \cup {Envelope(Owner, n, 1, GroupUpsert(g)) : n \in Invited(g)}
      /\ ops' = ops + 1 /\ UNCHANGED <<channel, log, saved, restarts>>
  BY Zenon DEF CreateGroup, Operation
<1> HIDE DEF g
<1>4. GroupUpsert(g) \in Bodies
  BY <1>2 DEF Bodies, GroupBodies
<1>5. ASSUME NEW n \in Invited(g)
      PROVE  /\ Envelope(Owner, n, 1, GroupUpsert(g)) \in Letters
             /\ Envelope(Owner, n, 1, GroupUpsert(g)).body = GroupUpsert(g)
             /\ Envelope(Owner, n, 1, GroupUpsert(g)).to = n
             /\ n \in Nodes /\ Hex(n) \in g.members
  <2>1. n \in Nodes /\ Hex(n) \in g.members
    BY DEF Invited, Others
  <2> QED
    BY <1>4, <2>1, CommunityAssumption, EnvelopeType DEF CommunityTypes
<1>6. wire' \subseteq Letters
  BY <1>3, <1>5 DEF CommunityTypes
<1>7. \A e \in wire' \ wire : e.body = GroupUpsert(g) /\ e.to \in Nodes /\ Hex(e.to) \in g.members
  BY <1>3, <1>5
<1> QED
  BY <1>2, <1>3, <1>6, <1>7

LEMMA SendGroupStep ==
  ASSUME CommunityTypes, NEW n \in Nodes, SendGroup(n)
  PROVE  /\ group[n] \in Groups
         /\ group' = [group EXCEPT ![n] = [group[n] EXCEPT !.messages = Append(@, ops)]]
         /\ wire' \subseteq Letters /\ wire \subseteq wire'
         /\ \A e \in wire' \ wire : e.body = GroupMessage(ops) /\ e.to # n
         /\ \A e, f \in wire' \ wire : e.to = f.to /\ e.copy = f.copy => e = f
         /\ ops' = ops + 1 /\ UNCHANGED <<channel, log, saved, made, restarts>>
<1> DEFINE to == {q \in Others(n) : Hex(q) \in group[n].members}
<1>1. /\ group[n] # NoCopy
      /\ group' = [group EXCEPT ![n].messages = Append(@, ops)]
      /\ wire' = wire \cup {Envelope(n, p, k, GroupMessage(ops)) : p \in to, k \in 1..2}
      /\ ops' = ops + 1 /\ UNCHANGED <<channel, log, saved, made, restarts>>
  <2>1. /\ group[n] # NoCopy
        /\ group' = [group EXCEPT ![n].messages = Append(@, ops)]
        /\ ops' = ops + 1 /\ UNCHANGED <<channel, log, saved, made, restarts>>
    BY Zenon DEF SendGroup, Operation
  <2>2. wire' = wire \cup {Envelope(n, p, k, GroupMessage(ops)) : p \in to, k \in 1..2}
    BY SMT DEF SendGroup
  <2> QED
    BY <2>1, <2>2
<1>2. group[n] \in Groups
  BY <1>1 DEF CommunityTypes
<1>3. group' = [group EXCEPT ![n] = [group[n] EXCEPT !.messages = Append(@, ops)]]
  BY <1>1
<1>4. \A p \in to : p \in Nodes /\ p # n
  BY DEF Others
<1> HIDE DEF to
<1>5. ASSUME NEW p \in to, NEW k \in 1..2
      PROVE  /\ Envelope(n, p, k, GroupMessage(ops)) \in Letters
             /\ Envelope(n, p, k, GroupMessage(ops)).body = GroupMessage(ops)
             /\ Envelope(n, p, k, GroupMessage(ops)).to = p
             /\ Envelope(n, p, k, GroupMessage(ops)).copy = k
  BY <1>4, EnvelopeType, MessageBodies DEF CommunityTypes
<1>6. wire' \subseteq Letters /\ wire \subseteq wire'
  BY <1>1, <1>5 DEF CommunityTypes
<1>7. \A e \in wire' \ wire : \E p \in to, k \in 1..2 : e = Envelope(n, p, k, GroupMessage(ops))
  BY <1>1
<1>8. \A e \in wire' \ wire : e.body = GroupMessage(ops) /\ e.to # n
  BY <1>4, <1>5, <1>7
<1>9. \A e, f \in wire' \ wire : e.to = f.to /\ e.copy = f.copy => e = f
  BY <1>5, <1>7
<1> QED
  BY <1>1, <1>2, <1>3, <1>6, <1>8, <1>9

LEMMA CreateChannelStep ==
  ASSUME CommunityTypes, CreateChannel
  PROVE  \E c \in Channels :
           /\ c.messages = <<>> /\ Hex(Owner) \in c.subscribers
           /\ "channel" \notin made /\ made' = made \union {"channel"}
           /\ channel' = [channel EXCEPT ![Owner] = c]
           /\ wire' \subseteq Letters /\ wire \subseteq wire'
           /\ \A e \in wire' \ wire : e.body = ChannelUpsert(c) /\ e.to \in Others(Owner)
           /\ \A e, f \in wire' \ wire : e.to = f.to => e = f
           /\ ops' = ops + 1 /\ UNCHANGED <<group, log, saved, restarts>>
<1> DEFINE c == [subscribers |-> {Hex(Owner)}, messages |-> <<>>]
<1>1. c \in Channels /\ c.messages = <<>> /\ Hex(Owner) \in c.subscribers
  BY CommunityAssumption DEF Channels
<1>2. /\ "channel" \notin made /\ made' = made \union {"channel"}
      /\ channel' = [channel EXCEPT ![Owner] = c]
      /\ wire' = wire \cup {Envelope(Owner, n, 1, ChannelUpsert(c)) : n \in Others(Owner)}
      /\ ops' = ops + 1 /\ UNCHANGED <<group, log, saved, restarts>>
  BY Zenon DEF CreateChannel, Operation
<1> HIDE DEF c
<1>3. ChannelUpsert(c) \in Bodies
  BY <1>1 DEF Bodies, ChannelBodies
<1>4. ASSUME NEW n \in Others(Owner)
      PROVE  /\ Envelope(Owner, n, 1, ChannelUpsert(c)) \in Letters
             /\ Envelope(Owner, n, 1, ChannelUpsert(c)).body = ChannelUpsert(c)
             /\ Envelope(Owner, n, 1, ChannelUpsert(c)).to = n
  <2>1. n \in Nodes
    BY DEF Others
  <2> QED
    BY <1>3, <2>1, CommunityAssumption, EnvelopeType DEF CommunityTypes
<1>5. wire' \subseteq Letters /\ wire \subseteq wire'
  BY <1>2, <1>4 DEF CommunityTypes
<1>6. \A e \in wire' \ wire : \E n \in Others(Owner) : e = Envelope(Owner, n, 1, ChannelUpsert(c))
  BY <1>2
<1>7. \A e \in wire' \ wire : e.body = ChannelUpsert(c) /\ e.to \in Others(Owner)
  BY <1>4, <1>6
<1>8. \A e, f \in wire' \ wire : e.to = f.to => e = f
  BY <1>4, <1>6
<1> QED
  BY <1>1, <1>2, <1>5, <1>7, <1>8

LEMMA SubscribeStep ==
  ASSUME CommunityTypes, NEW n \in Nodes, Subscribe(n)
  PROVE  /\ channel[n] \in Channels
         /\ channel' = [channel EXCEPT ![n] = [channel[n] EXCEPT !.subscribers = @ \cup {Hex(n)}]]
         /\ wire' \subseteq Letters /\ wire \subseteq wire'
         /\ \A e \in wire' \ wire : e.body = ChannelSubscribe /\ e.from = n /\ n # Owner
         /\ ops' = ops + 1 /\ UNCHANGED <<group, log, saved, made, restarts>>
<1>1. /\ channel[n] # NoCopy
      /\ channel' = [channel EXCEPT ![n].subscribers = @ \cup {Hex(n)}]
      /\ \/ wire' = wire
         \/ n # Owner /\ wire' = wire \cup {Envelope(n, Owner, k, ChannelSubscribe) : k \in 1..2}
      /\ ops' = ops + 1 /\ UNCHANGED <<group, log, saved, made, restarts>>
  BY Zenon DEF Subscribe, Operation
<1>2. channel[n] \in Channels
  BY <1>1 DEF CommunityTypes
<1>3. channel' = [channel EXCEPT ![n] = [channel[n] EXCEPT !.subscribers = @ \cup {Hex(n)}]]
  BY <1>1
<1>4. ASSUME NEW k \in 1..2
      PROVE  /\ Envelope(n, Owner, k, ChannelSubscribe) \in Letters
             /\ Envelope(n, Owner, k, ChannelSubscribe).body = ChannelSubscribe
             /\ Envelope(n, Owner, k, ChannelSubscribe).from = n
  <2>1. ChannelSubscribe \in Bodies
    BY DEF Bodies, ChannelBodies
  <2> QED
    BY <2>1, EnvelopeType, CommunityAssumption DEF CommunityTypes
<1>5. /\ wire' \subseteq Letters /\ wire \subseteq wire'
      /\ \A e \in wire' \ wire : e.body = ChannelSubscribe /\ e.from = n /\ n # Owner
  BY <1>1, <1>4 DEF CommunityTypes
<1> QED
  BY <1>1, <1>2, <1>3, <1>5

LEMMA PublishStep ==
  ASSUME CommunityTypes, Publish
  PROVE  /\ channel[Owner] \in Channels
         /\ channel' = [channel EXCEPT ![Owner] = [channel[Owner] EXCEPT !.messages = Append(@, ops)]]
         /\ wire' \subseteq Letters /\ wire \subseteq wire'
         /\ \A e \in wire' \ wire :
              /\ e.to # Owner /\ e.copy = 1
              /\ e.body = ChannelMessage(ops) \/ e.body = Fallback(ops)
         /\ \A e, f \in wire' \ wire : e.to = f.to /\ e.body = f.body => e = f
         /\ ops' = ops + 1 /\ UNCHANGED <<group, log, saved, made, restarts>>
<1> DEFINE bodies == {ChannelMessage(ops), Fallback(ops)}
<1>1. /\ channel[Owner] # NoCopy
      /\ channel' = [channel EXCEPT ![Owner].messages = Append(@, ops)]
      /\ wire' = wire \cup {Envelope(Owner, n, 1, b) : n \in Others(Owner), b \in bodies}
      /\ ops' = ops + 1 /\ UNCHANGED <<group, log, saved, made, restarts>>
  <2>1. /\ channel[Owner] # NoCopy
        /\ channel' = [channel EXCEPT ![Owner].messages = Append(@, ops)]
        /\ ops' = ops + 1 /\ UNCHANGED <<group, log, saved, made, restarts>>
    BY Zenon DEF Publish, Operation
  <2>2. wire' = wire \cup {Envelope(Owner, n, 1, b) : n \in Others(Owner), b \in bodies}
    BY SMT DEF Publish
  <2> QED
    BY <2>1, <2>2
<1>2. channel[Owner] \in Channels
  BY <1>1, CommunityAssumption DEF CommunityTypes
<1>3. channel' = [channel EXCEPT ![Owner] = [channel[Owner] EXCEPT !.messages = Append(@, ops)]]
  BY <1>1
<1>4. \A b \in bodies : b \in Bodies /\ (b = ChannelMessage(ops) \/ b = Fallback(ops))
  BY MessageBodies DEF CommunityTypes
<1> HIDE DEF bodies
<1>5. ASSUME NEW n \in Others(Owner), NEW b \in bodies
      PROVE  /\ Envelope(Owner, n, 1, b) \in Letters
             /\ Envelope(Owner, n, 1, b).body = b
             /\ Envelope(Owner, n, 1, b).to = n /\ n # Owner
             /\ Envelope(Owner, n, 1, b).copy = 1
  <2>1. n \in Nodes /\ n # Owner /\ b \in Bodies
    BY <1>4 DEF Others
  <2> QED
    BY <2>1, CommunityAssumption, EnvelopeType DEF CommunityTypes
<1>6. wire' \subseteq Letters /\ wire \subseteq wire'
  BY <1>1, <1>5 DEF CommunityTypes
<1>7. \A e \in wire' \ wire : \E n \in Others(Owner), b \in bodies : e = Envelope(Owner, n, 1, b)
  BY <1>1
<1>8. \A e \in wire' \ wire :
        /\ e.to # Owner /\ e.copy = 1
        /\ e.body = ChannelMessage(ops) \/ e.body = Fallback(ops)
  BY <1>4, <1>5, <1>7
<1>9. \A e, f \in wire' \ wire : e.to = f.to /\ e.body = f.body => e = f
  BY <1>5, <1>7
<1> QED
  BY <1>1, <1>2, <1>3, <1>6, <1>8, <1>9

\* A message or a signal that n sends is logged as its own.
LEMMA SendLogStep ==
  ASSUME CommunityTypes, NEW n \in Nodes, NEW to \in Others(n),
         \/ \E text \in Texts, at \in Seconds, result \in {"sent", "failed"} : SendDirect(n, to, text, at, result)
         \/ \E type \in SignalTypes, at \in Seconds : SendSignal(n, to, type, at)
  PROVE  \E id \in Ids, state \in {"sent", "failed"} :
           /\ id.from = n
           /\ log' = [log EXCEPT ![n] = Append(@, [id |-> id, state |-> state])]
           /\ wire' \subseteq Letters /\ wire \subseteq wire'
           /\ \A e \in wire' \ wire : e.body \in LogBodies /\ e.body.id = id /\ e.to # n
           /\ ops' = ops + 1 /\ UNCHANGED <<group, channel, saved, made, restarts>>
<1>1. to \in Nodes /\ to # n
  BY DEF Others
<1>2. ASSUME NEW b \in LogBodies
      PROVE  /\ Envelope(n, to, 1, b) \in Letters
             /\ Envelope(n, to, 1, b).body = b /\ Envelope(n, to, 1, b).to = to
  <2>1. b \in Bodies
    BY DEF Bodies
  <2> QED
    BY <1>1, <2>1, EnvelopeType DEF CommunityTypes
<1>3. ASSUME NEW text \in Texts, NEW at \in Seconds, NEW result \in {"sent", "failed"},
             SendDirect(n, to, text, at, result)
      PROVE  \E id \in Ids, state \in {"sent", "failed"} :
               /\ id.from = n
               /\ log' = [log EXCEPT ![n] = Append(@, [id |-> id, state |-> state])]
               /\ wire' \subseteq Letters /\ wire \subseteq wire'
               /\ \A e \in wire' \ wire : e.body \in LogBodies /\ e.body.id = id /\ e.to # n
               /\ ops' = ops + 1 /\ UNCHANGED <<group, channel, saved, made, restarts>>
  <2> DEFINE id == MessageId(n, to, text, at)
  <2>1. /\ log' = [log EXCEPT ![n] = Append(@, [id |-> id, state |-> result])]
        /\ wire' = wire \/ wire' = wire \cup {Envelope(n, to, 1, Direct(id))}
        /\ ops' = ops + 1 /\ UNCHANGED <<group, channel, saved, made, restarts>>
    BY <1>3, Zenon DEF SendDirect, Operation
  <2>2. id \in Ids /\ id.from = n
    BY <1>1 DEF Ids, MessageId
  <2> HIDE DEF id
  <2>3. Direct(id) \in LogBodies /\ Direct(id).id = id
    BY <2>2 DEF LogBodies, Direct
  <2>4. /\ wire' \subseteq Letters /\ wire \subseteq wire'
        /\ \A e \in wire' \ wire : e.body \in LogBodies /\ e.body.id = id /\ e.to # n
    BY <1>1, <1>2, <2>1, <2>3 DEF CommunityTypes
  <2> QED
    BY <2>1, <2>2, <2>4
<1>4. ASSUME NEW type \in SignalTypes, NEW at \in Seconds, SendSignal(n, to, type, at)
      PROVE  \E id \in Ids, state \in {"sent", "failed"} :
               /\ id.from = n
               /\ log' = [log EXCEPT ![n] = Append(@, [id |-> id, state |-> state])]
               /\ wire' \subseteq Letters /\ wire \subseteq wire'
               /\ \A e \in wire' \ wire : e.body \in LogBodies /\ e.body.id = id /\ e.to # n
               /\ ops' = ops + 1 /\ UNCHANGED <<group, channel, saved, made, restarts>>
  <2> DEFINE id == SignalId(n, type, at)
  <2>1. /\ log' = [log EXCEPT ![n] = Append(@, [id |-> id, state |-> "sent"])]
        /\ wire' = wire \cup {Envelope(n, to, 1, Signal(id))}
        /\ ops' = ops + 1 /\ UNCHANGED <<group, channel, saved, made, restarts>>
    BY <1>4, Zenon DEF SendSignal, Operation
  <2>2. id \in Ids /\ id.from = n
    BY DEF Ids, SignalId
  <2> HIDE DEF id
  <2>3. Signal(id) \in LogBodies /\ Signal(id).id = id
    BY <2>2 DEF LogBodies, Signal
  <2>4. /\ wire' \subseteq Letters /\ wire \subseteq wire'
        /\ \A e \in wire' \ wire : e.body \in LogBodies /\ e.body.id = id /\ e.to # n
    BY <1>1, <1>2, <2>1, <2>3 DEF CommunityTypes
  <2> QED
    BY <2>1, <2>2, <2>4
<1> QED
  BY <1>3, <1>4

\* The owner takes a subscriber and sends it a snapshot that has it.
LEMMA OnSubscribeStep ==
  ASSUME CommunityTypes, NEW e \in wire, OnSubscribe(Owner, e), channel[Owner] # NoCopy
  PROVE  \E c \in Channels :
           /\ channel[Owner] \in Channels
           /\ c.messages = channel[Owner].messages
           /\ c.subscribers = channel[Owner].subscribers \union {Hex(e.from)}
           /\ channel' = [channel EXCEPT ![Owner] = c]
           /\ wire' = (wire \ {e}) \union {Envelope(Owner, e.from, 1, ChannelUpsert(c))}
           /\ Envelope(Owner, e.from, 1, ChannelUpsert(c)) \in Letters
           /\ Envelope(Owner, e.from, 1, ChannelUpsert(c)).body = ChannelUpsert(c)
           /\ Envelope(Owner, e.from, 1, ChannelUpsert(c)).to = e.from
           /\ ops' = ops + 1
<1> DEFINE c == [channel[Owner] EXCEPT !.subscribers = @ \cup {Hex(e.from)}]
<1>1. /\ channel' = [channel EXCEPT ![Owner] = c]
      /\ wire' = (wire \ {e}) \union {Envelope(Owner, e.from, 1, ChannelUpsert(c))}
      /\ ops' = ops + 1
  BY Zenon DEF OnSubscribe
<1>2. channel[Owner] \in Channels /\ e.from \in Nodes
  BY CommunityAssumption DEF CommunityTypes, Letters
<1>3. /\ c \in Channels /\ c.messages = channel[Owner].messages
      /\ c.subscribers = channel[Owner].subscribers \union {Hex(e.from)}
  BY <1>2, ChannelSubscriber
<1> HIDE DEF c
<1>4. ChannelUpsert(c) \in Bodies
  BY <1>3 DEF Bodies, ChannelBodies
<1>5. /\ Envelope(Owner, e.from, 1, ChannelUpsert(c)) \in Letters
      /\ Envelope(Owner, e.from, 1, ChannelUpsert(c)).body = ChannelUpsert(c)
      /\ Envelope(Owner, e.from, 1, ChannelUpsert(c)).to = e.from
  BY <1>2, <1>4, EnvelopeType, CommunityAssumption DEF CommunityTypes
<1> QED
  BY <1>1, <1>2, <1>3, <1>5

SendsLog(n, to) ==
  \/ \E text \in Texts, at \in Seconds, result \in {"sent", "failed"} : SendDirect(n, to, text, at, result)
  \/ \E type \in SignalTypes, at \in Seconds : SendSignal(n, to, type, at)

LEMMA SaveStep ==
  ASSUME CommunityTypes, NEW n \in Nodes, Save(n)
  PROVE  /\ saved' = [saved EXCEPT ![n] = [group |-> group[n], channel |-> channel[n]]]
         /\ saved'[n].group = group[n] /\ saved'[n].channel = channel[n]
         /\ \A m \in Nodes : m # n => saved'[m] = saved[m]
         /\ UNCHANGED <<group, channel, log, wire, made, ops, restarts>>
BY DEF Save, CommunityTypes

LEMMA RestartStep ==
  ASSUME CommunityTypes, NEW n \in Nodes, NEW torn \in BOOLEAN, Restart(n, torn)
  PROVE  /\ restarts' = restarts + 1
         /\ group' = [group EXCEPT ![n] = NoCopy] \/ group' = [group EXCEPT ![n] = saved[n].group]
         /\ channel' = [channel EXCEPT ![n] = NoCopy] \/ channel' = [channel EXCEPT ![n] = saved[n].channel]
         /\ log' = [log EXCEPT ![n] = <<>>]
         /\ UNCHANGED <<saved, wire, made, ops>>
BY DEF Restart

LEMMA TypesStep == CommunityTypes /\ [Next]_vars => CommunityTypes'
<1> SUFFICES ASSUME CommunityTypes, [Next]_vars PROVE CommunityTypes'
  OBVIOUS
<1> DEFINE Typed(g, c, l, s) ==
             /\ g \in [Nodes -> Groups \union {NoCopy}]
             /\ c \in [Nodes -> Channels \union {NoCopy}]
             /\ l \in [Nodes -> Seq(Entries)]
             /\ s \in [Nodes -> [group : Groups \union {NoCopy}, channel : Channels \union {NoCopy}]]
<1>1. /\ Typed(group, channel, log, saved) /\ wire \subseteq Letters /\ Owner \in Nodes
      /\ ops \in Nat /\ ops + 1 \in Nat /\ restarts \in Nat /\ restarts + 1 \in Nat
  BY CommunityAssumption DEF CommunityTypes
<1>2. ASSUME NEW members \in SUBSET Others(Owner), CreateGroup(members) PROVE CommunityTypes'
  BY <1>1, <1>2, CreateGroupStep DEF CommunityTypes
<1>3. CASE CreateChannel
  BY <1>1, <1>3, CreateChannelStep, ZenonT(40) DEF CommunityTypes
<1>4. CASE Publish
  <2> DEFINE c == [channel[Owner] EXCEPT !.messages = Append(@, ops)]
  <2>1. c \in Channels
    BY <1>1, <1>4, PublishStep, ChannelAppend
  <2>2. /\ channel' = [channel EXCEPT ![Owner] = c] /\ wire' \subseteq Letters /\ ops' = ops + 1
        /\ UNCHANGED <<group, log, saved, restarts>>
    BY <1>4, PublishStep
  <2> HIDE DEF c
  <2> QED
    BY <1>1, <2>1, <2>2 DEF CommunityTypes
<1>5. ASSUME NEW n \in Nodes, SendGroup(n) PROVE CommunityTypes'
  <2> DEFINE g == [group[n] EXCEPT !.messages = Append(@, ops)]
  <2>1. g \in Groups
    BY <1>1, <1>5, SendGroupStep, GroupAppend
  <2>2. /\ group' = [group EXCEPT ![n] = g] /\ wire' \subseteq Letters /\ ops' = ops + 1
        /\ UNCHANGED <<channel, log, saved, restarts>>
    BY <1>5, SendGroupStep
  <2> HIDE DEF g
  <2> QED
    BY <1>1, <2>1, <2>2 DEF CommunityTypes
<1>6. ASSUME NEW n \in Nodes, Subscribe(n) PROVE CommunityTypes'
  <2> DEFINE c == [channel[n] EXCEPT !.subscribers = @ \cup {Hex(n)}]
  <2>1. c \in Channels
    BY <1>6, SubscribeStep, ChannelSubscriber
  <2>2. /\ channel' = [channel EXCEPT ![n] = c] /\ wire' \subseteq Letters /\ ops' = ops + 1
        /\ UNCHANGED <<group, log, saved, restarts>>
    BY <1>6, SubscribeStep
  <2> HIDE DEF c
  <2> QED
    BY <1>1, <2>1, <2>2 DEF CommunityTypes
<1>7. ASSUME NEW n \in Nodes, Save(n) PROVE CommunityTypes'
  <2> DEFINE r == [group |-> group[n], channel |-> channel[n]]
  <2>1. r \in [group : Groups \union {NoCopy}, channel : Channels \union {NoCopy}]
    BY <1>1
  <2>2. saved' = [saved EXCEPT ![n] = r] /\ UNCHANGED <<group, channel, log, wire, ops, restarts>>
    BY <1>7, SaveStep
  <2> HIDE DEF r
  <2> QED
    BY <1>1, <2>1, <2>2 DEF CommunityTypes
<1>8. ASSUME NEW n \in Nodes, NEW to \in Others(n), SendsLog(n, to) PROVE CommunityTypes'
  <2>1. PICK id \in Ids, state \in {"sent", "failed"} :
          /\ id.from = n
          /\ log' = [log EXCEPT ![n] = Append(@, [id |-> id, state |-> state])]
          /\ wire' \subseteq Letters /\ wire \subseteq wire'
          /\ \A e \in wire' \ wire : e.body \in LogBodies /\ e.body.id = id /\ e.to # n
          /\ ops' = ops + 1 /\ UNCHANGED <<group, channel, saved, made, restarts>>
    BY <1>8, SendLogStep, Zenon DEF SendsLog
  <2> DEFINE entry == [id |-> id, state |-> state]
  <2>2. entry \in Entries /\ log' = [log EXCEPT ![n] = Append(@, entry)]
    BY <2>1 DEF Entries
  <2> HIDE DEF entry
  <2>3. log' \in [Nodes -> Seq(Entries)]
    <3>1. log[n] \in Seq(Entries)
      BY <1>1
    <3>2. Append(log[n], entry) \in Seq(Entries)
      BY <2>2, <3>1
    <3> QED
      BY <1>1, <2>2, <3>2
  <2> QED
    BY <1>1, <2>1, <2>3 DEF CommunityTypes
<1>9. ASSUME NEW n \in Nodes, NEW torn \in BOOLEAN, Restart(n, torn) PROVE CommunityTypes'
  <2>1. saved[n].group \in Groups \union {NoCopy} /\ saved[n].channel \in Channels \union {NoCopy}
    BY <1>1
  <2>2. /\ restarts' = restarts + 1
        /\ group' = [group EXCEPT ![n] = NoCopy] \/ group' = [group EXCEPT ![n] = saved[n].group]
        /\ channel' = [channel EXCEPT ![n] = NoCopy] \/ channel' = [channel EXCEPT ![n] = saved[n].channel]
        /\ log' = [log EXCEPT ![n] = <<>>]
        /\ UNCHANGED <<saved, wire, made, ops>>
    BY <1>9, RestartStep
  <2>3. group' \in [Nodes -> Groups \union {NoCopy}]
    BY <1>1, <2>1, <2>2
  <2>4. channel' \in [Nodes -> Channels \union {NoCopy}]
    BY <1>1, <2>1, <2>2
  <2>5. <<>> \in Seq(Entries)
    OBVIOUS
  <2>6. log' \in [Nodes -> Seq(Entries)]
    BY <1>1, <2>2, <2>5
  <2> QED
    BY <1>1, <2>2, <2>3, <2>4, <2>6 DEF CommunityTypes
<1>10. ASSUME NEW e \in wire, Dispatch(e) PROVE CommunityTypes'
  <2>1. e \in Letters /\ e.to \in Nodes /\ e.from \in Nodes /\ e.body \in Bodies /\ wire \ {e} \subseteq Letters
    BY <1>1 DEF Letters
  <2>2. CASE e.body \in GroupBodies
    <3>1. wire' = wire \ {e} /\ UNCHANGED <<channel, log, ops, saved, restarts>>
      BY <1>10, <2>2, DispatchGroup
    <3>2. group' \in [Nodes -> Groups \union {NoCopy}]
      <4>1. CASE group' = group
        BY <1>1, <4>1
      <4>2. ASSUME NEW g \in Groups, group' = [group EXCEPT ![e.to] = g] PROVE group' \in [Nodes -> Groups \union {NoCopy}]
        BY <1>1, <4>2
      <4>3. ASSUME NEW x \in Nat, group[e.to] # NoCopy, group' = [group EXCEPT ![e.to].messages = Append(@, x)]
            PROVE  group' \in [Nodes -> Groups \union {NoCopy}]
        <5>1. [group[e.to] EXCEPT !.messages = Append(@, x)] \in Groups
          BY <1>1, <2>1, <4>3, GroupAppend
        <5> QED
          BY <1>1, <4>3, <5>1
      <4> QED
        BY <1>10, <2>2, <4>1, <4>2, <4>3, DispatchGroup
    <3> QED
      BY <1>1, <2>1, <3>1, <3>2 DEF CommunityTypes
  <2>3. CASE e.body \in ChannelBodies
    <3>1. ASSUME NEW c \in Channels, channel' = [channel EXCEPT ![e.to] = c] \/ channel' = channel
          PROVE  channel' \in [Nodes -> Channels \union {NoCopy}]
      BY <1>1, <3>1
    <3>2. ASSUME NEW x \in Nat,
                 \/ channel' = channel
                 \/ channel[e.to] # NoCopy /\ channel' = [channel EXCEPT ![e.to].messages = Append(@, x)]
          PROVE  channel' \in [Nodes -> Channels \union {NoCopy}]
      <4>1. CASE channel' = channel
        BY <1>1, <4>1
      <4>2. CASE channel[e.to] # NoCopy /\ channel' = [channel EXCEPT ![e.to].messages = Append(@, x)]
        <5>1. [channel[e.to] EXCEPT !.messages = Append(@, x)] \in Channels
          BY <1>1, <2>1, <4>2, ChannelAppend
        <5> QED
          BY <1>1, <4>2, <5>1
      <4> QED
        BY <3>2, <4>1, <4>2
    <3>3. ASSUME OnSubscribe(Owner, e), channel[Owner] # NoCopy
          PROVE  channel' \in [Nodes -> Channels \union {NoCopy}] /\ wire' \subseteq Letters /\ ops' = ops + 1
      BY <1>1, <2>1, <3>3, OnSubscribeStep
    <3>4. UNCHANGED <<group, log, saved, restarts>>
      BY <1>10, <2>3, DispatchChannel
    <3>5. channel' \in [Nodes -> Channels \union {NoCopy}] /\ wire' \subseteq Letters /\ (ops' = ops \/ ops' = ops + 1)
      BY <1>1, <1>10, <2>1, <2>3, <3>1, <3>2, <3>3, DispatchChannel
    <3> QED
      BY <1>1, <3>4, <3>5 DEF CommunityTypes
  <2>4. ASSUME NEW x \in Nat, e.body = Fallback(x) PROVE CommunityTypes'
    BY <1>1, <1>10, <2>1, <2>4, DispatchFallback DEF CommunityTypes
  <2>5. CASE e.body \in LogBodies
    <3>1. wire' = wire \ {e} /\ UNCHANGED <<group, channel, ops, saved, restarts>> /\ e.body.id \in Ids
      BY <1>10, <2>5, DispatchLog
    <3>2. [id |-> e.body.id, state |-> "delivered"] \in Entries
      BY <3>1 DEF Entries
    <3>3. log' \in [Nodes -> Seq(Entries)]
      <4> DEFINE entry == [id |-> e.body.id, state |-> "delivered"]
      <4>1. log' = log \/ log' = [log EXCEPT ![e.to] = Append(@, entry)]
        BY <1>10, <2>5, DispatchLog
      <4>2. entry \in Entries
        BY <3>2
      <4> HIDE DEF entry
      <4>3. log[e.to] \in Seq(Entries)
        BY <1>1, <2>1
      <4>4. Append(log[e.to], entry) \in Seq(Entries)
        BY <4>2, <4>3
      <4> QED
        BY <1>1, <4>1, <4>4
    <3> QED
      BY <1>1, <2>1, <3>1, <3>3 DEF CommunityTypes
  <2> QED
    BY <2>1, <2>2, <2>3, <2>4, <2>5 DEF Bodies
<1>11. CASE UNCHANGED vars
  BY <1>11 DEF vars, CommunityTypes
<1> QED
  BY <1>2, <1>3, <1>4, <1>5, <1>6, <1>7, <1>8, <1>9, <1>10, <1>11 DEF Next, SendsLog

-----------------------------------------------------------------------------
(* The messenger *)

LogLetter(e) == e.body \in LogBodies

\* What a node has in its log, it sent itself or was delivered to it from another.
LogInv ==
  /\ ReceivedOnce
  /\ \A n \in Nodes : \A i \in 1..Len(log[n]) : log[n][i].state = "delivered" <=> log[n][i].id.from # n
  /\ \A e \in wire : LogLetter(e) => e.body.id.from # e.to

\* An entry whose id is new in the log, or that is not shown as delivered where
\* every delivered entry comes from another node, keeps the log in order.
LEMMA LogAppend ==
  ASSUME CommunityTypes, LogInv, NEW n \in Nodes, NEW entry \in Entries,
         log' = [log EXCEPT ![n] = Append(@, entry)],
         entry.state = "delivered" <=> entry.id.from # n,
         entry.state = "delivered" => \A i \in 1..Len(log[n]) : log[n][i].id # entry.id,
         \A e \in wire' : LogLetter(e) => e.body.id.from # e.to
  PROVE  LogInv'
<1>1. /\ log \in [Nodes -> Seq(Entries)] /\ log[n] \in Seq(Entries) /\ Len(log[n]) \in Nat
      /\ log'[n] = Append(log[n], entry) /\ \A m \in Nodes : m # n => log'[m] = log[m]
  BY DEF CommunityTypes
<1>2. /\ Len(log'[n]) = Len(log[n]) + 1 /\ log'[n][Len(log[n]) + 1] = entry
      /\ \A i \in 1..Len(log[n]) : log'[n][i] = log[n][i]
  BY <1>1
<1>3. \A m \in Nodes : \A i \in 1..Len(log[m]) : log[m][i].state = "delivered" <=> log[m][i].id.from # m
  BY DEF LogInv
<1>4. \A m \in Nodes : \A i \in 1..Len(log'[m]) : log'[m][i].state = "delivered" <=> log'[m][i].id.from # m
  BY <1>1, <1>2, <1>3
<1>5. ASSUME NEW m \in Nodes, NEW i \in 1..Len(log'[m]), NEW j \in 1..Len(log'[m]),
             i # j, log'[m][i].state = "delivered"
      PROVE  log'[m][i].id # log'[m][j].id
  <2>1. CASE m # n
    BY <1>1, <1>5, <2>1 DEF LogInv, ReceivedOnce
  <2>2. CASE m = n
    <3>1. CASE i \in 1..Len(log[n]) /\ j \in 1..Len(log[n])
      BY <1>2, <1>5, <2>2, <3>1 DEF LogInv, ReceivedOnce
    <3>2. CASE i = Len(log[n]) + 1
      <4>1. j \in 1..Len(log[n]) /\ entry.state = "delivered"
        BY <1>1, <1>2, <1>5, <2>2, <3>2
      <4> QED
        BY <1>2, <2>2, <3>2, <4>1
    <3>3. CASE j = Len(log[n]) + 1
      <4>1. i \in 1..Len(log[n]) /\ log[n][i].state = "delivered" /\ log[n][i].id.from # n
        BY <1>1, <1>2, <1>3, <1>5, <2>2, <3>3
      <4>2. log[n][i].id # entry.id
        BY <4>1
      <4> QED
        BY <1>2, <2>2, <3>3, <4>1, <4>2
    <3> QED
      BY <1>1, <1>2, <2>2, <3>1, <3>2, <3>3
  <2> QED
    BY <2>1, <2>2
<1> QED
  BY <1>4, <1>5 DEF LogInv, ReceivedOnce

LEMMA LogFrame ==
  ASSUME LogInv, UNCHANGED log, \A e \in wire' : LogLetter(e) => e \in wire
  PROVE  LogInv'
BY DEF LogInv, ReceivedOnce

\* No other body is one for the log.
LEMMA NotForLog ==
  /\ \A g \in Groups : GroupUpsert(g) \notin LogBodies
  /\ \A x \in Nat : GroupMessage(x) \notin LogBodies /\ ChannelMessage(x) \notin LogBodies /\ Fallback(x) \notin LogBodies
  /\ \A c \in Channels : ChannelUpsert(c) \notin LogBodies
  /\ ChannelSubscribe \notin LogBodies
BY DEF LogBodies, GroupUpsert, GroupMessage, ChannelMessage, Fallback, ChannelUpsert, ChannelSubscribe, Direct, Signal

LEMMA LogStep == CommunityTypes /\ LogInv /\ [Next]_vars => LogInv'
<1> SUFFICES ASSUME CommunityTypes, LogInv, [Next]_vars PROVE LogInv'
  OBVIOUS
<1>1. ops \in Nat
  BY DEF CommunityTypes
<1>2. ASSUME NEW members \in SUBSET Others(Owner), CreateGroup(members) PROVE LogInv'
  <2>1. UNCHANGED log /\ \A e \in wire' \ wire : \E g \in Groups : e.body = GroupUpsert(g)
    BY <1>2, CreateGroupStep
  <2> QED
    BY <2>1, LogFrame, NotForLog DEF LogLetter
<1>3. CASE CreateChannel
  <2>1. UNCHANGED log /\ \A e \in wire' \ wire : \E c \in Channels : e.body = ChannelUpsert(c)
    BY <1>3, CreateChannelStep
  <2> QED
    BY <2>1, LogFrame, NotForLog DEF LogLetter
<1>4. CASE Publish
  <2>1. UNCHANGED log /\ \A e \in wire' \ wire : e.body = ChannelMessage(ops) \/ e.body = Fallback(ops)
    BY <1>4, PublishStep
  <2> QED
    BY <1>1, <2>1, LogFrame, NotForLog DEF LogLetter
<1>5. ASSUME NEW n \in Nodes, SendGroup(n) PROVE LogInv'
  <2>1. UNCHANGED log /\ \A e \in wire' \ wire : e.body = GroupMessage(ops)
    BY <1>5, SendGroupStep
  <2> QED
    BY <1>1, <2>1, LogFrame, NotForLog DEF LogLetter
<1>6. ASSUME NEW n \in Nodes, Subscribe(n) PROVE LogInv'
  <2>1. UNCHANGED log /\ \A e \in wire' \ wire : e.body = ChannelSubscribe
    BY <1>6, SubscribeStep
  <2> QED
    BY <2>1, LogFrame, NotForLog DEF LogLetter
<1>7. ASSUME NEW n \in Nodes, Save(n) PROVE LogInv'
  BY <1>7, SaveStep, LogFrame
<1>8. ASSUME NEW n \in Nodes, NEW to \in Others(n), SendsLog(n, to) PROVE LogInv'
  <2>1. PICK id \in Ids, state \in {"sent", "failed"} :
          /\ id.from = n
          /\ log' = [log EXCEPT ![n] = Append(@, [id |-> id, state |-> state])]
          /\ \A e \in wire' \ wire : e.body \in LogBodies /\ e.body.id = id /\ e.to # n
    BY <1>8, SendLogStep, ZenonT(40) DEF SendsLog
  <2> DEFINE entry == [id |-> id, state |-> state]
  <2>2. entry \in Entries /\ entry.state # "delivered" /\ entry.id.from = n
    BY <2>1 DEF Entries
  <2>3. log' = [log EXCEPT ![n] = Append(@, entry)]
    BY <2>1
  <2>4. \A e \in wire' : LogLetter(e) => e.body.id.from # e.to
    BY <2>1 DEF LogInv
  <2> HIDE DEF entry
  <2> QED
    BY <2>2, <2>3, <2>4, LogAppend
<1>9. ASSUME NEW n \in Nodes, NEW torn \in BOOLEAN, Restart(n, torn) PROVE LogInv'
  <2>1. log' = [log EXCEPT ![n] = <<>>] /\ UNCHANGED wire
    BY <1>9, RestartStep
  <2>2. \A m \in Nodes : log'[m] = log[m] \/ log'[m] = <<>>
    BY <2>1 DEF CommunityTypes
  <2>3. Len(<<>>) = 0
    OBVIOUS
  <2> QED
    BY <2>1, <2>2, <2>3 DEF LogInv, ReceivedOnce
<1>10. ASSUME NEW e \in wire, Dispatch(e) PROVE LogInv'
  <2>1. e.to \in Nodes /\ e.body \in Bodies
    BY DEF CommunityTypes, Letters
  <2>2. CASE e.body \in GroupBodies
    BY <1>10, <2>2, DispatchGroup, LogFrame
  <2>3. CASE e.body \in ChannelBodies
    <3>1. UNCHANGED log
      BY <1>10, <2>3, DispatchChannel
    <3>2. ASSUME OnSubscribe(Owner, e), channel[Owner] # NoCopy, NEW f \in wire', f \notin wire
          PROVE  ~LogLetter(f)
      <4>1. \E c \in Channels : f.body = ChannelUpsert(c)
        BY <3>2, OnSubscribeStep
      <4> QED
        BY <4>1, NotForLog DEF LogLetter
    <3>3. \A f \in wire' : LogLetter(f) => f \in wire
      BY <1>10, <2>3, <3>2, DispatchChannel
    <3> QED
      BY <3>1, <3>3, LogFrame
  <2>4. ASSUME NEW x \in Nat, e.body = Fallback(x) PROVE LogInv'
    BY <1>10, <2>4, DispatchFallback, LogFrame
  <2>5. CASE e.body \in LogBodies
    <3> DEFINE entry == [id |-> e.body.id, state |-> "delivered"]
    <3>1. /\ wire' = wire \ {e}
          /\ \/ log' = log
             \/ /\ \A i \in 1..Len(log[e.to]) : log[e.to][i].id # e.body.id
                /\ log' = [log EXCEPT ![e.to] = Append(@, entry)]
      BY <1>10, <2>5, DispatchLog
    <3>2. entry \in Entries /\ entry.state = "delivered" /\ entry.id = e.body.id
      BY <1>10, <2>5, DispatchLog DEF Entries
    <3>3. e.body.id.from # e.to
      BY <2>5 DEF LogInv, LogLetter
    <3>4. \A f \in wire' : LogLetter(f) => f.body.id.from # f.to
      BY <3>1 DEF LogInv
    <3> HIDE DEF entry
    <3>5. CASE log' = log
      BY <3>1, <3>5, LogFrame
    <3>6. CASE log' # log
      BY <2>1, <3>1, <3>2, <3>3, <3>4, <3>6, LogAppend
    <3> QED
      BY <3>5, <3>6
  <2> QED
    BY <2>1, <2>2, <2>3, <2>4, <2>5 DEF Bodies
<1>11. CASE UNCHANGED vars
  BY <1>11, LogFrame DEF vars
<1> QED
  BY <1>2, <1>3, <1>4, <1>5, <1>6, <1>7, <1>8, <1>9, <1>10, <1>11 DEF Next, SendsLog

-----------------------------------------------------------------------------
(* Counting *)

\* Every message of s has a number below k.
Before(s, k) == \A i \in 1..Len(s) : s[i] < k

\* The copies of a body that are under way to n.
Pending(w, n, b) == {k \in 1..2 : \E e \in w : e.to = n /\ e.copy = k /\ e.body = b}

LEMMA TimesType ==
  ASSUME NEW s \in Seq(Nat), NEW x \in Nat
  PROVE  IsFiniteSet({i \in 1..Len(s) : s[i] = x}) /\ Times(x, s) \in Nat
<1>1. IsFiniteSet(1..Len(s))
  BY FS_Interval
<1>2. IsFiniteSet({i \in 1..Len(s) : s[i] = x})
  BY <1>1, FS_Subset
<1> QED
  BY <1>2, FS_CardinalityType DEF Times

LEMMA TimesNone ==
  ASSUME NEW s \in Seq(Nat), NEW x \in Nat, Before(s, x)
  PROVE  Times(x, s) = 0
<1>1. {i \in 1..Len(s) : s[i] = x} = {}
  BY DEF Before
<1> QED
  BY <1>1, FS_EmptySet DEF Times

LEMMA TimesAppend ==
  ASSUME NEW s \in Seq(Nat), NEW x \in Nat, NEW y \in Nat
  PROVE  Times(x, Append(s, y)) = IF x = y THEN Times(x, s) + 1 ELSE Times(x, s)
<1> DEFINE t == Append(s, y)
           old == {i \in 1..Len(s) : s[i] = x}
           new == {i \in 1..Len(t) : t[i] = x}
<1>1. Len(t) = Len(s) + 1 /\ t[Len(s) + 1] = y /\ (\A i \in 1..Len(s) : t[i] = s[i]) /\ Len(s) \in Nat
  OBVIOUS
<1>2. IsFiniteSet(old) /\ Len(s) + 1 \notin old /\ Times(x, s) = Cardinality(old)
  <2>1. Len(s) + 1 \notin old
    BY <1>1
  <2> QED
    BY <2>1, TimesType DEF Times
<1> HIDE DEF t
<1>3. CASE x = y
  <2>1. new = old \union {Len(s) + 1}
    BY <1>1, <1>3
  <2>2. Cardinality(new) = Cardinality(old) + 1
    BY <1>2, <2>1, FS_AddElement
  <2> QED
    BY <1>2, <1>3, <2>2 DEF Times, t
<1>4. CASE x # y
  <2>1. new = old
    BY <1>1, <1>4
  <2> QED
    BY <1>2, <1>4, <2>1 DEF Times, t
<1> QED
  BY <1>3, <1>4

LEMMA TimesEmpty ==
  ASSUME NEW x \in Nat, NEW k \in Nat
  PROVE  Times(x, <<>>) = 0 /\ Before(<<>>, k)
<1>1. {i \in 1..Len(<<>>) : <<>>[i] = x} = {} /\ Before(<<>>, k)
  BY DEF Before
<1> QED
  BY <1>1, FS_EmptySet DEF Times

LEMMA BeforeAppend ==
  ASSUME NEW s \in Seq(Nat), NEW k \in Nat, NEW y \in Nat, NEW j \in Nat, Before(s, k), k <= j, y < j
  PROVE  Before(Append(s, y), j)
BY DEF Before

LEMMA PendingType ==
  ASSUME NEW w, NEW n, NEW b
  PROVE  IsFiniteSet(Pending(w, n, b)) /\ Cardinality(Pending(w, n, b)) \in 0..2
<1>1. IsFiniteSet(1..2) /\ Cardinality(1..2) = 2
  <2>1. 1 \in Int /\ 2 \in Int
    OBVIOUS
  <2>2. IsFiniteSet(1..2) /\ Cardinality(1..2) = IF 1 > 2 THEN 0 ELSE 2 - 1 + 1
    BY <2>1, FS_Interval
  <2> QED
    BY <2>2
<1>2. Pending(w, n, b) \subseteq 1..2
  BY DEF Pending
<1>3. IsFiniteSet(Pending(w, n, b)) /\ Cardinality(Pending(w, n, b)) <= Cardinality(1..2)
  BY <1>1, <1>2, FS_Subset
<1> QED
  BY <1>1, <1>3, FS_CardinalityType

LEMMA PendingFewer ==
  ASSUME NEW w, NEW v, NEW n, NEW b, \A e \in v : e.body = b => e \in w
  PROVE  Cardinality(Pending(v, n, b)) <= Cardinality(Pending(w, n, b))
<1>1. Pending(v, n, b) \subseteq Pending(w, n, b)
  BY DEF Pending
<1> QED
  BY <1>1, PendingType, FS_Subset

\* An envelope that is the only one of its copy leaves one fewer.
LEMMA PendingTaken ==
  ASSUME NEW w, NEW e \in w, e.copy \in 1..2,
         \A f \in w : f.to = e.to /\ f.copy = e.copy /\ f.body = e.body => f = e
  PROVE  Cardinality(Pending(w \ {e}, e.to, e.body)) + 1 = Cardinality(Pending(w, e.to, e.body))
<1>1. e.copy \in Pending(w, e.to, e.body) /\ Pending(w \ {e}, e.to, e.body) = Pending(w, e.to, e.body) \ {e.copy}
  BY DEF Pending
<1> DEFINE p == Pending(w, e.to, e.body)
<1>2. IsFiniteSet(p) /\ Cardinality(p) \in 0..2
  BY PendingType
<1>3. Cardinality(p \ {e.copy}) = Cardinality(p) - 1
  BY <1>1, <1>2, FS_RemoveElement
<1>4. Pending(w \ {e}, e.to, e.body) = p \ {e.copy}
  BY <1>1
<1> HIDE DEF p
<1>5. Cardinality(p \ {e.copy}) + 1 = Cardinality(p)
  BY <1>2, <1>3
<1> QED
  BY <1>4, <1>5 DEF p

LEMMA PendingNone ==
  ASSUME NEW w, NEW n, NEW b, \A e \in w : ~(e.to = n /\ e.body = b)
  PROVE  Cardinality(Pending(w, n, b)) = 0
<1>1. Pending(w, n, b) = {}
  BY DEF Pending
<1> QED
  BY <1>1, FS_EmptySet

-----------------------------------------------------------------------------
(* The group *)

\* A copy shows a message, with the copies under way, at most twice.
GroupOk(n, c, w, k) ==
  c # NoCopy =>
    /\ Before(c.messages, k)
    /\ \A x \in Nat : Times(x, c.messages) + Cardinality(Pending(w, n, GroupMessage(x))) <= 2

GroupLetterOk(e, w, k) ==
  /\ \A g \in Groups : e.body = GroupUpsert(g) => g.messages = <<>>
  /\ \A x \in Nat : e.body = GroupMessage(x) =>
       /\ x < k
       /\ \A f \in w : f.to = e.to /\ f.copy = e.copy /\ f.body = e.body => f = e

MemberOk(n, c, M) == c # NoCopy => Hex(n) \in M /\ c.members = M

AllMembers(M, g, s, w) ==
  /\ \A n \in Nodes : MemberOk(n, g[n], M) /\ MemberOk(n, s[n].group, M)
  /\ \A e \in w : \A c \in Groups : e.body = GroupUpsert(c) => MemberOk(e.to, c, M)

GroupInv ==
  /\ \A n \in Nodes : GroupOk(n, group[n], wire, ops) /\ GroupOk(n, saved[n].group, wire, ops)
  /\ \A e \in wire : GroupLetterOk(e, wire, ops)
  /\ \E M : AllMembers(M, group, saved, wire)
  /\ "group" \notin made =>
       /\ \A n \in Nodes : group[n] = NoCopy /\ saved[n].group = NoCopy
       /\ \A e \in wire, g \in Groups : e.body # GroupUpsert(g)

\* An envelope of w, and no other, is about the group in v.
NoNewGroup(v, w) == \A e \in v : e \in w \/ e.body \notin GroupBodies

LEMMA GroupKeeps ==
  ASSUME NEW n, NEW c, NEW w, NEW v, NEW k \in Nat, NEW j \in Nat, k <= j, NoNewGroup(v, w),
         GroupOk(n, c, w, k), c # NoCopy => c \in Groups
  PROVE  GroupOk(n, c, v, j)
<1> SUFFICES ASSUME c # NoCopy PROVE GroupOk(n, c, v, j)
  BY DEF GroupOk
<1>1. c.messages \in Seq(Nat) /\ Len(c.messages) \in Nat
  BY DEF Groups
<1>2. Before(c.messages, j)
  BY <1>1 DEF GroupOk, Before
<1>3. ASSUME NEW x \in Nat
      PROVE  Times(x, c.messages) + Cardinality(Pending(v, n, GroupMessage(x))) <= 2
  <2>1. GroupMessage(x) \in GroupBodies
    BY DEF GroupBodies
  <2>2. Cardinality(Pending(v, n, GroupMessage(x))) <= Cardinality(Pending(w, n, GroupMessage(x)))
    BY <2>1, PendingFewer DEF NoNewGroup
  <2>3. Times(x, c.messages) + Cardinality(Pending(w, n, GroupMessage(x))) <= 2
    BY DEF GroupOk
  <2>4. /\ Cardinality(Pending(v, n, GroupMessage(x))) \in 0..2
        /\ Cardinality(Pending(w, n, GroupMessage(x))) \in 0..2 /\ Times(x, c.messages) \in Nat
    BY <1>1, PendingType, TimesType
  <2> QED
    BY <2>2, <2>3, <2>4
<1> QED
  BY <1>2, <1>3 DEF GroupOk

LEMMA GroupLetterKeeps ==
  ASSUME NEW e, NEW w, NEW v, NEW k \in Nat, NEW j \in Nat, k <= j, NoNewGroup(v, w),
         e \in v, \A f \in w : GroupLetterOk(f, w, k)
  PROVE  GroupLetterOk(e, v, j)
<1>1. CASE e.body \notin GroupBodies
  BY <1>1 DEF GroupLetterOk, GroupBodies
<1>2. CASE e.body \in GroupBodies
  <2>1. e \in w /\ GroupLetterOk(e, w, k)
    BY <1>2 DEF NoNewGroup
  <2>2. \A f \in v : f.body = e.body => f \in w
    BY <1>2 DEF NoNewGroup
  <2> QED
    BY <2>1, <2>2 DEF GroupLetterOk
<1> QED
  BY <1>1, <1>2

LEMMA GroupFrame ==
  ASSUME CommunityTypes, CommunityTypes', GroupInv, UNCHANGED <<group, saved>>, ops <= ops',
         NoNewGroup(wire', wire), "group" \in made => "group" \in made'
  PROVE  GroupInv'
<1>1. /\ ops \in Nat /\ ops' \in Nat /\ \A n \in Nodes : group[n] # NoCopy => group[n] \in Groups
      /\ \A n \in Nodes : saved[n].group # NoCopy => saved[n].group \in Groups
  BY DEF CommunityTypes
<1>2. \A n \in Nodes : GroupOk(n, group'[n], wire', ops') /\ GroupOk(n, saved'[n].group, wire', ops')
  BY <1>1, GroupKeeps DEF GroupInv
<1>3. \A e \in wire' : GroupLetterOk(e, wire', ops')
  BY <1>1, GroupLetterKeeps DEF GroupInv
<1>4. \A e \in wire', g \in Groups : e.body = GroupUpsert(g) => e \in wire
  BY DEF NoNewGroup, GroupBodies
<1>5. \E M : AllMembers(M, group', saved', wire')
  BY <1>4 DEF GroupInv, AllMembers
<1> QED
  BY <1>2, <1>3, <1>4, <1>5 DEF GroupInv

LEMMA NotForGroup ==
  /\ \A x \in Nat : ChannelMessage(x) \notin GroupBodies /\ Fallback(x) \notin GroupBodies
  /\ \A c \in Channels : ChannelUpsert(c) \notin GroupBodies
  /\ ChannelSubscribe \notin GroupBodies
  /\ \A b \in LogBodies : b \notin GroupBodies
<1>1. \A b \in ChannelBodies \union LogBodies : b \notin GroupBodies
  BY BodyKinds
<1>2. \A x \in Nat : Fallback(x) \notin GroupBodies
  BY BodyKinds
<1> QED
  BY <1>1, <1>2 DEF ChannelBodies

\* The bodies of the group are different.
LEMMA GroupBodiesDiffer ==
  /\ \A g \in Groups, x \in Nat : GroupUpsert(g) # GroupMessage(x)
  /\ \A x, y \in Nat : GroupMessage(x) = GroupMessage(y) => x = y
  /\ \A g, h \in Groups : GroupUpsert(g) = GroupUpsert(h) => g = h
BY DEF GroupUpsert, GroupMessage

\* A copy without messages is in order whatever is under way.
LEMMA GroupFresh ==
  ASSUME NEW n, NEW g \in Groups, g.messages = <<>>, NEW w, NEW k \in Nat
  PROVE  GroupOk(n, g, w, k)
<1>1. \A x \in Nat : Times(x, g.messages) = 0 /\ Before(g.messages, k)
  BY TimesEmpty
<1>2. \A x \in Nat : Cardinality(Pending(w, n, GroupMessage(x))) \in 0..2
  BY PendingType
<1>3. Before(g.messages, k)
  BY <1>1
<1> QED
  BY <1>1, <1>2, <1>3 DEF GroupOk

\* A copy that does not have the message being sent may get it twice.
LEMMA GroupSends ==
  ASSUME NEW n, NEW c, NEW w, NEW v, NEW k \in Nat, GroupOk(n, c, w, k), c # NoCopy => c \in Groups,
         \A e \in v : e \in w \/ e.body = GroupMessage(k)
  PROVE  GroupOk(n, c, v, k + 1)
<1> SUFFICES ASSUME c # NoCopy PROVE GroupOk(n, c, v, k + 1)
  BY DEF GroupOk
<1>1. c.messages \in Seq(Nat) /\ Len(c.messages) \in Nat /\ Before(c.messages, k)
  BY DEF Groups, GroupOk
<1>2. Before(c.messages, k + 1)
  BY <1>1 DEF Before
<1>3. ASSUME NEW x \in Nat
      PROVE  Times(x, c.messages) + Cardinality(Pending(v, n, GroupMessage(x))) <= 2
  <2>1. /\ Cardinality(Pending(v, n, GroupMessage(x))) \in 0..2
        /\ Cardinality(Pending(w, n, GroupMessage(x))) \in 0..2 /\ Times(x, c.messages) \in Nat
    BY <1>1, PendingType, TimesType
  <2>2. CASE x = k
    <3>1. Times(x, c.messages) = 0
      BY <1>1, <2>2, TimesNone
    <3> QED
      BY <2>1, <3>1
  <2>3. CASE x # k
    <3>1. \A e \in v : e.body = GroupMessage(x) => e \in w
      BY <2>3, GroupBodiesDiffer
    <3>2. Cardinality(Pending(v, n, GroupMessage(x))) <= Cardinality(Pending(w, n, GroupMessage(x)))
      BY <3>1, PendingFewer
    <3>3. Times(x, c.messages) + Cardinality(Pending(w, n, GroupMessage(x))) <= 2
      BY DEF GroupOk
    <3> QED
      BY <2>1, <3>2, <3>3
  <2> QED
    BY <2>2, <2>3
<1> QED
  BY <1>2, <1>3 DEF GroupOk

\* The sender adds the message to its own copy, and none is under way to it.
LEMMA GroupSender ==
  ASSUME NEW n, NEW c \in Groups, NEW w, NEW v, NEW k \in Nat, GroupOk(n, c, v, k + 1), c # NoCopy,
         Before(c.messages, k), \A e \in v : e.body = GroupMessage(k) => e.to # n,
         NEW d \in Groups, d.messages = Append(c.messages, k)
  PROVE  GroupOk(n, d, v, k + 1)
<1>1. c.messages \in Seq(Nat)
  BY DEF Groups
<1>2. Before(d.messages, k + 1)
  <2>1. k + 1 \in Nat /\ k <= k + 1 /\ k < k + 1
    OBVIOUS
  <2> QED
    BY <1>1, <2>1, BeforeAppend
<1>3. ASSUME NEW x \in Nat
      PROVE  Times(x, d.messages) + Cardinality(Pending(v, n, GroupMessage(x))) <= 2
  <2>1. Times(x, d.messages) = IF x = k THEN Times(x, c.messages) + 1 ELSE Times(x, c.messages)
    BY <1>1, TimesAppend
  <2>2. CASE x = k
    <3>1. Times(x, c.messages) = 0
      BY <1>1, <2>2, TimesNone
    <3>2. Cardinality(Pending(v, n, GroupMessage(x))) = 0
      BY <2>2, PendingNone
    <3> QED
      BY <2>1, <2>2, <3>1, <3>2
  <2>3. CASE x # k
    BY <2>1, <2>3 DEF GroupOk
  <2> QED
    BY <2>2, <2>3
<1> QED
  BY <1>2, <1>3 DEF GroupOk

\* A copy that takes a message has one fewer of it to come.
LEMMA GroupTakes ==
  ASSUME NEW w, NEW e \in w, e.copy \in 1..2, NEW k \in Nat, NEW x \in Nat, e.body = GroupMessage(x),
         GroupLetterOk(e, w, k), NEW c \in Groups, c # NoCopy, GroupOk(e.to, c, w, k),
         NEW d \in Groups, d.messages = Append(c.messages, x)
  PROVE  GroupOk(e.to, d, w \ {e}, k)
<1>1. c.messages \in Seq(Nat) /\ x < k /\ Before(c.messages, k)
  BY DEF Groups, GroupOk, GroupLetterOk
<1>2. Before(d.messages, k)
  BY <1>1, BeforeAppend
<1>3. ASSUME NEW y \in Nat
      PROVE  Times(y, d.messages) + Cardinality(Pending(w \ {e}, e.to, GroupMessage(y))) <= 2
  <2>1. Times(y, d.messages) = IF y = x THEN Times(y, c.messages) + 1 ELSE Times(y, c.messages)
    BY <1>1, TimesAppend
  <2>2. Times(y, c.messages) + Cardinality(Pending(w, e.to, GroupMessage(y))) <= 2
    BY DEF GroupOk
  <2>3. /\ Cardinality(Pending(w, e.to, GroupMessage(y))) \in 0..2
        /\ Cardinality(Pending(w \ {e}, e.to, GroupMessage(y))) \in 0..2
        /\ Times(y, c.messages) \in Nat
    BY <1>1, PendingType, TimesType
  <2>4. CASE y = x
    <3>1. \A f \in w : f.to = e.to /\ f.copy = e.copy /\ f.body = e.body => f = e
      BY DEF GroupLetterOk
    <3>2. Cardinality(Pending(w \ {e}, e.to, e.body)) + 1 = Cardinality(Pending(w, e.to, e.body))
      BY <3>1, PendingTaken
    <3>3. Cardinality(Pending(w \ {e}, e.to, GroupMessage(y))) + 1 = Cardinality(Pending(w, e.to, GroupMessage(y)))
      BY <2>4, <3>2
    <3> QED
      BY <2>1, <2>2, <2>3, <2>4, <3>3
  <2>5. CASE y # x
    <3>1. Cardinality(Pending(w \ {e}, e.to, GroupMessage(y))) <= Cardinality(Pending(w, e.to, GroupMessage(y)))
      BY PendingFewer
    <3> QED
      BY <2>1, <2>2, <2>3, <2>5, <3>1
  <2> QED
    BY <2>4, <2>5
<1> QED
  BY <1>2, <1>3 DEF GroupOk

LEMMA GroupStep == CommunityTypes /\ CommunityTypes' /\ GroupInv /\ [Next]_vars => GroupInv'
<1> SUFFICES ASSUME CommunityTypes, CommunityTypes', GroupInv, [Next]_vars PROVE GroupInv'
  OBVIOUS
<1>1. /\ ops \in Nat /\ ops + 1 \in Nat /\ ops <= ops + 1 /\ Owner \in Nodes
      /\ \A n \in Nodes : group[n] # NoCopy => group[n] \in Groups
      /\ \A n \in Nodes : saved[n].group # NoCopy => saved[n].group \in Groups
  BY CommunityAssumption DEF CommunityTypes
<1>2. ASSUME NEW members \in SUBSET Others(Owner), CreateGroup(members) PROVE GroupInv'
  <2>1. PICK g \in Groups :
           /\ g.messages = <<>> /\ Hex(Owner) \in g.members
           /\ "group" \notin made /\ made' = made \union {"group"}
           /\ group' = [group EXCEPT ![Owner] = g]
           /\ wire' \subseteq Letters /\ wire \subseteq wire'
           /\ \A e \in wire' \ wire : e.body = GroupUpsert(g) /\ e.to \in Nodes /\ Hex(e.to) \in g.members
           /\ ops' = ops + 1 /\ UNCHANGED <<channel, log, saved, restarts>>
    BY <1>2, CreateGroupStep
  <2>2. /\ \A n \in Nodes : group[n] = NoCopy /\ saved[n].group = NoCopy
        /\ \A e \in wire, h \in Groups : e.body # GroupUpsert(h)
    BY <2>1 DEF GroupInv
  <2>3. \A n \in Nodes : group'[n] = IF n = Owner THEN g ELSE NoCopy
    BY <2>1, <2>2 DEF CommunityTypes
  <2>4. \A n \in Nodes : GroupOk(n, group'[n], wire', ops') /\ GroupOk(n, saved'[n].group, wire', ops')
    <3>1. \A n \in Nodes : GroupOk(n, NoCopy, wire', ops')
      BY DEF GroupOk
    <3>2. GroupOk(Owner, g, wire', ops')
      BY <1>1, <2>1, GroupFresh
    <3> QED
      BY <2>1, <2>2, <2>3, <3>1, <3>2
  <2>5. ASSUME NEW e \in wire' PROVE GroupLetterOk(e, wire', ops')
    <3>1. CASE e \in wire
      <4>1. GroupLetterOk(e, wire, ops)
        BY <3>1 DEF GroupInv
      <4>2. \A x \in Nat, f \in wire' : f.body = GroupMessage(x) => f \in wire
        BY <2>1, GroupBodiesDiffer
      <4> QED
        BY <1>1, <2>1, <4>1, <4>2 DEF GroupLetterOk
    <3>2. CASE e \notin wire
      BY <2>1, <3>2, GroupBodiesDiffer DEF GroupLetterOk
    <3> QED
      BY <3>1, <3>2
  <2>6. AllMembers(g.members, group', saved', wire')
    BY <1>1, <2>1, <2>2, <2>3, GroupBodiesDiffer DEF AllMembers, MemberOk
  <2> QED
    BY <2>1, <2>4, <2>5, <2>6 DEF GroupInv
<1>3. CASE CreateChannel
  <2>1. /\ UNCHANGED <<group, saved>> /\ ops' = ops + 1 /\ made \subseteq made'
        /\ \A e \in wire' \ wire : \E c \in Channels : e.body = ChannelUpsert(c)
    BY <1>3, CreateChannelStep
  <2> QED
    BY <1>1, <2>1, GroupFrame, NotForGroup DEF NoNewGroup
<1>4. CASE Publish
  <2>1. /\ UNCHANGED <<group, saved, made>> /\ ops' = ops + 1
        /\ \A e \in wire' \ wire : e.body = ChannelMessage(ops) \/ e.body = Fallback(ops)
    BY <1>4, PublishStep
  <2> QED
    BY <1>1, <2>1, GroupFrame, NotForGroup DEF NoNewGroup
<1>5. ASSUME NEW n \in Nodes, SendGroup(n) PROVE GroupInv'
  <2> DEFINE d == [group[n] EXCEPT !.messages = Append(@, ops)]
  <2>1. /\ group[n] \in Groups
        /\ group' = [group EXCEPT ![n] = d]
        /\ wire' \subseteq Letters /\ wire \subseteq wire'
        /\ \A e \in wire' \ wire : e.body = GroupMessage(ops) /\ e.to # n
        /\ \A e, f \in wire' \ wire : e.to = f.to /\ e.copy = f.copy => e = f
        /\ ops' = ops + 1 /\ UNCHANGED <<channel, log, saved, made, restarts>>
    BY <1>5, SendGroupStep
  <2>2. group[n] # NoCopy
    BY <2>1, CommunityAssumption
  <2>3. d \in Groups /\ d.messages = Append(group[n].messages, ops) /\ d.members = group[n].members
    BY <1>1, <2>1, GroupAppend
  <2> HIDE DEF d
  <2>4. \A m \in Nodes : group'[m] = IF m = n THEN d ELSE group[m]
    BY <2>1 DEF CommunityTypes
  <2>5. \A e \in wire : e.body # GroupMessage(ops)
    BY <1>1 DEF GroupInv, GroupLetterOk
  <2>6. \A m \in Nodes : GroupOk(m, group[m], wire', ops + 1) /\ GroupOk(m, saved[m].group, wire', ops + 1)
    BY <1>1, <2>1, GroupSends DEF GroupInv
  <2>7. GroupOk(n, d, wire', ops + 1)
    <3>1. Before(group[n].messages, ops)
      BY <2>2 DEF GroupInv, GroupOk
    <3>2. \A e \in wire' : e.body = GroupMessage(ops) => e.to # n
      BY <2>1, <2>5
    <3> QED
      BY <1>1, <2>1, <2>2, <2>3, <2>6, <3>1, <3>2, GroupSender
  <2>8. ASSUME NEW e \in wire' PROVE GroupLetterOk(e, wire', ops')
    <3>1. CASE e \in wire
      <4>1. GroupLetterOk(e, wire, ops)
        BY <3>1 DEF GroupInv
      <4>2. \A f \in wire' : f.body = e.body => f \in wire
        BY <2>1, <2>5, <3>1
      <4> QED
        BY <1>1, <2>1, <4>1, <4>2 DEF GroupLetterOk
    <3>2. CASE e \notin wire
      <4>1. \A x \in Nat : e.body = GroupMessage(x) => x = ops
        BY <1>1, <2>1, <3>2, GroupBodiesDiffer
      <4>2. \A f \in wire' : f.body = e.body => f \notin wire
        BY <2>1, <2>5, <3>2
      <4>3. \A g \in Groups : e.body # GroupUpsert(g)
        BY <1>1, <2>1, <3>2, GroupBodiesDiffer
      <4> QED
        BY <1>1, <2>1, <3>2, <4>1, <4>2, <4>3 DEF GroupLetterOk
    <3> QED
      BY <3>1, <3>2
  <2>9. PICK M : AllMembers(M, group, saved, wire)
    BY DEF GroupInv
  <2>10. \A e \in wire', g \in Groups : e.body = GroupUpsert(g) => e \in wire
    BY <1>1, <2>1, GroupBodiesDiffer
  <2>11. MemberOk(n, d, M)
    BY <2>2, <2>3, <2>9 DEF AllMembers, MemberOk
  <2>12. AllMembers(M, group', saved', wire')
    BY <2>1, <2>4, <2>9, <2>10, <2>11 DEF AllMembers
  <2>13. "group" \in made
    BY <2>2 DEF GroupInv
  <2> QED
    BY <2>1, <2>4, <2>6, <2>7, <2>8, <2>12, <2>13 DEF GroupInv
<1>6. ASSUME NEW n \in Nodes, Subscribe(n) PROVE GroupInv'
  <2>1. /\ UNCHANGED <<group, saved, made>> /\ ops' = ops + 1
        /\ \A e \in wire' \ wire : e.body = ChannelSubscribe
    BY <1>6, SubscribeStep
  <2> QED
    BY <1>1, <2>1, GroupFrame, NotForGroup DEF NoNewGroup
<1>7. ASSUME NEW n \in Nodes, Save(n) PROVE GroupInv'
  <2>1. /\ saved'[n].group = group[n] /\ \A m \in Nodes : m # n => saved'[m] = saved[m]
        /\ UNCHANGED <<group, wire, made, ops>>
    BY <1>7, SaveStep
  <2>2. \A m \in Nodes : saved'[m].group = group[m] \/ saved'[m].group = saved[m].group
    BY <2>1
  <2>3. PICK M : AllMembers(M, group, saved, wire)
    BY DEF GroupInv
  <2>4. AllMembers(M, group', saved', wire')
    BY <2>1, <2>2, <2>3 DEF AllMembers
  <2>5. \A m \in Nodes : GroupOk(m, group'[m], wire', ops') /\ GroupOk(m, saved'[m].group, wire', ops')
    BY <2>1, <2>2 DEF GroupInv
  <2> QED
    BY <2>1, <2>2, <2>4, <2>5 DEF GroupInv
<1>8. ASSUME NEW n \in Nodes, NEW to \in Others(n), SendsLog(n, to) PROVE GroupInv'
  <2>1. /\ UNCHANGED <<group, saved, made>> /\ ops' = ops + 1
        /\ \A e \in wire' \ wire : e.body \in LogBodies
    BY <1>8, SendLogStep DEF SendsLog
  <2> QED
    BY <1>1, <2>1, GroupFrame, NotForGroup DEF NoNewGroup
<1>9. ASSUME NEW n \in Nodes, NEW torn \in BOOLEAN, Restart(n, torn) PROVE GroupInv'
  <2>1. /\ group' = [group EXCEPT ![n] = NoCopy] \/ group' = [group EXCEPT ![n] = saved[n].group]
        /\ UNCHANGED <<saved, wire, made, ops>>
    BY <1>9, RestartStep
  <2>2. \A m \in Nodes : group'[m] = group[m] \/ group'[m] = NoCopy \/ group'[m] = saved[m].group
    BY <2>1 DEF CommunityTypes
  <2>3. PICK M : AllMembers(M, group, saved, wire)
    BY DEF GroupInv
  <2>4. AllMembers(M, group', saved', wire')
    BY <2>1, <2>2, <2>3 DEF AllMembers, MemberOk
  <2>5. \A m \in Nodes : GroupOk(m, NoCopy, wire, ops)
    BY DEF GroupOk
  <2>6. \A m \in Nodes : GroupOk(m, group'[m], wire', ops') /\ GroupOk(m, saved'[m].group, wire', ops')
    BY <2>1, <2>2, <2>5 DEF GroupInv
  <2> QED
    BY <2>1, <2>2, <2>4, <2>6 DEF GroupInv
<1>10. ASSUME NEW e \in wire, Dispatch(e) PROVE GroupInv'
  <2>1. e.to \in Nodes /\ e.body \in Bodies /\ e.copy \in 1..2
    BY DEF CommunityTypes, Letters
  <2>2. CASE e.body \in GroupBodies
    <3>1. wire' = wire \ {e} /\ UNCHANGED <<ops, saved, made>>
      BY <1>10, <2>2, DispatchGroup
    <3>2. CASE group' = group
      BY <1>1, <3>1, <3>2, GroupFrame DEF NoNewGroup
    <3>3. NoNewGroup(wire', wire)
      BY <3>1 DEF NoNewGroup
    <3>4. /\ \A m \in Nodes : GroupOk(m, group[m], wire', ops) /\ GroupOk(m, saved[m].group, wire', ops)
          /\ \A f \in wire' : GroupLetterOk(f, wire', ops)
      <4>1. ops <= ops
        BY <1>1
      <4> QED
        BY <1>1, <3>3, <4>1, GroupKeeps, GroupLetterKeeps DEF GroupInv
    <3>5. PICK M : AllMembers(M, group, saved, wire)
      BY DEF GroupInv
    <3>6. ASSUME NEW d \in Groups, group' = [group EXCEPT ![e.to] = d], MemberOk(e.to, d, M),
                 GroupOk(e.to, d, wire', ops), "group" \in made
          PROVE  GroupInv'
      <4>1. \A m \in Nodes : group'[m] = IF m = e.to THEN d ELSE group[m]
        BY <2>1, <3>6 DEF CommunityTypes
      <4>2. AllMembers(M, group', saved', wire')
        BY <3>1, <3>5, <3>6, <4>1 DEF AllMembers
      <4> QED
        BY <3>1, <3>4, <3>6, <4>1, <4>2, ZenonT(40) DEF GroupInv
    <3>7. ASSUME NEW g \in Groups, e.body = GroupUpsert(g), group' = [group EXCEPT ![e.to] = g] PROVE GroupInv'
      <4>1. g.messages = <<>> /\ MemberOk(e.to, g, M) /\ "group" \in made
        BY <3>5, <3>7 DEF GroupInv, GroupLetterOk, AllMembers
      <4>2. GroupOk(e.to, g, wire', ops)
        BY <1>1, <4>1, GroupFresh
      <4> QED
        BY <3>6, <3>7, <4>1, <4>2
    <3>8. ASSUME NEW x \in Nat, e.body = GroupMessage(x), group[e.to] # NoCopy,
                 group' = [group EXCEPT ![e.to].messages = Append(@, x)]
          PROVE  GroupInv'
      <4> DEFINE d == [group[e.to] EXCEPT !.messages = Append(@, x)]
      <4>1. group[e.to] \in Groups
        BY <1>1, <2>1, <3>8
      <4>2. d \in Groups /\ d.messages = Append(group[e.to].messages, x) /\ d.members = group[e.to].members
        BY <4>1, GroupAppend
      <4>3. group' = [group EXCEPT ![e.to] = d]
        BY <3>8
      <4> HIDE DEF d
      <4>4. GroupOk(e.to, d, wire', ops)
        BY <1>1, <2>1, <3>1, <3>8, <4>1, <4>2, GroupTakes DEF GroupInv
      <4>5. MemberOk(e.to, d, M) /\ "group" \in made
        BY <2>1, <3>5, <3>8, <4>2 DEF GroupInv, AllMembers, MemberOk
      <4> QED
        BY <3>6, <4>2, <4>3, <4>4, <4>5
    <3> QED
      BY <1>10, <2>2, <3>2, <3>7, <3>8, DispatchGroup
  <2>3. CASE e.body \in ChannelBodies
    <3>1. UNCHANGED <<group, saved, made>>
      BY <1>10, <2>3, DispatchChannel
    <3>2. ASSUME OnSubscribe(Owner, e), channel[Owner] # NoCopy
          PROVE  NoNewGroup(wire', wire) /\ ops' = ops + 1
      BY <3>2, OnSubscribeStep, NotForGroup DEF NoNewGroup
    <3>3. NoNewGroup(wire', wire) /\ ops <= ops'
      <4>1. CASE wire' = wire \ {e} /\ UNCHANGED ops
        BY <1>1, <4>1 DEF NoNewGroup
      <4> QED
        BY <1>1, <1>10, <2>3, <3>2, <4>1, DispatchChannel
    <3> QED
      BY <3>1, <3>3, GroupFrame
  <2>4. ASSUME NEW x \in Nat, e.body = Fallback(x) PROVE GroupInv'
    BY <1>1, <1>10, <2>4, DispatchFallback, GroupFrame DEF NoNewGroup
  <2>5. CASE e.body \in LogBodies
    <3>1. wire' = wire \ {e} /\ UNCHANGED <<group, channel, ops, saved, made>>
      BY <1>10, <2>5, DispatchLog
    <3> QED
      BY <1>1, <3>1, GroupFrame DEF NoNewGroup
  <2> QED
    BY <2>1, <2>2, <2>3, <2>4, <2>5 DEF Bodies
<1>11. CASE UNCHANGED vars
  BY <1>1, <1>11, GroupFrame DEF vars, NoNewGroup
<1> QED
  BY <1>2, <1>3, <1>4, <1>5, <1>6, <1>7, <1>8, <1>9, <1>10, <1>11 DEF Next, SendsLog

-----------------------------------------------------------------------------
(* The messages of the channel *)

\* A copy shows a message, with the event under way, at most twice; the owner's
\* copy, which every snapshot repeats, at most once.
ChannelOk(n, c, w, k) ==
  c # NoCopy =>
    /\ Before(c.messages, k)
    /\ \A x \in Nat :
         /\ Times(x, c.messages) + Cardinality(Pending(w, n, ChannelMessage(x))) <= 2
         /\ n = Owner => Times(x, c.messages) <= 1

SnapshotOk(e, k) ==
  \A c \in Channels : e.body = ChannelUpsert(c) =>
    /\ e.to # Owner /\ Before(c.messages, k)
    /\ \A x \in Nat : Times(x, c.messages) <= 1

EventOk(e, w, k) ==
  \A x \in Nat : e.body = ChannelMessage(x) =>
    /\ x < k /\ e.copy = 1 /\ e.to # Owner
    /\ \A f \in w : f.to = e.to /\ f.copy = e.copy /\ f.body = e.body => f = e

ChannelLetterOk(e, w, k) ==
  /\ SnapshotOk(e, k) /\ EventOk(e, w, k)
  /\ e.body = ChannelSubscribe => e.from # Owner

ChannelInv ==
  /\ \A n \in Nodes : ChannelOk(n, channel[n], wire, ops) /\ ChannelOk(n, saved[n].channel, wire, ops)
  /\ \A e \in wire : ChannelLetterOk(e, wire, ops)

\* The envelopes of the channel in v are in w.
NoNewChannel(v, w) == \A e \in v : e \in w \/ e.body \notin ChannelBodies

\* No event is new in v.
NoNewEvent(v, w) == \A e \in v, x \in Nat : e.body = ChannelMessage(x) => e \in w

LEMMA ChannelBodiesDiffer ==
  /\ \A c \in Channels, x \in Nat : ChannelUpsert(c) # ChannelMessage(x)
  /\ \A c \in Channels : ChannelUpsert(c) # ChannelSubscribe
  /\ \A x \in Nat : ChannelMessage(x) # ChannelSubscribe
  /\ \A x, y \in Nat : ChannelMessage(x) = ChannelMessage(y) => x = y
  /\ \A x, y \in Nat : Fallback(y) # ChannelMessage(x)
  /\ \A c, d \in Channels : ChannelUpsert(c) = ChannelUpsert(d) => c = d
BY DEF ChannelUpsert, ChannelMessage, ChannelSubscribe, Fallback

LEMMA NotForChannel ==
  /\ \A b \in GroupBodies \union LogBodies : b \notin ChannelBodies
  /\ \A x \in Nat : Fallback(x) \notin ChannelBodies
BY BodyKinds

LEMMA ChannelMembers ==
  /\ \A x \in Nat : ChannelMessage(x) \in ChannelBodies
  /\ \A c \in Channels : ChannelUpsert(c) \in ChannelBodies
  /\ ChannelSubscribe \in ChannelBodies
BY DEF ChannelBodies

LEMMA ChannelKeeps ==
  ASSUME NEW n, NEW c, NEW w, NEW v, NEW k \in Nat, NEW j \in Nat, k <= j, NoNewEvent(v, w),
         ChannelOk(n, c, w, k), c # NoCopy => c \in Channels
  PROVE  ChannelOk(n, c, v, j)
<1> SUFFICES ASSUME c # NoCopy PROVE ChannelOk(n, c, v, j)
  BY DEF ChannelOk
<1>1. c.messages \in Seq(Nat) /\ Len(c.messages) \in Nat
  BY DEF Channels
<1>2. Before(c.messages, j)
  BY <1>1 DEF ChannelOk, Before
<1>3. ASSUME NEW x \in Nat
      PROVE  Times(x, c.messages) + Cardinality(Pending(v, n, ChannelMessage(x))) <= 2
  <2>1. Cardinality(Pending(v, n, ChannelMessage(x))) <= Cardinality(Pending(w, n, ChannelMessage(x)))
    BY PendingFewer DEF NoNewEvent
  <2>2. Times(x, c.messages) + Cardinality(Pending(w, n, ChannelMessage(x))) <= 2
    BY DEF ChannelOk
  <2>3. /\ Cardinality(Pending(v, n, ChannelMessage(x))) \in 0..2
        /\ Cardinality(Pending(w, n, ChannelMessage(x))) \in 0..2 /\ Times(x, c.messages) \in Nat
    BY <1>1, PendingType, TimesType
  <2> QED
    BY <2>1, <2>2, <2>3
<1> QED
  BY <1>2, <1>3 DEF ChannelOk

\* A snapshot that takes the place of a copy has a message once, and its event
\* may follow.
LEMMA ChannelReplaced ==
  ASSUME NEW n, n # Owner, NEW w, NEW k \in Nat, \A e \in w : EventOk(e, w, k),
         NEW c \in Channels, Before(c.messages, k), \A x \in Nat : Times(x, c.messages) <= 1
  PROVE  ChannelOk(n, c, w, k)
<1>1. ASSUME NEW x \in Nat PROVE Times(x, c.messages) + Cardinality(Pending(w, n, ChannelMessage(x))) <= 2
  <2>1. Pending(w, n, ChannelMessage(x)) \subseteq {1}
    BY DEF Pending, EventOk
  <2>2. IsFiniteSet({1}) /\ Cardinality({1}) = 1
    BY FS_Singleton
  <2>3. Cardinality(Pending(w, n, ChannelMessage(x))) <= 1
    BY <2>1, <2>2, FS_Subset
  <2>4. Cardinality(Pending(w, n, ChannelMessage(x))) \in 0..2 /\ Times(x, c.messages) \in Nat
    BY PendingType, TimesType DEF Channels
  <2>5. Times(x, c.messages) <= 1
    OBVIOUS
  <2> QED
    BY <2>3, <2>4, <2>5
<1> QED
  BY <1>1 DEF ChannelOk

LEMMA EventKeeps ==
  ASSUME NEW w, NEW v, NEW k \in Nat, NEW j \in Nat, k <= j, NoNewEvent(v, w),
         \A f \in w : EventOk(f, w, k), NEW e \in v
  PROVE  EventOk(e, v, j)
<1> SUFFICES ASSUME NEW x \in Nat, e.body = ChannelMessage(x)
             PROVE  /\ x < j /\ e.copy = 1 /\ e.to # Owner
                    /\ \A f \in v : f.to = e.to /\ f.copy = e.copy /\ f.body = e.body => f = e
  BY DEF EventOk
<1>1. e \in w /\ EventOk(e, w, k)
  BY DEF NoNewEvent
<1>2. \A f \in v : f.body = e.body => f \in w
  BY DEF NoNewEvent
<1> QED
  BY <1>1, <1>2 DEF EventOk

LEMMA SnapshotKeeps ==
  ASSUME NEW e, NEW k \in Nat, NEW j \in Nat, k <= j, SnapshotOk(e, k)
  PROVE  SnapshotOk(e, j)
<1> SUFFICES ASSUME NEW c \in Channels, e.body = ChannelUpsert(c) PROVE Before(c.messages, j)
  BY DEF SnapshotOk
<1>1. Before(c.messages, k) /\ c.messages \in Seq(Nat) /\ Len(c.messages) \in Nat
  BY DEF SnapshotOk, Channels
<1> QED
  BY <1>1 DEF Before

LEMMA ChannelFrame ==
  ASSUME CommunityTypes, CommunityTypes', ChannelInv, UNCHANGED <<channel, saved>>, ops <= ops',
         NoNewChannel(wire', wire)
  PROVE  ChannelInv'
<1>1. /\ ops \in Nat /\ ops' \in Nat /\ \A n \in Nodes : channel[n] # NoCopy => channel[n] \in Channels
      /\ \A n \in Nodes : saved[n].channel # NoCopy => saved[n].channel \in Channels
  BY DEF CommunityTypes
<1>2. NoNewEvent(wire', wire)
  BY ChannelMembers DEF NoNewChannel, NoNewEvent
<1>3. \A n \in Nodes : ChannelOk(n, channel'[n], wire', ops') /\ ChannelOk(n, saved'[n].channel, wire', ops')
  BY <1>1, <1>2, ChannelKeeps DEF ChannelInv
<1>4. \A e \in wire' : EventOk(e, wire', ops')
  BY <1>1, <1>2, EventKeeps DEF ChannelInv, ChannelLetterOk
<1>5. ASSUME NEW e \in wire' PROVE SnapshotOk(e, ops') /\ (e.body = ChannelSubscribe => e.from # Owner)
  <2>1. CASE e \in wire
    BY <1>1, <2>1, SnapshotKeeps DEF ChannelInv, ChannelLetterOk
  <2>2. CASE e \notin wire
    <3>1. e.body \notin ChannelBodies
      BY <2>2 DEF NoNewChannel
    <3> QED
      BY <3>1, ChannelMembers DEF SnapshotOk
  <2> QED
    BY <2>1, <2>2
<1> QED
  BY <1>3, <1>4, <1>5 DEF ChannelInv, ChannelLetterOk

\* A copy that takes a message has it no more to come.
LEMMA ChannelTakes ==
  ASSUME NEW w, NEW e \in w, NEW k \in Nat, NEW x \in Nat, e.body = ChannelMessage(x),
         EventOk(e, w, k), NEW c \in Channels, c # NoCopy, ChannelOk(e.to, c, w, k),
         NEW d \in Channels, d.messages = Append(c.messages, x)
  PROVE  ChannelOk(e.to, d, w \ {e}, k)
<1>1. c.messages \in Seq(Nat) /\ x < k /\ Before(c.messages, k) /\ e.to # Owner /\ e.copy \in 1..2
  BY DEF Channels, ChannelOk, EventOk
<1>2. Before(d.messages, k)
  BY <1>1, BeforeAppend
<1>3. ASSUME NEW y \in Nat
      PROVE  Times(y, d.messages) + Cardinality(Pending(w \ {e}, e.to, ChannelMessage(y))) <= 2
  <2>1. Times(y, d.messages) = IF y = x THEN Times(y, c.messages) + 1 ELSE Times(y, c.messages)
    BY <1>1, TimesAppend
  <2>2. Times(y, c.messages) + Cardinality(Pending(w, e.to, ChannelMessage(y))) <= 2
    BY DEF ChannelOk
  <2>3. /\ Cardinality(Pending(w, e.to, ChannelMessage(y))) \in 0..2
        /\ Cardinality(Pending(w \ {e}, e.to, ChannelMessage(y))) \in 0..2
        /\ Times(y, c.messages) \in Nat
    BY <1>1, PendingType, TimesType
  <2>4. CASE y = x
    <3>1. \A f \in w : f.to = e.to /\ f.copy = e.copy /\ f.body = e.body => f = e
      BY DEF EventOk
    <3>2. Cardinality(Pending(w \ {e}, e.to, e.body)) + 1 = Cardinality(Pending(w, e.to, e.body))
      BY <1>1, <3>1, PendingTaken
    <3>3. Cardinality(Pending(w \ {e}, e.to, ChannelMessage(y))) + 1 = Cardinality(Pending(w, e.to, ChannelMessage(y)))
      BY <2>4, <3>2
    <3> QED
      BY <2>1, <2>2, <2>3, <2>4, <3>3
  <2>5. CASE y # x
    <3>1. Cardinality(Pending(w \ {e}, e.to, ChannelMessage(y))) <= Cardinality(Pending(w, e.to, ChannelMessage(y)))
      BY PendingFewer
    <3> QED
      BY <2>1, <2>2, <2>3, <2>5, <3>1
  <2> QED
    BY <2>4, <2>5
<1> QED
  BY <1>1, <1>2, <1>3 DEF ChannelOk

\* A copy that does not have the message being published.
LEMMA ChannelPublishes ==
  ASSUME NEW n, NEW c, NEW w, NEW v, NEW k \in Nat, ChannelOk(n, c, w, k), c # NoCopy => c \in Channels,
         \A e \in v : e \in w \/ e.body = ChannelMessage(k) \/ e.body = Fallback(k)
  PROVE  ChannelOk(n, c, v, k + 1)
<1> SUFFICES ASSUME c # NoCopy PROVE ChannelOk(n, c, v, k + 1)
  BY DEF ChannelOk
<1>1. c.messages \in Seq(Nat) /\ Len(c.messages) \in Nat /\ Before(c.messages, k)
  BY DEF Channels, ChannelOk
<1>2. Before(c.messages, k + 1)
  BY <1>1 DEF Before
<1>3. ASSUME NEW x \in Nat
      PROVE  Times(x, c.messages) + Cardinality(Pending(v, n, ChannelMessage(x))) <= 2
  <2>1. /\ Cardinality(Pending(v, n, ChannelMessage(x))) \in 0..2
        /\ Cardinality(Pending(w, n, ChannelMessage(x))) \in 0..2 /\ Times(x, c.messages) \in Nat
    BY <1>1, PendingType, TimesType
  <2>2. CASE x = k
    <3>1. Times(x, c.messages) = 0
      BY <1>1, <2>2, TimesNone
    <3> QED
      BY <2>1, <3>1
  <2>3. CASE x # k
    <3>1. \A e \in v : e.body = ChannelMessage(x) => e \in w
      BY <2>3, ChannelBodiesDiffer
    <3>2. Cardinality(Pending(v, n, ChannelMessage(x))) <= Cardinality(Pending(w, n, ChannelMessage(x)))
      BY <3>1, PendingFewer
    <3>3. Times(x, c.messages) + Cardinality(Pending(w, n, ChannelMessage(x))) <= 2
      BY DEF ChannelOk
    <3> QED
      BY <2>1, <3>2, <3>3
  <2> QED
    BY <2>2, <2>3
<1> QED
  BY <1>2, <1>3 DEF ChannelOk

\* The owner adds the message to its own copy, and no event goes to it.
LEMMA ChannelPublisher ==
  ASSUME NEW c \in Channels, c # NoCopy, NEW w, NEW v, NEW k \in Nat, ChannelOk(Owner, c, w, k),
         \A e \in v, x \in Nat : e.body = ChannelMessage(x) => e.to # Owner,
         NEW d \in Channels, d.messages = Append(c.messages, k)
  PROVE  ChannelOk(Owner, d, v, k + 1)
<1>1. c.messages \in Seq(Nat) /\ Before(c.messages, k)
  BY DEF Channels, ChannelOk
<1>2. Before(d.messages, k + 1)
  <2>1. k + 1 \in Nat /\ k <= k + 1 /\ k < k + 1
    OBVIOUS
  <2> QED
    BY <1>1, <2>1, BeforeAppend
<1>3. ASSUME NEW x \in Nat
      PROVE  /\ Times(x, d.messages) + Cardinality(Pending(v, Owner, ChannelMessage(x))) <= 2
             /\ Times(x, d.messages) <= 1
  <2>1. Times(x, d.messages) = IF x = k THEN Times(x, c.messages) + 1 ELSE Times(x, c.messages)
    BY <1>1, TimesAppend
  <2>2. Cardinality(Pending(v, Owner, ChannelMessage(x))) = 0
    BY PendingNone
  <2>3. Times(x, c.messages) \in Nat /\ Times(x, c.messages) <= 1
    BY <1>1, TimesType DEF ChannelOk
  <2>4. x = k => Times(x, c.messages) = 0
    BY <1>1, TimesNone
  <2> QED
    BY <2>1, <2>2, <2>3, <2>4
<1> QED
  BY <1>2, <1>3 DEF ChannelOk

LEMMA ChannelStep == CommunityTypes /\ CommunityTypes' /\ ChannelInv /\ [Next]_vars => ChannelInv'
<1> SUFFICES ASSUME CommunityTypes, CommunityTypes', ChannelInv, [Next]_vars PROVE ChannelInv'
  OBVIOUS
<1>1. /\ ops \in Nat /\ ops + 1 \in Nat /\ ops <= ops + 1 /\ ops <= ops /\ Owner \in Nodes
      /\ \A n \in Nodes : channel[n] # NoCopy => channel[n] \in Channels
      /\ \A n \in Nodes : saved[n].channel # NoCopy => saved[n].channel \in Channels
  BY CommunityAssumption DEF CommunityTypes
<1>2. ASSUME NEW members \in SUBSET Others(Owner), CreateGroup(members) PROVE ChannelInv'
  <2>1. /\ UNCHANGED <<channel, saved>> /\ ops' = ops + 1
        /\ \A e \in wire' \ wire : \E g \in Groups : e.body = GroupUpsert(g)
    BY <1>2, CreateGroupStep
  <2>2. \A e \in wire' \ wire : e.body \in GroupBodies
    BY <2>1 DEF GroupBodies
  <2> QED
    BY <1>1, <2>1, <2>2, ChannelFrame, NotForChannel DEF NoNewChannel
<1>3. CASE CreateChannel
  <2>1. PICK c \in Channels :
           /\ c.messages = <<>> /\ Hex(Owner) \in c.subscribers
           /\ "channel" \notin made /\ made' = made \union {"channel"}
           /\ channel' = [channel EXCEPT ![Owner] = c]
           /\ wire' \subseteq Letters /\ wire \subseteq wire'
           /\ \A e \in wire' \ wire : e.body = ChannelUpsert(c) /\ e.to \in Others(Owner)
           /\ \A e, f \in wire' \ wire : e.to = f.to => e = f
           /\ ops' = ops + 1 /\ UNCHANGED <<group, log, saved, restarts>>
    BY <1>3, CreateChannelStep
  <2>2. NoNewEvent(wire', wire)
    BY <2>1, ChannelBodiesDiffer DEF NoNewEvent
  <2>3. \A n \in Nodes : ChannelOk(n, channel[n], wire', ops') /\ ChannelOk(n, saved[n].channel, wire', ops')
    BY <1>1, <2>1, <2>2, ChannelKeeps DEF ChannelInv
  <2>4. \A e \in wire' : EventOk(e, wire', ops')
    BY <1>1, <2>1, <2>2, EventKeeps DEF ChannelInv, ChannelLetterOk
  <2>5. Before(c.messages, ops') /\ \A x \in Nat : Times(x, c.messages) = 0
    BY <1>1, <2>1, TimesEmpty
  <2>6. ChannelOk(Owner, c, wire', ops')
    <3>1. \A x \in Nat : Cardinality(Pending(wire', Owner, ChannelMessage(x))) \in 0..2
      BY PendingType
    <3> QED
      BY <2>5, <3>1 DEF ChannelOk
  <2>7. \A n \in Nodes : channel'[n] = IF n = Owner THEN c ELSE channel[n]
    BY <2>1 DEF CommunityTypes
  <2>8. ASSUME NEW e \in wire' PROVE SnapshotOk(e, ops') /\ (e.body = ChannelSubscribe => e.from # Owner)
    <3>1. CASE e \in wire
      BY <1>1, <2>1, <3>1, SnapshotKeeps DEF ChannelInv, ChannelLetterOk
    <3>2. CASE e \notin wire
      BY <2>1, <2>5, <3>2, ChannelBodiesDiffer DEF SnapshotOk, Others
    <3> QED
      BY <3>1, <3>2
  <2> QED
    BY <2>1, <2>3, <2>4, <2>6, <2>7, <2>8 DEF ChannelInv, ChannelLetterOk
<1>4. CASE Publish
  <2> DEFINE d == [channel[Owner] EXCEPT !.messages = Append(@, ops)]
  <2>1. /\ channel[Owner] \in Channels
        /\ channel' = [channel EXCEPT ![Owner] = d]
        /\ wire' \subseteq Letters /\ wire \subseteq wire'
        /\ \A e \in wire' \ wire :
              /\ e.to # Owner /\ e.copy = 1
              /\ e.body = ChannelMessage(ops) \/ e.body = Fallback(ops)
        /\ \A e, f \in wire' \ wire : e.to = f.to /\ e.body = f.body => e = f
        /\ ops' = ops + 1 /\ UNCHANGED <<group, log, saved, made, restarts>>
    BY <1>4, PublishStep
  <2>2. channel[Owner] # NoCopy
    BY <2>1, CommunityAssumption
  <2>3. d \in Channels /\ d.messages = Append(channel[Owner].messages, ops)
    BY <1>1, <2>1, ChannelAppend
  <2> HIDE DEF d
  <2>4. \A n \in Nodes : channel'[n] = IF n = Owner THEN d ELSE channel[n]
    BY <2>1 DEF CommunityTypes
  <2>5. \A n \in Nodes : ChannelOk(n, channel[n], wire', ops + 1) /\ ChannelOk(n, saved[n].channel, wire', ops + 1)
    BY <1>1, <2>1, ChannelPublishes DEF ChannelInv
  <2>6. \A e \in wire', x \in Nat : e.body = ChannelMessage(x) => e.to # Owner
    BY <2>1 DEF ChannelInv, ChannelLetterOk, EventOk
  <2>7. ChannelOk(Owner, d, wire', ops + 1)
    BY <1>1, <2>1, <2>2, <2>3, <2>6, ChannelPublisher DEF ChannelInv
  <2>8. \A e \in wire : e.body # ChannelMessage(ops)
    BY <1>1 DEF ChannelInv, ChannelLetterOk, EventOk
  <2>9. ASSUME NEW e \in wire' PROVE EventOk(e, wire', ops')
    <3> SUFFICES ASSUME NEW x \in Nat, e.body = ChannelMessage(x)
                 PROVE  /\ x < ops' /\ e.copy = 1 /\ e.to # Owner
                        /\ \A f \in wire' : f.to = e.to /\ f.copy = e.copy /\ f.body = e.body => f = e
      BY DEF EventOk
    <3>1. CASE e \in wire
      <4>1. x < ops /\ e.copy = 1 /\ e.to # Owner
            /\ \A f \in wire : f.to = e.to /\ f.copy = e.copy /\ f.body = e.body => f = e
        BY <3>1 DEF ChannelInv, ChannelLetterOk, EventOk
      <4>2. \A f \in wire' : f.body = e.body => f \in wire
        BY <1>1, <2>1, <2>8, <3>1, ChannelBodiesDiffer
      <4> QED
        BY <1>1, <2>1, <4>1, <4>2
    <3>2. CASE e \notin wire
      <4>1. x = ops /\ e.copy = 1 /\ e.to # Owner
        BY <1>1, <2>1, <3>2, ChannelBodiesDiffer
      <4>2. \A f \in wire' : f.body = e.body => f \notin wire
        BY <2>8, <4>1
      <4> QED
        BY <1>1, <2>1, <3>2, <4>1, <4>2
    <3> QED
      BY <3>1, <3>2
  <2>10. ASSUME NEW e \in wire' PROVE SnapshotOk(e, ops') /\ (e.body = ChannelSubscribe => e.from # Owner)
    <3>1. CASE e \in wire
      BY <1>1, <2>1, <3>1, SnapshotKeeps DEF ChannelInv, ChannelLetterOk
    <3>2. CASE e \notin wire
      <4>1. (\A c \in Channels : e.body # ChannelUpsert(c)) /\ e.body # ChannelSubscribe
        BY <1>1, <2>1, <3>2, ChannelBodiesDiffer, NotForChannel, ChannelMembers
      <4> QED
        BY <4>1 DEF SnapshotOk
    <3> QED
      BY <3>1, <3>2
  <2> QED
    BY <2>1, <2>4, <2>5, <2>7, <2>9, <2>10 DEF ChannelInv, ChannelLetterOk
<1>5. ASSUME NEW n \in Nodes, SendGroup(n) PROVE ChannelInv'
  <2>1. UNCHANGED <<channel, saved>> /\ ops' = ops + 1 /\ \A e \in wire' \ wire : e.body = GroupMessage(ops)
    BY <1>5, SendGroupStep
  <2>2. \A e \in wire' \ wire : e.body \in GroupBodies
    BY <1>1, <2>1 DEF GroupBodies
  <2> QED
    BY <1>1, <2>1, <2>2, ChannelFrame, NotForChannel DEF NoNewChannel
<1>6. ASSUME NEW n \in Nodes, Subscribe(n) PROVE ChannelInv'
  <2> DEFINE d == [channel[n] EXCEPT !.subscribers = @ \cup {Hex(n)}]
  <2>1. /\ channel[n] \in Channels /\ channel' = [channel EXCEPT ![n] = d]
        /\ wire' \subseteq Letters /\ wire \subseteq wire'
        /\ \A e \in wire' \ wire : e.body = ChannelSubscribe /\ e.from = n /\ n # Owner
        /\ ops' = ops + 1 /\ UNCHANGED saved
    BY <1>6, SubscribeStep
  <2>2. d \in Channels /\ d.messages = channel[n].messages /\ channel[n] # NoCopy
    BY <2>1, ChannelSubscriber, CommunityAssumption
  <2> HIDE DEF d
  <2>3. NoNewEvent(wire', wire)
    BY <2>1, ChannelBodiesDiffer DEF NoNewEvent
  <2>4. \A m \in Nodes : ChannelOk(m, channel[m], wire', ops') /\ ChannelOk(m, saved[m].channel, wire', ops')
    BY <1>1, <2>1, <2>3, ChannelKeeps DEF ChannelInv
  <2>5. \A m \in Nodes : channel'[m] = IF m = n THEN d ELSE channel[m]
    BY <2>1 DEF CommunityTypes
  <2>6. ChannelOk(n, d, wire', ops')
    BY <2>2, <2>4 DEF ChannelOk
  <2>7. \A e \in wire' : EventOk(e, wire', ops')
    BY <1>1, <2>1, <2>3, EventKeeps DEF ChannelInv, ChannelLetterOk
  <2>8. ASSUME NEW e \in wire' PROVE SnapshotOk(e, ops') /\ (e.body = ChannelSubscribe => e.from # Owner)
    <3>1. CASE e \in wire
      BY <1>1, <2>1, <3>1, SnapshotKeeps DEF ChannelInv, ChannelLetterOk
    <3>2. CASE e \notin wire
      BY <2>1, <3>2, ChannelBodiesDiffer DEF SnapshotOk
    <3> QED
      BY <3>1, <3>2
  <2> QED
    BY <2>1, <2>4, <2>5, <2>6, <2>7, <2>8 DEF ChannelInv, ChannelLetterOk
<1>7. ASSUME NEW n \in Nodes, Save(n) PROVE ChannelInv'
  <2>1. /\ saved'[n].channel = channel[n] /\ \A m \in Nodes : m # n => saved'[m] = saved[m]
        /\ UNCHANGED <<channel, wire, ops>>
    BY <1>7, SaveStep
  <2>2. \A m \in Nodes : saved'[m].channel = channel[m] \/ saved'[m].channel = saved[m].channel
    BY <2>1
  <2> QED
    BY <2>1, <2>2 DEF ChannelInv
<1>8. ASSUME NEW n \in Nodes, NEW to \in Others(n), SendsLog(n, to) PROVE ChannelInv'
  <2>1. UNCHANGED <<channel, saved>> /\ ops' = ops + 1 /\ \A e \in wire' \ wire : e.body \in LogBodies
    BY <1>8, SendLogStep DEF SendsLog
  <2> QED
    BY <1>1, <2>1, ChannelFrame, NotForChannel DEF NoNewChannel
<1>9. ASSUME NEW n \in Nodes, NEW torn \in BOOLEAN, Restart(n, torn) PROVE ChannelInv'
  <2>1. /\ channel' = [channel EXCEPT ![n] = NoCopy] \/ channel' = [channel EXCEPT ![n] = saved[n].channel]
        /\ UNCHANGED <<saved, wire, ops>>
    BY <1>9, RestartStep
  <2>2. \A m \in Nodes : channel'[m] = channel[m] \/ channel'[m] = NoCopy \/ channel'[m] = saved[m].channel
    BY <2>1 DEF CommunityTypes
  <2>3. \A m \in Nodes : ChannelOk(m, NoCopy, wire, ops)
    BY DEF ChannelOk
  <2> QED
    BY <2>1, <2>2, <2>3 DEF ChannelInv
<1>10. ASSUME NEW e \in wire, Dispatch(e) PROVE ChannelInv'
  <2>1. e.to \in Nodes /\ e.body \in Bodies /\ e.copy \in 1..2 /\ e.from \in Nodes /\ ChannelLetterOk(e, wire, ops)
    BY DEF CommunityTypes, Letters, ChannelInv
  <2>2. CASE e.body \in GroupBodies
    <3>1. wire' = wire \ {e} /\ UNCHANGED <<channel, ops, saved>>
      BY <1>10, <2>2, DispatchGroup
    <3> QED
      BY <1>1, <3>1, ChannelFrame DEF NoNewChannel
  <2>3. CASE e.body \in ChannelBodies
    <3>1. UNCHANGED saved
      BY <1>10, <2>3, DispatchChannel
    <3>2. ASSUME wire' = wire \ {e}, UNCHANGED ops
          PROVE  /\ \A m \in Nodes : ChannelOk(m, channel[m], wire', ops') /\ ChannelOk(m, saved'[m].channel, wire', ops')
                 /\ \A f \in wire' : ChannelLetterOk(f, wire', ops')
      <4>1. NoNewEvent(wire', wire)
        BY <3>2 DEF NoNewEvent
      <4>2. \A f \in wire' : EventOk(f, wire', ops')
        BY <1>1, <3>2, <4>1, EventKeeps DEF ChannelInv, ChannelLetterOk
      <4>3. \A m \in Nodes : ChannelOk(m, channel[m], wire', ops') /\ ChannelOk(m, saved'[m].channel, wire', ops')
        BY <1>1, <3>1, <3>2, <4>1, ChannelKeeps DEF ChannelInv
      <4>4. \A f \in wire' : SnapshotOk(f, ops') /\ (f.body = ChannelSubscribe => f.from # Owner)
        BY <3>2 DEF ChannelInv, ChannelLetterOk
      <4> QED
        BY <4>2, <4>3, <4>4 DEF ChannelLetterOk
    <3>3. ASSUME wire' = wire \ {e}, UNCHANGED ops, UNCHANGED channel PROVE ChannelInv'
      BY <3>2, <3>3 DEF ChannelInv
    <3>4. ASSUME wire' = wire \ {e}, UNCHANGED ops, NEW d \in Channels, channel' = [channel EXCEPT ![e.to] = d],
                 ChannelOk(e.to, d, wire', ops')
          PROVE  ChannelInv'
      <4>1. \A m \in Nodes : channel'[m] = IF m = e.to THEN d ELSE channel[m]
        BY <2>1, <3>4 DEF CommunityTypes
      <4> QED
        BY <3>2, <3>4, <4>1 DEF ChannelInv
    <3>5. ASSUME NEW c \in Channels, e.body = ChannelUpsert(c), wire' = wire \ {e}, UNCHANGED ops,
                 channel' = [channel EXCEPT ![e.to] = c]
          PROVE  ChannelInv'
      <4>1. e.to # Owner /\ Before(c.messages, ops') /\ \A x \in Nat : Times(x, c.messages) <= 1
        BY <2>1, <3>5 DEF ChannelLetterOk, SnapshotOk
      <4>2. \A f \in wire' : EventOk(f, wire', ops')
        BY <3>2, <3>5 DEF ChannelLetterOk
      <4>3. ChannelOk(e.to, c, wire', ops')
        BY <1>1, <3>5, <4>1, <4>2, ChannelReplaced
      <4> QED
        BY <3>4, <3>5, <4>3
    <3>6. ASSUME NEW x \in Nat, e.body = ChannelMessage(x), wire' = wire \ {e}, UNCHANGED ops,
                 channel[e.to] # NoCopy, channel' = [channel EXCEPT ![e.to].messages = Append(@, x)]
          PROVE  ChannelInv'
      <4> DEFINE d == [channel[e.to] EXCEPT !.messages = Append(@, x)]
      <4>1. channel[e.to] \in Channels
        BY <1>1, <2>1, <3>6
      <4>2. d \in Channels /\ d.messages = Append(channel[e.to].messages, x)
        BY <4>1, ChannelAppend
      <4>3. channel' = [channel EXCEPT ![e.to] = d]
        BY <3>6
      <4> HIDE DEF d
      <4>4. EventOk(e, wire, ops) /\ ChannelOk(e.to, channel[e.to], wire, ops)
        BY <2>1 DEF ChannelInv, ChannelLetterOk
      <4>5. ChannelOk(e.to, d, wire', ops')
        BY <1>1, <3>6, <4>1, <4>2, <4>4, ChannelTakes
      <4> QED
        BY <3>4, <3>6, <4>2, <4>3, <4>5
    <3>7. ASSUME e.body = ChannelSubscribe, OnSubscribe(Owner, e), channel[Owner] # NoCopy PROVE ChannelInv'
      <4>1. PICK c \in Channels :
              /\ channel[Owner] \in Channels
              /\ c.messages = channel[Owner].messages
              /\ c.subscribers = channel[Owner].subscribers \union {Hex(e.from)}
              /\ channel' = [channel EXCEPT ![Owner] = c]
              /\ wire' = (wire \ {e}) \union {Envelope(Owner, e.from, 1, ChannelUpsert(c))}
              /\ Envelope(Owner, e.from, 1, ChannelUpsert(c)) \in Letters
              /\ Envelope(Owner, e.from, 1, ChannelUpsert(c)).body = ChannelUpsert(c)
              /\ Envelope(Owner, e.from, 1, ChannelUpsert(c)).to = e.from
              /\ ops' = ops + 1
        BY <3>7, OnSubscribeStep
      <4>2. e.from # Owner
        BY <2>1, <3>7 DEF ChannelLetterOk
      <4>3. NoNewEvent(wire', wire)
        BY <4>1, ChannelBodiesDiffer DEF NoNewEvent
      <4>4. \A m \in Nodes : ChannelOk(m, channel[m], wire', ops') /\ ChannelOk(m, saved'[m].channel, wire', ops')
        BY <1>1, <3>1, <4>1, <4>3, ChannelKeeps DEF ChannelInv
      <4>5. \A f \in wire' : EventOk(f, wire', ops')
        BY <1>1, <4>1, <4>3, EventKeeps DEF ChannelInv, ChannelLetterOk
      <4>6. ChannelOk(Owner, c, wire', ops')
        BY <1>1, <3>7, <4>1, <4>4 DEF ChannelOk
      <4>7. Before(c.messages, ops') /\ \A x \in Nat : Times(x, c.messages) <= 1
        BY <1>1, <3>7, <4>1, <4>4 DEF ChannelOk
      <4>8. \A m \in Nodes : channel'[m] = IF m = Owner THEN c ELSE channel[m]
        BY <4>1 DEF CommunityTypes
      <4>9. ASSUME NEW f \in wire' PROVE SnapshotOk(f, ops') /\ (f.body = ChannelSubscribe => f.from # Owner)
        <5>1. CASE f \in wire
          BY <1>1, <4>1, <5>1, SnapshotKeeps DEF ChannelInv, ChannelLetterOk
        <5>2. CASE f \notin wire
          <6>1. f.body = ChannelUpsert(c) /\ f.to = e.from
            BY <4>1, <5>2
          <6> QED
            BY <4>2, <4>7, <6>1, ChannelBodiesDiffer DEF SnapshotOk
        <5> QED
          BY <5>1, <5>2
      <4> QED
        BY <4>4, <4>5, <4>6, <4>8, <4>9 DEF ChannelInv, ChannelLetterOk
    <3> QED
      BY <1>10, <2>3, <3>3, <3>5, <3>6, <3>7, DispatchChannel
  <2>4. ASSUME NEW x \in Nat, e.body = Fallback(x) PROVE ChannelInv'
    BY <1>1, <1>10, <2>4, DispatchFallback, ChannelFrame DEF NoNewChannel
  <2>5. CASE e.body \in LogBodies
    <3>1. wire' = wire \ {e} /\ UNCHANGED <<channel, ops, saved>>
      BY <1>10, <2>5, DispatchLog
    <3> QED
      BY <1>1, <3>1, ChannelFrame DEF NoNewChannel
  <2> QED
    BY <2>1, <2>2, <2>3, <2>4, <2>5 DEF Bodies
<1>11. CASE UNCHANGED vars
  BY <1>1, <1>11, ChannelFrame DEF vars, NoNewChannel
<1> QED
  BY <1>2, <1>3, <1>4, <1>5, <1>6, <1>7, <1>8, <1>9, <1>10, <1>11 DEF Next, SendsLog

-----------------------------------------------------------------------------
(* Subscriptions *)

IsSnapshot(e) == \E c \in Channels : e.body = ChannelUpsert(c)

\* A snapshot without its addressee.
Bare(e) == \E c \in Channels : e.body = ChannelUpsert(c) /\ Hex(e.to) \notin c.subscribers

\* An addressee that is not in the snapshot has nothing to lose: it has no copy,
\* no saved one, no other snapshot on its way and has asked for none.
BareOk(e, ch, sv, w) ==
  Bare(e) =>
    /\ ch[e.to] = NoCopy /\ sv[e.to].channel = NoCopy
    /\ \A f \in w : f.to = e.to /\ IsSnapshot(f) => f = e
    /\ \A f \in w : f.body = ChannelSubscribe => f.from # e.to

SubscriberInv ==
  /\ \A e \in wire : BareOk(e, channel, saved, wire)
  /\ "channel" \notin made =>
       /\ \A n \in Nodes : channel[n] = NoCopy /\ saved[n].channel = NoCopy
       /\ \A e \in wire : ~IsSnapshot(e) /\ e.body # ChannelSubscribe

LEMMA SubscriberFrame ==
  ASSUME CommunityTypes, SubscriberInv, "channel" \in made => "channel" \in made',
         \A n \in Nodes : channel[n] = NoCopy => channel'[n] = NoCopy,
         \A n \in Nodes : saved[n].channel = NoCopy => saved'[n].channel = NoCopy,
         \A e \in wire' : IsSnapshot(e) \/ e.body = ChannelSubscribe => e \in wire
  PROVE  SubscriberInv'
<1>1. \A e \in wire' : Bare(e) => e \in wire /\ e.to \in Nodes
  BY DEF Bare, IsSnapshot, CommunityTypes, Letters
<1>2. \A e \in wire' : BareOk(e, channel', saved', wire')
  BY <1>1 DEF SubscriberInv, BareOk
<1> QED
  BY <1>2 DEF SubscriberInv

LEMMA NoSnapshot ==
  ASSUME NEW e, e.body \in GroupBodies \union LogBodies \/ \E x \in Nat : e.body = Fallback(x) \/ e.body = ChannelMessage(x)
  PROVE  ~(IsSnapshot(e) \/ e.body = ChannelSubscribe)
BY NotForChannel, ChannelMembers, ChannelBodiesDiffer DEF IsSnapshot

LEMMA SubscriberStep == CommunityTypes /\ SubscriberInv /\ [Next]_vars => SubscriberInv'
<1> SUFFICES ASSUME CommunityTypes, SubscriberInv, [Next]_vars PROVE SubscriberInv'
  OBVIOUS
<1>1. /\ ops \in Nat /\ Owner \in Nodes
      /\ \A n \in Nodes : channel[n] # NoCopy => channel[n] \in Channels
      /\ \A e \in wire : e.to \in Nodes
  BY CommunityAssumption DEF CommunityTypes, Letters
<1>2. ASSUME NEW members \in SUBSET Others(Owner), CreateGroup(members) PROVE SubscriberInv'
  <2>1. /\ UNCHANGED <<channel, saved>> /\ made \subseteq made'
        /\ \A e \in wire' \ wire : \E g \in Groups : e.body = GroupUpsert(g)
    BY <1>2, CreateGroupStep
  <2>2. \A e \in wire' \ wire : e.body \in GroupBodies
    BY <2>1 DEF GroupBodies
  <2>3. \A e \in wire' : IsSnapshot(e) \/ e.body = ChannelSubscribe => e \in wire
    BY <2>2, NoSnapshot
  <2> QED
    BY <2>1, <2>3, SubscriberFrame
<1>3. CASE CreateChannel
  <2>1. PICK c \in Channels :
           /\ c.messages = <<>> /\ Hex(Owner) \in c.subscribers
           /\ "channel" \notin made /\ made' = made \union {"channel"}
           /\ channel' = [channel EXCEPT ![Owner] = c]
           /\ wire' \subseteq Letters /\ wire \subseteq wire'
           /\ \A e \in wire' \ wire : e.body = ChannelUpsert(c) /\ e.to \in Others(Owner)
           /\ \A e, f \in wire' \ wire : e.to = f.to => e = f
           /\ ops' = ops + 1 /\ UNCHANGED <<group, log, saved, restarts>>
    BY <1>3, CreateChannelStep
  <2>2. /\ \A n \in Nodes : channel[n] = NoCopy /\ saved[n].channel = NoCopy
        /\ \A e \in wire : ~IsSnapshot(e) /\ e.body # ChannelSubscribe
    BY <2>1 DEF SubscriberInv
  <2>3. \A n \in Others(Owner) : n \in Nodes /\ channel'[n] = NoCopy /\ saved'[n].channel = NoCopy
    BY <2>1, <2>2 DEF CommunityTypes, Others
  <2>4. \A e \in wire' : e.body # ChannelSubscribe
    BY <2>1, <2>2, ChannelBodiesDiffer
  <2>5. \A e \in wire' : IsSnapshot(e) => e \notin wire
    BY <2>2
  <2>6. \A e \in wire' : Bare(e) => IsSnapshot(e)
    BY DEF Bare, IsSnapshot
  <2>7. \A e \in wire' : BareOk(e, channel', saved', wire')
    BY <2>1, <2>3, <2>4, <2>5, <2>6 DEF BareOk
  <2> QED
    BY <2>1, <2>7 DEF SubscriberInv
<1>4. CASE Publish
  <2> DEFINE d == [channel[Owner] EXCEPT !.messages = Append(@, ops)]
  <2>1. /\ channel[Owner] \in Channels /\ channel' = [channel EXCEPT ![Owner] = d]
        /\ UNCHANGED <<saved, made>>
        /\ \A e \in wire' \ wire : e.body = ChannelMessage(ops) \/ e.body = Fallback(ops)
    BY <1>4, PublishStep
  <2> HIDE DEF d
  <2>2. \A n \in Nodes : channel[n] = NoCopy => channel'[n] = NoCopy
    BY <2>1, CommunityAssumption DEF CommunityTypes
  <2>3. \A e \in wire' : IsSnapshot(e) \/ e.body = ChannelSubscribe => e \in wire
    BY <1>1, <2>1, NoSnapshot
  <2> QED
    BY <2>1, <2>2, <2>3, SubscriberFrame
<1>5. ASSUME NEW n \in Nodes, SendGroup(n) PROVE SubscriberInv'
  <2>1. UNCHANGED <<channel, saved, made>> /\ \A e \in wire' \ wire : e.body = GroupMessage(ops)
    BY <1>5, SendGroupStep
  <2>2. \A e \in wire' \ wire : e.body \in GroupBodies
    BY <1>1, <2>1 DEF GroupBodies
  <2>3. \A e \in wire' : IsSnapshot(e) \/ e.body = ChannelSubscribe => e \in wire
    BY <2>2, NoSnapshot
  <2> QED
    BY <2>1, <2>3, SubscriberFrame
<1>6. ASSUME NEW n \in Nodes, Subscribe(n) PROVE SubscriberInv'
  <2> DEFINE d == [channel[n] EXCEPT !.subscribers = @ \cup {Hex(n)}]
  <2>1. /\ channel[n] \in Channels /\ channel' = [channel EXCEPT ![n] = d]
        /\ wire \subseteq wire' /\ UNCHANGED <<saved, made>>
        /\ \A e \in wire' \ wire : e.body = ChannelSubscribe /\ e.from = n
    BY <1>6, SubscribeStep
  <2> HIDE DEF d
  <2>2. channel[n] # NoCopy /\ \A m \in Nodes : channel[m] = NoCopy => channel'[m] = NoCopy
    BY <2>1, CommunityAssumption DEF CommunityTypes
  <2>3. \A e \in wire' : IsSnapshot(e) => e \in wire
    BY <2>1, ChannelBodiesDiffer DEF IsSnapshot
  <2>4. \A e \in wire' : Bare(e) => e \in wire /\ IsSnapshot(e)
    BY <2>3 DEF Bare, IsSnapshot
  <2>5. ASSUME NEW e \in wire', Bare(e)
        PROVE  /\ channel'[e.to] = NoCopy /\ saved'[e.to].channel = NoCopy
               /\ \A f \in wire' : f.to = e.to /\ IsSnapshot(f) => f = e
               /\ \A f \in wire' : f.body = ChannelSubscribe => f.from # e.to
    <3>1. e \in wire /\ BareOk(e, channel, saved, wire) /\ e.to \in Nodes
      BY <1>1, <2>4, <2>5 DEF SubscriberInv
    <3>2. e.to # n
      BY <2>2, <2>5, <3>1 DEF BareOk
    <3> QED
      BY <2>1, <2>2, <2>3, <2>5, <3>1, <3>2 DEF BareOk
  <2>6. \A e \in wire' : BareOk(e, channel', saved', wire')
    BY <2>5 DEF BareOk
  <2>7. "channel" \in made
    BY <2>2 DEF SubscriberInv
  <2> QED
    BY <2>1, <2>6, <2>7 DEF SubscriberInv
<1>7. ASSUME NEW n \in Nodes, Save(n) PROVE SubscriberInv'
  <2>1. /\ saved'[n].channel = channel[n] /\ \A m \in Nodes : m # n => saved'[m] = saved[m]
        /\ UNCHANGED <<channel, wire, made>>
    BY <1>7, SaveStep
  <2>2. \A m \in Nodes : saved'[m].channel = channel[m] \/ saved'[m].channel = saved[m].channel
    BY <2>1
  <2>3. \A e \in wire : BareOk(e, channel', saved', wire')
    BY <1>1, <2>1, <2>2 DEF SubscriberInv, BareOk
  <2> QED
    BY <2>1, <2>2, <2>3 DEF SubscriberInv
<1>8. ASSUME NEW n \in Nodes, NEW to \in Others(n), SendsLog(n, to) PROVE SubscriberInv'
  <2>1. UNCHANGED <<channel, saved, made>> /\ \A e \in wire' \ wire : e.body \in LogBodies
    BY <1>8, SendLogStep DEF SendsLog
  <2>2. \A e \in wire' : IsSnapshot(e) \/ e.body = ChannelSubscribe => e \in wire
    BY <2>1, NoSnapshot
  <2> QED
    BY <2>1, <2>2, SubscriberFrame
<1>9. ASSUME NEW n \in Nodes, NEW torn \in BOOLEAN, Restart(n, torn) PROVE SubscriberInv'
  <2>1. /\ channel' = [channel EXCEPT ![n] = NoCopy] \/ channel' = [channel EXCEPT ![n] = saved[n].channel]
        /\ UNCHANGED <<saved, wire, made>>
    BY <1>9, RestartStep
  <2>2. \A m \in Nodes : channel'[m] = channel[m] \/ channel'[m] = NoCopy \/ channel'[m] = saved[m].channel
    BY <2>1 DEF CommunityTypes
  <2>3. \A e \in wire : BareOk(e, channel', saved', wire')
    BY <1>1, <2>1, <2>2 DEF SubscriberInv, BareOk
  <2> QED
    BY <2>1, <2>2, <2>3 DEF SubscriberInv
<1>10. ASSUME NEW e \in wire, Dispatch(e) PROVE SubscriberInv'
  <2>1. e.to \in Nodes /\ e.body \in Bodies /\ e.from \in Nodes
    BY DEF CommunityTypes, Letters
  <2>2. CASE e.body \in GroupBodies
    <3>1. wire' = wire \ {e} /\ UNCHANGED <<channel, saved, made>>
      BY <1>10, <2>2, DispatchGroup
    <3> QED
      BY <3>1, SubscriberFrame
  <2>3. CASE e.body \in ChannelBodies
    <3>1. UNCHANGED <<saved, made>>
      BY <1>10, <2>3, DispatchChannel
    <3>2. ASSUME wire' = wire \ {e}, UNCHANGED channel PROVE SubscriberInv'
      BY <3>1, <3>2, SubscriberFrame
    <3>3. ASSUME NEW c \in Channels, e.body = ChannelUpsert(c), wire' = wire \ {e},
                 channel' = [channel EXCEPT ![e.to] = c]
          PROVE  SubscriberInv'
      <4>1. IsSnapshot(e) /\ "channel" \in made
        BY <3>3 DEF IsSnapshot, SubscriberInv
      <4>2. ASSUME NEW f \in wire', Bare(f) PROVE BareOk(f, channel', saved', wire')
        <5>1. f \in wire /\ f # e /\ BareOk(f, channel, saved, wire)
          BY <3>3 DEF SubscriberInv
        <5>2. f.to # e.to /\ f.to \in Nodes
          BY <1>1, <4>1, <4>2, <5>1 DEF BareOk
        <5>3. channel'[f.to] = channel[f.to]
          BY <3>3, <5>2 DEF CommunityTypes
        <5> QED
          BY <3>1, <3>3, <4>2, <5>1, <5>3 DEF BareOk
      <4>3. \A f \in wire' : BareOk(f, channel', saved', wire')
        BY <4>2 DEF BareOk
      <4> QED
        BY <3>1, <4>1, <4>3 DEF SubscriberInv
    <3>4. ASSUME NEW x \in Nat, e.body = ChannelMessage(x), wire' = wire \ {e},
                 channel[e.to] # NoCopy, channel' = [channel EXCEPT ![e.to].messages = Append(@, x)]
          PROVE  SubscriberInv'
      <4> DEFINE d == [channel[e.to] EXCEPT !.messages = Append(@, x)]
      <4>1. channel' = [channel EXCEPT ![e.to] = d]
        BY <3>4
      <4> HIDE DEF d
      <4>2. \A m \in Nodes : channel[m] = NoCopy => channel'[m] = NoCopy
        BY <3>4, <4>1 DEF CommunityTypes
      <4> QED
        BY <3>1, <3>4, <4>2, SubscriberFrame
    <3>5. ASSUME e.body = ChannelSubscribe, OnSubscribe(Owner, e), channel[Owner] # NoCopy PROVE SubscriberInv'
      <4>1. PICK c \in Channels :
              /\ channel[Owner] \in Channels
              /\ c.messages = channel[Owner].messages
              /\ c.subscribers = channel[Owner].subscribers \union {Hex(e.from)}
              /\ channel' = [channel EXCEPT ![Owner] = c]
              /\ wire' = (wire \ {e}) \union {Envelope(Owner, e.from, 1, ChannelUpsert(c))}
              /\ Envelope(Owner, e.from, 1, ChannelUpsert(c)) \in Letters
              /\ Envelope(Owner, e.from, 1, ChannelUpsert(c)).body = ChannelUpsert(c)
              /\ Envelope(Owner, e.from, 1, ChannelUpsert(c)).to = e.from
              /\ ops' = ops + 1
        BY <3>5, OnSubscribeStep
      <4> DEFINE new == Envelope(Owner, e.from, 1, ChannelUpsert(c))
      <4>2. new.body = ChannelUpsert(c) /\ new.to = e.from /\ wire' = (wire \ {e}) \union {new}
        BY <4>1
      <4> HIDE DEF new
      <4>3. ~Bare(new) /\ new.body # ChannelSubscribe
        <5>1. Hex(new.to) \in c.subscribers
          BY <4>1, <4>2
        <5> QED
          BY <4>2, <5>1, ChannelBodiesDiffer DEF Bare
      <4>4. \A m \in Nodes : channel[m] = NoCopy => channel'[m] = NoCopy
        BY <3>5, <4>1 DEF CommunityTypes
      <4>5. ASSUME NEW f \in wire', Bare(f)
            PROVE  /\ channel'[f.to] = NoCopy /\ saved'[f.to].channel = NoCopy
                   /\ \A g \in wire' : g.to = f.to /\ IsSnapshot(g) => g = f
                   /\ \A g \in wire' : g.body = ChannelSubscribe => g.from # f.to
        <5>1. f \in wire /\ f.to \in Nodes /\ BareOk(f, channel, saved, wire)
          BY <1>1, <4>2, <4>3, <4>5 DEF SubscriberInv
        <5>2. e.from # f.to
          BY <3>5, <4>5, <5>1 DEF BareOk
        <5> QED
          BY <3>1, <4>2, <4>3, <4>4, <4>5, <5>1, <5>2 DEF BareOk
      <4>6. \A f \in wire' : BareOk(f, channel', saved', wire')
        BY <4>5 DEF BareOk
      <4>7. "channel" \in made
        BY <1>1, <3>5 DEF SubscriberInv
      <4> QED
        BY <3>1, <4>6, <4>7 DEF SubscriberInv
    <3> QED
      BY <1>10, <2>3, <3>2, <3>3, <3>4, <3>5, DispatchChannel
  <2>4. ASSUME NEW x \in Nat, e.body = Fallback(x) PROVE SubscriberInv'
    BY <1>10, <2>4, DispatchFallback, SubscriberFrame
  <2>5. CASE e.body \in LogBodies
    <3>1. wire' = wire \ {e} /\ UNCHANGED <<channel, saved, made>>
      BY <1>10, <2>5, DispatchLog
    <3> QED
      BY <3>1, SubscriberFrame
  <2> QED
    BY <2>1, <2>2, <2>3, <2>4, <2>5 DEF Bodies
<1>11. CASE UNCHANGED vars
  BY <1>11, SubscriberFrame DEF vars
<1> QED
  BY <1>2, <1>3, <1>4, <1>5, <1>6, <1>7, <1>8, <1>9, <1>10, <1>11 DEF Next, SendsLog

-----------------------------------------------------------------------------
(* The theorems *)

CommunityInv == CommunityTypes /\ LogInv /\ GroupInv /\ ChannelInv /\ SubscriberInv

LEMMA CommunityStart == Init => CommunityInv
<1> SUFFICES ASSUME Init PROVE CommunityInv
  OBVIOUS
<1>1. /\ group = [n \in Nodes |-> NoCopy] /\ channel = [n \in Nodes |-> NoCopy]
      /\ log = [n \in Nodes |-> <<>>]
      /\ saved = [n \in Nodes |-> [group |-> NoCopy, channel |-> NoCopy]]
      /\ wire = {} /\ ops = 0 /\ restarts = 0
  BY DEF Init
<1>2. CommunityTypes
  <2>1. log \in [Nodes -> Seq(Entries)]
    BY <1>1
  <2>2. saved \in [Nodes -> [group : Groups \union {NoCopy}, channel : Channels \union {NoCopy}]]
    BY <1>1
  <2> QED
    BY <1>1, <2>1, <2>2 DEF CommunityTypes
<1>3. LogInv
  BY <1>1 DEF LogInv, ReceivedOnce
<1>4. \A n \in Nodes : saved[n].group = NoCopy /\ saved[n].channel = NoCopy /\ group[n] = NoCopy /\ channel[n] = NoCopy
  BY <1>1
<1>5. GroupInv
  <2>1. \A n \in Nodes : GroupOk(n, NoCopy, wire, ops)
    BY DEF GroupOk
  <2>2. AllMembers({}, group, saved, wire)
    BY <1>1, <1>4 DEF AllMembers, MemberOk
  <2> QED
    BY <1>1, <1>4, <2>1, <2>2 DEF GroupInv
<1>6. ChannelInv
  <2>1. \A n \in Nodes : ChannelOk(n, NoCopy, wire, ops)
    BY DEF ChannelOk
  <2> QED
    BY <1>1, <1>4, <2>1 DEF ChannelInv
<1>7. SubscriberInv
  BY <1>1, <1>4 DEF SubscriberInv
<1> QED
  BY <1>2, <1>3, <1>5, <1>6, <1>7 DEF CommunityInv

LEMMA CommunityStep == CommunityInv /\ [Next]_vars => CommunityInv'
BY TypesStep, LogStep, GroupStep, ChannelStep, SubscriberStep DEF CommunityInv

LEMMA CommunityAlways == Spec => []CommunityInv
BY CommunityStart, CommunityStep, PTL DEF Spec

\* A message under an id that the log already has is dropped, so a direct message
\* or a signal that came is shown once.
THEOREM ShownOnceTheorem == Spec => []ReceivedOnce
<1>1. CommunityInv => ReceivedOnce
  BY DEF CommunityInv, LogInv
<1> QED
  BY <1>1, CommunityAlways, PTL

\* Whatever is lost, late, repeated or restored from an old file, only members
\* have the group and all copies list the same members.
THEOREM GroupPrivateTheorem == Spec => []GroupPrivate
<1>1. GroupInv => GroupPrivate
  BY DEF GroupInv, AllMembers, MemberOk, GroupPrivate
<1>2. CommunityInv => GroupPrivate
  BY <1>1 DEF CommunityInv
<1> QED
  BY <1>2, CommunityAlways, PTL

\* No copy shows a message of the group or of the channel more than twice.
THEOREM AtMostTwiceTheorem == Spec => []AtMostTwice
<1>1. CommunityInv => AtMostTwice
  <2> SUFFICES ASSUME CommunityInv, NEW n \in Nodes, NEW x \in 0..MaxOps
               PROVE  /\ group[n] # NoCopy => Times(x, group[n].messages) <= 2
                      /\ channel[n] # NoCopy => Times(x, channel[n].messages) <= 2
    BY DEF AtMostTwice
  <2>1. x \in Nat
    BY CommunityAssumption
  <2>2. ASSUME group[n] # NoCopy PROVE Times(x, group[n].messages) <= 2
    <3>1. group[n].messages \in Seq(Nat)
      BY <2>2 DEF CommunityInv, CommunityTypes, Groups
    <3>2. Times(x, group[n].messages) + Cardinality(Pending(wire, n, GroupMessage(x))) <= 2
      BY <2>1, <2>2 DEF CommunityInv, GroupInv, GroupOk
    <3>3. Times(x, group[n].messages) \in Nat /\ Cardinality(Pending(wire, n, GroupMessage(x))) \in 0..2
      BY <2>1, <3>1, TimesType, PendingType
    <3> QED
      BY <3>2, <3>3
  <2>3. ASSUME channel[n] # NoCopy PROVE Times(x, channel[n].messages) <= 2
    <3>1. channel[n].messages \in Seq(Nat)
      BY <2>3 DEF CommunityInv, CommunityTypes, Channels
    <3>2. Times(x, channel[n].messages) + Cardinality(Pending(wire, n, ChannelMessage(x))) <= 2
      BY <2>1, <2>3 DEF CommunityInv, ChannelInv, ChannelOk
    <3>3. Times(x, channel[n].messages) \in Nat /\ Cardinality(Pending(wire, n, ChannelMessage(x))) \in 0..2
      BY <2>1, <3>1, TimesType, PendingType
    <3> QED
      BY <3>2, <3>3
  <2> QED
    BY <2>2, <2>3
<1> QED
  BY <1>1, CommunityAlways, PTL

\* A copy of n that stays or keeps n as a subscriber.
KeepsSubscription(n) ==
  channel'[n] = channel[n] \/ (channel'[n] \in Channels /\ (Hex(n) \in channel[n].subscribers => Hex(n) \in channel'[n].subscribers))

LEMMA SticksStep ==
  ASSUME CommunityInv, [Next]_vars, restarts' = restarts, NEW n \in Nodes, channel[n] \in Channels
  PROVE  KeepsSubscription(n)
<1>1. CommunityTypes /\ SubscriberInv /\ channel[n] # NoCopy /\ ops \in Nat /\ Owner \in Nodes /\ restarts \in Nat
  BY CommunityAssumption DEF CommunityInv, CommunityTypes
<1>2. ASSUME NEW m \in Nodes, NEW d \in Channels, channel' = [channel EXCEPT ![m] = d],
             m = n => (Hex(n) \in channel[n].subscribers => Hex(n) \in d.subscribers)
      PROVE  KeepsSubscription(n)
  BY <1>1, <1>2 DEF KeepsSubscription, CommunityTypes
<1>3. ASSUME NEW members \in SUBSET Others(Owner), CreateGroup(members) PROVE KeepsSubscription(n)
  BY <1>1, <1>3, CreateGroupStep DEF KeepsSubscription
<1>4. CASE CreateChannel
  <2>1. PICK c \in Channels : Hex(Owner) \in c.subscribers /\ channel' = [channel EXCEPT ![Owner] = c]
    BY <1>1, <1>4, CreateChannelStep
  <2> QED
    BY <1>1, <1>2, <2>1
<1>5. CASE Publish
  <2> DEFINE d == [channel[Owner] EXCEPT !.messages = Append(@, ops)]
  <2>1. channel[Owner] \in Channels /\ channel' = [channel EXCEPT ![Owner] = d]
    BY <1>1, <1>5, PublishStep
  <2>2. d \in Channels /\ d.subscribers = channel[Owner].subscribers
    BY <1>1, <2>1, ChannelAppend
  <2> HIDE DEF d
  <2> QED
    BY <1>1, <1>2, <2>1, <2>2
<1>6. ASSUME NEW m \in Nodes, SendGroup(m) PROVE KeepsSubscription(n)
  BY <1>1, <1>6, SendGroupStep DEF KeepsSubscription
<1>7. ASSUME NEW m \in Nodes, Subscribe(m) PROVE KeepsSubscription(n)
  <2> DEFINE d == [channel[m] EXCEPT !.subscribers = @ \cup {Hex(m)}]
  <2>1. channel[m] \in Channels /\ channel' = [channel EXCEPT ![m] = d]
    BY <1>1, <1>7, SubscribeStep
  <2>2. d \in Channels /\ d.subscribers = channel[m].subscribers \union {Hex(m)}
    BY <2>1, ChannelSubscriber
  <2> HIDE DEF d
  <2> QED
    BY <1>2, <2>1, <2>2
<1>8. ASSUME NEW m \in Nodes, Save(m) PROVE KeepsSubscription(n)
  BY <1>1, <1>8, SaveStep DEF KeepsSubscription
<1>9. ASSUME NEW m \in Nodes, NEW to \in Others(m), SendsLog(m, to) PROVE KeepsSubscription(n)
  <2>1. UNCHANGED channel
    BY <1>1, <1>9, SendLogStep DEF SendsLog
  <2> QED
    BY <2>1 DEF KeepsSubscription
<1>10. ASSUME NEW m \in Nodes, NEW torn \in BOOLEAN, Restart(m, torn) PROVE KeepsSubscription(n)
  BY <1>1, <1>10, RestartStep
<1>11. ASSUME NEW e \in wire, Dispatch(e) PROVE KeepsSubscription(n)
  <2>1. e.to \in Nodes /\ e.body \in Bodies /\ e.from \in Nodes
    BY <1>1 DEF CommunityTypes, Letters
  <2>2. CASE e.body \in GroupBodies
    BY <1>1, <1>11, <2>2, DispatchGroup DEF KeepsSubscription
  <2>3. CASE e.body \in ChannelBodies
    <3>1. ASSUME UNCHANGED channel PROVE KeepsSubscription(n)
      BY <3>1 DEF KeepsSubscription
    <3>2. ASSUME NEW c \in Channels, e.body = ChannelUpsert(c), channel' = [channel EXCEPT ![e.to] = c]
          PROVE  KeepsSubscription(n)
      <4>1. e.to = n => Hex(n) \in c.subscribers
        <5>1. BareOk(e, channel, saved, wire)
          BY <1>1 DEF SubscriberInv
        <5> QED
          BY <1>1, <3>2, <5>1 DEF BareOk, Bare
      <4> QED
        BY <1>2, <2>1, <3>2, <4>1
    <3>3. ASSUME NEW x \in Nat, channel[e.to] # NoCopy, channel' = [channel EXCEPT ![e.to].messages = Append(@, x)]
          PROVE  KeepsSubscription(n)
      <4> DEFINE d == [channel[e.to] EXCEPT !.messages = Append(@, x)]
      <4>1. channel[e.to] \in Channels
        BY <1>1, <2>1, <3>3 DEF CommunityTypes
      <4>2. d \in Channels /\ d.subscribers = channel[e.to].subscribers
        BY <4>1, ChannelAppend
      <4>3. channel' = [channel EXCEPT ![e.to] = d]
        BY <3>3
      <4> HIDE DEF d
      <4> QED
        BY <1>2, <2>1, <4>2, <4>3
    <3>4. ASSUME OnSubscribe(Owner, e), channel[Owner] # NoCopy PROVE KeepsSubscription(n)
      <4>1. PICK c \in Channels :
              /\ c.subscribers = channel[Owner].subscribers \union {Hex(e.from)}
              /\ channel' = [channel EXCEPT ![Owner] = c]
        BY <1>1, <3>4, OnSubscribeStep
      <4> QED
        BY <1>1, <1>2, <4>1
    <3> QED
      BY <1>1, <1>11, <2>3, <3>1, <3>2, <3>3, <3>4, DispatchChannel
  <2>4. ASSUME NEW x \in Nat, e.body = Fallback(x) PROVE KeepsSubscription(n)
    BY <1>1, <1>11, <2>4, DispatchFallback DEF KeepsSubscription
  <2>5. CASE e.body \in LogBodies
    BY <1>1, <1>11, <2>5, DispatchLog DEF KeepsSubscription
  <2> QED
    BY <2>1, <2>2, <2>3, <2>4, <2>5 DEF Bodies
<1>12. CASE UNCHANGED vars
  BY <1>12 DEF vars, KeepsSubscription
<1> QED
  BY <1>3, <1>4, <1>5, <1>6, <1>7, <1>8, <1>9, <1>10, <1>11, <1>12 DEF Next, SendsLog

\* No late upsert or snapshot takes a node out of the subscribers of its own copy.
THEOREM SubscriptionTheorem == Spec => SubscriptionSticks
<1> DEFINE Sticks == restarts' = restarts => \A n \in Nodes : Subscribed(n) => Subscribed(n)'
<1>1. CommunityInv /\ [Next]_vars => [Sticks]_vars
  <2> SUFFICES ASSUME CommunityInv, [Next]_vars, restarts' = restarts, NEW n \in Nodes, Subscribed(n)
               PROVE  Subscribed(n)'
    OBVIOUS
  <2>1. channel[n] \in Channels /\ Hex(n) \in channel[n].subscribers
    BY DEF Subscribed, CommunityInv, CommunityTypes
  <2>2. KeepsSubscription(n)
    BY <2>1, SticksStep
  <2> QED
    BY <2>1, <2>2, CommunityAssumption DEF KeepsSubscription, Subscribed
<1>2. Spec => [][Sticks]_vars
  BY <1>1, CommunityAlways, PTL DEF Spec
<1> QED
  BY <1>2 DEF SubscriptionSticks
=============================================================================
