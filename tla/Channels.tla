------------------------------- MODULE Channels -------------------------------
(***************************************************************************)
(* Publish and subscribe (broker.rs subscribe_channels, publish, notify;   *)
(* api.rs subscribe): what is published is put, under the broker's lock,   *)
(* in the queue of each subscription that names its channel, or has a      *)
(* pattern it matches, and may hear of it.  A connection's thread takes it *)
(* out without the lock, in two steps: the delivery, then its bytes off    *)
(* the count.  A subscription that cannot take one more is dropped.        *)
(*                                                                         *)
(* A channel's bytes, and a message's, are its length in characters.  A    *)
(* subscription names each of its patterns once.                           *)
(***************************************************************************)
EXTENDS Scopes

CONSTANTS Conn,           \* connections that subscribe
          Token,          \* tokens
          Holder,         \* whose token each connection uses
          NoPattern       \* a delivery to a channel named exactly

VARIABLES setup,     \* scopes, limits and bounds: see Reach
          channels,  \* Core::channels: the subscriptions
          conns      \* each connection's end: Deliveries, and its thread

Idle == [held |-> FALSE, queue |-> <<>>, waiting |-> 0, taken |-> 0, owed |-> <<>>,
         channels |-> {}, patterns |-> {}]

Size(d) == Len(d.channel) + Len(d.message) + (IF d.pattern = NoPattern THEN 0 ELSE Len(d.pattern))
Taken(d) == Size(d)      \* what recv_timeout takes off the count

Scope(c) == setup.scopes[Holder[c]]
alive(c) == conns[c].held
live_channels == {s \in channels : alive(s.conn)}
Subscribed(c) == \E s \in channels : s.conn = c

hears_keys_starting(chs, pats) ==      \* patterns that start as the channels do, only
    \/ \E ch \in chs : IsPrefix(Reserved, ch)
    \/ \E p \in pats : IsPrefix(Reserved, literal_prefix(p))

\* Whether key changes can reach a subscription: their channels all start with
\* Reserved, so a pattern may match one when its start and that agree as far as
\* both go.
hears_keys(chs, pats) ==
    \/ \E ch \in chs : IsPrefix(Reserved, ch)
    \/ \E p \in pats : \/ IsPrefix(Reserved, literal_prefix(p))
                       \/ IsPrefix(literal_prefix(p), Reserved)
-----------------------------------------------------------------------------
(***************************************************************************)
(* Publishing.                                                             *)
(***************************************************************************)
\* The patterns of each subscription are kept in the order they were given: here
\* in the order of texts.
Delivered(direct, patterns, ch, msg) ==
    LET all == (IF direct THEN <<NoPattern>> ELSE <<>>) \o Sorted(patterns)
    IN  [i \in DOMAIN all |-> [channel |-> ch, pattern |-> all[i], message |-> msg]]

\* What a subscription is sent of the messages ms.
DeliveriesOf(s, ms) ==
    LET reaches(m) == /\ ~(IsPrefix(Reserved, m[1]) /\ ~s.keys)
                      /\ can_receive(Scope(s.conn), m[1], m[2])
    IN  FlattenSeq([i \in DOMAIN ms |->
            IF reaches(ms[i])
            THEN Delivered(ms[i][1] \in s.channels, {p \in s.patterns : matches(p, ms[i][1])},
                           ms[i][1], ms[i][2])
            ELSE <<>>])

TotalSize(ds, n) ==
    LET total[i \in 0 .. n] == IF i = 0 THEN 0 ELSE total[i - 1] + Size(ds[i])
    IN  total[n]

\* Room for the bytes of the deliveries ds[1 .. i], the first of all or not.
BytesFit(end, ds, i) ==
    LET waiting == end.waiting + TotalSize(ds, i - 1)
    IN  waiting = 0 \/ waiting + Size(ds[i]) <= setup.bytes

\* How many of the deliveries ds an end takes before one that does not fit: its
\* queue is full, or has something in it and would hold too many bytes.
Fitting(end, ds) ==
    Max({n \in 0 .. Len(ds) :
            \A i \in 1 .. n : Len(end.queue) + i <= setup.buffer /\ BytesFit(end, ds, i)})

\* What an end is left with once it was handed the deliveries `all`.  Bytes are
\* counted before the queue is found to be full.
Taking(end, all) ==
    LET n == Fitting(end, all)
        counted == IF n < Len(all) /\ BytesFit(end, all, n + 1) THEN n + 1 ELSE n
    IN  [queue |-> end.queue \o SubSeq(all, 1, n),
         waiting |-> end.waiting + TotalSize(all, counted), kept |-> n = Len(all)]

\* What a subscription's connection is left with once the messages ms are
\* published.
Handed(s, ms) == Taking(conns[s.conn], DeliveriesOf(s, ms))

\* What a connection that subscribed to chs and pats is to hear of a message: it
\* once for a channel it named, and once for each pattern that means the channel,
\* when its scope reaches the channel, or reads the key that changed.
Due(c, ch, msg) ==
    IF can_receive(Scope(c), ch, msg)
    THEN Delivered(ch \in conns[c].channels, {p \in conns[c].patterns : Means(p, ch)}, ch, msg)
    ELSE <<>>

\* The messages ms are published, or would be, for those that subscribe now.
Owed(c, ms) ==
    conns[c].owed \o FlattenSeq([i \in DOMAIN ms |-> Due(c, ms[i][1], ms[i][2])])

\* Core::publish of each message, in order: each subscription takes what reaches
\* it, until it cannot.  Those of connections that left go.  A delivery
\* is counted before it is sent, so its thread never counts off what is not
\* counted; what that takes in the middle could only make room.
Publish(ms) ==
    \E handed \in {[s \in live_channels |-> Handed(s, ms)]} :
       /\ channels' = {s \in live_channels : handed[s].kept}
       /\ conns' = [c \in Conn |->
              IF ~alive(c) \/ ~Subscribed(c) THEN conns[c]
              ELSE LET h == handed[CHOOSE s \in live_channels : s.conn = c]
                   IN  [conns[c] EXCEPT !.queue = h.queue, !.waiting = h.waiting,
                                        !.owed = Owed(c, ms)]]

\* PUBLISH, by whoever holds a token.
PublishTo(t, ch, msg) ==
    /\ may_publish(setup.scopes[t], ch)
    /\ Publish(<<<<ch, msg>>>>)

\* Core::notify: changes of keys, when someone listens for them.
notify(events) ==
    \E ms \in {FlattenSeq([i \in DOMAIN events |->
                  <<<<SpaceOf(events[i].key), events[i].event>>,
                    <<EventOf(events[i].event), events[i].key>>>>])} :
       IF \E s \in live_channels : s.keys
       THEN Publish(ms)
       ELSE /\ conns' = [c \in Conn |-> IF alive(c) /\ Subscribed(c)
                                        THEN [conns[c] EXCEPT !.owed = Owed(c, ms)] ELSE conns[c]]
            /\ UNCHANGED channels
-----------------------------------------------------------------------------
(***************************************************************************)
(* Subscribing, and a connection's thread.                                 *)
(***************************************************************************)
\* Patterns held by live subscriptions under the token's scope.
PatternsHeld(t) ==
    Cardinality(UNION {{s.conn} \X s.patterns : s \in {s \in live_channels : Holder[s.conn] = t}})

\* Subscriptions of those that left go first.
subscribe(c, chs, pats) ==
    /\ ~conns[c].held /\ chs \cup pats # {}
    /\ \A ch \in chs : can_subscribe(Scope(c), ch)
    /\ is_all(Scope(c)) \/ pats = {} \/ PatternsHeld(Holder[c]) + Cardinality(pats) <= setup.patterns
    /\ channels' = live_channels \cup {[conn |-> c, channels |-> chs, patterns |-> pats,
                                        keys |-> hears_keys(chs, pats)]}
    /\ conns' = [conns EXCEPT ![c] = [Idle EXCEPT !.held = TRUE, !.channels = chs, !.patterns = pats]]

\* Deliveries::recv_timeout gives the next, and then counts it off.
take(c) ==
    /\ conns[c].held /\ conns[c].taken = 0 /\ conns[c].queue # <<>>
    /\ conns' = [conns EXCEPT ![c].queue = Tail(@), ![c].owed = Tail(@),
                              ![c].taken = Taken(Head(conns[c].queue))]
    /\ UNCHANGED channels

count_off(c) ==
    /\ conns[c].taken > 0
    /\ conns' = [conns EXCEPT ![c].waiting = @ - conns[c].taken, ![c].taken = 0]
    /\ UNCHANGED channels

\* The client goes away, and its subscription stays until something is published
\* or someone subscribes.
leave(c) ==
    /\ conns[c].held /\ conns[c].taken = 0
    /\ conns' = [conns EXCEPT ![c] = Idle]
    /\ UNCHANGED channels

learn_pinging(c) == FALSE      \* takes the end of its queue for a quiet moment

\* A subscription that was dropped ends once all it was sent is taken: Sse::next.
learn(c) ==
    /\ conns[c].held /\ conns[c].taken = 0 /\ conns[c].queue = <<>> /\ ~Subscribed(c)
    /\ conns' = [conns EXCEPT ![c] = Idle]
    /\ UNCHANGED channels

CInit == /\ channels = {}
         /\ conns = [c \in Conn |-> Idle]
-----------------------------------------------------------------------------
(***************************************************************************)
(* Properties.                                                             *)
(***************************************************************************)
\* What waits for a subscription is what was published since it began and meant
\* for it, by the meaning of its patterns and what its token may know of, in
\* order, each once, from the first it has not taken: all of it while it is
\* subscribed, and up to what could not be put there once it is dropped.
HearsWhatIsMeant ==
    \A c \in Conn : /\ IsPrefix(conns[c].queue, conns[c].owed)
                    /\ alive(c) /\ Subscribed(c) => conns[c].queue = conns[c].owed

\* The bytes counted for a subscription, added to under the lock and taken off
\* without it, are those of what waits and of what was taken and not yet counted
\* off: a count that drifts up would drop one that keeps up, and one that drifts
\* down would let a slow one hold any amount of memory.  Once it is dropped, the
\* one delivery that did not fit may be counted too.
CountsWhatWaits ==
    \A c \in Conn :
       LET counted == conns[c].taken + TotalSize(conns[c].queue, Len(conns[c].queue))
       IN  /\ conns[c].waiting >= counted
           /\ alive(c) /\ Subscribed(c) => conns[c].waiting = counted

\* A subscription gets what it should and is charged for that alone.
SubscriptionsHold == HearsWhatIsMeant /\ CountsWhatWaits

\* A subscription that is dropped learns of it: its stream ends.
DroppedLearns == \A c \in Conn : (conns[c].held /\ ~Subscribed(c)) ~> ~conns[c].held
=============================================================================
