-------------------------------- MODULE Reach --------------------------------
(***************************************************************************)
(* Clients of the keyspace whose tokens reach part of it: they change      *)
(* keys, hear of changes and of what is published, and list keys, while    *)
(* keys expire and are swept.  It composes Listing and Channels: what a    *)
(* change of a key does to a walk under way and whom it is announced to.   *)
(***************************************************************************)
EXTENDS Listing, Channels

CONSTANT Setups    \* the scopes, the clients and the bounds of a behaviour

ASSUME SetupsAssumption ==
    \A s \in Setups :
       /\ DOMAIN s.scopes = Token            \* each token's scope
       /\ \A t \in Token : LET globs == s.scopes[t].keys \cup s.scopes[t].read
                           IN  globs \subseteq Seq(Nat) /\ IsFiniteSet(globs)
       /\ {s.buffer, s.bytes, s.patterns} \subseteq Nat   \* SUBSCRIBER_BUFFER, _BYTES,
                                             \* MAX_PATTERNS_PER_SCOPE
       /\ s.names \cup s.globs \subseteq Seq(Nat) /\ IsFiniteSet(s.globs)    \* texts
       /\ s.subs \subseteq [conn : Conn, channels : SUBSET s.names, patterns : SUBSET s.globs]
       /\ \A m \in s.messages :             \* what is published
             m.token \in Token /\ m.channel \in Seq(Nat) /\ m.message \in Seq(Nat)
       /\ s.keys \subseteq s.pool            \* keys at the start, and all there may be
       /\ s.pool \subseteq Seq(Nat) /\ IsFiniteSet(s.pool) /\ NoKey \notin s.pool
       /\ \A a \in s.asks :                 \* what is listed
             a.token \in Token /\ a.pattern \in Seq(Nat) /\ a.count \in Nat
       /\ {s.subscribes, s.publishes, s.changes, s.walks} \subseteq Nat    \* bounds

VARIABLE left      \* how often each bounded thing may still happen

vars == <<setup, db, list, channels, conns, left>>

Init == /\ setup \in Setups
        /\ db = [k \in setup.keys |-> "live"]
        /\ list = NoWalk
        /\ CInit
        /\ left = [subscribes |-> setup.subscribes, publishes |-> setup.publishes,
                   changes |-> setup.changes, walks |-> setup.walks]

Spend(what) == left[what] > 0 /\ left' = [left EXCEPT ![what] = @ - 1]

\* Events are named by their first letter.
Event(key, event) == [key |-> key, event |-> event]
SetEvent == <<115>>
DelEvent == <<100>>
ExpiredEvent == <<101>>
FromEvent == <<102>>
ToEvent == <<116>>

Put(k) == [j \in DOMAIN db \cup {k} |-> IF j = k THEN "live" ELSE db[j]]
-----------------------------------------------------------------------------
\* SET, DEL and RENAME of keys the client's token lets it change.
SetKey(t, k) ==
    /\ Spend("changes") /\ can_write(setup.scopes[t], k)
    /\ db' = Put(k)
    /\ notify(<<Event(k, SetEvent)>>)
    /\ UNCHANGED <<setup, list>>

DelKey(t, k) ==
    /\ k \in Live /\ Spend("changes") /\ can_write(setup.scopes[t], k)
    /\ db' = [j \in DOMAIN db \ {k} |-> db[j]]
    /\ list' = Unsteadied({k})
    /\ notify(<<Event(k, DelEvent)>>)
    /\ UNCHANGED setup

RenameKey(t, k, l) ==
    /\ k \in Live /\ k # l /\ Spend("changes")
    /\ can_write(setup.scopes[t], k) /\ can_write(setup.scopes[t], l)
    /\ db' = [j \in DOMAIN Put(l) \ {k} |-> Put(l)[j]]
    /\ list' = Unsteadied({k})
    /\ notify(<<Event(k, FromEvent), Event(l, ToEvent)>>)
    /\ UNCHANGED setup

\* A key's time comes, and the tick removes those whose has (Core::expire_keys).
KeyExpires(k) ==
    /\ k \in Live /\ Spend("changes")
    /\ db' = [db EXCEPT ![k] = "expired"]
    /\ list' = Unsteadied({k})
    /\ UNCHANGED <<setup, channels, conns>>

ExpireKeys ==
    /\ DOMAIN db # Live
    /\ db' = [k \in Live |-> "live"]
    /\ LET expired == Sorted(DOMAIN db \ Live)
       IN  notify([i \in DOMAIN expired |-> Event(expired[i], ExpiredEvent)])
    /\ UNCHANGED <<setup, list, left>>

Subscribe ==
    /\ Spend("subscribes")
    /\ \E s \in setup.subs : subscribe(s.conn, s.channels, s.patterns)
    /\ UNCHANGED <<setup, db, list>>

PublishMessage ==
    /\ Spend("publishes")
    /\ \E m \in setup.messages : PublishTo(m.token, m.channel, m.message)
    /\ UNCHANGED <<setup, db, list>>

List ==
    /\ Spend("walks")
    /\ \E a \in setup.asks : Ask(setup.scopes[a.token], a.pattern, a.count)
    /\ UNCHANGED <<setup, channels, conns>>

Walk == (WalkOn \/ Forget) /\ UNCHANGED <<setup, channels, conns, left>>

Thread(c) == /\ take(c) \/ count_off(c) \/ learn(c)
             /\ UNCHANGED <<setup, db, list, left>>
Leave(c) == leave(c) /\ UNCHANGED <<setup, db, list, left>>

Next == \/ \E t \in Token, k \in setup.pool : SetKey(t, k) \/ DelKey(t, k)
        \/ \E t \in Token, k, l \in setup.pool : RenameKey(t, k, l)
        \/ \E k \in setup.pool : KeyExpires(k)
        \/ ExpireKeys \/ Subscribe \/ PublishMessage \/ List \/ Walk
        \/ \E c \in Conn : Thread(c) \/ Leave(c)

\* A connection's thread goes on taking what there is.
Spec == Init /\ [][Next]_vars /\ \A c \in Conn : WF_vars(Thread(c))
=============================================================================
