------------------------------ MODULE Broadcasts ------------------------------
(***************************************************************************)
(* Broadcasts and the events that tell of them (src/broker.rs,             *)
(* broadcast to clear_broadcasts, ensure_agents, forget_agent, rename,     *)
(* sweep; src/store.rs, the effects they commit): a bounded list that      *)
(* every agent reads at its own pace, with a share per sender, while       *)
(* agents are made, forgotten and renamed under the feet of whoever        *)
(* follows their events.                                                   *)
(*                                                                         *)
(* A request makes a row of commits, each of which the journal may refuse; *)
(* the request then ends with what it had done.  A world is the store and  *)
(* the events together, since both change between two commits.  Who may be *)
(* forgotten or renamed depends on messages, sessions and rooms (modules   *)
(* Inbox and Rooms), and is any agent here.                                *)
(***************************************************************************)
EXTENDS Events, Functions

CONSTANTS Key,            \* idempotency keys
          NoKey

\* Limits: `kept` is max_broadcasts, `agents` max_agents.  Bounds: broadcasts
\* sent, and the keys they may have; whether other parts of the server make
\* events, the journal may refuse a commit, and the second of a rename's two.
ASSUME BroadcastsAssumption ==
    /\ NoKey \notin Key
    /\ \A s \in Setups : /\ {s.kept, s.agents} \subseteq Nat \ {0}
                          /\ s.sent \in Nat /\ s.keys \subseteq Key
                          /\ {s.others, s.failing, s.halves} \subseteq BOOLEAN

VARIABLES store,     \* [agents: a name |-> its cursor, sent: the list, in the order
                     \*  of its ids, as a set, keys, last_id]
          passed,    \* ghost: a name |-> the ids kept when it last read
          past       \* ghost: a name |-> the first id since it was someone else's

bvars == <<store, passed, past>>
vars  == <<evars, bvars>>

World(s, w, p, t) == [store |-> s, ev |-> w, passed |-> p, past |-> t]
Now == World(store, ev, passed, past)

Ids(s) == {b.id : b \in s.sent}

\* Core::commit, refused or not: w is the outcome, row the worlds in which
\* the request asked for a commit.
Commit(row, w) ==
    \E v \in {w} \cup (IF setup.failing THEN row ELSE {}) :
        /\ v # Now
        /\ v.ev.next <= setup.events + 1
        /\ store' = v.store
        /\ ev' = v.ev
        /\ passed' = [a \in Agent |-> v.passed[a] \cap Ids(v.store)]
        /\ past' = v.past
        /\ UNCHANGED <<setup, open, todo, last, lost, restarts>>

emit(w, scope) == [w EXCEPT !.ev = publish_event(@, scope)]

\* Names someone follows change hands.
Note(noted, w, names) ==
    [a \in Agent |-> IF a \in names /\ \E c \in setup.follow : Filter[c] = a
                     THEN w.ev.next ELSE noted[a]]

\* Effect::Forget
Forget(w, a) ==
    [w EXCEPT !.store.agents = Restrict(@, DOMAIN @ \ {a}),
              !.passed[a] = {}, !.past = Note(@, w, {a})]

\* forget_agent
Forgotten(w, a) == LET gone == emit(Forget(w, a), {a})
                   IN  [gone EXCEPT !.ev = hand_over(@, a)]

\* Effect::Agent and its event
Registered(w, a) ==
    emit([w EXCEPT !.store.agents = [n \in DOMAIN @ \cup {a} |-> IF n = a THEN NoId ELSE @[n]]], {a})

--------------------------------------------------------------------------
(* Broadcasts.                                                             *)

\* share
share(limit) == IF limit \div 4 > 1 THEN limit \div 4 ELSE 1

From(sent, a) == {b \in sent : b.from = a}

Held(sent, a) == Cardinality(From(sent, a))

Without(s, ids) ==
    LET gone == {b \in s.sent : b.id \in ids /\ b.key # NoKey}
    IN  [s EXCEPT !.sent = {b \in @ : b.id \notin ids},
                  !.keys = Restrict(@, DOMAIN @ \ {<<b.from, b.key>> : b \in gone})]

\* How many of a set were sent before b, and the n of it sent first.
Before(set, b) == Cardinality({d \in set : d.id < b.id})
Oldest(set, n) == {b \in set : Before(set, b) < n}

Surplus_oldest(sent, excess) == {b.id : b \in Oldest(sent, excess)}    \* whoever sent it

\* trim_broadcasts: the oldest of those who hold more than a share, each down
\* to its share, then the oldest there are.
Surplus(sent, excess) ==
    LET over  == {b \in sent : Before(From(sent, b.from), b) < Held(sent, b.from) - share(setup.kept)}
        first == Oldest(over, excess)
        rest  == Oldest(sent \ first, excess - Cardinality(first))
    IN  {b.id : b \in first \cup rest}

Excess(s) == Max({Cardinality(s.sent) - setup.kept, 0})

Sent(s, a, key) ==
    LET id == s.last_id + 1
    IN  [s EXCEPT !.last_id = id,
                  !.sent = @ \cup {[id |-> id, from |-> a, key |-> key]},
                  !.keys = IF key = NoKey THEN @
                           ELSE [k \in DOMAIN @ \cup {<<a, key>>} |->
                                    IF k = <<a, key>> THEN id ELSE @[k]]]

\* broadcast, of one not sent before under its key.  An agent it makes may
\* need another's place.
broadcast(a, key) ==
    LET known == DOMAIN store.agents
        rooms == IF a \in known \/ Cardinality(known) < setup.agents THEN {Now}
                 ELSE {Forgotten(Now, v) : v \in known}
    IN  /\ store.last_id < setup.sent
        /\ <<a, key>> \notin DOMAIN store.keys
        /\ \E room \in rooms :
             LET made == IF a \in known THEN room ELSE Registered(room, a)
                 told == [made EXCEPT !.store = Sent(@, a, key)]
                 fits == [told EXCEPT !.store = Without(@, Surplus(@.sent, Excess(@)))]
             IN  Commit({room, made} \cup (IF Excess(told.store) > 0 THEN {told} ELSE {}),
                        emit(fits, Everyone))

read_stale(a) ==              \* the cursor stops at the newest the agent is shown
    LET others == {b.id : b \in store.sent \ From(store.sent, a)}
        new == IF others = {} THEN NoId ELSE Max(others)
    IN  /\ a \in DOMAIN store.agents
        /\ store.sent # {}
        /\ store.agents[a] # new
        /\ Commit({}, [Now EXCEPT !.store.agents[a] = new, !.passed[a] = Ids(store)])

\* read_broadcasts, moving the cursor.
read(a) ==
    /\ a \in DOMAIN store.agents
    /\ store.sent # {}
    /\ LET newest == Max(Ids(store))
       IN  /\ store.agents[a] # newest
           /\ Commit({}, [Now EXCEPT !.store.agents[a] = newest, !.passed[a] = Ids(store)])

\* clear_broadcasts
clear ==
    LET none == [Now EXCEPT !.store = Without(@, Ids(store))]
    IN  Commit({}, emit(none, Everyone))

\* The sweep drops what was kept long enough: the oldest, as the clock goes.
expire ==
    \E b \in store.sent : Commit({}, [Now EXCEPT !.store = Without(@, {id \in Ids(store) : id <= b.id})])

--------------------------------------------------------------------------
(* Agents, and the rest of the server.                                     *)

register(a) ==
    /\ a \notin DOMAIN store.agents /\ Cardinality(DOMAIN store.agents) < setup.agents
    /\ Commit({}, Registered(Now, a))

forget(a) ==
    /\ a \in DOMAIN store.agents
    /\ Commit({}, Forgotten(Now, a))

Reindexed(sent) ==
    LET keyed == {b \in sent : b.key # NoKey}
    IN  [k \in {<<b.from, b.key>> : b \in keyed} |->
            Max({b.id : b \in {x \in keyed : <<x.from, x.key>> = k}})]

\* Store::rename: the agent takes its cursor with it, and its broadcasts are
\* the new name's.
apply_rename(s, a, b) ==
    LET sent == {IF x.from = a THEN [x EXCEPT !.from = b] ELSE x : x \in s.sent}
    IN  [s EXCEPT !.agents = [n \in (DOMAIN @ \ {a}) \cup {b} |-> IF n = b THEN @[a] ELSE @[n]],
                  !.sent = sent,
                  !.keys = Reindexed(sent)]

\* rename: a name no longer used is forgotten first, by a commit of its own.
rename(a, b) ==
    LET free  == IF b \in DOMAIN store.agents THEN Forget(Now, b) ELSE Now
        named == [free EXCEPT !.store = apply_rename(@, a, b),
                              !.passed[b] = passed[a], !.passed[a] = {},
                              !.past = Note(@, Now, {a, b})]
        told  == emit(named, {a, b})
    IN  /\ a # b /\ a \in DOMAIN store.agents
        /\ Commit(IF setup.halves THEN {free} ELSE {},
                  [told EXCEPT !.ev = hand_over(hand_over(@, a), b)])

\* Messages, presence and rooms tell of themselves.
other(a) == setup.others /\ Commit({}, emit(Now, {a}))

\* Everything saved comes back, its keys indexed anew.
restart ==
    /\ NewProcess
    /\ store' = [store EXCEPT !.keys = Reindexed(store.sent)]
    /\ UNCHANGED <<passed, past>>

Init ==
    /\ EventsInit
    /\ store = [agents |-> [a \in {} |-> NoId], sent |-> {},
                keys |-> [k \in {} |-> NoId], last_id |-> NoId]
    /\ passed = [a \in Agent |-> {}]
    /\ past = [a \in Agent |-> NoId]

Next ==
    \/ \E a \in Agent :
          \/ \E key \in setup.keys \cup {NoKey} : broadcast(a, key)
          \/ read(a) \/ register(a) \/ forget(a) \/ other(a)
          \/ \E b \in Agent : rename(a, b)
    \/ clear \/ expire
    \/ EventsNext /\ UNCHANGED bvars
    \/ restart

Spec == Init /\ [][Next]_vars /\ EventsFair

--------------------------------------------------------------------------
(* Properties.                                                             *)

\* "Cursors compare by id, so trimming the stream never hides or replays
\* entries" (read_broadcasts): what an agent counts as unseen is what was
\* sent since it last read, though broadcasts were trimmed, cleared and
\* expired, and agents forgotten and renamed.  And a send retried under its
\* key returns a broadcast that is kept, of that sender and that key.
CursorsCountRight ==
    /\ \A a \in DOMAIN store.agents :
           {id \in Ids(store) : id > store.agents[a]} = Ids(store) \ passed[a]
    /\ \A k \in DOMAIN store.keys : \E b \in store.sent :
           b.id = store.keys[k] /\ <<b.from, b.key>> = k

\* docs/guides/forum.md: "one agent's flood can't push out everyone else's
\* announcements": as long as anyone holds more than a share, those who hold
\* no more lose nothing to another's broadcast, and the one just sent is kept.
FloodPushesOutItself ==
    [][store'.last_id > store.last_id =>
           LET sender == (CHOOSE b \in store'.sent : b.id = store'.last_id).from
           IN  /\ store'.last_id \in Ids(store')
               /\ \/ \A a \in Agent \ {sender} : Held(store.sent, a) <= share(setup.kept) =>
                        From(store.sent, a) \subseteq store'.sent
                  \/ \A a \in Agent : Held(store'.sent, a) <= share(setup.kept)]_vars

\* What came before a name changed hands is not replayed to whoever follows
\* it now: "Earlier events concerned someone else" (Events::handovers).
PastStaysPrivate ==
    [][\A c \in Client : ~open[c] /\ open'[c] /\ Filter[c] # Admin =>
           \A i \in DOMAIN todo'[c] : todo'[c][i].id >= past[Filter[c]]]_vars
=============================================================================
