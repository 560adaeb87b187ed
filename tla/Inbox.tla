-------------------------------- MODULE Inbox --------------------------------
(***************************************************************************)
(* Direct messages: inboxes, leases, acknowledgements, dead letters,       *)
(* expiry, history, and the agents they belong to (broker.rs send ..       *)
(* purge, ensure_agents .. rename, sweep; store.rs track, Store::apply and *)
(* the indexes it keeps).                                                  *)
(*                                                                         *)
(* Each request runs under the broker's lock, so it is one action here.    *)
(* It makes a row of commits, each of which the journal may refuse; the    *)
(* request then ends with the ones before it made.  `steps` is that row:   *)
(* the store as it is, then as each commit leaves it.                      *)
(*                                                                         *)
(* Ids are numbers given in order.  A lease's token is random; here it is  *)
(* the number of the delivery, which no two leases of a message share.     *)
(* Bodies, threads, events and wakeups are left out, and so are requests   *)
(* refused before they change anything, but for the limits.                *)
(***************************************************************************)
EXTENDS Integers, Sequences, FiniteSets, FiniteSetsExt, SequencesExt

CONSTANTS Agent,          \* names
          Admins,         \* those that send with the administrator's token
          Roomers,        \* those that join rooms
          Consumer,       \* names consumers give themselves
          Session,        \* session ids
          Key,            \* idempotency keys
          None,           \* no key, no lease, no consumer
          MaxInbox, MaxAgents, MaxDeliveries, HistoryLimit,   \* Limits
          LeaseMs, MsgTtlMs, SessionTtlMs,
          SweepBatch,     \* SWEEP_BATCH
          SessionsPerAgent, \* MAX_SESSIONS_PER_AGENT
          MaxTime,        \* bounds: the clock,
          MaxSends,       \* messages sent,
          Renaming,       \* whether agents are renamed,
          Failing         \* whether the journal may refuse a commit

ASSUME LimitsAssumption ==
    /\ {MaxInbox, MaxAgents, MaxDeliveries, SweepBatch, SessionsPerAgent,
        LeaseMs, MsgTtlMs} \subseteq Nat \ {0}
    /\ {HistoryLimit, SessionTtlMs} \subseteq Nat
ASSUME BoundsAssumption == {MaxTime, MaxSends} \subseteq Nat
ASSUME AgentAssumption == Admins \subseteq Agent /\ Roomers \subseteq Agent

\* A message's lease.
Lease == [consumer : Consumer, token : 1 .. MaxDeliveries, until : Nat]

ASSUME NoneAssumption == None \notin Key \cup Consumer \cup Lease

VARIABLES store,     \* Store: the messages and the agents, with their indexes
          sessions,  \* who is online, and until when
          roomed,    \* members of open rooms (Store::room_members)
          now        \* the clock

vars == <<store, sessions, roomed, now>>

Pending == {"queued", "leased"}
State == Pending \cup {"acked", "dead", "expired"}

NoCounts == [queued |-> 0, leased |-> 0, dead |-> 0, settled |-> 0]
NewAgent == [inbox |-> {}, queued |-> {}, settled |-> {}, counts |-> NoCounts,
             senders |-> [a \in Agent |-> 0]]
NoDue == [leases |-> {}, expiry |-> {}, settled |-> {}]
NoMessages == [id \in {} |-> None]

Init == /\ store = [last_id |-> 0, messages |-> NoMessages,
                    agents |-> [a \in {} |-> NewAgent],
                    msg_keys |-> [k \in {} |-> 0], due |-> NoDue]
        /\ sessions = [s \in {} |-> None]
        /\ roomed = {}
        /\ now = 0

\* Maps: one entry put in, some left out.
Put(f, x, v) == [y \in DOMAIN f \cup {x} |-> IF y = x THEN v ELSE f[y]]
Without(f, S) == [y \in DOMAIN f \ S |-> f[y]]
-----------------------------------------------------------------------------
(***************************************************************************)
(* The store's indexes: store.rs track.                                    *)
(***************************************************************************)
Flip(S, x, add) == IF add THEN S \cup {x} ELSE S \ {x}
Bump(n, add) == IF add THEN n + 1 ELSE IF n = 0 THEN 0 ELSE n - 1

Counter(state) == IF state \in {"acked", "expired"} THEN "settled" ELSE state

\* What message m, under id, contributes to the indexes of s is added or taken
\* away.
track(s, id, m, add) ==
    LET pending == m.state \in Pending
        due == [leases  |-> IF m.state = "leased"
                            THEN Flip(s.due.leases, <<m.lease.until, id>>, add)
                            ELSE s.due.leases,
                expiry  |-> IF pending THEN Flip(s.due.expiry, <<m.expires, id>>, add)
                                       ELSE s.due.expiry,
                settled |-> IF pending THEN s.due.settled
                                       ELSE Flip(s.due.settled, <<m.settled, id>>, add)]
        tracked(a) ==
            [a EXCEPT !.counts[Counter(m.state)] = Bump(@, add),
                      !.senders[m.from] = IF pending THEN Bump(@, add) ELSE @,
                      !.queued = IF m.state = "queued" THEN Flip(@, id, add) ELSE @,
                      !.settled = IF pending THEN @ ELSE Flip(@, id, add)]
    IN  [s EXCEPT !.due = due,
                  !.agents = [a \in DOMAIN @ |-> IF a = m.to THEN tracked(@[a]) ELSE @[a]]]

changed_stale(s, id, m) ==      \* leaves its old contribution there
    track([s EXCEPT !.messages = Put(@, id, m)], id, m, TRUE)

\* A message becomes m: its old contribution goes, and its new one comes.
changed(s, id, m) ==
    track([track(s, id, s.messages[id], FALSE) EXCEPT !.messages = Put(@, id, m)], id, m, TRUE)

pending_count(s, a) ==
    IF a \in DOMAIN s.agents THEN s.agents[a].counts.queued + s.agents[a].counts.leased ELSE 0
settled_count(s, a) ==
    IF a \in DOMAIN s.agents THEN s.agents[a].counts.settled + s.agents[a].counts.dead ELSE 0
pending_from_swapped(s, a, sender) ==
    IF sender \in DOMAIN s.agents THEN s.agents[sender].senders[a] ELSE 0
pending_from(s, a, sender) ==
    IF a \in DOMAIN s.agents THEN s.agents[a].senders[sender] ELSE 0
-----------------------------------------------------------------------------
(***************************************************************************)
(* Store::apply, an operator for each effect.                              *)
(***************************************************************************)
apply_agent(s, a) ==
    IF a \in DOMAIN s.agents THEN s ELSE [s EXCEPT !.agents = Put(@, a, NewAgent)]

apply_message(s, id, m) ==
    LET known == apply_agent(s, m.to)
        to == [known.agents[m.to] EXCEPT !.inbox = @ \cup {id}]
        filed == [known EXCEPT !.last_id = id,
                               !.agents = Put(@, m.to, to),
                               !.messages = Put(@, id, m),
                               !.msg_keys = IF m.key = None THEN @
                                            ELSE Put(@, <<m.to, m.from, m.key>>, id)]
    IN  track(filed, id, m, TRUE)

apply_lease(s, id, consumer, until) ==
    LET m == s.messages[id]
    IN  IF id \notin DOMAIN s.messages THEN s ELSE
        changed(s, id, [m EXCEPT !.state = "leased", !.deliveries = @ + 1, !.settled = None,
                                 !.lease = [consumer |-> consumer, token |-> m.deliveries + 1,
                                            until |-> until]])

apply_settle(s, id, state, at) ==
    IF id \notin DOMAIN s.messages THEN s ELSE
    changed(s, id, [s.messages[id] EXCEPT !.state = state,
                                          !.settled = IF state \in Pending THEN None ELSE at])

remove_message(id, s) ==
    LET m == s.messages[id]
        left(a) == [a EXCEPT !.inbox = @ \ {id}]
    IN  [track(s, id, m, FALSE) EXCEPT
            !.messages = Without(@, {id}),
            !.agents = [a \in DOMAIN @ |-> IF a = m.to THEN left(@[a]) ELSE @[a]],
            !.msg_keys = IF m.key = None THEN @ ELSE Without(@, {<<m.to, m.from, m.key>>})]

apply_drop(s, ids) == FoldSet(remove_message, s, ids)

apply_forget(s, a) ==
    IF a \notin DOMAIN s.agents THEN s
    ELSE apply_drop([s EXCEPT !.agents = Without(@, {a})], s.agents[a].inbox)

reindex_kept(s) == s            \* leaves the keys under the names they had

\* Store::retrack and reindex: the indexes built again from the messages; of
\* two messages under one key the later one counts.
retrack(s) ==
    LET bare == [s EXCEPT !.due = NoDue,
                          !.agents = [a \in DOMAIN @ |-> [NewAgent EXCEPT !.inbox = s.agents[a].inbox]]]
        add(id, t) == track(t, id, t.messages[id], TRUE)
    IN  FoldSet(add, bare, DOMAIN s.messages)

reindex(s) ==
    LET of(id) == <<s.messages[id].to, s.messages[id].from, s.messages[id].key>>
        keyed == {id \in DOMAIN s.messages : s.messages[id].key # None}
    IN  [s EXCEPT !.msg_keys = [k \in {of(id) : id \in keyed} |->
                                   Max({id \in keyed : of(id) = k})]]

\* Store::rename, of an agent there is.
apply_rename(s, from, to) ==
    LET named(a) == IF a = from THEN to ELSE a
        renamed(m) == [m EXCEPT !.to = named(@), !.from = named(@)]
        inbox == s.agents[from].inbox \cup
                 (IF to \in DOMAIN s.agents THEN s.agents[to].inbox ELSE {})
        moved == [s EXCEPT
                    !.agents = Put(Without(@, {from}), to, [@[from] EXCEPT !.inbox = inbox]),
                    !.messages = [id \in DOMAIN @ |-> renamed(@[id])]]
    IN  retrack(reindex(moved))
-----------------------------------------------------------------------------
(***************************************************************************)
(* Commits.                                                                *)
(***************************************************************************)
\* A request makes all its commits, or the journal refuses one (Core::commit)
\* and the rest are not made.  `done` says whether the request went through.
Commit(steps, done) ==
    \/ /\ done
       /\ store' = Last(steps)
    \/ /\ ~done /\ Failing
       /\ \E i \in 1 .. Len(steps) - 1 : store' = steps[i]

\* The elements of S, each after those that come before it.
InOrder(S, before(_, _)) ==
    [i \in 1 .. Cardinality(S) |->
        CHOOSE x \in S : Cardinality({y \in S : before(y, x)}) = i - 1]

UpTo(n, row) == SubSeq(row, 1, IF n < Len(row) THEN n ELSE Len(row))

\* The first n of the elements of S.
First(S, n) == UpTo(n, InOrder(S, <))

\* The first of the due entries in `due` that fell due by `at`, a batch of them.
Due(due, at) ==
    LET soonest(x, y) == x[1] < y[1] \/ (x[1] = y[1] /\ x[2] < y[2])
        batch == UpTo(SweepBatch, InOrder({x \in due : x[1] <= at}, soonest))
    IN  [i \in DOMAIN batch |-> batch[i][2]]

trim_history(steps, a) ==
    LET s == Last(steps)
        excess == settled_count(s, a) - HistoryLimit
    IN  IF excess > 0 THEN Append(steps, apply_drop(s, Range(First(s.agents[a].settled, excess))))
                      ELSE steps

Exhausted(m) == m.deliveries >= MaxDeliveries

\* Leases that ran out: back in the queue, or dead after the last delivery.
\* The batch is read first, then settled one at a time.
reclaim(steps) ==
    LET read == Last(steps)
        settle(acc, id) ==
            LET m == read.messages[id]
                dead == Exhausted(m)
                settled == Append(acc, apply_settle(Last(acc), id,
                                                    IF dead THEN "dead" ELSE "queued", now))
            IN  IF dead THEN trim_history(settled, m.to) ELSE settled
    IN  FoldLeft(settle, steps, Due(read.due.leases, now))

expire(steps) ==
    LET read == Last(steps)
        settle(acc, id) ==
            trim_history(Append(acc, apply_settle(Last(acc), id, "expired", now)),
                         read.messages[id].to)
    IN  FoldLeft(settle, steps, Due(read.due.expiry, now))

sweep_due_no_expiry(steps) == reclaim(steps)

\* Core::sweep_due, but for the keyspace.
sweep_due(steps) ==
    LET swept == expire(reclaim(steps))
        kept_until == IF now > MsgTtlMs THEN now - MsgTtlMs ELSE 0
        stale == Range(Due(Last(swept).due.settled, kept_until))
    IN  IF stale = {} THEN swept ELSE Append(swept, apply_drop(Last(swept), stale))
-----------------------------------------------------------------------------
(***************************************************************************)
(* Agents: presence, eviction, forgetting, renaming.                       *)
(***************************************************************************)
live_sessions(a) == {x \in DOMAIN sessions : sessions[x].agent = a /\ sessions[x].expires > now}
online(a) == live_sessions(a) # {}

removable_pending(s) == {a \in DOMAIN s.agents : ~online(a) /\ a \notin roomed}
removable_online(s) == {a \in DOMAIN s.agents : a \notin roomed /\ pending_count(s, a) = 0}
removable(s) == {a \in DOMAIN s.agents :
                    ~online(a) /\ a \notin roomed /\ pending_count(s, a) = 0}

forgotten(steps, a) == Append(steps, apply_forget(Last(steps), a))

overflow_short(missing) == Cardinality(DOMAIN store.agents) + Cardinality(missing) - MaxAgents - 1
overflow(missing) == Cardinality(DOMAIN store.agents) + Cardinality(missing) - MaxAgents

\* Core::ensure_agents, as the rows of commits it may make: agents over the
\* limit go, those seen longest ago first (which they are is left open).  None
\* when there is no room for the names.
ensure_agents(names) ==
    LET missing == names \ DOMAIN store.agents
        going == IF missing = {} \/ overflow(missing) < 0 THEN 0 ELSE overflow(missing)
        known(acc, a) == Append(acc, apply_agent(Last(acc), a))
    IN  {FoldLeft(known, FoldLeft(forgotten, <<store>>, SetToSeq(gone)), SetToSeq(missing)) :
            gone \in kSubset(going, removable(store) \ names)}

\* What Effect::Forget leaves of the sessions and rooms of the agents that go.
Gone == DOMAIN store.agents \ DOMAIN store'.agents
SessionsLeft == Without(sessions, {x \in DOMAIN sessions : sessions[x].agent \in Gone})
Follow == sessions' = SessionsLeft /\ roomed' = roomed \ Gone

\* A session new to an agent that has as many as it may makes room among its
\* own, those that end first going first.
Crowded(a, x) ==
    LET own == {y \in DOMAIN sessions : sessions[y].agent = a}
        sooner(y, z) == sessions[y].expires < sessions[z].expires
        n == Cardinality(own) - SessionsPerAgent + 1
    IN  IF x \in DOMAIN sessions \/ n < 1 THEN {}
        ELSE Range(SubSeq(SetToSortSeq(own, sooner), 1, n))

presence(a, x) ==
    /\ x \in DOMAIN sessions => sessions[x].agent = a
    /\ \E steps \in ensure_agents({a}), done \in BOOLEAN :
          /\ Commit(steps, done)
          /\ sessions' = IF done THEN Put(Without(SessionsLeft, Crowded(a, x)), x,
                                         [agent |-> a, expires |-> now + SessionTtlMs])
                                 ELSE SessionsLeft
    /\ roomed' = roomed \ Gone
    /\ UNCHANGED now

leave(a, x) ==
    /\ x \in DOMAIN sessions /\ sessions[x].agent = a
    /\ sessions' = Without(sessions, {x})
    /\ UNCHANGED <<store, roomed, now>>

\* An agent becomes, or stops being, a member of an open room.
join(a) == /\ a \in (Roomers \cap DOMAIN store.agents) \ roomed
           /\ roomed' = roomed \cup {a}
           /\ UNCHANGED <<store, sessions, now>>
part(a) == /\ a \in roomed
           /\ roomed' = roomed \ {a}
           /\ UNCHANGED <<store, sessions, now>>

forget(a) ==
    /\ a \in DOMAIN store.agents
    /\ \E done \in BOOLEAN : Commit(forgotten(<<store>>, a), done)
    /\ Follow
    /\ UNCHANGED now

cleanup ==
    /\ \E done \in BOOLEAN :
          Commit(FoldLeft(forgotten, <<store>>, SetToSeq(removable(store))), done)
    /\ Follow
    /\ UNCHANGED now

\* Core::rename: a name no longer used is forgotten first.
rename(from, to) ==
    LET forgetting == IF to \in DOMAIN store.agents THEN forgotten(<<store>>, to) ELSE <<store>>
        steps == Append(forgetting, apply_rename(Last(forgetting), from, to))
        named(a) == IF a = from THEN to ELSE a
        kept == {x \in DOMAIN sessions : sessions[x].agent # to}
    IN  /\ Renaming
        /\ from # to /\ from \in DOMAIN store.agents
        /\ Cardinality(live_sessions(from)) <= 1
        /\ ~online(to) /\ pending_count(store, to) = 0
        /\ \/ /\ Commit(steps, TRUE)
              /\ sessions' = [x \in kept |-> [sessions[x] EXCEPT !.agent = named(@)]]
              /\ roomed' = {named(a) : a \in roomed \ {to}}
           \/ /\ Commit(steps, FALSE)
              /\ Follow
        /\ UNCHANGED now
-----------------------------------------------------------------------------
(***************************************************************************)
(* Messages.                                                               *)
(***************************************************************************)
\* Store::message_by_key finds a message.
sent_before(to, from, key) == key # None /\ <<to, from, key>> \in DOMAIN store.msg_keys

\* A quarter of a limit, for one sender.
share(limit) == IF limit \div 4 > 1 THEN limit \div 4 ELSE 1

\* Core::send, of a message not sent before under its key.
send(from, to, key) ==
    LET id == store.last_id + 1
        message == [from |-> from, to |-> to, key |-> key, state |-> "queued", deliveries |-> 0,
                    expires |-> now + MsgTtlMs, lease |-> None, settled |-> None]
    IN  /\ id <= MaxSends
        /\ ~sent_before(to, from, key)
        /\ pending_count(store, to) < MaxInbox
        /\ from \in Admins \/ to = from \/ pending_from(store, to, from) < share(MaxInbox)
        /\ \E steps \in ensure_agents({from, to}), done \in BOOLEAN :
              Commit(trim_history(Append(steps, apply_message(Last(steps), id, message)), to), done)
        /\ Follow
        /\ UNCHANGED now

leasable_pending(s, inbox) ==      \* those another consumer holds too
    IF inbox \in DOMAIN s.agents
    THEN {id \in s.agents[inbox].inbox : s.messages[id].state \in Pending} ELSE {}
leasable(s, inbox) == IF inbox \in DOMAIN s.agents THEN s.agents[inbox].queued ELSE {}

\* Core::lease_where: the oldest queued messages, or those of `only` that are
\* queued.
lease(inbox, consumer, limit, only) ==
    LET swept == expire(reclaim(<<store>>))
        s == Last(swept)
        ids == First({id \in leasable(s, inbox) \cap only : s.messages[id].expires > now}, limit)
        grant(acc, id) == Append(acc, apply_lease(Last(acc), id, consumer, now + LeaseMs))
    IN  /\ \E done \in BOOLEAN : Commit(FoldLeft(grant, swept, ids), done)
        /\ UNCHANGED <<sessions, roomed, now>>

\* Core::ack.  A receipt names a message, and the token of a lease or nothing.
accepts(m, inbox, receipt, consumer) ==
    /\ m.to = inbox
    /\ m.state \in Pending
    /\ m.lease # None
    /\ IF receipt.token # None THEN receipt.token = m.lease.token
                               ELSE consumer = m.lease.consumer

ack(inbox, receipts, consumer) ==
    LET settle(acc, receipt) ==
            LET s == Last(acc)
            IN  IF /\ receipt.id \in DOMAIN s.messages
                   /\ accepts(s.messages[receipt.id], inbox, receipt, consumer)
                THEN Append(acc, apply_settle(s, receipt.id, "acked", now))
                ELSE acc
        acked == FoldLeft(settle, <<store>>, receipts)
    IN  /\ \E done \in BOOLEAN :
              Commit(IF Len(acked) > 1 THEN trim_history(acked, inbox) ELSE acked, done)
        /\ UNCHANGED <<sessions, roomed, now>>

purge(inbox) ==
    /\ inbox \in DOMAIN store.agents /\ store.agents[inbox].inbox # {}
    /\ \E done \in BOOLEAN :
          Commit(<<store, apply_drop(store, store.agents[inbox].inbox)>>, done)
    /\ UNCHANGED <<sessions, roomed, now>>
-----------------------------------------------------------------------------
(***************************************************************************)
(* Time, the sweep, and restarts.                                          *)
(***************************************************************************)
\* Broker::tick: Core::sweep.  Sessions end whatever becomes of the rest.
sweep == /\ \E done \in BOOLEAN : Commit(sweep_due(<<store>>), done)
         /\ sessions' = Without(sessions, {x \in DOMAIN sessions : sessions[x].expires <= now})
         /\ UNCHANGED <<roomed, now>>

pass == /\ now < MaxTime
        /\ now' = now + 1
        /\ UNCHANGED <<store, sessions, roomed>>

\* Store::from_snapshot: the messages and the agents are read back, and the
\* indexes built again; sessions are in no file.
restart == /\ store' = retrack(reindex(store))
           /\ sessions' = [x \in {} |-> None]
           /\ UNCHANGED <<roomed, now>>

Ids == 1 .. MaxSends

\* Receipts to acknowledge: one, or two, of messages there are, with a token
\* that was given out, or none.
Receipts ==
    LET given(id) == {[id |-> id, token |-> t] : t \in 1 .. store.messages[id].deliveries \cup {None}}
        all == UNION {given(id) : id \in DOMAIN store.messages}
    IN  {<<r>> : r \in all} \cup {<<r[1], r[2]>> : r \in {r \in all \X all : r[1].id < r[2].id}}

Next == \/ \E a \in Agent, x \in Session : presence(a, x) \/ leave(a, x)
        \/ \E a \in Agent : join(a) \/ part(a) \/ forget(a) \/ purge(a)
        \/ cleanup
        \/ \E a, b \in Agent : rename(a, b)
        \/ \E a, b \in Agent, k \in Key \cup {None} : send(a, b, k)
        \/ \E a \in Agent, c \in Consumer, n \in 1 .. MaxSends :
              lease(a, c, n, Ids) \/ \E id \in Ids : lease(a, c, 1, {id})
        \/ \E a \in Agent, c \in Consumer, r \in Receipts : ack(a, r, c)
        \/ sweep \/ pass \/ restart

Spec == Init /\ [][Next]_vars

\* Time passes, and the tick comes round: WF_vars(pass) /\ WF_vars(sweep), with
\* what enables a sweep that changes something spelled out.
SweepDue == \/ Last(sweep_due(<<store>>)) # store
            \/ \E x \in DOMAIN sessions : sessions[x].expires <= now
Fairness == WF_vars(pass) /\ ([]<>~SweepDue \/ []<><<sweep>>_vars)
LiveSpec == Spec /\ Fairness
-----------------------------------------------------------------------------
(***************************************************************************)
(* Properties.                                                             *)
(***************************************************************************)
\* The types of the store, but for the indexes, which IndexesMatch covers.
TypeOK ==
    LET Message == [from : Agent, to : Agent, key : Key \cup {None}, state : State,
                    deliveries : 0 .. MaxDeliveries, expires : Nat,
                    lease : Lease \cup {None}, settled : Nat \cup {None}]
    IN  /\ DOMAIN store.messages \subseteq 1 .. store.last_id
        /\ \A id \in DOMAIN store.messages : store.messages[id] \in Message
        /\ DOMAIN store.agents \subseteq Agent
        /\ DOMAIN sessions \subseteq Session
        /\ \A x \in DOMAIN sessions : sessions[x] \in [agent : DOMAIN store.agents, expires : Nat]
        /\ roomed \subseteq DOMAIN store.agents
        /\ now \in 0 .. MaxTime

\* Every inbox's sets and counts and the due indexes, kept up by taking a
\* message's old contribution away and adding its new one, are what building
\* them again from the messages gives: a restart changes none of them, and a
\* message in none of them would never be delivered, swept or counted.
IndexesMatch ==
    /\ retrack(store) = store
    /\ \A id \in DOMAIN store.messages : store.messages[id].to \in DOMAIN store.agents
    /\ \A a \in DOMAIN store.agents :
          store.agents[a].inbox = {id \in DOMAIN store.messages : store.messages[id].to = a}

\* "The same key returns the original message instead of a duplicate": by its
\* key a message still kept is found, and no other in its place.  Renaming may
\* give two messages one key, against docs/guides/forum.md: dropping either then
\* forgets the key (InboxRenamedKeys.cfg).
KeysFindMessages ==
    \A id \in DOMAIN store.messages :
       LET m == store.messages[id]
           k == <<m.to, m.from, m.key>>
       IN  m.key # None => k \in DOMAIN store.msg_keys /\ store.msg_keys[k] = id

\* Renamed or not, what a key finds is a message still kept that was sent under
\* it, from and to the agents that now have the names in it: a retry never gets
\* another one's.
KeysNameMessages ==
    \A k \in DOMAIN store.msg_keys :
       /\ store.msg_keys[k] \in DOMAIN store.messages
       /\ LET m == store.messages[store.msg_keys[k]] IN k = <<m.to, m.from, m.key>>

\* A message is delivered MaxDeliveries times at most, and is a dead letter once
\* the last of them runs out: it never waits in the queue after it.
DeliveryLimit ==
    \A id \in DOMAIN store.messages :
       LET m == store.messages[id]
       IN  m.deliveries <= MaxDeliveries - (IF m.state = "queued" THEN 1 ELSE 0)

\* No inbox holds more messages to handle than it may, whatever renames and
\* requeues do, and no more agents are kept than may be.
WithinLimits ==
    /\ \A a \in DOMAIN store.agents :
          Cardinality({id \in store.agents[a].inbox :
                          store.messages[id].state \in Pending}) <= MaxInbox
    /\ Cardinality(DOMAIN store.agents) <= MaxAgents

\* No sender takes more of another's inbox than its share, so that "one agent
\* filling it leaves the rest to everyone else".
SharesHold ==
    \A a \in DOMAIN store.agents, b \in Agent \ Admins :
       a # b => Cardinality({id \in store.agents[a].inbox :
                               /\ store.messages[id].from = b
                               /\ store.messages[id].state \in Pending}) <= share(MaxInbox)

\* What an inbox promises of the messages it keeps, through retries, requeues
\* and sweeps, as long as no agent is renamed: retries find them, their
\* deliveries are counted, senders share.
InboxHolds == KeysFindMessages /\ DeliveryLimit /\ SharesHold

\* Evictions, forgetting, cleaning up and renames leave the agents and their
\* inboxes in order, and no key naming another's message, also when only part
\* of a request's commits was taken.
AgentsHold == TypeOK /\ IndexesMatch /\ KeysNameMessages /\ WithinLimits

\* Only purge and forget discard a message that is still to be handled: making
\* room for agents, cleaning up, renaming, trimming history and the sweep never
\* do, whichever of their commits fail.  One that the same request settles, for
\* it is acknowledged, expired, or was leased for the last time, may be trimmed.
Acknowledged(m) == \E r \in Receipts, c \in Consumer : ack(m.to, r, c)
StaysPending ==
    \A id \in DOMAIN store.messages \ DOMAIN store'.messages :
       LET m == store.messages[id]
       IN  \/ m.state \notin Pending
           \/ m.expires <= now
           \/ m.lease # None /\ m.lease.until <= now /\ m.deliveries = MaxDeliveries
           \/ m.lease # None /\ Acknowledged(m)
           \/ purge(m.to) \/ forget(m.to)
KeepsPending == [][StaysPending]_vars

\* A message is leased again only once its last lease has run out: two consumers
\* never hold one message at a time.  A message handled stays so.
LeasedOnce ==
    \A id \in DOMAIN store.messages \cap DOMAIN store'.messages :
       LET m == store.messages[id]
           n == store'.messages[id]
       IN  /\ n.deliveries > m.deliveries /\ m.lease # None => m.lease.until <= now
           /\ m.state \notin Pending => n.state = m.state

\* On its way to being handled a message is neither lost, as said above, nor
\* held by two consumers.
NeitherLostNorDoubled == [][StaysPending /\ LeasedOnce]_vars

\* An agent that is online or in an open room goes only when it is forgotten by
\* name, or renamed.
ActiveAgentsStay ==
    [][ \A a \in Gone : \/ ~online(a) /\ a \notin roomed
                        \/ forget(a)
                        \/ \E b \in Agent : rename(a, b) \/ rename(b, a) ]_vars

\* No message waits for ever: the sweeps, a batch each, catch up with those past
\* their expiry, so again and again none is left to handle, though nobody reads
\* the inbox.
Overdue == {id \in DOMAIN store.messages : /\ store.messages[id].state \in Pending
                                           /\ store.messages[id].expires <= now}
EventuallyHandled == []<>(Overdue = {})

\* No lease lasts for ever, though its consumer never comes back: again and again
\* none that ran out is held.
Overrun == {id \in DOMAIN store.messages : /\ store.messages[id].state = "leased"
                                           /\ store.messages[id].lease.until <= now}
LeasesEnd == []<>(Overrun = {})

\* What time is up for is settled, though nobody asks about it: the tick sweeps.
SweepCatchesUp == EventuallyHandled /\ LeasesEnd
=============================================================================
