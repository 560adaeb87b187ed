-------------------------------- MODULE Rooms --------------------------------
(***************************************************************************)
(* Rooms: their members, timelines, questions and boards (broker.rs        *)
(* trim_room .. sweep_rooms; store.rs Room and the effects on rooms).      *)
(*                                                                         *)
(* As in Inbox a request is one action, made of a row of commits: `steps`  *)
(* is the store as it is, then as each commit leaves it.                   *)
(*                                                                         *)
(* A post keeps who made it, its kind, the question it answers, what it    *)
(* asks and its idempotency key.  Bodies, topics, items, choices, events   *)
(* and wakeups are left out, and so are requests refused before they       *)
(* change anything.  Whether an agent is online or has messages to handle, *)
(* which keeps it from making way for another, is Inbox's: here it may or  *)
(* may not be so.                                                          *)
(***************************************************************************)
EXTENDS Integers, Sequences, FiniteSets, FiniteSetsExt, SequencesExt

CONSTANTS Agent,             \* names
          Operators,         \* those that act as the operator; the others are agents
          Name,              \* names of rooms
          Key,               \* idempotency keys
          Entry,             \* keys of the board
          Value,             \* what they are set to
          None,
          MaxAgents, MaxRooms, RoomHistory, MsgTtlMs,   \* Limits
          MaxOpenQuestions,  \* MAX_OPEN_QUESTIONS
          MaxMembers,        \* MAX_MEMBERS
          MaxBoardKeys,      \* MAX_BOARD_KEYS
          Creators,          \* bounds: who creates rooms,
          Readers,           \* members whose reading is followed,
          Present,           \* the agents there are at the start,
          MaxChurn,          \* how often agents come, go and are renamed, and commits refused,
          Uses,              \* the kinds of requests that behaviours are made of,
          MaxPosts,          \* posts made,
          MaxPostsFailing,   \* posts made where commits are refused,
          MaxTime            \* the clock

ASSUME LimitsAssumption ==
    {MaxAgents, MaxRooms, MaxOpenQuestions, MaxMembers, MaxBoardKeys, MsgTtlMs}
        \subseteq Nat \ {0}
ASSUME AgentAssumption ==
    /\ Operators \cup Readers \cup Creators \cup Present \subseteq Agent
    /\ IsFiniteSet(Agent) /\ Cardinality(Present) <= MaxAgents
ASSUME NoneAssumption ==
    /\ None \notin Key \cup Value \cup Nat
    /\ None \notin [to : SUBSET Agent, expires : Nat,
                    status : {"open", "resolved", "withdrawn", "expired"}]
ASSUME BoundsAssumption == MaxTime \in Nat

VARIABLES store,  \* Store: the rooms, the agents, the last id, the posts by key
          holds,  \* history: the version of an entry each reader read last, and
                  \* whether the entry was changed or removed since
          uses,   \* the kinds of requests that are made
          churn,  \* how often agents came, went or were renamed, or a commit was refused
          now     \* the clock

vars == <<store, holds, uses, churn, now>>

Nothing == [x \in {} |-> None]
Put(f, x, y) == [z \in DOMAIN f \cup {x} |-> IF z = x THEN y ELSE f[z]]
Without(f, S) == [z \in DOMAIN f \ S |-> f[z]]

Init == /\ store = [last_id |-> 0, agents |-> Present, rooms |-> Nothing, post_keys |-> Nothing]
        /\ holds = Nothing
        /\ uses \in Uses
        /\ churn = 0
        /\ now = 0
-----------------------------------------------------------------------------
(***************************************************************************)
(* A room.                                                                 *)
(***************************************************************************)
Member(role) == [role |-> role, cursor |-> 0]
Room(members, private, a) ==
    [members |-> members, private |-> private, created_by |-> a, closed |-> None,
     board |-> Nothing, posts |-> Nothing, open |-> {}]
Ask(to, expires) == [to |-> to, expires |-> expires, status |-> "open"]
Post(a, kind, q, ask, key) ==
    [kind |-> kind, ask |-> ask, key |-> key, from |-> a, reply_to |-> q]
BoardEntry(value, version) == [value |-> value, version |-> version]

is_open(room) == room.closed = None
is_owner(room, a) == a \in DOMAIN room.members /\ room.members[a].role = "owner"
is_open_question(post) == post.ask # None /\ post.ask.status = "open"

Answers(room, q) ==
    {id \in DOMAIN room.posts : room.posts[id].kind = "answer" /\ room.posts[id].reply_to = q}
answered(room, q) == {room.posts[id].from : id \in Answers(room, q)}

waiting_on(room, q) == room.posts[q].ask.to \ answered(room, q)

\* Room::keeps: an open question, or an answer to one.
keeps_answers(room, post) ==      \* not the question
    /\ post.kind = "answer"
    /\ post.reply_to \in DOMAIN room.posts
    /\ is_open_question(room.posts[post.reply_to])
keeps(room, post) ==
    \/ is_open_question(post)
    \/ /\ post.kind = "answer"
       /\ post.reply_to \in DOMAIN room.posts
       /\ is_open_question(room.posts[post.reply_to])

manages(room, a) == a \in Operators \/ is_owner(room, a)
visible(room, a) == a \in Operators \/ ~room.private \/ a \in DOMAIN room.members
strict(a) == a \notin Operators
share(limit) == IF limit \div 4 > 1 THEN limit \div 4 ELSE 1
-----------------------------------------------------------------------------
(***************************************************************************)
(* Store::apply, an operator for each effect.  Those of which a row makes  *)
(* several, one after the other, take a set: what they come to together.   *)
(***************************************************************************)
OpenQuestions(posts) == {id \in DOMAIN posts : is_open_question(posts[id])}

in_room(s, r, room) == [s EXCEPT !.rooms = Put(@, r, room)]

apply_room(s, r, room) ==
    in_room(s, r, [room EXCEPT !.open = OpenQuestions(room.posts)])

apply_member(s, r, a, member) ==
    in_room(s, r, [s.rooms[r] EXCEPT !.members = Put(@, a, member)])
apply_no_member(s, r, a) == in_room(s, r, [s.rooms[r] EXCEPT !.members = Without(@, {a})])

apply_post(s, r, id, post) ==
    LET room == [s.rooms[r] EXCEPT !.posts = Put(@, id, post),
                                   !.open = IF is_open_question(post) THEN @ \cup {id} ELSE @]
    IN  [in_room(s, r, room) EXCEPT
            !.last_id = id,
            !.post_keys = IF post.key = None THEN @ ELSE Put(@, <<r, post.from, post.key>>, id)]

with_status(room, ids, status) ==
    [room EXCEPT !.posts = [id \in DOMAIN @ |-> IF id \in ids
                                                THEN [@[id] EXCEPT !.ask.status = status] ELSE @[id]],
                 !.open = @ \ ids]
\* The questions, each a room's name and an id.
apply_question(s, qs, status) ==
    [s EXCEPT !.rooms = [r \in DOMAIN @ |->
                            with_status(@[r], {q[2] : q \in {q \in qs : q[1] = r}}, status)]]

KeysOf(r, posts, ids) ==
    {<<r, posts[id].from, posts[id].key>> : id \in {id \in ids : posts[id].key # None}}

apply_drop_posts(s, r, ids) ==
    LET room == [s.rooms[r] EXCEPT !.open = @ \ ids, !.posts = Without(@, ids)]
    IN  [in_room(s, r, room) EXCEPT
            !.post_keys = Without(@, KeysOf(r, s.rooms[r].posts, ids))]

apply_close(s, r, at) == in_room(s, r, [s.rooms[r] EXCEPT !.closed = at])

apply_board(s, r, k, entry) ==
    in_room(s, r, [s.rooms[r] EXCEPT !.board = IF entry = None THEN Without(@, {k})
                                               ELSE Put(@, k, entry)])

apply_drop_room(s, rs) ==
    [s EXCEPT !.rooms = Without(@, rs),
              !.post_keys = Without(@, {x \in DOMAIN @ : x[1] \in rs})]

apply_cursor(s, r, a, id) ==
    in_room(s, r, [s.rooms[r] EXCEPT !.members = Put(@, a, [@[a] EXCEPT !.cursor = id])])

apply_agent(s, as) == [s EXCEPT !.agents = @ \cup as]

apply_forget(s, as) ==
    [s EXCEPT !.agents = @ \ as,
              !.rooms = [r \in DOMAIN s.rooms |-> [s.rooms[r] EXCEPT !.members = Without(@, as)]]]

\* Store::reindex: of two posts under one key the later one counts.
reindex(s) ==
    LET keyed(r) == {id \in DOMAIN s.rooms[r].posts : s.rooms[r].posts[id].key # None}
        of(r, id) == <<r, s.rooms[r].posts[id].from, s.rooms[r].posts[id].key>>
    IN  [s EXCEPT !.post_keys =
            [x \in UNION {{of(r, id) : id \in keyed(r)} : r \in DOMAIN s.rooms} |->
                Max({id \in keyed(x[1]) : of(x[1], id) = x})]]

\* Store::rename: members, who made what, and whom questions are addressed to.
\* Core::rename has had the new name forgotten, so no room has both as members.
apply_rename(s, from, to) ==
    LET named(a) == IF a = from THEN to ELSE a
        post(p) == [p EXCEPT !.from = named(@),
                             !.ask = IF @ = None THEN @
                                     ELSE [p.ask EXCEPT !.to = {named(a) : a \in @}]]
        members(room) == IF from \in DOMAIN room.members
                         THEN Put(Without(room.members, {from}), to, room.members[from])
                         ELSE room.members
        room(x) == [x EXCEPT !.created_by = named(@),
                             !.members = members(x),
                             !.posts = [id \in DOMAIN @ |-> post(@[id])]]
    IN  reindex([s EXCEPT !.agents = (@ \ {from}) \cup {to},
                          !.rooms = [r \in DOMAIN @ |-> room(@[r])]])
-----------------------------------------------------------------------------
(***************************************************************************)
(* What requests are made of.                                              *)
(***************************************************************************)
\* What becomes of what readers hold, once the store has changed.
Version(s, x) == IF x[1] \in DOMAIN s.rooms /\ x[2] \in DOMAIN s.rooms[x[1]].board
                 THEN s.rooms[x[1]].board[x[2]].version ELSE 0
Since(h) ==
    IF Version(store', h.of) = 0 THEN "removed"
    ELSE IF /\ h.since = "same"
            /\ store'.rooms[h.of[1]].board[h.of[2]] # store.rooms[h.of[1]].board[h.of[2]]
    THEN "changed" ELSE h.since

Bound == IF "failing" \in uses THEN MaxPostsFailing ELSE MaxPosts

\* A request makes all its commits, or the journal refuses one after the first
\* (refused the first, it changes nothing).  Those that are rare are counted.
Made(steps, rare) ==
    /\ \/ store' = Last(steps) /\ churn' = churn + rare
       \/ /\ "failing" \in uses
          /\ \E i \in 2 .. Len(steps) - 1 : store' = steps[i]
          /\ churn' = churn + 1
    /\ churn' <= MaxChurn
    /\ store'.last_id <= Bound
    /\ holds' = [a \in DOMAIN holds |-> [holds[a] EXCEPT !.since = Since(holds[a])]]
    /\ UNCHANGED <<uses, now>>
Commit(steps) == Made(steps, 0)

\* Some n of S, more and more of it: in no particular order.
Some(S, n) == {SetToSeq(S)[i] : i \in 1 .. n}

\* The first n of the ids in S.
First(S, n) == {id \in S : Cardinality({x \in S : x < id}) < n}

trim_room(steps, r) ==
    LET s == Last(steps)
        posts == s.rooms[r].posts
        excess == Cardinality(DOMAIN posts) - RoomHistory
        ids == First({id \in DOMAIN posts : ~keeps(s.rooms[r], posts[id])}, excess)
    IN  IF excess > 0 /\ ids # {} THEN Append(steps, apply_drop_posts(s, r, ids)) ELSE steps

append(steps, r, post) ==
    LET s == Last(steps)
    IN  trim_room(Append(steps, apply_post(s, r, s.last_id + 1, post)), r)

log(steps, r, a) == append(steps, r, Post(a, "event", None, None, None))

set_question(steps, r, id, status) ==
    Append(steps, apply_question(Last(steps), {<<r, id>>}, status))

\* A commit for each of a set.
drop_rooms(steps, rs) ==
    steps \o [n \in 1 .. Cardinality(rs) |-> apply_drop_room(Last(steps), Some(rs, n))]
forgotten(steps, as) ==
    steps \o [n \in 1 .. Cardinality(as) |-> apply_forget(Last(steps), Some(as, n))]
known(steps, as) ==
    steps \o [n \in 1 .. Cardinality(as) |-> apply_agent(Last(steps), Some(as, n))]
expired(steps, qs) ==
    steps \o [n \in 1 .. Cardinality(qs) |-> apply_question(Last(steps), Some(qs, n), "expired")]
withdrawn(steps, r, ids) ==      \* in their order
    steps \o [n \in 1 .. Cardinality(ids) |->
                 apply_question(Last(steps), {r} \X First(ids, n), "withdrawn")]

room_members(s) == UNION {DOMAIN s.rooms[r].members : r \in {r \in DOMAIN s.rooms : is_open(s.rooms[r])}}

\* Core::ensure_agents, as the rows of commits it may make: which of the agents
\* that are in no open room go is left open.  None when there is no room.
ensure_agents(names) ==
    LET missing == names \ store.agents
        excess == Cardinality(store.agents) + Cardinality(missing) - MaxAgents
        going == kSubset(IF excess < 0 THEN 0 ELSE excess,
                         store.agents \ (room_members(store) \cup names))
    IN  IF missing = {} THEN {<<store>>}
        ELSE {known(forgotten(<<store>>, gone), missing) : gone \in going}

\* The end of Core::join: the member, and a line in the timeline.
joined(steps, r, a, member, actor) ==
    log(Append(steps, apply_member(Last(steps), r, a, member)), r, actor)
-----------------------------------------------------------------------------
(***************************************************************************)
(* Requests.                                                               *)
(***************************************************************************)
There(r) == r \in DOMAIN store.rooms
Known(names) == names \subseteq store.agents \cup Operators

\* The room closed longest ago makes way for one over the limit.
Closed == {r \in DOMAIN store.rooms : ~is_open(store.rooms[r])}
Evicted ==
    IF Cardinality(DOMAIN store.rooms) < MaxRooms THEN {{}}
    ELSE {{r} : r \in {r \in Closed : \A t \in Closed : store.rooms[r].closed <= store.rooms[t].closed}}

Created(a) == {r \in DOMAIN store.rooms : is_open(store.rooms[r]) /\ store.rooms[r].created_by = a}

create_room(r, a, others, private) ==
    /\ ~There(r)
    /\ Cardinality(others \cup {a}) <= MaxMembers
    /\ strict(a) => Known(others \ {a}) /\ Cardinality(Created(a)) < share(MaxRooms)
    /\ \E evicted \in Evicted, steps \in ensure_agents(others \cup {a}) :
          LET members == [m \in others \cup {a} |-> Member(IF m = a THEN "owner" ELSE "member")]
              room == Room(members, private, a)
              emptied == drop_rooms(steps, evicted)
          IN  Commit(log(Append(emptied, apply_room(Last(emptied), r, room)), r, a))

\* Agents join public rooms by themselves; owners add anyone and change roles.
join(r, a, role, actor) ==
    LET room == store.rooms[r]
    IN  /\ There(r) /\ visible(room, actor) /\ is_open(room)
        /\ a # actor \/ role = "owner" => manages(room, actor)
        /\ \/ /\ a \in DOMAIN room.members
              /\ role # None /\ role # room.members[a].role /\ manages(room, actor)
              /\ Commit(joined(<<store>>, r, a, [room.members[a] EXCEPT !.role = role], actor))
           \/ /\ a \notin DOMAIN room.members
              /\ room.private => manages(room, actor)
              /\ Cardinality(DOMAIN room.members) < MaxMembers
              /\ a # actor /\ strict(actor) => Known({a})
              /\ \E steps \in ensure_agents({a}) :
                    Commit(joined(steps, r, a, Member(IF role = None THEN "member" ELSE role), actor))

leave_room(r, a, actor) ==
    LET room == store.rooms[r]
        left == <<store, apply_no_member(store, r, a)>>
    IN  /\ There(r) /\ visible(room, actor)
        /\ a # actor => manages(room, actor)
        /\ a \in DOMAIN room.members
        /\ Commit(IF is_open(room) THEN log(left, r, actor) ELSE left)

\* Core::update_room: reopens the room, sets its topic, closes it.  Closing
\* withdraws the questions that are open.
Reopened(steps, r, actor) == log(Append(steps, apply_close(Last(steps), r, None)), r, actor)
Closing(steps, r, actor) ==
    LET logged == log(steps, r, actor)
        settled == withdrawn(logged, r, Last(logged).rooms[r].open)
    IN  Append(settled, apply_close(Last(settled), r, now))

update_room(r, topic, closed, actor) ==
    LET room == store.rooms[r]
        reopened == IF closed = FALSE /\ ~is_open(room) THEN Reopened(<<store>>, r, actor)
                    ELSE <<store>>
        set == IF topic THEN log(reopened, r, actor) ELSE reopened
    IN  /\ There(r) /\ visible(room, actor) /\ manages(room, actor)
        /\ topic => is_open(Last(reopened).rooms[r])
        /\ Commit(IF closed = TRUE /\ is_open(Last(set).rooms[r])
                  THEN Closing(set, r, actor) ELSE set)

delete_room(r, actor) ==
    /\ There(r) /\ visible(store.rooms[r], actor) /\ manages(store.rooms[r], actor)
    /\ Commit(drop_rooms(<<store>>, {r}))

\* Store::post_by_key: a request made again under its key changes nothing.
Repeated(r, a, key) ==
    /\ <<r, a, key>> \in DOMAIN store.post_keys
    /\ store.post_keys[<<r, a, key>>] \in DOMAIN store.rooms[r].posts

admit_question(room, to, a) ==
    /\ room.private /\ ~manages(room, a) => to \subseteq DOMAIN room.members
    /\ strict(a) => Known(to)
    /\ Cardinality(room.open) < MaxOpenQuestions
    /\ strict(a) => Cardinality({q \in room.open : room.posts[q].from = a}) < share(MaxOpenQuestions)

\* Core::post: those it brings into the room join it, one after the other.
brought(steps, r, members, actor) ==
    LET by(acc, m) == joined(acc, r, m, Member("member"), actor)
    IN  FoldLeft(by, steps, SetToSeq(members))

\* Core::post: a note, or a question to `to` for `ttl`.  Posting joins a public
\* room; a question brings in those it is addressed to.
Posted(r, a, to, post) ==
    LET joining == ({a} \cup to) \ DOMAIN store.rooms[r].members
    IN  /\ Cardinality(DOMAIN store.rooms[r].members \cup joining) <= MaxMembers
        /\ \E steps \in ensure_agents(joining) :
              Commit(append(brought(steps, r, joining, a), r, post))

post(r, a, key) ==
    /\ There(r) /\ visible(store.rooms[r], a) /\ is_open(store.rooms[r])
    /\ ~Repeated(r, a, key)
    /\ Posted(r, a, {}, Post(a, "note", None, None, key))

ask(r, a, to, ttl, key) ==
    /\ There(r) /\ visible(store.rooms[r], a) /\ is_open(store.rooms[r])
    /\ ~Repeated(r, a, key)
    /\ a \notin to
    /\ admit_question(store.rooms[r], to, a)
    /\ Posted(r, a, to, Post(a, "question", None, Ask(to, now + ttl), key))

\* Who may answer a question: who it is addressed to, once.
may_answer(room, q, a) ==
    /\ room.posts[q].from # a
    /\ room.posts[q].ask.to = {} \/ a \in room.posts[q].ask.to
    /\ a \notin answered(room, q)

Resolved_named(room, q) ==      \* never, when it is to nobody in particular
    room.posts[q].ask.to # {} /\ waiting_on(room, q) = {}
Resolved_members(room, q) ==      \* those who have left need not answer
    waiting_on(room, q) \cap DOMAIN room.members = {}
Resolved(room, q) == room.posts[q].ask.to = {} \/ waiting_on(room, q) = {}

answer(r, q, a, key) ==
    LET room == store.rooms[r]
        member == a \in DOMAIN room.members
    IN  /\ There(r) /\ visible(room, a) /\ is_open(room)
        /\ ~Repeated(r, a, key)
        /\ q \in DOMAIN room.posts /\ is_open_question(room.posts[q])
        /\ may_answer(room, q, a)
        /\ ~member => Cardinality(DOMAIN room.members) < MaxMembers
        /\ \E steps \in IF member THEN {<<store>>} ELSE ensure_agents({a}) :
              LET in == IF member THEN steps ELSE joined(steps, r, a, Member("member"), a)
                  made == append(in, r, Post(a, "answer", q, None, key))
              IN  Commit(IF Resolved(Last(made).rooms[r], q)
                         THEN set_question(made, r, q, "resolved") ELSE made)

withdraw(r, q, actor) ==
    LET room == store.rooms[r]
    IN  /\ There(r) /\ visible(room, actor)
        /\ q \in DOMAIN room.posts /\ is_open_question(room.posts[q])
        /\ room.posts[q].from # actor => manages(room, actor)
        /\ Commit(set_question(<<store>>, r, q, "withdrawn"))

\* Core::read_room: on to the n-th unread post of others, or past all there are.
read_room(r, a, n) ==
    LET posts == store.rooms[r].posts
        unread == {id \in DOMAIN posts : id > store.rooms[r].members[a].cursor}
        others == First({id \in unread : posts[id].from # a}, n)
    IN  /\ There(r) /\ a \in DOMAIN store.rooms[r].members
        /\ unread # {}
        /\ Commit(<<store, apply_cursor(store, r, a, Max(IF Cardinality(others) = n THEN others
                                                         ELSE unread))>>)

NextVersion_same(version) == IF version = 0 THEN 1 ELSE version
NextVersion(version) == version + 1

\* `v` is None to remove the entry; `expect` the version it must be at, or None.
board_set(r, k, v, expect, actor) ==
    LET board == store.rooms[r].board
        version == Version(store, <<r, k>>)
        entry == IF v = None THEN None ELSE BoardEntry(v, NextVersion(version))
    IN  /\ There(r) /\ visible(store.rooms[r], actor) /\ is_open(store.rooms[r])
        /\ actor \in Operators \cup DOMAIN store.rooms[r].members
        /\ expect \in {None, version}
        /\ IF k \in DOMAIN board THEN board[k].value # v
           ELSE v # None /\ Cardinality(DOMAIN board) < MaxBoardKeys
        /\ Commit(log(<<store, apply_board(store, r, k, entry)>>, r, actor))

board_read(r, k, a) ==
    /\ There(r) /\ visible(store.rooms[r], a) /\ k \in DOMAIN store.rooms[r].board
    /\ holds' = Put(holds, a, [version |-> Version(store, <<r, k>>), of |-> <<r, k>>, since |-> "same"])
    /\ UNCHANGED <<store, uses, churn, now>>
-----------------------------------------------------------------------------
(***************************************************************************)
(* Agents, the tick and restarts.                                          *)
(***************************************************************************)
\* An agent announces itself, or is sent a message.
appear(a) == /\ a \notin store.agents
             /\ \E steps \in ensure_agents({a}) : Made(steps, 1)

forget(a) == /\ a \in store.agents
             /\ Made(forgotten(<<store>>, {a}), 1)

\* Core::name_in_use, as far as rooms go.
name_in_use(a) ==
    \/ a \in store.agents
    \/ \E r \in DOMAIN store.rooms :
          LET room == store.rooms[r]
          IN  \/ room.created_by = a
              \/ a \in DOMAIN room.members
              \/ \E id \in DOMAIN room.posts :
                    \/ room.posts[id].from = a
                    \/ room.posts[id].ask # None /\ a \in room.posts[id].ask.to

\* An agent takes a name nothing refers to; the administrator may merge two.
rename(from, to) ==
    LET forgetting == forgotten(<<store>>, store.agents \cap {to})
    IN  /\ from # to /\ from \in store.agents /\ to \notin Operators
        /\ "merging" \in uses \/ ~name_in_use(to)
        /\ Made(Append(forgetting, apply_rename(Last(forgetting), from, to)), 1)

\* Core::sweep_rooms: open questions past their expiry, then rooms closed long ago.
Expired(room) == {id \in room.open : room.posts[id].ask.expires <= now}
Stale(room) == ~is_open(room) /\ room.closed + MsgTtlMs <= now
Overdue == UNION {{<<r, id>> : id \in Expired(store.rooms[r])} : r \in DOMAIN store.rooms}
Swept ==
    drop_rooms(expired(<<store>>, Overdue), {r \in DOMAIN store.rooms : Stale(store.rooms[r])})

sweep == Commit(Swept)

pass == /\ now < MaxTime
        /\ now' = now + 1
        /\ UNCHANGED <<store, holds, uses, churn>>

\* Store::from_snapshot: which questions are open, and the posts by key, are
\* found out again.
restart ==
    /\ store' = reindex([store EXCEPT !.rooms = [r \in DOMAIN @ |->
                             [@[r] EXCEPT !.open = OpenQuestions(store.rooms[r].posts)]]])
    /\ UNCHANGED <<holds, uses, churn, now>>

Keys == IF "keys" \in uses THEN Key \cup {None} ELSE {None}

\* Requests that make at least one post, and those that need make none.
Posting ==
    \/ \E r \in Name, a \in Creators, others \in SUBSET Agent, private \in BOOLEAN :
          (private => "private" \in uses) /\ create_room(r, a, others, private)
    \/ \E r \in DOMAIN store.rooms, a \in Agent :
          \/ \E b \in Agent, role \in {None, "owner", "member"} : join(r, b, role, a)
          \/ \E topic \in BOOLEAN, closed \in {None, TRUE, FALSE} : update_room(r, topic, closed, a)
          \/ \E key \in Keys : post(r, a, key)
          \/ /\ "questions" \in uses
             /\ \E key \in Keys :
                   \/ \E to \in SUBSET Agent, ttl \in 1 .. MsgTtlMs : ask(r, a, to, ttl, key)
                   \/ \E q \in DOMAIN store.rooms[r].posts : answer(r, q, a, key)
          \/ /\ "board" \in uses
             /\ \E k \in Entry, v \in Value \cup {None}, expect \in {None} \cup 0 .. MaxPosts :
                   board_set(r, k, v, expect, a)
Requests ==
    \E r \in DOMAIN store.rooms, a \in Agent :
       \/ \E b \in Agent : leave_room(r, b, a)
       \/ delete_room(r, a)
       \/ "questions" \in uses /\ \E q \in DOMAIN store.rooms[r].posts : withdraw(r, q, a)
       \/ "reading" \in uses /\ a \in Readers /\ \E n \in 1 .. MaxPosts : read_room(r, a, n)
       \/ "board" \in uses /\ a \in Readers /\ \E k \in Entry : board_read(r, k, a)
Agents ==
    \/ \E a \in Agent : appear(a) \/ forget(a)
    \/ \E a, b \in Agent : rename(a, b)

Next ==
    \/ store.last_id < Bound /\ Posting
    \/ Requests
    \/ "agents" \in uses /\ Agents
    \/ sweep \/ pass \/ restart

Spec == Init /\ [][Next]_vars

-----------------------------------------------------------------------------
(***************************************************************************)
(* Properties.                                                             *)
(***************************************************************************)
Status == {"open", "resolved", "withdrawn", "expired"}
TypeOK ==
    LET Id == 1 .. store.last_id
        AskType == [to : SUBSET Agent, expires : Nat, status : Status]
        Kind == {"note", "question", "answer", "event"}
        PostType == [from : Agent, kind : Kind, reply_to : Id \cup {None},
                     ask : AskType \cup {None}, key : Key \cup {None}]
    IN  /\ store.agents \subseteq Agent
        /\ Cardinality(store.agents) <= MaxAgents
        /\ Cardinality(DOMAIN store.rooms) <= MaxRooms
        /\ \A r \in DOMAIN store.rooms :
              LET room == store.rooms[r]
              IN  /\ DOMAIN room.posts \subseteq Id
                  /\ \A id \in DOMAIN room.posts : room.posts[id] \in PostType
                  /\ \A a \in DOMAIN room.members :
                        room.members[a] \in [role : {"owner", "member"}, cursor : 0 .. store.last_id]
                  /\ \A k \in DOMAIN room.board :
                        room.board[k] \in [value : Value, version : Nat \ {0}]
        /\ now \in 0 .. MaxTime

\* A room knows its open questions, through trimming, renames and restarts, and
\* a closed room has none: whoever waits on one is released when it closes.
OpenMatches ==
    \A r \in DOMAIN store.rooms :
       LET room == store.rooms[r]
       IN  /\ room.open = OpenQuestions(room.posts)
           /\ ~is_open(room) => room.open = {}

\* Members are agents there are: making room for agents, forgetting and renaming
\* them leave no room with a member nobody knows.
MembersKnown == \A r \in DOMAIN store.rooms : DOMAIN store.rooms[r].members \subseteq store.agents

\* "The question resolves once everyone it names has answered": one that is
\* open still waits for somebody, unless the journal took the last answer and
\* refused that the question is resolved: then it is open until it expires.
OpenIsAwaited ==
    "failing" \notin uses =>
    \A r \in DOMAIN store.rooms : \A q \in store.rooms[r].open :
       LET to == store.rooms[r].posts[q].ask.to
       IN  /\ to # {} => waiting_on(store.rooms[r], q) # {}
           /\ to = {} => Answers(store.rooms[r], q) = {}

\* "The asker cannot answer its own question, and each addressee answers once".
AnswersDiffer ==
    \A r \in DOMAIN store.rooms : \A q \in store.rooms[r].open :
       LET posts == store.rooms[r].posts
           all == Answers(store.rooms[r], q)
       IN  /\ \A id \in all : posts[id].from # posts[q].from
           /\ \A i, j \in all : i # j => posts[i].from # posts[j].from

\* No room has more questions open than it may, nor any agent more than its share
\* of them, whatever is settled, trimmed, renamed and restarted in between.
WithinShares ==
    \A r \in DOMAIN store.rooms :
       LET room == store.rooms[r]
       IN  /\ Cardinality(room.open) <= MaxOpenQuestions
           /\ \A a \in Agent \ Operators :
                 Cardinality({q \in room.open : room.posts[q].from = a}) <= share(MaxOpenQuestions)

\* "Repeating a request with the same key returns the original result": a post
\* still kept is what its key names, and a key names nothing else.
KeysFindPosts ==
    /\ \A r \in DOMAIN store.rooms : \A id \in DOMAIN store.rooms[r].posts :
          LET p == store.rooms[r].posts[id]
          IN  p.key # None => /\ <<r, p.from, p.key>> \in DOMAIN store.post_keys
                              /\ store.post_keys[<<r, p.from, p.key>>] = id
    /\ \A x \in DOMAIN store.post_keys :
          /\ x[1] \in DOMAIN store.rooms
          /\ store.post_keys[x] \in DOMAIN store.rooms[x[1]].posts
          /\ x \in KeysOf(x[1], store.rooms[x[1]].posts, {store.post_keys[x]})

\* Rooms, their members, questions and keys, through trimming, renames, agents
\* that go, refused commits and restarts.
RoomsHold == /\ TypeOK /\ OpenMatches /\ MembersKnown /\ OpenIsAwaited
             /\ AnswersDiffer /\ WithinShares /\ KeysFindPosts

\* "A write based on stale information fails": an entry changed since a reader
\* read it is at another version than it holds, so its write is refused.  Not so
\* once the entry was removed in between: its versions start again.
StaleWritesFailButAfterRemoval ==
    \A a \in DOMAIN holds :
       holds[a].since = "changed" => Version(store, holds[a].of) # holds[a].version

\* "An open question and its answers stay in the room until it closes, however
\* many posts follow."
OpenQuestionsStay ==
    [][ \A r \in DOMAIN store.rooms \cap DOMAIN store'.rooms :
           \A q \in store.rooms[r].open :
              LET room == store'.rooms[r]
              IN  /\ q \in DOMAIN room.posts
                  /\ q \in room.open => Answers(store.rooms[r], q) \subseteq Answers(room, q) ]_vars

\* A question resolves only when all it names have answered, and is never open
\* again, nor settled otherwise, whatever comes later.
SettledOnce ==
    [][ \A r \in DOMAIN store.rooms \cap DOMAIN store'.rooms :
           \A q \in DOMAIN store.rooms[r].posts \cap DOMAIN store'.rooms[r].posts :
              LET before == store.rooms[r].posts[q].ask
                  after == store'.rooms[r].posts[q].ask
              IN  before # None /\ after.status # before.status =>
                     /\ before.status = "open"
                     /\ after.status = "resolved" =>
                           /\ Answers(store'.rooms[r], q) # {}
                           /\ after.to \subseteq answered(store'.rooms[r], q) ]_vars

=============================================================================
