------------------------------- MODULE Listing -------------------------------
(***************************************************************************)
(* KEYS and SCAN sent alone: a walk through the keys a scope reaches, in   *)
(* their order, a run of Run keys at a time with the lock held, while      *)
(* other requests add, rename and remove keys between the runs             *)
(* (commands.rs walk and Scan; broker.rs walk and in_runs; db.rs           *)
(* with_prefixes).  A SCAN's pages make one walk when each is asked for    *)
(* with the cursor the one before returned.                                *)
(*                                                                         *)
(* SCAN's TYPE, which chooses among the keys of a page as MATCH does, and  *)
(* the bytes a reply may hold are left out.                                *)
(***************************************************************************)
EXTENDS Scopes

CONSTANTS Run,       \* WALK_RUN
          NoKey      \* no key: a walk from the start

VARIABLES db,        \* the keys there are: "live", or "expired" and not yet removed
          list       \* the walk under way

NoWalk == [on |-> FALSE]

Live == {k \in DOMAIN db : db[k] = "live"}

\* Db::with_prefixes: keys of each run, in order, after the one given.
with_prefixes(runs, after) ==
    FlattenSeq([i \in DOMAIN runs |->
        Sorted({k \in DOMAIN db : /\ IsPrefix(runs[i], k)
                                  /\ after = NoKey \/ Before(after, k)})])

\* walk: looks at `most` keys at most, and hands over those that are live and in
\* reach, up to `room` of them.
walk(scope, prefix, after, most, room) ==
    LET keys == with_prefixes(search_prefixes(scope, prefix), after)
        seen(n) == Chosen(SubSeq(keys, 1, n), {k \in Live : can_read(scope, k)})
        ends == {n \in 1 .. Len(keys) : n = most \/ Len(seen(n)) = room}
        n == IF ends = {} THEN Len(keys) ELSE Min(ends)
        full == Len(seen(n)) = room
    IN  [visited |-> seen(n), full |-> full,
         paused |-> IF ends # {} /\ ~full THEN keys[n] ELSE NoKey]

\* The keys a walk is to list: those its scope reads and its pattern means.
Listable(scope, pattern) == {k \in Live : can_read(scope, k) /\ Means(pattern, k)}

\* A client asks for KEYS, or begins a SCAN with COUNT count.  `steady` is the
\* keys that have been there, to be listed, since then.
Ask(scope, pattern, count) ==
    /\ list = NoWalk
    /\ list' = [on |-> TRUE, scope |-> scope, pattern |-> pattern, count |-> count,
                after |-> NoKey, seen |-> 0, found |-> <<>>,
                listed |-> <<>>, cursors |-> {}, steady |-> Listable(scope, pattern), over |-> FALSE]
    /\ UNCHANGED db

NoCount == 0      \* KEYS

\* One run, with the lock held: the walk pauses, or its page is complete and
\* goes to the client, which asks for the next with the cursor it names, the
\* last key of this one.
Step ==
    \E w \in {walk(list.scope, literal_prefix(list.pattern), list.after, Run,
                   IF list.count = NoCount THEN -1 ELSE list.count - list.seen)} :
       LET found == list.found \o Chosen(w.visited, {k \in Range(w.visited) : matches(list.pattern, k)})
           last == IF w.full THEN Last(w.visited) ELSE NoKey
       IN  list' = IF w.paused # NoKey
                   THEN [list EXCEPT !.after = w.paused, !.found = found,
                                     !.seen = @ + Len(w.visited)]
                   ELSE [list EXCEPT !.after = last, !.seen = 0, !.found = <<>>,
                                     !.listed = @ \o found, !.cursors = @ \cup ({last} \ {NoKey}),
                                     !.over = last = NoKey]

WalkOn == /\ list.on /\ ~list.over
          /\ Step
          /\ UNCHANGED db

Forget == /\ list.on /\ list.over
          /\ list' = NoWalk
          /\ UNCHANGED db

\* What becomes of the walk's ghosts as the keys change.
Unsteadied(gone) == IF list.on THEN [list EXCEPT !.steady = @ \ gone] ELSE list
-----------------------------------------------------------------------------
\* A walk lists every key that was there to be listed throughout, each key once
\* and in order, whatever came and went between its runs, and nothing its scope
\* does not reach; and a cursor names only such a key.
ListsWhatStays ==
    list.on =>
      /\ \A i, j \in DOMAIN list.listed : i < j => Before(list.listed[i], list.listed[j])
      /\ \A k \in Range(list.listed) \cup list.cursors : can_read(list.scope, k)
      /\ \A k \in Range(list.listed) : Means(list.pattern, k)
      /\ list.over => list.steady \subseteq Range(list.listed)
=============================================================================
