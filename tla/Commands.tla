------------------------------ MODULE Commands ------------------------------
(***************************************************************************)
(* What each command of the keyspace does to it (src/commands.rs, the      *)
(* dispatch of Exec and its methods; src/db.rs, the keys it works on).     *)
(*                                                                         *)
(* A keyspace `d` is [keys, due]: what each key holds, expired keys        *)
(* included until something removes them, and the deadlines the expire     *)
(* cycle goes by.  Exec(d, c, x) is the set of outcomes of command c in    *)
(* context x == [now, replay, overgrown]: one, but for a command that      *)
(* draws at random.  An outcome is the keyspace left, the keys whose change is told *)
(* (events), the commands journaled for it (none: nothing to save), and    *)
(* whether the request waits.  What a reply says is left out: a command    *)
(* that refuses and one that finds nothing to do leave the same outcome.   *)
(*                                                                         *)
(* Strings, list items, members and fields are integers, ordered as text   *)
(* is; MinInt..MaxInt are those that read as an i64, Word one that does    *)
(* not.  Byte limits (MAX_STRING, MAX_REPLY_BYTES) are left out, and so    *)
(* are infinite scores and times that do not fit.                          *)
(***************************************************************************)
EXTENDS Integers, FiniteSets, Sequences, Functions, FiniteSetsExt, SequencesExt

CONSTANTS Keys,          \* the names of keys
          MaxKeys,       \* POSTINO_MAX_KEYS
          MaxElements,   \* POSTINO_MAX_ELEMENTS
          MaxInt         \* i64::MAX

ASSUME CommandsAssumption ==
    /\ MaxKeys \in Nat \ {0} /\ MaxElements \in Nat \ {0} /\ MaxInt \in Nat

MinInt == -MaxInt - 1
Word   == MaxInt + 1
Never  == 0              \* a key without an expiry

--------------------------------------------------------------------------
(* The keyspace (db.rs).                                                   *)

Entry(type, v, exp) == [type |-> type, v |-> v, exp |-> exp]

Fresh == [keys |-> <<>>, due |-> {}]

Expired(e, now) == e.exp # Never /\ e.exp <= now

Held(d) == DOMAIN d.keys

\* Db::get: an expired key is as good as gone.
Live(d, now) == {k \in Held(d) : ~Expired(d.keys[k], now)}

Is(d, k, type, now) == k \in Live(d, now) /\ d.keys[k].type = type

Hold(d, k, e) == [d EXCEPT !.keys = [h \in DOMAIN @ \cup {k} |-> IF h = k THEN e ELSE @[h]]]

Drop(d, ks) == [d EXCEPT !.keys = Restrict(@, DOMAIN @ \ ks)]

\* Db::reindex_deadlines: the deadlines of the keys held, and no others.
Reindexed(d) ==
    [d EXCEPT !.due = {<<d.keys[k].exp, k>> : k \in {h \in Held(d) : d.keys[h].exp # Never}}]

\* Db::deadline.  A list that the deadline makes too long is rebuilt from the
\* keys held by then: x.overgrown says whether it is too long, as one with
\* enough stale deadlines in it is.
Due(d, k, at, x) ==
    IF at = Never THEN d
    ELSE IF x.overgrown THEN Reindexed(d)
    ELSE [d EXCEPT !.due = @ \cup {<<at, k>>}]

Empty(e) ==
    CASE e.type = "list"           -> e.v = <<>>
      [] e.type = "set"            -> e.v = {}
      [] e.type \in {"hash", "zset"} -> DOMAIN e.v = {}
      [] OTHER                     -> FALSE

Size(e) ==
    CASE e.type = "list"             -> Len(e.v)
      [] e.type = "set"              -> Cardinality(e.v)
      [] e.type \in {"hash", "zset"} -> Cardinality(DOMAIN e.v)
      [] e.type = "stream"           -> Cardinality(e.v.ids)
      [] OTHER                       -> 1

\* What a typed accessor reads: `none` stands for a key that holds nothing.
Read(d, k, now, none) == IF k \in Live(d, now) THEN d.keys[k].v ELSE none

\* A typed accessor fails on a live key of another type (WRONGTYPE).
Clash(d, k, type, now) == k \in Live(d, now) /\ d.keys[k].type # type

\* What a typed write leaves: a live key keeps its expiry, an expired or
\* missing one starts afresh, and a collection that became empty goes.
Keep(d, k, type, v, now) ==
    LET e == Entry(type, v, IF k \in Live(d, now) THEN d.keys[k].exp ELSE Never)
    IN  IF Empty(e) THEN Drop(d, {k}) ELSE Hold(d, k, e)

Admits_always(d, ks, x) ==      \* in a replay too
    ks \subseteq Held(d) \/ Cardinality(Held(d) \cup ks) <= MaxKeys

\* admit_all: every key held counts, expired ones too; one held needs no room.
Admits(d, ks, x) ==
    x.replay \/ ks \subseteq Held(d) \/ Cardinality(Held(d) \cup ks) <= MaxKeys

\* room_for
Room(x, len, adding) == x.replay \/ len + adding <= MaxElements

--------------------------------------------------------------------------
(* Outcomes.                                                               *)

Outcome(d, told, journal, waits) ==
    [d |-> d, told |-> told, journal |-> journal, waits |-> waits]

\* Refused, or nothing to do: not dirty, nothing journaled.
Nothing(d) == {Outcome(d, {}, <<>>, FALSE)}

\* Changed, told, and journaled as it was sent.
Done(d, told, c) == {Outcome(d, told, <<c>>, FALSE)}

\* Exec::wait: to be tried again once one of its keys changes.
Waiting(d) == {Outcome(d, {}, <<>>, TRUE)}

--------------------------------------------------------------------------
(* Keys.                                                                   *)

\* DEL, UNLINK: an expired key goes too, but is neither counted nor told.
Del(d, c, x) ==
    LET live == ToSet(c.keys) \cap Live(d, x.now)
        left == Drop(d, ToSet(c.keys))
    IN  IF live = {} THEN Nothing(left) ELSE Done(left, live, c)

\* EXPIRE, PEXPIRE, EXPIREAT, PEXPIREAT with NX, XX, GT, LT.  get_mut removes
\* an expired key without a word.  A time that has passed deletes the key.
Expire(d, c, x) ==
    LET at      == IF c.abs THEN c.n ELSE x.now + c.n
        current == d.keys[c.key].exp
        allowed == IF current = Never
                   THEN c.flags \cap {"XX", "GT"} = {}
                   ELSE /\ "NX" \notin c.flags
                        /\ "GT" \in c.flags => at > current
                        /\ "LT" \in c.flags => at < current
    IN  IF c.key \notin Live(d, x.now) THEN Nothing(Drop(d, {c.key}))
        ELSE IF ~allowed THEN Nothing(d)
        ELSE IF at <= x.now THEN Done(Drop(d, {c.key}), {c.key}, c)
        ELSE Done(Due(Hold(d, c.key, [d.keys[c.key] EXCEPT !.exp = at]), c.key, at, x),
                  {c.key}, c)

Persist(d, c, x) ==
    IF c.key \notin Live(d, x.now) THEN Nothing(Drop(d, {c.key}))
    ELSE IF d.keys[c.key].exp = Never THEN Nothing(d)
    ELSE Done(Hold(d, c.key, [d.keys[c.key] EXCEPT !.exp = Never]), {c.key}, c)

Rename_quietly(d, c, x) ==      \* tells of the key that is gone only
    LET live == Live(d, x.now)
        e    == d.keys[c.key]
    IN  IF c.key \notin live \/ c.key = c.to \/ (c.nx /\ c.to \in live) THEN Nothing(d)
        ELSE Done(Hold(Due(Drop(d, {c.key}), c.to, e.exp, x), c.to, e), {c.key}, c)

\* RENAME, RENAMENX: the entry moves with its expiry, onto whatever `to` held.
\* It gives its deadline before `to` holds it: a rebuild then leaves it out.
Rename(d, c, x) ==
    LET live == Live(d, x.now)
        e    == d.keys[c.key]
    IN  IF c.key \notin live \/ c.key = c.to \/ (c.nx /\ c.to \in live) THEN Nothing(d)
        ELSE Done(Hold(Due(Drop(d, {c.key}), c.to, e.exp, x), c.to, e), {c.key, c.to}, c)

\* FLUSHALL, FLUSHDB: everything held goes, and every key's waiters are woken
\* (Broker::run_command).  The deadlines stay behind.
FlushAll(d, c, x) ==
    IF Held(d) = {} THEN Nothing(d) ELSE Done(Drop(d, Held(d)), Keys, c)

--------------------------------------------------------------------------
(* Strings.                                                                *)

StoreString(d, k, v, exp, x) == Due(Hold(d, k, Entry("string", v, exp)), k, exp, x)

\* SET, SETNX, SETEX, PSETEX: `only` is NX, XX, IFEQ or none, `get` whether
\* the old value is wanted, `ttl` the expiry asked for (Never: none).
SetString(d, c, x) ==
    LET here    == c.key \in Live(d, x.now)
        text    == Is(d, c.key, "string", x.now)
        allowed == /\ c.only = "NX" => ~here
                   /\ c.only = "XX" => here
                   /\ c.only = "IFEQ" => text /\ d.keys[c.key].v = c.want
        exp     == IF c.keep THEN IF here THEN d.keys[c.key].exp ELSE Never
                   ELSE IF c.ttl = Never THEN Never ELSE x.now + c.ttl
    IN  IF \/ (c.get \/ c.only = "IFEQ") /\ here /\ ~text
           \/ ~allowed
           \/ ~Admits(d, {c.key}, x)
        THEN Nothing(d)
        ELSE Done(StoreString(d, c.key, c.v, exp, x), {c.key}, c)

\* SETNX, SETEX and PSETEX, GETSET: each the SET it amounts to.
SetCommand(key, v, only, get, ttl) ==
    [op |-> "SET", key |-> key, v |-> v, only |-> only, want |-> Never, get |-> get,
     ttl |-> ttl, keep |-> FALSE]
SETNX(key, v)      == SetCommand(key, v, "NX", FALSE, Never)
SETEX(key, ttl, v) == SetCommand(key, v, "", FALSE, ttl)
GETSET(key, v)     == SetCommand(key, v, "", TRUE, Never)

\* MSET, MSETNX: all fit, or none is written; a key named twice keeps the last.
SetMany(d, c, x) ==
    LET ks   == {p[1] : p \in ToSet(c.pairs)}
        last(k) == Max({i \in DOMAIN c.pairs : c.pairs[i][1] = k})
    IN  IF (c.nx /\ ks \cap Live(d, x.now) # {}) \/ ~Admits(d, ks, x) THEN Nothing(d)
        ELSE Done([d EXCEPT !.keys =
                      [k \in DOMAIN @ \cup ks |->
                          IF k \in ks THEN Entry("string", c.pairs[last(k)][2], Never)
                          ELSE @[k]]],
                  ks, c)

\* INCR, DECR, INCRBY, DECRBY, INCRBYFLOAT: the expiry is kept, and a sum
\* that does not fit is refused.
Incr(d, c, x) ==
    LET next == Read(d, c.key, x.now, 0) + c.n
    IN  IF \/ Clash(d, c.key, "string", x.now)
           \/ Read(d, c.key, x.now, 0) = Word
           \/ next \notin MinInt..MaxInt
           \/ ~Admits(d, {c.key}, x)
        THEN Nothing(d)
        ELSE Done(Keep(d, c.key, "string", next, x.now), {c.key}, c)

\* APPEND: onto nothing it is what was sent.
Append_(d, c, x) ==
    LET joined == IF c.key \in Live(d, x.now) THEN Word ELSE c.v
    IN  IF Clash(d, c.key, "string", x.now) \/ ~Admits(d, {c.key}, x) THEN Nothing(d)
        ELSE Done(Keep(d, c.key, "string", joined, x.now), {c.key}, c)

\* GETDEL, and DELIFEQ, which first compares what the key holds.
GetDel(d, c, x) ==
    IF /\ Is(d, c.key, "string", x.now)
       /\ c.op = "DELIFEQ" => d.keys[c.key].v = c.want
    THEN Done(Drop(d, {c.key}), {c.key}, c)
    ELSE Nothing(d)

\* GETEX with an expiry, or PERSIST (Never).
GetEx(d, c, x) ==
    LET exp == IF c.ttl = Never THEN Never ELSE x.now + c.ttl
    IN  IF ~Is(d, c.key, "string", x.now) THEN Nothing(d)
        ELSE Done(Due(Hold(d, c.key, [d.keys[c.key] EXCEPT !.exp = exp]), c.key, exp, x),
                  {c.key}, c)

--------------------------------------------------------------------------
(* Lists.                                                                  *)

\* The items of `l` at the positions in `at`, in order.
Only(l, at) ==
    LET order == SetToSortSeq(at \cap DOMAIN l, LAMBDA a, b : a < b)
    IN  [i \in DOMAIN order |-> l[order[i]]]

\* The positions a range names, negative ones counted from the end
\* (range_bounds); 0-based as in the commands, 1-based as in a sequence.
RangeAt(start, stop, len) ==
    LET from == IF start < 0 THEN Max({len + start, 0}) ELSE start
        to   == IF stop < 0 THEN len + stop ELSE Min({stop, len - 1})
    IN  {i \in 1..len : from <= i - 1 /\ i - 1 <= to}

\* What is left of a list after `n` pops at one end.
Popped(l, n, left) ==
    IF n >= Len(l) THEN <<>>
    ELSE IF left THEN SubSeq(l, n + 1, Len(l)) ELSE SubSeq(l, 1, Len(l) - n)

\* Items pushed one after another at one end.
Pushed(l, items, left) == IF left THEN Reverse(items) \o l ELSE l \o items

EndOf(l, left) == IF left THEN l[1] ELSE l[Len(l)]

\* LPUSH, RPUSH, LPUSHX, RPUSHX
Push(d, c, x) ==
    LET l == Read(d, c.key, x.now, <<>>)
    IN  IF \/ Clash(d, c.key, "list", x.now)
           \/ c.existing /\ c.key \notin Live(d, x.now)
           \/ ~Room(x, Len(l), Len(c.items))
           \/ ~Admits(d, {c.key}, x)
        THEN Nothing(d)
        ELSE Done(Keep(d, c.key, "list", Pushed(l, c.items, c.left), x.now), {c.key}, c)

\* LPOP, RPOP of up to `n` items.
Pop(d, c, x) ==
    IF ~Is(d, c.key, "list", x.now) \/ c.n = 0 THEN Nothing(d)
    ELSE Done(Keep(d, c.key, "list", Popped(d.keys[c.key].v, c.n, c.left), x.now),
              {c.key}, c)

\* BLPOP, BRPOP: the first of the keys with something to give; journaled as
\* the pop it made.  A key of another type is an error when it is met.
BlockingPop(d, c, x) ==
    LET there == {i \in DOMAIN c.keys : c.keys[i] \in Live(d, x.now)}
        first == c.keys[Min(there)]
        pop   == [op |-> "POP", key |-> first, n |-> 1, left |-> c.left]
    IN  IF there = {} THEN Waiting(d) ELSE Pop(d, pop, x)

Move_unasked(d, c, x) ==        \* makes the new key without asking for room
    LET source == d.keys[c.key].v
        dest   == Read(d, c.to, x.now, <<>>)
        item   == EndOf(source, c.left)
        taken  == Keep(d, c.key, "list", Popped(source, 1, c.left), x.now)
    IN  IF ~Is(d, c.key, "list", x.now) \/ Clash(d, c.to, "list", x.now) \/ c.key = c.to
        THEN Nothing(d)
        ELSE IF ~Room(x, Len(dest), 1) THEN Nothing(d)
        ELSE Done(Keep(taken, c.to, "list", Pushed(dest, <<item>>, c.toleft), x.now),
                  {c.key, c.to}, c)

\* LMOVE, RPOPLPUSH: whatever can refuse the move comes before anything
\* moves, and an emptied source makes room for the key it goes to.
Move(d, c, x) ==
    LET source == d.keys[c.key].v
        dest   == Read(d, c.to, x.now, <<>>)
        item   == EndOf(source, c.left)
        taken  == Keep(d, c.key, "list", Popped(source, 1, c.left), x.now)
    IN  IF ~Is(d, c.key, "list", x.now) \/ Clash(d, c.to, "list", x.now) THEN Nothing(d)
        ELSE IF c.key = c.to
        THEN Done(Keep(d, c.key, "list",
                       Pushed(Popped(source, 1, c.left), <<item>>, c.toleft), x.now),
                  {c.key}, c)
        ELSE IF \/ ~Room(x, Len(dest), 1)
                \/ dest = <<>> /\ Len(source) > 1 /\ ~Admits(d, {c.to}, x)
        THEN Nothing(d)
        ELSE Done(Keep(taken, c.to, "list", Pushed(dest, <<item>>, c.toleft), x.now),
                  {c.key, c.to}, c)

RPOPLPUSH(key, to) == [op |-> "MOVE", key |-> key, to |-> to, left |-> FALSE, toleft |-> TRUE]

\* BLMOVE, journaled as LMOVE.
BlockingMove(d, c, x) ==
    IF c.key \notin Live(d, x.now) THEN Waiting(d)
    ELSE Move(d, [c EXCEPT !.op = "MOVE"], x)

ListSet(d, c, x) ==
    LET l == d.keys[c.key].v
        i == 1 + (IF c.n < 0 THEN Len(l) + c.n ELSE c.n)
    IN  IF ~Is(d, c.key, "list", x.now) \/ i \notin DOMAIN l THEN Nothing(d)
        ELSE Done(Keep(d, c.key, "list", [l EXCEPT ![i] = c.v], x.now), {c.key}, c)

\* LREM: up to |n| of the items equal to `v`, from the head, or for n < 0
\* from the tail; all of them for 0.
ListRemove(d, c, x) ==
    LET l     == d.keys[c.key].v
        equal == {i \in DOMAIN l : l[i] = c.v}
        gone  == {i \in equal :
                     \/ c.n = 0
                     \/ c.n > 0 /\ Cardinality({j \in equal : j <= i}) <= c.n
                     \/ c.n < 0 /\ Cardinality({j \in equal : j >= i}) <= -c.n}
    IN  IF ~Is(d, c.key, "list", x.now) THEN Nothing(d)
        ELSE IF gone = {} THEN Nothing(d)
        ELSE Done(Keep(d, c.key, "list", Only(l, DOMAIN l \ gone), x.now), {c.key}, c)

ListTrim(d, c, x) ==
    LET l    == d.keys[c.key].v
        kept == RangeAt(c.start, c.stop, Len(l))
    IN  IF ~Is(d, c.key, "list", x.now) THEN Nothing(d)
        ELSE IF kept = DOMAIN l THEN Nothing(d)
        ELSE Done(Keep(d, c.key, "list", Only(l, kept), x.now), {c.key}, c)

ListInsert(d, c, x) ==
    LET l  == d.keys[c.key].v
        at == {i \in DOMAIN l : l[i] = c.pivot}
    IN  IF ~Is(d, c.key, "list", x.now) THEN Nothing(d)
        ELSE IF at = {} \/ ~Room(x, Len(l), 1) THEN Nothing(d)
        ELSE Done(Keep(d, c.key, "list",
                       InsertAt(l, IF c.before THEN Min(at) ELSE Min(at) + 1, c.v), x.now),
                  {c.key}, c)

--------------------------------------------------------------------------
(* Sets.                                                                   *)

SetAdd(d, c, x) ==
    LET s == Read(d, c.key, x.now, {})
    IN  IF \/ Clash(d, c.key, "set", x.now)
           \/ ~Room(x, Cardinality(s), Cardinality(c.members \ s))
           \/ ~Admits(d, {c.key}, x)
           \/ c.members \subseteq s
        THEN Nothing(d)
        ELSE Done(Keep(d, c.key, "set", s \cup c.members, x.now), {c.key}, c)

SetRemove(d, c, x) ==
    IF ~Is(d, c.key, "set", x.now) THEN Nothing(d)
    ELSE IF c.members \cap d.keys[c.key].v = {} THEN Nothing(d)
    ELSE Done(Keep(d, c.key, "set", d.keys[c.key].v \ c.members, x.now), {c.key}, c)

\* SMOVE, with the checks of LMOVE before anything moves.
SetMove(d, c, x) ==
    LET source == d.keys[c.key].v
        dest   == Read(d, c.to, x.now, {})
        taken  == Keep(d, c.key, "set", source \ {c.member}, x.now)
    IN  IF ~Is(d, c.key, "set", x.now) \/ Clash(d, c.to, "set", x.now) THEN Nothing(d)
        ELSE IF \/ c.key = c.to
                \/ c.member \notin source
                \/ /\ c.member \notin dest
                   /\ \/ ~Room(x, Cardinality(dest), 1)
                      \/ dest = {} /\ Cardinality(source) > 1 /\ ~Admits(d, {c.to}, x)
        THEN Nothing(d)
        ELSE Done(Keep(taken, c.to, "set", dest \cup {c.member}, x.now),
                  {c.key, c.to}, c)

\* SPOP of `n` members at random, journaled as the SREM of those it drew.
SetPop(d, c, x) ==
    IF ~Is(d, c.key, "set", x.now) \/ c.n = 0 THEN Nothing(d)
    ELSE LET s == d.keys[c.key].v
         IN  UNION {SetRemove(d, [op |-> "SREM", key |-> c.key, members |-> drawn], x) :
                        drawn \in kSubset(Min({c.n, Cardinality(s)}), s)}

--------------------------------------------------------------------------
(* Hashes.                                                                 *)

NoFields == [f \in {} |-> 0]

\* `f` with every pair of `pairs` set in turn.
Written(f, pairs) ==
    FoldLeft(LAMBDA g, p : [k \in DOMAIN g \cup {p[1]} |-> IF k = p[1] THEN p[2] ELSE g[k]],
             f, pairs)

\* HSET, HMSET: room is asked for every pair, known fields too.
HashSet(d, c, x) ==
    LET h == Read(d, c.key, x.now, NoFields)
    IN  IF \/ Clash(d, c.key, "hash", x.now)
           \/ ~Room(x, Cardinality(DOMAIN h), Len(c.pairs))
           \/ ~Admits(d, {c.key}, x)
        THEN Nothing(d)
        ELSE Done(Keep(d, c.key, "hash", Written(h, c.pairs), x.now), {c.key}, c)

HashSetNew(d, c, x) ==
    IF Is(d, c.key, "hash", x.now) /\ c.pairs[1][1] \in DOMAIN Read(d, c.key, x.now, NoFields)
    THEN Nothing(d) ELSE HashSet(d, c, x)

HashDelete(d, c, x) ==
    IF ~Is(d, c.key, "hash", x.now) THEN Nothing(d)
    ELSE LET h == d.keys[c.key].v
         IN  IF c.fields \cap DOMAIN h = {} THEN Nothing(d)
             ELSE Done(Keep(d, c.key, "hash", Restrict(h, DOMAIN h \ c.fields), x.now),
                       {c.key}, c)

\* HINCRBY, HINCRBYFLOAT
HashIncr(d, c, x) ==
    LET h    == Read(d, c.key, x.now, NoFields)
        old  == IF c.field \in DOMAIN h THEN h[c.field] ELSE 0
    IN  IF \/ Clash(d, c.key, "hash", x.now)
           \/ c.field \notin DOMAIN h /\ ~Room(x, Cardinality(DOMAIN h), 1)
           \/ old = Word
           \/ old + c.n \notin MinInt..MaxInt
           \/ ~Admits(d, {c.key}, x)
        THEN Nothing(d)
        ELSE Done(Keep(d, c.key, "hash", Written(h, <<<<c.field, old + c.n>>>>), x.now),
                  {c.key}, c)

--------------------------------------------------------------------------
(* Sorted sets: member |-> score.                                          *)

\* Members by score, then by name (ZSet::order).
Ranked(z) == SetToSortSeq(DOMAIN z, LAMBDA a, b : z[a] < z[b] \/ (z[a] = z[b] /\ a < b))

\* ZADD with NX, XX, GT, LT, INCR: pair after pair, counting what changed.
ZAdded(z, c) ==
    FoldLeft(LAMBDA acc, p :
                 LET m     == p[2]
                     here  == m \in DOMAIN acc.z
                     score == IF "INCR" \in c.flags /\ here THEN acc.z[m] + p[1] ELSE p[1]
                     kept  == IF here
                              THEN /\ "NX" \notin c.flags
                                   /\ "GT" \in c.flags => score > acc.z[m]
                                   /\ "LT" \in c.flags => score < acc.z[m]
                              ELSE "XX" \notin c.flags
                     new   == ~here \/ acc.z[m] # score
                 IN  IF ~kept THEN acc
                     ELSE [z |-> Written(acc.z, <<<<m, score>>>>),
                           n |-> IF new THEN acc.n + 1 ELSE acc.n],
             [z |-> z, n |-> 0], c.pairs)

ZAdd(d, c, x) ==
    LET z     == Read(d, c.key, x.now, NoFields)
        new   == Cardinality({i \in DOMAIN c.pairs : c.pairs[i][2] \notin DOMAIN z})
        after == ZAdded(z, c)
    IN  IF \/ Clash(d, c.key, "zset", x.now)
           \/ "XX" \notin c.flags /\ ~Room(x, Cardinality(DOMAIN z), new)
           \/ "XX" \in c.flags /\ c.key \notin Live(d, x.now)
           \/ ~Admits(d, {c.key}, x)
           \/ after.n = 0
        THEN Nothing(d)
        ELSE Done(Keep(d, c.key, "zset", after.z, x.now), {c.key}, c)

\* ZINCRBY always writes, as ZADD INCR without conditions does, and counts
\* as a change even when the score stays.
ZIncr(d, c, x) ==
    LET z    == Read(d, c.key, x.now, NoFields)
        old  == IF c.member \in DOMAIN z THEN z[c.member] ELSE 0
    IN  IF \/ Clash(d, c.key, "zset", x.now)
           \/ c.member \notin DOMAIN z /\ ~Room(x, Cardinality(DOMAIN z), 1)
           \/ ~Admits(d, {c.key}, x)
        THEN Nothing(d)
        ELSE Done(Keep(d, c.key, "zset", Written(z, <<<<c.member, old + c.n>>>>), x.now),
                  {c.key}, c)

\* Removes `gone` from the sorted set at `key`.
ZTaken(d, c, x, gone) ==
    LET z == d.keys[c.key].v
    IN  IF gone = {} THEN Nothing(d)
        ELSE Done(Keep(d, c.key, "zset", Restrict(z, DOMAIN z \ gone), x.now), {c.key}, c)

ZRemove(d, c, x) ==
    IF ~Is(d, c.key, "zset", x.now) THEN Nothing(d)
    ELSE ZTaken(d, c, x, c.members \cap DOMAIN d.keys[c.key].v)

\* ZREMRANGEBYSCORE, ZREMRANGEBYRANK
ZRemoveRange(d, c, x) ==
    IF ~Is(d, c.key, "zset", x.now) THEN Nothing(d)
    ELSE LET z == d.keys[c.key].v
             r == Ranked(z)
         IN  ZTaken(d, c, x,
                    IF c.byscore THEN {m \in DOMAIN z : c.start <= z[m] /\ z[m] <= c.stop}
                    ELSE {r[i] : i \in RangeAt(c.start, c.stop, Len(r))})

\* ZPOPMIN, ZPOPMAX of up to `n` members.
ZPop(d, c, x) ==
    IF ~Is(d, c.key, "zset", x.now) THEN Nothing(d)
    ELSE LET r == Ranked(d.keys[c.key].v)
             n == Min({c.n, Len(r)})
         IN  ZTaken(d, c, x,
                    {r[i] : i \in IF c.min THEN 1..n ELSE (Len(r) - n + 1)..Len(r)})

\* BZPOPMIN, BZPOPMAX, journaled as the pop they make.
BlockingZPop(d, c, x) ==
    LET there == {i \in DOMAIN c.keys : c.keys[i] \in Live(d, x.now)}
        pop   == [op |-> "ZPOP", key |-> c.keys[Min(there)], n |-> 1, min |-> c.min]
    IN  IF there = {} THEN Waiting(d) ELSE ZPop(d, pop, x)

=============================================================================
