------------------------------ MODULE Keyspace ------------------------------
(***************************************************************************)
(* The keyspace in use (src/broker.rs, run_command to multi and            *)
(* expire_keys; src/db.rs): commands run one at a time under the           *)
(* server's lock, each change is journaled as commands with the time they  *)
(* ran, the expire cycle removes what is due without a line in the         *)
(* journal, the clock moves on, and the server restarts into whatever      *)
(* replaying the journal on the last snapshot gives.                       *)
(*                                                                         *)
(* `copy` is that result: the keyspace as a restart at this moment would   *)
(* rebuild it.  How the journal reaches the disk, and what a crash takes   *)
(* of it, is the matter of JournalTail and Journal.  A batch (multi) is    *)
(* its commands one after another, so it needs no action of its own.       *)
(*                                                                         *)
(* The commands clients send are the constant Menu: families of commands,  *)
(* one of which is in use in each behaviour.                               *)
(***************************************************************************)
EXTENDS Streams

CONSTANTS Menu,         \* a family |-> the commands sent
          MaxNow,       \* bound: the clock stops here
          MaxScore,     \* bound: scores stay within -MaxScore..MaxScore
          Back,         \* bound: a family |-> how often the clock is set back
          Overgrown     \* bound: families in use when deadlines overgrow their list

ASSUME KeyspaceAssumption ==
    /\ MaxNow \in Nat /\ MaxScore \in Nat
    /\ Back \in [DOMAIN Menu -> Nat] /\ Overgrown \subseteq DOMAIN Menu

VARIABLES family,       \* the commands in use
          db,           \* Db: the keys and their deadlines
          copy,         \* what replaying the journal rebuilds
          unlisted,     \* deadlines a rename gave as the list was rebuilt
          now,          \* util::now_ms, the clock of the system
          back          \* how often that clock was set back

vars == <<family, db, copy, unlisted, now, back>>

\* Exec::dispatch
Exec(d, c, x) ==
    CASE c.op = "DEL"      -> Del(d, c, x)
      [] c.op = "EXPIRE"   -> Expire(d, c, x)
      [] c.op = "PERSIST"  -> Persist(d, c, x)
      [] c.op = "RENAME"   -> Rename(d, c, x)
      [] c.op = "FLUSHALL" -> FlushAll(d, c, x)
      [] c.op = "SET"      -> SetString(d, c, x)
      [] c.op = "MSET"     -> SetMany(d, c, x)
      [] c.op = "INCR"     -> Incr(d, c, x)
      [] c.op = "APPEND"   -> Append_(d, c, x)
      [] c.op \in {"GETDEL", "DELIFEQ"} -> GetDel(d, c, x)
      [] c.op = "GETEX"    -> GetEx(d, c, x)
      [] c.op = "PUSH"     -> Push(d, c, x)
      [] c.op = "POP"      -> Pop(d, c, x)
      [] c.op = "BPOP"     -> BlockingPop(d, c, x)
      [] c.op = "MOVE"     -> Move(d, c, x)
      [] c.op = "BMOVE"    -> BlockingMove(d, c, x)
      [] c.op = "LSET"     -> ListSet(d, c, x)
      [] c.op = "LREM"     -> ListRemove(d, c, x)
      [] c.op = "LTRIM"    -> ListTrim(d, c, x)
      [] c.op = "LINSERT"  -> ListInsert(d, c, x)
      [] c.op = "SADD"     -> SetAdd(d, c, x)
      [] c.op = "SREM"     -> SetRemove(d, c, x)
      [] c.op = "SMOVE"    -> SetMove(d, c, x)
      [] c.op = "SPOP"     -> SetPop(d, c, x)
      [] c.op = "HSET"     -> HashSet(d, c, x)
      [] c.op = "HSETNX"   -> HashSetNew(d, c, x)
      [] c.op = "HDEL"     -> HashDelete(d, c, x)
      [] c.op = "HINCRBY"  -> HashIncr(d, c, x)
      [] c.op = "ZADD"     -> ZAdd(d, c, x)
      [] c.op = "ZINCRBY"  -> ZIncr(d, c, x)
      [] c.op = "ZREM"     -> ZRemove(d, c, x)
      [] c.op = "ZREMRANGE" -> ZRemoveRange(d, c, x)
      [] c.op = "ZPOP"     -> ZPop(d, c, x)
      [] c.op = "BZPOP"    -> BlockingZPop(d, c, x)
      [] c.op = "XADD"     -> XAdd(d, c, x)
      [] c.op = "XDEL"     -> XDel(d, c, x)
      [] c.op = "XTRIM"    -> XTrim(d, c, x)
      [] c.op = "XREAD"    -> XRead(d, c, x)
      [] c.op = "XCREATE"  -> XGroupCreate(d, c, x)
      [] c.op = "XGROUP"   -> XGroup(d, c, x)
      [] c.op = "XREADGROUP" -> XReadGroup(d, c, x)
      [] c.op = "XACK"     -> XAck(d, c, x)
      [] c.op = "XCLAIM"   -> XClaim(d, c, x)
      [] c.op = "XAUTOCLAIM" -> XAutoClaim(d, c, x)

\* key_spec, key_args: the arguments that are keys, which a scope is checked
\* against and a blocked command waits on.
KeyArgs(c) ==
    CASE c.op = "FLUSHALL"                           -> {}
      [] c.op \in {"DEL", "BPOP", "BZPOP", "XREAD"}  -> ToSet(c.keys)
      [] c.op = "MSET"                               -> {p[1] : p \in ToSet(c.pairs)}
      [] c.op \in {"RENAME", "MOVE", "BMOVE", "SMOVE"} -> {c.key, c.to}
      [] OTHER                                       -> {c.key}

\* writes: refused while the server is halted or the journal cannot be written.
Writes(c) == c.op # "XREAD"

\* grows: refused once the server is out of memory.
Grows(c) ==
    \/ c.op \in {"SET", "MSET", "INCR", "APPEND", "PUSH", "LSET", "LINSERT", "SADD", "HSET",
                  "HSETNX", "HINCRBY", "ZADD", "ZINCRBY", "XADD", "XREADGROUP", "XCREATE"}
    \/ c.op = "XGROUP" /\ c.sub \in {"SETID", "CREATECONSUMER"}

Sent(at, overgrown) == [now |-> at, replay |-> FALSE, overgrown |-> overgrown]

\* Broker::replay, of commands journaled with the time `at`: limits do not
\* hold them back, and its list of deadlines grows as any other.
Replayed(d, journal, at, overgrown) ==
    LET x == [now |-> at, replay |-> TRUE, overgrown |-> overgrown]
    IN  FoldLeft(LAMBDA e, c : (CHOOSE o \in Exec(e, c, x) : TRUE).d, d, journal)

--------------------------------------------------------------------------
\* The bounds on what no limit of the server holds back.
Bounded(d) ==
    \A k \in Held(d) :
        LET e == d.keys[k]
        IN  /\ e.type = "zset" => \A m \in DOMAIN e.v : e.v[m] \in -MaxScore..MaxScore
            /\ e.type = "stream" =>
                   \A g \in DOMAIN e.v.groups :
                       \A i \in DOMAIN e.v.groups[g].pending : e.v.groups[g].pending[i].n <= 2

Init ==
    /\ family \in DOMAIN Menu
    /\ db = Fresh
    /\ copy = Fresh
    /\ unlisted = {}
    /\ now = 1
    /\ back = 0

\* Without the deadlines left behind, which the expire cycle passes over.
Current(d) == [d EXCEPT !.due = @ \cap Reindexed(d).due]

\* The deadline a rename gives.
Moved(c) ==
    IF c.op = "RENAME" /\ c.key \in Live(db, now) /\ db.keys[c.key].exp # Never
    THEN {<<db.keys[c.key].exp, c.to>>} ELSE {}

\* Broker::command: runs it, and journals what it changed.  The list it adds a
\* deadline to may be overgrown, and so may the one of a replay later on.
Command ==
    /\ \E c \in Menu[family], overgrown, replayed_overgrown \in {FALSE, (family \in Overgrown)} :
       \E o \in Exec(db, c, Sent(now, overgrown)) :
           /\ Bounded(o.d)
           /\ db' = o.d
           /\ copy' = Current(Replayed(copy, o.journal, now, replayed_overgrown))
           /\ unlisted' = (unlisted \cup (IF overgrown \/ replayed_overgrown THEN Moved(c) ELSE {}))
                          \cap (Reindexed(db').due \cup Reindexed(copy').due)
    /\ UNCHANGED <<family, now, back>>

\* Db::expire_keys: the earliest deadline, once it has come.  It counts only
\* if the key still expires then; a batch is a run of these.
ExpireKeys ==
    /\ \E d \in db.due :
           /\ d[1] <= now
           /\ \A e \in db.due : d[1] <= e[1]
           /\ LET stale == d[2] \notin Held(db) \/ db.keys[d[2]].exp # d[1]
              IN  db' = [keys |-> IF stale THEN db.keys ELSE Drop(db, {d[2]}).keys,
                         due  |-> db.due \ {d}]
    /\ UNCHANGED <<family, copy, unlisted, now, back>>

\* The snapshot takes the keyspace as it is, expired keys with it; Db::load
\* lists the deadlines of what it holds.
Snapshot ==
    /\ copy # Reindexed(db)
    /\ copy' = Reindexed(db)
    /\ UNCHANGED <<family, db, unlisted, now, back>>

\* Db::load and the replay of what was journaled since.
Restart ==
    /\ db' = copy
    /\ UNCHANGED <<family, copy, unlisted, now, back>>

Tick ==
    /\ now < MaxNow
    /\ now' = now + 1
    /\ UNCHANGED <<family, db, copy, unlisted, back>>

StepBack ==
    /\ back < Back[family]
    /\ now > 1
    /\ now' = now - 1
    /\ back' = back + 1
    /\ UNCHANGED <<family, db, copy, unlisted>>

Next == Command \/ ExpireKeys \/ Snapshot \/ Restart \/ Tick \/ StepBack

Spec == Init /\ [][Next]_vars

--------------------------------------------------------------------------
(* Properties.                                                             *)

SameEntry(a, b) == a.type = b.type /\ a.exp = b.exp /\ a.v = b.v

\* A restart gives back what clients see: the same keys, with the same
\* values, expiries and stream positions, though the expire cycle writes
\* nothing to the journal, and chance, waiting and limits play no part when
\* commands are replayed.
ReplayGivesTheSame ==
    LET seen    == Live(db, now)
        rebuilt == Live(copy, now)
    IN  seen = rebuilt /\ \A k \in seen : SameEntry(db.keys[k], copy.keys[k])

\* docs/getting-started/concepts.md: "Replaying them rebuilds exactly the same
\* state, including expiry times and stream ids."  With a clock that is set
\* back it does not: an expired key the cycle removed is still there for the
\* replay, and alive again at the earlier time.
RebuiltExactly == ReplayGivesTheSame

\* A request that would wait now, and would not after a command, is told of
\* that command: it names a key the request waits on.  A key that expires is no
\* command, and wakes nobody.
WaitersAreTold ==
    LET x == Sent(now, FALSE)
    IN  \A w \in {c \in Menu[family] : c.op \in {"BPOP", "BMOVE", "BZPOP", "XREAD", "XREADGROUP"}} :
            (\E o \in Exec(db, w, x) : o.waits) =>
                \A c \in Menu[family] : \A o \in Exec(db, c, x) :
                    \/ \E p \in Exec(o.d, w, x) : p.waits
                    \/ KeyArgs(w) \cap o.told # {}

\* What is held is in order: no empty collection is left behind, none is over
\* the limit, every key that expires is on the list the expire cycle goes by,
\* but for what a rename moved as the list was rebuilt, and a consumer a pending
\* entry names is known to its group, the entry not beyond the last id the
\* stream gave.
HeldRight ==
    \A k \in Held(db) :
        LET e == db.keys[k]
        IN  /\ ~Empty(e)
            /\ Size(e) <= MaxElements
            /\ e.exp # Never => <<e.exp, k>> \in db.due \cup unlisted
            /\ e.type = "stream" =>
                   /\ \A i \in e.v.ids : i <= e.v.last
                   /\ e.v.gone <= e.v.last /\ e.v.gone \notin e.v.ids
                   /\ \A g \in DOMAIN e.v.groups : \A i \in DOMAIN e.v.groups[g].pending :
                          /\ i <= e.v.last
                          /\ e.v.groups[g].pending[i].who \in e.v.groups[g].members

\* docs/getting-started/concepts.md: "An expired key reads as if it were never
\* there and is removed shortly after."  The cycle that removes it goes by the
\* list, which RENAME can leave without the deadline it gives.
ExpiringAreListed == Reindexed(db).due \subseteq db.due

\* What is held is right, and a restart gives it back.
StateHolds == HeldRight /\ ReplayGivesTheSame

\* What the keyspace takes: keys' elements, what groups hand out, and whom
\* they know.
Weight(d) ==
    FoldSet(LAMBDA k, n :
                LET e == d.keys[k]
                IN  n + Size(e) +
                    (IF e.type # "stream" THEN 0
                     ELSE FoldSet(LAMBDA g, m :
                              m + 1 + Cardinality(DOMAIN e.v.groups[g].pending)
                                + Cardinality(e.v.groups[g].members),
                              0, DOMAIN e.v.groups)),
            0, Held(d))

\* The keys a command leaves different.
Touched(d, e) ==
    {k \in Held(d) \cup Held(e) :
        \/ k \notin Held(d) \cap Held(e)
        \/ ~SameEntry(d.keys[k], e.keys[k])}

\* The tables that decide what a command may do agree with what it does: it
\* changes, and tells of, none but the keys it names, which its scope was
\* checked for; what saves anything counts as a write; and what makes the
\* keyspace bigger counts as growing it - but for claims, see below.
GatesHold ==
    \A c \in Menu[family] : \A o \in Exec(db, c, Sent(now, FALSE)) :
        /\ o.journal # <<>> => Writes(c)
        /\ c.op # "FLUSHALL" => Touched(db, o.d) \cup o.told \subseteq KeyArgs(c)
        /\ Weight(o.d) > Weight(db) => Grows(c) \/ c.op \in {"XCLAIM", "XAUTOCLAIM"}

\* What a command says of itself is true of it, in any state: the keys it names,
\* what it tells those who wait, and that it writes and grows.
TablesHold == WaitersAreTold /\ GatesHold

\* docs/reference/configuration.md, POSTINO_MAX_MEMORY: "past it, writes that
\* add data fail with `OOM`".  XCLAIM and XAUTOCLAIM make consumers known, and
\* XCLAIM FORCE makes entries pending, and neither is refused.
GrowersAreRefused ==
    \A c \in Menu[family] : \A o \in Exec(db, c, Sent(now, FALSE)) :
        Weight(o.d) > Weight(db) => Grows(c)

\* Only a restart, which brings back keys that expired and were removed
\* without a line in the journal, takes the keys held past the limit.
KeysWithinLimit ==
    [][\/ Cardinality(Held(db')) <= MaxKeys
       \/ Cardinality(Held(db')) <= Cardinality(Held(db))
       \/ db'.keys = copy.keys]_vars

Streams(d) == {k \in Live(d, now) : d.keys[k].type = "stream"}

\* As long as a stream lives, the ids it gives only increase, whatever the
\* clock does, and one it gave never comes back.
IdsIncrease ==
    [][\A k \in Streams(db) \cap Streams(db') :
           LET old == db.keys[k].v
               new == db'.keys[k].v
           IN  old.last <= new.last /\ \A i \in new.ids \ old.ids : i > old.last]_vars

=============================================================================
