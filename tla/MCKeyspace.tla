----------------------------- MODULE MCKeyspace -----------------------------
(* The families of commands Keyspace is checked with.                      *)
EXTENDS Keyspace

Base(op, key) == [op |-> op, key |-> key]

DelC(k)          == [op |-> "DEL", keys |-> <<k>>]
ExpireC(k, n, f) == [op |-> "EXPIRE", key |-> k, n |-> n, abs |-> FALSE, flags |-> f]
ExpireAtC(k, n)  == [op |-> "EXPIRE", key |-> k, n |-> n, abs |-> TRUE, flags |-> {}]
RenameC(k, t, x) == [op |-> "RENAME", key |-> k, to |-> t, nx |-> x]
SetC(k, v, only, ttl, keep) ==
    [SetCommand(k, v, only, FALSE, ttl) EXCEPT !.want = 1, !.keep = keep]
IncrC(k, n)      == [op |-> "INCR", key |-> k, n |-> n]
PushC(k, items, l) == [op |-> "PUSH", key |-> k, items |-> items, left |-> l, existing |-> FALSE]
MoveC(op, k, t, l) == [op |-> op, key |-> k, to |-> t, left |-> l, toleft |-> TRUE]
XAddC(k, id, n, by, trim) ==
    [op |-> "XADD", key |-> k, id |-> id, n |-> n, nomk |-> FALSE,
     trim |-> [by |-> by, n |-> trim]]
XGroupC(k, sub, who, n) ==
    [op |-> "XGROUP", key |-> k, group |-> "g", sub |-> sub, who |-> who, n |-> n]
XReadGroupC(k, who, new, count, noack, block) ==
    [op |-> "XREADGROUP", key |-> k, group |-> "g", who |-> who, new |-> new,
     count |-> count, noack |-> noack, block |-> block]
XClaimC(k, who, ids, idle, force, retry) ==
    [op |-> "XCLAIM", key |-> k, group |-> "g", who |-> who, ids |-> ids, idle |-> idle,
     force |-> force, justid |-> FALSE, retry |-> retry]

Strings ==
    {SetC("a", 1, "", Never, FALSE), SetC("a", 1, "NX", 1, FALSE),
     SetC("a", Word, "IFEQ", Never, TRUE), SetC("b", 0, "XX", 1, FALSE),
     GETSET("b", 1), SETNX("b", 0), SETEX("b", 1, 1),
     [op |-> "MSET", pairs |-> <<<<"a", 1>>, <<"b", 0>>>>, nx |-> TRUE],
     [op |-> "MSET", pairs |-> <<<<"b", 1>>, <<"c", 0>>>>, nx |-> FALSE],
     IncrC("a", 1),
     [op |-> "APPEND", key |-> "b", v |-> 1],
     [op |-> "GETDEL", key |-> "b", want |-> 0],
     [op |-> "DELIFEQ", key |-> "a", want |-> 1],
     [op |-> "GETEX", key |-> "a", ttl |-> 1], [op |-> "GETEX", key |-> "b", ttl |-> Never],
     DelC("a"), ExpireC("b", 1, {}), ExpireC("a", 2, {"GT"}), ExpireC("b", 1, {"NX"}),
     ExpireAtC("b", 2), Base("PERSIST", "a"),
     RenameC("a", "b", FALSE), RenameC("b", "a", TRUE), [op |-> "FLUSHALL"]}

\* Keys with expiries, given, changed, renamed and taken away.
Deadlines ==
    {SETEX("a", 1, 1), [op |-> "GETEX", key |-> "b", ttl |-> 1], ExpireAtC("a", 3),
     RenameC("a", "b", FALSE), RenameC("b", "c", TRUE), DelC("b")}

Lists ==
    {PushC("a", <<0, 1>>, TRUE), PushC("a", <<0>>, FALSE), PushC("b", <<1>>, FALSE),
     [PushC("b", <<0>>, TRUE) EXCEPT !.existing = TRUE],
     [op |-> "POP", key |-> "a", n |-> 2, left |-> TRUE],
     [op |-> "POP", key |-> "b", n |-> 1, left |-> FALSE],
     [op |-> "BPOP", keys |-> <<"c", "b">>, left |-> TRUE],
     MoveC("MOVE", "a", "b", TRUE), RPOPLPUSH("b", "b"), MoveC("MOVE", "a", "c", FALSE),
     MoveC("BMOVE", "b", "a", FALSE),
     [op |-> "LSET", key |-> "a", n |-> -1, v |-> 1],
     [op |-> "LREM", key |-> "a", n |-> -1, v |-> 0],
     [op |-> "LTRIM", key |-> "a", start |-> 1, stop |-> -1],
     [op |-> "LINSERT", key |-> "b", before |-> FALSE, pivot |-> 1, v |-> 0],
     SetC("b", 1, "NX", 1, FALSE),
     ExpireC("a", 1, {}), DelC("b"), RenameC("a", "b", FALSE), [op |-> "FLUSHALL"]}

Sets ==
    {[op |-> "SADD", key |-> "a", members |-> {0, 1}],
     [op |-> "SADD", key |-> "b", members |-> {1}],
     [op |-> "SREM", key |-> "a", members |-> {0, 2}],
     [op |-> "SMOVE", key |-> "a", to |-> "b", member |-> 0],
     [op |-> "SMOVE", key |-> "b", to |-> "c", member |-> 1],
     [op |-> "SPOP", key |-> "a", n |-> 1], [op |-> "SPOP", key |-> "b", n |-> 2],
     ExpireC("a", 1, {}), RenameC("a", "c", FALSE), DelC("c")}

Hashes ==
    {[op |-> "HSET", key |-> "a", pairs |-> <<<<0, 1>>, <<1, 0>>>>],
     [op |-> "HSET", key |-> "a", pairs |-> <<<<1, Word>>>>],
     [op |-> "HSETNX", key |-> "b", pairs |-> <<<<0, 0>>>>],
     [op |-> "HDEL", key |-> "a", fields |-> {1}], [op |-> "HDEL", key |-> "b", fields |-> {0}],
     [op |-> "HINCRBY", key |-> "a", field |-> 0, n |-> 1],
     [op |-> "HINCRBY", key |-> "b", field |-> 2, n |-> -1],
     ExpireC("a", 1, {}), ExpireC("b", 2, {}), SetC("b", 1, "NX", 1, FALSE)}

ZSets ==
    {[op |-> "ZADD", key |-> "a", flags |-> {}, pairs |-> <<<<1, 0>>, <<0, 1>>>>],
     [op |-> "ZADD", key |-> "a", flags |-> {"XX", "GT"}, pairs |-> <<<<1, 1>>>>],
     [op |-> "ZADD", key |-> "b", flags |-> {"NX", "INCR"}, pairs |-> <<<<1, 2>>>>],
     [op |-> "ZINCRBY", key |-> "a", member |-> 1, n |-> 1],
     [op |-> "ZINCRBY", key |-> "b", member |-> 0, n |-> -1],
     [op |-> "ZREM", key |-> "a", members |-> {1}],
     [op |-> "ZREMRANGE", key |-> "a", byscore |-> TRUE, start |-> 0, stop |-> 0],
     [op |-> "ZREMRANGE", key |-> "b", byscore |-> FALSE, start |-> 0, stop |-> -2],
     [op |-> "ZPOP", key |-> "a", n |-> 2, min |-> TRUE],
     [op |-> "BZPOP", keys |-> <<"a", "b">>, min |-> FALSE],
     ExpireC("a", 1, {}), RenameC("b", "a", FALSE)}

Entries ==
    {XAddC("a", "*", 0, "", 0), [XAddC("a", "*", 0, "MAXLEN", 1) EXCEPT !.nomk = TRUE], XAddC("a", "ms", 1, "", 0),
     XAddC("a", "id", 5, "MINID", 4), XAddC("b", "id", 4, "", 0),
     [op |-> "XDEL", key |-> "a", ids |-> {2, 4}],
     [op |-> "XTRIM", key |-> "a", trim |-> [by |-> "MAXLEN", n |-> 1]],
     [op |-> "XREAD", keys |-> <<"a", "b">>, after |-> <<4, NoId>>],
     DelC("b"), RenameC("a", "b", TRUE)}

Groups ==
    {XAddC("a", "*", 0, "", 0),
     [op |-> "XCREATE", key |-> "a", group |-> "g", n |-> NoId, mk |-> TRUE],
     [op |-> "XDEL", key |-> "a", ids |-> {2}], ExpireC("a", 1, {}),
     XGroupC("a", "SETID", "x", -1), XGroupC("a", "SETID", "x", NoId),
     XGroupC("a", "DESTROY", "x", 0),
     XGroupC("a", "CREATECONSUMER", "y", 0), XGroupC("a", "DELCONSUMER", "x", 0),
     XReadGroupC("a", "x", TRUE, 1, FALSE, FALSE), XReadGroupC("a", "y", TRUE, 2, FALSE, TRUE),
     XReadGroupC("a", "y", FALSE, 1, FALSE, FALSE), XReadGroupC("a", "x", TRUE, 1, TRUE, FALSE),
     [op |-> "XACK", key |-> "a", group |-> "g", ids |-> {2, 3}],
     XClaimC("a", "y", {2, 3}, 1, FALSE, -1), XClaimC("a", "x", {4}, 1, TRUE, 0),
     [op |-> "XAUTOCLAIM", key |-> "a", group |-> "g", who |-> "x", idle |-> 1, n |-> 0,
      count |-> 1, justid |-> TRUE]}

MCMenu == [strings |-> Strings, deadlines |-> Deadlines, lists |-> Lists, sets |-> Sets, hashes |-> Hashes,
           zsets |-> ZSets, entries |-> Entries, groups |-> Groups]

\* The clock is set back where no key expires, and to show what happens where
\* one does.
MCBack     == [f \in DOMAIN MCMenu |-> IF f = "entries" THEN 1 ELSE 0]
MCBackToo  == [f \in DOMAIN MCMenu |-> IF f = "strings" THEN 1 ELSE 0]

=============================================================================
