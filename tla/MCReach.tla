------------------------------- MODULE MCReach -------------------------------
(***************************************************************************)
(* Reach for TLC.  Matching: one subscription with each pattern, and each  *)
(* short text as a channel.  Hearing: key changes reach patterns and       *)
(* channels that may name them, through scopes.  Slow: subscriptions that  *)
(* fall behind.  Walking: keys come and go while a scope lists them.       *)
(***************************************************************************)
EXTENDS Reach, TLC

a == 97
b == 98
c == 99
u == 95     \* _
k == 107

MCHolder == [x \in Conn |-> IF x = "c1" THEN "all" ELSE "part"]
All == [keys |-> Everything, read |-> {}, channels |-> Everything]
Part == [keys |-> {<<a, AnyRun>>}, read |-> {}, channels |-> {<<a, AnyRun>>}]

Base == [scopes |-> [all |-> All, part |-> Part], buffer |-> 4, bytes |-> 20, patterns |-> 2,
         names |-> {}, globs |-> {}, subs |-> {}, messages |-> {}, keys |-> {}, pool |-> {}, asks |-> {},
         subscribes |-> 0, publishes |-> 0, changes |-> 0, walks |-> 0]

Texts(S, n) == UNION {[1 .. i -> S] : i \in 0 .. n}
Sub(conn, chs, pats) == [conn |-> conn, channels |-> chs, patterns |-> pats]
Message(ch) == [token |-> "all", channel |-> ch, message |-> <<>>]
-----------------------------------------------------------------------------
Long == {<<Opens, a, Closes>>, <<Opens, Caret, a, Closes>>, <<Opens, b, Dash, a, Closes>>,
         <<Opens, a, b, Closes, AnyRun>>, <<AnyRun, Opens, a, Dash, Closes>>, <<Opens, Closes, a, Closes>>,
         <<Opens, Escape, Closes, a, Closes>>, <<Opens, a, Dash, b>>, <<AnyRun, a, AnyRun>>,
         <<a, AnyRun, b, AnyRun>>, <<AnyRun, a, AnyRun, b>>, <<AnyRun, AnyOne, a, AnyOne>>, <<AnyOne, AnyRun, AnyOne>>,
         <<AnyRun, a, AnyOne, AnyRun>>, <<AnyRun, a, b, AnyRun>>, <<a, Escape, AnyRun>>, <<a, AnyRun, AnyRun, b>>,
         <<AnyRun, Opens, a, b, Closes, AnyOne, AnyRun, b>>}
Patterns == Texts({AnyRun, AnyOne, Opens, Escape, a}, 2) \cup Long

Matching == {[Base EXCEPT !.globs = {p}, !.subs = {Sub("c1", {}, {p})},
                          !.messages = {Message(t) : t \in Texts({a, b, AnyRun}, 3)},
                          !.subscribes = 1, !.publishes = 1] : p \in Patterns \ {<<>>}}
-----------------------------------------------------------------------------
KeyGlobs == {<<AnyRun>>, <<u, AnyRun>>, <<u, k, AnyRun>>, <<u, k, 115, AnyRun>>, <<u, k, 120, AnyRun>>, <<AnyOne, k, AnyRun>>,
             <<a, AnyRun>>, <<u, a, AnyRun>>, <<Escape, u, AnyRun>>, KeyEvent \o <<58, AnyRun>>, <<AnyRun, a>>}
KeyNames == {SpaceOf(<<a>>), EventOf(SetEvent), <<u, k, a>>}

Hearing == {[Base EXCEPT !.names = KeyNames, !.globs = KeyGlobs,
                         !.subs = {Sub(x, {}, {p}) : x \in {"c1", "c2"}, p \in KeyGlobs}
                                    \cup {Sub(x, {ch}, {}) : x \in {"c1", "c2"}, ch \in KeyNames},
                         !.messages = {Message(<<u, k, a>>)},
                         !.keys = {<<a>>}, !.pool = {<<a>>, <<b>>},
                         !.subscribes = 1, !.publishes = 1, !.changes = 2, !.bytes = 40]}
-----------------------------------------------------------------------------
Slow == {[Base EXCEPT !.names = {<<a>>}, !.globs = {<<a, AnyRun>>, <<AnyOne>>},
                      !.subs = {Sub("c2", {}, {<<a, AnyRun>>}), Sub("c2", {<<a>>}, {<<a, AnyRun>>, <<AnyOne>>}),
                                Sub("c3", {<<a>>}, {}), Sub("c3", {}, {<<AnyOne>>})},
                      !.messages = {Message(<<a>>), [Message(<<a>>) EXCEPT !.message = <<b, b>>]},
                      !.buffer = buffer, !.bytes = bytes, !.subscribes = 2, !.publishes = 3]
             : buffer \in {2, 3}, bytes \in {5, 20}}
-----------------------------------------------------------------------------
Mine == [keys |-> {<<a, AnyRun>>, <<a, b, AnyRun>>}, read |-> {<<b, AnyOne>>}, channels |-> {}]
Apart == [keys |-> {<<AnyRun, a>>}, read |-> {<<b>>}, channels |-> {}]

Walking == {[Base EXCEPT !.scopes = [all |-> All, part |-> scope],
                         !.keys = {<<a>>, <<b, a>>, <<b, b>>, <<c>>},
                         !.pool = {<<a>>, <<a, b>>, <<b, a>>, <<b, b>>, <<c>>},
                         !.asks = {[token |-> t, pattern |-> p, count |-> n] :
                                      t \in Token, p \in {<<AnyRun>>, <<b, AnyRun>>, <<AnyRun, a>>}, n \in {NoCount, 1, 3}},
                         !.changes = 2, !.walks = 1] : scope \in {Mine, Apart}}

MCSetups == Matching \cup Hearing \cup Slow \cup Walking
=============================================================================
