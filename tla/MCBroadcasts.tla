----------------------------- MODULE MCBroadcasts -----------------------------
(***************************************************************************)
(* Broadcasts for TLC.  Followed: a client follows everyone's events, or   *)
(* what concerns a, or one each, through lost connections and a restart.   *)
(* Sending: nobody follows, and more is sent than is kept.                 *)
(***************************************************************************)
EXTENDS Broadcasts, TLC

MCFilter == [c \in Client |-> IF c = "ops" THEN Admin ELSE "a"]

Followed(follow, events, sent) ==
    [follow |-> follow, history |-> 2, buffer |-> 1, lost |-> 1, restarts |-> 1, agents |-> 2,
     events |-> events, kept |-> 1, sent |-> sent, keys |-> {},
     others |-> TRUE, failing |-> FALSE, halves |-> FALSE]

Sending(agents, kept, sent, keys, failing) ==
    [follow |-> {}, history |-> 1, buffer |-> 1, lost |-> 0, restarts |-> Cardinality(keys),
     agents |-> agents,
     events |-> 2 * sent, kept |-> kept, sent |-> sent, keys |-> keys,
     others |-> FALSE, failing |-> failing, halves |-> FALSE]

MCSetups == {Followed({"ops"}, 4, 1), Followed({"a1"}, 4, 0), Followed(Client, 3, 0),
             Sending(1, 3, 4, {}, FALSE), Sending(2, 2, 3, Key, TRUE)}

\* A rename may stop halfway.
MCHalves == {[Followed({"a1"}, 4, 0) EXCEPT !.failing = TRUE, !.halves = TRUE]}
=============================================================================
