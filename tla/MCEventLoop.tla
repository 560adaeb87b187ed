---------------------------- MODULE MCEventLoop ----------------------------
(***************************************************************************)
(* EventLoop for TLC: what the clients send, and how they behave.          *)
(***************************************************************************)
EXTENDS EventLoop

CONSTANTS a, b

\* One client alone, of every manner, with every script; and two together.
Alone == {<<"write", "large", "read">>,
          <<"read", "wait", "split", "read">>,
          <<"large", "large", "last">>,
          <<"large", "wait", "write">>,
          <<"wait", "panic">>,
          <<"wait", "refused">>,
          <<"write", "stream">>,
          <<"read", "refused">>,
          <<"split", "bad">>,
          <<"panic", "read">>}

Together == {<<<<"write">>, "prompt", <<"write", "wait">>, "prompt">>,
             <<<<"large">>, "slow", <<"large", "read">>, "slow">>,
             <<<<"write">>, "fickle", <<"wait">>, "prompt">>}

Client_(s, m) == [script |-> s, manner |-> m]

MCClients ==
    {(a :> Client_(s, m)) @@ (b :> Client_(<<>>, m)) : s \in Alone, m \in Manner}
    \cup {(a :> Client_(t[1], t[2])) @@ (b :> Client_(t[3], t[4])) : t \in Together}
=============================================================================
