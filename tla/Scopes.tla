-------------------------------- MODULE Scopes --------------------------------
(***************************************************************************)
(* What a token reaches (scope.rs): patterns of the keys it may change,    *)
(* those it may only read, and the channels it may use, and where its keys *)
(* start, so that a walk visits only those runs of keys.                   *)
(*                                                                         *)
(* The names of the channels that carry key changes are shortened to       *)
(* "_ks:<key>" and "_ke:<event>", for "__keyspace__:" and "__keyevent__:". *)
(***************************************************************************)
EXTENDS Globs

Reserved == <<95, 107>>         \* "_k", for "__key"
KeySpace == <<95, 107, 115>>    \* "_ks", for "__keyspace__"
KeyEvent == <<95, 107, 101>>    \* "_ke", for "__keyevent__"
Colon == <<58>>
SpaceOf(key) == KeySpace \o Colon \o key
EventOf(event) == KeyEvent \o Colon \o event

\* The key a change channel names.
NamesKey(channel) == IsPrefix(KeySpace \o Colon, channel)
KeyNamed(channel) == SubSeq(channel, Len(KeySpace) + 2, Len(channel))
CarriesKey(channel) == IsPrefix(KeyEvent \o Colon, channel)

\* The order of texts, and texts in it: as many come before each as have come.
Before(s, t) == \/ IsStrictPrefix(s, t)
                \/ \E i \in DOMAIN s \cap DOMAIN t :
                      s[i] < t[i] /\ SubSeq(s, 1, i - 1) = SubSeq(t, 1, i - 1)
Sorted(S) ==
    [n \in 1 .. Cardinality(S) |->
        CHOOSE t \in S : Cardinality({s \in S : Before(s, t)}) = n - 1]

\* Those of a sequence that are in S.
Chosen(seq, S) == FlattenSeq([i \in DOMAIN seq |-> IF seq[i] \in S THEN <<seq[i]>> ELSE <<>>])
-----------------------------------------------------------------------------
\* A scope: [keys |-> patterns, read |-> patterns, channels |-> patterns].
Everything == {<<AnyRun>>}
all_keys(s) == <<AnyRun>> \in s.keys
is_all(s) == all_keys(s) /\ <<AnyRun>> \in s.channels

can_write(s, key) == all_keys(s) \/ \E p \in s.keys : matches(p, key)
can_read(s, key) == can_write(s, key) \/ \E p \in s.read : matches(p, key)
can_use_channel(s, channel) == \E p \in s.channels : p = <<AnyRun>> \/ matches(p, channel)

can_subscribe(s, channel) ==
    CASE NamesKey(channel) -> can_read(s, KeyNamed(channel))
      [] CarriesKey(channel) -> TRUE
      [] OTHER -> can_use_channel(s, channel)

\* Key changes follow the key, not the channel's name.
can_receive(s, channel, message) ==
    CASE NamesKey(channel) -> can_read(s, KeyNamed(channel))
      [] CarriesKey(channel) -> can_read(s, message)
      [] OTHER -> can_use_channel(s, channel)

\* Access::permit of PUBLISH.
may_publish(s, channel) ==
    /\ ~IsPrefix(KeySpace, channel) /\ ~IsPrefix(KeyEvent, channel)
    /\ can_use_channel(s, channel)
-----------------------------------------------------------------------------
\* Texts in their order, less each that starts with the last that was kept.
Shortest(starts) ==
    LET kept[n \in 0 .. Len(starts)] ==
            IF n = 0 THEN <<>>
            ELSE IF kept[n - 1] # <<>> /\ IsPrefix(Last(kept[n - 1]), starts[n]) THEN kept[n - 1]
            ELSE Append(kept[n - 1], starts[n])
    IN  kept[Len(starts)]

prefixes_keys(s) ==      \* the starts of what it may change only
    Shortest(Sorted({literal_prefix(p) : p \in s.keys}))

\* Scope::new: where every key the scope reaches starts, in order, none starting
\* with another.
prefixes(s) == Shortest(Sorted({literal_prefix(p) : p \in s.keys \cup s.read}))

\* The runs of keys worth visiting to find this scope's keys that start with
\* prefix.  Without a fixed start, that is all of them.
search_prefixes(s, prefix) ==
    LET own == prefixes(s)
    IN  IF \/ all_keys(s) \/ <<>> \in Range(own)
           \/ \E start \in Range(own) : IsPrefix(start, prefix)
        THEN <<prefix>>
        ELSE Chosen(own, {start \in Range(own) : IsPrefix(prefix, start)})
=============================================================================
