-------------------------------- MODULE Events --------------------------------
(***************************************************************************)
(* The event stream (src/broker.rs, Events, publish_event, subscribe,      *)
(* hand_over; src/api.rs, events and Sse): a bounded history of            *)
(* numbered events, subscribers with a bounded buffer each, and clients    *)
(* that lose their connection and come back with the last id they got.     *)
(*                                                                         *)
(* A client follows one agent's events, or with the administrator's token  *)
(* everyone's.  What its thread takes from a buffer and writes reaches it, *)
(* or the connection breaks first: what was written and lost is as what    *)
(* was never written, since the client does not count it as got.           *)
(*                                                                         *)
(* What makes events is in the modules that extend this one, which put     *)
(* publish_event and hand_over together with the change they tell of.      *)
(***************************************************************************)
EXTENDS Integers, Sequences, FiniteSets, FiniteSetsExt, SequencesExt

CONSTANTS Agent,      \* names
          Client,     \* those that follow events
          Admin,      \* the filter of one that follows everyone's
          Filter,     \* a client |-> the name it follows, or Admin
          Setups      \* the limits and bounds a behaviour may have, see SetupAssumption

ASSUME FilterAssumption == Filter \in [Client -> Agent \cup {Admin}] /\ Admin \notin Agent

\* Limits: `history` is EVENT_HISTORY, `buffer` SUBSCRIBER_BUFFER.  Bounds:
\* who follows events, connections that break, restarts, and events.
ASSUME SetupAssumption == \A s \in Setups :
    /\ s.follow \subseteq Client
    /\ s.history \in Nat \ {0} /\ s.buffer \in Nat \ {0}
    /\ s.lost \in Nat /\ s.restarts \in Nat /\ s.events \in Nat

VARIABLES setup,   \* the setup of this behaviour
          ev,      \* Core::events, see NewEvents
          open,    \* a client |-> whether it has a stream
          todo,    \* a client |-> what its stream starts with, still to write
          last,    \* a client |-> the id of the last event it got
          lost,    \* how many connections broke,
          restarts \* and how often the server restarted

evars == <<setup, ev, open, todo, last, lost, restarts>>

NoId == 0
Everyone == Agent     \* the scope of an event that concerns all

Event(id, scope) == [kind |-> "event", id |-> id, scope |-> scope]

\* What tells a client that its id is too old: to count from `id` on.
Gap(id) == [kind |-> "resync", id |-> id, scope |-> {}]

\* `owed` is a ghost: for each client, the ids it is to get, or to be told that
\* it missed.
NewEvents(next, owed) ==
    [next |-> next, ring |-> <<>>, subscribers |-> {}, feed |-> [c \in Client |-> <<>>],
     handovers |-> [a \in {} |-> NoId], owed |-> owed]

\* visible
visible(e, c) == Filter[c] = Admin \/ Filter[c] \in e.scope

Owing(w, e) ==
    [c \in Client |-> IF visible(e, c) /\ (open[c] \/ last[c] # NoId) THEN w.owed[c] \cup {e.id}
                      ELSE w.owed[c]]

oldest(w) == IF w.ring = <<>> THEN w.next ELSE w.ring[1].id

publish_event_skips(w, scope) ==     \* a full buffer misses the event, and its stream goes on
    LET e == Event(w.next, scope)
        gets == {c \in w.subscribers : visible(e, c) /\ open[c] /\ Len(w.feed[c]) < setup.buffer}
    IN  [w EXCEPT !.next = @ + 1,
                  !.ring = Append(IF Len(@) = setup.history THEN Tail(@) ELSE @, e),
                  !.feed = [c \in Client |-> IF c \in gets THEN Append(@[c], e) ELSE @[c]],
                  !.owed = Owing(w, e)]

\* publish_event: whoever should get it and has no room, or has left, is no
\* subscriber any more.
publish_event(w, scope) ==
    LET e    == Event(w.next, scope)
        sees == {c \in w.subscribers : visible(e, c)}
        gets == {c \in sees : open[c] /\ Len(w.feed[c]) < setup.buffer}
    IN  [w EXCEPT !.next = @ + 1,
                  !.ring = Append(IF Len(@) = setup.history THEN Tail(@) ELSE @, e),
                  !.subscribers = (@ \ sees) \cup gets,
                  !.feed = [c \in Client |-> IF c \in gets THEN Append(@[c], e) ELSE @[c]],
                  !.owed = Owing(w, e)]

hand_over_late(w, name) ==      \* forgets the names that were handed over last
    LET keep == {a \in DOMAIN w.handovers : w.handovers[a] < oldest(w)} \cup {name}
    IN  [w EXCEPT !.handovers = [a \in keep |-> IF a = name THEN w.next ELSE @[a]],
                  !.subscribers = {c \in @ : Filter[c] # name},
                  !.owed = [c \in Client |-> IF Filter[c] = name THEN {} ELSE @[c]]]

\* hand_over: its streams end, and what came before is not replayed.  Of the
\* names handed over, those older than the history need no note.
hand_over(w, name) ==
    LET keep == {a \in DOMAIN w.handovers : w.handovers[a] > oldest(w)} \cup {name}
    IN  [w EXCEPT !.handovers = [a \in keep |-> IF a = name THEN w.next ELSE @[a]],
                  !.subscribers = {c \in @ : Filter[c] # name},
                  !.owed = [c \in Client |-> IF Filter[c] = name THEN {} ELSE @[c]]]

--------------------------------------------------------------------------
(* Streams.                                                                *)

EventsInit ==
    /\ setup \in Setups
    /\ ev = NewEvents(1, [c \in Client |-> {}])
    /\ open = [c \in Client |-> FALSE]
    /\ todo = [c \in Client |-> <<>>]
    /\ last = [c \in Client |-> NoId]
    /\ lost = 0
    /\ restarts = 0

\* subscribe: the id is too old for the history, or of another server.
behind(after) == after # NoId /\ (after + 1 < oldest(ev) \/ after >= ev.next)

\* Those of a sequence's elements that are in a set, in the order they have there.
Those(s, set) ==
    LET at == {i \in DOMAIN s : s[i] \in set}
    IN  [n \in 1..Cardinality(at) |->
            s[CHOOSE i \in at : Cardinality({j \in at : j <= i}) = n]]

\* Server::events, up to the wait.  Subscribers that left go first.
subscribe(c) ==
    LET after == last[c]
        since == IF Filter[c] \in DOMAIN ev.handovers THEN ev.handovers[Filter[c]] ELSE NoId
        kept == {e \in ToSet(ev.ring) : e.id > after /\ e.id >= since /\ visible(e, c)}
    IN  /\ ~open[c]
        /\ open' = [open EXCEPT ![c] = TRUE]
        /\ todo' = [todo EXCEPT ![c] =
               IF after = NoId THEN <<>>
               ELSE IF behind(after) THEN <<Gap(ev.next)>>
               ELSE Those(ev.ring, kept)]
        /\ ev' = [ev EXCEPT !.subscribers = {s \in @ : open[s]} \cup {c},
                            !.owed[c] = IF after = NoId THEN {} ELSE @]
        /\ UNCHANGED <<setup, last, lost, restarts>>

\* What is left of what a client is owed once it got e.
Left(c, e) == IF e.kind = "resync" THEN {id \in ev.owed[c] : id >= e.id}
              ELSE {id \in ev.owed[c] : id > e.id}

Gets(c, e) == last' = IF e.kind = "resync" THEN last ELSE [last EXCEPT ![c] = e.id]

\* Server::events writes what is replayed, then what comes.
deliver(c) ==
    /\ open[c]
    /\ \/ /\ todo[c] # <<>>
          /\ Gets(c, Head(todo[c]))
          /\ todo' = [todo EXCEPT ![c] = Tail(@)]
          /\ ev' = [ev EXCEPT !.owed[c] = Left(c, Head(todo[c]))]
       \/ /\ todo[c] = <<>> /\ ev.feed[c] # <<>>
          /\ Gets(c, Head(ev.feed[c]))
          /\ ev' = [ev EXCEPT !.feed[c] = Tail(@), !.owed[c] = Left(c, Head(ev.feed[c]))]
          /\ UNCHANGED todo
    /\ UNCHANGED <<setup, open, lost, restarts>>

ends_never(c) == FALSE        \* a stream that ended is as one with nothing to send

\* Sse::next, once the buffer of one that is no subscriber is empty.
ends(c) == todo[c] = <<>> /\ ev.feed[c] = <<>> /\ c \notin ev.subscribers

end(c) ==
    /\ open[c] /\ ends(c)
    /\ open' = [open EXCEPT ![c] = FALSE]
    /\ UNCHANGED <<setup, ev, todo, last, lost, restarts>>

\* The connection breaks, or the client leaves: its thread ends, and what it
\* had to write is gone.  It stays on the list until something finds it there.
leave(c) ==
    /\ open[c] /\ lost < setup.lost
    /\ lost' = lost + 1
    /\ open' = [open EXCEPT ![c] = FALSE]
    /\ todo' = [todo EXCEPT ![c] = <<>>]
    /\ ev' = [ev EXCEPT !.feed[c] = <<>>]
    /\ UNCHANGED <<setup, last, restarts>>

\* Events::new, in the next process: ids go on from the clock, which passed
\* those given since fewer than a thousand came in each millisecond.
NewProcess ==
    /\ restarts < setup.restarts
    /\ restarts' = restarts + 1
    /\ \E next \in {ev.next, ev.next + 1} : ev' = NewEvents(next, ev.owed)
    /\ open' = [c \in Client |-> FALSE]
    /\ todo' = [c \in Client |-> <<>>]
    /\ UNCHANGED <<setup, last, lost>>

Stream(c) == subscribe(c) \/ deliver(c) \/ end(c)

EventsNext == \E c \in setup.follow : Stream(c) \/ leave(c)

\* A client takes what comes and connects again when its stream ends.
EventsFair ==
    \A c \in Client : /\ WF_evars(c \in setup.follow /\ subscribe(c))
                      /\ WF_evars(deliver(c))
                      /\ WF_evars(end(c))

--------------------------------------------------------------------------
(* Properties.                                                             *)

\* A client gets events in the order of their ids and misses none it sees, whatever
\* it connects through, unless it was told that it had: neither a full
\* buffer, a broken connection, a history that moved on nor a restart hides
\* one without a word.
NoSilentGap ==
    [][\A c \in Client : last'[c] # last[c] =>
           /\ last'[c] > last[c]
           /\ \A id \in ev.owed[c] : id >= last'[c]]_evars

\* A client that keeps on reading and connecting gets all there is for it, or
\* learns that it cannot: one that was dropped for being slow too.
CatchesUp == \A c \in Client : []<>(c \in setup.follow => open[c] /\ ev.owed[c] = {})
=============================================================================
