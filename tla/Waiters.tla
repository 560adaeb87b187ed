------------------------------ MODULE Waiters ------------------------------
(***************************************************************************)
(* Requests that wait: a lease of an inbox, a read of a room, a question   *)
(* watched until it settles, a blocking pop or read of keys.  Each tries   *)
(* on the connection loop first, where nothing may wait (without_waiting); *)
(* one that finds nothing moves to a thread of its own, tries again, and   *)
(* then sleeps on a condition variable of its own, registered under the    *)
(* topics it waits for.  Whoever changes a topic wakes its sleepers once   *)
(* it is done, in settle.                                                  *)
(*                                                                         *)
(* The broker's lock is held from an attempt to the sleep that follows it, *)
(* so each stretch under the lock is one action.  What a topic holds is    *)
(* counted only: a message, a post, an element, one as good as another.    *)
(***************************************************************************)
EXTENDS Naturals, FiniteSets

CONSTANTS Request,    \* requests that may wait, each once
          Keys,       \* keys of the keyspace some of them wait for
          Others,     \* inboxes and rooms some of them wait for
          MaxChanges, \* additions explored
          MaxWait     \* one-second slices of the longest wait

ASSUME WaitersAssumption == MaxChanges \in Nat /\ MaxWait \in Nat

Topic == Keys \cup Others

(***************************************************************************)
(* A lease or a read of a room takes from one topic and journals what it   *)
(* took; a pop takes from any of several keys and counts as a write even   *)
(* before it finds anything; a look (XREAD, a question) takes nothing.     *)
(***************************************************************************)
Kind == {"lease", "pop", "look"}

Phase == {"loop",    \* to try on the connection loop
          "moved",   \* handed to a thread of its own
          "tried",   \* the command ran there and found nothing
          "asleep",
          "awake",   \* woken, or its slice ended: wants the lock
          "found", "none", "refused", "left"}

Done == {"found", "none", "refused", "left"}

VARIABLES
    kind, topics, \* of each request
    items,        \* what each topic holds
    wake,         \* Core.wake: topics changed since the last settle
    signals,      \* Waiters.signals: the requests registered
    by_topic,     \* Waiters.by_topic
    phase,
    wait,         \* slices left of each request's wait
    gone,         \* requests whose client closed its connection
    halted,       \* a thread panicked with the lock held
    changes       \* additions made

wait_vars == <<kind, topics, items, wake, signals, by_topic, phase, wait, gone, halted, changes>>

asked == <<kind, topics>>

TypeOK ==
    /\ kind \in [Request -> Kind]
    /\ topics \in [Request -> SUBSET Topic]
    /\ items \in [Topic -> Nat]
    /\ wake \subseteq Topic
    /\ signals \subseteq Request
    /\ by_topic \in [Topic -> SUBSET Request]
    /\ phase \in [Request -> Phase]
    /\ wait \in [Request -> Nat]
    /\ gone \subseteq Request
    /\ halted \in BOOLEAN
    /\ changes \in Nat

\* What each kind of request waits for.
MayWaitFor(k) ==
    CASE k = "lease" -> {{o} : o \in Others}
      [] k = "pop"   -> SUBSET Keys \ {{}}
      [] k = "look"  -> {{o} : o \in Others} \cup (SUBSET Keys \ {{}})

WaitInit ==
    /\ kind \in [Request -> Kind]
    /\ topics \in [Request -> SUBSET Topic]
    /\ \A r \in Request : topics[r] \in MayWaitFor(kind[r])
    /\ items = [k \in Topic |-> 0]
    /\ wake = {}
    /\ signals = {}
    /\ by_topic = [k \in Topic |-> {}]
    /\ phase = [r \in Request |-> "loop"]
    /\ wait \in [Request -> 0..MaxWait]
    /\ gone = {}
    /\ halted = FALSE
    /\ changes = 0
-----------------------------------------------------------------------------
(***************************************************************************)
(* Under the lock.                                                         *)
(***************************************************************************)
OnKeys(r) == topics[r] \subseteq Keys

Sleepers(ts) == {r \in signals : \E k \in ts : r \in by_topic[k]}

Notified_one(p, ts) ==      \* wakes one of each topic's sleepers
    LET One == {CHOOSE r \in S : TRUE : S \in {Sleepers({k}) : k \in ts} \ {{}}}
    IN  [r \in Request |-> IF r \in One /\ p[r] = "asleep" THEN "awake" ELSE p[r]]

\* settle: what changed wakes whoever is registered for it.
Notified(p, ts) ==
    [r \in Request |-> IF r \in Sleepers(ts) /\ p[r] = "asleep" THEN "awake" ELSE p[r]]

\* A write of keys is told to the waiters only while there are some.
Heard(ts) == {k \in ts : k \in Others \/ \E j \in Topic : by_topic[j] # {}}

Finds(r) == {k \in topics[r] : items[k] > 0}

\* A broker that halted refuses to change anything: a command that writes
\* before it runs, a lease or a room's cursor when it comes to be journaled.
Refused(r) == halted /\ (kind[r] = "pop" \/ (kind[r] = "lease" /\ Finds(r) # {}))

\* The attempt gives a reply: the request ends, and what was changed by it
\* and before it wakes its waiters.
Succeeds(r) ==
    /\ \/ /\ Refused(r)
          /\ phase' = Notified([phase EXCEPT ![r] = "refused"], wake)
          /\ UNCHANGED items
       \/ /\ ~Refused(r)
          /\ \E k \in Finds(r) :
                LET taken == kind[r] # "look"
                    told  == IF kind[r] = "pop" THEN Heard({k}) ELSE {}
                IN  /\ items' = IF taken THEN [items EXCEPT ![k] = @ - 1] ELSE items
                    /\ phase' = Notified([phase EXCEPT ![r] = "found"], wake \cup told)
    /\ wake' = {}
    /\ UNCHANGED <<asked, wait, gone, halted, changes>>

\* The attempt finds nothing: settle still wakes what earlier changes left.
Fails(r, next) ==
    /\ ~Refused(r)
    /\ Finds(r) = {}
    /\ phase' = Notified([phase EXCEPT ![r] = next], wake)
    /\ wake' = {}
    /\ UNCHANGED <<asked, items, wait, gone, halted, changes>>

add(r) ==
    /\ signals' = signals \cup {r}
    /\ by_topic' = [k \in Topic |-> IF k \in topics[r] THEN by_topic[k] \cup {r} ELSE by_topic[k]]

remove(r) ==
    /\ signals' = signals \ {r}
    /\ by_topic' = [k \in Topic |-> IF k \in topics[r] THEN by_topic[k] \ {r} ELSE by_topic[k]]
-----------------------------------------------------------------------------
(***************************************************************************)
(* A request.                                                              *)
(***************************************************************************)
\* The first attempt, on the loop.  Without time to wait, nothing found is
\* the reply; commands that block always have some.
Try(r) ==
    /\ phase[r] = "loop"
    /\ \/ Succeeds(r)
       \/ Fails(r, IF wait[r] = 0 /\ ~OnKeys(r) THEN "none" ELSE "moved")
    /\ UNCHANGED <<signals, by_topic>>

\* On its thread a command runs whole first, and then waits; the others
\* come to wait_for at once.
Command(r) ==
    /\ phase[r] = "moved"
    /\ OnKeys(r)
    /\ Succeeds(r) \/ Fails(r, "tried")
    /\ UNCHANGED <<signals, by_topic>>

\* wait_for, up to the first sleep: the request is registered before the
\* lock is let go, unless its time ran out while it waited for the lock.
wait_for(r) ==
    /\ phase[r] = IF OnKeys(r) THEN "tried" ELSE "moved"
    /\ \/ Succeeds(r) /\ UNCHANGED <<signals, by_topic>>
       \/ Fails(r, "none") /\ UNCHANGED <<signals, by_topic>>
       \/ wait[r] > 0 /\ Fails(r, "asleep") /\ add(r)

Retry_late(r) ==      \* looks at the deadline before the attempt
    /\ phase[r] = "awake"
    /\ \/ /\ r \in gone \/ wait[r] = 0
          /\ phase' = [phase EXCEPT ![r] = IF r \in gone THEN "left" ELSE "none"]
          /\ remove(r)
          /\ UNCHANGED <<asked, items, wake, wait, gone, halted, changes>>
       \/ r \notin gone /\ wait[r] > 0 /\ Succeeds(r) /\ remove(r)
       \/ /\ r \notin gone
          /\ wait[r] > 0
          /\ Fails(r, "asleep")
          /\ UNCHANGED <<signals, by_topic>>

\* Awake, with the lock: a client that left gets nothing; otherwise the
\* attempt is made, and after the last slice it was the last.
Retry(r) ==
    /\ phase[r] = "awake"
    /\ \/ /\ r \in gone
          /\ phase' = [phase EXCEPT ![r] = "left"]
          /\ remove(r)
          /\ UNCHANGED <<asked, items, wake, wait, gone, halted, changes>>
       \/ r \notin gone /\ Succeeds(r) /\ remove(r)
       \/ r \notin gone /\ wait[r] = 0 /\ Fails(r, "none") /\ remove(r)
       \/ /\ r \notin gone
          /\ wait[r] > 0
          /\ Fails(r, "asleep")
          /\ UNCHANGED <<signals, by_topic>>

SliceEnds_never(r) ==      \* sleeps until woken
    /\ phase[r] = "awake"
    /\ wait[r] > 0
    /\ wait' = [wait EXCEPT ![r] = @ - 1]
    /\ UNCHANGED <<asked, items, wake, signals, by_topic, phase, gone, halted, changes>>

\* A second of its wait passes, asleep or not; a sleeper wakes.
SliceEnds(r) ==
    /\ phase[r] \in {"asleep", "awake"}
    /\ wait[r] > 0
    /\ wait' = [wait EXCEPT ![r] = @ - 1]
    /\ phase' = [phase EXCEPT ![r] = "awake"]
    /\ UNCHANGED <<asked, items, wake, signals, by_topic, gone, halted, changes>>

\* A condition variable may wake its sleeper for no reason.
WakesForNothing(r) ==
    /\ phase[r] = "asleep"
    /\ phase' = [phase EXCEPT ![r] = "awake"]
    /\ UNCHANGED <<asked, items, wake, signals, by_topic, wait, gone, halted, changes>>

ClientCloses(r) ==
    /\ phase[r] \notin Done
    /\ r \notin gone
    /\ gone' = gone \cup {r}
    /\ UNCHANGED <<asked, items, wake, signals, by_topic, phase, wait, halted, changes>>
-----------------------------------------------------------------------------
(***************************************************************************)
(* Everyone else.                                                          *)
(***************************************************************************)
\* A message is sent or due again, a post or a question's end, a push: one
\* request may add to several topics, and settles them together.
Add(ts) ==
    /\ ~halted
    /\ changes < MaxChanges
    /\ items' = [k \in Topic |-> IF k \in ts THEN items[k] + 1 ELSE items[k]]
    /\ changes' = changes + 1
    /\ phase' = Notified(phase, wake \cup Heard(ts))
    /\ wake' = {}
    /\ UNCHANGED <<asked, signals, by_topic, wait, gone, halted>>

\* A purge, a deletion or an expiry empties a topic: nobody is woken for it
\* but whoever waits for a key.
Clear(k) ==
    /\ ~halted
    /\ items[k] > 0
    /\ items' = [items EXCEPT ![k] = 0]
    /\ phase' = Notified(phase, wake \cup (Heard({k}) \cap Keys))
    /\ wake' = {}
    /\ UNCHANGED <<asked, signals, by_topic, wait, gone, halted, changes>>

\* A thread panics partway through a change: it may have been made, and the
\* waiters may have been noted, but settle does not run.
Panic(k) ==
    /\ ~halted
    /\ changes < MaxChanges
    /\ halted' = TRUE
    /\ changes' = changes + 1
    /\ items' \in {items, [items EXCEPT ![k] = @ + 1]}
    /\ wake' \in {wake, wake \cup Heard({k})}
    /\ UNCHANGED <<asked, signals, by_topic, phase, wait, gone>>

\* Any other operation, the tick's among them, settles what it finds.
settle ==
    /\ wake # {}
    /\ phase' = Notified(phase, wake)
    /\ wake' = {}
    /\ UNCHANGED <<asked, items, signals, by_topic, wait, gone, halted, changes>>
-----------------------------------------------------------------------------
Attempt(r) == Try(r) \/ Command(r) \/ wait_for(r) \/ Retry(r)

WaitNext ==
    \/ \E r \in Request : Attempt(r) \/ SliceEnds(r) \/ WakesForNothing(r) \/ ClientCloses(r)
    \/ \E ts \in SUBSET Topic \ {{}} : Add(ts)
    \/ \E k \in Topic : Clear(k) \/ Panic(k)
    \/ settle

WaitSpec == WaitInit /\ [][WaitNext]_wait_vars

\* Threads that have the lock to take go on, and time passes.  A sleeper that
\* is never woken still wakes each second.
WaitLiveSpec ==
    /\ WaitSpec
    /\ \A r \in Request : WF_wait_vars(Attempt(r)) /\ WF_wait_vars(SliceEnds(r))
-----------------------------------------------------------------------------
(***************************************************************************)
(* Correctness.                                                            *)
(***************************************************************************)
\* A request is registered, under each of its topics and no other, exactly
\* while it sleeps or is about to look again: one that ended leaves nothing
\* behind, however it ended (broker.rs, wait_for and Waiters::remove).
Registered ==
    /\ signals = {r \in Request : phase[r] \in {"asleep", "awake"}}
    /\ \A k \in Topic : by_topic[k] = {r \in signals : k \in topics[r]}

\* No change between an attempt and the sleep after it goes unseen: what a
\* sleeper waits for is not there, unless a panic kept settle from telling
\* it (broker.rs, wait_for: "Registered while the lock is still held, so no
\* change between the attempt and the sleep goes unseen").
NoMissedWakeup ==
    ~halted => \A r \in Request : phase[r] = "asleep" => Finds(r) = {}

\* A request whose client left while it slept takes nothing with it when it
\* wakes, so nothing is leased to a socket that is gone (broker.rs,
\* lease_wait); and one that gives up does so with nothing left for it.
GivesUpEmptyHanded ==
    [][\A r \in Request :
          /\ (phase[r] = "awake" /\ r \in gone /\ phase'[r] # "awake") => items' = items
          /\ (phase[r] # "none" /\ phase'[r] = "none") => Finds(r) = {}]_wait_vars

\* Every request that waits ends, and those whose waits overlap do not keep
\* one another from it (broker.rs, wait_for's slices and deadline).
EveryWaitEnds == \A r \in Request : phase[r] = "asleep" ~> phase[r] \in Done
=============================================================================
