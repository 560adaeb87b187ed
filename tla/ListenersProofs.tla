-------------------------- MODULE ListenersProofs --------------------------
(***************************************************************************)
(* Proofs about those who are told of what happens, for any requests,      *)
(* connections, tokens, texts and bounds: Waiters, whose requests sleep    *)
(* until something changes, and Reach, whose clients hear what is published *)
(* (Channels), by patterns (Globs) within a scope (Scopes), and list what  *)
(* their scope reaches (Listing).                                          *)
(***************************************************************************)
EXTENDS Reach, Waiters, Facts

-----------------------------------------------------------------------------
(***************************************************************************)
(* Waiters: a sleeper never misses a change, and what ends leaves no       *)
(* registration behind.                                                    *)
(***************************************************************************)
\* The invariant that carries them: a change reaches every sleeper it is for
\* because each is registered under every topic it waits for.
WaitersInv == TypeOK /\ Registered /\ NoMissedWakeup

-----------------------------------------------------------------------------
(***************************************************************************)
(* Lemmas about the attempt.                                               *)
(***************************************************************************)
\* Waking changes phases only from asleep to awake.
LEMMA NotifiedPhase ==
    ASSUME NEW p \in [Request -> Phase], NEW ts
    PROVE  /\ Notified(p, ts) \in [Request -> Phase]
           /\ \A q \in Request : Notified(p, ts)[q] = p[q]
                                   \/ (p[q] = "asleep" /\ Notified(p, ts)[q] = "awake")
           /\ \A q \in Request : Notified(p, ts)[q] = "asleep" =>
                                   p[q] = "asleep" /\ q \notin Sleepers(ts)
  BY DEF Notified, Phase

\* A registered request is among the sleepers of each topic it waits for.
LEMMA RegisteredSleeps ==
    ASSUME TypeOK, Registered, NEW q \in Request, phase[q] = "asleep",
           NEW ts, NEW k \in topics[q], k \in ts
    PROVE  q \in Sleepers(ts) /\ (k \in Keys \cup Others => k \in Heard({k}))
  BY DEF TypeOK, Registered, Sleepers, Heard, Topic

\* An attempt that gives a reply ends the request, and adds nothing to any
\* topic: a sleeper it leaves asleep still finds nothing.
LEMMA AttemptSucceeds ==
    ASSUME TypeOK, NEW r \in Request, Succeeds(r),
           phase[r] \in Phase \ {"asleep"}
    PROVE  /\ items' \in [Topic -> Nat]
           /\ phase' \in [Request -> Phase]
           /\ wake' \subseteq Topic
           /\ phase'[r] \in {"found", "refused"}
           /\ \A q \in Request \ {r} : phase'[q] = phase[q]
                                        \/ (phase[q] = "asleep" /\ phase'[q] = "awake")
           /\ \A k \in Topic : items[k] = 0 => items'[k] = 0
  <1>0. wake' = {} /\ items \in [Topic -> Nat]
    BY DEF Succeeds, TypeOK
  <1>1. CASE /\ phase' = Notified([phase EXCEPT ![r] = "refused"], wake)
             /\ UNCHANGED items
    <2> DEFINE p == [phase EXCEPT ![r] = "refused"]
    <2>1. p \in [Request -> Phase] /\ p[r] = "refused" /\ \A q \in Request \ {r} : p[q] = phase[q]
      BY DEF TypeOK, Phase
    <2> HIDE DEF p
    <2>2. phase' = Notified(p, wake)
      BY <1>1 DEF p
    <2>3. items' = items
      BY <1>1
    <2> QED BY <1>0, <2>1, <2>2, <2>3, NotifiedPhase
  <1>2. CASE /\ ~Refused(r)
             /\ \E k \in Finds(r) :
                  LET taken == kind[r] # "look"
                      told  == IF kind[r] = "pop" THEN Heard({k}) ELSE {}
                  IN  /\ items' = IF taken THEN [items EXCEPT ![k] = @ - 1] ELSE items
                      /\ phase' = Notified([phase EXCEPT ![r] = "found"], wake \cup told)
    <2>1. PICK k \in Finds(r) :
             /\ items' = IF kind[r] # "look" THEN [items EXCEPT ![k] = @ - 1] ELSE items
             /\ phase' = Notified([phase EXCEPT ![r] = "found"],
                                  wake \cup (IF kind[r] = "pop" THEN Heard({k}) ELSE {}))
      BY <1>2
    <2>2. k \in Topic /\ items[k] \in Nat /\ items[k] > 0
      BY DEF Finds, TypeOK
    <2>3. items' \in [Topic -> Nat] /\ \A j \in Topic : items[j] = 0 => items'[j] = 0
      BY <2>1, <2>2 DEF TypeOK
    <2> DEFINE p == [phase EXCEPT ![r] = "found"]
    <2>4. p \in [Request -> Phase] /\ p[r] = "found" /\ \A q \in Request \ {r} : p[q] = phase[q]
      BY DEF TypeOK, Phase
    <2> HIDE DEF p
    <2>5. PICK ts : phase' = Notified(p, ts)
      BY <2>1 DEF p
    <2> QED BY <1>0, <2>3, <2>4, <2>5, NotifiedPhase
  <1> QED BY <1>1, <1>2 DEF Succeeds

\* An attempt that finds nothing takes the request where it goes next.
LEMMA AttemptFails ==
    ASSUME TypeOK, NEW r \in Request, NEW next \in Phase, Fails(r, next)
    PROVE  /\ items' = items
           /\ phase' \in [Request -> Phase]
           /\ wake' \subseteq Topic
           /\ Finds(r) = {}
           /\ phase'[r] = next \/ (next = "asleep" /\ phase'[r] = "awake")
           /\ \A q \in Request \ {r} : phase'[q] = phase[q]
                                        \/ (phase[q] = "asleep" /\ phase'[q] = "awake")
  <1> DEFINE p == [phase EXCEPT ![r] = next]
  <1>1. p \in [Request -> Phase] /\ p[r] = next /\ \A q \in Request \ {r} : p[q] = phase[q]
    BY DEF TypeOK
  <1> HIDE DEF p
  <1>2. phase' = Notified(p, wake) /\ items' = items /\ wake' = {} /\ Finds(r) = {}
    BY DEF Fails, p
  <1> QED BY <1>1, <1>2, NotifiedPhase
-----------------------------------------------------------------------------
(***************************************************************************)
(* What keeps the parts of the invariant.                                  *)
(***************************************************************************)
\* Nothing is missed where nothing is added and who falls asleep just looked.
LEMMA NothingAdded ==
    ASSUME TypeOK, NoMissedWakeup, UNCHANGED <<asked, halted>>,
           \A k \in Topic : items[k] = 0 => items'[k] = 0,
           items' \in [Topic -> Nat],
           \A q \in Request : phase'[q] = "asleep" => phase[q] = "asleep" \/ Finds(q) = {}
    PROVE  NoMissedWakeup'
  <1> SUFFICES ASSUME ~halted, NEW q \in Request, phase'[q] = "asleep"
               PROVE  Finds(q)' = {}
    BY DEF NoMissedWakeup, asked
  <1>1. Finds(q) = {}
    BY DEF NoMissedWakeup
  <1>2. \A k \in topics[q] : k \in Topic /\ items[k] = 0
    BY <1>1 DEF Finds, TypeOK
  <1> QED BY <1>2 DEF Finds, asked, TypeOK

\* Registrations stay right where nobody begins or ends a wait.
LEMMA NobodyMoves ==
    ASSUME TypeOK, Registered, UNCHANGED <<asked, signals, by_topic>>,
           \A q \in Request : phase'[q] \in {"asleep", "awake"} <=> phase[q] \in {"asleep", "awake"}
    PROVE  Registered'
  BY DEF Registered, asked, TypeOK

\* The types hold where what a request changes keeps them.
LEMMA TypeKept ==
    ASSUME TypeOK, UNCHANGED <<asked, halted>>, items' \in [Topic -> Nat],
           phase' \in [Request -> Phase], wake' \subseteq Topic,
           signals' \subseteq Request, by_topic' \in [Topic -> SUBSET Request],
           wait' \in [Request -> Nat], gone' \subseteq Request, changes' \in Nat
    PROVE  TypeOK'
  BY DEF TypeOK, asked

\* One that begins to wait is registered under what it waits for.
LEMMA Begins ==
    ASSUME TypeOK, Registered, UNCHANGED asked, NEW r \in Request, add(r),
           phase'[r] \in {"asleep", "awake"},
           \A q \in Request \ {r} :
              phase'[q] \in {"asleep", "awake"} <=> phase[q] \in {"asleep", "awake"}
    PROVE  Registered' /\ signals' \subseteq Request /\ by_topic' \in [Topic -> SUBSET Request]
  BY DEF Registered, asked, TypeOK, add

\* One that ends its wait is registered nowhere.
LEMMA Ends ==
    ASSUME TypeOK, Registered, UNCHANGED asked, NEW r \in Request, remove(r),
           phase'[r] \notin {"asleep", "awake"},
           \A q \in Request \ {r} :
              phase'[q] \in {"asleep", "awake"} <=> phase[q] \in {"asleep", "awake"}
    PROVE  Registered' /\ signals' \subseteq Request /\ by_topic' \in [Topic -> SUBSET Request]
  BY DEF Registered, asked, TypeOK, remove

\* An attempt that registers and unregisters nobody keeps the invariant.
LEMMA AttemptKeeps ==
    ASSUME WaitersInv, NEW r \in Request,
           UNCHANGED <<asked, signals, by_topic, wait, gone, halted, changes>>,
           items' \in [Topic -> Nat], phase' \in [Request -> Phase], wake' \subseteq Topic,
           \A k \in Topic : items[k] = 0 => items'[k] = 0,
           phase'[r] \in {"asleep", "awake"} <=> phase[r] \in {"asleep", "awake"},
           phase'[r] = "asleep" => Finds(r) = {},
           \A q \in Request \ {r} : phase'[q] = phase[q]
                                     \/ (phase[q] = "asleep" /\ phase'[q] = "awake")
    PROVE  WaitersInv'
  <1>1. TypeOK /\ Registered /\ NoMissedWakeup
    BY DEF WaitersInv
  <1>2. signals' = signals /\ by_topic' = by_topic /\ wait' = wait /\ gone' = gone /\ changes' = changes
    OBVIOUS
  <1>3. TypeOK'
    BY <1>1, <1>2, TypeKept DEF TypeOK
  <1>4. Registered'
    BY <1>1, NobodyMoves
  <1>5. NoMissedWakeup'
    BY <1>1, NothingAdded
  <1> QED BY <1>3, <1>4, <1>5 DEF WaitersInv

\* A change reaches whoever sleeps for one of its topics.
LEMMA ChangeIsHeard ==
    ASSUME WaitersInv, NEW ts \in SUBSET Topic, NEW more, UNCHANGED <<asked, halted>>,
           \A k \in Topic \ ts : items'[k] = items[k],
           phase' = Notified(phase, more \cup Heard(ts))
    PROVE  NoMissedWakeup'
  <1> SUFFICES ASSUME ~halted, NEW q \in Request, phase'[q] = "asleep"
               PROVE  Finds(q)' = {}
    BY DEF NoMissedWakeup, asked
  <1>1. phase[q] = "asleep" /\ q \notin Sleepers(more \cup Heard(ts))
    BY NotifiedPhase DEF WaitersInv, TypeOK
  <1>2. q \in signals /\ \A k \in topics[q] : k \in Topic /\ q \in by_topic[k]
    BY <1>1 DEF WaitersInv, Registered, TypeOK
  <1>3. topics[q] \cap ts = {}
    BY <1>1, <1>2 DEF Sleepers, Heard
  <1>4. Finds(q) = {}
    BY <1>1 DEF WaitersInv, NoMissedWakeup
  <1> QED BY <1>2, <1>3, <1>4 DEF Finds, asked
-----------------------------------------------------------------------------
\* The invariant holds before anyone waits.
LEMMA InitInv == WaitInit => WaitersInv
  <1> SUFFICES ASSUME WaitInit PROVE WaitersInv
    OBVIOUS
  <1>a. wait \in [Request -> Nat] /\ changes \in Nat
    BY WaitersAssumption DEF WaitInit
  <1>b. phase \in [Request -> Phase] /\ items \in [Topic -> Nat]
    BY DEF WaitInit, Phase
  <1>1. TypeOK
    BY <1>a, <1>b DEF WaitInit, TypeOK
  <1>2. Registered /\ NoMissedWakeup
    BY DEF WaitInit, Registered, NoMissedWakeup
  <1> QED BY <1>1, <1>2 DEF WaitersInv

\* An attempt on the connection loop (without_waiting) keeps it.
LEMMA TryInv == ASSUME WaitersInv, NEW r \in Request, Try(r) PROVE WaitersInv'
  <1>1. phase[r] = "loop" /\ TypeOK /\ Registered /\ NoMissedWakeup
        /\ UNCHANGED <<asked, signals, by_topic, wait, gone, halted, changes>>
    BY DEF Try, WaitersInv, Succeeds, Fails
  <1>2. CASE Succeeds(r)
    <2>1. /\ items' \in [Topic -> Nat] /\ phase' \in [Request -> Phase] /\ wake' \subseteq Topic
          /\ phase'[r] \in {"found", "refused"}
          /\ \A q \in Request \ {r} : phase'[q] = phase[q]
                                       \/ (phase[q] = "asleep" /\ phase'[q] = "awake")
          /\ \A k \in Topic : items[k] = 0 => items'[k] = 0
      BY <1>1, <1>2, AttemptSucceeds DEF Phase
    <2> QED BY <1>1, <1>2, <2>1, AttemptKeeps
  <1>3. CASE Fails(r, IF wait[r] = 0 /\ ~OnKeys(r) THEN "none" ELSE "moved")
    <2>1. PICK next \in {"none", "moved"} : Fails(r, next)
      BY <1>3
    <2>2. /\ items' = items /\ phase' \in [Request -> Phase] /\ wake' \subseteq Topic
          /\ phase'[r] = next
          /\ \A q \in Request \ {r} : phase'[q] = phase[q]
                                       \/ (phase[q] = "asleep" /\ phase'[q] = "awake")
      BY <1>1, <2>1, AttemptFails DEF Phase
    <2>3. items' \in [Topic -> Nat]
      BY <1>1, <2>2 DEF TypeOK
    <2> QED BY <1>1, <2>2, <2>3, AttemptKeeps
  <1> QED BY <1>2, <1>3 DEF Try

\* So does the first attempt on a thread of its own.
LEMMA RunInv == ASSUME WaitersInv, NEW r \in Request, Command(r) PROVE WaitersInv'
  <1>1. phase[r] = "moved" /\ TypeOK /\ Registered /\ NoMissedWakeup
        /\ UNCHANGED <<asked, signals, by_topic, wait, gone, halted, changes>>
    BY DEF Command, WaitersInv, Succeeds, Fails
  <1>2. CASE Succeeds(r)
    <2>1. /\ items' \in [Topic -> Nat] /\ phase' \in [Request -> Phase] /\ wake' \subseteq Topic
          /\ phase'[r] \in {"found", "refused"}
          /\ \A q \in Request \ {r} : phase'[q] = phase[q]
                                       \/ (phase[q] = "asleep" /\ phase'[q] = "awake")
          /\ \A k \in Topic : items[k] = 0 => items'[k] = 0
      BY <1>1, <1>2, AttemptSucceeds DEF Phase
    <2> QED BY <1>1, <1>2, <2>1, AttemptKeeps
  <1>3. CASE Fails(r, "tried")
    <2>1. /\ items' = items /\ phase' \in [Request -> Phase] /\ wake' \subseteq Topic
          /\ Finds(r) = {}
          /\ phase'[r] \in {"tried"}
          /\ \A q \in Request \ {r} : phase'[q] = phase[q]
                                       \/ (phase[q] = "asleep" /\ phase'[q] = "awake")
      BY <1>1, <1>3, AttemptFails DEF Phase
    <2>2. items' \in [Topic -> Nat]
      BY <1>1, <2>1 DEF TypeOK
    <2> QED BY <1>1, <1>3, <2>1, <2>2, AttemptKeeps
  <1> QED BY <1>2, <1>3 DEF Command

\* wait_for registers under every topic while the lock is held.
LEMMA WaitForInv == ASSUME WaitersInv, NEW r \in Request, wait_for(r) PROVE WaitersInv'
  <1>1. phase[r] \in {"moved", "tried"} /\ TypeOK /\ Registered /\ NoMissedWakeup
        /\ UNCHANGED <<asked, wait, gone, halted, changes>>
    BY DEF wait_for, WaitersInv, Succeeds, Fails
  <1>2. CASE Succeeds(r) /\ UNCHANGED <<signals, by_topic>>
    <2>1. /\ items' \in [Topic -> Nat] /\ phase' \in [Request -> Phase] /\ wake' \subseteq Topic
          /\ phase'[r] \in {"found", "refused"}
          /\ \A q \in Request \ {r} : phase'[q] = phase[q]
                                       \/ (phase[q] = "asleep" /\ phase'[q] = "awake")
          /\ \A k \in Topic : items[k] = 0 => items'[k] = 0
      BY <1>1, <1>2, AttemptSucceeds DEF Phase
    <2> QED BY <1>1, <1>2, <2>1, AttemptKeeps
  <1>3. CASE Fails(r, "none") /\ UNCHANGED <<signals, by_topic>>
    <2>1. /\ items' = items /\ phase' \in [Request -> Phase] /\ wake' \subseteq Topic
          /\ Finds(r) = {}
          /\ phase'[r] \in {"none"}
          /\ \A q \in Request \ {r} : phase'[q] = phase[q]
                                       \/ (phase[q] = "asleep" /\ phase'[q] = "awake")
      BY <1>1, <1>3, AttemptFails DEF Phase
    <2>2. items' \in [Topic -> Nat]
      BY <1>1, <2>1 DEF TypeOK
    <2> QED BY <1>1, <1>3, <2>1, <2>2, AttemptKeeps
  <1>4. CASE Fails(r, "asleep") /\ add(r)
    <2>1. /\ items' = items /\ phase' \in [Request -> Phase] /\ wake' \subseteq Topic
          /\ Finds(r) = {} /\ phase'[r] \in {"asleep", "awake"}
          /\ \A q \in Request \ {r} : phase'[q] = phase[q]
                                       \/ (phase[q] = "asleep" /\ phase'[q] = "awake")
      BY <1>1, <1>4, AttemptFails DEF Phase
    <2>2. Registered' /\ signals' \subseteq Request /\ by_topic' \in [Topic -> SUBSET Request]
      BY <1>1, <1>4, <2>1, Begins
    <2>3. NoMissedWakeup'
      BY <1>1, <2>1, NothingAdded DEF TypeOK
    <2> QED BY <1>1, <2>1, <2>2, <2>3, TypeKept DEF WaitersInv, TypeOK
  <1> QED BY <1>2, <1>3, <1>4 DEF wait_for

\* A woken request that tries again leaves, or sleeps with nothing there for it.
LEMMA RetryInv == ASSUME WaitersInv, NEW r \in Request, Retry(r) PROVE WaitersInv'
  <1>1. phase[r] = "awake" /\ TypeOK /\ Registered /\ NoMissedWakeup
        /\ UNCHANGED <<asked, wait, gone, halted, changes>>
    BY DEF Retry, WaitersInv, Succeeds, Fails
  <1>2. CASE phase' = [phase EXCEPT ![r] = "left"] /\ remove(r) /\ UNCHANGED <<items, wake>>
    <2>1. /\ phase' \in [Request -> Phase] /\ phase'[r] = "left"
          /\ \A q \in Request \ {r} : phase'[q] = phase[q]
      BY <1>1, <1>2 DEF TypeOK, Phase
    <2>2. Registered' /\ signals' \subseteq Request /\ by_topic' \in [Topic -> SUBSET Request]
      BY <1>1, <1>2, <2>1, Ends
    <2>3. NoMissedWakeup'
      BY <1>1, <1>2, <2>1, NothingAdded DEF TypeOK
    <2> QED BY <1>1, <1>2, <2>1, <2>2, <2>3, TypeKept DEF WaitersInv, TypeOK
  <1>3. CASE Succeeds(r) /\ remove(r)
    <2>1. /\ items' \in [Topic -> Nat] /\ phase' \in [Request -> Phase] /\ wake' \subseteq Topic
          /\ phase'[r] \in {"found", "refused"}
          /\ \A q \in Request \ {r} : phase'[q] = phase[q]
                                       \/ (phase[q] = "asleep" /\ phase'[q] = "awake")
          /\ \A k \in Topic : items[k] = 0 => items'[k] = 0
      BY <1>1, <1>3, AttemptSucceeds DEF Phase
    <2>2. Registered' /\ signals' \subseteq Request /\ by_topic' \in [Topic -> SUBSET Request]
      BY <1>1, <1>3, <2>1, Ends
    <2>3. NoMissedWakeup'
      BY <1>1, <2>1, NothingAdded
    <2> QED BY <1>1, <2>1, <2>2, <2>3, TypeKept DEF WaitersInv, TypeOK
  <1>4. CASE Fails(r, "none") /\ remove(r)
    <2>1. /\ items' = items /\ phase' \in [Request -> Phase] /\ wake' \subseteq Topic
          /\ phase'[r] = "none"
          /\ \A q \in Request \ {r} : phase'[q] = phase[q]
                                       \/ (phase[q] = "asleep" /\ phase'[q] = "awake")
      BY <1>1, <1>4, AttemptFails DEF Phase
    <2>2. Registered' /\ signals' \subseteq Request /\ by_topic' \in [Topic -> SUBSET Request]
      BY <1>1, <1>4, <2>1, Ends
    <2>3. NoMissedWakeup'
      BY <1>1, <2>1, NothingAdded DEF TypeOK
    <2> QED BY <1>1, <2>1, <2>2, <2>3, TypeKept DEF WaitersInv, TypeOK
  <1>5. CASE Fails(r, "asleep") /\ UNCHANGED <<signals, by_topic>>
    <2>1. /\ items' = items /\ phase' \in [Request -> Phase] /\ wake' \subseteq Topic
          /\ Finds(r) = {}
          /\ phase'[r] \in {"asleep", "awake"}
          /\ \A q \in Request \ {r} : phase'[q] = phase[q]
                                       \/ (phase[q] = "asleep" /\ phase'[q] = "awake")
      BY <1>1, <1>5, AttemptFails DEF Phase
    <2>2. items' \in [Topic -> Nat]
      BY <1>1, <2>1 DEF TypeOK
    <2> QED BY <1>1, <1>5, <2>1, <2>2, AttemptKeeps
  <1> QED BY <1>2, <1>3, <1>4, <1>5 DEF Retry

\* A slice that ends, and a wakeup for nothing, only rouse a sleeper.
LEMMA SliceInv ==
    ASSUME WaitersInv, NEW r \in Request, SliceEnds(r) \/ WakesForNothing(r)
    PROVE  WaitersInv'
  <1>1. TypeOK /\ Registered /\ NoMissedWakeup
    BY DEF WaitersInv
  <1>2. /\ phase[r] \in {"asleep", "awake"} /\ phase' = [phase EXCEPT ![r] = "awake"]
        /\ UNCHANGED <<asked, items, wake, signals, by_topic, gone, halted, changes>>
    BY DEF SliceEnds, WakesForNothing
  <1>3. wait' \in [Request -> Nat]
    BY <1>1 DEF SliceEnds, WakesForNothing, TypeOK
  <1>4. phase' \in [Request -> Phase] /\ phase'[r] = "awake"
        /\ \A q \in Request \ {r} : phase'[q] = phase[q]
    BY <1>1, <1>2 DEF TypeOK, Phase
  <1>5. TypeOK'
    BY <1>1, <1>2, <1>3, <1>4 DEF TypeOK, asked
  <1>6. Registered'
    BY <1>1, <1>2, <1>4, NobodyMoves
  <1>7. NoMissedWakeup'
    BY <1>1, <1>2, <1>4, NothingAdded DEF TypeOK
  <1> QED BY <1>5, <1>6, <1>7 DEF WaitersInv

\* A client that closes its end changes nothing yet.
LEMMA ClosesInv == ASSUME WaitersInv, NEW r \in Request, ClientCloses(r) PROVE WaitersInv'
  BY DEF ClientCloses, WaitersInv, TypeOK, Registered, NoMissedWakeup, Finds, asked

\* What is added wakes whoever sleeps on it (settle).
LEMMA AddInv == ASSUME WaitersInv, NEW ts \in SUBSET Topic, Add(ts) PROVE WaitersInv'
  <1>1. TypeOK /\ Registered
    BY DEF WaitersInv
  <1>2. phase' \in [Request -> Phase]
        /\ \A q \in Request : phase'[q] \in {"asleep", "awake"} <=> phase[q] \in {"asleep", "awake"}
    BY <1>1, NotifiedPhase DEF Add, TypeOK
  <1>3. items' \in [Topic -> Nat] /\ changes' \in Nat /\ \A k \in Topic \ ts : items'[k] = items[k]
    BY <1>1 DEF Add, TypeOK
  <1>4. TypeOK'
    BY <1>1, <1>2, <1>3 DEF Add, TypeOK, asked
  <1>5. Registered'
    BY <1>1, <1>2, NobodyMoves DEF Add
  <1>6. NoMissedWakeup'
    BY <1>3, ChangeIsHeard DEF Add
  <1> QED BY <1>4, <1>5, <1>6 DEF WaitersInv

\* Taking what is there leaves every sleeper with nothing still.
LEMMA ClearInv == ASSUME WaitersInv, NEW k \in Topic, Clear(k) PROVE WaitersInv'
  <1>1. TypeOK /\ Registered /\ NoMissedWakeup
    BY DEF WaitersInv
  <1>2. /\ phase' \in [Request -> Phase]
        /\ \A q \in Request : phase'[q] = phase[q]
                               \/ (phase[q] = "asleep" /\ phase'[q] = "awake")
    BY <1>1, NotifiedPhase DEF Clear, TypeOK
  <1>3. items' \in [Topic -> Nat] /\ \A j \in Topic : items[j] = 0 => items'[j] = 0
    BY <1>1 DEF Clear, TypeOK
  <1>4. TypeOK'
    BY <1>1, <1>2, <1>3 DEF Clear, TypeOK, asked
  <1>5. Registered'
    BY <1>1, <1>2, NobodyMoves DEF Clear
  <1>6. NoMissedWakeup'
    BY <1>1, <1>2, <1>3, NothingAdded DEF Clear
  <1> QED BY <1>4, <1>5, <1>6 DEF WaitersInv

\* A panic with the lock held halts the broker.
LEMMA PanicInv == ASSUME WaitersInv, NEW k \in Topic, Panic(k) PROVE WaitersInv'
  <1>1. items' \in [Topic -> Nat] /\ wake' \subseteq Topic
    BY DEF Panic, Heard, WaitersInv, TypeOK
  <1> QED BY <1>1 DEF Panic, WaitersInv, TypeOK, Registered, NoMissedWakeup, asked

\* settle wakes the sleepers of what changed.
LEMMA SettleInv == ASSUME WaitersInv, settle PROVE WaitersInv'
  <1>1. TypeOK /\ Registered /\ NoMissedWakeup
    BY DEF WaitersInv
  <1>2. /\ phase' \in [Request -> Phase]
        /\ \A q \in Request : phase'[q] = phase[q]
                               \/ (phase[q] = "asleep" /\ phase'[q] = "awake")
    BY <1>1, NotifiedPhase DEF settle, TypeOK
  <1>3. TypeOK'
    BY <1>1, <1>2 DEF settle, TypeOK, asked
  <1>4. Registered'
    BY <1>1, <1>2, NobodyMoves DEF settle
  <1>5. NoMissedWakeup'
    BY <1>1, <1>2, NothingAdded DEF settle, TypeOK
  <1> QED BY <1>3, <1>4, <1>5 DEF WaitersInv

\* Every step keeps the invariant.
LEMMA NextInv == WaitersInv /\ [WaitNext]_wait_vars => WaitersInv'
  <1> SUFFICES ASSUME WaitersInv, [WaitNext]_wait_vars PROVE WaitersInv'
    OBVIOUS
  <1>1. ASSUME NEW r \in Request, Attempt(r) PROVE WaitersInv'
    BY <1>1, TryInv, RunInv, WaitForInv, RetryInv DEF Attempt
  <1>2. ASSUME NEW r \in Request, SliceEnds(r) \/ WakesForNothing(r) PROVE WaitersInv'
    BY <1>2, SliceInv
  <1>3. ASSUME NEW r \in Request, ClientCloses(r) PROVE WaitersInv'
    BY <1>3, ClosesInv
  <1>4. ASSUME NEW ts \in SUBSET Topic, Add(ts) PROVE WaitersInv'
    BY <1>4, AddInv
  <1>5. ASSUME NEW k \in Topic, Clear(k) \/ Panic(k) PROVE WaitersInv'
    BY <1>5, ClearInv, PanicInv
  <1>6. CASE settle
    BY <1>6, SettleInv
  <1>7. CASE UNCHANGED wait_vars
    BY <1>7 DEF wait_vars, asked, WaitersInv, TypeOK, Registered, NoMissedWakeup, Finds
  <1> QED BY <1>1, <1>2, <1>3, <1>4, <1>5, <1>6, <1>7 DEF WaitNext
-----------------------------------------------------------------------------
(***************************************************************************)
(* The results.                                                            *)
(***************************************************************************)
\* The registrations of wait_for match who waits in every state, and no
\* sleeper misses a change (broker.rs, Waiters and wait_for).
THEOREM WaitersSafe == WaitSpec => [](TypeOK /\ Registered /\ NoMissedWakeup)
  <1>1. WaitersInv => TypeOK /\ Registered /\ NoMissedWakeup
    BY DEF WaitersInv
  <1> QED BY InitInv, NextInv, <1>1, PTL DEF WaitSpec

\* Who gives up does so with nothing left for it, and who left while it slept
\* takes nothing (broker.rs, wait_for's attempt after every sleep).
THEOREM WaitersGiveUp == WaitSpec => GivesUpEmptyHanded
  <1> DEFINE Gives(r) ==
         /\ (phase[r] = "awake" /\ r \in gone /\ phase'[r] # "awake") => items' = items
         /\ (phase[r] # "none" /\ phase'[r] = "none") => Finds(r) = {}
  <1>1. WaitersInv /\ [WaitNext]_wait_vars => [\A r \in Request : Gives(r)]_wait_vars
    <2> SUFFICES ASSUME WaitersInv, WaitNext, NEW r \in Request PROVE Gives(r)
      BY DEF Gives
    <2>1. TypeOK
      BY DEF WaitersInv
    <2>2. ASSUME NEW q \in Request, Try(q) \/ Command(q) \/ wait_for(q) PROVE Gives(r)
      <3>1. phase[q] \notin {"asleep", "awake", "none"}
        BY <2>2 DEF Try, Command, wait_for
      <3>2. CASE Succeeds(q)
        BY <2>1, <3>1, <3>2, AttemptSucceeds DEF Gives, Phase, TypeOK
      <3>3. ASSUME NEW next \in Phase, Fails(q, next) PROVE Gives(r)
        BY <2>1, <3>1, <3>3, AttemptFails DEF Gives
      <3> QED BY <2>2, <3>2, <3>3 DEF Try, Command, wait_for, Phase
    <2>3. ASSUME NEW q \in Request, Retry(q) PROVE Gives(r)
      <3>1. phase[q] = "awake"
        BY <2>3 DEF Retry
      <3>2. CASE q \notin gone /\ Succeeds(q)
        BY <2>1, <3>1, <3>2, AttemptSucceeds DEF Gives, Phase, TypeOK
      <3>3. ASSUME NEW next \in Phase, Fails(q, next) PROVE Gives(r)
        BY <2>1, <3>1, <3>3, AttemptFails DEF Gives
      <3>4. CASE phase' = [phase EXCEPT ![q] = "left"] /\ items' = items
        BY <2>1, <3>1, <3>4 DEF Gives, TypeOK
      <3> QED BY <2>3, <3>2, <3>3, <3>4 DEF Retry, Phase
    <2>4. ASSUME NEW q \in Request, SliceEnds(q) \/ WakesForNothing(q) \/ ClientCloses(q)
          PROVE  Gives(r)
      BY <2>1, <2>4 DEF SliceEnds, WakesForNothing, ClientCloses, Gives, TypeOK
    <2>5. ASSUME NEW p, phase' = Notified(phase, p) PROVE Gives(r)
      BY <2>1, <2>5, NotifiedPhase DEF Gives, TypeOK
    <2>6. ASSUME NEW k \in Topic, Panic(k) PROVE Gives(r)
      BY <2>6 DEF Panic, Gives
    <2> QED BY <2>2, <2>3, <2>4, <2>5, <2>6 DEF WaitNext, Attempt, Add, Clear, settle
  <1> QED BY <1>1, InitInv, NextInv, PTL DEF WaitSpec, GivesUpEmptyHanded
-----------------------------------------------------------------------------
(***************************************************************************)
(* Numbers and loops.                                                      *)
(***************************************************************************)
\* A loop: a function that each number's value makes from the one before.
IsLoop(f, m, base, g) ==
    f = [n \in 0 .. m |-> IF n = 0 THEN base ELSE g[<<n, f[n - 1]>>]]

\* There is one, and it stays where its steps stay.
LEMMA LoopMakes ==
    ASSUME NEW m \in Nat, NEW X, NEW base \in X, NEW g,
           \A n \in 1 .. m, x \in X : g[<<n, x>>] \in X
    PROVE  \E f : IsLoop(f, m, base, g) /\ \A n \in 0 .. m : f[n] \in X
<1> DEFINE makes(k, f) == IsLoop(f, k, base, g) /\ \A n \in 0 .. k : f[n] \in X
           T == {k \in Nat : k <= m => \E f : makes(k, f)}
<1>1. 0 \in T
  <2> DEFINE f == [n \in 0 .. 0 |-> base]
  <2>1. makes(0, f)
    BY DEF IsLoop
  <2> QED BY <2>1
<1>2. ASSUME NEW k \in Nat, k \in T
      PROVE  k + 1 \in T
  <2> SUFFICES ASSUME k + 1 <= m PROVE \E f : makes(k + 1, f)
    OBVIOUS
  <2>1. PICK f : makes(k, f)
    BY <1>2
  <2> DEFINE h == [n \in 0 .. k + 1 |-> IF n = k + 1 THEN g[<<k + 1, f[k]>>] ELSE f[n]]
  <2>2. \A n \in 0 .. k : h[n] = f[n] /\ f[n] \in X
    BY <2>1
  <2>3. h[k + 1] = g[<<k + 1, f[k]>>] /\ h[k + 1] \in X
    BY <2>1
  <2>4. ASSUME NEW n \in 0 .. k + 1
        PROVE  h[n] = (IF n = 0 THEN base ELSE g[<<n, h[n - 1]>>]) /\ h[n] \in X
    <3>1. CASE n = k + 1
      <4>1. n - 1 = k /\ n # 0 /\ h[k] = f[k]
        BY <2>2, <3>1
      <4> HIDE DEF h
      <4> QED BY <2>3, <3>1, <4>1
    <3>2. CASE n \in 0 .. k
      <4>1. f[n] = IF n = 0 THEN base ELSE g[<<n, f[n - 1]>>]
        BY <2>1, <3>2 DEF IsLoop
      <4>2. n # 0 => n - 1 \in 0 .. k
        BY <3>2
      <4>3. h[n] = f[n] /\ (n # 0 => h[n - 1] = f[n - 1]) /\ f[n] \in X
        BY <2>2, <3>2, <4>2
      <4> HIDE DEF h
      <4> QED BY <4>1, <4>3
    <3> QED BY <3>1, <3>2
  <2>5. DOMAIN h = 0 .. k + 1 /\ h = [n \in 0 .. k + 1 |-> h[n]]
    OBVIOUS
  <2> HIDE DEF h
  <2>6. h = [n \in 0 .. k + 1 |-> IF n = 0 THEN base ELSE g[<<n, h[n - 1]>>]]
    BY <2>4, <2>5
  <2>7. makes(k + 1, h)
    BY <2>4, <2>6 DEF IsLoop
  <2> QED BY <2>7
<1>3. m \in T
  <2> HIDE DEF T
  <2> QED BY <1>1, <1>2, SetInduction
<1> QED BY <1>3

\* What holds at the start of a loop, and passes along each of its steps, holds of
\* each number's value.
LEMMA LoopKeeps ==
    ASSUME NEW m \in Nat, NEW P, 0 \in P, \A n \in 0 .. m - 1 : n \in P => n + 1 \in P
    PROVE  \A n \in 0 .. m : n \in P
<1> DEFINE T == {n \in Nat : n <= m => n \in P}
<1>1. 0 \in T
  OBVIOUS
<1>2. ASSUME NEW n \in Nat, n \in T PROVE n + 1 \in T
  BY <1>2
<1>3. Nat \subseteq T
  <2> HIDE DEF T
  <2> QED BY <1>1, <1>2, SetInduction
<1> QED BY <1>3

-----------------------------------------------------------------------------
\* A number's place in a word, and its word.
LEMMA DivMod ==
    ASSUME NEW W \in Nat, W > 0, NEW n \in Nat
    PROVE  n \div W \in Nat /\ n % W \in 0 .. W - 1 /\ n = W * (n \div W) + (n % W)
  OBVIOUS
\* The next number has the next place, or the first of the next word.
LEMMA Carried ==
    ASSUME NEW W \in Nat, W > 0, NEW n \in Nat
    PROVE  IF n % W = W - 1 THEN (n + 1) % W = 0 /\ (n + 1) \div W = (n \div W) + 1
           ELSE (n + 1) % W = (n % W) + 1 /\ (n + 1) \div W = n \div W
  OBVIOUS
-----------------------------------------------------------------------------
(***************************************************************************)
(* What a pattern means: its atoms share the text out between them.        *)
(***************************************************************************)
\* The first i atoms can share the first j characters out between them.
Splits(ats, text, m, i, j) ==
    \E cut \in [0 .. i -> 0 .. m] :
       /\ cut[0] = 0 /\ cut[i] = j
       /\ \A x \in 1 .. i :
             \/ ats[x] = TheStar /\ cut[x - 1] <= cut[x]
             \/ ats[x] # TheStar /\ cut[x] = cut[x - 1] + 1 /\ accepts(ats[x], text[cut[x]])

\* No atoms share out no characters.
LEMMA SplitsNone ==
    ASSUME NEW ats, NEW text, NEW m \in Nat, NEW j \in 0 .. m
    PROVE  Splits(ats, text, m, 0, j) <=> j = 0
<1>1. ASSUME j = 0 PROVE Splits(ats, text, m, 0, j)
  <2> DEFINE cut == [x \in 0 .. 0 |-> 0]
  <2>1. cut \in [0 .. 0 -> 0 .. m] /\ cut[0] = 0
    OBVIOUS
  <2> HIDE DEF cut
  <2> QED BY <1>1, <2>1 DEF Splits
<1> QED BY <1>1 DEF Splits

\* With one atom more: a star has what is left, another atom one character.
LEMMA SplitsMore ==
    ASSUME NEW ats, NEW text, NEW m \in Nat, NEW i \in Nat, NEW j \in 0 .. m
    PROVE  Splits(ats, text, m, i + 1, j) <=>
             IF ats[i + 1] = TheStar THEN \E k \in 0 .. j : Splits(ats, text, m, i, k)
             ELSE j >= 1 /\ Splits(ats, text, m, i, j - 1) /\ accepts(ats[i + 1], text[j])
<1> DEFINE part(cut, x) ==
             \/ ats[x] = TheStar /\ cut[x - 1] <= cut[x]
             \/ ats[x] # TheStar /\ cut[x] = cut[x - 1] + 1 /\ accepts(ats[x], text[cut[x]])
<1>1. ASSUME NEW k \in 0 .. j, Splits(ats, text, m, i, k),
             \/ ats[i + 1] = TheStar
             \/ ats[i + 1] # TheStar /\ j = k + 1 /\ accepts(ats[i + 1], text[j])
      PROVE  Splits(ats, text, m, i + 1, j)
  <2>1. PICK cut \in [0 .. i -> 0 .. m] :
                cut[0] = 0 /\ cut[i] = k /\ \A x \in 1 .. i : part(cut, x)
    BY <1>1 DEF Splits
  <2> DEFINE more == [x \in 0 .. i + 1 |-> IF x = i + 1 THEN j ELSE cut[x]]
  <2>2. /\ more \in [0 .. i + 1 -> 0 .. m] /\ more[i + 1] = j
        /\ \A x \in 0 .. i : more[x] = cut[x]
    OBVIOUS
  <2> HIDE DEF more
  <2>3. ASSUME NEW x \in 1 .. i PROVE part(more, x)
    <3>0. part(cut, x)
      <4>1. x \in 1 .. i
        OBVIOUS
      <4> HIDE DEF part
      <4> QED BY <2>1, <4>1
    <3>1. x \in 0 .. i /\ x - 1 \in 0 .. i
      OBVIOUS
    <3>2. more[x] = cut[x] /\ more[x - 1] = cut[x - 1]
      BY <2>2, <3>1
    <3> QED BY <3>0, <3>2
  <2>4. part(more, i + 1)
    <3>1. (i + 1) - 1 = i /\ more[i] = k
      BY <2>1, <2>2
    <3> QED BY <1>1, <2>2, <3>1
  <2>5. \A x \in 1 .. i + 1 : part(more, x)
    <3>1. \A x \in 1 .. i + 1 : x \in 1 .. i \/ x = i + 1
      OBVIOUS
    <3> HIDE DEF part
    <3> QED BY <2>3, <2>4, <3>1
  <2>6. more[0] = 0
    BY <2>1, <2>2
  <2> QED BY <2>2, <2>5, <2>6 DEF Splits
<1>2. ASSUME Splits(ats, text, m, i + 1, j)
      PROVE  IF ats[i + 1] = TheStar THEN \E k \in 0 .. j : Splits(ats, text, m, i, k)
             ELSE j >= 1 /\ Splits(ats, text, m, i, j - 1) /\ accepts(ats[i + 1], text[j])
  <2>1. PICK more \in [0 .. i + 1 -> 0 .. m] :
                more[0] = 0 /\ more[i + 1] = j /\ \A x \in 1 .. i + 1 : part(more, x)
    BY <1>2 DEF Splits
  <2> DEFINE cut == [x \in 0 .. i |-> more[x]]
  <2>2. cut \in [0 .. i -> 0 .. m] /\ \A x \in 0 .. i : cut[x] = more[x]
    OBVIOUS
  <2> HIDE DEF cut
  <2>3. ASSUME NEW x \in 1 .. i PROVE part(cut, x)
    <3>0. part(more, x)
      <4>1. x \in 1 .. i + 1
        OBVIOUS
      <4> HIDE DEF part
      <4> QED BY <2>1, <4>1
    <3>1. x \in 0 .. i /\ x - 1 \in 0 .. i
      OBVIOUS
    <3>2. cut[x] = more[x] /\ cut[x - 1] = more[x - 1]
      BY <2>2, <3>1
    <3> QED BY <3>0, <3>2
  <2>4. cut[0] = 0 /\ cut[i] = more[i] /\ more[i] \in 0 .. m
    BY <2>1, <2>2
  <2>5. Splits(ats, text, m, i, more[i])
    BY <2>2, <2>3, <2>4 DEF Splits
  <2>6. part(more, i + 1)
    <3>1. i + 1 \in 1 .. i + 1
      OBVIOUS
    <3> HIDE DEF part
    <3> QED BY <2>1, <3>1
  <2>7. (i + 1) - 1 = i /\ more[i + 1] = j
    BY <2>1
  <2>8. CASE ats[i + 1] = TheStar
    <3>1. more[i] <= j /\ more[i] \in 0 .. j
      BY <2>4, <2>6, <2>7, <2>8
    <3> QED BY <2>5, <2>8, <3>1
  <2>9. CASE ats[i + 1] # TheStar
    <3>1. j = more[i] + 1 /\ accepts(ats[i + 1], text[j])
      BY <2>6, <2>7, <2>9
    <3>2. j >= 1 /\ more[i] = j - 1
      BY <2>4, <3>1
    <3> QED BY <2>5, <2>9, <3>1, <3>2
  <2> QED BY <2>8, <2>9
<1>3. ASSUME ats[i + 1] # TheStar, j >= 1, Splits(ats, text, m, i, j - 1), accepts(ats[i + 1], text[j])
      PROVE  Splits(ats, text, m, i + 1, j)
  <2>1. j - 1 \in 0 .. j /\ j = (j - 1) + 1
    BY <1>3
  <2> QED BY <1>1, <1>3, <2>1
<1> QED BY <1>1, <1>2, <1>3

\* A star that can have a character more can have it after it had those before.
LEMMA StarSplits ==
    ASSUME NEW ats, NEW text, NEW m \in Nat, NEW i \in Nat, ats[i + 1] = TheStar
    PROVE  /\ Splits(ats, text, m, i + 1, 0) <=> Splits(ats, text, m, i, 0)
           /\ \A j \in 0 .. m - 1 :
                 Splits(ats, text, m, i + 1, j + 1) <=>
                    Splits(ats, text, m, i, j + 1) \/ Splits(ats, text, m, i + 1, j)
           /\ \A j \in 0 .. m : Splits(ats, text, m, i, j) => Splits(ats, text, m, i + 1, j)
<1>1. \A j \in 0 .. m :
         Splits(ats, text, m, i + 1, j) <=> \E k \in 0 .. j : Splits(ats, text, m, i, k)
  BY SplitsMore
<1>2. ASSUME NEW j \in 0 .. m - 1
      PROVE  Splits(ats, text, m, i + 1, j + 1) <=>
                Splits(ats, text, m, i, j + 1) \/ Splits(ats, text, m, i + 1, j)
  <2>1. j \in 0 .. m /\ j + 1 \in 0 .. m
    OBVIOUS
  <2>2. \A k : k \in 0 .. j + 1 <=> k \in 0 .. j \/ k = j + 1
    OBVIOUS
  <2> QED BY <1>1, <2>1, <2>2
<1>3. 0 \in 0 .. m /\ \A k \in 0 .. 0 : k = 0
  OBVIOUS
<1>4. \A j \in 0 .. m : j \in 0 .. j
  OBVIOUS
<1> QED BY <1>1, <1>2, <1>3, <1>4
-----------------------------------------------------------------------------
(***************************************************************************)
(* The automaton's words hold sets of places.                              *)
(***************************************************************************)
\* A pair has two parts.
LEMMA PairIs ==
    ASSUME NEW A, NEW B, NEW x \in A \X B
    PROVE  x[1] \in A /\ x[2] \in B /\ x = <<x[1], x[2]>>
  OBVIOUS

\* A number's bit is its own, and the one after it is a place up, or the first of
\* the word after.
LEMMA BitIs ==
    /\ \A i, j \in Nat : Bit(i) = Bit(j) => i = j
    /\ \A i \in Nat : Bit(i) \in Nat \X Bits
    /\ \A i \in Nat : IF Bit(i + 1)[2] > 0 THEN Bit(i) = <<Bit(i + 1)[1], Bit(i + 1)[2] - 1>>
                      ELSE Bit(i) = <<Bit(i + 1)[1] - 1, WordBits - 1>>
    /\ Bit(0) = <<0, 0>>
<1> DEFINE W == WordBits
<1>1. W \in Nat /\ W > 0
  BY WordBitsAssumption
<1>2. \A n \in Nat : n \div W \in Nat /\ n % W \in 0 .. W - 1 /\ n = W * (n \div W) + (n % W)
  BY <1>1, DivMod
<1>3. \A n \in Nat :
         IF n % W = W - 1 THEN (n + 1) % W = 0 /\ (n + 1) \div W = (n \div W) + 1
         ELSE (n + 1) % W = (n % W) + 1 /\ (n + 1) \div W = n \div W
  BY <1>1, Carried
<1>4. ASSUME NEW i \in Nat, NEW j \in Nat, Bit(i) = Bit(j) PROVE i = j
  <2>1. i \div W = j \div W /\ i % W = j % W
    BY <1>4 DEF Bit
  <2> QED BY <1>2, <2>1
<1>5. \A i \in Nat : Bit(i) \in Nat \X Bits
  BY <1>2 DEF Bit, Bits
<1>6. ASSUME NEW i \in Nat
      PROVE  IF Bit(i + 1)[2] > 0 THEN Bit(i) = <<Bit(i + 1)[1], Bit(i + 1)[2] - 1>>
             ELSE Bit(i) = <<Bit(i + 1)[1] - 1, WordBits - 1>>
  <2>1. Bit(i + 1)[2] = (i + 1) % W /\ Bit(i + 1)[1] = (i + 1) \div W
    BY DEF Bit
  <2>2. Bit(i) = <<i \div W, i % W>> /\ i \div W \in Nat /\ i % W \in 0 .. W - 1
    BY <1>2 DEF Bit
  <2> DEFINE d == i \div W
             r == i % W
             d1 == (i + 1) \div W
             r1 == (i + 1) % W
  <2>3. IF r = W - 1 THEN r1 = 0 /\ d1 = d + 1 ELSE r1 = r + 1 /\ d1 = d
    BY <1>3
  <2> HIDE DEF d, r, d1, r1
  <2>4. d \in Nat /\ r \in 0 .. W - 1 /\ Bit(i) = <<d, r>> /\ Bit(i + 1)[2] = r1 /\ Bit(i + 1)[1] = d1
    BY <2>1, <2>2 DEF d, r, d1, r1
  <2>5. CASE r = W - 1
    BY <1>1, <2>3, <2>4, <2>5
  <2>6. CASE r # W - 1
    BY <1>1, <2>3, <2>4, <2>6
  <2> QED BY <2>5, <2>6
<1>7. Bit(0) = <<0, 0>>
  <2>1. 0 \div W = 0 /\ 0 % W = 0
    BY <1>1
  <2> QED BY <2>1 DEF Bit
<1> QED BY <1>4, <1>5, <1>6, <1>7

\* A sequence of n elements.
Long(s, n) == Len(s) = n /\ DOMAIN s = 1 .. n

\* The bits of states.
BitsAt(S) == {Bit(i) : i \in S}

\* Up to the last state, a shift takes each to the next.
LEMMA ShiftIs ==
    ASSUME NEW ats, NEW n \in Nat, Long(ats, n), NEW S \in SUBSET (0 .. n - 1)
    PROVE  Shift(ats, BitsAt(S)) = BitsAt({i + 1 : i \in S})
<1> DEFINE T == {i + 1 : i \in S}
           W == WordBits
<1>0. W \in Nat /\ W > 0
  BY WordBitsAssumption
<1>0a. Words(ats) = 0 .. n \div W
  BY DEF Words, Long
<1>1. ASSUME NEW i \in S PROVE Bit(i + 1) \in Shift(ats, BitsAt(S))
  <2>1. i \in Nat /\ i + 1 \in 0 .. n /\ i + 1 \in Nat
    OBVIOUS
  <2>2. Bit(i + 1) \in Nat \X Bits /\ Bit(i) \in BitsAt(S)
    BY <2>1, BitIs DEF BitsAt
  <2>3. Bit(i + 1)[1] <= n \div W
    <3>1. (i + 1) \div W <= n \div W
      BY <1>0, <2>1
    <3> QED BY <3>1 DEF Bit
  <2>4. Bit(i + 1) \in Words(ats) \X Bits
    <3>1. n \div W \in Nat
      BY <1>0
    <3> QED BY <2>2, <2>3, <3>1, <1>0a
  <2>5. IF Bit(i + 1)[2] > 0 THEN Bit(i) = <<Bit(i + 1)[1], Bit(i + 1)[2] - 1>>
        ELSE Bit(i) = <<Bit(i + 1)[1] - 1, WordBits - 1>>
    BY <2>1, BitIs
  <2> QED BY <2>2, <2>4, <2>5 DEF Shift
<1>2. ASSUME NEW to \in Shift(ats, BitsAt(S)) PROVE to \in BitsAt(T)
  <2>1. to \in Words(ats) \X Bits
    BY DEF Shift
  <2> DEFINE from == IF to[2] > 0 THEN <<to[1], to[2] - 1>> ELSE <<to[1] - 1, WordBits - 1>>
  <2>2. from \in BitsAt(S)
    BY DEF Shift
  <2>3. PICK i \in S : from = Bit(i)
    BY <2>2 DEF BitsAt
  <2>4. i \in Nat
    OBVIOUS
  <2>5. to = Bit(i + 1)
    <3>1. to[1] \in Int /\ to[2] \in 0 .. W - 1 /\ to = <<to[1], to[2]>>
      <4>1. Words(ats) \subseteq Int
        BY <1>0, <1>0a
      <4>2. to[1] \in Words(ats) /\ to[2] \in Bits /\ to = <<to[1], to[2]>>
        BY <2>1, PairIs
      <4> QED BY <4>1, <4>2 DEF Bits
    <3>2. Bit(i + 1) \in Nat \X Bits /\ Bit(i) \in Nat \X Bits
      BY <2>4, BitIs
    <3>3. IF Bit(i + 1)[2] > 0 THEN Bit(i) = <<Bit(i + 1)[1], Bit(i + 1)[2] - 1>>
          ELSE Bit(i) = <<Bit(i + 1)[1] - 1, WordBits - 1>>
      BY <2>4, BitIs
    <3>4. PICK a \in Nat, b \in 0 .. W - 1 : Bit(i + 1) = <<a, b>>
      BY <3>2 DEF Bits
    <3>5. PICK c \in Int, d \in 0 .. W - 1 : to = <<c, d>>
      BY <3>1
    <3>6. (IF b > 0 THEN <<a, b - 1>> ELSE <<a - 1, W - 1>>) =
          (IF d > 0 THEN <<c, d - 1>> ELSE <<c - 1, W - 1>>)
      BY <2>3, <3>3, <3>4, <3>5
    <3>7. a = c /\ b = d
      BY <1>0, <3>6
    <3> QED BY <3>4, <3>5, <3>7
  <2> QED BY <2>5 DEF BitsAt
<1>3. BitsAt(T) \subseteq Shift(ats, BitsAt(S))
  BY <1>1 DEF BitsAt
<1> QED BY <1>2, <1>3

\* Sets of states, as sets of bits.
LEMMA BitsAtIs ==
    ASSUME NEW S \in SUBSET Nat, NEW T \in SUBSET Nat
    PROVE  /\ BitsAt(S) \cap BitsAt(T) = BitsAt(S \cap T)
           /\ BitsAt(S) \cup BitsAt(T) = BitsAt(S \cup T)
           /\ \A i \in Nat : Bit(i) \in BitsAt(S) <=> i \in S
<1>1. \A i, j \in Nat : Bit(i) = Bit(j) => i = j
  BY BitIs
<1> QED BY <1>1 DEF BitsAt

StarsAt(ats, n) == {i \in 0 .. n - 1 : ats[i + 1] = TheStar}
AcceptingAt(ats, n, c) == {i \in 0 .. n - 1 : ats[i + 1] # TheStar /\ accepts(ats[i + 1], c)}
Next1(S) == {i + 1 : i \in S}
ClosedAt(ats, n, S) == S \cup Next1(S \cap StarsAt(ats, n))
AdvancedAt(ats, n, S, c) == ClosedAt(ats, n, Next1(S \cap AcceptingAt(ats, n, c)) \cup (S \cap StarsAt(ats, n)))

\* On sets, close and advance do what the automaton does to its words
\* (glob.rs Automaton::close, Automaton::run).
LEMMA AdvanceIs ==
    ASSUME NEW ats, NEW n \in Nat, Long(ats, n), NEW S \in SUBSET (0 .. n), NEW c
    PROVE  /\ close(ats, BitsAt(S)) = BitsAt(ClosedAt(ats, n, S))
           /\ advance(ats, BitsAt(S), c) = BitsAt(AdvancedAt(ats, n, S, c))
           /\ ClosedAt(ats, n, S) \in SUBSET (0 .. n)
           /\ AdvancedAt(ats, n, S, c) \in SUBSET (0 .. n)
<1> DEFINE stars == {i \in 0 .. n - 1 : ats[i + 1] = TheStar}
           accepting == {i \in 0 .. n - 1 : ats[i + 1] # TheStar /\ accepts(ats[i + 1], c)}
<1>0. StarsAt(ats, n) = stars /\ AcceptingAt(ats, n, c) = accepting
  BY DEF StarsAt, AcceptingAt
<1>1. Stars(ats) = BitsAt(StarsAt(ats, n))
  <2>1. Stars(ats) = {Bit(i - 1) : i \in {i \in 1 .. n : ats[i] = TheStar}}
    BY DEF Stars, BitsOf, Long
  <2>2. ASSUME NEW i \in {i \in 1 .. n : ats[i] = TheStar}
        PROVE  i - 1 \in stars
    OBVIOUS
  <2>3. ASSUME NEW i \in stars
        PROVE  i + 1 \in {j \in 1 .. n : ats[j] = TheStar} /\ (i + 1) - 1 = i
    <3>1. i + 1 \in 1 .. n /\ (i + 1) - 1 = i
      OBVIOUS
    <3> QED BY <3>1
  <2> DEFINE X == {j \in 1 .. n : ats[j] = TheStar}
  <2> HIDE DEF stars, X
  <2>4. {Bit(i - 1) : i \in X} = {Bit(i) : i \in stars}
    <3>1. \A i \in X : i - 1 \in stars
      BY <2>2 DEF X
    <3>2. \A i \in stars : i + 1 \in X /\ (i + 1) - 1 = i
      BY <2>3 DEF X
    <3> QED BY <3>1, <3>2
  <2> QED BY <1>0, <2>1, <2>4 DEF BitsAt, X
<1>2. Accepting(ats, c) = BitsAt(AcceptingAt(ats, n, c))
  <2>1. Accepting(ats, c) = {Bit(i - 1) : i \in {i \in 1 .. n : ats[i] # TheStar /\ accepts(ats[i], c)}}
    BY DEF Accepting, BitsOf, Long
  <2>2. ASSUME NEW i \in {i \in 1 .. n : ats[i] # TheStar /\ accepts(ats[i], c)}
        PROVE  i - 1 \in accepting
    <3>1. i - 1 \in 0 .. n - 1 /\ (i - 1) + 1 = i
      OBVIOUS
    <3> QED BY <3>1
  <2>3. ASSUME NEW i \in accepting
        PROVE  i + 1 \in {j \in 1 .. n : ats[j] # TheStar /\ accepts(ats[j], c)} /\ (i + 1) - 1 = i
    <3>1. i + 1 \in 1 .. n /\ (i + 1) - 1 = i
      OBVIOUS
    <3> QED BY <3>1
  <2> DEFINE X == {j \in 1 .. n : ats[j] # TheStar /\ accepts(ats[j], c)}
  <2> HIDE DEF accepting, X
  <2>4. {Bit(i - 1) : i \in X} = {Bit(i) : i \in accepting}
    <3>1. \A i \in X : i - 1 \in accepting
      BY <2>2 DEF X
    <3>2. \A i \in accepting : i + 1 \in X /\ (i + 1) - 1 = i
      BY <2>3 DEF X
    <3> QED BY <3>1, <3>2
  <2> QED BY <1>0, <2>1, <2>4 DEF BitsAt, X
<1>3. /\ StarsAt(ats, n) \in SUBSET (0 .. n - 1) /\ AcceptingAt(ats, n, c) \in SUBSET (0 .. n - 1)
      /\ StarsAt(ats, n) \in SUBSET Nat /\ AcceptingAt(ats, n, c) \in SUBSET Nat
  <2>1. stars \in SUBSET (0 .. n - 1) /\ accepting \in SUBSET (0 .. n - 1)
    OBVIOUS
  <2> HIDE DEF stars, accepting
  <2>2. 0 .. n - 1 \subseteq Nat
    OBVIOUS
  <2> QED BY <1>0, <2>1, <2>2
<1> HIDE DEF stars, accepting
<1>4. ASSUME NEW R \in SUBSET (0 .. n)
      PROVE  /\ close(ats, BitsAt(R)) = BitsAt(ClosedAt(ats, n, R))
             /\ ClosedAt(ats, n, R) \in SUBSET (0 .. n)
  <2> DEFINE U == R \cap StarsAt(ats, n)
  <2>0. R \in SUBSET Nat
    OBVIOUS
  <2>1. BitsAt(R) \cap Stars(ats) = BitsAt(U)
    <3>1. BitsAt(R) \cap BitsAt(StarsAt(ats, n)) = BitsAt(R \cap StarsAt(ats, n))
      BY <1>3, <2>0, BitsAtIs
    <3> QED BY <1>1, <3>1
  <2>2. U \in SUBSET (0 .. n - 1)
    BY <1>3
  <2>3. Shift(ats, BitsAt(U)) = BitsAt(Next1(U))
    BY <2>2, ShiftIs DEF Next1
  <2>4. Next1(U) \in SUBSET (0 .. n) /\ Next1(U) \in SUBSET Nat
    <3> HIDE DEF U
    <3>1. \A i \in U : i + 1 \in 0 .. n /\ i + 1 \in Nat
      BY <2>2
    <3> QED BY <3>1 DEF Next1
  <2>5. BitsAt(R) \cup BitsAt(Next1(U)) = BitsAt(R \cup Next1(U))
    <3>1. R \in SUBSET Nat
      OBVIOUS
    <3> HIDE DEF U
    <3> QED BY <2>4, <3>1, BitsAtIs
  <2> QED BY <2>1, <2>3, <2>4, <2>5 DEF close, ClosedAt
<1> DEFINE A == S \cap AcceptingAt(ats, n, c)
           B == S \cap StarsAt(ats, n)
           R == Next1(A) \cup B
<1>5. BitsAt(S) \cap Accepting(ats, c) = BitsAt(A) /\ BitsAt(S) \cap Stars(ats) = BitsAt(B)
  <2>1. S \in SUBSET Nat
    OBVIOUS
  <2>2. BitsAt(S) \cap BitsAt(AcceptingAt(ats, n, c)) = BitsAt(S \cap AcceptingAt(ats, n, c))
    BY <1>3, <2>1, BitsAtIs
  <2>3. BitsAt(S) \cap BitsAt(StarsAt(ats, n)) = BitsAt(S \cap StarsAt(ats, n))
    BY <1>3, <2>1, BitsAtIs
  <2> QED BY <1>1, <1>2, <2>2, <2>3
<1>6. A \in SUBSET (0 .. n - 1) /\ B \in SUBSET (0 .. n - 1)
  BY <1>3
<1>7. Shift(ats, BitsAt(A)) = BitsAt(Next1(A))
  BY <1>6, ShiftIs DEF Next1
<1>8. Next1(A) \in SUBSET (0 .. n) /\ R \in SUBSET (0 .. n) /\ Next1(A) \in SUBSET Nat /\ B \in SUBSET Nat
  <2> HIDE DEF A, B
  <2>1. \A i \in A : i + 1 \in 0 .. n /\ i + 1 \in Nat
    BY <1>6
  <2>2. Next1(A) \in SUBSET (0 .. n) /\ Next1(A) \in SUBSET Nat
    BY <2>1 DEF Next1
  <2>3. B \in SUBSET (0 .. n) /\ B \in SUBSET Nat
    BY <1>6
  <2> QED BY <2>2, <2>3
<1> HIDE DEF A, B
<1>9. BitsAt(Next1(A)) \cup BitsAt(B) = BitsAt(R)
  BY <1>8, BitsAtIs
<1>10. advance(ats, BitsAt(S), c) = close(ats, BitsAt(R))
  BY <1>5, <1>7, <1>9 DEF advance
<1>11. AdvancedAt(ats, n, S, c) = ClosedAt(ats, n, R)
  BY DEF AdvancedAt, A, B
<1> QED BY <1>4, <1>8, <1>10, <1>11
\* The same, for sets and atoms yet to be named.
LEMMA AdvancesTo ==
    \A ats, S, c : \A n \in Nat :
       Long(ats, n) /\ S \in SUBSET (0 .. n) =>
          /\ advance(ats, BitsAt(S), c) = BitsAt(AdvancedAt(ats, n, S, c))
          /\ AdvancedAt(ats, n, S, c) \in SUBSET (0 .. n)
<1>1. \A ats, S, c : \A n \in Nat :
         Long(ats, n) /\ S \in SUBSET (0 .. n) =>
            advance(ats, BitsAt(S), c) = BitsAt(AdvancedAt(ats, n, S, c))
  BY AdvanceIs
<1>2. \A ats, S, c : \A n \in Nat :
         Long(ats, n) /\ S \in SUBSET (0 .. n) => AdvancedAt(ats, n, S, c) \in SUBSET (0 .. n)
  BY AdvanceIs
<1> QED BY <1>1, <1>2
-----------------------------------------------------------------------------
NoTwoStars(ats, n) == \A i \in 1 .. n - 1 : ~(ats[i] = TheStar /\ ats[i + 1] = TheStar)

\* The states that are live after j characters: those whose atoms can share them
\* out, and those before a star that has the last of them.
LiveAt(ats, n, text, m, j) ==
    {i \in 0 .. n : \/ Splits(ats, text, m, i, j)
                    \/ i < n /\ ats[i + 1] = TheStar /\ Splits(ats, text, m, i + 1, j)}

\* Before any character, what is live is the start, closed.
LEMMA LiveFirst ==
    ASSUME NEW ats, NEW n \in Nat, Long(ats, n), NoTwoStars(ats, n), NEW text, NEW m \in Nat, Long(text, m)
    PROVE  LiveAt(ats, n, text, m, 0) = ClosedAt(ats, n, {0})
<1>0. 0 \in 0 .. m /\ Splits(ats, text, m, 0, 0)
  <2>1. 0 \in 0 .. m
    OBVIOUS
  <2> QED BY <2>1, SplitsNone
<1>1. ASSUME NEW i \in Nat, Splits(ats, text, m, i + 1, 0)
      PROVE  ats[i + 1] = TheStar /\ Splits(ats, text, m, i, 0)
  <2>1. IF ats[i + 1] = TheStar THEN \E k \in 0 .. 0 : Splits(ats, text, m, i, k)
        ELSE 0 >= 1 /\ Splits(ats, text, m, i, 0 - 1) /\ accepts(ats[i + 1], text[0])
    BY <1>0, <1>1, SplitsMore
  <2>2. \A k \in 0 .. 0 : k = 0
    OBVIOUS
  <2> QED BY <2>1, <2>2
<1>2. ASSUME NEW i \in 0 .. n, Splits(ats, text, m, i, 0)
      PROVE  i = 0 \/ (i = 1 /\ ats[1] = TheStar)
  <2> SUFFICES ASSUME i >= 1 PROVE i = 1 /\ ats[1] = TheStar
    OBVIOUS
  <2>1. i - 1 \in Nat /\ (i - 1) + 1 = i
    OBVIOUS
  <2>2. ats[i] = TheStar /\ Splits(ats, text, m, i - 1, 0)
    BY <1>1, <1>2, <2>1
  <2> SUFFICES ASSUME i >= 2 PROVE FALSE
    BY <2>2
  <2>3. i - 2 \in Nat /\ (i - 2) + 1 = i - 1 /\ i - 1 \in 1 .. n - 1
    OBVIOUS
  <2>4. ats[i - 1] = TheStar
    BY <1>1, <2>2, <2>3
  <2> QED BY <2>1, <2>2, <2>3, <2>4 DEF NoTwoStars
<1>3. ASSUME NEW i \in LiveAt(ats, n, text, m, 0) PROVE i \in ClosedAt(ats, n, {0})
  <2>1. /\ i \in 0 .. n
        /\ \/ Splits(ats, text, m, i, 0)
           \/ i < n /\ ats[i + 1] = TheStar /\ Splits(ats, text, m, i + 1, 0)
    BY DEF LiveAt
  <2>2. CASE Splits(ats, text, m, i, 0)
    <3>1. i = 0 \/ (i = 1 /\ ats[1] = TheStar)
      BY <1>2, <2>1, <2>2
    <3>2. CASE i = 1 /\ ats[1] = TheStar
      <4>1. 0 \in StarsAt(ats, n) /\ i = 0 + 1
        BY <2>1, <3>2 DEF StarsAt
      <4> QED BY <4>1 DEF ClosedAt, Next1
    <3> QED BY <3>1, <3>2 DEF ClosedAt
  <2>3. CASE i < n /\ ats[i + 1] = TheStar /\ Splits(ats, text, m, i + 1, 0)
    <3>1. i + 1 \in 0 .. n
      BY <2>1, <2>3
    <3>2. i + 1 = 0 \/ i + 1 = 1
      BY <1>2, <2>3, <3>1
    <3>3. i = 0
      BY <2>1, <3>2
    <3> QED BY <3>3 DEF ClosedAt
  <2> QED BY <2>1, <2>2, <2>3
<1>4. ASSUME NEW i \in ClosedAt(ats, n, {0}) PROVE i \in LiveAt(ats, n, text, m, 0)
  <2>1. CASE i = 0
    BY <1>0, <2>1 DEF LiveAt
  <2>2. CASE i # 0
    <3>1. i = 0 + 1 /\ 0 \in StarsAt(ats, n)
      BY <2>2 DEF ClosedAt, Next1
    <3>2. 0 < n /\ ats[0 + 1] = TheStar /\ i \in 0 .. n
      BY <3>1 DEF StarsAt
    <3>3. Splits(ats, text, m, 0 + 1, 0)
      BY <1>0, <3>2, StarSplits
    <3> QED BY <3>1, <3>2, <3>3 DEF LiveAt
  <2> QED BY <2>1, <2>2
<1> QED BY <1>3, <1>4

\* A character takes what is live to what is live after it.
LEMMA LiveNext ==
    ASSUME NEW ats, NEW n \in Nat, Long(ats, n), NoTwoStars(ats, n), NEW text, NEW m \in Nat, Long(text, m),
           NEW j \in 0 .. m - 1
    PROVE  LiveAt(ats, n, text, m, j + 1) = AdvancedAt(ats, n, LiveAt(ats, n, text, m, j), text[j + 1])
<1> DEFINE S == LiveAt(ats, n, text, m, j)
           A == AcceptingAt(ats, n, text[j + 1])
           B == StarsAt(ats, n)
           U == Next1(S \cap A) \cup (S \cap B)
           N == LiveAt(ats, n, text, m, j + 1)
           can(i, k) == Splits(ats, text, m, i, k)
<1>0. j \in 0 .. m /\ j + 1 \in 0 .. m /\ (j + 1) - 1 = j /\ j + 1 >= 1
  OBVIOUS
<1>1. \A k \in 0 .. m : \A i : (i \in LiveAt(ats, n, text, m, k) <=>
         i \in 0 .. n /\ (can(i, k) \/ (i < n /\ ats[i + 1] = TheStar /\ can(i + 1, k))))
  BY DEF LiveAt
<1>2. \A i : (i \in A <=> i \in 0 .. n - 1 /\ ats[i + 1] # TheStar /\ accepts(ats[i + 1], text[j + 1]))
  BY DEF AcceptingAt
<1>3. \A i : (i \in B <=> i \in 0 .. n - 1 /\ ats[i + 1] = TheStar)
  BY DEF StarsAt
<1>4. ASSUME NEW i \in 0 .. n - 1, ats[i + 1] # TheStar
      PROVE  can(i + 1, j + 1) <=> can(i, j) /\ accepts(ats[i + 1], text[j + 1])
  <2>1. can(i + 1, j + 1) <=>
          IF ats[i + 1] = TheStar THEN \E k \in 0 .. j + 1 : can(i, k)
          ELSE j + 1 >= 1 /\ can(i, (j + 1) - 1) /\ accepts(ats[i + 1], text[j + 1])
    <3> DEFINE k == j + 1
    <3> HIDE DEF k
    <3>1. k \in 0 .. m /\ i \in Nat
      BY <1>0 DEF k
    <3>2. Splits(ats, text, m, i + 1, k) <=>
            IF ats[i + 1] = TheStar THEN \E x \in 0 .. k : Splits(ats, text, m, i, x)
            ELSE k >= 1 /\ Splits(ats, text, m, i, k - 1) /\ accepts(ats[i + 1], text[k])
      BY <3>1, SplitsMore
    <3> QED BY <3>2 DEF k
  <2> HIDE DEF can
  <2> QED BY <1>0, <1>4, <2>1
<1>5. ASSUME NEW i \in 0 .. n - 1, ats[i + 1] = TheStar
      PROVE  /\ can(i + 1, j + 1) <=> can(i, j + 1) \/ can(i + 1, j)
             /\ can(i, j) => can(i + 1, j)
  BY <1>0, <1>5, StarSplits
<1>6. ~can(0, j + 1)
  <2>1. can(0, j + 1) <=> j + 1 = 0
    BY <1>0, SplitsNone
  <2> QED BY <1>0, <2>1
<1> HIDE DEF can, S, A, B, N
<1>7. ASSUME NEW i \in U PROVE i \in N
  <2>1. CASE i \in S \cap B
    <3>1. i \in 0 .. n - 1 /\ ats[i + 1] = TheStar /\ can(i + 1, j)
      BY <1>0, <1>1, <1>3, <1>5, <2>1 DEF S
    <3>2. can(i + 1, j + 1) /\ i \in 0 .. n /\ i < n
      BY <1>5, <3>1
    <3> QED BY <1>0, <1>1, <3>1, <3>2 DEF N
  <2>2. CASE i \in Next1(S \cap A)
    <3>1. PICK k \in S \cap A : i = k + 1
      BY <2>2 DEF Next1
    <3>2. k \in 0 .. n - 1 /\ ats[k + 1] # TheStar /\ can(k, j) /\ accepts(ats[k + 1], text[j + 1])
      BY <1>0, <1>1, <1>2 DEF S
    <3>3. can(i, j + 1) /\ i \in 0 .. n
      BY <1>4, <3>1, <3>2
    <3> QED BY <1>0, <1>1, <3>3 DEF N
  <2> QED BY <2>1, <2>2
<1>8. ASSUME NEW i \in Next1(U \cap B) PROVE i \in N
  <2>1. PICK k \in U \cap B : i = k + 1
    BY DEF Next1
  <2>2. k \in N /\ k \in 0 .. n - 1 /\ ats[k + 1] = TheStar
    BY <1>3, <1>7
  <2>3. can(k + 1, j + 1) /\ k + 1 \in 0 .. n
    BY <1>0, <1>1, <1>5, <2>2 DEF N
  <2> QED BY <1>0, <1>1, <2>1, <2>3 DEF N
<1>9. ASSUME NEW i \in 0 .. n, can(i, j + 1) PROVE i \in U \cup Next1(U \cap B)
  <2>1. i # 0 /\ i - 1 \in 0 .. n - 1 /\ (i - 1) + 1 = i
    BY <1>6, <1>9
  <2>2. ASSUME NEW k \in 0 .. n - 1, ats[k + 1] # TheStar, can(k + 1, j + 1) PROVE k + 1 \in U
    <3>1. can(k, j) /\ accepts(ats[k + 1], text[j + 1])
      BY <1>4, <2>2
    <3>2. k \in 0 .. n
      OBVIOUS
    <3>3. k \in S /\ k \in A
      BY <1>0, <1>1, <1>2, <2>2, <3>1, <3>2 DEF S
    <3> QED BY <3>3 DEF Next1
  <2>3. CASE ats[i] # TheStar
    BY <1>9, <2>1, <2>2, <2>3
  <2>4. CASE ats[i] = TheStar
    <3>1. i - 1 \in B
      BY <1>3, <2>1, <2>4
    <3>2. can(i - 1, j + 1) \/ can(i, j)
      BY <1>5, <1>9, <2>1, <2>4
    <3>3. CASE can(i, j)
      <4>1. i - 1 \in S
        <5>1. i - 1 \in 0 .. n /\ i - 1 < n
          BY <2>1
        <5> QED BY <1>0, <1>1, <2>1, <2>4, <3>3, <5>1 DEF S
      <4>2. i - 1 \in U \cap B
        BY <3>1, <4>1
      <4> QED BY <2>1, <4>2 DEF Next1
    <3>4. CASE can(i - 1, j + 1)
      <4>1. i - 1 # 0 /\ i - 2 \in 0 .. n - 1 /\ (i - 2) + 1 = i - 1 /\ i - 1 \in 1 .. n - 1
        BY <1>6, <2>1, <3>4
      <4>2. ats[i - 1] # TheStar
        BY <2>1, <2>4, <4>1 DEF NoTwoStars
      <4>3. i - 1 \in U
        BY <2>2, <3>4, <4>1, <4>2
      <4> QED BY <2>1, <3>1, <4>3 DEF Next1
    <3> QED BY <3>2, <3>3, <3>4
  <2> QED BY <2>3, <2>4
<1>10. ASSUME NEW i \in N PROVE i \in U \cup Next1(U \cap B)
  <2>1. i \in 0 .. n /\ (can(i, j + 1) \/ (i < n /\ ats[i + 1] = TheStar /\ can(i + 1, j + 1)))
    BY <1>0, <1>1 DEF N
  <2>2. CASE i < n /\ ats[i + 1] = TheStar /\ can(i + 1, j + 1)
    <3>1. i \in 0 .. n - 1
      BY <2>1, <2>2
    <3>2. can(i, j + 1) \/ can(i + 1, j)
      BY <1>5, <2>2, <3>1
    <3>3. CASE can(i + 1, j)
      <4>1. i \in S /\ i \in B
        BY <1>0, <1>1, <1>3, <2>1, <2>2, <3>1, <3>3 DEF S
      <4> QED BY <4>1
    <3> QED BY <1>9, <2>1, <3>2, <3>3
  <2> QED BY <1>9, <2>1, <2>2
<1>11. N = U \cup Next1(U \cap B)
  BY <1>7, <1>8, <1>10
<1> QED BY <1>11 DEF AdvancedAt, ClosedAt, S, A, B, N

\* The automaton accepts what its atoms can share out.
LEMMA RunIs ==
    ASSUME NEW ats, NEW n \in Nat, Long(ats, n), NoTwoStars(ats, n),
           NEW text, NEW m \in Nat, Long(text, m)
    PROVE  run(ats, text) <=> Shared(ats, text)
<1>0. ASSUME NEW S \in SUBSET (0 .. n), NEW c
      PROVE  /\ advance(ats, BitsAt(S), c) = BitsAt(AdvancedAt(ats, n, S, c))
             /\ AdvancedAt(ats, n, S, c) \in SUBSET (0 .. n)
  BY AdvancesTo
<1> DEFINE X == {BitsAt(S) : S \in SUBSET (0 .. n)}
           base == close(ats, {Bit(0)})
           g == [q \in (1 .. m) \X X |-> advance(ats, q[2], text[q[1]])]
           body(f) == [k \in 0 .. m |-> IF k = 0 THEN base ELSE advance(ats, f[k - 1], text[k])]
<1>1. base = BitsAt(ClosedAt(ats, n, {0})) /\ base \in X
  <2>1. {Bit(0)} = BitsAt({0}) /\ {0} \in SUBSET (0 .. n)
    BY DEF BitsAt
  <2>2. /\ close(ats, BitsAt({0})) = BitsAt(ClosedAt(ats, n, {0}))
        /\ ClosedAt(ats, n, {0}) \in SUBSET (0 .. n)
    BY <2>1, AdvanceIs
  <2> QED BY <2>1, <2>2
<1>2. ASSUME NEW k \in 1 .. m, NEW x \in X
      PROVE  g[<<k, x>>] = advance(ats, x, text[k]) /\ g[<<k, x>>] \in X
  <2>1. g[<<k, x>>] = advance(ats, x, text[k])
    OBVIOUS
  <2>2. PICK S \in SUBSET (0 .. n) : x = BitsAt(S)
    OBVIOUS
  <2>3. /\ advance(ats, BitsAt(S), text[k]) = BitsAt(AdvancedAt(ats, n, S, text[k]))
        /\ AdvancedAt(ats, n, S, text[k]) \in SUBSET (0 .. n)
    BY <1>0
  <2> HIDE DEF g
  <2> QED BY <2>1, <2>2, <2>3
<1> HIDE DEF g, X, base
<1>3. PICK f : IsLoop(f, m, base, g) /\ \A k \in 0 .. m : f[k] \in X
  <2>1. \A k \in 1 .. m, x \in X : g[<<k, x>>] \in X
    BY <1>2
  <2> QED BY <1>1, <2>1, LoopMakes
<1>4. f = body(f)
  <2>1. f = [k \in 0 .. m |-> IF k = 0 THEN base ELSE g[<<k, f[k - 1]>>]]
    BY <1>3 DEF IsLoop
  <2>2. \A k \in 0 .. m : k # 0 => g[<<k, f[k - 1]>>] = advance(ats, f[k - 1], text[k])
    <3> SUFFICES ASSUME NEW k \in 0 .. m, k # 0
                 PROVE  g[<<k, f[k - 1]>>] = advance(ats, f[k - 1], text[k])
      OBVIOUS
    <3>1. k \in 1 .. m /\ k - 1 \in 0 .. m
      OBVIOUS
    <3> QED BY <1>2, <1>3, <3>1
  <2>3. DOMAIN f = 0 .. m /\ f = [k \in 0 .. m |-> f[k]]
    BY <2>1
  <2>4. \A k \in 0 .. m : f[k] = IF k = 0 THEN base ELSE advance(ats, f[k - 1], text[k])
    BY <2>1, <2>2
  <2> QED BY <2>3, <2>4
<1> DEFINE after == CHOOSE h : h = body(h)
<1>5. after = body(after)
  BY <1>4
<1> HIDE DEF after
<1>6. \A k \in 0 .. m : after[k] = IF k = 0 THEN base ELSE advance(ats, after[k - 1], text[k])
  BY <1>5
<1> DEFINE P == {k \in 0 .. m : after[k] = BitsAt(LiveAt(ats, n, text, m, k))}
<1>7. \A k \in 0 .. m : k \in P
  <2>1. 0 \in P
    <3>1. after[0] = base /\ 0 \in 0 .. m
      BY <1>6
    <3>2. LiveAt(ats, n, text, m, 0) = ClosedAt(ats, n, {0})
      BY LiveFirst
    <3> QED BY <1>1, <3>1, <3>2
  <2>2. ASSUME NEW k \in 0 .. m - 1, k \in P PROVE k + 1 \in P
    <3>1. k + 1 \in 0 .. m /\ k + 1 # 0 /\ (k + 1) - 1 = k
      OBVIOUS
    <3>2. after[k + 1] = advance(ats, after[k], text[k + 1])
      BY <1>6, <3>1
    <3>3. LiveAt(ats, n, text, m, k) \in SUBSET (0 .. n)
      BY DEF LiveAt
    <3>4. advance(ats, BitsAt(LiveAt(ats, n, text, m, k)), text[k + 1]) =
            BitsAt(AdvancedAt(ats, n, LiveAt(ats, n, text, m, k), text[k + 1]))
      BY <1>0, <3>3
    <3>5. LiveAt(ats, n, text, m, k + 1) = AdvancedAt(ats, n, LiveAt(ats, n, text, m, k), text[k + 1])
      BY LiveNext
    <3> QED BY <2>2, <3>1, <3>2, <3>4, <3>5
  <2> HIDE DEF P
  <2> QED BY <2>1, <2>2, LoopKeeps
<1>8. after[m] = BitsAt(LiveAt(ats, n, text, m, m))
  <2>1. m \in 0 .. m
    OBVIOUS
  <2> QED BY <1>7, <2>1
<1>9. run(ats, text) <=> Bit(n) \in after[m]
  BY DEF run, after, base, Long
<1>10. Bit(n) \in BitsAt(LiveAt(ats, n, text, m, m)) <=> n \in LiveAt(ats, n, text, m, m)
  <2>1. LiveAt(ats, n, text, m, m) \in SUBSET Nat
    BY DEF LiveAt
  <2> QED BY <2>1, BitsAtIs
<1>11. n \in LiveAt(ats, n, text, m, m) <=> Splits(ats, text, m, n, m)
  BY DEF LiveAt
<1>12. Shared(ats, text) <=> Splits(ats, text, m, n, m)
  BY DEF Shared, Splits, Long
<1> QED BY <1>8, <1>9, <1>10, <1>11, <1>12
-----------------------------------------------------------------------------
\* A text or a pattern: the codes of its characters.
Text == Seq(Nat)

\* A text is its characters.
LEMMA TextIs ==
    ASSUME NEW t \in Text
    PROVE  /\ Len(t) \in Nat /\ Long(t, Len(t))
           /\ \A i \in 1 .. Len(t) : t[i] \in Nat
           /\ t = [i \in 1 .. Len(t) |-> t[i]]
  BY DEF Text, Long

\* A sequence is as long as it is.
LEMMA LongIs ==
    ASSUME NEW S, NEW s \in Seq(S)
    PROVE  Len(s) \in Nat /\ Long(s, Len(s)) /\ \A i \in 1 .. Len(s) : s[i] \in S
  BY DEF Long

\* Atoms a pattern may have, and the reading of it.
Atom(p) == {TheStar, TheOne} \cup {Char(p[i]) : i \in Nat} \cup {class(p, i).atom : i \in Nat}
Place(p) == Nat \cup {class(p, i).next : i \in Nat}
Reading(p) == {r \in [closed : BOOLEAN, atoms : Seq(Atom(p)), at : Place(p)] :
                  NoTwoStars(r.atoms, Len(r.atoms))}
Unread == [closed |-> TRUE, atoms |-> <<>>, at |-> 1]

\* No atom but the star is a star.
LEMMA OnlyStar ==
    ASSUME NEW x
    PROVE  TheOne # TheStar /\ Char(x) # TheStar /\ \A p : class(p, x).atom # TheStar
<1>1. TheOne.is = "one" /\ TheStar.is = "star" /\ Char(x).is = "char"
  BY DEF TheOne, TheStar, Char
<1>2. \A p : class(p, x).atom.is = "set"
  BY DEF class, class_of
<1> QED BY <1>1, <1>2

\* An atom goes to the end of those read, and where the reader stands is kept.
LEMMA PushedIs ==
    ASSUME NEW p, NEW r \in Reading(p)
    PROVE  \A a, next :
              a \in Atom(p) /\ next \in Place(p) /\ (a # TheStar \/ r.atoms = <<>> \/ Last(r.atoms) # TheStar) =>
                 /\ pushed(r, a, next) \in Reading(p)
                 /\ pushed(r, a, next).atoms = Append(r.atoms, a)
                 /\ pushed(r, a, next).at = next /\ pushed(r, a, next).closed = r.closed
<1> SUFFICES ASSUME NEW a \in Atom(p), NEW next \in Place(p),
                    a # TheStar \/ r.atoms = <<>> \/ Last(r.atoms) # TheStar
             PROVE  /\ pushed(r, a, next) \in Reading(p)
                    /\ pushed(r, a, next).atoms = Append(r.atoms, a)
                    /\ pushed(r, a, next).at = next /\ pushed(r, a, next).closed = r.closed
  OBVIOUS
<1> DEFINE s == r.atoms
           t == Append(s, a)
<1>1. /\ r \in [closed : BOOLEAN, atoms : Seq(Atom(p)), at : Place(p)]
      /\ NoTwoStars(s, Len(s)) /\ s \in Seq(Atom(p))
  BY DEF Reading
<1>2. /\ pushed(r, a, next) \in [closed : BOOLEAN, atoms : Seq(Atom(p)), at : Place(p)]
      /\ pushed(r, a, next).atoms = t
      /\ pushed(r, a, next).at = next /\ pushed(r, a, next).closed = r.closed
  <2>1. pushed(r, a, next) = [closed |-> r.closed, atoms |-> t, at |-> next]
    BY <1>1 DEF pushed
  <2>2. t \in Seq(Atom(p))
    BY <1>1
  <2> HIDE DEF t
  <2> QED BY <1>1, <2>1, <2>2
<1>3. Len(s) \in Nat /\ Len(t) = Len(s) + 1 /\ t[Len(s) + 1] = a /\ \A i \in 1 .. Len(s) : t[i] = s[i]
  BY <1>1
<1>4. s # <<>> => Last(s) = s[Len(s)]
  BY DEF Last
<1>5. s = <<>> <=> Len(s) = 0
  BY <1>1
<1> HIDE DEF s, t
<1>6. NoTwoStars(t, Len(t))
  <2> SUFFICES ASSUME NEW i \in 1 .. Len(s), t[i] = TheStar, t[i + 1] = TheStar PROVE FALSE
    BY <1>3 DEF NoTwoStars
  <2>1. CASE i = Len(s)
    <3>1. a = TheStar /\ s # <<>> /\ s[Len(s)] = TheStar
      BY <1>3, <1>5, <2>1
    <3> QED BY <1>4, <3>1 DEF s
  <2>2. CASE i # Len(s)
    <3>1. i \in 1 .. Len(s) - 1 /\ i + 1 \in 1 .. Len(s)
      BY <1>3, <2>2
    <3>2. s[i] = TheStar /\ s[i + 1] = TheStar
      BY <1>3, <3>1
    <3> QED BY <1>1, <3>1, <3>2 DEF NoTwoStars
  <2> QED BY <2>1, <2>2
<1>7. NoTwoStars(pushed(r, a, next).atoms, Len(pushed(r, a, next).atoms))
  BY <1>2, <1>6
<1> QED BY <1>2, <1>7 DEF Reading, t, s

\* A pass of the loop reads on, and what it has read stays.
LEMMA AtomRead ==
    ASSUME NEW p, NEW l \in Nat, Long(p, l), NEW r \in Reading(p)
    PROVE  /\ atom_read(p, r) \in Reading(p)
           /\ \/ atom_read(p, r).atoms = r.atoms
              \/ \E a \in Atom(p) : atom_read(p, r).atoms = Append(r.atoms, a)
<1> DEFINE i == r.at
           s == r.atoms
<1>0. /\ r \in [closed : BOOLEAN, atoms : Seq(Atom(p)), at : Place(p)]
      /\ NoTwoStars(s, Len(s)) /\ s \in Seq(Atom(p))
  BY DEF Reading
<1>1. CASE i \notin DOMAIN p
  BY <1>1 DEF atom_read
<1>2. CASE i \in DOMAIN p
  <2>1. i \in Nat /\ i + 1 \in Place(p) /\ i + 2 \in Place(p) /\ l + 1 \in Place(p) /\ class(p, i).next \in Place(p)
    <3>1. i \in 1 .. l
      BY <1>2 DEF Long
    <3> HIDE DEF i
    <3> QED BY <3>1 DEF Place
  <2>2. /\ TheStar \in Atom(p) /\ TheOne \in Atom(p) /\ Char(p[i]) \in Atom(p) /\ Char(p[i + 1]) \in Atom(p)
        /\ class(p, i).atom \in Atom(p)
    <3>1. i \in Nat /\ i + 1 \in Nat
      BY <2>1
    <3> HIDE DEF i
    <3> QED BY <3>1 DEF Atom
  <2>3. /\ TheOne # TheStar /\ Char(p[i]) # TheStar /\ Char(p[i + 1]) # TheStar
        /\ class(p, i).atom # TheStar
    BY OnlyStar
  <2> DEFINE moved == [r EXCEPT !.at = i + 1]
             ended == [closed |-> FALSE, atoms |-> s, at |-> Len(p) + 1]
  <2>4. moved \in Reading(p) /\ moved.atoms = s /\ ended \in Reading(p) /\ ended.atoms = s
    <3>1. Len(p) + 1 \in Place(p)
      BY <2>1 DEF Long
    <3>2. moved = [closed |-> r.closed, atoms |-> s, at |-> i + 1]
      BY <1>0
    <3>3. ended = [closed |-> FALSE, atoms |-> s, at |-> Len(p) + 1]
      OBVIOUS
    <3> HIDE DEF moved, ended
    <3> QED BY <1>0, <2>1, <3>1, <3>2, <3>3 DEF Reading
  <2> HIDE DEF moved, ended
  <2>5. \/ atom_read(p, r) \in {moved, ended}
        \/ atom_read(p, r) = pushed(r, TheStar, i + 1) /\ (s = <<>> \/ Last(s) # TheStar)
        \/ atom_read(p, r) \in {pushed(r, TheOne, i + 1), pushed(r, class(p, i).atom, class(p, i).next),
                                pushed(r, Char(p[i + 1]), i + 2), pushed(r, Char(p[i]), i + 1)}
    <3> DEFINE c == class(p, i)
    <3> HIDE DEF c
    <3>1. atom_read(p, r) =
            CASE p[i] = AnyRun -> IF s # <<>> /\ Last(s) = TheStar THEN moved ELSE pushed(r, TheStar, i + 1)
              [] p[i] = AnyOne -> pushed(r, TheOne, i + 1)
              [] p[i] = Opens -> IF c.closed THEN pushed(r, c.atom, c.next) ELSE ended
              [] p[i] = Escape /\ i < Len(p) -> pushed(r, Char(p[i + 1]), i + 2)
              [] OTHER -> pushed(r, Char(p[i]), i + 1)
      BY <1>2 DEF atom_read, class_read, moved, ended, c
    <3> HIDE DEF i, s
    <3>2. CASE p[i] = AnyRun
      <4>1. atom_read(p, r) = IF s # <<>> /\ Last(s) = TheStar THEN moved ELSE pushed(r, TheStar, i + 1)
        BY <3>1, <3>2 DEF AnyRun, AnyOne, Opens, Escape
      <4> QED BY <4>1
    <3>3. CASE p[i] # AnyRun
      BY <3>1, <3>3 DEF AnyRun, AnyOne, Opens, Escape, c
    <3> QED BY <3>2, <3>3
  <2>6. CASE atom_read(p, r) \in {moved, ended}
    BY <2>4, <2>6
  <2>7. CASE atom_read(p, r) = pushed(r, TheStar, i + 1) /\ (s = <<>> \/ Last(s) # TheStar)
    <3>1. /\ pushed(r, TheStar, i + 1) \in Reading(p)
          /\ pushed(r, TheStar, i + 1).atoms = Append(s, TheStar)
      BY <2>1, <2>2, <2>3, <2>7, PushedIs
    <3> QED BY <2>2, <2>7, <3>1
  <2>8. CASE atom_read(p, r) = pushed(r, TheOne, i + 1)
    <3>1. /\ pushed(r, TheOne, i + 1) \in Reading(p)
          /\ pushed(r, TheOne, i + 1).atoms = Append(s, TheOne)
      BY <2>1, <2>2, <2>3, <2>8, PushedIs
    <3> QED BY <2>2, <2>8, <3>1
  <2>9. CASE atom_read(p, r) = pushed(r, class(p, i).atom, class(p, i).next)
    <3>1. /\ pushed(r, class(p, i).atom, class(p, i).next) \in Reading(p)
          /\ pushed(r, class(p, i).atom, class(p, i).next).atoms = Append(s, class(p, i).atom)
      BY <2>1, <2>2, <2>3, <2>9, PushedIs
    <3> QED BY <2>2, <2>9, <3>1
  <2>10. CASE atom_read(p, r) = pushed(r, Char(p[i + 1]), i + 2)
    <3>1. /\ pushed(r, Char(p[i + 1]), i + 2) \in Reading(p)
          /\ pushed(r, Char(p[i + 1]), i + 2).atoms = Append(s, Char(p[i + 1]))
      BY <2>1, <2>2, <2>3, <2>10, PushedIs
    <3> QED BY <2>2, <2>10, <3>1
  <2>11. CASE atom_read(p, r) = pushed(r, Char(p[i]), i + 1)
    <3>1. /\ pushed(r, Char(p[i]), i + 1) \in Reading(p)
          /\ pushed(r, Char(p[i]), i + 1).atoms = Append(s, Char(p[i]))
      BY <2>1, <2>2, <2>3, <2>11, PushedIs
    <3> QED BY <2>2, <2>11, <3>1
  <2> QED BY <2>5, <2>6, <2>7, <2>8, <2>9, <2>10, <2>11
<1> QED BY <1>1, <1>2
-----------------------------------------------------------------------------
(***************************************************************************)
(* How a pattern is read.                                                  *)
(***************************************************************************)
\* The passes of the loop that reads a pattern.
Passes(f, p) ==
    \A n \in 0 .. Len(p) : /\ f[n] \in Reading(p)
                           /\ f[n] = IF n = 0 THEN Unread ELSE atom_read(p, f[n - 1])

\* The atoms of a pattern are read a character at a time (glob.rs atoms).
LEMMA AtomsPass ==
    ASSUME NEW p \in Text
    PROVE  \E f : Passes(f, p) /\ atoms(p) = f[Len(p)]
<1> DEFINE X == Reading(p)
           l == Len(p)
           g == [q \in (1 .. l) \X X |-> atom_read(p, q[2])]
           body(f) == [n \in 0 .. l |-> IF n = 0 THEN Unread ELSE atom_read(p, f[n - 1])]
<1>0. l \in Nat /\ Long(p, l)
  BY TextIs
<1> HIDE DEF l
<1>1. Unread \in X
  <2>1. <<>> \in Seq(Atom(p)) /\ 1 \in Place(p) /\ NoTwoStars(<<>>, Len(<<>>))
    BY DEF Place, NoTwoStars
  <2> QED BY <2>1 DEF Unread, Reading
<1>2. ASSUME NEW n \in 1 .. l, NEW x \in X
      PROVE  g[<<n, x>>] = atom_read(p, x) /\ g[<<n, x>>] \in X
  <2>1. g[<<n, x>>] = atom_read(p, x)
    OBVIOUS
  <2>2. atom_read(p, x) \in X
    BY <1>0, AtomRead
  <2> HIDE DEF g
  <2> QED BY <2>1, <2>2
<1> HIDE DEF g, X
<1>3. PICK f : IsLoop(f, l, Unread, g) /\ \A n \in 0 .. l : f[n] \in X
  <2>1. \A n \in 1 .. l, x \in X : g[<<n, x>>] \in X
    BY <1>2
  <2> QED BY <1>0, <1>1, <2>1, LoopMakes
<1>4. f = body(f)
  <2>1. f = [n \in 0 .. l |-> IF n = 0 THEN Unread ELSE g[<<n, f[n - 1]>>]]
    BY <1>3 DEF IsLoop
  <2>2. \A n \in 0 .. l : n # 0 => g[<<n, f[n - 1]>>] = atom_read(p, f[n - 1])
    <3> SUFFICES ASSUME NEW n \in 0 .. l, n # 0
                 PROVE  g[<<n, f[n - 1]>>] = atom_read(p, f[n - 1])
      OBVIOUS
    <3>1. n \in 1 .. l /\ n - 1 \in 0 .. l
      BY <1>0
    <3> QED BY <1>2, <1>3, <3>1
  <2>3. DOMAIN f = 0 .. l /\ f = [n \in 0 .. l |-> f[n]]
    BY <2>1
  <2>4. \A n \in 0 .. l : f[n] = IF n = 0 THEN Unread ELSE atom_read(p, f[n - 1])
    BY <2>1, <2>2
  <2> QED BY <2>3, <2>4
<1> DEFINE pass == CHOOSE h : h = body(h)
<1>5. pass = body(pass)
  BY <1>4
<1>6. atoms(p) = pass[l]
  BY DEF atoms, Unread, l
<1> HIDE DEF pass
<1>7. \A n \in 0 .. l : pass[n] = IF n = 0 THEN Unread ELSE atom_read(p, pass[n - 1])
  BY <1>5
<1> DEFINE P == {n \in 0 .. l : pass[n] \in X}
<1>8. \A n \in 0 .. l : n \in P
  <2>1. 0 \in P
    BY <1>0, <1>1, <1>7
  <2>2. ASSUME NEW n \in 0 .. l - 1, n \in P PROVE n + 1 \in P
    <3>1. n + 1 \in 0 .. l /\ n + 1 # 0 /\ (n + 1) - 1 = n
      BY <1>0
    <3>2. pass[n + 1] = atom_read(p, pass[n])
      BY <1>7, <3>1
    <3>3. atom_read(p, pass[n]) \in X
      BY <1>0, <2>2, AtomRead DEF X
    <3> QED BY <3>1, <3>2, <3>3
  <2> HIDE DEF P
  <2> QED BY <1>0, <2>1, <2>2, LoopKeeps
<1>9. Passes(pass, p)
  BY <1>7, <1>8 DEF Passes, l, X
<1> QED BY <1>6, <1>9 DEF l

\* What a pattern is read as: atoms, with no two stars together.
LEMMA ParseIs ==
    ASSUME NEW p \in Text
    PROVE  /\ atoms(p) \in Reading(p)
           /\ atoms(p).atoms \in Seq(Atom(p)) /\ Long(atoms(p).atoms, Len(atoms(p).atoms))
           /\ Len(atoms(p).atoms) \in Nat
           /\ NoTwoStars(atoms(p).atoms, Len(atoms(p).atoms))
           /\ atoms(p).closed \in BOOLEAN
<1>1. PICK f : Passes(f, p) /\ atoms(p) = f[Len(p)]
  BY AtomsPass
<1>2. Len(p) \in 0 .. Len(p)
  BY TextIs
<1>3. atoms(p) \in Reading(p)
  BY <1>1, <1>2 DEF Passes
<1>4. /\ atoms(p).atoms \in Seq(Atom(p)) /\ atoms(p).closed \in BOOLEAN
      /\ NoTwoStars(atoms(p).atoms, Len(atoms(p).atoms))
  BY <1>3 DEF Reading
<1> QED BY <1>3, <1>4, LongIs

\* A pattern's first characters, that mean themselves, are its first atoms.
Special == {AnyRun, AnyOne, Opens, Escape}
Begun(p, k, f, n) ==
    /\ n <= k => f[n].at = n + 1 /\ Len(f[n].atoms) = n
    /\ \A i \in 1 .. k : i <= n => i \in DOMAIN f[n].atoms /\ f[n].atoms[i] = Char(p[i])

\* Characters that mean themselves are the first atoms.
LEMMA FirstAtoms ==
    ASSUME NEW p \in Text, NEW k \in 0 .. Len(p), \A i \in 1 .. k : p[i] \notin Special
    PROVE  /\ k <= Len(atoms(p).atoms)
           /\ \A i \in 1 .. k : atoms(p).atoms[i] = Char(p[i])
<1> DEFINE l == Len(p)
<1>0. l \in Nat /\ Long(p, l) /\ k \in Nat /\ k <= l
  BY TextIs
<1>1. PICK f : Passes(f, p) /\ atoms(p) = f[l]
  BY AtomsPass
<1> HIDE DEF l
<1>2. \A n \in 0 .. l : /\ f[n] \in Reading(p)
                        /\ f[n] = IF n = 0 THEN Unread ELSE atom_read(p, f[n - 1])
  BY <1>1 DEF Passes, l
<1> DEFINE P == {n \in 0 .. l : Begun(p, k, f, n)}
<1>3. \A n \in 0 .. l : n \in P
  <2>1. 0 \in P
    <3>1. f[0] = Unread
      BY <1>0, <1>2
    <3> QED BY <1>0, <3>1 DEF Unread, Begun
  <2>2. ASSUME NEW n \in 0 .. l - 1, n \in P PROVE n + 1 \in P
    <3>0. n \in 0 .. l /\ n + 1 \in 0 .. l /\ n + 1 # 0 /\ (n + 1) - 1 = n /\ n \in Nat
      BY <1>0
    <3> DEFINE r == f[n]
               s == r.atoms
               t == f[n + 1].atoms
    <3>1. f[n + 1] = atom_read(p, r) /\ r \in Reading(p)
      BY <1>2, <3>0
    <3>2. t = s \/ \E a \in Atom(p) : t = Append(s, a)
      BY <1>0, <3>1, AtomRead
    <3>3. s \in Seq(Atom(p))
      BY <3>1 DEF Reading
    <3>4. \A i \in DOMAIN s : i \in DOMAIN t /\ t[i] = s[i]
      <4> HIDE DEF s, t
      <4> QED BY <3>2, <3>3
    <3>5. ASSUME n + 1 <= k
          PROVE  /\ f[n + 1].at = n + 2
                 /\ Len(t) = n + 1 /\ n + 1 \in DOMAIN t /\ t[n + 1] = Char(p[n + 1])
      <4>1. r.at = n + 1 /\ Len(s) = n
        BY <1>0, <2>2, <3>0, <3>5 DEF Begun
      <4>2. n + 1 \in DOMAIN p /\ p[n + 1] \notin Special
        BY <1>0, <3>0, <3>5 DEF Long
      <4>3. f[n + 1] = pushed(r, Char(p[n + 1]), n + 2)
        <5>1. p[n + 1] # AnyRun /\ p[n + 1] # AnyOne /\ p[n + 1] # Opens /\ p[n + 1] # Escape
          BY <4>2 DEF Special
        <5>2. (n + 1) + 1 = n + 2
          BY <3>0
        <5> HIDE DEF r
        <5> QED BY <3>1, <4>1, <4>2, <5>1, <5>2 DEF atom_read
      <4>4. f[n + 1].at = n + 2 /\ t = Append(s, Char(p[n + 1]))
        BY <4>3 DEF pushed
      <4> HIDE DEF s, t
      <4> QED BY <3>0, <3>3, <4>1, <4>4
    <3>6. ASSUME NEW i \in 1 .. k, i <= n + 1
          PROVE  i \in DOMAIN t /\ t[i] = Char(p[i])
      <4>1. CASE i = n + 1
        BY <3>5, <4>1
      <4>2. CASE i <= n
        BY <2>2, <3>4, <4>2 DEF Begun
      <4> QED BY <3>0, <3>6, <4>1, <4>2
    <3>7. (n + 1) + 1 = n + 2
      BY <3>0
    <3> QED BY <3>0, <3>5, <3>6, <3>7 DEF Begun
  <2> HIDE DEF P
  <2> QED BY <1>0, <2>1, <2>2, LoopKeeps
<1>4. \A i \in 1 .. k : i \in DOMAIN atoms(p).atoms /\ atoms(p).atoms[i] = Char(p[i])
  <2>1. l \in P /\ \A i \in 1 .. k : i <= l
    BY <1>0, <1>3
  <2> QED BY <1>1, <2>1 DEF Begun
<1>5. k <= Len(atoms(p).atoms)
  <2> DEFINE m == Len(atoms(p).atoms)
  <2>1. m \in Nat /\ DOMAIN atoms(p).atoms = 1 .. m
    BY ParseIs DEF Long
  <2> HIDE DEF m
  <2>2. k # 0 => k \in 1 .. m
    BY <1>0, <1>4, <2>1
  <2> QED BY <1>0, <2>1, <2>2 DEF m
<1> QED BY <1>4, <1>5
-----------------------------------------------------------------------------
\* A beginning, and an end, by their elements.
LEMMA PrefixIs ==
    ASSUME NEW S
    PROVE  \A s, t \in Seq(S) :
              IsPrefix(s, t) <=> Len(s) <= Len(t) /\ \A i \in 1 .. Len(s) : s[i] = t[i]
<1> SUFFICES ASSUME NEW s \in Seq(S), NEW t \in Seq(S)
             PROVE  IsPrefix(s, t) <=> Len(s) <= Len(t) /\ \A i \in 1 .. Len(s) : s[i] = t[i]
  OBVIOUS
<1> DEFINE l == Len(s)
           m == Len(t)
<1>0. /\ l \in Nat /\ m \in Nat /\ DOMAIN s = 1 .. l /\ DOMAIN t = 1 .. m
      /\ s = [i \in 1 .. l |-> s[i]] /\ t = [i \in 1 .. m |-> t[i]]
  OBVIOUS
<1>1. SubSeq(s, 1, l) = [i \in 1 .. l |-> s[i]]
  OBVIOUS
<1>2. l <= m => SubSeq(t, 1, l) = [i \in 1 .. l |-> t[i]]
  OBVIOUS
<1>3. IsPrefix(s, t) <=> l <= m /\ SubSeq(s, 1, l) = SubSeq(t, 1, l)
  BY DEF IsPrefix
<1> HIDE DEF l, m
<1>4. [i \in 1 .. l |-> s[i]] = [i \in 1 .. l |-> t[i]] <=> \A i \in 1 .. l : s[i] = t[i]
  <2>1. ASSUME [i \in 1 .. l |-> s[i]] = [i \in 1 .. l |-> t[i]], NEW i \in 1 .. l PROVE s[i] = t[i]
    <3>1. [j \in 1 .. l |-> s[j]][i] = [j \in 1 .. l |-> t[j]][i]
      BY <2>1
    <3> QED BY <3>1
  <2> QED BY <2>1
<1> QED BY <1>1, <1>2, <1>3, <1>4 DEF l, m

\* A suffix, place by place.
LEMMA SuffixIs ==
    ASSUME NEW S
    PROVE  \A s, t \in Seq(S) :
              IsSuffix(s, t) <=>
                Len(s) <= Len(t) /\ \A i \in 1 .. Len(s) : s[i] = t[(Len(t) - Len(s)) + i]
<1> SUFFICES ASSUME NEW s \in Seq(S), NEW t \in Seq(S)
             PROVE  IsSuffix(s, t) <=>
                      Len(s) <= Len(t) /\ \A i \in 1 .. Len(s) : s[i] = t[(Len(t) - Len(s)) + i]
  OBVIOUS
<1> DEFINE l == Len(s)
           m == Len(t)
           rs == Reverse(s)
           rt == Reverse(t)
<1>0. l \in Nat /\ m \in Nat /\ (\A i \in 1 .. l : s[i] \in S) /\ \A i \in 1 .. m : t[i] \in S
  OBVIOUS
<1>1. rs = [i \in 1 .. l |-> s[(l - i) + 1]] /\ rt = [i \in 1 .. m |-> t[(m - i) + 1]]
  BY DEF Reverse
<1>3. IsSuffix(s, t) <=> IsPrefix(rs, rt)
  BY DEF IsSuffix
<1> HIDE DEF l, m, rs, rt
<1>2. rs \in Seq(S) /\ rt \in Seq(S) /\ Len(rs) = l /\ Len(rt) = m
  <2>1. rs \in [1 .. l -> S]
    BY <1>0, <1>1
  <2>2. rt \in [1 .. m -> S]
    BY <1>0, <1>1
  <2> QED BY <1>0, <2>1, <2>2, SeqDef
<1>4. IsPrefix(rs, rt) <=> l <= m /\ \A i \in 1 .. l : rs[i] = rt[i]
  <2>1. IsPrefix(rs, rt) <=> Len(rs) <= Len(rt) /\ \A i \in 1 .. Len(rs) : rs[i] = rt[i]
    <3>1. rs \in Seq(S) /\ rt \in Seq(S)
      BY <1>2
    <3> HIDE DEF rs, rt
    <3> QED BY <3>1, PrefixIs
  <2> QED BY <1>2, <2>1
<1>5. ASSUME l <= m
      PROVE  (\A i \in 1 .. l : rs[i] = rt[i]) <=> \A i \in 1 .. l : s[i] = t[(m - l) + i]
  <2>1. ASSUME \A i \in 1 .. l : rs[i] = rt[i], NEW i \in 1 .. l PROVE s[i] = t[(m - l) + i]
    <3>1. (l - i) + 1 \in 1 .. l /\ (l - i) + 1 \in 1 .. m
      BY <1>0, <1>5
    <3>2. rs[(l - i) + 1] = rt[(l - i) + 1]
      BY <2>1, <3>1
    <3>3. (l - ((l - i) + 1)) + 1 = i /\ (m - ((l - i) + 1)) + 1 = (m - l) + i
      BY <1>0
    <3>4. rs[(l - i) + 1] = s[i] /\ rt[(l - i) + 1] = t[(m - l) + i]
      BY <1>1, <3>1, <3>3
    <3> QED BY <3>2, <3>4
  <2>2. ASSUME \A i \in 1 .. l : s[i] = t[(m - l) + i], NEW i \in 1 .. l PROVE rs[i] = rt[i]
    <3>1. (l - i) + 1 \in 1 .. l /\ i \in 1 .. m /\ (m - l) + ((l - i) + 1) = (m - i) + 1
      BY <1>0, <1>5
    <3>2. s[(l - i) + 1] = t[(m - i) + 1]
      BY <2>2, <3>1
    <3> QED BY <1>1, <3>1, <3>2
  <2> QED BY <2>1, <2>2
<1> QED BY <1>3, <1>4, <1>5 DEF l, m

\* The part of the text that an atom has.
Part(ats, text, cut, i) ==
    \/ ats[i] = TheStar /\ cut[i - 1] <= cut[i]
    \/ ats[i] # TheStar /\ cut[i] = cut[i - 1] + 1 /\ accepts(ats[i], text[cut[i]])

Parts(ats, n, text, m, cut) ==
    cut \in [0 .. n -> 0 .. m] /\ cut[0] = 0 /\ cut[n] = m /\ \A i \in 1 .. n : Part(ats, text, cut, i)

\* A text is shared out among atoms where cuts say.
LEMMA SharedIs ==
    ASSUME NEW ats, NEW n \in Nat, Long(ats, n), NEW text, NEW m \in Nat, Long(text, m)
    PROVE  Shared(ats, text) <=>
             \E cut : Parts(ats, n, text, m, cut)
  BY DEF Shared, Part, Parts, Long

\* A character is no star.
LEMMA CharIs == (\A c : Char(c).is = "char" /\ Char(c).c = c) /\ TheStar.is = "star"
  BY DEF Char, TheStar

\* Literal atoms have a character each, the one they name.
Literals(ats, a, b) == \A i \in a + 1 .. b : ats[i].is = "char"
Along(ats, text, cut, a, b) ==
    /\ \A i \in a .. b : cut[i] = cut[a] + (i - a)
    /\ \A i \in a + 1 .. b : text[cut[a] + (i - a)] = ats[i].c

\* Characters that follow one another lie along the text.
LEMMA LiteralRun ==
    \A ats, text, cut : \A n, m \in Nat : \A a, b \in 0 .. n :
       Parts(ats, n, text, m, cut) /\ Literals(ats, a, b) => Along(ats, text, cut, a, b)
<1> SUFFICES ASSUME NEW ats, NEW text, NEW cut, NEW n \in Nat, NEW m \in Nat, NEW a \in 0 .. n, NEW b \in 0 .. n,
                    Parts(ats, n, text, m, cut), Literals(ats, a, b)
             PROVE  Along(ats, text, cut, a, b)
  OBVIOUS
<1>0. cut \in [0 .. n -> 0 .. m]
  BY DEF Parts
<1>1. \A i \in a + 1 .. b : cut[i] = cut[i - 1] + 1 /\ ats[i].c = text[cut[i]]
  <2> SUFFICES ASSUME NEW i \in a + 1 .. b PROVE cut[i] = cut[i - 1] + 1 /\ ats[i].c = text[cut[i]]
    OBVIOUS
  <2>1. ats[i].is = "char" /\ Part(ats, text, cut, i)
    <3>1. i \in 1 .. n
      OBVIOUS
    <3> QED BY <3>1 DEF Parts, Literals
  <2>2. ats[i] # TheStar
    BY <2>1, CharIs
  <2>3. accepts(ats[i], text[cut[i]]) <=> ats[i].c = text[cut[i]]
    BY <2>1 DEF accepts
  <2> QED BY <2>1, <2>2, <2>3 DEF Part
<1> DEFINE P == {k \in Nat : a + k <= b => cut[a + k] = cut[a] + k}
<1>2. \A k \in Nat : k \in P
  <2>1. 0 \in P
    BY <1>0
  <2>2. ASSUME NEW k \in Nat, k \in P PROVE k + 1 \in P
    <3> SUFFICES ASSUME a + (k + 1) <= b PROVE cut[a + (k + 1)] = cut[a] + (k + 1)
      OBVIOUS
    <3>1. a + (k + 1) \in a + 1 .. b /\ (a + (k + 1)) - 1 = a + k
      OBVIOUS
    <3>2. cut[a + (k + 1)] = cut[a + k] + 1
      BY <1>1, <3>1
    <3>3. cut[a + k] = cut[a] + k /\ cut[a] \in Nat
      BY <1>0, <2>2
    <3> QED BY <3>2, <3>3
  <2> HIDE DEF P
  <2>3. Nat \subseteq P
    BY <2>1, <2>2, SetInduction
  <2> QED BY <2>3
<1>3. ASSUME NEW i \in a .. b PROVE cut[i] = cut[a] + (i - a)
  <2>1. i - a \in Nat /\ a + (i - a) = i
    OBVIOUS
  <2>2. i - a \in P
    BY <1>2, <2>1
  <2> QED BY <2>1, <2>2
<1>4. \A i \in a + 1 .. b : text[cut[a] + (i - a)] = ats[i].c
  <2> SUFFICES ASSUME NEW i \in a + 1 .. b PROVE text[cut[a] + (i - a)] = ats[i].c
    OBVIOUS
  <2>1. i \in a .. b
    OBVIOUS
  <2> QED BY <1>1, <1>3, <2>1
<1> QED BY <1>3, <1>4 DEF Along

\* A pattern matches only what starts as it does.
LEMMA StartsWith ==
    ASSUME NEW p \in Text, NEW t \in Text
    PROVE  /\ literal_prefix(p) \in Text
           /\ Means(p, t) => IsPrefix(literal_prefix(p), t)
<1> DEFINE special == {i \in DOMAIN p : p[i] \in {AnyRun, AnyOne, Opens, Escape}}
           start == literal_prefix(p)
           l == Len(p)
<1>0. l \in Nat /\ Long(p, l) /\ DOMAIN p = 1 .. l
  BY TextIs
<1>1. PICK k \in 0 .. l : /\ start = SubSeq(p, 1, k)
                          /\ \A i \in 1 .. k : p[i] \notin Special
  <2>1. CASE special = {}
    <3>1. start = p
      BY <2>1 DEF literal_prefix
    <3>2. p = SubSeq(p, 1, l)
      BY DEF Text
    <3>3. \A i \in 1 .. l : p[i] \notin Special
      BY <1>0, <2>1 DEF Special
    <3>4. l \in 0 .. l
      BY <1>0
    <3> QED BY <3>1, <3>2, <3>3, <3>4
  <2>2. CASE special # {}
    <3>1. start = SubSeq(p, 1, Min(special) - 1)
      BY <2>2 DEF literal_prefix
    <3>2. \E x \in special : \A y \in special : x <= y
      <4>1. special \in SUBSET Nat
        BY <1>0
      <4> HIDE DEF special
      <4> QED BY <2>2, <4>1, LeastOf
    <3>3. Min(special) \in special /\ \A y \in special : Min(special) <= y
      BY <3>2 DEF Min
    <3> DEFINE k == Min(special)
    <3> HIDE DEF k
    <3>4. k \in 1 .. l /\ k - 1 \in 0 .. l
      BY <1>0, <3>3 DEF k
    <3>5. ASSUME NEW i \in 1 .. k - 1 PROVE p[i] \notin Special
      <4>1. i \in 1 .. l /\ ~(k <= i)
        BY <1>0, <3>4
      <4>2. i \notin special
        BY <3>3, <4>1 DEF k
      <4> QED BY <1>0, <4>1, <4>2 DEF Special
    <3> QED BY <3>1, <3>4, <3>5 DEF k
  <2> QED BY <2>1, <2>2
<1>2. start \in Text /\ Len(start) = k /\ \A i \in 1 .. k : start[i] = p[i]
  <2> HIDE DEF start
  <2>1. SubSeq(p, 1, k) \in Seq(Nat) /\ Len(SubSeq(p, 1, k)) = k /\ \A i \in 1 .. k : SubSeq(p, 1, k)[i] = p[i]
    BY <1>0 DEF Text
  <2> QED BY <1>1, <2>1 DEF Text
<1>3. ASSUME Means(p, t) PROVE IsPrefix(start, t)
  <2> DEFINE ats == atoms(p).atoms
             n == Len(ats)
             m == Len(t)
  <2>1. n \in Nat /\ Long(ats, n) /\ m \in Nat /\ Long(t, m)
    BY ParseIs, TextIs
  <2>2. Shared(ats, t)
    BY <1>3 DEF Means
  <2>3. k <= n /\ \A i \in 1 .. k : ats[i] = Char(p[i])
    BY <1>1, FirstAtoms
  <2> HIDE DEF ats, n, m
  <2>4. PICK cut : Parts(ats, n, t, m, cut)
    BY <2>1, <2>2, SharedIs
  <2>5. Along(ats, t, cut, 0, k)
    <3>1. 0 \in 0 .. n /\ k \in 0 .. n
      BY <2>1, <2>3
    <3>2. Literals(ats, 0, k)
      BY <2>3, CharIs DEF Literals
    <3> QED BY <2>1, <2>4, <3>1, <3>2, LiteralRun
  <2>6. k <= m
    <3>1. cut[k] = k /\ cut[k] \in 0 .. m
      BY <2>1, <2>3, <2>4, <2>5 DEF Parts, Along
    <3> QED BY <2>1, <3>1
  <2>7. \A i \in 1 .. k : t[i] = p[i]
    <3> SUFFICES ASSUME NEW i \in 1 .. k PROVE t[i] = p[i]
      OBVIOUS
    <3>1. cut[0] + (i - 0) = i /\ i \in 0 + 1 .. k
      BY <2>4 DEF Parts
    <3>2. t[i] = ats[i].c
      BY <2>5, <3>1 DEF Along
    <3> QED BY <2>3, <3>2, CharIs
  <2> HIDE DEF start
  <2> QED BY <1>2, <2>6, <2>7, PrefixIs DEF Text, m
<1> QED BY <1>2, <1>3
-----------------------------------------------------------------------------
(***************************************************************************)
(* The quick ways to match.                                                *)
(***************************************************************************)
\* The atoms from h + 1 to b name the characters after q.
Named(ats, text, h, b, q) == \A i \in 1 .. b - h : text[q + i] = ats[h + i].c
Between(ats, text, m, h, b, q) == q + (b - h) <= m /\ Named(ats, text, h, b, q)

Sharing(ats, text, n, m, h, b) ==
    \E q \in 0 .. m : /\ h = 0 => q = 0
                      /\ b = n => q + (b - h) = m
                      /\ Between(ats, text, m, h, b, q)

\* Literal atoms, and a star before them, after them or both.
LEMMA SharedBetween ==
    ASSUME NEW ats, NEW n \in Nat, Long(ats, n), NEW text, NEW m \in Nat, Long(text, m),
           NEW h \in {0, 1}, NEW b \in {n - 1, n}, h <= b, Literals(ats, h, b),
           h = 1 => ats[1] = TheStar, b = n - 1 => ats[n] = TheStar
    PROVE  Shared(ats, text) <=> Sharing(ats, text, n, m, h, b)
<1>0. h \in 0 .. n /\ b \in 0 .. n /\ h \in Nat /\ b \in Nat
  OBVIOUS
<1>1. ASSUME Shared(ats, text)
      PROVE  \E q \in 0 .. m : /\ h = 0 => q = 0
                               /\ b = n => q + (b - h) = m
                               /\ Between(ats, text, m, h, b, q)
  <2>1. PICK cut : Parts(ats, n, text, m, cut)
    BY <1>1, SharedIs
  <2>2. Along(ats, text, cut, h, b)
    BY <1>0, <2>1, LiteralRun
  <2> DEFINE q == cut[h]
  <2>3. q \in 0 .. m /\ (h = 0 => q = 0)
    BY <1>0, <2>1 DEF Parts
  <2>4. cut[b] = q + (b - h) /\ cut[b] \in 0 .. m /\ (b = n => cut[b] = m)
    BY <1>0, <2>1, <2>2 DEF Parts, Along
  <2>5. ASSUME NEW i \in 1 .. b - h PROVE text[q + i] = ats[h + i].c
    <3>1. h + i \in h + 1 .. b /\ (h + i) - h = i
      BY <1>0
    <3>2. text[q + ((h + i) - h)] = ats[h + i].c
      BY <2>2, <3>1 DEF Along
    <3> QED BY <3>1, <3>2
  <2> QED BY <2>3, <2>4, <2>5 DEF Between, Named
<1>2. ASSUME NEW q \in 0 .. m, h = 0 => q = 0, b = n => q + (b - h) = m, Between(ats, text, m, h, b, q)
      PROVE  Shared(ats, text)
  <2> DEFINE at(x) == IF x < h THEN 0 ELSE IF x <= b THEN q + (x - h) ELSE m
             cut == [x \in 0 .. n |-> at(x)]
  <2>0. q + (b - h) <= m /\ Named(ats, text, h, b, q)
    BY <1>2 DEF Between
  <2>1. \A x \in 0 .. n : at(x) \in 0 .. m
    BY <1>0, <2>0
  <2>2. cut \in [0 .. n -> 0 .. m] /\ \A x \in 0 .. n : cut[x] = at(x)
    BY <2>1
  <2>3. cut[0] = 0
    BY <1>0, <1>2, <2>2
  <2>4. cut[n] = m
    BY <1>0, <1>2, <2>2
  <2> HIDE DEF cut
  <2>5. ASSUME NEW x \in 1 .. n PROVE Part(ats, text, cut, x)
    <3>0. x \in 0 .. n /\ x - 1 \in 0 .. n /\ cut[x] = at(x) /\ cut[x - 1] = at(x - 1)
      BY <2>2
    <3>1. CASE x <= h
      <4>1. x = 1 /\ h = 1 /\ x - 1 = 0
        BY <3>1
      <4>2. cut[x - 1] <= cut[x]
        BY <2>1, <2>2, <2>3, <3>0, <4>1
      <4> QED BY <4>1, <4>2 DEF Part
    <3>2. CASE h < x /\ x <= b
      <4>1. cut[x] = q + (x - h) /\ cut[x - 1] = q + ((x - 1) - h) /\ cut[x] = cut[x - 1] + 1
        BY <1>0, <3>0, <3>2
      <4>2. ats[x].is = "char"
        BY <1>0, <3>2 DEF Literals
      <4>3. x - h \in 1 .. b - h /\ h + (x - h) = x
        BY <1>0, <3>2
      <4>4. text[cut[x]] = ats[x].c
        BY <2>0, <4>1, <4>3 DEF Named
      <4>5. ats[x] # TheStar
        BY <4>2, CharIs
      <4>6. accepts(ats[x], text[cut[x]])
        BY <4>2, <4>4 DEF accepts
      <4> QED BY <4>1, <4>5, <4>6 DEF Part
    <3>3. CASE b < x
      <4>1. x = n /\ b = n - 1
        BY <1>0, <3>3
      <4>2. cut[x - 1] <= cut[x]
        BY <2>1, <2>4, <3>0, <4>1
      <4> QED BY <4>1, <4>2 DEF Part
    <3> QED BY <1>0, <3>1, <3>2, <3>3
  <2>6. Parts(ats, n, text, m, cut)
    BY <2>2, <2>3, <2>4, <2>5 DEF Parts
  <2> QED BY <2>6, SharedIs
<1> QED BY <1>1, <1>2 DEF Sharing

\* The atoms between.
CharsOf(ats, h, b) == [i \in 1 .. b - h |-> ats[h + i].c]

\* The middle of a pattern between its stars, if literal, is its characters
\* (glob.rs classify).
LEMMA InnerIs ==
    ASSUME NEW A, NEW ats \in Seq(A)
    PROVE  \A h \in {0, 1}, b \in {Len(ats) - 1, Len(ats)} :
              h <= b =>
                 /\ literal(SubSeq(ats, h + 1, b)) <=> Literals(ats, h, b)
                 /\ chars(SubSeq(ats, h + 1, b)) = CharsOf(ats, h, b)
<1> SUFFICES ASSUME NEW h \in {0, 1}, NEW b \in {Len(ats) - 1, Len(ats)}, h <= b
             PROVE  /\ literal(SubSeq(ats, h + 1, b)) <=> Literals(ats, h, b)
                    /\ chars(SubSeq(ats, h + 1, b)) = CharsOf(ats, h, b)
  OBVIOUS
<1> DEFINE s == SubSeq(ats, h + 1, b)
<1>0. Len(ats) \in Nat /\ h \in Nat /\ b \in Nat
  OBVIOUS
<1>1. s = [i \in 1 .. b - h |-> ats[h + i]]
  <2>1. s = [i \in 1 .. (b - (h + 1)) + 1 |-> ats[((h + 1) + i) - 1]]
    BY <1>0
  <2>2. (b - (h + 1)) + 1 = b - h /\ \A i \in 1 .. b - h : ((h + 1) + i) - 1 = h + i
    BY <1>0
  <2> QED BY <2>1, <2>2
<1>2. Len(s) = b - h /\ DOMAIN s = 1 .. b - h
  <2>1. DOMAIN s = 1 .. b - h
    BY <1>1
  <2>2. Len(s) = b - h
    BY <1>0
  <2> QED BY <2>1, <2>2
<1> HIDE DEF s
<1>3. literal(s) <=> \A i \in 1 .. b - h : ats[h + i].is = "char"
  BY <1>1, <1>2 DEF literal
<1>4. (\A i \in 1 .. b - h : ats[h + i].is = "char") <=> Literals(ats, h, b)
  <2>1. ASSUME \A i \in 1 .. b - h : ats[h + i].is = "char", NEW x \in h + 1 .. b PROVE ats[x].is = "char"
    <3>1. x - h \in 1 .. b - h /\ h + (x - h) = x
      BY <1>0
    <3> QED BY <2>1, <3>1
  <2>2. ASSUME Literals(ats, h, b), NEW i \in 1 .. b - h PROVE ats[h + i].is = "char"
    <3>1. h + i \in h + 1 .. b
      BY <1>0
    <3> QED BY <2>2, <3>1 DEF Literals
  <2> QED BY <2>1, <2>2 DEF Literals
<1>5. chars(s) = [i \in 1 .. b - h |-> ats[h + i].c]
  BY <1>1, <1>2 DEF chars
<1> QED BY <1>3, <1>4, <1>5 DEF s, CharsOf
-----------------------------------------------------------------------------
\* What literal atoms between q and the end of them say of the text.
LEMMA WholeIs ==
    ASSUME NEW ats, NEW n \in Nat, NEW text, NEW m \in Nat, Long(text, m), text = [i \in 1 .. m |-> text[i]]
    PROVE  text = [i \in 1 .. n |-> ats[i].c] <=> n = m /\ Between(ats, text, m, 0, n, 0)
<1> DEFINE s == [i \in 1 .. n |-> ats[i].c]
<1>1. ASSUME text = s PROVE n = m /\ Between(ats, text, m, 0, n, 0)
  <2>1. 1 .. n = 1 .. m
    <3>1. DOMAIN text = 1 .. n
      BY <1>1
    <3> QED BY <3>1 DEF Long
  <2>2. n = m
    BY <2>1
  <2>3. \A i \in 1 .. n - 0 : text[0 + i] = ats[0 + i].c
    BY <1>1
  <2> QED BY <2>2, <2>3 DEF Between, Named
<1>2. ASSUME n = m, Between(ats, text, m, 0, n, 0) PROVE text = s
  <2>1. \A i \in 1 .. n : text[i] = ats[i].c
    <3> SUFFICES ASSUME NEW i \in 1 .. n PROVE text[i] = ats[i].c
      OBVIOUS
    <3>1. i \in 1 .. n - 0 /\ 0 + i = i
      OBVIOUS
    <3>2. text[0 + i] = ats[0 + i].c
      BY <1>2, <3>1 DEF Between, Named
    <3> QED BY <3>1, <3>2
  <2> QED BY <1>2, <2>1
<1> QED BY <1>1, <1>2

\* The characters of atoms h + 1 to b are s.
Spelt(s, ats, h, b) == s = CharsOf(ats, h, b)

\* What starts, ends or occurs in a text is characters at a place.
LEMMA OccursIs ==
    ASSUME NEW S, NEW text \in Seq(S), NEW s \in Seq(S), NEW ats, NEW h \in Nat, NEW b \in Nat, h <= b,
           Spelt(s, ats, h, b)
    PROVE  /\ Occurs(text, s) <=> \E q \in 0 .. Len(text) : Between(ats, text, Len(text), h, b, q)
           /\ EndsWith(text, s) <=> \E q \in 0 .. Len(text) :
                                       q + (b - h) = Len(text) /\ Between(ats, text, Len(text), h, b, q)
           /\ IsPrefix(s, text) <=> Between(ats, text, Len(text), h, b, 0)
<1> DEFINE m == Len(text)
           l == b - h
<1>0. m \in Nat /\ l \in Nat /\ Len(s) = l /\ \A i \in 1 .. l : s[i] = ats[h + i].c
  <2>1. m \in Nat /\ l \in Nat
    OBVIOUS
  <2>2. DOMAIN s = 1 .. l /\ \A i \in 1 .. l : s[i] = ats[h + i].c
    BY DEF Spelt, CharsOf
  <2>3. DOMAIN s = 1 .. Len(s) /\ Len(s) \in Nat
    BY LenProperties
  <2>4. Len(s) = l
    <3> HIDE DEF l
    <3>1. 1 .. l = 1 .. Len(s)
      BY <2>2, <2>3
    <3> DEFINE k == Len(s)
    <3>2. k \in Nat /\ l \in Nat /\ 1 .. l = 1 .. k
      BY <2>1, <2>3, <3>1
    <3> HIDE DEF k
    <3>3. k = l
      BY <3>2
    <3> QED BY <3>3 DEF k
  <2> QED BY <2>1, <2>2, <2>4
<1>1. \A q : Between(ats, text, m, h, b, q) <=> q + l <= m /\ \A i \in 1 .. l : text[q + i] = s[i]
  BY <1>0 DEF Between, Named
<1>2. ASSUME NEW q \in 0 .. m - l
      PROVE  SubSeq(text, q + 1, q + l) = s <=> \A i \in 1 .. l : text[q + i] = s[i]
  <2> HIDE DEF m, l
  <2>1. /\ SubSeq(text, q + 1, q + l) \in Seq(S)
        /\ Len(SubSeq(text, q + 1, q + l)) = l
        /\ \A i \in 1 .. l : SubSeq(text, q + 1, q + l)[i] = text[q + i]
    <3>1. q + 1 \in 1 .. m + 1 /\ q + l \in 0 .. m /\ ((q + l) - (q + 1)) + 1 = l
      BY <1>0
    <3> DEFINE x == q + 1
               y == q + l
    <3> HIDE DEF x, y
    <3>2. x \in Nat /\ y \in Nat /\ x - 1 <= y /\ y <= Len(text)
      BY <1>0, <3>1 DEF x, y, m
    <3>3. /\ SubSeq(text, x, y) \in Seq(S)
          /\ Len(SubSeq(text, x, y)) = (y - x) + 1
          /\ \A i \in 1 .. (y - x) + 1 : SubSeq(text, x, y)[i] = text[(x + i) - 1]
      <4>1. x \in Int /\ y \in Int /\ (x <= y \/ (y - x) + 1 = 0) /\ \A i \in x .. y : text[i] \in S
        BY <3>1, <3>2 DEF x
      <4>2. /\ SubSeq(text, x, y) \in Seq(S)
            /\ Len(SubSeq(text, x, y)) = IF x <= y THEN y - x + 1 ELSE 0
            /\ \A i \in 1 .. y - x + 1 : SubSeq(text, x, y)[i] = text[x + i - 1]
        BY <4>1, SubSeqProperties
      <4> QED BY <3>2, <4>1, <4>2
    <3>4. (y - x) + 1 = l /\ \A i \in 1 .. l : (x + i) - 1 = q + i
      BY <1>0 DEF x, y
    <3> QED BY <3>3, <3>4 DEF x, y
  <2>2. SubSeq(text, q + 1, q + l) = s <=> \A i \in 1 .. l : SubSeq(text, q + 1, q + l)[i] = s[i]
    BY <1>0, <2>1, SeqEqual
  <2> QED BY <2>1, <2>2
<1>3. Occurs(text, s) <=> \E q \in 0 .. m : Between(ats, text, m, h, b, q)
  <2>1. Occurs(text, s) <=> \E q \in 0 .. m - l : SubSeq(text, q + 1, q + l) = s
    BY <1>0 DEF Occurs
  <2>2. \A q \in 0 .. m : q + l <= m <=> q \in 0 .. m - l
    BY <1>0
  <2>3. \A q \in 0 .. m - l : q \in 0 .. m
    BY <1>0
  <2> HIDE DEF m, l
  <2> QED BY <1>1, <1>2, <2>1, <2>2, <2>3
<1>4. EndsWith(text, s) <=> \E q \in 0 .. m : q + l = m /\ Between(ats, text, m, h, b, q)
  <2>1. EndsWith(text, s) <=> l <= m /\ \A i \in 1 .. l : s[i] = text[(m - l) + i]
    <3>1. EndsWith(text, s) <=>
            Len(s) <= Len(text) /\ \A i \in 1 .. Len(s) : s[i] = text[(Len(text) - Len(s)) + i]
      BY SuffixIs DEF EndsWith
    <3> QED BY <1>0, <3>1
  <2>2. l <= m => m - l \in 0 .. m /\ (m - l) + l = m
    BY <1>0
  <2>3. \A q \in 0 .. m : q + l = m => q = m - l /\ l <= m
    BY <1>0
  <2> HIDE DEF m, l
  <2>4. ASSUME EndsWith(text, s) PROVE \E q \in 0 .. m : q + l = m /\ Between(ats, text, m, h, b, q)
    <3>1. m - l \in 0 .. m /\ (m - l) + l = m /\ \A i \in 1 .. l : s[i] = text[(m - l) + i]
      BY <2>1, <2>2, <2>4
    <3>2. (m - l) + l <= m
      BY <1>0, <3>1
    <3>3. Between(ats, text, m, h, b, m - l)
      BY <1>1, <3>1, <3>2
    <3> QED BY <3>1, <3>3
  <2>5. ASSUME NEW q \in 0 .. m, q + l = m, Between(ats, text, m, h, b, q) PROVE EndsWith(text, s)
    <3>1. q = m - l /\ l <= m
      BY <2>3, <2>5
    <3>2. \A i \in 1 .. l : text[q + i] = s[i]
      BY <1>1, <2>5
    <3> QED BY <2>1, <3>1, <3>2
  <2> QED BY <2>4, <2>5
<1>5. IsPrefix(s, text) <=> Between(ats, text, m, h, b, 0)
  <2>1. IsPrefix(s, text) <=> l <= m /\ \A i \in 1 .. l : s[i] = text[i]
    <3>1. IsPrefix(s, text) <=> Len(s) <= Len(text) /\ \A i \in 1 .. Len(s) : s[i] = text[i]
      BY PrefixIs
    <3> QED BY <1>0, <3>1
  <2>2. \A i \in 1 .. l : 0 + i = i
    OBVIOUS
  <2>3. 0 + l = l
    BY <1>0
  <2> HIDE DEF m, l
  <2> QED BY <1>1, <2>1, <2>2, <2>3
<1> QED BY <1>3, <1>4, <1>5
-----------------------------------------------------------------------------
\* How a pattern is matched, by its atoms.
Matched(ats, text) ==
    LET head == ats # <<>> /\ Head(ats) = TheStar
        tail == ats # <<>> /\ Last(ats) = TheStar
        inner == SubSeq(ats, IF head THEN 2 ELSE 1, Len(ats) - (IF tail THEN 1 ELSE 0))
    IN  CASE ats = <<TheStar>> -> TRUE
          [] literal(ats) -> text = chars(ats)
          [] ~literal(ats) /\ Len(ats) >= 2 /\ literal(inner) ->
               CASE head /\ tail -> Occurs(text, chars(inner))
                 [] head /\ ~tail -> EndsWith(text, chars(inner))
                 [] OTHER -> IsPrefix(chars(inner), text)
          [] OTHER -> run(ats, text)

\* The quick ways to match, and the automaton, find what sharing out means
\* (glob.rs Glob::matches).
LEMMA MatchedIs ==
    ASSUME NEW A, NEW ats \in Seq(A), NoTwoStars(ats, Len(ats)), NEW text \in Text
    PROVE  Matched(ats, text) <=> Shared(ats, text)
<1> DEFINE n == Len(ats)
           m == Len(text)
           head == ats # <<>> /\ Head(ats) = TheStar
           tail == ats # <<>> /\ Last(ats) = TheStar
           h == IF head THEN 1 ELSE 0
           b == IF tail THEN n - 1 ELSE n
           inner == SubSeq(ats, h + 1, b)
           S == Nat \cup {ats[i].c : i \in 1 .. n}
<1>0. n \in Nat /\ Long(ats, n) /\ DOMAIN ats = 1 .. n /\ (ats = <<>> <=> n = 0)
  BY LongIs
<1>1. m \in Nat /\ Long(text, m) /\ text = [i \in 1 .. m |-> text[i]] /\ text \in Seq(S) /\ \A i \in 1 .. m : text[i] \in Nat
  <2>1. text \in Seq(Nat) /\ Nat \subseteq S
    BY DEF Text
  <2>2. text \in Seq(S)
    <3> HIDE DEF S
    <3> QED BY <2>1, SeqMonotonic
  <2> QED BY <2>2, TextIs
<1>2. /\ head <=> n >= 1 /\ ats[1] = TheStar
      /\ tail <=> n >= 1 /\ ats[n] = TheStar
  <2>1. ats # <<>> => Head(ats) = ats[1]
    OBVIOUS
  <2>2. Last(ats) = ats[n]
    BY DEF Last
  <2>3. ats # <<>> <=> n >= 1
    BY <1>0
  <2> HIDE DEF n
  <2> QED BY <2>1, <2>2, <2>3
<1>3. /\ h \in {0, 1} /\ b \in {n - 1, n} /\ h \in Nat
      /\ h = 1 => ats[1] = TheStar
      /\ b = n - 1 => ats[n] = TheStar
      /\ h = 1 <=> head
      /\ b = n - 1 <=> tail
      /\ (IF head THEN 2 ELSE 1) = h + 1
      /\ n - (IF tail THEN 1 ELSE 0) = b
  <2> HIDE DEF head, tail, n
  <2>0. n # n - 1 /\ 0 # 1 /\ 1 + 1 = 2 /\ 0 + 1 = 1 /\ n - 0 = n
    BY <1>0
  <2>1. CASE tail
    BY <1>2, <2>0, <2>1
  <2>2. CASE ~tail
    BY <1>2, <2>0, <2>2
  <2> QED BY <2>1, <2>2
<1>4. Matched(ats, text) <=>
        CASE ats = <<TheStar>> -> TRUE
          [] literal(ats) -> text = chars(ats)
          [] ~literal(ats) /\ n >= 2 /\ literal(inner) ->
               CASE head /\ tail -> Occurs(text, chars(inner))
                 [] head /\ ~tail -> EndsWith(text, chars(inner))
                 [] OTHER -> IsPrefix(chars(inner), text)
          [] OTHER -> run(ats, text)
  BY <1>3 DEF Matched
<1> HIDE DEF n, m, head, tail, h, b, S
<1>9. literal(ats) => ats # <<TheStar>>
  <2> SUFFICES ASSUME ats = <<TheStar>>, literal(ats) PROVE FALSE
    OBVIOUS
  <2>1. 1 \in DOMAIN ats /\ ats[1] = TheStar
    OBVIOUS
  <2> QED BY <2>1, CharIs DEF literal
<1>5. CASE ats = <<TheStar>>
  <2>1. Matched(ats, text)
    BY <1>4, <1>5, <1>9 DEF n
  <2>2. n = 1 /\ ats[1] = TheStar
    BY <1>5 DEF n
  <2> DEFINE cut == [x \in 0 .. 1 |-> IF x = 0 THEN 0 ELSE m]
  <2>3. Parts(ats, 1, text, m, cut)
    BY <1>1, <2>2 DEF Parts, Part
  <2> QED BY <1>0, <1>1, <2>1, <2>2, <2>3, SharedIs
<1>6. CASE ats # <<TheStar>> /\ literal(ats)
  <2>1. Matched(ats, text) <=> text = chars(ats)
    BY <1>4, <1>6
  <2>2. chars(ats) = [i \in 1 .. n |-> ats[i].c] /\ \A i \in 1 .. n : ats[i].is = "char"
    BY <1>0, <1>6 DEF chars, literal
  <2>3. Literals(ats, 0, n)
    BY <1>0, <2>2 DEF Literals
  <2>4. text = [i \in 1 .. n |-> ats[i].c] <=> n = m /\ Between(ats, text, m, 0, n, 0)
    BY <1>0, <1>1, WholeIs
  <2>5. Shared(ats, text) <=>
          \E q \in 0 .. m : q = 0 /\ q + (n - 0) = m /\ Between(ats, text, m, 0, n, q)
    <3>1. 0 \in {0, 1} /\ n \in {n - 1, n} /\ 0 <= n /\ 0 # 1 /\ n # n - 1
      BY <1>0
    <3>2. Shared(ats, text) <=> Sharing(ats, text, n, m, 0, n)
      BY <1>0, <1>1, <2>3, <3>1, SharedBetween
    <3> QED BY <3>2 DEF Sharing
  <2>6. 0 \in 0 .. m /\ 0 + (n - 0) = n
    BY <1>0, <1>1
  <2> QED BY <2>1, <2>2, <2>4, <2>5, <2>6
<1>7. CASE ats # <<TheStar>> /\ ~literal(ats) /\ n >= 2 /\ literal(inner)
  <2>0. h <= b /\ b \in Nat /\ b - h \in Nat
    BY <1>0, <1>3, <1>7
  <2>1. /\ literal(inner) <=> Literals(ats, h, b)
        /\ chars(inner) = [i \in 1 .. b - h |-> ats[h + i].c]
    <3>1. h \in {0, 1} /\ b \in {Len(ats) - 1, Len(ats)} /\ h <= b
      BY <1>3, <2>0 DEF n
    <3> HIDE DEF inner
    <3>2. /\ literal(SubSeq(ats, h + 1, b)) <=> Literals(ats, h, b)
          /\ chars(SubSeq(ats, h + 1, b)) = CharsOf(ats, h, b)
      BY <3>1, InnerIs
    <3> QED BY <3>2 DEF inner, CharsOf
  <2>2. Shared(ats, text) <=> \E q \in 0 .. m : /\ h = 0 => q = 0
                                                /\ b = n => q + (b - h) = m
                                                /\ Between(ats, text, m, h, b, q)
    <3>1. Literals(ats, h, b)
      BY <1>7, <2>1
    <3>2. Shared(ats, text) <=> Sharing(ats, text, n, m, h, b)
      <4>1. /\ n \in Nat /\ Long(ats, n) /\ m \in Nat /\ Long(text, m)
            /\ h \in {0, 1} /\ b \in {n - 1, n} /\ h <= b
        BY <1>0, <1>1, <1>3, <2>0
      <4>2. (h = 1 => ats[1] = TheStar) /\ (b = n - 1 => ats[n] = TheStar)
        BY <1>3
      <4> QED BY <3>1, <4>1, <4>2, SharedBetween
    <3> QED BY <3>2 DEF Sharing
  <2>3. chars(inner) \in Seq(S)
    <3>1. \A i \in 1 .. b - h : ats[h + i].c \in S
      <4> SUFFICES ASSUME NEW i \in 1 .. b - h PROVE ats[h + i].c \in S
        OBVIOUS
      <4>1. h + i \in 1 .. n
        BY <1>0, <1>3, <2>0
      <4> QED BY <4>1 DEF S
    <3>2. chars(inner) \in [1 .. b - h -> S]
      BY <2>1, <3>1
    <3> QED BY <2>0, <3>2, SeqDef
  <2> DEFINE w == chars(inner)
  <2> HIDE DEF w
  <2>4. /\ Occurs(text, w) <=> \E q \in 0 .. m : Between(ats, text, m, h, b, q)
        /\ EndsWith(text, w) <=> \E q \in 0 .. m : q + (b - h) = m /\ Between(ats, text, m, h, b, q)
        /\ IsPrefix(w, text) <=> Between(ats, text, m, h, b, 0)
    <3>1. w \in Seq(S) /\ Spelt(w, ats, h, b)
      BY <2>1, <2>3 DEF w, Spelt, CharsOf
    <3> QED BY <1>1, <1>3, <2>0, <3>1, OccursIs DEF m
  <2>5. Matched(ats, text) <=>
          CASE head /\ tail -> Occurs(text, w)
            [] head /\ ~tail -> EndsWith(text, w)
            [] OTHER -> IsPrefix(w, text)
    BY <1>4, <1>7 DEF w
  <2>6. CASE head /\ tail
    <3>1. Matched(ats, text) <=> Occurs(text, w)
      BY <2>5, <2>6
    <3>2. h # 0 /\ b # n
      BY <1>0, <1>3, <2>6
    <3> QED BY <2>2, <2>4, <3>1, <3>2
  <2>7. CASE head /\ ~tail
    <3>1. Matched(ats, text) <=> EndsWith(text, w)
      BY <2>5, <2>7
    <3>2. h # 0 /\ b = n
      BY <1>0, <1>3, <2>7
    <3> QED BY <2>2, <2>4, <3>1, <3>2
  <2>8. CASE ~head
    <3>1. Matched(ats, text) <=> IsPrefix(w, text)
      BY <2>5, <2>8
    <3>2. h = 0
      BY <1>3, <2>8
    <3>3. tail
      <4> SUFFICES ASSUME ~tail PROVE FALSE
        OBVIOUS
      <4>1. b = n
        BY <1>3
      <4>2. Literals(ats, 0, n)
        BY <1>7, <2>1, <3>2, <4>1
      <4>3. \A i \in 1 .. n : ats[i].is = "char"
        BY <4>2 DEF Literals
      <4> QED BY <1>0, <1>7, <4>3 DEF literal
    <3>4. b # n /\ 0 \in 0 .. m
      BY <1>0, <1>1, <1>3, <3>3
    <3> QED BY <2>2, <2>4, <3>1, <3>2, <3>4
  <2> QED BY <2>6, <2>7, <2>8
<1>8. CASE ats # <<TheStar>> /\ ~literal(ats) /\ ~(n >= 2 /\ literal(inner))
  <2>1. Matched(ats, text) <=> run(ats, text)
    BY <1>4, <1>8
  <2>2. NoTwoStars(ats, n)
    BY DEF n
  <2> QED BY <1>0, <1>1, <2>1, <2>2, RunIs
<1> QED BY <1>5, <1>6, <1>7, <1>8

\* The cheap ways to match, and the automaton, come to what the pattern means, for
\* any pattern and any text.
THEOREM MatchesMeans ==
    ASSUME NEW p \in Text, NEW t \in Text
    PROVE  matches(p, t) <=> Means(p, t)
<1>1. matches(p, t) <=> atoms(p).closed /\ Matched(atoms(p).atoms, t)
  BY DEF matches, Matched
<1>2. Matched(atoms(p).atoms, t) <=> Shared(atoms(p).atoms, t)
  BY ParseIs, MatchedIs
<1> QED BY <1>1, <1>2 DEF Means
-----------------------------------------------------------------------------
(***************************************************************************)
(* The order of texts, and sorting.                                        *)
(***************************************************************************)
\* The order of texts: the first place where two differ decides.
Agree(s, t, k) == \A j \in 1 .. k : s[j] = t[j]
Decides(s, t, i) == i - 1 <= Len(s) /\ Agree(s, t, i - 1) /\ (i <= Len(s) => s[i] < t[i])

\* One text is before another where some place decides.
LEMMA BeforeIs ==
    ASSUME NEW s \in Text, NEW t \in Text
    PROVE  Before(s, t) <=> \E i \in 1 .. Len(t) : Decides(s, t, i)
<1> DEFINE l == Len(s)
           m == Len(t)
<1>0. /\ l \in Nat /\ m \in Nat /\ DOMAIN s = 1 .. l /\ DOMAIN t = 1 .. m
      /\ (\A i \in 1 .. l : s[i] \in Nat) /\ \A i \in 1 .. m : t[i] \in Nat
  BY TextIs DEF Long
<1>7. l \in Nat /\ m \in Nat
  BY <1>0
<1>1. IsStrictPrefix(s, t) <=> l < m /\ Agree(s, t, l)
  <2>1. IsPrefix(s, t) <=> l <= m /\ Agree(s, t, l)
    BY PrefixIs DEF Text, Agree
  <2>2. ASSUME l = m, Agree(s, t, l) PROVE s = t
    <3>1. s \in Seq(Nat) /\ t \in Seq(Nat) /\ Len(s) = Len(t) /\ \A i \in 1 .. Len(s) : s[i] = t[i]
      BY <2>2 DEF Text, Agree
    <3> QED BY <3>1, SeqEqual
  <2>3. s = t => l = m
    OBVIOUS
  <2>4. l <= m <=> l < m \/ l = m
    BY <1>7
  <2>5. ~(l < m /\ l = m)
    BY <1>7
  <2> HIDE DEF l, m
  <2> QED BY <2>1, <2>2, <2>3, <2>4, <2>5 DEF IsStrictPrefix
<1>2. ASSUME NEW i \in 1 .. l, i \in 1 .. m
      PROVE  SubSeq(s, 1, i - 1) = SubSeq(t, 1, i - 1) <=> Agree(s, t, i - 1)
  <2>1. i - 1 \in Nat /\ i - 1 <= l /\ i - 1 <= m
    <3> HIDE DEF l, m
    <3> QED BY <1>2, <1>7
  <2> DEFINE k == i - 1
  <2>2. /\ SubSeq(s, 1, k) = [j \in 1 .. k |-> s[j]]
        /\ SubSeq(t, 1, k) = [j \in 1 .. k |-> t[j]]
    <3> HIDE DEF k
    <3> QED BY <1>0, <2>1 DEF k, Text
  <2> HIDE DEF k
  <2>3. [j \in 1 .. k |-> s[j]] = [j \in 1 .. k |-> t[j]] <=> \A j \in 1 .. k : s[j] = t[j]
    <3>1. ASSUME [j \in 1 .. k |-> s[j]] = [j \in 1 .. k |-> t[j]], NEW j \in 1 .. k PROVE s[j] = t[j]
      <4>1. [x \in 1 .. k |-> s[x]][j] = [x \in 1 .. k |-> t[x]][j]
        BY <3>1
      <4> QED BY <4>1
    <3> QED BY <3>1
  <2> QED BY <2>2, <2>3 DEF Agree, k
<1> HIDE DEF l, m
<1>3. Before(s, t) <=> \/ l < m /\ Agree(s, t, l)
                       \/ \E i \in 1 .. l : i \in 1 .. m /\ s[i] < t[i] /\ Agree(s, t, i - 1)
  BY <1>0, <1>1, <1>2 DEF Before
<1>4. ASSUME l < m, Agree(s, t, l) PROVE l + 1 \in 1 .. m /\ Decides(s, t, l + 1)
  <2>1. (l + 1) - 1 = l /\ l + 1 \in 1 .. m /\ ~(l + 1 <= l) /\ l <= l
    BY <1>0, <1>4
  <2> QED BY <1>4, <2>1 DEF Decides, l
<1>5. ASSUME NEW i \in 1 .. l, i \in 1 .. m, s[i] < t[i], Agree(s, t, i - 1) PROVE Decides(s, t, i)
  <2>1. i - 1 <= l
    BY <1>0
  <2> QED BY <1>5, <2>1 DEF Decides, l
<1>6. ASSUME NEW i \in 1 .. m, Decides(s, t, i) PROVE Before(s, t)
  <2>1. i - 1 <= l /\ Agree(s, t, i - 1) /\ (i <= l => s[i] < t[i])
    BY <1>6 DEF Decides, l
  <2>2. CASE i <= l
    <3>1. i \in 1 .. l
      BY <1>0, <2>2
    <3> QED BY <1>3, <2>1, <2>2, <3>1
  <2>3. CASE ~(i <= l)
    <3>1. i - 1 = l /\ l < m
      BY <1>0, <2>1, <2>3
    <3> QED BY <1>3, <2>1, <3>1
  <2> QED BY <2>2, <2>3
<1> QED BY <1>3, <1>4, <1>5, <1>6 DEF m

\* The order of texts is strict and total (db.rs with_prefixes).
LEMMA BeforeOrders ==
    /\ \A s \in Text : ~Before(s, s)
    /\ \A s, t, u \in Text : Before(s, t) /\ Before(t, u) => Before(s, u)
    /\ \A s, t \in Text : s # t => Before(s, t) \/ Before(t, s)
<1>1. ASSUME NEW s \in Text PROVE ~Before(s, s)
  <2> SUFFICES ASSUME NEW i \in 1 .. Len(s), Decides(s, s, i) PROVE FALSE
    BY BeforeIs
  <2>1. i <= Len(s) /\ s[i] \in Nat
    BY TextIs
  <2> QED BY <2>1 DEF Decides
<1>2. ASSUME NEW s \in Text, NEW t \in Text, NEW u \in Text, Before(s, t), Before(t, u)
      PROVE  Before(s, u)
  <2>0. /\ Len(s) \in Nat /\ Len(t) \in Nat /\ Len(u) \in Nat
        /\ (\A i \in 1 .. Len(s) : s[i] \in Nat) /\ (\A i \in 1 .. Len(t) : t[i] \in Nat)
        /\ \A i \in 1 .. Len(u) : u[i] \in Nat
    BY TextIs
  <2>1. PICK i \in 1 .. Len(t) : Decides(s, t, i)
    BY <1>2, BeforeIs
  <2>2. PICK j \in 1 .. Len(u) : Decides(t, u, j)
    BY <1>2, BeforeIs
  <2>3. /\ i - 1 <= Len(s) /\ (\A x \in 1 .. i - 1 : s[x] = t[x]) /\ (i <= Len(s) => s[i] < t[i])
        /\ j - 1 <= Len(t) /\ (\A x \in 1 .. j - 1 : t[x] = u[x]) /\ (j <= Len(t) => t[j] < u[j])
    BY <2>1, <2>2 DEF Decides, Agree
  <2>4. CASE i <= j
    <3>1. i \in 1 .. Len(u)
      BY <2>0, <2>4
    <3>2. \A x \in 1 .. i - 1 : s[x] = u[x]
      BY <2>0, <2>3, <2>4
    <3>3. i <= Len(s) => s[i] < u[i]
      <4> SUFFICES ASSUME i <= Len(s) PROVE s[i] < u[i]
        OBVIOUS
      <4>1. s[i] \in Nat /\ t[i] \in Nat /\ u[i] \in Nat /\ s[i] < t[i]
        BY <2>0, <2>3, <3>1
      <4>2. t[i] <= u[i]
        <5>1. CASE i = j
          BY <2>0, <2>3, <4>1, <5>1
        <5>2. CASE i # j
          <6>1. i \in 1 .. j - 1
            BY <2>4, <5>2
          <6> QED BY <2>3, <4>1, <6>1
        <5> QED BY <5>1, <5>2
      <4> QED BY <4>1, <4>2
    <3>4. Decides(s, u, i)
      BY <2>3, <3>2, <3>3 DEF Decides, Agree
    <3> QED BY <3>1, <3>4, BeforeIs
  <2>5. CASE j < i
    <3>1. j \in 1 .. i - 1 /\ j \in 1 .. Len(s) /\ j \in 1 .. Len(t) /\ j - 1 <= Len(s)
      BY <2>0, <2>3, <2>5
    <3>2. \A x \in 1 .. j - 1 : s[x] = u[x]
      BY <2>0, <2>3, <2>5
    <3>3. s[j] < u[j]
      BY <2>0, <2>3, <3>1
    <3>4. Decides(s, u, j)
      BY <3>1, <3>2, <3>3 DEF Decides, Agree
    <3> QED BY <3>4, BeforeIs
  <2> QED BY <2>4, <2>5
<1>3. ASSUME NEW s \in Text, NEW t \in Text, s # t PROVE Before(s, t) \/ Before(t, s)
  <2> DEFINE l == Len(s)
             m == Len(t)
             D == {i \in Nat : i >= 1 /\ (i <= l \/ i <= m) /\ ~(i <= l /\ i <= m /\ s[i] = t[i])}
  <2>0. l \in Nat /\ m \in Nat /\ (\A i \in 1 .. l : s[i] \in Nat) /\ \A i \in 1 .. m : t[i] \in Nat
    BY TextIs
  <2>1. D # {}
    <3> SUFFICES ASSUME D = {} PROVE FALSE
      OBVIOUS
    <3>1. \A i \in Nat : i >= 1 /\ (i <= l \/ i <= m) => i <= l /\ i <= m /\ s[i] = t[i]
      OBVIOUS
    <3> HIDE DEF D, l, m
    <3>2. l = m
      BY <2>0, <3>1
    <3>3. \A i \in 1 .. l : s[i] = t[i]
      BY <2>0, <3>1
    <3>4. s = t
      BY <3>2, <3>3, SeqEqual DEF Text, l, m
    <3> QED BY <1>3, <3>4
  <2>2. PICK i \in D : \A x \in D : i <= x
    <3>1. D \in SUBSET Nat
      OBVIOUS
    <3> HIDE DEF D
    <3> QED BY <2>1, <3>1, LeastOf
  <2>3. i \in Nat /\ i >= 1 /\ (i <= l \/ i <= m) /\ ~(i <= l /\ i <= m /\ s[i] = t[i])
    OBVIOUS
  <2>4. \A x \in 1 .. i - 1 : x <= l /\ x <= m /\ s[x] = t[x]
    <3> SUFFICES ASSUME NEW x \in 1 .. i - 1 PROVE x <= l /\ x <= m /\ s[x] = t[x]
      OBVIOUS
    <3>1. x \in Nat /\ x >= 1 /\ ~(i <= x) /\ (x <= l \/ x <= m)
      BY <2>0, <2>3
    <3>2. x \notin D
      BY <2>2, <3>1
    <3> QED BY <3>1, <3>2
  <2>5. Agree(s, t, i - 1) /\ Agree(t, s, i - 1)
    BY <2>4 DEF Agree
  <2>6. i - 1 <= l /\ i - 1 <= m
    <3>1. i = 1 \/ i - 1 \in 1 .. i - 1
      BY <2>3
    <3> HIDE DEF l, m, D
    <3> QED BY <2>0, <2>3, <2>4, <3>1
  <2> HIDE DEF D
  <2>7. CASE i > l
    <3>1. i \in 1 .. m /\ ~(i <= l)
      BY <2>0, <2>3, <2>7
    <3>2. Decides(s, t, i)
      BY <2>5, <2>6, <3>1 DEF Decides
    <3> QED BY <3>1, <3>2, BeforeIs
  <2>8. CASE i > m
    <3>1. i \in 1 .. l /\ ~(i <= m)
      BY <2>0, <2>3, <2>8
    <3>2. Decides(t, s, i)
      BY <2>5, <2>6, <3>1 DEF Decides
    <3> QED BY <3>1, <3>2, BeforeIs
  <2>9. CASE i <= l /\ i <= m
    <3>1. i \in 1 .. l /\ i \in 1 .. m /\ s[i] # t[i]
      BY <2>0, <2>3, <2>9
    <3>2. s[i] < t[i] \/ t[i] < s[i]
      BY <2>0, <3>1
    <3>3. Decides(s, t, i) \/ Decides(t, s, i)
      BY <2>5, <2>6, <3>2 DEF Decides
    <3> QED BY <3>1, <3>3, BeforeIs
  <2> QED BY <2>0, <2>3, <2>7, <2>8, <2>9
<1> QED BY <1>1, <1>2, <1>3

\* A finite set of texts in their order.
LEMMA SortedIs ==
    ASSUME NEW P \in SUBSET Text, IsFiniteSet(P)
    PROVE  /\ Sorted(P) \in Seq(P) /\ Len(Sorted(P)) = Cardinality(P)
           /\ \A x \in P : \E n \in 1 .. Len(Sorted(P)) : Sorted(P)[n] = x
           /\ \A i, j \in 1 .. Len(Sorted(P)) : i < j => Before(Sorted(P)[i], Sorted(P)[j])
<1> DEFINE R == {z \in P \X P : Before(z[1], z[2])}
           c == Cardinality(P)
           rank(t) == Cardinality({s \in P : Before(s, t)})
<1>0. c \in Nat
  BY FS_CardinalityType
<1>1. \A x, y \in P : <<x, y>> \in R <=> Before(x, y)
  OBVIOUS
<1> HIDE DEF R
<1>2. /\ \A p \in P : RankIn(P, R, p) \in 0 .. c - 1
      /\ \A p, q \in P : <<p, q>> \in R => RankIn(P, R, p) < RankIn(P, R, q)
      /\ \A k \in 0 .. c - 1 : \E p \in P : RankIn(P, R, p) = k
  <2>1. \A p \in P : <<p, p>> \notin R
    BY <1>1, BeforeOrders
  <2>2. \A p, q, r \in P : <<p, q>> \in R /\ <<q, r>> \in R => <<p, r>> \in R
    BY <1>1, BeforeOrders
  <2>3. \A p, q \in P : p # q => <<p, q>> \in R \/ <<q, p>> \in R
    BY <1>1, BeforeOrders
  <2> QED BY <2>1, <2>2, <2>3, RankedBy
<1>3. \A p \in P : RankIn(P, R, p) = rank(p)
  <2> SUFFICES ASSUME NEW p \in P PROVE RankIn(P, R, p) = rank(p)
    OBVIOUS
  <2>1. {q \in P : <<q, p>> \in R} = {s \in P : Before(s, p)}
    BY <1>1
  <2> QED BY <2>1 DEF RankIn
<1> HIDE DEF rank, c
<1>4. Sorted(P) = [n \in 1 .. c |-> CHOOSE t \in P : rank(t) = n - 1]
  BY DEF Sorted, c, rank
<1>5. ASSUME NEW n \in 1 .. c PROVE Sorted(P)[n] \in P /\ rank(Sorted(P)[n]) = n - 1
  <2>1. n - 1 \in 0 .. c - 1
    BY <1>0
  <2>2. \E t \in P : rank(t) = n - 1
    BY <1>2, <1>3, <2>1
  <2>3. Sorted(P)[n] = CHOOSE t \in P : rank(t) = n - 1
    BY <1>4
  <2> QED BY <2>2, <2>3
<1>6. Sorted(P) \in [1 .. c -> P] /\ Sorted(P) \in Seq(P) /\ Len(Sorted(P)) = c
  <2>1. Sorted(P) \in [1 .. c -> P]
    BY <1>4, <1>5
  <2>2. Sorted(P) \in Seq(P)
    BY <1>0, <2>1, SeqDef
  <2>3. DOMAIN Sorted(P) = 1 .. c /\ DOMAIN Sorted(P) = 1 .. Len(Sorted(P)) /\ Len(Sorted(P)) \in Nat
    BY <2>1, <2>2, LenProperties
  <2> QED BY <1>0, <2>1, <2>2, <2>3
<1>7. \A x, y \in P : rank(x) = rank(y) => x = y
  <2> SUFFICES ASSUME NEW x \in P, NEW y \in P, x # y PROVE rank(x) # rank(y)
    OBVIOUS
  <2>1. <<x, y>> \in R \/ <<y, x>> \in R
    BY <1>1, BeforeOrders
  <2>2. rank(x) < rank(y) \/ rank(y) < rank(x)
    BY <1>2, <1>3, <2>1
  <2>3. rank(x) \in Nat /\ rank(y) \in Nat
    BY <1>0, <1>2, <1>3
  <2> QED BY <2>2, <2>3
<1>8. ASSUME NEW x \in P PROVE \E n \in 1 .. c : Sorted(P)[n] = x
  <2>1. rank(x) \in 0 .. c - 1
    BY <1>2, <1>3
  <2>2. rank(x) + 1 \in 1 .. c /\ (rank(x) + 1) - 1 = rank(x)
    BY <1>0, <2>1
  <2> QED BY <1>5, <1>7, <2>2
<1>9. ASSUME NEW i \in 1 .. c, NEW j \in 1 .. c, i < j PROVE Before(Sorted(P)[i], Sorted(P)[j])
  <2> DEFINE x == Sorted(P)[i]
             y == Sorted(P)[j]
  <2>1. x \in P /\ y \in P /\ rank(x) = i - 1 /\ rank(y) = j - 1
    BY <1>5
  <2> HIDE DEF x, y
  <2>2. x # y /\ ~(rank(y) < rank(x))
    BY <1>9, <2>1
  <2>3. Before(x, y) \/ Before(y, x)
    BY <2>1, <2>2, BeforeOrders
  <2>4. ~Before(y, x)
    BY <1>1, <1>2, <1>3, <2>1, <2>2
  <2> QED BY <2>3, <2>4 DEF x, y
<1> QED BY <1>6, <1>8, <1>9 DEF c
-----------------------------------------------------------------------------
(***************************************************************************)
(* What is delivered, and its size.                                        *)
(***************************************************************************)
\* What sequences run together come to, when each that is added keeps to X.
LEMMA FlatIn ==
    ASSUME NEW X, NEW S, NEW ss \in Seq(S), Len(ss) # 0,
           \A i \in 1 .. Len(ss) : ss[i] \in X /\ \A x \in X : x \o ss[i] \in X
    PROVE  FlattenSeq(ss) \in X
<1> DEFINE m == Len(ss) - 1
           g == [q \in (1 .. m) \X X |-> q[2] \o ss[q[1] + 1]]
           body(f) == [i \in 1 .. Len(ss) |-> IF i = 1 THEN ss[i] ELSE f[i - 1] \o ss[i]]
<1>0. m \in Nat /\ Len(ss) = m + 1 /\ ss[1] \in X
  OBVIOUS
<1>1. ASSUME NEW n \in 1 .. m, NEW x \in X
      PROVE  g[<<n, x>>] = x \o ss[n + 1] /\ g[<<n, x>>] \in X
  <2>1. g[<<n, x>>] = x \o ss[n + 1]
    OBVIOUS
  <2>2. n + 1 \in 1 .. Len(ss)
    OBVIOUS
  <2> HIDE DEF g
  <2> QED BY <2>1, <2>2
<1> HIDE DEF g, m
<1>2. PICK f : IsLoop(f, m, ss[1], g) /\ \A n \in 0 .. m : f[n] \in X
  <2>1. \A n \in 1 .. m, x \in X : g[<<n, x>>] \in X
    BY <1>1
  <2> QED BY <1>0, <2>1, LoopMakes
<1> DEFINE h == [i \in 1 .. Len(ss) |-> f[i - 1]]
<1>3. h = body(h)
  <2>1. \A i \in 1 .. Len(ss) : h[i] = IF i = 1 THEN ss[i] ELSE h[i - 1] \o ss[i]
    <3> SUFFICES ASSUME NEW i \in 1 .. Len(ss)
                 PROVE  h[i] = IF i = 1 THEN ss[i] ELSE h[i - 1] \o ss[i]
      OBVIOUS
    <3>0. i - 1 \in 0 .. m
      BY <1>0
    <3>1. f[i - 1] = IF i - 1 = 0 THEN ss[1] ELSE g[<<i - 1, f[(i - 1) - 1]>>]
      BY <1>2, <3>0 DEF IsLoop
    <3>2. CASE i = 1
      BY <3>1, <3>2
    <3>3. CASE i # 1
      <4>1. i - 1 \in 1 .. m /\ (i - 1) - 1 \in 0 .. m /\ (i - 1) + 1 = i /\ i - 1 \in 1 .. Len(ss) /\ i - 1 # 0
        BY <1>0, <3>3
      <4>2. g[<<i - 1, f[(i - 1) - 1]>>] = f[(i - 1) - 1] \o ss[(i - 1) + 1]
        BY <1>1, <1>2, <4>1
      <4> QED BY <3>1, <3>3, <4>1, <4>2
    <3> QED BY <3>2, <3>3
  <2>2. DOMAIN h = 1 .. Len(ss) /\ h = [i \in 1 .. Len(ss) |-> h[i]]
    OBVIOUS
  <2> HIDE DEF h
  <2> QED BY <2>1, <2>2
<1> DEFINE flatten == CHOOSE k : k = body(k)
<1>4. flatten = body(flatten)
  BY <1>3
<1>5. FlattenSeq(ss) = flatten[Len(ss)]
  BY DEF FlattenSeq
<1> HIDE DEF flatten
<1>6. \A i \in 1 .. Len(ss) : flatten[i] = IF i = 1 THEN ss[i] ELSE flatten[i - 1] \o ss[i]
  BY <1>4
<1> DEFINE P == {n \in 0 .. m : flatten[n + 1] \in X}
<1>7. \A n \in 0 .. m : n \in P
  <2>1. 0 \in P
    BY <1>0, <1>6
  <2>2. ASSUME NEW n \in 0 .. m - 1, n \in P PROVE n + 1 \in P
    <3>1. n + 1 \in 0 .. m /\ (n + 1) + 1 \in 1 .. Len(ss) /\ (n + 1) + 1 # 1 /\ ((n + 1) + 1) - 1 = n + 1
      BY <1>0
    <3>2. flatten[(n + 1) + 1] = flatten[n + 1] \o ss[(n + 1) + 1]
      BY <1>6, <3>1
    <3> QED BY <2>2, <3>1, <3>2
  <2> HIDE DEF P
  <2> QED BY <1>0, <2>1, <2>2, LoopKeeps
<1>8. m \in P
  BY <1>0, <1>7
<1> QED BY <1>0, <1>5, <1>8

\* Sequences run together hold what each held.
LEMMA FlatIs ==
    ASSUME NEW D, NEW ss \in Seq(Seq(D))
    PROVE  /\ FlattenSeq(ss) \in Seq(D)
           /\ (\A i \in 1 .. Len(ss) : ss[i] = <<>>) => FlattenSeq(ss) = <<>>
<1>1. CASE Len(ss) = 0
  <2>1. FlattenSeq(ss) = ss
    BY <1>1 DEF FlattenSeq
  <2>2. ss = <<>>
    BY <1>1
  <2> QED BY <2>1, <2>2
<1>2. CASE Len(ss) # 0
  <2>1. FlattenSeq(ss) \in Seq(D)
    <3> DEFINE X == Seq(D)
    <3>1. \A i \in 1 .. Len(ss) : ss[i] \in X /\ \A x \in X : x \o ss[i] \in X
      BY ConcatProperties
    <3> HIDE DEF X
    <3>2. FlattenSeq(ss) \in X
      BY <1>2, <3>1, FlatIn
    <3> QED BY <3>2 DEF X
  <2>2. ASSUME \A i \in 1 .. Len(ss) : ss[i] = <<>> PROVE FlattenSeq(ss) = <<>>
    <3> DEFINE X == {<<>>}
    <3>1. \A i \in 1 .. Len(ss) : ss[i] \in X /\ \A x \in X : x \o ss[i] \in X
      <4>1. <<>> \o <<>> = <<>>
        OBVIOUS
      <4> QED BY <2>2, <4>1
    <3> HIDE DEF X
    <3>2. FlattenSeq(ss) \in X
      BY <1>2, <3>1, FlatIn
    <3> QED BY <3>2 DEF X
  <2> QED BY <2>1, <2>2
<1> QED BY <1>1, <1>2
-----------------------------------------------------------------------------
\* Sizes add up.
LEMMA TotalIs ==
    ASSUME NEW ds, NEW n \in Nat, \A i \in 1 .. n : Size(ds[i]) \in Nat
    PROVE  \E f : /\ \A k \in 0 .. n : f[k] \in Nat
                                       /\ f[k] = IF k = 0 THEN 0 ELSE f[k - 1] + Size(ds[k])
                  /\ TotalSize(ds, n) = f[n]
<1> DEFINE g == [q \in (1 .. n) \X Nat |-> q[2] + Size(ds[q[1]])]
           body(f) == [i \in 0 .. n |-> IF i = 0 THEN 0 ELSE f[i - 1] + Size(ds[i])]
<1>1. ASSUME NEW k \in 1 .. n, NEW x \in Nat
      PROVE  g[<<k, x>>] = x + Size(ds[k]) /\ g[<<k, x>>] \in Nat
  OBVIOUS
<1> HIDE DEF g
<1>2. PICK f : IsLoop(f, n, 0, g) /\ \A k \in 0 .. n : f[k] \in Nat
  <2>1. \A k \in 1 .. n, x \in Nat : g[<<k, x>>] \in Nat
    BY <1>1
  <2> QED BY <2>1, LoopMakes
<1>3. f = body(f)
  <2>1. f = [k \in 0 .. n |-> IF k = 0 THEN 0 ELSE g[<<k, f[k - 1]>>]]
    BY <1>2 DEF IsLoop
  <2>2. \A k \in 0 .. n : k # 0 => g[<<k, f[k - 1]>>] = f[k - 1] + Size(ds[k])
    <3> SUFFICES ASSUME NEW k \in 0 .. n, k # 0 PROVE g[<<k, f[k - 1]>>] = f[k - 1] + Size(ds[k])
      OBVIOUS
    <3>1. k \in 1 .. n /\ k - 1 \in 0 .. n
      OBVIOUS
    <3> QED BY <1>1, <1>2, <3>1
  <2>3. DOMAIN f = 0 .. n /\ f = [k \in 0 .. n |-> f[k]]
    BY <2>1
  <2>4. \A k \in 0 .. n : f[k] = IF k = 0 THEN 0 ELSE f[k - 1] + Size(ds[k])
    BY <2>1, <2>2
  <2> QED BY <2>3, <2>4
<1> DEFINE total == CHOOSE k : k = body(k)
<1>4. total = body(total)
  BY <1>3
<1>5. TotalSize(ds, n) = total[n]
  BY DEF TotalSize
<1> HIDE DEF total
<1>6. \A k \in 0 .. n : total[k] = IF k = 0 THEN 0 ELSE total[k - 1] + Size(ds[k])
  BY <1>4
<1> DEFINE P == {k \in 0 .. n : total[k] \in Nat}
<1>7. \A k \in 0 .. n : k \in P
  <2>1. 0 \in P
    BY <1>6
  <2>2. ASSUME NEW k \in 0 .. n - 1, k \in P PROVE k + 1 \in P
    <3>1. k + 1 \in 0 .. n /\ k + 1 # 0 /\ (k + 1) - 1 = k /\ k + 1 \in 1 .. n
      OBVIOUS
    <3>2. total[k + 1] = total[k] + Size(ds[k + 1])
      BY <1>6, <3>1
    <3> QED BY <2>2, <3>1, <3>2
  <2> HIDE DEF P
  <2> QED BY <2>1, <2>2, LoopKeeps
<1>8. \A k \in 0 .. n : total[k] \in Nat /\ total[k] = IF k = 0 THEN 0 ELSE total[k - 1] + Size(ds[k])
  BY <1>6, <1>7
<1> QED BY <1>5, <1>8

Sized(ds, n) == \A i \in 1 .. n : Size(ds[i]) \in Nat

\* The total of one more is more by its size.
LEMMA TotalMore ==
    \A ds : \A n \in Nat : Sized(ds, n) =>
       /\ TotalSize(ds, n) \in Nat
       /\ n = 0 => TotalSize(ds, n) = 0
       /\ n # 0 => TotalSize(ds, n) = TotalSize(ds, n - 1) + Size(ds[n])
<1> SUFFICES ASSUME NEW ds, NEW n \in Nat, Sized(ds, n)
             PROVE  /\ TotalSize(ds, n) \in Nat
                    /\ n = 0 => TotalSize(ds, n) = 0
                    /\ n # 0 => TotalSize(ds, n) = TotalSize(ds, n - 1) + Size(ds[n])
  OBVIOUS
<1>0. \A i \in 1 .. n : Size(ds[i]) \in Nat
  BY DEF Sized
<1>1. PICK f : /\ \A k \in 0 .. n : f[k] \in Nat /\ f[k] = IF k = 0 THEN 0 ELSE f[k - 1] + Size(ds[k])
               /\ TotalSize(ds, n) = f[n]
  BY <1>0, TotalIs
<1>2. n \in 0 .. n
  OBVIOUS
<1>3. TotalSize(ds, n) \in Nat /\ (n = 0 => TotalSize(ds, n) = 0)
  BY <1>1, <1>2
<1>4. ASSUME n # 0 PROVE TotalSize(ds, n) = TotalSize(ds, n - 1) + Size(ds[n])
  <2> DEFINE m == n - 1
  <2>0. m \in Nat /\ \A i \in 1 .. m : Size(ds[i]) \in Nat
    BY <1>0, <1>4
  <2> HIDE DEF m
  <2>1. PICK h : /\ \A k \in 0 .. m : h[k] \in Nat /\ h[k] = IF k = 0 THEN 0 ELSE h[k - 1] + Size(ds[k])
                 /\ TotalSize(ds, m) = h[m]
    BY <2>0, TotalIs
  <2> DEFINE P == {k \in 0 .. m : f[k] = h[k]}
  <2>2. \A k \in 0 .. m : k \in P
    <3>1. 0 \in P
      BY <1>1, <2>0, <2>1
    <3>2. ASSUME NEW k \in 0 .. m - 1, k \in P PROVE k + 1 \in P
      <4>1. k + 1 \in 0 .. m /\ k + 1 \in 0 .. n /\ k + 1 # 0 /\ (k + 1) - 1 = k
        BY <2>0 DEF m
      <4>2. f[k + 1] = f[k] + Size(ds[k + 1]) /\ h[k + 1] = h[k] + Size(ds[k + 1])
        BY <1>1, <2>1, <4>1
      <4> QED BY <3>2, <4>1, <4>2
    <3> HIDE DEF P
    <3> QED BY <2>0, <3>1, <3>2, LoopKeeps
  <2>3. m \in P
    BY <2>0, <2>2
  <2>4. f[n] = f[m] + Size(ds[n])
    BY <1>1, <1>2, <1>4 DEF m
  <2> QED BY <1>1, <2>1, <2>3, <2>4 DEF m
<1> QED BY <1>3, <1>4

\* What comes after the first a adds what it comes to on its own.
Follows(ds, es, a, n) == \A i \in 1 .. n : ds[a + i] = es[i]

\* The total of what follows is added to the total before.
LEMMA TotalShift ==
    \A ds, es : \A a, n \in Nat :
       Sized(ds, a + n) /\ Sized(es, n) /\ Follows(ds, es, a, n)
       => TotalSize(ds, a + n) = TotalSize(ds, a) + TotalSize(es, n)
<1> SUFFICES ASSUME NEW ds, NEW es, NEW a \in Nat, NEW n \in Nat, Sized(ds, a + n), Sized(es, n),
                    Follows(ds, es, a, n)
             PROVE  TotalSize(ds, a + n) = TotalSize(ds, a) + TotalSize(es, n)
  OBVIOUS
<1>0. \A k \in 0 .. n : Sized(ds, a + k) /\ Sized(es, k)
  BY DEF Sized
<1> DEFINE P == {k \in 0 .. n : TotalSize(ds, a + k) = TotalSize(ds, a) + TotalSize(es, k)}
<1>1. 0 \in P
  <2>1. a + 0 = a /\ 0 \in 0 .. n
    OBVIOUS
  <2>2. TotalSize(es, 0) = 0 /\ TotalSize(ds, a) \in Nat
    BY <1>0, <2>1, TotalMore
  <2> QED BY <2>1, <2>2
<1>2. ASSUME NEW k \in 0 .. n - 1, k \in P PROVE k + 1 \in P
  <2>1. /\ k + 1 \in 0 .. n /\ k + 1 # 0 /\ (k + 1) - 1 = k /\ k + 1 \in 1 .. n /\ k + 1 \in Nat
        /\ a + (k + 1) \in Nat /\ a + (k + 1) # 0 /\ (a + (k + 1)) - 1 = a + k /\ a + k \in Nat /\ k \in Nat /\ k \in 0 .. n
    OBVIOUS
  <2>2. TotalSize(es, k + 1) = TotalSize(es, k) + Size(es[k + 1])
    BY <1>0, <2>1, TotalMore
  <2>3. TotalSize(ds, a + (k + 1)) = TotalSize(ds, a + k) + Size(ds[a + (k + 1)])
    BY <1>0, <2>1, TotalMore
  <2>4. TotalSize(es, k) \in Nat /\ TotalSize(ds, a) \in Nat /\ TotalSize(ds, a + k) \in Nat
    <3>1. Sized(ds, a + 0) /\ a + 0 = a
      <4>1. 0 \in 0 .. n
        OBVIOUS
      <4> QED BY <1>0, <4>1
    <3> QED BY <1>0, <2>1, <3>1, TotalMore
  <2>5. Size(es[k + 1]) \in Nat /\ ds[a + (k + 1)] = es[k + 1]
    BY <2>1 DEF Sized, Follows
  <2>6. TotalSize(ds, a + k) = TotalSize(ds, a) + TotalSize(es, k)
    BY <1>2
  <2>7. TotalSize(ds, a + (k + 1)) = TotalSize(ds, a) + TotalSize(es, k + 1)
    BY <2>2, <2>3, <2>4, <2>5, <2>6
  <2> QED BY <2>1, <2>7
<1>3. \A k \in 0 .. n : k \in P
  <2> HIDE DEF P
  <2> QED BY <1>1, <1>2, LoopKeeps
<1>4. n \in P
  BY <1>3
<1> QED BY <1>4
-----------------------------------------------------------------------------
(***************************************************************************)
(* A connection's end.                                                     *)
(***************************************************************************)
\* What is sent: to a channel, that was named or that a pattern matches.
Delivery == [channel : Text, pattern : Text \cup {NoPattern}, message : Text]
Message == Text \X Text
Patterns == {P \in SUBSET Text : IsFiniteSet(P)}
End == [held : BOOLEAN, queue : Seq(Delivery), waiting : Nat, taken : Nat, owed : Seq(Delivery),
        channels : SUBSET Text, patterns : Patterns]
EndWith(held, queue, waiting, taken, owed, chs, pats) ==
    [held |-> held, queue |-> queue, waiting |-> waiting, taken |-> taken, owed |-> owed,
     channels |-> chs, patterns |-> pats]

\* A delivery's size is a number (broker.rs Delivery::size).
LEMMA SizeIs == \A d \in Delivery : Size(d) \in Nat
<1> SUFFICES ASSUME NEW d \in Delivery PROVE Size(d) \in Nat
  OBVIOUS
<1>1. d.channel \in Text /\ d.message \in Text /\ (d.pattern \in Text \/ d.pattern = NoPattern)
  BY DEF Delivery
<1>2. Len(d.channel) \in Nat /\ Len(d.message) \in Nat /\ (d.pattern # NoPattern => Len(d.pattern) \in Nat)
  BY <1>1, TextIs
<1> DEFINE k == IF d.pattern = NoPattern THEN 0 ELSE Len(d.pattern)
<1>3. k \in Nat
  BY <1>2
<1>4. Size(d) = Len(d.channel) + Len(d.message) + k
  BY DEF Size
<1> DEFINE x == Len(d.channel)
           y == Len(d.message)
<1>5. x \in Nat /\ y \in Nat /\ Size(d) = x + y + k
  BY <1>2, <1>4
<1> HIDE DEF k, x, y
<1>6. x + y + k \in Nat
  BY <1>3, <1>5
<1> QED BY <1>5, <1>6

\* Every delivery of a sequence has its size.
LEMMA AllSized == \A ds \in Seq(Delivery) : \A n \in 0 .. Len(ds) : Sized(ds, n)
<1> SUFFICES ASSUME NEW ds \in Seq(Delivery), NEW n \in 0 .. Len(ds), NEW i \in 1 .. n
             PROVE  Size(ds[i]) \in Nat
  BY DEF Sized
<1>1. ds[i] \in Delivery
  <2>1. i \in 1 .. Len(ds)
    OBVIOUS
  <2> QED BY <2>1
<1> QED BY <1>1, SizeIs

\* A message is delivered for each way a subscription hears it.
LEMMA DeliveredIs ==
    ASSUME NEW direct, NEW P \in Patterns, NEW ch \in Text, NEW msg \in Text
    PROVE  /\ Delivered(direct, P, ch, msg) \in Seq(Delivery)
           /\ ~direct /\ P = {} => Delivered(direct, P, ch, msg) = <<>>
<1> DEFINE first == IF direct THEN <<NoPattern>> ELSE <<>>
           some == Sorted(P)
           all == first \o some
<1>1. P \in SUBSET Text /\ IsFiniteSet(P)
  BY DEF Patterns
<1>2. some \in Seq(P) /\ Len(some) = Cardinality(P)
  BY <1>1, SortedIs
<1> HIDE DEF some
<1> DEFINE Q == Text \cup {NoPattern}
<1>3. some \in Seq(Q)
  <2>1. P \subseteq Q
    BY <1>1
  <2> HIDE DEF Q
  <2> QED BY <1>2, <2>1, SeqMonotonic
<1>4. first \in Seq(Q) /\ (~direct => first = <<>>)
  <2>1. CASE direct
    <3>1. NoPattern \in Q /\ first = <<NoPattern>>
      BY <2>1
    <3> HIDE DEF Q, first
    <3>2. <<NoPattern>> \in Seq(Q)
      BY <3>1
    <3> QED BY <2>1, <3>1, <3>2
  <2>2. CASE ~direct
    BY <2>2
  <2> QED BY <2>1, <2>2
<1> HIDE DEF first, Q
<1>5. all \in Seq(Q) /\ DOMAIN all = 1 .. Len(all) /\ Len(all) \in Nat
  BY <1>3, <1>4, ConcatProperties, LenProperties
<1>6. ~direct /\ P = {} => all = <<>>
  <2> SUFFICES ASSUME ~direct, P = {} PROVE all = <<>>
    OBVIOUS
  <2>1. Cardinality(P) = 0
    BY FS_EmptySet
  <2>2. some = <<>>
    BY <1>2, <2>1
  <2> QED BY <1>4, <2>2
<1>7. Delivered(direct, P, ch, msg) = [i \in DOMAIN all |-> [channel |-> ch, pattern |-> all[i], message |-> msg]]
  BY DEF Delivered, first, some
<1> HIDE DEF all
<1>8. \A i \in 1 .. Len(all) : [channel |-> ch, pattern |-> all[i], message |-> msg] \in Delivery
  BY <1>5 DEF Delivery, Q
<1> DEFINE ds == Delivered(direct, P, ch, msg)
<1>9. ds \in [1 .. Len(all) -> Delivery]
  BY <1>5, <1>7, <1>8
<1>10. ds \in Seq(Delivery)
  <2> HIDE DEF ds
  <2> QED BY <1>5, <1>9, SeqDef
<1>11. all = <<>> => ds = <<>>
  <2> SUFFICES ASSUME all = <<>> PROVE ds = <<>>
    OBVIOUS
  <2>1. DOMAIN ds = {}
    BY <1>5, <1>7
  <2> HIDE DEF ds
  <2> QED BY <1>10, <2>1
<1> QED BY <1>6, <1>10, <1>11
-----------------------------------------------------------------------------
\* A connection's end, subscribed or not: what is in its queue is what it is owed,
\* and counted.
Counted(e) == e.taken + TotalSize(e.queue, Len(e.queue))
Fine(e, on) ==
    /\ e \in End
    /\ IsPrefix(e.queue, e.owed) /\ (on => e.queue = e.owed)
    /\ e.waiting >= Counted(e) /\ (on => e.waiting = Counted(e))

\* The parts of a connection's end.
LEMMA EndIs ==
    ASSUME NEW e \in End
    PROVE  /\ e.held \in BOOLEAN /\ e.queue \in Seq(Delivery) /\ e.waiting \in Nat /\ e.taken \in Nat
           /\ e.owed \in Seq(Delivery) /\ e.channels \in SUBSET Text /\ e.patterns \in Patterns
           /\ e = EndWith(e.held, e.queue, e.waiting, e.taken, e.owed, e.channels, e.patterns)
           /\ \A q \in Seq(Delivery) : TotalSize(q, Len(q)) \in Nat
<1>1. e = EndWith(e.held, e.queue, e.waiting, e.taken, e.owed, e.channels, e.patterns)
  BY DEF End, EndWith
<1>2. \A q \in Seq(Delivery) : TotalSize(q, Len(q)) \in Nat
  <2> SUFFICES ASSUME NEW q \in Seq(Delivery) PROVE TotalSize(q, Len(q)) \in Nat
    OBVIOUS
  <2>1. Len(q) \in Nat /\ Len(q) \in 0 .. Len(q)
    OBVIOUS
  <2> QED BY <2>1, AllSized, TotalMore
<1> QED BY <1>1, <1>2 DEF End

\* What the steps change of an end.
Publishes(e, a, b, c) == [e EXCEPT !.queue = a, !.waiting = b, !.owed = c]
Takes(e, a, b, c) == [e EXCEPT !.queue = a, !.owed = b, !.taken = c]
Counts(e, a, b) == [e EXCEPT !.waiting = a, !.taken = b]
Owes(e, a) == [e EXCEPT !.owed = a]

\* What a step changes of an end is all it changes.
LEMMA EndChanges ==
    ASSUME NEW e \in End, NEW a, NEW b, NEW c
    PROVE  /\ Publishes(e, a, b, c) = EndWith(e.held, a, b, e.taken, c, e.channels, e.patterns)
           /\ Takes(e, a, b, c) = EndWith(e.held, a, e.waiting, c, b, e.channels, e.patterns)
           /\ Counts(e, a, b) = EndWith(e.held, e.queue, a, b, e.owed, e.channels, e.patterns)
           /\ Owes(e, a) = EndWith(e.held, e.queue, e.waiting, e.taken, a, e.channels, e.patterns)
<1>0. PICK h, q, w, t, o, cs, ps : e = EndWith(h, q, w, t, o, cs, ps)
  BY EndIs
<1>1. /\ e.held = h /\ e.queue = q /\ e.waiting = w /\ e.taken = t /\ e.owed = o
      /\ e.channels = cs /\ e.patterns = ps
  BY <1>0 DEF EndWith
<1>2. [e EXCEPT !.queue = a, !.waiting = b, !.owed = c] = EndWith(h, a, b, t, c, cs, ps)
  <2> DEFINE e1 == [e EXCEPT !.queue = a]
             e2 == [e1 EXCEPT !.waiting = b]
             e3 == [e2 EXCEPT !.owed = c]
  <2>1. [e EXCEPT !.queue = a, !.waiting = b, !.owed = c] = e3
    BY DEF End
  <2>2. e1 = EndWith(h, a, w, t, o, cs, ps)
    BY <1>0 DEF EndWith
  <2> HIDE DEF e1
  <2>3. e2 = EndWith(h, a, b, t, o, cs, ps)
    BY <2>2 DEF EndWith
  <2> HIDE DEF e2
  <2>4. e3 = EndWith(h, a, b, t, c, cs, ps)
    BY <2>3 DEF EndWith
  <2> HIDE DEF e3
  <2> QED BY <2>1, <2>4
<1>3. [e EXCEPT !.queue = a, !.owed = b, !.taken = c] = EndWith(h, a, w, c, b, cs, ps)
  <2> DEFINE e1 == [e EXCEPT !.queue = a]
             e2 == [e1 EXCEPT !.owed = b]
             e3 == [e2 EXCEPT !.taken = c]
  <2>1. [e EXCEPT !.queue = a, !.owed = b, !.taken = c] = e3
    BY DEF End
  <2>2. e1 = EndWith(h, a, w, t, o, cs, ps)
    BY <1>0 DEF EndWith
  <2> HIDE DEF e1
  <2>3. e2 = EndWith(h, a, w, t, b, cs, ps)
    BY <2>2 DEF EndWith
  <2> HIDE DEF e2
  <2>4. e3 = EndWith(h, a, w, c, b, cs, ps)
    BY <2>3 DEF EndWith
  <2> HIDE DEF e3
  <2> QED BY <2>1, <2>4
<1>4. [e EXCEPT !.waiting = a, !.taken = b] = EndWith(h, q, a, b, o, cs, ps)
  <2> DEFINE e1 == [e EXCEPT !.waiting = a]
             e2 == [e1 EXCEPT !.taken = b]
  <2>1. [e EXCEPT !.waiting = a, !.taken = b] = e2
    BY DEF End
  <2>2. e1 = EndWith(h, q, a, t, o, cs, ps)
    BY <1>0 DEF EndWith
  <2> HIDE DEF e1
  <2>3. e2 = EndWith(h, q, a, b, o, cs, ps)
    BY <2>2 DEF EndWith
  <2> HIDE DEF e2
  <2> QED BY <2>1, <2>3
<1>5. [e EXCEPT !.owed = a] = EndWith(h, q, w, t, a, cs, ps)
  BY <1>0 DEF EndWith
<1> QED BY <1>1, <1>2, <1>3, <1>4, <1>5 DEF Publishes, Takes, Counts, Owes
-----------------------------------------------------------------------------
\* What it is for an end to be as it should, part by part.
LEMMA FineIs ==
    ASSUME NEW held \in BOOLEAN, NEW q \in Seq(Delivery), NEW w \in Nat, NEW t \in Nat, NEW o \in Seq(Delivery),
           NEW cs \in SUBSET Text, NEW ps \in Patterns, NEW on \in BOOLEAN
    PROVE  Fine(EndWith(held, q, w, t, o, cs, ps), on) <=>
             /\ IsPrefix(q, o) /\ (on => q = o)
             /\ w >= t + TotalSize(q, Len(q)) /\ (on => w = t + TotalSize(q, Len(q)))
  BY DEF Fine, End, EndWith, Counted

\* A queue starts with itself.
LEMMA PrefixSelf == \A q \in Seq(Delivery) : IsPrefix(q, q)
<1> SUFFICES ASSUME NEW q \in Seq(Delivery) PROVE IsPrefix(q, q)
  OBVIOUS
<1>1. Len(q) \in Nat /\ Len(q) <= Len(q)
  OBVIOUS
<1> QED BY <1>1, PrefixIs

\* An end with nothing queued or owed is as it should be.
LEMMA FineIdle ==
    ASSUME NEW held \in BOOLEAN, NEW cs \in SUBSET Text, NEW ps \in Patterns, NEW on \in BOOLEAN
    PROVE  Fine(EndWith(held, <<>>, 0, 0, <<>>, cs, ps), on)
<1>1. <<>> \in Seq(Delivery) /\ Len(<<>>) = 0 /\ 0 \in Nat
  OBVIOUS
<1>2. TotalSize(<<>>, 0) = 0
  <2>1. Sized(<<>>, 0)
    BY DEF Sized
  <2> QED BY <2>1, TotalMore
<1>3. IsPrefix(<<>>, <<>>)
  BY <1>1, PrefixSelf
<1>4. 0 >= 0 + TotalSize(<<>>, Len(<<>>)) /\ 0 = 0 + TotalSize(<<>>, Len(<<>>))
  BY <1>1, <1>2
<1> DEFINE q == <<>>
           z == 0
<1>5. /\ q \in Seq(Delivery) /\ z \in Nat /\ IsPrefix(q, q)
      /\ z >= z + TotalSize(q, Len(q)) /\ z = z + TotalSize(q, Len(q))
  BY <1>1, <1>3, <1>4
<1> HIDE DEF q, z
<1>6. Fine(EndWith(held, q, z, z, q, cs, ps), on)
  BY <1>5, FineIs
<1> QED BY <1>6 DEF q, z

\* An end that is as it should be still is when it is no longer subscribed.
LEMMA FineOff == ASSUME NEW e, NEW on, Fine(e, on) PROVE Fine(e, FALSE) /\ e \in End
  BY DEF Fine

\* It still is when the first of its queue is taken
\* (broker.rs Deliveries::recv_timeout).
LEMMA FineTaken ==
    ASSUME NEW e, NEW on \in BOOLEAN, Fine(e, on), e.taken = 0, e.queue # <<>>
    PROVE  Fine(EndWith(e.held, Tail(e.queue), e.waiting, Size(Head(e.queue)), Tail(e.owed),
                        e.channels, e.patterns), on)
<1> DEFINE q == e.queue
           o == e.owed
           l == Len(q)
<1>1. /\ e \in End /\ IsPrefix(q, o) /\ (on => q = o)
      /\ e.waiting >= Counted(e) /\ (on => e.waiting = Counted(e))
  BY DEF Fine
<1>2. /\ e.held \in BOOLEAN /\ q \in Seq(Delivery) /\ e.waiting \in Nat /\ o \in Seq(Delivery)
      /\ e.channels \in SUBSET Text /\ e.patterns \in Patterns /\ TotalSize(q, l) \in Nat
  BY <1>1, EndIs
<1>3. Counted(e) = TotalSize(q, l)
  BY <1>2 DEF Counted
<1>4. l \in Nat /\ l # 0 /\ l <= Len(o) /\ Len(o) \in Nat /\ o # <<>> /\ \A i \in 1 .. l : q[i] = o[i]
  <2>1. l \in Nat /\ l # 0 /\ Len(o) \in Nat
    BY <1>2
  <2>2. l <= Len(o) /\ \A i \in 1 .. l : q[i] = o[i]
    BY <1>1, <1>2, PrefixIs
  <2>3. o # <<>>
    BY <1>2, <2>1, <2>2
  <2> QED BY <2>1, <2>2, <2>3
<1> DEFINE u == Tail(q)
           v == Tail(o)
           s == Size(Head(q))
<1>5. /\ u \in Seq(Delivery) /\ Len(u) = l - 1 /\ \A i \in 1 .. l - 1 : u[i] = q[i + 1]
      /\ v \in Seq(Delivery) /\ Len(v) = Len(o) - 1 /\ \A i \in 1 .. Len(o) - 1 : v[i] = o[i + 1]
  <2>1. /\ u \in Seq(Delivery) /\ Len(u) = l - 1 /\ \A i \in 1 .. Len(u) : u[i] = q[i + 1]
    BY <1>2, HeadTailProperties
  <2>2. /\ v \in Seq(Delivery) /\ Len(v) = Len(o) - 1 /\ \A i \in 1 .. Len(v) : v[i] = o[i + 1]
    BY <1>2, <1>4, HeadTailProperties
  <2> HIDE DEF u, v
  <2> QED BY <2>1, <2>2
<1>6. s \in Nat /\ s = Size(q[1])
  <2>1. Head(q) = q[1] /\ q[1] \in Delivery
    BY <1>2, <1>4
  <2> QED BY <2>1, SizeIs
<1> HIDE DEF q, o, l, u, v, s
<1>7. IsPrefix(u, v)
  <2>1. Len(u) <= Len(v)
    BY <1>4, <1>5
  <2>2. ASSUME NEW i \in 1 .. Len(u) PROVE u[i] = v[i]
    <3>1. i \in 1 .. l - 1 /\ i \in 1 .. Len(o) - 1 /\ i + 1 \in 1 .. l
      BY <1>4, <1>5
    <3> QED BY <1>4, <1>5, <3>1
  <2> QED BY <1>5, <2>1, <2>2, PrefixIs
<1>8. on => u = v
  BY <1>1 DEF u, v
<1>9. TotalSize(q, l) = s + TotalSize(u, Len(u)) /\ TotalSize(u, Len(u)) \in Nat
  <2>1. Sized(q, 1 + (l - 1)) /\ Sized(u, l - 1) /\ Sized(q, 1)
    <3>1. l \in 0 .. Len(q) /\ 1 \in 0 .. Len(q) /\ l - 1 \in 0 .. Len(u) /\ 1 + (l - 1) = l
      BY <1>4, <1>5 DEF l
    <3> QED BY <1>2, <1>5, <3>1, AllSized
  <2>2. \A i \in 1 .. l - 1 : q[1 + i] = u[i]
    <3> SUFFICES ASSUME NEW i \in 1 .. l - 1 PROVE q[1 + i] = u[i]
      OBVIOUS
    <3>1. 1 + i = i + 1
      BY <1>4
    <3> QED BY <1>5, <3>1
  <2>3. TotalSize(q, 1 + (l - 1)) = TotalSize(q, 1) + TotalSize(u, l - 1)
    <3>1. 1 \in Nat /\ l - 1 \in Nat
      BY <1>4
    <3> QED BY <2>1, <2>2, <3>1, TotalShift DEF Follows
  <2>4. TotalSize(q, 1) = s
    <3>1. Sized(q, 0)
      BY DEF Sized
    <3>2. TotalSize(q, 0) = 0
      BY <3>1, TotalMore
    <3>3. TotalSize(q, 1) = TotalSize(q, 1 - 1) + Size(q[1])
      <4>1. 1 \in Nat /\ 1 # 0
        OBVIOUS
      <4> QED BY <2>1, <4>1, TotalMore
    <3>4. 1 - 1 = 0
      OBVIOUS
    <3> QED BY <1>6, <3>2, <3>3, <3>4
  <2>5. 1 + (l - 1) = l /\ Len(u) = l - 1
    BY <1>4, <1>5
  <2>6. TotalSize(u, Len(u)) \in Nat
    BY <1>1, <1>5, EndIs
  <2> QED BY <2>3, <2>4, <2>5, <2>6
<1>10. Fine(EndWith(e.held, u, e.waiting, s, v, e.channels, e.patterns), on)
  <2>1. e.waiting >= s + TotalSize(u, Len(u)) /\ (on => e.waiting = s + TotalSize(u, Len(u)))
    BY <1>1, <1>3, <1>9
  <2> QED BY <1>2, <1>5, <1>6, <1>7, <1>8, <2>1, FineIs
<1> QED BY <1>10 DEF u, v, s, q, o

\* It still is when what was taken is counted off.
LEMMA FineCountedOff ==
    ASSUME NEW e, NEW on \in BOOLEAN, Fine(e, on)
    PROVE  Fine(EndWith(e.held, e.queue, e.waiting - e.taken, 0, e.owed, e.channels, e.patterns), on)
<1>1. /\ e \in End /\ IsPrefix(e.queue, e.owed) /\ (on => e.queue = e.owed)
      /\ e.waiting >= Counted(e) /\ (on => e.waiting = Counted(e))
  BY DEF Fine
<1> DEFINE t == TotalSize(e.queue, Len(e.queue))
           w == e.waiting
           k == e.taken
<1>2. /\ e.held \in BOOLEAN /\ e.queue \in Seq(Delivery) /\ w \in Nat /\ k \in Nat /\ e.owed \in Seq(Delivery)
      /\ e.channels \in SUBSET Text /\ e.patterns \in Patterns /\ t \in Nat
  BY <1>1, EndIs
<1>3. w >= k + t /\ (on => w = k + t)
  BY <1>1 DEF Counted
<1> HIDE DEF t, w, k
<1>4. w - k \in Nat /\ w - k >= 0 + t /\ (on => w - k = 0 + t)
  BY <1>2, <1>3
<1> QED BY <1>1, <1>2, <1>4, FineIs DEF t, w, k

\* It still is when it is handed what it is owed, or as much as fits.
LEMMA FineHanded ==
    ASSUME NEW e, Fine(e, TRUE), NEW all \in Seq(Delivery), NEW n \in 0 .. Len(all), NEW k \in n .. Len(all),
           NEW on \in BOOLEAN, on => n = Len(all)
    PROVE  Fine(EndWith(e.held, e.queue \o SubSeq(all, 1, n), e.waiting + TotalSize(all, k), e.taken,
                        e.owed \o all, e.channels, e.patterns), on)
<1> DEFINE q == e.queue
           l == Len(q)
           w == e.waiting
           t == e.taken
           m == Len(all)
           some == SubSeq(all, 1, n)
           u == q \o some
           v == q \o all
<1>1. e \in End /\ e.owed = q /\ w = Counted(e)
  BY DEF Fine
<1>2. /\ e.held \in BOOLEAN /\ q \in Seq(Delivery) /\ w \in Nat /\ t \in Nat
      /\ e.channels \in SUBSET Text /\ e.patterns \in Patterns
      /\ \A x \in Seq(Delivery) : TotalSize(x, Len(x)) \in Nat
  BY <1>1, EndIs
<1>3. w = t + TotalSize(q, l)
  BY <1>1 DEF Counted
<1>4. m \in Nat /\ l \in Nat /\ n \in Nat /\ n <= m /\ k \in Nat /\ n <= k /\ k <= m
  BY <1>2
<1> HIDE DEF w, t, m
<1>5. some \in Seq(Delivery) /\ Len(some) = n /\ (n = m => some = all) /\ \A i \in 1 .. n : some[i] = all[i]
  <2>1. \A i \in 1 .. n : all[i] \in Delivery
    BY <1>4 DEF m
  <2>2. /\ SubSeq(all, 1, n) \in Seq(Delivery)
        /\ Len(SubSeq(all, 1, n)) = IF 1 <= n THEN n - 1 + 1 ELSE 0
        /\ \A i \in 1 .. n - 1 + 1 : SubSeq(all, 1, n)[i] = all[1 + i - 1]
    <3>1. 1 \in Int /\ n \in Int
      BY <1>4
    <3> QED BY <2>1, <3>1, SubSeqProperties
  <2>3. n = m => some = all
    BY SubSeqFull DEF m
  <2>4. n - 1 + 1 = n /\ \A i \in 1 .. n : 1 + i - 1 = i
    BY <1>4
  <2> HIDE DEF some
  <2>5. Len(some) = n
    BY <1>4, <2>2, <2>4 DEF some
  <2>6. \A i \in 1 .. n : some[i] = all[i]
    BY <2>2, <2>4 DEF some
  <2> QED BY <2>2, <2>3, <2>5, <2>6 DEF some
<1> HIDE DEF q, l, some
<1>6. /\ u \in Seq(Delivery) /\ Len(u) = l + n
      /\ (\A i \in 1 .. l : u[i] = q[i]) /\ \A i \in 1 .. n : u[l + i] = some[i]
  <2>1. /\ u \in Seq(Delivery) /\ Len(u) = Len(q) + Len(some)
        /\ \A i \in 1 .. Len(q) + Len(some) : u[i] = IF i <= Len(q) THEN q[i] ELSE some[i - Len(q)]
    BY <1>2, <1>5, ConcatProperties
  <2>2. (\A i \in 1 .. l : i \in 1 .. l + n /\ i <= l) /\ \A i \in 1 .. n : l + i \in 1 .. l + n /\ ~(l + i <= l) /\ (l + i) - l = i
    BY <1>4
  <2>3. Len(some) = n
    BY <1>5
  <2> HIDE DEF u
  <2> QED BY <2>1, <2>2, <2>3 DEF l
<1>7. /\ v \in Seq(Delivery) /\ Len(v) = l + m
      /\ (\A i \in 1 .. l : v[i] = q[i]) /\ \A i \in 1 .. m : v[l + i] = all[i]
  BY <1>2, <1>4 DEF l, m
<1>8. n = m => u = v
  BY <1>5
<1> HIDE DEF u, v
<1>9. IsPrefix(u, v)
  <2>1. Len(u) <= Len(v)
    BY <1>4, <1>6, <1>7
  <2>2. ASSUME NEW i \in 1 .. Len(u) PROVE u[i] = v[i]
    <3>1. CASE i <= l
      <4>1. i \in 1 .. l
        BY <1>4, <1>6, <3>1
      <4> QED BY <1>6, <1>7, <4>1
    <3>2. CASE i > l
      <4>1. i - l \in 1 .. n /\ i - l \in 1 .. m /\ l + (i - l) = i
        BY <1>4, <1>6, <3>2
      <4>2. u[l + (i - l)] = all[i - l] /\ v[l + (i - l)] = all[i - l]
        BY <1>5, <1>6, <1>7, <4>1
      <4> QED BY <4>1, <4>2
    <3> QED BY <1>4, <1>6, <3>1, <3>2
  <2> QED BY <1>6, <1>7, <2>1, <2>2, PrefixIs
<1>10. TotalSize(u, l + n) = TotalSize(q, l) + TotalSize(some, n)
  <2>1. Sized(u, l + n) /\ Sized(u, l) /\ Sized(q, l) /\ Sized(some, n)
    <3>1. l + n \in 0 .. Len(u) /\ l \in 0 .. Len(u) /\ l \in 0 .. Len(q) /\ n \in 0 .. Len(some)
      BY <1>4, <1>5, <1>6 DEF l
    <3> QED BY <1>2, <1>5, <1>6, <3>1, AllSized
  <2>2. TotalSize(u, l + n) = TotalSize(u, l) + TotalSize(some, n)
    <3>1. l \in Nat /\ n \in Nat /\ \A i \in 1 .. n : u[l + i] = some[i]
      BY <1>4, <1>6
    <3>2. Follows(u, some, l, n)
      BY <3>1 DEF Follows
    <3> QED BY <2>1, <3>1, <3>2, TotalShift
  <2>3. TotalSize(u, 0 + l) = TotalSize(u, 0) + TotalSize(q, l)
    <3>1. 0 + l = l /\ 0 \in Nat /\ \A i \in 1 .. l : 0 + i = i
      BY <1>4
    <3>2. \A i \in 1 .. l : u[0 + i] = q[i]
      BY <1>6, <3>1
    <3> QED BY <1>4, <2>1, <3>1, <3>2, TotalShift DEF Follows
  <2>4. TotalSize(u, 0) = 0 /\ 0 + l = l
    <3>1. Sized(u, 0)
      BY DEF Sized
    <3> QED BY <1>4, <3>1, TotalMore
  <2>5. TotalSize(q, l) \in Nat
    BY <1>4, <2>1, TotalMore
  <2> QED BY <2>2, <2>3, <2>4, <2>5
<1>11. TotalSize(some, n) = TotalSize(all, n)
  <2>1. Sized(some, n) /\ Sized(all, n)
    <3>1. n \in 0 .. Len(some) /\ n \in 0 .. Len(all)
      BY <1>4, <1>5 DEF m
    <3> QED BY <1>5, <3>1, AllSized
  <2>2. TotalSize(some, 0 + n) = TotalSize(some, 0) + TotalSize(all, n)
    <3>1. 0 + n = n /\ 0 \in Nat /\ \A i \in 1 .. n : 0 + i = i
      BY <1>4
    <3>2. \A i \in 1 .. n : some[0 + i] = all[i]
      BY <1>5, <3>1
    <3> QED BY <1>4, <2>1, <3>1, <3>2, TotalShift DEF Follows
  <2>3. TotalSize(some, 0) = 0 /\ 0 + n = n
    <3>1. Sized(some, 0)
      BY DEF Sized
    <3> QED BY <1>4, <3>1, TotalMore
  <2>4. TotalSize(all, n) \in Nat
    BY <1>4, <2>1, TotalMore
  <2> QED BY <2>2, <2>3, <2>4
<1>12. TotalSize(all, k) >= TotalSize(all, n) /\ TotalSize(all, k) \in Nat /\ TotalSize(all, n) \in Nat
  <2>1. \A x \in 0 .. m : Sized(all, x)
    BY AllSized DEF m
  <2>2. \A x \in 0 .. m : /\ TotalSize(all, x) \in Nat
                          /\ x # 0 => TotalSize(all, x) = TotalSize(all, x - 1) + Size(all[x])
    BY <1>4, <2>1, TotalMore
  <2> DEFINE P == {d \in Nat : n + d <= m => TotalSize(all, n + d) >= TotalSize(all, n)}
  <2>3. 0 \in P
    <3>1. n + 0 = n /\ n \in 0 .. m
      BY <1>4
    <3>2. TotalSize(all, n) \in Nat
      BY <2>2, <3>1
    <3> QED BY <3>1, <3>2
  <2>4. ASSUME NEW d \in Nat, d \in P PROVE d + 1 \in P
    <3> SUFFICES ASSUME n + (d + 1) <= m PROVE TotalSize(all, n + (d + 1)) >= TotalSize(all, n)
      OBVIOUS
    <3>1. /\ n + (d + 1) \in 0 .. m /\ n + (d + 1) # 0 /\ (n + (d + 1)) - 1 = n + d /\ n + d \in 0 .. m
          /\ n \in 0 .. m /\ n + (d + 1) \in 1 .. m
      BY <1>4
    <3>2. Size(all[n + (d + 1)]) \in Nat
      <4>1. m \in 0 .. m
        BY <1>4
      <4> QED BY <2>1, <3>1, <4>1 DEF Sized
    <3>3. TotalSize(all, n + (d + 1)) = TotalSize(all, n + d) + Size(all[n + (d + 1)])
      BY <2>2, <3>1
    <3>4. TotalSize(all, n + d) >= TotalSize(all, n)
      BY <2>4, <3>1
    <3>5. TotalSize(all, n + d) \in Nat /\ TotalSize(all, n) \in Nat
      BY <2>2, <3>1
    <3> QED BY <3>2, <3>3, <3>4, <3>5
  <2>5. Nat \subseteq P
    <3> HIDE DEF P
    <3> QED BY <2>3, <2>4, SetInduction
  <2>6. k - n \in P /\ n + (k - n) = k
    BY <1>4, <2>5
  <2>7. k \in 0 .. m /\ n \in 0 .. m
    BY <1>4
  <2> QED BY <1>4, <2>2, <2>6, <2>7
<1>13. n = m => k = n
  BY <1>4
<1>14. TotalSize(q, l) \in Nat
  BY <1>2 DEF l
<1> DEFINE a == TotalSize(all, k)
<1>15. /\ w + a \in Nat /\ w + a >= t + TotalSize(u, Len(u))
       /\ on => w + a = t + TotalSize(u, Len(u))
  <2>1. TotalSize(u, Len(u)) = TotalSize(q, l) + TotalSize(all, n)
    BY <1>6, <1>10, <1>11
  <2>2. on => n = m
    BY DEF m
  <2> QED BY <1>2, <1>3, <1>12, <1>13, <1>14, <2>1, <2>2
<1>16. on => u = v
  BY <1>8 DEF m
<1>17. Fine(EndWith(e.held, u, w + a, t, v, e.channels, e.patterns), on)
  BY <1>2, <1>6, <1>7, <1>9, <1>15, <1>16, FineIs
<1> QED BY <1>1, <1>17 DEF u, v, some, q, w, t
-----------------------------------------------------------------------------
(***************************************************************************)
(* What a subscription is due.                                             *)
(***************************************************************************)
\* A change's channel reaches no subscription that does not listen for changes.
LEMMA Unheard ==
    ASSUME NEW chs \in SUBSET Text, NEW pats \in SUBSET Text, NEW ch \in Text,
           IsPrefix(Reserved, ch), ~hears_keys(chs, pats)
    PROVE  ch \notin chs /\ {p \in pats : Means(p, ch)} = {}
<1>1. ch \notin chs
  BY DEF hears_keys
<1>2. ASSUME NEW p \in pats, Means(p, ch) PROVE FALSE
  <2> DEFINE s == literal_prefix(p)
             r == Reserved
  <2>1. s \in Text /\ IsPrefix(s, ch)
    BY <1>2, StartsWith
  <2>2. r \in Text
    BY DEF Reserved, Text
  <2>3. ~IsPrefix(r, s) /\ ~IsPrefix(s, r)
    BY DEF hears_keys
  <2> HIDE DEF s, r
  <2>4. /\ s \in Seq(Nat) /\ r \in Seq(Nat) /\ ch \in Seq(Nat)
        /\ Len(s) \in Nat /\ Len(r) \in Nat /\ Len(ch) \in Nat
    BY <2>1, <2>2 DEF Text
  <2>5. /\ Len(s) <= Len(ch) /\ \A i \in 1 .. Len(s) : s[i] = ch[i]
        /\ Len(r) <= Len(ch) /\ \A i \in 1 .. Len(r) : r[i] = ch[i]
    <3>1. IsPrefix(r, ch)
      BY DEF r
    <3> QED BY <2>1, <2>4, <3>1, PrefixIs
  <2>6. CASE Len(s) <= Len(r)
    <3>1. \A i \in 1 .. Len(s) : s[i] = r[i]
      BY <2>4, <2>5, <2>6
    <3> QED BY <2>3, <2>4, <2>6, <3>1, PrefixIs
  <2>7. CASE Len(r) <= Len(s)
    <3>1. \A i \in 1 .. Len(r) : r[i] = s[i]
      BY <2>4, <2>5, <2>7
    <3> QED BY <2>3, <2>4, <2>7, <3>1, PrefixIs
  <2> QED BY <2>4, <2>6, <2>7
<1> QED BY <1>1, <1>2
-----------------------------------------------------------------------------
\* The subscription of a connection that has one.
SubOf(c) == [conn |-> c, channels |-> conns[c].channels, patterns |-> conns[c].patterns,
             keys |-> hears_keys(conns[c].channels, conns[c].patterns)]
On(c) == alive(c) /\ Subscribed(c)

\* Each connection's end is right, and each subscription in use is its connection's.
ChannelsInv ==
    /\ conns \in [Conn -> End]
    /\ \A c \in Conn : Fine(conns[c], On(c))
    /\ \A s \in channels : s.conn \in Conn /\ (alive(s.conn) => s = SubOf(s.conn))

\* What a connection is due of messages.
Dues(c, ms) == [i \in DOMAIN ms |-> Due(c, ms[i][1], ms[i][2])]

\* What a message comes to for a subscription: none, when the subscription
\* does not hear keys and the channel is reserved (broker.rs hears_keys).
LEMMA DueIs ==
    ASSUME ChannelsInv, NEW c \in Conn, NEW ch \in Text, NEW msg \in Text
    PROVE  /\ Due(c, ch, msg) \in Seq(Delivery)
           /\ IsPrefix(Reserved, ch) /\ ~SubOf(c).keys => Due(c, ch, msg) = <<>>
<1> DEFINE chs == conns[c].channels
           pats == conns[c].patterns
           P == {p \in pats : Means(p, ch)}
<1>1. chs \in SUBSET Text /\ pats \in SUBSET Text /\ IsFiniteSet(pats)
  <2>1. conns[c] \in End
    BY DEF ChannelsInv
  <2>2. chs \in SUBSET Text /\ pats \in Patterns
    BY <2>1, EndIs
  <2> QED BY <2>2 DEF Patterns
<1>2. P \in Patterns
  <2>1. P \in SUBSET pats /\ P \in SUBSET Text
    BY <1>1
  <2> HIDE DEF P, pats
  <2> QED BY <1>1, <2>1, FS_Subset DEF Patterns
<1>3. SubOf(c).keys = hears_keys(chs, pats)
  BY DEF SubOf
<1>4. Due(c, ch, msg) = IF can_receive(Scope(c), ch, msg) THEN Delivered(ch \in chs, P, ch, msg) ELSE <<>>
  BY DEF Due
<1> HIDE DEF chs, pats, P
<1>5. Delivered(ch \in chs, P, ch, msg) \in Seq(Delivery)
  BY <1>2, DeliveredIs
<1>6. ASSUME IsPrefix(Reserved, ch), ~SubOf(c).keys PROVE Delivered(ch \in chs, P, ch, msg) = <<>>
  <2>1. ch \notin chs /\ P = {}
    BY <1>1, <1>3, <1>6, Unheard DEF P
  <2> QED BY <1>2, <2>1, DeliveredIs
<1> QED BY <1>4, <1>5, <1>6

\* What some messages come to for a subscription.
LEMMA DuesAre ==
    ASSUME ChannelsInv, NEW c \in Conn, NEW ms \in Seq(Message)
    PROVE  /\ FlattenSeq(Dues(c, ms)) \in Seq(Delivery)
           /\ DeliveriesOf(SubOf(c), ms) = FlattenSeq(Dues(c, ms))
           /\ (\A i \in DOMAIN ms : IsPrefix(Reserved, ms[i][1])) /\ ~SubOf(c).keys => FlattenSeq(Dues(c, ms)) = <<>>
<1> DEFINE D == Dues(c, ms)
<1>0. DOMAIN ms = 1 .. Len(ms) /\ Len(ms) \in Nat /\ \A i \in DOMAIN ms : ms[i][1] \in Text /\ ms[i][2] \in Text
  <2>1. \A i \in DOMAIN ms : ms[i] \in Message
    OBVIOUS
  <2>2. \A m \in Message : m[1] \in Text /\ m[2] \in Text
    BY DEF Message
  <2> QED BY <2>1, <2>2
<1>1. \A i \in DOMAIN ms : /\ Due(c, ms[i][1], ms[i][2]) \in Seq(Delivery)
                           /\ IsPrefix(Reserved, ms[i][1]) /\ ~SubOf(c).keys => Due(c, ms[i][1], ms[i][2]) = <<>>
  BY <1>0, DueIs
<1>2. D \in [1 .. Len(ms) -> Seq(Delivery)]
  BY <1>0, <1>1 DEF Dues
<1>3. D \in Seq(Seq(Delivery)) /\ Len(D) = Len(ms) /\ \A i \in 1 .. Len(ms) : D[i] = Due(c, ms[i][1], ms[i][2])
  <2>1. D \in Seq(Seq(Delivery))
    BY <1>0, <1>2, SeqDef
  <2>2. DOMAIN D = 1 .. Len(ms) /\ DOMAIN D = 1 .. Len(D) /\ Len(D) \in Nat
    BY <1>2, <2>1, LenProperties
  <2>3. Len(D) = Len(ms)
    BY <1>0, <2>2
  <2> QED BY <1>0, <2>1, <2>3 DEF Dues
<1>4. FlattenSeq(D) \in Seq(Delivery)
  <2> HIDE DEF D
  <2> QED BY <1>3, FlatIs
<1>5. ASSUME \A i \in DOMAIN ms : IsPrefix(Reserved, ms[i][1]), ~SubOf(c).keys
      PROVE  FlattenSeq(D) = <<>>
  <2>1. \A i \in 1 .. Len(D) : D[i] = <<>>
    BY <1>0, <1>1, <1>3, <1>5
  <2> HIDE DEF D
  <2> QED BY <1>3, <2>1, FlatIs
<1>6. DeliveriesOf(SubOf(c), ms) = FlattenSeq(D)
  <2> DEFINE s == SubOf(c)
             reaches(m) == /\ ~(IsPrefix(Reserved, m[1]) /\ ~s.keys)
                           /\ can_receive(Scope(s.conn), m[1], m[2])
             sent(i) == IF reaches(ms[i])
                        THEN Delivered(ms[i][1] \in s.channels, {p \in s.patterns : matches(p, ms[i][1])},
                                       ms[i][1], ms[i][2])
                        ELSE <<>>
  <2>1. DeliveriesOf(s, ms) = FlattenSeq([i \in DOMAIN ms |-> sent(i)])
    BY DEF DeliveriesOf
  <2>2. s.conn = c /\ s.channels = conns[c].channels /\ s.patterns = conns[c].patterns
    BY DEF SubOf
  <2>3. ASSUME NEW i \in DOMAIN ms PROVE sent(i) = Due(c, ms[i][1], ms[i][2])
    <3> DEFINE ch == ms[i][1]
               msg == ms[i][2]
    <3>1. ch \in Text /\ msg \in Text
      BY <1>0
    <3>2. \A p \in conns[c].patterns : p \in Text
      <4>1. conns[c] \in End
        BY DEF ChannelsInv
      <4>2. conns[c].patterns \in Patterns
        BY <4>1, EndIs
      <4> QED BY <4>2 DEF Patterns
    <3> HIDE DEF s
    <3>3. {p \in s.patterns : matches(p, ch)} = {p \in conns[c].patterns : Means(p, ch)}
      BY <2>2, <3>1, <3>2, MatchesMeans
    <3>4. CASE IsPrefix(Reserved, ch) /\ ~s.keys
      <4>1. sent(i) = <<>>
        BY <3>4
      <4> QED BY <1>1, <3>4, <4>1 DEF s
    <3>5. CASE ~(IsPrefix(Reserved, ch) /\ ~s.keys)
      <4>1. sent(i) = IF can_receive(Scope(c), ch, msg)
                      THEN Delivered(ch \in s.channels, {p \in s.patterns : matches(p, ch)}, ch, msg)
                      ELSE <<>>
        BY <2>2, <3>5
      <4> HIDE DEF sent
      <4> QED BY <2>2, <3>3, <4>1 DEF Due
    <3> QED BY <3>4, <3>5
  <2> HIDE DEF sent, s
  <2>4. [i \in DOMAIN ms |-> sent(i)] = D
    BY <2>3 DEF Dues
  <2> QED BY <2>1, <2>4 DEF s
<1> QED BY <1>4, <1>5, <1>6
-----------------------------------------------------------------------------
\* What handing over the deliveries all makes of an end: some of them are put in
\* its queue, and they, with at most more of those that follow, are counted.
Took(e, all, h) ==
    \E n \in 0 .. Len(all) : \E k \in n .. Len(all) :
       /\ h.queue = e.queue \o SubSeq(all, 1, n)
       /\ h.waiting = e.waiting + TotalSize(all, k)
       /\ h.kept <=> n = Len(all)

\* A subscription is handed what it is due up to the first that does not fit
\* (broker.rs publish).
LEMMA HandedIs ==
    ASSUME ChannelsInv, NEW c \in Conn, NEW ms \in Seq(Message)
    PROVE  Took(conns[c], FlattenSeq(Dues(c, ms)), Handed(SubOf(c), ms))
<1> DEFINE all == FlattenSeq(Dues(c, ms))
           e == conns[c]
           fits(n) == \A i \in 1 .. n : Len(e.queue) + i <= setup.buffer /\ BytesFit(e, all, i)
           S == {n \in 0 .. Len(all) : fits(n)}
           n == Fitting(e, all)
           k == IF n < Len(all) /\ BytesFit(e, all, n + 1) THEN n + 1 ELSE n
           m == Len(all)
<1>1. all \in Seq(Delivery) /\ DeliveriesOf(SubOf(c), ms) = all
  BY DuesAre
<1>2. m \in Nat
  <2> HIDE DEF all
  <2> QED BY <1>1
<1>3. n \in 0 .. m
  <2>1. n = Max(S)
    BY DEF Fitting
  <2>2. 0 \in S
    <3>1. 0 \in 0 .. m
      BY <1>2
    <3>2. fits(0)
      OBVIOUS
    <3> HIDE DEF fits, all
    <3> QED BY <3>1, <3>2
  <2>3. S \in SUBSET (0 .. m) /\ S # {}
    BY <2>2
  <2> HIDE DEF S, n, m
  <2>4. Max(S) \in S
    BY <1>2, <2>3, GreatestOf
  <2> QED BY <2>1, <2>3, <2>4
<1>4. k \in n .. m
  <2> HIDE DEF n, all
  <2> QED BY <1>2, <1>3
<1>5. SubOf(c).conn = c
  BY DEF SubOf
<1>6. Handed(SubOf(c), ms) = [queue |-> e.queue \o SubSeq(all, 1, n),
                              waiting |-> e.waiting + TotalSize(all, k), kept |-> n = Len(all)]
  <2> HIDE DEF all
  <2> QED BY <1>1, <1>5 DEF Handed, Taking
<1> DEFINE h == Handed(SubOf(c), ms)
<1>7. /\ h.queue = e.queue \o SubSeq(all, 1, n)
      /\ h.waiting = e.waiting + TotalSize(all, k)
      /\ h.kept <=> n = Len(all)
  <2> DEFINE a == e.queue \o SubSeq(all, 1, n)
             b == e.waiting + TotalSize(all, k)
             d == n = Len(all)
  <2> HIDE DEF h
  <2>1. h = [queue |-> a, waiting |-> b, kept |-> d]
    <3> HIDE DEF n, k, all, e
    <3> QED BY <1>6 DEF h
  <2> HIDE DEF a, b, d
  <2>2. h.queue = a /\ h.waiting = b /\ h.kept = d
    BY <2>1
  <2> HIDE DEF n, k, all, e
  <2> QED BY <2>2 DEF a, b, d
<1> HIDE DEF n, k, all, e, h
<1> QED BY <1>3, <1>4, <1>7 DEF Took, m, h, all, e

\* An end that is handed what is published is as it should be.
LEMMA FinePublished ==
    ASSUME NEW e, Fine(e, TRUE), NEW all \in Seq(Delivery), NEW h, Took(e, all, h),
           NEW on \in BOOLEAN, on => h.kept
    PROVE  /\ Fine(Publishes(e, h.queue, h.waiting, e.owed \o all), on)
           /\ Publishes(e, h.queue, h.waiting, e.owed \o all) =
                EndWith(e.held, h.queue, h.waiting, e.taken, e.owed \o all, e.channels, e.patterns)
<1>0. PICK n \in 0 .. Len(all) : \E k \in n .. Len(all) :
         /\ h.queue = e.queue \o SubSeq(all, 1, n)
         /\ h.waiting = e.waiting + TotalSize(all, k)
         /\ h.kept <=> n = Len(all)
  BY DEF Took
<1>1. PICK k \in n .. Len(all) :
         /\ h.queue = e.queue \o SubSeq(all, 1, n)
         /\ h.waiting = e.waiting + TotalSize(all, k)
         /\ h.kept <=> n = Len(all)
  BY <1>0
<1>2. on => n = Len(all)
  BY <1>1
<1>3. e \in End
  BY FineOff
<1>4. Publishes(e, h.queue, h.waiting, e.owed \o all) =
         EndWith(e.held, h.queue, h.waiting, e.taken, e.owed \o all, e.channels, e.patterns)
  BY <1>3, EndChanges
<1>5. Fine(EndWith(e.held, e.queue \o SubSeq(all, 1, n), e.waiting + TotalSize(all, k), e.taken,
                   e.owed \o all, e.channels, e.patterns), on)
  BY <1>2, FineHanded
<1>6. Fine(EndWith(e.held, h.queue, h.waiting, e.taken, e.owed \o all, e.channels, e.patterns), on)
  BY <1>1, <1>5
<1> QED BY <1>4, <1>6

\* What each step does to an end, and to what is subscribed, keeps the rest.
LEMMA ChannelsKept ==
    ASSUME ChannelsInv, conns' \in [Conn -> End],
           \A s \in channels' : s.conn \in Conn /\ (conns'[s.conn].held => s = SubOf(s.conn)'),
           \A c \in Conn : Fine(conns'[c], conns'[c].held /\ (\E s \in channels' : s.conn = c))
    PROVE  ChannelsInv'
  BY DEF ChannelsInv, On, alive, Subscribed

\* Publishing keeps every subscription as it should be (broker.rs publish).
LEMMA PublishKeeps ==
    ASSUME ChannelsInv, NEW ms \in Seq(Message), Publish(ms)
    PROVE  ChannelsInv'
<1> DEFINE handed == [s \in live_channels |-> Handed(s, ms)]
           now(c) == LET h == handed[CHOOSE s \in live_channels : s.conn = c]
                     IN  Publishes(conns[c], h.queue, h.waiting, Owed(c, ms))
<1>1. /\ channels' = {s \in live_channels : handed[s].kept}
      /\ conns' = [c \in Conn |-> IF ~alive(c) \/ ~Subscribed(c) THEN conns[c] ELSE now(c)]
  <2>1. \E g \in {handed} :
           /\ channels' = {s \in live_channels : g[s].kept}
           /\ conns' = [c \in Conn |->
                  IF ~alive(c) \/ ~Subscribed(c) THEN conns[c]
                  ELSE LET h == g[CHOOSE s \in live_channels : s.conn = c]
                       IN  Publishes(conns[c], h.queue, h.waiting, Owed(c, ms))]
    BY ZenonT(30) DEF Publish, Publishes
  <2> HIDE DEF handed
  <2>2. PICK g \in {handed} :
           /\ channels' = {s \in live_channels : g[s].kept}
           /\ conns' = [c \in Conn |->
                  IF ~alive(c) \/ ~Subscribed(c) THEN conns[c]
                  ELSE LET h == g[CHOOSE s \in live_channels : s.conn = c]
                       IN  Publishes(conns[c], h.queue, h.waiting, Owed(c, ms))]
    BY <2>1
  <2>3. g = handed
    OBVIOUS
  <2> QED BY <2>2, <2>3
<1>2. \A s \in live_channels : s \in channels /\ s.conn \in Conn /\ alive(s.conn) /\ s = SubOf(s.conn)
  BY DEF live_channels, ChannelsInv
<1>3. \A c \in Conn : Fine(conns[c], On(c)) /\ conns[c] \in End
  BY DEF ChannelsInv, Fine
<1>4. ASSUME NEW c \in Conn, On(c) 
      PROVE  /\ SubOf(c) \in live_channels /\ SubOf(c).conn = c
             /\ (CHOOSE s \in live_channels : s.conn = c) = SubOf(c)
  <2>1. PICK s \in channels : s.conn = c
    BY <1>4 DEF On, Subscribed
  <2>2. s \in live_channels /\ s = SubOf(c)
    BY <1>2, <1>4, <2>1 DEF On, live_channels
  <2>3. \A t \in live_channels : t.conn = c => t = SubOf(c)
    BY <1>2
  <2> QED BY <2>1, <2>2, <2>3
<1>5. ASSUME NEW c \in Conn, On(c)
      PROVE  /\ now(c).held = conns[c].held /\ now(c).channels = conns[c].channels
             /\ now(c).patterns = conns[c].patterns
             /\ \A on \in BOOLEAN : (on => handed[SubOf(c)].kept) => Fine(now(c), on)
  <2> DEFINE all == FlattenSeq(Dues(c, ms))
             h == Handed(SubOf(c), ms)
             e == conns[c]
             x == Publishes(e, h.queue, h.waiting, e.owed \o all)
  <2>1. all \in Seq(Delivery) /\ Took(e, all, h)
    BY DuesAre, HandedIs
  <2>2. handed[SubOf(c)] = h
    BY <1>4, <1>5
  <2>3. Owed(c, ms) = e.owed \o all
    BY DEF Owed, Dues
  <2>4. now(c) = x
    BY <1>4, <1>5, <2>2, <2>3
  <2>5. Fine(e, TRUE)
    BY <1>3, <1>5
  <2> HIDE DEF all, h, e, x, now, handed
  <2>9. x = Publishes(e, h.queue, h.waiting, e.owed \o all)
    BY DEF x
  <2>6. ASSUME NEW on \in BOOLEAN, on => h.kept
        PROVE  Fine(x, on) /\ x = EndWith(e.held, h.queue, h.waiting, e.taken, e.owed \o all, e.channels, e.patterns)
    BY <2>1, <2>5, <2>6, <2>9, FinePublished
  <2>7. x.held = e.held /\ x.channels = e.channels /\ x.patterns = e.patterns
    <3>1. FALSE => h.kept
      OBVIOUS
    <3>2. x = EndWith(e.held, h.queue, h.waiting, e.taken, e.owed \o all, e.channels, e.patterns)
      BY <2>6, <3>1
    <3> HIDE DEF x
    <3> QED BY <3>2 DEF EndWith
  <2> QED BY <2>2, <2>4, <2>6, <2>7 DEF e
<1>6. \A c \in Conn : conns'[c] = IF On(c) THEN now(c) ELSE conns[c]
  <2> HIDE DEF now, handed
  <2> QED BY <1>1 DEF On
<1> DEFINE kept(s) == handed[s].kept
<1>7. \A s \in channels' : s \in live_channels /\ kept(s)
  BY <1>1
<1>8. DOMAIN conns' = Conn /\ conns' = [c \in Conn |-> conns'[c]]
  <2> HIDE DEF now, handed
  <2> QED BY <1>1
<1> HIDE DEF now, handed, kept
<1>9. \A c \in Conn : /\ conns'[c].held = conns[c].held /\ conns'[c].channels = conns[c].channels
                      /\ conns'[c].patterns = conns[c].patterns
  BY <1>5, <1>6
<1>10. ASSUME NEW c \in Conn
       PROVE  Fine(conns'[c], conns'[c].held /\ \E s \in channels' : s.conn = c)
  <2> DEFINE on == conns'[c].held /\ \E s \in channels' : s.conn = c
  <2>1. on \in BOOLEAN
    BY <1>3, <1>9, EndIs
  <2>2. on => On(c) /\ kept(SubOf(c))
    BY <1>2, <1>7, <1>9 DEF On, alive, Subscribed
  <2> SUFFICES Fine(conns'[c], on)
    OBVIOUS
  <2> HIDE DEF on
  <2>3. CASE On(c)
    BY <1>5, <1>6, <2>1, <2>2, <2>3 DEF kept
  <2>4. CASE ~On(c)
    <3>1. conns'[c] = conns[c] /\ on = FALSE
      BY <1>6, <2>1, <2>2, <2>4
    <3>2. Fine(conns[c], FALSE)
      BY <1>3, FineOff
    <3> QED BY <3>1, <3>2
  <2> QED BY <2>3, <2>4 DEF on
<1>11. conns' \in [Conn -> End]
  <2>1. \A c \in Conn : conns'[c] \in End
    BY <1>10 DEF Fine
  <2> QED BY <1>8, <2>1
<1>12. ASSUME NEW s \in channels'
       PROVE  s.conn \in Conn /\ (conns'[s.conn].held => s = SubOf(s.conn)')
  <2>1. s \in live_channels /\ s.conn \in Conn /\ s = SubOf(s.conn)
    BY <1>2, <1>7
  <2> DEFINE c == s.conn
  <2>2. SubOf(c)' = SubOf(c)
    <3>1. conns'[c].channels = conns[c].channels /\ conns'[c].patterns = conns[c].patterns
      BY <1>9, <2>1
    <3> QED BY <3>1 DEF SubOf
  <2> QED BY <2>1, <2>2
<1> QED BY <1>10, <1>11, <1>12, ChannelsKept
-----------------------------------------------------------------------------
\* The channels a change of a key is announced on are reserved
\* (broker.rs notify).
LEMMA ReservedStarts ==
    \A x \in Text : /\ SpaceOf(x) \in Text /\ IsPrefix(Reserved, SpaceOf(x))
                    /\ EventOf(x) \in Text /\ IsPrefix(Reserved, EventOf(x))
<1> SUFFICES ASSUME NEW x \in Text
             PROVE  /\ SpaceOf(x) \in Text /\ IsPrefix(Reserved, SpaceOf(x))
                    /\ EventOf(x) \in Text /\ IsPrefix(Reserved, EventOf(x))
  OBVIOUS
<1>1. Reserved \in Seq(Nat) /\ Len(Reserved) = 2 /\ Reserved[1] = 95 /\ Reserved[2] = 107
  BY DEF Reserved
<1>2. ASSUME NEW s \in Seq(Nat), Len(s) = 4, s[1] = 95, s[2] = 107
      PROVE  s \o x \in Text /\ IsPrefix(Reserved, s \o x)
  <2> DEFINE u == s \o x
  <2>1. x \in Seq(Nat) /\ Len(x) \in Nat
    BY DEF Text
  <2>2. u \in Seq(Nat) /\ Len(u) = 4 + Len(x) /\ \A i \in 1 .. 4 : u[i] = s[i]
    <3>1. /\ u \in Seq(Nat) /\ Len(u) = Len(s) + Len(x)
          /\ \A i \in 1 .. Len(s) + Len(x) : u[i] = IF i <= Len(s) THEN s[i] ELSE x[i - Len(s)]
      BY <2>1, ConcatProperties
    <3>2. \A i \in 1 .. 4 : i \in 1 .. Len(s) + Len(x) /\ i <= Len(s)
      BY <1>2, <2>1
    <3> HIDE DEF u
    <3> QED BY <1>2, <3>1, <3>2
  <2> HIDE DEF u
  <2>3. Len(Reserved) <= Len(u)
    BY <1>1, <2>1, <2>2
  <2>4. \A i \in 1 .. Len(Reserved) : Reserved[i] = u[i]
    <3> SUFFICES ASSUME NEW i \in 1 .. Len(Reserved) PROVE Reserved[i] = u[i]
      OBVIOUS
    <3>1. i = 1 \/ i = 2
      BY <1>1
    <3>2. u[1] = s[1] /\ u[2] = s[2]
      BY <2>2
    <3> QED BY <1>1, <1>2, <3>1, <3>2
  <2>5. IsPrefix(Reserved, u)
    BY <1>1, <2>2, <2>3, <2>4, PrefixIs
  <2> QED BY <2>2, <2>5 DEF u, Text
<1> DEFINE a == KeySpace \o Colon
           b == KeyEvent \o Colon
<1>3. a \in Seq(Nat) /\ Len(a) = 4 /\ a[1] = 95 /\ a[2] = 107
  BY DEF KeySpace, Colon
<1>4. b \in Seq(Nat) /\ Len(b) = 4 /\ b[1] = 95 /\ b[2] = 107
  BY DEF KeyEvent, Colon
<1>5. SpaceOf(x) = a \o x /\ EventOf(x) = b \o x
  BY DEF SpaceOf, EventOf
<1> HIDE DEF a, b
<1> QED BY <1>2, <1>3, <1>4, <1>5

\* Changes of keys.
Change == [key : Text, event : Text]
KeyMessage == {m \in Message : IsPrefix(Reserved, m[1])}
Messages(events) ==
    FlattenSeq([i \in DOMAIN events |-> <<<<SpaceOf(events[i].key), events[i].event>>,
                                          <<EventOf(events[i].event), events[i].key>>>>])

\* Changes of keys are announced on reserved channels alone.
LEMMA MessagesAre ==
    ASSUME NEW events \in Seq(Change)
    PROVE  Messages(events) \in Seq(Message) /\ \A i \in DOMAIN Messages(events) : IsPrefix(Reserved, Messages(events)[i][1])
<1> DEFINE pair(i) == <<<<SpaceOf(events[i].key), events[i].event>>, <<EventOf(events[i].event), events[i].key>>>>
           D == [i \in DOMAIN events |-> pair(i)]
<1>1. ASSUME NEW i \in DOMAIN events PROVE pair(i) \in Seq(KeyMessage)
  <2>1. events[i] \in Change
    OBVIOUS
  <2>2. events[i].key \in Text /\ events[i].event \in Text
    BY <2>1 DEF Change
  <2> DEFINE a == <<SpaceOf(events[i].key), events[i].event>>
             b == <<EventOf(events[i].event), events[i].key>>
  <2>3. a \in KeyMessage
    BY <2>2, ReservedStarts DEF KeyMessage, Message
  <2>4. b \in KeyMessage
    BY <2>2, ReservedStarts DEF KeyMessage, Message
  <2> HIDE DEF a, b
  <2>5. <<a, b>> \in Seq(KeyMessage)
    BY <2>3, <2>4
  <2> QED BY <2>5 DEF a, b
<1> HIDE DEF pair
<1>2. D \in Seq(Seq(KeyMessage))
  <2>1. DOMAIN events = 1 .. Len(events) /\ Len(events) \in Nat
    OBVIOUS
  <2>2. D \in [1 .. Len(events) -> Seq(KeyMessage)]
    BY <1>1, <2>1
  <2> QED BY <2>1, <2>2, SeqDef
<1>3. Messages(events) = FlattenSeq(D)
  BY DEF Messages, pair
<1> HIDE DEF D
<1>4. FlattenSeq(D) \in Seq(KeyMessage)
  BY <1>2, FlatIs
<1> DEFINE ms == Messages(events)
<1> HIDE DEF ms
<1>5. ms \in Seq(KeyMessage)
  BY <1>3, <1>4 DEF ms
<1>6. ms \in Seq(Message)
  BY <1>5, SeqMonotonic DEF KeyMessage
<1>7. \A i \in DOMAIN ms : ms[i] \in KeyMessage
  BY <1>5
<1> QED BY <1>6, <1>7 DEF ms, KeyMessage

\* When no one listens for changes, there is nothing anyone is owed of them.
LEMMA NotifyKeeps ==
    ASSUME ChannelsInv, NEW events \in Seq(Change), notify(events)
    PROVE  ChannelsInv'
<1> DEFINE ms == Messages(events)
<1>1. \/ Publish(ms)
      \/ /\ ~\E s \in live_channels : s.keys
         /\ conns' = [c \in Conn |-> IF On(c) THEN Owes(conns[c], Owed(c, ms)) ELSE conns[c]]
         /\ UNCHANGED channels
  <2>1. \E g \in {Messages(events)} :
           IF \E s \in live_channels : s.keys
           THEN Publish(g)
           ELSE /\ conns' = [c \in Conn |-> IF On(c) THEN Owes(conns[c], Owed(c, g)) ELSE conns[c]]
                /\ UNCHANGED channels
    BY ZenonT(30) DEF notify, Messages, On, Owes
  <2> HIDE DEF ms
  <2> QED BY <2>1 DEF ms
<1>2. ms \in Seq(Message) /\ \A i \in DOMAIN ms : IsPrefix(Reserved, ms[i][1])
  BY MessagesAre
<1> HIDE DEF ms
<1>3. CASE Publish(ms)
  BY <1>2, <1>3, PublishKeeps
<1>4. CASE /\ ~\E s \in live_channels : s.keys
           /\ conns' = [c \in Conn |-> IF On(c) THEN Owes(conns[c], Owed(c, ms)) ELSE conns[c]]
           /\ UNCHANGED channels
  <2>1. conns \in [Conn -> End]
    BY DEF ChannelsInv
  <2>2. ASSUME NEW c \in Conn, On(c) PROVE Owes(conns[c], Owed(c, ms)) = conns[c]
    <3>1. PICK s \in channels : s.conn = c
      BY <2>2 DEF On, Subscribed
    <3>2. s = SubOf(c) /\ s \in live_channels
      BY <2>2, <3>1 DEF ChannelsInv, On, live_channels
    <3>3. ~SubOf(c).keys
      BY <1>4, <3>2
    <3>4. FlattenSeq(Dues(c, ms)) = <<>>
      BY <1>2, <3>3, DuesAre
    <3>5. Owed(c, ms) = conns[c].owed \o FlattenSeq(Dues(c, ms))
      BY DEF Owed, Dues
    <3> DEFINE e == conns[c]
    <3>6. e \in End
      BY <2>1
    <3> HIDE DEF e
    <3>7. e.owed \in Seq(Delivery)
      BY <3>6, EndIs
    <3>8. e.owed \o <<>> = e.owed
      BY <3>7
    <3>9. Owes(e, e.owed) = e
      <4>1. Owes(e, e.owed) = EndWith(e.held, e.queue, e.waiting, e.taken, e.owed, e.channels, e.patterns)
        BY <3>6, EndChanges
      <4> QED BY <3>6, <4>1, EndIs
    <3>10. Owed(c, ms) = e.owed
      BY <3>4, <3>5, <3>8 DEF e
    <3> QED BY <3>9, <3>10 DEF e
  <2>3. conns' = conns
    BY <1>4, <2>1, <2>2
  <2> QED BY <1>4, <2>3 DEF ChannelsInv, On, SubOf, alive, Subscribed
<1> QED BY <1>1, <1>3, <1>4
-----------------------------------------------------------------------------
\* A step of one connection's end.
LEMMA EndKeeps ==
    ASSUME ChannelsInv, NEW c \in Conn, NEW e,
           conns' = [x \in Conn |-> IF x = c THEN e ELSE conns[x]],
           \A s \in channels' : s \in channels \/ (s.conn = c /\ e.held /\ s = SubOf(c)'),
           \A s \in channels' : s.conn = c /\ e.held => s = SubOf(c)',
           Fine(e, e.held /\ \E s \in channels' : s.conn = c)
    PROVE  ChannelsInv'
<1>1. \A x \in Conn : conns'[x] = IF x = c THEN e ELSE conns[x]
  OBVIOUS
<1>2. \A x \in Conn : conns[x] \in End /\ Fine(conns[x], On(x))
  BY DEF ChannelsInv
<1>3. e \in End
  BY DEF Fine
<1>4. conns' \in [Conn -> End]
  BY <1>2, <1>3
<1>5. ASSUME NEW x \in Conn PROVE Fine(conns'[x], conns'[x].held /\ \E s \in channels' : s.conn = x)
  <2>1. CASE x = c
    BY <1>1, <2>1
  <2>2. CASE x # c
    <3> DEFINE on == conns'[x].held /\ \E s \in channels' : s.conn = x
    <3>1. on => On(x)
      BY <1>1, <2>2 DEF On, alive, Subscribed
    <3>2. conns'[x] = conns[x] /\ on \in BOOLEAN
      BY <1>1, <1>2, <2>2, EndIs
    <3> SUFFICES Fine(conns'[x], on)
      OBVIOUS
    <3> HIDE DEF on
    <3>3. CASE on
      <4>1. on = TRUE /\ On(x) = TRUE
        BY <3>1, <3>2, <3>3, <1>2, EndIs DEF On, alive
      <4> QED BY <1>2, <3>2, <4>1
    <3>4. CASE ~on
      <4>1. on = FALSE
        BY <3>2, <3>4
      <4>2. Fine(conns[x], FALSE)
        BY <1>2, FineOff
      <4> QED BY <3>2, <4>1, <4>2
    <3> QED BY <3>3, <3>4
  <2> QED BY <2>1, <2>2
<1>6. ASSUME NEW s \in channels' PROVE s.conn \in Conn /\ (conns'[s.conn].held => s = SubOf(s.conn)')
  <2>1. CASE s.conn = c
    BY <1>1, <2>1
  <2>2. CASE s.conn # c
    <3>1. s \in channels /\ s.conn \in Conn
      BY <2>2 DEF ChannelsInv
    <3>2. conns'[s.conn] = conns[s.conn]
      BY <1>1, <2>2, <3>1
    <3>3. conns'[s.conn].held => s = SubOf(s.conn)
      BY <3>1, <3>2 DEF ChannelsInv, alive
    <3>4. SubOf(s.conn)' = SubOf(s.conn)
      BY <3>2 DEF SubOf
    <3> QED BY <3>1, <3>3, <3>4
  <2> QED BY <2>1, <2>2
<1> QED BY <1>4, <1>5, <1>6, ChannelsKept

\* A connection's thread keeps its subscription as it should be.
LEMMA ThreadKeeps ==
    ASSUME ChannelsInv, NEW c \in Conn, take(c) \/ count_off(c)
    PROVE  ChannelsInv'
<1> DEFINE e == conns[c]
           on == On(c)
<1>0. conns \in [Conn -> End] /\ e \in End /\ Fine(e, on) /\ on \in BOOLEAN
  BY EndIs DEF ChannelsInv, On, alive
<1>1. ASSUME NEW f, conns' = [x \in Conn |-> IF x = c THEN f ELSE conns[x]], channels' = channels,
             f.held = e.held, f.channels = e.channels, f.patterns = e.patterns, Fine(f, on)
      PROVE  ChannelsInv'
  <2>1. conns'[c] = f
    BY <1>1
  <2>2. SubOf(c)' = SubOf(c)
    BY <1>1, <2>1 DEF SubOf
  <2>3. \A s \in channels' : s.conn = c /\ f.held => s = SubOf(c)'
    BY <1>1, <2>2 DEF ChannelsInv, alive
  <2>4. (f.held /\ \E s \in channels' : s.conn = c) <=> on
    BY <1>1 DEF On, alive, Subscribed
  <2>5. (f.held /\ \E s \in channels' : s.conn = c) = on
    BY <1>0, <1>1, <2>4, EndIs
  <2>6. Fine(f, f.held /\ \E s \in channels' : s.conn = c)
    BY <1>1, <2>5
  <2> QED BY <1>1, <2>3, <2>6, EndKeeps
<1>2. CASE take(c)
  <2> DEFINE f == Takes(e, Tail(e.queue), Tail(e.owed), Size(Head(e.queue)))
  <2>1. conns' = [conns EXCEPT ![c] = f] /\ channels' = channels /\ e.taken = 0 /\ e.queue # <<>>
    BY <1>2 DEF take, Takes, Taken
  <2> HIDE DEF e, on
  <2>2. f = EndWith(e.held, Tail(e.queue), e.waiting, Size(Head(e.queue)), Tail(e.owed), e.channels, e.patterns)
    BY <1>0, EndChanges
  <2>3. Fine(f, on)
    BY <1>0, <2>1, <2>2, FineTaken
  <2> HIDE DEF f
  <2>4. f.held = e.held /\ f.channels = e.channels /\ f.patterns = e.patterns
    BY <2>2 DEF EndWith
  <2>5. conns' = [x \in Conn |-> IF x = c THEN f ELSE conns[x]]
    BY <1>0, <2>1
  <2> QED BY <1>1, <2>1, <2>3, <2>4, <2>5
<1>3. CASE count_off(c)
  <2> DEFINE f == Counts(e, e.waiting - e.taken, 0)
  <2>1. conns' = [conns EXCEPT ![c] = f] /\ channels' = channels
    BY <1>3 DEF count_off, Counts
  <2> HIDE DEF e, on
  <2>2. f = EndWith(e.held, e.queue, e.waiting - e.taken, 0, e.owed, e.channels, e.patterns)
    BY <1>0, EndChanges
  <2>3. Fine(f, on)
    BY <1>0, <2>2, FineCountedOff
  <2> HIDE DEF f
  <2>4. f.held = e.held /\ f.channels = e.channels /\ f.patterns = e.patterns
    BY <2>2 DEF EndWith
  <2>5. conns' = [x \in Conn |-> IF x = c THEN f ELSE conns[x]]
    BY <1>0, <2>1
  <2> QED BY <1>1, <2>1, <2>3, <2>4, <2>5
<1> QED BY <1>2, <1>3

\* An end that nothing has happened to.
LEMMA IdleIs == Idle = EndWith(FALSE, <<>>, 0, 0, <<>>, {}, {}) /\ Idle \in End /\ {} \in Patterns
<1>1. {} \in Patterns /\ {} \in SUBSET Text
  BY FS_EmptySet DEF Patterns
<1>2. Idle = EndWith(FALSE, <<>>, 0, 0, <<>>, {}, {})
  BY DEF Idle, EndWith
<1>3. Fine(Idle, FALSE)
  BY <1>1, <1>2, FineIdle
<1> QED BY <1>1, <1>2, <1>3 DEF Fine

\* The end of a connection that goes is as it was at the start.
LEMMA EndingKeeps ==
    ASSUME ChannelsInv, NEW c \in Conn, leave(c) \/ learn(c)
    PROVE  ChannelsInv'
<1>1. conns' = [conns EXCEPT ![c] = Idle] /\ channels' = channels
  BY DEF leave, learn
<1>2. conns \in [Conn -> End]
  BY DEF ChannelsInv
<1>3. conns' = [x \in Conn |-> IF x = c THEN Idle ELSE conns[x]]
  BY <1>1, <1>2
<1>4. Idle.held = FALSE
  BY DEF Idle
<1>5. Fine(Idle, FALSE)
  BY IdleIs, FineIdle
<1>6. (Idle.held /\ \E s \in channels' : s.conn = c) = FALSE
  BY <1>4
<1>7. Fine(Idle, Idle.held /\ \E s \in channels' : s.conn = c)
  BY <1>5, <1>6
<1> QED BY <1>1, <1>3, <1>4, <1>7, EndKeeps

Starts(e, a, b, c) == [e EXCEPT !.held = a, !.channels = b, !.patterns = c]

\* What a subscription changes of an end is all it changes.
LEMMA EndBegins ==
    ASSUME NEW e \in End, NEW a, NEW b, NEW c
    PROVE  Starts(e, a, b, c) = EndWith(a, e.queue, e.waiting, e.taken, e.owed, b, c)
<1>0. PICK h, q, w, t, o, cs, ps : e = EndWith(h, q, w, t, o, cs, ps)
  BY EndIs
<1>1. e.queue = q /\ e.waiting = w /\ e.taken = t /\ e.owed = o
  BY <1>0 DEF EndWith
<1> DEFINE e1 == [e EXCEPT !.held = a]
           e2 == [e1 EXCEPT !.channels = b]
           e3 == [e2 EXCEPT !.patterns = c]
<1>2. Starts(e, a, b, c) = e3
  BY DEF Starts, End
<1>3. e1 = EndWith(a, q, w, t, o, cs, ps)
  BY <1>0 DEF EndWith
<1> HIDE DEF e1
<1>4. e2 = EndWith(a, q, w, t, o, b, ps)
  BY <1>3 DEF EndWith
<1> HIDE DEF e2
<1>5. e3 = EndWith(a, q, w, t, o, b, c)
  BY <1>4 DEF EndWith
<1> HIDE DEF e3
<1> QED BY <1>1, <1>2, <1>5

\* Subscribing keeps every subscription as it should be
\* (broker.rs subscribe_channels).
LEMMA SubscribeKeeps ==
    ASSUME ChannelsInv, NEW c \in Conn, NEW chs \in SUBSET Text, NEW pats \in Patterns, subscribe(c, chs, pats)
    PROVE  ChannelsInv'
<1> DEFINE f == [Idle EXCEPT !.held = TRUE, !.channels = chs, !.patterns = pats]
           new == [conn |-> c, channels |-> chs, patterns |-> pats, keys |-> hears_keys(chs, pats)]
<1>1. ~conns[c].held /\ channels' = live_channels \cup {new} /\ conns' = [conns EXCEPT ![c] = f]
  BY DEF subscribe
<1>2. conns \in [Conn -> End]
  BY DEF ChannelsInv
<1>3. f = EndWith(TRUE, <<>>, 0, 0, <<>>, chs, pats)
  <2> DEFINE on == TRUE
  <2>1. f = Starts(Idle, on, chs, pats)
    BY DEF Starts
  <2> HIDE DEF on, f
  <2>2. Starts(Idle, on, chs, pats) = EndWith(on, Idle.queue, Idle.waiting, Idle.taken, Idle.owed, chs, pats)
    <3>1. Idle \in End
      BY IdleIs
    <3> QED BY <3>1, EndBegins
  <2>3. Idle.queue = <<>> /\ Idle.waiting = 0 /\ Idle.taken = 0 /\ Idle.owed = <<>>
    BY DEF Idle
  <2> QED BY <2>1, <2>2, <2>3 DEF on
<1>4. Fine(f, TRUE)
  BY <1>3, FineIdle
<1> HIDE DEF f
<1>5. f.held = TRUE /\ f.channels = chs /\ f.patterns = pats
  BY <1>3 DEF EndWith
<1>6. conns' = [x \in Conn |-> IF x = c THEN f ELSE conns[x]]
  BY <1>1, <1>2
<1>7. conns'[c] = f
  BY <1>6
<1>8. SubOf(c)' = new
  BY <1>5, <1>7 DEF SubOf
<1>9. new.conn = c
  OBVIOUS
<1> HIDE DEF new
<1>10. \A s \in live_channels : s \in channels /\ s.conn # c
  BY <1>1 DEF live_channels, alive
<1>11. \A s \in channels' : s \in channels \/ (s.conn = c /\ f.held /\ s = SubOf(c)')
  BY <1>1, <1>5, <1>8, <1>9, <1>10
<1>12. \A s \in channels' : s.conn = c /\ f.held => s = SubOf(c)'
  BY <1>1, <1>8, <1>10
<1>13. (f.held /\ \E s \in channels' : s.conn = c) = TRUE
  BY <1>1, <1>5, <1>9
<1>14. Fine(f, f.held /\ \E s \in channels' : s.conn = c)
  BY <1>4, <1>13
<1> QED BY <1>6, <1>11, <1>12, <1>14, EndKeeps
-----------------------------------------------------------------------------
(***************************************************************************)
(* Every step.                                                             *)
(***************************************************************************)
\* The keys there are are those there may be.
ReachInv == ChannelsInv /\ setup \in Setups /\ DOMAIN db \subseteq setup.pool

\* The keys there may be are finitely many texts.
LEMMA PoolIs ==
    ASSUME setup \in Setups
    PROVE  setup.pool \subseteq Text /\ IsFiniteSet(setup.pool) /\ setup.keys \subseteq setup.pool
  BY SetupsAssumption DEF Text

\* The invariant holds at the start.
LEMMA ReachInit == Init => ReachInv
<1> SUFFICES ASSUME Init PROVE ReachInv
  OBVIOUS
<1>1. setup \in Setups /\ DOMAIN db = setup.keys
  BY DEF Init
<1>2. channels = {} /\ conns = [c \in Conn |-> Idle]
  BY DEF Init, CInit
<1>3. ~\E s \in channels : TRUE
  BY <1>2
<1>4. ASSUME NEW c \in Conn PROVE Fine(conns[c], On(c))
  <2>1. conns[c] = Idle /\ Idle.held = FALSE
    BY <1>2 DEF Idle
  <2>2. On(c) = FALSE
    BY <2>1 DEF On, alive
  <2>3. Fine(Idle, FALSE)
    BY IdleIs, FineIdle
  <2> QED BY <2>1, <2>2, <2>3
<1>5. conns \in [Conn -> End]
  BY <1>2, IdleIs
<1>6. ChannelsInv
  BY <1>3, <1>4, <1>5 DEF ChannelsInv
<1> QED BY <1>1, <1>6, PoolIs DEF ReachInv

\* The events are texts.
LEMMA EventsAre == {SetEvent, DelEvent, ExpiredEvent, FromEvent, ToEvent} \subseteq Text
  BY DEF SetEvent, DelEvent, ExpiredEvent, FromEvent, ToEvent, Text

\* A change is a key and an event.
LEMMA ChangeIs == \A k \in Text, e \in Text : Event(k, e) \in Change
  BY DEF Event, Change

\* Each step keeps the invariant.
LEMMA ReachStep ==
    ASSUME ReachInv, [Next]_vars
    PROVE  ReachInv'
<1>0. ChannelsInv /\ setup \in Setups /\ DOMAIN db \subseteq setup.pool
  BY DEF ReachInv
<1>1. setup.pool \subseteq Text /\ IsFiniteSet(setup.pool)
  BY <1>0, PoolIs
<1> DEFINE same == UNCHANGED setup
<1>2. ASSUME setup' = setup, ChannelsInv', DOMAIN db' \subseteq setup.pool PROVE ReachInv'
  BY <1>0, <1>2 DEF ReachInv
<1>3. ASSUME UNCHANGED <<channels, conns>> PROVE ChannelsInv'
  <2>1. channels' = channels /\ conns' = conns
    BY <1>3
  <2> QED BY <1>0, <2>1 DEF ChannelsInv, On, SubOf, alive, Subscribed
<1>4. ASSUME NEW k \in setup.pool PROVE DOMAIN Put(k) \subseteq setup.pool
  BY <1>0 DEF Put
<1>5. ASSUME NEW t \in Token, NEW k \in setup.pool, SetKey(t, k) PROVE ReachInv'
  <2>1. setup' = setup /\ DOMAIN db' \subseteq setup.pool
    BY <1>4, <1>5 DEF SetKey
  <2> DEFINE a == Event(k, SetEvent)
  <2>2. a \in Change
    BY <1>1, EventsAre, ChangeIs
  <2>3. notify(<<a>>)
    BY <1>5 DEF SetKey
  <2> HIDE DEF a
  <2>4. <<a>> \in Seq(Change)
    BY <2>2
  <2> QED BY <1>0, <1>2, <2>1, <2>3, <2>4, NotifyKeeps
<1>6. ASSUME NEW t \in Token, NEW k \in setup.pool, DelKey(t, k) PROVE ReachInv'
  <2>1. setup' = setup /\ DOMAIN db' \subseteq setup.pool
    BY <1>0, <1>6 DEF DelKey
  <2> DEFINE a == Event(k, DelEvent)
  <2>2. a \in Change
    BY <1>1, EventsAre, ChangeIs
  <2>3. notify(<<a>>)
    BY <1>6 DEF DelKey
  <2> HIDE DEF a
  <2>4. <<a>> \in Seq(Change)
    BY <2>2
  <2> QED BY <1>0, <1>2, <2>1, <2>3, <2>4, NotifyKeeps
<1>7. ASSUME NEW t \in Token, NEW k \in setup.pool, NEW l \in setup.pool, RenameKey(t, k, l) PROVE ReachInv'
  <2>1. setup' = setup
    BY <1>7 DEF RenameKey
  <2>5. DOMAIN db' \subseteq DOMAIN Put(l)
    BY <1>7 DEF RenameKey
  <2> DEFINE a == Event(k, FromEvent)
             b == Event(l, ToEvent)
  <2>2. a \in Change /\ b \in Change
    BY <1>1, EventsAre, ChangeIs
  <2>3. notify(<<a, b>>)
    BY <1>7 DEF RenameKey
  <2> HIDE DEF a, b
  <2>4. <<a, b>> \in Seq(Change)
    BY <2>2
  <2>6. ChannelsInv'
    BY <1>0, <2>3, <2>4, NotifyKeeps
  <2> QED BY <1>2, <1>4, <2>1, <2>5, <2>6
<1>8. ASSUME NEW k \in setup.pool, KeyExpires(k) PROVE ReachInv'
  <2>1. setup' = setup /\ DOMAIN db' \subseteq setup.pool /\ UNCHANGED <<channels, conns>>
    BY <1>0, <1>8 DEF KeyExpires
  <2> QED BY <1>2, <1>3, <2>1
<1>9. ASSUME ExpireKeys PROVE ReachInv'
  <2> DEFINE P == DOMAIN db \ Live
             expired == Sorted(P)
             events == [i \in DOMAIN expired |-> Event(expired[i], ExpiredEvent)]
  <2>1. setup' = setup /\ notify(events)
    BY <1>9 DEF ExpireKeys
  <2>2. DOMAIN db' \subseteq setup.pool
    BY <1>0, <1>9 DEF ExpireKeys, Live
  <2>3. P \in SUBSET Text /\ IsFiniteSet(P)
    <3>1. P \subseteq setup.pool
      BY <1>0
    <3> HIDE DEF P
    <3> QED BY <1>1, <3>1, FS_Subset
  <2> HIDE DEF P
  <2>4. expired \in Seq(P)
    BY <2>3, SortedIs
  <2> HIDE DEF expired
  <2>5. DOMAIN expired = 1 .. Len(expired) /\ Len(expired) \in Nat
    BY <2>4
  <2>6. \A i \in DOMAIN expired : Event(expired[i], ExpiredEvent) \in Change
    <3>1. \A i \in DOMAIN expired : expired[i] \in Text
      BY <2>3, <2>4, <2>5
    <3> QED BY <3>1, EventsAre, ChangeIs
  <2>7. events \in [1 .. Len(expired) -> Change]
    BY <2>5, <2>6
  <2> HIDE DEF events
  <2>8. events \in Seq(Change)
    BY <2>5, <2>7, SeqDef
  <2> QED BY <1>0, <1>2, <2>1, <2>2, <2>8, NotifyKeeps
<1>10. ASSUME Subscribe PROVE ReachInv'
  <2>1. setup' = setup /\ db' = db
    BY <1>10 DEF Subscribe
  <2>2. PICK s \in setup.subs : subscribe(s.conn, s.channels, s.patterns)
    BY <1>10 DEF Subscribe
  <2>3. /\ s \in [conn : Conn, channels : SUBSET setup.names, patterns : SUBSET setup.globs]
        /\ setup.names \subseteq Text /\ setup.globs \subseteq Text /\ IsFiniteSet(setup.globs)
    BY <1>0, SetupsAssumption DEF Text
  <2>4. s.conn \in Conn /\ s.channels \in SUBSET Text /\ s.patterns \in SUBSET setup.globs
    BY <2>3
  <2>5. s.patterns \in Patterns
    BY <2>3, <2>4, FS_Subset DEF Patterns
  <2>6. ChannelsInv'
    BY <1>0, <2>2, <2>4, <2>5, SubscribeKeeps
  <2> QED BY <1>0, <1>2, <2>1, <2>6
<1>11. ASSUME PublishMessage PROVE ReachInv'
  <2>1. setup' = setup /\ db' = db
    BY <1>11 DEF PublishMessage
  <2>2. PICK m \in setup.messages : Publish(<<<<m.channel, m.message>>>>)
    BY <1>11 DEF PublishMessage, PublishTo
  <2> DEFINE a == <<m.channel, m.message>>
  <2>3. m.channel \in Text /\ m.message \in Text
    BY <1>0, SetupsAssumption DEF Text
  <2>4. a \in Message
    BY <2>3 DEF Message
  <2>5. Publish(<<a>>)
    BY <2>2
  <2> HIDE DEF a
  <2>6. <<a>> \in Seq(Message)
    BY <2>4
  <2>7. ChannelsInv'
    BY <1>0, <2>5, <2>6, PublishKeeps
  <2> QED BY <1>0, <1>2, <2>1, <2>7
<1>12. ASSUME List \/ Walk PROVE ReachInv'
  <2>1. setup' = setup /\ db' = db /\ UNCHANGED <<channels, conns>>
    BY <1>12 DEF List, Walk, Ask, WalkOn, Forget
  <2> QED BY <1>0, <1>2, <1>3, <2>1
<1>13. ASSUME NEW c \in Conn, Thread(c) \/ Leave(c) PROVE ReachInv'
  <2>1. setup' = setup /\ db' = db
    BY <1>13 DEF Thread, Leave
  <2>2. ChannelsInv'
    BY <1>0, <1>13, ThreadKeeps, EndingKeeps DEF Thread, Leave
  <2> QED BY <1>0, <1>2, <2>1, <2>2
<1>14. ASSUME UNCHANGED vars PROVE ReachInv'
  <2>1. setup' = setup /\ db' = db /\ UNCHANGED <<channels, conns>>
    BY <1>14 DEF vars
  <2> QED BY <1>0, <1>2, <1>3, <2>1
<1> QED BY <1>5, <1>6, <1>7, <1>8, <1>9, <1>10, <1>11, <1>12, <1>13, <1>14 DEF Next

\* A subscription gets what it should, and is charged for that alone, whatever is
\* published and whoever subscribes, leaves or is slow (broker.rs publish, notify
\* and subscribe_channels; Deliveries::recv_timeout).
THEOREM SubscriptionsAlwaysHold == Spec => []SubscriptionsHold
<1>1. ReachInv => SubscriptionsHold
  <2> SUFFICES ASSUME ReachInv PROVE SubscriptionsHold
    OBVIOUS
  <2>1. \A c \in Conn : Fine(conns[c], On(c))
    BY DEF ReachInv, ChannelsInv
  <2>2. HearsWhatIsMeant
    BY <2>1 DEF HearsWhatIsMeant, Fine, On
  <2>3. CountsWhatWaits
    BY <2>1 DEF CountsWhatWaits, Fine, On, Counted
  <2> QED BY <2>2, <2>3 DEF SubscriptionsHold
<1>2. Init /\ [][Next]_vars => []ReachInv
  BY ReachInit, ReachStep, PTL
<1> QED BY <1>1, <1>2, PTL DEF Spec
-----------------------------------------------------------------------------
(***************************************************************************)
(* Sequences of texts in order.                                            *)
(***************************************************************************)
\* What sequences run together come to, a step at a time.
LEMMA FlatSteps ==
    ASSUME NEW D, NEW ss \in Seq(Seq(D)), Len(ss) # 0
    PROVE  \E f : /\ \A i \in 1 .. Len(ss) : /\ f[i] \in Seq(D)
                                             /\ f[i] = IF i = 1 THEN ss[1] ELSE f[i - 1] \o ss[i]
                  /\ FlattenSeq(ss) = f[Len(ss)]
<1> DEFINE m == Len(ss) - 1
           X == Seq(D)
           g == [q \in (1 .. m) \X X |-> q[2] \o ss[q[1] + 1]]
           body(f) == [i \in 1 .. Len(ss) |-> IF i = 1 THEN ss[i] ELSE f[i - 1] \o ss[i]]
<1>0. m \in Nat /\ Len(ss) = m + 1 /\ ss[1] \in X
  OBVIOUS
<1>1. ASSUME NEW n \in 1 .. m, NEW x \in X
      PROVE  g[<<n, x>>] = x \o ss[n + 1] /\ g[<<n, x>>] \in X
  <2>1. g[<<n, x>>] = x \o ss[n + 1]
    OBVIOUS
  <2>2. n + 1 \in 1 .. Len(ss)
    OBVIOUS
  <2>3. ss[n + 1] \in Seq(D)
    BY <2>2
  <2>4. x \o ss[n + 1] \in Seq(D)
    BY <2>3, ConcatProperties
  <2> HIDE DEF g
  <2> QED BY <2>1, <2>4
<1> HIDE DEF g, m
<1>2. PICK f : IsLoop(f, m, ss[1], g) /\ \A n \in 0 .. m : f[n] \in X
  <2>1. \A n \in 1 .. m, x \in X : g[<<n, x>>] \in X
    BY <1>1
  <2> HIDE DEF X
  <2> QED BY <1>0, <2>1, LoopMakes
<1> DEFINE h == [i \in 1 .. Len(ss) |-> f[i - 1]]
<1>3. h = body(h)
  <2>1. \A i \in 1 .. Len(ss) : h[i] = IF i = 1 THEN ss[i] ELSE h[i - 1] \o ss[i]
    <3> SUFFICES ASSUME NEW i \in 1 .. Len(ss)
                 PROVE  h[i] = IF i = 1 THEN ss[i] ELSE h[i - 1] \o ss[i]
      OBVIOUS
    <3>0. i - 1 \in 0 .. m
      BY <1>0
    <3>1. f[i - 1] = IF i - 1 = 0 THEN ss[1] ELSE g[<<i - 1, f[(i - 1) - 1]>>]
      BY <1>2, <3>0 DEF IsLoop
    <3>2. CASE i = 1
      BY <3>1, <3>2
    <3>3. CASE i # 1
      <4>1. i - 1 \in 1 .. m /\ (i - 1) - 1 \in 0 .. m /\ (i - 1) + 1 = i /\ i - 1 \in 1 .. Len(ss) /\ i - 1 # 0
        BY <1>0, <3>3
      <4>2. g[<<i - 1, f[(i - 1) - 1]>>] = f[(i - 1) - 1] \o ss[(i - 1) + 1]
        BY <1>1, <1>2, <4>1
      <4> QED BY <3>1, <3>3, <4>1, <4>2
    <3> QED BY <3>2, <3>3
  <2>2. DOMAIN h = 1 .. Len(ss) /\ h = [i \in 1 .. Len(ss) |-> h[i]]
    OBVIOUS
  <2> HIDE DEF h
  <2> QED BY <2>1, <2>2
<1> DEFINE flatten == CHOOSE k : k = body(k)
<1>4. flatten = body(flatten)
  BY <1>3
<1>5. FlattenSeq(ss) = flatten[Len(ss)]
  BY DEF FlattenSeq
<1> HIDE DEF flatten
<1>6. \A i \in 1 .. Len(ss) : flatten[i] = IF i = 1 THEN ss[i] ELSE flatten[i - 1] \o ss[i]
  BY <1>4
<1> DEFINE P == {n \in 0 .. m : flatten[n + 1] \in X}
<1>7. \A n \in 0 .. m : n \in P
  <2>1. 0 \in P
    BY <1>0, <1>6
  <2>2. ASSUME NEW n \in 0 .. m - 1, n \in P PROVE n + 1 \in P
    <3>1. n + 1 \in 0 .. m /\ (n + 1) + 1 \in 1 .. Len(ss) /\ (n + 1) + 1 # 1 /\ ((n + 1) + 1) - 1 = n + 1
      BY <1>0
    <3>2. flatten[(n + 1) + 1] = flatten[n + 1] \o ss[(n + 1) + 1]
      BY <1>6, <3>1
    <3>3. flatten[n + 1] \in Seq(D) /\ ss[(n + 1) + 1] \in Seq(D)
      BY <2>2, <3>1
    <3>4. flatten[n + 1] \o ss[(n + 1) + 1] \in Seq(D)
      BY <3>3, ConcatProperties
    <3> QED BY <3>1, <3>2, <3>4
  <2> HIDE DEF P
  <2> QED BY <1>0, <2>1, <2>2, LoopKeeps
<1>8. \A i \in 1 .. Len(ss) : flatten[i] \in X
  <2> SUFFICES ASSUME NEW i \in 1 .. Len(ss) PROVE flatten[i] \in X
    OBVIOUS
  <2>1. i - 1 \in 0 .. m /\ (i - 1) + 1 = i
    BY <1>0
  <2> QED BY <1>7, <2>1
<1>9. 1 \in 1 .. Len(ss)
  BY <1>0
<1>10. \A i \in 1 .. Len(ss) : flatten[i] = IF i = 1 THEN ss[1] ELSE flatten[i - 1] \o ss[i]
  BY <1>6
<1> QED BY <1>5, <1>8, <1>10
-----------------------------------------------------------------------------
\* Texts in their order.
Ordered(s) == \A i, j \in 1 .. Len(s) : i < j => Before(s[i], s[j])
Has(s, x) == \E i \in 1 .. Len(s) : s[i] = x
Precedes(s, t) == \A x, y \in Text : Has(s, x) /\ Has(t, y) => Before(x, y)

\* Of two sequences in order, the one before the other, the whole is in order.
LEMMA OrderedCat ==
    ASSUME NEW s \in Seq(Text), NEW t \in Seq(Text)
    PROVE  /\ s \o t \in Seq(Text)
           /\ \A x : Has(s \o t, x) <=> Has(s, x) \/ Has(t, x)
           /\ Ordered(s) /\ Ordered(t) /\ Precedes(s, t) => Ordered(s \o t)
<1> DEFINE l == Len(s)
           m == Len(t)
           u == s \o t
<1>1. l \in Nat /\ m \in Nat /\ (\A i \in 1 .. l : s[i] \in Text) /\ \A i \in 1 .. m : t[i] \in Text
  OBVIOUS
<1>2. u \in Seq(Text) /\ Len(u) = l + m /\ \A i \in 1 .. l + m : u[i] = IF i <= l THEN s[i] ELSE t[i - l]
  BY ConcatProperties
<1> HIDE DEF u, l, m
<1>3. (\A i \in 1 .. l : i \in 1 .. l + m /\ u[i] = s[i]) /\ \A i \in 1 .. m : l + i \in 1 .. l + m /\ u[l + i] = t[i]
  <2>1. \A i \in 1 .. l : i \in 1 .. l + m /\ i <= l
    BY <1>1
  <2>2. \A i \in 1 .. m : l + i \in 1 .. l + m /\ ~(l + i <= l) /\ (l + i) - l = i
    BY <1>1
  <2> QED BY <1>2, <2>1, <2>2
<1>4. \A i \in 1 .. l + m : i \in 1 .. l \/ (i - l \in 1 .. m /\ l + (i - l) = i)
  BY <1>1
<1>5. ASSUME NEW x PROVE Has(u, x) <=> Has(s, x) \/ Has(t, x)
  <2>1. ASSUME Has(u, x) PROVE Has(s, x) \/ Has(t, x)
    <3>1. PICK i \in 1 .. l + m : u[i] = x
      BY <1>2, <2>1 DEF Has
    <3>2. CASE i \in 1 .. l
      BY <1>3, <3>1, <3>2 DEF Has, l
    <3>3. CASE i - l \in 1 .. m /\ l + (i - l) = i
      <4>1. t[i - l] = x
        BY <1>3, <3>1, <3>3
      <4> QED BY <3>3, <4>1 DEF Has, m
    <3> QED BY <1>4, <3>2, <3>3
  <2>2. ASSUME Has(s, x) PROVE Has(u, x)
    <3>1. PICK i \in 1 .. l : s[i] = x
      BY <2>2 DEF Has, l
    <3> QED BY <1>2, <1>3, <3>1 DEF Has
  <2>3. ASSUME Has(t, x) PROVE Has(u, x)
    <3>1. PICK i \in 1 .. m : t[i] = x
      BY <2>3 DEF Has, m
    <3> QED BY <1>2, <1>3, <3>1 DEF Has
  <2> QED BY <2>1, <2>2, <2>3
<1>6. ASSUME Ordered(s), Ordered(t), Precedes(s, t), NEW i \in 1 .. l + m, NEW j \in 1 .. l + m, i < j
      PROVE  Before(u[i], u[j])
  <2>1. CASE i \in 1 .. l /\ j \in 1 .. l
    BY <1>3, <1>6, <2>1 DEF Ordered, l
  <2>2. CASE i \in 1 .. l /\ j - l \in 1 .. m /\ l + (j - l) = j
    <3>1. u[i] = s[i] /\ u[j] = t[j - l]
      BY <1>3, <2>2
    <3>2. Has(s, u[i]) /\ Has(t, u[j]) /\ u[i] \in Text /\ u[j] \in Text
      BY <1>1, <2>2, <3>1 DEF Has, l, m
    <3> QED BY <1>6, <3>2 DEF Precedes
  <2>3. CASE i - l \in 1 .. m /\ l + (i - l) = i /\ j - l \in 1 .. m /\ l + (j - l) = j
    <3>1. i - l < j - l
      BY <1>1, <1>6
    <3>2. u[i] = t[i - l] /\ u[j] = t[j - l]
      BY <1>3, <2>3
    <3> QED BY <1>6, <2>3, <3>1, <3>2 DEF Ordered, m
  <2>4. ~(i - l \in 1 .. m /\ j \in 1 .. l)
    BY <1>1, <1>6
  <2> QED BY <1>4, <2>1, <2>2, <2>3, <2>4
<1>7. Ordered(s) /\ Ordered(t) /\ Precedes(s, t) => Ordered(u)
  BY <1>2, <1>6 DEF Ordered
<1> QED BY <1>2, <1>5, <1>7 DEF u

\* Sequences each in order, and one after the other, run together in order.
LEMMA FlatOrder ==
    ASSUME NEW ss \in Seq(Seq(Text)), \A i \in 1 .. Len(ss) : Ordered(ss[i]),
           \A i, j \in 1 .. Len(ss) : i < j => Precedes(ss[i], ss[j])
    PROVE  /\ FlattenSeq(ss) \in Seq(Text) /\ Ordered(FlattenSeq(ss))
           /\ \A x : Has(FlattenSeq(ss), x) <=> \E i \in 1 .. Len(ss) : Has(ss[i], x)
<1>1. CASE Len(ss) = 0
  <2>1. FlattenSeq(ss) = <<>>
    <3>1. FlattenSeq(ss) = ss
      BY <1>1 DEF FlattenSeq
    <3> QED BY <1>1, <3>1
  <2>2. <<>> \in Seq(Text) /\ Len(<<>>) = 0
    OBVIOUS
  <2> QED BY <1>1, <2>1, <2>2 DEF Ordered, Has
<1>2. CASE Len(ss) # 0
  <2> DEFINE l == Len(ss)
             m == l - 1
  <2>1. PICK f : /\ \A i \in 1 .. l : f[i] \in Seq(Text) /\ f[i] = IF i = 1 THEN ss[1] ELSE f[i - 1] \o ss[i]
                 /\ FlattenSeq(ss) = f[l]
    BY <1>2, FlatSteps
  <2>2. l \in Nat /\ l # 0 /\ m \in Nat /\ (\A i \in 1 .. l : ss[i] \in Seq(Text))
    BY <1>2
  <2> HIDE DEF l
  <2> DEFINE makes(i) == Ordered(f[i]) /\ \A x : Has(f[i], x) <=> \E j \in 1 .. i : Has(ss[j], x)
             P == {n \in 0 .. m : makes(n + 1)}
  <2>3. 0 \in P
    <3>1. 1 \in 1 .. l /\ 0 + 1 = 1 /\ 0 \in 0 .. m
      BY <2>2
    <3>2. f[1] = ss[1] /\ Ordered(ss[1])
      BY <2>1, <3>1 DEF l
    <3>3. \A x : Has(f[1], x) <=> \E j \in 1 .. 1 : Has(ss[j], x)
      BY <3>2
    <3>4. makes(1)
      BY <3>2, <3>3
    <3> HIDE DEF makes
    <3> QED BY <3>1, <3>4
  <2>4. ASSUME NEW n \in 0 .. m - 1, n \in P PROVE n + 1 \in P
    <3> DEFINE i == n + 1
    <3>1. i \in 1 .. l /\ i + 1 \in 1 .. l /\ i + 1 # 1 /\ (i + 1) - 1 = i /\ n + 1 \in 0 .. m /\ i \in Nat
      BY <2>2
    <3>2. makes(i)
      BY <2>4
    <3> HIDE DEF i
    <3>3. f[i + 1] = f[i] \o ss[i + 1] /\ f[i] \in Seq(Text) /\ ss[i + 1] \in Seq(Text)
      BY <2>1, <2>2, <3>1
    <3>4. Precedes(f[i], ss[i + 1])
      <4> SUFFICES ASSUME NEW x \in Text, NEW y \in Text, Has(f[i], x), Has(ss[i + 1], y) PROVE Before(x, y)
        BY DEF Precedes
      <4>1. PICK j \in 1 .. i : Has(ss[j], x)
        BY <3>2
      <4>2. j \in 1 .. l /\ j < i + 1
        BY <2>2, <3>1
      <4>3. Precedes(ss[j], ss[i + 1])
        BY <3>1, <4>2 DEF l
      <4> QED BY <4>1, <4>3 DEF Precedes
    <3>5. Ordered(ss[i + 1])
      BY <3>1 DEF l
    <3>6. Ordered(f[i + 1]) /\ \A x : Has(f[i + 1], x) <=> Has(f[i], x) \/ Has(ss[i + 1], x)
      BY <3>2, <3>3, <3>4, <3>5, OrderedCat
    <3>7. \A x : Has(f[i + 1], x) <=> \E j \in 1 .. i + 1 : Has(ss[j], x)
      <4>1. \A j : j \in 1 .. i + 1 <=> j \in 1 .. i \/ j = i + 1
        BY <3>1
      <4> QED BY <3>2, <3>6, <4>1
    <3>8. makes(i + 1)
      BY <3>6, <3>7
    <3> HIDE DEF makes
    <3> QED BY <3>1, <3>8 DEF i
  <2>5. \A n \in 0 .. m : n \in P
    <3> HIDE DEF P, m
    <3> QED BY <2>2, <2>3, <2>4, LoopKeeps
  <2>6. m \in 0 .. m /\ m + 1 = l
    BY <2>2
  <2>7. makes(l)
    BY <2>5, <2>6
  <2>8. f[l] \in Seq(Text)
    <3>1. l \in 1 .. l
      BY <2>2
    <3> QED BY <2>1, <3>1
  <2> QED BY <2>1, <2>7, <2>8 DEF l
<1> QED BY <1>1, <1>2

\* What is chosen of a sequence in order is in order.
LEMMA ChosenIs ==
    ASSUME NEW s \in Seq(Text), NEW S, Ordered(s)
    PROVE  /\ Chosen(s, S) \in Seq(Text) /\ Ordered(Chosen(s, S))
           /\ \A x : Has(Chosen(s, S), x) <=> Has(s, x) /\ x \in S
<1> DEFINE one(i) == IF s[i] \in S THEN <<s[i]>> ELSE <<>>
           ss == [i \in DOMAIN s |-> one(i)]
<1>1. DOMAIN s = 1 .. Len(s) /\ Len(s) \in Nat /\ \A i \in 1 .. Len(s) : s[i] \in Text
  OBVIOUS
<1>2. \A i \in 1 .. Len(s) : /\ one(i) \in Seq(Text) /\ Ordered(one(i))
                             /\ \A x : Has(one(i), x) <=> x = s[i] /\ x \in S
  <2> SUFFICES ASSUME NEW i \in 1 .. Len(s)
               PROVE  /\ one(i) \in Seq(Text) /\ Ordered(one(i))
                      /\ \A x : Has(one(i), x) <=> x = s[i] /\ x \in S
    OBVIOUS
  <2> DEFINE v == s[i]
  <2>1. v \in Text
    BY <1>1
  <2>2. CASE v \in S
    <3>1. one(i) = <<v>>
      BY <2>2
    <3> HIDE DEF v, one
    <3>2. <<v>> \in Seq(Text) /\ Len(<<v>>) = 1 /\ <<v>>[1] = v
      BY <2>1
    <3>3. Ordered(<<v>>) /\ \A x : Has(<<v>>, x) <=> x = v
      BY <3>2 DEF Ordered, Has
    <3> QED BY <2>2, <3>1, <3>2, <3>3 DEF v
  <2>3. CASE v \notin S
    <3>1. one(i) = <<>>
      BY <2>3
    <3>2. <<>> \in Seq(Text) /\ Ordered(<<>>) /\ \A x : ~Has(<<>>, x)
      BY DEF Ordered, Has
    <3> HIDE DEF one
    <3> QED BY <2>3, <3>1, <3>2
  <2> QED BY <2>2, <2>3
<1>3. Chosen(s, S) = FlattenSeq(ss)
  BY DEF Chosen
<1> HIDE DEF one
<1>4. ss \in Seq(Seq(Text)) /\ Len(ss) = Len(s) /\ \A i \in 1 .. Len(s) : ss[i] = one(i)
  <2>1. ss \in [1 .. Len(s) -> Seq(Text)]
    BY <1>1, <1>2
  <2>2. ss \in Seq(Seq(Text))
    BY <1>1, <2>1, SeqDef
  <2>3. DOMAIN ss = 1 .. Len(s) /\ DOMAIN ss = 1 .. Len(ss) /\ Len(ss) \in Nat
    BY <1>1, <2>2, LenProperties
  <2> QED BY <1>1, <2>2, <2>3
<1> HIDE DEF ss
<1>5. \A i \in 1 .. Len(ss) : Ordered(ss[i])
  BY <1>2, <1>4
<1>6. \A i, j \in 1 .. Len(ss) : i < j => Precedes(ss[i], ss[j])
  <2> SUFFICES ASSUME NEW i \in 1 .. Len(ss), NEW j \in 1 .. Len(ss), i < j,
                      NEW x \in Text, NEW y \in Text, Has(ss[i], x), Has(ss[j], y)
               PROVE  Before(x, y)
    BY DEF Precedes
  <2>1. x = s[i] /\ y = s[j]
    BY <1>2, <1>4
  <2> QED BY <1>4, <2>1 DEF Ordered
<1>7. \A x : Has(FlattenSeq(ss), x) <=> \E i \in 1 .. Len(ss) : Has(ss[i], x)
  BY <1>4, <1>5, <1>6, FlatOrder
<1>8. FlattenSeq(ss) \in Seq(Text) /\ Ordered(FlattenSeq(ss))
  BY <1>4, <1>5, <1>6, FlatOrder
<1>9. \A x : Has(FlattenSeq(ss), x) <=> Has(s, x) /\ x \in S
  <2>1. \A i \in 1 .. Len(s) : \A x : Has(ss[i], x) <=> x = s[i] /\ x \in S
    BY <1>2, <1>4
  <2>2. \A x : Has(s, x) <=> \E i \in 1 .. Len(s) : s[i] = x
    BY DEF Has
  <2> HIDE DEF Has
  <2> QED BY <1>4, <1>7, <2>1, <2>2
<1> QED BY <1>3, <1>8, <1>9
-----------------------------------------------------------------------------
\* Of two starts of a text, one starts with the other.
LEMMA PrefixesMeet ==
    \A s, r, t \in Text : IsPrefix(s, t) /\ IsPrefix(r, t) => IsPrefix(s, r) \/ IsPrefix(r, s)
<1> SUFFICES ASSUME NEW s \in Text, NEW r \in Text, NEW t \in Text, IsPrefix(s, t), IsPrefix(r, t)
             PROVE  IsPrefix(s, r) \/ IsPrefix(r, s)
  OBVIOUS
<1>1. s \in Seq(Nat) /\ r \in Seq(Nat) /\ t \in Seq(Nat) /\ Len(s) \in Nat /\ Len(r) \in Nat /\ Len(t) \in Nat
  BY DEF Text
<1>2. /\ Len(s) <= Len(t) /\ \A i \in 1 .. Len(s) : s[i] = t[i]
      /\ Len(r) <= Len(t) /\ \A i \in 1 .. Len(r) : r[i] = t[i]
  BY <1>1, PrefixIs
<1>3. CASE Len(s) <= Len(r)
  <2>1. \A i \in 1 .. Len(s) : s[i] = r[i]
    BY <1>1, <1>2, <1>3
  <2> QED BY <1>1, <1>3, <2>1, PrefixIs
<1>4. CASE Len(r) <= Len(s)
  <2>1. \A i \in 1 .. Len(r) : r[i] = s[i]
    BY <1>1, <1>2, <1>4
  <2> QED BY <1>1, <1>4, <2>1, PrefixIs
<1> QED BY <1>1, <1>3, <1>4

\* Texts that start apart come in the order of their starts.
LEMMA BeforeApart ==
    \A s, t, x, y \in Text :
       Before(s, t) /\ ~IsPrefix(s, t) /\ IsPrefix(s, x) /\ IsPrefix(t, y) => Before(x, y)
<1> SUFFICES ASSUME NEW s \in Text, NEW t \in Text, NEW x \in Text, NEW y \in Text,
                    Before(s, t), ~IsPrefix(s, t), IsPrefix(s, x), IsPrefix(t, y)
             PROVE  Before(x, y)
  OBVIOUS
<1>1. /\ s \in Seq(Nat) /\ t \in Seq(Nat) /\ x \in Seq(Nat) /\ y \in Seq(Nat)
      /\ Len(s) \in Nat /\ Len(t) \in Nat /\ Len(x) \in Nat /\ Len(y) \in Nat
  BY DEF Text
<1>2. PICK i \in 1 .. Len(t) : Decides(s, t, i)
  BY BeforeIs
<1>3. i - 1 <= Len(s) /\ (i <= Len(s) => s[i] < t[i]) /\ \A j \in 1 .. i - 1 : s[j] = t[j]
  BY <1>2 DEF Decides, Agree
<1>4. i <= Len(s)
  <2> SUFFICES ASSUME i > Len(s) PROVE FALSE
    BY <1>1
  <2>1. i - 1 = Len(s) /\ Len(s) <= Len(t)
    BY <1>1, <1>3
  <2> QED BY <1>1, <1>3, <2>1, PrefixIs
<1>5. /\ Len(s) <= Len(x) /\ \A j \in 1 .. Len(s) : s[j] = x[j]
      /\ Len(t) <= Len(y) /\ \A j \in 1 .. Len(t) : t[j] = y[j]
  BY <1>1, PrefixIs
<1>6. i \in 1 .. Len(s) /\ i \in 1 .. Len(t) /\ \A j \in 1 .. i - 1 : j \in 1 .. Len(s) /\ j \in 1 .. Len(t)
  BY <1>1, <1>4
<1>7. x[i] < y[i] /\ \A j \in 1 .. i - 1 : x[j] = y[j]
  BY <1>3, <1>4, <1>5, <1>6
<1>8. i \in 1 .. Len(y) /\ i - 1 <= Len(x)
  BY <1>1, <1>5, <1>6
<1>9. Decides(x, y, i)
  BY <1>7, <1>8 DEF Decides, Agree
<1> QED BY <1>8, <1>9, BeforeIs

\* What starts a text starts what comes between them.
LEMMA BeforeBetween ==
    \A s, t, x \in Text : Before(s, t) /\ Before(t, x) /\ IsPrefix(s, x) => IsPrefix(s, t)
<1> SUFFICES ASSUME NEW s \in Text, NEW t \in Text, NEW x \in Text,
                    Before(s, t), Before(t, x), IsPrefix(s, x), ~IsPrefix(s, t)
             PROVE  FALSE
  OBVIOUS
<1>1. IsPrefix(t, t)
  <2>1. t \in Seq(Nat) /\ Len(t) <= Len(t)
    BY DEF Text
  <2> QED BY <2>1, PrefixIs
<1>2. Before(x, t)
  BY <1>1, BeforeApart
<1> QED BY <1>2, BeforeOrders
-----------------------------------------------------------------------------
\* None starts with one before it.
Separate(s) == \A i, j \in 1 .. Len(s) : i < j => ~IsPrefix(s[i], s[j])
\* Some one starts x.
Covers(s, x) == \E i \in 1 .. Len(s) : IsPrefix(s[i], x)

\* Of texts in order, dropping those that an earlier one starts leaves some
\* that start all, none of which starts another (scope.rs Scope::new).
LEMMA ShortestIs ==
    ASSUME NEW s \in Seq(Text), Ordered(s)
    PROVE  /\ Shortest(s) \in Seq(Text) /\ Ordered(Shortest(s)) /\ Separate(Shortest(s))
           /\ \A x \in Text : Has(s, x) => Covers(Shortest(s), x)
<1> DEFINE n == Len(s)
           X == Seq(Text)
           more(k, i) == IF k # <<>> /\ IsPrefix(Last(k), s[i]) THEN k ELSE Append(k, s[i])
           g == [q \in (1 .. n) \X X |-> more(q[2], q[1])]
           body(f) == [i \in 0 .. n |-> IF i = 0 THEN <<>> ELSE more(f[i - 1], i)]
<1>0. n \in Nat /\ (\A i \in 1 .. n : s[i] \in Text) /\ <<>> \in X
  OBVIOUS
<1>1. ASSUME NEW k \in 1 .. n, NEW x \in X
      PROVE  g[<<k, x>>] = more(x, k) /\ g[<<k, x>>] \in X
  <2>1. g[<<k, x>>] = more(x, k)
    OBVIOUS
  <2>2. Append(x, s[k]) \in X
    BY <1>0
  <2> HIDE DEF g, X
  <2> QED BY <2>1, <2>2
<1> HIDE DEF g, X, more
<1>2. PICK f : IsLoop(f, n, <<>>, g) /\ \A k \in 0 .. n : f[k] \in X
  <2>1. \A k \in 1 .. n, x \in X : g[<<k, x>>] \in X
    BY <1>1
  <2> HIDE DEF n
  <2> QED BY <1>0, <2>1, LoopMakes
<1>3. f = body(f)
  <2>1. f = [k \in 0 .. n |-> IF k = 0 THEN <<>> ELSE g[<<k, f[k - 1]>>]]
    BY <1>2 DEF IsLoop
  <2>2. \A k \in 0 .. n : k # 0 => g[<<k, f[k - 1]>>] = more(f[k - 1], k)
    <3> SUFFICES ASSUME NEW k \in 0 .. n, k # 0 PROVE g[<<k, f[k - 1]>>] = more(f[k - 1], k)
      OBVIOUS
    <3>1. k \in 1 .. n /\ k - 1 \in 0 .. n
      BY <1>0
    <3> QED BY <1>1, <1>2, <3>1
  <2>3. DOMAIN f = 0 .. n /\ f = [k \in 0 .. n |-> f[k]]
    BY <2>1
  <2>4. \A k \in 0 .. n : f[k] = IF k = 0 THEN <<>> ELSE more(f[k - 1], k)
    BY <2>1, <2>2
  <2> QED BY <2>3, <2>4
<1> DEFINE kept == CHOOSE k : k = body(k)
<1>4. kept = body(kept)
  BY <1>3
<1>5. Shortest(s) = kept[n]
  BY DEF Shortest, more
<1> HIDE DEF kept
<1>6. \A k \in 0 .. n : kept[k] = IF k = 0 THEN <<>> ELSE more(kept[k - 1], k)
  BY <1>4
<1> DEFINE from(r, k) == \A i \in 1 .. Len(r) : \E j \in 1 .. k : r[i] = s[j]
           right(r, k) == /\ r \in Seq(Text) /\ Ordered(r) /\ Separate(r) /\ from(r, k)
                          /\ \A j \in 1 .. k : Covers(r, s[j])
           P == {k \in 0 .. n : right(kept[k], k)}
<1>7. \A k \in 0 .. n : k \in P
  <2>1. 0 \in P
    <3>1. 0 \in 0 .. n /\ kept[0] = <<>>
      BY <1>0, <1>6
    <3>2. right(<<>>, 0)
      BY DEF Ordered, Separate
    <3> HIDE DEF right
    <3> QED BY <3>1, <3>2
  <2>2. ASSUME NEW k \in 0 .. n - 1, k \in P PROVE k + 1 \in P
    <3>1. k + 1 \in 0 .. n /\ k + 1 # 0 /\ (k + 1) - 1 = k /\ k + 1 \in 1 .. n /\ k \in Nat /\ \A j : j \in 1 .. k + 1 <=> j \in 1 .. k \/ j = k + 1
      BY <1>0
    <3> DEFINE r == kept[k]
               x == s[k + 1]
    <3>2. right(r, k)
      BY <2>2
    <3>3. kept[k + 1] = more(r, k + 1)
      BY <1>6, <3>1
    <3>4. x \in Text
      BY <1>0, <3>1
    <3> HIDE DEF r
    <3>5. Len(r) \in Nat /\ \A i \in 1 .. Len(r) : r[i] \in Text
      BY <3>2
    <3>6. CASE r # <<>> /\ IsPrefix(Last(r), x)
      <4>1. kept[k + 1] = r
        BY <3>3, <3>6 DEF more
      <4>2. Len(r) \in 1 .. Len(r) /\ IsPrefix(r[Len(r)], x)
        BY <3>2, <3>6 DEF Last
      <4>3. Covers(r, x)
        BY <4>2 DEF Covers
      <4>4. from(r, k + 1)
        BY <3>1, <3>2
      <4>5. right(r, k + 1)
        BY <3>1, <3>2, <4>3, <4>4
      <4> HIDE DEF right
      <4> QED BY <3>1, <4>1, <4>5
    <3>7. CASE ~(r # <<>> /\ IsPrefix(Last(r), x))
      <4> DEFINE u == Append(r, x)
      <4>1. kept[k + 1] = u
        BY <3>3, <3>7 DEF more
      <4>2. /\ u \in Seq(Text) /\ Len(u) = Len(r) + 1 /\ u[Len(r) + 1] = x
            /\ \A i \in 1 .. Len(r) : u[i] = r[i]
        <5> HIDE DEF x
        <5> QED BY <3>2, <3>4
      <4> HIDE DEF u
      <4>3. \A i : i \in 1 .. Len(u) <=> i \in 1 .. Len(r) \/ i = Len(r) + 1
        BY <3>5, <4>2
      <4>4. ASSUME NEW i \in 1 .. Len(r) PROVE Before(r[i], x) /\ ~IsPrefix(r[i], x)
        <5>1. \A j \in 1 .. Len(r) : Before(r[j], x)
          <6> SUFFICES ASSUME NEW j \in 1 .. Len(r) PROVE Before(r[j], x)
            OBVIOUS
          <6>1. PICK m \in 1 .. k : r[j] = s[m]
            BY <3>2
          <6>2. m \in 1 .. n /\ m < k + 1
            BY <1>0, <3>1
          <6> QED BY <3>1, <6>1, <6>2 DEF Ordered, n
        <5>2. Len(r) \in 1 .. Len(r) /\ ~IsPrefix(r[Len(r)], x)
          <6>1. r # <<>>
            BY <4>4
          <6>2. ~IsPrefix(Last(r), x)
            BY <3>7, <6>1
          <6>3. Len(r) \in 1 .. Len(r)
            BY <3>5, <4>4
          <6> QED BY <6>2, <6>3 DEF Last
        <5>3. CASE i = Len(r)
          BY <5>1, <5>2, <5>3
        <5>4. CASE i # Len(r)
          <6>1. i < Len(r)
            BY <3>5, <4>4, <5>4
          <6>2. Before(r[i], r[Len(r)]) /\ ~IsPrefix(r[i], r[Len(r)])
            BY <3>2, <5>2, <6>1 DEF Ordered, Separate
          <6>3. r[i] \in Text /\ r[Len(r)] \in Text /\ Before(r[Len(r)], x) /\ Before(r[i], x)
            BY <3>5, <5>1, <5>2
          <6> QED BY <3>4, <6>2, <6>3, BeforeBetween
        <5> QED BY <5>3, <5>4
      <4>5. Ordered(u) /\ Separate(u)
        <5> SUFFICES ASSUME NEW i \in 1 .. Len(u), NEW j \in 1 .. Len(u), i < j
                     PROVE  Before(u[i], u[j]) /\ ~IsPrefix(u[i], u[j])
          BY DEF Ordered, Separate
        <5>1. i \in 1 .. Len(r)
          BY <3>5, <4>2
        <5>2. CASE j \in 1 .. Len(r)
          BY <3>2, <4>2, <5>1, <5>2 DEF Ordered, Separate
        <5>3. CASE j = Len(r) + 1
          BY <4>2, <4>4, <5>1, <5>3
        <5> QED BY <4>3, <5>2, <5>3
      <4>6. from(u, k + 1)
        <5> SUFFICES ASSUME NEW i \in 1 .. Len(u) PROVE \E j \in 1 .. k + 1 : u[i] = s[j]
          OBVIOUS
        <5>1. CASE i \in 1 .. Len(r)
          BY <3>1, <3>2, <4>2, <5>1
        <5>2. CASE i = Len(r) + 1
          BY <3>1, <4>2, <5>2
        <5> QED BY <4>3, <5>1, <5>2
      <4>7. \A j \in 1 .. k + 1 : Covers(u, s[j])
        <5> SUFFICES ASSUME NEW j \in 1 .. k + 1 PROVE Covers(u, s[j])
          OBVIOUS
        <5>1. CASE j \in 1 .. k
          <6>1. PICK i \in 1 .. Len(r) : IsPrefix(r[i], s[j])
            BY <3>2, <5>1 DEF Covers
          <6> QED BY <4>2, <4>3, <6>1 DEF Covers
        <5>2. CASE j = k + 1
          <6>1. IsPrefix(x, x)
            <7>1. x \in Seq(Nat) /\ Len(x) <= Len(x)
              BY <3>4 DEF Text
            <7> HIDE DEF x
            <7> QED BY <7>1, PrefixIs
          <6>2. Len(r) + 1 \in 1 .. Len(u)
            BY <4>3
          <6> QED BY <4>2, <5>2, <6>1, <6>2 DEF Covers
        <5> QED BY <3>1, <5>1, <5>2
      <4>8. right(u, k + 1)
        BY <4>2, <4>5, <4>6, <4>7
      <4> HIDE DEF right
      <4> QED BY <3>1, <4>1, <4>8
    <3> QED BY <3>6, <3>7
  <2> HIDE DEF P, n
  <2> QED BY <1>0, <2>1, <2>2, LoopKeeps
<1>8. n \in 0 .. n
  BY <1>0
<1>9. right(kept[n], n)
  BY <1>7, <1>8
<1>10. \A x \in Text : Has(s, x) => Covers(kept[n], x)
  BY <1>9 DEF Has
<1> QED BY <1>5, <1>9, <1>10
-----------------------------------------------------------------------------
(***************************************************************************)
(* The keys a scope reaches.                                               *)
(***************************************************************************)
\* A scope's patterns of keys are texts.
ScopeOk(s) == s.keys \cup s.read \subseteq Text /\ IsFiniteSet(s.keys \cup s.read)

\* A prefix of a prefix is a prefix.
LEMMA PrefixesPass ==
    \A s, r, t \in Text : IsPrefix(s, r) /\ IsPrefix(r, t) => IsPrefix(s, t)
<1> SUFFICES ASSUME NEW s \in Text, NEW r \in Text, NEW t \in Text, IsPrefix(s, r), IsPrefix(r, t)
             PROVE  IsPrefix(s, t)
  OBVIOUS
<1>1. s \in Seq(Nat) /\ r \in Seq(Nat) /\ t \in Seq(Nat) /\ Len(s) \in Nat /\ Len(r) \in Nat /\ Len(t) \in Nat
  BY DEF Text
<1>2. /\ Len(s) <= Len(r) /\ \A i \in 1 .. Len(s) : s[i] = r[i]
      /\ Len(r) <= Len(t) /\ \A i \in 1 .. Len(r) : r[i] = t[i]
  BY <1>1, PrefixIs
<1>3. Len(s) <= Len(t) /\ \A i \in 1 .. Len(s) : s[i] = t[i]
  BY <1>1, <1>2
<1> QED BY <1>1, <1>3, PrefixIs

\* A scope's prefixes are in order, apart, and start every key it reads
\* (scope.rs Scope::new).
LEMMA PrefixesAre ==
    ASSUME NEW s, ScopeOk(s)
    PROVE  /\ prefixes(s) \in Seq(Text) /\ Ordered(prefixes(s)) /\ Separate(prefixes(s))
           /\ \A k \in Text : can_read(s, k) => Covers(prefixes(s), k) \/ all_keys(s)
<1> DEFINE G == s.keys \cup s.read
           S == {literal_prefix(p) : p \in G}
           o == Sorted(S)
           own == prefixes(s)
<1>1. G \subseteq Text /\ IsFiniteSet(G)
  BY DEF ScopeOk
<1>2. S \in SUBSET Text
  BY <1>1, StartsWith
<1>3. IsFiniteSet(S)
  <2> DEFINE f == [p \in G |-> literal_prefix(p)]
  <2>1. DOMAIN f = G /\ S = {f[x] : x \in DOMAIN f}
    OBVIOUS
  <2> HIDE DEF f, S, G
  <2> QED BY <1>1, <2>1, ImageFinite
<1>4. own = Shortest(o)
  BY DEF prefixes
<1> HIDE DEF S
<1>5. o \in Seq(S) /\ Ordered(o) /\ \A x \in S : Has(o, x)
  BY <1>2, <1>3, SortedIs DEF Ordered, Has
<1>6. o \in Seq(Text)
  <2> HIDE DEF o
  <2> QED BY <1>2, <1>5, SeqMonotonic
<1> HIDE DEF o, own
<1>7. own \in Seq(Text) /\ Ordered(own) /\ Separate(own) /\ \A x \in Text : Has(o, x) => Covers(own, x)
  BY <1>4, <1>5, <1>6, ShortestIs
<1>8. ASSUME NEW k \in Text, can_read(s, k), ~all_keys(s) PROVE Covers(own, k)
  <2>1. PICK p \in G : matches(p, k)
    BY <1>8 DEF can_read, can_write
  <2> DEFINE q == literal_prefix(p)
  <2>2. p \in Text
    BY <1>1
  <2>3. q \in Text /\ IsPrefix(q, k)
    BY <2>1, <2>2, MatchesMeans, StartsWith
  <2>4. q \in S
    BY DEF S
  <2> HIDE DEF q
  <2>5. PICK i \in 1 .. Len(own) : IsPrefix(own[i], q)
    BY <1>5, <1>7, <2>3, <2>4 DEF Covers
  <2>6. own[i] \in Text
    BY <1>7
  <2>7. IsPrefix(own[i], k)
    BY <2>3, <2>5, <2>6, PrefixesPass
  <2> QED BY <2>7 DEF Covers
<1> QED BY <1>7, <1>8 DEF own

\* The runs a walk visits are in order and apart, and none of the scope's keys that
\* start with what its pattern does lies outside them.
LEMMA RunsAre ==
    ASSUME NEW s, ScopeOk(s), NEW prefix \in Text
    PROVE  /\ search_prefixes(s, prefix) \in Seq(Text)
           /\ Ordered(search_prefixes(s, prefix)) /\ Separate(search_prefixes(s, prefix))
           /\ \A k \in Text : can_read(s, k) /\ IsPrefix(prefix, k) => Covers(search_prefixes(s, prefix), k)
<1> DEFINE own == prefixes(s)
           S == {start \in Range(own) : IsPrefix(prefix, start)}
           whole == \/ all_keys(s) \/ <<>> \in Range(own)
                    \/ \E start \in Range(own) : IsPrefix(start, prefix)
           R == search_prefixes(s, prefix)
<1>1. R = IF whole THEN <<prefix>> ELSE Chosen(own, S)
  BY DEF search_prefixes
<1>2. /\ own \in Seq(Text) /\ Ordered(own) /\ Separate(own)
      /\ \A k \in Text : can_read(s, k) => Covers(own, k) \/ all_keys(s)
  BY PrefixesAre
<1> HIDE DEF own
<1>3. \A x : x \in Range(own) <=> Has(own, x)
  <2>1. DOMAIN own = 1 .. Len(own)
    BY <1>2
  <2> QED BY <2>1 DEF Range, Has
<1>4. CASE whole
  <2>1. R = <<prefix>>
    BY <1>1, <1>4
  <2>2. <<prefix>> \in Seq(Text) /\ Len(<<prefix>>) = 1 /\ <<prefix>>[1] = prefix
    OBVIOUS
  <2>3. Ordered(<<prefix>>) /\ Separate(<<prefix>>) /\ \A k \in Text : IsPrefix(prefix, k) => Covers(<<prefix>>, k)
    BY <2>2 DEF Ordered, Separate, Covers
  <2> HIDE DEF R
  <2> QED BY <2>1, <2>2, <2>3 DEF R
<1>5. CASE ~whole
  <2> DEFINE r == Chosen(own, S)
  <2>1. R = r
    BY <1>1, <1>5
  <2>2. r \in Seq(Text) /\ Ordered(r) /\ \A x : Has(r, x) <=> Has(own, x) /\ x \in S
    BY <1>2, ChosenIs
  <2>3. \A x : x \in S <=> Has(own, x) /\ IsPrefix(prefix, x)
    BY <1>3
  <2> HIDE DEF r, S
  <2>4. Separate(r)
    <3> SUFFICES ASSUME NEW i \in 1 .. Len(r), NEW j \in 1 .. Len(r), i < j PROVE ~IsPrefix(r[i], r[j])
      BY DEF Separate
    <3>1. Has(r, r[i]) /\ Has(r, r[j]) /\ Before(r[i], r[j])
      BY <2>2 DEF Has, Ordered
    <3>2. Has(own, r[i]) /\ Has(own, r[j])
      BY <2>2, <3>1
    <3>3. PICK a \in 1 .. Len(own) : own[a] = r[i]
      BY <3>2 DEF Has
    <3>4. PICK b \in 1 .. Len(own) : own[b] = r[j]
      BY <3>2 DEF Has
    <3>5. r[i] \in Text /\ r[j] \in Text
      BY <2>2
    <3>6. ~(b < a) /\ a # b
      <4>1. b < a => Before(r[j], r[i])
        BY <1>2, <3>3, <3>4 DEF Ordered
      <4> QED BY <3>1, <3>3, <3>4, <3>5, <4>1, BeforeOrders
    <3>7. a < b
      <4>1. Len(own) \in Nat
        BY <1>2
      <4> QED BY <3>6, <4>1
    <3> QED BY <1>2, <3>3, <3>4, <3>7 DEF Separate
  <2>5. ASSUME NEW k \in Text, can_read(s, k), IsPrefix(prefix, k) PROVE Covers(r, k)
    <3>1. Covers(own, k)
      BY <1>2, <1>5, <2>5
    <3>2. PICK i \in 1 .. Len(own) : IsPrefix(own[i], k)
      BY <3>1 DEF Covers
    <3>3. own[i] \in Text /\ Has(own, own[i])
      BY <1>2 DEF Has
    <3>4. ~IsPrefix(own[i], prefix)
      BY <1>3, <1>5, <3>3
    <3>5. IsPrefix(prefix, own[i])
      BY <2>5, <3>2, <3>3, <3>4, PrefixesMeet
    <3>6. Has(r, own[i])
      BY <2>2, <2>3, <3>3, <3>5
    <3> QED BY <3>2, <3>6 DEF Has, Covers
  <2> HIDE DEF R
  <2> QED BY <2>1, <2>2, <2>4, <2>5 DEF R
<1> QED BY <1>4, <1>5

\* The keys of some runs that are apart are in order, each once, and all
\* there are after the one given (db.rs with_prefixes).
LEMMA KeysAre ==
    ASSUME NEW R \in Seq(Text), Ordered(R), Separate(R), NEW after,
           after # NoKey => after \in Text, DOMAIN db \subseteq Text, IsFiniteSet(DOMAIN db)
    PROVE  /\ with_prefixes(R, after) \in Seq(Text) /\ Ordered(with_prefixes(R, after))
           /\ \A x : Has(with_prefixes(R, after), x) <=>
                        x \in DOMAIN db /\ Covers(R, x) /\ (after = NoKey \/ Before(after, x))
<1> DEFINE S(i) == {k \in DOMAIN db : IsPrefix(R[i], k) /\ (after = NoKey \/ Before(after, k))}
           ss == [i \in DOMAIN R |-> Sorted(S(i))]
<1>1. DOMAIN R = 1 .. Len(R) /\ Len(R) \in Nat /\ \A i \in 1 .. Len(R) : R[i] \in Text
  OBVIOUS
<1>2. with_prefixes(R, after) = FlattenSeq(ss)
  BY DEF with_prefixes
<1>3. \A i \in 1 .. Len(R) : S(i) \in SUBSET Text /\ IsFiniteSet(S(i))
  <2> SUFFICES ASSUME NEW i \in 1 .. Len(R) PROVE S(i) \in SUBSET Text /\ IsFiniteSet(S(i))
    OBVIOUS
  <2> DEFINE T == S(i)
  <2>1. T \subseteq DOMAIN db
    OBVIOUS
  <2> HIDE DEF T
  <2>2. IsFiniteSet(T)
    BY <2>1, FS_Subset
  <2> QED BY <2>1, <2>2 DEF T
<1>4. \A i : \A x : x \in S(i) <=> x \in DOMAIN db /\ IsPrefix(R[i], x) /\ (after = NoKey \/ Before(after, x))
  OBVIOUS
<1> HIDE DEF S
<1>5. \A i \in 1 .. Len(R) : /\ Sorted(S(i)) \in Seq(Text) /\ Ordered(Sorted(S(i)))
                             /\ \A x : Has(Sorted(S(i)), x) <=> x \in S(i)
  <2> SUFFICES ASSUME NEW i \in 1 .. Len(R)
               PROVE  /\ Sorted(S(i)) \in Seq(Text) /\ Ordered(Sorted(S(i)))
                      /\ \A x : Has(Sorted(S(i)), x) <=> x \in S(i)
    OBVIOUS
  <2> DEFINE P == S(i)
             o == Sorted(P)
  <2>1. P \in SUBSET Text /\ IsFiniteSet(P)
    BY <1>3
  <2> HIDE DEF P
  <2>2. o \in Seq(P) /\ (\A x \in P : Has(o, x)) /\ Ordered(o)
    BY <2>1, SortedIs DEF Ordered, Has
  <2> HIDE DEF o
  <2>3. o \in Seq(Text)
    BY <2>1, <2>2, SeqMonotonic
  <2>4. \A x : Has(o, x) => x \in P
    BY <2>2 DEF Has
  <2> QED BY <2>2, <2>3, <2>4 DEF o, P
<1>6. ss \in Seq(Seq(Text)) /\ Len(ss) = Len(R) /\ \A i \in 1 .. Len(R) : ss[i] = Sorted(S(i))
  <2>1. ss \in [1 .. Len(R) -> Seq(Text)]
    BY <1>1, <1>5
  <2>2. ss \in Seq(Seq(Text))
    BY <1>1, <2>1, SeqDef
  <2>3. DOMAIN ss = 1 .. Len(R) /\ DOMAIN ss = 1 .. Len(ss) /\ Len(ss) \in Nat
    BY <1>1, <2>2, LenProperties
  <2> QED BY <1>1, <2>2, <2>3
<1> HIDE DEF ss
<1>7. \A i \in 1 .. Len(ss) : Ordered(ss[i]) /\ \A x : Has(ss[i], x) <=> x \in S(i)
  BY <1>5, <1>6
<1>8. \A i, j \in 1 .. Len(ss) : i < j => Precedes(ss[i], ss[j])
  <2> SUFFICES ASSUME NEW i \in 1 .. Len(ss), NEW j \in 1 .. Len(ss), i < j,
                      NEW x \in Text, NEW y \in Text, Has(ss[i], x), Has(ss[j], y)
               PROVE  Before(x, y)
    BY DEF Precedes
  <2>1. IsPrefix(R[i], x) /\ IsPrefix(R[j], y)
    BY <1>4, <1>7
  <2>2. Before(R[i], R[j]) /\ ~IsPrefix(R[i], R[j]) /\ R[i] \in Text /\ R[j] \in Text
    BY <1>1, <1>6 DEF Ordered, Separate
  <2> QED BY <2>1, <2>2, BeforeApart
<1>9. /\ FlattenSeq(ss) \in Seq(Text) /\ Ordered(FlattenSeq(ss))
      /\ \A x : Has(FlattenSeq(ss), x) <=> \E i \in 1 .. Len(ss) : Has(ss[i], x)
  BY <1>6, <1>7, <1>8, FlatOrder
<1>10. \A x : Has(FlattenSeq(ss), x) <=> \E i \in 1 .. Len(R) : x \in S(i)
  BY <1>6, <1>7, <1>9
<1>11. \A x : Has(FlattenSeq(ss), x) <=> x \in DOMAIN db /\ Covers(R, x) /\ (after = NoKey \/ Before(after, x))
  BY <1>4, <1>10 DEF Covers
<1> QED BY <1>2, <1>9, <1>11
-----------------------------------------------------------------------------
(***************************************************************************)
(* A run of a walk.                                                        *)
(***************************************************************************)
\* A run of a walk: it looks at the first n of the keys that are left.
Ran(w, keys, n, T, room) ==
    /\ w.visited \in Seq(Text) /\ Ordered(w.visited)
    /\ \A x : Has(w.visited, x) <=> x \in T /\ \E i \in 1 .. n : keys[i] = x
    /\ w.full <=> Len(w.visited) = room
    /\ w.paused # NoKey => n \in 1 .. Len(keys) /\ w.paused = keys[n] /\ ~w.full
    /\ w.paused = NoKey /\ ~w.full => n = Len(keys)

\* A run of a walk looks at the first of the keys that are left
\* (broker.rs walk).
LEMMA WalkIs ==
    ASSUME NEW s, ScopeOk(s), NEW prefix \in Text, NEW after, after # NoKey => after \in Text,
           DOMAIN db \subseteq Text, IsFiniteSet(DOMAIN db), NoKey \notin DOMAIN db, NEW most, NEW room
    PROVE  \E keys \in Seq(Text) : \E n \in 0 .. Len(keys) :
              /\ Ordered(keys)
              /\ \A x : Has(keys, x) <=> x \in DOMAIN db /\ Covers(search_prefixes(s, prefix), x)
                                         /\ (after = NoKey \/ Before(after, x))
              /\ Ran(walk(s, prefix, after, most, room), keys, n, {k \in Live : can_read(s, k)}, room)
<1> DEFINE R == search_prefixes(s, prefix)
           keys == with_prefixes(R, after)
           T == {k \in Live : can_read(s, k)}
           seen(n) == Chosen(SubSeq(keys, 1, n), T)
           ends == {n \in 1 .. Len(keys) : n = most \/ Len(seen(n)) = room}
           n == IF ends = {} THEN Len(keys) ELSE Min(ends)
           full == Len(seen(n)) = room
           paused == IF ends # {} /\ ~full THEN keys[n] ELSE NoKey
           w == walk(s, prefix, after, most, room)
<1>1. w = [visited |-> seen(n), full |-> full, paused |-> paused]
  BY DEF walk
<1>2. R \in Seq(Text) /\ Ordered(R) /\ Separate(R)
  BY RunsAre
<1> HIDE DEF R
<1>3. /\ keys \in Seq(Text) /\ Ordered(keys)
      /\ \A x : Has(keys, x) <=> x \in DOMAIN db /\ Covers(R, x) /\ (after = NoKey \/ Before(after, x))
  BY <1>2, KeysAre
<1> HIDE DEF keys, T
<1> DEFINE l == Len(keys)
<1>4. l \in Nat /\ \A i \in 1 .. l : keys[i] \in Text /\ keys[i] # NoKey
  <2>1. l \in Nat /\ \A i \in 1 .. l : keys[i] \in Text
    BY <1>3
  <2>2. \A i \in 1 .. l : Has(keys, keys[i])
    BY DEF Has
  <2> QED BY <1>3, <2>1, <2>2
<1>5. n \in 0 .. l /\ (ends = {} => n = l) /\ (ends # {} => n \in 1 .. l)
  <2>1. ends \subseteq 1 .. l
    OBVIOUS
  <2> HIDE DEF ends
  <2>2. CASE ends = {}
    BY <1>4, <2>2
  <2>3. CASE ends # {}
    <3>1. ends \in SUBSET Nat
      BY <2>1
    <3>2. Min(ends) \in ends
      <4> DEFINE E == ends
      <4> HIDE DEF E
      <4>1. E \in SUBSET Nat /\ E # {}
        BY <2>3, <3>1 DEF E
      <4>2. Min(E) \in E
        BY <4>1, LeastOf DEF Min
      <4> QED BY <4>2 DEF E
    <3>3. n = Min(ends)
      BY <2>3
    <3>4. n \in 1 .. l
      BY <2>1, <3>2, <3>3
    <3> HIDE DEF n
    <3> QED BY <1>4, <2>3, <3>4
  <2> QED BY <2>2, <2>3
<1> HIDE DEF n, ends
<1> DEFINE front == SubSeq(keys, 1, n)
<1>6. front \in Seq(Text) /\ Len(front) = n /\ \A i \in 1 .. n : front[i] = keys[i]
  <2>1. n \in Nat /\ 1 \in Int /\ n \in Int
    BY <1>4, <1>5
  <2>2. \A i \in 1 .. n : keys[i] \in Text
    BY <1>4, <1>5
  <2>3. /\ front \in Seq(Text)
        /\ Len(front) = IF 1 <= n THEN n - 1 + 1 ELSE 0
        /\ \A i \in 1 .. n - 1 + 1 : front[i] = keys[1 + i - 1]
    BY <2>1, <2>2, SubSeqProperties
  <2>4. n - 1 + 1 = n /\ \A i \in 1 .. n : 1 + i - 1 = i
    BY <2>1
  <2> HIDE DEF front
  <2>5. Len(front) = n
    BY <2>1, <2>3, <2>4
  <2> QED BY <2>3, <2>4, <2>5
<1>7. Ordered(front)
  <2> HIDE DEF front
  <2>1. \A i \in 1 .. n : i \in 1 .. l
    BY <1>4, <1>5
  <2> QED BY <1>3, <1>6, <2>1 DEF Ordered, l
<1> DEFINE v == seen(n)
<1>8. v \in Seq(Text) /\ Ordered(v) /\ \A x : Has(v, x) <=> Has(front, x) /\ x \in T
  BY <1>6, <1>7, ChosenIs
<1>9. \A x : Has(front, x) <=> \E i \in 1 .. n : keys[i] = x
  <2> HIDE DEF front
  <2> QED BY <1>6 DEF Has
<1> HIDE DEF front
<1>10. w.visited = v /\ w.full = full /\ w.paused = paused
  <2>1. w = [visited |-> v, full |-> full, paused |-> paused]
    BY <1>1
  <2> HIDE DEF v, full, paused, w
  <2> QED BY <2>1
<1>11. full <=> Len(v) = room
  OBVIOUS
<1> HIDE DEF v
<1>12. /\ paused # NoKey => n \in 1 .. l /\ paused = keys[n] /\ ~full
       /\ paused = NoKey /\ ~full => n = l
  <2> HIDE DEF full
  <2> QED BY <1>4, <1>5
<1> HIDE DEF full, paused, w
<1>13. Ran(w, keys, n, T, room)
  BY <1>8, <1>9, <1>10, <1>11, <1>12 DEF Ran, l
<1> QED BY <1>3, <1>5, <1>13 DEF w, T, R, l
-----------------------------------------------------------------------------
Going == TRUE
WalkWith(sc, p, c, a, n, f, l, cs, st, o) ==
    [on |-> Going, scope |-> sc, pattern |-> p, count |-> c, after |-> a, seen |-> n, found |-> f,
     listed |-> l, cursors |-> cs, steady |-> st, over |-> o]

\* What a walk has found is in order and in reach, and up to where it came; what is
\* steady was found, or lies ahead.
Walked(sc, p, c, a, n, f, l, cs, st, o) ==
    /\ ScopeOk(sc) /\ p \in Text /\ c \in Nat /\ n \in Nat /\ (c # NoCount => n # c)
    /\ (a # NoKey => a \in Text) /\ f \in Seq(Text) /\ l \in Seq(Text) /\ o \in BOOLEAN
    /\ Ordered(l \o f)
    /\ \A x : Has(l \o f, x) => /\ can_read(sc, x) /\ Means(p, x)
                                /\ ~o => a # NoKey /\ (x = a \/ Before(x, a))
    /\ \A x \in cs : can_read(sc, x)
    /\ \A x \in st : can_read(sc, x) /\ Means(p, x)
    /\ ~o => \A x \in st : Has(l \o f, x) \/ a = NoKey \/ Before(a, x)
    /\ o => f = <<>> /\ \A x \in st : Has(l, x)

Keyed == DOMAIN db \subseteq Text /\ IsFiniteSet(DOMAIN db) /\ NoKey \notin DOMAIN db

\* What a run of a walk adds to what was found.
Adds(w, p) == Chosen(w.visited, {k \in Range(w.visited) : matches(p, k)})
RoomFor(c, n) == IF c = NoCount THEN -1 ELSE c - n

\* A run goes on from where the last came, and passes nothing that is steady.
Moved(all, new, w, keys, m, a, st, sc, p) ==
    /\ new \in Seq(Text) /\ keys \in Seq(Text) /\ m \in 0 .. Len(keys) /\ Ordered(keys)
    /\ all \o new \in Seq(Text) /\ Ordered(all \o new)
    /\ \A x : Has(all \o new, x) <=> Has(all, x) \/ Has(new, x)
    /\ \A x : Has(new, x) => Has(w.visited, x) /\ can_read(sc, x) /\ Means(p, x)
    /\ \A x : Has(w.visited, x) => /\ can_read(sc, x) /\ \E i \in 1 .. m : keys[i] = x
    /\ \A x : Has(keys, x) => x \in Text /\ x # NoKey /\ (a = NoKey \/ Before(a, x))
    /\ \A x \in st : Has(all \o new, x) \/ \E i \in m + 1 .. Len(keys) : keys[i] = x

\* A run adds to what was found what it should, and passes nothing steady.
LEMMA RunMoves ==
    ASSUME Keyed, NEW sc, NEW p, NEW c, NEW a, NEW n, NEW f, NEW l, NEW cs, NEW st,
           Walked(sc, p, c, a, n, f, l, cs, st, FALSE), st \subseteq Live, NEW most, NEW room
    PROVE  LET w == walk(sc, literal_prefix(p), a, most, room)
           IN  \E keys \in Seq(Text) : \E m \in 0 .. Len(keys) :
                  /\ Ran(w, keys, m, {k \in Live : can_read(sc, k)}, room)
                  /\ Moved(l \o f, Adds(w, p), w, keys, m, a, st, sc, p)
<1> DEFINE lit == literal_prefix(p)
           w == walk(sc, lit, a, most, room)
           T == {k \in Live : can_read(sc, k)}
           R == search_prefixes(sc, lit)
           all == l \o f
           new == Adds(w, p)
<1>1. /\ ScopeOk(sc) /\ p \in Text /\ (a # NoKey => a \in Text) /\ f \in Seq(Text) /\ l \in Seq(Text)
      /\ Ordered(all)
      /\ \A x : Has(all, x) => can_read(sc, x) /\ Means(p, x) /\ a # NoKey /\ (x = a \/ Before(x, a))
      /\ \A x \in st : can_read(sc, x) /\ Means(p, x)
      /\ \A x \in st : Has(all, x) \/ a = NoKey \/ Before(a, x)
  BY DEF Walked
<1>2. lit \in Text /\ \A k \in Text : Means(p, k) => IsPrefix(lit, k)
  BY <1>1, StartsWith
<1>3. /\ DOMAIN db \subseteq Text /\ IsFiniteSet(DOMAIN db) /\ NoKey \notin DOMAIN db
      /\ \A x \in Live : x \in DOMAIN db
  BY DEF Keyed, Live
<1>4. all \in Seq(Text)
  <2> HIDE DEF lit
  <2> QED BY <1>1, ConcatProperties
<1> HIDE DEF lit, all
<1>5. PICK keys \in Seq(Text) : \E m \in 0 .. Len(keys) :
              /\ Ordered(keys)
              /\ \A x : Has(keys, x) <=> x \in DOMAIN db /\ Covers(R, x) /\ (a = NoKey \/ Before(a, x))
              /\ Ran(w, keys, m, T, room)
  BY <1>1, <1>2, <1>3, WalkIs
<1>6. PICK m \in 0 .. Len(keys) :
              /\ Ordered(keys)
              /\ \A x : Has(keys, x) <=> x \in DOMAIN db /\ Covers(R, x) /\ (a = NoKey \/ Before(a, x))
              /\ Ran(w, keys, m, T, room)
  BY <1>5
<1>7. \A k \in Text : can_read(sc, k) /\ IsPrefix(lit, k) => Covers(R, k)
  BY <1>1, <1>2, RunsAre
<1>8. \A x : x \in T <=> x \in Live /\ can_read(sc, x)
  OBVIOUS
<1> HIDE DEF T, R, w
<1>9. /\ w.visited \in Seq(Text) /\ Ordered(w.visited)
      /\ \A x : Has(w.visited, x) <=> x \in T /\ \E i \in 1 .. m : keys[i] = x
  BY <1>6 DEF Ran
<1>10. new \in Seq(Text) /\ Ordered(new) /\ \A x : Has(new, x) <=> Has(w.visited, x) /\ matches(p, x)
  <2> DEFINE S == {k \in Range(w.visited) : matches(p, k)}
             v == w.visited
  <2>1. \A x : x \in Range(v) <=> Has(v, x)
    <3>1. DOMAIN v = 1 .. Len(v)
      BY <1>9
    <3> QED BY <3>1 DEF Range, Has
  <2>2. \A x : x \in S <=> Has(v, x) /\ matches(p, x)
    BY <2>1
  <2>3. new = Chosen(v, S)
    BY DEF Adds
  <2> HIDE DEF S, v, new
  <2> QED BY <1>9, <2>2, <2>3, ChosenIs DEF v
<1> HIDE DEF new
<1>11. Len(keys) \in Nat /\ m \in Nat /\ \A i \in 1 .. m : i \in 1 .. Len(keys)
  OBVIOUS
<1>12. \A x : Has(w.visited, x) => x \in Text /\ can_read(sc, x) /\ Has(keys, x) /\ \E i \in 1 .. m : keys[i] = x
  BY <1>3, <1>8, <1>9, <1>11 DEF Has
<1>13. \A x : Has(new, x) => /\ x \in Text /\ Has(w.visited, x) /\ can_read(sc, x) /\ Means(p, x)
                             /\ (a = NoKey \/ Before(a, x))
  BY <1>1, <1>6, <1>10, <1>12, MatchesMeans
<1>14. Precedes(all, new)
  <2> SUFFICES ASSUME NEW x \in Text, NEW y \in Text, Has(all, x), Has(new, y) PROVE Before(x, y)
    BY DEF Precedes
  <2>1. a \in Text /\ Before(a, y) /\ (x = a \/ Before(x, a))
    BY <1>1, <1>13
  <2> QED BY <2>1, BeforeOrders
<1>15. /\ all \o new \in Seq(Text) /\ Ordered(all \o new)
       /\ \A x : Has(all \o new, x) <=> Has(all, x) \/ Has(new, x)
  BY <1>1, <1>4, <1>10, <1>14, OrderedCat
<1>16. \A x : Has(keys, x) => x \in Text /\ x # NoKey /\ (a = NoKey \/ Before(a, x))
  BY <1>3, <1>6
<1>17. ASSUME NEW x \in st PROVE Has(all \o new, x) \/ \E i \in m + 1 .. Len(keys) : keys[i] = x
  <2>1. CASE Has(all, x)
    BY <1>15, <2>1
  <2>2. CASE a = NoKey \/ Before(a, x)
    <3>1. x \in Live /\ x \in DOMAIN db /\ x \in Text /\ can_read(sc, x) /\ Means(p, x)
      BY <1>1, <1>3
    <3>2. Has(keys, x)
      BY <1>2, <1>6, <1>7, <2>2, <3>1
    <3>3. PICK i \in 1 .. Len(keys) : keys[i] = x
      BY <3>2 DEF Has
    <3>4. CASE i <= m
      <4>1. i \in 1 .. m
        BY <1>11, <3>4
      <4>2. Has(w.visited, x)
        BY <1>8, <1>9, <3>1, <3>3, <4>1
      <4>3. Has(new, x)
        BY <1>1, <1>10, <3>1, <4>2, MatchesMeans
      <4> QED BY <1>15, <4>3
    <3>5. CASE i > m
      <4>1. i \in m + 1 .. Len(keys)
        BY <1>11, <3>5
      <4> QED BY <3>3, <4>1
    <3> QED BY <1>11, <3>4, <3>5
  <2> QED BY <1>1, <2>1, <2>2
<1>18. Moved(all, new, w, keys, m, a, st, sc, p)
  BY <1>6, <1>10, <1>12, <1>13, <1>15, <1>16, <1>17 DEF Moved
<1> QED BY <1>6, <1>18 DEF w, T, all, new, lit
-----------------------------------------------------------------------------
\* Where a walk stands after a run: what it found, and up to where it came.
LEMMA UpTo ==
    ASSUME NEW sc, NEW p, NEW c, NEW a, NEW n, NEW f, NEW l, NEW cs, NEW st,
           Walked(sc, p, c, a, n, f, l, cs, st, FALSE),
           NEW new, NEW w, NEW keys, NEW m, Moved(l \o f, new, w, keys, m, a, st, sc, p),
           NEW j \in 1 .. m, \A x : Has(new, x) => x = keys[j] \/ Before(x, keys[j])
    PROVE  /\ keys[j] \in Text /\ keys[j] # NoKey
           /\ \A x : Has((l \o f) \o new, x) => x = keys[j] \/ Before(x, keys[j])
           /\ \A x \in st : Has((l \o f) \o new, x) \/ Before(keys[j], x)
<1> DEFINE all == l \o f
<1>1. /\ \A x : Has(all, x) => a # NoKey /\ (x = a \/ Before(x, a))
      /\ (a # NoKey => a \in Text) /\ f \in Seq(Text) /\ l \in Seq(Text)
  BY DEF Walked
<1>2. all \in Seq(Text)
  BY <1>1, ConcatProperties
<1> HIDE DEF all
<1>3. Moved(all, new, w, keys, m, a, st, sc, p)
  BY DEF all
<1>4. /\ keys \in Seq(Text) /\ m \in 0 .. Len(keys) /\ Ordered(keys)
      /\ \A x : Has(all \o new, x) <=> Has(all, x) \/ Has(new, x)
      /\ \A x : Has(keys, x) => x \in Text /\ x # NoKey /\ (a = NoKey \/ Before(a, x))
      /\ \A x \in st : Has(all \o new, x) \/ \E i \in m + 1 .. Len(keys) : keys[i] = x
  BY <1>3 DEF Moved
<1>5. Len(keys) \in Nat /\ m \in Nat /\ j \in 1 .. Len(keys)
  BY <1>4
<1>6. Has(keys, keys[j])
  BY <1>5 DEF Has
<1>7. keys[j] \in Text /\ keys[j] # NoKey /\ (a = NoKey \/ Before(a, keys[j]))
  BY <1>4, <1>6
<1>8. ASSUME NEW x, Has(all \o new, x) PROVE x = keys[j] \/ Before(x, keys[j])
  <2>1. CASE Has(new, x)
    BY <2>1
  <2>2. CASE Has(all, x)
    <3>1. a \in Text /\ (x = a \/ Before(x, a)) /\ Before(a, keys[j])
      BY <1>1, <1>7, <2>2
    <3>2. x \in Text
      BY <1>2, <2>2 DEF Has
    <3> QED BY <1>7, <3>1, <3>2, BeforeOrders
  <2> QED BY <1>4, <1>8, <2>1, <2>2
<1>9. ASSUME NEW x \in st PROVE Has(all \o new, x) \/ Before(keys[j], x)
  <2>1. ASSUME NEW i \in m + 1 .. Len(keys), keys[i] = x PROVE Before(keys[j], x)
    <3>1. i \in 1 .. Len(keys) /\ j < i
      BY <1>5
    <3> QED BY <1>4, <1>5, <2>1, <3>1 DEF Ordered
  <2> QED BY <1>4, <2>1
<1> QED BY <1>7, <1>8, <1>9 DEF all

\* A run that looks at as many keys as it may is followed by another.
LEMMA RunPauses ==
    ASSUME Keyed, NEW sc, NEW p, NEW c, NEW a, NEW n, NEW f, NEW l, NEW cs, NEW st,
           Walked(sc, p, c, a, n, f, l, cs, st, FALSE), st \subseteq Live, NEW most, NEW w,
           w = walk(sc, literal_prefix(p), a, most, RoomFor(c, n)), w.paused # NoKey
    PROVE  Walked(sc, p, c, w.paused, n + Len(w.visited), f \o Adds(w, p), l, cs, st, FALSE)
<1> DEFINE all == l \o f
           new == Adds(w, p)
           T == {k \in Live : can_read(sc, k)}
           room == RoomFor(c, n)
<1>1. PICK keys \in Seq(Text) : \E m \in 0 .. Len(keys) :
             Ran(w, keys, m, T, room) /\ Moved(all, new, w, keys, m, a, st, sc, p)
  BY RunMoves
<1>2. PICK m \in 0 .. Len(keys) :
             Ran(w, keys, m, T, room) /\ Moved(all, new, w, keys, m, a, st, sc, p)
  BY <1>1
<1> HIDE DEF T, new
<1>3. /\ ScopeOk(sc) /\ p \in Text /\ c \in Nat /\ n \in Nat /\ (c # NoCount => n # c)
      /\ f \in Seq(Text) /\ l \in Seq(Text)
      /\ \A x : Has(all, x) => can_read(sc, x) /\ Means(p, x)
      /\ \A x \in cs : can_read(sc, x)
      /\ \A x \in st : can_read(sc, x) /\ Means(p, x)
  BY DEF Walked
<1>4. /\ w.visited \in Seq(Text) /\ m \in 1 .. Len(keys) /\ w.paused = keys[m] /\ ~w.full
      /\ (w.full <=> Len(w.visited) = room)
  BY <1>2 DEF Ran
<1>5. Len(w.visited) \in Nat /\ n + Len(w.visited) \in Nat /\ (c # NoCount => n + Len(w.visited) # c)
  <2> DEFINE many == Len(w.visited)
  <2>1. many # room /\ many \in Nat
    BY <1>4
  <2>2. c # NoCount => room = c - n
    BY DEF RoomFor
  <2> HIDE DEF many, room
  <2> QED BY <1>3, <2>1, <2>2 DEF many
<1> HIDE DEF room, all
<1>6. /\ new \in Seq(Text) /\ Ordered(all \o new) /\ Ordered(keys)
      /\ \A x : Has(all \o new, x) <=> Has(all, x) \/ Has(new, x)
      /\ \A x : Has(new, x) => Has(w.visited, x) /\ can_read(sc, x) /\ Means(p, x)
      /\ \A x : Has(w.visited, x) => \E i \in 1 .. m : keys[i] = x
  BY <1>2 DEF Moved
<1>7. m \in Nat /\ m \in 1 .. m /\ Len(keys) \in Nat
  BY <1>4
<1>8. ASSUME NEW x, Has(new, x) PROVE x = keys[m] \/ Before(x, keys[m])
  <2>1. PICK i \in 1 .. m : keys[i] = x
    BY <1>6, <1>8
  <2>2. i \in 1 .. Len(keys) /\ m \in 1 .. Len(keys) /\ (i = m \/ i < m)
    BY <1>4, <1>7
  <2> QED BY <1>6, <2>1, <2>2 DEF Ordered
<1>9. /\ keys[m] \in Text /\ keys[m] # NoKey
      /\ \A x : Has(all \o new, x) => x = keys[m] \/ Before(x, keys[m])
      /\ \A x \in st : Has(all \o new, x) \/ Before(keys[m], x)
  BY <1>2, <1>7, <1>8, UpTo DEF all
<1>10. all \o new = l \o (f \o new)
  BY <1>3, <1>6, ConcatAssociative DEF all
<1>11. f \o new \in Seq(Text)
  BY <1>3, <1>6, ConcatProperties
<1> DEFINE found == f \o new
           pause == w.paused
           seen == n + Len(w.visited)
<1> SUFFICES Walked(sc, p, c, pause, seen, found, l, cs, st, FALSE)
  BY DEF new
<1>12. /\ Ordered(l \o found) /\ found \in Seq(Text)
       /\ \A x : Has(l \o found, x) => can_read(sc, x) /\ Means(p, x) /\ (x = pause \/ Before(x, pause))
       /\ \A x \in st : Has(l \o found, x) \/ Before(pause, x)
       /\ pause # NoKey /\ pause \in Text /\ seen \in Nat /\ (c # NoCount => seen # c)
  BY <1>3, <1>4, <1>5, <1>6, <1>9, <1>10, <1>11
<1> HIDE DEF found, pause, seen
<1> QED BY <1>3, <1>12 DEF Walked
-----------------------------------------------------------------------------
\* Where the client goes on from, if it does.
GoesOn(w, last, over) ==
    /\ last = IF w.full THEN Last(w.visited) ELSE NoKey
    /\ over \in BOOLEAN /\ (over <=> last = NoKey)

\* A run that comes to the end of the keys, or of its page, makes the page complete.
LEMMA RunEnds ==
    ASSUME Keyed, NEW sc, NEW p, NEW c, NEW a, NEW n, NEW f, NEW l, NEW cs, NEW st,
           Walked(sc, p, c, a, n, f, l, cs, st, FALSE), st \subseteq Live, NEW most, NEW w,
           w = walk(sc, literal_prefix(p), a, most, RoomFor(c, n)), w.paused = NoKey,
           NEW last, NEW over, GoesOn(w, last, over)
    PROVE  Walked(sc, p, c, last, 0, <<>>, l \o (f \o Adds(w, p)), cs \cup ({last} \ {NoKey}), st, over)
<1> DEFINE all == l \o f
           new == Adds(w, p)
           T == {k \in Live : can_read(sc, k)}
           room == RoomFor(c, n)
           cursors == cs \cup ({last} \ {NoKey})
<1>1. PICK keys \in Seq(Text) : \E m \in 0 .. Len(keys) :
             Ran(w, keys, m, T, room) /\ Moved(all, new, w, keys, m, a, st, sc, p)
  BY RunMoves
<1>2. PICK m \in 0 .. Len(keys) :
             Ran(w, keys, m, T, room) /\ Moved(all, new, w, keys, m, a, st, sc, p)
  BY <1>1
<1> HIDE DEF T, new
<1>0. over \in BOOLEAN /\ (over <=> last = NoKey)
  BY DEF GoesOn
<1>3. /\ ScopeOk(sc) /\ p \in Text /\ c \in Nat /\ n \in Nat /\ (c # NoCount => n # c)
      /\ f \in Seq(Text) /\ l \in Seq(Text)
      /\ \A x : Has(all, x) => can_read(sc, x) /\ Means(p, x)
      /\ \A x \in cs : can_read(sc, x)
      /\ \A x \in st : can_read(sc, x) /\ Means(p, x)
  BY DEF Walked
<1>4. /\ w.visited \in Seq(Text) /\ (w.full <=> Len(w.visited) = room) /\ Ordered(w.visited)
      /\ (~w.full => m = Len(keys))
  BY <1>2 DEF Ran
<1>5. room # 0
  <2>1. (c = NoCount => room = -1) /\ (c # NoCount => room = c - n)
    BY DEF RoomFor
  <2> HIDE DEF room
  <2> QED BY <1>3, <2>1
<1> HIDE DEF room, all
<1>6. /\ new \in Seq(Text) /\ Ordered(all \o new) /\ Ordered(keys)
      /\ \A x : Has(all \o new, x) <=> Has(all, x) \/ Has(new, x)
      /\ \A x : Has(new, x) => Has(w.visited, x) /\ can_read(sc, x) /\ Means(p, x)
      /\ \A x : Has(w.visited, x) => can_read(sc, x) /\ \E i \in 1 .. m : keys[i] = x
      /\ \A x \in st : Has(all \o new, x) \/ \E i \in m + 1 .. Len(keys) : keys[i] = x
  BY <1>2 DEF Moved
<1>7. m \in Nat /\ Len(keys) \in Nat
  BY <1>2
<1> DEFINE sofar == l \o (f \o new)
<1>8. all \o new = sofar
  <2>1. l \in Seq(Text) /\ f \in Seq(Text) /\ new \in Seq(Text)
    BY <1>3, <1>6
  <2> QED BY <2>1, ConcatAssociative DEF all
<1>9. sofar \in Seq(Text) /\ sofar \o <<>> = sofar
  <2>1. f \o new \in Seq(Text)
    BY <1>3, <1>6, ConcatProperties
  <2> DEFINE found == f \o new
  <2> HIDE DEF found
  <2>2. l \o found \in Seq(Text)
    BY <1>3, <2>1, ConcatProperties DEF found
  <2> QED BY <2>2, ConcatEmptySeq DEF found
<1> SUFFICES Walked(sc, p, c, last, 0, <<>>, sofar, cursors, st, over)
  BY DEF new
<1> HIDE DEF sofar
<1>10. /\ Ordered(sofar \o <<>>)
       /\ \A x : Has(sofar \o <<>>, x) => can_read(sc, x) /\ Means(p, x)
       /\ (c # NoCount => 0 # c) /\ 0 \in Nat /\ <<>> \in Seq(Text)
  BY <1>3, <1>6, <1>8, <1>9 DEF NoCount
<1> DEFINE v == w.visited
           z == v[Len(v)]
<1>11. CASE w.full
  <2>1. v \in Seq(Text) /\ Len(v) # 0 /\ last = z
    BY <1>4, <1>5, <1>11 DEF Last, GoesOn
  <2> DEFINE many == Len(v)
  <2>2. many \in Nat /\ many # 0 /\ many \in 1 .. many
    BY <2>1
  <2>3. Has(v, z)
    BY <2>2 DEF Has
  <2>4. PICK j \in 1 .. m : keys[j] = z
    BY <1>6, <2>3
  <2>5. \A x : Has(v, x) => x = z \/ Before(x, z)
    <3> SUFFICES ASSUME NEW i \in 1 .. many PROVE v[i] = z \/ Before(v[i], z)
      BY DEF Has
    <3>1. i = many \/ i < many
      BY <2>2
    <3> QED BY <1>4, <2>2, <3>1 DEF Ordered
  <2>6. \A x : Has(new, x) => x = keys[j] \/ Before(x, keys[j])
    BY <1>6, <2>4, <2>5
  <2>7. /\ keys[j] \in Text /\ keys[j] # NoKey
        /\ \A x : Has(all \o new, x) => x = keys[j] \/ Before(x, keys[j])
        /\ \A x \in st : Has(all \o new, x) \/ Before(keys[j], x)
    BY <1>2, <2>4, <2>6, UpTo DEF all
  <2>8. last = keys[j]
    BY <2>1, <2>4
  <2>9. can_read(sc, last)
    BY <1>6, <2>1, <2>3
  <2>10. \A x \in cursors : can_read(sc, x)
    BY <1>3, <2>9
  <2>11. /\ last \in Text /\ last # NoKey /\ over = FALSE
         /\ \A x : Has(sofar \o <<>>, x) => x = last \/ Before(x, last)
         /\ \A x \in st : Has(sofar \o <<>>, x) \/ Before(last, x)
    BY <1>0, <1>8, <1>9, <2>7, <2>8
  <2> HIDE DEF cursors
  <2> QED BY <1>3, <1>9, <1>10, <2>10, <2>11 DEF Walked
<1>12. CASE ~w.full
  <2>1. last = NoKey /\ over = TRUE /\ m = Len(keys)
    BY <1>0, <1>4, <1>12 DEF GoesOn
  <2>2. \A x \in cursors : can_read(sc, x)
    BY <1>3, <2>1
  <2>3. \A x \in st : Has(sofar, x)
    <3>1. \A x \in st : Has(all \o new, x) \/ \E i \in Len(keys) + 1 .. Len(keys) : keys[i] = x
      BY <1>6, <2>1
    <3>2. ~\E i \in Len(keys) + 1 .. Len(keys) : TRUE
      BY <1>7
    <3> QED BY <1>8, <3>1, <3>2
  <2> HIDE DEF cursors
  <2> QED BY <1>3, <1>9, <1>10, <2>1, <2>2, <2>3 DEF Walked
<1> QED BY <1>11, <1>12
-----------------------------------------------------------------------------
(***************************************************************************)
(* The walk under way.                                                     *)
(***************************************************************************)
\* A walk as it should stand.
Walking(w) ==
    /\ w = WalkWith(w.scope, w.pattern, w.count, w.after, w.seen, w.found, w.listed, w.cursors, w.steady, w.over)
    /\ Walked(w.scope, w.pattern, w.count, w.after, w.seen, w.found, w.listed, w.cursors, w.steady, w.over)

\* The parts of a walk.
LEMMA FieldsAre ==
    ASSUME NEW sc, NEW p, NEW c, NEW a, NEW n, NEW f, NEW l, NEW cs, NEW st, NEW o, NEW w,
           w = WalkWith(sc, p, c, a, n, f, l, cs, st, o)
    PROVE  /\ w.on = Going /\ w.scope = sc /\ w.pattern = p /\ w.count = c /\ w.after = a /\ w.seen = n
           /\ w.found = f /\ w.listed = l /\ w.cursors = cs /\ w.steady = st /\ w.over = o
  BY DEF WalkWith

\* A walk whose parts are as they should be is as it should be.
LEMMA WalkingIs ==
    ASSUME NEW sc, NEW p, NEW c, NEW a, NEW n, NEW f, NEW l, NEW cs, NEW st, NEW o, NEW w,
           w = WalkWith(sc, p, c, a, n, f, l, cs, st, o), Walked(sc, p, c, a, n, f, l, cs, st, o)
    PROVE  Walking(w)
<1>1. /\ w.scope = sc /\ w.pattern = p /\ w.count = c /\ w.after = a /\ w.seen = n
      /\ w.found = f /\ w.listed = l /\ w.cursors = cs /\ w.steady = st /\ w.over = o
  BY FieldsAre
<1> QED BY <1>1 DEF Walking

\* A walk as it should be is under way.
LEMMA WalkingIsOn ==
    ASSUME NEW w, Walking(w)
    PROVE  w.on = Going
<1> DEFINE sc == w.scope
           p == w.pattern
           c == w.count
           a == w.after
           n == w.seen
           f == w.found
           l == w.listed
           cs == w.cursors
           s == w.steady
           o == w.over
<1>1. w = WalkWith(sc, p, c, a, n, f, l, cs, s, o)
  BY DEF Walking
<1> HIDE DEF sc, p, c, a, n, f, l, cs, s, o
<1> QED BY <1>1, FieldsAre

\* What the steps of a walk, and the going of keys, make of it.
OnPause(w, a, f, n) == [w EXCEPT !.after = a, !.found = f, !.seen = @ + n]
OnPage(w, a, l, cs, o) ==
    [w EXCEPT !.after = a, !.seen = 0, !.found = <<>>, !.listed = @ \o l,
              !.cursors = @ \cup cs, !.over = o]
Without(w, lost) == [w EXCEPT !.steady = @ \ lost]

\* What a pause changes of a walk is all it changes.
LEMMA PauseIs ==
    ASSUME NEW sc, NEW p, NEW c, NEW a, NEW n, NEW f, NEW l, NEW cs, NEW st, NEW o, NEW w,
           w = WalkWith(sc, p, c, a, n, f, l, cs, st, o), NEW a2, NEW f2, NEW n2
    PROVE  OnPause(w, a2, f2, n2) = WalkWith(sc, p, c, a2, n + n2, f2, l, cs, st, o)
<1> DEFINE e1 == [w EXCEPT !.after = a2]
           e2 == [e1 EXCEPT !.found = f2]
           e3 == [e2 EXCEPT !.seen = @ + n2]
<1>1. OnPause(w, a2, f2, n2) = e3
  BY DEF OnPause
<1>2. e1 = WalkWith(sc, p, c, a2, n, f, l, cs, st, o)
  BY DEF WalkWith
<1> HIDE DEF e1
<1>3. e2 = WalkWith(sc, p, c, a2, n, f2, l, cs, st, o)
  BY <1>2 DEF WalkWith
<1> HIDE DEF e2
<1>4. e3 = WalkWith(sc, p, c, a2, n + n2, f2, l, cs, st, o)
  BY <1>3 DEF WalkWith
<1> QED BY <1>1, <1>4

\* What a page changes of a walk is all it changes.
LEMMA PageIs ==
    ASSUME NEW sc, NEW p, NEW c, NEW a, NEW n, NEW f, NEW l, NEW cs, NEW st, NEW o, NEW w,
           w = WalkWith(sc, p, c, a, n, f, l, cs, st, o), NEW a2, NEW l2, NEW cs2, NEW o2
    PROVE  OnPage(w, a2, l2, cs2, o2) = WalkWith(sc, p, c, a2, 0, <<>>, l \o l2, cs \cup cs2, st, o2)
<1> DEFINE none == <<>>
           zero == 0
           l3 == l \o l2
           cs3 == cs \cup cs2
           e1 == [w EXCEPT !.after = a2]
           e2 == [e1 EXCEPT !.seen = zero]
           e3 == [e2 EXCEPT !.found = none]
           e4 == [e3 EXCEPT !.listed = l3]
           e5 == [e4 EXCEPT !.cursors = cs3]
           e6 == [e5 EXCEPT !.over = o2]
<1>1. OnPage(w, a2, l2, cs2, o2) = e6
  <2>1. w.listed = l /\ w.cursors = cs
    BY FieldsAre
  <2>2. OnPage(w, a2, l2, cs2, o2) =
           [w EXCEPT !.after = a2, !.seen = zero, !.found = none, !.listed = l3, !.cursors = cs3, !.over = o2]
    BY <2>1 DEF OnPage
  <2> HIDE DEF l3, cs3, none, zero
  <2> QED BY <2>2
<1> SUFFICES e6 = WalkWith(sc, p, c, a2, zero, none, l3, cs3, st, o2)
  BY <1>1
<1> HIDE DEF none, zero, l3, cs3
<1>2. e1 = WalkWith(sc, p, c, a2, n, f, l, cs, st, o)
  BY DEF WalkWith
<1> HIDE DEF e1
<1>3. e2 = WalkWith(sc, p, c, a2, zero, f, l, cs, st, o)
  BY <1>2 DEF WalkWith
<1> HIDE DEF e2
<1>4. e3 = WalkWith(sc, p, c, a2, zero, none, l, cs, st, o)
  BY <1>3 DEF WalkWith
<1> HIDE DEF e3
<1>5. e4 = WalkWith(sc, p, c, a2, zero, none, l3, cs, st, o)
  BY <1>4 DEF WalkWith
<1> HIDE DEF e4
<1>6. e5 = WalkWith(sc, p, c, a2, zero, none, l3, cs3, st, o)
  BY <1>5 DEF WalkWith
<1> HIDE DEF e5
<1>7. e6 = WalkWith(sc, p, c, a2, zero, none, l3, cs3, st, o2)
  BY <1>6 DEF WalkWith
<1> QED BY <1>7

\* A walk that need not list a key stands as it should without it.
LEMMA WithoutWalks ==
    ASSUME NEW w, Walking(w), NEW lost
    PROVE  Walking(Without(w, lost)) /\ Without(w, lost).steady = w.steady \ lost
<1> DEFINE st == w.steady \ lost
           e == Without(w, lost)
<1>1. e = WalkWith(w.scope, w.pattern, w.count, w.after, w.seen, w.found, w.listed, w.cursors, st, w.over)
  <2>1. w = WalkWith(w.scope, w.pattern, w.count, w.after, w.seen, w.found, w.listed, w.cursors, w.steady, w.over)
    BY DEF Walking
  <2> DEFINE sc == w.scope
             p == w.pattern
             c == w.count
             a == w.after
             n == w.seen
             f == w.found
             l == w.listed
             cs == w.cursors
             s == w.steady
             o == w.over
  <2>2. w = WalkWith(sc, p, c, a, n, f, l, cs, s, o)
    BY <2>1
  <2> HIDE DEF sc, p, c, a, n, f, l, cs, s, o
  <2>3. [w EXCEPT !.steady = @ \ lost] = WalkWith(sc, p, c, a, n, f, l, cs, s \ lost, o)
    BY <2>2 DEF WalkWith
  <2> QED BY <2>3 DEF sc, p, c, a, n, f, l, cs, s, o, Without
<1>2. Walked(w.scope, w.pattern, w.count, w.after, w.seen, w.found, w.listed, w.cursors, st, w.over)
  <2>1. Walked(w.scope, w.pattern, w.count, w.after, w.seen, w.found, w.listed, w.cursors, w.steady, w.over)
    BY DEF Walking
  <2>2. \A x \in st : x \in w.steady
    OBVIOUS
  <2> HIDE DEF st
  <2> QED BY <2>1, <2>2 DEF Walked
<1> HIDE DEF st, e
<1>3. Walking(e) /\ e.steady = st
  BY <1>1, <1>2, WalkingIs, FieldsAre
<1> QED BY <1>3 DEF e, st
-----------------------------------------------------------------------------
\* The walk under way, if one is, stands as it should, and what is steady is there.
ListInv == list = NoWalk \/ (Walking(list) /\ list.steady \subseteq Live)

\* The keys there are are finitely many texts.
LEMMA ReachKeyed == ASSUME ReachInv PROVE Keyed
<1>1. setup \in Setups /\ DOMAIN db \subseteq setup.pool
  BY DEF ReachInv
<1>2. setup.pool \subseteq Text /\ IsFiniteSet(setup.pool) /\ NoKey \notin setup.pool
  BY <1>1, PoolIs, SetupsAssumption
<1> QED BY <1>1, <1>2, FS_Subset DEF Keyed

\* A walk that begins is as it should be (commands.rs Scan::new).
LEMMA ListStarts ==
    ASSUME NEW sc, ScopeOk(sc), NEW p \in Text, NEW c \in Nat
    PROVE  Walked(sc, p, c, NoKey, 0, <<>>, <<>>, {}, Listable(sc, p), FALSE)
<1> DEFINE none == <<>>
           st == Listable(sc, p)
<1>1. none \in Seq(Text) /\ none \o none = none /\ ~\E x : Has(none, x)
  BY DEF Has
<1>2. Ordered(none)
  BY DEF Ordered
<1>3. \A x \in st : can_read(sc, x) /\ Means(p, x)
  BY DEF Listable
<1>4. 0 \in Nat /\ (c # NoCount => 0 # c)
  BY DEF NoCount
<1> SUFFICES Walked(sc, p, c, NoKey, 0, none, none, {}, st, FALSE)
  OBVIOUS
<1> HIDE DEF none, st
<1> QED BY <1>1, <1>2, <1>3, <1>4 DEF Walked

\* One run of the walk under way.
LEMMA StepWalks ==
    ASSUME Keyed, Walking(list), list.steady \subseteq Live, ~list.over, Step
    PROVE  Walking(list') /\ list'.steady = list.steady
<1> DEFINE sc == list.scope
           p == list.pattern
           c == list.count
           a == list.after
           n == list.seen
           f == list.found
           l == list.listed
           cs == list.cursors
           st == list.steady
           o == list.over
           room == IF list.count = NoCount THEN -1 ELSE list.count - list.seen
           by(w) == Chosen(w.visited, {k \in Range(w.visited) : matches(list.pattern, k)})
           last(w) == IF w.full THEN Last(w.visited) ELSE NoKey
           Do(w) == list' = IF w.paused # NoKey
                            THEN [list EXCEPT !.after = w.paused, !.found = list.found \o by(w),
                                              !.seen = @ + Len(w.visited)]
                            ELSE [list EXCEPT !.after = last(w), !.seen = 0, !.found = <<>>,
                                              !.listed = @ \o (list.found \o by(w)),
                                              !.cursors = @ \cup ({last(w)} \ {NoKey}),
                                              !.over = last(w) = NoKey]
<1>1. \E w \in {walk(list.scope, literal_prefix(list.pattern), list.after, Run, room)} : Do(w)
  BY ZenonT(30) DEF Step
<1> HIDE DEF Do
<1>2. PICK w \in {walk(list.scope, literal_prefix(list.pattern), list.after, Run, room)} : Do(w)
  BY <1>1
<1>3. list = WalkWith(sc, p, c, a, n, f, l, cs, st, o) /\ Walked(sc, p, c, a, n, f, l, cs, st, o)
  BY DEF Walking
<1>4. o = FALSE
  BY <1>3 DEF Walked
<1>5. Walked(sc, p, c, a, n, f, l, cs, st, FALSE) /\ st \subseteq Live
  BY <1>3, <1>4
<1>6. w = walk(sc, literal_prefix(p), a, Run, RoomFor(c, n))
  BY <1>2 DEF RoomFor
<1>7. by(w) = Adds(w, p)
  BY DEF Adds
<1> DEFINE new == Adds(w, p)
           found == f \o new
<1>8. CASE w.paused # NoKey
  <2>1. list' = OnPause(list, w.paused, found, Len(w.visited))
    BY <1>2, <1>7, <1>8 DEF Do, OnPause
  <2> HIDE DEF sc, p, c, a, n, f, l, cs, st, o, new
  <2>2. list' = WalkWith(sc, p, c, w.paused, n + Len(w.visited), found, l, cs, st, o)
    BY <1>3, <2>1, PauseIs
  <2>3. Walked(sc, p, c, w.paused, n + Len(w.visited), found, l, cs, st, FALSE)
    BY <1>5, <1>6, <1>8, RunPauses DEF new
  <2>4. Walking(list')
    BY <1>4, <2>2, <2>3, WalkingIs
  <2>5. list'.steady = st
    BY <2>2, FieldsAre
  <2> QED BY <2>4, <2>5 DEF st
<1>9. CASE w.paused = NoKey
  <2> DEFINE z == last(w)
             on == z = NoKey
             some == {z} \ {NoKey}
  <2>1. list' = OnPage(list, z, found, some, on)
    BY <1>2, <1>7, <1>9 DEF Do, OnPage
  <2>2. GoesOn(w, z, on)
    BY DEF GoesOn
  <2> HIDE DEF sc, p, c, a, n, f, l, cs, st, o, new, on, z
  <2>4. list' = WalkWith(sc, p, c, z, 0, <<>>, l \o found, cs \cup some, st, on)
    BY <1>3, <2>1, PageIs
  <2>5. Walked(sc, p, c, z, 0, <<>>, l \o found, cs \cup some, st, on)
    BY <1>5, <1>6, <1>9, <2>2, RunEnds DEF new
  <2>6. Walking(list')
    BY <2>4, <2>5, WalkingIs
  <2>7. list'.steady = st
    BY <2>4, FieldsAre
  <2> QED BY <2>6, <2>7 DEF st
<1> QED BY <1>8, <1>9
-----------------------------------------------------------------------------
\* Each step keeps the walk as it should be.
LEMMA ListStep ==
    ASSUME ReachInv, ListInv, [Next]_vars
    PROVE  ListInv'
<1>1. Keyed
  BY ReachKeyed
<1>2. list = NoWalk \/ (Walking(list) /\ list.steady \subseteq Live)
  BY DEF ListInv
<1>3. list = NoWalk => list.on = FALSE
  BY DEF NoWalk
<1>4. Walking(list) => list.on = TRUE
  BY WalkingIsOn DEF Going
<1>5. ASSUME list' = list, Live \subseteq Live' PROVE ListInv'
  <2>1. CASE list = NoWalk
    <3>1. list' = NoWalk
      BY <1>5, <2>1
    <3> QED BY <3>1 DEF ListInv, NoWalk
  <2>2. CASE Walking(list) /\ list.steady \subseteq Live
    <3>1. Walking(list') /\ list'.steady \subseteq Live'
      BY <1>5, <2>2
    <3> QED BY <3>1 DEF ListInv
  <2> QED BY <1>2, <2>1, <2>2
<1>6. ASSUME NEW lost, list' = Unsteadied(lost), Live \ lost \subseteq Live' PROVE ListInv'
  <2>1. CASE list = NoWalk
    <3>1. list' = NoWalk
      BY <1>3, <1>6, <2>1 DEF Unsteadied
    <3> QED BY <3>1 DEF ListInv, NoWalk
  <2>2. CASE Walking(list) /\ list.steady \subseteq Live
    <3>1. list' = Without(list, lost)
      BY <1>4, <1>6, <2>2 DEF Unsteadied, Without
    <3>2. Walking(list') /\ list'.steady = list.steady \ lost
      BY <2>2, <3>1, WithoutWalks
    <3>3. list'.steady \subseteq Live'
      BY <1>6, <2>2, <3>2
    <3> QED BY <3>2, <3>3 DEF ListInv
  <2> QED BY <1>2, <2>1, <2>2
<1>7. ASSUME db' = db PROVE Live' = Live
  BY <1>7 DEF Live
<1>8. ASSUME NEW t \in Token, NEW k \in setup.pool, SetKey(t, k) PROVE ListInv'
  <2>1. list' = list /\ db' = Put(k)
    BY <1>8 DEF SetKey
  <2>2. Live \subseteq Live'
    BY <2>1 DEF Live, Put
  <2> QED BY <1>5, <2>1, <2>2
<1>9. ASSUME NEW t \in Token, NEW k \in setup.pool, DelKey(t, k) PROVE ListInv'
  <2>1. list' = Unsteadied({k}) /\ db' = [j \in DOMAIN db \ {k} |-> db[j]]
    BY <1>9 DEF DelKey
  <2>2. Live \ {k} \subseteq Live'
    BY <2>1 DEF Live
  <2> QED BY <1>6, <2>1, <2>2
<1>10. ASSUME NEW t \in Token, NEW k \in setup.pool, NEW l \in setup.pool, RenameKey(t, k, l) PROVE ListInv'
  <2>1. list' = Unsteadied({k}) /\ db' = [j \in DOMAIN Put(l) \ {k} |-> Put(l)[j]]
    BY <1>10 DEF RenameKey
  <2>2. Live \ {k} \subseteq Live'
    BY <2>1 DEF Live, Put
  <2> QED BY <1>6, <2>1, <2>2
<1>11. ASSUME NEW k \in setup.pool, KeyExpires(k) PROVE ListInv'
  <2>1. list' = Unsteadied({k}) /\ db' = [db EXCEPT ![k] = "expired"]
    BY <1>11 DEF KeyExpires
  <2>2. Live \ {k} \subseteq Live'
    BY <2>1 DEF Live
  <2> QED BY <1>6, <2>1, <2>2
<1>12. ASSUME ExpireKeys PROVE ListInv'
  <2>1. list' = list /\ db' = [k \in Live |-> "live"]
    BY <1>12 DEF ExpireKeys
  <2>2. Live \subseteq Live'
    BY <2>1 DEF Live
  <2> QED BY <1>5, <2>1, <2>2
<1>13. ASSUME List PROVE ListInv'
  <2>1. db' = db /\ setup \in Setups
    BY <1>13 DEF List, Ask, ReachInv
  <2>2. PICK a \in setup.asks : Ask(setup.scopes[a.token], a.pattern, a.count)
    BY <1>13 DEF List
  <2> DEFINE sc == setup.scopes[a.token]
             p == a.pattern
             c == a.count
             st == Listable(sc, p)
  <2>3. a.token \in Token /\ p \in Text /\ c \in Nat
    BY <2>1, SetupsAssumption DEF Text
  <2>4. ScopeOk(sc)
    BY <2>1, <2>3, SetupsAssumption DEF ScopeOk, Text
  <2>5. list' = WalkWith(sc, p, c, NoKey, 0, <<>>, <<>>, {}, st, FALSE)
    BY <2>2 DEF Ask, WalkWith, Going
  <2>6. st \subseteq Live
    BY DEF Listable
  <2> HIDE DEF sc, p, c
  <2>7. Walked(sc, p, c, NoKey, 0, <<>>, <<>>, {}, st, FALSE)
    BY <2>3, <2>4, ListStarts
  <2> DEFINE none == <<>>
             nothing == {}
             zero == 0
             no == FALSE
  <2>8. /\ list' = WalkWith(sc, p, c, NoKey, zero, none, none, nothing, st, no)
        /\ Walked(sc, p, c, NoKey, zero, none, none, nothing, st, no)
    BY <2>5, <2>7
  <2> HIDE DEF none, nothing, zero, no, st
  <2>9. Walking(list')
    BY <2>8, WalkingIs
  <2>10. list'.steady = st
    BY <2>8, FieldsAre
  <2> QED BY <1>7, <2>1, <2>6, <2>9, <2>10 DEF ListInv
<1>14. ASSUME Walk PROVE ListInv'
  <2>1. CASE WalkOn
    <3>1. db' = db /\ list.on /\ ~list.over /\ Step
      BY <2>1 DEF WalkOn
    <3>2. Walking(list) /\ list.steady \subseteq Live
      BY <1>2, <1>3, <3>1
    <3>3. Walking(list') /\ list'.steady = list.steady
      BY <1>1, <3>1, <3>2, StepWalks
    <3> QED BY <1>7, <3>1, <3>2, <3>3 DEF ListInv
  <2>2. CASE Forget
    <3>1. list' = NoWalk
      BY <2>2 DEF Forget
    <3> QED BY <3>1 DEF ListInv, NoWalk
  <2> QED BY <1>14, <2>1, <2>2 DEF Walk
<1>15. ASSUME list' = list, db' = db PROVE ListInv'
  BY <1>5, <1>7, <1>15
<1>16. ASSUME Subscribe \/ PublishMessage PROVE ListInv'
  <2>1. list' = list /\ db' = db
    BY <1>16 DEF Subscribe, PublishMessage
  <2> QED BY <1>15, <2>1
<1>17. ASSUME NEW c \in Conn, Thread(c) \/ Leave(c) PROVE ListInv'
  <2>1. list' = list /\ db' = db
    BY <1>17 DEF Thread, Leave
  <2> QED BY <1>15, <2>1
<1>18. ASSUME UNCHANGED vars PROVE ListInv'
  <2>1. list' = list /\ db' = db
    BY <1>18 DEF vars
  <2> QED BY <1>15, <2>1
<1> QED BY <1>8, <1>9, <1>10, <1>11, <1>12, <1>13, <1>14, <1>16, <1>17, <1>18 DEF Next

\* A walk as it should be has listed what it should.
LEMMA ListHolds == ListInv => ListsWhatStays
<1> SUFFICES ASSUME Walking(list), list.on PROVE ListsWhatStays
  <2>1. list = NoWalk => list.on = FALSE
    BY DEF NoWalk
  <2> QED BY <2>1 DEF ListInv, ListsWhatStays
<1> DEFINE l == list.listed
           f == list.found
<1>1. /\ f \in Seq(Text) /\ l \in Seq(Text) /\ Ordered(l \o f)
      /\ \A x : Has(l \o f, x) => can_read(list.scope, x) /\ Means(list.pattern, x)
      /\ \A x \in list.cursors : can_read(list.scope, x)
      /\ list.over => \A x \in list.steady : Has(l, x)
  BY DEF Walking, Walked
<1> SUFFICES
      /\ \A i, j \in DOMAIN l : i < j => Before(l[i], l[j])
      /\ \A k \in Range(l) \cup list.cursors : can_read(list.scope, k)
      /\ \A k \in Range(l) : Means(list.pattern, k)
      /\ list.over => list.steady \subseteq Range(l)
  BY DEF ListsWhatStays
<1> HIDE DEF l, f
<1>2. DOMAIN l = 1 .. Len(l) /\ Len(l) \in Nat
  BY <1>1
<1>3. \A x : x \in Range(l) <=> Has(l, x)
  BY <1>2 DEF Range, Has
<1>4. \A i \in 1 .. Len(l) : (l \o f)[i] = l[i] /\ i \in 1 .. Len(l \o f)
  BY <1>1, <1>2, ConcatProperties
<1>5. \A x : Has(l, x) => Has(l \o f, x)
  BY <1>4 DEF Has
<1>6. \A i, j \in 1 .. Len(l) : i < j => Before(l[i], l[j])
  BY <1>1, <1>4 DEF Ordered
<1> QED BY <1>1, <1>2, <1>3, <1>5, <1>6

\* A listing lists each key that stays, once and in order, and none beyond its
\* client's reach.
THEOREM ListsWhatStaysAlways == Spec => []ListsWhatStays
<1>1. Init => ListInv
  BY DEF Init, ListInv
<1>2. Init /\ [][Next]_vars => [](ReachInv /\ ListInv)
  <2>1. Init => ReachInv /\ ListInv
    BY <1>1, ReachInit
  <2>2. ReachInv /\ ListInv /\ [Next]_vars => (ReachInv /\ ListInv)'
    BY ReachStep, ListStep
  <2> QED BY <2>1, <2>2, PTL
<1>3. ListInv => ListsWhatStays
  BY ListHolds
<1> QED BY <1>2, <1>3, PTL DEF Spec
=============================================================================
