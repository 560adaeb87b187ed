------------------------------- MODULE Capture -------------------------------
(***************************************************************************)
(* How a snapshot writes the store out while it goes on changing           *)
(* (capture.rs, db.rs, and Store::begin_capture .. abandon_capture).       *)
(*                                                                         *)
(* The store is a row of ordered maps, the sections: the rooms, the        *)
(* messages (both Captured<K, V>) and, last, the keyspace (Db).  A capture *)
(* walks each section in key order, a run at a time under the broker's     *)
(* lock; a value about to change that the walk has not reached is written  *)
(* first, as it was, and its key noted in `early`.                         *)
(*                                                                         *)
(* Keys are numbers, standing for strings and ids in their order.  What is *)
(* written is a bag of (key, value) pairs: the reader of a snapshot puts   *)
(* them in maps, so their order in the file does not matter, but each is   *)
(* to be there once.  `image` and `copies` are that bag.                   *)
(***************************************************************************)
EXTENDS Integers

CONSTANTS Sections,  \* how many maps the store has; the last is the keyspace
          Key,       \* the keys of the maps
          Value,     \* what they hold
          NoValue    \* no value: the key is not there

ASSUME SectionsAssumption == Sections \in Nat \ {0}
ASSUME KeyAssumption == Key \subseteq Nat
\* A map with keys has a last one (its keys are finitely many).
ASSUME LastKeyAssumption == \A S \in SUBSET Key :
                               S # {} => \E k \in S : \A j \in S : j <= k
ASSUME NoValueAssumption == NoValue \notin Value

Section == 1 .. Sections
Keyspace == Sections
\* Db keeps no bound: its walk goes on to whatever key comes last.
Bounded == Section \ {Keyspace}
Entry == Value \cup {NoValue}
Map == [Key -> Entry]
Store == [Section -> Map]

NoKey == -1        \* None, before every key
Unlimited == -2    \* the budget usize::MAX
Nothing == [p \in Section |-> [k \in Key |-> NoKey]]   \* no snapshot yet

VARIABLES map,       \* the maps, by section
          live,      \* whether the section has a capture (Option<Capture>)
          bound,     \* its last key when the capture began
          cursor,    \* the last key written in order
          early,     \* keys written, or noted missing, out of order
          done,      \* every value is written
          image,     \* the values written so far
          copies,    \* how many times each key was written
          snapshot   \* the last snapshot finished

vars == <<map, live, bound, cursor, early, done, image, copies, snapshot>>

Within(p, k) == p \in Bounded => k <= bound[p]

\* Capture::passed.
passed(p, k) == done[p] \/ ~Within(p, k) \/ k <= cursor[p]

capturing == live[Keyspace]

Blank == [p \in Section |-> [k \in Key |-> NoValue]]
Zero == [p \in Section |-> [k \in Key |-> 0]]

Init == /\ map = Blank
        /\ live = [p \in Section |-> FALSE]
        /\ bound = [p \in Section |-> NoKey]
        /\ cursor = [p \in Section |-> NoKey]
        /\ early = [p \in Section |-> {}]
        /\ done = [p \in Section |-> FALSE]
        /\ image = Blank
        /\ copies = Zero
        /\ snapshot = Nothing
-----------------------------------------------------------------------------
(***************************************************************************)
(* Changes to the store.  Each first preserves the key it is about to      *)
(* change.                                                                 *)
(***************************************************************************)
preserve_missing(p, k) ==       \* notes only keys that are there
    /\ image' = IF live[p] /\ ~passed(p, k) /\ k \notin early[p]
                THEN [image EXCEPT ![p][k] = map[p][k]] ELSE image
    /\ copies' = IF /\ live[p] /\ ~passed(p, k) /\ k \notin early[p]
                    /\ map[p][k] # NoValue
                 THEN [copies EXCEPT ![p][k] = @ + 1] ELSE copies
    /\ early' = IF /\ live[p] /\ ~passed(p, k) /\ map[p][k] # NoValue
                THEN [early EXCEPT ![p] = @ \cup {k}] ELSE early

\* Capture::preserve.
preserve(p, k) ==
    LET first == live[p] /\ ~passed(p, k) /\ k \notin early[p]
    IN  /\ early' = IF first THEN [early EXCEPT ![p] = @ \cup {k}] ELSE early
        /\ image' = IF first THEN [image EXCEPT ![p][k] = map[p][k]] ELSE image
        /\ copies' = IF first /\ map[p][k] # NoValue
                     THEN [copies EXCEPT ![p][k] = @ + 1] ELSE copies

\* get_mut, replace: the value, if there is one, becomes v.
get_mut(p, k, v) ==
    /\ preserve(p, k)
    /\ map' = IF map[p][k] = NoValue THEN map ELSE [map EXCEPT ![p][k] = v]
    /\ UNCHANGED <<live, bound, cursor, done, snapshot>>

insert(p, k, v) ==
    /\ preserve(p, k)
    /\ map' = [map EXCEPT ![p][k] = v]
    /\ UNCHANGED <<live, bound, cursor, done, snapshot>>

remove(p, k) ==
    /\ preserve(p, k)
    /\ map' = [map EXCEPT ![p][k] = NoValue]
    /\ UNCHANGED <<live, bound, cursor, done, snapshot>>
-----------------------------------------------------------------------------
(***************************************************************************)
(* One section's capture_step.  Its budget is the last key it has bytes    *)
(* for, or Unlimited: a walk stops only after a value it wrote, never at   *)
(* one it skipped, and is done when it runs out of keys, not before.       *)
(***************************************************************************)
Walk(p) == {k \in Key : map[p][k] # NoValue /\ cursor[p] < k /\ Within(p, k)}
Budget(p) == (Walk(p) \ early[p]) \cup {Unlimited}
Walked(p, b) == IF b = Unlimited THEN Walk(p) ELSE {k \in Walk(p) : k <= b}

LastOf(S, otherwise) == IF \E k \in S : \A j \in S : j <= k
                        THEN CHOOSE k \in S : \A j \in S : j <= k
                        ELSE otherwise

Steps(p) == live[p] /\ ~done[p]

\* The keys section p walks when the sections R take a step, each with its
\* budget in b, and what the step leaves: the values it reaches are written,
\* but for those written early, whose keys it forgets.
W(R, b, p) == IF p \in R /\ Steps(p) THEN Walked(p, b[p]) ELSE {}

stepped_image(R, b) ==
    [p \in Section |-> [k \in Key |->
        IF k \in W(R, b, p) \ early[p] THEN map[p][k] ELSE image[p][k]]]

stepped_copies(R, b) ==
    [p \in Section |-> [k \in Key |->
        IF k \in W(R, b, p) \ early[p] THEN copies[p][k] + 1 ELSE copies[p][k]]]

stepped_early(R, b) == [p \in Section |-> early[p] \ W(R, b, p)]

stepped_cursor(R, b) == [p \in Section |-> LastOf(W(R, b, p), cursor[p])]

stepped_done(R, b) == [p \in Section |->
                          done[p] \/ (p \in R /\ Steps(p) /\ b[p] = Unlimited)]

capture_step(R, b) ==
    /\ image' = stepped_image(R, b)
    /\ copies' = stepped_copies(R, b)
    /\ early' = stepped_early(R, b)
    /\ cursor' = stepped_cursor(R, b)
    /\ done' = stepped_done(R, b)

NoLimit == [p \in Section |-> Unlimited]

\* Captured::values_mut, for renaming an agent everywhere: what the capture
\* has not reached is written, then every value may change.
values_mut(p, f) ==
    /\ p \in Bounded
    /\ capture_step({p}, NoLimit)
    /\ map' = [map EXCEPT ![p] =
                  [k \in Key |-> IF @[k] = NoValue THEN NoValue ELSE f[k]]]
    /\ UNCHANGED <<live, bound, snapshot>>

\* Db::clear.
clear == /\ capture_step({Keyspace}, NoLimit)
         /\ map' = [map EXCEPT ![Keyspace] = [k \in Key |-> NoValue]]
         /\ UNCHANGED <<live, bound, snapshot>>
-----------------------------------------------------------------------------
(***************************************************************************)
(* The life of a capture.                                                  *)
(***************************************************************************)
LastKey(p) == LastOf({k \in Key : map[p][k] # NoValue}, NoKey)

\* Store::begin_capture: of every section at once, for a new Snapshot.
begin_capture ==
    /\ ~capturing
    /\ live' = [p \in Section |-> TRUE]
    /\ bound' = [p \in Section |-> IF p \in Bounded THEN LastKey(p) ELSE NoKey]
    /\ done' = [p \in Section |-> p \in Bounded /\ LastKey(p) = NoKey]
    /\ snapshot' = Nothing
    /\ UNCHANGED <<map, cursor, early, image, copies>>

\* Store::capture_step goes on to a section once the ones ahead are done.
Over(p, b) == ~live[p] \/ done[p] \/ b[p] = Unlimited
Reached_any(b) == Section      \* whatever the ones ahead are at
Reached(b) == {p \in Section : \A q \in Section : q < p => Over(q, b)}

\* One turn of the snapshot thread (Broker::take_snapshot), under the lock: a
\* step, then drain_capture, which ends the captures that are over, in order,
\* but for the keyspace's; once all is written, finish_rewrite ends that one
\* too and the snapshot is complete.  With NoLimit this is end_capture, for a
\* snapshot no thread can take.
snapshot_run(b) ==
    LET over(p) == p \in Reached(b) /\ Over(p, b)
        whole == over(Keyspace)
    IN  /\ capturing
        /\ live' = [p \in Section |-> live[p] /\ ~over(p)]
        /\ bound' = [p \in Section |-> IF over(p) THEN NoKey ELSE bound[p]]
        /\ cursor' = [p \in Section |->
                         IF over(p) THEN NoKey ELSE stepped_cursor(Reached(b), b)[p]]
        /\ early' = [p \in Section |->
                         IF over(p) THEN {} ELSE stepped_early(Reached(b), b)[p]]
        /\ done' = [p \in Section |-> done[p] /\ ~over(p)]
        /\ image' = IF whole THEN Blank ELSE stepped_image(Reached(b), b)
        /\ copies' = IF whole THEN Zero ELSE stepped_copies(Reached(b), b)
        /\ snapshot' = IF whole THEN stepped_image(Reached(b), b) ELSE snapshot
        /\ UNCHANGED map

abandon_capture_early ==      \* keeps what was noted as written early
    /\ capturing
    /\ live' = [p \in Section |-> FALSE]
    /\ bound' = [p \in Section |-> NoKey]
    /\ cursor' = [p \in Section |-> NoKey]
    /\ UNCHANGED early
    /\ done' = [p \in Section |-> FALSE]
    /\ image' = Blank
    /\ copies' = Zero
    /\ UNCHANGED <<map, snapshot>>

abandon_capture ==
    /\ capturing
    /\ live' = [p \in Section |-> FALSE]
    /\ bound' = [p \in Section |-> NoKey]
    /\ cursor' = [p \in Section |-> NoKey]
    /\ early' = [p \in Section |-> {}]
    /\ done' = [p \in Section |-> FALSE]
    /\ image' = Blank
    /\ copies' = Zero
    /\ UNCHANGED <<map, snapshot>>
-----------------------------------------------------------------------------
Next == \/ \E p \in Section, k \in Key, v \in Value : get_mut(p, k, v)
        \/ \E p \in Section, k \in Key, v \in Value : insert(p, k, v)
        \/ \E p \in Section, k \in Key : remove(p, k)
        \/ \E p \in Section, f \in [Key -> Value] : values_mut(p, f)
        \/ clear
        \/ begin_capture
        \/ \E b \in [Section -> Key \cup {Unlimited}] :
              (\A p \in Section : b[p] \in Budget(p)) /\ snapshot_run(b)
        \/ abandon_capture

Spec == Init /\ [][Next]_vars
-----------------------------------------------------------------------------
(***************************************************************************)
(* Properties.                                                             *)
(***************************************************************************)
TypeOK == /\ map \in Store
          /\ live \in [Section -> BOOLEAN]
          /\ bound \in [Section -> Key \cup {NoKey}]
          /\ cursor \in [Section -> Key \cup {NoKey}]
          /\ early \in [Section -> SUBSET Key]
          /\ done \in [Section -> BOOLEAN]
          /\ image \in Store
          /\ copies \in [Section -> [Key -> Nat]]
          /\ snapshot \in Store \cup {Nothing}

\* Every value a capture writes is written once, whatever changes, is removed
\* or comes back while it runs: a key in `early` is skipped by the walk, and
\* one the walk has passed is never preserved again (Capture::passed).
WrittenOnce == \A p \in Section, k \in Key :
                  copies[p][k] = IF image[p][k] = NoValue THEN 0 ELSE 1

\* A capture of any section is part of one of the whole store, and the
\* sections end in the order they are written to the file: none while one
\* ahead of it still has values to write (Store::drain_capture).
EndsInOrder == \A p, q \in Section : p < q /\ live[p] => live[q]

\* What the snapshot being taken will hold, read off the state of the capture:
\* what is written where the walk has been, the map where it has not.
Taken == [p \in Section |-> [k \in Key |->
             IF live[p] /\ ~passed(p, k) /\ k \notin early[p]
             THEN map[p][k] ELSE image[p][k]]]

Atomic == INSTANCE AtomicSnapshot
             WITH taking <- capturing, taken <- IF capturing THEN Taken ELSE Nothing

\* The capture implements an atomic snapshot: the runs it writes, together
\* with the values written early, are the store as it was when it began.
ImplementsAtomicSnapshot == Atomic!ASpec

\* A value the capture has neither passed nor written early is not written
\* yet: it is still in the map, as it was when the capture began.
Unreached == \A p \in Section, k \in Key :
                live[p] /\ ~passed(p, k) /\ k \notin early[p] => image[p][k] = NoValue

\* A section without a capture keeps nothing of the last one, and with no
\* capture at all there is nothing written.
Idle == /\ \A p \in Section : ~live[p] => /\ early[p] = {}
                                          /\ cursor[p] = NoKey
        /\ ~capturing => /\ \A p \in Section : ~live[p]
                         /\ image = Blank
                         /\ copies = Zero

\* What every step of a capture keeps (capture.rs): the strengthening of
\* WrittenOnce that makes it, and the refinement, inductive.
CaptureInv == TypeOK /\ WrittenOnce /\ Unreached /\ Idle
=============================================================================
