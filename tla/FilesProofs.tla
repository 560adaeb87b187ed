---------------------------- MODULE FilesProofs ----------------------------
(***************************************************************************)
(* Proofs about what goes to the journal's files.                          *)
(*                                                                         *)
(* About Capture, for any number of sections, keys and values: its         *)
(* inductive invariant, and that it implements AtomicSnapshot.             *)
(*                                                                         *)
(* About JournalTail, for any threads and bounds: the journal holds the    *)
(* changes in their order, none is lost on its way there, and no reply is  *)
(* ahead of it.                                                            *)
(***************************************************************************)
EXTENDS Capture, JournalTail, SequenceTheorems, TLAPS

-----------------------------------------------------------------------------
(***************************************************************************)
(* Capture.                                                                *)
(***************************************************************************)
(* The last key of a set, or what stands in for it, is a key or none. *)
LEMMA LastOfType ==
  ASSUME NEW S \in SUBSET Key, NEW c \in Key \cup {NoKey}
  PROVE  LastOf(S, c) \in Key \cup {NoKey}
  BY DEF LastOf

(* Preserving a key keeps the types of what it writes. *)
LEMMA PreserveType ==
  ASSUME TypeOK, NEW p \in Section, NEW k \in Key, preserve(p, k)
  PROVE  /\ early' \in [Section -> SUBSET Key]
         /\ image' \in Store
         /\ copies' \in [Section -> [Key -> Nat]]
  BY DEF TypeOK, preserve, Store, Map

(* A step keeps the types of what it leaves. *)
LEMMA SteppedType ==
  ASSUME TypeOK, NEW R, NEW b
  PROVE  /\ stepped_image(R, b) \in Store
         /\ stepped_copies(R, b) \in [Section -> [Key -> Nat]]
         /\ stepped_early(R, b) \in [Section -> SUBSET Key]
         /\ stepped_cursor(R, b) \in [Section -> Key \cup {NoKey}]
         /\ stepped_done(R, b) \in [Section -> BOOLEAN]
<1>1. \A p \in Section : W(R, b, p) \in SUBSET Key
  BY DEF W, Walked, Walk
<1>2. \A p \in Section : LastOf(W(R, b, p), cursor[p]) \in Key \cup {NoKey}
  BY <1>1, LastOfType DEF TypeOK
<1>3. stepped_cursor(R, b) \in [Section -> Key \cup {NoKey}]
  BY <1>2 DEF stepped_cursor
<1>4. stepped_image(R, b) \in Store
  BY DEF stepped_image, TypeOK, Store, Map
<1>5. stepped_copies(R, b) \in [Section -> [Key -> Nat]]
  BY DEF stepped_copies, TypeOK
<1>6. stepped_early(R, b) \in [Section -> SUBSET Key]
  BY DEF stepped_early, TypeOK
<1>7. stepped_done(R, b) \in [Section -> BOOLEAN]
  BY DEF stepped_done, TypeOK, Steps
<1>. QED  BY <1>3, <1>4, <1>5, <1>6, <1>7

(* Nothing written is a store. *)
LEMMA BlankType == Blank \in Store /\ Zero \in [Section -> [Key -> Nat]]
  BY DEF Blank, Zero, Store, Map, Entry
-----------------------------------------------------------------------------
(* What a section has passed once it took a step. *)
passed_after(R, b, p, k) == \/ stepped_done(R, b)[p]
                            \/ ~Within(p, k)
                            \/ k <= stepped_cursor(R, b)[p]

(* A step that stops at b leaves the cursor there, one without limit is done,
   and a section that takes none stays where it is. *)
LEMMA StepCases ==
  ASSUME TypeOK, NEW R, NEW b \in [Section -> Key \cup {Unlimited}],
         \A p \in Section : b[p] \in Budget(p),
         NEW p \in Section
  PROVE  \/ /\ ~(p \in R /\ Steps(p))
            /\ W(R, b, p) = {}
            /\ stepped_cursor(R, b)[p] = cursor[p]
            /\ stepped_done(R, b)[p] = done[p]
         \/ /\ p \in R /\ Steps(p)
            /\ W(R, b, p) = Walk(p)
            /\ stepped_done(R, b)[p]
         \/ /\ p \in R /\ Steps(p)
            /\ b[p] \in Walk(p) \ early[p]
            /\ W(R, b, p) = {k \in Walk(p) : k <= b[p]}
            /\ stepped_cursor(R, b)[p] = b[p]
            /\ ~stepped_done(R, b)[p]
<1>1. CASE ~(p \in R /\ Steps(p))
  <2>1. W(R, b, p) = {}
    BY <1>1 DEF W
  <2>2. LastOf({}, cursor[p]) = cursor[p]
    BY DEF LastOf
  <2>3. stepped_cursor(R, b)[p] = cursor[p]
    BY <2>1, <2>2 DEF stepped_cursor
  <2>4. stepped_done(R, b)[p] = done[p]
    BY <1>1 DEF stepped_done, TypeOK
  <2>. QED  BY <1>1, <2>1, <2>3, <2>4
<1>2. CASE p \in R /\ Steps(p) /\ b[p] = Unlimited
  <2>1. W(R, b, p) = Walk(p)
    BY <1>2 DEF W, Walked
  <2>2. stepped_done(R, b)[p]
    BY <1>2 DEF stepped_done
  <2>. QED  BY <1>2, <2>1, <2>2
<1>3. CASE p \in R /\ Steps(p) /\ b[p] # Unlimited
  <2>1. b[p] \in Walk(p) \ early[p]
    BY <1>3 DEF Budget
  <2>2. b[p] \in Nat
    BY <2>1, KeyAssumption DEF Walk
  <2>3. W(R, b, p) = {k \in Walk(p) : k <= b[p]}
    BY <1>3 DEF W, Walked
  <2>4. LastOf({k \in Walk(p) : k <= b[p]}, cursor[p]) = b[p]
    <3>. DEFINE S == {k \in Walk(p) : k <= b[p]}
    <3>1. S \subseteq Nat
      BY KeyAssumption DEF Walk
    <3>2. b[p] \in S /\ \A j \in S : j <= b[p]
      BY <2>1, <2>2
    <3>3. \A k \in S : (\A j \in S : j <= k) => k = b[p]
      BY <3>1, <3>2
    <3>. HIDE DEF S
    <3>4. LastOf(S, cursor[p]) = b[p]
      BY <3>2, <3>3 DEF LastOf
    <3>. QED  BY <3>4 DEF S
  <2>5. stepped_cursor(R, b)[p] = b[p]
    BY <2>3, <2>4 DEF stepped_cursor
  <2>6. ~stepped_done(R, b)[p]
    BY <1>3 DEF stepped_done, Steps, TypeOK
  <2>. QED  BY <1>3, <2>1, <2>3, <2>5, <2>6
<1>. QED  BY <1>1, <1>2, <1>3

(* A step writes what it reaches, once, and leaves what the snapshot will
   hold as it was. *)
LEMMA StepKeeps ==
  ASSUME CaptureInv, NEW R, NEW b \in [Section -> Key \cup {Unlimited}],
         \A q \in Section : b[q] \in Budget(q),
         NEW p \in Section, NEW k \in Key
  PROVE  /\ stepped_copies(R, b)[p][k] =
               IF stepped_image(R, b)[p][k] = NoValue THEN 0 ELSE 1
         /\ live[p] /\ ~passed_after(R, b, p, k) /\ k \notin stepped_early(R, b)[p]
               => stepped_image(R, b)[p][k] = NoValue
         /\ (IF live[p] /\ ~passed_after(R, b, p, k) /\ k \notin stepped_early(R, b)[p]
             THEN map[p][k] ELSE stepped_image(R, b)[p][k]) = Taken[p][k]
<1>0. TypeOK
  BY DEF CaptureInv
<1>1. /\ copies[p][k] = IF image[p][k] = NoValue THEN 0 ELSE 1
      /\ live[p] /\ ~passed(p, k) /\ k \notin early[p] => image[p][k] = NoValue
  BY DEF CaptureInv, WrittenOnce, Unreached
<1>2. /\ stepped_image(R, b)[p][k] =
            IF k \in W(R, b, p) \ early[p] THEN map[p][k] ELSE image[p][k]
      /\ stepped_copies(R, b)[p][k] =
            IF k \in W(R, b, p) \ early[p] THEN copies[p][k] + 1 ELSE copies[p][k]
      /\ stepped_early(R, b)[p] = early[p] \ W(R, b, p)
  BY DEF stepped_image, stepped_copies, stepped_early
<1>3. Taken[p][k] = IF live[p] /\ ~passed(p, k) /\ k \notin early[p]
                    THEN map[p][k] ELSE image[p][k]
  BY DEF Taken
<1>4. k \in Nat /\ cursor[p] \in Int /\ (b[p] \in Walk(p) => b[p] \in Nat)
  <2>1. cursor[p] \in Key \cup {-1}
    BY <1>0 DEF TypeOK, NoKey
  <2>2. b[p] \in Walk(p) => b[p] \in Key
    BY DEF Walk
  <2>3. k \in Nat
    BY KeyAssumption
  <2>4. cursor[p] \in Int
    <3>1. CASE cursor[p] \in Key
      <4>1. cursor[p] \in Nat
        BY <3>1, KeyAssumption
      <4>. QED  BY <4>1
    <3>2. CASE cursor[p] = -1
      BY <3>2
    <3>. QED  BY <2>1, <3>1, <3>2
  <2>5. b[p] \in Walk(p) => b[p] \in Nat
    BY <2>2, KeyAssumption
  <2>. QED  BY <2>3, <2>4, <2>5
<1>5. k \in Walk(p) <=> map[p][k] # NoValue /\ cursor[p] < k /\ Within(p, k)
  BY DEF Walk
<1>6. passed(p, k) <=> done[p] \/ ~Within(p, k) \/ k <= cursor[p]
  BY DEF passed
<1>7. passed_after(R, b, p, k) <=>
        stepped_done(R, b)[p] \/ ~Within(p, k) \/ k <= stepped_cursor(R, b)[p]
  BY DEF passed_after
<1>8. Steps(p) <=> live[p] /\ ~done[p]
  BY DEF Steps
<1>9. CASE /\ ~(p \in R /\ Steps(p))
           /\ W(R, b, p) = {}
           /\ stepped_cursor(R, b)[p] = cursor[p]
           /\ stepped_done(R, b)[p] = done[p]
  BY <1>1, <1>2, <1>3, <1>6, <1>7, <1>9
<1>10. CASE /\ p \in R /\ Steps(p)
            /\ W(R, b, p) = Walk(p)
            /\ stepped_done(R, b)[p]
  BY <1>1, <1>2, <1>3, <1>4, <1>5, <1>6, <1>7, <1>8, <1>10
<1>11. CASE /\ p \in R /\ Steps(p)
            /\ b[p] \in Walk(p) \ early[p]
            /\ W(R, b, p) = {j \in Walk(p) : j <= b[p]}
            /\ stepped_cursor(R, b)[p] = b[p]
            /\ ~stepped_done(R, b)[p]
  <2>1. k \in W(R, b, p) <=> k \in Walk(p) /\ k <= b[p]
    BY <1>11
  <2>2. b[p] > cursor[p] /\ b[p] \in Nat
    BY <1>4, <1>11 DEF Walk
  <2>. QED  BY <1>1, <1>2, <1>3, <1>4, <1>5, <1>6, <1>7, <1>8, <1>11, <2>1, <2>2
<1>. QED  BY <1>0, <1>9, <1>10, <1>11, StepCases
-----------------------------------------------------------------------------
(* Preserving a key writes it at most once, and leaves what the snapshot will
   hold as it was, whatever the key's value becomes. *)
LEMMA PreserveKeeps ==
  ASSUME CaptureInv, NEW p \in Section, NEW k \in Key, preserve(p, k),
         UNCHANGED <<live, bound, cursor, done>>,
         \A q \in Section, j \in Key : q # p \/ j # k => map'[q][j] = map[q][j]
  PROVE  /\ WrittenOnce'
         /\ Unreached'
         /\ Idle'
         /\ Taken' = Taken
<1>. DEFINE first == live[p] /\ ~passed(p, k) /\ k \notin early[p]
<1>0. TypeOK
  BY DEF CaptureInv
<1>1. \A q \in Section, j \in Key :
        /\ copies[q][j] = IF image[q][j] = NoValue THEN 0 ELSE 1
        /\ live[q] /\ ~passed(q, j) /\ j \notin early[q] => image[q][j] = NoValue
  BY DEF CaptureInv, WrittenOnce, Unreached
<1>2. \A q \in Section, j \in Key : passed(q, j)' <=> passed(q, j)
  BY DEF passed, Within
<1>3. CASE ~first
  <2>1. UNCHANGED <<early, image, copies>>
    BY <1>3 DEF preserve
  <2>2. WrittenOnce'
    BY <1>1, <2>1 DEF WrittenOnce
  <2>3. Unreached'
    BY <1>1, <1>2, <2>1 DEF Unreached
  <2>4. Idle'
    BY <2>1 DEF CaptureInv, Idle, capturing
  <2>5. Taken' = Taken
    <3>1. ASSUME NEW q \in Section, NEW j \in Key
          PROVE  (IF live'[q] /\ ~passed(q, j)' /\ j \notin early'[q]
                  THEN map'[q][j] ELSE image'[q][j]) =
                 (IF live[q] /\ ~passed(q, j) /\ j \notin early[q]
                  THEN map[q][j] ELSE image[q][j])
      BY <1>2, <1>3, <2>1
    <3>. QED  BY <3>1 DEF Taken
  <2>. QED  BY <2>2, <2>3, <2>4, <2>5
<1>4. CASE first
  <2>1. /\ early' = [early EXCEPT ![p] = @ \cup {k}]
        /\ image' = [image EXCEPT ![p][k] = map[p][k]]
        /\ copies' = IF map[p][k] # NoValue
                     THEN [copies EXCEPT ![p][k] = @ + 1] ELSE copies
    BY <1>4 DEF preserve
  <2>2. \A q \in Section, j \in Key :
          /\ image'[q][j] = IF q = p /\ j = k THEN map[p][k] ELSE image[q][j]
          /\ copies'[q][j] = IF q = p /\ j = k /\ map[p][k] # NoValue
                             THEN copies[p][k] + 1 ELSE copies[q][j]
          /\ j \in early'[q] <=> j \in early[q] \/ (q = p /\ j = k)
    BY <1>0, <2>1 DEF TypeOK, Store, Map
  <2>3. image[p][k] = NoValue /\ copies[p][k] = 0
    BY <1>1, <1>4
  <2>4. WrittenOnce'
    BY <1>1, <2>2, <2>3 DEF WrittenOnce
  <2>5. Unreached'
    BY <1>1, <1>2, <1>4, <2>2 DEF Unreached
  <2>6. Idle'
    <3>1. live[p] /\ capturing
      BY <1>4 DEF CaptureInv, Idle
    <3>2. capturing' /\ \A q \in Section : ~live'[q] => q # p
      BY <3>1 DEF capturing
    <3>3. \A q \in Section : q # p => early'[q] = early[q]
      BY <1>0, <2>1 DEF TypeOK
    <3>. QED  BY <3>2, <3>3 DEF CaptureInv, Idle
  <2>7. Taken' = Taken
    <3>1. ASSUME NEW q \in Section, NEW j \in Key
          PROVE  (IF live'[q] /\ ~passed(q, j)' /\ j \notin early'[q]
                  THEN map'[q][j] ELSE image'[q][j]) =
                 (IF live[q] /\ ~passed(q, j) /\ j \notin early[q]
                  THEN map[q][j] ELSE image[q][j])
      BY <1>2, <1>4, <2>2
    <3>. QED  BY <3>1 DEF Taken
  <2>. QED  BY <2>4, <2>5, <2>6, <2>7
<1>. QED  BY <1>3, <1>4
-----------------------------------------------------------------------------
(* A step may go on to the end. *)
LEMMA NoLimitBudget ==
  /\ NoLimit \in [Section -> Key \cup {Unlimited}]
  /\ \A p \in Section : NoLimit[p] \in Budget(p)
  BY DEF NoLimit, Budget

(* A step of some sections, made before the values of those that are then
   done, or have no capture, all change. *)
LEMMA StepActionKeeps ==
  ASSUME CaptureInv, NEW R, NEW b \in [Section -> Key \cup {Unlimited}],
         \A q \in Section : b[q] \in Budget(q),
         capture_step(R, b), UNCHANGED <<live, bound>>,
         \A q \in Section : live[q] /\ ~stepped_done(R, b)[q] => map'[q] = map[q]
  PROVE  /\ WrittenOnce'
         /\ Unreached'
         /\ Idle'
         /\ Taken' = Taken
<1>1. /\ image' = stepped_image(R, b)
      /\ copies' = stepped_copies(R, b)
      /\ early' = stepped_early(R, b)
      /\ cursor' = stepped_cursor(R, b)
      /\ done' = stepped_done(R, b)
  BY DEF capture_step
<1>2. \A q \in Section, j \in Key : passed(q, j)' <=> passed_after(R, b, q, j)
  BY <1>1 DEF passed, passed_after, Within
<1>3. WrittenOnce'
  BY <1>1, StepKeeps DEF WrittenOnce
<1>4. Unreached'
  BY <1>1, <1>2, StepKeeps DEF Unreached
<1>5. Idle'
  <2>0. TypeOK /\ Idle
    BY DEF CaptureInv
  <2>1. ASSUME NEW q \in Section, ~live[q]
        PROVE  W(R, b, q) = {} /\ early'[q] = {} /\ cursor'[q] = NoKey
    <3>1. W(R, b, q) = {}
      BY <2>1 DEF W, Steps
    <3>2. early[q] = {} /\ cursor[q] = NoKey
      BY <2>0, <2>1 DEF Idle
    <3>3. early'[q] = {}
      BY <1>1, <3>1, <3>2 DEF stepped_early
    <3>4. LastOf({}, cursor[q]) = cursor[q]
      BY DEF LastOf
    <3>5. cursor'[q] = NoKey
      BY <1>1, <3>1, <3>2, <3>4 DEF stepped_cursor
    <3>. QED  BY <3>1, <3>3, <3>5
  <2>2. ASSUME ~capturing
        PROVE  (\A q \in Section : ~live[q]) /\ image' = Blank /\ copies' = Zero
    <3>1. (\A q \in Section : ~live[q]) /\ image = Blank /\ copies = Zero
      BY <2>0, <2>2 DEF Idle
    <3>2. \A q \in Section : W(R, b, q) = {}
      BY <2>1, <3>1
    <3>3. image' = Blank
      BY <1>1, <3>1, <3>2 DEF stepped_image, Blank
    <3>4. copies' = Zero
      BY <1>1, <3>1, <3>2 DEF stepped_copies, Zero
    <3>. QED  BY <3>1, <3>3, <3>4
  <2>3. (capturing' <=> capturing) /\ live' = live
    BY DEF capturing
  <2>. QED  BY <2>1, <2>2, <2>3 DEF Idle
<1>6. Taken' = Taken
  <2>1. ASSUME NEW q \in Section, NEW j \in Key
        PROVE  (IF live'[q] /\ ~passed(q, j)' /\ j \notin early'[q]
                THEN map'[q][j] ELSE image'[q][j]) = Taken[q][j]
    <3>1. live[q] /\ ~passed_after(R, b, q, j) => map'[q][j] = map[q][j]
      BY DEF passed_after
    <3>2. (IF live[q] /\ ~passed_after(R, b, q, j) /\ j \notin stepped_early(R, b)[q]
           THEN map[q][j] ELSE stepped_image(R, b)[q][j]) = Taken[q][j]
      BY StepKeeps
    <3>. QED  BY <1>1, <1>2, <3>1, <3>2
  <2>2. Taken' = [q \in Section |-> [j \in Key |-> Taken[q][j]]]
    BY <2>1 DEF Taken
  <2>3. Taken = [q \in Section |-> [j \in Key |-> Taken[q][j]]]
    BY DEF Taken
  <2>. QED  BY <2>2, <2>3
<1>. QED  BY <1>3, <1>4, <1>5, <1>6
-----------------------------------------------------------------------------
(* One turn of the snapshot thread: what is over is written whole, and the
   sections that go on keep what the snapshot will hold. *)
LEMMA RunKeeps ==
  ASSUME CaptureInv, NEW b \in [Section -> Key \cup {Unlimited}],
         \A q \in Section : b[q] \in Budget(q),
         snapshot_run(b)
  PROVE  /\ CaptureInv'
         /\ capturing' => Taken' = Taken /\ snapshot' = snapshot
         /\ ~capturing' => snapshot' = Taken
<1>. DEFINE R == Reached(b)
            over(p) == p \in R /\ Over(p, b)
            whole == over(Keyspace)
<1>0. TypeOK /\ capturing /\ Idle
  BY DEF CaptureInv, snapshot_run
<1>1. /\ live' = [p \in Section |-> live[p] /\ ~over(p)]
      /\ bound' = [p \in Section |-> IF over(p) THEN NoKey ELSE bound[p]]
      /\ cursor' = [p \in Section |-> IF over(p) THEN NoKey ELSE stepped_cursor(R, b)[p]]
      /\ early' = [p \in Section |-> IF over(p) THEN {} ELSE stepped_early(R, b)[p]]
      /\ done' = [p \in Section |-> done[p] /\ ~over(p)]
      /\ image' = IF whole THEN Blank ELSE stepped_image(R, b)
      /\ copies' = IF whole THEN Zero ELSE stepped_copies(R, b)
      /\ snapshot' = IF whole THEN stepped_image(R, b) ELSE snapshot
      /\ map' = map
  BY DEF snapshot_run
<1>2. /\ stepped_image(R, b) \in Store
      /\ stepped_copies(R, b) \in [Section -> [Key -> Nat]]
      /\ stepped_early(R, b) \in [Section -> SUBSET Key]
      /\ stepped_cursor(R, b) \in [Section -> Key \cup {NoKey}]
  BY <1>0, SteppedType
<1>3. Keyspace \in Section
  BY SectionsAssumption DEF Keyspace, Section
<1>4. \A p \in Section : over(p) => ~live[p] \/ stepped_done(R, b)[p]
  BY DEF Over, stepped_done, Steps
<1>5. \A p \in Section : ~over(p) => stepped_done(R, b)[p] = done[p]
  BY <1>0 DEF Over, stepped_done, Steps, TypeOK
<1>. HIDE DEF R
<1>6. capturing' <=> ~whole
  BY <1>0, <1>1, <1>3 DEF capturing
<1>7. whole => \A p \in Section : over(p)
  <2>1. \A p \in Section : p < Keyspace \/ p = Keyspace
    BY SectionsAssumption DEF Section, Keyspace
  <2>2. whole => \A p \in Section : p < Keyspace => Over(p, b)
    BY <1>3 DEF R, Reached
  <2>3. whole => \A p \in Section : \A q \in Section : q < p => Over(q, b)
    <3>1. \A p, q \in Section : q < p => q < Keyspace
      BY SectionsAssumption DEF Section, Keyspace
    <3>. QED  BY <2>2, <3>1
  <2>. QED  BY <2>1, <2>2, <2>3 DEF R, Reached
<1>8. TypeOK'
  <2>1. map' \in Store /\ live' \in [Section -> BOOLEAN] /\ done' \in [Section -> BOOLEAN]
    BY <1>0, <1>1 DEF TypeOK
  <2>2. bound' \in [Section -> Key \cup {NoKey}] /\ cursor' \in [Section -> Key \cup {NoKey}]
    BY <1>0, <1>1, <1>2 DEF TypeOK
  <2>3. early' \in [Section -> SUBSET Key]
    BY <1>1, <1>2
  <2>4. image' \in Store /\ copies' \in [Section -> [Key -> Nat]]
    BY <1>1, <1>2, BlankType
  <2>5. snapshot' \in Store \cup {Nothing}
    BY <1>0, <1>1, <1>2 DEF TypeOK
  <2>. QED  BY <2>1, <2>2, <2>3, <2>4, <2>5 DEF TypeOK
<1>9. ASSUME NEW p \in Section, NEW k \in Key
      PROVE  /\ over(p) => stepped_image(R, b)[p][k] = Taken[p][k]
             /\ ~over(p) => (passed(p, k)' <=> passed_after(R, b, p, k))
  <2>1. over(p) => ~live[p] \/ passed_after(R, b, p, k)
    BY <1>4 DEF passed_after
  <2>2. (IF live[p] /\ ~passed_after(R, b, p, k) /\ k \notin stepped_early(R, b)[p]
         THEN map[p][k] ELSE stepped_image(R, b)[p][k]) = Taken[p][k]
    BY StepKeeps
  <2>3. ~over(p) => /\ done'[p] = stepped_done(R, b)[p]
                    /\ cursor'[p] = stepped_cursor(R, b)[p]
                    /\ bound'[p] = bound[p]
    BY <1>0, <1>1, <1>5 DEF TypeOK
  <2>4. ~over(p) => (passed(p, k)' <=> passed_after(R, b, p, k))
    BY <2>3 DEF passed, passed_after, Within
  <2>. QED  BY <2>1, <2>2, <2>4
<1>10. WrittenOnce'
  <2>1. CASE whole
    BY <1>1, <2>1 DEF WrittenOnce, Blank, Zero
  <2>2. CASE ~whole
    BY <1>1, <2>2, StepKeeps DEF WrittenOnce
  <2>. QED  BY <2>1, <2>2
<1>11. Unreached'
  <2>. SUFFICES ASSUME NEW p \in Section, NEW k \in Key,
                       live'[p], ~passed(p, k)', k \notin early'[p]
                PROVE  image'[p][k] = NoValue
    BY DEF Unreached
  <2>1. live[p] /\ ~over(p)
    BY <1>1
  <2>2. ~whole
    BY <1>7, <2>1
  <2>3. early'[p] = stepped_early(R, b)[p] /\ image' = stepped_image(R, b)
    BY <1>1, <2>1, <2>2
  <2>. QED  BY <1>9, <2>1, <2>3, StepKeeps
<1>12. Idle'
  <2>1. ASSUME NEW p \in Section, ~live'[p]
        PROVE  early'[p] = {} /\ cursor'[p] = NoKey
    <3>1. CASE over(p)
      BY <1>1, <3>1
    <3>2. CASE ~over(p)
      <4>1. ~live[p]
        BY <1>0, <1>1, <2>1, <3>2 DEF TypeOK
      <4>2. early[p] = {} /\ cursor[p] = NoKey /\ W(R, b, p) = {}
        BY <1>0, <4>1 DEF Idle, W, Steps
      <4>3. LastOf({}, cursor[p]) = cursor[p]
        BY DEF LastOf
      <4>. QED  BY <1>1, <3>2, <4>2, <4>3 DEF stepped_early, stepped_cursor
    <3>. QED  BY <3>1, <3>2
  <2>2. whole => (\A p \in Section : ~live'[p]) /\ image' = Blank /\ copies' = Zero
    BY <1>1, <1>7
  <2>. QED  BY <1>6, <2>1, <2>2 DEF Idle
<1>13. ~capturing' => snapshot' = Taken
  <2>. SUFFICES ASSUME whole PROVE stepped_image(R, b) = Taken
    BY <1>1, <1>6
  <2>1. stepped_image(R, b) = [p \in Section |-> [k \in Key |-> Taken[p][k]]]
    BY <1>2, <1>7, <1>9 DEF Store, Map
  <2>2. Taken = [p \in Section |-> [k \in Key |-> Taken[p][k]]]
    BY DEF Taken
  <2>. QED  BY <2>1, <2>2
<1>14. capturing' => Taken' = Taken /\ snapshot' = snapshot
  <2>. SUFFICES ASSUME ~whole PROVE Taken' = Taken /\ snapshot' = snapshot
    BY <1>6
  <2>1. ASSUME NEW p \in Section, NEW k \in Key
        PROVE  (IF live'[p] /\ ~passed(p, k)' /\ k \notin early'[p]
                THEN map'[p][k] ELSE image'[p][k]) = Taken[p][k]
    <3>1. CASE over(p)
      BY <1>1, <1>9, <3>1
    <3>2. CASE ~over(p)
      <4>1. /\ live'[p] = live[p] /\ early'[p] = stepped_early(R, b)[p]
            /\ image' = stepped_image(R, b) /\ map' = map
        BY <1>0, <1>1, <3>2 DEF TypeOK
      <4>2. (IF live[p] /\ ~passed_after(R, b, p, k) /\ k \notin stepped_early(R, b)[p]
             THEN map[p][k] ELSE stepped_image(R, b)[p][k]) = Taken[p][k]
        BY StepKeeps
      <4>. QED  BY <1>9, <3>2, <4>1, <4>2
    <3>. QED  BY <3>1, <3>2
  <2>2. Taken' = [p \in Section |-> [k \in Key |-> Taken[p][k]]]
    BY <2>1 DEF Taken
  <2>3. Taken = [p \in Section |-> [k \in Key |-> Taken[p][k]]]
    BY DEF Taken
  <2>. QED  BY <1>1, <2>2, <2>3
<1>. QED  BY <1>8, <1>10, <1>11, <1>12, <1>13, <1>14 DEF CaptureInv
-----------------------------------------------------------------------------
(* Beginning a capture, in a store that has none: the snapshot is of the store
   as it is. *)
LEMMA BeginKeeps ==
  ASSUME CaptureInv, begin_capture
  PROVE  CaptureInv' /\ capturing' /\ Taken' = map
<1>0. /\ TypeOK /\ WrittenOnce /\ Idle /\ ~capturing
      /\ live' = [p \in Section |-> TRUE]
      /\ bound' = [p \in Section |-> IF p \in Bounded THEN LastKey(p) ELSE NoKey]
      /\ done' = [p \in Section |-> p \in Bounded /\ LastKey(p) = NoKey]
      /\ snapshot' = Nothing
      /\ UNCHANGED <<map, cursor, early, image, copies>>
  BY DEF CaptureInv, begin_capture
<1>1. \A p \in Section : early[p] = {} /\ cursor[p] = NoKey
  BY <1>0 DEF Idle
<1>2. image = Blank /\ copies = Zero
  BY <1>0 DEF Idle
<1>3. \A p \in Section : LastKey(p) \in Key \cup {NoKey}
  <2>1. \A p \in Section : {k \in Key : map[p][k] # NoValue} \in SUBSET Key
    OBVIOUS
  <2>. QED  BY <2>1, LastOfType DEF LastKey
<1>4. TypeOK'
  BY <1>0, <1>3 DEF TypeOK
<1>5. capturing'
  BY <1>0, SectionsAssumption DEF capturing, Keyspace, Section
<1>6. WrittenOnce' /\ Unreached' /\ Idle'
  BY <1>0, <1>2, <1>5 DEF WrittenOnce, Unreached, Idle, Blank
<1>7. ASSUME NEW p \in Section, NEW k \in Key, passed(p, k)'
      PROVE  map[p][k] = NoValue
  <2>1. ~(k <= cursor'[p])
    BY <1>0, <1>1, KeyAssumption DEF NoKey
  <2>2. p \in Bounded
    BY <1>0, <1>7, <2>1 DEF passed, Within
  <2>3. LastKey(p) = NoKey \/ ~(k <= LastKey(p))
    BY <1>0, <1>7, <2>1, <2>2 DEF passed, Within
  <2>. DEFINE S == {j \in Key : map[p][j] # NoValue}
  <2>4. LastKey(p) = LastOf(S, NoKey)
    BY DEF LastKey
  <2>5. S # {} => LastKey(p) \in S /\ \A j \in S : j <= LastKey(p)
    <3>1. S \in SUBSET Key
      OBVIOUS
    <3>. HIDE DEF S
    <3>. QED  BY <2>4, <3>1, LastKeyAssumption DEF LastOf
  <2>6. NoKey \notin Key
    BY KeyAssumption DEF NoKey
  <2>7. k \notin S
    BY <2>3, <2>5, <2>6
  <2>. QED  BY <2>7
<1>8. Taken' = map
  <2>1. ASSUME NEW p \in Section, NEW k \in Key
        PROVE  (IF live'[p] /\ ~passed(p, k)' /\ k \notin early'[p]
                THEN map'[p][k] ELSE image'[p][k]) = map[p][k]
    <3>1. image'[p][k] = NoValue /\ live'[p] /\ early'[p] = {}
      BY <1>0, <1>1, <1>2 DEF Blank
    <3>. QED  BY <1>0, <1>7, <3>1
  <2>2. Taken' = [p \in Section |-> [k \in Key |-> map[p][k]]]
    BY <2>1 DEF Taken
  <2>3. map = [p \in Section |-> [k \in Key |-> map[p][k]]]
    BY <1>0 DEF TypeOK, Store, Map
  <2>. QED  BY <2>2, <2>3
<1>. QED  BY <1>4, <1>5, <1>6, <1>8 DEF CaptureInv

(* Giving the capture up leaves nothing of it in any section. *)
LEMMA AbandonKeeps ==
  ASSUME CaptureInv, abandon_capture
  PROVE  CaptureInv' /\ ~capturing'
<1>1. TypeOK'
  BY BlankType DEF CaptureInv, TypeOK, abandon_capture
<1>2. ~capturing'
  BY SectionsAssumption DEF abandon_capture, capturing, Keyspace, Section
<1>3. WrittenOnce' /\ Unreached' /\ Idle'
  BY DEF abandon_capture, WrittenOnce, Unreached, Idle, Blank, Zero
<1>. QED  BY <1>1, <1>2, <1>3 DEF CaptureInv

(* Changes to the store: none of them alters the snapshot being taken. *)
Changes == \/ \E p \in Section, k \in Key, v \in Value : get_mut(p, k, v)
           \/ \E p \in Section, k \in Key, v \in Value : insert(p, k, v)
           \/ \E p \in Section, k \in Key : remove(p, k)
           \/ \E p \in Section, f \in [Key -> Value] : values_mut(p, f)
           \/ clear

\* Any change of a map (Db, Store::apply) keeps the invariant.
LEMMA ChangesKeep ==
  ASSUME CaptureInv, Changes
  PROVE  /\ CaptureInv'
         /\ Taken' = Taken
         /\ UNCHANGED <<capturing, snapshot>>
         /\ map' \in Store
<1>0. TypeOK
  BY DEF CaptureInv
<1>1. ASSUME NEW p \in Section, NEW k \in Key, NEW e \in Entry,
             preserve(p, k), map' = [map EXCEPT ![p][k] = e] \/ map' = map,
             UNCHANGED <<live, bound, cursor, done, snapshot>>
      PROVE  CaptureInv' /\ Taken' = Taken /\ UNCHANGED capturing /\ map' \in Store
  <2>1. map' \in Store
    <3>1. map \in Store
      BY <1>0 DEF TypeOK
    <3>2. CASE map' = [map EXCEPT ![p][k] = e]
      BY <3>1, <3>2 DEF Store, Map
    <3>3. CASE map' = map
      BY <3>1, <3>3
    <3>. QED  BY <1>1, <3>2, <3>3
  <2>2. TypeOK'
    BY <1>0, <1>1, <2>1, PreserveType DEF TypeOK
  <2>3. \A q \in Section, j \in Key : q # p \/ j # k => map'[q][j] = map[q][j]
    BY <1>0, <1>1 DEF TypeOK, Store, Map
  <2>4. WrittenOnce' /\ Unreached' /\ Idle' /\ Taken' = Taken
    BY <1>1, <2>3, PreserveKeeps
  <2>. QED  BY <1>1, <2>1, <2>2, <2>4 DEF CaptureInv, capturing
<1>2. CASE \E p \in Section, k \in Key, v \in Value : get_mut(p, k, v)
  <2>1. PICK p \in Section, k \in Key, v \in Value : get_mut(p, k, v)
    BY <1>2
  <2>. QED  BY <1>1, <2>1 DEF get_mut, Entry
<1>3. CASE \E p \in Section, k \in Key, v \in Value : insert(p, k, v)
  <2>1. PICK p \in Section, k \in Key, v \in Value : insert(p, k, v)
    BY <1>3
  <2>. QED  BY <1>1, <2>1 DEF insert, Entry
<1>4. CASE \E p \in Section, k \in Key : remove(p, k)
  <2>1. PICK p \in Section, k \in Key : remove(p, k)
    BY <1>4
  <2>. QED  BY <1>1, <2>1 DEF remove, Entry
<1>5. ASSUME NEW p \in Section, NEW m \in Map,
             capture_step({p}, NoLimit), map' = [map EXCEPT ![p] = m],
             UNCHANGED <<live, bound, snapshot>>
      PROVE  CaptureInv' /\ Taken' = Taken /\ UNCHANGED capturing /\ map' \in Store
  <2>1. map' \in Store
    BY <1>0, <1>5 DEF TypeOK, Store
  <2>2. TypeOK'
    BY <1>0, <1>5, <2>1, SteppedType DEF TypeOK, capture_step
  <2>3. \A q \in Section : live[q] /\ ~stepped_done({p}, NoLimit)[q] => map'[q] = map[q]
    <3>1. live[p] => stepped_done({p}, NoLimit)[p]
      BY DEF stepped_done, Steps, NoLimit
    <3>2. \A q \in Section : q # p => map'[q] = map[q]
      BY <1>0, <1>5 DEF TypeOK, Store
    <3>. QED  BY <3>1, <3>2
  <2>4. WrittenOnce' /\ Unreached' /\ Idle' /\ Taken' = Taken
    BY <1>5, <2>3, StepActionKeeps, NoLimitBudget
  <2>. QED  BY <1>5, <2>1, <2>2, <2>4 DEF CaptureInv, capturing
<1>6. CASE \E p \in Section, f \in [Key -> Value] : values_mut(p, f)
  <2>1. PICK p \in Section, f \in [Key -> Value] : values_mut(p, f)
    BY <1>6
  <2>. DEFINE m == [k \in Key |-> IF map[p][k] = NoValue THEN NoValue ELSE f[k]]
  <2>2. m \in Map
    BY DEF Map, Entry
  <2>3. map' = [map EXCEPT ![p] = m]
    BY <1>0, <2>1 DEF values_mut, TypeOK, Store
  <2>. HIDE DEF m
  <2>. QED  BY <1>5, <2>1, <2>2, <2>3 DEF values_mut
<1>7. CASE clear
  <2>1. Keyspace \in Section
    BY SectionsAssumption DEF Keyspace, Section
  <2>2. [k \in Key |-> NoValue] \in Map
    BY DEF Map, Entry
  <2>. QED  BY <1>5, <1>7, <2>1, <2>2 DEF clear
<1>. QED  BY <1>2, <1>3, <1>4, <1>6, <1>7 DEF Changes, get_mut, insert, remove, values_mut, clear
-----------------------------------------------------------------------------
(* The invariant holds at the start: no section has a capture. *)
LEMMA InitInv == Init => CaptureInv
<1>. SUFFICES ASSUME Init PROVE CaptureInv
  OBVIOUS
<1>1. TypeOK
  BY BlankType DEF Init, TypeOK
<1>2. WrittenOnce /\ Unreached /\ Idle
  BY DEF Init, WrittenOnce, Unreached, Idle, Blank, Zero
<1>. QED  BY <1>1, <1>2 DEF CaptureInv

(* Every step is a change to the store or part of the life of a capture. *)
LEMMA NextCases ==
  Next <=> \/ Changes
           \/ begin_capture
           \/ \E b \in [Section -> Key \cup {Unlimited}] :
                 (\A p \in Section : b[p] \in Budget(p)) /\ snapshot_run(b)
           \/ abandon_capture
  BY DEF Next, Changes

(* Every step keeps the invariant. *)
LEMMA NextInv == CaptureInv /\ [Next]_vars => CaptureInv'
<1>. SUFFICES ASSUME CaptureInv, [Next]_vars PROVE CaptureInv'
  OBVIOUS
<1>1. CASE Changes
  BY <1>1, ChangesKeep
<1>2. CASE begin_capture
  BY <1>2, BeginKeeps
<1>3. CASE \E b \in [Section -> Key \cup {Unlimited}] :
              (\A p \in Section : b[p] \in Budget(p)) /\ snapshot_run(b)
  BY <1>3, RunKeeps
<1>4. CASE abandon_capture
  BY <1>4, AbandonKeeps
<1>5. CASE UNCHANGED vars
  BY <1>5 DEF CaptureInv, TypeOK, WrittenOnce, Unreached, Idle, passed, Within,
              capturing, vars
<1>. QED  BY <1>1, <1>2, <1>3, <1>4, <1>5, NextCases

(* The inductive invariant holds of every behaviour: whatever the store holds
   and however its changes fall between the runs of a capture. *)
THEOREM CaptureInvariant == Spec => []CaptureInv
  BY InitInv, NextInv, PTL DEF Spec

(* Capture::passed and `early` let no value be written twice (capture.rs). *)
THEOREM CaptureWritesOnce == Spec => []WrittenOnce
<1>1. CaptureInv => WrittenOnce
  BY DEF CaptureInv
<1>. QED  BY <1>1, CaptureInvariant, PTL

(* Sections end in the order they are written to the file: a step does not
   reach a section before the ones ahead of it are over (Store::capture_step,
   drain_capture). *)
THEOREM CaptureEndsInOrder == Spec => []EndsInOrder
<1>1. Init => EndsInOrder
  BY DEF Init, EndsInOrder
<1>2. CaptureInv /\ EndsInOrder /\ [Next]_vars => EndsInOrder'
  <2> SUFFICES ASSUME CaptureInv, EndsInOrder, [Next]_vars,
                      NEW p \in Section, NEW q \in Section, p < q, live'[p]
               PROVE  live'[q]
    BY DEF EndsInOrder
  <2>1. CASE Changes \/ UNCHANGED vars
    <3>1. live' = live
      BY <2>1 DEF Changes, get_mut, insert, remove, values_mut, clear, vars
    <3>. QED  BY <3>1 DEF EndsInOrder
  <2>2. CASE begin_capture
    BY <2>2 DEF begin_capture
  <2>3. CASE \E b \in [Section -> Key \cup {Unlimited}] :
                (\A r \in Section : b[r] \in Budget(r)) /\ snapshot_run(b)
    <3>1. PICK b \in [Section -> Key \cup {Unlimited}] : snapshot_run(b)
      BY <2>3
    <3>2. live[p] /\ ~(p \in Reached(b) /\ Over(p, b))
      BY <3>1 DEF snapshot_run
    <3>3. live[q]
      BY <3>2 DEF EndsInOrder
    <3>4. q \notin Reached(b)
      <4>1. SUFFICES ASSUME q \in Reached(b) PROVE FALSE
        OBVIOUS
      <4>2. \A r \in Section : r < q => Over(r, b)
        BY <4>1 DEF Reached
      <4>3. \A r \in Section : r < p => r < q
        BY SectionsAssumption DEF Section
      <4>4. p \in Reached(b) /\ Over(p, b)
        BY <4>2, <4>3 DEF Reached
      <4>. QED  BY <3>2, <4>4
    <3>5. live' = [r \in Section |-> live[r] /\ ~(r \in Reached(b) /\ Over(r, b))]
      BY <3>1 DEF snapshot_run
    <3>6. live'[q] = (live[q] /\ ~(q \in Reached(b) /\ Over(q, b)))
      BY <3>5
    <3>. QED  BY <3>3, <3>4, <3>6
  <2>4. CASE abandon_capture
    BY <2>4 DEF abandon_capture
  <2>. QED  BY <2>1, <2>2, <2>3, <2>4, NextCases
<1>. QED  BY <1>1, <1>2, CaptureInvariant, PTL DEF Spec

(* A capture spread over many runs, with changes between them, implements an
   atomic snapshot: what Store::end_capture hands over is the store as it was
   at Store::begin_capture. *)
THEOREM CaptureIsAtomic == Spec => ImplementsAtomicSnapshot
<1>. DEFINE handed == IF capturing THEN Taken ELSE Nothing
<1>1. Init => Atomic!AInit
  <2>. SUFFICES ASSUME Init PROVE Atomic!AInit
    OBVIOUS
  <2>1. capturing = FALSE
    <3>1. Keyspace \in Section
      BY SectionsAssumption DEF Keyspace, Section
    <3>. QED  BY <3>1 DEF Init, capturing
  <2>2. map \in Store /\ snapshot = Nothing
    BY BlankType DEF Init
  <2>. QED  BY <2>1, <2>2 DEF Atomic!AInit
<1>2. CaptureInv /\ [Next]_vars => [Atomic!ANext]_(Atomic!avars)
  <2>. SUFFICES ASSUME CaptureInv, [Next]_vars PROVE [Atomic!ANext]_(Atomic!avars)
    OBVIOUS
  <2>0. capturing \in BOOLEAN /\ map \in Store
    BY SectionsAssumption DEF CaptureInv, TypeOK, capturing, Keyspace, Section
  <2>00. capturing' \in BOOLEAN
    BY NextInv, SectionsAssumption DEF CaptureInv, TypeOK, capturing, Keyspace, Section
  <2>1. CASE Changes
    BY <2>1, ChangesKeep DEF Atomic!ANext, Atomic!AChange
  <2>2. CASE begin_capture
    <3>1. ~capturing /\ snapshot' = Nothing /\ map' = map
      BY <2>2 DEF begin_capture
    <3>2. capturing' = TRUE /\ Taken' = map
      BY <2>2, <2>00, BeginKeeps
    <3>. QED  BY <3>1, <3>2 DEF Atomic!ANext, Atomic!ABegin
  <2>3. CASE \E b \in [Section -> Key \cup {Unlimited}] :
                (\A p \in Section : b[p] \in Budget(p)) /\ snapshot_run(b)
    <3>1. capturing /\ map' = map
      BY <2>3 DEF snapshot_run
    <3>2. CASE capturing'
      <4>1. Taken' = Taken /\ snapshot' = snapshot
        BY <2>3, <3>2, RunKeeps
      <4>2. capturing' = capturing
        BY <2>0, <2>00, <3>1, <3>2
      <4>. QED  BY <3>1, <3>2, <4>1, <4>2 DEF Atomic!avars
    <3>3. CASE ~capturing'
      <4>1. snapshot' = Taken
        BY <2>3, <3>3, RunKeeps
      <4>2. capturing' = FALSE
        BY <2>00, <3>3
      <4>. QED  BY <3>1, <4>1, <4>2 DEF Atomic!ANext, Atomic!APublish
    <3>. QED  BY <3>2, <3>3
  <2>4. CASE abandon_capture
    <3>1. capturing /\ map' = map /\ snapshot' = snapshot
      BY <2>4 DEF abandon_capture
    <3>2. capturing' = FALSE
      BY <2>4, <2>00, AbandonKeeps
    <3>. QED  BY <3>1, <3>2 DEF Atomic!ANext, Atomic!AAbandon
  <2>5. CASE UNCHANGED vars
    <3>1. UNCHANGED <<map, capturing, snapshot>> /\ Taken' = Taken
      BY <2>5 DEF vars, capturing, Taken, passed, Within
    <3>. QED  BY <3>1 DEF Atomic!avars
  <2>. QED  BY <2>1, <2>2, <2>3, <2>4, <2>5, NextCases
<1>. QED  BY <1>1, <1>2, CaptureInvariant, PTL DEF Spec, ImplementsAtomicSnapshot, Atomic!ASpec

-----------------------------------------------------------------------------
(***************************************************************************)
(* Sequences of numbers that follow on one another.                        *)
(***************************************************************************)
\* The numbers after k, as many as there are.
Follows(s, k) == \A i \in 1 .. Len(s) : s[i] = k + i

\* No numbers follow on from anywhere.
LEMMA NoneFollows == \A k \in Nat : Follows(<<>>, k)
  BY DEF Follows

\* Two parts that follow on one another make one.
LEMMA ConcatFollows ==
    ASSUME NEW s \in Seq(Nat), NEW t \in Seq(Nat), NEW k \in Nat,
           Follows(s, k), Follows(t, k + Len(s))
    PROVE  /\ s \o t \in Seq(Nat)
           /\ Len(s \o t) = Len(s) + Len(t)
           /\ Follows(s \o t, k)
<1>1. /\ s \o t \in Seq(Nat)
      /\ Len(s \o t) = Len(s) + Len(t)
      /\ \A i \in 1 .. Len(s) + Len(t) : (s \o t)[i] = IF i <= Len(s) THEN s[i] ELSE t[i - Len(s)]
  BY ConcatProperties
<1>2. Len(s) \in Nat /\ Len(t) \in Nat
  OBVIOUS
<1>3. ASSUME NEW i \in 1 .. Len(s) + Len(t)
      PROVE  (s \o t)[i] = k + i
  <2>1. CASE i <= Len(s)
    BY <1>1, <1>2, <2>1 DEF Follows
  <2>2. CASE i > Len(s)
    <3>1. i - Len(s) \in 1 .. Len(t)
      BY <1>2, <2>2
    <3>2. t[i - Len(s)] = (k + Len(s)) + (i - Len(s))
      BY <3>1 DEF Follows
    <3> QED BY <1>1, <1>2, <2>2, <3>2
  <2> QED BY <1>2, <2>1, <2>2
<1> QED BY <1>1, <1>3 DEF Follows

\* The same, from the first number on.
LEMMA ExtendFollows ==
    ASSUME NEW s \in Seq(Nat), NEW t \in Seq(Nat), Follows(s, 0), Follows(t, Len(s))
    PROVE  /\ s \o t \in Seq(Nat)
           /\ Len(s \o t) = Len(s) + Len(t)
           /\ Follows(s \o t, 0)
<1>1. 0 + Len(s) = Len(s) /\ 0 \in Nat
  OBVIOUS
<1>2. Follows(t, 0 + Len(s))
  BY <1>1
<1> QED BY <1>1, <1>2, ConcatFollows

\* So does one part and some of the next.
LEMMA PrefixFollows ==
    ASSUME NEW s \in Seq(Nat), NEW k \in Nat, Follows(s, k), NEW n \in 0 .. Len(s)
    PROVE  /\ SubSeq(s, 1, n) \in Seq(Nat)
           /\ Len(SubSeq(s, 1, n)) = n
           /\ Follows(SubSeq(s, 1, n), k)
<1>1. \A i \in 1 .. n : s[i] \in Nat
  OBVIOUS
<1>2. n \in Nat /\ n <= Len(s)
  OBVIOUS
<1>3. /\ SubSeq(s, 1, n) \in Seq(Nat)
      /\ Len(SubSeq(s, 1, n)) = IF 1 <= n THEN n - 1 + 1 ELSE 0
      /\ \A i \in 1 .. n - 1 + 1 : SubSeq(s, 1, n)[i] = s[1 + i - 1]
  BY <1>1, <1>2, SubSeqProperties
<1> QED BY <1>2, <1>3 DEF Follows

\* One more number at the end goes on from the rest.
LEMMA AppendFollows ==
    ASSUME NEW s \in Seq(Nat), NEW k \in Nat, Follows(s, k)
    PROVE  /\ Append(s, k + Len(s) + 1) \in Seq(Nat)
           /\ Len(Append(s, k + Len(s) + 1)) = Len(s) + 1
           /\ Follows(Append(s, k + Len(s) + 1), k)
<1> DEFINE m == k + Len(s) + 1
           t == Append(s, m)
<1>1. Len(s) \in Nat /\ m \in Nat
  OBVIOUS
<1>2. t \in Seq(Nat) /\ Len(t) = Len(s) + 1
  BY <1>1
<1>3. \A i \in 1 .. Len(s) : t[i] = s[i]
  BY <1>1
<1>4. t[Len(s) + 1] = m
  BY <1>1
<1> HIDE DEF t
<1>5. ASSUME NEW i \in 1 .. Len(t) PROVE t[i] = k + i
  <2>1. CASE i \in 1 .. Len(s)
    BY <2>1, <1>3 DEF Follows
  <2>2. CASE i = Len(s) + 1
    BY <1>1, <1>4, <2>2
  <2> QED BY <1>1, <1>2, <2>1, <2>2
<1>6. Follows(t, k)
  BY <1>5 DEF Follows
<1> QED BY <1>2, <1>6 DEF t

\* Numbers that follow on from none are the first so many.
LEMMA NumbersFollow ==
    ASSUME NEW s \in Seq(Nat), Follows(s, 0)
    PROVE  s = Numbers(Len(s))
<1>1. s = [i \in 1 .. Len(s) |-> s[i]]
  BY LenProperties
<1> QED BY <1>1 DEF Follows, Numbers

-----------------------------------------------------------------------------
(***************************************************************************)
(* The invariant.                                                          *)
(***************************************************************************)
\* The types of the lines, of the flags and of the replies' history.
LineTypes ==
    /\ seq \in Nat
    /\ pending \in Seq(Nat) /\ refused \in Seq(Nat) /\ file \in Seq(Nat)
    /\ taken \in [Thread -> Seq(Nat)]
    /\ torn \in BOOLEAN /\ failure \in BOOLEAN
    /\ failures \in Nat
FlagTypes ==
    /\ deferred \in BOOLEAN /\ always \in BOOLEAN /\ holding \in BOOLEAN
    /\ requests \in Nat /\ syncs \in Nat
HistoryTypes ==
    /\ saw \in [Thread -> Nat]
    /\ excused \in [Thread -> BOOLEAN]
    /\ promised \in Nat

\* Who holds which lock shows in where each thread is.
Locks ==
    /\ core \in Thread \cup {NoThread}
    /\ tail \in Thread \cup {NoThread}
    /\ pc \in [Thread -> Label]
    /\ \A t \in Thread : pc[t] \in Locked <=> core = t
    /\ \A t \in Thread : pc[t] \in {"write", "raise"} <=> tail = t

\* Only a thread that is to write lines has taken any.
Hands == \A t \in Thread : pc[t] \notin {"take", "write"} => taken[t] = <<>>

\* The lines the tail answers for: whoever releases it leaves them in the file,
\* or refused.
TailHas == Len(file) + Len(refused) + Len(TakenBy(tail))

\* Lines follow on one another from the file to those that wait, up to seq.
Chain ==
    /\ Follows(file, 0)
    /\ ~torn => /\ Follows(refused, Len(file))
                /\ Follows(TakenBy(tail), Len(file) + Len(refused))
                /\ Follows(TakenBy(core), TailHas)
                /\ Follows(pending, TailHas + Len(TakenBy(core)))
                /\ seq = TailHas + Len(TakenBy(core)) + Len(pending)

\* What waits is flagged, until whoever holds the broker's lock writes it; and
\* where the flag is about to be lowered nothing waits.
Flagged ==
    /\ pending # <<>> => deferred \/ \E t \in Thread : pc[t] = "pend"
    /\ \A t \in Thread : pc[t] \in {"take", "lower"} => pending = <<>>

\* With the flag down the tail has every change that some reply is to vouch for;
\* so it has where a thread has found the flag down, or handed its changes over.
Vouched ==
    /\ promised <= Len(file)
    /\ \A t \in Thread : saw[t] <= seq
    /\ ~torn /\ ~deferred => \A t \in Thread : saw[t] <= TailHas
    /\ ~torn => \A t \in Thread : pc[t] \in {"wait", "hold", "write", "raise"} => saw[t] <= TailHas
    /\ \A t \in Thread : pc[t] = "lower" /\ ~excused[t] => tail = NoThread

TailInv == /\ LineTypes /\ FlagTypes /\ HistoryTypes
           /\ Locks /\ Hands /\ Chain /\ Flagged /\ Vouched

\* The tick is a thread, and no thread is NoThread.
LEMMA Threads == Ticker \in Thread /\ NoThread \notin Thread
  BY ThreadAssumption DEF Thread

\* The invariant holds when the server starts, with nothing to write.
LEMMA TailInitInv == TailInit => TailInv
<1> SUFFICES ASSUME TailInit PROVE TailInv
  OBVIOUS
<1>1. \A t \in Thread : pc[t] = "idle"
  BY DEF TailInit
<1>2. LineTypes /\ HistoryTypes
  <2>1. <<>> \in Seq(Nat)
    OBVIOUS
  <2>2. taken \in [Thread -> Seq(Nat)] /\ saw \in [Thread -> Nat] /\ excused \in [Thread -> BOOLEAN]
    BY <2>1 DEF TailInit
  <2> QED BY <2>1, <2>2 DEF TailInit, LineTypes, HistoryTypes
<1>3. FlagTypes
  BY PolicyAssumption DEF TailInit, FlagTypes
<1>4. Locks
  <2>1. pc \in [Thread -> Label]
    BY DEF TailInit, Label
  <2> QED BY <1>1, <2>1, Threads DEF TailInit, Locks, Locked
<1>5. Hands /\ Flagged
  BY <1>1 DEF TailInit, Hands, Flagged
<1>6. Chain
  BY NoneFollows DEF TailInit, Chain, TailHas, TakenBy
<1>7. Vouched
  BY <1>1 DEF TailInit, Vouched, TailHas, TakenBy
<1> QED BY <1>2, <1>3, <1>4, <1>5, <1>6, <1>7 DEF TailInv

-----------------------------------------------------------------------------
(***************************************************************************)
(* Lemmas about the tail.                                                  *)
(***************************************************************************)
\* TailGuard::write keeps the lines in order, whatever the disk does.
LEMMA WriteKeeps ==
    ASSUME file \in Seq(Nat), refused \in Seq(Nat), torn \in BOOLEAN, failure \in BOOLEAN,
           failures \in Nat, NEW lines \in Seq(Nat), NEW wrote \in BOOLEAN,
           Follows(file, 0),
           ~torn => Follows(refused, Len(file)) /\ Follows(lines, Len(file) + Len(refused)),
           write(lines, wrote)
    PROVE  /\ file' \in Seq(Nat) /\ refused' \in Seq(Nat) /\ torn' \in BOOLEAN
           /\ failure' \in BOOLEAN /\ failures' \in Nat
           /\ Follows(file', 0)
           /\ Len(file) <= Len(file')
           /\ wrote => refused' = <<>>
           /\ ~wrote => torn' \/ refused' # <<>>
           /\ ~torn' => /\ ~torn
                        /\ Follows(refused', Len(file'))
                        /\ Len(file') + Len(refused') = Len(file) + Len(refused) + Len(lines)
<1> DEFINE all == refused \o lines
<1>1. /\ all \in Seq(Nat)
      /\ Len(all) = Len(refused) + Len(lines)
      /\ refused' = IF wrote THEN <<>> ELSE all
  BY ConcatProperties DEF write
<1>2. ~torn => Follows(all, Len(file))
  <2> HAVE ~torn
  <2> QED BY ConcatFollows
<1>3. Len(file) \in Nat /\ Len(refused) \in Nat /\ Len(lines) \in Nat
  OBVIOUS
<1>4. Len(<<>>) = 0 /\ <<>> \in Seq(Nat) /\ \A s \in Seq(Nat) : Len(s) = 0 => s = <<>>
  BY EmptySeq
<1> HIDE DEF all
<1>5. CASE all = <<>>
  <2>1. wrote = TRUE /\ UNCHANGED <<file, torn, failure, failures>>
    BY <1>5 DEF write, all
  <2>2. refused' = <<>> /\ Len(refused) + Len(lines) = 0
    BY <1>1, <1>4, <1>5, <2>1
  <2> QED BY <1>3, <1>4, <2>1, <2>2, NoneFollows
<1>6. CASE all # <<>>
  <2>1. append(all, wrote)
    BY <1>6 DEF write, all
  <2>2. CASE wrote = TRUE /\ ~torn /\ file' = file \o all /\ failure' = FALSE /\ UNCHANGED <<torn, failures>>
    <3>1. refused' = <<>>
      BY <1>1, <2>2
    <3>2. /\ file' \in Seq(Nat)
          /\ Len(file') = Len(file) + Len(all)
          /\ Follows(file', 0)
      BY <1>1, <1>2, <2>2, ExtendFollows
    <3>3. Follows(refused', Len(file')) /\ Len(refused') = 0
      BY <1>4, <3>1, <3>2, NoneFollows
    <3>4. torn' \in BOOLEAN /\ failure' \in BOOLEAN /\ (~torn' => ~torn)
      BY <2>2
    <3> QED BY <1>1, <1>3, <1>4, <2>2, <3>1, <3>2, <3>3, <3>4
  <2>3. CASE wrote = FALSE /\ torn /\ UNCHANGED <<file, torn, failure, failures>>
    <3>1. refused' = all /\ file' = file /\ torn'
      BY <1>1, <2>3
    <3>2. Follows(file', 0)
      BY <3>1
    <3> QED BY <1>1, <1>3, <2>3, <3>1, <3>2
  <2>4. CASE wrote = FALSE /\ ~torn /\ failures' = failures + 1 /\ failure' = TRUE /\ UNCHANGED <<file, torn>>
    <3>1. refused' = all /\ file' = file /\ ~torn'
      BY <1>1, <2>4
    <3>2. Follows(file', 0) /\ Follows(refused', Len(file'))
      BY <1>2, <2>4, <3>1
    <3>3. Len(file') + Len(refused') = Len(file) + Len(refused) + Len(lines)
      <4>1. Len(file') = Len(file) /\ Len(refused') = Len(refused) + Len(lines)
        BY <1>1, <3>1
      <4> QED BY <1>3, <4>1
    <3>4. torn' \in BOOLEAN /\ failure' \in BOOLEAN /\ (~torn' => ~torn)
      BY <2>4
    <3>5. refused' # <<>> /\ refused' \in Seq(Nat) /\ file' \in Seq(Nat)
      BY <1>1, <1>6, <3>1
    <3>6. failures' \in Nat /\ Len(file) <= Len(file')
      BY <1>3, <2>4, <3>1
    <3>7. ~wrote
      BY <2>4
    <3> QED BY <3>2, <3>3, <3>4, <3>5, <3>6, <3>7
  <2>5. CASE /\ wrote = FALSE /\ ~torn /\ failures' = failures + 1 /\ failure' = TRUE
             /\ torn' = TRUE
             /\ \E n \in 0 .. Len(all) : file' = file \o SubSeq(all, 1, n)
    <3>1. PICK n \in 0 .. Len(all) : file' = file \o SubSeq(all, 1, n)
      BY <2>5
    <3> DEFINE part == SubSeq(all, 1, n)
    <3>2. part \in Seq(Nat) /\ Follows(part, Len(file))
      BY <1>1, <1>2, <1>3, <2>5, PrefixFollows
    <3>3. file' = file \o part
      BY <3>1
    <3> HIDE DEF part
    <3>4. /\ file' \in Seq(Nat)
          /\ Len(file') = Len(file) + Len(part)
          /\ Follows(file', 0)
      BY <3>2, <3>3, ExtendFollows
    <3>5. refused' = all /\ Len(part) \in Nat
      BY <1>1, <2>5, <3>2
    <3> QED BY <1>1, <1>3, <2>5, <3>4, <3>5
  <2> QED BY <2>1, <2>2, <2>3, <2>4, <2>5 DEF append
<1> QED BY <1>5, <1>6

-----------------------------------------------------------------------------
(***************************************************************************)
(* Lemmas about a thread that goes from one place to another.              *)
(***************************************************************************)
\* The thread t goes to `label`, takes the locks held there, and releases those
\* that are not.
Moves(t, label) ==
    /\ pc' = [pc EXCEPT ![t] = label]
    /\ label \in Locked => core \in {t, NoThread} /\ core' = t
    /\ label \notin Locked => core' = IF core = t THEN NoThread ELSE core
    /\ label \in {"write", "raise"} => tail \in {t, NoThread} /\ tail' = t
    /\ label \notin {"write", "raise"} => tail' = IF tail = t THEN NoThread ELSE tail

\* A move that takes and releases the locks its label says keeps Locks.
LEMMA MovesKeep ==
    ASSUME Locks, NEW t \in Thread, NEW label \in Label, Moves(t, label)
    PROVE  Locks'
<1>1. pc' \in [Thread -> Label] /\ pc'[t] = label /\ \A u \in Thread \ {t} : pc'[u] = pc[u]
  BY DEF Locks, Moves
<1>2. core' \in Thread \cup {NoThread} /\ tail' \in Thread \cup {NoThread}
  BY DEF Locks, Moves
<1>3. ASSUME NEW u \in Thread
      PROVE  pc'[u] \in Locked <=> core' = u
  BY <1>1, Threads DEF Locks, Moves
<1>4. ASSUME NEW u \in Thread
      PROVE  pc'[u] \in {"write", "raise"} <=> tail' = u
  BY <1>1, Threads DEF Locks, Moves
<1> QED BY <1>1, <1>2, <1>3, <1>4 DEF Locks

\* Nothing is promised that is not in the file; the tail loses nothing; and the
\* thread comes away with changes that are safe wherever they have to be.
Vouches(t, label) ==
    /\ \A u \in Thread \ {t} : saw'[u] = saw[u] /\ excused'[u] = excused[u]
    /\ promised' <= Len(file')
    /\ seq <= seq' /\ saw'[t] <= seq'
    /\ ~torn' => ~torn /\ TailHas <= TailHas'
    /\ ~torn' /\ ~deferred' => (~deferred /\ saw'[t] <= TailHas') \/ TailHas' = seq'
    /\ ~torn' /\ label \in {"wait", "hold", "write", "raise"} => saw'[t] <= TailHas'
    /\ label = "lower" /\ ~excused'[t] => tail' = NoThread
    /\ tail = NoThread => tail' = NoThread \/ core = t

\* A move like that leaves every other thread what it may vouch for.
LEMMA VouchesKeep ==
    ASSUME Locks, HistoryTypes, LineTypes, LineTypes', HistoryTypes', Vouched,
           TailHas \in Nat, TailHas' \in Nat,
           NEW t \in Thread, NEW label \in Label, Moves(t, label), Vouches(t, label)
    PROVE  Vouched'
<1>1. pc'[t] = label /\ \A u \in Thread \ {t} : pc'[u] = pc[u]
  BY DEF Locks, Moves
<1>2. seq \in Nat /\ seq' \in Nat /\ \A u \in Thread : saw[u] \in Nat /\ saw'[u] \in Nat
  BY DEF LineTypes, HistoryTypes
<1>3. ASSUME NEW u \in Thread PROVE saw'[u] <= seq'
  BY <1>2 DEF Vouches, Vouched
<1>4. ASSUME ~torn', ~deferred', NEW u \in Thread PROVE saw'[u] <= TailHas'
  <2>1. CASE TailHas' = seq'
    BY <1>3, <2>1
  <2>2. CASE ~deferred /\ saw'[t] <= TailHas'
    BY <1>2, <1>4, <2>2 DEF Vouches, Vouched
  <2> QED BY <1>4, <2>1, <2>2 DEF Vouches
<1>5. ASSUME ~torn', NEW u \in Thread, pc'[u] \in {"wait", "hold", "write", "raise"}
      PROVE  saw'[u] <= TailHas'
  BY <1>1, <1>2, <1>5 DEF Vouches, Vouched
<1>6. ASSUME NEW u \in Thread, pc'[u] = "lower", ~excused'[u]
      PROVE  tail' = NoThread
  <2>1. CASE u = t
    BY <1>1, <1>6, <2>1 DEF Vouches
  <2>2. CASE u # t
    <3>1. pc[u] = "lower" /\ ~excused[u] /\ core = u
      BY <1>1, <1>6, <2>2 DEF Vouches, Locks, Locked
    <3> QED BY <2>2, <3>1 DEF Vouches, Vouched
  <2> QED BY <2>1, <2>2
<1> QED BY <1>3, <1>4, <1>5, <1>6 DEF Vouched, Vouches

\* The lines between the file and those that wait.
LEMMA TailCounts ==
    ASSUME LineTypes, tail \in Thread \cup {NoThread}
    PROVE  TailHas \in Nat
<1>1. TakenBy(tail) \in Seq(Nat)
  BY DEF LineTypes, TakenBy
<1> QED BY <1>1 DEF LineTypes, TailHas

\* A step that moves no line, of a thread that has none and takes none.
LEMMA QuietKeeps ==
    ASSUME TailInv, NEW t \in Thread, NEW label \in Label \ {"take", "write"}, Moves(t, label),
           pc[t] \notin {"take", "write"}, UNCHANGED <<lineVars, failures>>
    PROVE  LineTypes' /\ Hands' /\ Chain' /\ TailHas' = TailHas
<1>1. pc' = [pc EXCEPT ![t] = label] /\ pc \in [Thread -> Label] /\ UNCHANGED taken
  BY DEF TailInv, Locks, Moves, lineVars
<1>2. taken[t] = <<>>
  BY DEF TailInv, Hands
<1>3. LineTypes'
  BY DEF TailInv, LineTypes, lineVars
<1>4. Hands'
  BY <1>1, <1>2 DEF TailInv, Hands
<1>5. TakenBy(tail)' = TakenBy(tail) /\ TakenBy(core)' = TakenBy(core)
  BY <1>1, <1>2 DEF Moves, TakenBy
<1>6. TailHas' = TailHas
  BY <1>5 DEF TailHas, lineVars
<1>7. Chain'
  BY <1>5, <1>6 DEF TailInv, Chain, lineVars
<1> QED BY <1>3, <1>4, <1>6, <1>7

\* What a thread that holds the broker's lock, and has taken no line, finds.
LEMMA HeldFinds ==
    ASSUME TailInv, NEW t \in Thread, core = t, pc[t] # "take"
    PROVE  /\ TakenBy(core) = <<>>
           /\ ~torn => Follows(pending, TailHas) /\ seq = TailHas + Len(pending)
           /\ ~deferred /\ pc[t] # "pend" => pending = <<>>
           /\ \A u \in Thread \ {t} : pc[u] \notin Locked
<1>1. TailHas \in Nat /\ Len(<<>>) = 0 /\ Len(pending) \in Nat
  BY TailCounts DEF TailInv, Locks, LineTypes
<1>2. pc[t] \in Locked /\ \A u \in Thread \ {t} : pc[u] \notin Locked
  BY DEF TailInv, Locks
<1>3. TakenBy(core) = <<>>
  BY <1>2, Threads DEF TailInv, Hands, TakenBy, Locked
<1>4. ~torn => Follows(pending, TailHas) /\ seq = TailHas + Len(pending)
  <2> HAVE ~torn
  <2>1. TailHas + Len(TakenBy(core)) = TailHas
    BY <1>1, <1>3
  <2> QED BY <2>1 DEF TailInv, Chain
<1>5. ~deferred /\ pc[t] # "pend" => pending = <<>>
  BY <1>2 DEF TailInv, Flagged, Locked
<1> QED BY <1>2, <1>3, <1>4, <1>5

\* The chain once all that waited is in the file, or refused.
LEMMA EmptiedChain ==
    ASSUME Follows(file', 0), pending' = <<>>, TakenBy(tail)' = <<>>, TakenBy(core)' = <<>>,
           Len(file') \in Nat, Len(refused') \in Nat,
           ~torn' => Follows(refused', Len(file')) /\ seq' = Len(file') + Len(refused')
    PROVE  Chain' /\ TailHas' = Len(file') + Len(refused')
<1>1. TailHas' = Len(file') + Len(refused')
  BY DEF TailHas
<1>2. TailHas' + Len(TakenBy(core)') = TailHas' /\ TailHas' + Len(pending') = TailHas'
  BY <1>1
<1>3. /\ Follows(TakenBy(tail)', Len(file') + Len(refused'))
      /\ Follows(TakenBy(core)', TailHas')
      /\ Follows(pending', TailHas')
  BY <1>1, NoneFollows
<1> QED BY <1>1, <1>2, <1>3 DEF Chain

\* Nothing is left unflagged by a step that adds no line and lowers no flag.
LEMMA FlaggedKeeps ==
    ASSUME TailInv, NEW t \in Thread, NEW label \in Label, Moves(t, label),
           \/ pending' = <<>>
           \/ /\ UNCHANGED pending /\ (deferred => deferred')
              /\ pc[t] # "pend" /\ label \notin {"take", "lower"}
    PROVE  Flagged'
<1>1. pc'[t] = label /\ \A u \in Thread \ {t} : pc'[u] = pc[u]
  BY DEF TailInv, Locks, Moves
<1>2. CASE pending' = <<>>
  BY <1>2 DEF Flagged
<1>3. CASE /\ UNCHANGED pending /\ (deferred => deferred')
           /\ pc[t] # "pend" /\ label \notin {"take", "lower"}
  BY <1>1, <1>3 DEF TailInv, Flagged
<1> QED BY <1>2, <1>3

\* What is left to show of a step once its lines are known to be in order.
LEMMA TailStepKeeps ==
    ASSUME TailInv, NEW t \in Thread, NEW label \in Label, Moves(t, label), Vouches(t, label),
           LineTypes', FlagTypes', HistoryTypes', Hands', Chain', Flagged'
    PROVE  TailInv'
<1>1. Locks'
  BY MovesKeep DEF TailInv
<1>2. TailHas \in Nat
  BY TailCounts DEF TailInv, Locks
<1>3. TailHas' \in Nat
  <2>1. TakenBy(tail)' \in Seq(Nat)
    BY <1>1 DEF Locks, LineTypes, TakenBy
  <2> QED BY <2>1 DEF LineTypes, TailHas
<1>4. Vouched'
  BY <1>2, <1>3, VouchesKeep DEF TailInv
<1> QED BY <1>1, <1>4 DEF TailInv

\* A step that moves no line and says nothing; it may excuse its thread.
LEMMA PlainStep ==
    ASSUME TailInv, NEW t \in Thread,
           NEW label \in Label \ {"take", "write", "raise", "lower", "hold"}, Moves(t, label),
           pc[t] \notin {"take", "write", "pend"}, UNCHANGED <<lineVars, failures>>,
           UNCHANGED <<deferred, saw, promised>>, FlagTypes', HistoryTypes',
           \A u \in Thread \ {t} : excused'[u] = excused[u],
           label = "wait" => ~deferred
    PROVE  TailInv'
<1>1. LineTypes' /\ Hands' /\ Chain' /\ TailHas' = TailHas
  BY QuietKeeps
<1>2. Flagged'
  BY FlaggedKeeps DEF lineVars
<1>3. TailHas \in Nat /\ seq \in Nat
  BY TailCounts DEF TailInv, Locks, LineTypes
<1>4. Vouches(t, label)
  <2>1. saw[t] <= seq /\ promised <= Len(file) /\ UNCHANGED <<seq, file, torn>>
    BY DEF TailInv, Vouched, lineVars
  <2>2. ~torn /\ ~deferred => saw[t] <= TailHas
    BY DEF TailInv, Vouched
  <2>3. tail = NoThread => tail' = NoThread
    BY Threads DEF Moves
  <2> QED BY <1>1, <1>3, <2>1, <2>2, <2>3 DEF Vouches
<1> QED BY <1>1, <1>2, <1>4, TailStepKeeps

\* A reply promises what is in the file.
LEMMA ReplyPromises ==
    ASSUME HistoryTypes, NEW t \in Thread, Reply(t), promised <= Len(file'), Len(file') \in Nat,
           ~torn' /\ refused' = <<>> /\ ~excused[t] => saw[t] <= Len(file')
    PROVE  /\ HistoryTypes' /\ promised' <= Len(file') /\ saw'[t] = 0
           /\ pc' = [pc EXCEPT ![t] = "idle"]
           /\ \A u \in Thread \ {t} : saw'[u] = saw[u] /\ excused'[u] = excused[u]
<1>1. /\ saw' = [saw EXCEPT ![t] = 0] /\ excused' = [excused EXCEPT ![t] = FALSE]
      /\ pc' = [pc EXCEPT ![t] = "idle"]
  BY DEF Reply, Goto
<1>2. saw' \in [Thread -> Nat] /\ excused' \in [Thread -> BOOLEAN]
  BY <1>1 DEF HistoryTypes
<1>3. promised' \in Nat /\ promised' <= Len(file')
  <2>1. CASE ~excused[t] /\ ~failing' /\ saw[t] > promised
    <3>1. ~torn' /\ refused' = <<>>
      BY <2>1 DEF failing
    <3>2. promised' = saw[t]
      BY <2>1 DEF Reply
    <3> QED BY <2>1, <3>1, <3>2 DEF HistoryTypes
  <2>2. CASE ~(~excused[t] /\ ~failing' /\ saw[t] > promised)
    <3>1. promised' = promised
      BY <2>2 DEF Reply
    <3> QED BY <3>1 DEF HistoryTypes
  <2> QED BY <2>1, <2>2
<1> QED BY <1>1, <1>2, <1>3 DEF HistoryTypes

\* A reply of a thread that finds its changes with the tail, and the tail free of
\* lines to write, or was told that they wait.
LEMMA ReplyStep ==
    ASSUME TailInv, NEW t \in Thread, Reply(t), Moves(t, "idle"),
           pc[t] \notin {"take", "write", "pend"}, UNCHANGED <<lineVars, failures>>, FlagTypes',
           ~excused[t] => TakenBy(tail) = <<>> /\ (~torn => saw[t] <= TailHas),
           ~torn /\ ~deferred' => ~deferred \/ TailHas = seq,
           pending = <<>> \/ (deferred => deferred')
    PROVE  TailInv'
<1> DEFINE label == "idle"
<1>1. label \in Label \ {"take", "write"}
  BY DEF Label
<1>2. LineTypes' /\ Hands' /\ Chain' /\ TailHas' = TailHas
  BY <1>1, QuietKeeps
<1>3. UNCHANGED <<seq, pending, refused, file, torn>>
  BY DEF lineVars
<1>4. Flagged'
  BY <1>1, <1>3, FlaggedKeeps
<1>5. TailHas \in Nat /\ seq \in Nat /\ Len(file) \in Nat /\ Len(<<>>) = 0
  BY TailCounts DEF TailInv, Locks, LineTypes
<1>6. refused = <<>> /\ TakenBy(tail) = <<>> => TailHas = Len(file)
  BY <1>5 DEF TailHas
<1>7. /\ HistoryTypes' /\ promised' <= Len(file') /\ saw'[t] = 0
      /\ \A u \in Thread \ {t} : saw'[u] = saw[u] /\ excused'[u] = excused[u]
  <2>1. promised <= Len(file')
    BY <1>3 DEF TailInv, Vouched
  <2>2. ~torn' /\ refused' = <<>> /\ ~excused[t] => saw[t] <= Len(file')
    BY <1>3, <1>6
  <2> QED BY <1>3, <1>5, <2>1, <2>2, ReplyPromises DEF TailInv
<1>8. Vouches(t, label)
  <2>1. tail = NoThread => tail' = NoThread
    BY Threads DEF Moves
  <2> QED BY <1>2, <1>3, <1>5, <1>7, <2>1 DEF Vouches
<1> QED BY <1>1, <1>2, <1>4, <1>7, <1>8, TailStepKeeps

-----------------------------------------------------------------------------
(***************************************************************************)
(* Every action keeps the invariant.  First those that move no line.       *)
(***************************************************************************)
LEMMA ReadKeeps == ASSUME TailInv, NEW t \in Thread, Read(t) PROVE TailInv'
<1>1. Moves(t, "settle")
  BY DEF Read, lock, Goto, Moves, TailInv, Locks, Locked
<1>2. FlagTypes' /\ HistoryTypes'
  BY DEF Read, TailInv, FlagTypes, HistoryTypes, syncVars, history
<1>3. "settle" \in Label \ {"take", "write", "raise", "lower", "hold"}
  BY DEF Label
<1>4. pc[t] \notin {"take", "write", "pend"} /\ UNCHANGED <<deferred, lineVars, failures, history>>
  BY DEF Read, syncVars
<1> QED BY <1>1, <1>2, <1>3, <1>4, PlainStep DEF history

\* Core::run_command begins; it tries a failing journal again first.
LEMMA CommandKeeps == ASSUME TailInv, NEW t \in Thread, Command(t) PROVE TailInv'
<1> DEFINE label == IF failing THEN "retry" ELSE "apply"
<1>1. Moves(t, label)
  BY DEF Command, lock, Goto, Moves, TailInv, Locks, Locked
<1>2. FlagTypes' /\ HistoryTypes'
  BY DEF Command, TailInv, FlagTypes, HistoryTypes, syncVars, history
<1>3. label \in Label \ {"take", "write", "raise", "lower", "hold"}
  BY DEF Label
<1>4. pc[t] \notin {"take", "write", "pend"} /\ UNCHANGED <<deferred, lineVars, failures, history>>
  BY DEF Command, syncVars
<1>5. label # "wait"
  OBVIOUS
<1> HIDE DEF label
<1> QED BY <1>1, <1>2, <1>3, <1>4, <1>5, PlainStep DEF history

\* tick begins.
LEMMA TickKeeps == ASSUME TailInv, NEW t \in Thread, Tick(t) PROVE TailInv'
<1> DEFINE label == IF failing THEN "retry" ELSE "settle"
<1>1. Moves(t, label)
  BY DEF Tick, lock, Goto, Moves, TailInv, Locks, Locked
<1>2. FlagTypes' /\ HistoryTypes'
  BY DEF Tick, TailInv, FlagTypes, HistoryTypes, syncVars, history
<1>3. label \in Label \ {"take", "write", "raise", "lower", "hold"}
  BY DEF Label
<1>4. pc[t] \notin {"take", "write", "pend"} /\ UNCHANGED <<deferred, lineVars, failures, history>>
  BY DEF Tick, syncVars
<1>5. label # "wait"
  OBVIOUS
<1> HIDE DEF label
<1> QED BY <1>1, <1>2, <1>3, <1>4, <1>5, PlainStep DEF history

\* A loop goes on to its next request (batch_journal_writes).
LEMMA NextRequestKeeps == ASSUME TailInv, NEW t \in Thread, NextRequest(t) PROVE TailInv'
<1>1. Moves(t, "idle")
  BY DEF NextRequest, lock, Goto, Moves, TailInv, Locks, Locked
<1>2. FlagTypes' /\ HistoryTypes'
  BY DEF NextRequest, TailInv, FlagTypes, HistoryTypes, syncVars, history
<1>3. "idle" \in Label \ {"take", "write", "raise", "lower", "hold"}
  BY DEF Label
<1>4. pc[t] \notin {"take", "write", "pend"} /\ UNCHANGED <<deferred, lineVars, failures, history>>
  BY DEF NextRequest, syncVars
<1> QED BY <1>1, <1>2, <1>3, <1>4, PlainStep DEF history

\* flush_journal reads the flag without the lock.
LEMMA FlushKeeps == ASSUME TailInv, NEW t \in Thread, Flush(t) PROVE TailInv'
<1> DEFINE label == IF deferred THEN "await" ELSE "wait"
<1>1. Moves(t, label)
  BY DEF Flush, lock, Goto, Moves, TailInv, Locks, Locked
<1>2. FlagTypes' /\ HistoryTypes'
  BY DEF Flush, TailInv, FlagTypes, HistoryTypes, syncVars, history
<1>3. label \in Label \ {"take", "write", "raise", "lower", "hold"}
  BY DEF Label
<1>4. pc[t] \notin {"take", "write", "pend"} /\ UNCHANGED <<deferred, lineVars, failures, history>>
  BY DEF Flush, syncVars
<1> QED BY <1>1, <1>2, <1>3, <1>4, PlainStep DEF history

\* With the flag up it waits for what is being written before it locks.
LEMMA FlushAwaitKeeps == ASSUME TailInv, NEW t \in Thread, FlushAwait(t) PROVE TailInv'
<1>1. Moves(t, "relock")
  BY DEF FlushAwait, lock, Goto, Moves, TailInv, Locks, Locked
<1>2. FlagTypes' /\ HistoryTypes'
  BY DEF FlushAwait, TailInv, FlagTypes, HistoryTypes, syncVars, history
<1>3. "relock" \in Label \ {"take", "write", "raise", "lower", "hold"}
  BY DEF Label
<1>4. pc[t] \notin {"take", "write", "pend"} /\ UNCHANGED <<deferred, lineVars, failures, history>>
  BY DEF FlushAwait, syncVars
<1> QED BY <1>1, <1>2, <1>3, <1>4, PlainStep DEF history

\* The tick goes off to sync, without the lock.
LEMMA TickSyncKeeps == ASSUME TailInv, NEW t \in Thread, TickSync(t) PROVE TailInv'
<1>1. Moves(t, "sync")
  BY DEF TickSync, lock, Goto, Moves, TailInv, Locks, Locked
<1>2. FlagTypes' /\ HistoryTypes'
  BY DEF TickSync, TailInv, FlagTypes, HistoryTypes, syncVars, history
<1>3. "sync" \in Label \ {"take", "write", "raise", "lower", "hold"}
  BY DEF Label
<1>4. pc[t] \notin {"take", "write", "pend"} /\ UNCHANGED <<deferred, lineVars, failures, history>>
  BY DEF TickSync, syncVars
<1> QED BY <1>1, <1>2, <1>3, <1>4, PlainStep DEF history

\* It has synced, and takes the lock.
LEMMA TickSyncedKeeps == ASSUME TailInv, NEW t \in Thread, TickSynced(t) PROVE TailInv'
<1>1. Moves(t, "soon")
  BY DEF TickSynced, lock, Goto, Moves, TailInv, Locks, Locked
<1>2. FlagTypes' /\ HistoryTypes'
  BY DEF TickSynced, TailInv, FlagTypes, HistoryTypes, syncVars, history
<1>3. "soon" \in Label \ {"take", "write", "raise", "lower", "hold"}
  BY DEF Label
<1>4. pc[t] \notin {"take", "write", "pend"} /\ UNCHANGED <<deferred, lineVars, failures, history>>
  BY DEF TickSynced, syncVars
<1> QED BY <1>1, <1>2, <1>3, <1>4, PlainStep DEF history

\* A reply reflects what was made so far; with the flag down the tail has it all.
LEMMA SettleStep ==
    ASSUME TailInv, NEW t \in Thread, pc[t] = "settle",
           NEW label \in {"round", "soon", "hold"}, Moves(t, label),
           label = "hold" => ~deferred,
           saw' = [saw EXCEPT ![t] = seq],
           UNCHANGED <<lineVars, deferred, syncVars, excused, promised, requests, failures>>
    PROVE  TailInv'
<1>1. label \in Label \ {"take", "write"} /\ label \notin {"lower", "wait", "raise"}
  BY DEF Label
<1>2. LineTypes' /\ Hands' /\ Chain' /\ TailHas' = TailHas
  BY <1>1, QuietKeeps
<1>3. Flagged'
  BY <1>1, FlaggedKeeps DEF lineVars
<1>4. seq \in Nat /\ TailHas \in Nat /\ Len(<<>>) = 0
  BY TailCounts DEF TailInv, Locks, LineTypes
<1>5. /\ saw' \in [Thread -> Nat] /\ saw'[t] = seq
      /\ \A u \in Thread \ {t} : saw'[u] = saw[u]
  BY <1>4 DEF TailInv, HistoryTypes
<1>6. FlagTypes' /\ HistoryTypes'
  BY <1>5 DEF TailInv, FlagTypes, HistoryTypes, syncVars
<1>7. ~torn /\ ~deferred => TailHas = seq
  <2> HAVE ~torn /\ ~deferred
  <2>1. core = t
    BY DEF TailInv, Locks, Locked
  <2>2. pending = <<>> /\ seq = TailHas + Len(pending)
    BY <2>1, HeldFinds
  <2> QED BY <1>4, <2>2
<1>8. Vouches(t, label)
  <2>1. tail = NoThread => tail' = NoThread
    BY <1>1, Threads DEF Moves
  <2>2. promised' <= Len(file')
    BY DEF TailInv, Vouched, lineVars
  <2> QED BY <1>1, <1>2, <1>4, <1>5, <1>7, <2>1, <2>2 DEF Vouches, lineVars
<1> QED BY <1>1, <1>2, <1>3, <1>6, <1>8, TailStepKeeps

\* settle of a thread that batches leaves the writing to its round's end.
LEMMA SettleLoopKeeps == ASSUME TailInv, NEW t \in Thread, SettleLoop(t) PROVE TailInv'
<1>1. Moves(t, "round")
  BY DEF SettleLoop, Goto, Moves, TailInv, Locks, Locked
<1> QED BY <1>1, SettleStep DEF SettleLoop

\* settle of one that does not looks whether lines wait, and keeps the lock.
LEMMA SettleOtherKeeps == ASSUME TailInv, NEW t \in Thread, SettleOther(t) PROVE TailInv'
<1> DEFINE label == IF deferred THEN "soon" ELSE "hold"
<1>1. Moves(t, label)
  BY DEF SettleOther, Goto, Moves, TailInv, Locks, Locked
<1>2. label \in {"round", "soon", "hold"} /\ (label = "hold" => ~deferred)
  OBVIOUS
<1> HIDE DEF label
<1> QED BY <1>1, <1>2, SettleStep DEF SettleOther

\* With the flag down it waits for what is being written, and replies.
LEMMA SettleWaitKeeps == ASSUME TailInv, NEW t \in Thread, SettleWait(t) PROVE TailInv'
<1>1. Moves(t, "idle")
  BY DEF SettleWait, Reply, Goto, Moves, TailInv, Locks, Locked
<1>2. FlagTypes' /\ Reply(t)
  BY DEF SettleWait, TailInv, FlagTypes, syncVars
<1>3. TakenBy(tail) = <<>> /\ (~torn => saw[t] <= TailHas)
  BY DEF SettleWait, TakenBy, TailInv, Vouched
<1> QED BY <1>1, <1>2, <1>3, ReplyStep DEF SettleWait

\* With the flag down it waits for what is being written, and replies.
LEMMA FlushWaitKeeps == ASSUME TailInv, NEW t \in Thread, FlushWait(t) PROVE TailInv'
<1>1. Moves(t, "idle")
  BY DEF FlushWait, Reply, Goto, Moves, TailInv, Locks, Locked
<1>2. FlagTypes' /\ Reply(t)
  BY DEF FlushWait, TailInv, FlagTypes, syncVars
<1>3. TakenBy(tail) = <<>> /\ (~torn => saw[t] <= TailHas)
  BY DEF FlushWait, TakenBy, TailInv, Vouched
<1> QED BY <1>1, <1>2, <1>3, ReplyStep DEF FlushWait

\* flush_journal raises the flag again for lines the disk refused.
LEMMA RaiseDeferredKeeps == ASSUME TailInv, NEW t \in Thread, RaiseDeferred(t) PROVE TailInv'
<1>1. tail = t /\ Moves(t, "idle")
  BY DEF RaiseDeferred, Reply, Goto, Moves, TailInv, Locks, Locked
<1>2. FlagTypes' /\ Reply(t) /\ deferred'
  BY DEF RaiseDeferred, TailInv, FlagTypes, syncVars
<1>3. TakenBy(tail) = <<>> /\ (~torn => saw[t] <= TailHas)
  BY <1>1, Threads DEF RaiseDeferred, TakenBy, TailInv, Vouched, Hands
<1> QED BY <1>1, <1>2, <1>3, ReplyStep DEF RaiseDeferred

\* The flag is lowered where nothing waits: the tail has every change.
LEMMA LowerDeferredKeeps == ASSUME TailInv, NEW t \in Thread, LowerDeferred(t) PROVE TailInv'
<1>1. core = t /\ pending = <<>>
  BY DEF LowerDeferred, TailInv, Locks, Locked, Flagged
<1>2. Moves(t, "idle")
  BY <1>1 DEF LowerDeferred, Reply, Goto, Moves, TailInv, Locks, Locked
<1>3. FlagTypes' /\ Reply(t)
  BY DEF LowerDeferred, TailInv, FlagTypes, syncVars
<1>4. TailHas \in Nat /\ seq \in Nat /\ saw[t] <= seq /\ Len(<<>>) = 0
  BY TailCounts DEF TailInv, Locks, LineTypes, Vouched
<1>5. ~torn => TailHas = seq
  <2> HAVE ~torn
  <2>1. seq = TailHas + Len(pending)
    BY <1>1, HeldFinds DEF LowerDeferred
  <2> QED BY <1>1, <1>4, <2>1
<1>6. ~excused[t] => tail = NoThread
  BY DEF LowerDeferred, TailInv, Vouched
<1> QED BY <1>1, <1>2, <1>3, <1>4, <1>5, <1>6, ReplyStep DEF LowerDeferred, TakenBy

\* flush_deferred while a sync holds writes up.
LEMMA FlushPostponedKeeps == ASSUME TailInv, NEW t \in Thread, FlushPostponed(t) PROVE TailInv'
<1> DEFINE label == IF waiting THEN "idle" ELSE "lower"
<1>1. label \in Label \ {"take", "write"} /\ label \notin {"wait", "hold", "raise"}
  BY DEF Label
<1>2. core = t /\ Moves(t, label)
  BY DEF FlushPostponed, Goto, Moves, TailInv, Locks, Locked
<1>3. LineTypes' /\ Hands' /\ Chain' /\ TailHas' = TailHas
  BY <1>1, <1>2, QuietKeeps DEF FlushPostponed
<1>4. Flagged'
  <2>1. label = "lower" => pending' = <<>>
    BY DEF FlushPostponed, waiting, lineVars
  <2> QED BY <1>1, <1>2, <2>1, FlaggedKeeps DEF FlushPostponed, lineVars
<1>5. /\ HistoryTypes' /\ FlagTypes'
      /\ \A u \in Thread \ {t} : saw'[u] = saw[u] /\ excused'[u] = excused[u]
      /\ saw'[t] \in {0, saw[t]} /\ (label = "lower" => excused'[t])
  <2>1. FlagTypes'
    BY DEF FlushPostponed, TailInv, FlagTypes, syncVars
  <2>2. CASE waiting
    BY <2>1, <2>2 DEF FlushPostponed, TailInv, HistoryTypes
  <2>3. CASE ~waiting
    BY <2>1, <2>3 DEF FlushPostponed, TailInv, HistoryTypes
  <2> QED BY <2>2, <2>3
<1>6. Vouches(t, label)
  <2>1. /\ UNCHANGED <<seq, file, torn, deferred, promised>>
        /\ promised <= Len(file) /\ saw[t] <= seq
        /\ ~torn /\ ~deferred => saw[t] <= TailHas
    BY DEF FlushPostponed, TailInv, Vouched, lineVars
  <2>2. TailHas \in Nat /\ seq \in Nat
    BY TailCounts DEF TailInv, Locks, LineTypes
  <2>3. tail = NoThread => tail' = NoThread
    BY <1>1, <1>2, Threads DEF Moves
  <2> QED BY <1>1, <1>3, <1>5, <2>1, <2>2, <2>3 DEF Vouches
<1> HIDE DEF label
<1> QED BY <1>1, <1>2, <1>3, <1>4, <1>5, <1>6, TailStepKeeps

\* Syncs::run and holding_up touch no line.
LEMMA SyncKeeps == ASSUME TailInv, SyncBegins \/ SyncEnds PROVE TailInv'
<1>1. /\ UNCHANGED <<core, tail, pc, lineVars, deferred, always, history, requests, failures>>
      /\ holding' \in BOOLEAN /\ syncs' \in Nat
  <2>1. CASE SyncBegins
    BY <2>1 DEF SyncBegins, TailInv, FlagTypes
  <2>2. CASE SyncEnds
    BY <2>2 DEF SyncEnds, TailInv, FlagTypes
  <2> QED BY <2>1, <2>2
<1>2. LineTypes' /\ FlagTypes' /\ HistoryTypes'
  BY <1>1 DEF TailInv, LineTypes, FlagTypes, HistoryTypes, lineVars, history
<1>3. Locks' /\ Hands' /\ Flagged'
  BY <1>1 DEF TailInv, Locks, Hands, Flagged, lineVars
<1>4. TakenBy(core)' = TakenBy(core) /\ TakenBy(tail)' = TakenBy(tail) /\ TailHas' = TailHas
  BY <1>1 DEF TakenBy, TailHas, lineVars
<1>5. Chain' /\ Vouched'
  BY <1>1, <1>4 DEF TailInv, Chain, Vouched, lineVars, history
<1> QED BY <1>2, <1>3, <1>5 DEF TailInv

-----------------------------------------------------------------------------
(***************************************************************************)
(* The actions that hand lines from one to another.                        *)
(***************************************************************************)
LEMMA TakePendingKeeps == ASSUME TailInv, NEW t \in Thread, TakePending(t) PROVE TailInv'
<1>1. /\ core = NoThread /\ core' = t /\ tail # t /\ pc[t] = "relock"
      /\ UNCHANGED <<tail, seq, refused, file, torn, failure, deferred, syncVars, history,
                     requests, failures>>
  BY DEF TakePending, lock, TailInv, Locks
<1>2. FlagTypes' /\ HistoryTypes'
  BY <1>1 DEF TailInv, FlagTypes, HistoryTypes, syncVars, history
<1>3. CASE Goto(t, "soon") /\ UNCHANGED <<pending, taken>>
  <2>1. Moves(t, "soon")
    BY <1>1, <1>3 DEF Goto, Moves, Locked
  <2>2. "soon" \in Label \ {"take", "write", "raise", "lower", "hold"}
    BY DEF Label
  <2> QED BY <1>1, <1>2, <1>3, <2>1, <2>2, PlainStep DEF lineVars, history
<1>4. CASE /\ Goto(t, "take")
           /\ taken' = [taken EXCEPT ![t] = pending] /\ pending' = <<>>
  <2>1. Moves(t, "take") /\ "take" \in Label
    BY <1>1, <1>4 DEF Goto, Moves, Locked, Label
  <2>2. LineTypes' /\ taken'[t] = pending
    BY <1>1, <1>4, EmptySeq DEF TailInv, LineTypes
  <2>3. Hands'
    BY <1>1, <1>4 DEF TailInv, Hands, Locks, LineTypes, Goto
  <2>4. TakenBy(tail)' = TakenBy(tail) /\ TailHas' = TailHas
    BY <1>1, <1>4 DEF TakenBy, TailHas, TailInv, Locks, LineTypes
  <2>5. TakenBy(core) = <<>> /\ TakenBy(core)' = pending
    BY <1>1, <2>2, Threads DEF TakenBy
  <2>6. TailHas \in Nat /\ Len(<<>>) = 0 /\ Len(pending) \in Nat /\ seq \in Nat
    BY TailCounts DEF TailInv, Locks, LineTypes
  <2>7. Chain'
    <3>1. ~torn => /\ Follows(pending, TailHas)
                   /\ seq = TailHas + Len(pending)
      <4> HAVE ~torn
      <4>1. TailHas + Len(TakenBy(core)) = TailHas
        BY <2>5, <2>6
      <4> QED BY <4>1 DEF TailInv, Chain
    <3>2. Follows(pending', TailHas' + Len(TakenBy(core)'))
      BY <1>4, <2>4, <2>5, <2>6, NoneFollows
    <3>3. ~torn => seq' = TailHas' + Len(TakenBy(core)') + Len(pending')
      BY <1>1, <1>4, <2>4, <2>5, <2>6, <3>1
    <3> QED BY <1>1, <2>4, <2>5, <3>1, <3>2, <3>3 DEF TailInv, Chain
  <2>8. Flagged'
    BY <1>4, <2>1, FlaggedKeeps
  <2>9. Vouches(t, "take")
    <3>1. saw[t] <= seq /\ promised <= Len(file) /\ (~torn /\ ~deferred => saw[t] <= TailHas)
      BY DEF TailInv, Vouched
    <3> QED BY <1>1, <2>4, <2>6, <3>1 DEF Vouches, history
  <2> QED BY <1>2, <2>1, <2>2, <2>3, <2>7, <2>8, <2>9, TailStepKeeps
<1> QED BY <1>3, <1>4 DEF TakePending

\* flush_journal takes the tail while it holds the lines it took.
LEMMA LockTailKeeps == ASSUME TailInv, NEW t \in Thread, LockTail(t) PROVE TailInv'
<1>1. /\ core = t /\ core' = NoThread /\ tail = NoThread /\ tail' = t /\ pc[t] = "take"
      /\ ~deferred' /\ pending = <<>> /\ Moves(t, "write") /\ "write" \in Label
      /\ UNCHANGED <<lineVars, syncVars, history, requests, failures>>
  BY DEF LockTail, Goto, Moves, Label, Locked, TailInv, Locks, Flagged
<1>2. LineTypes' /\ FlagTypes' /\ HistoryTypes'
  <2>1. deferred' \in BOOLEAN
    BY DEF LockTail
  <2> QED BY <1>1, <2>1 DEF TailInv, LineTypes, FlagTypes, HistoryTypes, lineVars, syncVars, history
<1>3. Hands'
  BY <1>1 DEF TailInv, Hands, Locks, Moves, lineVars
<1>4. /\ TakenBy(tail) = <<>> /\ TakenBy(tail)' = taken[t]
      /\ TakenBy(core) = taken[t] /\ TakenBy(core)' = <<>>
  BY <1>1, Threads DEF TakenBy, lineVars
<1>5. /\ Len(file) \in Nat /\ Len(refused) \in Nat /\ Len(taken[t]) \in Nat /\ Len(<<>>) = 0
      /\ seq \in Nat
  BY DEF TailInv, LineTypes
<1>6. /\ TailHas = Len(file) + Len(refused)
      /\ TailHas' = Len(file) + Len(refused) + Len(taken[t])
  BY <1>1, <1>4, <1>5 DEF TailHas, lineVars
<1>7. ~torn => Follows(taken[t], TailHas) /\ seq = TailHas'
  BY <1>1, <1>4, <1>5, <1>6 DEF TailInv, Chain
<1> DEFINE has == TailHas'
<1>8. has \in Nat /\ TailHas <= has
  <2>1. TailHas \in Nat /\ has = TailHas + Len(taken[t])
    BY <1>5, <1>6
  <2> QED BY <1>5, <2>1
<1>9. Chain'
  <2>1. seq' = seq /\ pending' = <<>>
    BY <1>1 DEF lineVars
  <2> HIDE DEF has
  <2>2. has + Len(TakenBy(core)') = has /\ has + Len(TakenBy(core)') + Len(pending') = has
    BY <1>4, <1>5, <1>8, <2>1
  <2>3. Follows(TakenBy(core)', has) /\ Follows(pending', has)
    BY <1>4, <1>8, <2>1, NoneFollows
  <2> USE DEF has
  <2> QED BY <1>1, <1>4, <1>6, <1>7, <2>1, <2>2, <2>3 DEF TailInv, Chain, lineVars
<1>10. Flagged'
  BY <1>1, FlaggedKeeps DEF lineVars
<1>11. Vouches(t, "write")
  <2>1. saw[t] <= seq /\ promised <= Len(file)
    BY DEF TailInv, Vouched
  <2>2. UNCHANGED <<seq, torn, file, saw, excused, promised>>
    BY <1>1 DEF lineVars, history
  <2> QED BY <1>1, <1>5, <1>7, <1>8, <2>1, <2>2 DEF Vouches
<1> QED BY <1>1, <1>2, <1>3, <1>9, <1>10, <1>11, TailStepKeeps

\* flush_journal writes them, or has them refused, and lets the tail go.
LEMMA WriteTakenKeeps == ASSUME TailInv, NEW t \in Thread, WriteTaken(t) PROVE TailInv'
<1>1. /\ tail = t /\ core # t /\ pc[t] = "write"
      /\ taken' = [taken EXCEPT ![t] = <<>>]
      /\ UNCHANGED <<core, seq, pending, deferred, syncVars, requests>>
  BY DEF WriteTaken, TailInv, Locks, Locked
<1>2. PICK wrote \in BOOLEAN :
        /\ write(taken[t], wrote)
        /\ wrote => tail' = NoThread /\ Reply(t)
        /\ ~wrote => Goto(t, "raise") /\ UNCHANGED <<tail, history>>
  BY DEF WriteTaken
<1> DEFINE label == IF wrote THEN "idle" ELSE "raise"
<1>3. label \in Label \ {"take", "write"} /\ label \notin {"lower", "wait", "hold"}
  BY DEF Label
<1>4. Moves(t, label)
  <2>1. pc' = [pc EXCEPT ![t] = label]
    BY <1>2 DEF Reply, Goto
  <2>2. CASE wrote
    BY <1>1, <1>2, <2>1, <2>2 DEF Moves, Locked
  <2>3. CASE ~wrote
    BY <1>1, <1>2, <2>1, <2>3 DEF Moves, Locked
  <2> QED BY <2>2, <2>3
<1>5. /\ TakenBy(tail) = taken[t] /\ TakenBy(tail)' = <<>>
      /\ TakenBy(core)' = TakenBy(core)
  <2>1. tail' \in {t, NoThread} /\ taken'[t] = <<>> /\ \A u \in Thread \ {t} : taken'[u] = taken[u]
    BY <1>1, <1>2 DEF TailInv, LineTypes
  <2> QED BY <1>1, <2>1, Threads DEF TakenBy, TailInv, Locks
<1>6. /\ file' \in Seq(Nat) /\ refused' \in Seq(Nat) /\ torn' \in BOOLEAN
      /\ failure' \in BOOLEAN /\ failures' \in Nat
      /\ Follows(file', 0)
      /\ Len(file) <= Len(file')
      /\ ~torn' => /\ ~torn
                   /\ Follows(refused', Len(file'))
                   /\ Len(file') + Len(refused') = Len(file) + Len(refused) + Len(taken[t])
  <2>1. taken[t] \in Seq(Nat)
    BY DEF TailInv, LineTypes
  <2>2. ~torn => Follows(taken[t], Len(file) + Len(refused))
    BY <1>5 DEF TailInv, Chain
  <2>3. Follows(file, 0) /\ (~torn => Follows(refused, Len(file)))
    BY DEF TailInv, Chain
  <2> QED BY <1>2, <2>1, <2>2, <2>3, WriteKeeps DEF TailInv, LineTypes
<1>7. LineTypes' /\ FlagTypes'
  <2>1. taken' \in [Thread -> Seq(Nat)]
    BY <1>1, EmptySeq DEF TailInv, LineTypes
  <2> QED BY <1>1, <1>6, <2>1 DEF TailInv, LineTypes, FlagTypes, syncVars
<1>8. Hands'
  BY <1>1, <1>4 DEF TailInv, Hands, Locks, LineTypes, Moves
<1> DEFINE has == TailHas'
<1>9. /\ has = Len(file') + Len(refused') /\ has \in Nat
      /\ TailHas \in Nat /\ Len(file') \in Nat /\ seq \in Nat
  <2>1. Len(file') \in Nat /\ Len(refused') \in Nat /\ Len(<<>>) = 0
    BY <1>6
  <2>2. has = Len(file') + Len(refused')
    BY <1>5, <2>1 DEF TailHas
  <2> QED BY <2>1, <2>2, TailCounts DEF TailInv, Locks, LineTypes
<1>10. ~torn' => ~torn /\ has = TailHas
  BY <1>5, <1>6, <1>9 DEF TailHas
<1>11. Chain'
  <2>1. Follows(TakenBy(tail)', Len(file') + Len(refused'))
    BY <1>5, <1>9, NoneFollows
  <2> QED BY <1>1, <1>5, <1>6, <1>10, <2>1 DEF TailInv, Chain
<1>12. Flagged'
  BY <1>1, <1>3, <1>4, FlaggedKeeps
<1>13. /\ promised <= Len(file') /\ saw[t] <= seq /\ saw[t] \in Nat
       /\ ~torn => saw[t] <= TailHas
  <2>1. promised <= Len(file) /\ promised \in Nat /\ Len(file) \in Nat
    BY DEF TailInv, Vouched, HistoryTypes, LineTypes
  <2> QED BY <1>1, <1>6, <1>9, <2>1 DEF TailInv, Vouched, HistoryTypes
<1>14. /\ HistoryTypes' /\ promised' <= Len(file') /\ saw'[t] \in {0, saw[t]}
       /\ \A u \in Thread \ {t} : saw'[u] = saw[u] /\ excused'[u] = excused[u]
  <2>1. CASE wrote
    <3>1. ~torn' /\ refused' = <<>> /\ ~excused[t] => saw[t] <= Len(file')
      BY <1>9, <1>10, <1>13
    <3> QED BY <1>2, <1>9, <1>13, <2>1, <3>1, ReplyPromises DEF TailInv
  <2>2. CASE ~wrote
    BY <1>2, <1>13, <2>2 DEF TailInv, HistoryTypes, history
  <2> QED BY <2>1, <2>2
<1>15. Vouches(t, label)
  <2>1. ~torn' /\ ~deferred' => ~deferred
    BY <1>1
  <2> HIDE DEF label
  <2> QED BY <1>1, <1>3, <1>9, <1>10, <1>13, <1>14, <2>1, Threads DEF Vouches
<1> HIDE DEF label
<1> QED BY <1>3, <1>4, <1>7, <1>8, <1>11, <1>12, <1>14, <1>15, TailStepKeeps

-----------------------------------------------------------------------------
(***************************************************************************)
(* The actions that write what waits, under the broker's lock.             *)
(***************************************************************************)
\* A step that leaves nothing waiting, of a thread that keeps the broker's lock or
\* replies.
LEMMA EmptyingStep ==
    ASSUME TailInv, NEW t \in Thread, core = t, tail = NoThread, pc[t] # "take",
           NEW label \in Label \ {"take", "write", "raise", "wait", "hold"}, Moves(t, label),
           UNCHANGED <<taken, deferred>>, pending' = <<>>,
           LineTypes', FlagTypes', HistoryTypes',
           seq <= seq', Len(file) <= Len(file'), Follows(file', 0),
           ~torn' => /\ ~torn /\ Follows(refused', Len(file'))
                     /\ seq' = Len(file') + Len(refused'),
           saw'[t] \in {0, saw[t]}, promised' <= Len(file'),
           \A u \in Thread \ {t} : saw'[u] = saw[u] /\ excused'[u] = excused[u]
    PROVE  TailInv'
<1>1. taken[t] = <<>> /\ Hands'
  BY DEF TailInv, Hands, Locks, Locked, Moves
<1>2. tail' = NoThread /\ TakenBy(tail)' = <<>> /\ TakenBy(core)' = <<>>
  BY <1>1, Threads DEF Moves, TakenBy
<1>3. Len(file') \in Nat /\ Len(refused') \in Nat /\ seq \in Nat /\ seq' \in Nat /\ TailHas \in Nat
  BY TailCounts DEF TailInv, LineTypes, Locks
<1> DEFINE has == TailHas'
<1>4. Chain' /\ has = Len(file') + Len(refused')
  BY <1>2, <1>3, EmptiedChain
<1>5. Flagged'
  BY FlaggedKeeps
<1>6. ~torn' => ~torn /\ has = seq' /\ TailHas <= has
  <2> HAVE ~torn'
  <2>1. Len(pending) \in Nat /\ seq = TailHas + Len(pending)
    BY HeldFinds DEF TailInv, LineTypes
  <2>2. has = seq'
    BY <1>4
  <2> HIDE DEF has
  <2> QED BY <1>3, <2>1, <2>2
<1>7. saw[t] <= seq /\ saw[t] \in Nat
  BY DEF TailInv, Vouched, HistoryTypes
<1>8. saw'[t] <= seq'
  BY <1>3, <1>7
<1>9. Vouches(t, label)
  BY <1>2, <1>6, <1>8 DEF Vouches
<1> QED BY <1>1, <1>4, <1>5, <1>9, TailStepKeeps

\* What a thread that holds both locks finds, and what it leaves when it writes.
LEMMA TailFree ==
    ASSUME TailInv, NEW t \in Thread, core = t, tail = NoThread, pc[t] # "take"
    PROVE  /\ TailHas = Len(file) + Len(refused)
           /\ ~torn => /\ Follows(refused, Len(file))
                       /\ Follows(pending, Len(file) + Len(refused))
                       /\ seq = Len(file) + Len(refused) + Len(pending)
           /\ Follows(file, 0)
           /\ Len(file) \in Nat /\ Len(refused) \in Nat /\ Len(pending) \in Nat
<1>1. Len(file) \in Nat /\ Len(refused) \in Nat /\ Len(pending) \in Nat /\ Len(<<>>) = 0
  BY DEF TailInv, LineTypes
<1>2. TailHas = Len(file) + Len(refused)
  BY <1>1 DEF TailHas, TakenBy
<1> QED BY <1>1, <1>2, HeldFinds DEF TailInv, Chain

\* Journal::flush puts what waits behind what the tail has.
LEMMA FlushWrites ==
    ASSUME TailInv, NEW t \in Thread, core = t, pc[t] # "take",
           NEW wrote \in BOOLEAN, flush_pending(wrote), UNCHANGED <<seq, taken>>
    PROVE  /\ tail = NoThread /\ pending' = <<>>
           /\ LineTypes'
           /\ Len(file) <= Len(file') /\ Follows(file', 0)
           /\ ~torn' => /\ ~torn /\ Follows(refused', Len(file'))
                        /\ seq' = Len(file') + Len(refused')
           /\ ~wrote => torn' \/ refused' # <<>>
<1>1. tail = NoThread /\ pending' = <<>> /\ write(pending, wrote)
  BY DEF flush_pending
<1>2. /\ file' \in Seq(Nat) /\ refused' \in Seq(Nat) /\ torn' \in BOOLEAN
      /\ failure' \in BOOLEAN /\ failures' \in Nat
      /\ Follows(file', 0)
      /\ Len(file) <= Len(file')
      /\ ~wrote => torn' \/ refused' # <<>>
      /\ ~torn' => /\ ~torn /\ Follows(refused', Len(file'))
                   /\ Len(file') + Len(refused') = Len(file) + Len(refused) + Len(pending)
  BY <1>1, TailFree, WriteKeeps DEF TailInv, LineTypes
<1>3. ~torn' => seq' = Len(file') + Len(refused')
  BY <1>1, <1>2, TailFree
<1>4. LineTypes'
  BY <1>1, <1>2, EmptySeq DEF TailInv, LineTypes
<1> QED BY <1>1, <1>2, <1>3, <1>4

\* journal_commands of a thread that does not batch writes what it applied.
LEMMA FlushAppliedKeeps == ASSUME TailInv, NEW t \in Thread, FlushApplied(t) PROVE TailInv'
<1>1. PICK wrote \in BOOLEAN :
        flush_pending(wrote) /\ excused' = [excused EXCEPT ![t] = @ \/ ~wrote]
  BY DEF FlushApplied
<1>2. core = t /\ tail = NoThread /\ pc[t] # "take" /\ Moves(t, "settle")
  BY <1>1 DEF FlushApplied, flush_pending, Goto, Moves, TailInv, Locks, Locked
<1>3. "settle" \in Label \ {"take", "write", "raise", "wait", "hold"}
  BY DEF Label
<1>4. /\ FlagTypes' /\ HistoryTypes'
      /\ \A u \in Thread \ {t} : saw'[u] = saw[u] /\ excused'[u] = excused[u]
      /\ UNCHANGED <<seq, taken, deferred, saw, promised>>
  BY <1>1 DEF FlushApplied, TailInv, FlagTypes, HistoryTypes, syncVars
<1>5. /\ pending' = <<>> /\ LineTypes'
      /\ Len(file) <= Len(file') /\ Follows(file', 0)
      /\ ~torn' => /\ ~torn /\ Follows(refused', Len(file'))
                   /\ seq' = Len(file') + Len(refused')
  BY <1>1, <1>2, <1>4, FlushWrites
<1>6. promised' <= Len(file') /\ seq <= seq'
  BY <1>4, <1>5 DEF TailInv, Vouched, HistoryTypes, LineTypes
<1> QED BY <1>2, <1>3, <1>4, <1>5, <1>6, EmptyingStep

\* Core::journal_failing tries again what the disk refused.
LEMMA RetryKeeps == ASSUME TailInv, NEW t \in Thread, Retry(t) PROVE TailInv'
<1> DEFINE refuses == failing' /\ (failure' \/ torn')
           label == IF t = Ticker \/ refuses THEN "settle" ELSE "apply"
<1>1. /\ pc[t] = "retry" /\ tail = NoThread /\ pc' = [pc EXCEPT ![t] = label]
      /\ excused' = [excused EXCEPT ![t] = @ \/ refuses]
      /\ UNCHANGED <<core, tail, seq, taken, deferred, syncVars, saw, promised, requests>>
  BY DEF Retry, Goto
<1>2. \/ UNCHANGED <<pending, refused, file, torn, failure, failures>>
      \/ \E wrote \in BOOLEAN : flush_pending(wrote)
  BY DEF Retry
<1>3. label \in Label \ {"take", "write", "raise", "lower", "hold", "wait"} /\ label \in Locked
  BY DEF Label, Locked
<1>4. refuses \in BOOLEAN
  BY DEF failing
<1> HIDE DEF label, refuses
<1>5. core = t /\ Moves(t, label)
  BY <1>1, <1>3 DEF Moves, TailInv, Locks, Locked
<1>6. /\ FlagTypes' /\ HistoryTypes'
      /\ \A u \in Thread \ {t} : saw'[u] = saw[u] /\ excused'[u] = excused[u]
  <2>1. excused' \in [Thread -> BOOLEAN]
    BY <1>1, <1>4 DEF TailInv, HistoryTypes
  <2> QED BY <1>1, <2>1 DEF TailInv, FlagTypes, HistoryTypes, syncVars
<1>7. CASE UNCHANGED <<pending, refused, file, torn, failure, failures>>
  BY <1>1, <1>3, <1>5, <1>6, <1>7, PlainStep DEF lineVars
<1>8. CASE \E wrote \in BOOLEAN : flush_pending(wrote)
  <2>1. /\ pending' = <<>> /\ LineTypes'
        /\ Len(file) <= Len(file') /\ Follows(file', 0)
        /\ ~torn' => /\ ~torn /\ Follows(refused', Len(file'))
                     /\ seq' = Len(file') + Len(refused')
    BY <1>1, <1>5, <1>8, FlushWrites
  <2>2. promised' <= Len(file') /\ seq <= seq'
    BY <1>1, <2>1 DEF TailInv, Vouched, HistoryTypes, LineTypes
  <2> QED BY <1>1, <1>3, <1>5, <1>6, <2>1, <2>2, EmptyingStep
<1> QED BY <1>2, <1>7, <1>8

\* Journal::flush_soon with no sync in its way.
LEMMA FlushSoonKeeps == ASSUME TailInv, NEW t \in Thread, FlushSoon(t) PROVE TailInv'
<1>1. /\ core = t /\ pc[t] = "soon"
      /\ UNCHANGED <<tail, seq, taken, deferred, syncVars, requests>>
  BY DEF FlushSoon, TailInv, Locks, Locked
<1>2. CASE /\ flush_pending(TRUE) /\ Goto(t, "lower") /\ UNCHANGED <<core, history>>
  <2>1. tail = NoThread /\ Moves(t, "lower")
    BY <1>1, <1>2 DEF flush_pending, Goto, Moves, Locked
  <2>2. "lower" \in Label \ {"take", "write", "raise", "wait", "hold"} /\ TRUE \in BOOLEAN
    BY DEF Label
  <2>3. FlagTypes' /\ HistoryTypes' /\ UNCHANGED <<saw, excused, promised>>
    BY <1>1, <1>2 DEF TailInv, FlagTypes, HistoryTypes, syncVars, history
  <2>4. /\ pending' = <<>> /\ LineTypes'
        /\ Len(file) <= Len(file') /\ Follows(file', 0)
        /\ ~torn' => /\ ~torn /\ Follows(refused', Len(file'))
                     /\ seq' = Len(file') + Len(refused')
    BY <1>1, <1>2, <2>2, FlushWrites
  <2>5. promised' <= Len(file') /\ seq <= seq'
    BY <1>1, <2>3, <2>4 DEF TailInv, Vouched, HistoryTypes, LineTypes
  <2> QED BY <1>1, <2>1, <2>2, <2>3, <2>4, <2>5, EmptyingStep
<1>3. CASE flush_pending(FALSE) /\ core' = NoThread /\ Reply(t)
  <2>1. tail = NoThread /\ Moves(t, "idle")
    BY <1>1, <1>3 DEF flush_pending, Reply, Goto, Moves, Locked
  <2>2. "idle" \in Label \ {"take", "write", "raise", "wait", "hold"} /\ FALSE \in BOOLEAN
    BY DEF Label
  <2>3. FlagTypes'
    BY <1>1 DEF TailInv, FlagTypes, syncVars
  <2>4. /\ pending' = <<>> /\ LineTypes'
        /\ Len(file) <= Len(file') /\ Follows(file', 0)
        /\ ~torn' => /\ ~torn /\ Follows(refused', Len(file'))
                     /\ seq' = Len(file') + Len(refused')
        /\ torn' \/ refused' # <<>>
    BY <1>1, <1>3, <2>2, FlushWrites
  <2>5. promised <= Len(file') /\ seq <= seq' /\ Len(file') \in Nat
    BY <1>1, <2>4 DEF TailInv, Vouched, HistoryTypes, LineTypes
  <2>6. /\ HistoryTypes' /\ promised' <= Len(file') /\ saw'[t] = 0
        /\ \A u \in Thread \ {t} : saw'[u] = saw[u] /\ excused'[u] = excused[u]
    BY <1>3, <2>4, <2>5, ReplyPromises DEF TailInv
  <2> QED BY <1>1, <2>1, <2>2, <2>3, <2>4, <2>5, <2>6, EmptyingStep
<1> QED BY <1>2, <1>3 DEF FlushSoon

\* Journal::append of a thread that does not batch.
LEMMA AppendEffectKeeps == ASSUME TailInv, NEW t \in Thread, AppendEffect(t) PROVE TailInv'
<1>1. /\ core = t /\ pc[t] = "append" /\ tail = NoThread /\ pending' = <<>>
      /\ Moves(t, "settle")
      /\ UNCHANGED <<taken, deferred, syncVars, saw, promised, requests>>
  BY DEF AppendEffect, Goto, Moves, TailInv, Locks, Locked
<1>2. "settle" \in Label \ {"take", "write", "raise", "wait", "hold"}
  BY DEF Label
<1>3. /\ FlagTypes' /\ HistoryTypes'
      /\ \A u \in Thread \ {t} : saw'[u] = saw[u] /\ excused'[u] = excused[u]
  <2>1. excused' \in {excused, [excused EXCEPT ![t] = TRUE]}
    BY DEF AppendEffect
  <2> QED BY <1>1, <2>1 DEF TailInv, FlagTypes, HistoryTypes, syncVars
<1>4. /\ Follows(file, 0) /\ Len(file) \in Nat /\ Len(refused) \in Nat /\ Len(pending) \in Nat
      /\ ~torn => /\ Follows(refused, Len(file))
                  /\ Follows(pending, Len(file) + Len(refused))
                  /\ seq = Len(file) + Len(refused) + Len(pending)
  BY <1>1, TailFree
<1>5. /\ file \in Seq(Nat) /\ refused \in Seq(Nat) /\ pending \in Seq(Nat)
      /\ torn \in BOOLEAN /\ failure \in BOOLEAN /\ failures \in Nat /\ seq \in Nat
      /\ <<>> \in Seq(Nat) /\ Len(<<>>) = 0
  BY EmptySeq DEF TailInv, LineTypes
\* What each case has to show.
<1> DEFINE Kept == /\ file' \in Seq(Nat) /\ refused' \in Seq(Nat)
                   /\ torn' \in BOOLEAN /\ failure' \in BOOLEAN /\ failures' \in Nat
                   /\ seq' \in Nat /\ seq <= seq'
                   /\ Len(file) <= Len(file') /\ Follows(file', 0)
                   /\ ~torn' => /\ ~torn /\ Follows(refused', Len(file'))
                                /\ seq' = Len(file') + Len(refused')
<1>6. ASSUME write(Append(pending, seq + 1), TRUE) /\ seq' = seq + 1 PROVE Kept
  <2> DEFINE lines == Append(pending, seq + 1)
  <2>1. lines \in Seq(Nat) /\ Len(lines) = Len(pending) + 1
    BY <1>5
  <2>2. ~torn => Follows(lines, Len(file) + Len(refused))
    <3> HAVE ~torn
    <3>1. (Len(file) + Len(refused)) + Len(pending) + 1 = seq + 1 /\ Len(file) + Len(refused) \in Nat
      BY <1>4
    <3> QED BY <1>4, <1>5, <3>1, AppendFollows
  <2>3. write(lines, TRUE) /\ TRUE \in BOOLEAN
    BY <1>6
  <2> HIDE DEF lines
  <2>4. /\ file' \in Seq(Nat) /\ refused' \in Seq(Nat) /\ torn' \in BOOLEAN
        /\ failure' \in BOOLEAN /\ failures' \in Nat
        /\ Follows(file', 0)
        /\ Len(file) <= Len(file')
        /\ ~torn' => /\ ~torn /\ Follows(refused', Len(file'))
                     /\ Len(file') + Len(refused') = Len(file) + Len(refused) + Len(lines)
    BY <1>4, <1>5, <2>1, <2>2, <2>3, WriteKeeps
  <2>5. ~torn' => seq' = Len(file') + Len(refused')
    BY <1>4, <1>6, <2>1, <2>4
  <2>6. seq' \in Nat /\ seq <= seq'
    BY <1>5, <1>6
  <2> QED BY <2>4, <2>5, <2>6
<1>7. ASSUME write(pending, FALSE) /\ UNCHANGED seq PROVE Kept
  <2>1. /\ file' \in Seq(Nat) /\ refused' \in Seq(Nat) /\ torn' \in BOOLEAN
        /\ failure' \in BOOLEAN /\ failures' \in Nat
        /\ Follows(file', 0)
        /\ Len(file) <= Len(file')
        /\ ~torn' => /\ ~torn /\ Follows(refused', Len(file'))
                     /\ Len(file') + Len(refused') = Len(file) + Len(refused) + Len(pending)
    BY <1>4, <1>5, <1>7, WriteKeeps
  <2>2. ~torn' => seq' = Len(file') + Len(refused')
    BY <1>4, <1>7, <2>1
  <2>3. seq' \in Nat /\ seq <= seq'
    BY <1>5, <1>7
  <2> QED BY <2>1, <2>2, <2>3
<1>8. ASSUME line_refused /\ UNCHANGED seq PROVE Kept
  <2> DEFINE all == file \o refused \o pending
  <2>1. all \in Seq(Nat) /\ Len(all) = Len(file) + Len(refused) + Len(pending)
    BY <1>5, ConcatProperties
  <2>2. Follows(all, 0)
    <3>1. CASE torn
      <4>1. refused \o pending = <<>>
        BY <1>8, <3>1 DEF line_refused
      <4>2. Len(refused) = 0 /\ Len(pending) = 0
        BY <1>4, <1>5, <4>1, ConcatProperties
      <4>3. all = file
        BY <1>5, <4>2, EmptySeq
      <4> QED BY <1>4, <4>3
    <3>2. CASE ~torn
      <4>1. /\ file \o refused \in Seq(Nat) /\ Len(file \o refused) = Len(file) + Len(refused)
            /\ Follows(file \o refused, 0)
        BY <1>4, <1>5, <3>2, ExtendFollows
      <4> QED BY <1>4, <1>5, <3>2, <4>1, ExtendFollows
    <3> QED BY <3>1, <3>2
  <2>3. /\ failures' \in Nat /\ failure' \in BOOLEAN /\ refused' = <<>> /\ refused' \in Seq(Nat)
        /\ seq' \in Nat /\ seq <= seq'
    BY <1>5, <1>8 DEF line_refused
  <2> HIDE DEF all
  <2>4. CASE file' = all /\ UNCHANGED torn
    <3>1. file' \in Seq(Nat) /\ Len(file) <= Len(file') /\ Follows(file', 0)
      BY <1>4, <2>1, <2>2, <2>4
    <3>2. ~torn' => /\ ~torn /\ Follows(refused', Len(file'))
                    /\ seq' = Len(file') + Len(refused')
      <4> HAVE ~torn'
      <4>1. ~torn /\ seq = Len(all) /\ Len(refused') = 0 /\ Len(file') = Len(all) /\ Len(all) \in Nat
        BY <1>4, <1>5, <2>1, <2>3, <2>4
      <4> QED BY <1>8, <2>3, <4>1, NoneFollows
    <3>3. torn' \in BOOLEAN
      BY <1>5, <2>4
    <3> QED BY <2>3, <3>1, <3>2, <3>3
  <2>5. CASE ~torn /\ torn' = TRUE /\ \E left \in {<<>>, <<seq + 1>>} : file' = all \o left
    <3>1. PICK left \in {<<>>, <<seq + 1>>} : file' = all \o left
      BY <2>5
    <3>2. left \in Seq(Nat) /\ Follows(left, Len(all))
      <4>1. Len(all) = seq
        BY <1>4, <2>1, <2>5
      <4>2. Follows(<<seq + 1>>, seq)
        BY <1>5 DEF Follows
      <4>3. <<seq + 1>> \in Seq(Nat)
        BY <1>5
      <4> QED BY <1>5, <4>1, <4>2, <4>3, NoneFollows
    <3>3. file' \in Seq(Nat) /\ Len(file') = Len(all) + Len(left) /\ Follows(file', 0)
      BY <2>1, <2>2, <3>1, <3>2, ExtendFollows
    <3>4. Len(left) \in Nat
      BY <3>2
    <3>5. Len(file) <= Len(file')
      BY <1>4, <2>1, <3>3, <3>4
    <3>6. torn' /\ torn' \in BOOLEAN
      BY <2>5
    <3> QED BY <2>3, <3>3, <3>5, <3>6
  <2> QED BY <1>8, <2>4, <2>5 DEF line_refused, all
<1>9. Kept
  <2>1. \/ write(Append(pending, seq + 1), TRUE) /\ seq' = seq + 1
        \/ write(pending, FALSE) /\ UNCHANGED seq
        \/ line_refused /\ UNCHANGED seq
    BY DEF AppendEffect
  <2> HIDE DEF Kept
  <2> QED BY <1>6, <1>7, <1>8, <2>1
<1>10. LineTypes'
  BY <1>1, <1>5, <1>9 DEF TailInv, LineTypes
<1>11. promised' <= Len(file')
  <2>1. promised <= Len(file) /\ promised \in Nat /\ Len(file') \in Nat /\ promised' = promised
    BY <1>1, <1>9 DEF TailInv, Vouched, HistoryTypes
  <2> QED BY <1>4, <1>9, <2>1
<1> QED BY <1>1, <1>2, <1>3, <1>9, <1>10, <1>11, EmptyingStep

-----------------------------------------------------------------------------
(***************************************************************************)
(* The actions that make a change and leave its line waiting.              *)
(***************************************************************************)
LEMMA PushStep ==
    ASSUME TailInv, NEW t \in Thread, core \in {t, NoThread}, pc[t] \notin {"take", "write"},
           NEW label \in {"settle", "pend"}, Moves(t, label), push, FlagTypes',
           UNCHANGED <<taken, refused, file, torn, failure, history, failures>>,
           deferred' \/ (label = "pend" /\ UNCHANGED deferred)
    PROVE  TailInv'
<1>1. /\ label \in Label \ {"take", "write"} /\ label \notin {"take", "lower", "wait", "hold", "raise"}
      /\ label \in Locked
  BY DEF Label, Locked
<1>2. taken[t] = <<>> /\ Hands'
  BY <1>1 DEF TailInv, Hands, Locks, Moves
<1>3. /\ TakenBy(core) = <<>> /\ TakenBy(core)' = <<>> /\ TakenBy(tail)' = TakenBy(tail)
      /\ TailHas' = TailHas
  <2>1. TakenBy(tail)' = TakenBy(tail)
    BY <1>1, <1>2 DEF TakenBy, Moves
  <2> QED BY <1>1, <1>2, <2>1, Threads DEF TakenBy, Moves, TailHas
<1>4. /\ TailHas \in Nat /\ seq \in Nat /\ pending \in Seq(Nat) /\ Len(pending) \in Nat
      /\ Len(<<>>) = 0 /\ seq' = seq + 1 /\ pending' = Append(pending, seq + 1)
  BY TailCounts DEF TailInv, Locks, LineTypes, push
<1>5. LineTypes' /\ HistoryTypes'
  BY <1>4 DEF TailInv, LineTypes, HistoryTypes, history
<1>6. ~torn => /\ seq = TailHas + Len(pending)
               /\ Follows(pending, TailHas)
  <2> HAVE ~torn
  <2>1. TailHas + Len(TakenBy(core)) = TailHas
    BY <1>3, <1>4
  <2> QED BY <2>1 DEF TailInv, Chain
<1>7. ~torn => Follows(pending', TailHas) /\ seq' = TailHas + Len(pending')
  <2> HAVE ~torn
  <2>1. seq + 1 = TailHas + Len(pending) + 1
    BY <1>4, <1>6
  <2>2. Len(pending') = Len(pending) + 1 /\ Follows(pending', TailHas)
    BY <1>4, <1>6, <2>1, AppendFollows
  <2> QED BY <1>4, <2>1, <2>2
<1>8. Chain'
  <2>1. TailHas + Len(TakenBy(core)') = TailHas
    BY <1>3, <1>4
  <2>2. ~torn => /\ Follows(pending', TailHas' + Len(TakenBy(core)'))
                 /\ seq' = TailHas' + Len(TakenBy(core)') + Len(pending')
    BY <1>3, <1>7, <2>1
  <2> QED BY <1>3, <2>2 DEF TailInv, Chain
<1>9. Flagged'
  <2>1. pc'[t] = label /\ \A u \in Thread \ {t} : pc'[u] = pc[u] /\ pc[u] \notin Locked
    BY Threads DEF TailInv, Locks, Moves
  <2>2. deferred' \/ pc'[t] = "pend"
    <3>1. label = "pend" => pc'[t] = "pend"
      BY <2>1
    <3> QED BY <3>1
  <2>3. \A u \in Thread : pc'[u] \notin {"take", "lower"}
    BY <1>1, <2>1 DEF Locked
  <2> QED BY <2>2, <2>3 DEF Flagged
<1>10. Vouches(t, label)
  <2>1. saw[t] <= seq /\ saw[t] \in Nat /\ promised <= Len(file)
        /\ (~torn /\ ~deferred => saw[t] <= TailHas)
    BY DEF TailInv, Vouched, HistoryTypes
  <2>2. seq <= seq' /\ saw[t] <= seq'
    BY <1>4, <2>1
  <2>3. UNCHANGED <<saw, excused, promised, file, torn>>
    BY DEF history
  <2>4. ~deferred' => ~deferred
    OBVIOUS
  <2>5. tail = NoThread => tail' = NoThread
    BY <1>1, Threads DEF Moves
  <2> QED BY <1>1, <1>3, <1>4, <2>1, <2>2, <2>3, <2>4, <2>5 DEF Vouches
<1> QED BY <1>1, <1>2, <1>5, <1>8, <1>9, <1>10, TailStepKeeps

\* Core::journal_commands, once the command is applied.
LEMMA ApplyKeeps == ASSUME TailInv, NEW t \in Thread, Apply(t) PROVE TailInv'
<1> DEFINE label == IF Batching(t) /\ defers THEN "settle" ELSE "pend"
<1>1. /\ pc[t] = "apply" /\ core = t /\ push
      /\ UNCHANGED <<core, tail, taken, refused, file, torn, failure, syncVars,
                     history, requests, failures>>
      /\ pc' = [pc EXCEPT ![t] = label]
      /\ deferred' = TRUE \/ (label = "pend" /\ UNCHANGED deferred)
  BY DEF Apply, Goto, TailInv, Locks, Locked
<1>2. label \in {"settle", "pend"}
  OBVIOUS
<1> HIDE DEF label
<1>3. Moves(t, label)
  BY <1>1, <1>2 DEF Moves, Locked, TailInv, Locks
<1>4. FlagTypes'
  BY <1>1 DEF TailInv, FlagTypes, syncVars
<1> QED BY <1>1, <1>2, <1>3, <1>4, PushStep

\* Core::commit, which a thread that batches defers.
LEMMA CommitKeeps == ASSUME TailInv, NEW t \in Thread, Commit(t) PROVE TailInv'
<1>1. /\ pc[t] = "idle" /\ core = NoThread /\ core' = t /\ tail # t /\ requests' = requests + 1
      /\ UNCHANGED <<tail, taken, refused, file, torn, failure, syncVars, history, failures>>
  BY DEF Commit, lock, TailInv, Locks
<1>2. CASE deferred' = TRUE /\ push /\ Goto(t, "settle")
  <2>1. Moves(t, "settle")
    BY <1>1, <1>2 DEF Goto, Moves, Locked
  <2>2. FlagTypes'
    BY <1>1, <1>2 DEF TailInv, FlagTypes, syncVars
  <2> QED BY <1>1, <1>2, <2>1, <2>2, PushStep
<1>3. CASE Goto(t, "append") /\ UNCHANGED <<deferred, seq, pending>>
  <2>1. Moves(t, "append")
    BY <1>1, <1>3 DEF Goto, Moves, Locked
  <2>2. FlagTypes' /\ HistoryTypes'
    BY <1>1, <1>3 DEF TailInv, FlagTypes, HistoryTypes, syncVars, history
  <2>3. "append" \in Label \ {"take", "write", "raise", "lower", "hold"}
    BY DEF Label
  <2> QED BY <1>1, <1>3, <2>1, <2>2, <2>3, PlainStep DEF lineVars, history
<1> QED BY <1>2, <1>3 DEF Commit

-----------------------------------------------------------------------------
(***************************************************************************)
(* The theorems.                                                           *)
(***************************************************************************)
LEMMA NextKeeps == ASSUME TailInv, [TailNext]_tailVars PROVE TailInv'
<1>1. CASE \E t \in Thread : Request(t) \/ Step(t) \/ Tick(t) \/ TickSync(t)
  <2>1. PICK t \in Thread : Request(t) \/ Step(t) \/ Tick(t) \/ TickSync(t)
    BY <1>1
  <2>2. CASE Request(t)
    BY <2>2, ReadKeeps, CommitKeeps, CommandKeeps, NextRequestKeeps DEF Request
  <2>3. CASE Tick(t) \/ TickSync(t)
    BY <2>3, TickKeeps, TickSyncKeeps
  <2>4. CASE Step(t)
    <3>1. CASE AppendEffect(t) \/ Retry(t) \/ Apply(t) \/ FlushApplied(t)
      BY <3>1, AppendEffectKeeps, RetryKeeps, ApplyKeeps, FlushAppliedKeeps
    <3>2. CASE SettleLoop(t) \/ SettleOther(t) \/ SettleWait(t)
      BY <3>2, SettleLoopKeeps, SettleOtherKeeps, SettleWaitKeeps
    <3>3. CASE Flush(t) \/ FlushWait(t) \/ FlushAwait(t) \/ TakePending(t)
      BY <3>3, FlushKeeps, FlushWaitKeeps, FlushAwaitKeeps, TakePendingKeeps
    <3>4. CASE LockTail(t) \/ WriteTaken(t) \/ RaiseDeferred(t) \/ FlushPostponed(t)
      BY <3>4, LockTailKeeps, WriteTakenKeeps, RaiseDeferredKeeps, FlushPostponedKeeps
    <3>5. CASE FlushSoon(t) \/ LowerDeferred(t) \/ TickSynced(t)
      BY <3>5, FlushSoonKeeps, LowerDeferredKeeps, TickSyncedKeeps
    <3> QED BY <2>4, <3>1, <3>2, <3>3, <3>4, <3>5 DEF Step
  <2> QED BY <2>1, <2>2, <2>3, <2>4
<1>2. CASE SyncBegins \/ SyncEnds
  BY <1>2, SyncKeeps
<1>3. CASE UNCHANGED tailVars
  <2>1. LineTypes' /\ FlagTypes' /\ HistoryTypes'
    BY <1>3 DEF tailVars, TailInv, LineTypes, FlagTypes, HistoryTypes
  <2>2. Locks' /\ Hands' /\ Flagged'
    BY <1>3 DEF tailVars, TailInv, Locks, Hands, Flagged
  <2>3. TakenBy(core)' = TakenBy(core) /\ TakenBy(tail)' = TakenBy(tail) /\ TailHas' = TailHas
    BY <1>3 DEF tailVars, TakenBy, TailHas
  <2>4. Chain' /\ Vouched'
    BY <1>3, <2>3 DEF tailVars, TailInv, Chain, Vouched
  <2> QED BY <2>1, <2>2, <2>4 DEF TailInv
<1> QED BY <1>1, <1>2, <1>3 DEF TailNext

\* The invariant holds in every behaviour, whatever the threads do and the disk
\* refuses.
THEOREM TailInvariant == TailSpec => []TailInv
<1>1. TailInit => TailInv
  BY TailInitInv
<1>2. TailInv /\ [TailNext]_tailVars => TailInv'
  BY NextKeeps
<1> QED BY <1>1, <1>2, PTL DEF TailSpec

\* What the invariant says of the journal.
LEMMA TailInvHolds == TailInv => JournalHolds
<1> SUFFICES ASSUME TailInv PROVE JournalHolds
  OBVIOUS
<1>1. TailTypeOK
  <2>1. {torn, failure, deferred, always, holding} \subseteq BOOLEAN
    BY DEF TailInv, LineTypes, FlagTypes
  <2>2. {promised, requests, syncs, failures} \subseteq Nat
    BY DEF TailInv, LineTypes, FlagTypes, HistoryTypes
  <2> QED BY <2>1, <2>2 DEF TailTypeOK, TailInv, LineTypes, HistoryTypes, Locks
<1>2. InOrder
  BY NumbersFollow DEF InOrder, TailInv, LineTypes, Chain
<1>3. NothingLost
  <2> SUFFICES ASSUME ~torn
               PROVE  file \o refused \o TakenBy(tail) \o TakenBy(core) \o pending = Numbers(seq)
    BY DEF NothingLost
  <2> DEFINE byTail == TakenBy(tail)
             byCore == TakenBy(core)
  <2>1. /\ file \in Seq(Nat) /\ refused \in Seq(Nat) /\ pending \in Seq(Nat)
        /\ byTail \in Seq(Nat) /\ byCore \in Seq(Nat)
    BY EmptySeq DEF TailInv, LineTypes, Locks, TakenBy
  <2>2. /\ Follows(file, 0) /\ Follows(refused, Len(file))
        /\ Follows(byTail, Len(file) + Len(refused))
        /\ Follows(byCore, Len(file) + Len(refused) + Len(byTail))
        /\ Follows(pending, Len(file) + Len(refused) + Len(byTail) + Len(byCore))
        /\ seq = Len(file) + Len(refused) + Len(byTail) + Len(byCore) + Len(pending)
    BY DEF TailInv, Chain, TailHas
  <2> HIDE DEF byTail, byCore
  <2> DEFINE s1 == file \o refused
             s2 == s1 \o byTail
             s3 == s2 \o byCore
             s4 == s3 \o pending
  <2>3. s1 \in Seq(Nat) /\ Len(s1) = Len(file) + Len(refused) /\ Follows(s1, 0)
    BY <2>1, <2>2, ExtendFollows
  <2>4. s2 \in Seq(Nat) /\ Len(s2) = Len(file) + Len(refused) + Len(byTail) /\ Follows(s2, 0)
    <3> HIDE DEF s1
    <3>1. Follows(byTail, Len(s1))
      BY <2>2, <2>3
    <3>2. s2 \in Seq(Nat) /\ Len(s2) = Len(s1) + Len(byTail) /\ Follows(s2, 0)
      BY <2>1, <2>3, <3>1, ExtendFollows
    <3> HIDE DEF s2
    <3> QED BY <2>3, <3>2
  <2>5. s3 \in Seq(Nat) /\ Len(s3) = Len(file) + Len(refused) + Len(byTail) + Len(byCore) /\ Follows(s3, 0)
    <3> HIDE DEF s2
    <3>1. Follows(byCore, Len(s2))
      BY <2>2, <2>4
    <3>2. s3 \in Seq(Nat) /\ Len(s3) = Len(s2) + Len(byCore) /\ Follows(s3, 0)
      BY <2>1, <2>4, <3>1, ExtendFollows
    <3> HIDE DEF s3
    <3> QED BY <2>4, <3>2
  <2>6. s4 \in Seq(Nat) /\ Len(s4) = seq /\ Follows(s4, 0)
    <3> HIDE DEF s3
    <3>1. Follows(pending, Len(s3)) /\ Len(s3) + Len(pending) = seq
      BY <2>2, <2>5
    <3> QED BY <2>1, <2>5, <3>1, ExtendFollows
  <2> QED BY <2>6, NumbersFollow DEF byTail, byCore
<1>4. WaitingIsFlagged
  BY DEF WaitingIsFlagged, TailInv, Flagged
<1> QED BY <1>1, <1>2, <1>3, <1>4 DEF JournalHolds

\* The journal holds the changes in the order they were made, none is lost on its
\* way there, and none waits unnoticed, for any number of threads, requests, syncs
\* and writes refused (broker.rs commit, journal_commands, flush_journal).
THEOREM TailHolds == TailSpec => []JournalHolds
  BY TailInvariant, TailInvHolds, PTL

\* No reply goes out ahead of the changes it reflects (broker.rs settle,
\* flush_journal, flush_deferred).
THEOREM RepliesAfterWrites == TailSpec => []ReplyAfterWrite
<1>1. TailInv => ReplyAfterWrite
  BY DEF TailInv, Vouched, ReplyAfterWrite
<1> QED BY <1>1, TailInvariant, PTL
=============================================================================
