---------------------------- MODULE AtomicSnapshot ----------------------------
(***************************************************************************)
(* What a snapshot of the store promises: its contents are the store as it *)
(* was at one moment, whatever changed while it was being taken.  The      *)
(* store is a map per section (rooms, messages, keyspace); a snapshot is   *)
(* taken, then either published or given up.  Module Capture, which writes *)
(* the store out a run of values at a time, is shown to implement this.    *)
(***************************************************************************)
CONSTANTS Store,    \* the states of the store
          Nothing   \* no snapshot

VARIABLES map,      \* the store
          taking,   \* a snapshot is being taken
          taken,    \* what it will hold
          snapshot  \* the snapshot published, until another is begun

avars == <<map, taking, taken, snapshot>>

AInit == /\ map \in Store
         /\ taking = FALSE
         /\ taken = Nothing
         /\ snapshot = Nothing

\* The store changes; the snapshot being taken does not.
AChange == /\ map' \in Store
           /\ UNCHANGED <<taking, taken, snapshot>>

\* The snapshot is of the store at this moment.
ABegin == /\ ~taking
          /\ taking' = TRUE
          /\ taken' = map
          /\ snapshot' = Nothing
          /\ UNCHANGED map

APublish == /\ taking
            /\ taking' = FALSE
            /\ taken' = Nothing
            /\ snapshot' = taken
            /\ UNCHANGED map

AAbandon == /\ taking
            /\ taking' = FALSE
            /\ taken' = Nothing
            /\ UNCHANGED <<map, snapshot>>

ANext == AChange \/ ABegin \/ APublish \/ AAbandon

ASpec == AInit /\ [][ANext]_avars
===============================================================================
