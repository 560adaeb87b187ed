------------------------------ MODULE MCJournal ------------------------------
(***************************************************************************)
(* Journal for TLC.  Restarting: the process crashes, the power is lost,   *)
(* and a snapshot fails, once each.  Failing: so does a sync, with one     *)
(* snapshot.  Running: one start of the server, with more snapshots, a     *)
(* sync that fails and a rename taken back.  Misnaming: restarts, where    *)
(* syncing the directory may fail and a rename is taken back.              *)
(***************************************************************************)
EXTENDS Journal

Quiet == [fsync |-> "everysec", new |-> FALSE, changes |-> 3, rewrites |-> 2, crashes |-> 0,
          powerLosses |-> 0, syncFailures |-> 0, snapshotFailures |-> 0,
          undone |-> 0, dirFails |-> FALSE]

Restarting == [Quiet EXCEPT !.new = TRUE, !.crashes = 1, !.powerLosses = 1,
                            !.snapshotFailures = 1]

Failing == [Restarting EXCEPT !.rewrites = 1, !.syncFailures = 1]

Running(policy) == [Quiet EXCEPT !.fsync = policy, !.rewrites = 3, !.syncFailures = 1,
                                   !.undone = 1]

Misnaming(policy) == [Restarting EXCEPT !.fsync = policy, !.new = FALSE, !.undone = 1,
                                        !.dirFails = TRUE, !.snapshotFailures = 0]

MCSetups == {Restarting, Failing} \cup {Running(p) : p \in {"everysec", "always"}}
                                  \cup {Misnaming(p) : p \in {"everysec", "always"}}
-----------------------------------------------------------------------------
(***************************************************************************)
(* Where what the documentation says does not hold.                        *)
(***************************************************************************)
MCAlwaysTick == {[Quiet EXCEPT !.fsync = "always", !.changes = 2, !.rewrites = 1]}
MCAlwaysFresh == {[Quiet EXCEPT !.fsync = "always", !.new = TRUE, !.changes = 1, !.rewrites = 0]}
MCReusedNumber == {[Quiet EXCEPT !.powerLosses = 1]}
MCSnapshotFails == {[Quiet EXCEPT !.changes = 1, !.rewrites = 1, !.syncFailures = 1,
                                  !.snapshotFailures = 1]}
MCUndone == {[Quiet EXCEPT !.changes = 2, !.undone = 1]}
MCDirFails == {[Quiet EXCEPT !.changes = 1, !.rewrites = 1, !.dirFails = TRUE]}
=============================================================================
