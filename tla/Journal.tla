------------------------------- MODULE Journal -------------------------------
(***************************************************************************)
(* The journal on disk: how it is set aside when a snapshot starts, how    *)
(* the snapshot lands and the journals it covers are deleted, what the     *)
(* once-a-second sync makes durable, and what a restart makes of the       *)
(* files it finds (journal.rs; broker.rs after_operation, take_snapshot,   *)
(* tick, shutdown).                                                        *)
(*                                                                         *)
(* The store is the sequence of the changes made, each with a number of    *)
(* its own.  A line of a journal holds a change under its sequence number, *)
(* which a restart may give again.  JournalTail shows how lines reach the  *)
(* file in order; here a change is journaled and made in one step.         *)
(*                                                                         *)
(* A process crash leaves the files and the directory as the operating     *)
(* system has them.  A power loss leaves of each file a prefix, at least   *)
(* what was synced, and the directory as it was after some prefix of the   *)
(* operations made on it since it was synced.  A sync that fails may leave *)
(* what it was to sync off the disk for good, even once a sync succeeds.   *)
(***************************************************************************)
EXTENDS Integers, Sequences, FiniteSets, SequencesExt, FiniteSetsExt

CONSTANT Setups    \* the servers a run starts with, and the bounds on each

ASSUME SetupsAssumption ==
    Setups \subseteq [fsync : {"always", "everysec", "never"},    \* the policy
                      new : BOOLEAN,              \* an empty data directory
                      changes : Nat,              \* bounds: changes made,
                      rewrites : Nat,             \* snapshots started,
                      crashes : Nat,              \* crashes of the process,
                      powerLosses : Nat,          \* power losses,
                      syncFailures : Nat,         \* syncs that fail,
                      snapshotFailures : Nat,     \* snapshots that cannot be written,
                      undone : Nat,               \* renames taken back,
                      dirFails : BOOLEAN]         \* whether syncing the directory may fail

NoFile == 0
NoSnapshot == [seq |-> 0, state |-> <<>>]

VARIABLES
    setup,    \* what the server runs with, and the bounds
    files,    \* what each file holds, how many lines of it are durable, and
              \* whether a failed sync may have lost the rest
    dirs,     \* the directory, after each operation since it was last synced
    up,       \* the server runs
    mem,      \* the store; after a crash, what it was
    seq,      \* the last sequence number
    dirty, dir_unsynced,             \* Tail
    retired, unsynced, resnapshot,   \* Journal
    writing,  \* a snapshot is being taken or written
    snap,     \* it: the state and number it began with, and how far it got
    sync,     \* the tick's sync: what it has to do, and whether it runs
    secured,  \* changes the fsync policy has made safe from a power loss
    covering, \* the store when the tick took its sync
    count     \* how often each bounded thing has happened

server == <<mem, seq, dirty, dir_unsynced, retired, unsynced, resnapshot>>
vars == <<setup, files, dirs, up, server, writing, snap, sync, secured, covering, count>>

fsync == setup.fsync
Dir == Last(dirs)
NoSync == [running |-> FALSE, retired |-> <<>>, dir |-> FALSE, file |-> NoFile]
NoSnap == [stage |-> "none", seq |-> 0, state |-> <<>>, covered |-> {}]
EmptyFile == [lines |-> <<>>, synced |-> 0, bad |-> FALSE]

Init == /\ setup \in Setups
        /\ files = <<EmptyFile>>
        /\ LET at(f) == [active |-> f, rotated |-> <<>>, snapshot |-> NoSnapshot]
           IN  dirs = IF setup.new THEN <<at(NoFile), at(1)>> ELSE <<at(1)>>
        /\ up = TRUE /\ mem = <<>> /\ seq = 0
        /\ dirty = FALSE /\ dir_unsynced = FALSE
        /\ retired = <<>> /\ unsynced = FALSE /\ resnapshot = FALSE
        /\ writing = FALSE /\ snap = NoSnap /\ sync = NoSync
        /\ secured = <<>> /\ covering = <<>>
        /\ count = [changes |-> 0, rewrites |-> 0, crashes |-> 0, powerLosses |-> 0,
                    syncFailures |-> 0, snapshotFailures |-> 0, undone |-> 0]

Count(what) == count' = [count EXCEPT ![what] = @ + 1]

\* fsync of a file: what it holds is durable, unless it was lost before.
Synced(f) == IF f.bad THEN f ELSE [f EXCEPT !.synced = Len(f.lines)]
\* An operation on the directory, and fsync of the directory: that it failed
\* nobody learns (sync_dir).
Operation(d) == dirs' = Append(dirs, d)
SyncDir == \/ dirs' = <<Dir>>
           \/ setup.dirFails /\ UNCHANGED dirs
-----------------------------------------------------------------------------
(***************************************************************************)
(* Journal::open: the state a restart makes of a directory.  `kept` is how *)
(* many lines of each file there are to read.  Lines the snapshot covers   *)
(* are skipped; nothing checks that the others follow on one another.      *)
(***************************************************************************)
\* The journals to read: the current one, and those set aside that the
\* snapshot does not cover.
Live(d) == ({d.active} \cup {d.rotated[n] : n \in {n \in DOMAIN d.rotated : n > d.snapshot.seq}})
           \ {NoFile}

Older_current_first(d, f, g) ==      \* the current journal before those set aside
    IF f = d.active THEN f # g
    ELSE \E n, m \in DOMAIN d.rotated : n < m /\ d.rotated[n] = f /\ d.rotated[m] = g

\* Those set aside come in the order of their numbers, and then the current one.
Older(d, f, g) ==
    IF g = d.active THEN f # g
    ELSE \E n, m \in DOMAIN d.rotated : n < m /\ d.rotated[n] = f /\ d.rotated[m] = g

\* Where the lines to replay are: a file, and how far into it.
Places(d, kept) ==
    {p \in UNION {{f} \X (1 .. kept[f]) : f \in Live(d)} :
        files[p[1]].lines[p[2]].s > d.snapshot.seq}

Before(d, p, q) == IF p[1] = q[1] THEN p[2] < q[2] ELSE Older(d, p[1], q[1])

\* These lines, in the order they are read.
Lines(d, kept) ==
    LET places == Places(d, kept)
        place(k) == CHOOSE p \in places : Cardinality({q \in places : Before(d, q, p)}) = k - 1
    IN  [k \in 1 .. Cardinality(places) |-> files[place(k)[1]].lines[place(k)[2]]]

Replayed(d, kept) ==
    LET lines == Lines(d, kept)
    IN  d.snapshot.state \o [k \in DOMAIN lines |-> lines[k].e]

ReplayedSeq(d, kept) ==
    Max({d.snapshot.seq} \cup {files[p[1]].lines[p[2]].s : p \in Places(d, kept)})

AllLines == [f \in DOMAIN files |-> Len(files[f].lines)]
-----------------------------------------------------------------------------
(***************************************************************************)
(* Changes, and the tick's sync.                                           *)
(***************************************************************************)
\* The broker's lock is free: a rewrite is not in the middle of its renames.
Free == up /\ snap.stage # "renaming"

SyncDirFirst_dropped == UNCHANGED dirs      \* not synced
SyncDirFirst == IF dir_unsynced THEN SyncDir ELSE UNCHANGED dirs

\* Core::commit: Journal::append, or a deferred line and its flush, then apply.
\* With fsync=always the line is synced first, and before it the directory
\* (Tail::append, attempt).
Change ==
    /\ Free /\ ~unsynced /\ count.changes < setup.changes
    /\ LET e == count.changes + 1
           f == Dir.active
           written == [files[f] EXCEPT !.lines = Append(@, [s |-> seq + 1, e |-> e])]
       IN  /\ mem' = Append(mem, e)
           /\ seq' = seq + 1
           /\ \/ /\ fsync = "always"
                 /\ files' = [files EXCEPT ![f] = Synced(written)]
                 /\ SyncDirFirst
                 /\ dir_unsynced' = FALSE
                 /\ secured' = mem'
                 /\ UNCHANGED dirty
              \/ /\ fsync # "always"
                 /\ files' = [files EXCEPT ![f] = written]
                 /\ dirty' = TRUE
                 /\ UNCHANGED <<dirs, dir_unsynced, secured>>
    /\ Count("changes")
    /\ UNCHANGED <<setup, up, retired, unsynced, resnapshot, writing, snap, sync, covering>>

\* Some line a restart may have to read may be off the disk for good, for a sync
\* of its file failed: no snapshot that covers it is on disk yet.
Lossy == \E i \in DOMAIN dirs : \E f \in Live(dirs[i]) : files[f].bad

\* Broker::tick: Journal::take_sync, under the lock.  A tick that finds nothing
\* to sync has everything on disk, as far as it knows.  A handle on the journal
\* it cannot have is left to the next tick, and the sync covers nothing new.
TakeSync ==
    /\ Free /\ fsync # "never" /\ ~sync.running
    /\ IF retired = <<>> /\ ~dir_unsynced /\ ~dirty
       THEN /\ secured' = IF Lossy THEN secured ELSE mem
            /\ UNCHANGED <<sync, retired, dirty, dir_unsynced, covering>>
       ELSE \E cloned \in BOOLEAN :
            /\ dirty \/ cloned
            /\ sync' = [running |-> cloned \/ retired # <<>> \/ dir_unsynced,
                        retired |-> retired, dir |-> dir_unsynced,
                        file |-> IF dirty /\ cloned THEN Dir.active ELSE NoFile]
            /\ retired' = <<>>
            /\ dirty' = ~cloned
            /\ dir_unsynced' = FALSE
            /\ covering' = IF cloned THEN mem ELSE secured
            /\ UNCHANGED secured
    /\ UNCHANGED <<setup, files, dirs, up, mem, seq, unsynced, resnapshot, writing, snap, count>>

\* Sync::run, without the lock: the journals set aside, oldest first, then the
\* directory, then the journal.
SyncNext ==
    /\ up /\ sync.running
    /\ \/ /\ sync.retired # <<>>
          /\ files' = [files EXCEPT ![Head(sync.retired)] = Synced(@)]
          /\ sync' = [sync EXCEPT !.retired = Tail(@)]
          /\ UNCHANGED dirs
       \/ /\ sync.retired = <<>> /\ sync.dir
          /\ SyncDir
          /\ sync' = [sync EXCEPT !.dir = FALSE]
          /\ UNCHANGED files
       \/ /\ sync.retired = <<>> /\ ~sync.dir /\ sync.file # NoFile
          /\ files' = [files EXCEPT ![sync.file] = Synced(@)]
          /\ sync' = [sync EXCEPT !.file = NoFile]
          /\ UNCHANGED dirs
    /\ UNCHANGED <<setup, up, server, writing, snap, secured, covering, count>>

SyncDone == sync.retired = <<>> /\ ~sync.dir /\ sync.file = NoFile

SyncEnds_forgetful ==      \* calls the snapshot off
    /\ Free /\ sync.running /\ SyncDone
    /\ sync' = NoSync
    /\ unsynced' = FALSE /\ resnapshot' = FALSE
    /\ secured' = IF Lossy THEN secured ELSE covering
    /\ UNCHANGED <<setup, files, dirs, up, mem, seq, dirty, dir_unsynced, retired,
                   writing, snap, covering, count>>

\* Journal::synced, under the lock, when the sync succeeded.
SyncEnds ==
    /\ Free /\ sync.running /\ SyncDone
    /\ sync' = NoSync
    /\ unsynced' = FALSE
    /\ secured' = IF Lossy THEN secured ELSE covering
    /\ UNCHANGED <<setup, files, dirs, up, mem, seq, dirty, dir_unsynced, retired, resnapshot,
                   writing, snap, covering, count>>

\* Journal::synced when syncing a file failed: what is left is put back (the
\* journal as whichever is the current one by now), changes are refused until a
\* sync succeeds, and a snapshot is due.
SyncFails ==
    /\ Free /\ sync.running /\ count.syncFailures < setup.syncFailures
    /\ \/ sync.retired # <<>>
       \/ ~sync.dir /\ sync.file # NoFile
    /\ files' = [f \in DOMAIN files |->
                    IF f \in Range(sync.retired) \cup {sync.file}
                    THEN [files[f] EXCEPT !.bad = TRUE] ELSE files[f]]
    /\ retired' = sync.retired \o retired
    /\ dir_unsynced' = (dir_unsynced \/ sync.dir)
    /\ dirty' = (dirty \/ sync.file # NoFile)
    /\ unsynced' = TRUE
    /\ resnapshot' = TRUE
    /\ sync' = NoSync
    /\ Count("syncFailures")
    /\ UNCHANGED <<setup, dirs, up, mem, seq, writing, snap, secured, covering>>
-----------------------------------------------------------------------------
(***************************************************************************)
(* A rewrite: Journal::start_rewrite, under the lock.                      *)
(***************************************************************************)
SetAside(d, n) ==
    [d EXCEPT !.rotated = [m \in DOMAIN @ \cup {n} |-> IF m = n THEN d.active ELSE @[m]],
              !.active = NoFile]

\* The current journal is set aside under the last sequence number, unless one
\* is under that name already: "a journal already set aside under this number
\* holds every change up to it".
StartRewrite ==
    /\ Free /\ ~writing /\ ~unsynced /\ count.rewrites < setup.rewrites
    /\ writing' = TRUE
    /\ snap' = [stage |-> "renaming", seq |-> seq, state |-> mem, covered |-> {}]
    /\ IF seq \in DOMAIN Dir.rotated
       THEN UNCHANGED dirs
       ELSE Operation(SetAside(Dir, seq))
    /\ Count("rewrites")
    /\ UNCHANGED <<setup, files, up, server, sync, secured, covering>>

\* The fresh journal cannot be renamed: the current one has its name back, and
\* there is no snapshot.
RollBack ==
    /\ up /\ snap.stage = "renaming" /\ count.undone < setup.undone
    /\ IF Dir.active # NoFile
       THEN UNCHANGED dirs
       ELSE Operation([Dir EXCEPT !.active = Dir.rotated[seq],
                                  !.rotated = [m \in DOMAIN @ \ {seq} |-> @[m]]])
    /\ snap' = NoSnap
    /\ writing' = FALSE
    /\ Count("undone")
    /\ UNCHANGED <<setup, files, up, server, sync, secured, covering>>

\* The journal set aside waits for the tick's sync, as its last lines would have.
Retire_not(previous) == retired      \* forgotten
Retire(previous) ==
    IF dirty /\ fsync = "everysec" THEN Append(retired, previous) ELSE retired

\* The fresh journal takes its place, and the snapshot is of this moment.
TakeOver ==
    /\ up /\ snap.stage = "renaming"
    /\ LET previous == IF Dir.active # NoFile THEN Dir.active ELSE Dir.rotated[seq]
       IN  retired' = Retire(previous)
    /\ files' = Append(files, EmptyFile)
    /\ Operation([Dir EXCEPT !.active = Len(files) + 1])
    /\ dir_unsynced' = TRUE
    /\ dirty' = FALSE
    /\ resnapshot' = FALSE
    /\ snap' = [snap EXCEPT !.stage = "taken"]
    /\ UNCHANGED <<setup, up, mem, seq, unsynced, writing, sync, secured, covering, count>>
-----------------------------------------------------------------------------
(***************************************************************************)
(* Snapshot::persist, on a thread of its own.                              *)
(***************************************************************************)
\* The journals the snapshot covers are synced, as they hold its changes until
\* it lands, then the temporary file.
SyncCovered ==
    /\ up /\ snap.stage = "taken"
    /\ LET covered == {n \in DOMAIN Dir.rotated : n <= snap.seq}
       IN  /\ files' = [f \in DOMAIN files |->
                           IF \E n \in covered : Dir.rotated[n] = f
                           THEN Synced(files[f]) ELSE files[f]]
           /\ snap' = [snap EXCEPT !.stage = "synced", !.covered = covered]
    /\ UNCHANGED <<setup, dirs, up, server, writing, sync, secured, covering, count>>

Land == /\ up /\ snap.stage = "synced"
        /\ Operation([Dir EXCEPT !.snapshot = [seq |-> snap.seq, state |-> snap.state]])
        /\ snap' = [snap EXCEPT !.stage = "landed"]
        /\ UNCHANGED <<setup, files, up, server, writing, sync, secured, covering, count>>

Landed == /\ up /\ snap.stage = "landed"
          /\ SyncDir
          /\ snap' = [snap EXCEPT !.stage = "deleting"]
          /\ UNCHANGED <<setup, files, up, server, writing, sync, secured, covering, count>>

Delete_early ==      \* before the snapshot lands, too
    /\ up /\ snap.stage \in {"synced", "deleting"} /\ snap.covered # {}
    /\ LET n == Min(snap.covered)
       IN  /\ Operation([Dir EXCEPT !.rotated = [m \in DOMAIN @ \ {n} |-> @[m]]])
           /\ snap' = [snap EXCEPT !.covered = @ \ {n}]
    /\ UNCHANGED <<setup, files, up, server, writing, sync, secured, covering, count>>

Delete ==
    /\ up /\ snap.stage = "deleting" /\ snap.covered # {}
    /\ LET n == Min(snap.covered)
       IN  /\ Operation([Dir EXCEPT !.rotated = [m \in DOMAIN @ \ {n} |-> @[m]]])
           /\ snap' = [snap EXCEPT !.covered = @ \ {n}]
    /\ UNCHANGED <<setup, files, up, server, writing, sync, secured, covering, count>>

Finish == /\ up /\ snap.stage = "deleting" /\ snap.covered = {}
          /\ SyncDir
          /\ snap' = NoSnap
          /\ writing' = FALSE
          /\ UNCHANGED <<setup, files, up, server, sync, secured, covering, count>>

\* The snapshot is given up: the disk refused it, or to delete what it covers,
\* or shutdown takes it over (Snapshot::abandon, and write when persist fails).
GiveUp == /\ up /\ \/ snap.stage \in {"taken", "synced"}
                   \/ snap.stage = "deleting" /\ snap.covered # {}
          /\ count.snapshotFailures < setup.snapshotFailures
          /\ snap' = NoSnap
          /\ writing' = FALSE
          /\ Count("snapshotFailures")
          /\ UNCHANGED <<setup, files, dirs, up, server, sync, secured, covering>>
-----------------------------------------------------------------------------
(***************************************************************************)
(* Failures and restarts.                                                  *)
(***************************************************************************)
Down == /\ up' = FALSE
        /\ writing' = FALSE /\ snap' = NoSnap /\ sync' = NoSync
        /\ UNCHANGED <<setup, server, secured, covering>>

Crash == /\ up /\ count.crashes < setup.crashes
         /\ Down
         /\ Count("crashes")
         /\ UNCHANGED <<files, dirs>>

\* How many lines of each file may be left after a power loss.
Cuts == {c \in [DOMAIN files -> 0 .. setup.changes] :
            \A f \in DOMAIN files : c[f] \in files[f].synced .. Len(files[f].lines)}

PowerLoss ==
    /\ up /\ count.powerLosses < setup.powerLosses
    /\ \E i \in DOMAIN dirs, cut \in Cuts :
          /\ dirs' = <<dirs[i]>>
          /\ files' = [f \in DOMAIN files |->
                          [lines |-> SubSeq(files[f].lines, 1, cut[f]),
                           synced |-> cut[f], bad |-> FALSE]]
    /\ Down
    /\ Count("powerLosses")

\* Journal::open: deletes the journals the snapshot covers, replays the rest,
\* creates the journal if there is none, and starts with nothing to sync.
Open ==
    /\ ~up /\ up' = TRUE
    /\ mem' = Replayed(Dir, AllLines)
    /\ seq' = ReplayedSeq(Dir, AllLines)
    /\ LET kept == {n \in DOMAIN Dir.rotated : n > Dir.snapshot.seq}
           opened == [Dir EXCEPT !.rotated = [n \in kept |-> @[n]],
                                 !.active = IF @ = NoFile THEN Len(files) + 1 ELSE @]
       IN  /\ dirs' = IF opened = Dir THEN dirs ELSE Append(dirs, opened)
           /\ files' = IF Dir.active = NoFile THEN Append(files, EmptyFile) ELSE files
    /\ dirty' = FALSE /\ dir_unsynced' = FALSE
    /\ retired' = <<>> /\ unsynced' = FALSE /\ resnapshot' = FALSE
    /\ UNCHANGED <<setup, writing, snap, sync, secured, covering, count>>

Next == \/ Change
        \/ TakeSync \/ SyncNext \/ SyncEnds \/ SyncFails
        \/ StartRewrite \/ TakeOver \/ RollBack
        \/ SyncCovered \/ Land \/ Landed \/ Delete \/ Finish \/ GiveUp
        \/ Crash \/ PowerLoss \/ Open

Spec == Init /\ [][Next]_vars
-----------------------------------------------------------------------------
(***************************************************************************)
(* Properties.                                                             *)
(***************************************************************************)
\* A restart after a crash of the process, at whatever moment, finds exactly the
\* store as it was: "a crash at any point of a snapshot loses nothing".
CrashLosesNothing == up => Replayed(Dir, AllLines) = mem

\* A restart after a power loss may reach again the number of a journal set aside
\* before, and then the second rewrite finds that journal in its way.
NumbersMayClash == count.powerLosses > 0 /\ count.rewrites > 1

\* CrashLosesNothing wherever no two journals can be set aside under one number.
\* There a sequence number is given to one change only, among those a restart
\* would read, and they are read in the order of their numbers.
RestartFindsAll ==
    up /\ ~NumbersMayClash =>
          /\ CrashLosesNothing
          /\ ReplayedSeq(Dir, AllLines) = seq
          /\ \A i, j \in DOMAIN Lines(Dir, AllLines) :
                i < j => Lines(Dir, AllLines)[i].s < Lines(Dir, AllLines)[j].s

\* What a power loss leaves, at whatever moment, restores every change the fsync
\* policy has made safe: with "always" each one replied to, with "everysec"
\* those a tick has synced.
PowerLossKeepsSecured ==
    up => \A i \in DOMAIN dirs, cut \in Cuts :
             Range(secured) \subseteq Range(Replayed(dirs[i], cut))

\* The same, but for the time between a tick's take_sync, which clears
\* dir_unsynced, and its sync of the directory: with "always" a change made
\* meanwhile is replied to in a file the directory may not name.  This is of the
\* first start of a server in a directory that has a journal: an empty one is
\* not synced, and a restart takes what it reads for synced.  And it is of names
\* that last: nothing syncs the directory again after a sync of it that failed,
\* nor after a rename taken back.
FirstStart == ~setup.new /\ count.crashes = 0 /\ count.powerLosses = 0
NamesLast == ~setup.dirFails /\ count.undone = 0
PowerLossKeepsSecuredButForTick ==
    ~(FirstStart /\ NamesLast) \/ (fsync = "always" /\ sync.dir) \/ PowerLossKeepsSecured

\* What a power loss leaves, at whatever moment, never restores a change twice,
\* nor changes out of order: replay takes lines from several journals and a
\* snapshot, and compares their numbers with the snapshot's only.
PowerLossKeepsOrder ==
    up /\ ~NumbersMayClash => \A i \in DOMAIN dirs, cut \in Cuts :
             LET state == Replayed(dirs[i], cut)
             IN  \A j, k \in DOMAIN state : j < k => state[j] < state[k]

\* With "always", what a power loss leaves, at whatever moment, restores no
\* change without the ones made before it: "never has a hole in it".
PowerLossLeavesNoHole ==
    up /\ fsync = "always" =>
        \A i \in DOMAIN dirs, cut \in Cuts : IsPrefix(Replayed(dirs[i], cut), mem)

\* What a power loss leaves is a history that was, in its order, with "always"
\* one without a hole.
PowerLossRestoresHistory == PowerLossKeepsOrder /\ PowerLossLeavesNoHole

\* While lines may be off the disk after a failed sync, a snapshot that writes
\* the state again is due, or on its way.
FailedSyncIsMadeGood == up /\ Lossy => resnapshot \/ writing

\* The same, as long as no snapshot fails, for then no other is due, nor a sync
\* of the directory that has it, and the process lives, for a restart takes what
\* it reads for synced.
FailedSyncIsMadeGoodIfWritten ==
    count.snapshotFailures > 0 \/ setup.dirFails \/ count.crashes > 0 \/ FailedSyncIsMadeGood
=============================================================================
