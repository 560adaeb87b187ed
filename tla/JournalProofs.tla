---------------------------- MODULE JournalProofs ----------------------------
(***************************************************************************)
(* What a restart finds, proved for any servers and any number of changes, *)
(* rewrites and failures of each kind: the four properties of Journal that *)
(* its run checks, where the directory's names last: none that was synced  *)
(* is lost, nor a rename taken back.                                       *)
(*                                                                         *)
(* Shape is what the variables are.  MadeGood says which journals a failed *)
(* sync has put at risk, and what covers them.  History says in what order *)
(* the journals a directory names are written and numbered, and that what  *)
(* they and the snapshot hold is the store, or a moment of it before.      *)
(* Guarded follows a change from the lock to the disk.                     *)
(***************************************************************************)
EXTENDS Journal, Facts

Line == [s : Nat, e : Nat]
FileType == [lines : Seq(Line), synced : Nat, bad : BOOLEAN]
DirType == [active : Nat, rotated : Maps(Nat, Nat), snapshot : [seq : Nat, state : Seq(Nat)]]
SnapType == [stage : {"none", "renaming", "taken", "synced", "landed", "deleting"},
             seq : Nat, state : Seq(Nat), covered : SUBSET Nat]
SyncType == [running : BOOLEAN, retired : Seq(Nat), dir : BOOLEAN, file : Nat]
CountType == [changes : Nat, rewrites : Nat, crashes : Nat, powerLosses : Nat,
              syncFailures : Nat, snapshotFailures : Nat, undone : Nat]

\* What the proofs assume: no sync of the directory fails unnoticed, and the fresh
\* journal can be renamed.
NamesAlwaysLast == \A s \in Setups : ~s.dirFails /\ s.undone = 0

\* The files a directory names are there, and each has one name.
Named(d, top) ==
    /\ d.active \in 0 .. top
    /\ \A n \in DOMAIN d.rotated : d.rotated[n] \in 1 .. top /\ d.rotated[n] # d.active
    /\ \A n, m \in DOMAIN d.rotated : d.rotated[n] = d.rotated[m] => n = m

\* What the variables are.
Types ==
    /\ setup \in Setups /\ ~setup.dirFails /\ setup.undone = 0
    /\ files \in Seq(FileType)
    /\ dirs \in Seq(DirType) /\ dirs # <<>>
    /\ up \in BOOLEAN /\ mem \in Seq(Nat) /\ seq \in Nat
    /\ dirty \in BOOLEAN /\ dir_unsynced \in BOOLEAN
    /\ retired \in Seq(Nat) /\ unsynced \in BOOLEAN /\ resnapshot \in BOOLEAN
    /\ writing \in BOOLEAN /\ snap \in SnapType /\ sync \in SyncType
    /\ secured \in Seq(Nat) /\ covering \in Seq(Nat)
    /\ count \in CountType

\* What is durable of a file is of the file.
FilesFit == \A f \in DOMAIN files : files[f].synced <= Len(files[f].lines)

\* No directory has the current journal set aside.
DirsFit ==
    /\ \A d \in Range(dirs) : Named(d, Len(files))
    /\ Dir.active # NoFile =>
          \A d \in Range(dirs) : \A n \in DOMAIN d.rotated : d.rotated[n] # Dir.active

\* Only in the middle of the renames is there no current journal.
StagesFit ==
    /\ writing <=> snap.stage # "none"
    /\ up \/ (~writing /\ sync = NoSync)
    /\ up \/ count.crashes + count.powerLosses > 0
    /\ up /\ snap.stage # "renaming" => Dir.active # NoFile
    /\ snap.stage = "renaming" => seq \in DOMAIN Dir.rotated /\ snap.seq = seq
    /\ ~sync.running => sync = NoSync

Shape == Types /\ FilesFit /\ DirsFit /\ StagesFit
-----------------------------------------------------------------------------
(***************************************************************************)
(* Failed syncs.                                                           *)
(***************************************************************************)
\* A file whose lines a failed sync may have lost, or may yet.
AtRisk(f) == files[f].bad \/ f \in Range(retired) \/ f \in Range(sync.retired) \/ f = sync.file

\* No snapshot was given up and the process did not crash: those set aside are
\* under a number the snapshot on its way covers, and what takes new lines is
\* sound unless a snapshot is due.
MadeGood ==
    count.snapshotFailures = 0 /\ count.crashes = 0 =>
        /\ ~up => \A f \in DOMAIN files : ~files[f].bad
        /\ up => \A n \in DOMAIN Dir.rotated :
                    AtRisk(Dir.rotated[n]) => n <= seq /\ (writing => n <= snap.seq)
        /\ snap.stage \in {"taken", "synced", "landed", "deleting"} /\ ~resnapshot =>
              ~files[Dir.active].bad
        /\ snap.stage \in {"landed", "deleting"} => Dir.snapshot.seq = snap.seq
        /\ up /\ Lossy => resnapshot \/ writing
-----------------------------------------------------------------------------
(***************************************************************************)
(* What the directories hold.                                              *)
(***************************************************************************)
written == [f \in DOMAIN files |-> files[f].lines]

\* In a file, both numbers grow.
FileRises(lines) ==
    \A i, j \in DOMAIN lines : i < j => lines[i].s < lines[j].s /\ lines[i].e < lines[j].e

\* From one file to the next, too; the snapshot has what came before them.
Holds(d, w, q) ==
    /\ \A f, g \in Live(d) : Older(d, f, g) =>
          \A i \in DOMAIN w[f], j \in DOMAIN w[g] : w[f][i].s < w[g][j].s /\ w[f][i].e < w[g][j].e
    /\ \A f \in Live(d) : \A i \in DOMAIN w[f] :
          /\ d.snapshot.seq < w[f][i].s /\ w[f][i].s <= q
          /\ \A k \in DOMAIN d.snapshot.state : d.snapshot.state[k] < w[f][i].e
    /\ \A n \in DOMAIN d.rotated : \A i \in DOMAIN w[d.rotated[n]] : w[d.rotated[n]][i].s <= n
    /\ d.snapshot.seq <= q
    /\ Rising(d.snapshot.state)

\* A journal set aside ends with the number it is under, and the current one
\* goes on from there.
Numbered(d, w) ==
    \A n \in DOMAIN d.rotated : n > d.snapshot.seq =>
        /\ \E i \in DOMAIN w[d.rotated[n]] : w[d.rotated[n]][i].s = n
        /\ d.active # NoFile => \A i \in DOMAIN w[d.active] : n < w[d.active][i].s

\* The changes a restart would find.
Stored(d, w) ==
    Range(d.snapshot.state)
        \cup UNION {{w[f][i].e : i \in DOMAIN w[f]} : f \in Live(d)}

\* It finds the store.
Exact(d, w, m, q) ==
    /\ Stored(d, w) = Range(m)
    /\ q = d.snapshot.seq \/ \E f \in Live(d) : \E i \in DOMAIN w[f] : w[f][i].s = q

\* It finds the store as it was before some change.
Earlier(d, w, m) ==
    /\ Stored(d, w) \subseteq Range(m)
    /\ \A x \in Stored(d, w), y \in Range(m) : y < x => y \in Stored(d, w)

Calm == count.powerLosses = 0 \/ fsync = "always"
Sane == Calm \/ count.rewrites <= 1

\* With "always" nothing waits for a tick.
AlwaysOnDisk ==
    fsync = "always" =>
        /\ \A f \in DOMAIN files : ~files[f].bad /\ files[f].synced = Len(files[f].lines)
        /\ ~dirty /\ retired = <<>> /\ sync.retired = <<>> /\ sync.file = NoFile

\* The numbers that have been given.
Bounds ==
    /\ \A f \in DOMAIN files : \A i \in DOMAIN files[f].lines : files[f].lines[i].e <= count.changes
    /\ \A i \in DOMAIN mem : mem[i] <= count.changes
    /\ \A i \in DOMAIN snap.state : snap.state[i] <= count.changes
    /\ \A d \in Range(dirs) : \A i \in DOMAIN d.snapshot.state : d.snapshot.state[i] <= count.changes

Orders ==
    /\ \A f \in DOMAIN files : FileRises(files[f].lines)
    /\ \A d \in Range(dirs) : Holds(d, written, seq)
    /\ Calm => \A d \in Range(dirs) : Numbered(d, written)
    /\ count.rewrites = 0 => \A d \in Range(dirs) : DOMAIN d.rotated = {}
    /\ Rising(mem)

Agrees ==
    up \/ Len(dirs) # 1 =>
        /\ \A d \in Range(dirs) : d = Dir \/ (Dir.active # NoFile /\ d.active = Dir.active) => Exact(d, written, mem, seq)
        /\ \A d \in Range(dirs) : Earlier(d, written, mem)

\* A snapshot on its way has what the journal before the current one had.
OnItsWay ==
    writing =>
        /\ Rising(snap.state)
        /\ snap.seq <= seq /\ Dir.snapshot.seq <= snap.seq
        /\ \A n \in DOMAIN Dir.rotated : n <= snap.seq
        /\ \A i \in DOMAIN snap.state : snap.state[i] \in Range(mem)
        /\ snap.stage = "renaming" =>
              snap.state = mem /\ (Dir.active # NoFile => written[Dir.active] = <<>>)
        /\ snap.stage # "renaming" =>
              /\ \A i \in DOMAIN written[Dir.active] :
                    /\ snap.seq < written[Dir.active][i].s
                    /\ \A k \in DOMAIN snap.state : snap.state[k] < written[Dir.active][i].e
              /\ Range(mem) = Range(snap.state)
                     \cup {written[Dir.active][i].e : i \in DOMAIN written[Dir.active]}
              /\ seq = snap.seq \/ \E i \in DOMAIN written[Dir.active] : written[Dir.active][i].s = seq

\* Once it has landed it is the one a restart reads, and what it covers may go.
Covered ==
    /\ snap.stage \in {"synced", "landed", "deleting"} => \A n \in snap.covered : n <= snap.seq
    /\ snap.stage \in {"landed", "deleting"} =>
          Dir.snapshot = [seq |-> snap.seq, state |-> snap.state]

Sound == Orders /\ Agrees /\ OnItsWay

History == AlwaysOnDisk /\ Bounds /\ Covered /\ (Sane => Sound)
-----------------------------------------------------------------------------
(***************************************************************************)
(* What is safe from a power loss.                                         *)
(***************************************************************************)
\* A change is on the disk under d, whatever the power loss takes; or will be,
\* once what waits is synced, unless a sync has failed.
Safe(d, fs, x) ==
    \/ x \in Range(d.snapshot.state)
    \/ \E f \in Live(d) : \E i \in DOMAIN fs[f].lines :
          fs[f].lines[i].e = x /\ i <= fs[f].synced

SafeOnce(d, fs, x, pending) ==
    \/ x \in Range(d.snapshot.state)
    \/ \E f \in Live(d) : \E i \in DOMAIN fs[f].lines :
          fs[f].lines[i].e = x /\ (i <= fs[f].synced \/ fs[f].bad \/ f \in pending)

Current == IF Dir.active # NoFile THEN Dir.active ELSE Dir.rotated[seq]
SyncPending == Range(sync.retired) \cup {sync.file}
Pending == SyncPending \cup Range(retired) \cup (IF dirty THEN {Current} ELSE {})

Guarded ==
    FirstStart /\ fsync # "never" =>
        /\ \A x \in Range(secured), d \in Range(dirs) :
              d = Dir \/ ~(fsync = "always" /\ sync.dir) => Safe(d, files, x)
        /\ sync.running => \A x \in Range(covering), d \in Range(dirs) :
              d = Dir \/ ~sync.dir => SafeOnce(d, files, x, SyncPending)
        /\ \A x \in Range(mem), d \in Range(dirs) :
              d = Dir \/ ~(sync.dir \/ dir_unsynced) => SafeOnce(d, files, x, Pending)
        /\ snap.stage # "renaming" /\ ~dir_unsynced /\ ~sync.dir =>
              \A d \in Range(dirs) : d.active = Dir.active
NeverSecured == fsync = "never" => secured = <<>> /\ ~sync.running
-----------------------------------------------------------------------------
(***************************************************************************)
(* The directory and the files.                                            *)
(***************************************************************************)
\* The names of the types, for the proofs to leave closed.
LEMMA RangeFact == \A s, x : x \in Range(s) <=> \E i \in DOMAIN s : s[i] = x
  BY DEF Range

\* The directory is the last of those it was.
LEMMA DirIs ==
    ASSUME Types
    PROVE  Dir = dirs[Len(dirs)] /\ Len(dirs) \in Nat \ {0} /\ Dir \in DirType /\ Dir \in Range(dirs)
<1>1. dirs \in Seq(DirType) /\ dirs # <<>>
  BY DEF Types
<1>2. Len(dirs) \in Nat \ {0}
  BY <1>1, EmptySeq, LenProperties
<1> QED BY <1>1, <1>2, RangeFact DEF Dir, Last

\* Every one of them is a directory.
LEMMA DirsAre ==
    ASSUME Types, NEW d \in Range(dirs)
    PROVE  d \in DirType
BY RangeFact DEF Types

\* What an operation on the directory makes of it.
LEMMA OperationIs ==
    ASSUME Types, NEW d \in DirType, dirs' = Append(dirs, d)
    PROVE  /\ dirs' \in Seq(DirType) /\ dirs' # <<>>
           /\ Dir' = d
           /\ Range(dirs') = Range(dirs) \cup {d}
<1>1. dirs \in Seq(DirType)
  BY DEF Types
<1> HIDE DEF DirType
<1>2. /\ Append(dirs, d) \in Seq(DirType) /\ Append(dirs, d) # <<>>
      /\ Len(Append(dirs, d)) = Len(dirs) + 1
      /\ \A i \in 1 .. Len(dirs) : Append(dirs, d)[i] = dirs[i]
      /\ Append(dirs, d)[Len(dirs) + 1] = d
  BY <1>1, AppendProperties
<1>3. Len(dirs) \in Nat /\ DOMAIN dirs = 1 .. Len(dirs)
  BY <1>1
<1>4. DOMAIN dirs' = 1 .. Len(dirs) + 1 /\ Len(dirs') = Len(dirs) + 1
  BY <1>2
<1>5. Dir' = d
  BY <1>2, <1>4 DEF Dir, Last
<1>6. Range(dirs') \subseteq Range(dirs) \cup {d}
  <2> SUFFICES ASSUME NEW i \in 1 .. Len(dirs) + 1 PROVE dirs'[i] \in Range(dirs) \cup {d}
    BY <1>4, RangeFact
  <2>1. CASE i = Len(dirs) + 1
    BY <1>2, <2>1
  <2>2. CASE i # Len(dirs) + 1
    <3>1. i \in 1 .. Len(dirs)
      BY <1>3, <2>2
    <3> QED BY <1>2, <1>3, <3>1, RangeFact
  <2> QED BY <2>1, <2>2
<1>7. d \in Range(dirs')
  <2>1. Len(dirs) + 1 \in DOMAIN dirs' /\ dirs'[Len(dirs) + 1] = d
    BY <1>2, <1>3, <1>4
  <2> QED BY <2>1 DEF Range
<1>8. ASSUME NEW i \in 1 .. Len(dirs) PROVE dirs[i] \in Range(dirs')
  <2>1. i \in DOMAIN dirs' /\ dirs'[i] = dirs[i]
    BY <1>2, <1>3, <1>4
  <2> QED BY <2>1 DEF Range
<1> QED BY <1>2, <1>3, <1>5, <1>6, <1>7, <1>8, RangeFact

\* Syncing it leaves the last.
LEMMA SyncDirIs ==
    ASSUME Types, SyncDir
    PROVE  /\ dirs' \in Seq(DirType) /\ dirs' # <<>>
           /\ Dir' = Dir
           /\ Range(dirs') = {Dir}
<1>1. Dir \in DirType
  BY DirIs
<1>2. dirs' = <<Dir>>
  BY DEF SyncDir, Types
<1> DEFINE D == Dir
<1> HIDE DEF DirType, D
<1>3. <<D>> \in Seq(DirType) /\ <<D>> # <<>> /\ Last(<<D>>) = D /\ Range(<<D>>) = {D}
  <2>1. D \in DirType
    BY <1>1 DEF D
  <2>2. DOMAIN <<D>> = {1} /\ <<D>>[1] = D /\ Len(<<D>>) = 1
    OBVIOUS
  <2>3. Range(<<D>>) = {D}
    BY <2>2 DEF Range
  <2> QED BY <2>1, <2>2, <2>3 DEF Last
<1>4. dirs' = <<D>> /\ Dir' = Last(dirs')
  BY <1>2 DEF D, Dir
<1> QED BY <1>3, <1>4 DEF D

\* What fsync makes of a file.
LEMMA SyncedIs ==
    ASSUME NEW file \in FileType, file.synced <= Len(file.lines)
    PROVE  /\ Synced(file) \in FileType
           /\ Synced(file).lines = file.lines /\ Synced(file).bad = file.bad
           /\ Synced(file).synced = IF file.bad THEN file.synced ELSE Len(file.lines)
<1>1. file.lines \in Seq(Line) /\ Len(file.lines) \in Nat /\ file.synced \in Nat /\ file.bad \in BOOLEAN
  BY DEF FileType
<1> QED BY <1>1 DEF FileType, Synced

\* The lines of the files stay, and so does what is durable of them.
Kept ==
    /\ files' \in Seq(FileType) /\ Len(files') = Len(files)
    /\ \A f \in DOMAIN files :
          /\ files'[f].lines = files[f].lines
          /\ files[f].synced <= files'[f].synced /\ files'[f].synced <= Len(files[f].lines)

\* So it is when some are synced, and some are found bad.
LEMMA KeptSome ==
    ASSUME Shape, NEW S, NEW T,
           files' = [f \in DOMAIN files |->
                        IF f \in S THEN Synced(files[f])
                        ELSE IF f \in T THEN [files[f] EXCEPT !.bad = TRUE] ELSE files[f]]
    PROVE  Kept
<1>1. files \in Seq(FileType) /\ \A f \in DOMAIN files : files[f].synced <= Len(files[f].lines)
  BY DEF Shape, Types, FilesFit
<1>2. DOMAIN files = 1 .. Len(files) /\ Len(files) \in Nat
  BY <1>1
<1>3. ASSUME NEW f \in DOMAIN files
      PROVE  /\ files'[f] \in FileType
             /\ files'[f].lines = files[f].lines
             /\ files[f].synced <= files'[f].synced /\ files'[f].synced <= Len(files[f].lines)
  <2>1. files[f] \in FileType /\ files[f].synced <= Len(files[f].lines)
    BY <1>1
  <2>2. files[f].synced \in Nat /\ Len(files[f].lines) \in Nat /\ files[f].bad \in BOOLEAN
    BY <2>1 DEF FileType
  <2>3. CASE f \in S
    <3>1. files'[f] = Synced(files[f])
      BY <2>3
    <3>2. /\ Synced(files[f]) \in FileType /\ Synced(files[f]).lines = files[f].lines
          /\ Synced(files[f]).synced = IF files[f].bad THEN files[f].synced ELSE Len(files[f].lines)
      BY <2>1, SyncedIs
    <3>3. files[f].synced <= Synced(files[f]).synced /\ Synced(files[f]).synced <= Len(files[f].lines)
      BY <2>1, <2>2, <3>2
    <3> QED BY <3>1, <3>2, <3>3
  <2>4. CASE f \notin S /\ f \in T
    <3>1. files'[f] = [files[f] EXCEPT !.bad = TRUE]
      BY <2>4
    <3> DEFINE g == [files[f] EXCEPT !.bad = TRUE]
    <3>2. g \in FileType
      BY <2>1 DEF FileType
    <3>3. g.lines = files[f].lines /\ g.synced = files[f].synced
      BY <2>1 DEF FileType
    <3> HIDE DEF g
    <3>4. files'[f] = g
      BY <3>1 DEF g
    <3>5. files[f].synced <= g.synced /\ g.synced <= Len(files[f].lines)
      BY <2>1, <2>2, <3>3
    <3> QED BY <3>2, <3>3, <3>4, <3>5
  <2>5. CASE f \notin S /\ f \notin T
    <3>1. files'[f] = files[f]
      BY <2>5
    <3>2. files[f].synced <= files[f].synced
      BY <2>2
    <3> QED BY <2>1, <3>1, <3>2
  <2> QED BY <2>3, <2>4, <2>5
<1>4. DOMAIN files' = 1 .. Len(files)
  BY <1>2
<1>5. \A f \in 1 .. Len(files) : files'[f] \in FileType
  BY <1>2, <1>3
<1>6. files' \in [1 .. Len(files) -> FileType]
  <2>1. files' = [f \in 1 .. Len(files) |-> files'[f]]
    BY <1>2
  <2> HIDE DEF FileType
  <2> QED BY <1>5, <2>1
<1>7. files' \in Seq(FileType) /\ Len(files') = Len(files)
  <2> HIDE DEF FileType
  <2> QED BY <1>2, <1>6, IsASeq, LenProperties
<1> QED BY <1>3, <1>7 DEF Kept

\* Some are synced.
LEMMA KeptSynced ==
    ASSUME Shape, NEW S,
           files' = [f \in DOMAIN files |-> IF f \in S THEN Synced(files[f]) ELSE files[f]]
    PROVE  Kept
<1> DEFINE T == {}
<1>1. \A f : f \notin T
  OBVIOUS
<1> HIDE DEF T
<1>2. files' = [f \in DOMAIN files |->
                   IF f \in S THEN Synced(files[f])
                   ELSE IF f \in T THEN [files[f] EXCEPT !.bad = TRUE] ELSE files[f]]
  BY <1>1
<1> QED BY <1>2, KeptSome

\* Or when nothing happens to them.
LEMMA KeptAll ==
    ASSUME Shape, files' = files
    PROVE  Kept
<1>1. files \in Seq(FileType) /\ \A f \in DOMAIN files : files[f].synced <= Len(files[f].lines)
  BY DEF Shape, Types, FilesFit
<1>2. ASSUME NEW f \in DOMAIN files PROVE files[f].synced \in Nat
  <2>1. files[f] \in FileType
    BY <1>1
  <2> QED BY <2>1 DEF FileType
<1> QED BY <1>1, <1>2 DEF Kept
\* A rewrite is counted.
LEMMA CountRewrites ==
    ASSUME Types, count' = [count EXCEPT !.rewrites = @ + 1]
    PROVE  /\ count' \in CountType
           /\ count'.rewrites = count.rewrites + 1
           /\ count'.changes = count.changes
           /\ count'.crashes = count.crashes
           /\ count'.powerLosses = count.powerLosses
           /\ count'.syncFailures = count.syncFailures
           /\ count'.snapshotFailures = count.snapshotFailures
<1>1. count \in CountType /\ count.rewrites \in Nat
  BY DEF Types, CountType
<1> DEFINE n == count.rewrites + 1
<1>2. n \in Nat /\ count' = [count EXCEPT !.rewrites = n]
  BY <1>1
<1> HIDE DEF n
<1>3. count' \in CountType
  BY <1>1, <1>2 DEF CountType
<1>4. count'.rewrites = n
  BY <1>1, <1>2 DEF CountType
<1>5. count'.changes = count.changes
  BY <1>1, <1>2 DEF CountType
<1>6. count'.crashes = count.crashes
  BY <1>1, <1>2 DEF CountType
<1>7. count'.powerLosses = count.powerLosses
  BY <1>1, <1>2 DEF CountType
<1>8. count'.syncFailures = count.syncFailures
  BY <1>1, <1>2 DEF CountType
<1>9. count'.snapshotFailures = count.snapshotFailures
  BY <1>1, <1>2 DEF CountType
<1> QED BY <1>3, <1>4, <1>5, <1>6, <1>7, <1>8, <1>9 DEF n

\* A sync that fails is.
LEMMA CountSyncFailures ==
    ASSUME Types, count' = [count EXCEPT !.syncFailures = @ + 1]
    PROVE  /\ count' \in CountType
           /\ count'.syncFailures = count.syncFailures + 1
           /\ count'.changes = count.changes
           /\ count'.rewrites = count.rewrites
           /\ count'.crashes = count.crashes
           /\ count'.powerLosses = count.powerLosses
           /\ count'.snapshotFailures = count.snapshotFailures
<1>1. count \in CountType /\ count.syncFailures \in Nat
  BY DEF Types, CountType
<1> DEFINE n == count.syncFailures + 1
<1>2. n \in Nat /\ count' = [count EXCEPT !.syncFailures = n]
  BY <1>1
<1> HIDE DEF n
<1>3. count' \in CountType
  BY <1>1, <1>2 DEF CountType
<1>4. count'.syncFailures = n
  BY <1>1, <1>2 DEF CountType
<1>5. count'.changes = count.changes
  BY <1>1, <1>2 DEF CountType
<1>6. count'.rewrites = count.rewrites
  BY <1>1, <1>2 DEF CountType
<1>7. count'.crashes = count.crashes
  BY <1>1, <1>2 DEF CountType
<1>8. count'.powerLosses = count.powerLosses
  BY <1>1, <1>2 DEF CountType
<1>9. count'.snapshotFailures = count.snapshotFailures
  BY <1>1, <1>2 DEF CountType
<1> QED BY <1>3, <1>4, <1>5, <1>6, <1>7, <1>8, <1>9 DEF n

\* A snapshot that is given up is.
LEMMA CountSnapshotFailures ==
    ASSUME Types, count' = [count EXCEPT !.snapshotFailures = @ + 1]
    PROVE  /\ count' \in CountType
           /\ count'.snapshotFailures = count.snapshotFailures + 1
           /\ count'.changes = count.changes
           /\ count'.rewrites = count.rewrites
           /\ count'.crashes = count.crashes
           /\ count'.powerLosses = count.powerLosses
           /\ count'.syncFailures = count.syncFailures
<1>1. count \in CountType /\ count.snapshotFailures \in Nat
  BY DEF Types, CountType
<1> DEFINE n == count.snapshotFailures + 1
<1>2. n \in Nat /\ count' = [count EXCEPT !.snapshotFailures = n]
  BY <1>1
<1> HIDE DEF n
<1>3. count' \in CountType
  BY <1>1, <1>2 DEF CountType
<1>4. count'.snapshotFailures = n
  BY <1>1, <1>2 DEF CountType
<1>5. count'.changes = count.changes
  BY <1>1, <1>2 DEF CountType
<1>6. count'.rewrites = count.rewrites
  BY <1>1, <1>2 DEF CountType
<1>7. count'.crashes = count.crashes
  BY <1>1, <1>2 DEF CountType
<1>8. count'.powerLosses = count.powerLosses
  BY <1>1, <1>2 DEF CountType
<1>9. count'.syncFailures = count.syncFailures
  BY <1>1, <1>2 DEF CountType
<1> QED BY <1>3, <1>4, <1>5, <1>6, <1>7, <1>8, <1>9 DEF n

\* A crash is.
LEMMA CountCrashes ==
    ASSUME Types, count' = [count EXCEPT !.crashes = @ + 1]
    PROVE  /\ count' \in CountType
           /\ count'.crashes = count.crashes + 1
           /\ count'.changes = count.changes
           /\ count'.rewrites = count.rewrites
           /\ count'.powerLosses = count.powerLosses
           /\ count'.syncFailures = count.syncFailures
           /\ count'.snapshotFailures = count.snapshotFailures
<1>1. count \in CountType /\ count.crashes \in Nat
  BY DEF Types, CountType
<1> DEFINE n == count.crashes + 1
<1>2. n \in Nat /\ count' = [count EXCEPT !.crashes = n]
  BY <1>1
<1> HIDE DEF n
<1>3. count' \in CountType
  BY <1>1, <1>2 DEF CountType
<1>4. count'.crashes = n
  BY <1>1, <1>2 DEF CountType
<1>5. count'.changes = count.changes
  BY <1>1, <1>2 DEF CountType
<1>6. count'.rewrites = count.rewrites
  BY <1>1, <1>2 DEF CountType
<1>7. count'.powerLosses = count.powerLosses
  BY <1>1, <1>2 DEF CountType
<1>8. count'.syncFailures = count.syncFailures
  BY <1>1, <1>2 DEF CountType
<1>9. count'.snapshotFailures = count.snapshotFailures
  BY <1>1, <1>2 DEF CountType
<1> QED BY <1>3, <1>4, <1>5, <1>6, <1>7, <1>8, <1>9 DEF n

\* A power loss is.
LEMMA CountPowerLosses ==
    ASSUME Types, count' = [count EXCEPT !.powerLosses = @ + 1]
    PROVE  /\ count' \in CountType
           /\ count'.powerLosses = count.powerLosses + 1
           /\ count'.changes = count.changes
           /\ count'.rewrites = count.rewrites
           /\ count'.crashes = count.crashes
           /\ count'.syncFailures = count.syncFailures
           /\ count'.snapshotFailures = count.snapshotFailures
<1>1. count \in CountType /\ count.powerLosses \in Nat
  BY DEF Types, CountType
<1> DEFINE n == count.powerLosses + 1
<1>2. n \in Nat /\ count' = [count EXCEPT !.powerLosses = n]
  BY <1>1
<1> HIDE DEF n
<1>3. count' \in CountType
  BY <1>1, <1>2 DEF CountType
<1>4. count'.powerLosses = n
  BY <1>1, <1>2 DEF CountType
<1>5. count'.changes = count.changes
  BY <1>1, <1>2 DEF CountType
<1>6. count'.rewrites = count.rewrites
  BY <1>1, <1>2 DEF CountType
<1>7. count'.crashes = count.crashes
  BY <1>1, <1>2 DEF CountType
<1>8. count'.syncFailures = count.syncFailures
  BY <1>1, <1>2 DEF CountType
<1>9. count'.snapshotFailures = count.snapshotFailures
  BY <1>1, <1>2 DEF CountType
<1> QED BY <1>3, <1>4, <1>5, <1>6, <1>7, <1>8, <1>9 DEF n

-----------------------------------------------------------------------------
(***************************************************************************)
(* Reading the journals.                                                   *)
(***************************************************************************)
\* A directory to read, and how many lines of each file.
Readable(d, kept) ==
    /\ d \in DirType /\ Named(d, Len(files)) /\ files \in Seq(FileType)
    /\ kept \in [DOMAIN files -> Nat]
    /\ \A f \in DOMAIN files : kept[f] <= Len(files[f].lines)

\* The files to read are some of those there are: each has a number, or is
\* the current journal.
LEMMA LiveIs ==
    ASSUME NEW d \in DirType, NEW top \in Nat, Named(d, top)
    PROVE  /\ Live(d) \subseteq 1 .. top
           /\ \A f : f \in Live(d) <=>
                 f # NoFile /\ (f = d.active \/ \E n \in DOMAIN d.rotated : n > d.snapshot.seq /\ d.rotated[n] = f)
<1>1. \A f : f \in Live(d) <=>
          f # NoFile /\ (f = d.active \/ \E n \in DOMAIN d.rotated : n > d.snapshot.seq /\ d.rotated[n] = f)
  BY DEF Live
<1>2. ASSUME NEW f \in Live(d) PROVE f \in 1 .. top
  <2>1. f # NoFile /\ (f = d.active \/ \E n \in DOMAIN d.rotated : d.rotated[n] = f)
    BY <1>1
  <2> QED BY <2>1 DEF Named, NoFile
<1> QED BY <1>1, <1>2

\* Of two files to read one is the older.
LEMMA OlderIs ==
    ASSUME NEW d \in DirType, NEW top \in Nat, Named(d, top)
    PROVE  /\ \A f \in Live(d) : ~Older(d, f, f)
           /\ \A f, g, h \in Live(d) : Older(d, f, g) /\ Older(d, g, h) => Older(d, f, h)
           /\ \A f, g \in Live(d) : f # g => Older(d, f, g) \/ Older(d, g, f)
           /\ \A f, g \in Live(d) : Older(d, f, g) => f # d.active
<1>1. /\ \A n \in DOMAIN d.rotated : n \in Nat /\ d.rotated[n] # d.active
      /\ \A n, m \in DOMAIN d.rotated : d.rotated[n] = d.rotated[m] => n = m
  <2>1. DOMAIN d.rotated \subseteq Nat
    BY MapsFact DEF DirType
  <2> QED BY <2>1 DEF Named
<1>2. \A f \in Live(d) : f # d.active => \E n \in DOMAIN d.rotated : d.rotated[n] = f
  BY LiveIs
<1>3. ASSUME NEW f \in Live(d), NEW g \in Live(d), Older(d, f, g) PROVE f # d.active /\ f # g
  BY <1>1, <1>3 DEF Older
<1>4. ASSUME NEW f \in Live(d), NEW g \in Live(d), NEW h \in Live(d), Older(d, f, g), Older(d, g, h)
      PROVE  Older(d, f, h)
  <2>1. f # d.active /\ g # d.active
    BY <1>3, <1>4
  <2>2. CASE h = d.active
    BY <2>1, <2>2 DEF Older
  <2>3. CASE h # d.active
    <3>1. PICK n \in DOMAIN d.rotated, m \in DOMAIN d.rotated : n < m /\ d.rotated[n] = f /\ d.rotated[m] = g
      BY <1>4, <2>1 DEF Older
    <3>2. PICK k \in DOMAIN d.rotated, l \in DOMAIN d.rotated : k < l /\ d.rotated[k] = g /\ d.rotated[l] = h
      BY <1>4, <2>3 DEF Older
    <3>3. m = k
      BY <1>1, <3>1, <3>2
    <3>4. n < l
      BY <1>1, <3>1, <3>2, <3>3
    <3> QED BY <2>3, <3>1, <3>2, <3>4 DEF Older
  <2> QED BY <2>2, <2>3
<1>5. ASSUME NEW f \in Live(d), NEW g \in Live(d), f # g PROVE Older(d, f, g) \/ Older(d, g, f)
  <2>1. CASE f = d.active \/ g = d.active
    BY <1>5, <2>1 DEF Older
  <2>2. CASE f # d.active /\ g # d.active
    <3>1. PICK n \in DOMAIN d.rotated : d.rotated[n] = f
      BY <1>2, <2>2
    <3>2. PICK m \in DOMAIN d.rotated : d.rotated[m] = g
      BY <1>2, <2>2
    <3>3. n < m \/ m < n
      BY <1>1, <1>5, <3>1, <3>2
    <3> QED BY <2>2, <3>1, <3>2, <3>3 DEF Older
  <2> QED BY <2>1, <2>2
<1> QED BY <1>3, <1>4, <1>5

\* The places of the lines to replay are so many.
LEMMA PlacesAre ==
    ASSUME NEW d, NEW kept, Readable(d, kept)
    PROVE  /\ IsFiniteSet(Places(d, kept))
           /\ \A p \in Places(d, kept) :
                 /\ p = <<p[1], p[2]>> /\ p[1] \in Live(d) /\ p[1] \in DOMAIN files
                 /\ p[2] \in 1 .. kept[p[1]] /\ p[2] \in DOMAIN files[p[1]].lines
                 /\ files[p[1]].lines[p[2]] \in Line
                 /\ files[p[1]].lines[p[2]].s > d.snapshot.seq
           /\ \A f \in Live(d) : \A i \in 1 .. kept[f] :
                 files[f].lines[i].s > d.snapshot.seq => <<f, i>> \in Places(d, kept)
<1>0. /\ d \in DirType /\ Named(d, Len(files)) /\ files \in Seq(FileType)
      /\ kept \in [DOMAIN files -> Nat]
      /\ \A f \in DOMAIN files : kept[f] <= Len(files[f].lines)
      /\ Len(files) \in Nat /\ DOMAIN files = 1 .. Len(files)
  BY DEF Readable
<1>1. Live(d) \subseteq DOMAIN files
  BY <1>0, LiveIs
<1> DEFINE F == [f \in Live(d) |-> {f} \X (1 .. kept[f])]
           U == UNION {{f} \X (1 .. kept[f]) : f \in Live(d)}
<1>2. IsFiniteSet(U)
  <2>1. IsFiniteSet(Live(d))
    <3>1. IsFiniteSet(1 .. Len(files))
      BY <1>0, FS_Interval
    <3> QED BY <1>0, <1>1, <3>1, FS_Subset
  <2>2. IsFiniteSet({F[f] : f \in DOMAIN F})
    <3>1. IsFiniteSet(DOMAIN F)
      BY <2>1
    <3> HIDE DEF F
    <3> QED BY <3>1, ImageFinite
  <2>3. \A f \in Live(d) : IsFiniteSet({f} \X (1 .. kept[f]))
    <3> SUFFICES ASSUME NEW f \in Live(d) PROVE IsFiniteSet({f} \X (1 .. kept[f]))
      OBVIOUS
    <3>1. kept[f] \in Nat
      BY <1>0, <1>1
    <3>0. \A h \in Nat : IsFiniteSet(1 .. h)
      BY FS_Interval
    <3>2. IsFiniteSet(1 .. kept[f]) /\ IsFiniteSet({f})
      BY <3>0, <3>1, FS_Singleton
    <3> QED BY <3>2, FS_Product
  <2>4. U = UNION {F[f] : f \in DOMAIN F}
    BY Zenon
  <2>5. \A T \in {F[f] : f \in DOMAIN F} : IsFiniteSet(T)
    BY <2>3
  <2> HIDE DEF F, U
  <2> QED BY <2>2, <2>4, <2>5, FS_UNION
<1>3. Places(d, kept) \in SUBSET U
  BY DEF Places
<1>4. IsFiniteSet(Places(d, kept))
  <2> HIDE DEF U
  <2> QED BY <1>2, <1>3, FS_Subset
<1>5. ASSUME NEW p \in Places(d, kept)
      PROVE  /\ p = <<p[1], p[2]>> /\ p[1] \in Live(d) /\ p[1] \in DOMAIN files
             /\ p[2] \in 1 .. kept[p[1]] /\ p[2] \in DOMAIN files[p[1]].lines
             /\ files[p[1]].lines[p[2]] \in Line
             /\ files[p[1]].lines[p[2]].s > d.snapshot.seq
  <2>1. PICK f \in Live(d) : p \in {f} \X (1 .. kept[f])
    BY DEF Places
  <2>2. p = <<p[1], p[2]>> /\ p[1] = f /\ p[2] \in 1 .. kept[f]
    BY <2>1
  <2>3. files[p[1]].lines[p[2]].s > d.snapshot.seq
    BY DEF Places
  <2>4. f \in DOMAIN files /\ files[f] \in FileType /\ kept[f] \in Nat /\ kept[f] <= Len(files[f].lines)
    BY <1>0, <1>1
  <2>5. files[f].lines \in Seq(Line)
    BY <2>4 DEF FileType
  <2> HIDE DEF Line
  <2>6. p[2] \in DOMAIN files[f].lines /\ files[f].lines[p[2]] \in Line
    BY <2>2, <2>4, <2>5
  <2> QED BY <2>2, <2>3, <2>4, <2>6
<1>6. ASSUME NEW f \in Live(d), NEW i \in 1 .. kept[f], files[f].lines[i].s > d.snapshot.seq
      PROVE  <<f, i>> \in Places(d, kept)
  BY <1>6 DEF Places
<1> QED BY <1>4, <1>5, <1>6

\* A way to read them all, in order.
Reads(pl, d, kept) ==
    /\ pl \in [1 .. Cardinality(Places(d, kept)) -> Places(d, kept)]
    /\ \A k, l \in 1 .. Cardinality(Places(d, kept)) : k < l => Before(d, pl[k], pl[l])
    /\ \A p \in Places(d, kept) : \E k \in 1 .. Cardinality(Places(d, kept)) : pl[k] = p
    /\ Lines(d, kept) =
          [k \in 1 .. Cardinality(Places(d, kept)) |-> files[pl[k][1]].lines[pl[k][2]]]

\* There is one: the lines are in the order of their places.
LEMMA LinesAre ==
    ASSUME NEW d, NEW kept, Readable(d, kept)
    PROVE  /\ Cardinality(Places(d, kept)) \in Nat
           /\ \E pl : Reads(pl, d, kept)
<1> DEFINE P == Places(d, kept)
           R == {pq \in P \X P : Before(d, pq[1], pq[2])}
           N == Cardinality(P)
<1>1. IsFiniteSet(P) /\ N \in Nat
  BY PlacesAre, FS_CardinalityType
<1>2. \A p, q \in P : <<p, q>> \in R <=> Before(d, p, q)
  OBVIOUS
<1>3. \A p \in P : p = <<p[1], p[2]>> /\ p[1] \in Live(d) /\ p[2] \in Nat
  <2> SUFFICES ASSUME NEW p \in P PROVE p = <<p[1], p[2]>> /\ p[1] \in Live(d) /\ p[2] \in Nat
    OBVIOUS
  <2>1. p = <<p[1], p[2]>> /\ p[1] \in Live(d) /\ p[1] \in DOMAIN files /\ p[2] \in 1 .. kept[p[1]]
    BY PlacesAre
  <2>2. kept[p[1]] \in Nat
    BY <2>1 DEF Readable
  <2> QED BY <2>1, <2>2
<1>4. /\ \A f \in Live(d) : ~Older(d, f, f)
      /\ \A f, g, h \in Live(d) : Older(d, f, g) /\ Older(d, g, h) => Older(d, f, h)
      /\ \A f, g \in Live(d) : f # g => Older(d, f, g) \/ Older(d, g, f)
  <2>1. d \in DirType /\ Len(files) \in Nat /\ Named(d, Len(files))
    BY DEF Readable
  <2> QED BY <2>1, OlderIs
<1> HIDE DEF P
<1>5. \A p \in P : ~Before(d, p, p)
  BY <1>3 DEF Before
<1>6. ASSUME NEW p \in P, NEW q \in P, NEW r \in P, Before(d, p, q), Before(d, q, r)
      PROVE  Before(d, p, r)
  <2>1. /\ p[1] \in Live(d) /\ q[1] \in Live(d) /\ r[1] \in Live(d)
        /\ p[2] \in Nat /\ q[2] \in Nat /\ r[2] \in Nat
    BY <1>3
  <2>2. CASE p[1] = q[1] /\ q[1] = r[1]
    BY <1>6, <2>1, <2>2 DEF Before
  <2>3. CASE p[1] = q[1] /\ q[1] # r[1]
    BY <1>6, <2>1, <2>3 DEF Before
  <2>4. CASE p[1] # q[1] /\ q[1] = r[1]
    BY <1>6, <2>1, <2>4 DEF Before
  <2>5. CASE p[1] # q[1] /\ q[1] # r[1]
    <3>1. Older(d, p[1], q[1]) /\ Older(d, q[1], r[1])
      BY <1>6, <2>5 DEF Before
    <3>2. Older(d, p[1], r[1])
      BY <1>4, <2>1, <3>1
    <3>3. p[1] # r[1]
      BY <1>4, <2>1, <3>2
    <3> QED BY <3>2, <3>3 DEF Before
  <2> QED BY <2>2, <2>3, <2>4, <2>5
<1>7. ASSUME NEW p \in P, NEW q \in P, p # q
      PROVE  Before(d, p, q) \/ Before(d, q, p)
  <2>1. /\ p[1] \in Live(d) /\ q[1] \in Live(d) /\ p[2] \in Nat /\ q[2] \in Nat
        /\ p[1] # q[1] \/ p[2] # q[2]
    BY <1>3, <1>7
  <2>2. CASE p[1] = q[1]
    BY <2>1, <2>2 DEF Before
  <2>3. CASE p[1] # q[1]
    BY <1>4, <2>1, <2>3 DEF Before
  <2> QED BY <2>2, <2>3
<1>8. /\ \A p \in P : <<p, p>> \notin R
      /\ \A p, q, r \in P : <<p, q>> \in R /\ <<q, r>> \in R => <<p, r>> \in R
      /\ \A p, q \in P : p # q => <<p, q>> \in R \/ <<q, p>> \in R
  <2> HIDE DEF R
  <2> QED BY <1>2, <1>5, <1>6, <1>7
<1>9. \A p \in P : RankIn(P, R, p) = Cardinality({q \in P : Before(d, q, p)})
  <2> SUFFICES ASSUME NEW p \in P PROVE {q \in P : <<q, p>> \in R} = {q \in P : Before(d, q, p)}
    BY DEF RankIn
  <2> HIDE DEF R
  <2> QED BY <1>2
<1> HIDE DEF R
<1>10. /\ \A p \in P : RankIn(P, R, p) \in 0 .. N - 1
       /\ \A p, q \in P : <<p, q>> \in R => RankIn(P, R, p) < RankIn(P, R, q)
       /\ \A k \in 0 .. N - 1 : \E p \in P : RankIn(P, R, p) = k
  BY <1>1, <1>8, RankedBy
<1> DEFINE place(k) == CHOOSE p \in P : Cardinality({q \in P : Before(d, q, p)}) = k - 1
           pl == [k \in 1 .. N |-> place(k)]
<1>11. \A k \in 1 .. N : place(k) \in P /\ RankIn(P, R, place(k)) = k - 1
  <2> SUFFICES ASSUME NEW k \in 1 .. N PROVE place(k) \in P /\ RankIn(P, R, place(k)) = k - 1
    OBVIOUS
  <2>1. k - 1 \in 0 .. N - 1
    BY <1>1
  <2>2. \E p \in P : RankIn(P, R, p) = k - 1
    BY <1>10, <2>1
  <2>3. \E p \in P : Cardinality({q \in P : Before(d, q, p)}) = k - 1
    BY <1>9, <2>2
  <2>4. place(k) \in P /\ Cardinality({q \in P : Before(d, q, place(k))}) = k - 1
    BY <2>3
  <2> HIDE DEF place
  <2> QED BY <1>9, <2>4
<1>12. Lines(d, kept) = [k \in 1 .. N |-> files[place(k)[1]].lines[place(k)[2]]]
  BY DEF Lines, P
<1>13. Lines(d, kept) = [k \in 1 .. N |-> files[pl[k][1]].lines[pl[k][2]]]
  <2>1. \A k \in 1 .. N : pl[k] = place(k)
    OBVIOUS
  <2> HIDE DEF pl, place
  <2> QED BY <1>12, <2>1
<1>14. pl \in [1 .. N -> P] /\ \A k \in 1 .. N : RankIn(P, R, pl[k]) = k - 1
  <2> HIDE DEF place
  <2> QED BY <1>11
<1> HIDE DEF pl, place, N
<1>15. ASSUME NEW k \in 1 .. N, NEW l \in 1 .. N, k < l
       PROVE  Before(d, pl[k], pl[l])
  <2>1. pl[k] \in P /\ pl[l] \in P /\ RankIn(P, R, pl[k]) = k - 1 /\ RankIn(P, R, pl[l]) = l - 1
    BY <1>14
  <2>2. k \in Nat /\ l \in Nat
    BY <1>1
  <2>3. pl[k] # pl[l]
    BY <1>15, <2>1, <2>2
  <2>4. ~Before(d, pl[l], pl[k])
    <3> SUFFICES ASSUME Before(d, pl[l], pl[k]) PROVE FALSE
      OBVIOUS
    <3>1. RankIn(P, R, pl[l]) < RankIn(P, R, pl[k])
      BY <1>2, <1>10, <2>1
    <3> QED BY <1>15, <2>1, <2>2, <3>1
  <2> QED BY <1>7, <2>1, <2>3, <2>4
<1>16. ASSUME NEW p \in P
       PROVE  \E k \in 1 .. N : pl[k] = p
  <2> DEFINE k == RankIn(P, R, p) + 1
  <2>1. RankIn(P, R, p) \in 0 .. N - 1
    BY <1>10 DEF N
  <2>2. k \in 1 .. N /\ k - 1 = RankIn(P, R, p)
    BY <1>1, <2>1
  <2> HIDE DEF k
  <2>3. pl[k] \in P /\ RankIn(P, R, pl[k]) = RankIn(P, R, p)
    BY <1>14, <2>2
  <2>4. RankIn(P, R, p) \in Nat
    BY <1>1, <2>1
  <2>5. ~Before(d, pl[k], p) /\ ~Before(d, p, pl[k])
    <3>1. Before(d, pl[k], p) => RankIn(P, R, pl[k]) < RankIn(P, R, p)
      BY <1>2, <1>10, <2>3
    <3>2. Before(d, p, pl[k]) => RankIn(P, R, p) < RankIn(P, R, pl[k])
      BY <1>2, <1>10, <2>3
    <3> QED BY <2>3, <2>4, <3>1, <3>2
  <2> QED BY <1>7, <2>2, <2>3, <2>5
<1>17. Reads(pl, d, kept)
  BY <1>13, <1>14, <1>15, <1>16 DEF Reads, N, P
<1> QED BY <1>1, <1>17 DEF N, P
\* What is replayed: the snapshot, and the lines after it.
LEMMA ReplayedAre ==
    ASSUME NEW d, NEW kept, Readable(d, kept)
    PROVE  /\ Lines(d, kept) \in Seq(Line)
           /\ [k \in DOMAIN Lines(d, kept) |-> Lines(d, kept)[k].e] \in Seq(Nat)
           /\ Len([k \in DOMAIN Lines(d, kept) |-> Lines(d, kept)[k].e]) = Len(Lines(d, kept))
           /\ Replayed(d, kept) \in Seq(Nat)
           /\ \A x : x \in Range(Replayed(d, kept)) <=>
                 \/ x \in Range(d.snapshot.state)
                 \/ \E p \in Places(d, kept) : files[p[1]].lines[p[2]].e = x
<1> DEFINE P == Places(d, kept)
           N == Cardinality(P)
           L == Lines(d, kept)
<1>1. PICK pl : Reads(pl, d, kept)
  BY LinesAre
<1>2. /\ N \in Nat /\ pl \in [1 .. N -> P]
      /\ \A p \in P : \E k \in 1 .. N : pl[k] = p
      /\ L = [k \in 1 .. N |-> files[pl[k][1]].lines[pl[k][2]]]
  BY <1>1, LinesAre DEF Reads
<1>3. \A p \in P : files[p[1]].lines[p[2]] \in Line
  BY PlacesAre
<1>4. d.snapshot.state \in Seq(Nat)
  BY DEF Readable, DirType
<1> HIDE DEF P, N
<1>5. L \in [1 .. N -> Line]
  <2> HIDE DEF Line, L
  <2> QED BY <1>2, <1>3
<1>6. L \in Seq(Line) /\ Len(L) = N /\ DOMAIN L = 1 .. N
  <2> HIDE DEF Line, L
  <2> QED BY <1>2, <1>5, IsASeq, LenProperties
<1> DEFINE es == [k \in DOMAIN L |-> L[k].e]
<1> HIDE DEF L
<1>7. es \in [1 .. N -> Nat]
  <2>1. \A k \in 1 .. N : L[k].e \in Nat
    BY <1>5 DEF Line
  <2> QED BY <1>6, <2>1
<1>8. es \in Seq(Nat) /\ Len(es) = N /\ DOMAIN es = 1 .. N
  <2> HIDE DEF es
  <2> QED BY <1>2, <1>7, IsASeq, LenProperties
<1>9. Replayed(d, kept) = d.snapshot.state \o es
  BY DEF Replayed, L
<1>10. \A x : x \in Range(es) <=> \E p \in P : files[p[1]].lines[p[2]].e = x
  <2> SUFFICES ASSUME NEW x PROVE x \in Range(es) <=> \E p \in P : files[p[1]].lines[p[2]].e = x
    OBVIOUS
  <2>0. \A k \in 1 .. N : es[k] = files[pl[k][1]].lines[pl[k][2]].e /\ pl[k] \in P
    BY <1>2, <1>6
  <2>1. ASSUME x \in Range(es)
        PROVE  \E p \in P : files[p[1]].lines[p[2]].e = x
    <3>1. PICK k \in 1 .. N : es[k] = x
      BY <1>8, <2>1 DEF Range
    <3> QED BY <2>0, <3>1
  <2>2. ASSUME NEW p \in P, files[p[1]].lines[p[2]].e = x
        PROVE  x \in Range(es)
    <3>1. PICK k \in 1 .. N : pl[k] = p
      BY <1>2
    <3>2. k \in DOMAIN es /\ es[k] = x
      BY <1>8, <2>0, <2>2, <3>1
    <3> HIDE DEF es
    <3> QED BY <3>2 DEF Range
  <2> QED BY <2>1, <2>2
<1> HIDE DEF es
<1>11. Replayed(d, kept) \in Seq(Nat) /\ Range(Replayed(d, kept)) = Range(d.snapshot.state) \cup Range(es)
  BY <1>4, <1>8, <1>9, ConcatProperties, RangeConcatenation
<1> QED BY <1>6, <1>8, <1>10, <1>11 DEF es, L, P

\* And the number it goes on from.
LEMMA ReplayedSeqIs ==
    ASSUME NEW d, NEW kept, Readable(d, kept)
    PROVE  /\ ReplayedSeq(d, kept) \in Nat /\ d.snapshot.seq <= ReplayedSeq(d, kept)
           /\ \A p \in Places(d, kept) : files[p[1]].lines[p[2]].s <= ReplayedSeq(d, kept)
           /\ \/ ReplayedSeq(d, kept) = d.snapshot.seq
              \/ \E p \in Places(d, kept) : files[p[1]].lines[p[2]].s = ReplayedSeq(d, kept)
<1> DEFINE P == Places(d, kept)
           g == [p \in P |-> files[p[1]].lines[p[2]].s]
           S == {d.snapshot.seq} \cup {files[p[1]].lines[p[2]].s : p \in P}
<1>1. d.snapshot.seq \in Nat
  BY DEF Readable, DirType
<1>2. \A p \in P : files[p[1]].lines[p[2]].s \in Nat
  BY PlacesAre DEF Line
<1>3. IsFiniteSet(P)
  BY PlacesAre
<1> HIDE DEF P
<1>4. IsFiniteSet({g[p] : p \in DOMAIN g})
  <2>1. IsFiniteSet(DOMAIN g)
    BY <1>3
  <2> HIDE DEF g
  <2> QED BY <2>1, ImageFinite
<1>5. S = {g[p] : p \in DOMAIN g} \cup {d.snapshot.seq}
  BY Zenon
<1>6. IsFiniteSet(S)
  <2> HIDE DEF S, g
  <2> QED BY <1>4, <1>5, FS_AddElement
<1>7. S \in SUBSET Nat /\ S # {}
  BY <1>1, <1>2
<1>8. Max(S) \in S /\ \A y \in S : y <= Max(S)
  <2> HIDE DEF S
  <2> QED BY <1>6, <1>7, GreatestOfFinite
<1>9. ReplayedSeq(d, kept) = Max(S)
  BY DEF ReplayedSeq, P
<1> DEFINE m == Max(S)
<1>10. /\ m \in S /\ m \in Nat /\ d.snapshot.seq <= m
       /\ \A p \in P : files[p[1]].lines[p[2]].s <= m
  <2>1. d.snapshot.seq \in S /\ \A p \in P : files[p[1]].lines[p[2]].s \in S
    OBVIOUS
  <2> HIDE DEF S
  <2> QED BY <1>7, <1>8, <2>1
<1>11. m = d.snapshot.seq \/ \E p \in P : files[p[1]].lines[p[2]].s = m
  <2> HIDE DEF m
  <2> QED BY <1>10
<1> HIDE DEF m
<1> QED BY <1>9, <1>10, <1>11 DEF m, P

\* All lines may be read.
LEMMA AllReadable ==
    ASSUME Types, NEW d \in Range(dirs), Named(d, Len(files))
    PROVE  Readable(d, AllLines)
<1>1. files \in Seq(FileType) /\ d \in DirType
  BY DirsAre DEF Types
<1>2. \A f \in DOMAIN files : Len(files[f].lines) \in Nat
  <2> SUFFICES ASSUME NEW f \in DOMAIN files PROVE Len(files[f].lines) \in Nat
    OBVIOUS
  <2>1. files[f] \in FileType
    BY <1>1
  <2> QED BY <2>1 DEF FileType
<1>3. AllLines \in [DOMAIN files -> Nat] /\ \A f \in DOMAIN files : AllLines[f] = Len(files[f].lines)
  BY <1>2 DEF AllLines
<1>4. \A f \in DOMAIN files : AllLines[f] <= Len(files[f].lines)
  BY <1>2, <1>3
<1> QED BY <1>1, <1>3, <1>4 DEF Readable
-----------------------------------------------------------------------------
(***************************************************************************)
(* Shape.                                                                  *)
(***************************************************************************)
\* Files that keep their lines fit.
LEMMA KeptFits ==
    ASSUME Shape, Kept
    PROVE  FilesFit'
<1>1. DOMAIN files' = DOMAIN files
  BY DEF Shape, Types, Kept
<1> QED BY <1>1 DEF Kept, FilesFit

\* So do the directories when some are forgotten.
LEMMA DirsStillFit ==
    ASSUME Shape, Range(dirs') \subseteq Range(dirs), Dir' = Dir, Len(files') = Len(files)
    PROVE  DirsFit'
BY DEF Shape, DirsFit, Named

\* And when one is added that names the files the last does.
LEMMA DirsFitOne ==
    ASSUME Shape, NEW d, Range(dirs') = Range(dirs) \cup {d}, Dir' = d,
           Len(files) <= Len(files'), Len(files') \in Nat, Named(d, Len(files')),
           d.active # NoFile => \A c \in Range(dirs) : \A n \in DOMAIN c.rotated : c.rotated[n] # d.active
    PROVE  DirsFit'
<1>1. \A c \in Range(dirs) : Named(c, Len(files))
  BY DEF Shape, DirsFit
<1>2. Len(files) \in Nat
  BY DEF Shape, Types
<1>3. \A c \in Range(dirs) : Named(c, Len(files'))
  <2> SUFFICES ASSUME NEW c \in Range(dirs) PROVE Named(c, Len(files'))
    OBVIOUS
  <2>1. Named(c, Len(files))
    BY <1>1
  <2>2. \A x \in 0 .. Len(files) : x \in 0 .. Len(files')
    BY <1>2
  <2>3. \A x \in 1 .. Len(files) : x \in 1 .. Len(files')
    BY <1>2
  <2> QED BY <2>1, <2>2, <2>3 DEF Named
<1>4. \A c \in Range(dirs') : Named(c, Len(files'))
  BY <1>3
<1>5. d.active # NoFile => \A c \in Range(dirs') : \A n \in DOMAIN c.rotated : c.rotated[n] # d.active
  BY DEF Named
<1> QED BY <1>4, <1>5 DEF DirsFit

\* The first state.
LEMMA ShapeInit == ASSUME NamesAlwaysLast PROVE Init => Shape
<1> SUFFICES ASSUME Init PROVE Shape
  OBVIOUS
<1> DEFINE at(f) == [active |-> f, rotated |-> <<>>, snapshot |-> NoSnapshot]
<1>1. dirs = IF setup.new THEN <<at(NoFile), at(1)>> ELSE <<at(1)>>
  BY DEF Init
<1>2. \A f \in Nat : at(f) \in DirType
  <2>1. DOMAIN <<>> = {} /\ <<>> \in Maps(Nat, Nat) /\ <<>> \in Seq(Nat)
    <3>1. DOMAIN <<>> = {} /\ <<>> \in Seq(Nat) /\ Len(<<>>) = 0
      OBVIOUS
    <3>2. <<>> \in [1 .. 0 -> Nat]
      BY <3>1, LenProperties
    <3>3. <<>> \in [DOMAIN <<>> -> Nat]
      BY <3>1, <3>2
    <3> QED BY <3>1, <3>3, MapsFact
  <2> QED BY <2>1 DEF DirType, NoSnapshot
<1>3. \A f \in Nat : at(f).active = f /\ DOMAIN at(f).rotated = {}
  OBVIOUS
<1> HIDE DEF at
<1>4. at(0) \in DirType /\ at(1) \in DirType /\ NoFile = 0
  BY <1>2 DEF NoFile
<1>5. /\ dirs \in Seq(DirType) /\ dirs # <<>> /\ Last(dirs) = at(1)
      /\ Range(dirs) \subseteq {at(0), at(1)}
  <2>1. CASE setup.new
    <3>1. dirs = <<at(0), at(1)>>
      BY <1>1, <1>4, <2>1
    <3>2. DOMAIN dirs = 1 .. 2 /\ dirs[1] = at(0) /\ dirs[2] = at(1) /\ Len(dirs) = 2
      BY <3>1
    <3> HIDE DEF DirType
    <3> QED BY <1>4, <3>1, <3>2 DEF Last, Range
  <2>2. CASE ~setup.new
    <3>1. dirs = <<at(1)>>
      BY <1>1, <2>2
    <3>2. DOMAIN dirs = 1 .. 1 /\ dirs[1] = at(1) /\ Len(dirs) = 1
      BY <3>1
    <3> HIDE DEF DirType
    <3> QED BY <1>4, <3>1, <3>2 DEF Last, Range
  <2> QED BY <2>1, <2>2
<1>6. EmptyFile \in FileType /\ EmptyFile.synced = 0 /\ EmptyFile.lines = <<>>
  BY DEF EmptyFile, FileType
<1>7. files \in Seq(FileType) /\ Len(files) = 1 /\ \A f \in DOMAIN files : files[f] = EmptyFile
  <2> HIDE DEF FileType
  <2>1. files = <<EmptyFile>>
    BY DEF Init
  <2> QED BY <1>6, <2>1
<1>8. Types
  <2>1. NoSnap \in SnapType /\ NoSync \in SyncType
    BY DEF NoSnap, SnapType, NoSync, SyncType, NoFile
  <2>2. count \in CountType
    BY DEF Init, CountType
  <2>3. /\ setup \in Setups /\ up = TRUE /\ mem = <<>> /\ seq = 0 /\ dirty = FALSE
        /\ dir_unsynced = FALSE /\ retired = <<>> /\ unsynced = FALSE /\ resnapshot = FALSE
        /\ writing = FALSE /\ snap = NoSnap /\ sync = NoSync /\ secured = <<>> /\ covering = <<>>
    BY DEF Init
  <2>4. <<>> \in Seq(Nat)
    OBVIOUS
  <2> HIDE DEF DirType, FileType, SnapType, SyncType, CountType
  <2>5. setup \in Setups /\ ~setup.dirFails /\ setup.undone = 0
    BY DEF Init, NamesAlwaysLast
  <2> QED BY <1>5, <1>7, <2>1, <2>2, <2>3, <2>4, <2>5 DEF Types
<1>9. FilesFit
  BY <1>6, <1>7 DEF FilesFit
<1>10. DirsFit
  <2>1. \A d \in Range(dirs) : d.active \in 0 .. 1 /\ DOMAIN d.rotated = {}
    BY <1>3, <1>5
  <2> QED BY <1>7, <2>1 DEF DirsFit, Named
<1>11. StagesFit
  <2>1. Dir.active = 1
    BY <1>3, <1>5 DEF Dir
  <2> QED BY <2>1 DEF Init, StagesFit, NoSnap, NoSync, NoFile
<1> QED BY <1>8, <1>9, <1>10, <1>11 DEF Shape
\* Directories may be forgotten, but not the last.
Fewer == /\ dirs' \in Seq(DirType) /\ dirs' # <<>>
         /\ Dir' = Dir
         /\ Range(dirs') \subseteq Range(dirs)

\* As when nothing happens to them, or the last is synced.
LEMMA FewerIs ==
    ASSUME Types, dirs' = dirs \/ SyncDir
    PROVE  Fewer
<1>1. Dir \in Range(dirs)
  BY DirIs
<1>2. CASE dirs' = dirs
  BY <1>2 DEF Types, Fewer, Dir
<1>3. CASE SyncDir
  BY <1>1, <1>3, SyncDirIs DEF Fewer
<1> QED BY <1>2, <1>3

\* The current journal is one of the files.
LEMMA ActiveIs ==
    ASSUME Shape, Dir.active # NoFile
    PROVE  Dir.active \in DOMAIN files /\ files[Dir.active] \in FileType /\ Dir.active \in Live(Dir)
<1>1. Named(Dir, Len(files)) /\ files \in Seq(FileType) /\ Dir \in DirType
  BY DirIs DEF Shape, Types, DirsFit
<1>2. Dir.active \in 1 .. Len(files)
  BY <1>1 DEF Named, NoFile
<1> QED BY <1>1, <1>2 DEF Live

\* The line of a change is written to the current journal, and with "always" synced.
Grown(f) ==
    /\ f = Dir.active /\ f \in DOMAIN files /\ f # NoFile
    /\ files' \in Seq(FileType) /\ Len(files') = Len(files) /\ DOMAIN files' = DOMAIN files
    /\ \A g \in DOMAIN files : g # f => files'[g] = files[g]
    /\ files'[f].lines = Append(files[f].lines, [s |-> seq + 1, e |-> count.changes + 1])
    /\ files'[f].bad = files[f].bad
    /\ files'[f].synced = IF fsync = "always" /\ ~files[f].bad
                          THEN Len(files[f].lines) + 1 ELSE files[f].synced

\* So it is.
LEMMA ChangeGrows ==
    ASSUME Shape, Change
    PROVE  Grown(Dir.active)
<1> DEFINE f == Dir.active
           line == [s |-> seq + 1, e |-> count.changes + 1]
           g == [files[f] EXCEPT !.lines = Append(@, line)]
<1>1. f # NoFile
  BY DEF Shape, StagesFit, Change, Free
<1>2. f \in DOMAIN files /\ files[f] \in FileType /\ files \in Seq(FileType)
  BY <1>1, ActiveIs DEF Shape, Types
<1>3. line \in Line
  BY DEF Shape, Types, CountType, Line
<1>4. files[f].lines \in Seq(Line) /\ files[f].synced <= Len(files[f].lines)
      /\ files[f].synced \in Nat /\ files[f].bad \in BOOLEAN
  BY <1>2 DEF FileType, Shape, FilesFit
<1> HIDE DEF Line, line
<1>5. /\ Append(files[f].lines, line) \in Seq(Line)
      /\ Len(Append(files[f].lines, line)) = Len(files[f].lines) + 1
  BY <1>3, <1>4, AppendProperties
<1>6. /\ g \in FileType /\ g.lines = Append(files[f].lines, line)
      /\ g.synced = files[f].synced /\ g.bad = files[f].bad
  <2> DEFINE ls == Append(files[f].lines, line)
  <2>1. ls \in Seq(Line)
    BY <1>5
  <2> HIDE DEF ls
  <2>2. [files[f] EXCEPT !.lines = ls] \in FileType
    BY <1>2, <2>1 DEF FileType
  <2>3. /\ [files[f] EXCEPT !.lines = ls].lines = ls
        /\ [files[f] EXCEPT !.lines = ls].synced = files[f].synced
        /\ [files[f] EXCEPT !.lines = ls].bad = files[f].bad
    BY <1>2 DEF FileType
  <2> QED BY <2>2, <2>3 DEF ls
<1>7. g.synced <= Len(g.lines)
  <2>1. Len(files[f].lines) \in Nat
    BY <1>4
  <2> QED BY <1>4, <1>5, <1>6, <2>1
<1>8. \/ fsync = "always" /\ files' = [files EXCEPT ![f] = Synced(g)]
      \/ fsync # "always" /\ files' = [files EXCEPT ![f] = g]
  BY DEF Change, line
<1> HIDE DEF g, f
<1>9. ASSUME NEW h \in FileType, files' = [files EXCEPT ![f] = h]
      PROVE  /\ files' \in Seq(FileType) /\ Len(files') = Len(files) /\ DOMAIN files' = DOMAIN files
             /\ \A k \in DOMAIN files : k # f => files'[k] = files[k]
             /\ files'[f] = h
  <2> HIDE DEF FileType
  <2>1. files' \in Seq(FileType) /\ Len(files') = Len(files)
    BY <1>2, <1>9, ExceptSeq
  <2> QED BY <1>2, <1>9, <2>1
<1>10. CASE fsync = "always"
  <2>1. files' = [files EXCEPT ![f] = Synced(g)]
    BY <1>8, <1>10
  <2>2. /\ Synced(g) \in FileType /\ Synced(g).lines = g.lines /\ Synced(g).bad = g.bad
        /\ Synced(g).synced = IF g.bad THEN g.synced ELSE Len(g.lines)
    BY <1>6, <1>7, SyncedIs
  <2>3. /\ files' \in Seq(FileType) /\ Len(files') = Len(files) /\ DOMAIN files' = DOMAIN files
        /\ \A k \in DOMAIN files : k # f => files'[k] = files[k]
        /\ files'[f] = Synced(g)
    BY <1>9, <2>1, <2>2
  <2>4. files'[f].synced = IF ~files[f].bad THEN Len(files[f].lines) + 1 ELSE files[f].synced
    BY <1>4, <1>5, <1>6, <2>2, <2>3
  <2> QED BY <1>1, <1>2, <1>6, <1>10, <2>2, <2>3, <2>4 DEF Grown, f, line
<1>11. CASE fsync # "always"
  <2>1. files' = [files EXCEPT ![f] = g]
    BY <1>8, <1>11
  <2>3. /\ files' \in Seq(FileType) /\ Len(files') = Len(files) /\ DOMAIN files' = DOMAIN files
        /\ \A k \in DOMAIN files : k # f => files'[k] = files[k]
        /\ files'[f] = g
    BY <1>6, <1>9, <2>1
  <2> QED BY <1>1, <1>2, <1>6, <1>11, <2>3 DEF Grown, f, line
<1> QED BY <1>10, <1>11

\* What else a change does.
LEMMA ChangeIs ==
    ASSUME Shape, Change
    PROVE  /\ Fewer
           /\ fsync = "always" /\ dir_unsynced => SyncDir
           /\ fsync # "always" \/ ~dir_unsynced => dirs' = dirs
           /\ mem' = Append(mem, count.changes + 1) /\ seq' = seq + 1
           /\ count' = [count EXCEPT !.changes = @ + 1]
           /\ count' \in CountType /\ count'.changes = count.changes + 1
           /\ count'.rewrites = count.rewrites /\ count'.crashes = count.crashes
           /\ count'.powerLosses = count.powerLosses
           /\ count'.snapshotFailures = count.snapshotFailures
           /\ dirty' \in BOOLEAN /\ dir_unsynced' \in BOOLEAN
           /\ secured' = secured \/ secured' = mem'
<1>1. dirty \in BOOLEAN /\ dir_unsynced \in BOOLEAN /\ count \in CountType /\ Types
  BY DEF Shape, Types
<1>2. dirs' = dirs \/ SyncDir
  BY DEF Change, SyncDirFirst
<1>3. Fewer
  BY <1>1, <1>2, FewerIs
<1>4. count' = [count EXCEPT !.changes = @ + 1]
  BY DEF Change, Count
<1>5. /\ count' \in CountType /\ count'.changes = count.changes + 1
      /\ count'.rewrites = count.rewrites /\ count'.crashes = count.crashes
      /\ count'.powerLosses = count.powerLosses
      /\ count'.snapshotFailures = count.snapshotFailures
  BY <1>1, <1>4 DEF CountType
<1>6. /\ fsync = "always" /\ dir_unsynced => SyncDir
      /\ fsync # "always" \/ ~dir_unsynced => dirs' = dirs
  BY DEF Change, SyncDirFirst
<1>7. /\ mem' = Append(mem, count.changes + 1) /\ seq' = seq + 1
      /\ dirty' \in BOOLEAN /\ dir_unsynced' \in BOOLEAN
      /\ secured' = secured \/ secured' = mem'
  BY <1>1 DEF Change
<1> QED BY <1>3, <1>4, <1>5, <1>6, <1>7

\* It keeps the shape.
LEMMA ShapeChange ==
    ASSUME Shape, Change
    PROVE  Shape'
<1>1. Grown(Dir.active)
  BY ChangeGrows
<1>2. Types
  BY DEF Shape
<1>3. Types'
  <2>1. files' \in Seq(FileType) /\ dirs' \in Seq(DirType) /\ dirs' # <<>> /\ count' \in CountType
        /\ dirty' \in BOOLEAN /\ dir_unsynced' \in BOOLEAN
    BY <1>1, ChangeIs DEF Grown, Fewer
  <2>2. mem' \in Seq(Nat) /\ seq' \in Nat /\ secured' \in Seq(Nat)
    <3>1. mem \in Seq(Nat) /\ count.changes + 1 \in Nat /\ seq \in Nat /\ secured \in Seq(Nat)
      BY <1>2 DEF Types, CountType
    <3>2. mem' = Append(mem, count.changes + 1) /\ seq' = seq + 1
          /\ (secured' = secured \/ secured' = mem')
      BY ChangeIs
    <3>3. mem' \in Seq(Nat)
      BY <3>1, <3>2, AppendProperties
    <3>4. seq' \in Nat
      BY <3>1, <3>2
    <3>5. secured' \in Seq(Nat)
      BY ONLY <3>1, <3>2, <3>3
    <3> QED BY <3>3, <3>4, <3>5
  <2>3. /\ setup' = setup /\ up' = up /\ retired' = retired /\ unsynced' = unsynced
        /\ resnapshot' = resnapshot /\ writing' = writing /\ snap' = snap /\ sync' = sync
        /\ covering' = covering
    BY DEF Change
  <2> HIDE DEF DirType, FileType, CountType, SnapType, SyncType
  <2> QED BY <1>2, <2>1, <2>2, <2>3 DEF Types
<1>4. FilesFit'
  <2> SUFFICES ASSUME NEW f \in DOMAIN files' PROVE files'[f].synced <= Len(files'[f].lines)
    BY DEF FilesFit
  <2>1. f \in DOMAIN files
    BY <1>1 DEF Grown
  <2>2. files[f].synced <= Len(files[f].lines) /\ files[f] \in FileType /\ files'[f] \in FileType
    BY <1>1, <1>2, <2>1 DEF Shape, Types, FilesFit, Grown
  <2>3. CASE f # Dir.active
    BY <1>1, <2>1, <2>2, <2>3 DEF Grown
  <2>4. CASE f = Dir.active
    <3>1. files'[f].lines = Append(files[f].lines, [s |-> seq + 1, e |-> count.changes + 1])
          /\ (files'[f].synced = Len(files[f].lines) + 1 \/ files'[f].synced = files[f].synced)
      BY <1>1, <2>4 DEF Grown
    <3>2. files[f].lines \in Seq(Line) /\ files[f].synced \in Nat
      BY <2>2 DEF FileType
    <3>3. Len(files'[f].lines) = Len(files[f].lines) + 1 /\ Len(files[f].lines) \in Nat
      BY <3>1, <3>2
    <3> QED BY <2>2, <3>1, <3>2, <3>3
  <2> QED BY <2>3, <2>4
<1>5. DirsFit'
  <2>1. Fewer /\ Len(files') = Len(files)
    BY <1>1, ChangeIs DEF Grown
  <2> QED BY <2>1, DirsStillFit DEF Fewer
<1>6. StagesFit'
  <2>1. Dir' = Dir /\ snap.stage # "renaming" /\ up
    BY ChangeIs DEF Fewer, Change, Free
  <2>2. count'.crashes = count.crashes /\ count'.powerLosses = count.powerLosses
    BY ChangeIs
  <2>3. up' = up /\ writing' = writing /\ snap' = snap /\ sync' = sync
    BY DEF Change
  <2> QED BY <2>1, <2>2, <2>3 DEF Shape, StagesFit
<1> QED BY <1>3, <1>4, <1>5, <1>6 DEF Shape
\* A tick's sync takes what waits, but for the current journal without a handle.
Taken(cloned) ==
    /\ dirty \/ cloned
    /\ sync' = [running |-> cloned \/ retired # <<>> \/ dir_unsynced,
                retired |-> retired, dir |-> dir_unsynced,
                file |-> IF dirty /\ cloned THEN Dir.active ELSE NoFile]
    /\ retired' = <<>> /\ dirty' = ~cloned /\ dir_unsynced' = FALSE
    /\ covering' = IF cloned THEN mem ELSE secured
    /\ secured' = secured

\* It does, or finds that nothing does.
LEMMA TakeSyncIs ==
    ASSUME Shape, TakeSync
    PROVE  /\ setup' = setup /\ files' = files /\ dirs' = dirs /\ up' = up /\ mem' = mem /\ seq' = seq
           /\ unsynced' = unsynced /\ resnapshot' = resnapshot /\ writing' = writing
           /\ snap' = snap /\ count' = count
           /\ up /\ snap.stage # "renaming" /\ fsync # "never" /\ sync = NoSync
           /\ \/ /\ retired = <<>> /\ ~dir_unsynced /\ ~dirty
                 /\ secured' = (IF Lossy THEN secured ELSE mem)
                 /\ sync' = sync /\ retired' = retired /\ dirty' = dirty
                 /\ dir_unsynced' = dir_unsynced /\ covering' = covering
              \/ \E cloned \in BOOLEAN : Taken(cloned)
<1>1. /\ setup' = setup /\ files' = files /\ dirs' = dirs /\ up' = up /\ mem' = mem /\ seq' = seq
      /\ unsynced' = unsynced /\ resnapshot' = resnapshot /\ writing' = writing
      /\ snap' = snap /\ count' = count /\ fsync # "never" /\ ~sync.running
      /\ up /\ snap.stage # "renaming"
  BY DEF TakeSync, Free
<1>2. sync = NoSync
  BY <1>1 DEF Shape, StagesFit
<1>3. CASE retired = <<>> /\ ~dir_unsynced /\ ~dirty
  BY <1>1, <1>2, <1>3 DEF TakeSync
<1>4. CASE ~(retired = <<>> /\ ~dir_unsynced /\ ~dirty)
  <2>1. \E cloned \in BOOLEAN : Taken(cloned)
    BY <1>4 DEF TakeSync, Taken
  <2> QED BY <1>1, <1>2, <2>1
<1> QED BY <1>3, <1>4

\* It keeps the shape.
LEMMA ShapeTakeSync ==
    ASSUME Shape, TakeSync
    PROVE  Shape'
<1>1. Types
  BY DEF Shape
<1>2. sync' \in SyncType /\ (sync'.running \/ sync' = NoSync)
  <2>1. Dir.active \in Nat /\ retired \in Seq(Nat) /\ dir_unsynced \in BOOLEAN /\ sync \in SyncType
    BY <1>1, DirIs DEF Types, DirType
  <2>2. CASE sync' = sync
    BY <2>1, <2>2, TakeSyncIs
  <2>3. ASSUME NEW cloned \in BOOLEAN, Taken(cloned) PROVE sync' \in SyncType /\ (sync'.running \/ sync' = NoSync)
    <3> DEFINE file == IF dirty /\ cloned THEN Dir.active ELSE NoFile
               running == cloned \/ retired # <<>> \/ dir_unsynced
    <3>1. file \in Nat /\ running \in BOOLEAN
      BY <2>1 DEF NoFile
    <3>2. sync' = [running |-> running, retired |-> retired, dir |-> dir_unsynced, file |-> file]
      BY <2>3 DEF Taken
    <3>3. ~running => retired = <<>> /\ dir_unsynced = FALSE /\ file = NoFile /\ running = FALSE
      BY <2>1, <3>1
    <3> HIDE DEF file, running
    <3> QED BY <2>1, <3>1, <3>2, <3>3 DEF SyncType, NoSync
  <2> QED BY <2>2, <2>3, TakeSyncIs
<1>3. retired' \in Seq(Nat) /\ dirty' \in BOOLEAN /\ dir_unsynced' \in BOOLEAN
      /\ covering' \in Seq(Nat) /\ secured' \in Seq(Nat)
  <2>1. /\ retired' = retired \/ retired' = <<>>
        /\ dirty' = dirty \/ dirty' \in BOOLEAN
        /\ dir_unsynced' = dir_unsynced \/ dir_unsynced' = FALSE
        /\ covering' \in {covering, mem, secured}
        /\ secured' = secured \/ secured' = mem
    BY TakeSyncIs DEF Taken
  <2>2. <<>> \in Seq(Nat)
    OBVIOUS
  <2> QED BY <1>1, <2>1, <2>2 DEF Types
<1>4. /\ setup' = setup /\ files' = files /\ dirs' = dirs /\ up' = up /\ mem' = mem /\ seq' = seq
      /\ unsynced' = unsynced /\ resnapshot' = resnapshot /\ writing' = writing
      /\ snap' = snap /\ count' = count
  BY TakeSyncIs
<1>5. Types'
  <2> HIDE DEF DirType, FileType, CountType, SnapType, SyncType
  <2> QED BY <1>1, <1>2, <1>3, <1>4 DEF Types
<1>6. FilesFit' /\ DirsFit'
  BY <1>4 DEF Shape, FilesFit, DirsFit, Dir
<1>7. StagesFit'
  <2>1. up
    BY TakeSyncIs
  <2> QED BY <1>2, <1>4, <2>1 DEF Shape, StagesFit, Dir
<1> QED BY <1>5, <1>6, <1>7 DEF Shape

\* The sync's next step syncs a file, or the directory.
LEMMA SyncNextIs ==
    ASSUME Shape, SyncNext
    PROVE  /\ setup' = setup /\ up' = up /\ mem' = mem /\ seq' = seq /\ dirty' = dirty
           /\ dir_unsynced' = dir_unsynced /\ retired' = retired /\ unsynced' = unsynced
           /\ resnapshot' = resnapshot /\ writing' = writing /\ snap' = snap
           /\ secured' = secured /\ covering' = covering /\ count' = count
           /\ up /\ sync.running /\ sync'.running /\ sync' \in SyncType
           /\ Kept /\ Fewer
           /\ \/ /\ sync.retired # <<>> /\ dirs' = dirs
                 /\ files' = [f \in DOMAIN files |->
                                IF f \in {Head(sync.retired)} THEN Synced(files[f]) ELSE files[f]]
                 /\ sync'.retired = Tail(sync.retired) /\ sync'.dir = sync.dir /\ sync'.file = sync.file
              \/ /\ sync.retired = <<>> /\ sync.dir /\ SyncDir /\ files' = files
                 /\ sync'.retired = sync.retired /\ sync'.dir = FALSE /\ sync'.file = sync.file
              \/ /\ sync.retired = <<>> /\ ~sync.dir /\ dirs' = dirs
                 /\ files' = [f \in DOMAIN files |->
                                IF f \in {sync.file} THEN Synced(files[f]) ELSE files[f]]
                 /\ sync'.retired = sync.retired /\ sync'.dir = sync.dir /\ sync'.file = NoFile
<1>0. Types
  BY DEF Shape
<1>1. sync \in SyncType /\ sync.running \in BOOLEAN /\ sync.retired \in Seq(Nat)
      /\ sync.dir \in BOOLEAN /\ sync.file \in Nat
  BY <1>0 DEF Types, SyncType
<1>2. /\ setup' = setup /\ up' = up /\ mem' = mem /\ seq' = seq /\ dirty' = dirty
      /\ dir_unsynced' = dir_unsynced /\ retired' = retired /\ unsynced' = unsynced
      /\ resnapshot' = resnapshot /\ writing' = writing /\ snap' = snap
      /\ secured' = secured /\ covering' = covering /\ count' = count
      /\ up /\ sync.running
  BY DEF SyncNext, server
<1>3. ASSUME NEW f \in Nat, files' = [files EXCEPT ![f] = Synced(@)]
      PROVE  /\ files' = [g \in DOMAIN files |-> IF g \in {f} THEN Synced(files[g]) ELSE files[g]]
             /\ Kept
  <2>1. files' = [g \in DOMAIN files |-> IF g \in {f} THEN Synced(files[g]) ELSE files[g]]
    BY <1>3
  <2> DEFINE S == {f}
  <2>2. files' = [g \in DOMAIN files |-> IF g \in S THEN Synced(files[g]) ELSE files[g]]
    BY <2>1
  <2>3. Kept
    <3> HIDE DEF S
    <3> QED BY <2>2, KeptSynced
  <2> QED BY <2>1, <2>3
<1>4. CASE sync.retired # <<>> /\ files' = [files EXCEPT ![Head(sync.retired)] = Synced(@)]
           /\ sync' = [sync EXCEPT !.retired = Tail(@)] /\ dirs' = dirs
  <2>1. Head(sync.retired) \in Nat /\ Tail(sync.retired) \in Seq(Nat)
    BY <1>1, <1>4, HeadTailProperties
  <2>2. sync' \in SyncType /\ sync'.running /\ sync'.retired = Tail(sync.retired)
        /\ sync'.dir = sync.dir /\ sync'.file = sync.file
    <3> DEFINE t == Tail(sync.retired)
    <3>1. t \in Seq(Nat) /\ sync' = [sync EXCEPT !.retired = t]
      BY <1>4, <2>1
    <3> HIDE DEF t
    <3>2. sync' \in SyncType
      BY <1>1, <3>1 DEF SyncType
    <3>3. sync'.retired = t /\ sync'.dir = sync.dir /\ sync'.file = sync.file /\ sync'.running
      BY <1>1, <1>2, <3>1 DEF SyncType
    <3> QED BY <3>2, <3>3 DEF t
  <2>3. /\ files' = [g \in DOMAIN files |-> IF g \in {Head(sync.retired)} THEN Synced(files[g]) ELSE files[g]]
        /\ Kept
    BY <1>3, <1>4, <2>1
  <2>4. Fewer
    BY <1>0, <1>4, FewerIs
  <2> QED BY <1>2, <1>4, <2>2, <2>3, <2>4
<1>5. CASE sync.retired = <<>> /\ sync.dir /\ SyncDir /\ files' = files
           /\ sync' = [sync EXCEPT !.dir = FALSE]
  <2>1. Fewer /\ Kept
    BY <1>0, <1>5, FewerIs, KeptAll
  <2>2. sync' \in SyncType /\ sync'.running /\ sync'.retired = sync.retired
        /\ sync'.dir = FALSE /\ sync'.file = sync.file
    BY <1>1, <1>2, <1>5 DEF SyncType
  <2> QED BY <1>2, <1>5, <2>1, <2>2
<1>6. CASE sync.retired = <<>> /\ ~sync.dir /\ files' = [files EXCEPT ![sync.file] = Synced(@)]
           /\ sync' = [sync EXCEPT !.file = NoFile] /\ dirs' = dirs
  <2>1. Fewer
    BY <1>0, <1>6, FewerIs
  <2>2. sync' \in SyncType /\ sync'.running /\ sync'.retired = sync.retired
        /\ sync'.dir = sync.dir /\ sync'.file = NoFile
    BY <1>1, <1>2, <1>6 DEF SyncType, NoFile
  <2>3. /\ files' = [g \in DOMAIN files |-> IF g \in {sync.file} THEN Synced(files[g]) ELSE files[g]]
        /\ Kept
    BY <1>1, <1>3, <1>6
  <2> QED BY <1>2, <1>6, <2>1, <2>2, <2>3
<1>7. \/ sync.retired # <<>> /\ files' = [files EXCEPT ![Head(sync.retired)] = Synced(@)]
           /\ sync' = [sync EXCEPT !.retired = Tail(@)] /\ dirs' = dirs
      \/ sync.retired = <<>> /\ sync.dir /\ SyncDir /\ files' = files
           /\ sync' = [sync EXCEPT !.dir = FALSE]
      \/ sync.retired = <<>> /\ ~sync.dir /\ files' = [files EXCEPT ![sync.file] = Synced(@)]
           /\ sync' = [sync EXCEPT !.file = NoFile] /\ dirs' = dirs
  BY DEF SyncNext
<1> QED BY <1>4, <1>5, <1>6, <1>7

\* A step that keeps the files, and all but the older directories.
LEMMA ShapeKept ==
    ASSUME Shape, Kept, Fewer, Types', StagesFit'
    PROVE  Shape'
<1>1. FilesFit'
  BY KeptFits
<1>2. DirsFit'
  BY DirsStillFit DEF Kept, Fewer
<1> QED BY <1>1, <1>2 DEF Shape

\* It keeps the shape.
LEMMA ShapeSyncNext ==
    ASSUME Shape, SyncNext
    PROVE  Shape'
<1>1. Types
  BY DEF Shape
<1>2. /\ setup' = setup /\ up' = up /\ mem' = mem /\ seq' = seq /\ dirty' = dirty
      /\ dir_unsynced' = dir_unsynced /\ retired' = retired /\ unsynced' = unsynced
      /\ resnapshot' = resnapshot /\ writing' = writing /\ snap' = snap
      /\ secured' = secured /\ covering' = covering /\ count' = count
      /\ up /\ sync'.running /\ sync' \in SyncType
      /\ Kept /\ Fewer
  BY SyncNextIs
<1>3. Types'
  <2>1. files' \in Seq(FileType) /\ dirs' \in Seq(DirType) /\ dirs' # <<>>
    BY <1>2 DEF Kept, Fewer
  <2> HIDE DEF DirType, FileType, CountType, SnapType, SyncType
  <2> QED BY <1>1, <1>2, <2>1 DEF Types
<1>4. StagesFit'
  BY <1>2 DEF Shape, StagesFit, Fewer
<1> QED BY <1>2, <1>3, <1>4, ShapeKept
\* A sync that is through.
LEMMA SyncEndsIs ==
    ASSUME Shape, SyncEnds
    PROVE  /\ setup' = setup /\ files' = files /\ dirs' = dirs /\ up' = up /\ mem' = mem /\ seq' = seq
           /\ dirty' = dirty /\ dir_unsynced' = dir_unsynced /\ retired' = retired
           /\ unsynced' = FALSE /\ resnapshot' = resnapshot /\ writing' = writing
           /\ snap' = snap /\ covering' = covering /\ count' = count
           /\ up /\ snap.stage # "renaming" /\ sync' = NoSync /\ sync.running
           /\ sync.retired = <<>> /\ ~sync.dir /\ sync.file = NoFile
           /\ secured' = (IF Lossy THEN secured ELSE covering)
BY DEF SyncEnds, Free, SyncDone

\* It keeps the shape.
LEMMA ShapeSyncEnds ==
    ASSUME Shape, SyncEnds
    PROVE  Shape'
<1>1. Types
  BY DEF Shape
<1>2. /\ setup' = setup /\ files' = files /\ dirs' = dirs /\ up' = up /\ mem' = mem /\ seq' = seq
      /\ dirty' = dirty /\ dir_unsynced' = dir_unsynced /\ retired' = retired
      /\ unsynced' = FALSE /\ resnapshot' = resnapshot /\ writing' = writing
      /\ snap' = snap /\ covering' = covering /\ count' = count
      /\ up /\ sync' = NoSync
  BY SyncEndsIs
<1>3. secured' = secured \/ secured' = covering
  BY SyncEndsIs
<1>4. Types'
  <2>1. NoSync \in SyncType /\ secured' \in Seq(Nat)
    <3>1. <<>> \in Seq(Nat)
      OBVIOUS
    <3>2. NoSync \in SyncType
      BY <3>1 DEF NoSync, SyncType, NoFile
    <3>3. secured' \in Seq(Nat)
      BY <1>1, <1>3 DEF Types
    <3> QED BY <3>2, <3>3
  <2> HIDE DEF DirType, FileType, CountType, SnapType, SyncType
  <2> QED BY <1>1, <1>2, <2>1 DEF Types
<1>5. StagesFit'
  BY <1>2 DEF Shape, StagesFit, Dir, NoSync
<1>6. Kept /\ Fewer
  BY <1>1, <1>2, KeptAll, FewerIs
<1> QED BY <1>4, <1>5, <1>6, ShapeKept

\* A sync that fails puts back what it had left, and finds the files bad.
LEMMA SyncFailsIs ==
    ASSUME Shape, SyncFails
    PROVE  /\ setup' = setup /\ dirs' = dirs /\ up' = up /\ mem' = mem /\ seq' = seq
           /\ writing' = writing /\ snap' = snap /\ secured' = secured /\ covering' = covering
           /\ up /\ snap.stage # "renaming" /\ sync' = NoSync /\ sync.running
           /\ sync.retired # <<>> \/ sync.file # NoFile
           /\ unsynced' = TRUE /\ resnapshot' = TRUE
           /\ retired' = sync.retired \o retired /\ retired' \in Seq(Nat)
           /\ Range(retired') = Range(sync.retired) \cup Range(retired)
           /\ dir_unsynced' = (dir_unsynced \/ sync.dir)
           /\ dirty' = (dirty \/ sync.file # NoFile)
           /\ files' = [f \in DOMAIN files |->
                          IF f \in Range(sync.retired) \cup {sync.file}
                          THEN [files[f] EXCEPT !.bad = TRUE] ELSE files[f]]
           /\ Kept /\ Fewer
           /\ count' = [count EXCEPT !.syncFailures = @ + 1] /\ count' \in CountType
           /\ count'.changes = count.changes
           /\ count'.rewrites = count.rewrites /\ count'.crashes = count.crashes
           /\ count'.powerLosses = count.powerLosses
           /\ count'.snapshotFailures = count.snapshotFailures
<1>1. Types /\ sync.retired \in Seq(Nat) /\ retired \in Seq(Nat) /\ count \in CountType
  BY DEF Shape, Types, SyncType
<1>2. /\ setup' = setup /\ dirs' = dirs /\ up' = up /\ mem' = mem /\ seq' = seq
      /\ writing' = writing /\ snap' = snap /\ secured' = secured /\ covering' = covering
      /\ up /\ snap.stage # "renaming" /\ sync' = NoSync /\ sync.running
      /\ sync.retired # <<>> \/ sync.file # NoFile
      /\ unsynced' = TRUE /\ resnapshot' = TRUE
      /\ retired' = sync.retired \o retired
      /\ dir_unsynced' = (dir_unsynced \/ sync.dir)
      /\ dirty' = (dirty \/ sync.file # NoFile)
      /\ count' = [count EXCEPT !.syncFailures = @ + 1]
  BY DEF SyncFails, Free, Count
<1>3. files' = [f \in DOMAIN files |->
                  IF f \in Range(sync.retired) \cup {sync.file}
                  THEN [files[f] EXCEPT !.bad = TRUE] ELSE files[f]]
  BY DEF SyncFails
<1>4. Kept
  <2> DEFINE S == {}
             T == Range(sync.retired) \cup {sync.file}
  <2>1. \A f : f \notin S
    OBVIOUS
  <2> HIDE DEF S, T
  <2>2. files' = [f \in DOMAIN files |->
                    IF f \in S THEN Synced(files[f])
                    ELSE IF f \in T THEN [files[f] EXCEPT !.bad = TRUE] ELSE files[f]]
    BY <1>3, <2>1 DEF T
  <2> QED BY <2>2, KeptSome
<1>5. Fewer
  BY <1>1, <1>2, FewerIs
<1>6. retired' \in Seq(Nat)
  BY <1>1, <1>2, ConcatProperties
<1>7. Range(retired') = Range(sync.retired) \cup Range(retired)
  BY <1>1, <1>2, RangeConcatenation
<1>8. /\ count' \in CountType
      /\ count'.changes = count.changes
      /\ count'.rewrites = count.rewrites /\ count'.crashes = count.crashes
      /\ count'.powerLosses = count.powerLosses
      /\ count'.snapshotFailures = count.snapshotFailures
  BY <1>1, <1>2, CountSyncFailures
<1> QED BY <1>2, <1>3, <1>4, <1>5, <1>6, <1>7, <1>8

\* It keeps the shape.
LEMMA ShapeSyncFails ==
    ASSUME Shape, SyncFails
    PROVE  Shape'
<1>1. Types
  BY DEF Shape
<1>2. /\ setup' = setup /\ dirs' = dirs /\ up' = up /\ mem' = mem /\ seq' = seq
      /\ writing' = writing /\ snap' = snap /\ secured' = secured /\ covering' = covering
      /\ up /\ sync' = NoSync /\ unsynced' = TRUE /\ resnapshot' = TRUE
      /\ retired' \in Seq(Nat) /\ count' \in CountType
      /\ dir_unsynced' = (dir_unsynced \/ sync.dir)
      /\ dirty' = (dirty \/ sync.file # NoFile)
      /\ Kept /\ Fewer
      /\ count'.crashes = count.crashes /\ count'.powerLosses = count.powerLosses
  BY SyncFailsIs
<1>3. Types'
  <2>1. <<>> \in Seq(Nat)
    OBVIOUS
  <2>2. NoSync \in SyncType /\ dir_unsynced' \in BOOLEAN /\ dirty' \in BOOLEAN
    BY <1>1, <1>2, <2>1 DEF NoSync, SyncType, NoFile, Types
  <2>3. files' \in Seq(FileType) /\ dirs' \in Seq(DirType) /\ dirs' # <<>>
    BY <1>2 DEF Kept, Fewer
  <2> HIDE DEF DirType, FileType, CountType, SnapType, SyncType
  <2> QED BY <1>1, <1>2, <2>2, <2>3 DEF Types
<1>4. StagesFit'
  BY <1>2 DEF Shape, StagesFit, Fewer, NoSync
<1> QED BY <1>2, <1>3, <1>4, ShapeKept

\* The directory with a journal set aside under a number of its own.
LEMMA SetAsideIs ==
    ASSUME NEW d \in DirType, NEW n \in Nat, n \notin DOMAIN d.rotated
    PROVE  /\ SetAside(d, n) \in DirType
           /\ SetAside(d, n).active = NoFile /\ SetAside(d, n).snapshot = d.snapshot
           /\ DOMAIN SetAside(d, n).rotated = DOMAIN d.rotated \cup {n}
           /\ SetAside(d, n).rotated[n] = d.active
           /\ \A m \in DOMAIN d.rotated : SetAside(d, n).rotated[m] = d.rotated[m]
<1>1. /\ d.rotated \in Maps(Nat, Nat) /\ d.active \in Nat /\ d.snapshot \in [seq : Nat, state : Seq(Nat)]
      /\ d = [active |-> d.active, rotated |-> d.rotated, snapshot |-> d.snapshot]
  BY DEF DirType
<1>2. d.rotated \in [DOMAIN d.rotated -> Nat] /\ DOMAIN d.rotated \subseteq Nat
  BY <1>1, MapsFact
<1> DEFINE r == [m \in DOMAIN d.rotated \cup {n} |-> IF m = n THEN d.active ELSE d.rotated[m]]
<1>3. /\ DOMAIN r = DOMAIN d.rotated \cup {n} /\ r[n] = d.active
      /\ \A m \in DOMAIN d.rotated : r[m] = d.rotated[m]
  OBVIOUS
<1>4. r \in Maps(Nat, Nat)
  <2>1. DOMAIN r \subseteq Nat
    BY <1>2
  <2>2. r \in [DOMAIN r -> Nat]
    BY <1>1, <1>2
  <2> HIDE DEF r
  <2> QED BY <2>1, <2>2, MapsFact
<1>5. SetAside(d, n) = [d EXCEPT !.rotated = r, !.active = NoFile]
  BY DEF SetAside
<1> HIDE DEF r
<1>6. SetAside(d, n) = [active |-> NoFile, rotated |-> r, snapshot |-> d.snapshot]
  BY <1>1, <1>5
<1>7. SetAside(d, n) \in DirType
  BY <1>1, <1>4, <1>6 DEF DirType, NoFile
<1> QED BY <1>3, <1>6, <1>7

\* A rewrite starts: the current journal is set aside, or one is already
\* under the number.
LEMMA StartRewriteIs ==
    ASSUME Shape, StartRewrite
    PROVE  /\ setup' = setup /\ files' = files /\ up' = up /\ mem' = mem /\ seq' = seq
           /\ dirty' = dirty /\ dir_unsynced' = dir_unsynced /\ retired' = retired
           /\ unsynced' = unsynced /\ resnapshot' = resnapshot
           /\ sync' = sync /\ secured' = secured /\ covering' = covering
           /\ up /\ ~writing /\ ~unsynced /\ snap.stage = "none"
           /\ writing' = TRUE
           /\ snap' = [stage |-> "renaming", seq |-> seq, state |-> mem, covered |-> {}]
           /\ snap' \in SnapType
           /\ \/ seq \in DOMAIN Dir.rotated /\ dirs' = dirs /\ Dir' = Dir
              \/ /\ seq \notin DOMAIN Dir.rotated
                 /\ dirs' \in Seq(DirType) /\ dirs' # <<>>
                 /\ Dir' = SetAside(Dir, seq)
                 /\ Range(dirs') = Range(dirs) \cup {SetAside(Dir, seq)}
           /\ count' = [count EXCEPT !.rewrites = @ + 1] /\ count' \in CountType
           /\ count'.changes = count.changes
           /\ count'.rewrites = count.rewrites + 1 /\ count'.crashes = count.crashes
           /\ count'.powerLosses = count.powerLosses
           /\ count'.snapshotFailures = count.snapshotFailures
<1>1. Types /\ count \in CountType /\ seq \in Nat /\ mem \in Seq(Nat) /\ Dir \in DirType
  BY DirIs DEF Shape, Types
<1>2. /\ setup' = setup /\ files' = files /\ up' = up /\ mem' = mem /\ seq' = seq
      /\ dirty' = dirty /\ dir_unsynced' = dir_unsynced /\ retired' = retired
      /\ unsynced' = unsynced /\ resnapshot' = resnapshot
      /\ sync' = sync /\ secured' = secured /\ covering' = covering
      /\ up /\ ~writing /\ ~unsynced
      /\ writing' = TRUE
      /\ snap' = [stage |-> "renaming", seq |-> seq, state |-> mem, covered |-> {}]
      /\ count' = [count EXCEPT !.rewrites = @ + 1]
  BY DEF StartRewrite, server, Free, Count
<1>3. snap.stage = "none"
  BY <1>2 DEF Shape, StagesFit
<1>4. snap' \in SnapType
  BY <1>1, <1>2 DEF SnapType
<1>5. /\ count' \in CountType
      /\ count'.changes = count.changes
      /\ count'.rewrites = count.rewrites + 1 /\ count'.crashes = count.crashes
      /\ count'.powerLosses = count.powerLosses
      /\ count'.snapshotFailures = count.snapshotFailures
  BY <1>1, <1>2, CountRewrites
<1>6. CASE seq \in DOMAIN Dir.rotated
  <2>1. dirs' = dirs /\ Dir' = Dir
    BY <1>6 DEF StartRewrite, Dir
  <2> QED BY <1>2, <1>3, <1>4, <1>5, <1>6, <2>1
<1>7. CASE seq \notin DOMAIN Dir.rotated
  <2>1. dirs' = Append(dirs, SetAside(Dir, seq))
    BY <1>7 DEF StartRewrite, Operation
  <2>2. SetAside(Dir, seq) \in DirType
    BY <1>1, <1>7, SetAsideIs
  <2>3. /\ dirs' \in Seq(DirType) /\ dirs' # <<>>
        /\ Dir' = SetAside(Dir, seq)
        /\ Range(dirs') = Range(dirs) \cup {SetAside(Dir, seq)}
    BY <1>1, <2>1, <2>2, OperationIs
  <2> QED BY <1>2, <1>3, <1>4, <1>5, <1>7, <2>3
<1> QED BY <1>6, <1>7

\* It keeps the shape.
LEMMA ShapeStartRewrite ==
    ASSUME Shape, StartRewrite
    PROVE  Shape'
<1>1. Types /\ Dir \in DirType /\ seq \in Nat /\ Dir \in Range(dirs) /\ Len(files) \in Nat
  BY DirIs DEF Shape, Types
<1>2. /\ setup' = setup /\ files' = files /\ up' = up /\ mem' = mem /\ seq' = seq
      /\ dirty' = dirty /\ dir_unsynced' = dir_unsynced /\ retired' = retired
      /\ unsynced' = unsynced /\ resnapshot' = resnapshot
      /\ sync' = sync /\ secured' = secured /\ covering' = covering
      /\ up /\ ~writing /\ writing' = TRUE /\ snap' \in SnapType
      /\ count' \in CountType /\ count'.crashes = count.crashes
      /\ count'.powerLosses = count.powerLosses /\ snap.stage = "none"
  BY StartRewriteIs
<1>3. snap'.stage = "renaming" /\ snap'.seq = seq
  BY StartRewriteIs
<1>4. \/ seq \in DOMAIN Dir.rotated /\ dirs' = dirs /\ Dir' = Dir
      \/ /\ seq \notin DOMAIN Dir.rotated
         /\ dirs' \in Seq(DirType) /\ dirs' # <<>>
         /\ Dir' = SetAside(Dir, seq)
         /\ Range(dirs') = Range(dirs) \cup {SetAside(Dir, seq)}
  BY StartRewriteIs
<1>5. Types'
  <2>1. dirs' \in Seq(DirType) /\ dirs' # <<>>
    BY <1>1, <1>4 DEF Types
  <2> HIDE DEF DirType, FileType, CountType, SnapType, SyncType
  <2> QED BY <1>1, <1>2, <2>1 DEF Types
<1>6. FilesFit'
  BY <1>2 DEF Shape, FilesFit
<1>7. Dir.active # NoFile /\ Named(Dir, Len(files))
  BY <1>1, <1>2 DEF Shape, StagesFit, DirsFit
<1>8. CASE seq \in DOMAIN Dir.rotated /\ dirs' = dirs /\ Dir' = Dir
  <2>1. DirsFit'
    BY <1>2, <1>8 DEF Shape, DirsFit
  <2>2. StagesFit'
    BY <1>2, <1>3, <1>8 DEF Shape, StagesFit
  <2> QED BY <1>5, <1>6, <2>1, <2>2 DEF Shape
<1>9. CASE /\ seq \notin DOMAIN Dir.rotated
           /\ Dir' = SetAside(Dir, seq)
           /\ Range(dirs') = Range(dirs) \cup {SetAside(Dir, seq)}
  <2> DEFINE d == SetAside(Dir, seq)
  <2>1. /\ d.active = NoFile /\ DOMAIN d.rotated = DOMAIN Dir.rotated \cup {seq}
        /\ d.rotated[seq] = Dir.active
        /\ \A m \in DOMAIN Dir.rotated : d.rotated[m] = Dir.rotated[m]
    BY <1>1, <1>9, SetAsideIs
  <2>2. Named(d, Len(files))
    <3>1. Dir.active \in 1 .. Len(files)
      BY <1>7 DEF Named, NoFile
    <3>2. d.active \in 0 .. Len(files)
      BY <1>1, <2>1 DEF NoFile
    <3>3. \A n \in DOMAIN d.rotated : d.rotated[n] \in 1 .. Len(files) /\ d.rotated[n] # d.active
      BY <1>1, <1>7, <2>1, <3>1 DEF Named, NoFile
    <3>4. \A n, m \in DOMAIN d.rotated : d.rotated[n] = d.rotated[m] => n = m
      BY <1>7, <2>1 DEF Named
    <3> QED BY <3>2, <3>3, <3>4 DEF Named
  <2> HIDE DEF d
  <2>3. Len(files) <= Len(files') /\ Len(files') \in Nat /\ Named(d, Len(files'))
    BY <1>1, <1>2, <2>2
  <2>4. DirsFit'
    BY <1>9, <2>1, <2>3, DirsFitOne DEF d
  <2>5. StagesFit'
    BY <1>2, <1>3, <1>9, <2>1 DEF Shape, StagesFit, d
  <2> QED BY <1>5, <1>6, <2>4, <2>5 DEF Shape
<1> QED BY <1>4, <1>8, <1>9
\* A new file is added to those there are.
Added ==
    /\ files' \in Seq(FileType) /\ Len(files') = Len(files) + 1
    /\ DOMAIN files' = DOMAIN files \cup {Len(files) + 1} /\ Len(files) + 1 \notin DOMAIN files
    /\ \A f \in DOMAIN files : files'[f] = files[f]
    /\ files'[Len(files) + 1] = EmptyFile

\* So it is.
LEMMA AddedIs ==
    ASSUME Types, files' = Append(files, EmptyFile)
    PROVE  Added
<1>1. files \in Seq(FileType) /\ EmptyFile \in FileType
  <2>1. <<>> \in Seq(Line)
    OBVIOUS
  <2> QED BY <2>1 DEF Types, EmptyFile, FileType
<1> HIDE DEF FileType, EmptyFile
<1>2. /\ files' \in Seq(FileType) /\ Len(files') = Len(files) + 1
      /\ \A f \in 1 .. Len(files) : files'[f] = files[f]
      /\ files'[Len(files) + 1] = EmptyFile
  BY <1>1, AppendProperties
<1>3. DOMAIN files = 1 .. Len(files) /\ Len(files) \in Nat /\ DOMAIN files' = 1 .. Len(files) + 1
  BY <1>1, <1>2
<1>4. 1 .. Len(files) + 1 = (1 .. Len(files)) \cup {Len(files) + 1} /\ Len(files) + 1 \notin 1 .. Len(files)
  BY <1>3
<1> QED BY <1>2, <1>3, <1>4 DEF Added

\* Its lines fit.
LEMMA AddedFits ==
    ASSUME Shape, Added
    PROVE  FilesFit'
<1>1. EmptyFile.synced <= Len(EmptyFile.lines)
  BY DEF EmptyFile
<1> QED BY <1>1 DEF Shape, FilesFit, Added

\* The directory with another current journal.
LEMMA TakenIs ==
    ASSUME NEW d \in DirType, NEW f \in Nat
    PROVE  /\ [d EXCEPT !.active = f] \in DirType
           /\ [d EXCEPT !.active = f].active = f
           /\ [d EXCEPT !.active = f].rotated = d.rotated
           /\ [d EXCEPT !.active = f].snapshot = d.snapshot
BY DEF DirType

\* The fresh journal takes its place.
LEMMA TakeOverIs ==
    ASSUME Shape, TakeOver
    PROVE  /\ setup' = setup /\ up' = up /\ mem' = mem /\ seq' = seq
           /\ dirty' = FALSE /\ dir_unsynced' = TRUE /\ unsynced' = unsynced /\ resnapshot' = FALSE
           /\ writing' = writing /\ sync' = sync /\ secured' = secured /\ covering' = covering
           /\ count' = count
           /\ up /\ writing /\ snap.stage = "renaming"
           /\ Current \in DOMAIN files
           /\ retired' = (IF dirty /\ fsync = "everysec" THEN Append(retired, Current) ELSE retired)
           /\ retired' \in Seq(Nat)
           /\ Added
           /\ dirs' \in Seq(DirType) /\ dirs' # <<>> /\ Dir' \in DirType
           /\ Range(dirs') = Range(dirs) \cup {Dir'}
           /\ Dir'.active = Len(files) + 1 /\ Dir'.rotated = Dir.rotated
           /\ Dir'.snapshot = Dir.snapshot
           /\ snap' = [snap EXCEPT !.stage = "taken"] /\ snap' \in SnapType
           /\ snap'.stage = "taken" /\ snap'.seq = snap.seq /\ snap'.state = snap.state
<1>1. Types /\ Dir \in DirType /\ Dir \in Range(dirs) /\ files \in Seq(FileType) /\ snap \in SnapType
      /\ retired \in Seq(Nat) /\ Named(Dir, Len(files)) /\ Len(files) \in Nat
  BY DirIs DEF Shape, Types, DirsFit
<1>2. /\ setup' = setup /\ up' = up /\ mem' = mem /\ seq' = seq
      /\ dirty' = FALSE /\ dir_unsynced' = TRUE /\ unsynced' = unsynced /\ resnapshot' = FALSE
      /\ writing' = writing /\ sync' = sync /\ secured' = secured /\ covering' = covering
      /\ count' = count
      /\ up /\ snap.stage = "renaming" /\ files' = Append(files, EmptyFile)
      /\ dirs' = Append(dirs, [Dir EXCEPT !.active = Len(files) + 1])
      /\ snap' = [snap EXCEPT !.stage = "taken"]
  BY DEF TakeOver, Operation
<1>3. writing /\ seq \in DOMAIN Dir.rotated
  BY <1>2 DEF Shape, StagesFit
<1>4. Current \in DOMAIN files
  <2>1. Dir.active # NoFile => Dir.active \in DOMAIN files
    BY ActiveIs
  <2>2. Dir.rotated[seq] \in DOMAIN files
    BY <1>1, <1>3 DEF Named
  <2> QED BY <2>1, <2>2 DEF Current
<1>5. retired' = IF dirty /\ fsync = "everysec" THEN Append(retired, Current) ELSE retired
  BY DEF TakeOver, Retire, Current
<1>6. retired' \in Seq(Nat)
  <2>1. Current \in Nat
    BY <1>1, <1>4
  <2>2. Append(retired, Current) \in Seq(Nat)
    BY <1>1, <2>1, AppendProperties
  <2> QED BY <1>1, <1>5, <2>2
<1>7. Added
  BY <1>1, <1>2, AddedIs
<1> DEFINE d == [Dir EXCEPT !.active = Len(files) + 1]
<1>8. d \in DirType /\ d.active = Len(files) + 1 /\ d.rotated = Dir.rotated /\ d.snapshot = Dir.snapshot
  <2> DEFINE k == Len(files) + 1
  <2>1. k \in Nat /\ d = [Dir EXCEPT !.active = k]
    BY <1>1
  <2> HIDE DEF k, d
  <2>2. d \in DirType /\ d.active = k /\ d.rotated = Dir.rotated /\ d.snapshot = Dir.snapshot
    BY <1>1, <2>1, TakenIs
  <2> QED BY <2>2 DEF k
<1>9. dirs' = Append(dirs, d)
  BY <1>2
<1> HIDE DEF d
<1>10. dirs' \in Seq(DirType) /\ dirs' # <<>> /\ Dir' = d /\ Range(dirs') = Range(dirs) \cup {d}
  BY <1>1, <1>8, <1>9, OperationIs
<1>11. snap' \in SnapType /\ snap'.stage = "taken" /\ snap'.seq = snap.seq /\ snap'.state = snap.state
  BY <1>1, <1>2 DEF SnapType
<1> QED BY <1>2, <1>3, <1>4, <1>5, <1>6, <1>7, <1>8, <1>10, <1>11

\* A directory names the files it did, when there are more.
LEMMA StillNamed ==
    ASSUME NEW d, NEW m \in Nat, NEW n \in Nat, Named(d, m), m <= n
    PROVE  Named(d, n)
<1>1. \A x \in 0 .. m : x \in 0 .. n
  OBVIOUS
<1>2. \A x \in 1 .. m : x \in 1 .. n
  OBVIOUS
<1> QED BY <1>1, <1>2 DEF Named

\* A new file is in no directory but that it is the current journal of.
LEMMA DirsFitNew ==
    ASSUME Shape, Added, NEW d, Range(dirs') = Range(dirs) \cup {d}, Dir' = d,
           d.active = Len(files) + 1,
           \A n \in DOMAIN d.rotated : n \in DOMAIN Dir.rotated /\ d.rotated[n] = Dir.rotated[n]
    PROVE  DirsFit'
<1>1. Len(files) \in Nat /\ Dir \in Range(dirs) /\ Len(files') = Len(files) + 1
  BY DirIs DEF Shape, Types, Added
<1>2. \A c \in Range(dirs) : Named(c, Len(files))
  BY DEF Shape, DirsFit
<1>3. \A c \in Range(dirs) : \A n \in DOMAIN c.rotated : c.rotated[n] # Len(files) + 1
  BY <1>1, <1>2 DEF Named
<1>4. Named(d, Len(files'))
  <2>1. Named(Dir, Len(files'))
    BY <1>1, <1>2, StillNamed
  <2>2. d.active \in 0 .. Len(files')
    BY <1>1
  <2>3. \A n \in DOMAIN d.rotated : d.rotated[n] # d.active
    BY <1>1, <1>3
  <2>4. \A n \in DOMAIN d.rotated : d.rotated[n] \in 1 .. Len(files')
    BY <2>1 DEF Named
  <2>5. \A n, m \in DOMAIN d.rotated : d.rotated[n] = d.rotated[m] => n = m
    BY <2>1 DEF Named
  <2> QED BY <2>2, <2>3, <2>4, <2>5 DEF Named
<1> QED BY <1>1, <1>3, <1>4, DirsFitOne

\* It keeps the shape.
LEMMA ShapeTakeOver ==
    ASSUME Shape, TakeOver
    PROVE  Shape'
<1>1. Types
  BY DEF Shape
<1>2. /\ setup' = setup /\ up' = up /\ mem' = mem /\ seq' = seq
      /\ dirty' = FALSE /\ dir_unsynced' = TRUE /\ unsynced' = unsynced /\ resnapshot' = FALSE
      /\ writing' = writing /\ sync' = sync /\ secured' = secured /\ covering' = covering
      /\ count' = count
      /\ up /\ writing /\ retired' \in Seq(Nat)
      /\ Added /\ dirs' \in Seq(DirType) /\ dirs' # <<>>
      /\ Range(dirs') = Range(dirs) \cup {Dir'}
      /\ Dir'.active = Len(files) + 1 /\ Dir'.rotated = Dir.rotated
      /\ snap' \in SnapType /\ snap'.stage = "taken"
  BY TakeOverIs
<1>3. Types'
  <2>1. files' \in Seq(FileType)
    BY <1>2 DEF Added
  <2> HIDE DEF DirType, FileType, CountType, SnapType, SyncType
  <2> QED BY <1>1, <1>2, <2>1 DEF Types
<1>4. FilesFit'
  BY <1>2, AddedFits
<1>5. DirsFit'
  <2> DEFINE d == Dir'
  <2>1. Range(dirs') = Range(dirs) \cup {d} /\ Dir' = d /\ d.active = Len(files) + 1
        /\ \A n \in DOMAIN d.rotated : n \in DOMAIN Dir.rotated /\ d.rotated[n] = Dir.rotated[n]
    BY <1>2
  <2> HIDE DEF d
  <2> QED BY <1>2, <2>1, DirsFitNew
<1>6. StagesFit'
  <2>1. Len(files) + 1 # NoFile
    <3>1. Len(files) \in Nat
      BY <1>1 DEF Types
    <3> QED BY <3>1 DEF NoFile
  <2> QED BY <1>2, <2>1 DEF Shape, StagesFit
<1> QED BY <1>3, <1>4, <1>5, <1>6 DEF Shape

\* The snapshot syncs the journals it covers.
LEMMA SyncCoveredIs ==
    ASSUME Shape, SyncCovered
    PROVE  /\ setup' = setup /\ dirs' = dirs /\ up' = up /\ mem' = mem /\ seq' = seq
           /\ dirty' = dirty /\ dir_unsynced' = dir_unsynced /\ retired' = retired
           /\ unsynced' = unsynced /\ resnapshot' = resnapshot /\ writing' = writing
           /\ sync' = sync /\ secured' = secured /\ covering' = covering /\ count' = count
           /\ up /\ snap.stage = "taken" /\ Kept /\ Fewer
           /\ files' = [f \in DOMAIN files |->
                           IF f \in {Dir.rotated[n] : n \in {n \in DOMAIN Dir.rotated : n <= snap.seq}}
                           THEN Synced(files[f]) ELSE files[f]]
           /\ snap' \in SnapType /\ snap'.stage = "synced" /\ snap'.seq = snap.seq
           /\ snap'.state = snap.state
           /\ snap'.covered = {n \in DOMAIN Dir.rotated : n <= snap.seq}
<1>1. Types /\ Dir \in DirType /\ snap \in SnapType
  BY DirIs DEF Shape, Types
<1>2. DOMAIN Dir.rotated \subseteq Nat
  BY <1>1, MapsFact DEF DirType
<1> DEFINE covered == {n \in DOMAIN Dir.rotated : n <= snap.seq}
           S == {Dir.rotated[n] : n \in covered}
<1>3. /\ setup' = setup /\ dirs' = dirs /\ up' = up /\ mem' = mem /\ seq' = seq
      /\ dirty' = dirty /\ dir_unsynced' = dir_unsynced /\ retired' = retired
      /\ unsynced' = unsynced /\ resnapshot' = resnapshot /\ writing' = writing
      /\ sync' = sync /\ secured' = secured /\ covering' = covering /\ count' = count
      /\ up /\ snap.stage = "taken"
      /\ snap' = [snap EXCEPT !.stage = "synced", !.covered = covered]
  BY DEF SyncCovered, server
<1>4. covered \in SUBSET Nat
  BY <1>2
<1>5. files' = [f \in DOMAIN files |-> IF f \in S THEN Synced(files[f]) ELSE files[f]]
  <2>1. files' = [f \in DOMAIN files |->
                     IF \E n \in covered : Dir.rotated[n] = f THEN Synced(files[f]) ELSE files[f]]
    BY DEF SyncCovered
  <2>2. \A f : f \in S <=> \E n \in covered : Dir.rotated[n] = f
    OBVIOUS
  <2> HIDE DEF S, covered
  <2> QED BY <2>1, <2>2
<1>6. Kept
  <2> HIDE DEF S
  <2> QED BY <1>5, KeptSynced
<1>7. Fewer
  BY <1>1, <1>3, FewerIs
<1>8. /\ snap' \in SnapType /\ snap'.stage = "synced" /\ snap'.seq = snap.seq
      /\ snap'.state = snap.state /\ snap'.covered = covered
  <2> HIDE DEF covered
  <2>1. snap' = [snap EXCEPT !.stage = "synced", !.covered = covered]
    BY <1>3
  <2>2. snap' \in SnapType
    BY <1>1, <1>4, <2>1 DEF SnapType
  <2>3. snap'.stage = "synced" /\ snap'.seq = snap.seq
    BY <1>1, <2>1 DEF SnapType
  <2>4. snap'.state = snap.state /\ snap'.covered = covered
    BY <1>1, <2>1 DEF SnapType
  <2> QED BY <2>2, <2>3, <2>4
<1> QED BY <1>3, <1>5, <1>6, <1>7, <1>8

\* It keeps the shape.
LEMMA ShapeSyncCovered ==
    ASSUME Shape, SyncCovered
    PROVE  Shape'
<1>1. Types
  BY DEF Shape
<1>2. /\ setup' = setup /\ up' = up /\ mem' = mem /\ seq' = seq
      /\ dirty' = dirty /\ dir_unsynced' = dir_unsynced /\ retired' = retired
      /\ unsynced' = unsynced /\ resnapshot' = resnapshot /\ writing' = writing
      /\ sync' = sync /\ secured' = secured /\ covering' = covering /\ count' = count
      /\ up /\ snap.stage = "taken" /\ Kept /\ Fewer
      /\ snap' \in SnapType /\ snap'.stage = "synced"
  BY SyncCoveredIs
<1>3. Types'
  <2>1. files' \in Seq(FileType) /\ dirs' \in Seq(DirType) /\ dirs' # <<>>
    BY <1>2 DEF Kept, Fewer
  <2> HIDE DEF DirType, FileType, CountType, SnapType, SyncType
  <2> QED BY <1>1, <1>2, <2>1 DEF Types
<1>4. StagesFit'
  BY <1>2 DEF Shape, StagesFit, Fewer
<1> QED BY <1>2, <1>3, <1>4, ShapeKept
\* The directory with another snapshot.
LEMMA LandedIs ==
    ASSUME NEW d \in DirType, NEW s \in [seq : Nat, state : Seq(Nat)]
    PROVE  /\ [d EXCEPT !.snapshot = s] \in DirType
           /\ [d EXCEPT !.snapshot = s].active = d.active
           /\ [d EXCEPT !.snapshot = s].rotated = d.rotated
           /\ [d EXCEPT !.snapshot = s].snapshot = s
<1> DEFINE c == [d EXCEPT !.snapshot = s]
<1>1. c \in DirType
  BY DEF DirType
<1>2. c.active = d.active /\ c.rotated = d.rotated
  BY DEF DirType
<1>3. c.snapshot = s
  BY DEF DirType
<1> QED BY <1>1, <1>2, <1>3

\* The snapshot takes the place of the one before.
LEMMA LandIs ==
    ASSUME Shape, Land
    PROVE  /\ setup' = setup /\ files' = files /\ up' = up /\ mem' = mem /\ seq' = seq
           /\ dirty' = dirty /\ dir_unsynced' = dir_unsynced /\ retired' = retired
           /\ unsynced' = unsynced /\ resnapshot' = resnapshot /\ writing' = writing
           /\ sync' = sync /\ secured' = secured /\ covering' = covering /\ count' = count
           /\ up /\ writing /\ snap.stage = "synced"
           /\ dirs' \in Seq(DirType) /\ dirs' # <<>> /\ Dir' \in DirType
           /\ Range(dirs') = Range(dirs) \cup {Dir'}
           /\ Dir'.active = Dir.active /\ Dir'.rotated = Dir.rotated
           /\ Dir'.snapshot = [seq |-> snap.seq, state |-> snap.state]
           /\ snap' \in SnapType /\ snap'.stage = "landed" /\ snap'.seq = snap.seq
           /\ snap'.state = snap.state /\ snap'.covered = snap.covered
<1>1. Types /\ Dir \in DirType /\ snap \in SnapType
  BY DirIs DEF Shape, Types
<1> DEFINE s == [seq |-> snap.seq, state |-> snap.state]
           d == [Dir EXCEPT !.snapshot = s]
<1>2. /\ setup' = setup /\ files' = files /\ up' = up /\ mem' = mem /\ seq' = seq
      /\ dirty' = dirty /\ dir_unsynced' = dir_unsynced /\ retired' = retired
      /\ unsynced' = unsynced /\ resnapshot' = resnapshot /\ writing' = writing
      /\ sync' = sync /\ secured' = secured /\ covering' = covering /\ count' = count
      /\ up /\ snap.stage = "synced"
      /\ dirs' = Append(dirs, d) /\ snap' = [snap EXCEPT !.stage = "landed"]
  BY DEF Land, server, Operation
<1>3. writing
  BY <1>2 DEF Shape, StagesFit
<1>4. s \in [seq : Nat, state : Seq(Nat)]
  BY <1>1 DEF SnapType
<1>5. d \in DirType /\ d.active = Dir.active /\ d.rotated = Dir.rotated /\ d.snapshot = s
  <2> HIDE DEF s
  <2> QED BY <1>1, <1>4, LandedIs
<1>6. dirs' \in Seq(DirType) /\ dirs' # <<>> /\ Dir' = d /\ Range(dirs') = Range(dirs) \cup {d}
  <2> HIDE DEF d
  <2> QED BY <1>1, <1>2, <1>5, OperationIs
<1>7. /\ snap' \in SnapType /\ snap'.stage = "landed" /\ snap'.seq = snap.seq
      /\ snap'.state = snap.state /\ snap'.covered = snap.covered
  BY <1>1, <1>2 DEF SnapType
<1> HIDE DEF d
<1> QED BY <1>2, <1>3, <1>5, <1>6, <1>7

\* It keeps the shape.
LEMMA ShapeLand ==
    ASSUME Shape, Land
    PROVE  Shape'
<1>1. Types /\ Dir \in Range(dirs) /\ Len(files) \in Nat
  BY DirIs DEF Shape, Types
<1>2. /\ setup' = setup /\ files' = files /\ up' = up /\ mem' = mem /\ seq' = seq
      /\ dirty' = dirty /\ dir_unsynced' = dir_unsynced /\ retired' = retired
      /\ unsynced' = unsynced /\ resnapshot' = resnapshot /\ writing' = writing
      /\ sync' = sync /\ secured' = secured /\ covering' = covering /\ count' = count
      /\ up /\ snap.stage = "synced"
      /\ dirs' \in Seq(DirType) /\ dirs' # <<>>
      /\ Range(dirs') = Range(dirs) \cup {Dir'}
      /\ Dir'.active = Dir.active /\ Dir'.rotated = Dir.rotated
      /\ snap' \in SnapType /\ snap'.stage = "landed"
  BY LandIs
<1>3. Types'
  <2> HIDE DEF DirType, FileType, CountType, SnapType, SyncType
  <2> QED BY <1>1, <1>2 DEF Types
<1>4. FilesFit'
  BY <1>2 DEF Shape, FilesFit
<1>5. DirsFit'
  <2> DEFINE d == Dir'
  <2>1. /\ Range(dirs') = Range(dirs) \cup {d} /\ Dir' = d
        /\ d.active = Dir.active /\ d.rotated = Dir.rotated
    BY <1>2
  <2> HIDE DEF d
  <2>2. Named(Dir, Len(files))
    BY <1>1 DEF Shape, DirsFit
  <2>3. Named(d, Len(files')) /\ Len(files) <= Len(files') /\ Len(files') \in Nat
    BY <1>1, <1>2, <2>1, <2>2 DEF Named
  <2>4. d.active # NoFile => \A c \in Range(dirs) : \A n \in DOMAIN c.rotated : c.rotated[n] # d.active
    BY <2>1 DEF Shape, DirsFit
  <2> QED BY <2>1, <2>3, <2>4, DirsFitOne
<1>6. StagesFit'
  BY <1>2 DEF Shape, StagesFit
<1> QED BY <1>3, <1>4, <1>5, <1>6 DEF Shape

\* The directory is synced: the snapshot has landed.
LEMMA LandedStepIs ==
    ASSUME Shape, Landed
    PROVE  /\ setup' = setup /\ files' = files /\ up' = up /\ mem' = mem /\ seq' = seq
           /\ dirty' = dirty /\ dir_unsynced' = dir_unsynced /\ retired' = retired
           /\ unsynced' = unsynced /\ resnapshot' = resnapshot /\ writing' = writing
           /\ sync' = sync /\ secured' = secured /\ covering' = covering /\ count' = count
           /\ up /\ writing /\ snap.stage = "landed"
           /\ SyncDir /\ Fewer /\ Kept
           /\ snap' \in SnapType /\ snap'.stage = "deleting" /\ snap'.seq = snap.seq
           /\ snap'.state = snap.state /\ snap'.covered = snap.covered
<1>1. Types /\ snap \in SnapType
  BY DEF Shape, Types
<1>2. /\ setup' = setup /\ files' = files /\ up' = up /\ mem' = mem /\ seq' = seq
      /\ dirty' = dirty /\ dir_unsynced' = dir_unsynced /\ retired' = retired
      /\ unsynced' = unsynced /\ resnapshot' = resnapshot /\ writing' = writing
      /\ sync' = sync /\ secured' = secured /\ covering' = covering /\ count' = count
      /\ up /\ snap.stage = "landed"
      /\ SyncDir /\ snap' = [snap EXCEPT !.stage = "deleting"]
  BY DEF Landed, server
<1>3. writing
  BY <1>2 DEF Shape, StagesFit
<1>4. Fewer /\ Kept
  BY <1>1, <1>2, FewerIs, KeptAll
<1>5. /\ snap' \in SnapType /\ snap'.stage = "deleting" /\ snap'.seq = snap.seq
      /\ snap'.state = snap.state /\ snap'.covered = snap.covered
  BY <1>1, <1>2 DEF SnapType
<1> QED BY <1>2, <1>3, <1>4, <1>5

\* It keeps the shape.
LEMMA ShapeLanded ==
    ASSUME Shape, Landed
    PROVE  Shape'
<1>1. Types
  BY DEF Shape
<1>2. /\ setup' = setup /\ files' = files /\ up' = up /\ mem' = mem /\ seq' = seq
      /\ dirty' = dirty /\ dir_unsynced' = dir_unsynced /\ retired' = retired
      /\ unsynced' = unsynced /\ resnapshot' = resnapshot /\ writing' = writing
      /\ sync' = sync /\ secured' = secured /\ covering' = covering /\ count' = count
      /\ up /\ snap.stage = "landed" /\ Fewer /\ Kept
      /\ snap' \in SnapType /\ snap'.stage = "deleting"
  BY LandedStepIs
<1>3. Types'
  <2>1. dirs' \in Seq(DirType) /\ dirs' # <<>>
    BY <1>2 DEF Fewer
  <2> HIDE DEF DirType, FileType, CountType, SnapType, SyncType
  <2> QED BY <1>1, <1>2, <2>1 DEF Types
<1>4. StagesFit'
  BY <1>2 DEF Shape, StagesFit, Fewer
<1> QED BY <1>2, <1>3, <1>4, ShapeKept

\* A journal it covers is deleted.
LEMMA DeleteIs ==
    ASSUME Shape, Delete
    PROVE  /\ setup' = setup /\ files' = files /\ up' = up /\ mem' = mem /\ seq' = seq
           /\ dirty' = dirty /\ dir_unsynced' = dir_unsynced /\ retired' = retired
           /\ unsynced' = unsynced /\ resnapshot' = resnapshot /\ writing' = writing
           /\ sync' = sync /\ secured' = secured /\ covering' = covering /\ count' = count
           /\ up /\ writing /\ snap.stage = "deleting"
           /\ dirs' \in Seq(DirType) /\ dirs' # <<>> /\ Dir' \in DirType
           /\ Range(dirs') = Range(dirs) \cup {Dir'}
           /\ Dir'.active = Dir.active /\ Dir'.snapshot = Dir.snapshot
           /\ \A m \in DOMAIN Dir'.rotated : m \in DOMAIN Dir.rotated /\ Dir'.rotated[m] = Dir.rotated[m]
           /\ \A m \in DOMAIN Dir.rotated : m \notin snap.covered => m \in DOMAIN Dir'.rotated
           /\ snap' \in SnapType /\ snap'.stage = "deleting" /\ snap'.seq = snap.seq
           /\ snap'.state = snap.state /\ snap'.covered \subseteq snap.covered
           /\ \A m \in snap'.covered : m \in DOMAIN Dir.rotated => m \in DOMAIN Dir'.rotated
<1>1. Types /\ Dir \in DirType /\ snap \in SnapType
  BY DirIs DEF Shape, Types
<1> DEFINE n == Min(snap.covered)
           r == [m \in DOMAIN Dir.rotated \ {n} |-> Dir.rotated[m]]
           d == [Dir EXCEPT !.rotated = r]
<1>2. /\ setup' = setup /\ files' = files /\ up' = up /\ mem' = mem /\ seq' = seq
      /\ dirty' = dirty /\ dir_unsynced' = dir_unsynced /\ retired' = retired
      /\ unsynced' = unsynced /\ resnapshot' = resnapshot /\ writing' = writing
      /\ sync' = sync /\ secured' = secured /\ covering' = covering /\ count' = count
      /\ up /\ snap.stage = "deleting" /\ snap.covered # {}
      /\ dirs' = Append(dirs, d) /\ snap' = [snap EXCEPT !.covered = @ \ {n}]
  BY DEF Delete, server, Operation
<1>3. writing
  BY <1>2 DEF Shape, StagesFit
<1>4. n \in snap.covered
  <2>1. snap.covered \in SUBSET Nat
    BY <1>1 DEF SnapType
  <2>2. \E x \in snap.covered : \A y \in snap.covered : x <= y
    BY <1>2, <2>1, LeastOf
  <2> QED BY <2>2 DEF Min
<1>5. r \in Maps(Nat, Nat)
  <2>1. Dir.rotated \in Maps(Nat, Nat)
    BY <1>1 DEF DirType
  <2>2. DOMAIN Dir.rotated \subseteq Nat /\ Dir.rotated \in [DOMAIN Dir.rotated -> Nat]
    BY <2>1, MapsFact
  <2>3. DOMAIN r \subseteq Nat /\ r \in [DOMAIN r -> Nat]
    BY <2>2
  <2> HIDE DEF r
  <2> QED BY <2>3, MapsFact
<1>6. /\ DOMAIN r = DOMAIN Dir.rotated \ {n}
      /\ \A m \in DOMAIN r : m \in DOMAIN Dir.rotated /\ r[m] = Dir.rotated[m]
  OBVIOUS
<1>7. d \in DirType /\ d.active = Dir.active /\ d.rotated = r /\ d.snapshot = Dir.snapshot
  <2> HIDE DEF r
  <2> QED BY <1>1, <1>5 DEF DirType
<1>8. dirs' \in Seq(DirType) /\ dirs' # <<>> /\ Dir' = d /\ Range(dirs') = Range(dirs) \cup {d}
  <2> HIDE DEF d
  <2> QED BY <1>1, <1>2, <1>7, OperationIs
<1>9. /\ snap' \in SnapType /\ snap'.stage = "deleting" /\ snap'.seq = snap.seq
      /\ snap'.state = snap.state /\ snap'.covered = snap.covered \ {n}
  <2> DEFINE c == snap.covered \ {n}
  <2>1. c \in SUBSET Nat /\ snap' = [snap EXCEPT !.covered = c]
    BY <1>1, <1>2 DEF SnapType
  <2> HIDE DEF c
  <2>2. snap' \in SnapType
    BY <1>1, <2>1 DEF SnapType
  <2>3. snap'.stage = "deleting" /\ snap'.seq = snap.seq /\ snap'.state = snap.state /\ snap'.covered = c
    BY <1>1, <1>2, <2>1 DEF SnapType
  <2> QED BY <2>2, <2>3 DEF c
<1> HIDE DEF d, r, n
<1> QED BY <1>2, <1>3, <1>4, <1>6, <1>7, <1>8, <1>9

\* It keeps the shape.
LEMMA ShapeDelete ==
    ASSUME Shape, Delete
    PROVE  Shape'
<1>1. Types /\ Dir \in Range(dirs) /\ Len(files) \in Nat
  BY DirIs DEF Shape, Types
<1>2. /\ setup' = setup /\ files' = files /\ up' = up /\ mem' = mem /\ seq' = seq
      /\ dirty' = dirty /\ dir_unsynced' = dir_unsynced /\ retired' = retired
      /\ unsynced' = unsynced /\ resnapshot' = resnapshot /\ writing' = writing
      /\ sync' = sync /\ secured' = secured /\ covering' = covering /\ count' = count
      /\ up /\ snap.stage = "deleting"
      /\ dirs' \in Seq(DirType) /\ dirs' # <<>>
      /\ Range(dirs') = Range(dirs) \cup {Dir'}
      /\ Dir'.active = Dir.active
      /\ \A m \in DOMAIN Dir'.rotated : m \in DOMAIN Dir.rotated /\ Dir'.rotated[m] = Dir.rotated[m]
      /\ snap' \in SnapType /\ snap'.stage = "deleting"
  BY DeleteIs
<1>3. Types'
  <2> HIDE DEF DirType, FileType, CountType, SnapType, SyncType
  <2> QED BY <1>1, <1>2 DEF Types
<1>4. FilesFit'
  BY <1>2 DEF Shape, FilesFit
<1>5. DirsFit'
  <2> DEFINE d == Dir'
  <2>1. /\ Range(dirs') = Range(dirs) \cup {d} /\ Dir' = d
        /\ d.active = Dir.active
        /\ \A m \in DOMAIN d.rotated : m \in DOMAIN Dir.rotated /\ d.rotated[m] = Dir.rotated[m]
    BY <1>2
  <2> HIDE DEF d
  <2>2. Named(Dir, Len(files))
    BY <1>1 DEF Shape, DirsFit
  <2>3. Named(d, Len(files')) /\ Len(files) <= Len(files') /\ Len(files') \in Nat
    BY <1>1, <1>2, <2>1, <2>2 DEF Named
  <2>4. d.active # NoFile => \A c \in Range(dirs) : \A n \in DOMAIN c.rotated : c.rotated[n] # d.active
    BY <2>1 DEF Shape, DirsFit
  <2> QED BY <2>1, <2>3, <2>4, DirsFitOne
<1>6. StagesFit'
  BY <1>2 DEF Shape, StagesFit
<1> QED BY <1>3, <1>4, <1>5, <1>6 DEF Shape
\* The snapshot is through.
LEMMA FinishIs ==
    ASSUME Shape, Finish
    PROVE  /\ setup' = setup /\ files' = files /\ up' = up /\ mem' = mem /\ seq' = seq
           /\ dirty' = dirty /\ dir_unsynced' = dir_unsynced /\ retired' = retired
           /\ unsynced' = unsynced /\ resnapshot' = resnapshot
           /\ sync' = sync /\ secured' = secured /\ covering' = covering /\ count' = count
           /\ up /\ writing /\ snap.stage = "deleting"
           /\ SyncDir /\ Fewer /\ Kept
           /\ snap' = NoSnap /\ writing' = FALSE
<1>1. /\ setup' = setup /\ files' = files /\ up' = up /\ mem' = mem /\ seq' = seq
      /\ dirty' = dirty /\ dir_unsynced' = dir_unsynced /\ retired' = retired
      /\ unsynced' = unsynced /\ resnapshot' = resnapshot
      /\ sync' = sync /\ secured' = secured /\ covering' = covering /\ count' = count
      /\ up /\ snap.stage = "deleting"
      /\ SyncDir /\ snap' = NoSnap /\ writing' = FALSE
  BY DEF Finish, server
<1>2. writing /\ Types
  BY <1>1 DEF Shape, StagesFit
<1>3. Fewer /\ Kept
  BY <1>1, <1>2, FewerIs, KeptAll
<1> QED BY <1>1, <1>2, <1>3

\* No snapshot is a snapshot that is none.
LEMMA NoSnapIs == NoSnap \in SnapType /\ NoSnap.stage = "none" /\ NoSync \in SyncType
<1>1. <<>> \in Seq(Nat)
  OBVIOUS
<1> QED BY <1>1 DEF NoSnap, SnapType, NoSync, SyncType, NoFile

\* It keeps the shape.
LEMMA ShapeFinish ==
    ASSUME Shape, Finish
    PROVE  Shape'
<1>1. Types
  BY DEF Shape
<1>2. /\ setup' = setup /\ up' = up /\ mem' = mem /\ seq' = seq
      /\ dirty' = dirty /\ dir_unsynced' = dir_unsynced /\ retired' = retired
      /\ unsynced' = unsynced /\ resnapshot' = resnapshot
      /\ sync' = sync /\ secured' = secured /\ covering' = covering /\ count' = count
      /\ up /\ snap.stage = "deleting" /\ Fewer /\ Kept
      /\ snap' = NoSnap /\ writing' = FALSE
  BY FinishIs
<1>3. Types'
  <2>1. dirs' \in Seq(DirType) /\ dirs' # <<>> /\ files' \in Seq(FileType)
    BY <1>2 DEF Fewer, Kept
  <2> HIDE DEF DirType, FileType, CountType, SnapType, SyncType
  <2> QED BY <1>1, <1>2, <2>1, NoSnapIs DEF Types
<1>4. StagesFit'
  BY <1>2, NoSnapIs DEF Shape, StagesFit, Fewer
<1> QED BY <1>2, <1>3, <1>4, ShapeKept

\* A snapshot is given up.
LEMMA GiveUpIs ==
    ASSUME Shape, GiveUp
    PROVE  /\ setup' = setup /\ files' = files /\ dirs' = dirs /\ up' = up /\ mem' = mem /\ seq' = seq
           /\ dirty' = dirty /\ dir_unsynced' = dir_unsynced /\ retired' = retired
           /\ unsynced' = unsynced /\ resnapshot' = resnapshot
           /\ sync' = sync /\ secured' = secured /\ covering' = covering
           /\ up /\ writing /\ snap.stage \in {"taken", "synced", "deleting"}
           /\ Fewer /\ Kept
           /\ snap' = NoSnap /\ writing' = FALSE
           /\ count' = [count EXCEPT !.snapshotFailures = @ + 1] /\ count' \in CountType
           /\ count'.changes = count.changes
           /\ count'.rewrites = count.rewrites /\ count'.crashes = count.crashes
           /\ count'.powerLosses = count.powerLosses
           /\ count'.snapshotFailures = count.snapshotFailures + 1
<1>1. /\ setup' = setup /\ files' = files /\ dirs' = dirs /\ up' = up /\ mem' = mem /\ seq' = seq
      /\ dirty' = dirty /\ dir_unsynced' = dir_unsynced /\ retired' = retired
      /\ unsynced' = unsynced /\ resnapshot' = resnapshot
      /\ sync' = sync /\ secured' = secured /\ covering' = covering
      /\ up /\ snap.stage \in {"taken", "synced", "deleting"} /\ snap' = NoSnap /\ writing' = FALSE
      /\ count' = [count EXCEPT !.snapshotFailures = @ + 1]
  BY DEF GiveUp, server, Count
<1>2. writing /\ Types
  BY <1>1 DEF Shape, StagesFit
<1>3. Fewer /\ Kept
  BY <1>1, <1>2, FewerIs, KeptAll
<1>4. /\ count' \in CountType
      /\ count'.changes = count.changes
      /\ count'.rewrites = count.rewrites /\ count'.crashes = count.crashes
      /\ count'.powerLosses = count.powerLosses
      /\ count'.snapshotFailures = count.snapshotFailures + 1
  BY <1>1, <1>2, CountSnapshotFailures
<1> QED BY <1>1, <1>2, <1>3, <1>4

\* It keeps the shape.
LEMMA ShapeGiveUp ==
    ASSUME Shape, GiveUp
    PROVE  Shape'
<1>1. Types
  BY DEF Shape
<1>2. /\ setup' = setup /\ files' = files /\ dirs' = dirs /\ up' = up /\ mem' = mem /\ seq' = seq
      /\ dirty' = dirty /\ dir_unsynced' = dir_unsynced /\ retired' = retired
      /\ unsynced' = unsynced /\ resnapshot' = resnapshot
      /\ sync' = sync /\ secured' = secured /\ covering' = covering
      /\ up /\ snap.stage \in {"taken", "synced", "deleting"} /\ Fewer /\ Kept
      /\ snap' = NoSnap /\ writing' = FALSE /\ count' \in CountType
      /\ count'.crashes = count.crashes /\ count'.powerLosses = count.powerLosses
  BY GiveUpIs
<1>3. Types'
  <2> HIDE DEF DirType, FileType, CountType, SnapType, SyncType
  <2> QED BY <1>1, <1>2, NoSnapIs DEF Types
<1>4. StagesFit'
  BY <1>2, NoSnapIs DEF Shape, StagesFit, Fewer
<1> QED BY <1>2, <1>3, <1>4, ShapeKept

\* The process ends.
LEMMA CrashIs ==
    ASSUME Shape, Crash
    PROVE  /\ setup' = setup /\ files' = files /\ dirs' = dirs /\ mem' = mem /\ seq' = seq
           /\ dirty' = dirty /\ dir_unsynced' = dir_unsynced /\ retired' = retired
           /\ unsynced' = unsynced /\ resnapshot' = resnapshot
           /\ secured' = secured /\ covering' = covering
           /\ up /\ ~up' /\ up' \in BOOLEAN
           /\ Fewer /\ Kept
           /\ snap' = NoSnap /\ writing' = FALSE /\ sync' = NoSync
           /\ count' = [count EXCEPT !.crashes = @ + 1] /\ count' \in CountType
           /\ count'.changes = count.changes
           /\ count'.rewrites = count.rewrites /\ count'.crashes = count.crashes + 1
           /\ count'.powerLosses = count.powerLosses
           /\ count'.snapshotFailures = count.snapshotFailures
<1>1. /\ setup' = setup /\ files' = files /\ dirs' = dirs /\ mem' = mem /\ seq' = seq
      /\ dirty' = dirty /\ dir_unsynced' = dir_unsynced /\ retired' = retired
      /\ unsynced' = unsynced /\ resnapshot' = resnapshot
      /\ secured' = secured /\ covering' = covering
      /\ up /\ up' = FALSE /\ snap' = NoSnap /\ writing' = FALSE /\ sync' = NoSync
      /\ count' = [count EXCEPT !.crashes = @ + 1]
  BY DEF Crash, Down, server, Count
<1>2. Types
  BY DEF Shape
<1>3. Fewer /\ Kept
  BY <1>1, <1>2, FewerIs, KeptAll
<1>4. /\ count' \in CountType
      /\ count'.changes = count.changes
      /\ count'.rewrites = count.rewrites /\ count'.crashes = count.crashes + 1
      /\ count'.powerLosses = count.powerLosses
      /\ count'.snapshotFailures = count.snapshotFailures
  BY <1>1, <1>2, CountCrashes
<1> QED BY <1>1, <1>3, <1>4

\* It keeps the shape.
LEMMA ShapeCrash ==
    ASSUME Shape, Crash
    PROVE  Shape'
<1>1. Types
  BY DEF Shape
<1>2. /\ setup' = setup /\ files' = files /\ dirs' = dirs /\ mem' = mem /\ seq' = seq
      /\ dirty' = dirty /\ dir_unsynced' = dir_unsynced /\ retired' = retired
      /\ unsynced' = unsynced /\ resnapshot' = resnapshot
      /\ secured' = secured /\ covering' = covering
      /\ up /\ ~up' /\ up' \in BOOLEAN /\ Fewer /\ Kept
      /\ snap' = NoSnap /\ writing' = FALSE /\ sync' = NoSync /\ count' \in CountType
      /\ count'.crashes = count.crashes + 1 /\ count'.powerLosses = count.powerLosses
  BY CrashIs
<1>3. Types'
  <2> HIDE DEF DirType, FileType, CountType, SnapType, SyncType
  <2> QED BY <1>1, <1>2, NoSnapIs DEF Types
<1>4. StagesFit'
  <2>1. count'.crashes + count'.powerLosses > 0
    <3>1. count.crashes \in Nat /\ count.powerLosses \in Nat
      BY <1>1 DEF Types, CountType
    <3> QED BY <1>2, <3>1
  <2> QED BY <1>2, <2>1, NoSnapIs DEF StagesFit
<1> QED BY <1>2, <1>3, <1>4, ShapeKept

\* A power loss leaves one of the directories, and of each file a beginning,
\* with all that is durable.
Cut(cut) ==
    /\ files' \in Seq(FileType) /\ Len(files') = Len(files) /\ DOMAIN files' = DOMAIN files
    /\ \A f \in DOMAIN files :
          /\ cut[f] \in Nat /\ files[f].synced <= cut[f] /\ cut[f] <= Len(files[f].lines)
          /\ Len(files'[f].lines) = cut[f]
          /\ \A i \in 1 .. cut[f] : files'[f].lines[i] = files[f].lines[i]
          /\ files'[f].synced = cut[f] /\ ~files'[f].bad

\* So it is.
LEMMA PowerLossIs ==
    ASSUME Shape, PowerLoss
    PROVE  /\ setup' = setup /\ mem' = mem /\ seq' = seq
           /\ dirty' = dirty /\ dir_unsynced' = dir_unsynced /\ retired' = retired
           /\ unsynced' = unsynced /\ resnapshot' = resnapshot
           /\ secured' = secured /\ covering' = covering
           /\ up /\ ~up' /\ up' \in BOOLEAN
           /\ \E cut : Cut(cut)
           /\ dirs' \in Seq(DirType) /\ dirs' # <<>> /\ Len(dirs') = 1
           /\ Dir' \in Range(dirs) /\ Range(dirs') = {Dir'}
           /\ snap' = NoSnap /\ writing' = FALSE /\ sync' = NoSync
           /\ count' = [count EXCEPT !.powerLosses = @ + 1] /\ count' \in CountType
           /\ count'.changes = count.changes
           /\ count'.rewrites = count.rewrites /\ count'.crashes = count.crashes
           /\ count'.powerLosses = count.powerLosses + 1
           /\ count'.snapshotFailures = count.snapshotFailures
<1>0. Types /\ files \in Seq(FileType) /\ dirs \in Seq(DirType)
  BY DEF Shape, Types
<1>1. /\ setup' = setup /\ mem' = mem /\ seq' = seq
      /\ dirty' = dirty /\ dir_unsynced' = dir_unsynced /\ retired' = retired
      /\ unsynced' = unsynced /\ resnapshot' = resnapshot
      /\ secured' = secured /\ covering' = covering
      /\ up /\ up' = FALSE /\ snap' = NoSnap /\ writing' = FALSE /\ sync' = NoSync
      /\ count' = [count EXCEPT !.powerLosses = @ + 1]
  BY DEF PowerLoss, Down, server, Count
<1>2. PICK i \in DOMAIN dirs, cut \in Cuts :
          /\ dirs' = <<dirs[i]>>
          /\ files' = [f \in DOMAIN files |->
                          [lines |-> SubSeq(files[f].lines, 1, cut[f]),
                           synced |-> cut[f], bad |-> FALSE]]
  BY DEF PowerLoss
<1>3. ASSUME NEW f \in DOMAIN files
      PROVE  /\ files'[f] \in FileType
             /\ cut[f] \in Nat /\ files[f].synced <= cut[f] /\ cut[f] <= Len(files[f].lines)
             /\ Len(files'[f].lines) = cut[f]
             /\ \A k \in 1 .. cut[f] : files'[f].lines[k] = files[f].lines[k]
             /\ files'[f].synced = cut[f] /\ ~files'[f].bad
  <2>1. files[f] \in FileType
    BY <1>0
  <2>2. files[f].lines \in Seq(Line) /\ files[f].synced \in Nat /\ Len(files[f].lines) \in Nat
    BY <2>1 DEF FileType
  <2>3. cut[f] \in files[f].synced .. Len(files[f].lines)
    BY DEF Cuts
  <2>4. cut[f] \in Nat /\ files[f].synced <= cut[f] /\ cut[f] <= Len(files[f].lines)
    BY <2>2, <2>3
  <2> DEFINE ls == SubSeq(files[f].lines, 1, cut[f])
  <2>5. ls \in Seq(Line) /\ Len(ls) = cut[f] /\ \A k \in 1 .. cut[f] : ls[k] = files[f].lines[k]
    <3>1. \A k \in 1 .. cut[f] : files[f].lines[k] \in Line
      <4> HIDE DEF Line
      <4> QED BY <2>2, <2>4
    <3> HIDE DEF Line
    <3>2. /\ ls \in Seq(Line)
          /\ Len(ls) = IF 1 <= cut[f] THEN cut[f] - 1 + 1 ELSE 0
          /\ \A k \in 1 .. cut[f] - 1 + 1 : ls[k] = files[f].lines[1 + k - 1]
      BY <2>4, <3>1, SubSeqProperties
    <3>3. \A k \in 1 .. cut[f] : k \in 1 .. cut[f] - 1 + 1 /\ 1 + k - 1 = k
      BY <2>4
    <3>4. Len(ls) = cut[f]
      BY <2>4, <3>2
    <3> QED BY <3>2, <3>3, <3>4
  <2> HIDE DEF ls
  <2>6. files'[f] = [lines |-> ls, synced |-> cut[f], bad |-> FALSE]
    BY <1>2 DEF ls
  <2>7. files'[f] \in FileType
    BY <2>4, <2>5, <2>6 DEF FileType
  <2> QED BY <2>4, <2>5, <2>6, <2>7
<1>4. Cut(cut)
  <2>1. DOMAIN files' = 1 .. Len(files) /\ DOMAIN files = 1 .. Len(files) /\ Len(files) \in Nat
    BY <1>0, <1>2
  <2>2. files' \in [1 .. Len(files) -> FileType]
    <3>1. \A f \in 1 .. Len(files) : files'[f] \in FileType
      BY <1>3, <2>1
    <3>2. files' = [f \in 1 .. Len(files) |-> files'[f]]
      BY <1>2, <2>1
    <3> HIDE DEF FileType
    <3> QED BY <3>1, <3>2
  <2>3. files' \in Seq(FileType) /\ Len(files') = Len(files)
    <3> HIDE DEF FileType
    <3> QED BY <2>1, <2>2, IsASeq, LenProperties
  <2> QED BY <1>3, <2>1, <2>3 DEF Cut
<1>5. dirs[i] \in DirType /\ dirs[i] \in Range(dirs)
  BY <1>0, RangeFact
<1>6. dirs' \in Seq(DirType) /\ dirs' # <<>> /\ Len(dirs') = 1 /\ Dir' = dirs[i] /\ Range(dirs') = {dirs[i]}
  <2> DEFINE d == dirs[i]
  <2> HIDE DEF d, DirType
  <2>1. dirs' = <<d>> /\ d \in DirType
    BY <1>2, <1>5 DEF d
  <2>2. DOMAIN <<d>> = {1} /\ <<d>>[1] = d /\ Len(<<d>>) = 1 /\ <<d>> \in Seq(DirType) /\ <<d>> # <<>>
    BY <2>1
  <2>3. Range(<<d>>) = {d} /\ Last(<<d>>) = d
    BY <2>2 DEF Range, Last
  <2> QED BY <2>1, <2>2, <2>3 DEF Dir, d
<1>7. /\ count' \in CountType
      /\ count'.changes = count.changes
      /\ count'.rewrites = count.rewrites /\ count'.crashes = count.crashes
      /\ count'.powerLosses = count.powerLosses + 1
      /\ count'.snapshotFailures = count.snapshotFailures
  BY <1>0, <1>1, CountPowerLosses
<1> HIDE DEF Cut
<1> QED BY <1>1, <1>4, <1>5, <1>6, <1>7

\* It keeps the shape.
LEMMA ShapePowerLoss ==
    ASSUME Shape, PowerLoss
    PROVE  Shape'
<1>1. Types
  BY DEF Shape
<1>2. /\ setup' = setup /\ mem' = mem /\ seq' = seq
      /\ dirty' = dirty /\ dir_unsynced' = dir_unsynced /\ retired' = retired
      /\ unsynced' = unsynced /\ resnapshot' = resnapshot
      /\ secured' = secured /\ covering' = covering
      /\ up /\ ~up' /\ up' \in BOOLEAN
      /\ dirs' \in Seq(DirType) /\ dirs' # <<>>
      /\ Dir' \in Range(dirs) /\ Range(dirs') = {Dir'}
      /\ snap' = NoSnap /\ writing' = FALSE /\ sync' = NoSync /\ count' \in CountType
      /\ count'.crashes = count.crashes /\ count'.powerLosses = count.powerLosses + 1
  BY PowerLossIs
<1>3. PICK cut : Cut(cut)
  BY PowerLossIs
<1>4. Types'
  <2>1. files' \in Seq(FileType)
    BY <1>3 DEF Cut
  <2> HIDE DEF DirType, FileType, CountType, SnapType, SyncType
  <2> QED BY <1>1, <1>2, <2>1, NoSnapIs DEF Types
<1>5. FilesFit'
  <2>1. \A f \in DOMAIN files : cut[f] <= cut[f]
    BY <1>3 DEF Cut
  <2> QED BY <1>3, <2>1 DEF FilesFit, Cut
<1>6. DirsFit'
  <2> DEFINE d == Dir'
  <2>1. d \in Range(dirs) /\ Range(dirs') = {d} /\ Dir' = d /\ Len(files') = Len(files)
    BY <1>2, <1>3 DEF Cut
  <2> HIDE DEF d
  <2>2. Named(d, Len(files'))
    BY <2>1 DEF Shape, DirsFit
  <2>3. \A n \in DOMAIN d.rotated : d.rotated[n] # d.active
    BY <2>2 DEF Named
  <2> QED BY <2>1, <2>2, <2>3 DEF DirsFit
<1>7. StagesFit'
  <2>1. count'.crashes + count'.powerLosses > 0
    <3>1. count.crashes \in Nat /\ count.powerLosses \in Nat
      BY <1>1 DEF Types, CountType
    <3> QED BY <1>2, <3>1
  <2> QED BY <1>2, <2>1, NoSnapIs DEF StagesFit
<1> QED BY <1>4, <1>5, <1>6, <1>7 DEF Shape
\* What a restart makes of the directory.
LEMMA OpenIs ==
    ASSUME Shape, Open
    PROVE  /\ setup' = setup /\ writing' = writing /\ snap' = snap /\ sync' = sync
           /\ secured' = secured /\ covering' = covering /\ count' = count
           /\ ~up /\ up' /\ up' \in BOOLEAN /\ ~writing /\ snap.stage = "none" /\ sync = NoSync
           /\ mem' = Replayed(Dir, AllLines) /\ seq' = ReplayedSeq(Dir, AllLines)
           /\ mem' \in Seq(Nat) /\ seq' \in Nat
           /\ dirty' = FALSE /\ dir_unsynced' = FALSE
           /\ retired' = <<>> /\ unsynced' = FALSE /\ resnapshot' = FALSE
           /\ dirs' \in Seq(DirType) /\ dirs' # <<>> /\ Dir' \in DirType
           /\ Range(dirs') = Range(dirs) \cup {Dir'}
           /\ Dir'.snapshot = Dir.snapshot
           /\ DOMAIN Dir'.rotated = {n \in DOMAIN Dir.rotated : n > Dir.snapshot.seq}
           /\ \A n \in DOMAIN Dir'.rotated : Dir'.rotated[n] = Dir.rotated[n]
           /\ \/ Dir.active # NoFile /\ Dir'.active = Dir.active /\ files' = files
              \/ Dir.active = NoFile /\ Dir'.active = Len(files) + 1 /\ Added
<1>0. Types /\ Dir \in DirType /\ Dir \in Range(dirs) /\ Len(files) \in Nat /\ Named(Dir, Len(files))
  BY DirIs DEF Shape, Types, DirsFit
<1> DEFINE kept == {n \in DOMAIN Dir.rotated : n > Dir.snapshot.seq}
           r == [n \in kept |-> Dir.rotated[n]]
           a == IF Dir.active = NoFile THEN Len(files) + 1 ELSE Dir.active
           opened == [Dir EXCEPT !.rotated = r, !.active = a]
<1>1. /\ setup' = setup /\ writing' = writing /\ snap' = snap /\ sync' = sync
      /\ secured' = secured /\ covering' = covering /\ count' = count
      /\ ~up /\ up' = TRUE
      /\ mem' = Replayed(Dir, AllLines) /\ seq' = ReplayedSeq(Dir, AllLines)
      /\ dirty' = FALSE /\ dir_unsynced' = FALSE
      /\ retired' = <<>> /\ unsynced' = FALSE /\ resnapshot' = FALSE
      /\ dirs' = (IF opened = Dir THEN dirs ELSE Append(dirs, opened))
      /\ files' = (IF Dir.active = NoFile THEN Append(files, EmptyFile) ELSE files)
  BY DEF Open
<1>2. ~writing /\ snap.stage = "none" /\ sync = NoSync
  BY <1>0, <1>1 DEF Shape, StagesFit, Types
<1>3. mem' \in Seq(Nat) /\ seq' \in Nat
  <2>1. Readable(Dir, AllLines)
    BY <1>0, AllReadable
  <2> QED BY <1>1, <2>1, ReplayedAre, ReplayedSeqIs
<1>4. r \in Maps(Nat, Nat) /\ DOMAIN r = kept /\ \A n \in kept : r[n] = Dir.rotated[n]
  <2>1. Dir.rotated \in Maps(Nat, Nat)
    BY <1>0 DEF DirType
  <2>2. DOMAIN Dir.rotated \subseteq Nat /\ Dir.rotated \in [DOMAIN Dir.rotated -> Nat]
    BY <2>1, MapsFact
  <2>3. DOMAIN r \subseteq Nat /\ r \in [DOMAIN r -> Nat] /\ DOMAIN r = kept /\ \A n \in kept : r[n] = Dir.rotated[n]
    BY <2>2
  <2> HIDE DEF r
  <2> QED BY <2>3, MapsFact
<1>5. a \in Nat
  BY <1>0 DEF DirType
<1>6. opened \in DirType /\ opened.active = a /\ opened.rotated = r /\ opened.snapshot = Dir.snapshot
  <2> HIDE DEF r, a
  <2>1. opened \in DirType
    BY <1>0, <1>4, <1>5 DEF DirType
  <2>2. opened.active = a /\ opened.rotated = r /\ opened.snapshot = Dir.snapshot
    BY <1>0 DEF DirType
  <2> QED BY <2>1, <2>2
<1>7. dirs' \in Seq(DirType) /\ dirs' # <<>> /\ Dir' = opened /\ Range(dirs') = Range(dirs) \cup {opened}
  <2> HIDE DEF opened
  <2>1. CASE opened = Dir
    BY <1>0, <1>1, <2>1 DEF Types, Dir
  <2>2. CASE opened # Dir
    BY <1>0, <1>1, <1>6, <2>2, OperationIs
  <2> QED BY <2>1, <2>2
<1>8. \/ Dir.active # NoFile /\ opened.active = Dir.active /\ files' = files
      \/ Dir.active = NoFile /\ opened.active = Len(files) + 1 /\ Added
  <2>1. CASE Dir.active = NoFile
    BY <1>0, <1>1, <1>6, <2>1, AddedIs
  <2>2. CASE Dir.active # NoFile
    BY <1>1, <1>6, <2>2
  <2> QED BY <2>1, <2>2
<1> HIDE DEF opened, r, a
<1> QED BY <1>1, <1>2, <1>3, <1>4, <1>6, <1>7, <1>8

\* It keeps the shape.
LEMMA ShapeOpen ==
    ASSUME Shape, Open
    PROVE  Shape'
<1>1. Types /\ Dir \in Range(dirs) /\ Len(files) \in Nat
  BY DirIs DEF Shape, Types
<1>2. /\ setup' = setup /\ writing' = writing /\ snap' = snap /\ sync' = sync
      /\ secured' = secured /\ covering' = covering /\ count' = count
      /\ up' /\ up' \in BOOLEAN /\ snap.stage = "none" /\ ~writing
      /\ mem' \in Seq(Nat) /\ seq' \in Nat
      /\ dirty' = FALSE /\ dir_unsynced' = FALSE
      /\ retired' = <<>> /\ unsynced' = FALSE /\ resnapshot' = FALSE
      /\ dirs' \in Seq(DirType) /\ dirs' # <<>> /\ Dir' \in DirType
      /\ Range(dirs') = Range(dirs) \cup {Dir'}
      /\ \A n \in DOMAIN Dir'.rotated : n \in DOMAIN Dir.rotated /\ Dir'.rotated[n] = Dir.rotated[n]
  BY OpenIs
<1>3. \/ Dir.active # NoFile /\ Dir'.active = Dir.active /\ files' = files
      \/ Dir.active = NoFile /\ Dir'.active = Len(files) + 1 /\ Added
  BY OpenIs
<1>4. Types'
  <2>1. files' \in Seq(FileType)
    BY <1>1, <1>3 DEF Added, Types
  <2>2. retired' \in Seq(Nat)
    <3>1. <<>> \in Seq(Nat)
      OBVIOUS
    <3> QED BY <1>2, <3>1
  <2> HIDE DEF DirType, FileType, CountType, SnapType, SyncType
  <2> QED BY <1>1, <1>2, <2>1, <2>2 DEF Types
<1> DEFINE d == Dir'
<1>5. /\ Range(dirs') = Range(dirs) \cup {d} /\ Dir' = d
      /\ \A n \in DOMAIN d.rotated : n \in DOMAIN Dir.rotated /\ d.rotated[n] = Dir.rotated[n]
      /\ \/ Dir.active # NoFile /\ d.active = Dir.active /\ files' = files
         \/ Dir.active = NoFile /\ d.active = Len(files) + 1 /\ Added
  BY <1>2, <1>3
<1> HIDE DEF d
<1>6. CASE Dir.active # NoFile /\ d.active = Dir.active /\ files' = files
  <2>1. FilesFit'
    BY <1>6 DEF Shape, FilesFit
  <2>2. Named(Dir, Len(files))
    BY <1>1 DEF Shape, DirsFit
  <2>3. Named(d, Len(files')) /\ Len(files) <= Len(files') /\ Len(files') \in Nat
    BY <1>1, <1>5, <1>6, <2>2 DEF Named
  <2>4. d.active # NoFile => \A c \in Range(dirs) : \A n \in DOMAIN c.rotated : c.rotated[n] # d.active
    BY <1>6 DEF Shape, DirsFit
  <2>5. DirsFit'
    BY <1>5, <2>3, <2>4, DirsFitOne
  <2>6. StagesFit'
    BY <1>2, <1>5, <1>6 DEF Shape, StagesFit
  <2> QED BY <1>4, <2>1, <2>5, <2>6 DEF Shape
<1>7. CASE Dir.active = NoFile /\ d.active = Len(files) + 1 /\ Added
  <2>1. FilesFit'
    BY <1>7, AddedFits
  <2>2. DirsFit'
    BY <1>5, <1>7, DirsFitNew
  <2>3. Len(files) + 1 # NoFile
    BY <1>1 DEF NoFile
  <2>4. StagesFit'
    BY <1>2, <1>5, <1>7, <2>3 DEF Shape, StagesFit
  <2> QED BY <1>4, <2>1, <2>2, <2>4 DEF Shape
<1> QED BY <1>5, <1>6, <1>7

\* No rename is taken back.
LEMMA NotUndone == Shape => ~RollBack
  BY DEF RollBack, Shape, Types, CountType

\* Every step keeps the shape.
LEMMA ShapeNext == Shape /\ [Next]_vars => Shape'
<1> SUFFICES ASSUME Shape, [Next]_vars PROVE Shape'
  OBVIOUS
<1>1. CASE UNCHANGED vars
  BY <1>1 DEF vars, server, Shape, Types, FilesFit, DirsFit, StagesFit, Dir
<1>2. CASE Change
  BY <1>2, ShapeChange
<1>3. CASE TakeSync
  BY <1>3, ShapeTakeSync
<1>4. CASE SyncNext
  BY <1>4, ShapeSyncNext
<1>5. CASE SyncEnds
  BY <1>5, ShapeSyncEnds
<1>6. CASE SyncFails
  BY <1>6, ShapeSyncFails
<1>7. CASE StartRewrite
  BY <1>7, ShapeStartRewrite
<1>8. CASE TakeOver
  BY <1>8, ShapeTakeOver
<1>9. CASE SyncCovered
  BY <1>9, ShapeSyncCovered
<1>10. CASE Land
  BY <1>10, ShapeLand
<1>11. CASE Landed
  BY <1>11, ShapeLanded
<1>12. CASE Delete
  BY <1>12, ShapeDelete
<1>13. CASE Finish
  BY <1>13, ShapeFinish
<1>14. CASE GiveUp
  BY <1>14, ShapeGiveUp
<1>15. CASE Crash
  BY <1>15, ShapeCrash
<1>16. CASE PowerLoss
  BY <1>16, ShapePowerLoss
<1>17. CASE Open
  BY <1>17, ShapeOpen
<1> QED BY <1>1, <1>2, <1>3, <1>4, <1>5, <1>6, <1>7, <1>8, <1>9, <1>10, <1>11, <1>12,
           <1>13, <1>14, <1>15, <1>16, <1>17, NotUndone DEF Next

\* The variables are what they are in every state.
LEMMA AlwaysShape == ASSUME NamesAlwaysLast PROVE Spec => []Shape
BY ShapeInit, ShapeNext, PTL DEF Spec
-----------------------------------------------------------------------------
(***************************************************************************)
(* A failed sync is made good.                                             *)
(***************************************************************************)
\* What may become a risk, and where it is read from, does not grow: as in every
\* step but those a failed sync or a snapshot brings.
LEMMA MadeGoodQuiet ==
    ASSUME Shape, MadeGood, up, up', Dir' = Dir, Range(dirs') \subseteq Range(dirs),
           DOMAIN files' = DOMAIN files, \A f \in DOMAIN files : files'[f].bad = files[f].bad,
           \A f \in DOMAIN files :
              f \in Range(retired') \cup Range(sync'.retired) \cup {sync'.file} => AtRisk(f) \/ f = Dir.active,
           seq' \in Nat, seq <= seq', writing' = writing, snap'.seq = snap.seq, resnapshot' = resnapshot,
           snap'.stage \in {"taken", "synced", "landed", "deleting"} =>
              snap.stage \in {"taken", "synced", "landed", "deleting"},
           snap'.stage \in {"landed", "deleting"} => snap.stage \in {"landed", "deleting"},
           count'.snapshotFailures = count.snapshotFailures, count'.crashes = count.crashes
    PROVE  MadeGood'
<1> SUFFICES ASSUME count.snapshotFailures = 0, count.crashes = 0
             PROVE  /\ \A n \in DOMAIN Dir.rotated :
                          AtRisk(Dir.rotated[n])' => n <= seq' /\ (writing' => n <= snap'.seq)
                    /\ snap'.stage \in {"taken", "synced", "landed", "deleting"} /\ ~resnapshot' =>
                          ~files'[Dir.active].bad
                    /\ snap'.stage \in {"landed", "deleting"} => Dir.snapshot.seq = snap'.seq
                    /\ Lossy' => resnapshot' \/ writing'
  BY DEF MadeGood, AtRisk
<1>1. /\ seq \in Nat /\ Dir \in DirType /\ Dir \in Range(dirs) /\ Named(Dir, Len(files))
      /\ files \in Seq(FileType) /\ Len(files) \in Nat
  BY DirIs DEF Shape, Types, DirsFit
<1>2. DOMAIN Dir.rotated \subseteq Nat /\ \A n \in DOMAIN Dir.rotated : Dir.rotated[n] \in DOMAIN files
  <2>1. DOMAIN Dir.rotated \subseteq Nat
    BY <1>1, MapsFact DEF DirType
  <2> QED BY <1>1, <2>1 DEF Named
<1>3. ASSUME NEW n \in DOMAIN Dir.rotated, AtRisk(Dir.rotated[n])'
      PROVE  n <= seq' /\ (writing' => n <= snap'.seq)
  <2> DEFINE f == Dir.rotated[n]
  <2>1. f \in DOMAIN files /\ n \in Nat /\ f # Dir.active
    BY <1>1, <1>2 DEF Named
  <2>2. files'[f].bad \/ f \in Range(retired') \cup Range(sync'.retired) \cup {sync'.file}
    BY <1>3 DEF AtRisk
  <2>3. AtRisk(f)
    BY <2>1, <2>2 DEF AtRisk
  <2>4. n <= seq /\ (writing => n <= snap.seq)
    BY <2>3 DEF MadeGood
  <2> QED BY <1>1, <2>1, <2>4
<1>4. Lossy' => resnapshot' \/ writing'
  <2> SUFFICES ASSUME Lossy' PROVE resnapshot' \/ writing'
    OBVIOUS
  <2>1. PICK i \in DOMAIN dirs' : \E f \in Live(dirs'[i]) : files'[f].bad
    BY DEF Lossy
  <2>2. PICK f \in Live(dirs'[i]) : files'[f].bad
    BY <2>1
  <2>3. dirs'[i] \in Range(dirs)
    BY RangeFact
  <2>4. dirs'[i] \in DirType /\ Named(dirs'[i], Len(files))
    BY <2>3, DirsAre DEF Shape, DirsFit
  <2>5. f \in DOMAIN files
    <3>1. Live(dirs'[i]) \subseteq 1 .. Len(files)
      BY <1>1, <2>4, LiveIs
    <3> QED BY <1>1, <3>1
  <2>6. PICK j \in DOMAIN dirs : dirs[j] = dirs'[i]
    BY <2>3, RangeFact
  <2>7. Lossy
    BY <2>2, <2>5, <2>6 DEF Lossy
  <2> QED BY <2>7 DEF MadeGood
<1>5. snap'.stage \in {"taken", "synced", "landed", "deleting"} /\ ~resnapshot' => ~files'[Dir.active].bad
  <2> SUFFICES ASSUME snap'.stage \in {"taken", "synced", "landed", "deleting"}, ~resnapshot'
               PROVE  ~files'[Dir.active].bad
    OBVIOUS
  <2>1. snap.stage # "renaming"
    OBVIOUS
  <2>2. Dir.active # NoFile
    BY <2>1 DEF Shape, StagesFit
  <2>3. Dir.active \in DOMAIN files
    BY <2>2, ActiveIs
  <2> QED BY <2>3 DEF MadeGood
<1>6. snap'.stage \in {"landed", "deleting"} => Dir.snapshot.seq = snap'.seq
  BY DEF MadeGood
<1> QED BY <1>3, <1>4, <1>5, <1>6

\* What is bad is when the files are synced.
LEMMA SyncedBad ==
    ASSUME Shape, NEW S,
           files' = [f \in DOMAIN files |-> IF f \in S THEN Synced(files[f]) ELSE files[f]]
    PROVE  DOMAIN files' = DOMAIN files /\ \A f \in DOMAIN files : files'[f].bad = files[f].bad
<1>1. \A f \in DOMAIN files : files[f] \in FileType /\ files[f].synced <= Len(files[f].lines)
  BY DEF Shape, Types, FilesFit
<1>2. ASSUME NEW f \in DOMAIN files PROVE files'[f].bad = files[f].bad
  <2>1. Synced(files[f]).bad = files[f].bad
    BY <1>1, SyncedIs
  <2>2. files'[f] = IF f \in S THEN Synced(files[f]) ELSE files[f]
    OBVIOUS
  <2> QED BY <2>1, <2>2
<1> QED BY <1>2

\* The quiet steps.
LEMMA MadeGoodChange ==
    ASSUME Shape, MadeGood, Change
    PROVE  MadeGood'
<1>1. /\ up /\ up' = up /\ retired' = retired /\ sync' = sync /\ snap' = snap /\ writing' = writing
      /\ resnapshot' = resnapshot
  BY DEF Change, Free
<1>2. Fewer /\ count'.snapshotFailures = count.snapshotFailures /\ count'.crashes = count.crashes
      /\ seq' = seq + 1 /\ seq \in Nat
  BY ChangeIs DEF Shape, Types
<1>3. DOMAIN files' = DOMAIN files /\ \A f \in DOMAIN files : files'[f].bad = files[f].bad
  BY ChangeGrows DEF Grown
<1>4. seq' \in Nat /\ seq <= seq'
  BY <1>2
<1> QED BY <1>1, <1>2, <1>3, <1>4, MadeGoodQuiet DEF Fewer, AtRisk

\* A tick takes the files at risk over from Journal, and they stay at risk.
LEMMA MadeGoodTakeSync ==
    ASSUME Shape, MadeGood, TakeSync
    PROVE  MadeGood'
<1>1. /\ files' = files /\ dirs' = dirs /\ up' = up /\ seq' = seq /\ resnapshot' = resnapshot
      /\ writing' = writing /\ snap' = snap /\ count' = count /\ up /\ sync = NoSync
  BY TakeSyncIs
<1>2. /\ Range(retired') \cup Range(sync'.retired) \subseteq Range(retired) \cup Range(sync.retired)
      /\ sync'.file \in {sync.file, Dir.active, NoFile}
  <2>1. CASE sync' = sync /\ retired' = retired
    BY <2>1
  <2>2. ASSUME NEW cloned \in BOOLEAN, Taken(cloned)
        PROVE  /\ Range(retired') \cup Range(sync'.retired) \subseteq Range(retired) \cup Range(sync.retired)
               /\ sync'.file \in {sync.file, Dir.active, NoFile}
    <3>1. Range(retired') = {}
      BY <2>2, RangeFact DEF Taken
    <3>2. sync'.retired = retired /\ sync'.file \in {Dir.active, NoFile}
      BY <2>2 DEF Taken
    <3> QED BY <3>1, <3>2
  <2> QED BY <2>1, <2>2, TakeSyncIs
<1>3. seq \in Nat /\ NoFile \notin DOMAIN files
  BY DEF Shape, Types, NoFile
<1>4. Dir' = Dir
  BY <1>1 DEF Dir
<1>5. \A f \in DOMAIN files :
         f \in Range(retired') \cup Range(sync'.retired) \cup {sync'.file} => AtRisk(f) \/ f = Dir.active
  BY <1>2, <1>3 DEF AtRisk
<1> QED BY <1>1, <1>3, <1>4, <1>5, MadeGoodQuiet

\* A file that is synced is no longer waited for, and none becomes bad.
LEMMA MadeGoodSyncNext ==
    ASSUME Shape, MadeGood, SyncNext
    PROVE  MadeGood'
<1>1. /\ up' = up /\ seq' = seq /\ retired' = retired
      /\ resnapshot' = resnapshot /\ writing' = writing /\ snap' = snap
      /\ count' = count /\ up /\ Fewer
  BY SyncNextIs
<1>2. DOMAIN files' = DOMAIN files /\ \A f \in DOMAIN files : files'[f].bad = files[f].bad
  <2>1. CASE files' = files
    BY <2>1
  <2> DEFINE S == {Head(sync.retired)}
             T == {sync.file}
  <2>2. CASE files' = [f \in DOMAIN files |-> IF f \in S THEN Synced(files[f]) ELSE files[f]]
    <3> HIDE DEF S
    <3> QED BY <2>2, SyncedBad
  <2>3. CASE files' = [f \in DOMAIN files |-> IF f \in T THEN Synced(files[f]) ELSE files[f]]
    <3> HIDE DEF T
    <3> QED BY <2>3, SyncedBad
  <2> QED BY <2>1, <2>2, <2>3, SyncNextIs
<1>3. seq \in Nat /\ NoFile \notin DOMAIN files /\ sync.retired \in Seq(Nat)
  BY DEF Shape, Types, NoFile, SyncType
<1>4. Range(sync'.retired) \subseteq Range(sync.retired) /\ sync'.file \in {sync.file, NoFile}
  <2>1. CASE sync'.retired = sync.retired /\ sync'.file \in {sync.file, NoFile}
    BY <2>1
  <2>2. CASE sync.retired # <<>> /\ sync'.retired = Tail(sync.retired) /\ sync'.file = sync.file
    <3>1. \A i \in DOMAIN Tail(sync.retired) : i + 1 \in DOMAIN sync.retired /\ Tail(sync.retired)[i] = sync.retired[i + 1]
      BY <1>3, <2>2
    <3>2. \A i \in DOMAIN Tail(sync.retired) : Tail(sync.retired)[i] \in Range(sync.retired)
      BY <3>1, RangeFact
    <3>3. ASSUME NEW x \in Range(sync'.retired) PROVE x \in Range(sync.retired)
      <4>1. PICK i \in DOMAIN Tail(sync.retired) : Tail(sync.retired)[i] = x
        BY <2>2, RangeFact
      <4> QED BY <3>2, <4>1
    <3> QED BY <2>2, <3>3
  <2> QED BY <2>1, <2>2, SyncNextIs
<1>5. \A f \in DOMAIN files :
         f \in Range(retired') \cup Range(sync'.retired) \cup {sync'.file} => AtRisk(f) \/ f = Dir.active
  BY <1>1, <1>3, <1>4 DEF AtRisk
<1> QED BY <1>1, <1>2, <1>3, <1>5, MadeGoodQuiet DEF Fewer

\* A sync that ends leaves the snapshot due.
LEMMA MadeGoodSyncEnds ==
    ASSUME Shape, MadeGood, SyncEnds
    PROVE  MadeGood'
<1>1. /\ files' = files /\ dirs' = dirs /\ up' = up /\ seq' = seq /\ retired' = retired
      /\ resnapshot' = resnapshot /\ writing' = writing
      /\ snap' = snap /\ count' = count /\ up /\ sync' = NoSync
  BY SyncEndsIs
<1>2. seq \in Nat /\ NoFile \notin DOMAIN files
  BY DEF Shape, Types, NoFile
<1>3. Range(sync'.retired) = {} /\ sync'.file = NoFile
  BY <1>1, RangeFact DEF NoSync
<1>4. Dir' = Dir
  BY <1>1 DEF Dir
<1>5. \A f \in DOMAIN files :
         f \in Range(retired') \cup Range(sync'.retired) \cup {sync'.file} => AtRisk(f) \/ f = Dir.active
  BY <1>1, <1>2, <1>3 DEF AtRisk
<1> QED BY <1>1, <1>2, <1>4, <1>5, MadeGoodQuiet

\* Syncing what the snapshot covers makes no file bad.
LEMMA MadeGoodSyncCovered ==
    ASSUME Shape, MadeGood, SyncCovered
    PROVE  MadeGood'
<1>1. /\ up' = up /\ seq' = seq /\ retired' = retired
      /\ resnapshot' = resnapshot /\ writing' = writing /\ snap'.seq = snap.seq
      /\ snap'.stage = "synced" /\ snap.stage = "taken"
      /\ count' = count /\ up /\ sync' = sync /\ Fewer
  BY SyncCoveredIs
<1>2. DOMAIN files' = DOMAIN files /\ \A f \in DOMAIN files : files'[f].bad = files[f].bad
  <2> DEFINE S == {Dir.rotated[n] : n \in {n \in DOMAIN Dir.rotated : n <= snap.seq}}
  <2>1. files' = [f \in DOMAIN files |-> IF f \in S THEN Synced(files[f]) ELSE files[f]]
    BY SyncCoveredIs
  <2> HIDE DEF S
  <2> QED BY <2>1, SyncedBad
<1>3. seq \in Nat
  BY DEF Shape, Types
<1>4. seq' \in Nat /\ seq <= seq'
  BY <1>1, <1>3
<1> QED BY <1>1, <1>2, <1>4, MadeGoodQuiet DEF Fewer, AtRisk

\* Nor does the sync of the directory.
LEMMA MadeGoodLanded ==
    ASSUME Shape, MadeGood, Landed
    PROVE  MadeGood'
<1>1. /\ files' = files /\ up' = up /\ seq' = seq /\ retired' = retired
      /\ resnapshot' = resnapshot /\ writing' = writing /\ snap'.seq = snap.seq
      /\ snap'.stage = "deleting" /\ snap.stage = "landed"
      /\ count' = count /\ up /\ sync' = sync /\ Fewer
  BY LandedStepIs
<1>2. seq \in Nat
  BY DEF Shape, Types
<1>3. seq' \in Nat /\ seq <= seq'
  BY <1>1, <1>2
<1> QED BY <1>1, <1>3, MadeGoodQuiet DEF Fewer, AtRisk
\* The first state.
LEMMA MadeGoodInit == Shape /\ Init => MadeGood
<1> SUFFICES ASSUME Shape, Init PROVE MadeGood
  OBVIOUS
<1>1. up /\ snap.stage = "none" /\ \A n \in DOMAIN Dir.rotated : FALSE
  <2>1. up /\ snap.stage = "none"
    BY DEF Init, NoSnap
  <2> DEFINE at(f) == [active |-> f, rotated |-> <<>>, snapshot |-> NoSnapshot]
  <2>2. dirs = IF setup.new THEN <<at(NoFile), at(1)>> ELSE <<at(1)>>
    BY DEF Init
  <2>3. DOMAIN at(1).rotated = {}
    OBVIOUS
  <2> HIDE DEF at
  <2>4. Dir = at(1)
    BY <2>2 DEF Dir, Last
  <2> QED BY <2>1, <2>3, <2>4
<1>2. \A f \in DOMAIN files : ~files[f].bad
  BY DEF Init, EmptyFile
<1>3. ~Lossy
  <2> SUFFICES ASSUME Lossy PROVE FALSE
    OBVIOUS
  <2>1. PICK i \in DOMAIN dirs : \E f \in Live(dirs[i]) : files[f].bad
    BY DEF Lossy
  <2>2. dirs[i] \in Range(dirs) /\ Len(files) \in Nat /\ DOMAIN files = 1 .. Len(files)
    BY RangeFact DEF Shape, Types
  <2>3. dirs[i] \in DirType /\ Named(dirs[i], Len(files))
    BY <2>2, DirsAre DEF Shape, DirsFit
  <2>4. Live(dirs[i]) \subseteq 1 .. Len(files)
    BY <2>2, <2>3, LiveIs
  <2> QED BY <1>2, <2>1, <2>2, <2>4
<1> QED BY <1>1, <1>2, <1>3 DEF MadeGood

\* A failed sync is made good by the snapshot that is due.
LEMMA MadeGoodSyncFails ==
    ASSUME Shape, MadeGood, SyncFails
    PROVE  MadeGood'
<1>1. /\ dirs' = dirs /\ up' = up /\ seq' = seq /\ writing' = writing /\ snap' = snap
      /\ up /\ sync' = NoSync /\ resnapshot' = TRUE
      /\ Range(retired') = Range(sync.retired) \cup Range(retired)
      /\ count'.crashes = count.crashes
      /\ count'.snapshotFailures = count.snapshotFailures
  BY SyncFailsIs
<1>2. files' = [f \in DOMAIN files |->
                   IF f \in Range(sync.retired) \cup {sync.file}
                   THEN [files[f] EXCEPT !.bad = TRUE] ELSE files[f]]
  BY SyncFailsIs
<1>3. ASSUME NEW f \in DOMAIN files, files'[f].bad
      PROVE  files[f].bad \/ f \in Range(sync.retired) \cup {sync.file}
  BY <1>2, <1>3
<1>4. Dir' = Dir /\ sync'.file = NoFile /\ Range(sync'.retired) = {}
  BY <1>1, RangeFact DEF Dir, NoSync
<1>5. \A n \in DOMAIN Dir.rotated : Dir.rotated[n] \in DOMAIN files /\ Dir.rotated[n] # NoFile
  BY DirIs DEF Shape, Types, DirsFit, Named, NoFile
<1>6. ASSUME NEW n \in DOMAIN Dir.rotated, AtRisk(Dir.rotated[n])'
      PROVE  AtRisk(Dir.rotated[n])
  BY <1>1, <1>3, <1>4, <1>5, <1>6 DEF AtRisk
<1> SUFFICES ASSUME count.snapshotFailures = 0, count.crashes = 0
             PROVE  /\ \A n \in DOMAIN Dir.rotated :
                          AtRisk(Dir.rotated[n])' => n <= seq /\ (writing => n <= snap.seq)
                    /\ snap.stage \in {"landed", "deleting"} => Dir.snapshot.seq = snap.seq
  BY <1>1, <1>4 DEF MadeGood, AtRisk
<1> QED BY <1>1, <1>6 DEF MadeGood

\* A snapshot covers the journals set aside.
LEMMA MadeGoodStartRewrite ==
    ASSUME Shape, MadeGood, StartRewrite
    PROVE  MadeGood'
<1>1. /\ files' = files /\ up' = up /\ seq' = seq /\ retired' = retired /\ sync' = sync
      /\ up /\ writing' = TRUE /\ snap'.stage = "renaming" /\ snap'.seq = seq
      /\ count'.crashes = count.crashes
      /\ count'.snapshotFailures = count.snapshotFailures
  BY StartRewriteIs
<1>2. \/ Dir' = Dir
      \/ seq \notin DOMAIN Dir.rotated /\ Dir' = SetAside(Dir, seq)
  BY StartRewriteIs
<1>3. Dir \in DirType /\ seq \in Nat
  BY DirIs DEF Shape, Types
<1>4. ASSUME NEW n \in DOMAIN Dir'.rotated
      PROVE  n = seq \/ (n \in DOMAIN Dir.rotated /\ Dir'.rotated[n] = Dir.rotated[n])
  <2>1. CASE Dir' = Dir
    BY <2>1
  <2>2. CASE seq \notin DOMAIN Dir.rotated /\ Dir' = SetAside(Dir, seq)
    BY <1>3, <2>2, SetAsideIs
  <2> QED BY <1>2, <2>1, <2>2
<1> SUFFICES ASSUME count.snapshotFailures = 0, count.crashes = 0
             PROVE  \A n \in DOMAIN Dir'.rotated : AtRisk(Dir.rotated[n])' => n <= seq
  BY <1>1 DEF MadeGood, AtRisk
<1> SUFFICES ASSUME NEW n \in DOMAIN Dir'.rotated, AtRisk(Dir.rotated[n])', n # seq
             PROVE  n <= seq
  BY <1>3
<1>5. n \in DOMAIN Dir.rotated /\ AtRisk(Dir.rotated[n])
  BY <1>1, <1>4 DEF AtRisk
<1> QED BY <1>1, <1>5 DEF MadeGood

\* The journal set aside last is under the snapshot's number.
LEMMA MadeGoodTakeOver ==
    ASSUME Shape, MadeGood, TakeOver
    PROVE  MadeGood'
<1>1. /\ up' = up /\ seq' = seq /\ resnapshot' = FALSE /\ writing' = writing /\ sync' = sync
      /\ count' = count /\ up /\ writing /\ Added
      /\ snap.stage = "renaming" /\ snap'.stage = "taken" /\ snap'.seq = snap.seq
      /\ Dir'.active = Len(files) + 1 /\ Dir'.rotated = Dir.rotated
  BY TakeOverIs
<1>2. Range(retired') \subseteq Range(retired) \cup {Current}
  <2>1. CASE retired' = retired
    BY <2>1
  <2>2. CASE retired' = Append(retired, Current)
    <3>1. retired \in Seq(Nat)
      BY DEF Shape, Types
    <3>2. \A i \in DOMAIN retired' : (i \in DOMAIN retired /\ retired'[i] = retired[i]) \/ retired'[i] = Current
      BY <2>2, <3>1
    <3> QED BY <3>2, RangeFact
  <2> QED BY <2>1, <2>2, TakeOverIs
<1>3. Named(Dir, Len(files)) /\ seq \in DOMAIN Dir.rotated /\ snap.seq = seq /\ seq \in Nat
      /\ Len(files) \in Nat /\ DOMAIN files = 1 .. Len(files)
      /\ (Dir.active # NoFile => \A n \in DOMAIN Dir.rotated : Dir.rotated[n] # Dir.active)
  BY <1>1, DirIs DEF Shape, Types, DirsFit, StagesFit
<1>4. ASSUME NEW n \in DOMAIN Dir.rotated, Dir.rotated[n] = Current
      PROVE  n = seq
  <2>1. CASE Dir.active # NoFile
    BY <1>3, <1>4, <2>1 DEF Current
  <2>2. CASE Dir.active = NoFile
    BY <1>3, <1>4, <2>2 DEF Current, Named
  <2> QED BY <2>1, <2>2
<1>5. ASSUME NEW n \in DOMAIN Dir.rotated, AtRisk(Dir.rotated[n])'
      PROVE  n = seq \/ AtRisk(Dir.rotated[n])
  <2>1. Dir.rotated[n] \in DOMAIN files
    BY <1>3 DEF Named
  <2>2. files'[Dir.rotated[n]] = files[Dir.rotated[n]]
    BY <1>1, <2>1 DEF Added
  <2> QED BY <1>1, <1>2, <1>4, <1>5, <2>2 DEF AtRisk
<1>6. ~files'[Dir'.active].bad
  BY <1>1 DEF Added, EmptyFile
<1> SUFFICES ASSUME count.snapshotFailures = 0, count.crashes = 0
             PROVE  \A n \in DOMAIN Dir.rotated :
                          AtRisk(Dir.rotated[n])' => n <= seq /\ n <= snap.seq
  BY <1>1, <1>6 DEF MadeGood, AtRisk
<1> QED BY <1>1, <1>3, <1>5 DEF MadeGood

\* The snapshot lands.
LEMMA MadeGoodLand ==
    ASSUME Shape, MadeGood, Land
    PROVE  MadeGood'
<1>1. /\ files' = files /\ up' = up /\ seq' = seq /\ retired' = retired
      /\ resnapshot' = resnapshot /\ writing' = writing /\ sync' = sync /\ count' = count
      /\ up /\ writing /\ snap.stage = "synced" /\ snap'.seq = snap.seq
      /\ Dir'.active = Dir.active /\ Dir'.rotated = Dir.rotated
      /\ Dir'.snapshot.seq = snap.seq
  BY LandIs
<1> QED BY <1>1 DEF MadeGood, AtRisk

\* A journal it covers is deleted.
LEMMA MadeGoodDelete ==
    ASSUME Shape, MadeGood, Delete
    PROVE  MadeGood'
<1>1. /\ files' = files /\ up' = up /\ seq' = seq /\ retired' = retired
      /\ resnapshot' = resnapshot /\ writing' = writing /\ sync' = sync /\ count' = count
      /\ up /\ writing /\ snap.stage = "deleting" /\ snap'.seq = snap.seq
      /\ Dir'.active = Dir.active /\ Dir'.snapshot = Dir.snapshot
      /\ \A m \in DOMAIN Dir'.rotated : m \in DOMAIN Dir.rotated /\ Dir'.rotated[m] = Dir.rotated[m]
  BY DeleteIs
<1> QED BY <1>1 DEF MadeGood, AtRisk

\* It is through: what it covers is not read again.
LEMMA MadeGoodFinish ==
    ASSUME Shape, MadeGood, Finish
    PROVE  MadeGood'
<1>1. /\ files' = files /\ up' = up /\ seq' = seq /\ retired' = retired
      /\ resnapshot' = resnapshot /\ sync' = sync /\ count' = count
      /\ up /\ writing /\ snap.stage = "deleting" /\ writing' = FALSE /\ snap' = NoSnap
      /\ Dir' = Dir /\ SyncDir
  BY FinishIs DEF Fewer
<1>2. snap'.stage = "none"
  BY <1>1, NoSnapIs
<1>3. Dir \in DirType /\ Named(Dir, Len(files)) /\ Len(files) \in Nat /\ Types /\ snap \in SnapType
  BY DirIs DEF Shape, Types, DirsFit
<1> SUFFICES ASSUME count.snapshotFailures = 0, count.crashes = 0, Lossy'
             PROVE  resnapshot
  BY <1>1, <1>2 DEF MadeGood, AtRisk
<1>4. PICK i \in DOMAIN dirs' : \E f \in Live(dirs'[i]) : files'[f].bad
  BY DEF Lossy
<1>5. PICK f \in Live(dirs'[i]) : files'[f].bad
  BY <1>4
<1>6. dirs'[i] = Dir
  <2>1. Range(dirs') = {Dir}
    BY <1>1, <1>3, SyncDirIs
  <2> QED BY <2>1, RangeFact
<1>7. f = Dir.active \/ \E n \in DOMAIN Dir.rotated : n > Dir.snapshot.seq /\ Dir.rotated[n] = f
  BY <1>3, <1>5, <1>6, LiveIs
<1>8. CASE f = Dir.active
  BY <1>1, <1>5, <1>8 DEF MadeGood
<1>9. ASSUME NEW n \in DOMAIN Dir.rotated, n > Dir.snapshot.seq, Dir.rotated[n] = f
      PROVE  FALSE
  <2>1. n <= snap.seq /\ Dir.snapshot.seq = snap.seq
    BY <1>1, <1>5, <1>9 DEF MadeGood, AtRisk
  <2>2. n \in Nat /\ snap.seq \in Nat
    BY <1>3, MapsFact DEF DirType, SnapType
  <2> QED BY <1>9, <2>1, <2>2
<1> QED BY <1>7, <1>8, <1>9

\* A power loss leaves nothing waiting for the disk.
LEMMA MadeGoodPowerLoss ==
    ASSUME Shape, MadeGood, PowerLoss
    PROVE  MadeGood'
<1>1. ~up' /\ snap' = NoSnap /\ writing' = FALSE
  BY PowerLossIs
<1>2. \A f \in DOMAIN files' : ~files'[f].bad
  BY PowerLossIs DEF Cut
<1>3. snap'.stage = "none"
  BY <1>1, NoSnapIs
<1> QED BY <1>1, <1>2, <1>3 DEF MadeGood

\* Nor does a restart.
LEMMA MadeGoodOpen ==
    ASSUME Shape, MadeGood, Open
    PROVE  MadeGood'
<1>1. /\ ~up /\ up' /\ snap'.stage = "none" /\ retired' = <<>> /\ sync' = NoSync /\ count' = count
      /\ \/ files' = files
         \/ Added
  BY OpenIs
<1> SUFFICES ASSUME count.snapshotFailures = 0, count.crashes = 0
             PROVE  /\ \A n \in DOMAIN Dir'.rotated : ~AtRisk(Dir.rotated[n])'
                    /\ ~Lossy'
  BY <1>1 DEF MadeGood, AtRisk
<1>2. \A f \in DOMAIN files : ~files[f].bad
  BY <1>1 DEF MadeGood
<1>3. \A f \in DOMAIN files' : ~files'[f].bad
  BY <1>1, <1>2 DEF Added, EmptyFile
<1>4. Shape'
  BY ShapeOpen
<1>5. Range(retired') = {} /\ Range(sync'.retired) = {} /\ sync'.file = NoFile
  BY <1>1, RangeFact DEF NoSync
<1>6. Len(files') \in Nat /\ DOMAIN files' = 1 .. Len(files')
  BY <1>4 DEF Shape, Types
<1>7. \A d \in Range(dirs') : d \in DirType /\ Named(d, Len(files'))
  BY <1>4, RangeFact DEF Shape, Types, DirsFit
<1>8. ASSUME NEW n \in DOMAIN Dir'.rotated PROVE ~AtRisk(Dir.rotated[n])'
  <2>1. Dir' \in Range(dirs')
    BY OpenIs
  <2>2. Dir'.rotated[n] \in 1 .. Len(files')
    BY <1>7, <2>1 DEF Named
  <2> QED BY <1>3, <1>5, <1>6, <2>2 DEF AtRisk, NoFile
<1>9. ~Lossy'
  <2> SUFFICES ASSUME Lossy' PROVE FALSE
    OBVIOUS
  <2>1. PICK i \in DOMAIN dirs' : \E f \in Live(dirs'[i]) : files'[f].bad
    BY DEF Lossy
  <2>2. dirs'[i] \in Range(dirs')
    BY RangeFact
  <2>3. Live(dirs'[i]) \subseteq 1 .. Len(files')
    BY <1>6, <1>7, <2>2, LiveIs
  <2> QED BY <1>3, <1>6, <2>1, <2>3
<1> QED BY <1>8, <1>9

\* Every step keeps it.
LEMMA MadeGoodNext == Shape /\ MadeGood /\ [Next]_vars => MadeGood'
<1> SUFFICES ASSUME Shape, MadeGood, [Next]_vars PROVE MadeGood'
  OBVIOUS
<1>1. CASE UNCHANGED vars
  BY <1>1 DEF vars, server, MadeGood, AtRisk, Lossy, Dir
<1>2. CASE Change
  BY <1>2, MadeGoodChange
<1>3. CASE TakeSync
  BY <1>3, MadeGoodTakeSync
<1>4. CASE SyncNext
  BY <1>4, MadeGoodSyncNext
<1>5. CASE SyncEnds
  BY <1>5, MadeGoodSyncEnds
<1>6. CASE SyncFails
  BY <1>6, MadeGoodSyncFails
<1>7. CASE StartRewrite
  BY <1>7, MadeGoodStartRewrite
<1>8. CASE TakeOver
  BY <1>8, MadeGoodTakeOver
<1>9. CASE SyncCovered
  BY <1>9, MadeGoodSyncCovered
<1>10. CASE Land
  BY <1>10, MadeGoodLand
<1>11. CASE Landed
  BY <1>11, MadeGoodLanded
<1>12. CASE Delete
  BY <1>12, MadeGoodDelete
<1>13. CASE Finish
  BY <1>13, MadeGoodFinish
<1>14. CASE GiveUp
  <2>1. count'.snapshotFailures = count.snapshotFailures + 1 /\ count.snapshotFailures \in Nat
    BY <1>14, GiveUpIs DEF Shape, Types, CountType
  <2>2. count'.snapshotFailures # 0
    BY <2>1
  <2> QED BY <2>2 DEF MadeGood
<1>15. CASE Crash
  <2>1. count'.crashes = count.crashes + 1 /\ count.crashes \in Nat
    BY <1>15, CrashIs DEF Shape, Types, CountType
  <2>2. count'.crashes # 0
    BY <2>1
  <2> QED BY <2>2 DEF MadeGood
<1>16. CASE PowerLoss
  BY <1>16, MadeGoodPowerLoss
<1>17. CASE Open
  BY <1>17, MadeGoodOpen
<1> QED BY <1>1, <1>2, <1>3, <1>4, <1>5, <1>6, <1>7, <1>8, <1>9, <1>10, <1>11, <1>12, <1>13,
           <1>14, <1>15, <1>16, <1>17, NotUndone DEF Next

\* It holds of every state.
THEOREM AlwaysMadeGood ==
    ASSUME NamesAlwaysLast PROVE Spec => []MadeGood
<1>1. Init => MadeGood
  BY ShapeInit, MadeGoodInit
<1> QED BY <1>1, AlwaysShape, MadeGoodNext, PTL DEF Spec

\* As long as no snapshot fails and the process lives, lines that a failed sync
\* may have left off the disk are waiting for a snapshot that is due or on its
\* way, whatever syncs and rewrites went before (Journal::synced, start_rewrite).
THEOREM AFailedSyncIsMadeGood ==
    ASSUME NamesAlwaysLast PROVE Spec => []FailedSyncIsMadeGoodIfWritten
<1>1. Shape /\ MadeGood => FailedSyncIsMadeGoodIfWritten
  BY DEF Shape, Types, CountType, MadeGood, FailedSyncIsMadeGoodIfWritten, FailedSyncIsMadeGood
<1> QED BY <1>1, AlwaysShape, AlwaysMadeGood, PTL
-----------------------------------------------------------------------------
(***************************************************************************)
(* The lines a directory has to read.                                      *)
(***************************************************************************)
\* What the files hold, each.
LEMMA WrittenIs ==
    ASSUME Types
    PROVE  /\ DOMAIN written = DOMAIN files /\ DOMAIN files = 1 .. Len(files) /\ Len(files) \in Nat
           /\ \A f \in DOMAIN files : written[f] = files[f].lines /\ written[f] \in Seq(Line)
           /\ \A f \in DOMAIN files : \A i \in DOMAIN written[f] :
                 written[f][i].s \in Nat /\ written[f][i].e \in Nat
<1>1. files \in Seq(FileType)
  BY DEF Types
<1>2. ASSUME NEW f \in DOMAIN files
      PROVE  written[f] = files[f].lines /\ written[f] \in Seq(Line)
  <2>1. files[f] \in FileType
    BY <1>1
  <2> QED BY <2>1 DEF written, FileType
<1>3. ASSUME NEW f \in DOMAIN files, NEW i \in DOMAIN written[f]
      PROVE  written[f][i].s \in Nat /\ written[f][i].e \in Nat
  <2>1. written[f][i] \in Line
    <3> HIDE DEF Line
    <3> QED BY <1>2
  <2> QED BY <2>1 DEF Line
<1> QED BY <1>1, <1>2, <1>3 DEF written

\* As long as the files keep their lines, nothing else does it.
LEMMA WrittenKept ==
    ASSUME Types, Kept
    PROVE  written' = written
<1>1. DOMAIN files' = DOMAIN files
  BY DEF Types, Kept
<1> QED BY <1>1 DEF Kept, written

\* The files of a directory are among those there are.
LEMMA FilesOf ==
    ASSUME Shape, NEW d \in Range(dirs)
    PROVE  /\ d \in DirType /\ Named(d, Len(files)) /\ Len(files) \in Nat
           /\ DOMAIN files = 1 .. Len(files)
           /\ \A f \in Live(d) : f \in DOMAIN files
           /\ DOMAIN d.rotated \subseteq Nat
           /\ \A n \in DOMAIN d.rotated : d.rotated[n] \in DOMAIN files /\ d.rotated[n] # d.active
           /\ d.active # NoFile => d.active \in DOMAIN files /\ d.active \in Live(d)
           /\ d.snapshot.seq \in Nat /\ d.snapshot.state \in Seq(Nat)
           /\ \A i \in DOMAIN d.snapshot.state : d.snapshot.state[i] \in Nat
<1>1. d \in DirType /\ Named(d, Len(files)) /\ Len(files) \in Nat /\ DOMAIN files = 1 .. Len(files)
  BY DirsAre DEF Shape, Types, DirsFit
<1>2. \A f \in Live(d) : f \in DOMAIN files
  BY <1>1, LiveIs
<1>3. DOMAIN d.rotated \subseteq Nat
  BY <1>1, MapsFact DEF DirType
<1>4. \A n \in DOMAIN d.rotated : d.rotated[n] \in DOMAIN files /\ d.rotated[n] # d.active
  BY <1>1 DEF Named
<1>5. d.active # NoFile => d.active \in DOMAIN files /\ d.active \in Live(d)
  BY <1>1 DEF Named, NoFile, Live
<1>6. d.snapshot.seq \in Nat /\ d.snapshot.state \in Seq(Nat)
  BY <1>1 DEF DirType
<1>7. \A i \in DOMAIN d.snapshot.state : d.snapshot.state[i] \in Nat
  BY <1>6
<1> QED BY <1>1, <1>2, <1>3, <1>4, <1>5, <1>6, <1>7

\* What a restart would find is in the snapshot, or in a line to read.
LEMMA StoredIs == \A d, w, x : x \in Stored(d, w) <=>
                     \/ x \in Range(d.snapshot.state)
                     \/ \E f \in Live(d) : \E i \in DOMAIN w[f] : w[f][i].e = x
BY DEF Stored

\* Files that are not its own do not matter to a directory.
LEMMA SameFiles ==
    ASSUME NEW d \in DirType, NEW top \in Nat, Named(d, top), NEW w, NEW v, NEW q, NEW m,
           \A f \in 1 .. top : v[f] = w[f]
    PROVE  /\ Holds(d, w, q) <=> Holds(d, v, q)
           /\ Numbered(d, w) <=> Numbered(d, v)
           /\ Stored(d, w) = Stored(d, v)
           /\ Exact(d, w, m, q) <=> Exact(d, v, m, q)
           /\ Earlier(d, w, m) <=> Earlier(d, v, m)
<1>1. \A f \in Live(d) : v[f] = w[f]
  BY LiveIs
<1>2. \A n \in DOMAIN d.rotated : v[d.rotated[n]] = w[d.rotated[n]]
  BY DEF Named
<1>3. d.active # NoFile => v[d.active] = w[d.active]
  BY DEF Named, NoFile
<1>4. Holds(d, w, q) <=> Holds(d, v, q)
  BY <1>1, <1>2 DEF Holds
<1>5. Numbered(d, w) <=> Numbered(d, v)
  BY <1>2, <1>3 DEF Numbered
<1>6. Stored(d, w) = Stored(d, v)
  <2>1. \A x : x \in Stored(d, w) <=> x \in Stored(d, v)
    BY <1>1, StoredIs
  <2> QED BY <2>1
<1>7. (\E f \in Live(d) : \E i \in DOMAIN w[f] : w[f][i].s = q)
         <=> (\E f \in Live(d) : \E i \in DOMAIN v[f] : v[f][i].s = q)
  BY <1>1
<1> HIDE DEF Stored
<1>8. Exact(d, w, m, q) <=> Exact(d, v, m, q)
  BY <1>6, <1>7 DEF Exact
<1>9. Earlier(d, w, m) <=> Earlier(d, v, m)
  BY <1>6 DEF Earlier
<1> QED BY <1>4, <1>5, <1>6, <1>8, <1>9

\* What is exact is a moment of the store: now.
LEMMA ExactIsEarlier ==
    ASSUME NEW d, NEW w, NEW m, NEW q, Exact(d, w, m, q)
    PROVE  Earlier(d, w, m)
BY DEF Exact, Earlier

\* A directory is read as another is: the lines are in the same files, and these
\* in the same order.
Follows(c, d, w) ==
    /\ c.snapshot = d.snapshot
    /\ \A f \in Live(c) : f \in Live(d) \/ DOMAIN w[f] = {}
    /\ \A f \in Live(d) : f \in Live(c) \/ DOMAIN w[f] = {}
    /\ \A f, g \in Live(c) : DOMAIN w[f] # {} /\ DOMAIN w[g] # {} /\ Older(c, f, g) => Older(d, f, g)

\* It holds the same.
LEMMA FollowsHolds ==
    ASSUME NEW c, NEW d, NEW w, NEW q, NEW m, Follows(c, d, w), Holds(d, w, q),
           \A n \in DOMAIN c.rotated : \A i \in DOMAIN w[c.rotated[n]] : w[c.rotated[n]][i].s <= n
    PROVE  /\ Holds(c, w, q)
           /\ Stored(c, w) = Stored(d, w)
           /\ Exact(d, w, m, q) <=> Exact(c, w, m, q)
           /\ Earlier(d, w, m) <=> Earlier(c, w, m)
<1>1. ASSUME NEW f \in Live(c), NEW g \in Live(c), Older(c, f, g),
             NEW i \in DOMAIN w[f], NEW j \in DOMAIN w[g]
      PROVE  w[f][i].s < w[g][j].s /\ w[f][i].e < w[g][j].e
  <2>1. f \in Live(d) /\ g \in Live(d) /\ Older(d, f, g)
    BY <1>1 DEF Follows
  <2> QED BY <2>1 DEF Holds
<1>2. ASSUME NEW f \in Live(c), NEW i \in DOMAIN w[f]
      PROVE  /\ c.snapshot.seq < w[f][i].s /\ w[f][i].s <= q
             /\ \A k \in DOMAIN c.snapshot.state : c.snapshot.state[k] < w[f][i].e
  <2>1. f \in Live(d) /\ c.snapshot = d.snapshot
    BY <1>2 DEF Follows
  <2> QED BY <2>1 DEF Holds
<1>3. Holds(c, w, q)
  <2>1. c.snapshot.seq <= q /\ Rising(c.snapshot.state)
    BY DEF Holds, Follows
  <2> QED BY <1>1, <1>2, <2>1 DEF Holds
<1>4. \A f, i : f \in Live(c) /\ i \in DOMAIN w[f] <=> f \in Live(d) /\ i \in DOMAIN w[f]
  BY DEF Follows
<1>5. Stored(c, w) = Stored(d, w)
  <2>1. \A x : x \in Stored(c, w) <=> x \in Stored(d, w)
    BY <1>4, StoredIs DEF Follows
  <2> QED BY <2>1
<1>6. (\E f \in Live(c) : \E i \in DOMAIN w[f] : w[f][i].s = q)
         <=> (\E f \in Live(d) : \E i \in DOMAIN w[f] : w[f][i].s = q)
  BY <1>4
<1> HIDE DEF Stored
<1>7. Exact(d, w, m, q) <=> Exact(c, w, m, q)
  BY <1>5, <1>6 DEF Exact, Follows
<1>8. Earlier(d, w, m) <=> Earlier(c, w, m)
  BY <1>5 DEF Earlier
<1> QED BY <1>3, <1>5, <1>7, <1>8

\* The changes replayed come in order, and so do their numbers, however much of
\* each file there is to read.
LEMMA ReplayRises ==
    ASSUME Types, NEW d, NEW kept, Readable(d, kept), NEW q,
           \A f \in DOMAIN files : FileRises(files[f].lines), Holds(d, written, q)
    PROVE  /\ Rising(Replayed(d, kept))
           /\ \A i, j \in DOMAIN Lines(d, kept) : i < j => Lines(d, kept)[i].s < Lines(d, kept)[j].s
<1> DEFINE P == Places(d, kept)
           N == Cardinality(P)
           L == Lines(d, kept)
           es == [k \in DOMAIN L |-> L[k].e]
           st == d.snapshot.state
<1>1. PICK pl : Reads(pl, d, kept)
  BY LinesAre
<1>2. /\ N \in Nat /\ pl \in [1 .. N -> P]
      /\ \A k, l \in 1 .. N : k < l => Before(d, pl[k], pl[l])
      /\ L = [k \in 1 .. N |-> files[pl[k][1]].lines[pl[k][2]]]
  BY <1>1, LinesAre DEF Reads
<1>3. \A p \in P : /\ p[1] \in Live(d) /\ p[1] \in DOMAIN files
                   /\ p[2] \in DOMAIN files[p[1]].lines /\ p[2] \in DOMAIN written[p[1]]
                   /\ written[p[1]] = files[p[1]].lines
  BY PlacesAre, WrittenIs
<1>4. ASSUME NEW p \in P, NEW r \in P, Before(d, p, r)
      PROVE  /\ files[p[1]].lines[p[2]].s < files[r[1]].lines[r[2]].s
             /\ files[p[1]].lines[p[2]].e < files[r[1]].lines[r[2]].e
  <2> HIDE DEF P
  <2>1. CASE p[1] = r[1]
    <3>1. p[2] < r[2]
      BY <1>4, <2>1 DEF Before
    <3> QED BY <1>3, <2>1, <3>1 DEF FileRises
  <2>2. CASE p[1] # r[1]
    <3>1. Older(d, p[1], r[1])
      BY <1>4, <2>2 DEF Before
    <3> QED BY <1>3, <3>1 DEF Holds
  <2> QED BY <2>1, <2>2
<1> HIDE DEF P, N
<1>5. ASSUME NEW k \in 1 .. N, NEW l \in 1 .. N, k < l
      PROVE  L[k].s < L[l].s /\ L[k].e < L[l].e
  <2>1. pl[k] \in P /\ pl[l] \in P /\ Before(d, pl[k], pl[l])
    BY <1>2, <1>5
  <2> HIDE DEF L
  <2> QED BY <1>2, <1>4, <2>1
<1>6. ASSUME NEW k \in 1 .. N
      PROVE  \A i \in DOMAIN st : st[i] < L[k].e
  <2>1. pl[k] \in P
    BY <1>2
  <2> HIDE DEF L
  <2> QED BY <1>2, <1>3, <2>1 DEF Holds
<1>7. DOMAIN L = 1 .. N /\ DOMAIN es = 1 .. N /\ \A k \in 1 .. N : es[k] = L[k].e
  <2>1. DOMAIN L = 1 .. N
    <3> HIDE DEF L
    <3> QED BY <1>2
  <2> HIDE DEF L
  <2> QED BY <2>1
<1>8. es \in Seq(Nat) /\ Len(es) = N
  <2>1. es \in Seq(Nat)
    BY ReplayedAre
  <2> HIDE DEF es
  <2>2. DOMAIN es = 1 .. Len(es) /\ Len(es) \in Nat
    BY <2>1
  <2> QED BY <1>2, <1>7, <2>1, <2>2
<1>9. st \in Seq(Nat) /\ Rising(st)
  BY DEF Readable, DirType, Holds
<1> DEFINE R == st \o es
<1>10. Replayed(d, kept) = R
  BY DEF Replayed, L
<1> HIDE DEF es, L, st
<1>11. /\ R \in Seq(Nat) /\ Len(R) = Len(st) + N /\ Len(st) \in Nat
       /\ \A i \in 1 .. Len(st) : R[i] = st[i] /\ i \in DOMAIN st
       /\ \A i \in Len(st) + 1 .. Len(st) + N : R[i] = es[i - Len(st)] /\ i - Len(st) \in 1 .. N
  <2>1. Len(st) \in Nat /\ DOMAIN st = 1 .. Len(st)
    BY <1>9
  <2>2. /\ R \in Seq(Nat) /\ Len(R) = Len(st) + N
        /\ \A i \in 1 .. Len(R) : R[i] = IF i <= Len(st) THEN st[i] ELSE es[i - Len(st)]
    BY <1>8, <1>9, ConcatProperties
  <2> HIDE DEF R
  <2> QED BY <1>2, <2>1, <2>2
<1> HIDE DEF R
<1>12. Rising(R)
  <2> SUFFICES ASSUME NEW i \in 1 .. Len(R), NEW j \in 1 .. Len(R), i < j PROVE R[i] < R[j]
    BY <1>11 DEF Rising
  <2>1. CASE j <= Len(st)
    <3>1. i \in 1 .. Len(st) /\ j \in 1 .. Len(st)
      BY <1>11, <2>1
    <3> QED BY <1>9, <1>11, <3>1 DEF Rising
  <2>2. CASE i <= Len(st) /\ Len(st) < j
    <3>1. i \in 1 .. Len(st) /\ j \in Len(st) + 1 .. Len(st) + N
      BY <1>2, <1>11, <2>2
    <3>2. R[i] = st[i] /\ i \in DOMAIN st /\ R[j] = L[j - Len(st)].e /\ j - Len(st) \in 1 .. N
      BY <1>7, <1>11, <3>1
    <3> QED BY <1>6, <3>2
  <2>3. CASE Len(st) < i
    <3>1. i \in Len(st) + 1 .. Len(st) + N /\ j \in Len(st) + 1 .. Len(st) + N
      BY <1>2, <1>11, <2>3
    <3>2. /\ R[i] = L[i - Len(st)].e /\ i - Len(st) \in 1 .. N
          /\ R[j] = L[j - Len(st)].e /\ j - Len(st) \in 1 .. N
      BY <1>7, <1>11, <3>1
    <3>3. i - Len(st) < j - Len(st)
      BY <1>11
    <3> QED BY <1>5, <3>2, <3>3
  <2> QED BY <1>11, <2>1, <2>2, <2>3
<1> QED BY <1>5, <1>7, <1>10, <1>12 DEF L
\* All there is to read is what the directory stores.
LEMMA ReplayAll ==
    ASSUME Types, NEW d, Readable(d, AllLines), NEW q, Holds(d, written, q)
    PROVE  /\ Range(Replayed(d, AllLines)) = Stored(d, written)
           /\ \/ ReplayedSeq(d, AllLines) = d.snapshot.seq
              \/ \E f \in Live(d) : \E i \in DOMAIN written[f] : written[f][i].s = ReplayedSeq(d, AllLines)
           /\ \A f \in Live(d) : \A i \in DOMAIN written[f] : written[f][i].s <= ReplayedSeq(d, AllLines)
           /\ d.snapshot.seq <= ReplayedSeq(d, AllLines)
           /\ ReplayedSeq(d, AllLines) \in Nat
<1> DEFINE P == Places(d, AllLines)
           R == Replayed(d, AllLines)
           r == ReplayedSeq(d, AllLines)
<1>1. \A f \in Live(d) : f \in DOMAIN files /\ written[f] = files[f].lines
  <2>1. d \in DirType /\ Named(d, Len(files)) /\ Len(files) \in Nat /\ DOMAIN files = 1 .. Len(files)
    BY WrittenIs DEF Readable
  <2> QED BY <2>1, LiveIs, WrittenIs
<1>2. \A f \in Live(d) : \A i \in DOMAIN written[f] : i \in 1 .. AllLines[f]
  <2> SUFFICES ASSUME NEW f \in Live(d) PROVE DOMAIN written[f] = 1 .. AllLines[f]
    OBVIOUS
  <2>1. f \in DOMAIN files /\ written[f] = files[f].lines /\ written[f] \in Seq(Line)
    BY <1>1, WrittenIs
  <2>2. AllLines[f] = Len(written[f])
    BY <2>1 DEF AllLines
  <2> QED BY <2>1, <2>2
<1>3. \A p \in P : p[1] \in Live(d) /\ p[2] \in DOMAIN written[p[1]] /\ files[p[1]].lines = written[p[1]]
  BY <1>1, PlacesAre
<1>4. ASSUME NEW f \in Live(d), NEW i \in DOMAIN written[f]
      PROVE  <<f, i>> \in P /\ files[f].lines[i] = written[f][i]
  <2>1. i \in 1 .. AllLines[f] /\ files[f].lines = written[f]
    BY <1>1, <1>2
  <2>2. d.snapshot.seq < written[f][i].s
    BY DEF Holds
  <2>3. written[f][i].s \in Nat /\ d.snapshot.seq \in Nat
    BY <1>1, WrittenIs DEF Readable, DirType
  <2>4. files[f].lines[i].s > d.snapshot.seq
    BY <2>1, <2>2, <2>3
  <2> QED BY <2>1, <2>4, PlacesAre
<1>5. \A x : x \in Range(R) <=>
                 \/ x \in Range(d.snapshot.state)
                 \/ \E p \in P : files[p[1]].lines[p[2]].e = x
  BY ReplayedAre
<1>6. /\ r \in Nat /\ d.snapshot.seq <= r
      /\ \A p \in P : files[p[1]].lines[p[2]].s <= r
      /\ r = d.snapshot.seq \/ \E p \in P : files[p[1]].lines[p[2]].s = r
  BY ReplayedSeqIs
<1> HIDE DEF P, R, r
<1>7. Range(R) = Stored(d, written)
  <2>1. ASSUME NEW p \in P
        PROVE  \E f \in Live(d) : \E i \in DOMAIN written[f] : written[f][i].e = files[p[1]].lines[p[2]].e
    BY <1>3
  <2>2. ASSUME NEW f \in Live(d), NEW i \in DOMAIN written[f]
        PROVE  \E p \in P : files[p[1]].lines[p[2]].e = written[f][i].e
    <3>1. <<f, i>> \in P /\ <<f, i>>[1] = f /\ <<f, i>>[2] = i /\ files[f].lines[i] = written[f][i]
      BY <1>4
    <3> QED BY <3>1
  <2>3. ASSUME NEW x PROVE x \in Range(R) <=> x \in Stored(d, written)
    <3>1. (\E p \in P : files[p[1]].lines[p[2]].e = x)
              <=> (\E f \in Live(d) : \E i \in DOMAIN written[f] : written[f][i].e = x)
      BY <2>1, <2>2
    <3> QED BY <1>5, <3>1, StoredIs
  <2> QED BY <2>3
<1>8. \A f \in Live(d) : \A i \in DOMAIN written[f] : written[f][i].s <= r
  <2> SUFFICES ASSUME NEW f \in Live(d), NEW i \in DOMAIN written[f] PROVE written[f][i].s <= r
    OBVIOUS
  <2>1. <<f, i>> \in P /\ <<f, i>>[1] = f /\ <<f, i>>[2] = i /\ files[f].lines[i] = written[f][i]
    BY <1>4
  <2> QED BY <1>6, <2>1
<1>9. r = d.snapshot.seq \/ \E f \in Live(d) : \E i \in DOMAIN written[f] : written[f][i].s = r
  BY <1>3, <1>6
<1> QED BY <1>6, <1>7, <1>8, <1>9 DEF R, r

\* What is exact is replayed as the store.
LEMMA ReplayExact ==
    ASSUME Types, NEW d, Readable(d, AllLines), Exact(d, written, mem, seq),
           \A f \in DOMAIN files : FileRises(files[f].lines), Holds(d, written, seq), Rising(mem)
    PROVE  Replayed(d, AllLines) = mem /\ ReplayedSeq(d, AllLines) = seq
<1> DEFINE R == Replayed(d, AllLines)
           r == ReplayedSeq(d, AllLines)
<1>1. R \in Seq(Nat) /\ mem \in Seq(Nat) /\ seq \in Nat
  BY ReplayedAre DEF Types
<1>2. Rising(R)
  BY ReplayRises
<1>3. Range(R) = Range(mem)
  BY ReplayAll DEF Exact
<1>4. r = seq
  <2>1. /\ r \in Nat /\ d.snapshot.seq <= r
        /\ \A f \in Live(d) : \A i \in DOMAIN written[f] : written[f][i].s <= r
        /\ r = d.snapshot.seq \/ \E f \in Live(d) : \E i \in DOMAIN written[f] : written[f][i].s = r
    BY ReplayAll
  <2>2. r <= seq
    BY <2>1 DEF Holds
  <2>3. seq <= r
    BY <2>1 DEF Exact
  <2> HIDE DEF r
  <2> QED BY <1>1, <2>1, <2>2, <2>3
<1> HIDE DEF R, r
<1>5. \A i \in DOMAIN R : \E j \in DOMAIN mem : mem[j] = R[i]
  BY <1>3, RangeFact
<1>6. \A j \in DOMAIN mem : \E i \in DOMAIN R : R[i] = mem[j]
  BY <1>3, RangeFact
<1>7. R = mem
  BY <1>1, <1>2, <1>5, <1>6, RisingSame
<1> QED BY <1>4, <1>7 DEF R, r

\* What is of a moment before is replayed as the beginning of the store.
LEMMA ReplayEarlier ==
    ASSUME Types, NEW d, Readable(d, AllLines), Earlier(d, written, mem),
           \A f \in DOMAIN files : FileRises(files[f].lines), NEW q, Holds(d, written, q), Rising(mem)
    PROVE  IsPrefix(Replayed(d, AllLines), mem)
<1> DEFINE R == Replayed(d, AllLines)
<1>1. R \in Seq(Nat) /\ mem \in Seq(Nat)
  BY ReplayedAre DEF Types
<1>2. Rising(R)
  BY ReplayRises
<1>3. Range(R) = Stored(d, written)
  BY ReplayAll
<1> HIDE DEF R
<1>4. \A i \in DOMAIN R : \E j \in DOMAIN mem : mem[j] = R[i]
  <2> SUFFICES ASSUME NEW i \in DOMAIN R PROVE R[i] \in Range(mem)
    BY RangeFact
  <2>1. R[i] \in Range(R)
    BY RangeFact
  <2> QED BY <1>3, <2>1 DEF Earlier
<1>5. \A i \in DOMAIN R, j \in DOMAIN mem : mem[j] < R[i] => \E k \in DOMAIN R : R[k] = mem[j]
  <2> SUFFICES ASSUME NEW i \in DOMAIN R, NEW j \in DOMAIN mem, mem[j] < R[i] PROVE mem[j] \in Range(R)
    BY RangeFact
  <2>1. R[i] \in Range(R) /\ mem[j] \in Range(mem)
    BY RangeFact
  <2> QED BY <1>3, <2>1 DEF Earlier
<1>6. Len(R) <= Len(mem) /\ \A i \in 1 .. Len(R) : R[i] = mem[i]
  BY <1>1, <1>2, <1>4, <1>5, RisingPrefix
<1>7. SubSeq(R, 1, Len(R)) = SubSeq(mem, 1, Len(R))
  <2>1. Len(R) \in Nat /\ Len(mem) \in Nat
    BY <1>1
  <2>2. \A i \in 1 .. Len(R) : R[1 + i - 1] = mem[1 + i - 1]
    BY <1>6, <2>1
  <2> QED BY <1>1, <1>6, <2>1, <2>2, SubSeqProperties
<1> QED BY <1>6, <1>7 DEF IsPrefix, R
-----------------------------------------------------------------------------
(***************************************************************************)
(* What holds of the files and of the snapshot, whatever a restart found.  *)
(***************************************************************************)
\* The step keeps what the files hold, and what waits for a sync is none with "always".
LEMMA DiskQuiet ==
    ASSUME Shape, AlwaysOnDisk, setup' = setup, Kept,
           \A f \in DOMAIN files : files'[f].bad = files[f].bad,
           fsync = "always" => ~dirty' /\ retired' = <<>> /\ sync'.retired = <<>> /\ sync'.file = NoFile
    PROVE  AlwaysOnDisk'
<1> SUFFICES ASSUME fsync = "always"
             PROVE  \A f \in DOMAIN files' : ~files'[f].bad /\ files'[f].synced = Len(files'[f].lines)
  BY DEF AlwaysOnDisk, fsync
<1> SUFFICES ASSUME NEW f \in DOMAIN files'
             PROVE  ~files'[f].bad /\ files'[f].synced = Len(files'[f].lines)
  OBVIOUS
<1>1. files \in Seq(FileType) /\ files' \in Seq(FileType) /\ f \in DOMAIN files
  BY DEF Shape, Types, Kept
<1>2. ~files[f].bad /\ files[f].synced = Len(files[f].lines)
  BY <1>1 DEF AlwaysOnDisk
<1>3. /\ files'[f].lines = files[f].lines
      /\ files[f].synced <= files'[f].synced /\ files'[f].synced <= Len(files[f].lines)
  BY <1>1 DEF Kept
<1>4. files[f].synced \in Nat /\ files'[f].synced \in Nat
  <2>1. files[f] \in FileType /\ files'[f] \in FileType
    <3> HIDE DEF FileType
    <3>1. DOMAIN files = DOMAIN files'
      BY <1>1 DEF Kept
    <3> QED BY <1>1, <3>1
  <2> QED BY <2>1 DEF FileType
<1> QED BY <1>1, <1>2, <1>3, <1>4

\* With "always" no line is off the disk.
LEMMA OnDiskNext == Shape /\ AlwaysOnDisk /\ [Next]_vars => AlwaysOnDisk'
<1> SUFFICES ASSUME Shape, AlwaysOnDisk, [Next]_vars PROVE AlwaysOnDisk'
  OBVIOUS
<1>1. CASE UNCHANGED vars
  BY <1>1 DEF vars, server, AlwaysOnDisk, fsync
<1>2. CASE Change
  <2>1. Grown(Dir.active)
    BY <1>2, ChangeGrows
  <2>2. /\ setup' = setup /\ retired' = retired /\ sync' = sync
        /\ fsync = "always" => dirty' = dirty
    BY <1>2 DEF Change
  <2> SUFFICES ASSUME fsync = "always"
               PROVE  \A f \in DOMAIN files' : ~files'[f].bad /\ files'[f].synced = Len(files'[f].lines)
    BY <2>2 DEF AlwaysOnDisk, fsync
  <2>3. \A f \in DOMAIN files : ~files[f].bad /\ files[f].synced = Len(files[f].lines)
    BY DEF AlwaysOnDisk
  <2>4. Len(files'[Dir.active].lines) = Len(files[Dir.active].lines) + 1
    <3>1. files[Dir.active] \in FileType
      BY <2>1 DEF Grown, Shape, Types
    <3>2. files[Dir.active].lines \in Seq(Line)
      BY <3>1 DEF FileType
    <3> QED BY <2>1, <3>2, AppendProperties DEF Grown
  <2> QED BY <2>1, <2>3, <2>4 DEF Grown
<1>3. CASE TakeSync
  <2>1. /\ setup' = setup /\ files' = files /\ sync = NoSync
        /\ \/ sync' = sync /\ retired' = retired /\ dirty' = dirty
           \/ \E cloned \in BOOLEAN : Taken(cloned)
    BY <1>3, TakeSyncIs
  <2>2. Kept
    BY <2>1, KeptAll
  <2>3. fsync = "always" => ~dirty' /\ retired' = <<>> /\ sync'.retired = <<>> /\ sync'.file = NoFile
    <3> SUFFICES ASSUME fsync = "always"
                 PROVE  ~dirty' /\ retired' = <<>> /\ sync'.retired = <<>> /\ sync'.file = NoFile
      OBVIOUS
    <3>1. ~dirty /\ retired = <<>> /\ sync.retired = <<>> /\ sync.file = NoFile
      BY DEF AlwaysOnDisk
    <3>2. ASSUME NEW cloned \in BOOLEAN, Taken(cloned)
          PROVE  ~dirty' /\ retired' = <<>> /\ sync'.retired = <<>> /\ sync'.file = NoFile
      <4>1. sync'.retired = retired /\ sync'.file = (IF dirty /\ cloned THEN Dir.active ELSE NoFile)
        BY <3>2 DEF Taken
      <4>2. retired' = <<>> /\ dirty' = ~cloned /\ (dirty \/ cloned)
        BY <3>2 DEF Taken
      <4> QED BY <3>1, <4>1, <4>2
    <3> QED BY <2>1, <3>1, <3>2
  <2> QED BY <2>1, <2>2, <2>3, DiskQuiet
<1>4. CASE SyncNext
  <2>1. /\ setup' = setup /\ dirty' = dirty /\ retired' = retired /\ Kept
        /\ \/ sync.retired # <<>>
           \/ sync'.retired = sync.retired /\ sync'.file \in {sync.file, NoFile}
    BY <1>4, SyncNextIs
  <2>2. \A f \in DOMAIN files : files'[f].bad = files[f].bad
    <3>1. CASE files' = files
      BY <3>1
    <3> DEFINE S == {Head(sync.retired)}
               T == {sync.file}
    <3>2. CASE files' = [f \in DOMAIN files |-> IF f \in S THEN Synced(files[f]) ELSE files[f]]
      <4> HIDE DEF S
      <4> QED BY <3>2, SyncedBad
    <3>3. CASE files' = [f \in DOMAIN files |-> IF f \in T THEN Synced(files[f]) ELSE files[f]]
      <4> HIDE DEF T
      <4> QED BY <3>3, SyncedBad
    <3> QED BY <1>4, <3>1, <3>2, <3>3, SyncNextIs
  <2>3. fsync = "always" => ~dirty' /\ retired' = <<>> /\ sync'.retired = <<>> /\ sync'.file = NoFile
    BY <2>1 DEF AlwaysOnDisk
  <2> QED BY <2>1, <2>2, <2>3, DiskQuiet
<1>5. CASE SyncEnds
  <2>1. setup' = setup /\ files' = files /\ dirty' = dirty /\ retired' = retired /\ sync' = NoSync
    BY <1>5, SyncEndsIs
  <2>2. Kept
    BY <2>1, KeptAll
  <2> QED BY <2>1, <2>2, DiskQuiet DEF AlwaysOnDisk, NoSync
<1>6. CASE SyncFails
  <2>1. setup' = setup /\ (sync.retired # <<>> \/ sync.file # NoFile)
    BY <1>6, SyncFailsIs
  <2> QED BY <2>1 DEF AlwaysOnDisk, fsync
<1>7. CASE StartRewrite
  <2>1. setup' = setup /\ files' = files /\ dirty' = dirty /\ retired' = retired /\ sync' = sync
    BY <1>7, StartRewriteIs
  <2>2. Kept
    BY <2>1, KeptAll
  <2> QED BY <2>1, <2>2, DiskQuiet DEF AlwaysOnDisk
<1>8. CASE TakeOver
  <2>1. /\ setup' = setup /\ Added /\ dirty' = FALSE /\ sync' = sync
        /\ fsync # "everysec" => retired' = retired
    BY <1>8, TakeOverIs
  <2>2. Len(EmptyFile.lines) = 0 /\ EmptyFile.synced = 0 /\ ~EmptyFile.bad
    BY DEF EmptyFile
  <2> QED BY <2>1, <2>2 DEF AlwaysOnDisk, Added, fsync
<1>9. CASE SyncCovered
  <2>1. /\ setup' = setup /\ dirty' = dirty /\ retired' = retired /\ Kept /\ sync' = sync
    BY <1>9, SyncCoveredIs
  <2>2. \A f \in DOMAIN files : files'[f].bad = files[f].bad
    <3> DEFINE S == {Dir.rotated[n] : n \in {n \in DOMAIN Dir.rotated : n <= snap.seq}}
    <3>1. files' = [f \in DOMAIN files |-> IF f \in S THEN Synced(files[f]) ELSE files[f]]
      BY <1>9, SyncCoveredIs
    <3> HIDE DEF S
    <3> QED BY <3>1, SyncedBad
  <2> QED BY <2>1, <2>2, DiskQuiet DEF AlwaysOnDisk
<1>10. CASE Land
  <2>1. setup' = setup /\ files' = files /\ dirty' = dirty /\ retired' = retired /\ sync' = sync
    BY <1>10, LandIs
  <2> QED BY <2>1 DEF AlwaysOnDisk, fsync
<1>11. CASE Landed
  <2>1. setup' = setup /\ files' = files /\ dirty' = dirty /\ retired' = retired /\ sync' = sync
    BY <1>11, LandedStepIs
  <2> QED BY <2>1 DEF AlwaysOnDisk, fsync
<1>12. CASE Delete
  <2>1. setup' = setup /\ files' = files /\ dirty' = dirty /\ retired' = retired /\ sync' = sync
    BY <1>12, DeleteIs
  <2> QED BY <2>1 DEF AlwaysOnDisk, fsync
<1>13. CASE Finish
  <2>1. setup' = setup /\ files' = files /\ dirty' = dirty /\ retired' = retired /\ sync' = sync
    BY <1>13, FinishIs
  <2> QED BY <2>1 DEF AlwaysOnDisk, fsync
<1>14. CASE GiveUp
  <2>1. setup' = setup /\ files' = files /\ dirty' = dirty /\ retired' = retired /\ sync' = sync
    BY <1>14, GiveUpIs
  <2> QED BY <2>1 DEF AlwaysOnDisk, fsync
<1>15. CASE Crash
  <2>1. setup' = setup /\ files' = files /\ dirty' = dirty /\ retired' = retired /\ sync' = NoSync
    BY <1>15, CrashIs
  <2> QED BY <2>1 DEF AlwaysOnDisk, fsync, NoSync
<1>16. CASE PowerLoss
  <2>1. setup' = setup /\ dirty' = dirty /\ retired' = retired /\ sync' = NoSync /\ \E cut : Cut(cut)
    BY <1>16, PowerLossIs
  <2>2. \A f \in DOMAIN files' : ~files'[f].bad /\ files'[f].synced = Len(files'[f].lines)
    BY <2>1 DEF Cut
  <2> QED BY <2>1, <2>2 DEF AlwaysOnDisk, fsync, NoSync
<1>17. CASE Open
  <2>1. /\ setup' = setup /\ dirty' = FALSE /\ retired' = <<>> /\ sync' = sync
        /\ files' = files \/ Added
    BY <1>17, OpenIs
  <2>2. Len(EmptyFile.lines) = 0 /\ EmptyFile.synced = 0 /\ ~EmptyFile.bad
    BY DEF EmptyFile
  <2> QED BY <2>1, <2>2 DEF AlwaysOnDisk, Added, fsync
<1> QED BY <1>1, <1>2, <1>3, <1>4, <1>5, <1>6, <1>7, <1>8, <1>9, <1>10, <1>11, <1>12, <1>13,
           <1>14, <1>15, <1>16, <1>17, NotUndone DEF Next

\* A snapshot that has landed is the one there is, and covers what it deletes.
LEMMA CoveredNext == Shape /\ Covered /\ [Next]_vars => Covered'
<1> SUFFICES ASSUME Shape, Covered, [Next]_vars PROVE Covered'
  OBVIOUS
<1>1. CASE UNCHANGED vars
  BY <1>1 DEF vars, server, Covered, Dir
<1>2. CASE Change
  BY <1>2, ChangeIs DEF Covered, Fewer, Change
<1>3. CASE TakeSync
  BY <1>3, TakeSyncIs DEF Covered, Dir
<1>4. CASE SyncNext
  <2>1. snap' = snap /\ Fewer
    BY <1>4, SyncNextIs
  <2> QED BY <2>1 DEF Covered, Fewer
<1>5. CASE SyncEnds
  BY <1>5, SyncEndsIs DEF Covered, Dir
<1>6. CASE SyncFails
  <2>1. snap' = snap /\ dirs' = dirs
    BY <1>6, SyncFailsIs
  <2> QED BY <2>1 DEF Covered, Dir
<1>7. CASE StartRewrite
  <2>1. snap'.stage = "renaming"
    BY <1>7, StartRewriteIs
  <2> QED BY <2>1 DEF Covered
<1>8. CASE TakeOver
  <2>1. snap'.stage = "taken"
    BY <1>8, TakeOverIs
  <2> QED BY <2>1 DEF Covered
<1>9. CASE SyncCovered
  <2>1. /\ snap'.stage = "synced" /\ snap'.seq = snap.seq
        /\ snap'.covered = {n \in DOMAIN Dir.rotated : n <= snap.seq}
    BY <1>9, SyncCoveredIs
  <2> QED BY <2>1 DEF Covered
<1>10. CASE Land
  <2>1. /\ snap'.stage = "landed" /\ snap'.seq = snap.seq /\ snap.stage = "synced"
        /\ snap'.state = snap.state /\ snap'.covered = snap.covered
        /\ Dir'.snapshot = [seq |-> snap.seq, state |-> snap.state]
    BY <1>10, LandIs
  <2> QED BY <2>1 DEF Covered
<1>11. CASE Landed
  <2>1. /\ snap'.seq = snap.seq /\ snap.stage = "landed"
        /\ snap'.state = snap.state /\ snap'.covered = snap.covered /\ Fewer
    BY <1>11, LandedStepIs
  <2> QED BY <2>1 DEF Covered, Fewer
<1>12. CASE Delete
  <2>1. /\ snap'.seq = snap.seq /\ snap.stage = "deleting"
        /\ snap'.state = snap.state /\ snap'.covered \subseteq snap.covered
        /\ Dir'.snapshot = Dir.snapshot
    BY <1>12, DeleteIs
  <2> QED BY <2>1 DEF Covered
<1>13. CASE Finish \/ GiveUp \/ Crash \/ PowerLoss
  <2>1. snap' = NoSnap
    <3>1. CASE Finish
      BY <3>1, FinishIs
    <3>2. CASE GiveUp
      BY <3>2, GiveUpIs
    <3>3. CASE Crash
      BY <3>3, CrashIs
    <3>4. CASE PowerLoss
      BY <3>4, PowerLossIs
    <3> QED BY <1>13, <3>1, <3>2, <3>3, <3>4
  <2> QED BY <2>1, NoSnapIs DEF Covered
<1>14. CASE Open
  <2>1. snap'.stage = "none"
    BY <1>14, OpenIs
  <2> QED BY <2>1 DEF Covered
<1> QED BY <1>1, <1>2, <1>3, <1>4, <1>5, <1>6, <1>7, <1>8, <1>9, <1>10, <1>11, <1>12, <1>13,
           <1>14, NotUndone DEF Next
\* No change is found that was not made.
LEMMA BoundsQuiet ==
    ASSUME Shape, Bounds, count'.changes \in Nat, count.changes <= count'.changes,
           \A f \in DOMAIN files' : \A i \in DOMAIN files'[f].lines :
              \/ f \in DOMAIN files /\ i \in DOMAIN files[f].lines /\ files'[f].lines[i] = files[f].lines[i]
              \/ files'[f].lines[i].e <= count'.changes,
           \A x \in Range(mem') : x \in Range(mem) \/ x <= count'.changes,
           snap'.state \in {snap.state, mem, <<>>},
           \A d \in Range(dirs') : \/ \E c \in Range(dirs) : d.snapshot = c.snapshot
                                   \/ d.snapshot.state = snap.state
    PROVE  Bounds'
<1>1. /\ files \in Seq(FileType) /\ mem \in Seq(Nat) /\ snap.state \in Seq(Nat) /\ count.changes \in Nat
      /\ Types
  BY DEF Shape, Types, SnapType, CountType
<1>2. \A f \in DOMAIN files : \A i \in DOMAIN files[f].lines : files[f].lines[i].e \in Nat
  BY <1>1, WrittenIs
<1>3. \A d \in Range(dirs) : \A i \in DOMAIN d.snapshot.state : d.snapshot.state[i] \in Nat
  BY FilesOf
<1>4. \A i \in DOMAIN mem : mem[i] \in Nat /\ mem[i] <= count'.changes
  BY <1>1 DEF Bounds
<1>5. \A i \in DOMAIN snap.state : snap.state[i] \in Nat /\ snap.state[i] <= count'.changes
  BY <1>1 DEF Bounds
<1>6. ASSUME NEW f \in DOMAIN files', NEW i \in DOMAIN files'[f].lines
      PROVE  files'[f].lines[i].e <= count'.changes
  <2>1. CASE f \in DOMAIN files /\ i \in DOMAIN files[f].lines /\ files'[f].lines[i] = files[f].lines[i]
    <3>1. files[f].lines[i].e \in Nat /\ files[f].lines[i].e <= count.changes
      BY <1>2, <2>1 DEF Bounds
    <3> QED BY <1>1, <2>1, <3>1
  <2> QED BY <2>1
<1>7. ASSUME NEW i \in DOMAIN mem' PROVE mem'[i] <= count'.changes
  <2>1. mem'[i] \in Range(mem')
    BY RangeFact
  <2> QED BY <1>4, <2>1, RangeFact
<1>8. ASSUME NEW i \in DOMAIN snap'.state PROVE snap'.state[i] <= count'.changes
  BY <1>4, <1>5
<1>9. ASSUME NEW d \in Range(dirs'), NEW i \in DOMAIN d.snapshot.state
      PROVE  d.snapshot.state[i] <= count'.changes
  <2>1. CASE d.snapshot.state = snap.state
    BY <1>5, <2>1
  <2>2. ASSUME NEW c \in Range(dirs), d.snapshot = c.snapshot PROVE d.snapshot.state[i] <= count'.changes
    <3>1. c.snapshot.state[i] \in Nat /\ c.snapshot.state[i] <= count.changes
      BY <1>3, <2>2 DEF Bounds
    <3> QED BY <1>1, <2>2, <3>1
  <2> QED BY <2>1, <2>2
<1> QED BY <1>6, <1>7, <1>8, <1>9 DEF Bounds

\* So it is when only the files, and not their lines, change.
LEMMA BoundsKept ==
    ASSUME Shape, Bounds, Kept, mem' = mem, count'.changes = count.changes,
           snap'.state \in {snap.state, mem, <<>>},
           \A d \in Range(dirs') : \/ \E c \in Range(dirs) : d.snapshot = c.snapshot
                                   \/ d.snapshot.state = snap.state
    PROVE  Bounds'
<1>1. count.changes \in Nat /\ files \in Seq(FileType) /\ files' \in Seq(FileType)
  BY DEF Shape, Types, CountType, Kept
<1>2. \A f \in DOMAIN files' : f \in DOMAIN files /\ files'[f].lines = files[f].lines
  BY <1>1 DEF Kept
<1>3. count'.changes \in Nat /\ count.changes <= count'.changes
  BY <1>1
<1> QED BY <1>2, <1>3, BoundsQuiet

\* Every change has a number of its own, one more than the last.
LEMMA BoundsNext == Shape /\ Bounds /\ [Next]_vars => Bounds'
<1> SUFFICES ASSUME Shape, Bounds, [Next]_vars PROVE Bounds'
  OBVIOUS
<1>0. Types /\ count.changes \in Nat /\ count \in CountType
  BY DEF Shape, Types, CountType
<1>1. CASE UNCHANGED vars
  BY <1>1 DEF vars, server, Bounds
<1>2. CASE Change
  <2>1. /\ Fewer /\ mem' = Append(mem, count.changes + 1) /\ count'.changes = count.changes + 1
    BY <1>2, ChangeIs
  <2>2. snap' = snap
    BY <1>2 DEF Change
  <2>3. Grown(Dir.active)
    BY <1>2, ChangeGrows
  <2>4. ASSUME NEW f \in DOMAIN files', NEW i \in DOMAIN files'[f].lines
        PROVE  \/ f \in DOMAIN files /\ i \in DOMAIN files[f].lines /\ files'[f].lines[i] = files[f].lines[i]
               \/ files'[f].lines[i].e <= count'.changes
    <3>1. CASE f # Dir.active
      BY <2>3, <3>1 DEF Grown
    <3>2. CASE f = Dir.active
      <4>1. files[f].lines \in Seq(Line) /\ f \in DOMAIN files
        BY <1>0, <2>3, <3>2, WrittenIs DEF Grown
      <4>2. files'[f].lines = Append(files[f].lines, [s |-> seq + 1, e |-> count.changes + 1])
        BY <2>3, <3>2 DEF Grown
      <4>3. \/ i \in DOMAIN files[f].lines /\ files'[f].lines[i] = files[f].lines[i]
            \/ files'[f].lines[i] = [s |-> seq + 1, e |-> count.changes + 1]
        BY <4>1, <4>2
      <4>4. count.changes + 1 <= count'.changes
        BY <1>0, <2>1
      <4> QED BY <4>1, <4>3, <4>4
    <3> QED BY <3>1, <3>2
  <2>5. ASSUME NEW x \in Range(mem') PROVE x \in Range(mem) \/ x <= count'.changes
    <3>1. mem \in Seq(Nat)
      BY <1>0 DEF Types
    <3>2. PICK i \in DOMAIN mem' : mem'[i] = x
      BY RangeFact
    <3>3. (i \in DOMAIN mem /\ x = mem[i]) \/ x = count.changes + 1
      BY <2>1, <3>1, <3>2
    <3> QED BY <1>0, <2>1, <3>3, RangeFact
  <2>6. count'.changes \in Nat /\ count.changes <= count'.changes
    BY <1>0, <2>1
  <2> QED BY <2>1, <2>2, <2>4, <2>5, <2>6, BoundsQuiet DEF Fewer
<1>3. CASE TakeSync
  <2>1. mem' = mem /\ files' = files /\ dirs' = dirs /\ snap' = snap /\ count' = count
    BY <1>3, TakeSyncIs
  <2> QED BY <2>1 DEF Bounds
<1>4. CASE SyncNext
  <2>1. mem' = mem /\ snap' = snap /\ Fewer /\ Kept /\ count' = count
    BY <1>4, SyncNextIs
  <2> QED BY <2>1, BoundsKept DEF Fewer
<1>5. CASE SyncEnds
  <2>1. mem' = mem /\ files' = files /\ dirs' = dirs /\ snap' = snap /\ count' = count
    BY <1>5, SyncEndsIs
  <2> QED BY <2>1 DEF Bounds
<1>6. CASE SyncFails
  <2>1. mem' = mem /\ snap' = snap /\ Fewer /\ Kept /\ count'.changes = count.changes
    BY <1>6, SyncFailsIs
  <2> QED BY <2>1, BoundsKept DEF Fewer
<1>7. CASE StartRewrite
  <2>1. /\ mem' = mem /\ snap'.state = mem /\ files' = files /\ count'.changes = count.changes
        /\ \/ dirs' = dirs
           \/ seq \notin DOMAIN Dir.rotated /\ Range(dirs') = Range(dirs) \cup {SetAside(Dir, seq)}
    BY <1>7, StartRewriteIs
  <2>2. Dir \in Range(dirs) /\ Dir \in DirType /\ seq \in Nat
    BY <1>0, DirIs DEF Types
  <2>3. \A d \in Range(dirs') : \E c \in Range(dirs) : d.snapshot = c.snapshot
    BY <2>1, <2>2, SetAsideIs
  <2>4. Kept
    BY <2>1, KeptAll
  <2> QED BY <2>1, <2>3, <2>4, BoundsKept
<1>8. CASE TakeOver
  <2>1. /\ mem' = mem /\ snap'.state = snap.state /\ Added /\ count' = count
        /\ Range(dirs') = Range(dirs) \cup {Dir'} /\ Dir'.snapshot = Dir.snapshot
    BY <1>8, TakeOverIs
  <2>2. DOMAIN EmptyFile.lines = {}
    BY DEF EmptyFile
  <2>3. Dir \in Range(dirs)
    BY <1>0, DirIs
  <2>4. \A d \in Range(dirs') : \E c \in Range(dirs) : d.snapshot = c.snapshot
    BY <2>1, <2>3
  <2>5. \A f \in DOMAIN files' : \A i \in DOMAIN files'[f].lines :
           f \in DOMAIN files /\ i \in DOMAIN files[f].lines /\ files'[f].lines[i] = files[f].lines[i]
    BY <2>1, <2>2 DEF Added
  <2>6. count'.changes \in Nat /\ count.changes <= count'.changes
    BY <1>0, <2>1
  <2> QED BY <2>1, <2>4, <2>5, <2>6, BoundsQuiet
<1>9. CASE SyncCovered
  <2>1. mem' = mem /\ snap'.state = snap.state /\ Fewer /\ Kept /\ count' = count
    BY <1>9, SyncCoveredIs
  <2> QED BY <2>1, BoundsKept DEF Fewer
<1>10. CASE Land
  <2>1. /\ mem' = mem /\ snap'.state = snap.state /\ files' = files /\ count' = count
        /\ Range(dirs') = Range(dirs) \cup {Dir'} /\ Dir'.snapshot.state = snap.state
    BY <1>10, LandIs
  <2>2. Kept
    BY <2>1, KeptAll
  <2> QED BY <2>1, <2>2, BoundsKept
<1>11. CASE Landed
  <2>1. mem' = mem /\ snap'.state = snap.state /\ Fewer /\ Kept /\ count' = count
    BY <1>11, LandedStepIs
  <2> QED BY <2>1, BoundsKept DEF Fewer
<1>12. CASE Delete
  <2>1. /\ mem' = mem /\ snap'.state = snap.state /\ files' = files /\ count' = count
        /\ Range(dirs') = Range(dirs) \cup {Dir'} /\ Dir'.snapshot = Dir.snapshot
    BY <1>12, DeleteIs
  <2>2. Kept /\ Dir \in Range(dirs)
    BY <1>0, <2>1, KeptAll, DirIs
  <2> QED BY <2>1, <2>2, BoundsKept
<1>13. CASE Finish \/ GiveUp \/ Crash
  <2>1. mem' = mem /\ snap'.state = <<>> /\ Fewer /\ Kept /\ count'.changes = count.changes
    <3>1. CASE Finish
      BY <3>1, FinishIs DEF NoSnap
    <3>2. CASE GiveUp
      BY <3>2, GiveUpIs DEF NoSnap
    <3>3. CASE Crash
      BY <3>3, CrashIs DEF NoSnap
    <3> QED BY <1>13, <3>1, <3>2, <3>3
  <2> QED BY <2>1, BoundsKept DEF Fewer
<1>14. CASE PowerLoss
  <2>1. /\ mem' = mem /\ snap'.state = <<>> /\ count'.changes = count.changes
        /\ Dir' \in Range(dirs) /\ Range(dirs') = {Dir'}
    BY <1>14, PowerLossIs DEF NoSnap
  <2>2. PICK cut : Cut(cut)
    BY <1>14, PowerLossIs
  <2>3. ASSUME NEW f \in DOMAIN files', NEW i \in DOMAIN files'[f].lines
        PROVE  f \in DOMAIN files /\ i \in DOMAIN files[f].lines /\ files'[f].lines[i] = files[f].lines[i]
    <3>1. f \in DOMAIN files /\ files'[f] \in FileType
      BY <2>2 DEF Cut
    <3>2. files'[f].lines \in Seq(Line) /\ files[f].lines \in Seq(Line)
      BY <1>0, <3>1, WrittenIs DEF FileType
    <3>3. i \in 1 .. cut[f] /\ cut[f] \in Nat /\ cut[f] <= Len(files[f].lines)
      BY <2>2, <3>1, <3>2 DEF Cut
    <3> QED BY <2>2, <3>1, <3>2, <3>3 DEF Cut
  <2>4. count'.changes \in Nat /\ count.changes <= count'.changes
    BY <1>0, <2>1
  <2> QED BY <2>1, <2>3, <2>4, BoundsQuiet
<1>15. CASE Open
  <2>1. /\ snap' = snap /\ count' = count /\ mem' = Replayed(Dir, AllLines)
        /\ files' = files \/ Added
        /\ Range(dirs') = Range(dirs) \cup {Dir'} /\ Dir'.snapshot = Dir.snapshot
    BY <1>15, OpenIs
  <2>2. DOMAIN EmptyFile.lines = {}
    BY DEF EmptyFile
  <2>3. Dir \in Range(dirs)
    BY <1>0, DirIs
  <2>4. \A d \in Range(dirs') : \E c \in Range(dirs) : d.snapshot = c.snapshot
    BY <2>1, <2>3
  <2>5. \A f \in DOMAIN files' : \A i \in DOMAIN files'[f].lines :
           f \in DOMAIN files /\ i \in DOMAIN files[f].lines /\ files'[f].lines[i] = files[f].lines[i]
    BY <2>1, <2>2 DEF Added
  <2>6. count'.changes \in Nat /\ count.changes <= count'.changes
    BY <1>0, <2>1
  <2>7. ASSUME NEW x \in Range(mem') PROVE x <= count'.changes
    <3>1. Readable(Dir, AllLines)
      BY <1>0, <2>3, FilesOf, AllReadable
    <3>2. x \in Range(Dir.snapshot.state) \/ \E p \in Places(Dir, AllLines) : files[p[1]].lines[p[2]].e = x
      BY <2>1, <3>1, ReplayedAre
    <3>3. CASE x \in Range(Dir.snapshot.state)
      BY <2>1, <2>3, <3>3, RangeFact DEF Bounds
    <3>4. ASSUME NEW p \in Places(Dir, AllLines), files[p[1]].lines[p[2]].e = x
          PROVE  x <= count'.changes
      <4>1. p[1] \in DOMAIN files /\ p[2] \in DOMAIN files[p[1]].lines
        BY <3>1, PlacesAre
      <4> QED BY <2>1, <3>4, <4>1 DEF Bounds
    <3> QED BY <3>2, <3>3, <3>4
  <2> QED BY <2>1, <2>4, <2>5, <2>6, <2>7, BoundsQuiet
<1> QED BY <1>1, <1>2, <1>3, <1>4, <1>5, <1>6, <1>7, <1>8, <1>9, <1>10, <1>11, <1>12, <1>13,
           <1>14, <1>15, NotUndone DEF Next
-----------------------------------------------------------------------------
(***************************************************************************)
(* What the directories hold, step by step.                                *)
(***************************************************************************)
\* The number of failures only grows.
LEMMA SaneBefore ==
    ASSUME Shape, [Next]_vars
    PROVE  (Calm' => Calm) /\ (Sane' => Sane) /\ setup' = setup
<1> SUFFICES /\ setup' = setup
             /\ count'.powerLosses = 0 => count.powerLosses = 0
             /\ count'.rewrites <= 1 => count.rewrites <= 1
  BY DEF Sane, Calm, fsync
<1>0. Types /\ count.powerLosses \in Nat /\ count.rewrites \in Nat
  BY DEF Shape, Types, CountType
<1>1. CASE UNCHANGED vars
  BY <1>1 DEF vars
<1>2. CASE Change
  BY <1>2, ChangeIs DEF Change
<1>3. CASE TakeSync \/ SyncNext \/ SyncEnds \/ SyncCovered \/ Land \/ Landed \/ Delete \/ Finish \/ Open \/ TakeOver
  <2>1. setup' = setup /\ count' = count
    BY <1>3 DEF TakeSync, SyncNext, SyncEnds, SyncCovered, Land, Landed, Delete, Finish, Open, TakeOver
  <2> QED BY <2>1
<1>4. CASE SyncFails
  BY <1>4, SyncFailsIs
<1>5. CASE StartRewrite
  <2>1. setup' = setup /\ count'.powerLosses = count.powerLosses /\ count'.rewrites = count.rewrites + 1
    BY <1>5, StartRewriteIs
  <2> QED BY <1>0, <2>1
<1>6. CASE GiveUp
  BY <1>6, GiveUpIs
<1>7. CASE Crash
  BY <1>7, CrashIs
<1>8. CASE PowerLoss
  <2>1. /\ setup' = setup /\ count'.powerLosses = count.powerLosses + 1
        /\ count'.rewrites = count.rewrites
    BY <1>8, PowerLossIs
  <2> QED BY <1>0, <2>1
<1> QED BY <1>1, <1>2, <1>3, <1>4, <1>5, <1>6, <1>7, <1>8, NotUndone DEF Next

\* Steps that change neither the lines, nor the last directory, nor the store.
LEMMA SoundKept ==
    ASSUME Shape, Sound, Kept, Fewer, up, mem' = mem, seq' = seq, Calm' => Calm,
           count'.rewrites = count.rewrites,
           writing' => /\ writing /\ snap'.seq = snap.seq /\ snap'.state = snap.state
                       /\ snap'.stage = "renaming" <=> snap.stage = "renaming"
    PROVE  Sound'
<1>1. written' = written
  BY WrittenKept DEF Shape
<1>2. Dir' = Dir /\ Range(dirs') \subseteq Range(dirs)
  BY DEF Fewer
<1>3. Orders'
  <2>1. \A f \in DOMAIN files' : FileRises(files'[f].lines)
    <3>1. \A f \in DOMAIN files : FileRises(files[f].lines)
      BY DEF Sound, Orders
    <3>2. \A f \in DOMAIN files' : f \in DOMAIN files /\ files'[f].lines = files[f].lines
      BY DEF Shape, Types, Kept
    <3> QED BY <3>1, <3>2
  <2>2. \A d \in Range(dirs') : Holds(d, written', seq')
    BY <1>1, <1>2 DEF Sound, Orders
  <2>3. Calm' => \A d \in Range(dirs') : Numbered(d, written')
    BY <1>1, <1>2 DEF Sound, Orders
  <2>4. count'.rewrites = 0 => \A d \in Range(dirs') : DOMAIN d.rotated = {}
    BY <1>2 DEF Sound, Orders
  <2>5. Rising(mem')
    BY DEF Sound, Orders
  <2> QED BY <2>1, <2>2, <2>3, <2>4, <2>5 DEF Orders
<1>4. Agrees'
  <2> SUFFICES /\ \A d \in Range(dirs') :
                     d = Dir' \/ (Dir'.active # NoFile /\ d.active = Dir'.active) => Exact(d, written', mem', seq')
               /\ \A d \in Range(dirs') : Earlier(d, written', mem')
    BY DEF Agrees
  <2> QED BY <1>1, <1>2 DEF Sound, Agrees
<1>5. OnItsWay'
  <2> SUFFICES ASSUME writing' PROVE OnItsWay'
    BY DEF OnItsWay
  <2>1. OnItsWay /\ writing
    BY DEF Sound
  <2>2. snap'.seq = snap.seq /\ snap'.state = snap.state /\ (snap'.stage = "renaming" <=> snap.stage = "renaming")
    OBVIOUS
  <2> QED BY <1>1, <1>2, <2>1, <2>2 DEF OnItsWay
<1> QED BY <1>3, <1>4, <1>5 DEF Sound

\* Such are most.
LEMMA SoundQuiet ==
    ASSUME Shape, Sound, Calm' => Calm,
           \/ TakeSync \/ SyncNext \/ SyncEnds \/ SyncFails \/ SyncCovered \/ Landed
           \/ Finish \/ GiveUp \/ Crash
    PROVE  Sound'
<1>0. Types
  BY DEF Shape
<1>1. CASE TakeSync
  <2>1. /\ files' = files /\ dirs' = dirs /\ up /\ mem' = mem /\ seq' = seq /\ writing' = writing
        /\ snap' = snap /\ count' = count
    BY <1>1, TakeSyncIs
  <2>2. Kept /\ Fewer
    BY <1>0, <2>1, KeptAll, FewerIs
  <2> QED BY <2>1, <2>2, SoundKept
<1>2. CASE SyncNext
  <2>1. /\ Kept /\ Fewer /\ up /\ mem' = mem /\ seq' = seq /\ writing' = writing
        /\ snap' = snap /\ count' = count
    BY <1>2, SyncNextIs
  <2> QED BY <2>1, SoundKept
<1>3. CASE SyncEnds
  <2>1. /\ files' = files /\ dirs' = dirs /\ up /\ mem' = mem /\ seq' = seq /\ writing' = writing
        /\ snap' = snap /\ count' = count
    BY <1>3, SyncEndsIs
  <2>2. Kept /\ Fewer
    BY <1>0, <2>1, KeptAll, FewerIs
  <2> QED BY <2>1, <2>2, SoundKept
<1>4. CASE SyncFails
  <2>1. /\ Kept /\ Fewer /\ up /\ mem' = mem /\ seq' = seq /\ writing' = writing
        /\ snap' = snap /\ count'.rewrites = count.rewrites
    BY <1>4, SyncFailsIs
  <2> QED BY <2>1, SoundKept
<1>5. CASE SyncCovered
  <2>1. /\ Kept /\ Fewer /\ up /\ mem' = mem /\ seq' = seq /\ writing' = writing
        /\ snap'.stage = "synced" /\ snap.stage = "taken" /\ snap'.seq = snap.seq
        /\ snap'.state = snap.state /\ count' = count
    BY <1>5, SyncCoveredIs
  <2> QED BY <2>1, SoundKept
<1>6. CASE Landed
  <2>1. /\ Kept /\ Fewer /\ up /\ mem' = mem /\ seq' = seq /\ writing' = writing
        /\ snap'.stage = "deleting" /\ snap.stage = "landed" /\ snap'.seq = snap.seq
        /\ snap'.state = snap.state /\ count' = count
    BY <1>6, LandedStepIs
  <2> QED BY <2>1, SoundKept
<1>7. CASE Finish \/ GiveUp \/ Crash
  <2>1. /\ Kept /\ Fewer /\ up /\ mem' = mem /\ seq' = seq /\ writing' = FALSE
        /\ count'.rewrites = count.rewrites
    <3>1. CASE Finish
      BY <3>1, FinishIs
    <3>2. CASE GiveUp
      BY <3>2, GiveUpIs
    <3>3. CASE Crash
      BY <3>3, CrashIs
    <3> QED BY <1>7, <3>1, <3>2, <3>3
  <2> QED BY <2>1, SoundKept
<1> QED BY <1>1, <1>2, <1>3, <1>4, <1>5, <1>6, <1>7
\* A line is added to what a file holds: the last of it.
Extended(w, v, f, s, e) ==
    /\ \A g \in DOMAIN files : g # f => v[g] = w[g]
    /\ \A i \in DOMAIN w[f] : i \in DOMAIN v[f] /\ v[f][i] = w[f][i]
    /\ \E k \in DOMAIN v[f] :
          /\ v[f][k].s = s /\ v[f][k].e = e
          /\ \A i \in DOMAIN v[f] : i \in Nat /\ (i = k \/ (i \in DOMAIN w[f] /\ i < k))

\* As a change does.
LEMMA ChangeExtends ==
    ASSUME Shape, Change
    PROVE  /\ Extended(written, written', Dir.active, seq + 1, count.changes + 1)
           /\ Dir.active \in DOMAIN files /\ Dir.active # NoFile
           /\ DOMAIN files' = DOMAIN files
           /\ \A g \in DOMAIN files : files'[g].lines = written'[g]
<1> DEFINE f == Dir.active
           line == [s |-> seq + 1, e |-> count.changes + 1]
<1>1. /\ f \in DOMAIN files /\ f # NoFile /\ DOMAIN files' = DOMAIN files
      /\ \A g \in DOMAIN files : g # f => files'[g] = files[g]
      /\ files'[f].lines = Append(files[f].lines, line)
  BY ChangeGrows DEF Grown
<1>2. \A g \in DOMAIN files : written[g] = files[g].lines /\ written'[g] = files'[g].lines
  BY <1>1 DEF written
<1>3. written[f] \in Seq(Line)
  BY <1>1, WrittenIs DEF Shape
<1> DEFINE k == Len(written[f]) + 1
           ls == written[f]
           ms == written'[f]
<1>4. ms = Append(ls, line) /\ ls \in Seq(Line)
  BY <1>1, <1>2, <1>3
<1> HIDE DEF ls, ms, line
<1>5. /\ DOMAIN ls = 1 .. Len(ls) /\ Len(ls) \in Nat /\ DOMAIN ms = 1 .. Len(ls) + 1
      /\ \A i \in 1 .. Len(ls) : ms[i] = ls[i]
      /\ ms[Len(ls) + 1] = line
  BY <1>4
<1>6. \A i \in DOMAIN ls : i \in DOMAIN ms /\ ms[i] = ls[i]
  BY <1>5
<1>7. /\ k \in DOMAIN ms /\ ms[k] = line
      /\ \A i \in DOMAIN ms : i \in Nat /\ (i = k \/ (i \in DOMAIN ls /\ i < k))
  BY <1>5 DEF ls
<1>8. ms[k].s = seq + 1 /\ ms[k].e = count.changes + 1
  BY <1>7 DEF line
<1>9. \A g \in DOMAIN files : g # f => written'[g] = written[g]
  BY <1>1, <1>2
<1> HIDE DEF k, f
<1>10. Extended(written, written', f, seq + 1, count.changes + 1)
  BY <1>6, <1>7, <1>8, <1>9 DEF Extended, ls, ms
<1> QED BY <1>1, <1>2, <1>10 DEF f

\* The file goes on growing.
LEMMA ExtendedRises ==
    ASSUME NEW w, NEW v, NEW f, NEW s, NEW e, Extended(w, v, f, s, e), FileRises(w[f]),
           \A i \in DOMAIN w[f] : w[f][i].s < s /\ w[f][i].e < e
    PROVE  FileRises(v[f])
<1>1. PICK k \in DOMAIN v[f] :
          /\ v[f][k].s = s /\ v[f][k].e = e
          /\ \A i \in DOMAIN v[f] : i \in Nat /\ (i = k \/ (i \in DOMAIN w[f] /\ i < k))
  BY DEF Extended
<1> SUFFICES ASSUME NEW i \in DOMAIN v[f], NEW j \in DOMAIN v[f], i < j
             PROVE  v[f][i].s < v[f][j].s /\ v[f][i].e < v[f][j].e
  BY DEF FileRises
<1>2. i \in DOMAIN w[f] /\ i # k
  BY <1>1
<1>3. v[f][i] = w[f][i]
  BY <1>2 DEF Extended
<1>4. CASE j = k
  BY <1>1, <1>2, <1>3, <1>4
<1>5. CASE j # k
  <2>1. j \in DOMAIN w[f] /\ v[f][j] = w[f][j]
    BY <1>1, <1>5 DEF Extended
  <2> QED BY <1>2, <1>3, <2>1 DEF FileRises
<1> QED BY <1>4, <1>5

\* So does what a directory holds, whether it has the file or not.
LEMMA ExtendedHolds ==
    ASSUME Shape, Bounds, NEW d \in Range(dirs), Holds(d, written, seq), NEW f \in DOMAIN files, NEW v,
           \A n \in DOMAIN d.rotated : d.rotated[n] # f,
           Extended(written, v, f, seq + 1, count.changes + 1)
    PROVE  Holds(d, v, seq + 1)
<1> DEFINE w == written
           e == count.changes + 1
<1>1. PICK k \in DOMAIN v[f] :
          /\ v[f][k].s = seq + 1 /\ v[f][k].e = e
          /\ \A i \in DOMAIN v[f] : i \in Nat /\ (i = k \/ (i \in DOMAIN w[f] /\ i < k))
  BY DEF Extended
<1>2. /\ \A g \in DOMAIN files : g # f => v[g] = w[g]
      /\ \A i \in DOMAIN w[f] : i \in DOMAIN v[f] /\ v[f][i] = w[f][i]
  BY DEF Extended
<1>3. /\ seq \in Nat /\ count.changes \in Nat
      /\ \A g \in Live(d) : g \in DOMAIN files
      /\ \A n \in DOMAIN d.rotated : d.rotated[n] \in DOMAIN files
      /\ d.snapshot.seq \in Nat
      /\ \A i \in DOMAIN d.snapshot.state : d.snapshot.state[i] \in Nat
      /\ d \in DirType /\ Named(d, Len(files)) /\ Len(files) \in Nat
  BY FilesOf DEF Shape, Types, CountType
<1>4. \A g \in DOMAIN files : \A i \in DOMAIN w[g] :
         /\ w[g][i].s \in Nat /\ w[g][i].e \in Nat /\ w[g][i].e <= count.changes
  BY WrittenIs DEF Shape, Bounds
<1> HIDE DEF w
<1>5. ASSUME NEW g \in Live(d), NEW h \in Live(d), Older(d, g, h), NEW i \in DOMAIN v[g], NEW j \in DOMAIN v[h]
      PROVE  v[g][i].s < v[h][j].s /\ v[g][i].e < v[h][j].e
  <2>1. g # f
    <3> SUFFICES ASSUME g = f PROVE FALSE
      OBVIOUS
    <3>1. g # d.active
      BY <1>3, <1>5, OlderIs
    <3> QED BY <1>3, <3>1, LiveIs
  <2>2. v[g] = w[g] /\ i \in DOMAIN w[g] /\ g \in DOMAIN files
    BY <1>2, <1>3, <2>1
  <2>3. CASE j \in DOMAIN w[h] /\ v[h][j] = w[h][j]
    BY <1>5, <2>2, <2>3 DEF Holds, w
  <2>4. CASE v[h][j].s = seq + 1 /\ v[h][j].e = e
    <3>1. w[g][i].s <= seq
      BY <2>2 DEF Holds, w
    <3>2. w[g][i].s \in Nat /\ w[g][i].e \in Nat /\ w[g][i].e <= count.changes
      BY <1>4, <2>2
    <3> QED BY <1>3, <2>2, <2>4, <3>1, <3>2
  <2>5. (j \in DOMAIN w[h] /\ v[h][j] = w[h][j]) \/ (v[h][j].s = seq + 1 /\ v[h][j].e = e)
    BY <1>1, <1>2, <1>3
  <2> QED BY <2>3, <2>4, <2>5
<1>6. ASSUME NEW g \in Live(d), NEW i \in DOMAIN v[g]
      PROVE  /\ d.snapshot.seq < v[g][i].s /\ v[g][i].s <= seq + 1
             /\ \A m \in DOMAIN d.snapshot.state : d.snapshot.state[m] < v[g][i].e
  <2>1. (i \in DOMAIN w[g] /\ v[g][i] = w[g][i]) \/ (v[g][i].s = seq + 1 /\ v[g][i].e = e)
    BY <1>1, <1>2, <1>3
  <2>2. CASE i \in DOMAIN w[g] /\ v[g][i] = w[g][i]
    <3>1. /\ d.snapshot.seq < w[g][i].s /\ w[g][i].s <= seq
          /\ \A m \in DOMAIN d.snapshot.state : d.snapshot.state[m] < w[g][i].e
      BY <2>2 DEF Holds, w
    <3>2. w[g][i].s \in Nat
      BY <1>3, <1>4, <2>2
    <3>3. w[g][i].s <= seq + 1
      BY <1>3, <3>1, <3>2
    <3> QED BY <2>2, <3>1, <3>3
  <2>3. CASE v[g][i].s = seq + 1 /\ v[g][i].e = e
    <3>1. d.snapshot.seq <= seq
      BY DEF Holds
    <3>2. \A m \in DOMAIN d.snapshot.state : d.snapshot.state[m] <= count.changes
      BY DEF Bounds
    <3>3. \A m \in DOMAIN d.snapshot.state : d.snapshot.state[m] < e
      BY <1>3, <3>2
    <3> QED BY <1>3, <2>3, <3>1, <3>3
  <2> QED BY <2>1, <2>2, <2>3
<1>7. ASSUME NEW n \in DOMAIN d.rotated, NEW i \in DOMAIN v[d.rotated[n]]
      PROVE  v[d.rotated[n]][i].s <= n
  <2>1. v[d.rotated[n]] = w[d.rotated[n]]
    BY <1>2, <1>3
  <2> QED BY <2>1 DEF Holds, w
<1>8. d.snapshot.seq <= seq + 1 /\ Rising(d.snapshot.state)
  <2>1. d.snapshot.seq <= seq /\ Rising(d.snapshot.state)
    BY DEF Holds
  <2> QED BY <1>3, <2>1
<1> QED BY <1>5, <1>6, <1>7, <1>8 DEF Holds

\* And the current journal goes on from those set aside.
LEMMA ExtendedNumbered ==
    ASSUME Shape, NEW d \in Range(dirs), Holds(d, written, seq), Numbered(d, written),
           NEW f \in DOMAIN files, NEW v, NEW e,
           \A n \in DOMAIN d.rotated : d.rotated[n] # f,
           Extended(written, v, f, seq + 1, e)
    PROVE  Numbered(d, v)
<1> DEFINE w == written
<1>1. PICK k \in DOMAIN v[f] :
          /\ v[f][k].s = seq + 1 /\ v[f][k].e = e
          /\ \A i \in DOMAIN v[f] : i \in Nat /\ (i = k \/ (i \in DOMAIN w[f] /\ i < k))
  BY DEF Extended
<1>2. /\ \A g \in DOMAIN files : g # f => v[g] = w[g]
      /\ \A i \in DOMAIN w[f] : i \in DOMAIN v[f] /\ v[f][i] = w[f][i]
  BY DEF Extended
<1>3. /\ seq \in Nat /\ DOMAIN d.rotated \subseteq Nat
      /\ \A n \in DOMAIN d.rotated : d.rotated[n] \in DOMAIN files
      /\ d.active # NoFile => d.active \in DOMAIN files
  BY FilesOf DEF Shape, Types
<1> HIDE DEF w
<1>4. ASSUME NEW n \in DOMAIN d.rotated, n > d.snapshot.seq
      PROVE  /\ \E i \in DOMAIN v[d.rotated[n]] : v[d.rotated[n]][i].s = n
             /\ d.active # NoFile => \A i \in DOMAIN v[d.active] : n < v[d.active][i].s
  <2>1. PICK m \in DOMAIN w[d.rotated[n]] : w[d.rotated[n]][m].s = n
    BY <1>4 DEF Numbered, w
  <2>2. v[d.rotated[n]] = w[d.rotated[n]]
    BY <1>2, <1>3
  <2>3. n <= seq
    <3>1. d.rotated[n] \in Live(d)
      BY <1>4, FilesOf DEF Live, NoFile
    <3> QED BY <2>1, <3>1 DEF Holds, w
  <2>4. ASSUME d.active # NoFile, NEW i \in DOMAIN v[d.active]
        PROVE  n < v[d.active][i].s
    <3>1. (i \in DOMAIN w[d.active] /\ v[d.active][i] = w[d.active][i]) \/ v[d.active][i].s = seq + 1
      BY <1>1, <1>2, <1>3, <2>4
    <3>2. CASE i \in DOMAIN w[d.active] /\ v[d.active][i] = w[d.active][i]
      BY <1>4, <2>4, <3>2 DEF Numbered, w
    <3>3. CASE v[d.active][i].s = seq + 1
      BY <1>3, <2>3, <3>3
    <3> QED BY <3>1, <3>2, <3>3
  <2> QED BY <2>1, <2>2, <2>4
<1> QED BY <1>4 DEF Numbered

\* A change: the line goes to the current journal, and the store has it too.
LEMMA SoundChange ==
    ASSUME Shape, Bounds, Sound, Calm' => Calm, Change
    PROVE  Sound'
<1> DEFINE f == Dir.active
           e == count.changes + 1
<1>1. /\ Extended(written, written', f, seq + 1, e) /\ f \in DOMAIN files /\ f # NoFile
      /\ DOMAIN files' = DOMAIN files /\ \A g \in DOMAIN files : files'[g].lines = written'[g]
  BY ChangeExtends
<1>2. /\ Dir' = Dir /\ Range(dirs') \subseteq Range(dirs)
      /\ mem' = Append(mem, e) /\ seq' = seq + 1 /\ count'.rewrites = count.rewrites
  BY ChangeIs DEF Fewer
<1>3. up /\ snap.stage # "renaming" /\ snap' = snap /\ writing' = writing
  BY DEF Change, Free
<1>4. \A d \in Range(dirs) : \A n \in DOMAIN d.rotated : d.rotated[n] # f
  BY <1>1 DEF Shape, DirsFit
<1>5. Dir \in Range(dirs) /\ seq \in Nat /\ e \in Nat /\ count.changes \in Nat /\ mem \in Seq(Nat)
  BY DirIs DEF Shape, Types, CountType
<1>6. f \in Live(Dir)
  BY <1>1, <1>5, FilesOf
<1>7. \A g \in DOMAIN files : written[g] = files[g].lines
  BY DEF written
<1>8. \A g \in DOMAIN files : \A i \in DOMAIN written[g] :
         written[g][i].s \in Nat /\ written[g][i].e \in Nat /\ written[g][i].e < e
  <2>1. \A g \in DOMAIN files : \A i \in DOMAIN written[g] : written[g][i].e <= count.changes
    BY <1>7 DEF Bounds
  <2>2. \A g \in DOMAIN files : \A i \in DOMAIN written[g] :
         written[g][i].s \in Nat /\ written[g][i].e \in Nat
    BY WrittenIs DEF Shape
  <2> QED BY <1>5, <2>1, <2>2
<1>9. \A i \in DOMAIN written[f] : written[f][i].s < seq + 1 /\ written[f][i].e < e
  <2>1. \A i \in DOMAIN written[f] : written[f][i].s <= seq
    BY <1>5, <1>6 DEF Sound, Orders, Holds
  <2> QED BY <1>1, <1>5, <1>8, <2>1
<1> HIDE DEF f, e
<1>10. \A i \in DOMAIN mem : mem[i] < e /\ mem[i] \in Nat
  <2>1. \A i \in DOMAIN mem : mem[i] <= count.changes
    BY DEF Bounds
  <2> QED BY <1>5, <2>1 DEF e
<1>11. /\ DOMAIN mem = 1 .. Len(mem) /\ Len(mem) \in Nat /\ DOMAIN mem' = 1 .. Len(mem) + 1
       /\ \A i \in 1 .. Len(mem) : mem'[i] = mem[i]
       /\ mem'[Len(mem) + 1] = e
  BY <1>2, <1>5
<1>12. Range(mem') = Range(mem) \cup {e}
  <2>1. \A x : x \in Range(mem') <=> x \in Range(mem) \/ x = e
    <3>1. ASSUME NEW i \in DOMAIN mem' PROVE mem'[i] = e \/ \E j \in DOMAIN mem : mem[j] = mem'[i]
      BY <1>11
    <3>2. ASSUME NEW i \in DOMAIN mem PROVE \E j \in DOMAIN mem' : mem'[j] = mem[i]
      BY <1>11
    <3>3. \E j \in DOMAIN mem' : mem'[j] = e
      BY <1>11
    <3> QED BY <3>1, <3>2, <3>3, RangeFact
  <2> QED BY <2>1
<1>13. Orders'
  <2>1. \A g \in DOMAIN files' : FileRises(files'[g].lines)
    <3> SUFFICES ASSUME NEW g \in DOMAIN files' PROVE FileRises(written'[g])
      BY <1>1
    <3>1. FileRises(written[g])
      BY <1>1, <1>7 DEF Sound, Orders
    <3>2. CASE g # f
      BY <1>1, <3>1, <3>2 DEF Extended
    <3>3. CASE g = f
      <4>1. FileRises(written[f])
        BY <3>1, <3>3
      <4>2. FileRises(written'[f])
        BY <1>1, <1>9, <4>1, ExtendedRises
      <4> QED BY <3>3, <4>2
    <3> QED BY <3>2, <3>3
  <2>2. \A d \in Range(dirs') : Holds(d, written', seq')
    <3> SUFFICES ASSUME NEW d \in Range(dirs) PROVE Holds(d, written', seq + 1)
      BY <1>2
    <3>1. Holds(d, written, seq) /\ \A n \in DOMAIN d.rotated : d.rotated[n] # f
      BY <1>4 DEF Sound, Orders
    <3> QED BY <1>1, <3>1, ExtendedHolds DEF e
  <2>3. Calm' => \A d \in Range(dirs') : Numbered(d, written')
    <3> SUFFICES ASSUME Calm, NEW d \in Range(dirs) PROVE Numbered(d, written')
      BY <1>2
    <3>1. /\ Holds(d, written, seq) /\ Numbered(d, written)
          /\ \A n \in DOMAIN d.rotated : d.rotated[n] # f
      BY <1>4 DEF Sound, Orders
    <3> QED BY <1>1, <3>1, ExtendedNumbered
  <2>4. count'.rewrites = 0 => \A d \in Range(dirs') : DOMAIN d.rotated = {}
    BY <1>2 DEF Sound, Orders
  <2>5. Rising(mem')
    <3> SUFFICES ASSUME NEW i \in 1 .. Len(mem) + 1, NEW j \in 1 .. Len(mem) + 1, i < j
                 PROVE  mem'[i] < mem'[j]
      BY <1>11 DEF Rising
    <3>1. i \in 1 .. Len(mem) /\ mem'[i] = mem[i]
      BY <1>11
    <3>2. CASE j \in 1 .. Len(mem)
      <4>1. mem'[j] = mem[j] /\ j \in DOMAIN mem /\ i \in DOMAIN mem
        BY <1>11, <3>1, <3>2
      <4> QED BY <3>1, <4>1 DEF Sound, Orders, Rising
    <3>3. CASE j = Len(mem) + 1
      BY <1>10, <1>11, <3>1, <3>3
    <3> QED BY <1>11, <3>2, <3>3
  <2> QED BY <2>1, <2>2, <2>3, <2>4, <2>5 DEF Orders
<1>14. ASSUME NEW d \in Range(dirs), d.active = f
       PROVE  Exact(d, written', mem', seq')
  <2>1. f \in Live(d)
    BY <1>1, <1>14, FilesOf
  <2>2. \A g \in Live(d) : g \in DOMAIN files
    BY FilesOf
  <2>3. PICK k \in DOMAIN written'[f] :
          /\ written'[f][k].s = seq + 1 /\ written'[f][k].e = e
          /\ \A i \in DOMAIN written'[f] : i \in Nat /\ (i = k \/ (i \in DOMAIN written[f] /\ i < k))
    BY <1>1 DEF Extended
  <2>4. /\ \A g \in DOMAIN files : g # f => written'[g] = written[g]
        /\ \A i \in DOMAIN written[f] : i \in DOMAIN written'[f] /\ written'[f][i] = written[f][i]
    BY <1>1 DEF Extended
  <2>5. \A x : x \in Stored(d, written') <=> x \in Stored(d, written) \/ x = e
    <3>1. ASSUME NEW g \in Live(d), NEW i \in DOMAIN written'[g]
          PROVE  written'[g][i].e = e \/ \E j \in DOMAIN written[g] : written[g][j].e = written'[g][i].e
      <4>1. CASE g # f
        BY <2>2, <2>4, <4>1
      <4>2. CASE g = f
        BY <2>3, <2>4, <4>2
      <4> QED BY <4>1, <4>2
    <3>2. ASSUME NEW g \in Live(d), NEW i \in DOMAIN written[g]
          PROVE  \E j \in DOMAIN written'[g] : written'[g][j].e = written[g][i].e
      <4>1. CASE g # f
        BY <2>2, <2>4, <4>1
      <4>2. CASE g = f
        BY <2>3, <2>4, <4>2
      <4> QED BY <4>1, <4>2
    <3> QED BY <2>1, <2>3, <3>1, <3>2, StoredIs
  <2>6. Stored(d, written) = Range(mem)
    <3>1. Exact(d, written, mem, seq)
      BY <1>1, <1>3, <1>14 DEF Sound, Agrees, f
    <3> QED BY <3>1 DEF Exact
  <2>7. Stored(d, written') = Range(mem')
    <3> HIDE DEF Stored
    <3> QED BY <1>12, <2>5, <2>6
  <2> QED BY <1>2, <2>1, <2>3, <2>7 DEF Exact
<1>15. ASSUME NEW d \in Range(dirs), d.active # f
       PROVE  Earlier(d, written', mem')
  <2>1. \A g \in Live(d) : g \in DOMAIN files /\ g # f
    BY <1>4, <1>15, FilesOf DEF Live
  <2>2. \A g \in Live(d) : written'[g] = written[g]
    BY <1>1, <2>1 DEF Extended
  <2>3. Stored(d, written') = Stored(d, written)
    <3>1. \A x : x \in Stored(d, written') <=> x \in Stored(d, written)
      BY <2>2, StoredIs
    <3> QED BY <3>1
  <2>4. Earlier(d, written, mem)
    BY <1>3 DEF Sound, Agrees
  <2>5. \A x \in Range(mem) : x < e /\ x \in Nat
    BY <1>10, RangeFact
  <2> SUFFICES ASSUME NEW x \in Stored(d, written), NEW y \in Range(mem'), y < x
               PROVE  y \in Stored(d, written)
    BY <1>12, <2>3, <2>4 DEF Earlier
  <2>6. x \in Range(mem)
    BY <2>4 DEF Earlier
  <2>7. y # e
    BY <1>5, <2>5, <2>6 DEF e
  <2> QED BY <1>12, <2>4, <2>7 DEF Earlier
<1>16. Agrees'
  <2> SUFFICES ASSUME NEW d \in Range(dirs)
               PROVE  /\ d = Dir \/ d.active = f => Exact(d, written', mem', seq')
                      /\ Earlier(d, written', mem')
    BY <1>2 DEF Agrees, f
  <2>1. CASE d.active = f
    BY <1>14, <2>1, ExactIsEarlier
  <2>2. CASE d.active # f
    BY <1>15, <2>2 DEF f
  <2> QED BY <2>1, <2>2
<1>17. OnItsWay'
  <2> SUFFICES ASSUME writing PROVE OnItsWay'
    BY <1>3 DEF OnItsWay
  <2>0. snap.seq \in Nat
    BY DEF Shape, Types, SnapType
  <2>1. /\ Rising(snap.state)
        /\ snap.seq <= seq /\ Dir.snapshot.seq <= snap.seq
        /\ \A n \in DOMAIN Dir.rotated : n <= snap.seq
        /\ \A i \in DOMAIN snap.state : snap.state[i] \in Range(mem)
        /\ \A i \in DOMAIN written[f] :
              /\ snap.seq < written[f][i].s
              /\ \A k \in DOMAIN snap.state : snap.state[k] < written[f][i].e
        /\ Range(mem) = Range(snap.state) \cup {written[f][i].e : i \in DOMAIN written[f]}
    BY <1>3 DEF Sound, OnItsWay, f
  <2>2. PICK k \in DOMAIN written'[f] :
          /\ written'[f][k].s = seq + 1 /\ written'[f][k].e = e
          /\ \A i \in DOMAIN written'[f] : i \in Nat /\ (i = k \/ (i \in DOMAIN written[f] /\ i < k))
    BY <1>1 DEF Extended
  <2>3. \A i \in DOMAIN written[f] : i \in DOMAIN written'[f] /\ written'[f][i] = written[f][i]
    BY <1>1 DEF Extended
  <2>4. \A i \in DOMAIN snap.state : snap.state[i] < e /\ snap.state[i] \in Range(mem')
    BY <1>10, <1>12, <2>1, RangeFact
  <2>5. ASSUME NEW i \in DOMAIN written'[f]
        PROVE  /\ snap.seq < written'[f][i].s
               /\ \A m \in DOMAIN snap.state : snap.state[m] < written'[f][i].e
    <3>1. CASE i = k
      BY <1>5, <2>0, <2>1, <2>2, <2>4, <3>1
    <3>2. CASE i \in DOMAIN written[f]
      BY <2>1, <2>3, <3>2
    <3> QED BY <2>2, <3>1, <3>2
  <2>6. Range(mem') = Range(snap.state) \cup {written'[f][i].e : i \in DOMAIN written'[f]}
    <3>1. \A x : x \in {written'[f][i].e : i \in DOMAIN written'[f]}
                   <=> x \in {written[f][i].e : i \in DOMAIN written[f]} \/ x = e
      BY <2>2, <2>3
    <3> QED BY <1>12, <2>1, <3>1
  <2>7. snap.seq <= seq'
    BY <1>2, <1>5, <2>0, <2>1
  <2>8. \E i \in DOMAIN written'[f] : written'[f][i].s = seq'
    BY <1>2, <2>2
  <2> QED BY <1>2, <1>3, <2>1, <2>4, <2>5, <2>6, <2>7, <2>8 DEF OnItsWay, f
<1> QED BY <1>13, <1>16, <1>17 DEF Sound

\* What a restart would find is the store.
Found(m, q) ==
    /\ \A d \in Range(dirs) : Holds(d, written, q) /\ Earlier(d, written, m)
    /\ \A d \in Range(dirs) :
          d = Dir \/ (Dir.active # NoFile /\ d.active = Dir.active) => Exact(d, written, m, q)
    /\ Rising(m)

\* An operation on the directory that loses nothing: what there was stays, and
\* what it makes of it holds the store.
LEMMA SoundAddedTo ==
    ASSUME Shape, Shape', Orders, Found(mem', seq'), Calm' => Calm,
           \A f \in DOMAIN files : f \in DOMAIN files' /\ files'[f].lines = files[f].lines,
           \A f \in DOMAIN files' : f \in DOMAIN files \/ DOMAIN files'[f].lines = {},
           Range(dirs') = Range(dirs) \cup {Dir'},
           \A d \in Range(dirs) : d.active = Dir'.active /\ d.active # NoFile => Dir.active = d.active,
           Holds(Dir', written', seq'), Exact(Dir', written', mem', seq'),
           Calm' => Numbered(Dir', written'),
           count'.rewrites = 0 => count.rewrites = 0 /\ DOMAIN Dir'.rotated = {}
    PROVE  Orders' /\ Agrees'
<1>1. \A f \in DOMAIN files : written'[f] = written[f]
  BY DEF written
<1>2. Len(files) \in Nat /\ DOMAIN files = 1 .. Len(files)
  BY DEF Shape, Types
<1>3. ASSUME NEW d \in Range(dirs)
      PROVE  /\ Holds(d, written', seq')
             /\ Calm' => Numbered(d, written')
             /\ Exact(d, written, mem', seq') => Exact(d, written', mem', seq')
             /\ Earlier(d, written', mem')
  <2>1. d \in DirType /\ Named(d, Len(files))
    BY FilesOf
  <2>2. /\ Holds(d, written, seq') /\ (Calm' => Numbered(d, written)) /\ Earlier(d, written, mem')
    BY DEF Orders, Found
  <2> DEFINE v == written'
             w == written
             m == mem'
             q == seq'
  <2>3. \A f \in 1 .. Len(files) : v[f] = w[f]
    BY <1>1, <1>2
  <2> HIDE DEF v, w, m, q
  <2>4. /\ Holds(d, w, q) <=> Holds(d, v, q)
        /\ Numbered(d, w) <=> Numbered(d, v)
        /\ Exact(d, w, m, q) <=> Exact(d, v, m, q)
        /\ Earlier(d, w, m) <=> Earlier(d, v, m)
    BY <1>2, <2>1, <2>3, SameFiles
  <2> QED BY <2>2, <2>4 DEF v, w, m, q
<1>4. Orders'
  <2>1. \A f \in DOMAIN files' : FileRises(files'[f].lines)
    <3> SUFFICES ASSUME NEW f \in DOMAIN files' PROVE FileRises(files'[f].lines)
      OBVIOUS
    <3>1. CASE f \in DOMAIN files
      BY <3>1 DEF Orders
    <3>2. CASE DOMAIN files'[f].lines = {}
      BY <3>2 DEF FileRises
    <3> QED BY <3>1, <3>2
  <2>2. \A d \in Range(dirs') : Holds(d, written', seq')
    BY <1>3
  <2>3. Calm' => \A d \in Range(dirs') : Numbered(d, written')
    BY <1>3
  <2>4. count'.rewrites = 0 => \A d \in Range(dirs') : DOMAIN d.rotated = {}
    BY DEF Orders
  <2>5. Rising(mem')
    BY DEF Found
  <2> QED BY <2>1, <2>2, <2>3, <2>4, <2>5 DEF Orders
<1>5. Earlier(Dir', written', mem')
  BY ExactIsEarlier
<1>6. ASSUME NEW d \in Range(dirs), d.active = Dir'.active, Dir'.active # NoFile
      PROVE  Exact(d, written', mem', seq')
  BY <1>3, <1>6 DEF Found
<1>7. Agrees'
  <2> SUFFICES /\ \A d \in Range(dirs') :
                     d = Dir' \/ (Dir'.active # NoFile /\ d.active = Dir'.active) => Exact(d, written', mem', seq')
               /\ \A d \in Range(dirs') : Earlier(d, written', mem')
    BY DEF Agrees
  <2> QED BY <1>3, <1>5, <1>6
<1> QED BY <1>4, <1>7

\* So it is while the server runs, and the store stays.
LEMMA SoundAdded ==
    ASSUME Shape, Shape', Orders, Agrees, up \/ Len(dirs) # 1, mem' = mem, seq' = seq, Calm' => Calm,
           \A f \in DOMAIN files : f \in DOMAIN files' /\ files'[f].lines = files[f].lines,
           \A f \in DOMAIN files' : f \in DOMAIN files \/ DOMAIN files'[f].lines = {},
           Range(dirs') = Range(dirs) \cup {Dir'},
           \A d \in Range(dirs) : d.active = Dir'.active /\ d.active # NoFile => Dir.active = d.active,
           Holds(Dir', written', seq), Exact(Dir', written', mem, seq),
           Calm' => Numbered(Dir', written'),
           count'.rewrites = 0 => count.rewrites = 0 /\ DOMAIN Dir'.rotated = {}
    PROVE  Orders' /\ Agrees'
<1>1. Found(mem', seq')
  BY DEF Found, Orders, Agrees
<1>2. Holds(Dir', written', seq') /\ Exact(Dir', written', mem', seq')
  OBVIOUS
<1> QED BY <1>1, <1>2, SoundAddedTo

\* A journal is set aside.
LEMMA SoundStartRewrite ==
    ASSUME Shape, Shape', Sane', Calm' => Calm, Sound, StartRewrite
    PROVE  Sound' /\ Follows(Dir', Dir, written')
<1>1. /\ setup' = setup /\ files' = files /\ mem' = mem /\ seq' = seq /\ up /\ snap.stage = "none"
      /\ snap' = [stage |-> "renaming", seq |-> seq, state |-> mem, covered |-> {}]
      /\ \/ seq \in DOMAIN Dir.rotated /\ dirs' = dirs /\ Dir' = Dir
         \/ /\ seq \notin DOMAIN Dir.rotated
            /\ Dir' = SetAside(Dir, seq)
            /\ Range(dirs') = Range(dirs) \cup {SetAside(Dir, seq)}
      /\ count'.rewrites = count.rewrites + 1 /\ count'.powerLosses = count.powerLosses
  BY StartRewriteIs
<1>2. Dir \in Range(dirs) /\ Dir \in DirType /\ seq \in Nat /\ count.rewrites \in Nat
  BY DirIs DEF Shape, Types, CountType
<1>3. /\ Named(Dir, Len(files)) /\ Len(files) \in Nat /\ DOMAIN files = 1 .. Len(files)
      /\ DOMAIN Dir.rotated \subseteq Nat /\ Dir.snapshot.seq \in Nat
      /\ \A n \in DOMAIN Dir.rotated : Dir.rotated[n] \in DOMAIN files /\ Dir.rotated[n] # Dir.active
  BY <1>2, FilesOf
<1>4. Dir.active # NoFile /\ Dir.active \in DOMAIN files /\ Dir.active \in Live(Dir)
  <2>1. Dir.active # NoFile
    BY <1>1 DEF Shape, StagesFit
  <2> QED BY <1>2, <2>1, FilesOf
<1>5. Holds(Dir, written, seq) /\ Exact(Dir, written, mem, seq) /\ (Calm => Numbered(Dir, written))
      /\ Rising(mem)
  BY <1>1, <1>2 DEF Sound, Orders, Agrees
<1>6. \A f \in DOMAIN files : \A i \in DOMAIN written[f] : written[f][i].s \in Nat
  BY WrittenIs DEF Shape
<1>7. Calm \/ DOMAIN Dir.rotated = {}
  <2>1. Calm' \/ count.rewrites = 0
    BY <1>1, <1>2 DEF Sane
  <2> QED BY <1>2, <2>1 DEF Sound, Orders
<1>8. \A n \in DOMAIN Dir.rotated : n <= seq
  <2> SUFFICES ASSUME NEW n \in DOMAIN Dir.rotated PROVE n <= seq
    OBVIOUS
  <2>1. CASE n > Dir.snapshot.seq
    <3>1. \E i \in DOMAIN written[Dir.rotated[n]] : written[Dir.rotated[n]][i].s = n
      BY <1>5, <1>7, <2>1 DEF Numbered
    <3>2. Dir.rotated[n] \in Live(Dir)
      BY <1>2, <1>3, <2>1, LiveIs DEF NoFile
    <3> QED BY <1>5, <3>1, <3>2 DEF Holds
  <2>2. CASE n <= Dir.snapshot.seq
    <3>1. Dir.snapshot.seq <= seq
      BY <1>5 DEF Holds
    <3> QED BY <1>2, <1>3, <2>2, <3>1
  <2> QED BY <1>2, <1>3, <2>1, <2>2
<1>9. Dir.snapshot.seq <= seq
      /\ \A i \in DOMAIN written[Dir.active] :
            Dir.snapshot.seq < written[Dir.active][i].s /\ written[Dir.active][i].s <= seq
  BY <1>4, <1>5 DEF Holds
<1>10. written' = written
  BY <1>1 DEF written
<1>11. \A i \in DOMAIN mem : mem[i] \in Range(mem)
  BY RangeFact
<1>12. CASE seq \in DOMAIN Dir.rotated
  <2>1. dirs' = dirs /\ Dir' = Dir
    BY <1>1, <1>12
  <2>2. written[Dir.active] = <<>>
    <3>1. ASSUME NEW i \in DOMAIN written[Dir.active] PROVE FALSE
      <4>1. written[Dir.active][i].s \in Nat
        BY <1>4, <1>6
      <4>2. seq > Dir.snapshot.seq
        BY <1>2, <1>3, <1>9, <4>1
      <4>3. seq < written[Dir.active][i].s
        BY <1>4, <1>5, <1>7, <1>12, <4>2 DEF Numbered
      <4> QED BY <1>2, <1>9, <4>1, <4>3
    <3> DEFINE ls == written[Dir.active]
    <3>2. ls \in Seq(Line)
      BY <1>4, WrittenIs DEF Shape
    <3>3. ~ \E i \in DOMAIN ls : TRUE
      BY <3>1
    <3> HIDE DEF ls
    <3>4. DOMAIN ls = 1 .. Len(ls) /\ Len(ls) \in Nat
      BY <3>2
    <3>5. Len(ls) = 0
      BY <3>3, <3>4
    <3>6. ls = <<>>
      BY <3>2, <3>5, EmptySeq
    <3> QED BY <3>6 DEF ls
  <2>3. Orders'
    BY <1>1, <1>2, <1>10, <2>1 DEF Sound, Orders
  <2>4. Agrees'
    BY <1>1, <1>10, <2>1 DEF Sound, Agrees
  <2>5. OnItsWay'
    BY <1>1, <1>2, <1>5, <1>8, <1>9, <1>10, <1>11, <2>1, <2>2 DEF OnItsWay
  <2>6. Follows(Dir', Dir, written')
    BY <2>1 DEF Follows
  <2> QED BY <2>3, <2>4, <2>5, <2>6 DEF Sound
<1>13. CASE seq \notin DOMAIN Dir.rotated
  <2> DEFINE D == SetAside(Dir, seq)
             w == written
  <2>1. Dir' = D /\ Range(dirs') = Range(dirs) \cup {Dir'}
    BY <1>1, <1>13
  <2>2. /\ D \in DirType /\ D.active = NoFile /\ D.snapshot = Dir.snapshot
        /\ DOMAIN D.rotated = DOMAIN Dir.rotated \cup {seq} /\ D.rotated[seq] = Dir.active
        /\ \A m \in DOMAIN Dir.rotated : D.rotated[m] = Dir.rotated[m]
    BY <1>2, <1>13, SetAsideIs
  <2>3. Named(D, Len(files))
    BY <1>1, <1>2, <2>1 DEF Shape, DirsFit
  <2>4. \A n \in DOMAIN Dir.rotated : n < seq
    BY <1>2, <1>3, <1>8, <1>13
  <2> HIDE DEF D, w
  <2>5. Follows(D, Dir, w)
    <3>1. ASSUME NEW f \in Live(D) PROVE f \in Live(Dir)
      <4>1. PICK n \in DOMAIN D.rotated : n > D.snapshot.seq /\ D.rotated[n] = f
        BY <1>3, <2>2, <2>3, LiveIs
      <4>2. CASE n = seq
        BY <1>4, <2>2, <4>1, <4>2
      <4>3. CASE n \in DOMAIN Dir.rotated
        BY <1>2, <1>3, <2>2, <4>1, <4>3, LiveIs DEF NoFile
      <4> QED BY <2>2, <4>2, <4>3
    <3>2. ASSUME NEW f \in Live(Dir) PROVE f \in Live(D) \/ DOMAIN w[f] = {}
      <4>1. CASE f = Dir.active
        <5>1. CASE seq > Dir.snapshot.seq
          BY <1>3, <1>4, <2>2, <2>3, <4>1, <5>1, LiveIs
        <5>2. CASE ~(seq > Dir.snapshot.seq)
          <6>1. ASSUME NEW i \in DOMAIN w[f] PROVE FALSE
            <7>1. written[Dir.active][i].s \in Nat
              BY <1>4, <1>6, <4>1, <6>1 DEF w
            <7>2. Dir.snapshot.seq < written[Dir.active][i].s /\ written[Dir.active][i].s <= seq
              BY <1>9, <4>1, <6>1 DEF w
            <7> QED BY <1>2, <1>3, <5>2, <7>1, <7>2
          <6> QED BY <6>1
        <5> QED BY <5>1, <5>2
      <4>2. CASE f # Dir.active
        <5>1. PICK n \in DOMAIN Dir.rotated : n > Dir.snapshot.seq /\ Dir.rotated[n] = f
          BY <1>2, <1>3, <4>2, LiveIs
        <5>2. f # NoFile
          BY <1>3, <5>1 DEF NoFile
        <5> QED BY <1>3, <2>2, <2>3, <5>1, <5>2, LiveIs
      <4> QED BY <4>1, <4>2
    <3>3. ASSUME NEW f \in Live(D), NEW g \in Live(D), Older(D, f, g)
          PROVE  Older(Dir, f, g)
      <4>1. g # NoFile
        BY <1>3, <2>2, <2>3, LiveIs
      <4>2. PICK n \in DOMAIN D.rotated : \E m \in DOMAIN D.rotated :
               n < m /\ D.rotated[n] = f /\ D.rotated[m] = g
        BY <2>2, <3>3, <4>1 DEF Older
      <4>3. PICK m \in DOMAIN D.rotated : n < m /\ D.rotated[n] = f /\ D.rotated[m] = g
        BY <4>2
      <4>4. n \in DOMAIN Dir.rotated
        <5>1. m <= seq
          BY <1>2, <1>8, <2>2
        <5> QED BY <1>2, <1>3, <2>2, <4>3, <5>1
      <4>5. Dir.rotated[n] = f /\ f # Dir.active
        BY <1>3, <2>2, <4>3, <4>4
      <4>6. CASE m = seq
        BY <2>2, <4>3, <4>5, <4>6 DEF Older
      <4>7. CASE m \in DOMAIN Dir.rotated
        <5>1. Dir.rotated[m] = g /\ g # Dir.active
          BY <1>3, <2>2, <4>3, <4>7
        <5> QED BY <4>3, <4>4, <4>5, <4>7, <5>1 DEF Older
      <4> QED BY <2>2, <4>6, <4>7
    <3> QED BY <2>2, <3>1, <3>2, <3>3 DEF Follows
  <2>6. \A n \in DOMAIN D.rotated : \A i \in DOMAIN w[D.rotated[n]] : w[D.rotated[n]][i].s <= n
    <3>1. \A n \in DOMAIN Dir.rotated : \A i \in DOMAIN w[Dir.rotated[n]] : w[Dir.rotated[n]][i].s <= n
      BY <1>5 DEF Holds, w
    <3>2. \A i \in DOMAIN w[D.rotated[seq]] : w[D.rotated[seq]][i].s <= seq
      BY <1>9, <2>2 DEF w
    <3> QED BY <2>2, <3>1, <3>2
  <2>7. Holds(D, w, seq) /\ Exact(D, w, mem, seq)
    <3>1. Holds(Dir, w, seq) /\ Exact(Dir, w, mem, seq)
      BY <1>5 DEF w
    <3> QED BY <2>5, <2>6, <3>1, FollowsHolds
  <2>8. ASSUME Calm PROVE Numbered(D, w)
    <3>1. Numbered(Dir, w)
      BY <1>5, <2>8 DEF w
    <3> SUFFICES ASSUME NEW n \in DOMAIN D.rotated, n > D.snapshot.seq
                 PROVE  \E i \in DOMAIN w[D.rotated[n]] : w[D.rotated[n]][i].s = n
      BY <2>2 DEF Numbered
    <3>2. CASE n \in DOMAIN Dir.rotated
      BY <2>2, <3>1, <3>2 DEF Numbered
    <3>3. CASE n = seq
      <4>1. PICK f \in Live(Dir) : \E i \in DOMAIN w[f] : w[f][i].s = seq
        BY <1>2, <1>3, <1>5, <2>2, <3>3 DEF Exact, w
      <4>2. f = Dir.active
        <5> SUFFICES ASSUME f # Dir.active PROVE FALSE
          OBVIOUS
        <5>1. PICK m \in DOMAIN Dir.rotated : Dir.rotated[m] = f
          BY <1>2, <1>3, LiveIs
        <5>2. \A i \in DOMAIN w[f] : w[f][i].s <= m
          BY <1>5, <5>1 DEF Holds, w
        <5> QED BY <1>2, <1>3, <2>4, <4>1, <5>1, <5>2
      <4> QED BY <2>2, <3>3, <4>1, <4>2
    <3> QED BY <2>2, <3>2, <3>3
  <2>9. Orders' /\ Agrees'
    <3>1. Holds(Dir', written', seq) /\ Exact(Dir', written', mem, seq) /\ (Calm' => Numbered(Dir', written'))
      BY <1>10, <2>1, <2>7, <2>8 DEF w
    <3>2. count'.rewrites # 0
      BY <1>1, <1>2
    <3>3. Dir'.active = NoFile
      BY <2>1, <2>2
    <3> QED BY <1>1, <2>1, <3>1, <3>2, <3>3, SoundAdded DEF Sound
  <2>10. OnItsWay'
    <3>1. /\ Dir'.active = NoFile /\ Dir'.snapshot = Dir.snapshot
          /\ \A n \in DOMAIN Dir'.rotated : n <= seq
      BY <1>2, <1>8, <2>1, <2>2
    <3> QED BY <1>1, <1>2, <1>5, <1>9, <1>11, <3>1 DEF OnItsWay
  <2>11. Follows(Dir', Dir, written')
    BY <1>10, <2>1, <2>5 DEF w
  <2> QED BY <2>9, <2>10, <2>11 DEF Sound
<1> QED BY <1>12, <1>13

\* A fresh journal takes its place.
LEMMA SoundTakeOver ==
    ASSUME Shape, Shape', Calm' => Calm, Sound, TakeOver
    PROVE  Sound' /\ Follows(Dir', Dir, written')
<1>1. /\ mem' = mem /\ seq' = seq /\ count' = count /\ up /\ writing /\ snap.stage = "renaming" /\ Added
      /\ Dir' \in DirType /\ Range(dirs') = Range(dirs) \cup {Dir'}
      /\ Dir'.active = Len(files) + 1 /\ Dir'.rotated = Dir.rotated
      /\ Dir'.snapshot = Dir.snapshot
      /\ snap'.stage = "taken" /\ snap'.seq = snap.seq /\ snap'.state = snap.state
  BY TakeOverIs
<1>2. Dir \in Range(dirs) /\ Dir \in DirType
  BY DirIs DEF Shape, Types
<1>3. /\ Named(Dir, Len(files)) /\ Len(files) \in Nat /\ DOMAIN files = 1 .. Len(files)
      /\ \A n \in DOMAIN Dir.rotated : Dir.rotated[n] \in DOMAIN files
      /\ \A f \in Live(Dir) : f \in DOMAIN files
  BY <1>2, FilesOf
<1>4. Named(Dir', Len(files) + 1)
  BY <1>1 DEF Shape, DirsFit, Added
<1>5. Holds(Dir, written, seq) /\ Exact(Dir, written, mem, seq) /\ (Calm => Numbered(Dir, written))
  BY <1>1, <1>2 DEF Sound, Orders, Agrees
<1>6. /\ Rising(snap.state) /\ snap.state = mem /\ snap.seq = seq
      /\ Dir.active # NoFile => written[Dir.active] = <<>>
      /\ snap.seq <= seq /\ Dir.snapshot.seq <= snap.seq
      /\ \A n \in DOMAIN Dir.rotated : n <= snap.seq
      /\ \A i \in DOMAIN snap.state : snap.state[i] \in Range(mem)
  BY <1>1 DEF Sound, OnItsWay, Shape, StagesFit
<1> DEFINE D == Dir'
           v == written'
           w == written
<1>7. (\A f \in DOMAIN files : v[f] = w[f]) /\ v[D.active] = <<>> /\ DOMAIN v[D.active] = {}
  BY <1>1 DEF Added, EmptyFile, written
<1>8. D.active \notin DOMAIN files /\ D.active # NoFile
  BY <1>1, <1>3 DEF NoFile
<1>9. D \in DirType /\ D.rotated = Dir.rotated /\ D.snapshot = Dir.snapshot /\ Named(D, Len(files) + 1)
      /\ Len(files) + 1 \in Nat
  BY <1>1, <1>3, <1>4
<1>10. Holds(Dir, v, seq) /\ Exact(Dir, v, mem, seq) /\ (Calm => Numbered(Dir, v))
  <2> HIDE DEF v
  <2>1. \A f \in 1 .. Len(files) : v[f] = w[f]
    BY <1>3, <1>7
  <2>2. Holds(Dir, w, seq) /\ Exact(Dir, w, mem, seq) /\ (Calm => Numbered(Dir, w))
    BY <1>5 DEF w
  <2> HIDE DEF w
  <2> QED BY <1>2, <1>3, <2>1, <2>2, SameFiles
<1>11. Dir.active # NoFile => DOMAIN v[Dir.active] = {}
  BY <1>2, <1>6, <1>7, FilesOf
<1>12. \A f : f \in Live(D) <=>
                 f # NoFile /\ (f = D.active \/ \E n \in DOMAIN D.rotated : n > D.snapshot.seq /\ D.rotated[n] = f)
  <2> HIDE DEF D
  <2> QED BY <1>9, LiveIs
<1>13. \A f : f \in Live(Dir) <=>
                 f # NoFile /\ (f = Dir.active \/ \E n \in DOMAIN Dir.rotated : n > Dir.snapshot.seq /\ Dir.rotated[n] = f)
  BY <1>2, <1>3, LiveIs
<1>14. \A n \in DOMAIN Dir.rotated : Dir.rotated[n] # Dir.active
  BY <1>3 DEF Named
<1> HIDE DEF D, v, w
<1>15. Follows(D, Dir, v)
  <2>1. ASSUME NEW f \in Live(D) PROVE f \in Live(Dir) \/ DOMAIN v[f] = {}
    BY <1>7, <1>9, <1>12, <1>13, <2>1
  <2>2. ASSUME NEW f \in Live(Dir) PROVE f \in Live(D) \/ DOMAIN v[f] = {}
    BY <1>9, <1>11, <1>12, <1>13, <2>2
  <2>3. ASSUME NEW f \in Live(D), NEW g \in Live(D), Older(D, f, g), DOMAIN v[f] # {}, DOMAIN v[g] # {}
        PROVE  Older(Dir, f, g)
    <3>1. g # D.active
      BY <1>7, <2>3
    <3>2. PICK n \in DOMAIN D.rotated : \E m \in DOMAIN D.rotated :
             n < m /\ D.rotated[n] = f /\ D.rotated[m] = g
      BY <2>3, <3>1 DEF Older
    <3>3. PICK m \in DOMAIN D.rotated : n < m /\ D.rotated[n] = f /\ D.rotated[m] = g
      BY <3>2
    <3> QED BY <1>9, <1>14, <3>3 DEF Older
  <2> QED BY <1>9, <2>1, <2>2, <2>3 DEF Follows
<1>16. \A n \in DOMAIN D.rotated : \A i \in DOMAIN v[D.rotated[n]] : v[D.rotated[n]][i].s <= n
  BY <1>9, <1>10 DEF Holds
<1>17. Holds(D, v, seq) /\ Exact(D, v, mem, seq)
  BY <1>10, <1>15, <1>16, FollowsHolds
<1>18. ASSUME Calm PROVE Numbered(D, v)
  BY <1>7, <1>9, <1>10, <1>18 DEF Numbered
<1>19. Orders' /\ Agrees'
  <2>1. Holds(Dir', written', seq) /\ Exact(Dir', written', mem, seq) /\ (Calm' => Numbered(Dir', written'))
    BY <1>17, <1>18 DEF D, v
  <2>2. /\ \A f \in DOMAIN files : f \in DOMAIN files' /\ files'[f].lines = files[f].lines
        /\ \A f \in DOMAIN files' : f \in DOMAIN files \/ DOMAIN files'[f].lines = {}
    BY <1>1 DEF Added, EmptyFile
  <2>3. \A d \in Range(dirs) : d.active = Dir'.active /\ d.active # NoFile => Dir.active = d.active
    <3>1. \A d \in Range(dirs) : d.active # NoFile => d.active \in DOMAIN files
      BY FilesOf
    <3> QED BY <1>8, <3>1 DEF D
  <2>4. count'.rewrites = 0 => count.rewrites = 0 /\ DOMAIN Dir'.rotated = {}
    BY <1>1, <1>2 DEF Sound, Orders
  <2> QED BY <1>1, <2>1, <2>2, <2>3, <2>4, SoundAdded DEF Sound
<1>20. OnItsWay'
  <2>1. written'[Dir'.active] = <<>> /\ DOMAIN written'[Dir'.active] = {}
    BY <1>7 DEF D, v
  <2>2. Range(mem') = Range(snap'.state)
                     \cup {written'[Dir'.active][i].e : i \in DOMAIN written'[Dir'.active]}
    <3>1. {written'[Dir'.active][i].e : i \in DOMAIN written'[Dir'.active]} = {}
      BY <2>1
    <3> QED BY <1>1, <1>6, <3>1
  <2> QED BY <1>1, <1>6, <2>1, <2>2 DEF OnItsWay
<1>21. Follows(Dir', Dir, written')
  BY <1>15 DEF D, v
<1> QED BY <1>19, <1>20, <1>21 DEF Sound

\* The snapshot takes the place of the one before, and of the journals it covers.
LEMMA SoundLand ==
    ASSUME Shape, Shape', Calm' => Calm, Sound, Land
    PROVE  Sound'
<1>1. /\ files' = files /\ mem' = mem /\ seq' = seq /\ count' = count /\ up /\ writing
      /\ snap.stage = "synced"
      /\ Dir' \in DirType /\ Range(dirs') = Range(dirs) \cup {Dir'}
      /\ Dir'.active = Dir.active /\ Dir'.rotated = Dir.rotated
      /\ Dir'.snapshot = [seq |-> snap.seq, state |-> snap.state]
      /\ snap'.stage = "landed" /\ snap'.seq = snap.seq /\ snap'.state = snap.state
  BY LandIs
<1>2. Dir \in Range(dirs) /\ Dir \in DirType /\ snap.seq \in Nat
  BY DirIs DEF Shape, Types, SnapType
<1>3. Dir.active # NoFile
  BY <1>1 DEF Shape, StagesFit
<1>4. /\ Named(Dir, Len(files)) /\ Len(files) \in Nat /\ DOMAIN files = 1 .. Len(files)
      /\ Dir.active \in DOMAIN files /\ Dir.active \in Live(Dir) /\ DOMAIN Dir.rotated \subseteq Nat
  BY <1>2, <1>3, FilesOf
<1>5. Named(Dir', Len(files))
  BY <1>1 DEF Shape, DirsFit
<1>6. Holds(Dir, written, seq)
  BY <1>2 DEF Sound, Orders
<1>7. /\ Rising(snap.state)
      /\ snap.seq <= seq
      /\ \A n \in DOMAIN Dir.rotated : n <= snap.seq
      /\ \A i \in DOMAIN snap.state : snap.state[i] \in Range(mem)
      /\ \A i \in DOMAIN written[Dir.active] :
            /\ snap.seq < written[Dir.active][i].s
            /\ \A k \in DOMAIN snap.state : snap.state[k] < written[Dir.active][i].e
      /\ Range(mem) = Range(snap.state)
             \cup {written[Dir.active][i].e : i \in DOMAIN written[Dir.active]}
      /\ seq = snap.seq \/ \E i \in DOMAIN written[Dir.active] : written[Dir.active][i].s = seq
  BY <1>1 DEF Sound, OnItsWay
<1>8. written' = written
  BY <1>1 DEF written
<1> DEFINE D == Dir'
           w == written
<1>9. /\ D \in DirType /\ D.active = Dir.active /\ D.rotated = Dir.rotated
      /\ D.snapshot.seq = snap.seq /\ D.snapshot.state = snap.state /\ Named(D, Len(files))
  BY <1>1, <1>5
<1> HIDE DEF D
<1>10. \A n \in DOMAIN D.rotated : ~(n > D.snapshot.seq)
  BY <1>2, <1>4, <1>7, <1>9
<1>11. \A f : f \in Live(D) <=> f = Dir.active
  BY <1>3, <1>4, <1>9, <1>10, LiveIs
<1> HIDE DEF w
<1>12. Holds(D, w, seq)
  <2>1. \A f, g \in Live(D) : ~Older(D, f, g)
    BY <1>9, <1>11 DEF Older
  <2>2. \A f \in Live(D) : \A i \in DOMAIN w[f] :
          /\ D.snapshot.seq < w[f][i].s /\ w[f][i].s <= seq
          /\ \A k \in DOMAIN D.snapshot.state : D.snapshot.state[k] < w[f][i].e
    <3>1. \A i \in DOMAIN w[Dir.active] : w[Dir.active][i].s <= seq
      BY <1>4, <1>6 DEF Holds, w
    <3> QED BY <1>7, <1>9, <1>11, <3>1 DEF w
  <2>3. \A n \in DOMAIN D.rotated : \A i \in DOMAIN w[D.rotated[n]] : w[D.rotated[n]][i].s <= n
    BY <1>6, <1>9 DEF Holds, w
  <2> QED BY <1>7, <1>9, <2>1, <2>2, <2>3 DEF Holds
<1>13. Exact(D, w, mem, seq)
  <2>1. Stored(D, w) = Range(mem)
    <3>1. \A x : x \in Stored(D, w) <=> x \in Range(snap.state)
                    \/ \E i \in DOMAIN w[Dir.active] : w[Dir.active][i].e = x
      BY <1>9, <1>11, StoredIs
    <3>2. \A x : x \in Range(mem) <=> x \in Range(snap.state)
                    \/ \E i \in DOMAIN w[Dir.active] : w[Dir.active][i].e = x
      BY <1>7 DEF w
    <3> QED BY <3>1, <3>2
  <2>2. seq = D.snapshot.seq \/ \E f \in Live(D) : \E i \in DOMAIN w[f] : w[f][i].s = seq
    BY <1>7, <1>9, <1>11 DEF w
  <2> QED BY <2>1, <2>2 DEF Exact
<1>14. Numbered(D, w)
  BY <1>10 DEF Numbered
<1>15. Orders' /\ Agrees'
  <2>1. Holds(Dir', written', seq) /\ Exact(Dir', written', mem, seq) /\ Numbered(Dir', written')
    BY <1>8, <1>12, <1>13, <1>14 DEF D, w
  <2>2. count'.rewrites = 0 => count.rewrites = 0 /\ DOMAIN Dir'.rotated = {}
    BY <1>1, <1>2 DEF Sound, Orders
  <2> QED BY <1>1, <2>1, <2>2, SoundAdded DEF Sound
<1>16. OnItsWay'
  <2>1. snap.seq <= snap.seq
    BY <1>2
  <2> QED BY <1>1, <1>7, <1>8, <2>1 DEF OnItsWay
<1> QED BY <1>15, <1>16 DEF Sound

\* A journal it covers is deleted.
LEMMA SoundDelete ==
    ASSUME Shape, Shape', Covered, Calm' => Calm, Sound, Delete
    PROVE  Sound' /\ Follows(Dir', Dir, written')
<1>1. /\ files' = files /\ mem' = mem /\ seq' = seq /\ count' = count /\ up /\ writing
      /\ snap.stage = "deleting"
      /\ Dir' \in DirType /\ Range(dirs') = Range(dirs) \cup {Dir'}
      /\ Dir'.active = Dir.active /\ Dir'.snapshot = Dir.snapshot
      /\ \A m \in DOMAIN Dir'.rotated : m \in DOMAIN Dir.rotated /\ Dir'.rotated[m] = Dir.rotated[m]
      /\ \A m \in DOMAIN Dir.rotated : m \notin snap.covered => m \in DOMAIN Dir'.rotated
      /\ snap'.stage = "deleting" /\ snap'.seq = snap.seq /\ snap'.state = snap.state
  BY DeleteIs
<1>2. Dir \in Range(dirs) /\ Dir \in DirType /\ snap.seq \in Nat
  BY DirIs DEF Shape, Types, SnapType
<1>3. /\ Named(Dir, Len(files)) /\ Len(files) \in Nat /\ DOMAIN Dir.rotated \subseteq Nat
  BY <1>2, FilesOf
<1>4. Named(Dir', Len(files))
  BY <1>1 DEF Shape, DirsFit
<1>5. Holds(Dir, written, seq) /\ Exact(Dir, written, mem, seq) /\ (Calm => Numbered(Dir, written))
  BY <1>1, <1>2 DEF Sound, Orders, Agrees
<1>6. Dir.snapshot.seq = snap.seq /\ \A n \in snap.covered : n <= snap.seq
  BY <1>1 DEF Covered
<1>7. written' = written
  BY <1>1 DEF written
<1> DEFINE D == Dir'
           w == written
<1>8. /\ D \in DirType /\ D.active = Dir.active /\ D.snapshot = Dir.snapshot /\ Named(D, Len(files))
      /\ \A m \in DOMAIN D.rotated : m \in DOMAIN Dir.rotated /\ D.rotated[m] = Dir.rotated[m]
      /\ \A m \in DOMAIN Dir.rotated : m \notin snap.covered => m \in DOMAIN D.rotated
  BY <1>1, <1>4
<1> HIDE DEF D, w
<1>9. \A m \in DOMAIN Dir.rotated : m > Dir.snapshot.seq => m \in DOMAIN D.rotated
  BY <1>2, <1>3, <1>6, <1>8
<1>10. \A f : f \in Live(D) <=> f \in Live(Dir)
  BY <1>8, <1>9 DEF Live
<1>11. Follows(D, Dir, w)
  <2>1. \A f, g : Older(D, f, g) => Older(Dir, f, g)
    BY <1>8 DEF Older
  <2> QED BY <1>8, <1>10, <2>1 DEF Follows
<1>12. \A n \in DOMAIN D.rotated : \A i \in DOMAIN w[D.rotated[n]] : w[D.rotated[n]][i].s <= n
  BY <1>5, <1>8 DEF Holds, w
<1>13. Holds(D, w, seq) /\ Exact(D, w, mem, seq)
  <2>1. Holds(Dir, w, seq) /\ Exact(Dir, w, mem, seq)
    BY <1>5 DEF w
  <2> QED BY <1>11, <1>12, <2>1, FollowsHolds
<1>14. ASSUME Calm PROVE Numbered(D, w)
  BY <1>5, <1>8, <1>14 DEF Numbered, w
<1>15. Orders' /\ Agrees'
  <2>1. Holds(Dir', written', seq) /\ Exact(Dir', written', mem, seq) /\ (Calm' => Numbered(Dir', written'))
    BY <1>7, <1>13, <1>14 DEF D, w
  <2>2. count'.rewrites = 0 => count.rewrites = 0 /\ DOMAIN Dir'.rotated = {}
    BY <1>1, <1>2 DEF Sound, Orders
  <2> QED BY <1>1, <2>1, <2>2, SoundAdded DEF Sound
<1>16. OnItsWay'
  BY <1>1, <1>7 DEF Sound, OnItsWay
<1>17. Follows(Dir', Dir, written')
  BY <1>7, <1>11 DEF D, w
<1> QED BY <1>15, <1>16, <1>17 DEF Sound

\* A power loss cuts the files, and the server is down.
LEMMA SoundPowerLoss ==
    ASSUME Shape, AlwaysOnDisk, Calm' => Calm, Sound, PowerLoss
    PROVE  Sound'
<1>1. /\ mem' = mem /\ seq' = seq /\ setup' = setup /\ ~up' /\ writing' = FALSE /\ Len(dirs') = 1
      /\ Dir' \in Range(dirs) /\ Range(dirs') = {Dir'}
      /\ count'.rewrites = count.rewrites /\ count'.powerLosses = count.powerLosses + 1
      /\ \E cut : Cut(cut)
  BY PowerLossIs
<1>2. PICK cut : Cut(cut)
  BY <1>1
<1>3. /\ DOMAIN files' = DOMAIN files /\ files \in Seq(FileType) /\ files' \in Seq(FileType)
      /\ \A f \in DOMAIN files :
            /\ cut[f] \in Nat /\ files[f].synced <= cut[f] /\ cut[f] <= Len(files[f].lines)
            /\ Len(files'[f].lines) = cut[f]
            /\ \A i \in 1 .. cut[f] : files'[f].lines[i] = files[f].lines[i]
  BY <1>2 DEF Cut, Shape, Types
<1>4. ASSUME NEW f \in DOMAIN files
      PROVE  /\ files[f].lines \in Seq(Line) /\ files'[f].lines \in Seq(Line)
             /\ \A i \in DOMAIN files'[f].lines :
                  i \in DOMAIN files[f].lines /\ files'[f].lines[i] = files[f].lines[i]
             /\ fsync = "always" => files'[f].lines = files[f].lines
  <2> DEFINE ls == files[f].lines
             ms == files'[f].lines
             k == cut[f]
  <2>1. files[f] \in FileType /\ files'[f] \in FileType
    <3> HIDE DEF FileType
    <3> QED BY <1>3
  <2>2. ls \in Seq(Line) /\ ms \in Seq(Line)
    BY <2>1 DEF FileType
  <2>3. k \in Nat /\ k <= Len(ls) /\ Len(ms) = k /\ \A i \in 1 .. k : ms[i] = ls[i]
    BY <1>3
  <2>4. fsync = "always" => k = Len(ls)
    <3>1. fsync = "always" => files[f].synced = Len(ls)
      BY DEF AlwaysOnDisk
    <3>2. files[f].synced <= k /\ Len(ls) \in Nat
      BY <1>3, <2>2
    <3> HIDE DEF ls, k
    <3> QED BY <2>3, <3>1, <3>2
  <2> HIDE DEF ls, ms, k
  <2>5. DOMAIN ls = 1 .. Len(ls) /\ Len(ls) \in Nat /\ DOMAIN ms = 1 .. k
    BY <2>2, <2>3
  <2>6. \A i \in DOMAIN ms : i \in DOMAIN ls /\ ms[i] = ls[i]
    BY <2>3, <2>5
  <2>7. k = Len(ls) => ms = ls
    BY <2>2, <2>3, <2>5
  <2> QED BY <2>2, <2>4, <2>6, <2>7 DEF ls, ms
<1>5. \A f \in DOMAIN files : /\ written[f] = files[f].lines /\ written'[f] = files'[f].lines
  BY <1>3 DEF written
<1> DEFINE w == written
           v == written'
<1>6. \A f \in DOMAIN files : \A i \in DOMAIN v[f] : i \in DOMAIN w[f] /\ v[f][i] = w[f][i]
  BY <1>4, <1>5
<1> HIDE DEF w, v
<1>7. ASSUME NEW d \in Range(dirs) PROVE Holds(d, v, seq)
  <2>1. (\A f \in Live(d) : f \in DOMAIN files) /\ \A n \in DOMAIN d.rotated : d.rotated[n] \in DOMAIN files
    BY FilesOf
  <2>2. Holds(d, w, seq)
    BY DEF Sound, Orders, w
  <2>3. ASSUME NEW f \in Live(d), NEW g \in Live(d), Older(d, f, g), NEW i \in DOMAIN v[f], NEW j \in DOMAIN v[g]
        PROVE  v[f][i].s < v[g][j].s /\ v[f][i].e < v[g][j].e
    <3>1. /\ i \in DOMAIN w[f] /\ v[f][i] = w[f][i]
          /\ j \in DOMAIN w[g] /\ v[g][j] = w[g][j]
      BY <1>6, <2>1
    <3> QED BY <2>2, <2>3, <3>1 DEF Holds
  <2>4. ASSUME NEW f \in Live(d), NEW i \in DOMAIN v[f]
        PROVE  /\ d.snapshot.seq < v[f][i].s /\ v[f][i].s <= seq
               /\ \A k \in DOMAIN d.snapshot.state : d.snapshot.state[k] < v[f][i].e
    <3>1. i \in DOMAIN w[f] /\ v[f][i] = w[f][i]
      BY <1>6, <2>1
    <3> QED BY <2>2, <3>1 DEF Holds
  <2>5. ASSUME NEW n \in DOMAIN d.rotated, NEW i \in DOMAIN v[d.rotated[n]]
        PROVE  v[d.rotated[n]][i].s <= n
    <3>1. i \in DOMAIN w[d.rotated[n]] /\ v[d.rotated[n]][i] = w[d.rotated[n]][i]
      BY <1>6, <2>1
    <3> QED BY <2>2, <3>1 DEF Holds
  <2>6. d.snapshot.seq <= seq /\ Rising(d.snapshot.state)
    BY <2>2 DEF Holds
  <2> QED BY <2>3, <2>4, <2>5, <2>6 DEF Holds
<1>8. ASSUME Calm' PROVE written' = written
  <2>1. fsync = "always"
    <3>1. count.powerLosses \in Nat
      BY DEF Shape, Types, CountType
    <3> QED BY <1>1, <1>8, <3>1 DEF Calm, fsync
  <2> QED BY <1>3, <1>4, <2>1 DEF written
<1>9. Orders'
  <2>1. \A f \in DOMAIN files' : FileRises(files'[f].lines)
    <3> SUFFICES ASSUME NEW f \in DOMAIN files PROVE FileRises(files'[f].lines)
      BY <1>3
    <3>1. FileRises(files[f].lines)
      BY DEF Sound, Orders
    <3>2. \A i \in DOMAIN files'[f].lines :
             i \in DOMAIN files[f].lines /\ files'[f].lines[i] = files[f].lines[i]
      BY <1>4
    <3> QED BY <3>1, <3>2 DEF FileRises
  <2>2. \A d \in Range(dirs') : Holds(d, written', seq')
    BY <1>1, <1>7 DEF v
  <2>3. Calm' => \A d \in Range(dirs') : Numbered(d, written')
    BY <1>1, <1>8 DEF Sound, Orders
  <2>4. count'.rewrites = 0 => \A d \in Range(dirs') : DOMAIN d.rotated = {}
    BY <1>1 DEF Sound, Orders
  <2>5. Rising(mem')
    BY <1>1 DEF Sound, Orders
  <2> QED BY <2>1, <2>2, <2>3, <2>4, <2>5 DEF Orders
<1>10. Agrees' /\ OnItsWay'
  BY <1>1 DEF Agrees, OnItsWay
<1> QED BY <1>9, <1>10 DEF Sound

\* A restart makes the store of what it finds, whatever that is.
LEMMA OpenFinds ==
    ASSUME Shape, Sound, Open
    PROVE  Found(mem', seq')
<1>1. mem' = Replayed(Dir, AllLines) /\ seq' = ReplayedSeq(Dir, AllLines) /\ ~up
  BY OpenIs
<1>2. Dir \in Range(dirs) /\ Types
  BY DirIs DEF Shape
<1>3. Readable(Dir, AllLines)
  <2>1. Named(Dir, Len(files))
    BY <1>2, FilesOf
  <2> QED BY <1>2, <2>1, AllReadable
<1>4. Holds(Dir, written, seq) /\ Rising(mem) /\ \A f \in DOMAIN files : FileRises(files[f].lines)
  BY <1>2 DEF Sound, Orders
<1>5. CASE Len(dirs) # 1
  <2>1. Exact(Dir, written, mem, seq)
    BY <1>2, <1>5 DEF Sound, Agrees
  <2>2. mem' = mem /\ seq' = seq
    BY <1>1, <1>2, <1>3, <1>4, <2>1, ReplayExact
  <2> QED BY <1>5, <2>2 DEF Found, Sound, Orders, Agrees
<1>6. CASE Len(dirs) = 1
  <2>1. \A d \in Range(dirs) : d = Dir
    <3>1. dirs \in Seq(DirType) /\ Dir = dirs[Len(dirs)]
      BY <1>2, DirIs DEF Types
    <3>2. DOMAIN dirs = {1}
      <4> HIDE DEF DirType
      <4> QED BY <1>6, <3>1
    <3> QED BY <1>6, <3>1, <3>2, RangeFact
  <2>2. /\ Range(mem') = Stored(Dir, written)
        /\ \/ seq' = Dir.snapshot.seq
           \/ \E f \in Live(Dir) : \E i \in DOMAIN written[f] : written[f][i].s = seq'
        /\ \A f \in Live(Dir) : \A i \in DOMAIN written[f] : written[f][i].s <= seq'
        /\ Dir.snapshot.seq <= seq'
    BY <1>1, <1>2, <1>3, <1>4, ReplayAll
  <2>3. Rising(mem')
    BY <1>1, <1>2, <1>3, <1>4, ReplayRises
  <2>4. Holds(Dir, written, seq')
    BY <1>4, <2>2 DEF Holds
  <2>5. Exact(Dir, written, mem', seq')
    BY <2>2 DEF Exact
  <2>6. Earlier(Dir, written, mem')
    BY <2>5, ExactIsEarlier
  <2> QED BY <2>1, <2>3, <2>4, <2>5, <2>6 DEF Found
<1> QED BY <1>5, <1>6

\* And the directory it leaves, with its own current journal, holds that.
LEMMA SoundOpen ==
    ASSUME Shape, Shape', Calm' => Calm, Sound, Open
    PROVE  Sound'
<1>1. /\ count' = count /\ ~writing /\ writing' = writing
      /\ Dir' \in DirType /\ Range(dirs') = Range(dirs) \cup {Dir'}
      /\ Dir'.snapshot = Dir.snapshot
      /\ DOMAIN Dir'.rotated = {n \in DOMAIN Dir.rotated : n > Dir.snapshot.seq}
      /\ \A n \in DOMAIN Dir'.rotated : Dir'.rotated[n] = Dir.rotated[n]
      /\ \/ Dir.active # NoFile /\ Dir'.active = Dir.active /\ files' = files
         \/ Dir.active = NoFile /\ Dir'.active = Len(files) + 1 /\ Added
  BY OpenIs
<1>2. Dir \in Range(dirs) /\ Dir \in DirType
  BY DirIs DEF Shape, Types
<1>3. /\ Named(Dir, Len(files)) /\ Len(files) \in Nat /\ DOMAIN files = 1 .. Len(files)
      /\ \A f \in Live(Dir) : f \in DOMAIN files
  BY <1>2, FilesOf
<1>4. Found(mem', seq')
  BY OpenFinds
<1>5. Holds(Dir, written, seq') /\ Exact(Dir, written, mem', seq') /\ (Calm' => Numbered(Dir, written))
  BY <1>2, <1>4 DEF Found, Sound, Orders
<1>6. /\ \A f \in DOMAIN files : f \in DOMAIN files' /\ files'[f].lines = files[f].lines
      /\ \A f \in DOMAIN files' : f \in DOMAIN files \/ DOMAIN files'[f].lines = {}
  <2>1. CASE files' = files
    BY <2>1
  <2>2. CASE Added
    BY <2>2 DEF Added, EmptyFile
  <2> QED BY <1>1, <2>1, <2>2
<1>7. Len(files') \in Nat /\ Named(Dir', Len(files'))
  BY <1>1 DEF Shape, Types, DirsFit
<1> DEFINE D == Dir'
           v == written'
           w == written
           m == mem'
           q == seq'
           top == Len(files')
<1>8. \A f \in DOMAIN files : v[f] = w[f]
  BY <1>6 DEF written
<1>9. /\ D \in DirType /\ D.snapshot = Dir.snapshot /\ Named(D, top) /\ top \in Nat
      /\ \A n \in DOMAIN D.rotated : n \in DOMAIN Dir.rotated /\ D.rotated[n] = Dir.rotated[n]
      /\ \A n \in DOMAIN Dir.rotated : n > Dir.snapshot.seq => n \in DOMAIN D.rotated
  BY <1>1, <1>7
<1>10. \/ D.active = Dir.active
       \/ Dir.active = NoFile /\ DOMAIN v[D.active] = {} /\ D.active \notin DOMAIN files
  <2>1. CASE Dir.active = NoFile /\ Dir'.active = Len(files) + 1 /\ Added
    <3>1. written'[Dir'.active] = <<>>
      BY <2>1 DEF Added, EmptyFile, written
    <3> QED BY <2>1, <3>1 DEF Added
  <2> QED BY <1>1, <2>1
<1> HIDE DEF D, v, w, m, q, top
<1>11. Holds(Dir, v, q) /\ Exact(Dir, v, m, q) /\ (Calm' => Numbered(Dir, v))
  <2>1. Holds(Dir, w, q) /\ Exact(Dir, w, m, q) /\ (Calm' => Numbered(Dir, w))
    BY <1>5 DEF w, m, q
  <2>2. \A f \in 1 .. Len(files) : v[f] = w[f]
    BY <1>3, <1>8
  <2> QED BY <1>2, <1>3, <2>1, <2>2, SameFiles
<1>12. \A f : f \in Live(D) <=>
                 f # NoFile /\ (f = D.active \/ \E n \in DOMAIN D.rotated : n > D.snapshot.seq /\ D.rotated[n] = f)
  BY <1>9, LiveIs
<1>13. \A f : f \in Live(Dir) <=>
                 f # NoFile /\ (f = Dir.active \/ \E n \in DOMAIN Dir.rotated : n > Dir.snapshot.seq /\ Dir.rotated[n] = f)
  BY <1>2, <1>3, LiveIs
<1>14. \A n \in DOMAIN Dir.rotated : Dir.rotated[n] # Dir.active
  BY <1>3 DEF Named
<1>15. Follows(D, Dir, v)
  <2>1. ASSUME NEW f \in Live(D) PROVE f \in Live(Dir) \/ DOMAIN v[f] = {}
    BY <1>9, <1>10, <1>12, <1>13, <2>1
  <2>2. ASSUME NEW f \in Live(Dir) PROVE f \in Live(D)
    BY <1>9, <1>10, <1>12, <1>13, <2>2
  <2>3. ASSUME NEW f \in Live(D), NEW g \in Live(D), Older(D, f, g), DOMAIN v[f] # {}, DOMAIN v[g] # {}
        PROVE  Older(Dir, f, g)
    <3>1. CASE g = D.active
      BY <1>10, <2>3, <3>1 DEF Older
    <3>2. CASE g # D.active
      <4>1. PICK n \in DOMAIN D.rotated : \E k \in DOMAIN D.rotated :
               n < k /\ D.rotated[n] = f /\ D.rotated[k] = g
        BY <2>3, <3>2 DEF Older
      <4>2. PICK k \in DOMAIN D.rotated : n < k /\ D.rotated[n] = f /\ D.rotated[k] = g
        BY <4>1
      <4> QED BY <1>9, <1>14, <4>2 DEF Older
    <3> QED BY <3>1, <3>2
  <2> QED BY <1>9, <2>1, <2>2, <2>3 DEF Follows
<1>16. \A n \in DOMAIN D.rotated : \A i \in DOMAIN v[D.rotated[n]] : v[D.rotated[n]][i].s <= n
  BY <1>9, <1>11 DEF Holds
<1>17. Holds(D, v, q) /\ Exact(D, v, m, q)
  BY <1>11, <1>15, <1>16, FollowsHolds
<1>18. ASSUME Calm' PROVE Numbered(D, v)
  <2>1. Numbered(Dir, v)
    BY <1>11, <1>18
  <2> SUFFICES ASSUME NEW n \in DOMAIN D.rotated, n > D.snapshot.seq
               PROVE  /\ \E i \in DOMAIN v[D.rotated[n]] : v[D.rotated[n]][i].s = n
                      /\ D.active # NoFile => \A i \in DOMAIN v[D.active] : n < v[D.active][i].s
    BY DEF Numbered
  <2>2. n \in DOMAIN Dir.rotated /\ n > Dir.snapshot.seq /\ D.rotated[n] = Dir.rotated[n]
    BY <1>9
  <2>3. \E i \in DOMAIN v[D.rotated[n]] : v[D.rotated[n]][i].s = n
    BY <2>1, <2>2 DEF Numbered
  <2>4. D.active # NoFile => \A i \in DOMAIN v[D.active] : n < v[D.active][i].s
    BY <1>10, <2>1, <2>2 DEF Numbered
  <2> QED BY <2>3, <2>4
<1>19. Orders' /\ Agrees'
  <2>1. /\ Holds(Dir', written', seq') /\ Exact(Dir', written', mem', seq')
        /\ Calm' => Numbered(Dir', written')
    BY <1>17, <1>18 DEF D, v, m, q
  <2>2. \A d \in Range(dirs) : d.active = Dir'.active /\ d.active # NoFile => Dir.active = d.active
    <3>1. \A d \in Range(dirs) : d.active # NoFile => d.active \in DOMAIN files
      BY FilesOf
    <3> QED BY <1>10, <3>1 DEF D
  <2>3. count'.rewrites = 0 => count.rewrites = 0 /\ DOMAIN Dir'.rotated = {}
    BY <1>1, <1>2 DEF Sound, Orders
  <2> QED BY <1>1, <1>4, <1>6, <2>1, <2>2, <2>3, SoundAddedTo DEF Sound
<1>20. OnItsWay'
  BY <1>1 DEF OnItsWay
<1> QED BY <1>19, <1>20 DEF Sound

\* Every step keeps what a restart may find in order.
LEMMA SoundNext ==
    ASSUME Shape, Shape', AlwaysOnDisk, Bounds, Covered, Sound, Sane', [Next]_vars
    PROVE  Sound'
<1>1. Calm' => Calm
  BY SaneBefore
<1>2. CASE UNCHANGED vars
  <2>1. /\ setup' = setup /\ files' = files /\ dirs' = dirs /\ up' = up /\ mem' = mem /\ seq' = seq
        /\ writing' = writing /\ snap' = snap /\ count' = count
    BY <1>2 DEF vars, server
  <2>2. written' = written /\ Dir' = Dir
    BY <2>1 DEF written, Dir
  <2>3. Orders' /\ Agrees' /\ OnItsWay'
    BY <1>1, <2>1, <2>2 DEF Sound, Orders, Agrees, OnItsWay
  <2> QED BY <2>3 DEF Sound
<1>3. CASE Change
  BY <1>1, <1>3, SoundChange
<1>4. CASE \/ TakeSync \/ SyncNext \/ SyncEnds \/ SyncFails \/ SyncCovered \/ Landed
           \/ Finish \/ GiveUp \/ Crash
  BY <1>1, <1>4, SoundQuiet
<1>5. CASE StartRewrite
  BY <1>1, <1>5, SoundStartRewrite
<1>6. CASE TakeOver
  BY <1>1, <1>6, SoundTakeOver
<1>7. CASE Land
  BY <1>1, <1>7, SoundLand
<1>8. CASE Delete
  BY <1>1, <1>8, SoundDelete
<1>9. CASE PowerLoss
  BY <1>1, <1>9, SoundPowerLoss
<1>10. CASE Open
  BY <1>1, <1>10, SoundOpen
<1> QED BY <1>2, <1>3, <1>4, <1>5, <1>6, <1>7, <1>8, <1>9, <1>10, NotUndone DEF Next

\* And with what it rests on.
LEMMA HistoryNext == Shape /\ History /\ [Next]_vars => History'
<1> SUFFICES ASSUME Shape, History, [Next]_vars PROVE History'
  OBVIOUS
<1>1. Shape' /\ AlwaysOnDisk' /\ Bounds' /\ Covered'
  BY ShapeNext, OnDiskNext, BoundsNext, CoveredNext DEF History
<1>2. ASSUME Sane' PROVE Sound'
  <2>1. Sane
    BY <1>2, SaneBefore
  <2>2. AlwaysOnDisk /\ Bounds /\ Covered /\ Sound
    BY <2>1 DEF History
  <2> QED BY <1>1, <1>2, <2>2, SoundNext
<1> QED BY <1>1, <1>2 DEF History

\* A server that starts with an empty journal, or in an empty directory, has
\* nothing out of order.
LEMMA HistoryInit == ASSUME NamesAlwaysLast PROVE Init => History
<1> SUFFICES ASSUME Init PROVE History
  OBVIOUS
<1>1. Shape
  BY ShapeInit
<1>2. /\ files = <<EmptyFile>> /\ up = TRUE /\ mem = <<>> /\ seq = 0 /\ dirty = FALSE
      /\ retired = <<>> /\ writing = FALSE /\ snap = NoSnap /\ sync = NoSync
      /\ count.changes = 0
  BY DEF Init
<1>3. DOMAIN files = {1} /\ files[1].lines = <<>> /\ files[1].synced = 0 /\ ~files[1].bad
      /\ DOMAIN files[1].lines = {} /\ Len(files[1].lines) = 0
  BY <1>2 DEF EmptyFile
<1>4. /\ DOMAIN written = {1} /\ written[1] = <<>> /\ DOMAIN written[1] = {}
  BY <1>3 DEF written
<1> DEFINE at(f) == [active |-> f, rotated |-> <<>>, snapshot |-> NoSnapshot]
<1>5. /\ at(1).active = 1 /\ at(NoFile).active = NoFile
      /\ \A f \in {NoFile, 1} : /\ at(f).active = f /\ at(f).snapshot = NoSnapshot
                                /\ DOMAIN at(f).rotated = {}
  OBVIOUS
<1> HIDE DEF at
<1>6. dirs = IF setup.new THEN <<at(NoFile), at(1)>> ELSE <<at(1)>>
  BY DEF Init, at
<1>7. Range(dirs) \subseteq {at(NoFile), at(1)} /\ Dir = at(1)
  BY <1>6 DEF Range, Dir, Last
<1>8. /\ NoSnapshot.seq = 0 /\ DOMAIN NoSnapshot.state = {} /\ Range(NoSnapshot.state) = {}
      /\ Rising(NoSnapshot.state)
  BY DEF NoSnapshot, Rising, Range
<1>9. \A f \in {NoFile, 1} : \A g \in Live(at(f)) : g = 1
  BY <1>5 DEF Live, NoFile
<1>10. AlwaysOnDisk
  BY <1>2, <1>3 DEF AlwaysOnDisk, NoSync
<1>11. Bounds
  BY <1>2, <1>3, <1>5, <1>7, <1>8 DEF Bounds, NoSnap
<1>12. Covered
  BY <1>2 DEF Covered, NoSnap
<1>13. ASSUME NEW f \in {NoFile, 1}
       PROVE  Holds(at(f), written, 0) /\ Numbered(at(f), written) /\ Exact(at(f), written, mem, 0)
  <2>1. Holds(at(f), written, 0)
    BY <1>4, <1>5, <1>8, <1>9 DEF Holds
  <2>2. Numbered(at(f), written)
    BY <1>5 DEF Numbered
  <2>3. Stored(at(f), written) = Range(mem)
    <3>1. Range(mem) = {}
      BY <1>2 DEF Range
    <3>2. \A x : x \notin Stored(at(f), written)
      BY <1>4, <1>5, <1>8, <1>9, StoredIs
    <3> QED BY <3>1, <3>2
  <2>4. 0 = at(f).snapshot.seq
    BY <1>5, <1>8
  <2> QED BY <2>1, <2>2, <2>3, <2>4 DEF Exact
<1>14. Orders
  <2>1. \A f \in DOMAIN files : FileRises(files[f].lines)
    BY <1>3 DEF FileRises
  <2>2. Rising(mem)
    BY <1>2 DEF Rising
  <2>3. \A d \in Range(dirs) : Holds(d, written, seq) /\ Numbered(d, written) /\ DOMAIN d.rotated = {}
    BY <1>2, <1>5, <1>7, <1>13
  <2> QED BY <2>1, <2>2, <2>3 DEF Orders
<1>15. Agrees
  <2>1. \A d \in Range(dirs) : Exact(d, written, mem, seq)
    BY <1>2, <1>7, <1>13
  <2> QED BY <2>1, ExactIsEarlier DEF Agrees
<1>16. OnItsWay
  BY <1>2 DEF OnItsWay
<1> QED BY <1>10, <1>11, <1>12, <1>14, <1>15, <1>16 DEF History, Sound

\* What is on the disk, at any moment, is what a restart needs.
THEOREM AlwaysHistory ==
    ASSUME NamesAlwaysLast PROVE Spec => []History
<1>1. Spec => []Shape
  BY AlwaysShape
<1> QED BY <1>1, HistoryInit, HistoryNext, PTL DEF Spec

\* A restart after a crash of the process, at any moment of a change, a sync or a
\* rewrite, makes the store as it was of the directory (Journal::open).
THEOREM ARestartFindsAll ==
    ASSUME NamesAlwaysLast PROVE Spec => []RestartFindsAll
<1>1. Shape /\ History => RestartFindsAll
  <2> SUFFICES ASSUME Shape, History, up, ~NumbersMayClash
               PROVE  /\ Replayed(Dir, AllLines) = mem /\ ReplayedSeq(Dir, AllLines) = seq
                      /\ \A i, j \in DOMAIN Lines(Dir, AllLines) :
                            i < j => Lines(Dir, AllLines)[i].s < Lines(Dir, AllLines)[j].s
    BY DEF RestartFindsAll, CrashLosesNothing
  <2>1. Sane
    BY DEF Sane, Calm, NumbersMayClash, Shape, Types, CountType
  <2>2. Sound
    BY <2>1 DEF History
  <2>3. Dir \in Range(dirs) /\ Types
    BY DirIs DEF Shape
  <2>4. Readable(Dir, AllLines)
    <3>1. Named(Dir, Len(files))
      BY <2>3, FilesOf
    <3> QED BY <2>3, <3>1, AllReadable
  <2>5. /\ Holds(Dir, written, seq) /\ Rising(mem) /\ Exact(Dir, written, mem, seq)
        /\ \A f \in DOMAIN files : FileRises(files[f].lines)
    BY <2>2, <2>3 DEF Sound, Orders, Agrees
  <2>6. Replayed(Dir, AllLines) = mem /\ ReplayedSeq(Dir, AllLines) = seq
    BY <2>3, <2>4, <2>5, ReplayExact
  <2>7. \A i, j \in DOMAIN Lines(Dir, AllLines) :
           i < j => Lines(Dir, AllLines)[i].s < Lines(Dir, AllLines)[j].s
    BY <2>3, <2>4, <2>5, ReplayRises
  <2> QED BY <2>6, <2>7
<1> QED BY <1>1, AlwaysShape, AlwaysHistory, PTL

\* What a power loss may leave of the files can be read.
LEMMA CutReadable ==
    ASSUME Shape, NEW d \in Range(dirs), NEW cut \in Cuts
    PROVE  Readable(d, cut) /\ (AlwaysOnDisk /\ fsync = "always" => cut = AllLines)
<1>1. d \in DirType /\ Named(d, Len(files)) /\ files \in Seq(FileType)
  BY FilesOf DEF Shape, Types
<1>2. cut \in [DOMAIN files -> 0 .. setup.changes] /\ setup \in Setups
      /\ \A f \in DOMAIN files : cut[f] \in files[f].synced .. Len(files[f].lines)
  BY DEF Cuts, Shape, Types
<1>3. setup.changes \in Nat
  BY <1>2, SetupsAssumption
<1>4. ASSUME NEW f \in DOMAIN files
      PROVE  files[f].synced \in Nat /\ Len(files[f].lines) \in Nat
  <2>1. files[f] \in FileType
    <3> HIDE DEF FileType
    <3> QED BY <1>1
  <2>2. files[f].lines \in Seq(Line)
    BY <2>1 DEF FileType
  <2> QED BY <2>1, <2>2 DEF FileType
<1>5. cut \in [DOMAIN files -> Nat]
  BY <1>2, <1>3
<1>6. \A f \in DOMAIN files : cut[f] \in Nat /\ files[f].synced <= cut[f] /\ cut[f] <= Len(files[f].lines)
  BY <1>2, <1>4, <1>5
<1>7. Readable(d, cut)
  BY <1>1, <1>5, <1>6 DEF Readable
<1>8. ASSUME AlwaysOnDisk, fsync = "always" PROVE cut = AllLines
  <2>1. \A f \in DOMAIN files : cut[f] = Len(files[f].lines)
    BY <1>4, <1>6, <1>8 DEF AlwaysOnDisk
  <2> QED BY <1>5, <2>1 DEF AllLines
<1> QED BY <1>7, <1>8

\* Whatever a power loss takes, at any moment, a restart restores changes in the
\* order they were made, none twice, and with "always" a moment of the store.
THEOREM APowerLossRestoresHistory ==
    ASSUME NamesAlwaysLast PROVE Spec => []PowerLossRestoresHistory
<1>1. Shape /\ History => PowerLossKeepsOrder
  <2> SUFFICES ASSUME Shape, History, up, ~NumbersMayClash, NEW i \in DOMAIN dirs, NEW cut \in Cuts
               PROVE  \A j, k \in DOMAIN Replayed(dirs[i], cut) :
                         j < k => Replayed(dirs[i], cut)[j] < Replayed(dirs[i], cut)[k]
    BY DEF PowerLossKeepsOrder
  <2>1. Sane
    BY DEF Sane, Calm, NumbersMayClash, Shape, Types, CountType
  <2>2. Sound
    BY <2>1 DEF History
  <2> DEFINE d == dirs[i]
  <2>3. d \in Range(dirs) /\ Types
    BY RangeFact DEF Shape
  <2> HIDE DEF d
  <2>4. Readable(d, cut) /\ Holds(d, written, seq) /\ \A f \in DOMAIN files : FileRises(files[f].lines)
    BY <2>2, <2>3, CutReadable DEF Sound, Orders
  <2>5. Rising(Replayed(d, cut)) /\ Replayed(d, cut) \in Seq(Nat)
    BY <2>3, <2>4, ReplayRises, ReplayedAre
  <2> DEFINE s == Replayed(d, cut)
  <2>6. \A j, k \in DOMAIN s : j < k => s[j] < s[k]
    <3>1. Rising(s) /\ DOMAIN s = 1 .. Len(s)
      BY <2>5
    <3> HIDE DEF s
    <3> QED BY <3>1 DEF Rising
  <2> QED BY <2>6 DEF d
<1>2. Shape /\ History => PowerLossLeavesNoHole
  <2> SUFFICES ASSUME Shape, History, up, fsync = "always", NEW i \in DOMAIN dirs, NEW cut \in Cuts
               PROVE  IsPrefix(Replayed(dirs[i], cut), mem)
    BY DEF PowerLossLeavesNoHole
  <2>1. Sound /\ AlwaysOnDisk
    BY DEF History, Sane, Calm
  <2>2. dirs[i] \in Range(dirs) /\ Types
    BY RangeFact DEF Shape
  <2>3. /\ Readable(dirs[i], AllLines) /\ cut = AllLines
        /\ Holds(dirs[i], written, seq) /\ \A f \in DOMAIN files : FileRises(files[f].lines)
        /\ Earlier(dirs[i], written, mem) /\ Rising(mem)
    BY <2>1, <2>2, CutReadable DEF Sound, Orders, Agrees
  <2> QED BY <2>2, <2>3, ReplayEarlier
<1>3. Shape /\ History => PowerLossRestoresHistory
  BY <1>1, <1>2 DEF PowerLossRestoresHistory
<1> QED BY <1>3, AlwaysShape, AlwaysHistory, PTL
-----------------------------------------------------------------------------
(***************************************************************************)
(* What is safe from a power loss, step by step.                           *)
(***************************************************************************)
\* What is safe, or will be, under a directory is so, after the step, under
\* another.
SafeStays(d, c) ==
    \A x : /\ Safe(d, files, x) => Safe(c, files', x)
           /\ SafeOnce(d, files, x, SyncPending) => SafeOnce(c, files', x, SyncPending')
           /\ SafeOnce(d, files, x, Pending) => SafeOnce(c, files', x, Pending')

\* A file keeps its lines, and what is durable of them, and a sync loses none
\* that waits.
Carried(f) ==
    /\ \A i \in DOMAIN files[f].lines :
          /\ i \in DOMAIN files'[f].lines /\ files'[f].lines[i].e = files[f].lines[i].e
          /\ i <= files[f].synced => i <= files'[f].synced
    /\ files[f].bad => files'[f].bad
    /\ f \in SyncPending =>
          f \in SyncPending' \/ files'[f].bad \/ \A i \in DOMAIN files'[f].lines : i <= files'[f].synced
    /\ f \in Pending =>
          f \in Pending' \/ files'[f].bad \/ \A i \in DOMAIN files'[f].lines : i <= files'[f].synced

\* Then what is safe stays so, if the snapshot and the files with lines do.
LEMMA CarriedStays ==
    ASSUME NEW d, NEW c, c.snapshot = d.snapshot,
           \A f \in Live(d) : Carried(f) /\ (f \in Live(c) \/ DOMAIN files[f].lines = {})
    PROVE  SafeStays(d, c)
<1> SUFFICES ASSUME NEW x
             PROVE  /\ Safe(d, files, x) => Safe(c, files', x)
                    /\ SafeOnce(d, files, x, SyncPending) => SafeOnce(c, files', x, SyncPending')
                    /\ SafeOnce(d, files, x, Pending) => SafeOnce(c, files', x, Pending')
  BY DEF SafeStays
<1> HIDE DEF SyncPending, Pending
<1>1. ASSUME NEW f \in Live(d), NEW i \in DOMAIN files[f].lines
      PROVE  /\ f \in Live(c)
             /\ i \in DOMAIN files'[f].lines /\ files'[f].lines[i].e = files[f].lines[i].e
             /\ i <= files[f].synced => i <= files'[f].synced
             /\ files[f].bad => files'[f].bad
             /\ f \in SyncPending => i <= files'[f].synced \/ files'[f].bad \/ f \in SyncPending'
             /\ f \in Pending => i <= files'[f].synced \/ files'[f].bad \/ f \in Pending'
  <2>1. Carried(f) /\ f \in Live(c)
    BY <1>1
  <2> QED BY <1>1, <2>1 DEF Carried
<1>2. Safe(d, files, x) => Safe(c, files', x)
  BY <1>1 DEF Safe
<1>3. SafeOnce(d, files, x, SyncPending) => SafeOnce(c, files', x, SyncPending')
  BY <1>1 DEF SafeOnce
<1>4. SafeOnce(d, files, x, Pending) => SafeOnce(c, files', x, Pending')
  BY <1>1 DEF SafeOnce
<1> QED BY <1>2, <1>3, <1>4

\* Files that are synced, some of them, and those that wait go on waiting unless
\* they are.
LEMMA KeptCarried ==
    ASSUME Shape, Kept, NEW f \in DOMAIN files,
           files[f].bad => files'[f].bad,
           f \in SyncPending => f \in SyncPending' \/ files'[f] = Synced(files[f]),
           f \in Pending => f \in Pending' \/ files'[f] = Synced(files[f])
    PROVE  Carried(f)
<1> HIDE DEF SyncPending, Pending
<1>1. files[f] \in FileType /\ files[f].synced <= Len(files[f].lines)
  <2> HIDE DEF FileType
  <2> QED BY DEF Shape, Types, FilesFit
<1>2. files'[f] \in FileType
  <2> HIDE DEF FileType
  <2>1. DOMAIN files' = DOMAIN files
    BY DEF Kept, Shape, Types
  <2> QED BY <2>1 DEF Kept
<1>3. /\ files'[f].lines = files[f].lines /\ files[f].synced <= files'[f].synced
      /\ files[f].synced \in Nat /\ files'[f].synced \in Nat
  BY <1>1, <1>2 DEF Kept, FileType
<1> DEFINE ls == files[f].lines
<1>4. ls \in Seq(Line)
  BY <1>1 DEF FileType
<1>5. \A i \in DOMAIN ls : i \in Nat /\ i <= Len(ls)
  <2> HIDE DEF ls
  <2> QED BY <1>4
<1>6. ASSUME files'[f] = Synced(files[f])
      PROVE  files'[f].bad \/ \A i \in DOMAIN files'[f].lines : i <= files'[f].synced
  BY <1>1, <1>3, <1>5, <1>6, SyncedIs
<1>7. \A i \in DOMAIN files[f].lines : i <= files[f].synced => i <= files'[f].synced
  <2> SUFFICES ASSUME NEW i \in DOMAIN ls, i <= files[f].synced PROVE i <= files'[f].synced
    OBVIOUS
  <2>1. i \in Nat
    BY <1>5
  <2> HIDE DEF ls
  <2> QED BY <1>3, <2>1
<1> QED BY <1>3, <1>6, <1>7 DEF Carried

\* A step that carries what is safe from one directory to the next, and leaves no
\* other a restart could find, or waits for the same.
LEMMA GuardedBy ==
    ASSUME Guarded, FirstStart, fsync # "never", fsync' = fsync, Dir \in Range(dirs),
           mem' = mem, secured' = secured, covering' = covering, sync'.running = sync.running,
           \A d \in Range(dirs') :
              d = Dir' \/ (d \in Range(dirs) /\ sync'.dir = sync.dir
                             /\ (sync.dir \/ dir_unsynced => sync'.dir \/ dir_unsynced')),
           \A d \in Range(dirs) : SafeStays(d, d), SafeStays(Dir, Dir'),
           snap'.stage # "renaming" /\ ~dir_unsynced' /\ ~sync'.dir =>
              \A d \in Range(dirs') : d.active = Dir'.active
    PROVE  Guarded'
<1> HIDE DEF Pending, SyncPending
<1> SUFFICES ASSUME NEW d \in Range(dirs')
             PROVE  /\ \A x \in Range(secured) :
                          d = Dir' \/ ~(fsync = "always" /\ sync'.dir) => Safe(d, files', x)
                    /\ sync.running => \A x \in Range(covering) :
                          d = Dir' \/ ~sync'.dir => SafeOnce(d, files', x, SyncPending')
                    /\ \A x \in Range(mem) :
                          d = Dir' \/ ~(sync'.dir \/ dir_unsynced') => SafeOnce(d, files', x, Pending')
  BY DEF Guarded
<1>1. CASE d = Dir'
  <2>1. /\ \A x \in Range(secured) : Safe(Dir, files, x)
        /\ sync.running => \A x \in Range(covering) : SafeOnce(Dir, files, x, SyncPending)
        /\ \A x \in Range(mem) : SafeOnce(Dir, files, x, Pending)
    BY DEF Guarded
  <2> QED BY <1>1, <2>1 DEF SafeStays
<1>2. CASE d # Dir'
  <2>1. /\ d \in Range(dirs) /\ sync'.dir = sync.dir
        /\ sync.dir \/ dir_unsynced => sync'.dir \/ dir_unsynced'
    BY <1>2
  <2>2. /\ ~(fsync = "always" /\ sync.dir) => \A x \in Range(secured) : Safe(d, files, x)
        /\ sync.running /\ ~sync.dir => \A x \in Range(covering) : SafeOnce(d, files, x, SyncPending)
        /\ ~(sync.dir \/ dir_unsynced) => \A x \in Range(mem) : SafeOnce(d, files, x, Pending)
    BY <2>1 DEF Guarded
  <2>3. \A x : /\ Safe(d, files, x) => Safe(d, files', x)
               /\ SafeOnce(d, files, x, SyncPending) => SafeOnce(d, files', x, SyncPending')
               /\ SafeOnce(d, files, x, Pending) => SafeOnce(d, files', x, Pending')
    BY <2>1 DEF SafeStays
  <2> QED BY <1>2, <2>1, <2>2, <2>3
<1> QED BY <1>1, <1>2

\* Steps that only sync files keep what is safe under every directory.
LEMMA QuietStays ==
    ASSUME Shape, Kept, \A f \in DOMAIN files : files[f].bad => files'[f].bad,
           \A f \in DOMAIN files : f \in SyncPending => f \in SyncPending' \/ files'[f] = Synced(files[f]),
           retired' = retired, dirty' = dirty, Current' = Current,
           NEW d \in Range(dirs)
    PROVE  SafeStays(d, d)
<1>1. ASSUME NEW f \in DOMAIN files
      PROVE  Carried(f)
  <2>1. f \in Pending => f \in Pending' \/ files'[f] = Synced(files[f])
    <3> HIDE DEF SyncPending, Current
    <3> QED BY DEF Pending
  <2> HIDE DEF SyncPending, Pending
  <2> QED BY <2>1, KeptCarried
<1>2. \A f \in Live(d) : f \in DOMAIN files
  BY FilesOf
<1> QED BY <1>1, <1>2, CarriedStays

\* A sync goes on, or a snapshot, or it ends.
LEMMA GuardedQuiet ==
    ASSUME Shape, Guarded, FirstStart, fsync # "never",
           SyncNext \/ SyncCovered \/ Landed \/ Finish \/ GiveUp
    PROVE  Guarded'
<1>0. Dir \in Range(dirs) /\ Types
  BY DirIs DEF Shape
<1>1. /\ setup' = setup /\ mem' = mem /\ seq' = seq /\ secured' = secured /\ covering' = covering
      /\ sync'.running = sync.running /\ retired' = retired /\ dirty' = dirty
      /\ dir_unsynced' = dir_unsynced /\ Kept /\ Fewer
      /\ snap'.stage # "renaming" => snap.stage # "renaming"
      /\ SyncDir \/ (dirs' = dirs /\ sync'.dir = sync.dir)
  <2>1. CASE SyncNext
    <3>1. /\ setup' = setup /\ mem' = mem /\ seq' = seq /\ secured' = secured /\ covering' = covering
          /\ sync.running /\ sync'.running /\ retired' = retired /\ dirty' = dirty
          /\ dir_unsynced' = dir_unsynced /\ Kept /\ Fewer /\ snap' = snap
      BY <2>1, SyncNextIs
    <3>2. SyncDir \/ (dirs' = dirs /\ sync'.dir = sync.dir)
      BY <2>1, SyncNextIs
    <3>3. sync.running = TRUE /\ sync'.running = TRUE
      BY <2>1, <3>1, SyncNextIs DEF Types, SyncType
    <3> QED BY <3>1, <3>2, <3>3
  <2>2. CASE SyncCovered
    BY <2>2, SyncCoveredIs
  <2>3. CASE Landed
    BY <2>3, LandedStepIs
  <2>4. CASE Finish
    BY <2>4, FinishIs
  <2>5. CASE GiveUp
    BY <2>5, GiveUpIs
  <2> QED BY <2>1, <2>2, <2>3, <2>4, <2>5
<1>2. Dir' = Dir /\ Range(dirs') \subseteq Range(dirs)
  BY <1>1 DEF Fewer
<1>3. Current' = Current
  BY <1>1, <1>2 DEF Current
<1>4. \A f \in DOMAIN files : /\ files[f].bad => files'[f].bad
                              /\ f \in SyncPending => f \in SyncPending' \/ files'[f] = Synced(files[f])
  <2>1. CASE SyncNext
    <3>1. ASSUME sync.retired # <<>>,
                 files' = [f \in DOMAIN files |-> IF f \in {Head(sync.retired)} THEN Synced(files[f]) ELSE files[f]],
                 sync'.retired = Tail(sync.retired), sync'.file = sync.file,
                 NEW f \in DOMAIN files
          PROVE  /\ files[f].bad => files'[f].bad
                 /\ f \in SyncPending => f \in SyncPending' \/ files'[f] = Synced(files[f])
      <4> DEFINE s == sync.retired
      <4>1. s \in Seq(Nat) /\ s # <<>>
        BY <1>0, <3>1 DEF Types, SyncType
      <4>2. f \in Range(s) => f = Head(s) \/ f \in Range(Tail(s))
        <5> HIDE DEF s
        <5>1. ASSUME NEW i \in DOMAIN s, i # 1 PROVE i - 1 \in DOMAIN Tail(s) /\ Tail(s)[i - 1] = s[i]
          BY <4>1, <5>1
        <5>2. Head(s) = s[1]
          BY <4>1
        <5>3. ASSUME f \in Range(s), f # Head(s) PROVE f \in Range(Tail(s))
          <6>1. PICK i \in DOMAIN s : s[i] = f
            BY <5>3, RangeFact
          <6>2. i # 1
            BY <5>2, <5>3, <6>1
          <6>3. i - 1 \in DOMAIN Tail(s) /\ Tail(s)[i - 1] = f
            BY <5>1, <6>1, <6>2
          <6> QED BY <6>3, RangeFact
        <5> QED BY <5>3
      <4>3. f \in SyncPending => f = Head(s) \/ f \in SyncPending'
        BY <3>1, <4>2 DEF SyncPending
      <4>4. files'[f] = IF f = Head(s) THEN Synced(files[f]) ELSE files[f]
        BY <3>1
      <4>5. files[f].bad => Synced(files[f]).bad
        BY DEF Synced
      <4> HIDE DEF SyncPending, s
      <4> QED BY <4>3, <4>4, <4>5
    <3>2. ASSUME files' = files, sync'.retired = sync.retired, sync'.file = sync.file, NEW f \in DOMAIN files
          PROVE  /\ files[f].bad => files'[f].bad
                 /\ f \in SyncPending => f \in SyncPending' \/ files'[f] = Synced(files[f])
      BY <3>2 DEF SyncPending
    <3>3. ASSUME files' = [f \in DOMAIN files |-> IF f \in {sync.file} THEN Synced(files[f]) ELSE files[f]],
                 sync'.retired = sync.retired, NEW f \in DOMAIN files
          PROVE  /\ files[f].bad => files'[f].bad
                 /\ f \in SyncPending => f \in SyncPending' \/ files'[f] = Synced(files[f])
      <4>1. files'[f] = IF f = sync.file THEN Synced(files[f]) ELSE files[f]
        BY <3>3
      <4>2. f \in SyncPending => f = sync.file \/ f \in SyncPending'
        BY <3>3 DEF SyncPending
      <4>3. files[f].bad => Synced(files[f]).bad
        BY DEF Synced
      <4> HIDE DEF SyncPending
      <4> QED BY <4>1, <4>2, <4>3
    <3> HIDE DEF SyncPending
    <3> QED BY <2>1, <3>1, <3>2, <3>3, SyncNextIs
  <2>2. CASE SyncCovered
    <3> DEFINE S == {Dir.rotated[n] : n \in {n \in DOMAIN Dir.rotated : n <= snap.seq}}
    <3>1. files' = [f \in DOMAIN files |-> IF f \in S THEN Synced(files[f]) ELSE files[f]]
      BY <2>2, SyncCoveredIs
    <3>2. sync' = sync
      BY <2>2, SyncCoveredIs
    <3> HIDE DEF S
    <3>3. \A f \in DOMAIN files : files[f].bad => files'[f].bad
      BY <3>1 DEF Synced
    <3> QED BY <3>2, <3>3 DEF SyncPending
  <2>3. CASE Landed
    <3>1. files' = files /\ sync' = sync
      BY <2>3, LandedStepIs
    <3> QED BY <3>1 DEF SyncPending
  <2>4. CASE Finish
    <3>1. files' = files /\ sync' = sync
      BY <2>4, FinishIs
    <3> QED BY <3>1 DEF SyncPending
  <2>5. CASE GiveUp
    <3>1. files' = files /\ sync' = sync
      BY <2>5, GiveUpIs
    <3> QED BY <3>1 DEF SyncPending
  <2> QED BY <2>1, <2>2, <2>3, <2>4, <2>5
<1>5. \A d \in Range(dirs) : SafeStays(d, d)
  <2> HIDE DEF SyncPending
  <2> QED BY <1>1, <1>3, <1>4, QuietStays
<1>6. \A d \in Range(dirs') :
         d = Dir' \/ (d \in Range(dirs) /\ sync'.dir = sync.dir
                        /\ (sync.dir \/ dir_unsynced => sync'.dir \/ dir_unsynced'))
  BY <1>0, <1>1, SyncDirIs
<1>7. snap'.stage # "renaming" /\ ~dir_unsynced' /\ ~sync'.dir =>
         \A d \in Range(dirs') : d.active = Dir'.active
  <2>1. CASE SyncDir
    BY <1>0, <2>1, SyncDirIs
  <2>2. CASE dirs' = dirs /\ sync'.dir = sync.dir
    BY <1>1, <1>2, <2>2 DEF Guarded
  <2> QED BY <1>1, <2>1, <2>2
<1>8. SafeStays(Dir, Dir')
  BY <1>0, <1>2, <1>5
<1>9. fsync' = fsync
  BY <1>1 DEF fsync
<1> QED BY <1>0, <1>1, <1>5, <1>6, <1>7, <1>8, <1>9, GuardedBy

\* An operation on the directory that keeps the files with lines among those a
\* restart reads.
LEMMA GuardedFollows ==
    ASSUME Shape, Guarded, FirstStart, fsync # "never", setup' = setup,
           \A f \in DOMAIN files : f \in DOMAIN files' /\ files'[f] = files[f],
           Follows(Dir', Dir, written'), Range(dirs') = Range(dirs) \cup {Dir'},
           mem' = mem, secured' = secured, covering' = covering, sync' = sync,
           SyncPending' = SyncPending, Pending \ {NoFile} \subseteq Pending',
           dir_unsynced => dir_unsynced',
           snap'.stage # "renaming" /\ ~dir_unsynced' => snap.stage # "renaming" /\ Dir'.active = Dir.active
    PROVE  Guarded'
<1> HIDE DEF Pending, SyncPending
<1>1. Dir \in Range(dirs) /\ fsync' = fsync
  BY DirIs DEF Shape, Types, fsync
<1>2. \A d \in Range(dirs) : \A f \in Live(d) : f \in DOMAIN files /\ f # NoFile
  BY FilesOf DEF NoFile
<1>3. ASSUME NEW f \in DOMAIN files, f # NoFile PROVE Carried(f)
  BY <1>3 DEF Carried
<1>4. ASSUME NEW d \in Range(dirs) PROVE SafeStays(d, d)
  BY <1>2, <1>3, CarriedStays
<1>5. SafeStays(Dir, Dir')
  <2>1. \A f \in Live(Dir) : f \in Live(Dir') \/ DOMAIN files[f].lines = {}
    <3>1. \A f \in DOMAIN files : written'[f] = files[f].lines
      BY DEF written
    <3> QED BY <1>1, <1>2, <3>1 DEF Follows
  <2>2. Dir'.snapshot = Dir.snapshot
    BY DEF Follows
  <2> DEFINE D == Dir'
  <2>3. D.snapshot = Dir.snapshot /\ \A f \in Live(Dir) : Carried(f) /\ (f \in Live(D) \/ DOMAIN files[f].lines = {})
    BY <1>1, <1>2, <1>3, <2>1, <2>2
  <2> HIDE DEF D
  <2>4. SafeStays(Dir, D)
    BY <2>3, CarriedStays
  <2> QED BY <2>4 DEF D
<1>6. snap'.stage # "renaming" /\ ~dir_unsynced' /\ ~sync'.dir =>
         \A d \in Range(dirs') : d.active = Dir'.active
  BY DEF Guarded
<1> QED BY <1>1, <1>4, <1>5, <1>6, GuardedBy

\* A journal is set aside, a fresh one takes its place, or one is deleted.
LEMMA GuardedMoves ==
    ASSUME Shape, Shape', AlwaysOnDisk, Covered, Sound, Sane', Calm' => Calm,
           Guarded, FirstStart, fsync # "never",
           StartRewrite \/ TakeOver \/ Delete
    PROVE  Guarded'
<1> HIDE DEF SyncPending
<1>0. Dir \in Range(dirs) /\ Types
  BY DirIs DEF Shape
<1>1. CASE StartRewrite
  <2>1. /\ setup' = setup /\ files' = files /\ mem' = mem /\ seq' = seq /\ up /\ snap.stage = "none"
        /\ dirty' = dirty /\ dir_unsynced' = dir_unsynced /\ retired' = retired
        /\ sync' = sync /\ secured' = secured /\ covering' = covering
        /\ snap'.stage = "renaming"
        /\ \/ seq \in DOMAIN Dir.rotated /\ dirs' = dirs /\ Dir' = Dir
           \/ /\ seq \notin DOMAIN Dir.rotated
              /\ Dir' = SetAside(Dir, seq)
              /\ Range(dirs') = Range(dirs) \cup {SetAside(Dir, seq)}
    BY <1>1, StartRewriteIs
  <2>2. Follows(Dir', Dir, written')
    BY <1>1, SoundStartRewrite
  <2>3. Current' = Current
    <3>1. Dir.active # NoFile
      BY <2>1 DEF Shape, StagesFit
    <3>2. CASE Dir' = SetAside(Dir, seq) /\ seq \notin DOMAIN Dir.rotated
      <4>1. SetAside(Dir, seq).active = NoFile /\ SetAside(Dir, seq).rotated[seq] = Dir.active
        BY <1>0, <3>2, DirIs, SetAsideIs DEF Types
      <4> QED BY <2>1, <3>1, <3>2, <4>1 DEF Current
    <3>3. CASE Dir' = Dir
      BY <2>1, <3>3 DEF Current
    <3> QED BY <2>1, <3>2, <3>3
  <2>4. SyncPending' = SyncPending
    BY <2>1 DEF SyncPending
  <2>5. Pending \ {NoFile} \subseteq Pending'
    BY <2>1, <2>3, <2>4 DEF Pending
  <2>6. Range(dirs') = Range(dirs) \cup {Dir'}
    BY <1>0, <2>1
  <2> HIDE DEF Pending
  <2> QED BY <2>1, <2>2, <2>4, <2>5, <2>6, GuardedFollows
<1>2. CASE TakeOver
  <2>1. /\ setup' = setup /\ mem' = mem /\ seq' = seq /\ Added
        /\ dirty' = FALSE /\ dir_unsynced' = TRUE
        /\ sync' = sync /\ secured' = secured /\ covering' = covering
        /\ retired' = (IF dirty /\ fsync = "everysec" THEN Append(retired, Current) ELSE retired)
        /\ Range(dirs') = Range(dirs) \cup {Dir'}
    BY <1>2, TakeOverIs
  <2>2. Follows(Dir', Dir, written')
    BY <1>2, SoundTakeOver
  <2>3. SyncPending' = SyncPending
    BY <2>1 DEF SyncPending
  <2>4. fsync \in {"always", "everysec", "never"}
    BY <1>0, SetupsAssumption DEF Types, fsync
  <2>5. Pending \ {NoFile} \subseteq Pending'
    <3>1. CASE dirty
      <4>1. fsync = "everysec"
        BY <2>4, <3>1 DEF AlwaysOnDisk
      <4>2. retired' = Append(retired, Current) /\ retired \in Seq(Nat)
        BY <1>0, <2>1, <3>1, <4>1 DEF Types
      <4>3. \A x : x \in Range(retired) \cup {Current} => x \in Range(retired')
        <5> HIDE DEF Current
        <5>1. \A i \in DOMAIN retired : i \in DOMAIN retired' /\ retired'[i] = retired[i]
          BY <4>2
        <5>2. \E i \in DOMAIN retired' : retired'[i] = Current
          BY <4>2
        <5> QED BY <5>1, <5>2, RangeFact
      <4> QED BY <2>3, <4>3 DEF Pending
    <3>2. CASE ~dirty
      <4>1. retired' = retired
        BY <2>1, <3>2
      <4> QED BY <2>3, <3>2, <4>1 DEF Pending
    <3> QED BY <3>1, <3>2
  <2>6. \A f \in DOMAIN files : f \in DOMAIN files' /\ files'[f] = files[f]
    BY <2>1 DEF Added
  <2> HIDE DEF Pending
  <2> QED BY <2>1, <2>2, <2>3, <2>5, <2>6, GuardedFollows
<1>3. CASE Delete
  <2>1. /\ setup' = setup /\ files' = files /\ mem' = mem /\ seq' = seq /\ snap.stage = "deleting"
        /\ dirty' = dirty /\ dir_unsynced' = dir_unsynced /\ retired' = retired
        /\ sync' = sync /\ secured' = secured /\ covering' = covering
        /\ Range(dirs') = Range(dirs) \cup {Dir'} /\ Dir'.active = Dir.active /\ up
    BY <1>3, DeleteIs
  <2>2. Follows(Dir', Dir, written')
    BY <1>3, SoundDelete
  <2>3. Current' = Current
    BY <2>1 DEF Current, Shape, StagesFit
  <2>4. SyncPending' = SyncPending
    BY <2>1 DEF SyncPending
  <2>5. Pending \ {NoFile} \subseteq Pending'
    BY <2>1, <2>3, <2>4 DEF Pending
  <2> HIDE DEF Pending
  <2> QED BY <2>1, <2>2, <2>4, <2>5, GuardedFollows
<1> QED BY <1>1, <1>2, <1>3

\* The snapshot has what is no longer read, and the current journal has the rest.
LEMMA GuardedLand ==
    ASSUME Shape, Sound, Guarded, FirstStart, fsync # "never", Land
    PROVE  Guarded'
<1>1. /\ setup' = setup /\ files' = files /\ mem' = mem /\ seq' = seq /\ snap.stage = "synced"
      /\ dirty' = dirty /\ dir_unsynced' = dir_unsynced /\ retired' = retired /\ up /\ writing
      /\ sync' = sync /\ secured' = secured /\ covering' = covering /\ snap'.stage = "landed"
      /\ Range(dirs') = Range(dirs) \cup {Dir'} /\ Dir'.active = Dir.active
      /\ Dir'.snapshot = [seq |-> snap.seq, state |-> snap.state]
  BY LandIs
<1>2. Dir \in Range(dirs) /\ Dir.active # NoFile
  BY <1>1, DirIs DEF Shape, StagesFit
<1>3. Dir.active \in DOMAIN files /\ Dir.active \in Live(Dir) /\ \A f \in Live(Dir) : f \in DOMAIN files
  BY <1>2, FilesOf
<1>4. Holds(Dir, written, seq) /\ Stored(Dir, written) = Range(mem)
  BY <1>1, <1>2 DEF Sound, Orders, Agrees, Exact
<1>5. Range(mem) = Range(snap.state) \cup {written[Dir.active][i].e : i \in DOMAIN written[Dir.active]}
  BY <1>1 DEF Sound, OnItsWay
<1>6. /\ \A f \in DOMAIN files : written[f] = files[f].lines
      /\ \A f \in DOMAIN files : \A i \in DOMAIN written[f] : written[f][i].e \in Nat
  BY WrittenIs DEF Shape
<1>7. /\ SyncPending' = SyncPending
      /\ Current' = Current
      /\ Pending' = Pending
  <2>1. SyncPending' = SyncPending
    BY <1>1 DEF SyncPending
  <2>2. Current' = Current
    BY <1>1, <1>2 DEF Current
  <2> QED BY <1>1, <2>1, <2>2 DEF Pending
<1> HIDE DEF SyncPending, Pending, Current
<1>8. ASSUME NEW d \in Range(dirs) PROVE SafeStays(d, d)
  BY <1>1, <1>7 DEF SafeStays
<1> DEFINE D == Dir'
           a == Dir.active
<1>9. D.snapshot.state = snap.state /\ a \in Live(D)
  BY <1>1, <1>2 DEF Live
<1> HIDE DEF D, a
<1>10. ASSUME NEW x, x \in Stored(Dir, written)
       PROVE  \/ x \in Range(snap.state)
              \/ /\ x \notin Range(Dir.snapshot.state)
                 /\ \A f \in Live(Dir) : \A i \in DOMAIN files[f].lines : files[f].lines[i].e = x => f = a
  <2> SUFFICES ASSUME x \notin Range(snap.state)
               PROVE  /\ x \notin Range(Dir.snapshot.state)
                      /\ \A f \in Live(Dir) : \A i \in DOMAIN files[f].lines : files[f].lines[i].e = x => f = a
    OBVIOUS
  <2>1. PICK j \in DOMAIN written[a] : written[a][j].e = x
    BY <1>4, <1>5, <1>10 DEF a
  <2>2. x \in Nat /\ a \in Live(Dir) /\ a \in DOMAIN files
    BY <1>3, <1>6, <2>1 DEF a
  <2>3. x \notin Range(Dir.snapshot.state)
    <3>1. \A k \in DOMAIN Dir.snapshot.state : Dir.snapshot.state[k] < x
      BY <1>4, <2>1, <2>2 DEF Holds
    <3> QED BY <2>2, <3>1, RangeFact
  <2>4. ASSUME NEW f \in Live(Dir), NEW i \in DOMAIN files[f].lines, files[f].lines[i].e = x
        PROVE  f = a
    <3> SUFFICES ASSUME f # a PROVE FALSE
      OBVIOUS
    <3>1. Older(Dir, f, a)
      BY DEF Older, a
    <3>2. i \in DOMAIN written[f] /\ written[f][i].e = x
      BY <1>3, <1>6, <2>4
    <3>3. written[f][i].e < written[a][j].e
      BY <1>4, <2>1, <2>2, <3>1, <3>2 DEF Holds
    <3> QED BY <2>1, <2>2, <3>2, <3>3
  <2> QED BY <2>3, <2>4
<1>11. \A x, pending :
          /\ Safe(Dir, files, x) => Safe(D, files, x)
          /\ SafeOnce(Dir, files, x, pending) => SafeOnce(D, files, x, pending)
  <2> SUFFICES ASSUME NEW x, NEW pending
               PROVE  /\ Safe(Dir, files, x) => Safe(D, files, x)
                      /\ SafeOnce(Dir, files, x, pending) => SafeOnce(D, files, x, pending)
    OBVIOUS
  <2>1. ASSUME Safe(Dir, files, x) \/ SafeOnce(Dir, files, x, pending)
        PROVE  x \in Stored(Dir, written)
    BY <1>3, <1>6, <2>1, StoredIs DEF Safe, SafeOnce
  <2>2. Safe(Dir, files, x) => Safe(D, files, x)
    BY <1>9, <1>10, <2>1 DEF Safe
  <2>3. SafeOnce(Dir, files, x, pending) => SafeOnce(D, files, x, pending)
    BY <1>9, <1>10, <2>1 DEF SafeOnce
  <2> QED BY <2>2, <2>3
<1>12. SafeStays(Dir, Dir')
  BY <1>1, <1>7, <1>11 DEF SafeStays, D
<1>13. snap'.stage # "renaming" /\ ~dir_unsynced' /\ ~sync'.dir =>
          \A d \in Range(dirs') : d.active = Dir'.active
  BY <1>1 DEF Guarded
<1>14. fsync' = fsync
  BY <1>1 DEF fsync
<1> QED BY <1>1, <1>2, <1>8, <1>12, <1>13, <1>14, GuardedBy

\* The tick takes what waits, or finds that nothing does.
LEMMA GuardedTakeSync ==
    ASSUME Shape, Guarded, FirstStart, fsync # "never", TakeSync
    PROVE  Guarded'
<1>1. /\ setup' = setup /\ files' = files /\ dirs' = dirs /\ mem' = mem /\ seq' = seq
      /\ snap' = snap /\ snap.stage # "renaming" /\ up /\ sync = NoSync
  BY TakeSyncIs
<1>2. Dir' = Dir /\ fsync' = fsync /\ ~sync.running /\ ~sync.dir /\ SyncPending = {NoFile}
  <2>1. Range(<<>>) = {}
    BY DEF Range
  <2> QED BY <1>1, <2>1 DEF Dir, fsync, NoSync, SyncPending
<1>3. Dir.active # NoFile /\ \A d \in Range(dirs) : NoFile \notin Live(d)
  BY <1>1 DEF Shape, StagesFit, Live
<1>4. \A i \in DOMAIN dirs : dirs[i] \in Range(dirs)
  BY RangeFact
<1>5. /\ \A x \in Range(secured), d \in Range(dirs) : Safe(d, files, x)
      /\ \A x \in Range(mem), d \in Range(dirs) : d = Dir \/ ~dir_unsynced => SafeOnce(d, files, x, Pending)
      /\ ~dir_unsynced => \A d \in Range(dirs) : d.active = Dir.active
  BY <1>1, <1>2 DEF Guarded
<1> HIDE DEF SyncPending
<1>6. CASE /\ retired = <<>> /\ ~dir_unsynced /\ ~dirty
           /\ secured' = (IF Lossy THEN secured ELSE mem)
           /\ sync' = sync /\ retired' = retired /\ dirty' = dirty
           /\ dir_unsynced' = dir_unsynced /\ covering' = covering
  <2>1. Pending = {NoFile}
    BY <1>2, <1>6 DEF Pending, Range
  <2>2. SyncPending' = SyncPending /\ Pending' = Pending
    <3>1. SyncPending' = SyncPending
      BY <1>6 DEF SyncPending
    <3>2. Current' = Current
      BY <1>1, <1>2 DEF Current
    <3> QED BY <1>6, <3>1, <3>2 DEF Pending
  <2>3. ASSUME ~Lossy, NEW x \in Range(mem), NEW d \in Range(dirs)
        PROVE  Safe(d, files, x)
    <3>1. SafeOnce(d, files, x, {NoFile})
      BY <1>5, <1>6, <2>1
    <3>2. \A f \in Live(d) : ~files[f].bad /\ f # NoFile
      BY <1>3, <2>3, RangeFact DEF Lossy
    <3> QED BY <3>1, <3>2 DEF SafeOnce, Safe
  <2>4. \A x \in Range(secured'), d \in Range(dirs) : Safe(d, files, x)
    BY <1>5, <1>6, <2>3
  <2> HIDE DEF Pending
  <2> QED BY <1>1, <1>2, <1>5, <1>6, <2>2, <2>4 DEF Guarded
<1>7. ASSUME NEW cloned \in BOOLEAN, Taken(cloned) PROVE Guarded'
  <2>1. /\ sync'.retired = retired /\ sync'.dir = dir_unsynced
        /\ sync'.file = IF dirty /\ cloned THEN Dir.active ELSE NoFile
        /\ retired' = <<>> /\ dirty' = ~cloned /\ dir_unsynced' = FALSE
        /\ covering' = (IF cloned THEN mem ELSE secured) /\ secured' = secured
        /\ dirty \/ cloned
    BY <1>7 DEF Taken
  <2>2. /\ SyncPending' = Range(retired) \cup {IF dirty /\ cloned THEN Dir.active ELSE NoFile}
        /\ SyncPending' \subseteq Pending'
    BY <2>1 DEF SyncPending, Pending
  <2>3. cloned => Pending \ {NoFile} \subseteq SyncPending'
    BY <1>2, <1>3, <2>2 DEF Pending, Current
  <2>4. Pending \ {NoFile} \subseteq Pending'
    <3>1. CASE cloned
      BY <2>2, <2>3, <3>1
    <3>2. CASE ~cloned
      <4>1. Current' = Current /\ Pending' = SyncPending' \cup Range(retired') \cup {Current'}
        BY <1>1, <1>2, <2>1, <3>2 DEF Current, Pending
      <4>2. Pending \subseteq SyncPending \cup Range(retired) \cup {Current}
        BY DEF Pending
      <4> QED BY <1>2, <2>2, <4>1, <4>2
    <3> QED BY <3>1, <3>2
  <2>5. ASSUME NEW x \in Range(mem), NEW d \in Range(dirs), d = Dir \/ ~dir_unsynced
        PROVE  (cloned => SafeOnce(d, files, x, SyncPending')) /\ SafeOnce(d, files, x, Pending')
    <3>1. SafeOnce(d, files, x, Pending)
      BY <1>5, <2>5
    <3> HIDE DEF Pending
    <3> QED BY <1>3, <2>3, <2>4, <3>1 DEF SafeOnce
  <2> HIDE DEF Pending
  <2>6. ASSUME NEW x \in Range(covering'), NEW d \in Range(dirs), d = Dir \/ ~dir_unsynced
        PROVE  SafeOnce(d, files, x, SyncPending')
    <3>1. CASE cloned
      BY <2>1, <2>5, <2>6, <3>1
    <3>2. CASE ~cloned
      BY <1>5, <2>1, <2>6, <3>2 DEF Safe, SafeOnce
    <3> QED BY <3>1, <3>2
  <2> QED BY <1>1, <1>2, <1>5, <2>1, <2>5, <2>6 DEF Guarded
<1> QED BY <1>6, <1>7, TakeSyncIs

\* The sync ends: what it was to make durable is, unless a file is bad.
LEMMA GuardedSyncEnds ==
    ASSUME Shape, Guarded, FirstStart, fsync # "never", SyncEnds
    PROVE  Guarded'
<1>1. /\ setup' = setup /\ files' = files /\ dirs' = dirs /\ mem' = mem /\ seq' = seq
      /\ dirty' = dirty /\ dir_unsynced' = dir_unsynced /\ retired' = retired /\ snap' = snap
      /\ sync' = NoSync /\ sync.running /\ sync.retired = <<>> /\ ~sync.dir /\ sync.file = NoFile
      /\ secured' = (IF Lossy THEN secured ELSE covering)
  BY SyncEndsIs
<1>2. Dir' = Dir /\ fsync' = fsync /\ Current' = Current
  BY <1>1 DEF Dir, fsync, Current
<1>3. /\ SyncPending = {NoFile} /\ SyncPending' = {NoFile}
      /\ ~sync'.running /\ ~sync'.dir
  <2>1. Range(<<>>) = {}
    BY DEF Range
  <2> QED BY <1>1, <2>1 DEF NoSync, SyncPending
<1> HIDE DEF SyncPending, Current
<1>4. Pending' = Pending
  BY <1>1, <1>2, <1>3 DEF Pending
<1>5. /\ \A x \in Range(secured), d \in Range(dirs) : Safe(d, files, x)
      /\ \A x \in Range(covering), d \in Range(dirs) : SafeOnce(d, files, x, {NoFile})
      /\ \A x \in Range(mem), d \in Range(dirs) : d = Dir \/ ~dir_unsynced => SafeOnce(d, files, x, Pending)
      /\ snap.stage # "renaming" /\ ~dir_unsynced => \A d \in Range(dirs) : d.active = Dir.active
  BY <1>1, <1>3 DEF Guarded
<1>6. ASSUME ~Lossy, NEW x \in Range(covering), NEW d \in Range(dirs)
      PROVE  Safe(d, files, x)
  <2>1. \A f \in Live(d) : ~files[f].bad /\ f # NoFile
    BY <1>6, RangeFact DEF Lossy, Live
  <2> QED BY <1>5, <2>1 DEF SafeOnce, Safe
<1>7. \A x \in Range(secured'), d \in Range(dirs) : Safe(d, files, x)
  BY <1>1, <1>5, <1>6
<1> HIDE DEF Pending
<1> QED BY <1>1, <1>2, <1>3, <1>4, <1>5, <1>7 DEF Guarded

\* It fails: what it was to make durable may be off the disk, and is known to be.
LEMMA GuardedSyncFails ==
    ASSUME Shape, AlwaysOnDisk, Guarded, FirstStart, fsync # "never", SyncFails
    PROVE  Guarded'
<1>1. /\ setup' = setup /\ dirs' = dirs /\ mem' = mem /\ seq' = seq
      /\ secured' = secured /\ snap' = snap /\ sync' = NoSync
      /\ Range(retired') = Range(sync.retired) \cup Range(retired)
      /\ dir_unsynced' = (dir_unsynced \/ sync.dir)
      /\ dirty' = (dirty \/ sync.file # NoFile)
      /\ sync.retired # <<>> \/ sync.file # NoFile
      /\ files' = [f \in DOMAIN files |->
                     IF f \in Range(sync.retired) \cup {sync.file}
                     THEN [files[f] EXCEPT !.bad = TRUE] ELSE files[f]]
  BY SyncFailsIs
<1>2. Dir' = Dir /\ fsync' = fsync /\ Current' = Current /\ ~sync'.running /\ ~sync'.dir
  BY <1>1 DEF Dir, fsync, Current, NoSync
<1>3. fsync # "always"
  BY <1>1 DEF AlwaysOnDisk
<1>4. ASSUME NEW f \in DOMAIN files
      PROVE  /\ files'[f].lines = files[f].lines /\ files'[f].synced = files[f].synced
             /\ files[f].bad => files'[f].bad
             /\ f \in SyncPending => files'[f].bad
  <2>1. files[f] \in FileType
    <3> HIDE DEF FileType
    <3> QED BY DEF Shape, Types
  <2>2. files'[f] = IF f \in SyncPending THEN [files[f] EXCEPT !.bad = TRUE] ELSE files[f]
    BY <1>1 DEF SyncPending
  <2> HIDE DEF SyncPending
  <2> QED BY <2>1, <2>2 DEF FileType
<1>5. Pending \subseteq SyncPending \cup Pending'
  BY <1>1, <1>2 DEF Pending
<1> HIDE DEF SyncPending, Pending, Current
<1>6. ASSUME NEW d \in Range(dirs), NEW x
      PROVE  /\ Safe(d, files, x) => Safe(d, files', x)
             /\ SafeOnce(d, files, x, Pending) => SafeOnce(d, files', x, Pending')
  <2>1. \A f \in Live(d) : f \in DOMAIN files
    BY FilesOf
  <2>2. Safe(d, files, x) => Safe(d, files', x)
    BY <1>4, <2>1 DEF Safe
  <2>3. SafeOnce(d, files, x, Pending) => SafeOnce(d, files', x, Pending')
    BY <1>4, <1>5, <2>1 DEF SafeOnce
  <2> QED BY <2>2, <2>3
<1>7. /\ \A x \in Range(secured), d \in Range(dirs) : Safe(d, files, x)
      /\ \A x \in Range(mem), d \in Range(dirs) :
            d = Dir \/ ~(sync.dir \/ dir_unsynced) => SafeOnce(d, files, x, Pending)
      /\ snap.stage # "renaming" /\ ~dir_unsynced /\ ~sync.dir => \A d \in Range(dirs) : d.active = Dir.active
  BY <1>3 DEF Guarded
<1> QED BY <1>1, <1>2, <1>6, <1>7 DEF Guarded

\* With "always" a change is on the disk when it is made, and else it waits for
\* the tick.
LEMMA GuardedChange ==
    ASSUME Shape, AlwaysOnDisk, AlwaysOnDisk', Guarded, FirstStart, fsync # "never", Change
    PROVE  Guarded'
<1> DEFINE f == Dir.active
           e == count.changes + 1
<1>1. Grown(f)
  BY ChangeGrows
<1>2. /\ Fewer /\ mem' = Append(mem, e) /\ seq' = seq + 1
      /\ fsync = "always" /\ dir_unsynced => SyncDir
      /\ fsync # "always" \/ ~dir_unsynced => dirs' = dirs
  BY ChangeIs
<1>3. /\ setup' = setup /\ snap' = snap /\ sync' = sync /\ retired' = retired /\ covering' = covering
      /\ snap.stage # "renaming" /\ up
      /\ fsync = "always" => dir_unsynced' = FALSE /\ secured' = mem' /\ dirty' = dirty
      /\ fsync # "always" => dir_unsynced' = dir_unsynced /\ secured' = secured /\ dirty' = TRUE
  BY DEF Change, Free
<1>4. Dir \in Range(dirs) /\ Types /\ f # NoFile /\ mem \in Seq(Nat) /\ count.changes \in Nat
  BY <1>1, DirIs DEF Grown, Shape, Types, CountType
<1>5. Dir' = Dir /\ Range(dirs') \subseteq Range(dirs) /\ fsync' = fsync
  BY <1>2, <1>3 DEF Fewer, fsync
<1>6. \A x \in Range(mem') : x \in Range(mem) \/ x = e
  <2>1. \A i \in DOMAIN mem' : mem'[i] = e \/ \E j \in DOMAIN mem : mem[j] = mem'[i]
    <3> HIDE DEF e
    <3> QED BY <1>2, <1>4
  <2> QED BY <2>1, RangeFact
<1>7. SyncPending' = SyncPending
  BY <1>3 DEF SyncPending
<1>8. Pending \subseteq Pending' /\ (fsync # "always" => f \in Pending')
  <2>1. Current = f /\ Current' = f
    BY <1>4, <1>5 DEF Current
  <2> HIDE DEF Current, SyncPending, f
  <2> QED BY <1>3, <1>7, <2>1 DEF Pending
<1> HIDE DEF SyncPending, Pending, Current
<1>9. ASSUME NEW g \in DOMAIN files
      PROVE  /\ \A i \in DOMAIN files[g].lines :
                   /\ i \in DOMAIN files'[g].lines /\ files'[g].lines[i].e = files[g].lines[i].e
                   /\ i <= files[g].synced => i <= files'[g].synced
             /\ files[g].bad => files'[g].bad
  <2>1. CASE g # f
    BY <1>1, <2>1 DEF Grown
  <2>2. CASE g = f
    <3>1. /\ files'[f].lines = Append(files[f].lines, [s |-> seq + 1, e |-> e])
          /\ files'[f].bad = files[f].bad
          /\ files'[f].synced = IF fsync = "always" /\ ~files[f].bad
                                THEN Len(files[f].lines) + 1 ELSE files[f].synced
      BY <1>1 DEF Grown
    <3> DEFINE ls == files[f].lines
               line == [s |-> seq + 1, e |-> e]
    <3>2. ls \in Seq(Line)
      BY <1>4, <2>2, WrittenIs
    <3> HIDE DEF ls, line
    <3>3. /\ DOMAIN ls = 1 .. Len(ls) /\ Len(ls) \in Nat
          /\ \A i \in 1 .. Len(ls) : i \in DOMAIN Append(ls, line) /\ Append(ls, line)[i] = ls[i]
      BY <3>2
    <3>4. \A i \in DOMAIN ls : i \in DOMAIN files'[f].lines /\ files'[f].lines[i] = ls[i] /\ i <= Len(ls) + 1
      BY <3>1, <3>3 DEF ls, line
    <3> QED BY <2>2, <3>1, <3>4 DEF ls
  <2> QED BY <2>1, <2>2
<1>10. \E k \in DOMAIN files'[f].lines : files'[f].lines[k].e = e
  <2> DEFINE ls == files[f].lines
             line == [s |-> seq + 1, e |-> e]
  <2>1. files'[f].lines = Append(ls, line) /\ line.e = e
    BY <1>1 DEF Grown
  <2>2. ls \in Seq(Line)
    BY <1>1, <1>4, WrittenIs DEF Grown
  <2> HIDE DEF ls, line
  <2>3. Len(ls) + 1 \in DOMAIN Append(ls, line) /\ Append(ls, line)[Len(ls) + 1] = line
    BY <2>2
  <2> HIDE DEF f, e
  <2> QED BY <2>1, <2>3
<1>11. /\ \A d \in Range(dirs) : \A g \in Live(d) : g \in DOMAIN files
       /\ \A d \in Range(dirs) : d.active = f => f \in Live(d)
  BY <1>4, FilesOf
<1> HIDE DEF f, e
<1>12. ASSUME NEW d \in Range(dirs), NEW x
       PROVE  /\ Safe(d, files, x) => Safe(d, files', x)
              /\ SafeOnce(d, files, x, SyncPending) => SafeOnce(d, files', x, SyncPending')
              /\ SafeOnce(d, files, x, Pending) => SafeOnce(d, files', x, Pending')
  <2>1. Safe(d, files, x) => Safe(d, files', x)
    BY <1>9, <1>11 DEF Safe
  <2>2. SafeOnce(d, files, x, SyncPending) => SafeOnce(d, files', x, SyncPending')
    BY <1>7, <1>9, <1>11 DEF SafeOnce
  <2>3. SafeOnce(d, files, x, Pending) => SafeOnce(d, files', x, Pending')
    BY <1>8, <1>9, <1>11 DEF SafeOnce
  <2> QED BY <2>1, <2>2, <2>3
<1>13. /\ \A x \in Range(secured), d \in Range(dirs) :
             d = Dir \/ ~(fsync = "always" /\ sync.dir) => Safe(d, files, x)
       /\ sync.running => \A x \in Range(covering), d \in Range(dirs) :
             d = Dir \/ ~sync.dir => SafeOnce(d, files, x, SyncPending)
       /\ \A x \in Range(mem), d \in Range(dirs) :
             d = Dir \/ ~(sync.dir \/ dir_unsynced) => SafeOnce(d, files, x, Pending)
       /\ ~dir_unsynced /\ ~sync.dir => \A d \in Range(dirs) : d.active = f
  BY <1>3 DEF Guarded, f
<1>14. CASE fsync # "always"
  <2>1. dirs' = dirs
    BY <1>2, <1>14
  <2>2. ASSUME NEW d \in Range(dirs), d = Dir \/ ~(sync.dir \/ dir_unsynced)
        PROVE  SafeOnce(d, files', e, Pending')
    <3>1. d.active = f
      BY <1>13, <2>2 DEF f
    <3> QED BY <1>8, <1>10, <1>11, <1>14, <3>1 DEF SafeOnce
  <2> QED BY <1>3, <1>5, <1>6, <1>7, <1>12, <1>13, <1>14, <2>1, <2>2 DEF Guarded, f
<1>15. CASE fsync = "always"
  <2>1. \A d \in Range(dirs') : d = Dir \/ ~dir_unsynced
    BY <1>2, <1>4, <1>15, SyncDirIs
  <2>2. \A g \in DOMAIN files : files[g].synced = Len(files[g].lines) /\ ~files[g].bad
    BY <1>15 DEF AlwaysOnDisk
  <2>3. \A g \in DOMAIN files' : files'[g].synced = Len(files'[g].lines)
    BY <1>5, <1>15 DEF AlwaysOnDisk
  <2>4. \A g \in DOMAIN files : /\ \A i \in DOMAIN files[g].lines : i <= files[g].synced
                                /\ \A i \in DOMAIN files'[g].lines : i <= files'[g].synced
    <3> SUFFICES ASSUME NEW g \in DOMAIN files
                 PROVE  /\ \A i \in DOMAIN files[g].lines : i <= files[g].synced
                        /\ \A i \in DOMAIN files'[g].lines : i <= files'[g].synced
      OBVIOUS
    <3> DEFINE ls == files[g].lines
               ms == files'[g].lines
    <3>1. files[g] \in FileType /\ files'[g] \in FileType /\ g \in DOMAIN files'
      <4> HIDE DEF FileType
      <4> QED BY <1>1, <1>4 DEF Types, Grown
    <3>2. ls \in Seq(Line) /\ ms \in Seq(Line)
      BY <3>1 DEF FileType
    <3>3. files[g].synced = Len(ls) /\ files'[g].synced = Len(ms)
      BY <2>2, <2>3, <3>1
    <3> HIDE DEF ls, ms
    <3>4. (\A i \in DOMAIN ls : i <= Len(ls)) /\ (\A i \in DOMAIN ms : i <= Len(ms))
      BY <3>2
    <3> QED BY <3>3, <3>4 DEF ls, ms
  <2>5. ASSUME NEW d \in Range(dirs'), d = Dir \/ ~sync.dir, NEW x \in Range(mem')
        PROVE  Safe(d, files', x)
    <3>1. d \in Range(dirs) /\ (d = Dir \/ ~(sync.dir \/ dir_unsynced))
      BY <1>5, <2>1, <2>5
    <3>2. CASE x \in Range(mem)
      <4>1. SafeOnce(d, files, x, Pending)
        BY <1>13, <3>1, <3>2
      <4>2. Safe(d, files, x)
        BY <1>11, <2>4, <3>1, <4>1 DEF SafeOnce, Safe
      <4> QED BY <1>12, <3>1, <4>2
    <3>3. CASE x = e
      <4>1. d.active = f
        BY <1>13, <3>1 DEF f
      <4> QED BY <1>10, <1>11, <2>4, <3>1, <3>3, <4>1 DEF Safe
    <3> QED BY <1>6, <3>2, <3>3
  <2>6. \A d, x : Safe(d, files', x) => SafeOnce(d, files', x, Pending')
    BY DEF Safe, SafeOnce
  <2>7. ~dir_unsynced' /\ ~sync'.dir => \A d \in Range(dirs') : d.active = Dir'.active
    BY <1>3, <1>5, <1>13, <2>1 DEF f
  <2>8. sync.running => \A x \in Range(covering), d \in Range(dirs') :
             d = Dir \/ ~sync.dir => SafeOnce(d, files', x, SyncPending')
    BY <1>5, <1>12, <1>13
  <2> QED BY <1>3, <1>5, <1>15, <2>5, <2>6, <2>7, <2>8 DEF Guarded
<1> QED BY <1>14, <1>15

\* Before a failure there was none.
LEMMA FirstBefore ==
    ASSUME Shape, [Next]_vars, FirstStart'
    PROVE  FirstStart /\ ~Crash /\ ~PowerLoss /\ ~Open
<1>0. Types /\ count \in CountType /\ count.powerLosses \in Nat /\ count.crashes \in Nat
  BY DEF Shape, Types, CountType
<1>1. setup' = setup /\ count'.crashes = 0 /\ count'.powerLosses = 0
  BY SaneBefore DEF FirstStart
<1>2. ~Crash
  <2>1. Crash => count'.crashes = count.crashes + 1
    BY <1>0, CountCrashes DEF Crash, Count
  <2> QED BY <1>0, <1>1, <2>1
<1>3. ~PowerLoss
  <2>1. PowerLoss => count'.powerLosses = count.powerLosses + 1
    BY PowerLossIs
  <2> QED BY <1>0, <1>1, <2>1
<1>4. CASE UNCHANGED vars \/ TakeSync \/ SyncNext \/ SyncEnds \/ SyncCovered \/ Land \/ Landed
           \/ Delete \/ Finish \/ TakeOver
  <2>1. count' = count /\ (UNCHANGED vars \/ up)
    BY <1>4 DEF vars, TakeSync, SyncNext, SyncEnds, SyncCovered, Land, Landed, Delete, Finish,
                TakeOver, Free
  <2> QED BY <1>1, <1>2, <1>3, <2>1 DEF FirstStart, Open, vars
<1>5. CASE Change
  <2>1. count'.crashes = count.crashes /\ count'.powerLosses = count.powerLosses /\ up
    BY <1>0, <1>5, ChangeIs DEF Change, Free, CountType
  <2> QED BY <1>1, <1>2, <1>3, <2>1 DEF FirstStart, Open
<1>6. CASE SyncFails
  <2>1. count'.crashes = count.crashes /\ count'.powerLosses = count.powerLosses /\ up
    BY <1>0, <1>6, CountSyncFailures DEF SyncFails, Free, Count
  <2> QED BY <1>1, <1>2, <1>3, <2>1 DEF FirstStart, Open
<1>7. CASE StartRewrite
  <2>1. count'.crashes = count.crashes /\ count'.powerLosses = count.powerLosses /\ up
    BY <1>0, <1>7, CountRewrites DEF StartRewrite, Free, Count
  <2> QED BY <1>1, <1>2, <1>3, <2>1 DEF FirstStart, Open
<1>8. CASE GiveUp
  <2>1. count'.crashes = count.crashes /\ count'.powerLosses = count.powerLosses /\ up
    BY <1>0, <1>8, CountSnapshotFailures DEF GiveUp, Count
  <2> QED BY <1>1, <1>2, <1>3, <2>1 DEF FirstStart, Open
<1>9. CASE Open
  <2>1. count' = count /\ ~up
    BY <1>9 DEF Open
  <2>2. count.crashes + count.powerLosses > 0
    BY <2>1 DEF Shape, StagesFit
  <2> QED BY <1>0, <1>1, <2>1, <2>2
<1> QED BY <1>2, <1>3, <1>4, <1>5, <1>6, <1>7, <1>8, <1>9, NotUndone DEF Next

\* Every step keeps safe what is.
LEMMA GuardedNext == Shape /\ History /\ Guarded /\ [Next]_vars => Guarded'
<1> SUFFICES ASSUME Shape, History, Guarded, [Next]_vars, FirstStart', fsync' # "never"
             PROVE  Guarded'
  BY DEF Guarded
<1>1. Shape' /\ History'
  BY ShapeNext, HistoryNext
<1>2. FirstStart /\ ~Crash /\ ~PowerLoss /\ ~Open
  BY FirstBefore
<1>3. setup' = setup /\ (Calm' => Calm)
  BY SaneBefore
<1>4. fsync # "never"
  BY <1>3 DEF fsync
<1>5. Sane' /\ Sound
  BY <1>2 DEF FirstStart, Sane, Calm, History
<1>6. AlwaysOnDisk /\ AlwaysOnDisk' /\ Covered
  BY <1>1 DEF History
<1>7. CASE UNCHANGED vars
  <2>1. /\ setup' = setup /\ files' = files /\ dirs' = dirs /\ mem' = mem /\ seq' = seq /\ dirty' = dirty
        /\ dir_unsynced' = dir_unsynced /\ retired' = retired /\ snap' = snap /\ sync' = sync
        /\ secured' = secured /\ covering' = covering /\ count' = count
    BY <1>7 DEF vars, server
  <2>2. Dir' = Dir /\ fsync' = fsync /\ SyncPending' = SyncPending
    BY <2>1 DEF Dir, fsync, SyncPending
  <2>3. Pending' = Pending
    BY <2>1, <2>2 DEF Pending, Current
  <2> HIDE DEF Pending, SyncPending
  <2> QED BY <1>2, <1>4, <2>1, <2>2, <2>3 DEF Guarded
<1>8. CASE Change
  BY <1>2, <1>4, <1>6, <1>8, GuardedChange
<1>9. CASE TakeSync
  BY <1>2, <1>4, <1>9, GuardedTakeSync
<1>10. CASE SyncEnds
  BY <1>2, <1>4, <1>10, GuardedSyncEnds
<1>11. CASE SyncFails
  BY <1>2, <1>4, <1>6, <1>11, GuardedSyncFails
<1>12. CASE StartRewrite \/ TakeOver \/ Delete
  BY <1>1, <1>2, <1>3, <1>4, <1>5, <1>6, <1>12, GuardedMoves
<1>13. CASE Land
  BY <1>2, <1>4, <1>5, <1>13, GuardedLand
<1>14. CASE SyncNext \/ SyncCovered \/ Landed \/ Finish \/ GiveUp
  BY <1>2, <1>4, <1>14, GuardedQuiet
<1> QED BY <1>2, <1>7, <1>8, <1>9, <1>10, <1>11, <1>12, <1>13, <1>14, NotUndone DEF Next

\* A server that has changed nothing has nothing to keep.
LEMMA GuardedInit == Init => Guarded
<1> SUFFICES ASSUME Init, FirstStart PROVE Guarded
  BY DEF Guarded
<1>1. /\ secured = <<>> /\ mem = <<>> /\ covering = <<>>
  BY DEF Init
<1>2. \A x : x \notin Range(<<>>)
  BY DEF Range
<1>3. \A d \in Range(dirs) : d = Dir
  <2> DEFINE at(f) == [active |-> f, rotated |-> <<>>, snapshot |-> NoSnapshot]
  <2>1. dirs = <<at(1)>>
    BY DEF Init, FirstStart
  <2> HIDE DEF at
  <2> QED BY <2>1 DEF Range, Dir, Last
<1> HIDE DEF SyncPending, Pending
<1> QED BY <1>1, <1>2, <1>3 DEF Guarded

\* With "never" no tick syncs, and nothing is said to be safe.
LEMMA NeverSecuredNext == Shape /\ NeverSecured /\ [Next]_vars => NeverSecured'
<1> SUFFICES ASSUME Shape, NeverSecured, [Next]_vars, fsync' = "never"
             PROVE  secured' = <<>> /\ ~sync'.running
  BY DEF NeverSecured
<1>1. fsync = "never"
  BY SaneBefore DEF fsync
<1>2. secured = <<>> /\ ~sync.running /\ ~NoSync.running
  BY <1>1 DEF NeverSecured, NoSync
<1>3. CASE UNCHANGED vars \/ Change
  <2>1. secured' = secured /\ sync' = sync
    BY <1>1, <1>3 DEF vars, Change
  <2> QED BY <1>2, <2>1
<1>4. CASE TakeSync \/ SyncNext \/ SyncEnds \/ SyncFails
  BY <1>1, <1>2, <1>4 DEF TakeSync, SyncNext, SyncEnds, SyncFails
<1>5. CASE StartRewrite \/ TakeOver \/ SyncCovered \/ Land \/ Landed \/ Delete \/ Finish \/ GiveUp \/ Open
  <2>1. secured' = secured /\ sync' = sync
    BY <1>5 DEF StartRewrite, TakeOver, SyncCovered, Land, Landed, Delete, Finish, GiveUp, Open
  <2> QED BY <1>2, <2>1
<1>6. CASE Crash \/ PowerLoss
  <2>1. secured' = secured /\ sync' = NoSync
    BY <1>6 DEF Crash, PowerLoss, Down
  <2> QED BY <1>2, <2>1
<1> QED BY <1>3, <1>4, <1>5, <1>6, NotUndone DEF Next

\* What a change or a tick has been said to be safe is on the disk, and replayed
\* from whatever a power loss leaves, but under the directories of before a tick's
\* sync of it when a change has been replied to meanwhile (Tail::append, attempt;
\* Journal::take_sync, Sync::run).
THEOREM APowerLossKeepsSecured ==
    ASSUME NamesAlwaysLast PROVE Spec => []PowerLossKeepsSecuredButForTick
<1>1. Init => NeverSecured
  BY DEF Init, NeverSecured, NoSync
<1>2. Shape /\ History /\ Guarded /\ NeverSecured => PowerLossKeepsSecuredButForTick
  <2> SUFFICES ASSUME Shape, History, Guarded, NeverSecured, FirstStart,
                      ~(fsync = "always" /\ sync.dir),
                      NEW i \in DOMAIN dirs, NEW cut \in Cuts, NEW x \in Range(secured)
               PROVE  x \in Range(Replayed(dirs[i], cut))
    BY DEF PowerLossKeepsSecuredButForTick, PowerLossKeepsSecured
  <2> DEFINE d == dirs[i]
  <2>1. d \in Range(dirs)
    BY RangeFact
  <2>2. fsync # "never"
    <3>1. \A y : y \notin Range(<<>>)
      BY DEF Range
    <3> QED BY <3>1 DEF NeverSecured
  <2>3. Safe(d, files, x)
    BY <2>1, <2>2 DEF Guarded
  <2> HIDE DEF d
  <2>4. Readable(d, cut)
    BY <2>1, CutReadable
  <2>5. Sound
    BY DEF FirstStart, Sane, Calm, History
  <2>6. Holds(d, written, seq)
    BY <2>1, <2>5 DEF Sound, Orders
  <2>7. CASE x \in Range(d.snapshot.state)
    BY <2>4, <2>7, ReplayedAre DEF d
  <2>8. ASSUME NEW f \in Live(d), NEW k \in DOMAIN files[f].lines,
               files[f].lines[k].e = x, k <= files[f].synced
        PROVE  x \in Range(Replayed(d, cut))
    <3>1. f \in DOMAIN files /\ Types
      BY <2>1, FilesOf DEF Shape
    <3>2. written[f] = files[f].lines /\ files[f].lines \in Seq(Line)
      BY <3>1, WrittenIs
    <3>3. k \in Nat /\ k >= 1 /\ files[f].lines[k].s \in Nat
      <4> DEFINE ls == files[f].lines
      <4>1. ls \in Seq(Line) /\ k \in DOMAIN ls
        BY <3>2
      <4> HIDE DEF ls
      <4>2. k \in 1 .. Len(ls) /\ ls[k] \in Line
        BY <4>1
      <4> QED BY <4>2 DEF Line, ls
    <3>4. files[f].synced <= cut[f] /\ files[f].synced \in Nat /\ cut[f] \in Nat
      <4>1. cut[f] \in files[f].synced .. Len(files[f].lines)
        BY <3>1 DEF Cuts
      <4>2. files[f] \in FileType
        <5> HIDE DEF FileType
        <5> QED BY <3>1 DEF Types
      <4>3. files[f].synced \in Nat /\ Len(files[f].lines) \in Nat
        BY <3>2, <4>2 DEF FileType
      <4> QED BY <4>1, <4>3
    <3>5. k \in 1 .. cut[f]
      BY <2>8, <3>3, <3>4
    <3>6. files[f].lines[k].s > d.snapshot.seq
      <4>1. d.snapshot.seq < written[f][k].s /\ d.snapshot.seq \in Nat
        BY <2>1, <2>6, <3>2, FilesOf DEF Holds
      <4> QED BY <3>2, <3>3, <4>1
    <3>7. <<f, k>> \in Places(d, cut)
      BY <2>4, <3>5, <3>6, PlacesAre
    <3> DEFINE p == <<f, k>>
    <3>8. p \in Places(d, cut) /\ files[p[1]].lines[p[2]].e = x
      BY <2>8, <3>7
    <3> HIDE DEF p
    <3> QED BY <2>4, <3>8, ReplayedAre
  <2>9. x \in Range(Replayed(d, cut))
    BY <2>3, <2>7, <2>8 DEF Safe, d
  <2> QED BY <2>9 DEF d
<1> QED BY <1>1, <1>2, AlwaysShape, AlwaysHistory, GuardedInit, GuardedNext, NeverSecuredNext, PTL DEF Spec
=============================================================================
