----------------------------- MODULE JournalTail -----------------------------
(***************************************************************************)
(* How changes reach the journal: the broker's lock, the journal's tail    *)
(* with its own lock, and the threads that take both (broker.rs commit,    *)
(* journal_commands, flush_journal, flush_deferred, settle, tick;          *)
(* journal.rs Tail, Writer, TailGuard, Journal).                           *)
(*                                                                         *)
(* An event loop's thread batches: the changes it makes wait in `pending`  *)
(* until it calls flush_journal, before its replies go out.  flush_journal *)
(* takes the waiting lines under the broker's lock, locks the tail, and    *)
(* writes them after it released the broker's lock, so that other requests *)
(* go on.  Other threads write what waits before they release the lock.    *)
(* Lines the disk refused wait in `refused`, ahead of everything else.     *)
(*                                                                         *)
(* A line is its sequence number.  A step is what a thread does between    *)
(* two points where another may come in: taking a lock, or reading or      *)
(* writing one of the flags shared without one.                            *)
(***************************************************************************)
EXTENDS Integers, Sequences

CONSTANTS Loops,        \* threads that batch (batch_journal_writes)
          Others,       \* threads that do not
          Ticker,       \* the thread that ticks once a second; it batches
          Policies,     \* whether fsync=always, where every write is synced
                        \* before its reply: what the server may be started with
          MaxRequests,  \* bounds: requests,
          MaxSyncs,     \* syncs of snapshots,
          MaxFailures,  \* writes the disk refuses
          NoThread

ASSUME ThreadAssumption == /\ Loops \cap Others = {}
                           /\ Ticker \notin Loops \cup Others
                           /\ NoThread \notin Loops \cup Others \cup {Ticker}
ASSUME PolicyAssumption == Policies \subseteq BOOLEAN

Thread == Loops \cup Others \cup {Ticker}
Batching(t) == t \notin Others

VARIABLES
    core,       \* who holds the broker's lock
    tail,       \* who holds the tail's
    pc,         \* where each thread is
    seq,        \* the last number given to a line; all up to it are applied
    pending,    \* lines for changes made, not handed to the tail yet
    taken,      \* lines each thread took to write
    refused,    \* lines the disk refused
    file,       \* whole lines in the journal
    torn,       \* a write was cut short and could not be cut off again
    failure,    \* the last write failed
    deferred,   \* flag: changes journaled but not written
    always,     \* fsync=always
    holding,    \* a snapshot's sync, in the background, holds writes up
    saw,        \* the last change each thread's replies reflect
    excused,    \* each thread was told its changes wait
    promised,   \* the last change some reply vouched for
    requests, syncs, failures

tailVars == <<core, tail, pc, seq, pending, taken, refused, file, torn, failure,
              deferred, always, holding, saw, excused, promised, requests, syncs, failures>>

lineVars == <<seq, pending, taken, refused, file, torn, failure>>
syncVars == <<always, holding, syncs>>
history == <<saw, excused, promised>>

TailInit == /\ core = NoThread /\ tail = NoThread
            /\ pc = [t \in Thread |-> "idle"]
            /\ seq = 0
            /\ pending = <<>> /\ refused = <<>> /\ file = <<>>
            /\ taken = [t \in Thread |-> <<>>]
            /\ torn = FALSE /\ failure = FALSE
            /\ deferred = FALSE /\ holding = FALSE
            /\ saw = [t \in Thread |-> 0]
            /\ excused = [t \in Thread |-> FALSE]
            /\ promised = 0
            /\ requests = 0 /\ syncs = 0 /\ failures = 0
            /\ always \in Policies

Goto(t, label) == pc' = [pc EXCEPT ![t] = label]

\* The flags TailGuard::note keeps, and Journal::defers.
failing == torn \/ refused # <<>>
defers == ~always /\ ~failing
\* Journal::postponing: a sync, the tick's own or a snapshot's, is running.
postponing == ~always /\ (holding \/ pc[Ticker] = "sync")
\* Journal::waiting.
waiting == pending # <<>> \/ refused # <<>>
-----------------------------------------------------------------------------
(***************************************************************************)
(* The tail.                                                               *)
(***************************************************************************)
\* Tail::append, of lines that are not none: all of them go to the file, or
\* none, unless what was cut short cannot be cut off again, which leaves some
\* of them.  `wrote` says which.
append(lines, wrote) ==
    \/ /\ wrote = TRUE /\ ~torn
       /\ file' = file \o lines
       /\ failure' = FALSE
       /\ UNCHANGED <<torn, failures>>
    \/ /\ wrote = FALSE /\ torn
       /\ UNCHANGED <<file, torn, failure, failures>>
    \/ /\ wrote = FALSE /\ ~torn /\ failures < MaxFailures
       /\ failures' = failures + 1
       /\ failure' = TRUE
       /\ \/ UNCHANGED <<file, torn>>
          \/ /\ torn' = TRUE
             /\ \E n \in 0 .. Len(lines) : file' = file \o SubSeq(lines, 1, n)

write_drop(lines, wrote) ==      \* drops them when refused
    LET all == refused \o lines IN
    /\ IF all = <<>> THEN wrote = TRUE /\ UNCHANGED <<file, torn, failure, failures>>
                     ELSE append(all, wrote)
    /\ refused' = IF wrote THEN <<>> ELSE refused

\* TailGuard::write: after any lines refused before, and with them if refused.
write(lines, wrote) ==
    LET all == refused \o lines IN
    /\ IF all = <<>> THEN wrote = TRUE /\ UNCHANGED <<file, torn, failure, failures>>
                     ELSE append(all, wrote)
    /\ refused' = IF wrote THEN <<>> ELSE all

\* Journal::flush_pending; the caller holds the broker's lock.
flush_pending(wrote) ==
    /\ tail = NoThread
    /\ write(pending, wrote)
    /\ pending' = <<>>
-----------------------------------------------------------------------------
(***************************************************************************)
(* Requests.  A thread takes the broker's lock and keeps it until it has   *)
(* settled.                                                                *)
(***************************************************************************)
lock(t) == core = NoThread /\ core' = t

push == /\ pending' = Append(pending, seq + 1)
        /\ seq' = seq + 1

\* A read, which reflects every change made so far.
Read(t) ==
    /\ pc[t] = "idle" /\ t # Ticker /\ requests < MaxRequests
    /\ lock(t) /\ Goto(t, "settle")
    /\ requests' = requests + 1
    /\ UNCHANGED <<tail, lineVars, deferred, syncVars, history, failures>>

\* Core::commit: an effect is journaled, then applied.
Commit(t) ==
    /\ pc[t] = "idle" /\ requests < MaxRequests /\ t # Ticker
    /\ lock(t)
    /\ requests' = requests + 1
    /\ IF Batching(t) /\ defers
       THEN deferred' = TRUE /\ push /\ Goto(t, "settle")
       ELSE Goto(t, "append") /\ UNCHANGED <<deferred, seq, pending>>
    /\ UNCHANGED <<tail, taken, refused, file, torn, failure, syncVars,
                   history, failures>>

\* TailGuard::write_new, when the disk takes what waits and not the line: the
\* line is cut off again, or is left, torn or whole, at the end of the file.
line_refused ==
    /\ torn => refused \o pending = <<>>
    /\ torn \/ failures < MaxFailures
    /\ failures' = IF torn THEN failures ELSE failures + 1
    /\ failure' = TRUE
    /\ refused' = <<>>
    /\ \/ file' = file \o refused \o pending /\ UNCHANGED torn
       \/ /\ ~torn /\ torn' = TRUE
          /\ \E left \in {<<>>, <<seq + 1>>} : file' = file \o refused \o pending \o left

\* Journal::append: what waits goes first, then the line of the change, which
\* is dropped, and the change not made, when the disk refuses either.
AppendEffect(t) ==
    /\ pc[t] = "append" /\ tail = NoThread
    /\ pending' = <<>>
    /\ \/ /\ write(Append(pending, seq + 1), TRUE)
          /\ seq' = seq + 1
          /\ UNCHANGED excused
       \/ /\ write(pending, FALSE) \/ line_refused
          /\ excused' = [excused EXCEPT ![t] = TRUE]
          /\ UNCHANGED seq
    /\ Goto(t, "settle")
    /\ UNCHANGED <<core, tail, taken, deferred, syncVars, saw, promised, requests>>

\* Core::run_command, for a command that writes: refused while the journal is
\* failing, once it has tried again; applied, then journaled.
Command(t) ==
    /\ pc[t] = "idle" /\ requests < MaxRequests /\ t # Ticker
    /\ lock(t)
    /\ requests' = requests + 1
    /\ Goto(t, IF failing THEN "retry" ELSE "apply")
    /\ UNCHANGED <<tail, lineVars, deferred, syncVars, history, failures>>

Retry_not(t) ==      \* refuses without trying again
    /\ pc[t] = "retry" /\ tail = NoThread
    /\ UNCHANGED <<pending, refused, file, torn, failure, failures>>
    /\ Goto(t, "settle")
    /\ excused' = [excused EXCEPT ![t] = TRUE]
    /\ UNCHANGED <<core, tail, seq, taken, deferred, syncVars, saw, promised, requests>>

\* Core::journal_failing, once the flag says so.  The tick ends there.
Retry(t) ==
    /\ pc[t] = "retry" /\ tail = NoThread
    /\ IF ~(failure \/ torn)
       THEN UNCHANGED <<pending, refused, file, torn, failure, failures>>
       ELSE \E wrote \in BOOLEAN : flush_pending(wrote)
    /\ LET refuses == failing' /\ (failure' \/ torn')
       IN  /\ Goto(t, IF t = Ticker \/ refuses THEN "settle" ELSE "apply")
           /\ excused' = [excused EXCEPT ![t] = @ \/ refuses]
    /\ UNCHANGED <<core, tail, seq, taken, deferred, syncVars, saw, promised, requests>>

\* Core::journal_commands: deferred, or written at once; when the disk refuses
\* it, the reply says that the change is made and waits (Error::Unsaved).
Apply(t) ==
    /\ pc[t] = "apply"
    /\ push
    /\ IF Batching(t) /\ defers
       THEN deferred' = TRUE /\ Goto(t, "settle")
       ELSE Goto(t, "pend") /\ UNCHANGED deferred
    /\ UNCHANGED <<core, tail, taken, refused, file, torn, failure, syncVars,
                   history, requests, failures>>

FlushApplied(t) ==
    /\ pc[t] = "pend"
    /\ \E wrote \in BOOLEAN :
          /\ flush_pending(wrote)
          /\ excused' = [excused EXCEPT ![t] = @ \/ ~wrote]
    /\ Goto(t, "settle")
    /\ UNCHANGED <<core, tail, seq, taken, deferred, syncVars, saw, promised, requests>>

\* Broker::tick: tries again to write what waits, then flushes as a loop does.
Tick(t) ==
    /\ t = Ticker /\ pc[t] = "idle"
    /\ lock(t) /\ Goto(t, IF failing THEN "retry" ELSE "settle")
    /\ UNCHANGED <<tail, lineVars, deferred, syncVars, history, requests, failures>>
-----------------------------------------------------------------------------
(***************************************************************************)
(* Replies.                                                                *)
(***************************************************************************)
\* A reply vouches for the changes it reflects, unless it went out while a
\* sync held the write up or the journal was failing.
Reply(t) == /\ Goto(t, "idle")
            /\ promised' = IF ~excused[t] /\ ~failing' /\ saw[t] > promised
                           THEN saw[t] ELSE promised
            /\ saw' = [saw EXCEPT ![t] = 0]
            /\ excused' = [excused EXCEPT ![t] = FALSE]

\* Broker::settle.  A thread that batches releases the lock; another writes
\* what waits, or waits for what is being written, and replies.
SettleLoop(t) ==
    /\ pc[t] = "settle" /\ Batching(t)
    /\ core' = NoThread
    /\ saw' = [saw EXCEPT ![t] = seq]
    /\ Goto(t, "round")
    /\ UNCHANGED <<tail, lineVars, deferred, syncVars, excused, promised, requests, failures>>

\* The loop answers the next request it has read before it flushes.
NextRequest(t) ==
    /\ pc[t] = "round" /\ t # Ticker
    /\ Goto(t, "idle")
    /\ UNCHANGED <<core, tail, lineVars, deferred, syncVars, history, requests, failures>>

SettleOther(t) ==
    /\ pc[t] = "settle" /\ ~Batching(t)
    /\ saw' = [saw EXCEPT ![t] = seq]
    /\ Goto(t, IF deferred THEN "soon" ELSE "hold")
    /\ UNCHANGED <<core, tail, lineVars, deferred, syncVars, excused, promised,
                   requests, failures>>

SettleWait(t) ==
    /\ pc[t] = "hold" /\ tail = NoThread
    /\ core' = NoThread
    /\ UNCHANGED <<tail, lineVars, deferred, syncVars, requests, failures>>
    /\ Reply(t)
-----------------------------------------------------------------------------
(***************************************************************************)
(* Broker::flush_journal and flush_deferred.                               *)
(***************************************************************************)
Flush(t) ==
    /\ pc[t] = "round"
    /\ Goto(t, IF deferred THEN "await" ELSE "wait")
    /\ UNCHANGED <<core, tail, lineVars, deferred, syncVars, history, requests, failures>>

FlushWait_not(t) ==     \* replies at once
    /\ pc[t] = "wait"
    /\ UNCHANGED <<core, tail, lineVars, deferred, syncVars, requests, failures>>
    /\ Reply(t)

\* The flag is down: the changes are written, or being written.
FlushWait(t) ==
    /\ pc[t] = "wait" /\ tail = NoThread
    /\ UNCHANGED <<core, tail, lineVars, deferred, syncVars, requests, failures>>
    /\ Reply(t)

FlushAwait(t) ==
    /\ pc[t] = "await" /\ tail = NoThread
    /\ Goto(t, "relock")
    /\ UNCHANGED <<core, tail, lineVars, deferred, syncVars, history, requests, failures>>

\* Journal::take_pending, under the broker's lock.
TakePending(t) ==
    /\ pc[t] = "relock" /\ lock(t)
    /\ IF pending = <<>> \/ always \/ postponing \/ failing
       THEN Goto(t, "soon") /\ UNCHANGED <<pending, taken>>
       ELSE /\ Goto(t, "take")
            /\ taken' = [taken EXCEPT ![t] = pending]
            /\ pending' = <<>>
    /\ UNCHANGED <<tail, seq, refused, file, torn, failure, deferred, syncVars, history,
                   requests, failures>>

\* The tail is locked before the broker's lock is released.

LockTail(t) ==
    /\ pc[t] = "take" /\ tail = NoThread
    /\ tail' = t
    /\ deferred' = FALSE
    /\ core' = NoThread
    /\ Goto(t, "write")
    /\ UNCHANGED <<lineVars, syncVars, history, requests, failures>>

WriteTaken(t) ==
    /\ pc[t] = "write"
    /\ taken' = [taken EXCEPT ![t] = <<>>]
    /\ \/ /\ write(taken[t], TRUE)
          /\ tail' = NoThread
          /\ Reply(t)
       \/ /\ write(taken[t], FALSE)
          /\ Goto(t, "raise")
          /\ UNCHANGED <<tail, history>>
    /\ UNCHANGED <<core, seq, pending, deferred, syncVars, requests>>

RaiseDeferred(t) ==
    /\ pc[t] = "raise"
    /\ deferred' = TRUE
    /\ tail' = NoThread
    /\ UNCHANGED <<core, lineVars, syncVars, requests, failures>>
    /\ Reply(t)

\* flush_deferred, up to what it finds waiting: Journal::flush_soon writes
\* unless a sync holds writes up.
FlushPostponed(t) ==
    /\ pc[t] = "soon" /\ postponing
    /\ IF waiting
       THEN /\ core' = NoThread
            /\ Goto(t, "idle")
            /\ saw' = [saw EXCEPT ![t] = 0]
            /\ UNCHANGED <<excused, promised>>
       ELSE /\ Goto(t, "lower")
            /\ excused' = [excused EXCEPT ![t] = TRUE]
            /\ UNCHANGED <<core, saw, promised>>
    /\ UNCHANGED <<tail, lineVars, deferred, syncVars, requests, failures>>

FlushSoon(t) ==
    /\ pc[t] = "soon" /\ ~postponing
    /\ \/ /\ flush_pending(TRUE)
          /\ Goto(t, "lower")
          /\ UNCHANGED <<core, history>>
       \/ /\ flush_pending(FALSE)
          /\ core' = NoThread
          /\ Reply(t)
    /\ UNCHANGED <<tail, seq, taken, deferred, syncVars, requests>>

LowerDeferred(t) ==
    /\ pc[t] = "lower"
    /\ deferred' = FALSE
    /\ core' = NoThread
    /\ UNCHANGED <<tail, lineVars, syncVars, requests, failures>>
    /\ Reply(t)
-----------------------------------------------------------------------------
\* The tick's sync runs without the lock; what waited for it to end is written
\* then (Broker::tick).
TickSync(t) ==
    /\ t = Ticker /\ pc[t] = "idle" /\ ~always
    /\ Goto(t, "sync")
    /\ UNCHANGED <<core, tail, lineVars, deferred, syncVars, history, requests, failures>>

TickSynced(t) ==
    /\ pc[t] = "sync" /\ lock(t)
    /\ Goto(t, "soon")
    /\ UNCHANGED <<tail, lineVars, deferred, syncVars, history, requests, failures>>

\* A snapshot's sync begins to hold writes up, or ends, or has run for
\* POSTPONE_LIMIT (Syncs::holding_up).
SyncBegins == /\ ~holding /\ ~always /\ syncs < MaxSyncs
              /\ holding' = TRUE
              /\ syncs' = syncs + 1
              /\ UNCHANGED <<core, tail, pc, lineVars, deferred, always, history,
                             requests, failures>>

SyncEnds == /\ holding
            /\ holding' = FALSE
            /\ UNCHANGED <<core, tail, pc, lineVars, deferred, always, syncs, history,
                           requests, failures>>

Request(t) == Read(t) \/ Commit(t) \/ Command(t) \/ NextRequest(t)

Step(t) == \/ AppendEffect(t) \/ Retry(t) \/ Apply(t) \/ FlushApplied(t)
           \/ SettleLoop(t) \/ SettleOther(t) \/ SettleWait(t)
           \/ Flush(t) \/ FlushWait(t) \/ FlushAwait(t) \/ TakePending(t)
           \/ LockTail(t) \/ WriteTaken(t) \/ RaiseDeferred(t)
           \/ FlushPostponed(t) \/ FlushSoon(t) \/ LowerDeferred(t) \/ TickSynced(t)

TailNext == \/ \E t \in Thread : Request(t) \/ Step(t) \/ Tick(t) \/ TickSync(t)
            \/ SyncBegins \/ SyncEnds

\* A thread that has started a request goes on with it, the tick comes round,
\* and a sync holds writes up for POSTPONE_LIMIT at most.
Fairness == /\ \A t \in Thread : WF_tailVars(Step(t))
            /\ WF_tailVars(Tick(Ticker))
            /\ WF_tailVars(SyncEnds)

TailSpec == TailInit /\ [][TailNext]_tailVars /\ Fairness
-----------------------------------------------------------------------------
(***************************************************************************)
(* Properties.                                                             *)
(***************************************************************************)
Label == {"idle", "append", "retry", "apply", "pend", "settle", "hold", "round", "wait",
          "await", "relock", "take", "write", "raise", "soon", "lower", "sync"}

\* Where a thread holds the broker's lock.
Locked == {"append", "retry", "apply", "pend", "settle", "hold", "take", "soon", "lower"}

\* The types, and which locks a thread holds where.
TailTypeOK == /\ core \in Thread \cup {NoThread}
              /\ tail \in Thread \cup {NoThread}
              /\ pc \in [Thread -> Label]
              /\ seq \in Nat
              /\ pending \in Seq(Nat) /\ refused \in Seq(Nat) /\ file \in Seq(Nat)
              /\ taken \in [Thread -> Seq(Nat)]
              /\ {torn, failure, deferred, always, holding} \subseteq BOOLEAN
              /\ saw \in [Thread -> Nat]
              /\ excused \in [Thread -> BOOLEAN]
              /\ {promised, requests, syncs, failures} \subseteq Nat
              /\ \A t \in Thread : pc[t] \in Locked => core = t
              /\ \A t \in Thread : pc[t] \in {"write", "raise"} <=> tail = t

Numbers(n) == [i \in 1 .. n |-> i]

\* The journal holds the changes in the order they were made, with none left
\* out, whichever thread wrote them and whatever the disk refused: replay reads
\* the lines in file order and checks no number (journal.rs scan).
InOrder == file = Numbers(Len(file))

\* Every change made is in the file or on its way there, once, in order: first
\* what the disk refused, then what the holder of the tail took to write, then
\* what the holder of the broker's lock took and cannot write yet, then what
\* waits.
TakenBy(t) == IF t = NoThread THEN <<>> ELSE taken[t]
NothingLost ==
    ~torn => file \o refused \o TakenBy(tail) \o TakenBy(core) \o pending = Numbers(seq)

\* No reply goes out before the changes it reflects are in the journal, its own
\* and those of other threads it read, but for the times batch_journal_writes
\* and flush_journal name: a sync in the background, or a failing disk.
ReplyAfterWrite == promised <= Len(file)

\* Changes that wait are never forgotten: the flag that makes the next flush
\* write them is up, or the journal is failing and the tick tries again.
WaitingIsFlagged ==
    pending # <<>> => deferred \/ \E t \in Thread : pc[t] \in {"pend", "soon"}

\* What the journal holds and what is on its way to it, at any moment.
JournalHolds == TailTypeOK /\ InOrder /\ NothingLost /\ WaitingIsFlagged

\* Every change made reaches the journal, once requests stop, unless a write
\* was cut short for good (Tail::append: "restart the server to recover").
EventuallyWritten == \A n \in 1 .. MaxRequests : seq >= n ~> Len(file) >= n \/ torn
=============================================================================
