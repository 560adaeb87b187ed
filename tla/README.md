# postino in TLA+

postino is a server for messages between agents: inboxes with leases, rooms, a
keyspace with Redis commands, events and publish/subscribe, in one process over
a journal and a snapshot. This directory models it: TLA+ modules translated from
`src/`, configurations that check them on small instances, and proofs.

Paths are relative to the repository's root; `broker.rs` is `src/broker.rs`.

## The system

One `Broker` holds everything behind one lock (`Core`). Threads take the lock,
change the `Store` through `Core::commit` (an effect is journaled, then applied)
or `run_command` (applied, then journaled), and reply. Event loops batch what
they journal and write it once for many replies; other threads write at once. A
tick comes once a second: it syncs the journal, tries failed writes again,
expires keys and messages, and may start a snapshot, which a thread of its own
then takes a run at a time, between requests.

| Component | State | Operations | Hard parts | What makes it correct |
| --- | --- | --- | --- | --- |
| Snapshot capture (`capture.rs`, `db.rs`, `store.rs`) | a cursor, a bound and the keys written early, per section | begin, step, drain, end, abandon; `preserve` before each change | changes between runs, on either side of the cursor; sections handed out in order | the snapshot is the store as it was when it began |
| Journal writing (`journal.rs`, `broker.rs`) | lines pending, taken, refused; the file; the deferred flag; two locks | append, defer, flush, settle, tick | writes outside the broker's lock; flags read without one; a disk that refuses or tears | in order, nothing lost, no reply ahead of its changes |
| Journal files (`journal.rs`) | journal, journals set aside, snapshot, what is synced | rewrite, persist, sync, open, replay, repair | crashes and power losses between renames and syncs; failed syncs | a restart restores the state, or what the policy promises of it |
| Messages and agents (`broker.rs`, `store.rs`) | messages with their state and lease, inboxes, due indexes, sessions | send, lease, ack, purge, presence, rename, forget, sweep | late acks, leases that end, limits, eviction, hand-kept indexes, a commit refused half way | nothing pending is lost, leases exclude one another, indexes match |
| Waiting requests (`broker.rs`) | who waits for which topic | wait, wake, give up | a change between checking and sleeping; waiters of one topic woken together; clients that leave | no wakeup is missed, every wait ends |
| Broadcasts (`broker.rs`, `store.rs`) | a bounded list, a cursor per agent | send, read, clear, trim | trimming under cursors and shares | unseen ones are counted right |
| Rooms, questions, boards (`broker.rs`, `store.rs`) | members, posts, asks, entries | create, join, post, ask, answer, withdraw, sweep | renames and leavers while a question is open; trimming | a question resolves once, when everyone answered |
| Event stream (`broker.rs`) | a history, subscribers with a bounded queue | publish, subscribe, hand over | resuming, falling behind, names that change hands | each event once, in order, or the subscriber is told |
| Publish and subscribe (`broker.rs`) | subscriptions, what waits for each | subscribe, publish, notify | counting bytes off without the lock, dropping who falls behind | each hears what is meant for it, or its stream ends |
| Keyspace (`commands.rs`, `db.rs`) | keys, deadlines, stream groups | the commands, the expire cycle, walks | expiry without a journal line, consumer groups, replay, walks between changes | replay gives the same state |
| Event loop (`event.rs`, `poll.rs`) | connections, what each has read and not answered | receive, answer, hand to a thread, reply, close | pipelining, half-closed clients, limits | replies in order, none dropped, none ahead of the journal |
| Ids, globs, scopes (`id.rs`, `glob.rs`, `scope.rs`) | none | pure functions | clocks going back, ranges, word boundaries, decisions | their definitions |
| HTTP, API, MCP, command line, configuration | parsing and formatting | | starting a server when there is none, heartbeats | |

`PROJECT.json` lists every component with its status, and under `hazards` what
in this code is hard to test, at its line, with the properties that cover it.

## Modules

| Module | Models |
| --- | --- |
| `AtomicSnapshot` | What a snapshot promises: the store at one moment, published or given up. |
| `Capture` | How `Captured`, `Db` and `Store` take one a run at a time. Refines `AtomicSnapshot`. |
| `JournalTail` | How lines reach the journal: the two locks, the flags, the threads. |
| `FilesProofs` | Proofs of `Capture` and of `JournalTail`. |
| `Journal` | The journal's files, snapshots, syncs, crashes, power losses, restarts. |
| `JournalProofs` | Its proofs. |
| `Inbox` | Direct messages and agents, with the store's indexes. |
| `InboxProofs` | Its proofs. |
| `Rooms` | Rooms: members, timelines, questions, boards. |
| `RoomsProofs` | Its proofs. |
| `Waiters` | Requests that wait, from the loop to a thread of their own, and who wakes them. |
| `EventLoop` | The connection loop, its clients, and the threads connections are handed to. |
| `EventLoopProofs` | Its proofs. |
| `Commands`, `Streams` | What each command does to the keyspace: functions of a keyspace and a time. |
| `Keyspace` | The keyspace in use: commands, the expire cycle, snapshots, restarts, the clock. |
| `Events` | The event stream: a history, subscribers, clients that come back. |
| `Broadcasts` | Broadcasts and agents, which drive `Events`. |
| `BroadcastsProofs` | Proofs of both. |
| `Globs`, `Scopes` | Patterns, and what a token reaches. |
| `Listing` | `KEYS` and `SCAN`, a run at a time. |
| `Channels` | Publish and subscribe. |
| `Reach` | `Listing` and `Channels` composed with changes of keys. |
| `ListenersProofs` | Proofs of `Waiters`, and of `Globs`, `Channels` and `Listing` as `Reach` composes them. |
| `Facts` | Proved facts about least and greatest elements, induction, folds, ranks, finite maps and rows that rise, which the proofs share. |

Each `MC` module gives the constants of the module it is named after their values
for TLC, and its symmetry where it is sound.

### Capture

The store is a row of maps, the *sections*: rooms, messages, and last the
keyspace. `map` is what they hold, `live`, `bound`, `cursor`, `early` and `done`
are the fields of `Capture`, and `image` and `copies` are what has been written,
as values and as how often: a reader puts it in a map, so its order does not
matter. The bytes a step may write are a budget that ends at any value written,
which is what `size() - start < budget` allows. A step of the store goes on to a
section once the ones ahead are done, `drain_capture` ends those that are over,
and `finish_rewrite` ends the keyspace's; `snapshot_run` is all of that, under
one lock. `passed` and `preserve` are the code's; `Db` keeps no bound, so its
section has none. A key is a number that stands for its place in the order.

`ImplementsAtomicSnapshot` maps the snapshot being taken to what is written
where the walk has been and the map where it has not (`Taken`).

### JournalTail

A step is what a thread does between two points where another may come in:
taking a lock, and reading or writing a flag that is shared without one. `core`
and `tail` are the two locks. `pending`, `refused`, `file` and `torn` are the
journal's; `taken` is what `take_pending` handed a thread. A line is its number.
`excused` and `promised` are history: a reply promises the changes it reflects
unless one of the exceptions the code names applied to it, a sync running in the
background (see `batch_journal_writes`) or a disk that fails. `failing` and
`postponing` stand for the flags kept by `TailGuard::note` and `Syncs`. `always`
is the fsync policy, chosen at the start, and `syncs` counts the syncs that hold
writes up.

### Journal

`fsync` is the policy the server runs with. `files` holds each file's lines and
how many of them are durable; `dirs` the directory after each operation since it
was last synced, the last being what the process sees. A rewrite renames twice
under the broker's lock (`StartRewrite`, `TakeOver`), with a crash possible
between; where the fresh journal cannot be renamed the current one has its name
back (`RollBack`). The snapshot's thread syncs what it covers, lands, syncs the
directory and deletes, in steps of their own; so does the tick's sync, outside
the lock. A crash keeps everything the operating system has. A power loss keeps
a prefix of each file, at least what was synced, and the directory after some
prefix of its operations; a sync that fails may lose what it was to sync, for
good. That of the directory fails with no one the wiser (`SyncDir`), where
`dirFails` allows it. A tick that can have no handle on the journal leaves it to
the next (`TakeSync`), and a snapshot that has landed may fail to delete what it
covers (`GiveUp`). A change is journaled and made in one step here:
`JournalTail` shows that what is between them keeps the order. Shutdown's own
rewrite takes the same steps, without a thread, and is not modelled apart. Left
out: that the first rename cannot be taken back either, and that a journal's
sync which fails while a snapshot that covers it is persisted may lose its
lines: there the snapshot is given up, no more.

The process forgets a failed sync when it crashes: a restart takes what it reads
for synced, and no snapshot is due. `FailedSyncIsMadeGoodIfWritten` is therefore
of one life of the process.

### Inbox

Each request runs under the broker's lock, so it is one action; it makes a row
of commits, any of which the journal may refuse (`Failing`), and ends there.
`store` is the `Store` with the fields that concern messages; the `apply_*`
operators are `Store::apply`, an operator for each effect, through `track`,
which keeps the indexes. Left out: bodies, threads, events and wakeups, requests
refused before they change anything (but for the limits), `strict`, `replies_to`
and the room left in memory. Which agents are evicted first is left open: any of
those that may go. Assumed: the tokens of two leases of one message differ (they
are random), and the clock does not step back.

### Rooms

Requests are one action each, made of a row of commits, as in `Inbox`; the
`apply_*` operators are again `Store::apply`. `append`, `log`, `set_question`,
`trim_room` and `ensure_agents` take the row of commits made so far and add theirs,
as the methods they are named after do. Where the code goes through a set in a
loop, forgetting agents, dropping rooms or settling questions, the row has a store
for each part of the set (`forgotten`, `known`, `drop_rooms`, `expired`, `withdrawn`). A post has an author, a
kind, the question it answers, what it asks and its key; `open` is the room's own
index of its open questions, which `OpenMatches` compares with its posts. Members
of `Operators` act as the administrator does, the others as agents do (`strict`).

`uses` is chosen at the start, from `Uses`: the kinds of requests a behaviour is
made of besides creating, joining, leaving, posting, closing and deleting. It
keeps the state space in bounds while what belongs together meets: questions
with renames and eviction, questions in private rooms with commits refused, keys
with renames, boards in private rooms, reading with renames. `holds` is history:
what version of an entry a reader read last, and whether it changed since.
Left out: topics' text, items, choices, bodies, events and wakeups, and whether
an agent is online or has messages to handle, which keeps it from being evicted
and is `Inbox`'s.

### Waiters

A request tries on the connection loop, where nothing may wait (`Try`), moves to
a thread (`Command`), and sleeps under every topic it waits for (`wait_for`); woken,
or at the end of a one-second slice, it wants the lock and tries again
(`Retry`). The lock is held from an attempt to the sleep after it, so each
stretch under it is one action. `items` counts what each topic holds; `wake` is
`Core.wake`, told by `settle` to whoever `signals` and `by_topic` name. The three
kinds of requests differ in what they do with what they find: a lease takes from
one inbox or room and journals it, a pop takes from any of several keys and
counts as a write even when it finds nothing, a look takes nothing. A thread that
panics with the lock held leaves a change made, or told to nobody, and halts the
broker. A client that closes its connection is noticed when its request next
wakes. A sleeper may wake for nothing, as condition variables do. Its specification is
`WaitSpec`, so that one module can extend it and `Reach`.

### EventLoop

A round of the loop is what `Loop::run` does, a step for each thing it does:
poll, receive and answer on each ready connection, flush the journal, reply,
sweep those past their deadlines, close slow ones that hold too much, and take
in the connections that arrived. Bytes are counted in
pieces, a request one or two, a reply one or more. `conn` is the server's side of
a connection, with the fields of `Conn`; `sock` is what the system holds for its
client, who takes it when it likes. A request that has to wait leaves with its
connection for a thread (`Server::hand_off`), which writes what the loop left,
answers it, and reads and answers what comes after until the connection closes
or becomes a stream. `answer` is `Conn::answer`, a function of the script and of
the connection: the turns of its loop, of which a request takes three at most.
Clients are prompt,
slow, parting (they close their end and read on) or fickle (they leave at any
time). `unsaved` is the changes answered and not in the journal yet; a flush
writes them all, or finds the journal held up by a sync or by the disk and
leaves them, `excused`: the replies go out all the same, as
`batch_journal_writes` and docs/getting-started/concepts.md:55 say, and another
thread or the tick writes them (`WrittenElsewhere`).  When the journal is held
up, and that this ends, is `JournalTail`'s part.

`Conn::reply` closes a connection that `ended` before it looks at `full`, so a
client that closes its end may leave requests it had sent unanswered when the
end is read together with as much as one read takes. `EveryRequestAnswered` is
about clients that keep their end open.

### Commands, Streams and Keyspace

`Exec(d, c, x)` is the set of outcomes of a command `c` in a keyspace `d` at a
time `x.now`, as a client's or in replay: the keyspace left, the keys whose
change is told, the commands journaled, and whether the request waits. The
operators of `Commands` and `Streams` are the methods of `Exec` and the helpers
of `Db` they call. `Keyspace` runs them: `copy` is the keyspace as a restart at
this moment would rebuild it, from the last snapshot and what was journaled
since, so that `ReplayGivesTheSame` compares the two in every state. The expire
cycle removes what is due and journals nothing, as the code does. It goes by the
list of deadlines, `due`: a set, whose length is left open, so that any deadline
may be the one that makes the list overgrown and has it rebuilt from the keys
held (`x.overgrown`), in the families named in `Overgrown`. `RENAME` gives the
deadline before it holds the key, so a rebuild then leaves it out; `unlisted`
remembers that, in the server or in a replay, and `HeldRight` says every other key
that expires is on the list. Deadlines left behind are not kept in `copy`: the
expire cycle passes over them.

The commands are in families (`Menu`), one in use in each behaviour. Left out:
what replies say, limits in bytes, infinite scores and NaN, times that do not
fit, idle times of consumers (`XCLAIM`'s `IDLE` and `TIME`, seen and active),
several streams in one `XREADGROUP`, batches, whose commands run one after
another, and commands that only read. Pending entries are counted up to 2 and
scores stay within `MaxScore`. The clock is set back in one family only, where no
key expires; `IdsIncrease` is about that. A restart may bring back keys that
expired and were removed, so keys held may then be more than `MaxKeys`:
`KeysWithinLimit` is about every other step.

### Events and Broadcasts

`Events` has the numbered history, subscribers with a buffer each, and clients
that lose their connection and come back with the id of the last event they got.
`publish_event`, `subscribe` and `hand_over` are the methods of those names;
`owed` is history: what a client is to get, or to be told that it missed.
`Broadcasts` extends it: each of its requests makes commits and events together,
as the code does under one lock, and any commit may be refused. Agents may be
evicted, forgotten and renamed whatever they have; `Inbox` and `Rooms` say which
really may. The tick expires the oldest broadcasts. After a restart ids go on
from the clock, which has moved on. A client that lost its connection before it
got anything has no id to resume from, so it begins anew and nothing is owed to
it. The list of broadcasts is held as a set, since ids give its order: the oldest
of some is the one with the least id (`Oldest`), and those before a place are
those with lesser ids (`Before`). What a subscriber is replayed is picked from the
history in its order (`Those`).

### Globs, Scopes, Listing, Channels and Reach

`Globs` reads a pattern into atoms, classifies it and runs the automaton in words
of `WordBits` bits, with the carry from one to the next, and has beside it what a
pattern means (`Means`), by which the properties judge. `Scopes` is what a token
may read, write, publish, subscribe to and receive, and the runs of keys worth
visiting for it. `Listing` is a walk that holds the lock for `Run` keys at a time
and a client that asks for the next page with the cursor it got. `Channels` is
subscriptions, what is put in their queues under the lock, and the threads that
take it out without. Subscriptions are a set, since a message goes to each and each
has a queue of its own; what one is handed of several messages is a function of its
end (`Taking`), and texts are put in their order by how many come before each
(`Sorted`). A delivery that meets a full queue was counted before, so a subscription
that is dropped may have those bytes counted besides. Counting a delivery and
sending it are one step, as are all of one message's: what its thread takes in
between could only make room, so the model drops a subscription where the code may
just keep it, and not the other way round. `Reach` composes them: tokens with
different scopes change, list and hear of the same keys. Left out: `SCAN`'s
`TYPE`, bytes of replies, the limits on a subscription's arguments, reads
(`PUBSUB`), the limit on open streams, and patterns named twice in one
subscription.

## Runs

| Run | Bounds | Properties | What it shows |
| --- | --- | --- | --- |
| `capture_store` | two sections of two keys, two values | `CaptureInv`, `EndsInOrder`, `ImplementsAtomicSnapshot` | each value is written once, sections end in order, the whole is the store at one moment |
| `tail` | two loops, another thread, the tick; 2 requests, a sync, a refusal; both policies | `JournalHolds`, `ReplyAfterWrite`, `EventuallyWritten` | order, nothing lost, no reply ahead of its changes, what waits is flagged, and written in the end |
| `journal` | six servers: 3 changes each; restarts with a crash, a power loss and a failed snapshot, 2 rewrites, or 1 and a failed sync; one start with 3 rewrites, a failed sync and a rename taken back, and restarts with 2 rewrites where the directory's syncs may fail and a rename is taken back, each with `everysec` and `always` | `RestartFindsAll`, `PowerLossRestoresHistory`, `PowerLossKeepsSecuredButForTick`, `FailedSyncIsMadeGoodIfWritten` | a crash alone loses nothing and numbers go on; after a power loss nothing is restored twice or out of order, with `always` nothing with a hole; what was secured stays, where the directory's names do (`NamesLast`); a snapshot follows a failed sync |
| `inbox` | two agents, two messages, a key, two deliveries, time up to 2, batches of one | `IndexesMatch`, `InboxHolds`, `NeitherLostNorDoubled`, `SweepCatchesUp` | leases, limits, indexes, keys; sweeps catch up |
| `inbox_agents` | three names, room for two, a session, two messages, a key, refused commits | `AgentsHold`, `KeepsPending`, `ActiveAgentsStay` | eviction, forgetting, renaming, presence; a key never names a message that is gone, or another agent's |
| `rooms` | three agents, one of which creates rooms, room for one of two names, four posts (three where commits are refused), one kept, two questions open, one agent renamed, forgotten or evicted | `RoomsHold`, `StaleWritesFailButAfterRemoval`, `OpenQuestionsStay`, `SettledOnce` | questions stay with their answers while open, settle once, and resolve when all have answered; members, keys, shares, versions |
| `waiters` | two requests of any kind, a key and another topic, two changes, waits of up to a slice | `NoMissedWakeup`, `GivesUpEmptyHanded`, `EveryWaitEnds` | nobody sleeps through a change or gives up with something there; each wait ends |
| `event_loop` | one client of each manner with each of ten scripts, or two with three pairs of scripts; buffers of two pieces, large replies of three; the loop fails once | `RepliesInOrder`, `SavedBeforeReply`, `ConnectionsKept`, `EveryRequestAnswered` | replies in order, whole, not ahead of the journal unless a flush found it held up; counters right; no connection forgotten; every reply comes |
| `keyspace` | three keys, room for two, two elements, eight families of commands, time up to 2, a list of deadlines that may be overgrown in one | `StateHolds`, `TablesHold`, `KeysWithinLimit`, `IdsIncrease` | a restart rebuilds what clients saw; waiters are told; the tables of keys, writes and growth agree with the commands |
| `broadcasts` | two agents; clients that follow everyone or one name, a history of two, buffers of one, a lost connection, a restart; or up to four broadcasts of which one to three are kept, keys, refused commits | `CursorsCountRight`, `NoSilentGap`, `CatchesUp`, `FloodPushesOutItself`, `PastStaysPrivate` | no event missed without a word, floods push out themselves, cursors count right |
| `reach` | three connections, two tokens; each short pattern, and eighteen longer ones, against each short text; key changes; slow subscribers; walks two keys at a time | `SubscriptionsHold`, `ListsWhatStays`, `DroppedLearns` | patterns match what they mean, subscribers hear what is meant for them and no more, walks list what stays |

The properties named for a whole (`JournalHolds`, `RoomsHold`, `AgentsHold`,
`InboxHolds`, `StateHolds`, `TablesHold`, `ConnectionsKept`, `SubscriptionsHold`,
`PowerLossRestoresHistory`) are conjunctions of named parts, each with its own
comment.

`rooms` has one post kept, so every post trims the timeline, and four made, which
is a room, a question and two answers, or an answer and somebody leaving. A
rename onto a name that is in use, which the administrator may ask for, is in the
module (`"merging"`) and not in the run: it merges what two agents did, and a
question's asker may become the one who answered it.

The bounds are small because the hazards are: a rewrite or two with a change on
each side of it, two writers and the tick, a second message that meets the first
one's limit, a session's end and a lease's end at different times. History is
limited to one, batches to one or two and inboxes to one or two so that every
limit is met and passed over. Three changes are enough for one in the snapshot,
one in the journal set aside and one in the fresh one, and the servers that run
through have as many rewrites as changes so that each may be in a journal of its
own. A buffer of one event and a history of two make a client that is one event
late fall behind and one that is three late learn that it missed some. Words of
two bits make patterns of three atoms cross from one word to the next. A key
more than there is room for, and an element more, make every command meet its
limits, and two milliseconds are enough for a key to expire before, at and after
another step. In `event_loop` a large reply is larger than the buffers, so a
connection stops in the middle of one. Runs whose clients and requests all end
allow a deadlock (`waiters`, `event_loop`, `broadcasts`, `reach`).

### Disagreements between the code and what it says of itself

`journal_always_tick` checks one property, which fails: `take_sync` lowers
`dir_unsynced` before the directory is synced, so with `fsync=always` a write in
between is replied to while the name of the journal it is in is not on disk.
`PowerLossKeepsSecuredButForTick` leaves out that time, and is about one start of
the server in a directory that has a journal, whose names last (`NamesLast`).

More of the kind have a configuration and no run; `tlc -config X.cfg Module`
shows each.

| Configuration, module | Property | What happens |
| --- | --- | --- |
| `JournalAlwaysFresh`, `MCJournal` | `PowerLossKeepsSecured` | A new data directory's `journal.log` is created without its name being synced, and no write syncs it before the first rewrite. |
| `JournalReusedNumber`, `MCJournal` | `CrashLosesNothing` | After a power loss numbers are given again, and a rewrite may replace a journal whose changes are in no other file until its snapshot lands. `RestartFindsAll` and `PowerLossKeepsOrder` leave out those behaviours (`NumbersMayClash`). |
| `JournalSnapshotFails`, `MCJournal` | `FailedSyncIsMadeGood` | The snapshot due after a failed sync is no longer due once it is begun, though it may fail. |
| `JournalUndone`, `MCJournal` | `PowerLossKeepsSecured` | When the second rename of a rewrite fails, the first is taken back, and nothing syncs the directory again: a tick has the journal's lines on disk and not its name, and a power loss may leave it under the number it was set aside with, which a restart does not read when a snapshot has that number. |
| `JournalDirFails`, `MCJournal` | `PowerLossKeepsSecured` | `sync_dir` (`journal.rs:517`) drops the error of the directory's sync: what goes to the fresh journal from then on counts on a name that may not be on disk. |
| `InboxRenamedKeys`, `MCInbox` | `KeysFindMessages` | After a rename two messages may share a key, and the older is not found by it; dropping it takes the key from the newer. A send repeated under that key then makes a second message, though `docs/guides/forum.md:45` says that the same key returns the original one. |
| `KeyspaceClaims`, `MCKeyspace` | `GrowersAreRefused` | `XCLAIM` and `XAUTOCLAIM` make consumers and pending entries, and are never refused with `OOM`, though `docs/reference/configuration.md` says of `POSTINO_MAX_MEMORY` that writes that add data are. |
| `KeyspaceClockBack`, `MCKeyspace` | `RebuiltExactly` | A key that expired and was removed is alive again after a restart when the clock was set back in between, though `docs/getting-started/concepts.md` says that replay rebuilds exactly the same state. |
| `KeyspaceRenamedDeadline`, `MCKeyspace` | `ExpiringAreListed` | `RENAME` gives the new key's deadline before it holds the key (`commands.rs:2156`); when that overgrows the list, `db.rs:813` rebuilds it without, and the key is not removed when it expires, though `docs/getting-started/concepts.md:18` says that expired keys are removed shortly after. It stays, as if it were not there, and counts until a command touches it or a restart finds it in a snapshot. |
| `BroadcastsHalfRename`, `MCBroadcasts` | `PastStaysPrivate` | A rename forgets the agent that had the new name in one commit and renames in another; when the second is refused, that name is free, and its events are not handed over. |

Four more have neither. An entry of a board that is removed and set again is at
version 1 once more, so a write that expects the version read before the removal
is accepted, though `docs/guides/forum.md` says it fails:
`StaleWritesFailButAfterRemoval` leaves that out. `update_room` opens a closed
room again without looking at its creator's share, so an agent may have more
rooms open than the quarter `docs/guides/forum.md` allows it to keep;
`WithinShares` is about questions only. With `everysec`, a restart takes the
journal it finds as synced, so lines from just before a crash are not synced
until something else is written. And replay does not check that lines follow on
one another: when the journal set aside loses its end before a tick has synced
it, later changes are restored without those.

## Fairness

| Module | Assumed | Why |
| --- | --- | --- |
| `JournalTail` | a thread goes on with a request it began; the tick comes round; a sync ends or stops holding writes up | each step that waits for a lock is enabled when it is released, and each is released by a step of its holder; `serve.rs` calls the tick once a second; `POSTPONE_LIMIT` |
| `Inbox` | time passes, and the tick's sweep comes round | the same tick. The condition is `WF_vars(sweep)` with what enables a sweep that changes something written out (`SweepDue`), which TLC evaluates far faster |
| `Waiters` | a request that can take the lock goes on; slices end | threads are scheduled, and `wait_timeout` returns; nothing is assumed of wakeups or of changes |
| `EventLoop` | rounds, arrivals and threads go on; clients send their requests and take their replies, unless they are slow or leave | the loop never blocks but in the poller; what is assumed of clients is the condition of the property |
| `Events` | a client connects again, its thread writes what there is and ends a stream that is over | the property is about clients that keep reading |
| `Reach` | a subscription's thread goes on taking what there is | it waits for the queue only |

Nothing is assumed of requests, failures, crashes, or of anything that makes
room or ends a wait by luck.

## Proofs

`FilesProofs` proves of `Capture`, for any number of sections, any keys and any
values:

- `CaptureInvariant`: `Spec => []CaptureInv`. `WrittenOnce` is not inductive by
  itself: a step writes what it reaches, so one needs that what a capture has
  neither passed nor written early is not in `image` yet (`Unreached`), and that
  nothing of one capture is left when the next begins (`Idle`).
- `CaptureWritesOnce` and `CaptureEndsInOrder`, the properties the run checks.
- `CaptureIsAtomic`: every behaviour of `Capture` is one of `AtomicSnapshot`
  under the mapping above. A change maps to a change that leaves the snapshot
  alone, which is what `preserve` is for (`PreserveKeeps`, `StepKeeps`); the end
  of the last section's capture maps to publishing (`RunKeeps`).

They assume a number of sections of at least one, keys that are numbers, a last
key in every set of keys that is not empty (maps are finite), and that no value
is `NoValue`.

And of `JournalTail`, for any loops, other threads and policies and any number of
requests, syncs and failing writes (its specification is `TailSpec`, so that one
module can extend both):

- `TailInvariant`: `Spec => []TailInv`. Its heart is `Chain`: lines follow on one
  another from the file through those the disk refused, those in the hands of the
  tail's holder and of the core's, to those pending, up to `seq`; so no step can
  lose one or pass one by. `Locks` and `Hands` say where a thread holds a lock and
  may have lines in hand, which shows that the two rows in hand are the only ones.
- `TailHolds`: `JournalHolds`, in order, nothing lost, what waits is flagged. The
  flag is lowered only where nothing waits (`Flagged`).
- `RepliesAfterWrites`: `ReplyAfterWrite`. With the flag down the tail has every
  change a reply may vouch for, and so it has for a thread that saw the flag
  down, whatever comes after (`Vouched`). This is why a loop may reply without the
  broker's lock once the tail's is free.

They assume that loops, other threads and the ticker are different and that no
thread is `NoThread`. Where a write is torn the invariant says nothing of what
comes after: the code writes no line then.

`ListenersProofs` proves of `Waiters`, for any requests, topics and bounds:

- `WaitersSafe`: types, registrations and `NoMissedWakeup`. A change reaches every
  sleeper it is for because each is registered under every topic it waits for
  exactly while it sleeps or is about to look again (`Registered`).
- `WaitersGiveUp`: `GivesUpEmptyHanded`: a request that ends does so in the attempt
  that found nothing, and one whose client left attempts nothing.

They assume only that the bounds are numbers.

Of `Globs`, and of `Reach`, for any texts, any scopes, connections and limits, and words
of any width:

- `MatchesMeans`: `matches` finds what a pattern means, for every pattern and text. The
  bits live after some characters are the places up to which the atoms can share
  those characters, and those a star lets one go on to (`LiveAt`); `AdvanceIs`
  follows one character across the words. Reading leaves no two stars in a row,
  without which closing once would not be enough (`NoTwoStars`). The cheap ways
  compare what lies between the stars at the ends (`Sharing`).
- `SubscriptionsAlwaysHold`: `Spec => []SubscriptionsHold`. `Fine` says of each
  connection's end that its queue is a start of what it is owed and its count at
  least what waits, both exactly so while it is subscribed. A subscription takes all
  that it is handed or is dropped (`Took`); and `hears_keys` passes over none that a
  key's change concerns, since their channels all start alike.
- `ListsWhatStaysAlways`: `Spec => []ListsWhatStays`. What was found is in order and not
  past where the walk came, and each key that was there throughout was found or lies
  ahead (`Walked`). It rests on this, that a scope's prefixes are apart and each key it
  reads starts with one (`Separate`, `Covers`), so the runs of keys follow on one
  another in order, and a walk that goes on after a key misses none of them.

They assume what `Reach` and `Globs` assume of their constants: texts are sequences of
numbers, a behaviour has finitely many keys and patterns, limits are numbers, and a word
has a bit. Nothing is assumed of the lengths of runs, so they hold of a run of no keys
too. `DroppedLearns` is liveness and stays with TLC.

`BroadcastsProofs` proves of `Broadcasts` and of `Events`, which it drives, for any
agents, clients, keys and limits:

- `BroadcastsHold`: `Spec => []BroadcastsInv`. It is an invariant of *worlds*, the
  broadcasts and the events a request has made so far, because a request is a row
  of commits and may end after any of them: each commit and each event keeps it
  (`StoreInv`, `EventsInv`), whatever came before. `RingRuns` says that the
  history is a run of ids, `InTurn` that what a client has yet to get comes in
  their order, `OwedRight` that what it is owed is something it sees and came
  after what it got. `Covered` is the heart: each event owed is in what the
  client's stream starts with, in its buffer, before a gap it will be told of,
  or later than everything in a stream that is over. `CursorRight` compares an
  agent's cursor with the broadcasts it really passed, and `KeysRight` each key
  with the broadcast it was sent with.
- `CursorsCount`: `CursorsCountRight`, what an agent counts as unseen is what was
  sent since it read last.
- `NothingIsPassedOver`: `NoSilentGap`. It is `Covered` and `InTurn` together.
- `FloodIsItsOwn`: `FloodPushesOutItself`. Trimming takes from one who holds most
  as long as anyone holds more than a share. The removals of a trim are a
  function of how many were made, so what holds of them is proved by induction
  on that number.
- `PastIsPrivate`: `PastStaysPrivate`, where no rename stops between its two
  commits. Where one does the property fails, which `BroadcastsHalfRename`
  shows. It needs one thing more than `BroadcastsInv`: what a client must not
  see came before its name changed hands, or before the history (`PastNoted`).

They assume what `Broadcasts` and `Events` assume of their constants. `CatchesUp`
is liveness and stays with TLC.

`EventLoopProofs` proves, for any connections, any clients with any scripts and
any sizes of the buffers and limits:

- `LoopHolds`: `Spec => []LoopInv`. For each connection it says how many of its
  requests are answered and where in the next it stands (`Within`): between
  requests, in a head or a body, waiting with it, or past what it will answer.
  From this and the script follows what its replies are (`InOrder`), where they
  are in pieces, and what the loop still has to do for it: to reply, to answer
  again (`Rests`), or to be watched for what it waits on (`Settled`). None of the
  three properties below is inductive: that no connection is forgotten needs that
  `answer` stops only for want of input, room or a wait, and that replies come in
  order on a thread needs where the loop left off.
- `AnswerHolds`, on which it rests: the turns of `answer` go on until one stops,
  within the three for each request left and one more that the model allows
  (`Far`), and each keeps the connection in order. It is an induction on the
  number of turns.
- `RepliesKeepOrder`: `RepliesInOrder`. `RepliesWaitForJournal`:
  `SavedBeforeReply`: a change that is not in the journal, and that no flush found
  it held up for (`Pending`), is of a connection that is to reply later in this
  round, or that closed with its reply unsent (`Waits`).
  `LoopKeepsConnections`: `ConnectionsKept`. `LoopTypes`: `TypeOK`.

They assume what `EventLoop` assumes of its constants: positive sizes, two pieces
at least to a read, as many connections as one likes but finitely many.
`EveryRequestAnswered` is liveness and stays with TLC.

`JournalProofs` proves, for any policy, any number of changes, rewrites, crashes,
power losses, failed syncs and snapshots that are given up, the four properties
the `journal` run checks:

- `AlwaysMadeGood` and `AFailedSyncIsMadeGood`: `FailedSyncIsMadeGoodIfWritten`. A
  failed sync puts at risk the files it was to sync, wherever they are by then:
  current, set aside, or waiting for the next tick (`AtRisk`). Each that is set
  aside has a number that the snapshot on its way covers, and the file a snapshot
  starts is sound unless another is due (`MadeGood`).
- `AlwaysHistory`: `Spec => []History`, of every directory a power loss may leave
  and not of the last alone. In each, lines rise in both their numbers from file
  to file in the order a restart reads them, and above what the snapshot has
  (`Holds`); while there was no power loss or the policy is `always`, a journal
  set aside ends with the number it is under (`Numbered`). What they hold is the
  store for the last directory and those with the same current journal, and a
  moment of it before for the others (`Agrees`). In the middle of a rewrite it
  says what the snapshot and the journal that follows have between them
  (`OnItsWay`), without which landing the snapshot keeps none of this.
- `ARestartFindsAll`: `RestartFindsAll`, and `APowerLossRestoresHistory`:
  `PowerLossRestoresHistory`. A row of different numbers that rises is known by
  what is in it (`RisingSame`), and one that holds every smaller number of
  another is a prefix of it (`RisingPrefix`); so what is replayed is compared
  with the store as a set. That `Lines` is a row at all, with each line in its
  place, is `LinesAre`: files and places are ranked by how many come before.
- `APowerLossKeepsSecured`: `PowerLossKeepsSecuredButForTick`. `Guarded` follows a
  change from memory, where it is on the disk or in a file that `dirty`,
  `retired` or the tick's sync still has, to `covering`, where it is or is in a
  file the sync has yet to reach, to `secured`, where it is; under every
  directory where the name of its file is not waiting for a sync.

They assume what `Journal` assumes of its constant, and `NamesAlwaysLast`: no
sync of the directory fails, and no rename is taken back. Servers where either
happens are with TLC, which finds `RestartFindsAll` and
`PowerLossRestoresHistory` to hold of them too; the proof numbers the journals
of every directory there was (`Numbered`), and one that has its name back breaks
that. The numbers are of no width: `NumbersMayClash` is as in the properties.

`InboxProofs` proves, for any agents, consumers, keys, limits and times, and any
number of messages and deliveries:

- `InboxInvariant`: `Spec => []InboxInv`. Its heart is `Sound`: a store is `Built`
  from its messages and the names of its agents, so an index holds what the
  messages say and nothing else. `TrackMoves` shows that `track` takes the
  indexes of some messages to those of one more, and back, counters included,
  though `Bump` stops at zero; hence each `apply_*` is what it does to the
  messages (`ChangeIs`, `DroppedIs`, `ForgetIs`, `RenameIs`, ..), and `retrack` gives
  what is there. Two more parts are not properties and are needed: a queued
  message's last lease has run out (`Requeued`), or leasing it would make two
  hold it; and each key finds its own message (`KeysKept`, where no agent is
  renamed), or dropping another message would lose it. What a key finds has that
  key (`KeysNamed`, renamed or not): a message goes with its key, and a rename
  lists the keys again.
- What a request does is said once, of every store in its row of commits, so that
  it holds wherever the journal stops it: `Settles` and `Follows` say which messages
  went, what became of those left and which agents stayed. Each loop of the
  code (`reclaim`, `expire`, `ack`, `ensure_agents`, ..) is a fold whose every
  step keeps that.
- `IndexesAlwaysMatch`: `IndexesMatch`. `AgentsAreHeld`: `AgentsHold`, and with it
  `KeysNameMessages`, through renames. Eviction makes
  room before the names come and never leaves more than `MaxAgents`, in any of
  the stores between (`EnsureIs`).
- `InboxIsHeld`: `InboxHolds`, where no agent is renamed. Where one is,
  `KeysFindMessages` fails, which `InboxRenamedKeys` shows, and a rename may bring
  together what two senders' shares allowed.
- `PendingIsKept`: `KeepsPending`. `NeitherLostNorDoubledHolds`:
  `NeitherLostNorDoubled`. `ActiveAgentsAreKept`: `ActiveAgentsStay`. A request's row
  discards what was handled before it, or what it settles itself: for its
  expiry, its last lease or its receipt, each at the time of the request.

They assume what `Inbox` assumes of its constants: limits of at least one (a
history of none is allowed), and that `None` is no key, consumer or lease.
`SweepCatchesUp` is liveness and stays with TLC.

`RoomsProofs` proves, for any agents, rooms, keys, boards, limits and times, any
number of posts, and any kinds of requests together:

- `RoomsInvariant`: `Spec => []RoomsInv`. It has two layers. `Sound` holds whatever is
  asked: types, limits, members that are known, and a room that knows its open
  questions. `Fair` holds as long as agents are who they were (`Apart`): the
  questions an agent has open are its own, an answer is told from another by its
  author, and each key is that of one post (`KeysRight`), which is what dropping
  posts and renaming need. It fails when
  the administrator merges two agents, who may have answered one question both,
  used one key both, or have more open together than one may; and when it is
  "operator" that is renamed, which no share limits.
- As in `InboxProofs`, what a request does is said of every store in its row of
  commits. `Grown(s0, K)` are the stores where only posts of the kinds in `K` came
  and what need not be kept went; `Ends(s0)` those that keep what `Kept` says, that
  questions stay, are settled once, and entries' versions rise. Trimming keeps
  `Grown` because it takes no post that `keeps` names (`DropGrown`); settling needs
  that the questions settled are open (`SettlesKept`), and resolving, that all it
  names have answered in the store before (`MayResolve`), which joining and
  trimming in the same request must not undo (`AnswerMade`). `Goes` is what each
  step comes to, one lemma for each request.
- `RoomsAreSound`: types, `OpenMatches` and `MembersKnown`, always.
  `RoomsAlwaysHold`: `[](Apart => RoomsHold)`. That open questions are awaited
  (`OpenIsAwaited`) is, moreover, where no commit is refused; the property says so.
- `StaleWritesFail`: `StaleWritesFailButAfterRemoval`. What a reader holds is the
  version of the entry, or an earlier one, or the entry was removed since (`Held`).
- `QuestionsAlwaysStay`: `OpenQuestionsStay`, and `QuestionsSettleOnce`: `SettledOnce`,
  merges included.

They assume what `Rooms` assumes of its constants: limits of at least one,
finitely many agents, no more of them at the start than there may be, and that
`None` is no key, value, number or ask. The run makes no merges: `RoomsHold` does not
hold of them, and that the rest does is proved.

`Facts` has the induction these need. A set of numbers that is not empty has a
least element, which the library's well-founded induction gives, so that
what holds of every number is proved of a *set* of numbers and not of a predicate
(`SetInduction`). A fold, over a row or a set, is some function of how much was
folded, or of what was, and its values are where each step leads (`FoldMakes`,
`FoldHolds`): so no fact takes an operator.

Everything else is only model-checked: the properties of `Keyspace` (`StateHolds`,
`TablesHold`, `KeysWithinLimit`, `IdsIncrease`), which would each need a proof for every
command of `Commands` and `Streams`; and every liveness property, which is out of the
prover's reach.

## Plan

What is worth adding next, the most important first.

1. `Delivery`, the abstract queue that `Inbox` refines, and liveness in `Rooms`: a
   question settles or expires.
2. `Serve`: starting one server among many, leaving when idle; heartbeats.
3. `Repair`: what `postino repair` keeps of a damaged journal.

## Not modelled

Parsing and formatting (HTTP, RESP, JSON, the command line), configuration, the
allocator, the pollers of each operating system, and the checksums' arithmetic:
they keep no state that the properties tell apart. The MCP server is a client of
the HTTP API. Starting a server and leaving when idle rest on the operating
system's lock of the data directory and on processes, of which the repository
says nothing but that it calls them. What is left out of a component that is
modelled is with its module above, and in `PROJECT.json`.
