----------------------------- MODULE EventLoop -----------------------------
(***************************************************************************)
(* One connection loop and its clients.  Each round the loop polls its     *)
(* connections, reads and answers on those that are ready, has the journal *)
(* written for what it answered, and only then lets the replies out.  A    *)
(* client may pipeline requests, send them in pieces, take replies slowly, *)
(* close its end, or go.  A request that has to wait leaves for a thread   *)
(* of its own, with its connection: what was answered before it goes out   *)
(* first, and what came after it is read there.                            *)
(*                                                                         *)
(* Bytes are counted in pieces: a request is one piece, or two where the   *)
(* end of its head or its body comes later; a reply is one piece, or more  *)
(* when it is large.  A piece of a reply is the number of its request.     *)
(***************************************************************************)
EXTENDS Integers, Sequences, FiniteSets, SequencesExt, FiniteSetsExt

CONSTANTS Conn,       \* connections, each accepted once
          Clients,    \* for each, what its client sends and how it behaves
          LargeReply, \* pieces of a large reply
          MaxOutput,  \* MAX_OUTPUT, and KEEP, in pieces
          ReadSize,   \* READ_SIZE, in pieces
          SocketRoom, \* pieces of replies the system takes for a client
          Room,       \* Limits::unsent
          MaxFailures \* times the loop itself may fail

Kinds == {"read",    \* answered at once
          "split",   \* so too, its head arriving in two pieces
          "write",   \* has a body, and changes the store
          "large",   \* a large reply
          "wait",    \* has to wait for something
          "stream",  \* is never answered: its connection streams events
          "last",    \* asks for the connection to be closed
          "refused", \* refused from its head: the body is read past
          "bad",     \* cannot be parsed
          "panic"}   \* the service panics over it

\* A prompt client takes its replies and stays; a slow one may let its
\* deadlines pass; a parting one may close its end once it sent everything
\* and go on reading; a fickle one may leave at any time.
Manner == {"prompt", "slow", "parting", "fickle"}

ASSUME LoopAssumption ==
    /\ {LargeReply, MaxOutput, SocketRoom} \subseteq Nat \ {0}
    /\ ReadSize \in Nat \ {0, 1}
    /\ {Room, MaxFailures} \subseteq Nat
    /\ Clients \subseteq [Conn -> [script : Seq(Kinds), manner : Manner]]
    /\ IsFiniteSet(Conn)

VARIABLES
    script, manner, \* of each client
    sent,           \* pieces it sent
    shut,           \* clients that closed their end, or left
    conn,           \* the server's side of each connection
    sock,           \* replies the system holds for each client
    taken,          \* replies each client has taken
    pc,             \* where the loop is in its round
    ready, again, answered,
    bell,           \* the bell rings
    unsent,         \* room large replies take in all connections
    connections,    \* Server.connections
    unsaved,        \* changes answered and not yet in the journal
    excused,        \* those of them that a flush found the journal held up for
    failures

clientVars == <<script, manner, sent, shut, taken>>
loopVars == <<pc, ready, again, answered>>
journalVars == <<unsaved, excused>>
vars == <<clientVars, loopVars, conn, sock, bell, unsent, connections, journalVars, failures>>
-----------------------------------------------------------------------------
(***************************************************************************)
(* Requests and replies.  A script s is what a client sends: the kinds of  *)
(* its requests, which are numbered in their order.                        *)
(***************************************************************************)
Split == {"split", "write", "refused"}
Pieces(k) == IF k \in Split THEN 2 ELSE 1

\* Pieces of the first n requests, and of the replies to them.
Upto(s, n) == n + Cardinality({i \in 1..n : s[i] \in Split})
Given(s, n) == n + (LargeReply - 1) * Cardinality({i \in 1..n : s[i] = "large"})

\* The request that starts after `eaten` pieces, or that they are part of.
RequestAt(s, eaten) == CHOOSE n \in 1..(Len(s) + 1) :
                     /\ Upto(s, n - 1) <= eaten
                     /\ n <= Len(s) => eaten < Upto(s, n)

Reply(s, n) == [i \in 1..(IF s[n] = "large" THEN LargeReply ELSE 1) |-> n]
Failure(n) == <<n>>
-----------------------------------------------------------------------------
(***************************************************************************)
(* A connection (Conn).                                                    *)
(***************************************************************************)
\* place: not yet accepted, among the arrivals, in the loop, on a thread of
\* its own, streaming, or closed.  held is what it counts in `unsent`, room
\* the capacity of its buffer of replies; got and eaten count the pieces
\* read and answered; moving is the request it waits with.
NewConn == [place |-> "out", got |-> 0, eaten |-> 0, phase |-> "idle", output |-> <<>>,
            ended |-> FALSE, closing |-> FALSE, full |-> FALSE, moving |-> 0,
            queued |-> FALSE, watch |-> {}, room |-> 0, held |-> 0]

Unread(n) == n.got - n.eaten
pending(n) == n.output # <<>>

wants_read_anew(n) ==      \* only once all it read is answered
    /\ ~n.ended
    /\ ~n.closing
    /\ n.moving = 0
    /\ ~pending(n)
    /\ Unread(n) = 0

wants_read(n) ==
    /\ ~n.ended
    /\ ~n.closing
    /\ n.moving = 0
    /\ ~pending(n)
    /\ Unread(n) < (IF n.phase = "body" THEN ReadSize + 1 ELSE ReadSize)

interest(n) == (IF wants_read(n) THEN {"read"} ELSE {}) \cup (IF pending(n) THEN {"write"} ELSE {})

\* Output is put after what waits: its buffer grows, and keeps its room.
Put(n, pieces) == LET out == n.output \o pieces
                  IN  [n EXCEPT !.output = out, !.room = Max({n.room, Len(out)})]

fail(n, i) == [Put(n, Failure(i)) EXCEPT !.closing = TRUE]

\* The request it is reading.
Current(s, n) == RequestAt(s, IF n.phase \in {"body", "refused"} THEN n.eaten - 1 ELSE n.eaten)

\* One turn of Conn::answer, on the connection and what came of the turns
\* before it: why it stopped, and the requests that made a change.
AnswerTurn(s, r) ==
    LET n == r.conn
        i == Current(s, n)
        k == s[i]
        stop(why) == [r EXCEPT !.stop = why]
        with(m) == [r EXCEPT !.conn = m]
        whole == [n EXCEPT !.eaten = @ + Pieces(k) - 1, !.phase = "idle"]
    IN  IF r.stop # "turn" THEN r
        ELSE IF n.closing THEN stop("closing")
        ELSE IF n.moving # 0 THEN stop("input")
        ELSE IF Len(n.output) >= MaxOutput THEN stop("output")
        ELSE
        CASE n.phase = "idle" ->
               IF Unread(n) = 0 THEN stop("input") ELSE with([n EXCEPT !.phase = "head"])
          [] n.phase = "head" ->
               IF k = "split" /\ Unread(n) < 2 THEN stop("input")
               ELSE IF k = "bad" THEN with(fail(n, i))
               ELSE with([n EXCEPT !.eaten = @ + 1,
                                   !.phase = IF k = "refused" THEN "refused" ELSE "body"])
          [] n.phase = "refused" ->
               IF Unread(n) = 0 THEN stop("input") ELSE with(fail(whole, i))
          [] n.phase = "body" ->
               IF Unread(n) < Pieces(k) - 1 THEN stop("input")
               ELSE IF k \in {"wait", "stream"}
               THEN [with([whole EXCEPT !.moving = i]) EXCEPT !.stop = "handoff"]
               ELSE IF k = "panic" THEN with(fail(whole, i))
               ELSE [with([Put(whole, Reply(s, i)) EXCEPT !.closing = (k = "last")])
                     EXCEPT !.made = IF k = "write" THEN @ \cup {i} ELSE @]

\* Conn::answer: the requests that have arrived whole, in order, until one
\* needs more, replies pile up, one has to wait, or the connection is to
\* close.  A request takes three turns at most, and stopping takes one.
answer(s, n) ==
    LET Turns == 3 * Len(s) + 2
        after[t \in 0..Turns] == IF t = 0 THEN {[conn |-> n, stop |-> "turn", made |-> {}]}
                                 ELSE {AnswerTurn(s, r) : r \in after[t - 1]}
    IN  CHOOSE r \in after[Turns] : TRUE

\* Conn::read: what has arrived, ReadSize at most at a time, while there may
\* be more and it is wanted; then the end, if the client closed its own.  A
\* third read is never wanted: none of what two filled is answered yet.
Chunk(c, n) ==
    LET arrived == Min({sent[c] - n.got, ReadSize})
    IN  IF arrived = 0 THEN [n EXCEPT !.ended = (c \in shut)] ELSE [n EXCEPT !.got = @ + arrived]

read(c, n) ==
    LET m == Chunk(c, n)
    IN  IF m.got = n.got + ReadSize /\ wants_read(m) THEN Chunk(c, m) ELSE m

\* Conn::count: its room counts once larger than every connection keeps.
Held(n) == IF n.room > MaxOutput THEN n.room ELSE 0

\* What leaves the loop, by closing or being handed off, gives its room back.
Gone(n, place) == [NewConn EXCEPT !.place = place, !.got = n.got, !.eaten = n.eaten]

InLoop(c) == conn[c].place = "loop"
Slow(c) == manner[c] = "slow"
\* A client that left: reads and writes on its socket fail.
Left(c) == c \in shut /\ manner[c] = "fickle"

Goto(next) == pc' = next

\* The connection is as n from now on, and counts what it holds.
Keeps(c, n) ==
    /\ conn' = [conn EXCEPT ![c] = [n EXCEPT !.held = Held(n)]]
    /\ unsent' = unsent - conn[c].held + Held(n)
    /\ UNCHANGED connections

\* Loop::settle with Step::Close: dropped, it counts no more.
Close(c) ==
    /\ conn' = [conn EXCEPT ![c] = Gone(conn[c], "closed")]
    /\ unsent' = unsent - conn[c].held
    /\ connections' = connections - 1

\* Loop::settle with Step::HandOff: the thread gets what was not written and
\* what was not read.
HandOff(c, n) ==
    /\ conn' = [conn EXCEPT ![c] = [Gone(n, "thread") EXCEPT !.output = n.output, !.moving = n.moving]]
    /\ unsent' = unsent - conn[c].held
    /\ UNCHANGED connections
-----------------------------------------------------------------------------
(***************************************************************************)
(* The loop's round.                                                       *)
(***************************************************************************)
\* What the poller reports of a connection it watches.  One whose client
\* left is reported whatever it is watched for, if it is.
Readable(c) == "read" \in conn[c].watch /\ (sent[c] > conn[c].got \/ c \in shut)
Writable(c) == "write" \in conn[c].watch /\ Len(sock[c]) < SocketRoom
Reported(c) == InLoop(c) /\ (Readable(c) \/ Writable(c) \/ (conn[c].watch # {} /\ Left(c)))

Late(c) == InLoop(c) /\ Slow(c)

\* Loop::wait: without a timeout while some are to answer again.  A round
\* that would find nothing to do is left out.
Poll ==
    /\ pc = "poll"
    /\ \E c \in Conn : Reported(c) \/ c \in again \/ Late(c) \/ bell
    /\ ready' = {c \in Conn : Reported(c)}
    /\ Goto("receive")
    /\ UNCHANGED <<clientVars, again, answered, conn, sock, bell, unsent, connections, journalVars, failures>>

\* Those that stopped because replies filled up go first, then the ready.
Turn(c) == IF again # {} THEN c \in again ELSE c \in ready

\* Broker::flush_journal: writes all that waits, or leaves it in memory while
\* a sync in the background holds writes up, or the disk refuses them, which
\* JournalTail says when.
JournalWritten == unsaved' = {} /\ excused' = {}
FlushJournal == \/ JournalWritten
                \/ UNCHANGED unsaved /\ excused' = unsaved

Receive_hurried(c) ==      \* hands off past what waits to be written
    LET readable == again = {} /\ (Readable(c) \/ Left(c))
    IN  /\ pc = "receive"
        /\ Turn(c)
        /\ IF again # {} THEN again' = again \ {c} /\ UNCHANGED ready
                         ELSE ready' = ready \ {c} /\ UNCHANGED again
        /\ InLoop(c)
        /\ \E n \in {IF readable /\ wants_read(conn[c]) THEN read(c, conn[c]) ELSE conn[c]} :
           \E a \in {answer(script[c], n)} :
              IF a.stop = "handoff"
              THEN /\ HandOff(c, [a.conn EXCEPT !.output = <<>>])
                   /\ FlushJournal
                   /\ UNCHANGED answered
              ELSE /\ Keeps(c, [a.conn EXCEPT !.full = @ \/ a.stop = "output", !.queued = TRUE])
                   /\ answered' = answered \cup {c}
                   /\ unsaved' = unsaved \cup {<<c, i>> : i \in a.made}
                   /\ UNCHANGED excused
        /\ UNCHANGED <<clientVars, pc, sock, bell, failures>>

\* Loop::receive.  One that must hand off with nothing left to write goes at
\* once, and the journal is written for what was answered so far first.
Receive(c) ==
    LET readable == again = {} /\ (Readable(c) \/ Left(c))
        fails == readable /\ wants_read(conn[c]) /\ Left(c)
    IN  /\ pc = "receive"
        /\ Turn(c)
        /\ IF again # {} THEN again' = again \ {c} /\ UNCHANGED ready
                         ELSE ready' = ready \ {c} /\ UNCHANGED again
        /\ \/ /\ ~InLoop(c)
              /\ UNCHANGED <<conn, unsent, connections, answered, journalVars>>
           \/ /\ InLoop(c) /\ fails
              /\ Close(c)
              /\ UNCHANGED <<answered, journalVars>>
           \/ /\ InLoop(c) /\ ~fails
              /\ \E n \in {IF readable /\ wants_read(conn[c]) THEN read(c, conn[c]) ELSE conn[c]} :
                 \E a \in {answer(script[c], n)} :
                    IF a.stop = "handoff" /\ ~pending(a.conn)
                    THEN /\ HandOff(c, a.conn)
                         /\ FlushJournal
                         /\ UNCHANGED answered
                    ELSE /\ Keeps(c, [a.conn EXCEPT !.full = @ \/ a.stop = "output", !.queued = TRUE])
                         /\ answered' = answered \cup {c}
                         /\ unsaved' = unsaved \cup {<<c, i>> : i \in a.made}
                         /\ UNCHANGED excused
        /\ UNCHANGED <<clientVars, pc, sock, bell, failures>>

Flush_after ==      \* journals only what no reply waits for
    /\ pc = "receive"
    /\ again = {} /\ ready = {}
    /\ IF Cardinality(answered) > 1 THEN UNCHANGED journalVars ELSE FlushJournal
    /\ Goto("reply")
    /\ UNCHANGED <<clientVars, ready, again, answered, conn, sock, bell, unsent, connections, failures>>

\* Service::before_replies, when there are any: the replies go out whatever it
\* could write.
Flush ==
    /\ pc = "receive"
    /\ again = {} /\ ready = {}
    /\ IF answered = {} THEN UNCHANGED journalVars ELSE FlushJournal
    /\ Goto("reply")
    /\ UNCHANGED <<clientVars, ready, again, answered, conn, sock, bell, unsent, connections, failures>>

\* Conn::write: as much as the socket takes; once all is out the buffer
\* gives its extra room back.
Writes(c, n) == Min({Len(n.output), SocketRoom - Len(sock[c])})
Written(c, n) ==
    LET rest == SubSeq(n.output, Writes(c, n) + 1, Len(n.output))
    IN  [n EXCEPT !.output = rest, !.room = IF rest = <<>> THEN Min({@, MaxOutput}) ELSE @]
Sends(c, n) == sock' = [sock EXCEPT ![c] = @ \o SubSeq(n.output, 1, Writes(c, n))]

\* Conn::expire, past the deadline: a client that went silent or takes nothing
\* is dropped, one that still sends a request, too slowly, is told so first.
Expire(c, n) ==
    \/ Close(c) /\ UNCHANGED sock
    \/ /\ ~pending(n) /\ n.phase # "idle"
       /\ LET told == fail(n, Current(script[c], n))
             m == Written(c, told)
         IN  /\ Sends(c, told)
             /\ IF pending(m) THEN Keeps(c, [m EXCEPT !.watch = interest(m)]) ELSE Close(c)

\* Conn::reply, and what its step calls for.
ReplyTo(c) ==
    LET n == [conn[c] EXCEPT !.queued = FALSE]
        m == Written(c, n)
        kept == [m EXCEPT !.watch = interest(m)]
    IN  /\ pc = "reply"
        /\ c \in answered
        /\ answered' = answered \ {c}
        /\ \/ /\ ~InLoop(c)
              /\ UNCHANGED <<conn, sock, unsent, connections, again>>
           \/ /\ InLoop(c) /\ Left(c) /\ pending(n)
              /\ Close(c)
              /\ UNCHANGED <<sock, again>>
           \/ /\ InLoop(c) /\ ~(Left(c) /\ pending(n))
              /\ \/ /\ pending(m)
                    /\ Keeps(c, kept) /\ Sends(c, n) /\ UNCHANGED again
                 \/ /\ ~pending(m) /\ m.moving # 0
                    /\ HandOff(c, m) /\ Sends(c, n) /\ UNCHANGED again
                 \/ /\ ~pending(m) /\ m.moving = 0 /\ (m.closing \/ m.ended)
                    /\ Close(c) /\ Sends(c, n) /\ UNCHANGED again
                 \/ /\ ~pending(m) /\ m.moving = 0 /\ ~m.closing /\ ~m.ended /\ m.full
                    /\ Keeps(c, [kept EXCEPT !.full = FALSE])
                    /\ Sends(c, n)
                    /\ again' = again \cup {c}
                 \/ /\ ~pending(m) /\ m.moving = 0 /\ ~m.closing /\ ~m.ended /\ ~m.full
                    /\ Keeps(c, kept) /\ Sends(c, n) /\ UNCHANGED again
        /\ UNCHANGED <<clientVars, pc, ready, bell, journalVars, failures>>

Replied ==
    /\ pc = "reply" /\ answered = {}
    /\ Goto("sweep")
    /\ UNCHANGED <<clientVars, ready, again, answered, conn, sock, bell, unsent, connections, journalVars, failures>>

\* The sweep: a deadline passed for one connection, or for none; and one
\* that rests gives back the room of its empty buffers.
Sweep ==
    /\ pc = "sweep"
    /\ \/ \E c \in Conn : Late(c) /\ Expire(c, conn[c])
       \/ UNCHANGED <<conn, sock, unsent, connections>>
    /\ Goto("slow")
    /\ UNCHANGED <<clientVars, ready, again, answered, bell, journalVars, failures>>

\* Loop::close_slow_readers: while what is held does not fit, the slow ones
\* that hold large replies go.
CloseSlow ==
    /\ pc = "slow"
    /\ IF unsent > Room /\ \E c \in Conn : Late(c) /\ conn[c].held > 0
       THEN \/ \E c \in Conn : Late(c) /\ conn[c].held > 0 /\ Close(c) /\ UNCHANGED pc
            \/ Goto("drain") /\ UNCHANGED <<conn, unsent, connections>>
       ELSE Goto("drain") /\ UNCHANGED <<conn, unsent, connections>>
    /\ UNCHANGED <<clientVars, ready, again, answered, sock, bell, journalVars, failures>>

Welcomed == [c \in Conn |-> IF conn[c].place = "arrived"
                            THEN [conn[c] EXCEPT !.place = "loop", !.watch = interest(conn[c])]
                            ELSE conn[c]]

\* Loop::welcome: the bell is silenced first, and then the arrivals taken,
\* so that one that comes in between rings again.
Drain ==
    /\ pc = "drain"
    /\ bell' = FALSE
    /\ Goto(IF bell THEN "take" ELSE "poll")
    /\ UNCHANGED <<clientVars, ready, again, answered, conn, sock, unsent, connections, journalVars, failures>>

Take_one ==      \* leaves the others until the bell rings again
    /\ pc = "take"
    /\ \/ \E c \in Conn : /\ conn[c].place = "arrived"
                         /\ conn' = [conn EXCEPT ![c] = Welcomed[c]]
       \/ conn = Welcomed /\ UNCHANGED conn
    /\ Goto("poll")
    /\ UNCHANGED <<clientVars, ready, again, answered, sock, bell, unsent, connections, journalVars, failures>>

Take ==
    /\ pc = "take"
    /\ conn' = Welcomed
    /\ Goto("poll")
    /\ UNCHANGED <<clientVars, ready, again, answered, sock, bell, unsent, connections, journalVars, failures>>

\* What the loop runs outside the service's answers panics (writing the
\* journal, handing off): its connections close, and it starts again with
\* the bell alone to watch.
Fails ==
    /\ pc = "receive"
    /\ failures < MaxFailures
    /\ failures' = failures + 1
    /\ conn' = [c \in Conn |-> IF InLoop(c) THEN Gone(conn[c], "closed") ELSE conn[c]]
    /\ unsent' = 0
    /\ connections' = connections - Cardinality({c \in Conn : InLoop(c)})
    /\ ready' = {} /\ again' = {} /\ answered' = {}
    /\ Goto("poll")
    /\ UNCHANGED <<clientVars, sock, bell, journalVars>>
-----------------------------------------------------------------------------
(***************************************************************************)
(* The thread that accepts, and those that serve what left the loop.       *)
(***************************************************************************)
\* Loops::adopt, once a client that sends something connects.
Adopt(c) ==
    /\ script[c] # <<>>
    /\ conn[c].place = "out"
    /\ conn' = [conn EXCEPT ![c].place = "arrived"]
    /\ bell' = TRUE
    /\ connections' = connections + 1
    /\ UNCHANGED <<clientVars, loopVars, sock, unsent, journalVars, failures>>

OnThread(c) == conn[c].place = "thread"

\* The next request on a thread of its own has arrived whole.
Whole(c) ==
    /\ conn[c].eaten < sent[c]
    /\ sent[c] >= Upto(script[c], RequestAt(script[c], conn[c].eaten))

\* Whatever ends a thread drops the connection and counts it no more.
ThreadEnds(c) ==
    /\ conn' = [conn EXCEPT ![c] = Gone(conn[c], "closed")]
    /\ connections' = connections - 1

\* write_all: first what the loop left, then each reply.  It gives up past
\* its timeout, or when the client is gone.
ThreadWrites(c) ==
    /\ OnThread(c) /\ pending(conn[c])
    /\ \/ /\ ~Left(c)
          /\ Len(sock[c]) < SocketRoom
          /\ Sends(c, conn[c])
          /\ conn' = [conn EXCEPT ![c] = Written(c, conn[c])]
          /\ UNCHANGED connections
       \/ /\ Slow(c) \/ Left(c)
          /\ ThreadEnds(c)
          /\ UNCHANGED sock
    /\ UNCHANGED <<clientVars, loopVars, bell, unsent, journalVars, failures>>

\* The request that had to wait was answered, journalled there, or opens a
\* stream, which keeps the connection as long as the client listens.
ThreadAnswers(c) ==
    LET n == conn[c]
        i == n.moving
    IN  /\ OnThread(c) /\ ~pending(n) /\ i # 0
        /\ conn' = [conn EXCEPT ![c] = IF script[c][i] = "stream"
                                       THEN [Gone(n, "stream") EXCEPT !.moving = i]
                                       ELSE [Put(n, Reply(script[c], i)) EXCEPT !.moving = 0]]
        /\ UNCHANGED <<clientVars, loopVars, sock, bell, unsent, connections, journalVars, failures>>

\* read_request: the next request once it is whole, which is answered like
\* the first; one that fails is answered before the connection closes.
ThreadReads(c) ==
    LET n == conn[c]
        i == RequestAt(script[c], n.eaten)
        k == script[c][i]
        read_it == [n EXCEPT !.got = sent[c], !.eaten = Upto(script[c], i)]
    IN  /\ OnThread(c) /\ ~pending(n) /\ n.moving = 0 /\ ~n.closing
        /\ Whole(c)
        /\ IF k = "panic" THEN ThreadEnds(c)
           ELSE /\ conn' = [conn EXCEPT ![c] =
                       CASE k \in {"bad", "refused"} -> fail(read_it, i)
                         [] k \in {"wait", "stream"} -> [read_it EXCEPT !.moving = i]
                         [] OTHER -> [Put(read_it, Reply(script[c], i)) EXCEPT !.closing = (k = "last")]]
                /\ UNCHANGED connections
        /\ UNCHANGED <<clientVars, loopVars, sock, bell, unsent, journalVars, failures>>

\* A connection that is to close, whose client closed its end and has no
\* whole request left, or that went silent; a stream ends with its client.
ThreadCloses(c) ==
    LET n == conn[c]
    IN  /\ \/ /\ OnThread(c) /\ ~pending(n) /\ n.moving = 0
              /\ n.closing \/ ((c \in shut \/ Slow(c)) /\ ~Whole(c))
           \/ conn[c].place = "stream" /\ c \in shut
        /\ ThreadEnds(c)
        /\ UNCHANGED <<clientVars, loopVars, sock, bell, unsent, journalVars, failures>>

\* What waits is written by another thread before it replies, or by the tick,
\* as soon as the sync ended or the disk takes it (Broker::settle, tick).
WrittenElsewhere ==
    /\ unsaved # {}
    /\ JournalWritten
    /\ UNCHANGED <<clientVars, loopVars, conn, sock, bell, unsent, connections, failures>>
-----------------------------------------------------------------------------
(***************************************************************************)
(* Clients.                                                                *)
(***************************************************************************)
SentAll(c) == sent[c] = Upto(script[c], Len(script[c]))

Send(c) ==
    /\ c \notin shut /\ ~SentAll(c)
    /\ sent' = [sent EXCEPT ![c] = @ + 1]
    /\ UNCHANGED <<script, manner, shut, taken, loopVars, conn, sock, bell, unsent, connections,
                   journalVars, failures>>

Takes(c) ==
    /\ sock[c] # <<>> /\ ~Left(c)
    /\ taken' = [taken EXCEPT ![c] = @ \o sock[c]]
    /\ sock' = [sock EXCEPT ![c] = <<>>]
    /\ UNCHANGED <<script, manner, sent, shut, loopVars, conn, bell, unsent, connections,
                   journalVars, failures>>

ClosesEnd(c) ==
    /\ c \notin shut
    /\ \/ manner[c] = "parting" /\ SentAll(c)
       \/ manner[c] = "fickle"
    /\ shut' = shut \cup {c}
    /\ UNCHANGED <<script, manner, sent, taken, loopVars, conn, sock, bell, unsent, connections,
                   journalVars, failures>>
-----------------------------------------------------------------------------
Init ==
    /\ \E f \in Clients : /\ script = [c \in Conn |-> f[c].script]
                          /\ manner = [c \in Conn |-> f[c].manner]
    /\ sent = [c \in Conn |-> 0]
    /\ shut = {}
    /\ conn = [c \in Conn |-> NewConn]
    /\ sock = [c \in Conn |-> <<>>]
    /\ taken = [c \in Conn |-> <<>>]
    /\ pc = "poll"
    /\ ready = {} /\ again = {} /\ answered = {}
    /\ bell = FALSE
    /\ unsent = 0 /\ connections = 0
    /\ unsaved = {} /\ excused = {}
    /\ failures = 0

Round == Poll \/ (\E c \in Conn : Receive(c) \/ ReplyTo(c)) \/ Flush \/ Replied
         \/ Sweep \/ CloseSlow \/ Drain \/ Take

Thread(c) == ThreadWrites(c) \/ ThreadAnswers(c) \/ ThreadReads(c) \/ ThreadCloses(c)

Client(c) == Send(c) \/ Takes(c) \/ ClosesEnd(c)

Next == Round \/ Fails \/ WrittenElsewhere \/ \E c \in Conn : Adopt(c) \/ Thread(c) \/ Client(c)

\* The loop and the threads are scheduled, and a client that is not slow
\* sends its requests and takes its replies.
Fairness ==
    /\ WF_vars(Round)
    /\ \A c \in Conn : /\ WF_vars(Adopt(c))
                       /\ WF_vars(Thread(c))
                       /\ WF_vars(Send(c))
                       /\ WF_vars(Takes(c))

Spec == Init /\ [][Next]_vars /\ Fairness
-----------------------------------------------------------------------------
(***************************************************************************)
(* Properties.                                                             *)
(***************************************************************************)
TypeOK ==
    /\ script \in [Conn -> Seq(Kinds)] /\ manner \in [Conn -> Manner]
    /\ pc \in {"poll", "receive", "reply", "sweep", "slow", "drain", "take"}
    /\ ready \subseteq Conn /\ again \subseteq Conn /\ answered \subseteq Conn
    /\ \A c \in Conn : /\ conn[c].place \in {"out", "arrived", "loop", "thread", "stream", "closed"}
                       /\ conn[c].phase \in {"idle", "head", "body", "refused"}
                       /\ conn[c].got \in 0..sent[c] /\ conn[c].eaten \in 0..conn[c].got
                       /\ Len(sock[c]) <= SocketRoom
    /\ unsent \in Nat /\ connections \in 0..Cardinality(Conn)

\* The replies a client is to get, as far as its connection is kept: those
\* of its requests in the order it sent them, up to one that ends it.  What
\* panics on a thread of its own gets none.
Ends == {"bad", "refused", "panic", "last", "stream"}
Answered(s, n) ==
    /\ \A i \in 1..(n - 1) : s[i] \notin Ends
    /\ s[n] # "stream"
    /\ s[n] = "panic" => \A i \in 1..n : s[i] # "wait"
Most(s) == Max({0} \cup {n \in 1..Len(s) : Answered(s, n)})
Answers(s) == [k \in 1..Given(s, Most(s)) |->
                 CHOOSE n \in 1..Most(s) : Given(s, n - 1) < k /\ k <= Given(s, n)]

\* What a client has got, and what is on its way to it, is the start of the
\* replies to its requests in the order it sent them, each once and whole,
\* however they arrive in pieces, fill the buffers, and move from the loop to
\* a thread and back to the socket.
RepliesInOrder ==
    \A c \in Conn : IsPrefix(taken[c] \o sock[c] \o conn[c].output, Answers(script[c]))

\* No reply to a change leaves before the journal has the change, with the
\* replies of other connections or with a connection handed off either: but for
\* changes a flush came upon while a sync held writes up or the disk refused
\* them.  Those wait in memory, and nothing else does once there is a reply.
SavedBeforeReply ==
    \A m \in unsaved \ excused : \A i \in DOMAIN (taken[m[1]] \o sock[m[1]]) :
        (taken[m[1]] \o sock[m[1]])[i] # m[2]

\* What the connections hold, a piece at a time.
Weight == UNION {{c} \X (1..conn[c].held) : c \in Conn}

\* The counters the server limits itself by are right wherever a connection
\* went and however it ended: the room large replies take in the loop, and
\* the connections open.  And a client that sends without reading makes the
\* server hold no more for it than the limit and one reply beyond, and one
\* read more than a request.
Accounted ==
    /\ unsent = Cardinality(Weight)
    /\ \A c \in Conn : conn[c].held > 0 => InLoop(c)
    /\ connections = Cardinality({c \in Conn : conn[c].place \notin {"out", "closed"}})
    /\ \A c \in Conn : InLoop(c) => /\ Len(conn[c].output) < MaxOutput + LargeReply
                                   /\ Unread(conn[c]) <= 2 * ReadSize

\* Between two rounds the loop hears of every connection it has: each is
\* watched for what it waits on, or answers again at once.  None that waits
\* for its client sits unwatched, and none whose requests are all read sits
\* with one unanswered.
NeverDeaf ==
    pc = "poll" =>
        \A c \in Conn : InLoop(c) =>
            /\ conn[c].watch = interest(conn[c])
            /\ conn[c].watch # {} \/ c \in again
            /\ ~conn[c].queued
            /\ conn[c].moving # 0 \/ conn[c].full => pending(conn[c]) \/ c \in again

\* The loop keeps hold of its connections: of what they weigh and what they
\* wait for.
ConnectionsKept == Accounted /\ NeverDeaf

\* A client that reads its replies and keeps its end open gets them all,
\* unless the loop itself failed.  (One that closes its end may not: the
\* code takes a connection that `ended` as done once its replies are out,
\* though requests it had read may still wait for room.)
EveryRequestAnswered ==
    \A c \in Conn : manner[c] = "prompt" /\ script[c] # <<>> => <>(taken[c] = Answers(script[c]) \/ failures > 0)
=============================================================================
