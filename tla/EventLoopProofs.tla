--------------------------- MODULE EventLoopProofs ---------------------------
(***************************************************************************)
(* Proofs about the event loop: an inductive invariant of each connection, *)
(* wherever it is, and what follows of it for any clients, any scripts and *)
(* any sizes of the buffers.                                               *)
(***************************************************************************)
EXTENDS EventLoop, Facts, SequenceTheorems

ConnType == [place : {"out", "arrived", "loop", "thread", "stream", "closed"},
             got : Nat, eaten : Nat, phase : {"idle", "head", "body", "refused"},
             output : Seq(Nat), ended : BOOLEAN, closing : BOOLEAN, full : BOOLEAN,
             moving : Nat, queued : BOOLEAN, watch : SUBSET {"read", "write"},
             room : Nat, held : Nat]

--------------------------------------------------------------------------
(* The inductive invariant.                                                *)

\* The pieces q are of the replies to the first d requests of a script, in
\* their order, each whole before the next.
InOrder(s, q, d) ==
    /\ d \in 0..Len(s)
    /\ d > 0 => Answered(s, d)
    /\ Len(q) <= Given(s, d)
    /\ \A k \in 1..Len(q) : q[k] \in 1..d /\ Given(s, q[k] - 1) < k /\ k <= Given(s, q[k])

\* Where a connection stands that answered the first d requests: in the next,
\* waiting with it, or past what it will answer.
Within(s, n, d) ==
    \/ /\ n.moving = d + 1 /\ d < Len(s) /\ s[d + 1] \in {"wait", "stream"}
       /\ n.phase = "idle" /\ ~n.closing /\ n.eaten = Upto(s, d + 1)
    \/ n.moving = 0 /\ n.phase = "idle" /\ n.eaten = Upto(s, d)
    \/ /\ n.moving = 0 /\ n.phase = "head" /\ ~n.closing
       /\ d < Len(s) /\ n.eaten = Upto(s, d) /\ n.eaten < n.got
    \/ /\ n.moving = 0 /\ n.phase \in {"body", "refused"} /\ ~n.closing
       /\ d < Len(s) /\ n.eaten = Upto(s, d) + 1
       /\ n.phase = "refused" <=> s[d + 1] = "refused"
       /\ s[d + 1] # "bad"
    \/ n.moving = 0 /\ n.closing /\ n.phase # "idle"

\* Of a connection still served, on the loop or on a thread: b is what its
\* client took and what the system holds for it.
Serves(s, n, b, d) ==
    /\ n \in ConnType
    /\ n.eaten <= n.got /\ n.got <= Upto(s, Len(s))
    /\ ~n.closing => \A i \in 1..d : s[i] \notin Ends
    /\ Within(s, n, d)
    /\ InOrder(s, b \o n.output, d)
    /\ Len(b \o n.output) = Given(s, d)

\* On the loop: nothing before has waited, and the buffers have bounds.
Loops(s, n, b, d) ==
    /\ Serves(s, n, b, d)
    /\ \A i \in 1..d : s[i] \notin {"wait", "stream"}
    /\ Len(n.output) < MaxOutput + LargeReply
    /\ Unread(n) <= 2 * ReadSize
    /\ n.phase # "idle" /\ ~n.closing => Len(n.output) < MaxOutput

\* Between its answers: it stopped for more input, unless it is to close, or
\* handed off, or its replies filled up (and then it answers again).
Rests(s, n, d, more) ==
    /\ n.phase # "idle" /\ ~n.closing => s[d + 1] \in Split
    /\ more \/ n.closing \/ n.moving # 0 \/ n.full \/ Unread(n) < 2

\* It is watched for what it waits on.
Settled(n, more) ==
    /\ n.watch = interest(n)
    /\ ~n.queued
    /\ n.watch # {} \/ more
    /\ n.moving # 0 \/ n.full => pending(n) \/ more
    /\ n.closing => pending(n)

\* A connection n, and whether it is among those to answer again and to reply.
Holds(s, n, b, more, replies) ==
    /\ n \in ConnType
    /\ n.eaten <= n.got
    /\ n.held > 0 => n.place = "loop"
    /\ n.place \in {"out", "arrived"} => n = [NewConn EXCEPT !.place = n.place] /\ b = <<>>
    /\ n.place = "loop" =>
           /\ \E d \in Nat : Loops(s, n, b, d) /\ Rests(s, n, d, more)
           /\ replies \/ Settled(n, more)
    /\ n.place = "thread" =>
           \E d \in Nat :
              /\ Serves(s, n, b, d)
              /\ n.phase = "idle"
              /\ n.moving # 0 \/ \E i \in 1..d : s[i] = "wait"
    /\ n.place \in {"stream", "closed"} =>
           /\ n.output = <<>>
           /\ \E d \in Nat : InOrder(s, b, d)

Out(c) == taken[c] \o sock[c]

\* Changes answered that the journal lacks, but for those a flush found it
\* held up for.
Pending == unsaved \ excused

Types ==
    /\ script \in [Conn -> Seq(Kinds)] /\ manner \in [Conn -> Manner]
    /\ pc \in {"poll", "receive", "reply", "sweep", "slow", "drain", "take"}
    /\ ready \subseteq Conn /\ again \subseteq Conn /\ answered \subseteq Conn /\ shut \subseteq Conn
    /\ sent \in [Conn -> Nat]
    /\ conn \in [Conn -> ConnType]
    /\ sock \in [Conn -> Seq(Nat)] /\ taken \in [Conn -> Seq(Nat)]
    /\ \A c \in Conn : Len(sock[c]) <= SocketRoom
    /\ bell \in BOOLEAN
    /\ Pending \subseteq Conn \X Nat
    /\ failures \in Nat

\* What was read was sent, and what was sent is of the script.
Reaches(c) == conn[c].got <= sent[c] /\ sent[c] <= Upto(script[c], Len(script[c]))

Fine(c) == Holds(script[c], conn[c], Out(c), c \in again, c \in answered) /\ Reaches(c)

\* What is answered and not yet in the journal: its connection closed, or it
\* is among those that wait for the journal to reply.
Waits(m) ==
    /\ conn[m[1]].place = "closed" \/ (pc = "receive" /\ m[1] \in answered /\ InLoop(m[1]))
    /\ \A k \in DOMAIN Out(m[1]) : Out(m[1])[k] # m[2]

Open == {c \in Conn : conn[c].place \notin {"out", "closed"}}

Counts == unsent = Cardinality(Weight) /\ connections = Cardinality(Open)

LoopInv ==
    /\ Types
    /\ answered # {} => pc \in {"receive", "reply"}
    /\ \A c \in Conn : Fine(c)
    /\ \A m \in Pending : Waits(m)
    /\ Counts


--------------------------------------------------------------------------
(* Scripts: the pieces of requests and replies.                            *)

\* Those of some kinds among the first n requests, one more request at a time.
LEMMA Among ==
    ASSUME NEW s \in Seq(Kinds), NEW K
    PROVE  /\ \A n \in 0..Len(s) : Cardinality({i \in 1..n : s[i] \in K}) \in Nat
           /\ \A n \in 0..Len(s) : n < Len(s) =>
                 Cardinality({i \in 1..(n + 1) : s[i] \in K})
                     = Cardinality({i \in 1..n : s[i] \in K}) + (IF s[n + 1] \in K THEN 1 ELSE 0)
           /\ \A m, n \in 0..Len(s) : m <= n =>
                 Cardinality({i \in 1..m : s[i] \in K}) <= Cardinality({i \in 1..n : s[i] \in K})
           /\ Cardinality({i \in 1..0 : s[i] \in K}) = 0
<1> DEFINE P == {i \in 1..Len(s) : s[i] \in K}
<1>1. Len(s) \in Nat /\ IsFiniteSet(1..Len(s))
  BY FS_Interval
<1>2. P \in SUBSET Nat /\ IsFiniteSet(P)
  BY <1>1, FS_Subset
<1>3. ASSUME NEW n \in 0..Len(s)
      PROVE  {i \in 1..n : s[i] \in K} = {j \in P : j <= n}
  BY <1>1
<1>4. ASSUME NEW n \in 0..Len(s)
      PROVE  Cardinality({i \in 1..n : s[i] \in K}) = Rank(P, n) /\ Rank(P, n) \in Nat
  <2>1. Cardinality({i \in 1..n : s[i] \in K}) = Rank(P, n)
    BY <1>3 DEF Rank
  <2> HIDE DEF P
  <2> QED BY <1>1, <1>2, <2>1, RankStep
<1>5. ASSUME NEW n \in 0..Len(s), n < Len(s)
      PROVE  Rank(P, n + 1) = Rank(P, n) + (IF s[n + 1] \in K THEN 1 ELSE 0)
  <2>1. n + 1 \in P <=> s[n + 1] \in K
    BY <1>1, <1>5
  <2>3. n \in Nat
    BY <1>1
  <2> HIDE DEF P
  <2>2. Rank(P, n + 1) = Rank(P, n) + (IF n + 1 \in P THEN 1 ELSE 0)
    BY <1>2, <2>3, RankStep
  <2> QED BY <2>1, <2>2
<1>6. ASSUME NEW m \in 0..Len(s), NEW n \in 0..Len(s), m <= n
      PROVE  Cardinality({i \in 1..m : s[i] \in K}) <= Cardinality({i \in 1..n : s[i] \in K})
  <2>1. {i \in 1..m : s[i] \in K} \subseteq {i \in 1..n : s[i] \in K}
    BY <1>1, <1>6
  <2>2. IsFiniteSet({i \in 1..n : s[i] \in K})
    <3>1. {i \in 1..n : s[i] \in K} \subseteq P
      BY <1>1
    <3> QED BY <1>2, <3>1, FS_Subset
  <2> QED BY <2>1, <2>2, FS_Subset
<1>7. {i \in 1..0 : s[i] \in K} = {}
  OBVIOUS
<1>8. Cardinality({i \in 1..0 : s[i] \in K}) = 0
  BY <1>7, FS_EmptySet
<1>9. ASSUME NEW n \in 0..Len(s), n < Len(s)
      PROVE  Cardinality({i \in 1..(n + 1) : s[i] \in K})
                 = Cardinality({i \in 1..n : s[i] \in K}) + (IF s[n + 1] \in K THEN 1 ELSE 0)
  <2>1. n + 1 \in 0..Len(s)
    BY <1>1, <1>9
  <2>2. Cardinality({i \in 1..(n + 1) : s[i] \in K}) = Rank(P, n + 1)
    BY <1>4, <2>1
  <2>3. Cardinality({i \in 1..n : s[i] \in K}) = Rank(P, n)
    BY <1>4
  <2> QED BY <1>5, <1>9, <2>2, <2>3
<1>10. \A n \in 0..Len(s) : Cardinality({i \in 1..n : s[i] \in K}) \in Nat
  BY <1>4
<1> QED BY <1>6, <1>8, <1>9, <1>10

\* The pieces of a script's requests, one more request at a time.
LEMMA UptoIs ==
    ASSUME NEW s \in Seq(Kinds)
    PROVE  /\ Upto(s, 0) = 0
           /\ \A n \in 0..Len(s) : Upto(s, n) \in Nat
           /\ \A n \in 0..Len(s) : n < Len(s) => Upto(s, n + 1) = Upto(s, n) + Pieces(s[n + 1])
           /\ \A m, n \in 0..Len(s) : m < n => Upto(s, m) < Upto(s, n)
<1> DEFINE C(n) == Cardinality({i \in 1..n : s[i] \in Split})
<1>1. Len(s) \in Nat /\ \A n \in Nat : Upto(s, n) = n + C(n)
  BY DEF Upto
<1>2. /\ \A n \in 0..Len(s) : C(n) \in Nat
      /\ \A n \in 0..Len(s) : n < Len(s) => C(n + 1) = C(n) + (IF s[n + 1] \in Split THEN 1 ELSE 0)
      /\ \A m, n \in 0..Len(s) : m <= n => C(m) <= C(n)
      /\ C(0) = 0
  BY Among
<1> HIDE DEF C
<1>3. Upto(s, 0) = 0
  BY <1>1, <1>2
<1>4. ASSUME NEW n \in 0..Len(s)
      PROVE  Upto(s, n) \in Nat
  <2>1. n \in Nat /\ C(n) \in Nat
    BY <1>2
  <2> QED BY <1>1, <2>1
<1>5. ASSUME NEW n \in 0..Len(s), n < Len(s)
      PROVE  Upto(s, n + 1) = Upto(s, n) + Pieces(s[n + 1])
  <2>1. n \in Nat /\ n + 1 \in Nat /\ C(n) \in Nat
    BY <1>2
  <2>2. Upto(s, n) = n + C(n) /\ Upto(s, n + 1) = n + 1 + C(n + 1)
    BY <1>1, <2>1
  <2>3. C(n + 1) = C(n) + (IF s[n + 1] \in Split THEN 1 ELSE 0)
    BY <1>2, <1>5
  <2> QED BY <2>1, <2>2, <2>3 DEF Pieces
<1>6. \A m, n \in 0..Len(s) : m < n => Upto(s, m) < Upto(s, n)
  BY <1>1, <1>2
<1> QED BY <1>3, <1>4, <1>5, <1>6

\* The pieces of the replies, one more reply at a time.
LEMMA GivenIs ==
    ASSUME NEW s \in Seq(Kinds)
    PROVE  /\ Given(s, 0) = 0
           /\ \A n \in 0..Len(s) : Given(s, n) \in Nat
           /\ \A n \in 0..Len(s) : n < Len(s) =>
                 Given(s, n + 1) = Given(s, n) + (IF s[n + 1] = "large" THEN LargeReply ELSE 1)
           /\ \A m, n \in 0..Len(s) : m < n => Given(s, m) < Given(s, n)
<1> DEFINE C(n) == Cardinality({i \in 1..n : s[i] = "large"})
<1> DEFINE L == LargeReply - 1
<1>1. Len(s) \in Nat /\ \A n : Given(s, n) = n + L * C(n)
  BY DEF Given
<1>2. L \in Nat /\ LargeReply = L + 1
  BY LoopAssumption
<1>3. /\ \A n \in 0..Len(s) : C(n) \in Nat
      /\ \A n \in 0..Len(s) : n < Len(s) => C(n + 1) = C(n) + (IF s[n + 1] = "large" THEN 1 ELSE 0)
      /\ \A m, n \in 0..Len(s) : m <= n => C(m) <= C(n)
      /\ C(0) = 0
  <2>1. \A n : C(n) = Cardinality({i \in 1..n : s[i] \in {"large"}})
    OBVIOUS
  <2>2. \A n : (s[n + 1] \in {"large"}) = (s[n + 1] = "large")
    OBVIOUS
  <2>3. /\ \A n \in 0..Len(s) : Cardinality({i \in 1..n : s[i] \in {"large"}}) \in Nat
        /\ \A n \in 0..Len(s) : n < Len(s) =>
              Cardinality({i \in 1..(n + 1) : s[i] \in {"large"}})
                  = Cardinality({i \in 1..n : s[i] \in {"large"}}) + (IF s[n + 1] \in {"large"} THEN 1 ELSE 0)
        /\ \A m, n \in 0..Len(s) : m <= n =>
              Cardinality({i \in 1..m : s[i] \in {"large"}}) <= Cardinality({i \in 1..n : s[i] \in {"large"}})
        /\ Cardinality({i \in 1..0 : s[i] \in {"large"}}) = 0
    BY Among
  <2> HIDE DEF C
  <2> QED BY <2>1, <2>2, <2>3
<1> HIDE DEF C, L
<1>4. Given(s, 0) = 0
  BY <1>1, <1>2, <1>3
<1>5. \A n \in 0..Len(s) : L * C(n) \in Nat
  BY <1>2, <1>3
<1>6. ASSUME NEW n \in 0..Len(s), n < Len(s)
      PROVE  Given(s, n + 1) = Given(s, n) + (IF s[n + 1] = "large" THEN LargeReply ELSE 1)
  <2>1. C(n) \in Nat /\ n \in Nat
    BY <1>3
  <2>2. CASE s[n + 1] = "large"
    <3>1. C(n + 1) = C(n) + 1
      BY <1>3, <1>6, <2>2
    <3>2. L * (C(n) + 1) = L * C(n) + L
      BY <1>2, <2>1
    <3>3. L * C(n) \in Nat
      BY <1>5
    <3> QED BY <1>1, <1>2, <2>1, <2>2, <3>1, <3>2, <3>3
  <2>3. CASE s[n + 1] # "large"
    <3>1. C(n + 1) = C(n)
      BY <1>3, <1>6, <2>1, <2>3
    <3>2. L * C(n) \in Nat
      BY <1>5
    <3> QED BY <1>1, <1>2, <2>1, <2>3, <3>1, <3>2
  <2> QED BY <2>2, <2>3
<1>7. ASSUME NEW m \in 0..Len(s), NEW n \in 0..Len(s), m < n
      PROVE  Given(s, m) < Given(s, n)
  <2>1. C(m) \in Nat /\ C(n) \in Nat /\ C(m) <= C(n)
    BY <1>3, <1>7
  <2>2. \A l, x, y \in Nat : x <= y => l * x <= l * y
    OBVIOUS
  <2>3. L * C(m) <= L * C(n)
    BY <1>2, <2>1, <2>2
  <2>4. L * C(m) \in Nat /\ L * C(n) \in Nat
    BY <1>5
  <2> QED BY <1>1, <1>7, <2>3, <2>4
<1>8. \A n \in 0..Len(s) : Given(s, n) \in Nat
  BY <1>1, <1>5
<1> QED BY <1>4, <1>6, <1>7, <1>8

\* The request a connection is in is the one whose pieces it has reached.
LEMMA RequestIs ==
    ASSUME NEW s \in Seq(Kinds), NEW e \in Nat, NEW i \in 1..(Len(s) + 1),
           Upto(s, i - 1) <= e, i <= Len(s) => e < Upto(s, i)
    PROVE  RequestAt(s, e) = i
<1> DEFINE At(n) == Upto(s, n - 1) <= e /\ (n <= Len(s) => e < Upto(s, n))
<1>1. Len(s) \in Nat /\ i - 1 \in 0..Len(s)
  OBVIOUS
<1>2. /\ \A n \in 0..Len(s) : Upto(s, n) \in Nat
      /\ \A m, n \in 0..Len(s) : m < n => Upto(s, m) < Upto(s, n)
  BY UptoIs
<1>3. ASSUME NEW n \in 1..(Len(s) + 1), At(n)
      PROVE  n = i
  <2>1. n - 1 \in 0..Len(s)
    BY <1>1
  <2>2. ~(n < i)
    <3>1. SUFFICES ASSUME n < i PROVE FALSE
      OBVIOUS
    <3>2. n \in 0..Len(s) /\ n <= Len(s)
      BY <1>1, <3>1
    <3>3. Upto(s, n) <= Upto(s, i - 1)
      <4>1. n = i - 1 \/ n < i - 1
        BY <3>1, <3>2
      <4>2. Upto(s, n) \in Nat /\ (n < i - 1 => Upto(s, n) < Upto(s, i - 1)) /\ Upto(s, i - 1) \in Nat
        BY <1>1, <1>2, <3>2
      <4> QED BY <4>1, <4>2
    <3> QED BY <1>1, <1>2, <1>3, <3>2, <3>3
  <2>3. ~(i < n)
    <3>1. SUFFICES ASSUME i < n PROVE FALSE
      OBVIOUS
    <3>2. i \in 0..Len(s) /\ i <= Len(s)
      BY <1>1, <3>1
    <3>3. Upto(s, i) <= Upto(s, n - 1)
      BY <1>2, <2>1, <3>1, <3>2
    <3> QED BY <1>2, <1>3, <2>1, <3>2, <3>3
  <2> QED BY <2>2, <2>3
<1>4. At(i)
  OBVIOUS
<1>5. RequestAt(s, e) = CHOOSE n \in 1..(Len(s) + 1) : At(n)
  BY DEF RequestAt
<1> HIDE DEF At
<1> QED BY <1>3, <1>4, <1>5

\* Nothing is answered at first.
LEMMA InOrderStart ==
    ASSUME NEW s \in Seq(Kinds)
    PROVE  InOrder(s, <<>>, 0) /\ Len(<<>>) = Given(s, 0)
<1>1. Len(<<>>) = 0 /\ Given(s, 0) = 0 /\ Len(s) \in Nat
  BY GivenIs
<1> QED BY <1>1 DEF InOrder

\* A reply to the next request goes after those before it.
LEMMA InOrderMore ==
    ASSUME NEW s \in Seq(Kinds), NEW q \in Seq(Nat), NEW d \in Nat, d < Len(s),
           InOrder(s, q, d), Len(q) = Given(s, d), Answered(s, d + 1)
    PROVE  /\ Reply(s, d + 1) \in Seq(Nat)
           /\ Len(Reply(s, d + 1)) = IF s[d + 1] = "large" THEN LargeReply ELSE 1
           /\ InOrder(s, q \o Reply(s, d + 1), d + 1)
           /\ Len(q \o Reply(s, d + 1)) = Given(s, d + 1)
<1> DEFINE z == IF s[d + 1] = "large" THEN LargeReply ELSE 1
<1> DEFINE r == Reply(s, d + 1)
<1>1. z \in Nat
  BY LoopAssumption
<1>2. r = [i \in 1..z |-> d + 1]
  BY DEF Reply
<1> HIDE DEF z
<1>3. r \in Seq(Nat) /\ Len(r) = z /\ \A i \in 1..z : r[i] = d + 1
  BY <1>1, <1>2
<1>4. /\ Given(s, d) \in Nat /\ Given(s, d + 1) \in Nat
      /\ Given(s, d + 1) = Given(s, d) + z
  BY GivenIs DEF z
<1> HIDE DEF r
<1>5. /\ q \o r \in Seq(Nat) /\ Len(q \o r) = Len(q) + z /\ Len(q) \in Nat
      /\ \A k \in 1..Len(q) : (q \o r)[k] = q[k]
      /\ \A k \in 1..(Len(q) + z) : k > Len(q) => (q \o r)[k] = r[k - Len(q)]
  BY <1>1, <1>3, SMTT(60)
<1>6. ASSUME NEW k \in 1..Len(q \o r)
      PROVE  /\ (q \o r)[k] \in 1..(d + 1)
             /\ Given(s, (q \o r)[k] - 1) < k
             /\ k <= Given(s, (q \o r)[k])
  <2>1. CASE k \in 1..Len(q)
    <3>1. (q \o r)[k] = q[k]
      BY <1>5, <2>1
    <3>2. q[k] \in 1..d /\ Given(s, q[k] - 1) < k /\ k <= Given(s, q[k])
      BY <2>1 DEF InOrder
    <3>3. q[k] \in 1..(d + 1)
      BY <3>2
    <3> QED BY <3>1, <3>2, <3>3
  <2>2. CASE k \notin 1..Len(q)
    <3>1. k \in Nat /\ k > Len(q) /\ k <= Len(q) + z /\ k - Len(q) \in 1..z
      BY <1>1, <1>5, <2>2
    <3>2. (q \o r)[k] = d + 1
      BY <1>1, <1>3, <1>5, <3>1
    <3>3. (d + 1) - 1 = d
      OBVIOUS
    <3> QED BY <1>4, <3>1, <3>2, <3>3
  <2> QED BY <2>1, <2>2
<1>7. Len(q \o r) = Given(s, d + 1)
  BY <1>4, <1>5
<1>8. d + 1 \in 0..Len(s)
  OBVIOUS
<1>9. InOrder(s, q \o r, d + 1)
  BY <1>4, <1>6, <1>7, <1>8 DEF InOrder
<1> QED BY <1>3, <1>7, <1>9 DEF r, z

\* A failure is as a reply to a request whose reply is not large.
LEMMA FailureIs ==
    ASSUME NEW s, NEW i, s[i] # "large"
    PROVE  Failure(i) = Reply(s, i)
  BY DEF Failure, Reply

\* What was written first is in order by itself.
LEMMA InOrderFront ==
    ASSUME NEW s \in Seq(Kinds), NEW q \in Seq(Nat), NEW r \in Seq(Nat), NEW d, InOrder(s, q \o r, d)
    PROVE  InOrder(s, q, d)
<1>1. /\ Len(q \o r) = Len(q) + Len(r) /\ Len(q) \in Nat /\ Len(r) \in Nat
      /\ \A k \in 1..Len(q) : (q \o r)[k] = q[k]
  OBVIOUS
<1>2. d \in 0..Len(s) /\ Len(q \o r) <= Given(s, d) /\ Given(s, d) \in Nat
  BY GivenIs DEF InOrder
<1>3. Len(q) <= Given(s, d)
  BY <1>1, <1>2
<1>4. \A k \in 1..Len(q) : k \in 1..Len(q \o r)
  BY <1>1
<1> QED BY <1>1, <1>3, <1>4 DEF InOrder

\* What is in order is the start of the replies the client is to get.
LEMMA InOrderIsPrefix ==
    ASSUME NEW s \in Seq(Kinds), NEW q \in Seq(Nat), NEW d, InOrder(s, q, d)
    PROVE  IsPrefix(q, Answers(s))
<1> DEFINE A == {n \in 1..Len(s) : Answered(s, n)}
<1> DEFINE m == Most(s)
<1>1. Len(s) \in Nat /\ d \in 0..Len(s) /\ (d > 0 => Answered(s, d)) /\ Len(q) \in Nat
  BY DEF InOrder
<1>2. m \in 0..Len(s) /\ d <= m
  <2>1. {0} \cup A \in SUBSET (0..Len(s)) /\ {0} \cup A # {}
    BY <1>1
  <2>2. d \in {0} \cup A
    BY <1>1
  <2>3. m = Max({0} \cup A)
    BY DEF Most
  <2> HIDE DEF A, m
  <2> QED BY <1>1, <2>1, <2>2, <2>3, GreatestOf
<1> HIDE DEF m
<1>3. /\ \A n \in 0..Len(s) : Given(s, n) \in Nat
      /\ \A i, n \in 0..Len(s) : i < n => Given(s, i) < Given(s, n)
  BY GivenIs
<1>4. Given(s, d) <= Given(s, m) /\ Given(s, m) \in Nat /\ Given(s, d) \in Nat
  BY <1>1, <1>2, <1>3
<1>5. Len(q) <= Given(s, m)
  BY <1>1, <1>4 DEF InOrder
<1>6. ASSUME NEW k \in 1..Len(q)
      PROVE  (CHOOSE n \in 1..m : Given(s, n - 1) < k /\ k <= Given(s, n)) = q[k]
  <2>1. q[k] \in 1..d /\ Given(s, q[k] - 1) < k /\ k <= Given(s, q[k])
    BY DEF InOrder
  <2>2. q[k] \in 1..m /\ q[k] \in 0..Len(s) /\ q[k] - 1 \in 0..Len(s)
    BY <1>1, <1>2, <2>1
  <2>3. ASSUME NEW n \in 1..m, Given(s, n - 1) < k, k <= Given(s, n)
        PROVE  n = q[k]
    <3>1. n \in 0..Len(s) /\ n - 1 \in 0..Len(s) /\ k \in Nat
      BY <1>2
    <3>2. ~(n < q[k])
      <4>1. SUFFICES ASSUME n < q[k] PROVE FALSE
        OBVIOUS
      <4>2. n = q[k] - 1 \/ n < q[k] - 1
        BY <2>2, <3>1, <4>1
      <4>3. Given(s, n) <= Given(s, q[k] - 1)
        BY <1>3, <2>2, <3>1, <4>2
      <4> QED BY <1>3, <2>1, <2>2, <2>3, <3>1, <4>3
    <3>3. ~(q[k] < n)
      <4>1. SUFFICES ASSUME q[k] < n PROVE FALSE
        OBVIOUS
      <4>2. q[k] = n - 1 \/ q[k] < n - 1
        BY <2>2, <3>1, <4>1
      <4>3. Given(s, q[k]) <= Given(s, n - 1)
        BY <1>3, <2>2, <3>1, <4>2
      <4>4. Given(s, q[k]) \in Nat /\ Given(s, n - 1) \in Nat
        BY <1>3, <2>2, <3>1
      <4>5. k <= Given(s, q[k]) /\ Given(s, n - 1) < k
        BY <2>1, <2>3
      <4> QED BY <3>1, <4>3, <4>4, <4>5
    <3> QED BY <2>2, <3>1, <3>2, <3>3
  <2> QED BY <2>1, <2>2, <2>3
<1>7. Answers(s) = [k \in 1..Given(s, m) |-> CHOOSE n \in 1..m : Given(s, n - 1) < k /\ k <= Given(s, n)]
  BY DEF Answers, m
<1>8. DOMAIN Answers(s) = 1..Given(s, m) /\ \A k \in 1..Len(q) : Answers(s)[k] = q[k]
  <2>1. DOMAIN Answers(s) = 1..Given(s, m)
    BY <1>7
  <2>2. ASSUME NEW k \in 1..Len(q)
        PROVE  Answers(s)[k] = q[k]
    <3>1. k \in 1..Given(s, m)
      BY <1>1, <1>4, <1>5
    <3>2. Answers(s)[k] = CHOOSE n \in 1..m : Given(s, n - 1) < k /\ k <= Given(s, n)
      BY <1>7, <3>1, Zenon
    <3> QED BY <1>6, <3>2
  <2> QED BY <2>1, <2>2
<1>9. Len(Answers(s)) = Given(s, m)
  BY <1>4, <1>8
<1>10. /\ SubSeq(q, 1, Len(q)) = [k \in 1..Len(q) |-> q[k]]
       /\ SubSeq(Answers(s), 1, Len(q)) = [k \in 1..Len(q) |-> Answers(s)[k]]
  <2>1. \A t : SubSeq(t, 1, Len(q)) = [k \in 1..Len(q) |-> t[k]]
    <3>1. \A k \in 1..Len(q) : k + 1 - 1 = k /\ Len(q) - 1 + 1 = Len(q)
      BY <1>1
    <3> QED BY <1>1, <3>1 DEF SubSeq
  <2> QED BY <2>1
<1> QED BY <1>5, <1>8, <1>9, <1>10 DEF IsPrefix

--------------------------------------------------------------------------
(* Answering, a turn at a time.                                            *)

Turns == [conn : ConnType, stop : {"turn", "closing", "input", "output", "handoff"}, made : SUBSET Nat]

\* What answering does not touch.
Kept(m, n) ==
    /\ m.place = n.place /\ m.got = n.got /\ m.ended = n.ended /\ m.full = n.full
    /\ m.queued = n.queued /\ m.watch = n.watch /\ m.held = n.held

\* How far it is: a request takes three turns.
Far(s, n, d) == IF n.closing \/ n.moving # 0 THEN 3 * Len(s) + 1
                ELSE 3 * d + (CASE n.phase = "idle" -> 0 [] n.phase = "head" -> 1 [] OTHER -> 2)

\* What came of t turns since the first e requests were answered, of which
\* the first d are now.
Went(s, b, e, n, r, t, d) ==
    /\ e <= d
    /\ Loops(s, r.conn, b, d)
    /\ \A i \in r.made : e < i /\ i <= d
    /\ r.stop # "turn" /\ r.conn.phase # "idle" /\ ~r.conn.closing => s[d + 1] \in Split
    /\ r.stop = "turn" => t <= Far(s, r.conn, d)

Goes(s, b, e, n, r, t) ==
    /\ r \in Turns
    /\ Kept(r.conn, n)
    /\ r.stop = "closing" => r.conn.closing
    /\ r.stop = "input" => r.conn.moving # 0 \/ Unread(r.conn) < 2
    /\ r.stop = "handoff" => r.conn.moving # 0
    /\ \E d \in Nat : Went(s, b, e, n, r, t, d)

\* Conn::answer puts output after what waits.
LEMMA PutIs ==
    ASSUME NEW n \in ConnType, NEW x \in Seq(Nat)
    PROVE  /\ Put(n, x) \in ConnType
           /\ Kept(Put(n, x), n)
           /\ Put(n, x).output = n.output \o x
           /\ Put(n, x).eaten = n.eaten /\ Put(n, x).phase = n.phase
           /\ Put(n, x).closing = n.closing /\ Put(n, x).moving = n.moving
<1> DEFINE out == n.output \o x
<1> DEFINE z == Max({n.room, Len(out)})
<1>1. n.output \in Seq(Nat) /\ n.room \in Nat
  BY DEF ConnType
<1>2. out \in Seq(Nat) /\ Len(out) \in Nat
  BY <1>1
<1> HIDE DEF out
<1>3. z \in Nat
  <2>1. {n.room, Len(out)} \in SUBSET (0..(n.room + Len(out))) /\ {n.room, Len(out)} # {}
    BY <1>1, <1>2
  <2>2. n.room + Len(out) \in Nat
    BY <1>1, <1>2
  <2>3. z \in {n.room, Len(out)}
    BY <2>1, <2>2, GreatestOf
  <2> QED BY <1>1, <1>2, <2>3
<1> HIDE DEF z
<1>4. Put(n, x) = [n EXCEPT !.output = out, !.room = z]
  BY DEF Put, out, z
<1>5. [n EXCEPT !.output = out, !.room = z] \in ConnType
  BY <1>2, <1>3 DEF ConnType
<1>6. Kept([n EXCEPT !.output = out, !.room = z], n)
  BY DEF Kept, ConnType
<1>7. [n EXCEPT !.output = out, !.room = z].output = out
  BY DEF ConnType
<1> QED BY <1>4, <1>5, <1>6, <1>7 DEF out, ConnType

\* Conn::fail tells the client and closes.
LEMMA FailIs ==
    ASSUME NEW n \in ConnType, NEW i \in Nat
    PROVE  /\ fail(n, i) \in ConnType
           /\ Kept(fail(n, i), n)
           /\ fail(n, i).output = n.output \o Failure(i)
           /\ fail(n, i).eaten = n.eaten /\ fail(n, i).phase = n.phase
           /\ fail(n, i).closing = TRUE /\ fail(n, i).moving = n.moving
<1> DEFINE p == Put(n, Failure(i))
<1>1. Failure(i) \in Seq(Nat)
  BY DEF Failure
<1>2. /\ p \in ConnType
      /\ Kept(p, n)
      /\ p.output = n.output \o Failure(i)
      /\ p.eaten = n.eaten /\ p.phase = n.phase /\ p.closing = n.closing /\ p.moving = n.moving
  BY <1>1, PutIs
<1>3. fail(n, i) = [p EXCEPT !.closing = TRUE]
  BY DEF fail
<1> HIDE DEF p
<1>4. [p EXCEPT !.closing = TRUE] \in ConnType
  BY <1>2 DEF ConnType
<1>5. Kept([p EXCEPT !.closing = TRUE], n)
  BY <1>2 DEF ConnType, Kept
<1>6. /\ [p EXCEPT !.closing = TRUE].output = p.output
      /\ [p EXCEPT !.closing = TRUE].eaten = p.eaten
      /\ [p EXCEPT !.closing = TRUE].phase = p.phase
      /\ [p EXCEPT !.closing = TRUE].closing = TRUE
      /\ [p EXCEPT !.closing = TRUE].moving = p.moving
  BY <1>2 DEF ConnType
<1> QED BY <1>2, <1>3, <1>4, <1>5, <1>6

\* The request a connection stands in is the one after those it answered.
LEMMA CurrentIs ==
    ASSUME NEW s \in Seq(Kinds), NEW n \in ConnType, NEW b, NEW d \in Nat, d < Len(s),
           Serves(s, n, b, d), ~n.closing, n.moving = 0
    PROVE  Current(s, n) = d + 1 /\ s[d + 1] \in Kinds
<1> DEFINE e == IF n.phase \in {"body", "refused"} THEN n.eaten - 1 ELSE n.eaten
<1>1. Len(s) \in Nat /\ d \in 0..Len(s) /\ d + 1 \in 1..(Len(s) + 1)
  OBVIOUS
<1>2. Upto(s, d) \in Nat /\ Upto(s, d + 1) \in Nat /\ Upto(s, d) < Upto(s, d + 1)
  <2>1. d + 1 \in 0..Len(s)
    BY <1>1
  <2> QED BY <1>1, <2>1, UptoIs
<1>3. n.moving # d + 1
  OBVIOUS
<1>4. Within(s, n, d)
  BY DEF Serves
<1>5. e = Upto(s, d)
  BY <1>2, <1>3, <1>4 DEF Within
<1>6. Current(s, n) = RequestAt(s, e)
  BY DEF Current
<1> HIDE DEF e
<1>7. (d + 1) - 1 = d
  OBVIOUS
<1>8. Current(s, n) = d + 1
  BY <1>1, <1>2, <1>5, <1>6, <1>7, RequestIs
<1>9. s[d + 1] \in Kinds
  BY <1>1
<1> QED BY <1>8, <1>9

\* A connection that stands between requests and has something unread has a
\* request to answer.
LEMMA OneMore ==
    ASSUME NEW s \in Seq(Kinds), NEW n \in ConnType, NEW b, NEW d \in Nat, Serves(s, n, b, d),
           ~n.closing, n.moving = 0, n.phase = "idle" => Unread(n) # 0
    PROVE  d < Len(s)
<1>1. n.eaten \in Nat /\ n.got \in Nat /\ n.eaten <= n.got /\ n.got <= Upto(s, Len(s)) /\ Len(s) \in Nat
  BY DEF Serves, ConnType
<1>2. d \in 0..Len(s)
  BY DEF Serves, InOrder
<1>3. Upto(s, Len(s)) \in Nat
  BY <1>1, UptoIs
<1>4. CASE n.phase = "idle"
  <2>1. n.eaten = Upto(s, d)
    BY <1>4 DEF Serves, Within
  <2>2. n.eaten < n.got
    BY <1>1, <1>4 DEF Unread
  <2>3. Upto(s, d) < Upto(s, Len(s))
    BY <1>1, <1>3, <2>1, <2>2
  <2>4. d # Len(s)
    BY <1>1, <1>3, <2>3
  <2> QED BY <1>1, <1>2, <2>4
<1>5. CASE n.phase # "idle"
  BY <1>5 DEF Serves, Within
<1> QED BY <1>4, <1>5

\* What a client got, what waits for it and what is put after it.
LEMMA Assoc ==
    ASSUME NEW x \in Seq(Nat), NEW y \in Seq(Nat), NEW z \in Seq(Nat)
    PROVE  (x \o y) \o z = x \o (y \o z)
<1> DEFINE l == (x \o y) \o z
<1> DEFINE r == x \o (y \o z)
<1>1. Len(l) = Len(r) /\ l \in Seq(Nat) /\ r \in Seq(Nat)
  OBVIOUS
<1>2. \A i \in 1..Len(l) : l[i] = r[i]
  OBVIOUS
<1> HIDE DEF l, r
<1>3. l = r
  BY <1>1, <1>2, SeqEqual
<1> QED BY <1>3 DEF l, r

\* A reply more, after what was answered.
LEMMA ServesMore ==
    ASSUME NEW s \in Seq(Kinds), NEW b \in Seq(Nat), NEW n \in ConnType, NEW m \in ConnType,
           NEW d \in Nat, d < Len(s), Serves(s, n, b, d), ~n.closing, Answered(s, d + 1),
           m.output = n.output \o Reply(s, d + 1),
           m.eaten <= m.got, m.got <= Upto(s, Len(s)), m.moving = 0,
           \/ m.closing /\ m.phase # "idle"
           \/ m.phase = "idle" /\ m.eaten = Upto(s, d + 1),
           m.closing \/ s[d + 1] \notin Ends
    PROVE  Serves(s, m, b, d + 1)
<1> DEFINE r == Reply(s, d + 1)
<1>1. n.output \in Seq(Nat)
  BY DEF ConnType
<1>2. b \o n.output \in Seq(Nat)
  BY <1>1
<1>3. InOrder(s, b \o n.output, d) /\ Len(b \o n.output) = Given(s, d)
  BY DEF Serves
<1>4. /\ r \in Seq(Nat)
      /\ InOrder(s, (b \o n.output) \o r, d + 1)
      /\ Len((b \o n.output) \o r) = Given(s, d + 1)
  BY <1>2, <1>3, InOrderMore
<1> HIDE DEF r
<1>5. (b \o n.output) \o r = b \o m.output
  <2>1. (b \o n.output) \o r = b \o (n.output \o r)
    BY <1>1, <1>4, Assoc
  <2> QED BY <2>1 DEF r
<1>6. \A i \in 1..d : s[i] \notin Ends
  BY DEF Serves
<1>7. ~m.closing => \A i \in 1..(d + 1) : s[i] \notin Ends
  BY <1>6
<1>8. Within(s, m, d + 1)
  BY DEF Within
<1> QED BY <1>4, <1>5, <1>7, <1>8 DEF Serves

\* The same on the loop.
LEMMA LoopsMore ==
    ASSUME NEW s \in Seq(Kinds), NEW b \in Seq(Nat), NEW n \in ConnType, NEW m \in ConnType,
           NEW d \in Nat, d < Len(s), Loops(s, n, b, d), ~n.closing,
           Len(n.output) < MaxOutput, s[d + 1] \notin {"wait", "stream"},
           m.output = n.output \o Reply(s, d + 1),
           m.got = n.got, n.eaten <= m.eaten, m.eaten <= m.got, m.moving = 0,
           \/ m.closing /\ m.phase # "idle"
           \/ m.phase = "idle" /\ m.eaten = Upto(s, d + 1),
           m.closing \/ s[d + 1] \notin Ends
    PROVE  Loops(s, m, b, d + 1)
<1>1. Serves(s, n, b, d) /\ \A i \in 1..d : s[i] \notin {"wait", "stream"}
  BY DEF Loops
<1>2. Answered(s, d + 1)
  <2>1. \A i \in 1..d : s[i] \notin Ends
    BY <1>1 DEF Serves
  <2>2. (d + 1) - 1 = d /\ \A i \in 1..(d + 1) : i \in 1..d \/ i = d + 1
    OBVIOUS
  <2> QED BY <1>1, <2>1, <2>2 DEF Answered
<1>3. n.got <= Upto(s, Len(s))
  BY <1>1 DEF Serves
<1>4. Serves(s, m, b, d + 1)
  BY <1>1, <1>2, <1>3, ServesMore
<1>5. Len(m.output) < MaxOutput + LargeReply
  <2>1. n.output \in Seq(Nat)
    BY DEF ConnType
  <2>2. /\ Reply(s, d + 1) \in Seq(Nat)
        /\ Len(Reply(s, d + 1)) = IF s[d + 1] = "large" THEN LargeReply ELSE 1
    <3>1. b \o n.output \in Seq(Nat)
      BY <2>1
    <3> QED BY <1>1, <1>2, <3>1, InOrderMore DEF Serves
  <2>3. Len(n.output \o Reply(s, d + 1)) = Len(n.output) + Len(Reply(s, d + 1)) /\ Len(n.output) \in Nat
    BY <2>1, <2>2
  <2>4. Len(Reply(s, d + 1)) <= LargeReply /\ LargeReply \in Nat /\ MaxOutput \in Nat
    BY <2>2, LoopAssumption
  <2>5. Len(m.output) = Len(n.output) + Len(Reply(s, d + 1)) /\ Len(Reply(s, d + 1)) \in Nat
    BY <2>2, <2>3
  <2>6. Len(n.output) < MaxOutput
    OBVIOUS
  <2>7. \A x, y, i, l \in Nat : x < i /\ y <= l => x + y < i + l
    OBVIOUS
  <2>8. Len(n.output) + Len(Reply(s, d + 1)) < MaxOutput + LargeReply
    BY <2>3, <2>4, <2>5, <2>6, <2>7, Zenon
  <2> QED BY <2>5, <2>8
<1>6. Unread(m) <= 2 * ReadSize
  <2>1. m.eaten \in Nat /\ n.eaten \in Nat /\ n.got \in Nat /\ ReadSize \in Nat
    BY LoopAssumption DEF ConnType
  <2>2. n.got - n.eaten <= 2 * ReadSize
    BY DEF Loops, Unread
  <2> QED BY <2>1, <2>2 DEF Unread
<1>7. \A i \in 1..(d + 1) : s[i] \notin {"wait", "stream"}
  BY <1>1
<1>8. m.phase = "idle" \/ m.closing
  OBVIOUS
<1> QED BY <1>4, <1>5, <1>6, <1>7, <1>8 DEF Loops

\* A turn that stops leaves the connection as it is.
LEMMA TurnStops ==
    ASSUME NEW s, NEW b, NEW e \in Nat, NEW n, NEW r, NEW t \in Nat, NEW d \in Nat,
           Goes(s, b, e, n, r, t), Went(s, b, e, n, r, t, d), r.stop = "turn",
           NEW w \in {"closing", "input", "output", "handoff"},
           w = "closing" => r.conn.closing,
           w = "input" => r.conn.moving # 0 \/ Unread(r.conn) < 2,
           w # "handoff",
           r.conn.phase # "idle" /\ ~r.conn.closing => s[d + 1] \in Split
    PROVE  Goes(s, b, e, n, [r EXCEPT !.stop = w], t + 1)
<1> DEFINE q == [r EXCEPT !.stop = w]
<1>1. r \in Turns
  BY DEF Goes
<1>2. q \in Turns /\ q.conn = r.conn /\ q.stop = w /\ q.made = r.made
  BY <1>1 DEF Turns
<1> HIDE DEF q
<1>3. w # "turn"
  OBVIOUS
<1>4. Went(s, b, e, n, q, t + 1, d)
  BY <1>2, <1>3 DEF Went
<1>5. Goes(s, b, e, n, q, t + 1)
  BY <1>2, <1>4 DEF Goes
<1> QED BY <1>5 DEF q

\* A turn that goes on brings the connection further.
LEMMA TurnGoes ==
    ASSUME NEW s \in Seq(Kinds), NEW b, NEW e \in Nat, NEW n, NEW r, NEW t \in Nat, NEW d \in Nat,
           Goes(s, b, e, n, r, t), Went(s, b, e, n, r, t, d), r.stop = "turn",
           NEW q \in Turns, q.stop = "turn", NEW i \in Nat, d <= i,
           \A j \in q.made : j \in r.made \/ (d < j /\ j <= i),
           Kept(q.conn, r.conn), Loops(s, q.conn, b, i), t + 1 <= Far(s, q.conn, i)
    PROVE  Goes(s, b, e, n, q, t + 1)
<1>1. e <= d /\ \A j \in r.made : e < j /\ j <= d
  BY DEF Went
<1>2. q.made \subseteq Nat /\ r.made \subseteq Nat
  BY DEF Turns, Goes
<1>3. e <= i /\ \A j \in q.made : e < j /\ j <= i
  <2>1. e <= i
    BY <1>1
  <2>2. ASSUME NEW j \in q.made
        PROVE  e < j /\ j <= i
    <3>1. j \in Nat
      BY <1>2
    <3>2. CASE j \in r.made
      <4>1. e < j /\ j <= d
        BY <1>1, <3>2
      <4> QED BY <3>1, <4>1
    <3>3. CASE d < j /\ j <= i
      BY <1>1, <3>1, <3>3
    <3> QED BY <3>2, <3>3
  <2> QED BY <2>1, <2>2
<1>4. Kept(q.conn, n)
  BY DEF Kept, Goes
<1>5. Went(s, b, e, n, q, t + 1, i)
  BY <1>3 DEF Went
<1> QED BY <1>4, <1>5 DEF Goes

\* A connection that goes on answering.
Turning(s, b, e, n, r, t, d) ==
    /\ Goes(s, b, e, n, r, t) /\ Went(s, b, e, n, r, t, d)
    /\ r.stop = "turn"
    /\ ~r.conn.closing /\ r.conn.moving = 0 /\ ~(Len(r.conn.output) >= MaxOutput)

\* What it is, and what holds of it.
LEMMA TurnFrom ==
    ASSUME NEW s \in Seq(Kinds), NEW b, NEW e \in Nat, NEW n, NEW r, NEW t \in Nat, NEW d \in Nat,
           Turning(s, b, e, n, r, t, d)
    PROVE  /\ r \in Turns /\ r.conn \in ConnType
           /\ Serves(s, r.conn, b, d) /\ Loops(s, r.conn, b, d)
           /\ Len(r.conn.output) < MaxOutput
           /\ r.conn.eaten \in Nat /\ r.conn.got \in Nat /\ r.conn.eaten <= r.conn.got
           /\ d <= Len(s) /\ Len(s) \in Nat
           /\ t <= 3 * d + (CASE r.conn.phase = "idle" -> 0 [] r.conn.phase = "head" -> 1 [] OTHER -> 2)
<1>1. r \in Turns /\ r.conn \in ConnType
  BY DEF Turning, Goes, Turns
<1>2. Loops(s, r.conn, b, d) /\ Serves(s, r.conn, b, d)
  BY DEF Turning, Went, Loops
<1>3. Len(r.conn.output) \in Nat /\ MaxOutput \in Nat
  <2>1. r.conn.output \in Seq(Nat)
    BY <1>1 DEF ConnType
  <2> QED BY <2>1, LoopAssumption
<1>4. Len(r.conn.output) < MaxOutput
  <2>1. \A x, y \in Nat : ~(x >= y) => x < y
    OBVIOUS
  <2> QED BY <1>3, <2>1, Zenon DEF Turning
<1>5. r.conn.eaten \in Nat /\ r.conn.got \in Nat /\ r.conn.eaten <= r.conn.got
  BY <1>1, <1>2 DEF ConnType, Serves
<1>6. d <= Len(s) /\ Len(s) \in Nat
  <2>1. d \in 0..Len(s)
    BY <1>2 DEF Serves, InOrder
  <2>2. Len(s) \in Nat
    OBVIOUS
  <2> QED BY <2>1, <2>2
<1>7. t <= 3 * d + (CASE r.conn.phase = "idle" -> 0 [] r.conn.phase = "head" -> 1 [] OTHER -> 2)
  BY DEF Turning, Went, Far
<1> QED BY <1>1, <1>2, <1>4, <1>5, <1>6, <1>7

\* Between requests: with something unread it begins on the next.
LEMMA TurnIdle ==
    ASSUME NEW s \in Seq(Kinds), NEW b \in Seq(Nat), NEW e \in Nat, NEW n, NEW r, NEW t \in Nat, NEW d \in Nat,
           Turning(s, b, e, n, r, t, d), r.conn.phase = "idle"
    PROVE  Goes(s, b, e, n, AnswerTurn(s, r), t + 1)
<1> DEFINE p == r.conn
<1> DEFINE m == [p EXCEPT !.phase = "head"]
<1> DEFINE q == [r EXCEPT !.conn = m]
<1>1. /\ r \in Turns /\ p \in ConnType
      /\ Serves(s, p, b, d) /\ Loops(s, p, b, d)
      /\ Len(p.output) < MaxOutput
      /\ p.eaten \in Nat /\ p.got \in Nat /\ p.eaten <= p.got
      /\ d <= Len(s) /\ Len(s) \in Nat
      /\ t <= 3 * d + (CASE p.phase = "idle" -> 0 [] p.phase = "head" -> 1 [] OTHER -> 2)
  BY TurnFrom
<1>2. /\ Goes(s, b, e, n, r, t) /\ Went(s, b, e, n, r, t, d) /\ r.stop = "turn"
      /\ ~p.closing /\ p.moving = 0 /\ ~(Len(p.output) >= MaxOutput)
  BY DEF Turning
<1>3. CASE Unread(p) = 0
  <2>1. AnswerTurn(s, r) = [r EXCEPT !.stop = "input"]
    BY <1>2, <1>3 DEF AnswerTurn
  <2>2. Unread(r.conn) < 2
    BY <1>3
  <2>3. Goes(s, b, e, n, [r EXCEPT !.stop = "input"], t + 1)
    BY <1>2, <2>2, TurnStops
  <2> QED BY <2>1, <2>3
<1>4. CASE Unread(p) # 0
  <2>1. AnswerTurn(s, r) = q
    BY <1>2, <1>4 DEF AnswerTurn
  <2>2. d < Len(s)
    BY <1>1, <1>2, <1>4, OneMore
  <2>3. /\ m \in ConnType /\ Kept(m, p)
        /\ m.phase = "head" /\ m.eaten = p.eaten /\ m.got = p.got /\ m.output = p.output
        /\ m.closing = p.closing /\ m.moving = p.moving
    BY <1>1 DEF ConnType, Kept
  <2>4. p.eaten = Upto(s, d) /\ p.eaten < p.got
    <3>1. p.eaten = Upto(s, d)
      BY <1>1, <1>2 DEF Serves, Within
    <3> QED BY <1>1, <1>4, <3>1 DEF Unread
  <2> HIDE DEF m
  <2>5. Within(s, m, d)
    BY <1>2, <2>2, <2>3, <2>4 DEF Within
  <2>6. Serves(s, m, b, d)
    BY <1>1, <2>3, <2>5 DEF Serves
  <2>7. Loops(s, m, b, d)
    BY <1>1, <2>3, <2>6 DEF Loops, Unread
  <2>8. q \in Turns /\ q.conn = m /\ q.stop = "turn" /\ q.made = r.made
    BY <1>1, <1>2, <2>3 DEF Turns
  <2>9. t + 1 <= Far(s, m, d)
    BY <1>1, <1>2, <2>3 DEF Far
  <2> HIDE DEF q
  <2>10. Goes(s, b, e, n, q, t + 1)
    <3>1. d <= d
      OBVIOUS
    <3> QED BY <1>2, <2>3, <2>7, <2>8, <2>9, <3>1, TurnGoes
  <2> QED BY <2>1, <2>10
<1> QED BY <1>3, <1>4

\* Reading the head of a request: refused ones are read past.
LEMMA TurnHead ==
    ASSUME NEW s \in Seq(Kinds), NEW b \in Seq(Nat), NEW e \in Nat, NEW n, NEW r, NEW t \in Nat, NEW d \in Nat,
           Turning(s, b, e, n, r, t, d), r.conn.phase = "head"
    PROVE  Goes(s, b, e, n, AnswerTurn(s, r), t + 1)
<1> DEFINE p == r.conn
<1>1. /\ r \in Turns /\ p \in ConnType
      /\ Serves(s, p, b, d) /\ Loops(s, p, b, d)
      /\ Len(p.output) < MaxOutput
      /\ p.eaten \in Nat /\ p.got \in Nat /\ p.eaten <= p.got
      /\ d <= Len(s) /\ Len(s) \in Nat
      /\ t <= 3 * d + (CASE p.phase = "idle" -> 0 [] p.phase = "head" -> 1 [] OTHER -> 2)
  BY TurnFrom
<1>2. /\ Goes(s, b, e, n, r, t) /\ Went(s, b, e, n, r, t, d) /\ r.stop = "turn"
      /\ ~p.closing /\ p.moving = 0 /\ ~(Len(p.output) >= MaxOutput)
  BY DEF Turning
<1>3. d < Len(s)
  BY <1>1, <1>2, OneMore
<1>4. Current(s, p) = d + 1 /\ s[d + 1] \in Kinds
  BY <1>1, <1>2, <1>3, CurrentIs
<1>5. p.eaten = Upto(s, d) /\ p.eaten < p.got
  BY <1>1, <1>2 DEF Serves, Within
<1> DEFINE k == s[d + 1]
<1>6. CASE k = "split" /\ Unread(p) < 2
  <2>1. AnswerTurn(s, r) = [r EXCEPT !.stop = "input"]
    BY <1>2, <1>4, <1>6 DEF AnswerTurn
  <2>2. k \in Split
    BY <1>6 DEF Split
  <2>3. Goes(s, b, e, n, [r EXCEPT !.stop = "input"], t + 1)
    BY <1>2, <1>6, <2>2, TurnStops
  <2> QED BY <2>1, <2>3
<1>7. CASE ~(k = "split" /\ Unread(p) < 2) /\ k = "bad"
  <2> DEFINE m == fail(p, d + 1)
  <2> DEFINE q == [r EXCEPT !.conn = m]
  <2>1. AnswerTurn(s, r) = q
    BY <1>2, <1>4, <1>7 DEF AnswerTurn
  <2>2. /\ m \in ConnType /\ Kept(m, p)
        /\ m.output = p.output \o Failure(d + 1)
        /\ m.eaten = p.eaten /\ m.phase = p.phase
        /\ m.closing = TRUE /\ m.moving = p.moving
    <3>1. d + 1 \in Nat
      OBVIOUS
    <3> QED BY <1>1, <3>1, FailIs
  <2> HIDE DEF m
  <2>3. m.output = p.output \o Reply(s, d + 1)
    BY <1>7, <2>2, FailureIs
  <2>4. m.got = p.got /\ p.eaten <= m.eaten /\ m.eaten <= m.got /\ m.phase # "idle"
    BY <1>1, <2>2 DEF Kept
  <2>5. s[d + 1] \notin {"wait", "stream"}
    BY <1>7
  <2>6. Loops(s, m, b, d + 1)
    BY <1>1, <1>2, <1>3, <2>2, <2>3, <2>4, <2>5, LoopsMore
  <2>7. q \in Turns /\ q.conn = m /\ q.stop = "turn" /\ q.made = r.made
    BY <1>1, <1>2, <2>2 DEF Turns
  <2>8. t + 1 <= Far(s, m, d + 1)
    BY <1>1, <1>3, <2>2 DEF Far
  <2> HIDE DEF q
  <2>9. Goes(s, b, e, n, q, t + 1)
    <3>1. d <= d + 1 /\ d + 1 \in Nat
      OBVIOUS
    <3> QED BY <1>2, <2>2, <2>6, <2>7, <2>8, <3>1, TurnGoes
  <2> QED BY <2>1, <2>9
<1>8. CASE ~(k = "split" /\ Unread(p) < 2) /\ k # "bad"
  <2> DEFINE ph == IF k = "refused" THEN "refused" ELSE "body"
  <2> DEFINE m == [p EXCEPT !.eaten = @ + 1, !.phase = ph]
  <2> DEFINE q == [r EXCEPT !.conn = m]
  <2>1. AnswerTurn(s, r) = q
    BY <1>2, <1>4, <1>8 DEF AnswerTurn
  <2>2. ph \in {"body", "refused"} /\ (ph = "refused" <=> k = "refused")
    OBVIOUS
  <2> HIDE DEF ph
  <2>3. /\ m \in ConnType /\ Kept(m, p)
        /\ m.phase = ph /\ m.eaten = p.eaten + 1 /\ m.got = p.got /\ m.output = p.output
        /\ m.closing = p.closing /\ m.moving = p.moving
    <3>1. p \in ConnType /\ p.eaten + 1 \in Nat
      BY <1>1
    <3>2. ph \in {"idle", "head", "body", "refused"}
      BY <2>2
    <3> HIDE DEF p
    <3>3. m \in ConnType
      BY <3>1, <3>2 DEF ConnType
    <3>4. Kept(m, p) /\ m.got = p.got /\ m.output = p.output
      BY <3>1 DEF ConnType, Kept
    <3>5. m.phase = ph /\ m.eaten = p.eaten + 1
      BY <3>1 DEF ConnType
    <3>6. m.closing = p.closing /\ m.moving = p.moving
      BY <3>1 DEF ConnType
    <3> QED BY <3>3, <3>4, <3>5, <3>6
  <2> HIDE DEF m
  <2>4. Within(s, m, d)
    BY <1>2, <1>3, <1>5, <1>8, <2>2, <2>3 DEF Within
  <2>5. m.eaten <= m.got
    BY <1>1, <1>5, <2>3
  <2>6. Serves(s, m, b, d)
    BY <1>1, <2>3, <2>4, <2>5 DEF Serves
  <2>7. Unread(m) <= 2 * ReadSize
    <3>1. p.got - p.eaten <= 2 * ReadSize /\ 2 * ReadSize \in Nat
      <4>1. Unread(p) <= 2 * ReadSize
        BY <1>1 DEF Loops
      <4>2. 2 * ReadSize \in Nat
        BY LoopAssumption
      <4> QED BY <4>1, <4>2 DEF Unread
    <3>2. p.got \in Nat /\ p.eaten \in Nat
      BY <1>1
    <3>3. \A x, y, z \in Nat : x - y <= z => x - (y + 1) <= z
      OBVIOUS
    <3>4. p.got - (p.eaten + 1) <= 2 * ReadSize
      BY <3>1, <3>2, <3>3
    <3> QED BY <2>3, <3>4 DEF Unread
  <2>8. Loops(s, m, b, d)
    BY <1>1, <2>3, <2>6, <2>7 DEF Loops
  <2>9. q \in Turns /\ q.conn = m /\ q.stop = "turn" /\ q.made = r.made
    BY <1>1, <1>2, <2>3 DEF Turns
  <2>10. t + 1 <= Far(s, m, d)
    BY <1>1, <1>2, <2>2, <2>3 DEF Far
  <2> HIDE DEF q
  <2>11. Goes(s, b, e, n, q, t + 1)
    <3>1. d <= d
      OBVIOUS
    <3> QED BY <1>2, <2>3, <2>8, <2>9, <2>10, <3>1, TurnGoes
  <2> QED BY <2>1, <2>11
<1> QED BY <1>6, <1>7, <1>8

\* The end of a request that is read whole.
Past(s, n, d) == [n EXCEPT !.eaten = @ + Pieces(s[d + 1]) - 1, !.phase = "idle"]

IsPast(m, s, p, d) ==
    /\ m \in ConnType /\ Kept(m, p)
    /\ m.eaten = Upto(s, d + 1) /\ m.eaten <= p.got
    /\ p.eaten <= m.eaten
    /\ m.phase = "idle" /\ m.output = p.output
    /\ m.closing = FALSE /\ m.moving = 0

\* The connection past the rest of its request is the one it becomes when
\* that has arrived: `answer` skips the body and reads the next head.
LEMMA PastIs ==
    ASSUME NEW s \in Seq(Kinds), NEW b, NEW d \in Nat, d < Len(s), NEW p \in ConnType,
           Serves(s, p, b, d), ~p.closing, p.moving = 0, p.phase \in {"body", "refused"},
           ~(Unread(p) < Pieces(s[d + 1]) - 1)
    PROVE  IsPast(Past(s, p, d), s, p, d)
<1> DEFINE z == Pieces(s[d + 1]) - 1
<1> DEFINE m == [p EXCEPT !.eaten = p.eaten + z, !.phase = "idle"]
<1>1. z \in Nat /\ Pieces(s[d + 1]) = z + 1
  BY DEF Pieces
<1>2. Unread(p) >= z
  <2>1. p.eaten \in Nat /\ p.got \in Nat
    BY DEF ConnType
  <2> QED BY <1>1, <2>1 DEF Unread
<1>3. Upto(s, d) \in Nat /\ Upto(s, d + 1) = Upto(s, d) + Pieces(s[d + 1])
  <2>1. d \in 0..Len(s)
    OBVIOUS
  <2> QED BY <2>1, UptoIs
<1>4. p.eaten = Upto(s, d) + 1
  BY DEF Serves, Within
<1>5. p.eaten \in Nat /\ p.got \in Nat
  BY DEF ConnType
<1>6. Past(s, p, d) = m
  <2>1. p.eaten + Pieces(s[d + 1]) - 1 = p.eaten + z
    BY <1>1, <1>5
  <2> QED BY <2>1 DEF Past
<1> HIDE DEF z
<1>7. p.eaten + z = Upto(s, d + 1) /\ p.eaten + z <= p.got /\ p.eaten <= p.eaten + z /\ p.eaten + z \in Nat
  BY <1>1, <1>2, <1>3, <1>4, <1>5 DEF Unread
<1>8. /\ m \in ConnType /\ Kept(m, p) /\ m.eaten = p.eaten + z /\ m.phase = "idle"
      /\ m.output = p.output /\ m.closing = p.closing /\ m.moving = p.moving
  BY <1>7 DEF ConnType, Kept
<1>9. p.closing = FALSE
  BY DEF ConnType
<1> HIDE DEF m
<1>10. IsPast(m, s, p, d)
  BY <1>7, <1>8, <1>9 DEF IsPast
<1> QED BY <1>6, <1>10

\* What the turns have in common.
TurnFacts(s, b, e, n, r, t, d) ==
    /\ r \in Turns /\ r.conn \in ConnType
    /\ Serves(s, r.conn, b, d) /\ Loops(s, r.conn, b, d)
    /\ Len(r.conn.output) < MaxOutput
    /\ r.conn.eaten \in Nat /\ r.conn.got \in Nat /\ r.conn.eaten <= r.conn.got
    /\ d < Len(s) /\ Len(s) \in Nat
    /\ t <= 3 * d + 2
    /\ Goes(s, b, e, n, r, t) /\ Went(s, b, e, n, r, t, d) /\ r.stop = "turn"
    /\ ~r.conn.closing /\ r.conn.moving = 0 /\ ~(Len(r.conn.output) >= MaxOutput)
    /\ Current(s, r.conn) = d + 1 /\ s[d + 1] \in Kinds
    /\ r.conn.phase = "refused" <=> s[d + 1] = "refused"
    /\ s[d + 1] # "bad"

\* A turn that has a head: the body is awaited, or it is refused, waits,
\* fails, or is answered, as Conn::answer does.
LEMMA TurnReads ==
    ASSUME NEW s \in Seq(Kinds), NEW b \in Seq(Nat), NEW e \in Nat, NEW n, NEW r, NEW t \in Nat, NEW d \in Nat,
           Turning(s, b, e, n, r, t, d), r.conn.phase \in {"body", "refused"}
    PROVE  TurnFacts(s, b, e, n, r, t, d)
<1> DEFINE p == r.conn
<1>1. /\ r \in Turns /\ p \in ConnType
      /\ Serves(s, p, b, d) /\ Loops(s, p, b, d)
      /\ Len(p.output) < MaxOutput
      /\ p.eaten \in Nat /\ p.got \in Nat /\ p.eaten <= p.got
      /\ d <= Len(s) /\ Len(s) \in Nat
      /\ t <= 3 * d + (CASE p.phase = "idle" -> 0 [] p.phase = "head" -> 1 [] OTHER -> 2)
  BY TurnFrom
<1>2. /\ Goes(s, b, e, n, r, t) /\ Went(s, b, e, n, r, t, d) /\ r.stop = "turn"
      /\ ~p.closing /\ p.moving = 0 /\ ~(Len(p.output) >= MaxOutput)
  BY DEF Turning
<1>3. p.phase # "idle" /\ p.phase # "head"
  OBVIOUS
<1>4. d < Len(s)
  BY <1>1, <1>2, <1>3, OneMore
<1>5. Current(s, p) = d + 1 /\ s[d + 1] \in Kinds
  BY <1>1, <1>2, <1>4, CurrentIs
<1>6. (p.phase = "refused" <=> s[d + 1] = "refused") /\ s[d + 1] # "bad"
  BY <1>1, <1>2, <1>3 DEF Serves, Within
<1>7. t <= 3 * d + 2
  BY <1>1, <1>3
<1> QED BY <1>1, <1>2, <1>4, <1>5, <1>6, <1>7 DEF TurnFacts

\* A turn that replies, or fails, makes no change, or that of its request.
LEMMA TurnReplies ==
    ASSUME NEW s \in Seq(Kinds), NEW b \in Seq(Nat), NEW e \in Nat, NEW n, NEW r, NEW t \in Nat, NEW d \in Nat,
           TurnFacts(s, b, e, n, r, t, d),
           NEW q \in Turns, q.stop = "turn", q.made \subseteq r.made \cup {d + 1},
           Kept(q.conn, r.conn), q.conn.output = r.conn.output \o Reply(s, d + 1),
           s[d + 1] \notin {"wait", "stream"},
           q.conn.phase = "idle", q.conn.eaten = Upto(s, d + 1),
           r.conn.eaten <= q.conn.eaten, q.conn.eaten <= r.conn.got,
           q.conn.moving = 0, q.conn.closing \/ s[d + 1] \notin Ends
    PROVE  Goes(s, b, e, n, q, t + 1)
<1>1. q.conn \in ConnType /\ r.conn \in ConnType
  BY DEF Turns, TurnFacts
<1>2. q.conn.got = r.conn.got
  BY DEF Kept
<1>3. Loops(s, r.conn, b, d) /\ ~r.conn.closing /\ Len(r.conn.output) < MaxOutput /\ d < Len(s)
  BY DEF TurnFacts
<1>4. Loops(s, q.conn, b, d + 1)
  BY <1>1, <1>2, <1>3, LoopsMore
<1>5. t + 1 <= Far(s, q.conn, d + 1)
  <2>1. t <= 3 * d + 2 /\ d < Len(s) /\ Len(s) \in Nat
    BY DEF TurnFacts
  <2>2. Far(s, q.conn, d + 1) = 3 * Len(s) + 1 \/ Far(s, q.conn, d + 1) = 3 * (d + 1)
    BY DEF Far
  <2> QED BY <2>1, <2>2
<1>6. \A j \in q.made : j \in r.made \/ (d < j /\ j <= d + 1)
  OBVIOUS
<1>7. d <= d + 1 /\ d + 1 \in Nat
  OBVIOUS
<1>8. Goes(s, b, e, n, r, t) /\ Went(s, b, e, n, r, t, d) /\ r.stop = "turn"
  BY DEF TurnFacts
<1> QED BY <1>4, <1>5, <1>6, <1>7, <1>8, TurnGoes

\* A refused request is read past, and told so.
LEMMA TurnRefused ==
    ASSUME NEW s \in Seq(Kinds), NEW b \in Seq(Nat), NEW e \in Nat, NEW n, NEW r, NEW t \in Nat, NEW d \in Nat,
           TurnFacts(s, b, e, n, r, t, d), r.conn.phase = "refused"
    PROVE  Goes(s, b, e, n, AnswerTurn(s, r), t + 1)
<1> DEFINE p == r.conn
<1> DEFINE w == Past(s, p, d)
<1> DEFINE m == fail(w, d + 1)
<1> DEFINE q == [r EXCEPT !.conn = m]
<1>1. /\ s[d + 1] = "refused" /\ r \in Turns /\ p \in ConnType /\ d < Len(s) /\ r.stop = "turn"
      /\ Goes(s, b, e, n, r, t) /\ Went(s, b, e, n, r, t, d)
      /\ ~p.closing /\ p.moving = 0 /\ ~(Len(p.output) >= MaxOutput)
      /\ Current(s, p) = d + 1 /\ Serves(s, p, b, d)
      /\ p.eaten \in Nat /\ p.got \in Nat /\ p.eaten <= p.got
  BY DEF TurnFacts
<1>2. CASE Unread(p) = 0
  <2>1. AnswerTurn(s, r) = [r EXCEPT !.stop = "input"]
    BY <1>1, <1>2 DEF AnswerTurn
  <2>2. s[d + 1] \in Split /\ Unread(p) < 2
    BY <1>1, <1>2 DEF Split
  <2>3. Goes(s, b, e, n, [r EXCEPT !.stop = "input"], t + 1)
    BY <1>1, <2>2, TurnStops
  <2> QED BY <2>1, <2>3
<1>3. CASE Unread(p) # 0
  <2>1. AnswerTurn(s, r) = q
    BY <1>1, <1>3 DEF AnswerTurn, Past
  <2>2. ~(Unread(p) < Pieces(s[d + 1]) - 1)
    <3>1. Pieces(s[d + 1]) = 2
      BY <1>1 DEF Pieces, Split
    <3> QED BY <1>1, <1>3, <3>1 DEF Unread
  <2>3. /\ w \in ConnType /\ Kept(w, p)
        /\ w.eaten = Upto(s, d + 1) /\ w.eaten <= p.got /\ p.eaten <= w.eaten
        /\ w.phase = "idle" /\ w.output = p.output /\ w.closing = FALSE /\ w.moving = 0
    <3>1. p.phase \in {"body", "refused"}
      OBVIOUS
    <3>2. p \in ConnType /\ Serves(s, p, b, d) /\ ~p.closing /\ p.moving = 0 /\ d < Len(s)
      BY <1>1
    <3>3. IsPast(w, s, p, d)
      <4> HIDE DEF p
      <4> QED BY <2>2, <3>1, <3>2, PastIs
    <3> HIDE DEF w
    <3> QED BY <3>3 DEF IsPast
  <2> HIDE DEF w
  <2>4. /\ m \in ConnType /\ Kept(m, w)
        /\ m.output = w.output \o Failure(d + 1)
        /\ m.eaten = w.eaten /\ m.phase = w.phase
        /\ m.closing = TRUE /\ m.moving = w.moving
    <3>1. d + 1 \in Nat
      OBVIOUS
    <3> QED BY <2>3, <3>1, FailIs
  <2> HIDE DEF m
  <2>5. Kept(m, p) /\ m.output = p.output \o Reply(s, d + 1)
    BY <1>1, <2>3, <2>4, FailureIs DEF Kept
  <2>6. q \in Turns /\ q.conn = m /\ q.stop = "turn" /\ q.made = r.made
    BY <1>1, <2>4 DEF Turns
  <2> HIDE DEF q
  <2>7. s[d + 1] \notin {"wait", "stream"} /\ q.made \subseteq r.made \cup {d + 1}
    BY <1>1, <2>6
  <2>8. q.conn.phase = "idle" /\ q.conn.eaten = Upto(s, d + 1) /\ q.conn.moving = 0 /\ q.conn.closing
    BY <2>3, <2>4, <2>6
  <2>9. p.eaten <= q.conn.eaten /\ q.conn.eaten <= p.got
    BY <2>3, <2>4, <2>6
  <2>10. Goes(s, b, e, n, q, t + 1)
    BY <2>5, <2>6, <2>7, <2>8, <2>9, TurnReplies
  <2> QED BY <2>1, <2>10
<1> QED BY <1>2, <1>3

\* A request that has arrived whole: it waits, and goes with its connection.
LEMMA TurnHandsOff ==
    ASSUME NEW s \in Seq(Kinds), NEW b \in Seq(Nat), NEW e \in Nat, NEW n, NEW r, NEW t \in Nat, NEW d \in Nat,
           TurnFacts(s, b, e, n, r, t, d), NEW w, IsPast(w, s, r.conn, d),
           s[d + 1] \in {"wait", "stream"},
           NEW q, q = [[r EXCEPT !.conn = [w EXCEPT !.moving = d + 1]] EXCEPT !.stop = "handoff"]
    PROVE  Goes(s, b, e, n, q, t + 1)
<1> DEFINE p == r.conn
<1> DEFINE m == [w EXCEPT !.moving = d + 1]
<1>1. /\ r \in Turns /\ p \in ConnType /\ d < Len(s) /\ Len(s) \in Nat
      /\ Goes(s, b, e, n, r, t) /\ Went(s, b, e, n, r, t, d)
      /\ Loops(s, p, b, d) /\ Serves(s, p, b, d) /\ ~p.closing
      /\ p.eaten \in Nat /\ p.got \in Nat
  BY DEF TurnFacts
<1>2. /\ w \in ConnType /\ Kept(w, p)
      /\ w.eaten = Upto(s, d + 1) /\ w.eaten <= p.got
      /\ p.eaten <= w.eaten
      /\ w.phase = "idle" /\ w.output = p.output
      /\ w.closing = FALSE /\ w.moving = 0
  BY DEF IsPast
<1>3. /\ m \in ConnType /\ Kept(m, w) /\ m.eaten = w.eaten /\ m.got = w.got
      /\ m.phase = "idle" /\ m.output = w.output /\ m.closing = FALSE /\ m.moving = d + 1
  <2>1. w \in ConnType /\ d + 1 \in Nat
    BY <1>2
  <2>2. m \in ConnType
    BY <2>1 DEF ConnType
  <2>3. Kept(m, w) /\ m.got = w.got /\ m.eaten = w.eaten
    BY <2>1 DEF ConnType, Kept
  <2>4. m.phase = w.phase /\ m.output = w.output /\ m.closing = w.closing /\ m.moving = d + 1
    BY <2>1 DEF ConnType
  <2> QED BY <1>2, <2>2, <2>3, <2>4
<1> HIDE DEF m
<1>4. Kept(m, p) /\ m.got = p.got /\ m.output = p.output /\ m.eaten = Upto(s, d + 1)
  BY <1>2, <1>3 DEF Kept
<1>5. Within(s, m, d)
  BY <1>1, <1>3, <1>4 DEF Within
<1>6. m.eaten <= m.got /\ p.eaten <= m.eaten /\ m.eaten \in Nat
  BY <1>2, <1>3, <1>4 DEF ConnType
<1>7. Serves(s, m, b, d)
  BY <1>1, <1>3, <1>4, <1>5, <1>6 DEF Serves
<1>8. Unread(m) <= 2 * ReadSize
  <2>1. Unread(p) <= 2 * ReadSize
    BY <1>1 DEF Loops
  <2>2. 2 * ReadSize \in Nat
    BY LoopAssumption
  <2>3. \A x, y, v, z \in Nat : x - y <= z /\ y <= v => x - v <= z
    OBVIOUS
  <2>4. p.got - p.eaten <= 2 * ReadSize
    BY <2>1 DEF Unread
  <2>5. p.got - m.eaten <= 2 * ReadSize
    BY <1>1, <1>6, <2>2, <2>3, <2>4
  <2> QED BY <1>4, <2>5 DEF Unread
<1>9. Loops(s, m, b, d)
  BY <1>1, <1>3, <1>4, <1>7, <1>8 DEF Loops
<1>10. q \in Turns /\ q.conn = m /\ q.stop = "handoff" /\ q.made = r.made
  <2>1. q = [[r EXCEPT !.conn = m] EXCEPT !.stop = "handoff"]
    BY DEF m
  <2> QED BY <1>1, <1>3, <2>1 DEF Turns
<1>11. Went(s, b, e, n, q, t + 1, d)
  BY <1>1, <1>3, <1>9, <1>10 DEF Went
<1>12. Kept(q.conn, n)
  BY <1>1, <1>4, <1>10 DEF Goes, Kept
<1>13. q.stop # "closing" /\ q.stop # "input" /\ q.conn.moving # 0
  BY <1>3, <1>10
<1> QED BY <1>10, <1>11, <1>12, <1>13 DEF Goes

AnsweredBy(s, r, w, d) ==
    [[r EXCEPT !.conn = [Put(w, Reply(s, d + 1)) EXCEPT !.closing = (s[d + 1] = "last")]]
     EXCEPT !.made = IF s[d + 1] = "write" THEN @ \cup {d + 1} ELSE @]

\* It is answered, and what it changed is to be journaled.
LEMMA TurnAnswers ==
    ASSUME NEW s \in Seq(Kinds), NEW b \in Seq(Nat), NEW e \in Nat, NEW n, NEW r, NEW t \in Nat, NEW d \in Nat,
           TurnFacts(s, b, e, n, r, t, d), NEW w, IsPast(w, s, r.conn, d),
           s[d + 1] \notin {"wait", "stream", "panic", "refused"},
           NEW q, q = AnsweredBy(s, r, w, d)
    PROVE  Goes(s, b, e, n, q, t + 1)
<1> DEFINE p == r.conn
<1> DEFINE x == Reply(s, d + 1)
<1> DEFINE u == Put(w, x)
<1> DEFINE cl == (s[d + 1] = "last")
<1> DEFINE m == [u EXCEPT !.closing = cl]
<1>1. r \in Turns /\ s[d + 1] \in Kinds /\ s[d + 1] # "bad" /\ r.stop = "turn"
  BY DEF TurnFacts
<1>2. /\ w \in ConnType /\ Kept(w, p)
      /\ w.eaten = Upto(s, d + 1) /\ w.eaten <= p.got
      /\ p.eaten <= w.eaten
      /\ w.phase = "idle" /\ w.output = p.output
      /\ w.closing = FALSE /\ w.moving = 0
  BY DEF IsPast
<1>3. x \in Seq(Nat)
  <2> DEFINE z == IF s[d + 1] = "large" THEN LargeReply ELSE 1
  <2>1. z \in Nat
    BY LoopAssumption
  <2>2. x = [i \in 1..z |-> d + 1]
    BY DEF Reply
  <2> HIDE DEF z, x
  <2> QED BY <2>1, <2>2
<1> HIDE DEF x
<1>4. /\ u \in ConnType /\ Kept(u, w)
      /\ u.output = w.output \o x
      /\ u.eaten = w.eaten /\ u.phase = w.phase
      /\ u.closing = w.closing /\ u.moving = w.moving
  BY <1>2, <1>3, PutIs
<1>5. q = [[r EXCEPT !.conn = m] EXCEPT !.made = IF s[d + 1] = "write" THEN @ \cup {d + 1} ELSE @]
  BY DEF x, AnsweredBy
<1> HIDE DEF u
<1>6. cl \in BOOLEAN
  OBVIOUS
<1> HIDE DEF cl
<1>7. /\ m \in ConnType /\ Kept(m, u) /\ m.output = u.output /\ m.eaten = u.eaten
      /\ m.phase = u.phase /\ m.closing = cl /\ m.moving = u.moving
  BY <1>4, <1>6 DEF ConnType, Kept
<1> HIDE DEF m
<1> DEFINE made == IF s[d + 1] = "write" THEN r.made \cup {d + 1} ELSE r.made
<1>8. r.made \in SUBSET Nat /\ made \in SUBSET Nat /\ made \subseteq r.made \cup {d + 1}
  BY <1>1 DEF Turns
<1>9. q = [[r EXCEPT !.conn = m] EXCEPT !.made = made]
  BY <1>1, <1>5 DEF Turns
<1> HIDE DEF made
<1>10. q \in Turns /\ q.conn = m /\ q.stop = "turn" /\ q.made = made
  BY <1>1, <1>7, <1>8, <1>9 DEF Turns
<1>11. Kept(m, p) /\ m.output = p.output \o Reply(s, d + 1)
  BY <1>2, <1>4, <1>7 DEF Kept, x
<1>12. cl \/ s[d + 1] \notin Ends
  BY <1>1 DEF cl, Ends
<1>13. /\ q.conn.phase = "idle" /\ q.conn.eaten = Upto(s, d + 1) /\ q.conn.moving = 0
       /\ q.conn.closing \/ s[d + 1] \notin Ends
       /\ p.eaten <= q.conn.eaten /\ q.conn.eaten <= p.got
  BY <1>2, <1>4, <1>7, <1>10, <1>12
<1>14. s[d + 1] \notin {"wait", "stream"} /\ q.made \subseteq r.made \cup {d + 1}
  BY <1>8, <1>10
<1> QED BY <1>10, <1>11, <1>13, <1>14, TurnReplies

\* The service panics over it, and the client is told.
LEMMA TurnPanics ==
    ASSUME NEW s \in Seq(Kinds), NEW b \in Seq(Nat), NEW e \in Nat, NEW n, NEW r, NEW t \in Nat, NEW d \in Nat,
           TurnFacts(s, b, e, n, r, t, d), NEW w, IsPast(w, s, r.conn, d),
           s[d + 1] = "panic", NEW q, q = [r EXCEPT !.conn = fail(w, d + 1)]
    PROVE  Goes(s, b, e, n, q, t + 1)
<1> DEFINE p == r.conn
<1> DEFINE m == fail(w, d + 1)
<1>1. r \in Turns /\ r.stop = "turn"
  BY DEF TurnFacts
<1>2. /\ w \in ConnType /\ Kept(w, p)
      /\ w.eaten = Upto(s, d + 1) /\ w.eaten <= p.got
      /\ p.eaten <= w.eaten
      /\ w.phase = "idle" /\ w.output = p.output
      /\ w.closing = FALSE /\ w.moving = 0
  BY DEF IsPast
<1>3. /\ m \in ConnType /\ Kept(m, w)
      /\ m.output = w.output \o Failure(d + 1)
      /\ m.eaten = w.eaten /\ m.phase = w.phase
      /\ m.closing = TRUE /\ m.moving = w.moving
  <2>1. d + 1 \in Nat
    OBVIOUS
  <2> QED BY <1>2, <2>1, FailIs
<1>4. q = [r EXCEPT !.conn = m]
  OBVIOUS
<1> HIDE DEF m
<1>5. Kept(m, p) /\ m.output = p.output \o Reply(s, d + 1)
  BY <1>2, <1>3, FailureIs DEF Kept
<1>6. q \in Turns /\ q.conn = m /\ q.stop = "turn" /\ q.made = r.made
  BY <1>1, <1>3, <1>4 DEF Turns
<1>7. s[d + 1] \notin {"wait", "stream"} /\ q.made \subseteq r.made \cup {d + 1}
  BY <1>6
<1>8. /\ q.conn.phase = "idle" /\ q.conn.eaten = Upto(s, d + 1) /\ q.conn.moving = 0 /\ q.conn.closing
      /\ p.eaten <= q.conn.eaten /\ q.conn.eaten <= p.got
  BY <1>2, <1>3, <1>6
<1> QED BY <1>5, <1>6, <1>7, <1>8, TurnReplies

\* A body: the turn ends in one of these, or waits for the rest of it.
LEMMA TurnBody ==
    ASSUME NEW s \in Seq(Kinds), NEW b \in Seq(Nat), NEW e \in Nat, NEW n, NEW r, NEW t \in Nat, NEW d \in Nat,
           TurnFacts(s, b, e, n, r, t, d), r.conn.phase = "body"
    PROVE  Goes(s, b, e, n, AnswerTurn(s, r), t + 1)
<1> DEFINE p == r.conn
<1> DEFINE w == Past(s, p, d)
<1> DEFINE k == s[d + 1]
<1>1. /\ r \in Turns /\ p \in ConnType /\ d < Len(s) /\ r.stop = "turn"
      /\ Goes(s, b, e, n, r, t) /\ Went(s, b, e, n, r, t, d)
      /\ ~p.closing /\ p.moving = 0 /\ ~(Len(p.output) >= MaxOutput)
      /\ Current(s, p) = d + 1 /\ Serves(s, p, b, d)
      /\ p.eaten \in Nat /\ p.got \in Nat /\ p.eaten <= p.got
      /\ k \in Kinds /\ k # "refused" /\ k # "bad"
  BY DEF TurnFacts
<1>2. CASE Unread(p) < Pieces(k) - 1
  <2>1. AnswerTurn(s, r) = [r EXCEPT !.stop = "input"]
    BY <1>1, <1>2 DEF AnswerTurn
  <2>2. k \in Split /\ Unread(p) < 2
    <3>1. Unread(p) \in Nat
      BY <1>1 DEF Unread
    <3> QED BY <1>2, <3>1 DEF Pieces
  <2>3. Goes(s, b, e, n, [r EXCEPT !.stop = "input"], t + 1)
    BY <1>1, <2>2, TurnStops
  <2> QED BY <2>1, <2>3
<1>3. CASE ~(Unread(p) < Pieces(k) - 1)
  <2>1. IsPast(w, s, p, d)
    <3>1. p.phase \in {"body", "refused"}
      OBVIOUS
    <3>2. p \in ConnType /\ Serves(s, p, b, d) /\ ~p.closing /\ p.moving = 0 /\ d < Len(s)
      BY <1>1
    <3> HIDE DEF p
    <3> QED BY <1>3, <3>1, <3>2, PastIs
  <2>2. CASE k \in {"wait", "stream"}
    <3> DEFINE q == [[r EXCEPT !.conn = [w EXCEPT !.moving = d + 1]] EXCEPT !.stop = "handoff"]
    <3>1. AnswerTurn(s, r) = q
      BY <1>1, <1>3, <2>2 DEF AnswerTurn, Past
    <3> HIDE DEF w
    <3> QED BY <2>1, <2>2, <3>1, TurnHandsOff
  <2>3. CASE k = "panic"
    <3> DEFINE q == [r EXCEPT !.conn = fail(w, d + 1)]
    <3>1. AnswerTurn(s, r) = q
      BY <1>1, <1>3, <2>3 DEF AnswerTurn, Past
    <3> HIDE DEF w
    <3> QED BY <2>1, <2>3, <3>1, TurnPanics
  <2>4. CASE k \notin {"wait", "stream", "panic"}
    <3>1. AnswerTurn(s, r) = AnsweredBy(s, r, w, d)
      BY <1>1, <1>3, <2>4 DEF AnswerTurn, Past, AnsweredBy
    <3>2. s[d + 1] \notin {"wait", "stream", "panic", "refused"}
      BY <1>1, <2>4
    <3> HIDE DEF w
    <3> QED BY <2>1, <3>1, <3>2, TurnAnswers
  <2> QED BY <2>2, <2>3, <2>4
<1> QED BY <1>2, <1>3

\* Whatever the turn does, it goes on or stops in order.
LEMMA TurnKeeps ==
    ASSUME NEW s \in Seq(Kinds), NEW b \in Seq(Nat), NEW e \in Nat, NEW n, NEW r, NEW t \in Nat,
           Goes(s, b, e, n, r, t)
    PROVE  Goes(s, b, e, n, AnswerTurn(s, r), t + 1)
<1> DEFINE p == r.conn
<1>1. PICK d \in Nat : Went(s, b, e, n, r, t, d)
  BY DEF Goes
<1>2. r \in Turns /\ p \in ConnType
  BY DEF Goes, Turns
<1>3. p.phase \in {"idle", "head", "body", "refused"}
  BY <1>2 DEF ConnType
<1>4. CASE r.stop # "turn"
  <2>1. AnswerTurn(s, r) = r
    BY <1>4 DEF AnswerTurn
  <2>2. Went(s, b, e, n, r, t + 1, d)
    BY <1>1, <1>4 DEF Went
  <2>3. Goes(s, b, e, n, r, t + 1)
    BY <2>2 DEF Goes
  <2> QED BY <2>1, <2>3
<1>5. CASE r.stop = "turn" /\ p.closing
  <2>1. AnswerTurn(s, r) = [r EXCEPT !.stop = "closing"]
    BY <1>5 DEF AnswerTurn
  <2>2. Goes(s, b, e, n, [r EXCEPT !.stop = "closing"], t + 1)
    BY <1>1, <1>5, TurnStops
  <2> QED BY <2>1, <2>2
<1>6. CASE r.stop = "turn" /\ ~p.closing /\ p.moving # 0
  <2>1. AnswerTurn(s, r) = [r EXCEPT !.stop = "input"]
    BY <1>6 DEF AnswerTurn
  <2>2. p.phase = "idle"
    BY <1>1, <1>6 DEF Went, Loops, Serves, Within
  <2>3. Goes(s, b, e, n, [r EXCEPT !.stop = "input"], t + 1)
    BY <1>1, <1>6, <2>2, TurnStops
  <2> QED BY <2>1, <2>3
<1>7. CASE r.stop = "turn" /\ ~p.closing /\ p.moving = 0 /\ Len(p.output) >= MaxOutput
  <2>1. AnswerTurn(s, r) = [r EXCEPT !.stop = "output"]
    BY <1>7 DEF AnswerTurn
  <2>2. p.phase = "idle"
    <3>1. Len(p.output) \in Nat /\ MaxOutput \in Nat
      <4>1. p.output \in Seq(Nat)
        BY <1>2 DEF ConnType
      <4> QED BY <4>1, LoopAssumption
    <3>2. ~(Len(p.output) < MaxOutput)
      BY <1>7, <3>1
    <3> QED BY <1>1, <1>7, <3>2 DEF Went, Loops
  <2>3. Goes(s, b, e, n, [r EXCEPT !.stop = "output"], t + 1)
    BY <1>1, <1>7, <2>2, TurnStops
  <2> QED BY <2>1, <2>3
<1>8. CASE r.stop = "turn" /\ ~p.closing /\ p.moving = 0 /\ ~(Len(p.output) >= MaxOutput)
  <2>1. Turning(s, b, e, n, r, t, d)
    BY <1>1, <1>8 DEF Turning
  <2>2. CASE p.phase = "idle"
    BY <2>1, <2>2, TurnIdle
  <2>3. CASE p.phase = "head"
    BY <2>1, <2>3, TurnHead
  <2>4. CASE p.phase = "refused"
    BY <2>1, <2>4, TurnReads, TurnRefused
  <2>5. CASE p.phase = "body"
    BY <2>1, <2>5, TurnReads, TurnBody
  <2> QED BY <1>3, <2>2, <2>3, <2>4, <2>5
<1> QED BY <1>4, <1>5, <1>6, <1>7, <1>8

\* A connection is never further than the end of its script.
LEMMA FarBound ==
    ASSUME NEW s \in Seq(Kinds), NEW n, NEW b, NEW d \in Nat, Serves(s, n, b, d)
    PROVE  Far(s, n, d) <= 3 * Len(s) + 1
<1>1. n \in ConnType /\ d \in 0..Len(s) /\ Len(s) \in Nat /\ Within(s, n, d)
  BY DEF Serves, InOrder
<1>2. CASE n.closing \/ n.moving # 0
  BY <1>1, <1>2 DEF Far
<1>3. CASE ~n.closing /\ n.moving = 0 /\ n.phase = "idle"
  BY <1>1, <1>3 DEF Far
<1>4. CASE ~n.closing /\ n.moving = 0 /\ n.phase # "idle"
  <2>1. d < Len(s)
    BY <1>1, <1>4 DEF Within
  <2>2. Far(s, n, d) = 3 * d + 1 \/ Far(s, n, d) = 3 * d + 2
    BY <1>4 DEF Far
  <2> QED BY <1>1, <2>1, <2>2
<1> QED BY <1>2, <1>3, <1>4

\* The turns, one after another.
TurnsFrom(f, s, x, K) == f = [t \in 0..K |-> IF t = 0 THEN {x} ELSE {AnswerTurn(s, r) : r \in f[t - 1]}]

\* The turns of Conn::answer, one after another, up to any number of them.
LEMMA TurnsExist ==
    ASSUME NEW s, NEW x, NEW K \in Nat
    PROVE  \E f : TurnsFrom(f, s, x, K)
<1> DEFINE Step(f, t) == IF t = 0 THEN {x} ELSE {AnswerTurn(s, r) : r \in f[t - 1]}
<1> DEFINE T == {N \in Nat : \E f : f = [t \in 0..N |-> Step(f, t)]}
<1>1. 0 \in T
  <2> DEFINE f == [t \in 0..0 |-> {x}]
  <2>1. f = [t \in 0..0 |-> Step(f, t)]
    OBVIOUS
  <2> QED BY <2>1
<1>2. ASSUME NEW N \in Nat, N \in T
      PROVE  N + 1 \in T
  <2>1. PICK f : f = [t \in 0..N |-> Step(f, t)]
    BY <1>2
  <2> DEFINE g == [t \in 0..(N + 1) |-> IF t <= N THEN f[t] ELSE {AnswerTurn(s, r) : r \in f[N]}]
  <2>2. \A t \in 0..(N + 1) : g[t] = Step(g, t)
    <3>1. ASSUME NEW t \in 0..(N + 1), t = 0
          PROVE  g[t] = Step(g, t)
      <4>1. g[t] = f[t] /\ t \in 0..N
        BY <3>1
      <4>2. f[t] = {x}
        BY <2>1, <3>1, <4>1
      <4> QED BY <3>1, <4>1, <4>2
    <3>2. ASSUME NEW t \in 0..(N + 1), t # 0
          PROVE  g[t] = {AnswerTurn(s, r) : r \in f[t - 1]} /\ g[t - 1] = f[t - 1]
      <4>1. t - 1 \in 0..(N + 1) /\ t - 1 <= N
        BY <3>2
      <4>2. g[t - 1] = f[t - 1]
        BY <4>1
      <4>3. CASE t <= N
        <5>1. g[t] = f[t] /\ t \in 0..N
          BY <4>3
        <5> HIDE DEF g
        <5>2. f[t] = Step(f, t)
          BY <2>1, <5>1
        <5> QED BY <3>2, <4>2, <5>1, <5>2
      <4>4. CASE ~(t <= N)
        <5>1. t = N + 1 /\ t - 1 = N
          BY <4>4
        <5>2. g[t] = {AnswerTurn(s, r) : r \in f[N]}
          BY <4>4
        <5> HIDE DEF g
        <5> QED BY <4>2, <5>1, <5>2
      <4> QED BY <4>3, <4>4
    <3> HIDE DEF g
    <3> QED BY <3>1, <3>2
  <2>3. g = [t \in 0..(N + 1) |-> Step(g, t)]
    <3>1. g = [t \in 0..(N + 1) |-> g[t]]
      OBVIOUS
    <3> HIDE DEF g
    <3> QED BY <2>2, <3>1
  <2> HIDE DEF g
  <2> QED BY <2>3
<1>3. Nat \subseteq T
  <2> HIDE DEF T
  <2> QED BY <1>1, <1>2, SetInduction
<1> QED BY <1>3 DEF TurnsFrom

\* Conn::answer stops, with everything in order.
LEMMA AnswerHolds ==
    ASSUME NEW s \in Seq(Kinds), NEW b \in Seq(Nat), NEW n \in ConnType, NEW e \in Nat, Loops(s, n, b, e)
    PROVE  \E t \in Nat : Goes(s, b, e, n, answer(s, n), t) /\ answer(s, n).stop # "turn"
<1> DEFINE K == 3 * Len(s) + 2
<1> DEFINE x == [conn |-> n, stop |-> "turn", made |-> {}]
<1> DEFINE F == CHOOSE f : f = [t \in 0..K |-> IF t = 0 THEN {x} ELSE {AnswerTurn(s, r) : r \in f[t - 1]}]
<1>1. answer(s, n) = CHOOSE r \in F[K] : TRUE
  BY DEF answer
<1>2. K \in Nat /\ Len(s) \in Nat
  OBVIOUS
<1>3. Goes(s, b, e, n, x, 0)
  <2>1. x \in Turns /\ x.conn = n /\ x.stop = "turn" /\ x.made = {}
    BY DEF Turns
  <2> HIDE DEF x
  <2>2. 0 <= Far(s, n, e)
    BY <1>2 DEF Far
  <2>3. Went(s, b, e, n, x, 0, e)
    BY <2>1, <2>2 DEF Went
  <2>4. Kept(n, n)
    BY DEF Kept
  <2> QED BY <2>1, <2>3, <2>4 DEF Goes
<1> HIDE DEF x, K
<1>a. F = CHOOSE f : TurnsFrom(f, s, x, K)
  BY DEF TurnsFrom
<1> HIDE DEF F
<1>b. TurnsFrom(F, s, x, K)
  BY <1>2, <1>a, TurnsExist
<1>4. F = [t \in 0..K |-> IF t = 0 THEN {x} ELSE {AnswerTurn(s, r) : r \in F[t - 1]}]
  BY <1>b DEF TurnsFrom
<1> DEFINE T == {t \in Nat : t <= K => \E r : F[t] = {r} /\ Goes(s, b, e, n, r, t)}
<1>5. 0 \in T
  <2>1. F[0] = {x}
    BY <1>2, <1>4
  <2> QED BY <1>3, <2>1
<1>6. ASSUME NEW t \in Nat, t \in T
      PROVE  t + 1 \in T
  <2>1. SUFFICES ASSUME t + 1 <= K PROVE \E r : F[t + 1] = {r} /\ Goes(s, b, e, n, r, t + 1)
    OBVIOUS
  <2>2. PICK r : F[t] = {r} /\ Goes(s, b, e, n, r, t)
    BY <1>2, <1>6, <2>1
  <2>3. F[t + 1] = {AnswerTurn(s, q) : q \in F[t]}
    <3>1. t + 1 \in 0..K /\ t + 1 # 0 /\ (t + 1) - 1 = t
      BY <1>2, <2>1
    <3> QED BY <1>4, <3>1
  <2>4. F[t + 1] = {AnswerTurn(s, r)}
    BY <2>2, <2>3
  <2>5. Goes(s, b, e, n, AnswerTurn(s, r), t + 1)
    BY <2>2, TurnKeeps
  <2> QED BY <2>4, <2>5
<1>7. Nat \subseteq T
  <2> HIDE DEF T
  <2> QED BY <1>5, <1>6, SetInduction
<1>8. PICK r : F[K] = {r} /\ Goes(s, b, e, n, r, K)
  BY <1>2, <1>7
<1>9. answer(s, n) = r
  BY <1>1, <1>8
<1>10. r.stop # "turn"
  <2>1. SUFFICES ASSUME r.stop = "turn" PROVE FALSE
    OBVIOUS
  <2>2. PICK d \in Nat : Went(s, b, e, n, r, K, d)
    BY <1>8 DEF Goes
  <2>3. Serves(s, r.conn, b, d) /\ K <= Far(s, r.conn, d)
    BY <2>1, <2>2 DEF Went, Loops
  <2>4. Far(s, r.conn, d) <= 3 * Len(s) + 1
    BY <2>3, FarBound
  <2>5. Far(s, r.conn, d) \in Nat
    BY <1>2 DEF Far
  <2> QED BY <1>2, <2>3, <2>4, <2>5 DEF K
<1> QED BY <1>2, <1>8, <1>9, <1>10

\* The lesser of two.
LEMMA MinIs ==
    ASSUME NEW x \in Int, NEW y \in Int
    PROVE  Min({x, y}) = IF x <= y THEN x ELSE y
<1> DEFINE z == IF x <= y THEN x ELSE y
<1>1. z \in {x, y} /\ z <= x /\ z <= y
  OBVIOUS
<1>2. \A w \in {x, y} : w <= x /\ w <= y => w = z
  OBVIOUS
<1> QED BY <1>1, <1>2 DEF Min

\* What reading changes of a connection.
MoreRead(m, n) ==
    /\ m \in ConnType
    /\ n.got <= m.got /\ m.eaten = n.eaten /\ m.phase = n.phase /\ m.output = n.output
    /\ m.closing = n.closing /\ m.moving = n.moving /\ m.place = n.place
    /\ m.full = n.full /\ m.queued = n.queued /\ m.watch = n.watch /\ m.held = n.held

\* One read takes what there is, as far as it fits.
LEMMA ChunkIs ==
    ASSUME NEW c \in Conn, NEW n \in ConnType, sent[c] \in Nat, n.got <= sent[c]
    PROVE  /\ MoreRead(Chunk(c, n), n)
           /\ Chunk(c, n).got <= sent[c] /\ Chunk(c, n).got <= n.got + ReadSize
<1> DEFINE z == Min({sent[c] - n.got, ReadSize})
<1>1. n.got \in Nat /\ ReadSize \in Nat
  BY LoopAssumption DEF ConnType
<1>2. z \in Nat /\ z <= sent[c] - n.got /\ z <= ReadSize
  <2>1. sent[c] - n.got \in Int /\ ReadSize \in Int
    BY <1>1
  <2>2. z = IF sent[c] - n.got <= ReadSize THEN sent[c] - n.got ELSE ReadSize
    BY <2>1, MinIs
  <2> HIDE DEF z
  <2> QED BY <1>1, <2>2
<1>3. Chunk(c, n) = IF z = 0 THEN [n EXCEPT !.ended = (c \in shut)] ELSE [n EXCEPT !.got = @ + z]
  BY DEF Chunk
<1> HIDE DEF z
<1>4. CASE z = 0
  <2> DEFINE q == c \in shut
  <2> DEFINE m == [n EXCEPT !.ended = q]
  <2>1. m \in ConnType
    <3>1. q \in BOOLEAN
      OBVIOUS
    <3> HIDE DEF q
    <3> QED BY <3>1 DEF ConnType
  <2>2. /\ m.got = n.got /\ m.eaten = n.eaten /\ m.phase = n.phase /\ m.output = n.output
        /\ m.closing = n.closing /\ m.moving = n.moving /\ m.place = n.place
        /\ m.full = n.full /\ m.queued = n.queued /\ m.watch = n.watch /\ m.held = n.held
    BY DEF ConnType
  <2>3. Chunk(c, n) = m
    BY <1>3, <1>4
  <2> HIDE DEF m
  <2> QED BY <1>1, <2>1, <2>2, <2>3 DEF MoreRead
<1>5. CASE z # 0
  <2> DEFINE m == [n EXCEPT !.got = @ + z]
  <2>1. m \in ConnType
    <3>1. n.got + z \in Nat
      BY <1>1, <1>2
    <3>2. m = [n EXCEPT !.got = n.got + z]
      OBVIOUS
    <3> QED BY <3>1, <3>2 DEF ConnType
  <2>2. /\ m.got = n.got + z /\ m.eaten = n.eaten /\ m.phase = n.phase /\ m.output = n.output
        /\ m.closing = n.closing /\ m.moving = n.moving /\ m.place = n.place
        /\ m.full = n.full /\ m.queued = n.queued /\ m.watch = n.watch /\ m.held = n.held
    BY DEF ConnType
  <2>3. Chunk(c, n) = m
    BY <1>3, <1>5
  <2> HIDE DEF m
  <2> QED BY <1>1, <1>2, <2>1, <2>2, <2>3 DEF MoreRead
<1> QED BY <1>4, <1>5

\* Conn::read keeps a connection in order, and within a read more than a
\* request.
LEMMA ReadIs ==
    ASSUME NEW c \in Conn, NEW s \in Seq(Kinds), NEW b, NEW n \in ConnType, NEW d \in Nat,
           Loops(s, n, b, d), wants_read(n), sent[c] \in Nat, n.got <= sent[c],
           sent[c] <= Upto(s, Len(s))
    PROVE  MoreRead(read(c, n), n) /\ Loops(s, read(c, n), b, d) /\ read(c, n).got <= sent[c]
<1> DEFINE m == Chunk(c, n)
<1> DEFINE p == read(c, n)
<1>1. MoreRead(m, n) /\ m.got <= sent[c] /\ m.got <= n.got + ReadSize
  BY ChunkIs
<1>2. m \in ConnType
  BY <1>1 DEF MoreRead
<1>3. MoreRead(Chunk(c, m), m) /\ Chunk(c, m).got <= sent[c] /\ Chunk(c, m).got <= m.got + ReadSize
  BY <1>1, <1>2, ChunkIs
<1>4. p = IF m.got = n.got + ReadSize /\ wants_read(m) THEN Chunk(c, m) ELSE m
  BY DEF read
<1>5. n.got \in Nat /\ m.got \in Nat /\ n.eaten \in Nat /\ ReadSize \in Nat /\ 2 <= ReadSize
  <2>1. n.got \in Nat /\ n.eaten \in Nat
    BY DEF ConnType
  <2>2. m.got \in Nat
    BY <1>2 DEF ConnType
  <2> QED BY <2>1, <2>2, LoopAssumption
<1>6. n.eaten <= n.got /\ n.got - n.eaten <= ReadSize
  <2>1. n.eaten <= n.got
    BY DEF Loops, Serves
  <2>2. n.got - n.eaten < (IF n.phase = "body" THEN ReadSize + 1 ELSE ReadSize)
    BY DEF wants_read, Unread
  <2> QED BY <1>5, <2>1, <2>2
<1>7. MoreRead(p, n) /\ p.got <= sent[c] /\ p.got - p.eaten <= 2 * ReadSize
  <2>1. CASE m.got = n.got + ReadSize /\ wants_read(m)
    <3>1. p = Chunk(c, m)
      BY <1>4, <2>1
    <3> HIDE DEF p, m
    <3>2. MoreRead(p, n)
      <4>1. MoreRead(p, m)
        BY <1>3, <3>1
      <4>2. p.got \in Nat
        BY <4>1 DEF MoreRead, ConnType
      <4> QED BY <1>1, <1>5, <4>1, <4>2 DEF MoreRead
    <3>3. m.got - m.eaten < ReadSize + 1 /\ m.eaten = n.eaten
      <4>1. m.got - m.eaten < (IF m.phase = "body" THEN ReadSize + 1 ELSE ReadSize)
        BY <2>1 DEF wants_read, Unread
      <4>2. m.eaten = n.eaten
        BY <1>1 DEF MoreRead
      <4> QED BY <1>5, <4>1, <4>2
    <3>4. p.got \in Nat /\ p.eaten = n.eaten /\ p.got <= m.got + ReadSize /\ p.got <= sent[c]
      <4>1. p.got \in Nat /\ p.eaten = n.eaten
        BY <3>2 DEF MoreRead, ConnType
      <4> QED BY <1>3, <3>1, <4>1
    <3>5. p.got - p.eaten <= 2 * ReadSize
      BY <1>5, <3>3, <3>4
    <3> QED BY <3>2, <3>4, <3>5
  <2>2. CASE ~(m.got = n.got + ReadSize /\ wants_read(m))
    <3>1. p = m
      BY <1>4, <2>2
    <3> HIDE DEF p, m
    <3>2. m.eaten = n.eaten
      BY <1>1 DEF MoreRead
    <3> QED BY <1>1, <1>5, <1>6, <3>1, <3>2
  <2> QED BY <2>1, <2>2
<1> HIDE DEF p, m
<1>8. p \in ConnType /\ p.got \in Nat /\ n.got <= p.got /\ p.eaten = n.eaten
  BY <1>7 DEF MoreRead, ConnType
<1>9. p.got <= Upto(s, Len(s)) /\ p.eaten <= p.got
  <2>1. Upto(s, Len(s)) \in Nat
    BY UptoIs
  <2> QED BY <1>5, <1>6, <1>7, <1>8, <2>1
<1>10. Within(s, p, d)
  <2>1. Within(s, n, d)
    BY DEF Loops, Serves
  <2>2. n.eaten < n.got => p.eaten < p.got
    BY <1>5, <1>8
  <2> QED BY <1>7, <1>8, <2>1, <2>2 DEF Within, MoreRead
<1>11. Serves(s, p, b, d)
  <2>1. p.output = n.output /\ p.closing = n.closing
    BY <1>7 DEF MoreRead
  <2> QED BY <1>8, <1>9, <1>10, <2>1 DEF Loops, Serves
<1>12. Loops(s, p, b, d)
  <2>1. p.output = n.output /\ p.closing = n.closing /\ p.phase = n.phase
    BY <1>7 DEF MoreRead
  <2> QED BY <1>7, <1>11, <2>1 DEF Loops, Unread
<1> QED BY <1>7, <1>12 DEF p

\* What writing changes of a connection, and of what its socket holds.
IsWritten(p, q, n, t, k) ==
    /\ p \in ConnType
    /\ Kept(p, n) /\ p.eaten = n.eaten /\ p.phase = n.phase
    /\ p.closing = n.closing /\ p.moving = n.moving
    /\ Len(p.output) <= Len(n.output)
    /\ q \in Seq(Nat) /\ Len(q) <= SocketRoom
    /\ (t \o q) \o p.output = (t \o k) \o n.output

\* Conn::write moves the start of what waits to the socket, as far as it
\* takes it: none is lost, doubled or reordered.
LEMMA WrittenIs ==
    ASSUME NEW c \in Conn, NEW n \in ConnType, NEW t \in Seq(Nat),
           sock[c] \in Seq(Nat), Len(sock[c]) <= SocketRoom
    PROVE  IsWritten(Written(c, n), sock[c] \o SubSeq(n.output, 1, Writes(c, n)), n, t, sock[c])
<1> DEFINE w == Writes(c, n)
<1> DEFINE k == sock[c]
<1> DEFINE front == SubSeq(n.output, 1, w)
<1> DEFINE rest == SubSeq(n.output, w + 1, Len(n.output))
<1> DEFINE room == IF rest = <<>> THEN Min({n.room, MaxOutput}) ELSE n.room
<1> DEFINE p == [n EXCEPT !.output = rest, !.room = room]
<1>1. n.output \in Seq(Nat) /\ Len(n.output) \in Nat /\ n.room \in Nat
  BY DEF ConnType
<1>2. k \in Seq(Nat) /\ Len(k) \in Nat /\ Len(k) <= SocketRoom /\ SocketRoom \in Nat /\ MaxOutput \in Nat
  <2>1. SocketRoom \in Nat /\ MaxOutput \in Nat
    BY LoopAssumption
  <2>2. k \in Seq(Nat) /\ Len(k) <= SocketRoom
    OBVIOUS
  <2> HIDE DEF k
  <2> QED BY <2>1, <2>2
<1>3. w \in Nat /\ w <= Len(n.output) /\ w <= SocketRoom - Len(k)
  <2>1. w = Min({Len(n.output), SocketRoom - Len(k)})
    BY DEF Writes
  <2>2. SocketRoom - Len(k) \in Int /\ Len(n.output) \in Int
    BY <1>1, <1>2
  <2>3. w = IF Len(n.output) <= SocketRoom - Len(k) THEN Len(n.output) ELSE SocketRoom - Len(k)
    BY <1>1, <2>1, <2>2, MinIs
  <2> HIDE DEF w, k
  <2> QED BY <1>1, <1>2, <2>2, <2>3
<1>4. Written(c, n) = p
  BY DEF Written
<1> HIDE DEF w, k
<1>5. front \in Seq(Nat) /\ Len(front) = w /\ rest \in Seq(Nat) /\ Len(rest) <= Len(n.output)
  <2>1. \A i \in 1..w : n.output[i] \in Nat
    BY <1>1, <1>3
  <2>2. \A i \in (w + 1)..Len(n.output) : n.output[i] \in Nat
    BY <1>1, <1>3
  <2>3. front \in Seq(Nat) /\ Len(front) = (IF 1 <= w THEN w - 1 + 1 ELSE 0)
    BY <1>3, <2>1, SubSeqProperties
  <2>4. rest \in Seq(Nat) /\ Len(rest) = (IF w + 1 <= Len(n.output) THEN Len(n.output) - (w + 1) + 1 ELSE 0)
    BY <1>1, <1>3, <2>2, SubSeqProperties
  <2> HIDE DEF front, rest
  <2> QED BY <1>1, <1>3, <2>3, <2>4
<1>6. front \o rest = n.output
  <2>1. 1 \in 1..(Len(n.output) + 1) /\ w \in (1 - 1)..Len(n.output) /\ Len(n.output) \in w..Len(n.output)
    BY <1>1, <1>3
  <2>2. front \o rest = SubSeq(n.output, 1, Len(n.output))
    BY <1>1, <2>1, ConcatAdjacentSubSeq
  <2> HIDE DEF front, rest
  <2> QED BY <1>1, <2>2, SubSeqFull
<1> HIDE DEF front
<1>7. room \in Nat
  <2>1. Min({n.room, MaxOutput}) = IF n.room <= MaxOutput THEN n.room ELSE MaxOutput
    <3>1. n.room \in Int /\ MaxOutput \in Int
      BY <1>1, <1>2
    <3> QED BY <3>1, MinIs
  <2>2. Min({n.room, MaxOutput}) \in Nat
    BY <1>1, <1>2, <2>1
  <2> HIDE DEF rest
  <2> QED BY <1>1, <2>2
<1> HIDE DEF rest, room
<1>8. p \in ConnType
  BY <1>5, <1>7 DEF ConnType
<1>9. p.output = rest /\ Kept(p, n) /\ p.eaten = n.eaten /\ p.phase = n.phase
      /\ p.closing = n.closing /\ p.moving = n.moving
  BY DEF ConnType, Kept
<1> HIDE DEF p
<1>10. k \o front \in Seq(Nat) /\ Len(k \o front) <= SocketRoom
  <2>1. k \o front \in Seq(Nat) /\ Len(k \o front) = Len(k) + Len(front)
    BY <1>2, <1>5, ConcatProperties
  <2> QED BY <1>2, <1>3, <1>5, <2>1
<1>11. (t \o (k \o front)) \o rest = (t \o k) \o n.output
  <2>1. t \o (k \o front) = (t \o k) \o front
    BY <1>2, <1>5, Assoc
  <2>2. t \o k \in Seq(Nat)
    BY <1>2, ConcatProperties
  <2>3. ((t \o k) \o front) \o rest = (t \o k) \o (front \o rest)
    BY <1>5, <2>2, Assoc
  <2> QED BY <1>6, <2>1, <2>3
<1> QED BY <1>4, <1>5, <1>8, <1>9, <1>10, <1>11 DEF IsWritten, k, front, w

\* Writing keeps a connection in order, on the loop too.
LEMMA WrittenServes ==
    ASSUME NEW s, NEW t, NEW k, NEW n \in ConnType, NEW p, NEW q, NEW d,
           IsWritten(p, q, n, t, k), Serves(s, n, t \o k, d)
    PROVE  Serves(s, p, t \o q, d)
<1>1. /\ p \in ConnType /\ p.eaten = n.eaten /\ p.got = n.got /\ p.closing = n.closing
      /\ p.phase = n.phase /\ p.moving = n.moving
      /\ (t \o q) \o p.output = (t \o k) \o n.output
  BY DEF IsWritten, Kept
<1>2. Within(s, p, d)
  <2>1. Within(s, n, d)
    BY DEF Serves
  <2> QED BY <1>1, <2>1 DEF Within
<1> QED BY <1>1, <1>2 DEF Serves

\* Writing leaves a connection on the loop as it has to be there.
LEMMA WrittenLoops ==
    ASSUME NEW s, NEW t, NEW k, NEW n \in ConnType, NEW p, NEW q, NEW d,
           IsWritten(p, q, n, t, k), Loops(s, n, t \o k, d)
    PROVE  Loops(s, p, t \o q, d)
<1>1. Serves(s, p, t \o q, d)
  <2>1. Serves(s, n, t \o k, d)
    BY DEF Loops
  <2> QED BY <2>1, WrittenServes
<1>2. /\ p \in ConnType /\ p.eaten = n.eaten /\ p.got = n.got /\ p.closing = n.closing
      /\ p.phase = n.phase /\ Len(p.output) <= Len(n.output)
  BY DEF IsWritten, Kept
<1>3. Len(p.output) \in Nat /\ Len(n.output) \in Nat /\ MaxOutput \in Nat /\ LargeReply \in Nat
  <2>1. p.output \in Seq(Nat) /\ n.output \in Seq(Nat)
    BY <1>2 DEF ConnType
  <2> QED BY <2>1, LoopAssumption
<1>4. Len(p.output) < MaxOutput + LargeReply
  <2>1. Len(n.output) < MaxOutput + LargeReply
    BY DEF Loops
  <2> QED BY <1>2, <1>3, <2>1
<1>5. p.phase # "idle" /\ ~p.closing => Len(p.output) < MaxOutput
  <2>1. n.phase # "idle" /\ ~n.closing => Len(n.output) < MaxOutput
    BY DEF Loops
  <2> QED BY <1>2, <1>3, <2>1
<1>6. Unread(p) = Unread(n)
  BY <1>2 DEF Unread
<1> QED BY <1>1, <1>4, <1>5, <1>6 DEF Loops

\* A connection handed off has what was not written and not read, and the
\* request it waits with.
Handed(n) == [Gone(n, "thread") EXCEPT !.output = n.output, !.moving = n.moving]

\* What goes to a thread keeps what was not written, what was not read and
\* the request it waits with (Step::HandOff).
LEMMA HandsOff ==
    ASSUME NEW s, NEW b, NEW d, NEW n \in ConnType, Serves(s, n, b, d), n.moving # 0
    PROVE  /\ Handed(n) \in ConnType /\ Serves(s, Handed(n), b, d)
           /\ Handed(n).place = "thread" /\ Handed(n).phase = "idle" /\ Handed(n).moving # 0
           /\ Handed(n).held = 0 /\ Handed(n).got = n.got
<1> DEFINE h == Handed(n)
<1>1. h \in ConnType
  BY DEF ConnType, Gone, NewConn, Handed
<1>2. /\ h.place = "thread" /\ h.phase = "idle" /\ h.moving = n.moving /\ h.held = 0
      /\ h.got = n.got /\ h.eaten = n.eaten /\ h.closing = FALSE /\ h.output = n.output
  BY DEF ConnType, Gone, NewConn, Handed
<1> HIDE DEF h
<1>3. Within(s, h, d) /\ ~n.closing
  <2>1. Within(s, n, d)
    BY DEF Serves
  <2> QED BY <1>2, <2>1 DEF Within
<1>4. Serves(s, h, b, d)
  BY <1>1, <1>2, <1>3 DEF Serves
<1> QED BY <1>1, <1>2, <1>4 DEF h

\* A connection that left has nothing more to be written, and counts nothing.
LEMMA GoneIs ==
    ASSUME NEW n \in ConnType, NEW place \in {"stream", "closed"}
    PROVE  /\ Gone(n, place) \in ConnType
           /\ Gone(n, place).place = place /\ Gone(n, place).got = n.got
           /\ Gone(n, place).eaten = n.eaten
           /\ Gone(n, place).output = <<>> /\ Gone(n, place).held = 0
<1>1. n.got \in Nat /\ n.eaten \in Nat
  BY DEF ConnType
<1> DEFINE m == [NewConn EXCEPT !.place = place, !.got = n.got, !.eaten = n.eaten]
<1>2. Gone(n, place) = m
  BY DEF Gone
<1>3. m \in ConnType
  <2>1. NewConn \in ConnType
    BY DEF NewConn, ConnType
  <2> QED BY <1>1, <2>1 DEF ConnType
<1>4. m.place = place /\ m.got = n.got /\ m.eaten = n.eaten /\ m.output = <<>> /\ m.held = 0
  BY DEF NewConn
<1> QED BY <1>2, <1>3, <1>4

\* What a round leaves of a connection it answered on: it waits for the
\* journal, with what it made after the requests answered before.
Rested(s, b, e, n, m, made) ==
    /\ m \in ConnType
    /\ m.place = n.place /\ m.got = n.got
    /\ \E d \in Nat : Loops(s, m, b, d) /\ Rests(s, m, d, FALSE)
    /\ made \subseteq Nat
    /\ \A i \in made : e < i

Answering(a) == [a.conn EXCEPT !.full = @ \/ a.stop = "output", !.queued = TRUE]

\* A connection that answered: Loop::receive marks it as full where its
\* replies filled up, and queues it to reply.
LEMMA AnswerRests ==
    ASSUME NEW s \in Seq(Kinds), NEW b \in Seq(Nat), NEW n \in ConnType, NEW e \in Nat, Loops(s, n, b, e)
    PROVE  Rested(s, b, e, n, Answering(answer(s, n)), answer(s, n).made)
<1> DEFINE a == answer(s, n)
<1> DEFINE p == a.conn
<1> DEFINE f == p.full \/ a.stop = "output"
<1> DEFINE m == [p EXCEPT !.full = f, !.queued = TRUE]
<1>1. PICK t \in Nat : Goes(s, b, e, n, a, t) /\ a.stop # "turn"
  BY AnswerHolds
<1>2. Answering(a) = m
  BY DEF Answering
<1> HIDE DEF a
<1>3. PICK d \in Nat : Went(s, b, e, n, a, t, d)
  BY <1>1 DEF Goes
<1>4. a \in Turns /\ p \in ConnType
  BY <1>1 DEF Goes, Turns
<1> HIDE DEF p
<1>5. f \in BOOLEAN /\ p.full \in BOOLEAN
  <2>1. p.full \in BOOLEAN
    BY <1>4 DEF ConnType
  <2> QED BY <2>1
<1> HIDE DEF f
<1>6. m \in ConnType
  BY <1>4, <1>5 DEF ConnType
<1>7. /\ m.place = p.place /\ m.got = p.got /\ m.eaten = p.eaten /\ m.phase = p.phase
      /\ m.output = p.output /\ m.closing = p.closing /\ m.moving = p.moving /\ m.full = f
      /\ m.room = p.room
  BY <1>4 DEF ConnType
<1> HIDE DEF m
<1>12. Loops(s, m, b, d)
  <2>1. Loops(s, p, b, d)
    BY <1>3 DEF Went, p
  <2>2. /\ m.eaten = p.eaten /\ m.got = p.got /\ m.phase = p.phase /\ m.output = p.output
        /\ m.closing = p.closing /\ m.moving = p.moving
    BY <1>7
  <2>3. Within(s, m, d)
    <3>1. Within(s, p, d)
      BY <2>1 DEF Loops, Serves
    <3> QED BY <2>2, <3>1 DEF Within
  <2>4. Serves(s, m, b, d)
    BY <1>6, <2>1, <2>2, <2>3 DEF Loops, Serves
  <2> QED BY <2>1, <2>2, <2>4 DEF Loops, Unread
<1>13. Rests(s, m, d, FALSE)
  <2>1. m.phase # "idle" /\ ~m.closing => s[d + 1] \in Split
    BY <1>1, <1>3, <1>7 DEF Went, p
  <2>2. a.stop \in {"closing", "input", "output", "handoff"}
    BY <1>1, <1>4 DEF Turns
  <2>3. m.closing \/ m.moving # 0 \/ m.full \/ Unread(m) < 2
    <3>1. a.stop = "closing" => m.closing
      BY <1>1, <1>7 DEF Goes, p
    <3>2. a.stop = "handoff" => m.moving # 0
      BY <1>1, <1>7 DEF Goes, p
    <3>3. a.stop = "output" => m.full
      BY <1>7 DEF f
    <3>4. a.stop = "input" => m.moving # 0 \/ Unread(m) < 2
      BY <1>1, <1>7 DEF Goes, Unread, p
    <3> QED BY <2>2, <3>1, <3>2, <3>3, <3>4
  <2> QED BY <2>1, <2>3 DEF Rests
<1>14. a.made \subseteq Nat /\ \A i \in a.made : e < i
  BY <1>3, <1>4 DEF Went, Turns
<1>15. m.place = n.place /\ m.got = n.got
  BY <1>1, <1>7 DEF Goes, Kept, p
<1>16. Rested(s, b, e, n, m, a.made)
  BY <1>6, <1>12, <1>13, <1>14, <1>15 DEF Rested
<1> QED BY <1>2, <1>16 DEF a

--------------------------------------------------------------------------
(* The counters.                                                           *)

\* What each connection holds is finite, and so what they all do.
LEMMA WeightFinite ==
    ASSUME conn \in [Conn -> ConnType]
    PROVE  /\ IsFiniteSet(Weight) /\ Cardinality(Weight) \in Nat
           /\ IsFiniteSet(Open) /\ Cardinality(Open) \in Nat
<1> DEFINE f == [x \in Conn |-> {x} \X (1..conn[x].held)]
<1>1. \A x \in Conn : conn[x].held \in Nat
  BY DEF ConnType
<1>2. \A x \in DOMAIN f : IsFiniteSet(f[x])
  <2> TAKE x \in DOMAIN f
  <2>1. IsFiniteSet({x})
    BY FS_Singleton
  <2>2. \A h \in Nat : IsFiniteSet(1..h)
    BY FS_Interval
  <2>3. IsFiniteSet(1..conn[x].held)
    BY <1>1, <2>2
  <2> QED BY <2>1, <2>3, FS_Product
<1>3. Weight = UNION {f[x] : x \in DOMAIN f}
  BY DEF Weight
<1>4. IsFiniteSet(DOMAIN f)
  BY LoopAssumption
<1> HIDE DEF f
<1>5. IsFiniteSet(Weight)
  BY <1>2, <1>3, <1>4, ImageFinite, FS_UNION
<1>6. IsFiniteSet(Open)
  <2>1. Open \in SUBSET Conn
    BY DEF Open
  <2> QED BY <2>1, LoopAssumption, FS_Subset
<1> QED BY <1>5, <1>6, FS_CardinalityType

\* What the connections weigh changes with one of them.
LEMMA Weighs ==
    ASSUME NEW c \in Conn, NEW n \in ConnType, conn \in [Conn -> ConnType],
           conn' = [conn EXCEPT ![c] = n]
    PROVE  Cardinality(Weight') = Cardinality(Weight) - conn[c].held + n.held
<1> DEFINE Own(x) == {x} \X (1..conn[x].held)
<1> DEFINE f == [x \in Conn \ {c} |-> Own(x)]
<1> DEFINE W == UNION {f[x] : x \in DOMAIN f}
<1>1. n.held \in Nat /\ \A x \in Conn : conn[x].held \in Nat
  BY DEF ConnType
<1>2. \A x : \A h \in Nat : IsFiniteSet({x} \X (1..h)) /\ Cardinality({x} \X (1..h)) = h
  <2> TAKE x
  <2> TAKE h \in Nat
  <2>1. IsFiniteSet({x}) /\ Cardinality({x}) = 1
    BY FS_Singleton
  <2>2. IsFiniteSet(1..h) /\ Cardinality(1..h) = h
    BY FS_Interval
  <2>3. IsFiniteSet({x} \X (1..h)) /\ Cardinality({x} \X (1..h)) = Cardinality({x}) * Cardinality(1..h)
    BY <2>1, <2>2, FS_Product
  <2> QED BY <2>1, <2>2, <2>3
<1>3. IsFiniteSet(W)
  <2>1. DOMAIN f = Conn \ {c} /\ IsFiniteSet(Conn \ {c})
    BY LoopAssumption, FS_RemoveElement
  <2>2. \A x \in DOMAIN f : IsFiniteSet(f[x])
    BY <1>1, <1>2, <2>1
  <2> HIDE DEF f
  <2>3. IsFiniteSet({f[x] : x \in DOMAIN f})
    BY <2>1, ImageFinite
  <2> QED BY <2>2, <2>3, FS_UNION
<1>4. Weight = W \cup Own(c)
  BY DEF Weight
<1>5. Weight' = W \cup ({c} \X (1..n.held))
  <2>1. \A x \in Conn : conn'[x].held = IF x = c THEN n.held ELSE conn[x].held
    OBVIOUS
  <2>2. Weight' = UNION {{x} \X (1..conn'[x].held) : x \in Conn}
    BY DEF Weight
  <2> QED BY <2>1, <2>2
<1>6. \A h \in Nat : W \cap ({c} \X (1..h)) = {}
  OBVIOUS
<1> HIDE DEF W
<1>7. \A h \in Nat : Cardinality(W \cup ({c} \X (1..h))) = Cardinality(W) + h
  <2> TAKE h \in Nat
  <2> DEFINE H == {c} \X (1..h)
  <2>1. IsFiniteSet(H) /\ Cardinality(H) = h
    BY <1>2
  <2>2. W \cap H = {}
    BY <1>6
  <2> HIDE DEF H
  <2>3. Cardinality(W \cup H) = Cardinality(W) + Cardinality(H) - Cardinality(W \cap H)
    BY <1>3, <2>1, FS_Union
  <2>4. Cardinality(W) \in Nat
    BY <1>3, FS_CardinalityType
  <2>5. Cardinality(W \cap H) = 0
    BY <2>2, FS_EmptySet
  <2>6. Cardinality(W \cup H) = Cardinality(W) + h
    <3> HIDE DEF Own
    <3> QED BY <2>1, <2>3, <2>4, <2>5
  <2> QED BY <2>6 DEF H
<1>8. Cardinality(W) \in Nat
  BY <1>3, FS_CardinalityType
<1>9. Cardinality(Weight) = Cardinality(W) + conn[c].held
  BY <1>1, <1>4, <1>7
<1>10. Cardinality(Weight') = Cardinality(W) + n.held
  BY <1>1, <1>5, <1>7
<1>11. conn[c].held \in Nat
  BY <1>1
<1> QED BY <1>1, <1>8, <1>9, <1>10, <1>11

Opens(n) == IF n.place \notin {"out", "closed"} THEN 1 ELSE 0

\* So does the number of those open.
LEMMA OpensCount ==
    ASSUME NEW c \in Conn, NEW n \in ConnType, conn \in [Conn -> ConnType],
           conn' = [conn EXCEPT ![c] = n]
    PROVE  Cardinality(Open') = Cardinality(Open) - Opens(conn[c]) + Opens(n)
<1> DEFINE Rest == Open \ {c}
<1>1. IsFiniteSet(Open) /\ IsFiniteSet(Rest) /\ c \notin Rest
  <2>1. Open \in SUBSET Conn
    BY DEF Open
  <2> QED BY <2>1, LoopAssumption, FS_Subset, FS_RemoveElement
<1>2. Open = IF conn[c].place \notin {"out", "closed"} THEN Rest \cup {c} ELSE Rest
  BY DEF Open
<1>3. Open' = IF n.place \notin {"out", "closed"} THEN Rest \cup {c} ELSE Rest
  <2>1. \A x \in Conn : conn'[x].place = IF x = c THEN n.place ELSE conn[x].place
    OBVIOUS
  <2>2. Open' = {x \in Conn : conn'[x].place \notin {"out", "closed"}}
    BY DEF Open
  <2> QED BY <2>1, <2>2 DEF Open
<1> HIDE DEF Rest
<1>4. Cardinality(Rest) \in Nat /\ Cardinality(Rest \cup {c}) = Cardinality(Rest) + 1
  BY <1>1, FS_CardinalityType, FS_AddElement
<1> QED BY <1>2, <1>3, <1>4 DEF Opens

--------------------------------------------------------------------------
(* Steps of one connection.                                                *)

\* What a step of a connection c changes besides it.
Aside(c) ==
    /\ UNCHANGED <<script, manner, sent, taken, shut, failures>>
    /\ pc' \in {"poll", "receive", "reply", "sweep", "slow", "drain", "take"}
    /\ ready' \subseteq Conn /\ again' \subseteq Conn /\ answered' \subseteq Conn
    /\ bell' \in BOOLEAN
    /\ Pending' \subseteq Conn \X Nat
    /\ answered' # {} => pc' \in {"receive", "reply"}
    /\ \A x \in Conn \ {c} : (x \in again' <=> x \in again) /\ (x \in answered' <=> x \in answered)

\* The counters follow a connection that becomes n.
Counted(c, n) ==
    /\ unsent' = unsent - conn[c].held + n.held
    /\ connections' = connections - Opens(conn[c]) + Opens(n)

\* A step that keeps its own connection in order keeps all of them.
LEMMA OneChanges ==
    ASSUME LoopInv, NEW c \in Conn, NEW n \in ConnType, NEW q \in Seq(Nat), Len(q) <= SocketRoom,
           conn' = [conn EXCEPT ![c] = n], sock' = [sock EXCEPT ![c] = q], Aside(c),
           Holds(script[c], n, taken[c] \o q, c \in again', c \in answered'), n.got <= sent[c],
           \A m \in Pending' : Waits(m)',
           Counted(c, n)
    PROVE  LoopInv'
<1>1. Types /\ \A x \in Conn : Fine(x)
  BY DEF LoopInv
<1>2. conn \in [Conn -> ConnType] /\ sock \in [Conn -> Seq(Nat)] /\ taken \in [Conn -> Seq(Nat)]
  BY <1>1 DEF Types
<1>3. Types'
  <2>1. conn' \in [Conn -> ConnType] /\ sock' \in [Conn -> Seq(Nat)]
    BY <1>2
  <2>2. \A x \in Conn : Len(sock'[x]) <= SocketRoom
    <3>1. \A x \in Conn : Len(sock[x]) <= SocketRoom
      BY <1>1 DEF Types
    <3>2. \A x \in Conn : sock'[x] = IF x = c THEN q ELSE sock[x]
      BY <1>2
    <3> QED BY <3>1, <3>2
  <2> QED BY <1>1, <2>1, <2>2 DEF Types, Aside
<1>4. ASSUME NEW x \in Conn
      PROVE  Fine(x)'
  <2>0. script' = script /\ sent' = sent /\ taken' = taken
    BY DEF Aside
  <2>1. CASE x = c
    <3>1. conn'[c] = n /\ sock'[c] = q
      BY <1>2
    <3>2. Out(c)' = taken[c] \o q
      BY <2>0, <3>1 DEF Out
    <3>3. sent[c] <= Upto(script[c], Len(script[c]))
      BY <1>1 DEF Fine, Reaches
    <3>4. Reaches(c)'
      BY <2>0, <3>1, <3>3 DEF Reaches
    <3>5. Holds(script[c], conn[c], Out(c), c \in again, c \in answered)'
      BY <2>0, <3>1, <3>2
    <3> QED BY <2>1, <3>4, <3>5 DEF Fine
  <2>2. CASE x # c
    <3>1. conn'[x] = conn[x] /\ sock'[x] = sock[x]
      BY <1>2, <2>2
    <3>2. Out(x)' = Out(x)
      BY <2>0, <3>1 DEF Out
    <3>3. (x \in again)' = (x \in again) /\ (x \in answered)' = (x \in answered)
      BY <2>2 DEF Aside
    <3>4. Fine(x)
      BY <1>1
    <3>5. Reaches(x)'
      BY <2>0, <3>1, <3>4 DEF Fine, Reaches
    <3>6. Holds(script[x], conn[x], Out(x), x \in again, x \in answered)'
      BY <2>0, <3>1, <3>2, <3>3, <3>4 DEF Fine
    <3> QED BY <3>5, <3>6 DEF Fine
  <2> QED BY <2>1, <2>2
<1>5. Counts'
  <2>1. Cardinality(Weight') = Cardinality(Weight) - conn[c].held + n.held
    BY <1>2, Weighs
  <2>2. Cardinality(Open') = Cardinality(Open) - Opens(conn[c]) + Opens(n)
    BY <1>2, OpensCount
  <2>3. unsent = Cardinality(Weight) /\ connections = Cardinality(Open)
    BY DEF LoopInv, Counts
  <2> QED BY <2>1, <2>2, <2>3 DEF Counts, Counted
<1> QED BY <1>3, <1>4, <1>5 DEF LoopInv, Aside

\* What holds of a connection does not depend on what it is counted for.
Counting(n) == [n EXCEPT !.held = Held(n)]

\* Counting what a connection holds (Conn::count) changes nothing else.
LEMMA CountingHolds ==
    ASSUME NEW s, NEW b, NEW more, NEW replies, NEW n \in ConnType, n.place = "loop",
           Holds(s, n, b, more, replies)
    PROVE  /\ Counting(n) \in ConnType
           /\ Counting(n).place = "loop" /\ Counting(n).got = n.got /\ Counting(n).held = Held(n)
           /\ Holds(s, Counting(n), b, more, replies)
<1> DEFINE k == Counting(n)
<1>1. Held(n) \in Nat
  BY LoopAssumption DEF Held, ConnType
<1>2. k \in ConnType
  BY <1>1 DEF ConnType, Counting
<1>3. /\ k.place = n.place /\ k.got = n.got /\ k.eaten = n.eaten /\ k.phase = n.phase
      /\ k.output = n.output /\ k.closing = n.closing /\ k.moving = n.moving /\ k.full = n.full
      /\ k.ended = n.ended /\ k.queued = n.queued /\ k.watch = n.watch /\ k.held = Held(n)
  BY DEF ConnType, Counting
<1> HIDE DEF k
<1>4. ASSUME NEW d \in Nat, Loops(s, n, b, d), Rests(s, n, d, more)
      PROVE  Loops(s, k, b, d) /\ Rests(s, k, d, more)
  <2>1. Unread(k) = Unread(n)
    BY <1>3 DEF Unread
  <2>2. Within(s, k, d)
    BY <1>3, <1>4 DEF Within, Loops, Serves
  <2>3. Serves(s, k, b, d)
    BY <1>2, <1>3, <1>4, <2>2 DEF Loops, Serves
  <2>4. Loops(s, k, b, d)
    BY <1>3, <1>4, <2>1, <2>3 DEF Loops
  <2>5. Rests(s, k, d, more)
    BY <1>3, <1>4, <2>1 DEF Rests
  <2> QED BY <2>4, <2>5
<1>5. \E d \in Nat : Loops(s, k, b, d) /\ Rests(s, k, d, more)
  BY <1>4 DEF Holds
<1>6. replies \/ Settled(k, more)
  <2>1. SUFFICES ASSUME Settled(n, more) PROVE Settled(k, more)
    BY DEF Holds
  <2>2. interest(k) = interest(n) /\ pending(k) = pending(n)
    BY <1>3 DEF interest, pending, wants_read, Unread
  <2> QED BY <1>3, <2>1, <2>2 DEF Settled
<1>7. Holds(s, k, b, more, replies)
  BY <1>2, <1>3, <1>5, <1>6 DEF Holds
<1> QED BY <1>2, <1>3, <1>7 DEF k

\* A connection kept on the loop.
LEMMA KeepsHolds ==
    ASSUME LoopInv, NEW c \in Conn, InLoop(c), NEW n \in ConnType, n.place = "loop",
           NEW q \in Seq(Nat), Len(q) <= SocketRoom,
           Keeps(c, n), sock' = [sock EXCEPT ![c] = q], Aside(c),
           Holds(script[c], n, taken[c] \o q, c \in again', c \in answered'), n.got <= sent[c],
           \A m \in Pending' : Waits(m)'
    PROVE  LoopInv'
<1> DEFINE k == Counting(n)
<1>1. /\ k \in ConnType /\ k.place = "loop" /\ k.got = n.got /\ k.held = Held(n)
      /\ Holds(script[c], k, taken[c] \o q, c \in again', c \in answered')
  BY CountingHolds
<1>2. conn' = [conn EXCEPT ![c] = k]
  BY DEF Keeps, Counting
<1>3. Counted(c, k)
  <2>1. unsent' = unsent - conn[c].held + Held(n) /\ connections' = connections
    BY DEF Keeps
  <2>2. Opens(k) = 1 /\ Opens(conn[c]) = 1
    BY <1>1 DEF Opens, InLoop
  <2>3. connections \in Int
    <3>1. conn \in [Conn -> ConnType] /\ unsent = Cardinality(Weight) /\ connections = Cardinality(Open)
      BY DEF LoopInv, Types, Counts
    <3>2. Cardinality(Weight) \in Nat /\ Cardinality(Open) \in Nat
      BY <3>1, WeightFinite
    <3> QED BY <3>1, <3>2 DEF ConnType
  <2> HIDE DEF k
  <2> QED BY <1>1, <2>1, <2>2, <2>3 DEF Counted
<1> HIDE DEF k
<1> QED BY <1>1, <1>2, <1>3, OneChanges

\* A connection that closes: what its client got, and may still get, is in order.
LEMMA ClosesHolds ==
    ASSUME LoopInv, NEW c \in Conn, conn[c].place \notin {"out", "closed"},
           NEW q \in Seq(Nat), Len(q) <= SocketRoom,
           conn' = [conn EXCEPT ![c] = Gone(conn[c], "closed")],
           unsent' = unsent - conn[c].held, connections' = connections - 1,
           sock' = [sock EXCEPT ![c] = q], Aside(c),
           NEW d \in Nat, InOrder(script[c], taken[c] \o q, d),
           \A m \in Pending' : Waits(m)'
    PROVE  LoopInv'
<1> DEFINE k == Gone(conn[c], "closed")
<1>1. /\ conn[c] \in ConnType /\ conn[c].got <= sent[c] /\ conn[c].held \in Nat
      /\ conn[c].eaten <= conn[c].got
  <2>1. conn[c] \in ConnType /\ conn[c].got <= sent[c]
    BY DEF LoopInv, Types, Fine, Reaches
  <2>2. conn[c].eaten <= conn[c].got
    BY DEF LoopInv, Fine, Holds
  <2> QED BY <2>1, <2>2 DEF ConnType
<1>2. k \in ConnType
  BY <1>1, GoneIs
<1>3. k.place = "closed" /\ k.got = conn[c].got /\ k.eaten = conn[c].eaten /\ k.output = <<>> /\ k.held = 0
  BY <1>1, GoneIs
<1> HIDE DEF k
<1>4. Holds(script[c], k, taken[c] \o q, c \in again', c \in answered')
  BY <1>1, <1>2, <1>3 DEF Holds
<1>5. Counted(c, k)
  <2>1. Opens(k) = 0 /\ Opens(conn[c]) = 1
    BY <1>3 DEF Opens
  <2>2. connections \in Int /\ unsent \in Int
    <3>1. conn \in [Conn -> ConnType] /\ unsent = Cardinality(Weight) /\ connections = Cardinality(Open)
      BY DEF LoopInv, Types, Counts
    <3>2. Cardinality(Weight) \in Nat /\ Cardinality(Open) \in Nat
      BY <3>1, WeightFinite
    <3> QED BY <3>1, <3>2 DEF ConnType
  <2> QED BY <1>1, <1>3, <2>1, <2>2 DEF Counted
<1> QED BY <1>1, <1>2, <1>3, <1>4, <1>5, OneChanges DEF k

\* A connection handed off.
LEMMA HandOffHolds ==
    ASSUME LoopInv, NEW c \in Conn, InLoop(c), NEW n \in ConnType, n.moving # 0, n.got <= sent[c],
           NEW q \in Seq(Nat), Len(q) <= SocketRoom,
           HandOff(c, n), sock' = [sock EXCEPT ![c] = q], Aside(c),
           NEW d \in Nat, Serves(script[c], n, taken[c] \o q, d),
           \A m \in Pending' : Waits(m)'
    PROVE  LoopInv'
<1> DEFINE k == Handed(n)
<1>1. /\ k \in ConnType /\ Serves(script[c], k, taken[c] \o q, d)
      /\ k.place = "thread" /\ k.phase = "idle" /\ k.moving # 0 /\ k.held = 0 /\ k.got = n.got
  BY HandsOff
<1>2. conn' = [conn EXCEPT ![c] = k] /\ unsent' = unsent - conn[c].held /\ connections' = connections
  BY DEF HandOff, Handed
<1> HIDE DEF k
<1>3. Holds(script[c], k, taken[c] \o q, c \in again', c \in answered')
  <2>1. k.eaten <= k.got
    BY <1>1 DEF Serves
  <2> QED BY <1>1, <2>1 DEF Holds
<1>4. Counted(c, k)
  <2>1. Opens(k) = 1 /\ Opens(conn[c]) = 1
    BY <1>1 DEF Opens, InLoop
  <2>2. connections \in Int /\ unsent \in Int /\ conn[c].held \in Nat
    <3>1. conn \in [Conn -> ConnType] /\ unsent = Cardinality(Weight) /\ connections = Cardinality(Open)
      BY DEF LoopInv, Types, Counts
    <3>2. Cardinality(Weight) \in Nat /\ Cardinality(Open) \in Nat
      BY <3>1, WeightFinite
    <3> QED BY <3>1, <3>2 DEF ConnType
  <2> QED BY <1>1, <1>2, <2>1, <2>2 DEF Counted
<1> QED BY <1>1, <1>2, <1>3, <1>4, OneChanges

\* What holds of a connection that is not on the loop does not depend on what
\* the loop has to do.
LEMMA HoldsElsewhere ==
    ASSUME NEW s, NEW n, NEW b, NEW more, NEW replies, NEW more2, NEW replies2,
           Holds(s, n, b, more, replies), n.place # "loop"
    PROVE  Holds(s, n, b, more2, replies2)
  BY DEF Holds

\* What the loop answered and has not in the journal is not of a connection
\* anywhere else, or once its replies go out.
LEMMA WaitsElse ==
    ASSUME LoopInv, NEW c \in Conn, NEW n, NEW q, conn[c].place # "closed", pc # "receive" \/ ~InLoop(c),
           conn' = [conn EXCEPT ![c] = n], sock' = [sock EXCEPT ![c] = q], taken' = taken,
           pc = "receive" => pc' = "receive", \A x \in answered : x = c \/ x \in answered',
           Pending' = Pending
    PROVE  \A m \in Pending' : Waits(m)'
<1>1. conn \in [Conn -> ConnType] /\ sock \in [Conn -> Seq(Nat)] /\ Pending \subseteq Conn \X Nat
  BY DEF LoopInv, Types
<1>2. SUFFICES ASSUME NEW m \in Pending PROVE Waits(m)'
  OBVIOUS
<1>3. Waits(m) /\ m[1] \in Conn
  BY <1>1, <1>2 DEF LoopInv
<1>4. m[1] # c
  BY <1>3 DEF Waits
<1>5. conn'[m[1]] = conn[m[1]] /\ sock'[m[1]] = sock[m[1]]
  BY <1>1, <1>3, <1>4
<1>6. Out(m[1])' = Out(m[1])
  BY <1>5 DEF Out
<1>7. conn[m[1]].place = "closed" \/ (pc = "receive" /\ m[1] \in answered /\ InLoop(m[1]))
  BY <1>3 DEF Waits
<1>8. conn'[m[1]].place = "closed" \/ (pc' = "receive" /\ m[1] \in answered' /\ conn'[m[1]].place = "loop")
  BY <1>4, <1>5, <1>7 DEF InLoop
<1> QED BY <1>3, <1>6, <1>8 DEF Waits, InLoop

\* A step of the loop that leaves its connections alone.
LEMMA StillHolds ==
    ASSUME LoopInv, UNCHANGED <<clientVars, again, answered, conn, sock, unsent, connections, failures>>,
           pc' \in {"poll", "receive", "reply", "sweep", "slow", "drain", "take"},
           ready' \subseteq Conn, bell' \in BOOLEAN, Pending' \subseteq Pending,
           answered # {} => pc' \in {"receive", "reply"},
           \A m \in Pending' : conn[m[1]].place = "closed"
    PROVE  LoopInv'
<1>1. /\ script' = script /\ manner' = manner /\ sent' = sent /\ shut' = shut /\ taken' = taken
      /\ again' = again /\ answered' = answered /\ conn' = conn /\ sock' = sock
      /\ unsent' = unsent /\ connections' = connections /\ failures' = failures
  BY DEF clientVars
<1>2. Types'
  BY <1>1 DEF LoopInv, Types
<1>3. \A x \in Conn : Fine(x)'
  <2> TAKE x \in Conn
  <2>1. Fine(x)
    BY DEF LoopInv
  <2>2. Out(x)' = Out(x)
    BY <1>1 DEF Out
  <2>3. Reaches(x)'
    BY <1>1, <2>1 DEF Fine, Reaches
  <2>4. Holds(script[x], conn[x], Out(x), x \in again, x \in answered)'
    BY <1>1, <2>1, <2>2 DEF Fine
  <2> QED BY <2>3, <2>4 DEF Fine
<1>4. \A m \in Pending' : Waits(m)'
  <2> TAKE m \in Pending'
  <2>1. Waits(m)
    BY DEF LoopInv
  <2>2. Out(m[1])' = Out(m[1])
    BY <1>1 DEF Out
  <2> QED BY <1>1, <2>1, <2>2 DEF Waits
<1>5. Counts'
  <2>1. Weight' = Weight /\ Open' = Open
    BY <1>1 DEF Weight, Open
  <2> QED BY <1>1, <2>1 DEF LoopInv, Counts
<1> QED BY <1>1, <1>2, <1>3, <1>4, <1>5 DEF LoopInv

\* Before its replies go out nothing of a connection on the loop waits for
\* the journal but what the loop answered in this round.
LEMMA OnlyClosedWait ==
    ASSUME LoopInv, pc # "receive" \/ answered = {}
    PROVE  \A m \in Pending : conn[m[1]].place = "closed"
  BY DEF LoopInv, Waits

\* Loop::wait only says who is ready.
LEMMA PollHolds == LoopInv /\ Poll => LoopInv'
<1> SUFFICES ASSUME LoopInv, Poll PROVE LoopInv'
  OBVIOUS
<1>1. pc = "poll" /\ pc' = "receive" /\ ready' \subseteq Conn /\ Pending' = Pending /\ bell' = bell
      /\ UNCHANGED <<clientVars, again, answered, conn, sock, unsent, connections, failures>>
  BY DEF Poll, Goto, Pending, journalVars
<1>2. bell' \in BOOLEAN
  BY <1>1 DEF LoopInv, Types
<1> QED BY <1>1, <1>2, OnlyClosedWait, StillHolds

\* The journal has all there is once the replies go out.
LEMMA FlushHolds == LoopInv /\ Flush => LoopInv'
<1> SUFFICES ASSUME LoopInv, Flush PROVE LoopInv'
  OBVIOUS
<1>1. pc' = "reply" /\ ready' = ready /\ bell' = bell
      /\ Pending' = (IF answered = {} THEN Pending ELSE {})
      /\ UNCHANGED <<clientVars, again, answered, conn, sock, unsent, connections, failures>>
  BY DEF Flush, FlushJournal, JournalWritten, Goto, Pending, journalVars
<1>2. bell' \in BOOLEAN /\ ready' \subseteq Conn
  BY <1>1 DEF LoopInv, Types
<1>3. Pending' \subseteq Pending /\ \A m \in Pending' : conn[m[1]].place = "closed"
  BY <1>1, OnlyClosedWait
<1> QED BY <1>1, <1>2, <1>3, StillHolds

\* The end of the replies leaves none to reply.
LEMMA RepliedHolds == LoopInv /\ Replied => LoopInv'
<1> SUFFICES ASSUME LoopInv, Replied PROVE LoopInv'
  OBVIOUS
<1>1. pc = "reply" /\ answered = {} /\ pc' = "sweep" /\ ready' = ready /\ bell' = bell /\ Pending' = Pending
      /\ UNCHANGED <<clientVars, again, answered, conn, sock, unsent, connections, failures>>
  BY DEF Replied, Goto, Pending, journalVars
<1>2. bell' \in BOOLEAN /\ ready' \subseteq Conn
  BY <1>1 DEF LoopInv, Types
<1> QED BY <1>1, <1>2, OnlyClosedWait, StillHolds

\* Loop::welcome silences the bell and touches no connection.
LEMMA DrainHolds == LoopInv /\ Drain => LoopInv'
<1> SUFFICES ASSUME LoopInv, Drain PROVE LoopInv'
  OBVIOUS
<1>1. pc = "drain" /\ pc' \in {"take", "poll"} /\ ready' = ready /\ bell' = FALSE /\ Pending' = Pending
      /\ UNCHANGED <<clientVars, again, answered, conn, sock, unsent, connections, failures>>
  BY DEF Drain, Goto, Pending, journalVars
<1>2. answered = {} /\ ready' \subseteq Conn
  BY <1>1 DEF LoopInv, Types
<1> QED BY <1>1, <1>2, OnlyClosedWait, StillHolds

\* What holds of a connection on the loop.
LEMMA OnLoop ==
    ASSUME LoopInv, NEW c \in Conn, InLoop(c)
    PROVE  /\ script[c] \in Seq(Kinds) /\ conn[c] \in ConnType /\ conn[c].place = "loop"
           /\ taken[c] \in Seq(Nat) /\ sock[c] \in Seq(Nat) /\ Len(sock[c]) <= SocketRoom
           /\ Out(c) \in Seq(Nat) /\ Out(c) = taken[c] \o sock[c]
           /\ sent[c] \in Nat /\ conn[c].got <= sent[c] /\ sent[c] <= Upto(script[c], Len(script[c]))
           /\ \E d \in Nat : Loops(script[c], conn[c], Out(c), d) /\ Rests(script[c], conn[c], d, c \in again)
           /\ c \in answered \/ Settled(conn[c], c \in again)
<1>1. Types /\ Fine(c)
  BY DEF LoopInv
<1>2. /\ script[c] \in Seq(Kinds) /\ conn[c] \in ConnType
      /\ taken[c] \in Seq(Nat) /\ sock[c] \in Seq(Nat) /\ Len(sock[c]) <= SocketRoom /\ sent[c] \in Nat
  BY <1>1 DEF Types
<1>3. Out(c) \in Seq(Nat) /\ Out(c) = taken[c] \o sock[c]
  BY <1>2, ConcatProperties DEF Out
<1>4. conn[c].place = "loop"
  BY DEF InLoop
<1>5. conn[c].got <= sent[c] /\ sent[c] <= Upto(script[c], Len(script[c]))
  BY <1>1 DEF Fine, Reaches
<1>6. Holds(script[c], conn[c], Out(c), c \in again, c \in answered)
  BY <1>1 DEF Fine
<1>7. /\ \E d \in Nat : Loops(script[c], conn[c], Out(c), d) /\ Rests(script[c], conn[c], d, c \in again)
      /\ c \in answered \/ Settled(conn[c], c \in again)
  BY <1>4, <1>6 DEF Holds
<1> QED BY <1>2, <1>3, <1>4, <1>5, <1>7

\* What a client got is of the requests answered before.
LEMMA OutBefore ==
    ASSUME NEW s \in Seq(Kinds), NEW n \in ConnType, NEW b \in Seq(Nat), NEW d \in Nat, Serves(s, n, b, d)
    PROVE  InOrder(s, b, d) /\ \A k \in DOMAIN b : b[k] \in Nat /\ b[k] <= d
<1>1. n.output \in Seq(Nat)
  BY DEF ConnType
<1>2. InOrder(s, b, d)
  BY <1>1, InOrderFront DEF Serves
<1>3. \A k \in 1..Len(b) : b[k] \in 1..d
  BY <1>2 DEF InOrder
<1>4. \A k \in DOMAIN b : k \in 1..Len(b)
  OBVIOUS
<1>5. \A k \in DOMAIN b : b[k] \in Nat /\ b[k] <= d
  BY <1>3, <1>4
<1> QED BY <1>2, <1>5

\* Loop::receive, for a connection that left the loop in between.
Receives(c) ==
    /\ pc = "receive"
    /\ IF again # {} THEN again' = again \ {c} /\ UNCHANGED ready
                     ELSE ready' = ready \ {c} /\ UNCHANGED again
    /\ UNCHANGED <<clientVars, pc, sock, bell, failures>>

\* Loop::receive touches one connection, and what it answered.
LEMMA ReceiveAside ==
    ASSUME LoopInv, NEW c \in Conn, Receives(c), answered' \subseteq Conn, Pending' \subseteq Conn \X Nat,
           \A x \in Conn \ {c} : x \in answered' <=> x \in answered
    PROVE  Aside(c) /\ sock' = [sock EXCEPT ![c] = sock[c]]
<1>1. /\ UNCHANGED <<script, manner, sent, taken, shut, failures>>
      /\ pc' = "receive" /\ bell' = bell
      /\ ready' \subseteq ready /\ again' \subseteq again
      /\ \A x \in Conn \ {c} : x \in again' <=> x \in again
  BY DEF Receives, clientVars
<1>2. sock' = [sock EXCEPT ![c] = sock[c]]
  BY DEF LoopInv, Types, Receives
<1>3. ready \subseteq Conn /\ again \subseteq Conn /\ bell \in BOOLEAN
  BY DEF LoopInv, Types
<1> QED BY <1>1, <1>2, <1>3 DEF Aside

\* Loop::receive passes over a connection that has left the loop.
LEMMA ReceiveNone ==
    ASSUME LoopInv, NEW c \in Conn, Receives(c), ~InLoop(c),
           UNCHANGED <<conn, unsent, connections, answered, Pending>>
    PROVE  LoopInv'
<1>1. Types /\ Fine(c)
  BY DEF LoopInv
<1>2. Aside(c) /\ sock' = [sock EXCEPT ![c] = sock[c]]
  <2>1. answered' \subseteq Conn /\ Pending' \subseteq Conn \X Nat
    BY <1>1 DEF Types
  <2> QED BY <2>1, ReceiveAside
<1>3. conn[c] \in ConnType /\ sock[c] \in Seq(Nat) /\ Len(sock[c]) <= SocketRoom /\ conn \in [Conn -> ConnType]
  BY <1>1 DEF Types
<1>4. conn' = [conn EXCEPT ![c] = conn[c]]
  BY <1>3
<1>5. Holds(script[c], conn[c], taken[c] \o sock[c], c \in again', c \in answered') /\ conn[c].got <= sent[c]
  <2>1. Holds(script[c], conn[c], taken[c] \o sock[c], c \in again, c \in answered) /\ conn[c].got <= sent[c]
    BY <1>1 DEF Fine, Out, Reaches
  <2>2. conn[c].place # "loop"
    BY DEF InLoop
  <2> QED BY <2>1, <2>2, HoldsElsewhere
<1>6. \A m \in Pending' : Waits(m)'
  <2> TAKE m \in Pending'
  <2>1. Waits(m)
    BY DEF LoopInv
  <2> QED BY <2>1 DEF Waits, Out, InLoop, Receives, clientVars
<1>7. Counted(c, conn[c])
  <2>1. unsent' = unsent /\ connections' = connections
    OBVIOUS
  <2>2. unsent \in Int /\ connections \in Int /\ conn[c].held \in Int
    <3>1. conn[c].held \in Nat
      BY <1>3 DEF ConnType
    <3> QED BY <1>3, <3>1, WeightFinite DEF LoopInv, Counts
  <2> QED BY <2>1, <2>2 DEF Counted, Opens
<1> QED BY <1>2, <1>3, <1>4, <1>5, <1>6, <1>7, OneChanges

\* One whose client left closes; what it answered is journaled all the same.
LEMMA ReceiveCloses ==
    ASSUME LoopInv, NEW c \in Conn, Receives(c), InLoop(c), Close(c), UNCHANGED <<answered, Pending>>
    PROVE  LoopInv'
<1>1. Types
  BY DEF LoopInv
<1>2. Aside(c) /\ sock' = [sock EXCEPT ![c] = sock[c]]
  <2>1. answered' \subseteq Conn /\ Pending' \subseteq Conn \X Nat
    BY <1>1 DEF Types
  <2> QED BY <2>1, ReceiveAside
<1>3. PICK d \in Nat : Loops(script[c], conn[c], Out(c), d)
  BY OnLoop
<1>4. /\ script[c] \in Seq(Kinds) /\ conn[c] \in ConnType /\ conn[c].place = "loop"
      /\ sock[c] \in Seq(Nat) /\ Len(sock[c]) <= SocketRoom
      /\ Out(c) \in Seq(Nat) /\ Out(c) = taken[c] \o sock[c]
  BY OnLoop
<1>5. InOrder(script[c], taken[c] \o sock[c], d)
  BY <1>3, <1>4, OutBefore DEF Loops
<1>6. \A m \in Pending' : Waits(m)'
  <2> TAKE m \in Pending'
  <2>1. Waits(m) /\ m[1] \in Conn
    BY <1>1 DEF LoopInv, Types
  <2>2. conn \in [Conn -> ConnType] /\ conn' = [conn EXCEPT ![c] = Gone(conn[c], "closed")]
    BY <1>1 DEF Types, Close
  <2>3. conn'[m[1]] = IF m[1] = c THEN Gone(conn[c], "closed") ELSE conn[m[1]]
    BY <2>1, <2>2
  <2>4. Gone(conn[c], "closed").place = "closed"
    BY <1>4, GoneIs
  <2>5. Out(m[1])' = Out(m[1])
    BY DEF Out, Receives, clientVars
  <2>6. conn'[m[1]].place = "closed" \/ (pc' = "receive" /\ m[1] \in answered' /\ conn'[m[1]].place = "loop")
    BY <2>1, <2>3, <2>4 DEF Waits, InLoop, Receives
  <2> QED BY <2>1, <2>5, <2>6 DEF Waits, InLoop
<1> QED BY <1>2, <1>4, <1>5, <1>6, ClosesHolds DEF Close

\* The connection as the loop reads from it, or not.
Reads(c, readable) == IF readable /\ wants_read(conn[c]) THEN read(c, conn[c]) ELSE conn[c]

\* Reading on the loop takes what was sent, two fillings of the buffer at
\* most (Conn::read).
LEMMA ReadsIs ==
    ASSUME LoopInv, NEW c \in Conn, InLoop(c), NEW readable
    PROVE  /\ Reads(c, readable) \in ConnType /\ Reads(c, readable).place = "loop"
           /\ Reads(c, readable).got <= sent[c]
           /\ \E d \in Nat : Loops(script[c], Reads(c, readable), Out(c), d)
<1> DEFINE n == Reads(c, readable)
<1>1. PICK d \in Nat : Loops(script[c], conn[c], Out(c), d)
  BY OnLoop
<1>2. /\ script[c] \in Seq(Kinds) /\ conn[c] \in ConnType /\ conn[c].place = "loop"
      /\ sent[c] \in Nat /\ conn[c].got <= sent[c] /\ sent[c] <= Upto(script[c], Len(script[c]))
  BY OnLoop
<1>3. CASE n = conn[c]
  <2> HIDE DEF n
  <2>1. n \in ConnType /\ n.place = "loop" /\ n.got <= sent[c] /\ Loops(script[c], n, Out(c), d)
    BY <1>1, <1>2, <1>3
  <2> QED BY <2>1 DEF n
<1>4. CASE wants_read(conn[c]) /\ n = read(c, conn[c])
  <2> HIDE DEF n
  <2>1. MoreRead(n, conn[c]) /\ Loops(script[c], n, Out(c), d) /\ n.got <= sent[c]
    BY <1>1, <1>2, <1>4, ReadIs
  <2>2. n \in ConnType /\ n.place = "loop"
    BY <1>2, <2>1 DEF MoreRead
  <2> QED BY <2>1, <2>2 DEF n
<1>5. n = conn[c] \/ (wants_read(conn[c]) /\ n = read(c, conn[c]))
  BY DEF Reads
<1> QED BY <1>3, <1>4, <1>5

\* One that has to wait, with nothing left to write, goes once the journal
\* has what was answered.
LEMMA ReceiveHandsOff ==
    ASSUME LoopInv, NEW c \in Conn, Receives(c), InLoop(c), NEW n \in ConnType, n.place = "loop",
           n.got <= sent[c], NEW e \in Nat, Loops(script[c], n, Out(c), e),
           NEW a, a = answer(script[c], n), a.stop = "handoff", HandOff(c, a.conn),
           Pending' = {}, UNCHANGED answered
    PROVE  LoopInv'
<1> DEFINE p == a.conn
<1>1. Types
  BY DEF LoopInv
<1>2. Aside(c) /\ sock' = [sock EXCEPT ![c] = sock[c]]
  <2>1. answered' \subseteq Conn /\ Pending' \subseteq Conn \X Nat
    BY <1>1 DEF Types
  <2> QED BY <2>1, ReceiveAside
<1>3. /\ script[c] \in Seq(Kinds) /\ Out(c) \in Seq(Nat) /\ Out(c) = taken[c] \o sock[c]
      /\ sock[c] \in Seq(Nat) /\ Len(sock[c]) <= SocketRoom
  BY OnLoop
<1>4. PICK t \in Nat : Goes(script[c], Out(c), e, n, a, t) /\ a.stop # "turn"
  BY <1>3, AnswerHolds
<1>5. PICK d \in Nat : Went(script[c], Out(c), e, n, a, t, d)
  BY <1>4 DEF Goes
<1>6. p \in ConnType /\ p.moving # 0 /\ p.got = n.got
  BY <1>4 DEF Goes, Turns, Kept
<1>7. Serves(script[c], p, taken[c] \o sock[c], d)
  BY <1>3, <1>5 DEF Went, Loops
<1>8. HandOff(c, p)
  OBVIOUS
<1> HIDE DEF p
<1>9. p.got <= sent[c]
  BY <1>6
<1>10. \A m \in Pending' : Waits(m)'
  OBVIOUS
<1> QED BY <1>2, <1>3, <1>6, <1>7, <1>8, <1>9, <1>10, HandOffHolds

\* The others wait for the journal, which is to have what they made before
\* they reply.
LEMMA ReceiveAnswers ==
    ASSUME LoopInv, NEW c \in Conn, Receives(c), InLoop(c), NEW n \in ConnType, n.place = "loop",
           n.got <= sent[c], NEW e \in Nat, Loops(script[c], n, Out(c), e),
           NEW a, a = answer(script[c], n), Keeps(c, Answering(a)),
           answered' = answered \cup {c}, Pending' \subseteq Pending \cup {<<c, i>> : i \in a.made}
    PROVE  LoopInv'
<1> DEFINE p == Answering(a)
<1>1. Types
  BY DEF LoopInv
<1>2. /\ script[c] \in Seq(Kinds) /\ Out(c) \in Seq(Nat) /\ Out(c) = taken[c] \o sock[c]
      /\ sock[c] \in Seq(Nat) /\ Len(sock[c]) <= SocketRoom
  BY OnLoop
<1>3. Rested(script[c], Out(c), e, n, p, a.made)
  BY <1>2, AnswerRests
<1>4. Keeps(c, p)
  OBVIOUS
<1> HIDE DEF p
<1>5. p \in ConnType /\ p.place = "loop" /\ p.got <= sent[c]
  BY <1>3 DEF Rested
<1>6. a.made \subseteq Nat /\ \A i \in a.made : e < i
  BY <1>3 DEF Rested
<1>7. Aside(c) /\ sock' = [sock EXCEPT ![c] = sock[c]]
  <2>1. answered' \subseteq Conn /\ Pending' \subseteq Conn \X Nat
    BY <1>1, <1>6 DEF Types
  <2>2. \A x \in Conn \ {c} : x \in answered' <=> x \in answered
    OBVIOUS
  <2> QED BY <2>1, <2>2, ReceiveAside
<1>8. Holds(script[c], p, taken[c] \o sock[c], c \in again', c \in answered')
  <2>1. PICK d \in Nat : Loops(script[c], p, Out(c), d) /\ Rests(script[c], p, d, FALSE)
    BY <1>3 DEF Rested
  <2>2. Rests(script[c], p, d, c \in again')
    BY <2>1 DEF Rests
  <2>3. c \in answered'
    OBVIOUS
  <2>4. \E x \in Nat : Loops(script[c], p, Out(c), x) /\ Rests(script[c], p, x, c \in again')
    BY <2>1, <2>2
  <2>6. p.eaten <= p.got
    BY <2>1 DEF Loops, Serves
  <2>7. p.held > 0 => p.place = "loop"
    BY <1>5
  <2>5. Holds(script[c], p, Out(c), c \in again', c \in answered')
    BY <1>5, <2>3, <2>4, <2>6, <2>7 DEF Holds
  <2> QED BY <1>2, <2>5
<1>9. \A m \in Pending' : Waits(m)'
  <2> TAKE m \in Pending'
  <2>1. conn \in [Conn -> ConnType] /\ conn' = [conn EXCEPT ![c] = Counting(p)]
    BY <1>1, <1>4 DEF Types, Keeps, Counting
  <2>2. Counting(p).place = "loop"
    BY <1>5 DEF Counting, ConnType
  <2>3. conn'[c].place = "loop"
    BY <2>1, <2>2
  <2>4. \A x : Out(x)' = Out(x)
    BY DEF Out, Receives, clientVars
  <2>5. pc = "receive" /\ pc' = "receive"
    BY DEF Receives
  <2>6. CASE m \in Pending
    <3>1. Waits(m) /\ m[1] \in Conn
      BY <1>1, <2>6 DEF LoopInv, Types
    <3>2. CASE m[1] = c
      <4>1. conn'[m[1]].place = "loop" /\ m[1] \in answered'
        BY <2>3, <3>2
      <4> QED BY <2>4, <2>5, <3>1, <4>1 DEF Waits, InLoop
    <3>3. CASE m[1] # c
      <4>1. conn'[m[1]] = conn[m[1]]
        BY <2>1, <3>1, <3>3
      <4> QED BY <2>4, <2>5, <3>1, <4>1 DEF Waits, InLoop
    <3> QED BY <3>2, <3>3
  <2>7. ASSUME NEW i \in a.made, m = <<c, i>>
        PROVE  Waits(m)'
    <3>1. m[1] = c /\ m[2] = i /\ i \in Nat /\ e < i
      BY <1>6, <2>7
    <3>2. \A k \in DOMAIN Out(c) : Out(c)[k] <= e
      BY <1>2, OutBefore DEF Loops
    <3>3. \A k \in DOMAIN Out(c) : Out(c)[k] \in Nat
      BY <1>2, OutBefore DEF Loops
    <3>4. \A k \in DOMAIN Out(c) : Out(c)[k] # i
      BY <3>1, <3>2, <3>3
    <3>5. conn'[m[1]].place = "loop" /\ m[1] \in answered'
      BY <2>3, <3>1
    <3> QED BY <2>4, <2>5, <3>1, <3>4, <3>5 DEF Waits, InLoop
  <2> QED BY <2>6, <2>7
<1> QED BY <1>2, <1>4, <1>5, <1>7, <1>8, <1>9, KeepsHolds

\* Loop::receive: reads, answers, and either keeps the connection for its
\* replies or hands it off, once the journal has what was answered.
LEMMA ReceiveHolds == ASSUME LoopInv, NEW c \in Conn, Receive(c) PROVE LoopInv'
<1> DEFINE readable == again = {} /\ (Readable(c) \/ Left(c))
<1> DEFINE fails == readable /\ wants_read(conn[c]) /\ Left(c)
<1>1. Receives(c)
  BY DEF Receive, Receives, Pending, journalVars
<1>2. \/ /\ ~InLoop(c)
         /\ UNCHANGED <<conn, unsent, connections, answered, Pending>>
      \/ /\ InLoop(c) /\ fails
         /\ Close(c)
         /\ UNCHANGED <<answered, Pending>>
      \/ /\ InLoop(c) /\ ~fails
         /\ \E n \in {Reads(c, readable)} :
            \E a \in {answer(script[c], n)} :
               IF a.stop = "handoff" /\ ~pending(a.conn)
               THEN /\ HandOff(c, a.conn)
                    /\ Pending' = {}
                    /\ UNCHANGED answered
               ELSE /\ Keeps(c, Answering(a))
                    /\ answered' = answered \cup {c}
                    /\ Pending' \subseteq Pending \cup {<<c, i>> : i \in a.made}
  <2>1. UNCHANGED journalVars => Pending' = Pending
    BY DEF Pending, journalVars
  <2>2. FlushJournal => Pending' = {}
    BY DEF FlushJournal, JournalWritten, Pending
  <2>3. ASSUME NEW X, unsaved' = unsaved \cup X, UNCHANGED excused
        PROVE  Pending' \subseteq Pending \cup X
    BY <2>3 DEF Pending
  <2>4. \/ /\ ~InLoop(c)
           /\ UNCHANGED <<conn, unsent, connections, answered, journalVars>>
        \/ /\ InLoop(c) /\ fails
           /\ Close(c)
           /\ UNCHANGED <<answered, journalVars>>
        \/ /\ InLoop(c) /\ ~fails
           /\ \E n \in {Reads(c, readable)} :
              \E a \in {answer(script[c], n)} :
                 IF a.stop = "handoff" /\ ~pending(a.conn)
                 THEN /\ HandOff(c, a.conn)
                      /\ FlushJournal
                      /\ UNCHANGED answered
                 ELSE /\ Keeps(c, Answering(a))
                      /\ answered' = answered \cup {c}
                      /\ unsaved' = unsaved \cup {<<c, i>> : i \in a.made}
                      /\ UNCHANGED excused
    BY DEF Receive, Reads, Answering
  <2> HIDE DEF readable, fails
  <2>5. ASSUME NEW n, NEW a,
               IF a.stop = "handoff" /\ ~pending(a.conn)
               THEN /\ HandOff(c, a.conn)
                    /\ FlushJournal
                    /\ UNCHANGED answered
               ELSE /\ Keeps(c, Answering(a))
                    /\ answered' = answered \cup {c}
                    /\ unsaved' = unsaved \cup {<<c, i>> : i \in a.made}
                    /\ UNCHANGED excused
        PROVE  IF a.stop = "handoff" /\ ~pending(a.conn)
               THEN /\ HandOff(c, a.conn)
                    /\ Pending' = {}
                    /\ UNCHANGED answered
               ELSE /\ Keeps(c, Answering(a))
                    /\ answered' = answered \cup {c}
                    /\ Pending' \subseteq Pending \cup {<<c, i>> : i \in a.made}
    BY <2>2, <2>3, <2>5
  <2> QED BY <2>1, <2>4, <2>5
<1> HIDE DEF readable
<1>3. CASE ~InLoop(c)
  BY <1>1, <1>2, <1>3, ReceiveNone
<1>4. CASE InLoop(c) /\ fails
  <2>1. Close(c) /\ UNCHANGED <<answered, Pending>>
    BY <1>2, <1>4
  <2> QED BY <1>1, <1>4, <2>1, ReceiveCloses
<1>5. CASE InLoop(c) /\ ~fails
  <2> DEFINE n == Reads(c, readable)
  <2> DEFINE a == answer(script[c], n)
  <2>1. n \in ConnType /\ n.place = "loop" /\ n.got <= sent[c]
        /\ \E d \in Nat : Loops(script[c], n, Out(c), d)
    BY <1>5, ReadsIs
  <2>2. PICK d \in Nat : Loops(script[c], n, Out(c), d)
    BY <2>1
  <2>3. IF a.stop = "handoff" /\ ~pending(a.conn)
        THEN /\ HandOff(c, a.conn)
             /\ Pending' = {}
             /\ UNCHANGED answered
        ELSE /\ Keeps(c, Answering(a))
             /\ answered' = answered \cup {c}
             /\ Pending' \subseteq Pending \cup {<<c, i>> : i \in a.made}
    BY <1>2, <1>5
  <2> HIDE DEF n
  <2>4. a = answer(script[c], n)
    OBVIOUS
  <2> HIDE DEF a
  <2>5. CASE a.stop = "handoff" /\ ~pending(a.conn)
    BY <1>1, <1>5, <2>1, <2>2, <2>3, <2>4, <2>5, ReceiveHandsOff
  <2>6. CASE ~(a.stop = "handoff" /\ ~pending(a.conn))
    BY <1>1, <1>5, <2>1, <2>2, <2>3, <2>4, <2>6, ReceiveAnswers
  <2> QED BY <2>5, <2>6
<1> QED BY <1>3, <1>4, <1>5

\* A connection watched for what it waits on.
Watching(m, f) == [[m EXCEPT !.watch = interest(m)] EXCEPT !.full = f]

\* A connection watched for what it waits on is otherwise as it was.
LEMMA WatchingIs ==
    ASSUME NEW m \in ConnType, NEW f \in BOOLEAN
    PROVE  /\ Watching(m, f) \in ConnType
           /\ Watching(m, f).place = m.place /\ Watching(m, f).got = m.got
           /\ Watching(m, f).eaten = m.eaten /\ Watching(m, f).phase = m.phase
           /\ Watching(m, f).output = m.output /\ Watching(m, f).closing = m.closing
           /\ Watching(m, f).moving = m.moving /\ Watching(m, f).full = f
           /\ Watching(m, f).ended = m.ended /\ Watching(m, f).queued = m.queued
           /\ Watching(m, f).watch = interest(m)
<1> DEFINE p == [m EXCEPT !.watch = interest(m)]
<1> DEFINE k == [p EXCEPT !.full = f]
<1>1. interest(m) \subseteq {"read", "write"}
  BY DEF interest
<1>2. p \in ConnType
  BY <1>1 DEF ConnType
<1>3. /\ p.place = m.place /\ p.got = m.got /\ p.eaten = m.eaten /\ p.phase = m.phase
      /\ p.output = m.output /\ p.closing = m.closing /\ p.moving = m.moving
      /\ p.ended = m.ended /\ p.queued = m.queued /\ p.watch = interest(m) /\ p.held = m.held
  BY DEF ConnType
<1> HIDE DEF p
<1>4. k \in ConnType
  BY <1>2 DEF ConnType
<1>5. /\ k.place = p.place /\ k.got = p.got /\ k.eaten = p.eaten /\ k.phase = p.phase
      /\ k.output = p.output /\ k.closing = p.closing /\ k.moving = p.moving /\ k.full = f
      /\ k.ended = p.ended /\ k.queued = p.queued /\ k.watch = p.watch /\ k.held = p.held
  BY <1>2 DEF ConnType
<1>6. Watching(m, f) = k
  BY DEF Watching, p
<1> HIDE DEF k
<1> QED BY <1>3, <1>4, <1>5, <1>6

\* What was to answer again still is.
Remains(more, more2) == more => more2

\* Why a connection stays once what it has goes out: it has more to write, it
\* answers again, or it waits for its client.
Stays(m, f, more) ==
    \/ pending(m) /\ f = m.full
    \/ ~pending(m) /\ m.moving = 0 /\ ~m.closing /\ ~f /\ more
    \/ ~pending(m) /\ m.moving = 0 /\ ~m.closing /\ ~m.ended /\ ~m.full /\ ~f

\* One that has more to write waits to; one that is full answers again; and
\* any other that stays wants to read.
LEMMA Settles ==
    ASSUME NEW s, NEW b, NEW d \in Nat, NEW m \in ConnType, m.place = "loop", ~m.queued,
           NEW more, NEW more2, NEW replies, Remains(more, more2),
           Loops(s, m, b, d), Rests(s, m, d, more), NEW f \in BOOLEAN,
           Stays(m, f, more2)
    PROVE  Holds(s, Watching(m, f), b, more2, replies)
<1> DEFINE k == Watching(m, f)
<1>4. k \in ConnType
  BY WatchingIs
<1>7. /\ k.place = "loop" /\ k.got = m.got /\ k.eaten = m.eaten /\ k.phase = m.phase
      /\ k.output = m.output /\ k.closing = m.closing /\ k.moving = m.moving /\ k.full = f
      /\ k.ended = m.ended /\ ~k.queued /\ k.watch = interest(m)
  BY WatchingIs
<1> HIDE DEF k
<1>8. Unread(k) = Unread(m) /\ pending(k) = pending(m) /\ interest(k) = interest(m)
  BY <1>7 DEF interest, pending, wants_read, Unread
<1>9. Loops(s, k, b, d)
  <2>1. Within(s, k, d)
    BY <1>7 DEF Within, Loops, Serves
  <2>2. Serves(s, k, b, d)
    BY <1>4, <1>7, <2>1 DEF Loops, Serves
  <2> QED BY <1>7, <1>8, <2>2 DEF Loops
<1>10. Rests(s, k, d, more2)
  <2>1. k.phase # "idle" /\ ~k.closing => s[d + 1] \in Split
    BY <1>7 DEF Rests
  <2>2. more2 \/ k.closing \/ k.moving # 0 \/ k.full \/ Unread(k) < 2
    <3>1. more \/ m.closing \/ m.moving # 0 \/ m.full \/ Unread(m) < 2
      BY DEF Rests
    <3>2. m.full => f \/ more2
      BY DEF Stays
    <3>3. more => more2
      BY DEF Remains
    <3> QED BY <1>7, <1>8, <3>1, <3>2, <3>3
  <2> QED BY <2>1, <2>2 DEF Rests
<1>11. Settled(k, more2)
  <2>1. k.watch = interest(k) /\ ~k.queued
    BY <1>7, <1>8
  <2>2. k.watch # {} \/ more2
    <3>3. more => more2
      BY DEF Remains
    <3>1. CASE pending(m)
      BY <1>7, <3>1 DEF interest
    <3>2. CASE ~pending(m) /\ m.moving = 0 /\ ~m.closing /\ ~m.ended /\ ~m.full
      <4>1. more \/ Unread(m) < 2
        BY <3>2 DEF Rests
      <4>2. CASE Unread(m) < 2
        <5>1. Unread(m) < ReadSize /\ Unread(m) < ReadSize + 1
          <6>1. Unread(m) \in Int
            BY DEF Unread, ConnType
          <6>2. ReadSize \in Nat /\ 2 <= ReadSize
            BY LoopAssumption
          <6> QED BY <4>2, <6>1, <6>2
        <5>2. wants_read(m)
          BY <3>2, <5>1 DEF wants_read
        <5> QED BY <1>7, <5>2 DEF interest
      <4> QED BY <3>3, <4>1, <4>2
    <3> QED BY <3>1, <3>2, <3>3 DEF Stays
  <2>3. k.moving # 0 \/ k.full => pending(k) \/ more2
    BY <1>7, <1>8 DEF Stays
  <2>4. k.closing => pending(k)
    BY <1>7, <1>8 DEF Stays
  <2> QED BY <2>1, <2>2, <2>3, <2>4 DEF Settled
<1>12. Holds(s, k, b, more2, replies)
  <2>1. k.eaten <= k.got
    BY <1>9 DEF Loops, Serves
  <2> QED BY <1>4, <1>7, <1>9, <1>10, <1>11, <2>1 DEF Holds
<1> QED BY <1>12 DEF k

\* A connection whose turn it is to reply, as it is before it writes.
Replying(n) == [n EXCEPT !.queued = FALSE]

\* What Conn::reply writes goes from the connection to the system, and the
\* rest stays in order.
LEMMA ReplyWrites ==
    ASSUME LoopInv, NEW c \in Conn, InLoop(c), NEW m, m = Written(c, Replying(conn[c])),
           NEW q, q = sock[c] \o SubSeq(conn[c].output, 1, Writes(c, Replying(conn[c])))
    PROVE  /\ m \in ConnType /\ m.place = "loop" /\ ~m.queued /\ m.got <= sent[c]
           /\ q \in Seq(Nat) /\ Len(q) <= SocketRoom
           /\ script[c] \in Seq(Kinds) /\ taken[c] \in Seq(Nat)
           /\ \E d \in Nat : /\ Loops(script[c], m, taken[c] \o q, d)
                            /\ Rests(script[c], m, d, c \in again)
<1> DEFINE n == Replying(conn[c])
<1>1. /\ script[c] \in Seq(Kinds) /\ conn[c] \in ConnType /\ conn[c].place = "loop"
      /\ taken[c] \in Seq(Nat) /\ sock[c] \in Seq(Nat) /\ Len(sock[c]) <= SocketRoom
      /\ Out(c) \in Seq(Nat) /\ Out(c) = taken[c] \o sock[c]
      /\ conn[c].got <= sent[c]
  BY OnLoop
<1>2. PICK d \in Nat : /\ Loops(script[c], conn[c], Out(c), d)
                       /\ Rests(script[c], conn[c], d, c \in again)
  BY OnLoop
<1>3. n \in ConnType
  BY <1>1 DEF ConnType, Replying
<1>4. /\ n.place = "loop" /\ n.got = conn[c].got /\ n.eaten = conn[c].eaten /\ n.phase = conn[c].phase
      /\ n.output = conn[c].output /\ n.closing = conn[c].closing /\ n.moving = conn[c].moving
      /\ n.full = conn[c].full /\ n.queued = FALSE
  BY <1>1 DEF ConnType, Replying
<1>5. IsWritten(m, q, n, taken[c], sock[c])
  BY <1>1, <1>3, <1>4, WrittenIs
<1> HIDE DEF n
<1>6. Loops(script[c], n, taken[c] \o sock[c], d)
  <2>1. Within(script[c], n, d)
    BY <1>2, <1>4 DEF Within, Loops, Serves
  <2>2. Serves(script[c], n, Out(c), d)
    BY <1>2, <1>3, <1>4, <2>1 DEF Loops, Serves
  <2>3. Loops(script[c], n, Out(c), d)
    BY <1>2, <1>4, <2>2 DEF Loops, Unread
  <2> QED BY <1>1, <2>3
<1>7. Loops(script[c], m, taken[c] \o q, d)
  BY <1>3, <1>5, <1>6, WrittenLoops
<1>8. /\ m \in ConnType /\ m.place = "loop" /\ ~m.queued /\ m.got = conn[c].got
      /\ m.phase = conn[c].phase /\ m.closing = conn[c].closing /\ m.moving = conn[c].moving
      /\ m.full = conn[c].full /\ m.eaten = conn[c].eaten
      /\ q \in Seq(Nat) /\ Len(q) <= SocketRoom
  BY <1>4, <1>5 DEF IsWritten, Kept
<1>9. Rests(script[c], m, d, c \in again)
  BY <1>2, <1>8 DEF Rests, Unread
<1> QED BY <1>1, <1>7, <1>8, <1>9

\* What a reply changes besides its connection.
Replies(c) ==
    /\ pc = "reply" /\ c \in answered /\ answered' = answered \ {c}
    /\ again' \in {again, again \cup {c}}
    /\ UNCHANGED <<clientVars, pc, ready, bell, Pending, failures>>

\* Conn::reply touches one connection, and whether it answers again.
LEMMA ReplyAside ==
    ASSUME LoopInv, NEW c \in Conn, Replies(c)
    PROVE  Aside(c)
<1>1. /\ UNCHANGED <<script, manner, sent, taken, shut, failures>>
      /\ pc' = "reply" /\ bell' = bell /\ ready' = ready /\ Pending' = Pending
      /\ again' \subseteq again \cup {c} /\ answered' \subseteq answered
      /\ \A x \in Conn \ {c} : (x \in again' <=> x \in again) /\ (x \in answered' <=> x \in answered)
  BY DEF Replies, clientVars
<1>2. ready \subseteq Conn /\ again \subseteq Conn /\ answered \subseteq Conn /\ bell \in BOOLEAN
      /\ Pending \subseteq Conn \X Nat
  BY DEF LoopInv, Types
<1> QED BY <1>1, <1>2 DEF Aside

\* A connection that left the loop is not replied to.
LEMMA ReplyNone ==
    ASSUME LoopInv, NEW c \in Conn, Replies(c), ~InLoop(c), UNCHANGED <<conn, sock, unsent, connections>>
    PROVE  LoopInv'
<1>1. Types /\ Fine(c)
  BY DEF LoopInv
<1>2. Aside(c)
  BY ReplyAside
<1>3. conn[c] \in ConnType /\ sock[c] \in Seq(Nat) /\ Len(sock[c]) <= SocketRoom
      /\ conn \in [Conn -> ConnType] /\ sock \in [Conn -> Seq(Nat)]
  BY <1>1 DEF Types
<1>4. conn' = [conn EXCEPT ![c] = conn[c]] /\ sock' = [sock EXCEPT ![c] = sock[c]]
  BY <1>3
<1>5. Holds(script[c], conn[c], taken[c] \o sock[c], c \in again', c \in answered') /\ conn[c].got <= sent[c]
  <2>1. Holds(script[c], conn[c], taken[c] \o sock[c], c \in again, c \in answered) /\ conn[c].got <= sent[c]
    BY <1>1 DEF Fine, Out, Reaches
  <2>2. conn[c].place # "loop"
    BY DEF InLoop
  <2> QED BY <2>1, <2>2, HoldsElsewhere
<1>6. \A m \in Pending' : Waits(m)'
  <2> TAKE m \in Pending'
  <2>1. Waits(m)
    BY DEF LoopInv, Replies
  <2>2. conn[m[1]].place = "closed"
    BY <2>1 DEF Waits, Replies
  <2> QED BY <2>1, <2>2 DEF Waits, Out, Replies, clientVars
<1>7. Counted(c, conn[c])
  <2>1. unsent' = unsent /\ connections' = connections
    OBVIOUS
  <2>2. unsent \in Int /\ connections \in Int /\ conn[c].held \in Int
    <3>1. conn[c].held \in Nat
      BY <1>3 DEF ConnType
    <3> QED BY <1>3, <3>1, WeightFinite DEF LoopInv, Counts
  <2> QED BY <2>1, <2>2 DEF Counted, Opens
<1> QED BY <1>2, <1>3, <1>4, <1>5, <1>6, <1>7, OneChanges

\* No reply that goes out is one the journal is still to hear of.
LEMMA ReplyWaits ==
    ASSUME LoopInv, NEW c \in Conn, Replies(c), InLoop(c), NEW n, NEW q,
           conn' = [conn EXCEPT ![c] = n], sock' = [sock EXCEPT ![c] = q]
    PROVE  \A m \in Pending' : Waits(m)'
<1>1. conn[c].place # "closed" /\ pc # "receive" /\ pc' = pc /\ taken' = taken /\ Pending' = Pending
      /\ \A x \in answered : x = c \/ x \in answered'
  BY DEF Replies, InLoop, clientVars
<1> QED BY <1>1, WaitsElse

\* A client that left has its connection dropped with what waited for it.
LEMMA ReplyDrops ==
    ASSUME LoopInv, NEW c \in Conn, Replies(c), InLoop(c), Close(c), UNCHANGED sock
    PROVE  LoopInv'
<1>1. PICK d \in Nat : Loops(script[c], conn[c], Out(c), d)
  BY OnLoop
<1>2. /\ script[c] \in Seq(Kinds) /\ conn[c] \in ConnType /\ conn[c].place = "loop"
      /\ sock[c] \in Seq(Nat) /\ Len(sock[c]) <= SocketRoom
      /\ Out(c) \in Seq(Nat) /\ Out(c) = taken[c] \o sock[c]
  BY OnLoop
<1>3. InOrder(script[c], taken[c] \o sock[c], d)
  BY <1>1, <1>2, OutBefore DEF Loops
<1>4. sock' = [sock EXCEPT ![c] = sock[c]]
  BY DEF LoopInv, Types
<1>5. conn' = [conn EXCEPT ![c] = Gone(conn[c], "closed")]
  BY DEF Close
<1>6. \A m \in Pending' : Waits(m)'
  BY <1>4, <1>5, ReplyWaits
<1> QED BY <1>2, <1>3, <1>4, <1>6, ReplyAside, ClosesHolds DEF Close

\* One that is to close does, once all of its replies are out.
LEMMA ReplyCloses ==
    ASSUME LoopInv, NEW c \in Conn, Replies(c), InLoop(c), Close(c),
           NEW m, m = Written(c, Replying(conn[c])),
           NEW q, q = sock[c] \o SubSeq(conn[c].output, 1, Writes(c, Replying(conn[c]))),
           sock' = [sock EXCEPT ![c] = q]
    PROVE  LoopInv'
<1>1. /\ m \in ConnType /\ q \in Seq(Nat) /\ Len(q) <= SocketRoom
      /\ script[c] \in Seq(Kinds) /\ taken[c] \in Seq(Nat)
      /\ \E d \in Nat : Loops(script[c], m, taken[c] \o q, d)
  BY ReplyWrites
<1>2. PICK d \in Nat : Loops(script[c], m, taken[c] \o q, d)
  BY <1>1
<1>3. InOrder(script[c], taken[c] \o q, d)
  <2>1. taken[c] \o q \in Seq(Nat)
    BY <1>1, ConcatProperties
  <2> QED BY <1>1, <1>2, <2>1, OutBefore DEF Loops
<1>4. conn' = [conn EXCEPT ![c] = Gone(conn[c], "closed")] /\ conn[c].place = "loop"
  BY DEF Close, InLoop
<1>5. \A x \in Pending' : Waits(x)'
  BY <1>4, ReplyWaits
<1> QED BY <1>1, <1>3, <1>4, <1>5, ReplyAside, ClosesHolds DEF Close

\* One whose request has to wait is handed off, once what was answered
\* before is out.
LEMMA ReplyHandsOff ==
    ASSUME LoopInv, NEW c \in Conn, Replies(c), InLoop(c),
           NEW m, m = Written(c, Replying(conn[c])), HandOff(c, m), m.moving # 0,
           NEW q, q = sock[c] \o SubSeq(conn[c].output, 1, Writes(c, Replying(conn[c]))),
           sock' = [sock EXCEPT ![c] = q]
    PROVE  LoopInv'
<1>1. /\ m \in ConnType /\ m.got <= sent[c] /\ q \in Seq(Nat) /\ Len(q) <= SocketRoom
      /\ \E d \in Nat : Loops(script[c], m, taken[c] \o q, d)
  BY ReplyWrites
<1>2. PICK d \in Nat : Serves(script[c], m, taken[c] \o q, d)
  BY <1>1 DEF Loops
<1>3. conn' = [conn EXCEPT ![c] = Handed(m)]
  BY DEF HandOff, Handed
<1>4. \A x \in Pending' : Waits(x)'
  BY <1>3, ReplyWaits
<1> QED BY <1>1, <1>2, <1>4, ReplyAside, HandOffHolds

\* Any other stays, watched for what it waits on.
LEMMA ReplyKeeps ==
    ASSUME LoopInv, NEW c \in Conn, Replies(c), InLoop(c),
           NEW m, m = Written(c, Replying(conn[c])), NEW f \in BOOLEAN, Keeps(c, Watching(m, f)),
           NEW q, q = sock[c] \o SubSeq(conn[c].output, 1, Writes(c, Replying(conn[c]))),
           sock' = [sock EXCEPT ![c] = q],
           c \in again => c \in again',
           Stays(m, f, c \in again')
    PROVE  LoopInv'
<1>1. /\ m \in ConnType /\ m.place = "loop" /\ ~m.queued /\ m.got <= sent[c]
      /\ q \in Seq(Nat) /\ Len(q) <= SocketRoom
      /\ \E d \in Nat : /\ Loops(script[c], m, taken[c] \o q, d)
                        /\ Rests(script[c], m, d, c \in again)
  BY ReplyWrites
<1>2. PICK d \in Nat : Loops(script[c], m, taken[c] \o q, d) /\ Rests(script[c], m, d, c \in again)
  BY <1>1
<1> DEFINE k == Watching(m, f)
<1>3. /\ k \in ConnType /\ k.place = "loop" /\ k.got = m.got
      /\ Holds(script[c], k, taken[c] \o q, c \in again', c \in answered')
  <2> DEFINE b == taken[c] \o q
  <2>1. Loops(script[c], m, b, d)
    BY <1>2
  <2> HIDE DEF b, k
  <2>2. /\ Watching(m, f) \in ConnType
        /\ Watching(m, f).place = "loop" /\ Watching(m, f).got = m.got
        /\ Holds(script[c], Watching(m, f), b, c \in again', c \in answered')
    <3> DEFINE h == c \in again
    <3> DEFINE h2 == c \in again'
    <3> DEFINE r == c \in answered'
    <3>1. Remains(h, h2) /\ Rests(script[c], m, d, h) /\ Stays(m, f, h2)
      BY <1>2 DEF Remains
    <3> HIDE DEF h, h2, r
    <3>2. Watching(m, f) \in ConnType /\ Watching(m, f).place = "loop" /\ Watching(m, f).got = m.got
      BY <1>1, WatchingIs
    <3>5. Holds(script[c], Watching(m, f), b, h2, r)
      BY <1>1, <2>1, <3>1, Settles
    <3> QED BY <3>2, <3>5 DEF h2, r
  <2> QED BY <2>2 DEF b, k
<1>4. Keeps(c, k)
  OBVIOUS
<1> HIDE DEF k
<1>5. conn' = [conn EXCEPT ![c] = Counting(k)]
  BY <1>4 DEF Keeps, Counting
<1>6. \A x \in Pending' : Waits(x)'
  BY <1>5, ReplyWaits
<1>7. k.got <= sent[c]
  BY <1>1, <1>3
<1> QED BY <1>1, <1>3, <1>4, <1>6, <1>7, ReplyAside, KeepsHolds

\* Conn::reply, whatever its step calls for.
LEMMA ReplyHolds == ASSUME LoopInv, NEW c \in Conn, ReplyTo(c) PROVE LoopInv'
<1> DEFINE n == Replying(conn[c])
<1> DEFINE m == Written(c, n)
<1> DEFINE q == sock[c] \o SubSeq(conn[c].output, 1, Writes(c, n))
<1> DEFINE kept == [m EXCEPT !.watch = interest(m)]
<1>1. Replies(c)
  BY DEF ReplyTo, Replies, Pending, journalVars
<1>2. CASE ~InLoop(c)
  <2>1. UNCHANGED <<conn, sock, unsent, connections>>
    BY <1>2 DEF ReplyTo, Pending, journalVars
  <2> QED BY <1>1, <1>2, <2>1, ReplyNone
<1>3. CASE InLoop(c) /\ Left(c) /\ pending(n)
  <2>1. Close(c) /\ UNCHANGED sock
    BY <1>3 DEF ReplyTo, Replying, Pending, journalVars
  <2> QED BY <1>1, <1>3, <2>1, ReplyDrops
<1>4. CASE InLoop(c) /\ ~(Left(c) /\ pending(n))
  <2>1. Sends(c, n)
    BY <1>4 DEF ReplyTo, Replying, Pending, journalVars
  <2>2. sock' = [sock EXCEPT ![c] = q]
    <3>1. conn[c] \in ConnType
      BY DEF LoopInv, Types
    <3>2. n.output = conn[c].output
      BY <3>1 DEF Replying, ConnType
    <3> HIDE DEF n
    <3> QED BY <2>1, <3>2 DEF Sends
  <2>3. \/ pending(m) /\ Keeps(c, kept) /\ UNCHANGED again
        \/ ~pending(m) /\ m.moving # 0 /\ HandOff(c, m)
        \/ Close(c)
        \/ ~pending(m) /\ m.moving = 0 /\ ~m.closing /\ ~m.ended /\ m.full
           /\ Keeps(c, [kept EXCEPT !.full = FALSE]) /\ again' = again \cup {c}
        \/ ~pending(m) /\ m.moving = 0 /\ ~m.closing /\ ~m.ended /\ ~m.full /\ Keeps(c, kept) /\ UNCHANGED again
    BY <1>4 DEF ReplyTo, Replying, Pending, journalVars
  <2>4. m \in ConnType
    BY <1>4, ReplyWrites
  <2>5. q = sock[c] \o SubSeq(conn[c].output, 1, Writes(c, Replying(conn[c])))
    OBVIOUS
  <2>6. m = Written(c, Replying(conn[c]))
    OBVIOUS
  <2> HIDE DEF q, m
  <2>7. m.full \in BOOLEAN
    BY <2>4 DEF ConnType
  <2>8. kept = Watching(m, m.full)
    <3>1. kept \in ConnType
      BY <2>4 DEF ConnType, interest
    <3>2. kept.full = m.full
      BY <2>4 DEF ConnType
    <3> HIDE DEF kept
    <3>3. [kept EXCEPT !.full = m.full] = kept
      BY <3>1, <3>2 DEF ConnType
    <3> QED BY <3>3 DEF Watching, kept
  <2>9. [kept EXCEPT !.full = FALSE] = Watching(m, FALSE)
    BY DEF Watching
  <2> HIDE DEF kept
  <2>a. CASE pending(m) /\ Keeps(c, kept) /\ UNCHANGED again
    <3>z. Stays(m, m.full, c \in again')
      BY <2>a DEF Stays
    <3> QED BY <1>1, <1>4, <2>2, <2>5, <2>6, <2>7, <2>8, <2>a, <3>z, ReplyKeeps
  <2>b. CASE ~pending(m) /\ m.moving # 0 /\ HandOff(c, m)
    BY <1>1, <1>4, <2>2, <2>5, <2>6, <2>b, ReplyHandsOff
  <2>c. CASE Close(c)
    BY <1>1, <1>4, <2>2, <2>5, <2>6, <2>c, ReplyCloses
  <2>d. CASE ~pending(m) /\ m.moving = 0 /\ ~m.closing /\ ~m.ended /\ m.full
             /\ Keeps(c, [kept EXCEPT !.full = FALSE]) /\ again' = again \cup {c}
    <3>1. Keeps(c, Watching(m, FALSE))
      BY <2>9, <2>d
    <3>z. Stays(m, FALSE, c \in again')
      BY <2>d DEF Stays
    <3> QED BY <1>1, <1>4, <2>2, <2>5, <2>6, <2>d, <3>z, <3>1, ReplyKeeps
  <2>e. CASE ~pending(m) /\ m.moving = 0 /\ ~m.closing /\ ~m.ended /\ ~m.full /\ Keeps(c, kept) /\ UNCHANGED again
    <3>z. Stays(m, m.full, c \in again')
      BY <2>e DEF Stays
    <3> QED BY <1>1, <1>4, <2>2, <2>5, <2>6, <2>7, <2>8, <2>e, <3>z, ReplyKeeps
  <2> QED BY <2>3, <2>a, <2>b, <2>c, <2>d, <2>e
<1> QED BY <1>2, <1>3, <1>4

\* A connection that keeps its replies, watched anew.
LEMMA WatchedAnew ==
    ASSUME NEW m \in ConnType
    PROVE  [m EXCEPT !.watch = interest(m)] = Watching(m, m.full)
<1> DEFINE kept == [m EXCEPT !.watch = interest(m)]
<1>1. kept \in ConnType
  BY DEF ConnType, interest
<1>2. kept.full = m.full
  BY DEF ConnType
<1> HIDE DEF kept
<1>3. [kept EXCEPT !.full = m.full] = kept
  BY <1>1, <1>2 DEF ConnType
<1> QED BY <1>3 DEF Watching, kept

\* A client late with a request is told so: its reply is the next in order.
LEMMA ToldLate ==
    ASSUME NEW s \in Seq(Kinds), NEW b \in Seq(Nat), NEW n \in ConnType, NEW d \in Nat,
           Loops(s, n, b, d), Rests(s, n, d, TRUE), ~n.closing, n.phase # "idle"
    PROVE  /\ fail(n, Current(s, n)) \in ConnType
           /\ Kept(fail(n, Current(s, n)), n)
           /\ fail(n, Current(s, n)).closing
           /\ Loops(s, fail(n, Current(s, n)), b, d + 1)
<1>1. Serves(s, n, b, d) /\ Within(s, n, d) /\ Len(n.output) < MaxOutput
  BY DEF Loops, Serves
<1>2. n.moving = 0
  BY <1>1 DEF Within
<1>3. d < Len(s)
  BY <1>1, <1>2, OneMore
<1>4. Current(s, n) = d + 1 /\ d + 1 \in Nat
  BY <1>1, <1>2, <1>3, CurrentIs
<1> DEFINE told == fail(n, d + 1)
<1>5. /\ told \in ConnType /\ Kept(told, n)
      /\ told.output = n.output \o Failure(d + 1)
      /\ told.eaten = n.eaten /\ told.phase = n.phase /\ told.closing = TRUE /\ told.moving = n.moving
  BY <1>4, FailIs
<1>6. s[d + 1] \in Split
  BY DEF Rests
<1>7. s[d + 1] # "large" /\ s[d + 1] \notin {"wait", "stream"}
  BY <1>6 DEF Split
<1>8. Failure(d + 1) = Reply(s, d + 1)
  BY <1>7, FailureIs
<1> HIDE DEF told
<1>9. told.output = n.output \o Reply(s, d + 1) /\ told.got = n.got /\ told.moving = 0
  BY <1>2, <1>5, <1>8 DEF Kept
<1>10. n.eaten <= told.eaten /\ told.eaten <= told.got
  <2>1. n.eaten \in Nat /\ n.eaten <= n.got
    BY <1>1 DEF Serves, ConnType
  <2> QED BY <1>5, <1>9, <2>1
<1>11. told.closing /\ told.phase # "idle"
  BY <1>5
<1>12. Loops(s, told, b, d + 1)
  BY <1>1, <1>3, <1>5, <1>7, <1>9, <1>10, <1>11, LoopsMore
<1> QED BY <1>4, <1>5, <1>11, <1>12 DEF told

\* What the sweep, and what follows it, change besides a connection.
Sweeping ==
    /\ pc \in {"sweep", "slow"} /\ pc' \in {"slow", "drain"}
    /\ UNCHANGED <<clientVars, ready, again, answered, bell, Pending, failures>>

\* The sweep touches one connection.
LEMMA SweepAside ==
    ASSUME LoopInv, NEW c \in Conn, Sweeping
    PROVE  Aside(c) /\ c \notin answered
<1>1. /\ UNCHANGED <<script, manner, sent, taken, shut, failures>>
      /\ pc' \in {"slow", "drain"} /\ bell' = bell /\ ready' = ready /\ Pending' = Pending
      /\ again' = again /\ answered' = answered
  BY DEF Sweeping, clientVars
<1>2. ready \subseteq Conn /\ again \subseteq Conn /\ answered = {} /\ bell \in BOOLEAN
      /\ Pending \subseteq Conn \X Nat
  BY DEF LoopInv, Types, Sweeping
<1> QED BY <1>1, <1>2 DEF Aside

\* Nothing the sweep drops or tells waits for the journal.
LEMMA SweepWaits ==
    ASSUME LoopInv, NEW c \in Conn, Sweeping, InLoop(c), NEW n, NEW q,
           conn' = [conn EXCEPT ![c] = n], sock' = [sock EXCEPT ![c] = q]
    PROVE  \A m \in Pending' : Waits(m)'
<1>1. conn[c].place # "closed" /\ pc # "receive" /\ taken' = taken /\ Pending' = Pending
      /\ \A x \in answered : x = c \/ x \in answered'
  BY DEF Sweeping, InLoop, clientVars
<1> QED BY <1>1, WaitsElse

\* A client that went silent, or takes nothing, is dropped.
LEMMA SweepDrops ==
    ASSUME LoopInv, NEW c \in Conn, Sweeping, InLoop(c), Close(c), UNCHANGED sock
    PROVE  LoopInv'
<1>1. PICK d \in Nat : Loops(script[c], conn[c], Out(c), d)
  BY OnLoop
<1>2. /\ script[c] \in Seq(Kinds) /\ conn[c] \in ConnType /\ conn[c].place = "loop"
      /\ sock[c] \in Seq(Nat) /\ Len(sock[c]) <= SocketRoom
      /\ Out(c) \in Seq(Nat) /\ Out(c) = taken[c] \o sock[c]
  BY OnLoop
<1>3. InOrder(script[c], taken[c] \o sock[c], d)
  BY <1>1, <1>2, OutBefore DEF Loops
<1>4. sock' = [sock EXCEPT ![c] = sock[c]]
  BY DEF LoopInv, Types
<1>5. conn' = [conn EXCEPT ![c] = Gone(conn[c], "closed")]
  BY DEF Close
<1>6. \A m \in Pending' : Waits(m)'
  BY <1>4, <1>5, SweepWaits
<1> QED BY <1>2, <1>3, <1>4, <1>6, SweepAside, ClosesHolds DEF Close

\* One that is late with a request is told so, and then closed, at once or
\* once it has read that (Conn::expire).
LEMMA SweepTells ==
    ASSUME LoopInv, NEW c \in Conn, Sweeping, InLoop(c), ~pending(conn[c]), conn[c].phase # "idle",
           NEW told, told = fail(conn[c], Current(script[c], conn[c])),
           NEW m, m = Written(c, told), Sends(c, told),
           IF pending(m) THEN Keeps(c, [m EXCEPT !.watch = interest(m)]) ELSE Close(c)
    PROVE  LoopInv'
<1> DEFINE q == sock[c] \o SubSeq(told.output, 1, Writes(c, told))
<1>1. /\ script[c] \in Seq(Kinds) /\ conn[c] \in ConnType /\ conn[c].place = "loop"
      /\ taken[c] \in Seq(Nat) /\ sock[c] \in Seq(Nat) /\ Len(sock[c]) <= SocketRoom
      /\ Out(c) \in Seq(Nat) /\ Out(c) = taken[c] \o sock[c]
      /\ conn[c].got <= sent[c]
  BY OnLoop
<1>2. PICK d \in Nat : /\ Loops(script[c], conn[c], Out(c), d)
                       /\ Rests(script[c], conn[c], d, c \in again)
  BY OnLoop
<1>3. Settled(conn[c], c \in again)
  BY OnLoop, SweepAside
<1>4. ~conn[c].closing /\ ~conn[c].queued
  BY <1>3 DEF Settled
<1>5. Rests(script[c], conn[c], d, TRUE)
  BY <1>2 DEF Rests
<1>6. told \in ConnType /\ Kept(told, conn[c]) /\ told.closing /\ Loops(script[c], told, Out(c), d + 1)
  BY <1>1, <1>2, <1>4, <1>5, ToldLate
<1>7. IsWritten(m, q, told, taken[c], sock[c])
  BY <1>1, <1>6, WrittenIs
<1>8. sock' = [sock EXCEPT ![c] = q]
  BY DEF Sends
<1> HIDE DEF q
<1>9. d + 1 \in Nat
  OBVIOUS
<1>10. Loops(script[c], m, taken[c] \o q, d + 1)
  BY <1>1, <1>6, <1>7, WrittenLoops
<1>11. /\ m \in ConnType /\ m.place = "loop" /\ ~m.queued /\ m.got = conn[c].got /\ m.closing
       /\ q \in Seq(Nat) /\ Len(q) <= SocketRoom
  BY <1>1, <1>4, <1>6, <1>7 DEF IsWritten, Kept
<1>12. CASE pending(m)
  <2> DEFINE f == m.full
  <2> DEFINE k == Watching(m, f)
  <2> DEFINE h == c \in again
  <2> DEFINE h2 == c \in again'
  <2> DEFINE r == c \in answered'
  <2> DEFINE b == taken[c] \o q
  <2>1. Keeps(c, k)
    BY <1>11, <1>12, WatchedAnew
  <2>2. f \in BOOLEAN
    BY <1>11 DEF ConnType
  <2>3. Remains(h, h2)
    BY DEF Sweeping, Remains
  <2>4. Rests(script[c], m, d + 1, h)
    BY <1>11 DEF Rests
  <2>5. Stays(m, f, h2)
    BY <1>12 DEF Stays
  <2>6. Loops(script[c], m, b, d + 1)
    BY <1>10
  <2> HIDE DEF b, h, h2, r
  <2>7. Holds(script[c], Watching(m, f), b, h2, r)
    <3> HIDE DEF f
    <3> QED BY <1>9, <1>11, <2>2, <2>3, <2>4, <2>5, <2>6, Settles
  <2>8. Watching(m, f) \in ConnType /\ Watching(m, f).place = "loop" /\ Watching(m, f).got = m.got
    <3> HIDE DEF f
    <3> QED BY <1>11, <2>2, WatchingIs
  <2>9. /\ k \in ConnType /\ k.place = "loop" /\ k.got = m.got
        /\ Holds(script[c], k, taken[c] \o q, c \in again', c \in answered')
    BY <2>7, <2>8 DEF b, h2, r
  <2> HIDE DEF k
  <2>10. conn' = [conn EXCEPT ![c] = Counting(k)]
    BY <2>1 DEF Keeps, Counting
  <2>11. \A x \in Pending' : Waits(x)'
    BY <1>8, <2>10, SweepWaits
  <2>12. k.got <= sent[c]
    BY <1>1, <1>11, <2>9
  <2> QED BY <1>8, <1>11, <2>1, <2>9, <2>11, <2>12, SweepAside, KeepsHolds
<1>13. CASE ~pending(m)
  <2>1. Close(c)
    BY <1>13
  <2>2. conn' = [conn EXCEPT ![c] = Gone(conn[c], "closed")]
    BY <2>1 DEF Close
  <2>3. \A x \in Pending' : Waits(x)'
    BY <1>8, <2>2, SweepWaits
  <2>4. InOrder(script[c], taken[c] \o q, d + 1)
    <3>1. taken[c] \o q \in Seq(Nat)
      BY <1>1, <1>11, ConcatProperties
    <3> QED BY <1>1, <1>9, <1>10, <1>11, <3>1, OutBefore DEF Loops
  <2> QED BY <1>1, <1>8, <1>9, <1>11, <2>1, <2>3, <2>4, SweepAside, ClosesHolds DEF Close
<1> QED BY <1>12, <1>13

\* The sweep, whichever deadline passed.
LEMMA SweepHolds == LoopInv /\ Sweep => LoopInv'
<1> SUFFICES ASSUME LoopInv, Sweep PROVE LoopInv'
  OBVIOUS
<1>1. CASE UNCHANGED <<conn, sock, unsent, connections>>
  <2>1. pc = "sweep" /\ pc' = "slow" /\ ready' = ready /\ bell' = bell /\ Pending' = Pending
        /\ UNCHANGED <<clientVars, again, answered, conn, sock, unsent, connections, failures>>
    BY <1>1 DEF Sweep, Goto, Pending, journalVars
  <2>2. answered = {} /\ bell' \in BOOLEAN /\ ready' \subseteq Conn
    BY <2>1 DEF LoopInv, Types
  <2> QED BY <2>1, <2>2, OnlyClosedWait, StillHolds
<1>2. ASSUME NEW c \in Conn, Late(c), Expire(c, conn[c])
      PROVE  LoopInv'
  <2>1. Sweeping
    BY DEF Sweep, Sweeping, Goto, Pending, journalVars
  <2>2. InLoop(c)
    BY <1>2 DEF Late
  <2> DEFINE told == fail(conn[c], Current(script[c], conn[c]))
  <2> DEFINE m == Written(c, told)
  <2> DEFINE Tells == /\ ~pending(conn[c]) /\ conn[c].phase # "idle"
                      /\ Sends(c, told)
                      /\ IF pending(m) THEN Keeps(c, [m EXCEPT !.watch = interest(m)]) ELSE Close(c)
  <2>3. (Close(c) /\ UNCHANGED sock) \/ Tells
    BY <1>2 DEF Expire
  <2>4. CASE Close(c) /\ UNCHANGED sock
    BY <2>1, <2>2, <2>4, SweepDrops
  <2>5. CASE Tells
    BY <2>1, <2>2, <2>5, SweepTells
  <2> QED BY <2>3, <2>4, <2>5
<1> QED BY <1>1, <1>2 DEF Sweep, Pending, journalVars

\* Loop::close_slow_readers drops some connections with what they hold.
LEMMA SlowHolds == LoopInv /\ CloseSlow => LoopInv'
<1> SUFFICES ASSUME LoopInv, CloseSlow PROVE LoopInv'
  OBVIOUS
<1>1. /\ pc = "slow"
      /\ UNCHANGED <<clientVars, ready, again, answered, sock, bell, Pending, failures>>
      /\ \/ \E c \in Conn : Late(c) /\ Close(c) /\ UNCHANGED pc
         \/ Goto("drain") /\ UNCHANGED <<conn, unsent, connections>>
  BY DEF CloseSlow, Pending, journalVars
<1>2. CASE Goto("drain") /\ UNCHANGED <<conn, unsent, connections>>
  <2>1. pc' = "drain" /\ ready' = ready /\ bell' = bell /\ Pending' = Pending
        /\ UNCHANGED <<clientVars, again, answered, conn, sock, unsent, connections, failures>>
    BY <1>1, <1>2 DEF Goto
  <2>2. answered = {} /\ bell' \in BOOLEAN /\ ready' \subseteq Conn
    BY <1>1, <2>1 DEF LoopInv, Types
  <2> QED BY <1>1, <2>1, <2>2, OnlyClosedWait, StillHolds
<1>3. ASSUME NEW c \in Conn, Late(c), Close(c), UNCHANGED pc
      PROVE  LoopInv'
  <2>1. Sweeping
    BY <1>1, <1>3 DEF Sweeping
  <2>2. InLoop(c) /\ UNCHANGED sock
    BY <1>1, <1>3 DEF Late
  <2> QED BY <1>3, <2>1, <2>2, SweepDrops
<1> QED BY <1>1, <1>2, <1>3

--------------------------------------------------------------------------
(* Steps of all connections.                                               *)

\* One that arrives has nothing read and nothing answered, and is watched.
LEMMA ArrivedHolds ==
    ASSUME NEW s \in Seq(Kinds), NEW n, n = [NewConn EXCEPT !.place = "arrived"], NEW more, NEW replies
    PROVE  Holds(s, [n EXCEPT !.place = "loop", !.watch = interest(n)], <<>>, more, replies)
<1> DEFINE k == [n EXCEPT !.place = "loop", !.watch = interest(n)]
<1>1. n \in ConnType
  <2>1. NewConn \in ConnType
    BY DEF NewConn, ConnType
  <2> QED BY <2>1 DEF ConnType
<1>2. /\ n.got = 0 /\ n.eaten = 0 /\ n.phase = "idle" /\ n.output = <<>> /\ ~n.ended /\ ~n.closing
      /\ ~n.full /\ n.moving = 0 /\ ~n.queued
  BY DEF NewConn
<1>3. wants_read(n) /\ Unread(n) = 0 /\ ~pending(n)
  <2>1. ReadSize \in Nat /\ 0 < ReadSize
    BY LoopAssumption
  <2> QED BY <1>2, <2>1 DEF wants_read, Unread, pending
<1>4. interest(n) = {"read"}
  BY <1>3 DEF interest
<1>5. k \in ConnType
  BY <1>1, <1>4 DEF ConnType
<1>6. /\ k.place = "loop" /\ k.got = 0 /\ k.eaten = 0 /\ k.phase = "idle" /\ k.output = <<>> /\ ~k.ended
      /\ ~k.closing /\ ~k.full /\ k.moving = 0 /\ ~k.queued /\ k.watch = {"read"}
  BY <1>1, <1>2, <1>4 DEF ConnType
<1> HIDE DEF k
<1>7. InOrder(s, <<>>, 0) /\ Len(<<>>) = Given(s, 0)
  BY InOrderStart
<1>8. <<>> \o k.output = <<>>
  BY <1>6
<1>9. Len(s) \in Nat /\ Upto(s, 0) = 0 /\ Upto(s, Len(s)) \in Nat
  BY UptoIs
<1>10. Within(s, k, 0)
  BY <1>6, <1>9 DEF Within
<1>11. Serves(s, k, <<>>, 0)
  BY <1>5, <1>6, <1>7, <1>8, <1>9, <1>10 DEF Serves
<1>12. Unread(k) = 0
  BY <1>6 DEF Unread
<1>13. Loops(s, k, <<>>, 0)
  <2>1. Len(k.output) = 0
    BY <1>6
  <2>2. ReadSize \in Nat /\ MaxOutput \in Nat /\ LargeReply \in Nat /\ 0 < MaxOutput
    BY LoopAssumption
  <2> QED BY <1>6, <1>11, <1>12, <2>1, <2>2 DEF Loops
<1>14. Rests(s, k, 0, more)
  BY <1>6, <1>12 DEF Rests
<1>15. Settled(k, more)
  <2>1. interest(k) = {"read"}
    <3>1. ReadSize \in Nat /\ 0 < ReadSize
      BY LoopAssumption
    <3>2. wants_read(k) /\ ~pending(k)
      BY <1>6, <1>12, <3>1 DEF wants_read, pending
    <3> QED BY <3>2 DEF interest
  <2> QED BY <1>6, <2>1 DEF Settled
<1>16. Holds(s, k, <<>>, more, replies)
  BY <1>5, <1>6, <1>13, <1>14, <1>15 DEF Holds
<1> QED BY <1>16 DEF k

\* Loop::welcome takes every arrival, watched for what it will send.
LEMMA TakeHolds == LoopInv /\ Take => LoopInv'
<1> SUFFICES ASSUME LoopInv, Take PROVE LoopInv'
  OBVIOUS
<1>1. /\ pc = "take" /\ pc' = "poll" /\ conn' = Welcomed
      /\ script' = script /\ manner' = manner /\ sent' = sent /\ shut' = shut /\ taken' = taken
      /\ ready' = ready /\ again' = again /\ answered' = answered /\ sock' = sock /\ bell' = bell
      /\ unsent' = unsent /\ connections' = connections /\ Pending' = Pending /\ failures' = failures
  BY DEF Take, Goto, clientVars, Pending, journalVars
<1>2. Types /\ (\A x \in Conn : Fine(x)) /\ answered = {} /\ conn \in [Conn -> ConnType]
  BY <1>1 DEF LoopInv, Types
<1>3. ASSUME NEW x \in Conn
      PROVE  /\ conn'[x] \in ConnType /\ conn'[x].got = conn[x].got /\ conn'[x].held = conn[x].held
             /\ conn'[x].place = (IF conn[x].place = "arrived" THEN "loop" ELSE conn[x].place)
             /\ Holds(script[x], conn'[x], Out(x), x \in again, x \in answered)
  <2>1. Holds(script[x], conn[x], Out(x), x \in again, x \in answered) /\ script[x] \in Seq(Kinds)
    BY <1>2 DEF Fine, Types
  <2>2. conn[x] \in ConnType
    BY <1>2
  <2>3. CASE conn[x].place = "arrived"
    <3> DEFINE k == [conn[x] EXCEPT !.place = "loop", !.watch = interest(conn[x])]
    <3>1. conn'[x] = k
      BY <1>1, <2>3 DEF Welcomed
    <3>2. k \in ConnType
      BY <2>2 DEF ConnType, interest
    <3>3. k.got = conn[x].got /\ k.held = conn[x].held /\ k.place = "loop"
      BY <2>2 DEF ConnType
    <3>4. conn[x] = [NewConn EXCEPT !.place = "arrived"] /\ Out(x) = <<>>
      BY <2>1, <2>3 DEF Holds
    <3>5. Holds(script[x], k, <<>>, x \in again, x \in answered)
      BY <2>1, <3>4, ArrivedHolds
    <3> HIDE DEF k
    <3> QED BY <2>3, <3>1, <3>2, <3>3, <3>4, <3>5
  <2>4. CASE conn[x].place # "arrived"
    <3>1. conn'[x] = conn[x]
      BY <1>1, <2>4 DEF Welcomed
    <3> QED BY <2>1, <2>2, <2>4, <3>1
  <2> QED BY <2>3, <2>4
<1>4. conn' \in [Conn -> ConnType]
  <2>1. conn' = [x \in Conn |-> conn'[x]]
    BY <1>1 DEF Welcomed
  <2> QED BY <1>3, <2>1
<1>5. Types'
  BY <1>1, <1>2, <1>4 DEF Types
<1>6. \A x \in Conn : Fine(x)'
  <2> TAKE x \in Conn
  <2>1. Out(x)' = Out(x)
    BY <1>1 DEF Out
  <2>2. Holds(script[x], conn[x], Out(x), x \in again, x \in answered)'
    BY <1>1, <1>3, <2>1
  <2>3. Reaches(x)
    BY <1>2 DEF Fine
  <2>4. Reaches(x)'
    BY <1>1, <1>3, <2>3 DEF Reaches
  <2> QED BY <2>2, <2>4 DEF Fine
<1>7. \A m \in Pending' : Waits(m)'
  <2> TAKE m \in Pending'
  <2>1. Waits(m) /\ m[1] \in Conn
    BY <1>1, <1>2 DEF LoopInv, Types
  <2>2. conn[m[1]].place = "closed"
    BY <1>1, <2>1 DEF Waits
  <2>3. conn'[m[1]].place = "closed"
    BY <1>3, <2>1, <2>2
  <2>4. Out(m[1])' = Out(m[1])
    BY <1>1 DEF Out
  <2> QED BY <2>1, <2>3, <2>4 DEF Waits
<1>8. Counts'
  <2>1. Weight' = Weight
    <3>1. Weight' = UNION {{x} \X (1..conn'[x].held) : x \in Conn}
      BY DEF Weight
    <3> QED BY <1>3, <3>1 DEF Weight
  <2>2. Open' = Open
    <3>1. Open' = {x \in Conn : conn'[x].place \notin {"out", "closed"}}
      BY DEF Open
    <3> QED BY <1>3, <3>1 DEF Open
  <2> QED BY <1>1, <2>1, <2>2 DEF LoopInv, Counts
<1> QED BY <1>1, <1>2, <1>5, <1>6, <1>7, <1>8 DEF LoopInv

\* The loop fails: its connections close, and nothing is held on it.
LEMMA FailsHolds == LoopInv /\ Fails => LoopInv'
<1> SUFFICES ASSUME LoopInv, Fails PROVE LoopInv'
  OBVIOUS
<1> DEFINE Mine == {c \in Conn : InLoop(c)}
<1>1. /\ conn' = [c \in Conn |-> IF InLoop(c) THEN Gone(conn[c], "closed") ELSE conn[c]]
      /\ unsent' = 0 /\ connections' = connections - Cardinality(Mine)
      /\ ready' = {} /\ again' = {} /\ answered' = {} /\ pc' = "poll" /\ failures' = failures + 1
      /\ script' = script /\ manner' = manner /\ sent' = sent /\ shut' = shut /\ taken' = taken
      /\ sock' = sock /\ bell' = bell /\ Pending' = Pending
  BY DEF Fails, Goto, clientVars, Pending, journalVars
<1>2. Types /\ (\A x \in Conn : Fine(x)) /\ conn \in [Conn -> ConnType]
  BY DEF LoopInv, Types
<1>3. ASSUME NEW x \in Conn
      PROVE  /\ conn'[x] \in ConnType /\ conn'[x].got = conn[x].got /\ conn'[x].held = 0
             /\ conn'[x].place = (IF InLoop(x) THEN "closed" ELSE conn[x].place)
             /\ Holds(script[x], conn'[x], Out(x), FALSE, FALSE)
  <2>1. Holds(script[x], conn[x], Out(x), x \in again, x \in answered) /\ conn[x] \in ConnType
    BY <1>2 DEF Fine
  <2>2. CASE InLoop(x)
    <3>1. conn'[x] = Gone(conn[x], "closed")
      BY <1>1, <2>2
    <3>2. PICK d \in Nat : Loops(script[x], conn[x], Out(x), d)
      BY <2>2, OnLoop
    <3>3. script[x] \in Seq(Kinds) /\ Out(x) \in Seq(Nat)
      BY <2>2, OnLoop
    <3>4. InOrder(script[x], Out(x), d)
      BY <2>1, <3>2, <3>3, OutBefore DEF Loops
    <3> DEFINE k == Gone(conn[x], "closed")
    <3>5. /\ k \in ConnType /\ k.place = "closed" /\ k.got = conn[x].got /\ k.eaten = conn[x].eaten
          /\ k.output = <<>> /\ k.held = 0
      BY <2>1, GoneIs
    <3>8. conn[x].eaten <= conn[x].got
      BY <2>1 DEF Holds
    <3>6. conn'[x] = k
      BY <3>1
    <3> HIDE DEF k
    <3>7. Holds(script[x], k, Out(x), FALSE, FALSE)
      BY <3>4, <3>5, <3>8 DEF Holds
    <3> QED BY <2>2, <3>5, <3>6, <3>7
  <2>3. CASE ~InLoop(x)
    <3>1. conn'[x] = conn[x]
      BY <1>1, <2>3
    <3>2. conn[x].place # "loop" /\ conn[x].held \in Nat
      BY <2>1, <2>3 DEF InLoop, ConnType
    <3>3. conn[x].held = 0
      <4>1. conn[x].held > 0 => conn[x].place = "loop"
        BY <2>1 DEF Holds
      <4> QED BY <3>2, <4>1
    <3>4. Holds(script[x], conn[x], Out(x), FALSE, FALSE)
      BY <2>1, <3>2, HoldsElsewhere
    <3> QED BY <2>1, <2>3, <3>1, <3>3, <3>4
  <2> QED BY <2>2, <2>3
<1>4. conn' \in [Conn -> ConnType]
  <2>1. conn' = [x \in Conn |-> conn'[x]]
    BY <1>1
  <2> QED BY <1>3, <2>1
<1>5. Types'
  <2>1. failures' \in Nat
    BY <1>1, <1>2 DEF Types
  <2> QED BY <1>1, <1>2, <1>4, <2>1 DEF Types
<1>6. \A x \in Conn : Fine(x)'
  <2> TAKE x \in Conn
  <2>1. Out(x)' = Out(x)
    BY <1>1 DEF Out
  <2>2. (x \in again)' = FALSE /\ (x \in answered)' = FALSE
    BY <1>1
  <2>3. Holds(script[x], conn[x], Out(x), x \in again, x \in answered)'
    BY <1>1, <1>3, <2>1, <2>2
  <2>4. Reaches(x)
    BY <1>2 DEF Fine
  <2>5. Reaches(x)'
    BY <1>1, <1>3, <2>4 DEF Reaches
  <2> QED BY <2>3, <2>5 DEF Fine
<1>7. \A m \in Pending' : Waits(m)'
  <2> TAKE m \in Pending'
  <2>1. Waits(m) /\ m[1] \in Conn
    BY <1>1, <1>2 DEF LoopInv, Types
  <2>2. conn'[m[1]].place = "closed"
    BY <1>3, <2>1 DEF Waits
  <2>3. Out(m[1])' = Out(m[1])
    BY <1>1 DEF Out
  <2> QED BY <2>1, <2>2, <2>3 DEF Waits
<1>8. Counts'
  <2>1. Weight' = {}
    <3>1. Weight' = UNION {{x} \X (1..conn'[x].held) : x \in Conn}
      BY DEF Weight
    <3>2. \A x \in Conn : {x} \X (1..conn'[x].held) = {}
      <4> TAKE x \in Conn
      <4>1. conn'[x].held = 0
        BY <1>3
      <4>2. 1..0 = {}
        OBVIOUS
      <4> QED BY <4>1, <4>2
    <3> QED BY <3>1, <3>2
  <2>2. Open' = Open \ Mine
    <3>1. Open' = {x \in Conn : conn'[x].place \notin {"out", "closed"}}
      BY DEF Open
    <3> QED BY <1>3, <3>1 DEF Open
  <2>3. Mine = Open \cap Mine
    BY DEF Open, InLoop
  <2>4. IsFiniteSet(Open)
    BY <1>2, WeightFinite
  <2> HIDE DEF Mine
  <2>5. Cardinality(Open \ Mine) = Cardinality(Open) - Cardinality(Open \cap Mine)
    BY <2>4, FS_Difference
  <2>6. connections = Cardinality(Open)
    BY DEF LoopInv, Counts
  <2> QED BY <1>1, <2>1, <2>2, <2>3, <2>5, <2>6, FS_EmptySet DEF Counts
<1> QED BY <1>1, <1>5, <1>6, <1>7, <1>8 DEF LoopInv

--------------------------------------------------------------------------
(* Threads.                                                                *)

\* What a thread, or one that arrives, changes besides its connection.
Elsewhere ==
    /\ UNCHANGED <<clientVars, loopVars, unsent, Pending, failures>>
    /\ bell' \in BOOLEAN

\* What a thread does touches its own connection.
LEMMA ElseAside ==
    ASSUME LoopInv, NEW c \in Conn, Elsewhere
    PROVE  Aside(c)
<1>1. /\ UNCHANGED <<script, manner, sent, taken, shut, failures>>
      /\ pc' = pc /\ bell' \in BOOLEAN /\ ready' = ready /\ Pending' = Pending
      /\ again' = again /\ answered' = answered
  BY DEF Elsewhere, clientVars, loopVars
<1>2. /\ ready \subseteq Conn /\ again \subseteq Conn /\ answered \subseteq Conn
      /\ Pending \subseteq Conn \X Nat
      /\ pc \in {"poll", "receive", "reply", "sweep", "slow", "drain", "take"}
      /\ answered # {} => pc \in {"receive", "reply"}
  BY DEF LoopInv, Types
<1> QED BY <1>1, <1>2 DEF Aside

\* A connection elsewhere that goes on as n.
LEMMA ElseHolds ==
    ASSUME LoopInv, NEW c \in Conn, conn[c].place \notin {"loop", "closed"}, Elsewhere,
           NEW n \in ConnType, n.held = 0, n.got <= sent[c], n.place # "loop",
           NEW q \in Seq(Nat), Len(q) <= SocketRoom,
           conn' = [conn EXCEPT ![c] = n], sock' = [sock EXCEPT ![c] = q],
           connections' = connections - Opens(conn[c]) + Opens(n),
           Holds(script[c], n, taken[c] \o q, FALSE, FALSE)
    PROVE  LoopInv'
<1>1. conn[c] \in ConnType /\ conn \in [Conn -> ConnType] /\ Fine(c)
  BY DEF LoopInv, Types
<1>2. conn[c].held = 0
  <2>1. conn[c].held > 0 => conn[c].place = "loop"
    BY <1>1 DEF Fine, Holds
  <2>2. conn[c].held \in Nat
    BY <1>1 DEF ConnType
  <2> QED BY <2>1, <2>2
<1>3. Counted(c, n)
  <2>1. unsent' = unsent
    BY DEF Elsewhere
  <2>2. unsent \in Nat
    BY <1>1, WeightFinite DEF LoopInv, Counts
  <2> QED BY <1>2, <2>1, <2>2 DEF Counted
<1>4. Holds(script[c], n, taken[c] \o q, c \in again', c \in answered')
  BY HoldsElsewhere
<1>5. \A m \in Pending' : Waits(m)'
  <2>1. conn[c].place # "closed" /\ ~InLoop(c) /\ taken' = taken /\ Pending' = Pending /\ pc' = pc
        /\ \A x \in answered : x = c \/ x \in answered'
    BY DEF Elsewhere, InLoop, clientVars, loopVars
  <2> QED BY <2>1, WaitsElse
<1> QED BY <1>3, <1>4, <1>5, ElseAside, OneChanges

\* A thread has a request that waits, or had one.
Waited(s, n, d) == n.moving # 0 \/ \E i \in 1..d : s[i] = "wait"

\* What holds of a connection on a thread of its own.
LEMMA OnThreadIs ==
    ASSUME LoopInv, NEW c \in Conn, OnThread(c)
    PROVE  /\ script[c] \in Seq(Kinds) /\ conn[c] \in ConnType /\ conn[c].place = "thread"
           /\ taken[c] \in Seq(Nat) /\ sock[c] \in Seq(Nat) /\ Len(sock[c]) <= SocketRoom
           /\ Out(c) \in Seq(Nat) /\ Out(c) = taken[c] \o sock[c]
           /\ sent[c] \in Nat /\ conn[c].got <= sent[c] /\ sent[c] <= Upto(script[c], Len(script[c]))
           /\ conn[c].held = 0 /\ conn[c].phase = "idle"
           /\ \E d \in Nat : /\ Serves(script[c], conn[c], Out(c), d)
                            /\ Waited(script[c], conn[c], d)
<1>1. Types /\ Fine(c)
  BY DEF LoopInv
<1>2. /\ script[c] \in Seq(Kinds) /\ conn[c] \in ConnType
      /\ taken[c] \in Seq(Nat) /\ sock[c] \in Seq(Nat) /\ Len(sock[c]) <= SocketRoom /\ sent[c] \in Nat
  BY <1>1 DEF Types
<1>3. Out(c) \in Seq(Nat) /\ Out(c) = taken[c] \o sock[c]
  BY <1>2, ConcatProperties DEF Out
<1>4. conn[c].place = "thread"
  BY DEF OnThread
<1>5. conn[c].got <= sent[c] /\ sent[c] <= Upto(script[c], Len(script[c]))
  BY <1>1 DEF Fine, Reaches
<1>6. Holds(script[c], conn[c], Out(c), c \in again, c \in answered)
  BY <1>1 DEF Fine
<1>7. \E d \in Nat : /\ Serves(script[c], conn[c], Out(c), d)
                     /\ conn[c].phase = "idle"
                     /\ Waited(script[c], conn[c], d)
  BY <1>4, <1>6 DEF Holds, Waited
<1>8. conn[c].held = 0
  <2>1. conn[c].held > 0 => conn[c].place = "loop"
    BY <1>6 DEF Holds
  <2>2. conn[c].held \in Nat
    BY <1>2 DEF ConnType
  <2> QED BY <1>4, <2>1, <2>2
<1> QED BY <1>2, <1>3, <1>4, <1>5, <1>7, <1>8

\* What a thread serves.
LEMMA ThreadServes ==
    ASSUME NEW s, NEW n \in ConnType, NEW b, NEW d \in Nat, n.held = 0, n.place = "thread", n.phase = "idle",
           Serves(s, n, b, d), Waited(s, n, d)
    PROVE  Holds(s, n, b, FALSE, FALSE)
<1>1. n.eaten <= n.got
  BY DEF Serves
<1> QED BY <1>1 DEF Holds, Waited

\* A thread that ends closes its connection, and what its client got before
\* stays the start of its replies.
LEMMA ThreadEndsHolds ==
    ASSUME LoopInv, NEW c \in Conn, conn[c].place \in {"thread", "stream"}, Elsewhere,
           ThreadEnds(c), UNCHANGED sock
    PROVE  LoopInv'
<1> DEFINE k == Gone(conn[c], "closed")
<1>1. /\ conn[c] \in ConnType /\ sock[c] \in Seq(Nat) /\ Len(sock[c]) <= SocketRoom /\ Fine(c)
      /\ sock \in [Conn -> Seq(Nat)]
  BY DEF LoopInv, Types
<1>2. /\ k \in ConnType /\ k.place = "closed" /\ k.got = conn[c].got /\ k.eaten = conn[c].eaten
      /\ k.output = <<>> /\ k.held = 0
  BY <1>1, GoneIs
<1>10. conn[c].eaten <= conn[c].got
  BY <1>1 DEF Fine, Holds
<1>3. \E d \in Nat : InOrder(script[c], taken[c] \o sock[c], d)
  <2>1. CASE conn[c].place = "thread"
    <3>1. OnThread(c)
      BY <2>1 DEF OnThread
    <3>2. PICK d \in Nat : Serves(script[c], conn[c], Out(c), d)
      BY <3>1, OnThreadIs
    <3>3. script[c] \in Seq(Kinds) /\ Out(c) \in Seq(Nat) /\ Out(c) = taken[c] \o sock[c]
      BY <3>1, OnThreadIs
    <3> QED BY <1>1, <3>2, <3>3, OutBefore
  <2>2. CASE conn[c].place = "stream"
    BY <1>1, <2>2 DEF Fine, Holds, Out
  <2> QED BY <2>1, <2>2
<1>4. conn' = [conn EXCEPT ![c] = k] /\ connections' = connections - 1
  BY DEF ThreadEnds
<1>5. k.got <= sent[c]
  BY <1>1, <1>2 DEF Fine, Reaches
<1> HIDE DEF k
<1>6. Holds(script[c], k, taken[c] \o sock[c], FALSE, FALSE)
  BY <1>2, <1>3, <1>10 DEF Holds
<1>7. connections' = connections - Opens(conn[c]) + Opens(k)
  <2>1. Opens(conn[c]) = 1 /\ Opens(k) = 0
    BY <1>2 DEF Opens
  <2>2. connections \in Nat
    BY WeightFinite DEF LoopInv, Counts, Types
  <2> QED BY <1>4, <2>1, <2>2
<1>8. sock' = [sock EXCEPT ![c] = sock[c]]
  BY <1>1
<1>9. conn[c].place \notin {"loop", "closed"}
  OBVIOUS
<1> QED BY <1>1, <1>2, <1>4, <1>5, <1>6, <1>7, <1>8, <1>9, ElseHolds

\* One that stays where it is.
LEMMA ThreadKeeps ==
    ASSUME LoopInv, NEW c \in Conn, OnThread(c), Elsewhere,
           NEW n \in ConnType, n.held = 0, n.got <= sent[c], n.place \in {"thread", "stream"},
           NEW q \in Seq(Nat), Len(q) <= SocketRoom,
           conn' = [conn EXCEPT ![c] = n], sock' = [sock EXCEPT ![c] = q], UNCHANGED connections,
           Holds(script[c], n, taken[c] \o q, FALSE, FALSE)
    PROVE  LoopInv'
<1>1. conn[c].place \notin {"loop", "closed"} /\ n.place # "loop"
  BY DEF OnThread
<1>2. connections' = connections - Opens(conn[c]) + Opens(n)
  <2>1. Opens(conn[c]) = 1 /\ Opens(n) = 1
    BY DEF Opens, OnThread
  <2>2. connections \in Nat
    BY WeightFinite DEF LoopInv, Counts, Types
  <2> QED BY <2>1, <2>2
<1> QED BY <1>1, <1>2, ElseHolds

\* A thread writes what it has in its order, or gives up.
LEMMA ThreadWritesHolds == ASSUME LoopInv, NEW c \in Conn, ThreadWrites(c) PROVE LoopInv'
<1>1. OnThread(c) /\ Elsewhere
  BY DEF ThreadWrites, Elsewhere, LoopInv, Types, Pending, journalVars
<1>2. CASE Sends(c, conn[c]) /\ conn' = [conn EXCEPT ![c] = Written(c, conn[c])] /\ UNCHANGED connections
  <2> DEFINE m == Written(c, conn[c])
  <2> DEFINE q == sock[c] \o SubSeq(conn[c].output, 1, Writes(c, conn[c]))
  <2>1. /\ conn[c] \in ConnType /\ conn[c].place = "thread"
        /\ taken[c] \in Seq(Nat) /\ sock[c] \in Seq(Nat) /\ Len(sock[c]) <= SocketRoom
        /\ Out(c) = taken[c] \o sock[c]
        /\ conn[c].got <= sent[c]
        /\ conn[c].held = 0 /\ conn[c].phase = "idle"
    BY <1>1, OnThreadIs
  <2>2. PICK d \in Nat : /\ Serves(script[c], conn[c], Out(c), d)
                         /\ Waited(script[c], conn[c], d)
    BY <1>1, OnThreadIs
  <2>3. IsWritten(m, q, conn[c], taken[c], sock[c])
    BY <2>1, WrittenIs
  <2>4. conn' = [conn EXCEPT ![c] = m] /\ sock' = [sock EXCEPT ![c] = q]
    BY <1>2 DEF Sends
  <2> HIDE DEF m, q
  <2>5. Serves(script[c], m, taken[c] \o q, d)
    BY <2>1, <2>2, <2>3, WrittenServes
  <2>6. /\ m \in ConnType /\ m.place = "thread" /\ m.held = 0 /\ m.got <= sent[c] /\ m.phase = "idle"
        /\ m.moving = conn[c].moving /\ q \in Seq(Nat) /\ Len(q) <= SocketRoom
    BY <2>1, <2>3 DEF IsWritten, Kept
  <2>7. Holds(script[c], m, taken[c] \o q, FALSE, FALSE)
    BY <2>2, <2>5, <2>6, ThreadServes DEF Waited
  <2> QED BY <1>1, <1>2, <2>4, <2>6, <2>7, ThreadKeeps
<1>3. CASE ThreadEnds(c) /\ UNCHANGED sock
  BY <1>1, <1>3, ThreadEndsHolds DEF OnThread
<1> QED BY <1>2, <1>3 DEF ThreadWrites, Pending, journalVars

\* A thread answers the request that had to wait, or makes its connection a
\* stream.
LEMMA ThreadAnswersHolds == ASSUME LoopInv, NEW c \in Conn, ThreadAnswers(c) PROVE LoopInv'
<1> DEFINE n == conn[c]
<1> DEFINE s == script[c]
<1> DEFINE b == taken[c] \o sock[c]
<1>1. OnThread(c) /\ Elsewhere /\ ~pending(n) /\ n.moving # 0 /\ sock' = sock /\ connections' = connections
      /\ conn' = [conn EXCEPT ![c] = IF s[n.moving] = "stream"
                                     THEN [Gone(n, "stream") EXCEPT !.moving = n.moving]
                                     ELSE [Put(n, Reply(s, n.moving)) EXCEPT !.moving = 0]]
  BY DEF ThreadAnswers, Elsewhere, LoopInv, Types, Pending, journalVars
<1>2. /\ s \in Seq(Kinds) /\ n \in ConnType /\ n.place = "thread"
      /\ sock[c] \in Seq(Nat) /\ Len(sock[c]) <= SocketRoom
      /\ b \in Seq(Nat) /\ Out(c) = b
      /\ n.got <= sent[c] /\ n.held = 0 /\ n.phase = "idle"
  BY <1>1, OnThreadIs
<1>3. PICK d \in Nat : Serves(s, n, b, d)
  <2>1. \E d \in Nat : Serves(script[c], conn[c], Out(c), d)
    BY <1>1, OnThreadIs
  <2> QED BY <1>2, <2>1
<1>4. sock' = [sock EXCEPT ![c] = sock[c]]
  BY <1>1 DEF LoopInv, Types
<1> HIDE DEF n, s, b
<1>5. n.moving = d + 1 /\ d < Len(s) /\ s[d + 1] \in {"wait", "stream"} /\ ~n.closing /\ n.eaten = Upto(s, d + 1)
  BY <1>1, <1>3 DEF Serves, Within
<1>6. CASE s[d + 1] = "stream"
  <2> DEFINE g == Gone(n, "stream")
  <2> DEFINE k == [g EXCEPT !.moving = n.moving]
  <2>1. /\ g \in ConnType /\ g.place = "stream" /\ g.got = n.got /\ g.eaten = n.eaten
        /\ g.output = <<>> /\ g.held = 0
    BY <1>2, GoneIs
  <2>2. conn' = [conn EXCEPT ![c] = k]
    BY <1>1, <1>5, <1>6
  <2> HIDE DEF g
  <2>3. n.moving \in Nat
    BY <1>2 DEF ConnType
  <2>4. k \in ConnType
    BY <2>1, <2>3 DEF ConnType
  <2>5. k.place = "stream" /\ k.got = n.got /\ k.eaten = n.eaten /\ k.output = <<>> /\ k.held = 0
    BY <2>1 DEF ConnType
  <2>9. n.eaten <= n.got
    BY <1>3 DEF Serves
  <2> HIDE DEF k
  <2>6. InOrder(s, b, d)
    BY <1>2, <1>3, OutBefore
  <2>7. Holds(script[c], k, taken[c] \o sock[c], FALSE, FALSE)
    BY <2>4, <2>5, <2>6, <2>9 DEF Holds, s, b
  <2>8. k.got <= sent[c]
    BY <1>2, <2>5
  <2> QED BY <1>1, <1>2, <1>4, <2>2, <2>4, <2>5, <2>7, <2>8, ThreadKeeps
<1>7. CASE s[d + 1] = "wait"
  <2> DEFINE r == Reply(s, d + 1)
  <2> DEFINE g == Put(n, r)
  <2> DEFINE k == [g EXCEPT !.moving = 0]
  <2>0. Answered(s, d + 1)
    <3>1. \A i \in 1..d : s[i] \notin Ends
      BY <1>3, <1>5 DEF Serves
    <3>2. (d + 1) - 1 = d
      OBVIOUS
    <3> QED BY <1>7, <3>1, <3>2 DEF Answered
  <2>1. r \in Seq(Nat)
    BY <1>2, <1>3, <1>5, <2>0, InOrderMore, n.output \in Seq(Nat), b \o n.output \in Seq(Nat) DEF Serves, ConnType
  <2> HIDE DEF r
  <2>2. /\ g \in ConnType /\ Kept(g, n) /\ g.output = n.output \o r /\ g.eaten = n.eaten
        /\ g.phase = n.phase /\ g.closing = n.closing
    BY <1>2, <2>1, PutIs
  <2>3. conn' = [conn EXCEPT ![c] = k]
    BY <1>1, <1>5, <1>7 DEF r
  <2> HIDE DEF g
  <2>4. k \in ConnType
    BY <2>2 DEF ConnType
  <2>5. /\ k.place = "thread" /\ k.got = n.got /\ k.output = n.output \o r /\ k.held = 0
        /\ k.moving = 0 /\ k.eaten = n.eaten /\ k.phase = "idle" /\ ~k.closing
    BY <1>2, <1>5, <2>2 DEF ConnType, Kept
  <2> HIDE DEF k
  <2>6. k.eaten <= k.got /\ k.got <= Upto(s, Len(s))
    BY <1>3, <2>5 DEF Serves
  <2>7. Serves(s, k, b, d + 1)
    <3>1. s[d + 1] \notin Ends
      BY <1>7 DEF Ends
    <3> QED BY <1>2, <1>3, <1>5, <2>0, <2>4, <2>5, <2>6, <3>1, ServesMore DEF r
  <2>8. d + 1 \in Nat /\ Waited(s, k, d + 1)
    <3>1. d + 1 \in 1..(d + 1)
      OBVIOUS
    <3> QED BY <1>7, <3>1 DEF Waited
  <2>9. Holds(script[c], k, taken[c] \o sock[c], FALSE, FALSE)
    <3>1. Holds(s, k, b, FALSE, FALSE)
      BY <2>4, <2>5, <2>7, <2>8, ThreadServes
    <3> QED BY <3>1 DEF s, b
  <2>10. k.got <= sent[c]
    BY <1>2, <2>5
  <2> QED BY <1>1, <1>2, <1>4, <2>3, <2>4, <2>5, <2>9, <2>10, ThreadKeeps
<1> QED BY <1>5, <1>6, <1>7

\* The request a thread reads is the next of the script, and whole.
LEMMA WholeIs ==
    ASSUME NEW s \in Seq(Kinds), NEW n \in ConnType, NEW b, NEW d \in Nat, Serves(s, n, b, d),
           n.phase = "idle", n.moving = 0, ~n.closing, NEW have \in Nat, have <= Upto(s, Len(s)),
           n.eaten < have, have >= Upto(s, RequestAt(s, n.eaten))
    PROVE  /\ RequestAt(s, n.eaten) = d + 1 /\ d < Len(s) /\ s[d + 1] \in Kinds
           /\ Upto(s, d + 1) \in Nat /\ Upto(s, d + 1) <= have
<1>1. Len(s) \in Nat /\ d \in 0..Len(s) /\ n.eaten = Upto(s, d)
  BY DEF Serves, InOrder, Within
<1>2. Upto(s, Len(s)) \in Nat /\ Upto(s, d) \in Nat
  BY <1>1, UptoIs
<1>3. d < Len(s)
  <2>1. Upto(s, d) < Upto(s, Len(s))
    BY <1>1, <1>2
  <2>2. d # Len(s)
    BY <1>2, <2>1
  <2> QED BY <1>1, <2>2
<1>4. d + 1 \in 0..Len(s) /\ d + 1 \in 1..(Len(s) + 1) /\ (d + 1) - 1 = d
  BY <1>1, <1>3
<1>5. Upto(s, d + 1) \in Nat /\ Upto(s, d) < Upto(s, d + 1)
  <2>1. d < d + 1
    OBVIOUS
  <2> QED BY <1>1, <1>4, <2>1, UptoIs
<1>6. RequestAt(s, n.eaten) = d + 1
  <2> DEFINE e == Upto(s, d)
  <2>1. e \in Nat /\ Upto(s, (d + 1) - 1) <= e /\ (d + 1 <= Len(s) => e < Upto(s, d + 1))
    BY <1>2, <1>4, <1>5
  <2>2. n.eaten = e
    BY <1>1
  <2> HIDE DEF e
  <2> QED BY <1>4, <2>1, <2>2, RequestIs
<1>7. s[d + 1] \in Kinds
  BY <1>1, <1>3
<1> QED BY <1>3, <1>5, <1>6, <1>7

\* The connection of a thread that has read its next request.
ReadIt(s, n, d, have) == [n EXCEPT !.got = have, !.eaten = Upto(s, d + 1)]

\* What becomes of it.
Reading(s, n, d, have) ==
    CASE s[d + 1] \in {"bad", "refused"} -> fail(ReadIt(s, n, d, have), d + 1)
      [] s[d + 1] \in {"wait", "stream"} -> [ReadIt(s, n, d, have) EXCEPT !.moving = d + 1]
      [] OTHER -> [Put(ReadIt(s, n, d, have), Reply(s, d + 1)) EXCEPT !.closing = (s[d + 1] = "last")]

\* It is kept on its thread, and holds as it should.
ReadsOn(s, n, b, d, have) ==
    /\ Reading(s, n, d, have) \in ConnType
    /\ Reading(s, n, d, have).place = "thread" /\ Reading(s, n, d, have).held = 0
    /\ Reading(s, n, d, have).got = have
    /\ Holds(s, Reading(s, n, d, have), b, FALSE, FALSE)

\* A thread that has read its next request answers it in its order, fails it,
\* or waits with it.
LEMMA ReadingServes ==
    ASSUME NEW s \in Seq(Kinds), NEW n \in ConnType, NEW b \in Seq(Nat), NEW d \in Nat, Serves(s, n, b, d),
           n.phase = "idle", n.moving = 0, ~n.closing, n.place = "thread", n.held = 0,
           NEW have \in Nat, have <= Upto(s, Len(s)), d < Len(s), s[d + 1] # "panic",
           Upto(s, d + 1) \in Nat, Upto(s, d + 1) <= have, Waited(s, n, d)
    PROVE  ReadsOn(s, n, b, d, have)
<1> DEFINE m == ReadIt(s, n, d, have)
<1> DEFINE k == Reading(s, n, d, have)
<1>1. m \in ConnType
  BY DEF ReadIt, ConnType
<1>2. /\ m.got = have /\ m.eaten = Upto(s, d + 1) /\ m.phase = "idle" /\ m.output = n.output
      /\ m.closing = FALSE /\ m.moving = 0 /\ m.place = "thread" /\ m.held = 0
  BY DEF ReadIt, ConnType
<1>3. d + 1 \in Nat /\ \E i \in 1..(d + 1) : s[i] = "wait"
  <2>1. PICK i \in 1..d : s[i] = "wait"
    BY DEF Waited
  <2>2. i \in 1..(d + 1)
    OBVIOUS
  <2> QED BY <2>1, <2>2
<1>4. \A i \in 1..d : s[i] \notin Ends
  BY DEF Serves
<1>5. s[d + 1] # "stream" => Answered(s, d + 1)
  <2>1. (d + 1) - 1 = d
    OBVIOUS
  <2> QED BY <1>4, <2>1 DEF Answered
<1>6. k = CASE s[d + 1] \in {"bad", "refused"} -> fail(m, d + 1)
            [] s[d + 1] \in {"wait", "stream"} -> [m EXCEPT !.moving = d + 1]
            [] OTHER -> [Put(m, Reply(s, d + 1)) EXCEPT !.closing = (s[d + 1] = "last")]
  BY DEF Reading
<1>11. SUFFICES k \in ConnType /\ k.place = "thread" /\ k.held = 0 /\ k.got = have
                /\ Holds(s, k, b, FALSE, FALSE)
  BY DEF ReadsOn
<1> HIDE DEF m
<1>7. ASSUME NEW x \in ConnType, Kept(x, m), x.eaten = m.eaten, x.phase = "idle", x.moving = 0,
             s[d + 1] \notin {"wait", "stream"},
             x.output = n.output \o Reply(s, d + 1), x.closing \/ s[d + 1] \notin Ends
      PROVE  x.place = "thread" /\ x.held = 0 /\ x.got = have /\ Holds(s, x, b, FALSE, FALSE)
  <2>1. x.place = "thread" /\ x.held = 0 /\ x.got = have /\ x.eaten = Upto(s, d + 1)
    BY <1>2, <1>7 DEF Kept
  <2>2. Answered(s, d + 1)
    BY <1>5, <1>7
  <2>3. x.eaten <= x.got /\ x.got <= Upto(s, Len(s))
    BY <2>1
  <2>4. Serves(s, x, b, d + 1)
    BY <1>7, <2>1, <2>2, <2>3, ServesMore
  <2>5. Waited(s, x, d + 1)
    BY <1>3 DEF Waited
  <2> QED BY <1>3, <1>7, <2>1, <2>4, <2>5, ThreadServes
<1>8. CASE s[d + 1] \in {"bad", "refused"}
  <2> DEFINE x == fail(m, d + 1)
  <2>1. /\ x \in ConnType /\ Kept(x, m) /\ x.output = m.output \o Failure(d + 1)
        /\ x.eaten = m.eaten /\ x.phase = m.phase /\ x.closing = TRUE /\ x.moving = m.moving
    BY <1>1, <1>3, FailIs
  <2>2. k = x
    BY <1>6, <1>8
  <2>3. Failure(d + 1) = Reply(s, d + 1)
    BY <1>8, FailureIs
  <2> HIDE DEF x, k
  <2>4. x.place = "thread" /\ x.held = 0 /\ x.got = have /\ Holds(s, x, b, FALSE, FALSE)
    <3>1. s[d + 1] \notin {"wait", "stream"}
      BY <1>8
    <3> QED BY <1>2, <1>7, <2>1, <2>3, <3>1
  <2> QED BY <2>1, <2>2, <2>4 DEF k
<1>9. CASE s[d + 1] \in {"wait", "stream"}
  <2> DEFINE x == [m EXCEPT !.moving = d + 1]
  <2>1. x \in ConnType
    BY <1>1, <1>3 DEF ConnType
  <2>2. /\ x.got = have /\ x.eaten = Upto(s, d + 1) /\ x.phase = "idle" /\ x.output = n.output
        /\ x.closing = FALSE /\ x.moving = d + 1 /\ x.place = "thread" /\ x.held = 0
    BY <1>1, <1>2 DEF ConnType
  <2>3. k = x
    BY <1>6, <1>9
  <2> HIDE DEF x, k
  <2>4. Within(s, x, d)
    BY <1>9, <2>2 DEF Within
  <2>5. Serves(s, x, b, d)
    BY <2>1, <2>2, <2>4 DEF Serves
  <2>6. Waited(s, x, d)
    BY <2>2 DEF Waited
  <2>7. Holds(s, x, b, FALSE, FALSE)
    BY <2>1, <2>2, <2>5, <2>6, ThreadServes
  <2> QED BY <2>1, <2>2, <2>3, <2>7 DEF k
<1>10. CASE s[d + 1] \notin {"bad", "refused", "wait", "stream"}
  <2> DEFINE r == Reply(s, d + 1)
  <2> DEFINE g == Put(m, r)
  <2> DEFINE e == s[d + 1] = "last"
  <2> DEFINE x == [g EXCEPT !.closing = e]
  <2>1. r \in Seq(Nat)
    <3>1. n.output \in Seq(Nat)
      BY DEF ConnType
    <3>2. b \o n.output \in Seq(Nat)
      BY <3>1, ConcatProperties
    <3> QED BY <1>5, <1>10, <3>2, InOrderMore DEF Serves
  <2>2. k = x
    BY <1>6, <1>10
  <2> HIDE DEF r
  <2>3. /\ g \in ConnType /\ Kept(g, m) /\ g.output = m.output \o r /\ g.eaten = m.eaten
        /\ g.phase = m.phase /\ g.moving = m.moving
    BY <1>1, <2>1, PutIs
  <2>4. e \in BOOLEAN /\ (e \/ s[d + 1] \notin Ends)
    BY <1>10 DEF Ends
  <2> HIDE DEF g, e
  <2>5. x \in ConnType
    BY <2>3, <2>4 DEF ConnType
  <2>6. /\ Kept(x, m) /\ x.output = n.output \o r /\ x.eaten = m.eaten /\ x.phase = "idle" /\ x.moving = 0
        /\ x.closing = e
    BY <1>2, <2>3 DEF ConnType, Kept
  <2> HIDE DEF x, k
  <2>7. x.place = "thread" /\ x.held = 0 /\ x.got = have /\ Holds(s, x, b, FALSE, FALSE)
    <3>1. s[d + 1] \notin {"wait", "stream"}
      BY <1>10
    <3> QED BY <1>7, <2>4, <2>5, <2>6, <3>1 DEF r
  <2> QED BY <2>2, <2>5, <2>7 DEF k
<1> QED BY <1>8, <1>9, <1>10

\* A thread reads a request once it is whole, and a panic ends it.
LEMMA ThreadReadsHolds == ASSUME LoopInv, NEW c \in Conn, ThreadReads(c) PROVE LoopInv'
<1> DEFINE n == conn[c]
<1> DEFINE s == script[c]
<1> DEFINE b == taken[c] \o sock[c]
<1>1. OnThread(c) /\ Elsewhere /\ n.moving = 0 /\ ~n.closing /\ Whole(c) /\ sock' = sock
  BY DEF ThreadReads, Elsewhere, LoopInv, Types, Pending, journalVars
<1>2. /\ s \in Seq(Kinds) /\ n \in ConnType /\ n.place = "thread"
      /\ sock[c] \in Seq(Nat) /\ Len(sock[c]) <= SocketRoom
      /\ b \in Seq(Nat) /\ Out(c) = b
      /\ sent[c] \in Nat /\ sent[c] <= Upto(s, Len(s)) /\ n.held = 0 /\ n.phase = "idle"
  BY <1>1, OnThreadIs
<1>3. PICK d \in Nat : Serves(s, n, b, d) /\ Waited(s, n, d)
  <2>1. \E d \in Nat : Serves(script[c], conn[c], Out(c), d) /\ Waited(script[c], conn[c], d)
    BY <1>1, OnThreadIs
  <2> QED BY <1>2, <2>1
<1>4. sock' = [sock EXCEPT ![c] = sock[c]]
  BY <1>1 DEF LoopInv, Types
<1>5. /\ RequestAt(s, n.eaten) = d + 1 /\ d < Len(s) /\ s[d + 1] \in Kinds
      /\ Upto(s, d + 1) \in Nat /\ Upto(s, d + 1) <= sent[c]
  <2>1. n.eaten < sent[c] /\ sent[c] >= Upto(s, RequestAt(s, n.eaten))
    BY <1>1 DEF Whole
  <2> HIDE DEF n, s, b
  <2> QED BY <1>1, <1>2, <1>3, <2>1, WholeIs
<1>6. CASE s[d + 1] = "panic"
  <2>1. ThreadEnds(c)
    BY <1>5, <1>6 DEF ThreadReads, Pending, journalVars
  <2> QED BY <1>1, <1>2, <2>1, ThreadEndsHolds
<1>7. CASE s[d + 1] # "panic"
  <2> DEFINE k == Reading(s, n, d, sent[c])
  <2>1. conn' = [conn EXCEPT ![c] = k] /\ connections' = connections
    BY <1>5, <1>7 DEF ThreadReads, Reading, ReadIt, Pending, journalVars
  <2>2. k \in ConnType /\ k.place = "thread" /\ k.held = 0 /\ k.got = sent[c] /\ Holds(s, k, b, FALSE, FALSE)
    <3> HIDE DEF n, s, b
    <3>1. ReadsOn(s, n, b, d, sent[c])
      BY <1>1, <1>2, <1>3, <1>5, <1>7, ReadingServes
    <3> QED BY <3>1 DEF ReadsOn
  <2> HIDE DEF k
  <2>3. k.got <= sent[c]
    BY <1>2, <2>2
  <2> QED BY <1>1, <1>2, <1>4, <2>1, <2>2, <2>3, ThreadKeeps
<1> QED BY <1>6, <1>7

\* A thread closes its connection for good.
LEMMA ThreadClosesHolds == ASSUME LoopInv, NEW c \in Conn, ThreadCloses(c) PROVE LoopInv'
<1>1. conn[c].place \in {"thread", "stream"} /\ ThreadEnds(c) /\ UNCHANGED sock
  BY DEF ThreadCloses, OnThread, Pending, journalVars
<1>2. Elsewhere
  BY DEF ThreadCloses, Elsewhere, LoopInv, Types, Pending, journalVars
<1> QED BY <1>1, <1>2, ThreadEndsHolds

--------------------------------------------------------------------------
(* Clients, and the whole.                                                 *)

\* What a client does leaves the server's side of the connections alone, and
\* of the replies only moves some from the system's hands to its own.
LEMMA ClientHolds ==
    ASSUME LoopInv, UNCHANGED <<script, manner, loopVars, conn, bell, unsent, connections, Pending, failures>>,
           shut' \subseteq Conn, sent' \in [Conn -> Nat],
           \A x \in Conn : sent[x] <= sent'[x] /\ sent'[x] <= Upto(script[x], Len(script[x])),
           sock' \in [Conn -> Seq(Nat)], taken' \in [Conn -> Seq(Nat)],
           \A x \in Conn : Len(sock'[x]) <= SocketRoom /\ taken'[x] \o sock'[x] = Out(x)
    PROVE  LoopInv'
<1>1. /\ script' = script /\ manner' = manner /\ conn' = conn /\ bell' = bell /\ unsent' = unsent
      /\ pc' = pc /\ ready' = ready /\ again' = again /\ answered' = answered
      /\ connections' = connections /\ Pending' = Pending /\ failures' = failures
  BY DEF loopVars
<1>2. Types'
  BY <1>1 DEF LoopInv, Types
<1>3. \A x \in Conn : Out(x)' = Out(x)
  BY DEF Out
<1>4. \A x \in Conn : Fine(x)'
  <2> TAKE x \in Conn
  <2>1. Fine(x) /\ conn[x] \in ConnType /\ sent \in [Conn -> Nat]
    BY DEF LoopInv, Types
  <2>2. Holds(script[x], conn[x], Out(x), x \in again, x \in answered)'
    BY <1>1, <1>3, <2>1 DEF Fine
  <2>3. conn[x].got <= sent'[x]
    <3>1. conn[x].got \in Nat /\ sent[x] \in Nat /\ sent'[x] \in Nat
      BY <2>1 DEF ConnType
    <3>2. conn[x].got <= sent[x] /\ sent[x] <= sent'[x]
      BY <2>1 DEF Fine, Reaches
    <3> QED BY <3>1, <3>2
  <2>4. Reaches(x)'
    BY <1>1, <2>3 DEF Reaches
  <2> QED BY <2>2, <2>4 DEF Fine
<1>5. \A m \in Pending' : Waits(m)'
  <2> TAKE m \in Pending'
  <2>1. Waits(m) /\ m[1] \in Conn
    BY <1>1 DEF LoopInv, Types
  <2>2. Out(m[1])' = Out(m[1])
    BY <1>3, <2>1
  <2> QED BY <1>1, <2>1, <2>2 DEF Waits, InLoop
<1>6. Counts'
  <2>1. Weight' = Weight /\ Open' = Open
    BY <1>1 DEF Weight, Open
  <2> QED BY <1>1, <2>1 DEF LoopInv, Counts
<1> QED BY <1>1, <1>2, <1>4, <1>5, <1>6 DEF LoopInv

\* A client sends no more than its script.
LEMMA SendHolds == ASSUME LoopInv, NEW c \in Conn, Send(c) PROVE LoopInv'
<1>1. /\ UNCHANGED <<script, manner, loopVars, conn, bell, unsent, connections, Pending, failures>>
      /\ shut' = shut /\ taken' = taken /\ sock' = sock /\ sent' = [sent EXCEPT ![c] = @ + 1] /\ ~SentAll(c)
  BY DEF Send, loopVars, Pending, journalVars
<1>2. /\ sent \in [Conn -> Nat] /\ sock \in [Conn -> Seq(Nat)] /\ taken \in [Conn -> Seq(Nat)]
      /\ shut \subseteq Conn /\ script \in [Conn -> Seq(Kinds)]
      /\ \A x \in Conn : Len(sock[x]) <= SocketRoom /\ sent[x] <= Upto(script[x], Len(script[x]))
  BY DEF LoopInv, Types, Fine, Reaches
<1>3. sent' \in [Conn -> Nat]
  BY <1>1, <1>2
<1>4. ASSUME NEW x \in Conn PROVE sent[x] <= sent'[x] /\ sent'[x] <= Upto(script[x], Len(script[x]))
  <2> DEFINE u == Upto(script[x], Len(script[x]))
  <2>1. script[x] \in Seq(Kinds) /\ Len(script[x]) \in 0..Len(script[x])
    BY <1>2
  <2>2. u \in Nat /\ sent[x] \in Nat /\ sent[x] <= u
    BY <1>2, <2>1, UptoIs
  <2>3. CASE x = c
    <3>1. sent'[x] = sent[x] + 1 /\ sent[x] # u
      BY <1>1, <1>2, <2>3 DEF SentAll
    <3> HIDE DEF u
    <3>2. sent[x] <= sent'[x] /\ sent'[x] <= u
      BY <2>2, <3>1
    <3> QED BY <3>2 DEF u
  <2>4. CASE x # c
    <3>1. sent'[x] = sent[x]
      BY <1>1, <1>2, <2>4
    <3> QED BY <2>2, <3>1
  <2> QED BY <2>3, <2>4
<1>5. \A x \in Conn : Len(sock'[x]) <= SocketRoom /\ taken'[x] \o sock'[x] = Out(x)
  BY <1>1, <1>2 DEF Out
<1>6. shut' \subseteq Conn /\ sock' \in [Conn -> Seq(Nat)] /\ taken' \in [Conn -> Seq(Nat)]
  BY <1>1, <1>2
<1> QED BY <1>1, <1>3, <1>4, <1>5, <1>6, ClientHolds

\* A client takes what the system holds for it, all of it and in its order.
LEMMA TakesHolds == ASSUME LoopInv, NEW c \in Conn, Takes(c) PROVE LoopInv'
<1>1. /\ UNCHANGED <<script, manner, loopVars, conn, bell, unsent, connections, Pending, failures>>
      /\ shut' = shut /\ sent' = sent
      /\ taken' = [taken EXCEPT ![c] = @ \o sock[c]] /\ sock' = [sock EXCEPT ![c] = <<>>]
  BY DEF Takes, loopVars, Pending, journalVars
<1>2. /\ sent \in [Conn -> Nat] /\ sock \in [Conn -> Seq(Nat)] /\ taken \in [Conn -> Seq(Nat)]
      /\ shut \subseteq Conn
      /\ \A x \in Conn : Len(sock[x]) <= SocketRoom /\ sent[x] <= Upto(script[x], Len(script[x]))
  BY DEF LoopInv, Types, Fine, Reaches
<1>3. sock[c] \in Seq(Nat) /\ taken[c] \in Seq(Nat) /\ <<>> \in Seq(Nat) /\ Len(<<>>) = 0
  BY <1>2
<1>4. taken[c] \o sock[c] \in Seq(Nat) /\ (taken[c] \o sock[c]) \o <<>> = taken[c] \o sock[c]
  BY <1>3, ConcatProperties, ConcatEmptySeq
<1>5. sock' \in [Conn -> Seq(Nat)] /\ taken' \in [Conn -> Seq(Nat)]
  BY <1>1, <1>2, <1>3, <1>4
<1>6. ASSUME NEW x \in Conn PROVE Len(sock'[x]) <= SocketRoom /\ taken'[x] \o sock'[x] = Out(x)
  <2>1. CASE x = c
    <3>1. sock'[x] = <<>> /\ taken'[x] = taken[c] \o sock[c]
      BY <1>1, <1>2, <2>1
    <3>2. 0 <= SocketRoom
      BY LoopAssumption
    <3> QED BY <1>3, <1>4, <2>1, <3>1, <3>2 DEF Out
  <2>2. CASE x # c
    <3>1. sock'[x] = sock[x] /\ taken'[x] = taken[x]
      BY <1>1, <1>2, <2>2
    <3> QED BY <1>2, <3>1 DEF Out
  <2> QED BY <2>1, <2>2
<1>7. \A x \in Conn : sent[x] <= sent'[x] /\ sent'[x] <= Upto(script[x], Len(script[x]))
  BY <1>1, <1>2
<1>8. shut' \subseteq Conn /\ sent' \in [Conn -> Nat]
  BY <1>1, <1>2
<1> QED BY <1>1, <1>5, <1>6, <1>7, <1>8, ClientHolds

\* A client closes its end, or goes.
LEMMA ClosesEndHolds == ASSUME LoopInv, NEW c \in Conn, ClosesEnd(c) PROVE LoopInv'
<1>1. /\ UNCHANGED <<script, manner, loopVars, conn, bell, unsent, connections, Pending, failures>>
      /\ shut' = shut \cup {c} /\ sent' = sent /\ taken' = taken /\ sock' = sock
  BY DEF ClosesEnd, loopVars, Pending, journalVars
<1>2. /\ sent \in [Conn -> Nat] /\ sock \in [Conn -> Seq(Nat)] /\ taken \in [Conn -> Seq(Nat)]
      /\ shut \subseteq Conn
      /\ \A x \in Conn : Len(sock[x]) <= SocketRoom /\ sent[x] <= Upto(script[x], Len(script[x]))
  BY DEF LoopInv, Types, Fine, Reaches
<1>3. \A x \in Conn : sent[x] <= sent'[x] /\ sent'[x] <= Upto(script[x], Len(script[x]))
  BY <1>1, <1>2
<1>4. \A x \in Conn : Len(sock'[x]) <= SocketRoom /\ taken'[x] \o sock'[x] = Out(x)
  BY <1>1, <1>2 DEF Out
<1>5. shut' \subseteq Conn /\ sent' \in [Conn -> Nat] /\ sock' \in [Conn -> Seq(Nat)] /\ taken' \in [Conn -> Seq(Nat)]
  BY <1>1, <1>2
<1> QED BY <1>1, <1>3, <1>4, <1>5, ClientHolds

\* A step that changes nothing.
LEMMA StutterHolds == LoopInv /\ UNCHANGED vars => LoopInv'
<1> SUFFICES ASSUME LoopInv, UNCHANGED vars PROVE LoopInv'
  OBVIOUS
<1>1. /\ UNCHANGED <<script, manner, loopVars, conn, bell, unsent, connections, Pending, failures>>
      /\ shut' = shut /\ sent' = sent /\ taken' = taken /\ sock' = sock
  BY DEF vars, clientVars, Pending, journalVars
<1>2. /\ sent \in [Conn -> Nat] /\ sock \in [Conn -> Seq(Nat)] /\ taken \in [Conn -> Seq(Nat)]
      /\ shut \subseteq Conn
      /\ \A x \in Conn : Len(sock[x]) <= SocketRoom /\ sent[x] <= Upto(script[x], Len(script[x]))
  BY DEF LoopInv, Types, Fine, Reaches
<1>3. \A x \in Conn : sent[x] <= sent'[x] /\ sent'[x] <= Upto(script[x], Len(script[x]))
  BY <1>1, <1>2
<1>4. \A x \in Conn : Len(sock'[x]) <= SocketRoom /\ taken'[x] \o sock'[x] = Out(x)
  BY <1>1, <1>2 DEF Out
<1>5. shut' \subseteq Conn /\ sent' \in [Conn -> Nat] /\ sock' \in [Conn -> Seq(Nat)] /\ taken' \in [Conn -> Seq(Nat)]
  BY <1>1, <1>2
<1> QED BY <1>1, <1>3, <1>4, <1>5, ClientHolds

\* A connection accepted goes among the arrivals, as new as it was.
LEMMA AdoptHolds == ASSUME LoopInv, NEW c \in Conn, Adopt(c) PROVE LoopInv'
<1> DEFINE n == [conn[c] EXCEPT !.place = "arrived"]
<1>1. /\ conn[c].place = "out" /\ conn' = [conn EXCEPT ![c] = n] /\ connections' = connections + 1
      /\ sock' = sock /\ bell' = TRUE /\ UNCHANGED <<clientVars, loopVars, unsent, Pending, failures>>
  BY DEF Adopt, Pending, journalVars
<1>2. /\ conn[c] \in ConnType /\ sock \in [Conn -> Seq(Nat)] /\ Len(sock[c]) <= SocketRoom
      /\ Fine(c) /\ sent[c] \in Nat
  BY DEF LoopInv, Types
<1>3. conn[c] = [NewConn EXCEPT !.place = "out"] /\ Out(c) = <<>>
  BY <1>1, <1>2 DEF Fine, Holds
<1>4. NewConn \in ConnType
  BY DEF NewConn, ConnType
<1>5. n \in ConnType /\ n.place = "arrived"
  BY <1>2 DEF ConnType
<1>6. n.got = 0 /\ n.eaten = 0 /\ n.held = 0
  BY <1>3, <1>4 DEF NewConn
<1>7. n = [NewConn EXCEPT !.place = "arrived"]
  BY <1>3, <1>4 DEF NewConn
<1> HIDE DEF n
<1>8. Holds(script[c], n, taken[c] \o sock[c], FALSE, FALSE)
  BY <1>3, <1>5, <1>6, <1>7 DEF Holds, Out
<1>9. Elsewhere
  BY <1>1 DEF Elsewhere
<1>10. sock[c] \in Seq(Nat) /\ sock' = [sock EXCEPT ![c] = sock[c]]
  BY <1>1, <1>2
<1>11. connections' = connections - Opens(conn[c]) + Opens(n)
  <2>1. Opens(conn[c]) = 0 /\ Opens(n) = 1
    BY <1>1, <1>5 DEF Opens
  <2>2. connections \in Nat
    BY WeightFinite DEF LoopInv, Counts, Types
  <2> QED BY <1>1, <2>1, <2>2
<1>12. n.got <= sent[c] /\ n.place # "loop" /\ conn[c].place \notin {"loop", "closed"}
  BY <1>1, <1>2, <1>5, <1>6
<1> QED BY <1>1, <1>2, <1>5, <1>6, <1>8, <1>9, <1>10, <1>11, <1>12, ElseHolds

\* What others write to the journal no reply waits for any more.
LEMMA WrittenHolds == ASSUME LoopInv, WrittenElsewhere PROVE LoopInv'
<1>1. /\ script' = script /\ manner' = manner /\ sent' = sent /\ shut' = shut /\ taken' = taken
      /\ pc' = pc /\ ready' = ready /\ again' = again /\ answered' = answered
      /\ conn' = conn /\ sock' = sock /\ bell' = bell
      /\ unsent' = unsent /\ connections' = connections /\ failures' = failures
  BY DEF WrittenElsewhere, clientVars, loopVars
<1>2. Pending' = {}
  BY DEF WrittenElsewhere, JournalWritten, Pending
<1>3. Types'
  BY <1>1, <1>2 DEF LoopInv, Types
<1>4. ASSUME NEW c \in Conn PROVE Fine(c)'
  <2>1. Out(c)' = Out(c)
    BY <1>1 DEF Out
  <2> QED BY <1>1, <2>1 DEF LoopInv, Fine, Reaches
<1>5. Counts'
  <2>1. Weight' = Weight /\ Open' = Open
    BY <1>1 DEF Weight, Open
  <2> QED BY <1>1, <2>1 DEF LoopInv, Counts
<1> QED BY <1>1, <1>2, <1>3, <1>4, <1>5 DEF LoopInv

\* At the start no client is connected.
LEMMA InitHolds == Init => LoopInv
<1> SUFFICES ASSUME Init PROVE LoopInv
  OBVIOUS
<1>1. /\ sent = [c \in Conn |-> 0] /\ shut = {} /\ conn = [c \in Conn |-> NewConn]
      /\ sock = [c \in Conn |-> <<>>] /\ taken = [c \in Conn |-> <<>>]
      /\ pc = "poll" /\ ready = {} /\ again = {} /\ answered = {} /\ bell = FALSE
      /\ unsent = 0 /\ connections = 0 /\ Pending = {} /\ failures = 0
  BY DEF Init, Pending, journalVars
<1>2. script \in [Conn -> Seq(Kinds)] /\ manner \in [Conn -> Manner]
  <2>1. PICK f \in Clients : /\ script = [c \in Conn |-> f[c].script]
                             /\ manner = [c \in Conn |-> f[c].manner]
    BY DEF Init, Pending, journalVars
  <2>2. f \in [Conn -> [script : Seq(Kinds), manner : Manner]]
    BY LoopAssumption
  <2>3. \A c \in Conn : f[c].script \in Seq(Kinds) /\ f[c].manner \in Manner
    BY <2>2
  <2> QED BY <2>1, <2>3
<1>3. NewConn \in ConnType
  BY DEF NewConn, ConnType
<1>4. \A c \in Conn : conn[c] = NewConn /\ sock[c] = <<>> /\ taken[c] = <<>> /\ sent[c] = 0
  BY <1>1
<1>5. Types
  <2>1. <<>> \in Seq(Nat) /\ Len(<<>>) = 0
    OBVIOUS
  <2>2. 0 <= SocketRoom
    BY LoopAssumption
  <2>3. /\ sent \in [Conn -> Nat] /\ conn \in [Conn -> ConnType]
        /\ sock \in [Conn -> Seq(Nat)] /\ taken \in [Conn -> Seq(Nat)]
    BY <1>1, <1>3, <2>1
  <2>4. \A c \in Conn : Len(sock[c]) <= SocketRoom
    BY <1>4, <2>1, <2>2
  <2> QED BY <1>1, <1>2, <2>3, <2>4 DEF Types
<1>6. ASSUME NEW c \in Conn PROVE Fine(c)
  <2>1. Out(c) = <<>>
    BY <1>4 DEF Out
  <2>2. conn[c].place = "out" /\ conn[c].got = 0 /\ conn[c].eaten = 0 /\ conn[c].held = 0
    BY <1>4 DEF NewConn
  <2>3. conn[c] = [NewConn EXCEPT !.place = "out"]
    BY <1>4 DEF NewConn
  <2>4. Holds(script[c], conn[c], Out(c), c \in again, c \in answered)
    BY <1>3, <1>4, <2>1, <2>2, <2>3 DEF Holds
  <2>5. Reaches(c)
    <3>1. script[c] \in Seq(Kinds) /\ Len(script[c]) \in 0..Len(script[c])
      BY <1>2
    <3>2. Upto(script[c], Len(script[c])) \in Nat
      BY <3>1, UptoIs
    <3> QED BY <1>4, <2>2, <3>2 DEF Reaches
  <2> QED BY <2>4, <2>5 DEF Fine
<1>7. Counts
  <2>1. Weight = {}
    <3>1. \A c \in Conn : {c} \X (1..conn[c].held) = {}
      <4> TAKE c \in Conn
      <4>1. conn[c].held = 0
        BY <1>4 DEF NewConn
      <4>2. 1..0 = {}
        OBVIOUS
      <4> QED BY <4>1, <4>2
    <3> QED BY <3>1 DEF Weight
  <2>2. Open = {}
    BY <1>4 DEF Open, NewConn
  <2> QED BY <1>1, <2>1, <2>2, FS_EmptySet DEF Counts
<1> QED BY <1>1, <1>5, <1>6, <1>7 DEF LoopInv

\* Every step of the loop, of the threads and of the clients keeps it.
LEMMA NextHolds == LoopInv /\ [Next]_vars => LoopInv'
<1> SUFFICES ASSUME LoopInv, [Next]_vars PROVE LoopInv'
  OBVIOUS
<1>1. CASE Round
  <2>1. CASE Poll
    BY <2>1, PollHolds
  <2>2. ASSUME NEW c \in Conn, Receive(c) PROVE LoopInv'
    BY <2>2, ReceiveHolds
  <2>3. ASSUME NEW c \in Conn, ReplyTo(c) PROVE LoopInv'
    BY <2>3, ReplyHolds
  <2>4. CASE Flush
    BY <2>4, FlushHolds
  <2>5. CASE Replied
    BY <2>5, RepliedHolds
  <2>6. CASE Sweep
    BY <2>6, SweepHolds
  <2>7. CASE CloseSlow
    BY <2>7, SlowHolds
  <2>8. CASE Drain
    BY <2>8, DrainHolds
  <2>9. CASE Take
    BY <2>9, TakeHolds
  <2> QED BY <1>1, <2>1, <2>2, <2>3, <2>4, <2>5, <2>6, <2>7, <2>8, <2>9 DEF Round
<1>2. CASE Fails
  BY <1>2, FailsHolds
<1>3. ASSUME NEW c \in Conn, Adopt(c) PROVE LoopInv'
  BY <1>3, AdoptHolds
<1>4. ASSUME NEW c \in Conn, Thread(c) PROVE LoopInv'
  <2>1. CASE ThreadWrites(c)
    BY <2>1, ThreadWritesHolds
  <2>2. CASE ThreadAnswers(c)
    BY <2>2, ThreadAnswersHolds
  <2>3. CASE ThreadReads(c)
    BY <2>3, ThreadReadsHolds
  <2>4. CASE ThreadCloses(c)
    BY <2>4, ThreadClosesHolds
  <2> QED BY <1>4, <2>1, <2>2, <2>3, <2>4 DEF Thread
<1>5. ASSUME NEW c \in Conn, Client(c) PROVE LoopInv'
  <2>1. CASE Send(c)
    BY <2>1, SendHolds
  <2>2. CASE Takes(c)
    BY <2>2, TakesHolds
  <2>3. CASE ClosesEnd(c)
    BY <2>3, ClosesEndHolds
  <2> QED BY <1>5, <2>1, <2>2, <2>3 DEF Client
<1>6. CASE WrittenElsewhere
  BY <1>6, WrittenHolds
<1>7. CASE UNCHANGED vars
  BY <1>7, StutterHolds
<1> QED BY <1>1, <1>2, <1>3, <1>4, <1>5, <1>6, <1>7 DEF Next

\* The invariant of the loop and of what it does not serve any more: where
\* each connection stands in its script, what its client got of the replies,
\* what the loop still has to do for it, and what the journal lacks.
THEOREM LoopHolds == Spec => []LoopInv
<1> QED BY InitHolds, NextHolds, PTL DEF Spec

--------------------------------------------------------------------------
(* What follows.                                                           *)

\* The variables have their types.
THEOREM LoopTypes == Spec => []TypeOK
<1>1. LoopInv => TypeOK
  <2> SUFFICES ASSUME LoopInv PROVE TypeOK
    OBVIOUS
  <2>1. Types /\ conn \in [Conn -> ConnType] /\ sent \in [Conn -> Nat] /\ \A c \in Conn : Fine(c)
    BY DEF LoopInv, Types
  <2>2. ASSUME NEW c \in Conn
        PROVE  /\ conn[c].place \in {"out", "arrived", "loop", "thread", "stream", "closed"}
               /\ conn[c].phase \in {"idle", "head", "body", "refused"}
               /\ conn[c].got \in 0..sent[c] /\ conn[c].eaten \in 0..conn[c].got
               /\ Len(sock[c]) <= SocketRoom
    <3>1. conn[c] \in ConnType /\ sent[c] \in Nat /\ Fine(c)
      BY <2>1
    <3>2. /\ conn[c].got \in Nat /\ conn[c].eaten \in Nat
          /\ conn[c].place \in {"out", "arrived", "loop", "thread", "stream", "closed"}
          /\ conn[c].phase \in {"idle", "head", "body", "refused"}
      BY <3>1 DEF ConnType
    <3>3. conn[c].got <= sent[c]
      BY <3>1 DEF Fine, Reaches
    <3>4. conn[c].eaten <= conn[c].got
      BY <3>1 DEF Fine, Holds
    <3>5. Len(sock[c]) <= SocketRoom
      BY <2>1 DEF Types
    <3> QED BY <3>1, <3>2, <3>3, <3>4, <3>5
  <2>3. unsent \in Nat /\ connections \in 0..Cardinality(Conn)
    <3>1. unsent = Cardinality(Weight) /\ connections = Cardinality(Open)
      BY DEF LoopInv, Counts
    <3>2. Cardinality(Weight) \in Nat /\ Cardinality(Open) \in Nat
      BY <2>1, WeightFinite
    <3>3. Open \in SUBSET Conn
      BY DEF Open
    <3>4. Cardinality(Open) <= Cardinality(Conn) /\ Cardinality(Conn) \in Nat
      BY <3>3, LoopAssumption, FS_Subset, FS_CardinalityType
    <3> QED BY <3>1, <3>2, <3>4
  <2>4. /\ script \in [Conn -> Seq(Kinds)] /\ manner \in [Conn -> Manner]
        /\ pc \in {"poll", "receive", "reply", "sweep", "slow", "drain", "take"}
        /\ ready \subseteq Conn /\ again \subseteq Conn /\ answered \subseteq Conn
    BY <2>1 DEF Types
  <2> QED BY <2>2, <2>3, <2>4 DEF TypeOK
<1> QED BY <1>1, LoopHolds, PTL

\* Wherever a connection is, what its client has got and what is on its way
\* to it are the replies to its requests in the order it sent them, each once
\* and whole.
THEOREM RepliesKeepOrder == Spec => []RepliesInOrder
<1>1. LoopInv => RepliesInOrder
  <2> SUFFICES ASSUME LoopInv, NEW c \in Conn
               PROVE  IsPrefix(taken[c] \o sock[c] \o conn[c].output, Answers(script[c]))
    BY DEF RepliesInOrder
  <2> DEFINE s == script[c]
  <2> DEFINE b == taken[c] \o sock[c]
  <2> DEFINE n == conn[c]
  <2>1. /\ s \in Seq(Kinds) /\ n \in ConnType /\ sock[c] \in Seq(Nat) /\ taken[c] \in Seq(Nat)
        /\ Fine(c) /\ b = Out(c)
    BY DEF LoopInv, Types, Out
  <2>2. b \in Seq(Nat) /\ n.output \in Seq(Nat)
    BY <2>1, ConcatProperties DEF ConnType
  <2>3. b \o n.output \in Seq(Nat)
    BY <2>2, ConcatProperties
  <2>4. Holds(s, n, b, c \in again, c \in answered)
    BY <2>1 DEF Fine
  <2>5. n.place \in {"out", "arrived", "loop", "thread", "stream", "closed"}
    BY <2>1 DEF ConnType
  <2> HIDE DEF n, b, s
  <2>6. \E d : InOrder(s, b \o n.output, d)
    <3>1. CASE n.place \in {"loop", "thread"}
      BY <2>4, <3>1 DEF Holds, Loops, Serves
    <3>2. CASE n.place \in {"out", "arrived"}
      <4>1. n = [NewConn EXCEPT !.place = n.place] /\ b = <<>>
        BY <2>4, <3>2 DEF Holds
      <4>2. n.output = <<>>
        BY <4>1 DEF NewConn
      <4>3. b \o n.output = <<>>
        BY <4>1, <4>2, ConcatEmptySeq, <2>2
      <4> QED BY <2>1, <4>3, InOrderStart
    <3>3. CASE n.place \in {"stream", "closed"}
      <4>1. n.output = <<>> /\ \E d \in Nat : InOrder(s, b, d)
        BY <2>4, <3>3 DEF Holds
      <4>2. b \o n.output = b
        BY <2>2, <4>1, ConcatEmptySeq
      <4> QED BY <4>1, <4>2
    <3> QED BY <2>5, <3>1, <3>2, <3>3
  <2>7. IsPrefix(b \o n.output, Answers(s))
    BY <2>1, <2>3, <2>6, InOrderIsPrefix
  <2> QED BY <2>7 DEF b, n, s
<1> QED BY <1>1, LoopHolds, PTL

\* What changed the store is in the journal before its reply is anywhere out
\* of the loop, unless the flush that let it out came upon it while a sync
\* held writes up or the disk refused them: whatever any flush meets, nothing
\* else leaves unwritten.
THEOREM RepliesWaitForJournal == Spec => []SavedBeforeReply
<1>1. LoopInv => SavedBeforeReply
  BY DEF LoopInv, Waits, Out, SavedBeforeReply, Pending
<1> QED BY <1>1, LoopHolds, PTL

\* The loop's counts are right, what it holds is bounded, and between two
\* rounds no connection it has is one it would not hear of.
THEOREM LoopKeepsConnections == Spec => []ConnectionsKept
<1>1. LoopInv => Accounted
  <2> SUFFICES ASSUME LoopInv PROVE Accounted
    OBVIOUS
  <2>1. unsent = Cardinality(Weight) /\ connections = Cardinality(Open)
    BY DEF LoopInv, Counts
  <2>2. connections = Cardinality({c \in Conn : conn[c].place \notin {"out", "closed"}})
    BY <2>1 DEF Open
  <2>3. ASSUME NEW c \in Conn
        PROVE  /\ conn[c].held > 0 => InLoop(c)
               /\ InLoop(c) => Len(conn[c].output) < MaxOutput + LargeReply /\ Unread(conn[c]) <= 2 * ReadSize
    <3>1. Holds(script[c], conn[c], Out(c), c \in again, c \in answered)
      BY DEF LoopInv, Fine
    <3>2. conn[c].held > 0 => InLoop(c)
      BY <3>1 DEF Holds, InLoop
    <3>3. InLoop(c) => \E d \in Nat : Loops(script[c], conn[c], Out(c), d)
      BY <3>1 DEF Holds, InLoop
    <3> QED BY <3>2, <3>3 DEF Loops
  <2> QED BY <2>1, <2>2, <2>3 DEF Accounted
<1>2. LoopInv => NeverDeaf
  <2> SUFFICES ASSUME LoopInv, pc = "poll", NEW c \in Conn, InLoop(c)
               PROVE  /\ conn[c].watch = interest(conn[c])
                      /\ conn[c].watch # {} \/ c \in again
                      /\ ~conn[c].queued
                      /\ conn[c].moving # 0 \/ conn[c].full => pending(conn[c]) \/ c \in again
    BY DEF NeverDeaf
  <2>1. c \notin answered
    BY DEF LoopInv
  <2>2. Holds(script[c], conn[c], Out(c), c \in again, c \in answered)
    BY DEF LoopInv, Fine
  <2>3. Settled(conn[c], c \in again)
    BY <2>1, <2>2 DEF Holds, InLoop
  <2> QED BY <2>3 DEF Settled
<1>3. LoopInv => ConnectionsKept
  BY <1>1, <1>2 DEF ConnectionsKept
<1> QED BY <1>3, LoopHolds, PTL
=============================================================================
