---------------------------- MODULE InboxProofs ----------------------------
(***************************************************************************)
(* What holds of Inbox for every number of agents, messages and deliveries. *)
(*                                                                         *)
(* A store is sound when it is what Built makes of its messages and its    *)
(* agents' names: taking messages in and out of the indexes one at a time  *)
(* (track) and building them again (retrack) then come to the same, and    *)
(* each operator on stores is what it does to the messages.  A request     *)
(* makes a row of such stores; Settles and Follows say how each of them    *)
(* stands to the store the request found.                                  *)
(***************************************************************************)
EXTENDS Inbox, Facts

-----------------------------------------------------------------------------
(***************************************************************************)
(* Rows of ids.                                                            *)
(***************************************************************************)
\* Numbers in order: a row of them, each once.
LEMMA NumbersInOrder ==
    ASSUME NEW S \in SUBSET Nat, IsFiniteSet(S)
    PROVE  /\ InOrder(S, <) \in [1 .. Cardinality(S) -> S]
           /\ \A i, j \in 1 .. Cardinality(S) : InOrder(S, <)[i] = InOrder(S, <)[j] => i = j
<1> DEFINE R == {r \in S \X S : r[1] < r[2]}
           rank(x) == Cardinality({y \in S : y < x})
           row == InOrder(S, <)
           C == Cardinality(S)
<1>1. Cardinality(S) \in Nat
  BY FS_CardinalityType
<1>2. \A x \in S : RankIn(S, R, x) = rank(x)
  <2> SUFFICES ASSUME NEW x \in S PROVE {q \in S : <<q, x>> \in R} = {y \in S : y < x}
    BY DEF RankIn
  <2> QED OBVIOUS
<1>3. \A k \in 0 .. Cardinality(S) - 1 : \E x \in S : RankIn(S, R, x) = k
  <2>1. \A p, q \in S : p \in Nat /\ q \in Nat /\ (<<p, q>> \in R <=> p < q)
    OBVIOUS
  <2> HIDE DEF R
  <2>2. \A p \in S : <<p, p>> \notin R
    BY <2>1
  <2>3. \A p, q, r \in S : <<p, q>> \in R /\ <<q, r>> \in R => <<p, r>> \in R
    BY <2>1
  <2>4. \A p, q \in S : p # q => <<p, q>> \in R \/ <<q, p>> \in R
    BY <2>1
  <2> QED BY <2>2, <2>3, <2>4, RankedBy
<1>4. row = [i \in 1 .. C |-> CHOOSE x \in S : rank(x) = i - 1]
  BY DEF InOrder
<1>5. \A i \in 1 .. C : row[i] \in S /\ rank(row[i]) = i - 1
  <2> SUFFICES ASSUME NEW i \in 1 .. C
               PROVE  row[i] \in S /\ rank(row[i]) = i - 1
    OBVIOUS
  <2>1. i - 1 \in 0 .. C - 1
    BY <1>1
  <2>2. \E x \in S : rank(x) = i - 1
    BY <1>2, <1>3, <2>1
  <2>3. row[i] = CHOOSE x \in S : rank(x) = i - 1
    BY <1>4
  <2> HIDE DEF row, rank
  <2> QED BY <2>2, <2>3
<1>6. \A i, j \in 1 .. C : row[i] = row[j] => i = j
  <2> HIDE DEF row, rank
  <2>1. \A i, j \in 1 .. C : row[i] = row[j] => i - 1 = j - 1
    BY <1>5
  <2> QED BY <1>1, <2>1
<1>7. row \in [1 .. C -> S]
  <2> HIDE DEF row, rank
  <2> QED BY <1>4, <1>5
<1> QED BY <1>6, <1>7

\* Those that fell due in order: a row of them.
LEMMA SoonestInOrder ==
    ASSUME NEW S \in SUBSET (Nat \X Nat), IsFiniteSet(S)
    PROVE  LET soonest(x, y) == x[1] < y[1] \/ (x[1] = y[1] /\ x[2] < y[2])
           IN  InOrder(S, soonest) \in [1 .. Cardinality(S) -> S]
<1> DEFINE soonest(x, y) == x[1] < y[1] \/ (x[1] = y[1] /\ x[2] < y[2])
           R == {r \in S \X S : soonest(r[1], r[2])}
           rank(x) == Cardinality({y \in S : soonest(y, x)})
           row == InOrder(S, soonest)
           C == Cardinality(S)
<1>1. \A x \in S : x[1] \in Nat /\ x[2] \in Nat /\ x = <<x[1], x[2]>>
  OBVIOUS
<1>2. Cardinality(S) \in Nat
  BY FS_CardinalityType
<1>3. \A x, y \in S : <<x, y>> \in R <=> soonest(x, y)
  OBVIOUS
<1>4. \A x \in S : RankIn(S, R, x) = rank(x)
  <2> SUFFICES ASSUME NEW x \in S PROVE {q \in S : <<q, x>> \in R} = {y \in S : soonest(y, x)}
    BY DEF RankIn
  <2> HIDE DEF R
  <2> QED BY <1>3
<1>5. \A k \in 0 .. Cardinality(S) - 1 : \E x \in S : RankIn(S, R, x) = k
  <2> HIDE DEF R
  <2>1. \A p \in S : <<p, p>> \notin R
    BY <1>1, <1>3
  <2>2. \A p, q, r \in S : <<p, q>> \in R /\ <<q, r>> \in R => <<p, r>> \in R
    BY <1>1, <1>3
  <2>3. \A p, q \in S : p # q => <<p, q>> \in R \/ <<q, p>> \in R
    <3> SUFFICES ASSUME NEW p \in S, NEW q \in S, p # q PROVE soonest(p, q) \/ soonest(q, p)
      BY <1>3
    <3>1. p[1] # q[1] \/ p[2] # q[2]
      BY <1>1
    <3> QED BY <1>1, <3>1
  <2> QED BY <2>1, <2>2, <2>3, RankedBy
<1>6. row = [i \in 1 .. C |-> CHOOSE x \in S : rank(x) = i - 1]
  BY DEF InOrder
<1>7. \A i \in 1 .. C : row[i] \in S
  <2> SUFFICES ASSUME NEW i \in 1 .. C
               PROVE  row[i] \in S
    OBVIOUS
  <2>1. i - 1 \in 0 .. C - 1
    BY <1>2
  <2>2. \E x \in S : rank(x) = i - 1
    BY <1>4, <1>5, <2>1
  <2>3. row[i] = CHOOSE x \in S : rank(x) = i - 1
    BY <1>6
  <2> HIDE DEF row, rank
  <2> QED BY <2>2, <2>3
<1> HIDE DEF row, rank
<1>8. row \in [1 .. C -> S]
  BY <1>6, <1>7
<1> QED BY <1>8 DEF row

\* The first few of a row.
LEMMA UpToIs ==
    ASSUME NEW T, NEW row \in Seq(T), NEW n \in Nat
    PROVE  /\ UpTo(n, row) \in Seq(T)
           /\ Len(UpTo(n, row)) <= Len(row)
           /\ \A i \in 1 .. Len(UpTo(n, row)) : UpTo(n, row)[i] = row[i]
<1> DEFINE m == IF n < Len(row) THEN n ELSE Len(row)
<1>1. Len(row) \in Nat
  BY LenProperties
<1>2. m \in Nat /\ m <= Len(row)
  BY <1>1
<1>3. UpTo(n, row) = SubSeq(row, 1, m)
  BY DEF UpTo
<1> HIDE DEF m
<1>4. SubSeq(row, 1, m) \in Seq(T) /\ Len(SubSeq(row, 1, m)) = m
      /\ \A i \in 1 .. m : SubSeq(row, 1, m)[i] = row[i]
  BY <1>1, <1>2
<1> QED BY <1>2, <1>3, <1>4

\* The first of a set of ids: each of them once.
LEMMA FirstIs ==
    ASSUME NEW S \in SUBSET Nat, IsFiniteSet(S), NEW n \in Nat
    PROVE  /\ First(S, n) \in Seq(S)
           /\ \A i, j \in DOMAIN First(S, n) : First(S, n)[i] = First(S, n)[j] => i = j
<1> DEFINE row == InOrder(S, <)
           C == Cardinality(S)
<1>1. C \in Nat
  BY FS_CardinalityType
<1>2. row \in [1 .. C -> S] /\ \A i, j \in 1 .. C : row[i] = row[j] => i = j
  BY NumbersInOrder
<1> HIDE DEF row, C
<1>3. row \in Seq(S) /\ Len(row) = C
  BY <1>1, <1>2
<1> DEFINE u == UpTo(n, row)
<1>4. u \in Seq(S) /\ Len(u) <= C /\ \A i \in 1 .. Len(u) : u[i] = row[i]
  BY <1>3, UpToIs
<1>5. First(S, n) = u
  BY DEF First, row
<1> HIDE DEF u
<1>6. DOMAIN u = 1 .. Len(u) /\ Len(u) \in Nat
  BY <1>4, LenProperties
<1>7. \A i, j \in DOMAIN u : u[i] = u[j] => i = j
  BY <1>1, <1>2, <1>4, <1>6
<1> QED BY <1>4, <1>5, <1>7

\* The batch of those that fell due: the ids of some that did.
LEMMA DueIs ==
    ASSUME NEW due \in SUBSET (Nat \X Nat), IsFiniteSet(due), NEW at \in Nat
    PROVE  /\ Due(due, at) \in Seq(Nat)
           /\ \A i \in DOMAIN Due(due, at) : \E t \in 0 .. at : <<t, Due(due, at)[i]>> \in due
<1> DEFINE soonest(x, y) == x[1] < y[1] \/ (x[1] = y[1] /\ x[2] < y[2])
           S == {x \in due : x[1] <= at}
           row == InOrder(S, soonest)
           C == Cardinality(S)
           u == UpTo(SweepBatch, row)
<1>1. S \in SUBSET due /\ S \in SUBSET (Nat \X Nat) /\ IsFiniteSet(S)
  BY FS_Subset
<1>2. C \in Nat
  BY <1>1, FS_CardinalityType
<1>3. Due(due, at) = [i \in DOMAIN u |-> u[i][2]]
  BY DEF Due
<1>4. \A x \in S : x[1] \in 0 .. at /\ x[2] \in Nat /\ <<x[1], x[2]>> \in due
  OBVIOUS
<1> HIDE DEF S
<1>5. row \in [1 .. C -> S]
  BY <1>1, SoonestInOrder
<1> HIDE DEF row, C
<1>6. row \in Seq(S)
  BY <1>2, <1>5
<1>7. SweepBatch \in Nat
  BY LimitsAssumption
<1>8. u \in Seq(S)
  BY <1>6, <1>7, UpToIs
<1> HIDE DEF u
<1>9. DOMAIN u = 1 .. Len(u) /\ Len(u) \in Nat /\ \A i \in DOMAIN u : u[i] \in S
  BY <1>8, LenProperties
<1>10. \A i \in DOMAIN u : u[i][2] \in Nat /\ u[i][1] \in 0 .. at /\ <<u[i][1], u[i][2]>> \in due
  BY <1>4, <1>9
<1>11. Due(due, at) \in Seq(Nat) /\ DOMAIN Due(due, at) = DOMAIN u
  <2> DEFINE d == Due(due, at)
             n == Len(u)
  <2>1. d \in [1 .. n -> Nat] /\ n \in Nat
    BY <1>3, <1>9, <1>10
  <2> HIDE DEF d, n
  <2>2. d \in Seq(Nat) /\ DOMAIN d = 1 .. n
    BY <2>1
  <2> QED BY <1>9, <2>2 DEF d, n
<1>12. \A i \in DOMAIN u : Due(due, at)[i] = u[i][2]
  BY <1>3
<1> QED BY <1>10, <1>11, <1>12
-----------------------------------------------------------------------------
(***************************************************************************)
(* What a store's indexes are to be, in one piece: those that the messages *)
(* in M give, with the inboxes that the messages in B give.                *)
(***************************************************************************)
MessageFields == [from : Agent, to : Agent, key : Key \cup {None}, state : State,
                  deliveries : 0 .. MaxDeliveries, expires : Nat,
                  lease : Lease \cup {None}, settled : Nat \cup {None}]

\* A message has a lease when it is leased, was settled at some time when it is
\* settled, and waits in the queue only to be delivered once more.
MessageType ==
    {m \in MessageFields : /\ m.state = "leased" => m.lease \in Lease
                           /\ m.state \notin Pending => m.settled \in Nat
                           /\ m.state = "queued" => m.deliveries < MaxDeliveries}

KeyOf(m) == <<m.to, m.from, m.key>>
KeyType == Agent \X Agent \X Key

Those(mm, M, a, X) == {i \in M : mm[i].to = a /\ mm[i].state \in X}
Sent(mm, M, a, b) == {i \in Those(mm, M, a, Pending) : mm[i].from = b}

CountsOf(mm, M, a) == [queued  |-> Cardinality(Those(mm, M, a, {"queued"})),
                       leased  |-> Cardinality(Those(mm, M, a, {"leased"})),
                       dead    |-> Cardinality(Those(mm, M, a, {"dead"})),
                       settled |-> Cardinality(Those(mm, M, a, {"acked", "expired"}))]
SendersOf(mm, M, a) == [b \in Agent |-> Cardinality(Sent(mm, M, a, b))]
AgentOf(mm, M, B, a) == [inbox   |-> {i \in B : mm[i].to = a},
                         queued  |-> Those(mm, M, a, {"queued"}),
                         settled |-> Those(mm, M, a, State \ Pending),
                         counts  |-> CountsOf(mm, M, a),
                         senders |-> SendersOf(mm, M, a)]
DueOf(mm, M) ==
    [leases  |-> {<<mm[i].lease.until, i>> : i \in {j \in M : mm[j].state = "leased"}},
     expiry  |-> {<<mm[i].expires, i>> : i \in {j \in M : mm[j].state \in Pending}},
     settled |-> {<<mm[i].settled, i>> : i \in {j \in M : mm[j].state \notin Pending}}]

Shown(l, mm, A, k, M, B) == [last_id |-> l, messages |-> mm,
                             agents |-> [a \in A |-> AgentOf(mm, M, B, a)],
                             msg_keys |-> k, due |-> DueOf(mm, M)]
Built(l, mm, A, k) == Shown(l, mm, A, k, DOMAIN mm, DOMAIN mm)

\* What the indexes show depends on the messages in M, and the inboxes on whom
\* those in B are to.
LEMMA SameShown ==
    ASSUME NEW mm, NEW nn, NEW M, NEW B, NEW a,
           \A i \in M : mm[i] = nn[i], \A i \in B : mm[i].to = nn[i].to
    PROVE  AgentOf(mm, M, B, a) = AgentOf(nn, M, B, a) /\ DueOf(mm, M) = DueOf(nn, M)
<1>1. \A X : Those(mm, M, a, X) = Those(nn, M, a, X)
  BY DEF Those
<1>2. \A b : Sent(mm, M, a, b) = Sent(nn, M, a, b)
  BY <1>1 DEF Sent, Those
<1>3. {i \in B : mm[i].to = a} = {i \in B : nn[i].to = a}
  OBVIOUS
<1>4. CountsOf(mm, M, a) = CountsOf(nn, M, a) /\ SendersOf(mm, M, a) = SendersOf(nn, M, a)
  BY <1>1, <1>2 DEF CountsOf, SendersOf
<1>5. AgentOf(mm, M, B, a) = AgentOf(nn, M, B, a)
  BY <1>1, <1>3, <1>4 DEF AgentOf
<1>6. DueOf(mm, M) = DueOf(nn, M)
  BY DEF DueOf
<1> QED BY <1>5, <1>6

\* One more message is in the sets it belongs in, and counted once more.
Joins(mm, M, id, a, X) ==
    LET in == mm[id].to = a /\ mm[id].state \in X
        U == Those(mm, M, a, X)
        V == Those(mm, M \cup {id}, a, X)
    IN  /\ Cardinality(U) \in Nat
        /\ id \notin U
        /\ in => V = U \cup {id} /\ Cardinality(V) = Cardinality(U) + 1
        /\ ~in => V = U

\* A message that joins others joins those that it is like.
LEMMA ThoseWith ==
    ASSUME NEW mm, NEW M, IsFiniteSet(M), NEW id, id \notin M, NEW a, NEW X
    PROVE  Joins(mm, M, id, a, X)
<1> DEFINE U == Those(mm, M, a, X)
<1>1. U \in SUBSET M /\ id \notin U
  BY DEF Those
<1>2. IsFiniteSet(U) /\ Cardinality(U) \in Nat
  BY <1>1, FS_Subset, FS_CardinalityType
<1>3. Those(mm, M \cup {id}, a, X) = IF mm[id].to = a /\ mm[id].state \in X THEN U \cup {id} ELSE U
  BY DEF Those
<1> HIDE DEF U
<1>4. Cardinality(U \cup {id}) = Cardinality(U) + 1
  BY <1>1, <1>2, FS_AddElement
<1> QED BY <1>1, <1>2, <1>3, <1>4 DEF U, Joins

\* And those that it is from the same sender as.
SentJoins(mm, M, id, a, b) ==
    LET in == mm[id].to = a /\ mm[id].state \in Pending /\ mm[id].from = b
        U == Sent(mm, M, a, b)
        V == Sent(mm, M \cup {id}, a, b)
    IN  /\ Cardinality(U) \in Nat
        /\ in => Cardinality(V) = Cardinality(U) + 1
        /\ ~in => V = U

\* One more message is counted once more for its sender.
LEMMA SentWith ==
    ASSUME NEW mm, NEW M, IsFiniteSet(M), NEW id, id \notin M, NEW a, NEW b
    PROVE  SentJoins(mm, M, id, a, b)
<1> DEFINE U == Sent(mm, M, a, b)
           is == mm[id].to = a /\ mm[id].state \in Pending /\ mm[id].from = b
<1>1. U \in SUBSET M /\ id \notin U
  BY DEF Sent, Those
<1>2. IsFiniteSet(U) /\ Cardinality(U) \in Nat
  BY <1>1, FS_Subset, FS_CardinalityType
<1>3. Sent(mm, M \cup {id}, a, b) = IF is THEN U \cup {id} ELSE U
  BY DEF Sent, Those
<1> HIDE DEF U
<1>4. Cardinality(U \cup {id}) = Cardinality(U) + 1
  BY <1>1, <1>2, FS_AddElement
<1> QED BY <1>1, <1>2, <1>3, <1>4 DEF U, SentJoins

\* A count goes up by one and comes back.
LEMMA BumpIs == \A n \in Nat : Bump(n, TRUE) = n + 1 /\ Bump(n + 1, FALSE) = n
  BY DEF Bump

\* A counter goes up and comes back.
Steps(p, q, c, n) == /\ n \in Nat /\ p[c] = n /\ q[c] = n + 1
                     /\ q = [p EXCEPT ![c] = n + 1] /\ p = [q EXCEPT ![c] = n]
Moves(p, q, c) == [p EXCEPT ![c] = Bump(@, TRUE)] = q /\ [q EXCEPT ![c] = Bump(@, FALSE)] = p

\* What a step up takes it to is what a step down takes it back from.
LEMMA CounterMoves == ASSUME NEW p, NEW q, NEW c, NEW n, Steps(p, q, c, n) PROVE Moves(p, q, c)
<1>1. Bump(n, TRUE) = n + 1 /\ Bump(n + 1, FALSE) = n
  BY BumpIs DEF Steps
<1>2. [p EXCEPT ![c] = Bump(@, TRUE)] = [p EXCEPT ![c] = n + 1]
  BY <1>1, Zenon DEF Steps
<1>3. [q EXCEPT ![c] = Bump(@, FALSE)] = [q EXCEPT ![c] = n]
  BY <1>1, Zenon DEF Steps
<1> QED BY <1>2, <1>3, Zenon DEF Moves, Steps

\* The counters of a message's states.
LEMMA CountsWith ==
    ASSUME NEW mm, NEW M, IsFiniteSet(M), NEW id, id \notin M, mm[id].state \in State,
           NEW a, a = mm[id].to, NEW c, c = Counter(mm[id].state)
    PROVE  Moves(CountsOf(mm, M, a), CountsOf(mm, M \cup {id}, a), c)
<1> DEFINE st == mm[id].state
           n(X) == Cardinality(Those(mm, M, a, X))
           k(X) == Cardinality(Those(mm, M \cup {id}, a, X))
<1>1. ASSUME NEW X
      PROVE  n(X) \in Nat /\ k(X) = n(X) + (IF st \in X THEN 1 ELSE 0)
  <2>1. Joins(mm, M, id, a, X)
    BY ThoseWith
  <2> QED BY <2>1 DEF Joins
<1> DEFINE p == CountsOf(mm, M, a)
           q == CountsOf(mm, M \cup {id}, a)
<1>2. p = [queued |-> n({"queued"}), leased |-> n({"leased"}), dead |-> n({"dead"}),
           settled |-> n({"acked", "expired"})]
  BY DEF CountsOf
<1>3. q = [queued |-> k({"queued"}), leased |-> k({"leased"}), dead |-> k({"dead"}),
           settled |-> k({"acked", "expired"})]
  BY DEF CountsOf
<1>4. st \in {"queued", "leased", "acked", "dead", "expired"}
  BY DEF State, Pending
<1> HIDE DEF n, k, p, q, st
<1> SUFFICES Moves(p, q, c)
  BY DEF p, q
<1>5. CASE st = "queued"
  <2>1. c = "queued"
    BY <1>5 DEF Counter, st
  <2>2. /\ k({"queued"}) = n({"queued"}) + 1 /\ k({"leased"}) = n({"leased"})
        /\ k({"dead"}) = n({"dead"}) /\ k({"acked", "expired"}) = n({"acked", "expired"})
    BY <1>1, <1>5
  <2>3. n({"queued"}) \in Nat
    BY <1>1
  <2>4. /\ p.queued = n({"queued"}) /\ q.queued = n({"queued"}) + 1
        /\ q = [p EXCEPT !.queued = n({"queued"}) + 1] /\ p = [q EXCEPT !.queued = n({"queued"})]
    BY <1>2, <1>3, <2>2, <2>3
  <2>5. Steps(p, q, c, n({"queued"}))
    BY <2>1, <2>3, <2>4, Zenon DEF Steps
  <2> QED BY <2>5, CounterMoves
<1>6. CASE st = "leased"
  <2>1. c = "leased"
    BY <1>6 DEF Counter, st
  <2>2. /\ k({"queued"}) = n({"queued"}) /\ k({"leased"}) = n({"leased"}) + 1
        /\ k({"dead"}) = n({"dead"}) /\ k({"acked", "expired"}) = n({"acked", "expired"})
    BY <1>1, <1>6
  <2>3. n({"leased"}) \in Nat
    BY <1>1
  <2>4. /\ p.leased = n({"leased"}) /\ q.leased = n({"leased"}) + 1
        /\ q = [p EXCEPT !.leased = n({"leased"}) + 1] /\ p = [q EXCEPT !.leased = n({"leased"})]
    BY <1>2, <1>3, <2>2, <2>3
  <2>5. Steps(p, q, c, n({"leased"}))
    BY <2>1, <2>3, <2>4, Zenon DEF Steps
  <2> QED BY <2>5, CounterMoves
<1>7. CASE st = "dead"
  <2>1. c = "dead"
    BY <1>7 DEF Counter, st
  <2>2. /\ k({"queued"}) = n({"queued"}) /\ k({"leased"}) = n({"leased"})
        /\ k({"dead"}) = n({"dead"}) + 1 /\ k({"acked", "expired"}) = n({"acked", "expired"})
    BY <1>1, <1>7
  <2>3. n({"dead"}) \in Nat
    BY <1>1
  <2>4. /\ p.dead = n({"dead"}) /\ q.dead = n({"dead"}) + 1
        /\ q = [p EXCEPT !.dead = n({"dead"}) + 1] /\ p = [q EXCEPT !.dead = n({"dead"})]
    BY <1>2, <1>3, <2>2, <2>3
  <2>5. Steps(p, q, c, n({"dead"}))
    BY <2>1, <2>3, <2>4, Zenon DEF Steps
  <2> QED BY <2>5, CounterMoves
<1>8. CASE st = "acked"
  <2>1. c = "settled"
    BY <1>8 DEF Counter, st
  <2>2. /\ k({"queued"}) = n({"queued"}) /\ k({"leased"}) = n({"leased"})
        /\ k({"dead"}) = n({"dead"}) /\ k({"acked", "expired"}) = n({"acked", "expired"}) + 1
    BY <1>1, <1>8
  <2>3. n({"acked", "expired"}) \in Nat
    BY <1>1
  <2>4. /\ p.settled = n({"acked", "expired"}) /\ q.settled = n({"acked", "expired"}) + 1
        /\ q = [p EXCEPT !.settled = n({"acked", "expired"}) + 1] /\ p = [q EXCEPT !.settled = n({"acked", "expired"})]
    BY <1>2, <1>3, <2>2, <2>3
  <2>5. Steps(p, q, c, n({"acked", "expired"}))
    BY <2>1, <2>3, <2>4, Zenon DEF Steps
  <2> QED BY <2>5, CounterMoves
<1>9. CASE st = "expired"
  <2>1. c = "settled"
    BY <1>9 DEF Counter, st
  <2>2. /\ k({"queued"}) = n({"queued"}) /\ k({"leased"}) = n({"leased"})
        /\ k({"dead"}) = n({"dead"}) /\ k({"acked", "expired"}) = n({"acked", "expired"}) + 1
    BY <1>1, <1>9
  <2>3. n({"acked", "expired"}) \in Nat
    BY <1>1
  <2>4. /\ p.settled = n({"acked", "expired"}) /\ q.settled = n({"acked", "expired"}) + 1
        /\ q = [p EXCEPT !.settled = n({"acked", "expired"}) + 1] /\ p = [q EXCEPT !.settled = n({"acked", "expired"})]
    BY <1>2, <1>3, <2>2, <2>3
  <2>5. Steps(p, q, c, n({"acked", "expired"}))
    BY <2>1, <2>3, <2>4, Zenon DEF Steps
  <2> QED BY <2>5, CounterMoves
<1> QED BY <1>4, <1>5, <1>6, <1>7, <1>8, <1>9
-----------------------------------------------------------------------------
(***************************************************************************)
(* store.rs track: it takes the indexes of some messages to those of one   *)
(* more, and back.                                                         *)
(***************************************************************************)
DueFlip(due, id, m, add) ==
    [leases  |-> IF m.state = "leased"
                 THEN Flip(due.leases, <<m.lease.until, id>>, add) ELSE due.leases,
     expiry  |-> IF m.state \in Pending
                 THEN Flip(due.expiry, <<m.expires, id>>, add) ELSE due.expiry,
     settled |-> IF m.state \in Pending
                 THEN due.settled ELSE Flip(due.settled, <<m.settled, id>>, add)]
SendersFlip(senders, m, add) ==
    [senders EXCEPT ![m.from] = IF m.state \in Pending THEN Bump(@, add) ELSE @]
AgentFlip(p, id, m, add) ==
    [inbox   |-> p.inbox,
     queued  |-> IF m.state = "queued" THEN Flip(p.queued, id, add) ELSE p.queued,
     settled |-> IF m.state \in Pending THEN p.settled ELSE Flip(p.settled, id, add),
     counts  |-> [p.counts EXCEPT ![Counter(m.state)] = Bump(@, add)],
     senders |-> SendersFlip(p.senders, m, add)]

\* The due times: those of a message come with it and go with it.
LEMMA DueMoves ==
    ASSUME NEW mm, NEW M, NEW id, id \notin M
    PROVE  /\ DueFlip(DueOf(mm, M), id, mm[id], TRUE) = DueOf(mm, M \cup {id})
           /\ DueFlip(DueOf(mm, M \cup {id}), id, mm[id], FALSE) = DueOf(mm, M)
<1> DEFINE st == mm[id].state
           p == DueOf(mm, M)
           q == DueOf(mm, M \cup {id})
<1>1. /\ q.leases = IF st = "leased" THEN p.leases \cup {<<mm[id].lease.until, id>>} ELSE p.leases
      /\ <<mm[id].lease.until, id>> \notin p.leases
  BY DEF DueOf
<1>2. /\ q.expiry = IF st \in Pending THEN p.expiry \cup {<<mm[id].expires, id>>} ELSE p.expiry
      /\ <<mm[id].expires, id>> \notin p.expiry
  BY DEF DueOf
<1>3. /\ q.settled = IF st \in Pending THEN p.settled ELSE p.settled \cup {<<mm[id].settled, id>>}
      /\ <<mm[id].settled, id>> \notin p.settled
  BY DEF DueOf
<1>4. /\ p = [leases |-> p.leases, expiry |-> p.expiry, settled |-> p.settled]
      /\ q = [leases |-> q.leases, expiry |-> q.expiry, settled |-> q.settled]
  BY DEF DueOf
<1> HIDE DEF p, q, st
<1>5. DueFlip(p, id, mm[id], TRUE) = q
  <2>1. DueFlip(p, id, mm[id], TRUE) = [leases |-> q.leases, expiry |-> q.expiry, settled |-> q.settled]
    BY <1>1, <1>2, <1>3 DEF DueFlip, Flip, st
  <2> QED BY <1>4, <2>1
<1>6. DueFlip(q, id, mm[id], FALSE) = p
  <2>1. (p.leases \cup {<<mm[id].lease.until, id>>}) \ {<<mm[id].lease.until, id>>} = p.leases
    BY <1>1
  <2>2. (p.expiry \cup {<<mm[id].expires, id>>}) \ {<<mm[id].expires, id>>} = p.expiry
    BY <1>2
  <2>3. (p.settled \cup {<<mm[id].settled, id>>}) \ {<<mm[id].settled, id>>} = p.settled
    BY <1>3
  <2>4. DueFlip(q, id, mm[id], FALSE) = [leases |-> p.leases, expiry |-> p.expiry, settled |-> p.settled]
    BY <1>1, <1>2, <1>3, <2>1, <2>2, <2>3 DEF DueFlip, Flip, st
  <2> QED BY <1>4, <2>4
<1> QED BY <1>5, <1>6 DEF p, q

SendersMoved(mm, M, id, a) ==
    /\ SendersFlip(SendersOf(mm, M, a), mm[id], TRUE) = SendersOf(mm, M \cup {id}, a)
    /\ SendersFlip(SendersOf(mm, M \cup {id}, a), mm[id], FALSE) = SendersOf(mm, M, a)

\* The senders' counts.
LEMMA SendersMove ==
    ASSUME NEW mm, NEW M, IsFiniteSet(M), NEW id, id \notin M, mm[id].from \in Agent,
           NEW a, a = mm[id].to
    PROVE  SendersMoved(mm, M, id, a)
<1> DEFINE p == SendersOf(mm, M, a)
           q == SendersOf(mm, M \cup {id}, a)
           f == mm[id].from
           pending == mm[id].state \in Pending
<1>1. DOMAIN p = Agent /\ DOMAIN q = Agent /\ p = [b \in Agent |-> p[b]] /\ q = [b \in Agent |-> q[b]]
  BY DEF SendersOf
<1>2. ASSUME NEW b \in Agent
      PROVE  /\ p[b] \in Nat
             /\ pending /\ f = b => q[b] = p[b] + 1
             /\ ~(pending /\ f = b) => q[b] = p[b]
  <2>1. SentJoins(mm, M, id, a, b)
    BY SentWith
  <2>2. p[b] = Cardinality(Sent(mm, M, a, b)) /\ q[b] = Cardinality(Sent(mm, M \cup {id}, a, b))
    BY DEF SendersOf
  <2> QED BY <2>1, <2>2 DEF SentJoins
<1>3. f \in Agent
  OBVIOUS
<1> HIDE DEF p, q, f, pending
<1> SUFFICES /\ [p EXCEPT ![f] = IF pending THEN Bump(@, TRUE) ELSE @] = q
             /\ [q EXCEPT ![f] = IF pending THEN Bump(@, FALSE) ELSE @] = p
  BY DEF SendersFlip, SendersMoved, p, q, f, pending
<1>4. CASE pending
  <2>1. Bump(p[f], TRUE) = q[f] /\ Bump(q[f], FALSE) = p[f]
    <3>1. p[f] \in Nat /\ q[f] = p[f] + 1
      BY <1>2, <1>3, <1>4
    <3> QED BY <3>1, BumpIs
  <2>2. \A b \in Agent : b # f => p[b] = q[b]
    BY <1>2
  <2>3. [p EXCEPT ![f] = q[f]] = q /\ [q EXCEPT ![f] = p[f]] = p
    BY <1>1, <1>3, <2>2
  <2> QED BY <1>4, <2>1, <2>3, Zenon
<1>5. CASE ~pending
  <2>1. p = q
    BY <1>1, <1>2, <1>5
  <2>2. [p EXCEPT ![f] = p[f]] = p
    BY <1>1, <1>3
  <2> QED BY <1>5, <2>1, <2>2, Zenon
<1> QED BY <1>4, <1>5

AgentMoved(mm, M, B, id, a) ==
    /\ AgentFlip(AgentOf(mm, M, B, a), id, mm[id], TRUE) = AgentOf(mm, M \cup {id}, B, a)
    /\ AgentFlip(AgentOf(mm, M \cup {id}, B, a), id, mm[id], FALSE) = AgentOf(mm, M, B, a)

\* What an agent has of its messages.
LEMMA AgentMoves ==
    ASSUME NEW mm, NEW M, IsFiniteSet(M), NEW id, id \notin M,
           mm[id].from \in Agent, mm[id].state \in State, NEW B, NEW a, a = mm[id].to
    PROVE  AgentMoved(mm, M, B, id, a)
<1> DEFINE p == AgentOf(mm, M, B, a)
           q == AgentOf(mm, M \cup {id}, B, a)
           st == mm[id].state
           c == Counter(st)
<1>1. /\ p = [inbox |-> p.inbox, queued |-> p.queued, settled |-> p.settled,
              counts |-> p.counts, senders |-> p.senders]
      /\ q = [inbox |-> q.inbox, queued |-> q.queued, settled |-> q.settled,
              counts |-> q.counts, senders |-> q.senders]
      /\ p.inbox = q.inbox
      /\ p.queued = Those(mm, M, a, {"queued"})
      /\ q.queued = Those(mm, M \cup {id}, a, {"queued"})
      /\ p.settled = Those(mm, M, a, State \ Pending)
      /\ q.settled = Those(mm, M \cup {id}, a, State \ Pending)
      /\ p.counts = CountsOf(mm, M, a)
      /\ q.counts = CountsOf(mm, M \cup {id}, a)
      /\ p.senders = SendersOf(mm, M, a)
      /\ q.senders = SendersOf(mm, M \cup {id}, a)
  BY DEF AgentOf
<1> HIDE DEF p, q, c
<1>2. Moves(p.counts, q.counts, c)
  BY <1>1, CountsWith DEF c
<1>3. SendersFlip(p.senders, mm[id], TRUE) = q.senders /\ SendersFlip(q.senders, mm[id], FALSE) = p.senders
  <2>1. SendersMoved(mm, M, id, a)
    BY SendersMove
  <2> QED BY <1>1, <2>1, Zenon DEF SendersMoved
<1>4. /\ st = "queued" => q.queued = p.queued \cup {id}
      /\ st # "queued" => q.queued = p.queued
      /\ id \notin p.queued
  <2>1. Joins(mm, M, id, a, {"queued"})
    BY ThoseWith
  <2> QED BY <1>1, <2>1 DEF Joins
<1>5. /\ st \in Pending => q.settled = p.settled
      /\ st \notin Pending => q.settled = p.settled \cup {id}
      /\ id \notin p.settled
  <2>1. Joins(mm, M, id, a, State \ Pending)
    BY ThoseWith
  <2> QED BY <1>1, <2>1 DEF Joins
<1>6. AgentFlip(p, id, mm[id], TRUE) = q
  <2>1. [p.counts EXCEPT ![c] = Bump(@, TRUE)] = q.counts
    BY <1>2 DEF Moves
  <2>2. (IF st = "queued" THEN Flip(p.queued, id, TRUE) ELSE p.queued) = q.queued
    BY <1>4 DEF Flip
  <2>3. (IF st \in Pending THEN p.settled ELSE Flip(p.settled, id, TRUE)) = q.settled
    BY <1>5 DEF Flip
  <2>4. AgentFlip(p, id, mm[id], TRUE) =
            [inbox |-> q.inbox, queued |-> q.queued, settled |-> q.settled,
             counts |-> q.counts, senders |-> q.senders]
    BY <1>1, <1>3, <2>1, <2>2, <2>3, Zenon DEF AgentFlip, c
  <2> QED BY <1>1, <2>4, Zenon
<1>7. AgentFlip(q, id, mm[id], FALSE) = p
  <2>1. [q.counts EXCEPT ![c] = Bump(@, FALSE)] = p.counts
    BY <1>2 DEF Moves
  <2>2. (IF st = "queued" THEN Flip(q.queued, id, FALSE) ELSE q.queued) = p.queued
    BY <1>4 DEF Flip
  <2>3. (IF st \in Pending THEN q.settled ELSE Flip(q.settled, id, FALSE)) = p.settled
    BY <1>5 DEF Flip
  <2>4. AgentFlip(q, id, mm[id], FALSE) =
            [inbox |-> p.inbox, queued |-> p.queued, settled |-> p.settled,
             counts |-> p.counts, senders |-> p.senders]
    BY <1>1, <1>3, <2>1, <2>2, <2>3, Zenon DEF AgentFlip, c
  <2> QED BY <1>1, <2>4, Zenon
<1> QED BY <1>6, <1>7 DEF p, q, AgentMoved

AgentStayed(mm, M, B, id, a) == AgentOf(mm, M \cup {id}, B, a) = AgentOf(mm, M, B, a)

\* The other agents' are left alone.
LEMMA AgentStays ==
    ASSUME NEW mm, NEW M, NEW id, NEW B, NEW a, a # mm[id].to
    PROVE  AgentStayed(mm, M, B, id, a)
<1>1. \A X : Those(mm, M \cup {id}, a, X) = Those(mm, M, a, X)
  BY DEF Those
<1>2. \A b : Sent(mm, M \cup {id}, a, b) = Sent(mm, M, a, b)
  BY <1>1 DEF Sent
<1> QED BY <1>1, <1>2 DEF AgentOf, CountsOf, SendersOf, AgentStayed

Tracked(p, id, m, add) ==
    [p EXCEPT !.counts[Counter(m.state)] = Bump(@, add),
              !.senders[m.from] = IF m.state \in Pending THEN Bump(@, add) ELSE @,
              !.queued = IF m.state = "queued" THEN Flip(@, id, add) ELSE @,
              !.settled = IF m.state \in Pending THEN @ ELSE Flip(@, id, add)]

\* What track does to an agent, field by field.
LEMMA TrackedIs ==
    ASSUME NEW i, NEW q, NEW t, NEW c, NEW n, NEW id, NEW m, NEW add,
           NEW p, p = [inbox |-> i, queued |-> q, settled |-> t, counts |-> c, senders |-> n]
    PROVE  Tracked(p, id, m, add) = AgentFlip(p, id, m, add)
<1> DEFINE c2 == [c EXCEPT ![Counter(m.state)] = Bump(@, add)]
           n2 == [n EXCEPT ![m.from] = IF m.state \in Pending THEN Bump(@, add) ELSE @]
           q2 == IF m.state = "queued" THEN Flip(q, id, add) ELSE q
           t2 == IF m.state \in Pending THEN t ELSE Flip(t, id, add)
           p1 == [p EXCEPT !.counts[Counter(m.state)] = Bump(@, add)]
           p2 == [p1 EXCEPT !.senders[m.from] = IF m.state \in Pending THEN Bump(@, add) ELSE @]
           p3 == [p2 EXCEPT !.queued = IF m.state = "queued" THEN Flip(@, id, add) ELSE @]
           p4 == [p3 EXCEPT !.settled = IF m.state \in Pending THEN @ ELSE Flip(@, id, add)]
<1>1. p.inbox = i /\ p.queued = q /\ p.settled = t /\ p.counts = c /\ p.senders = n
  OBVIOUS
<1>2. p1 = [inbox |-> i, queued |-> q, settled |-> t, counts |-> c2, senders |-> n]
  <2>1. p1 = [p EXCEPT !.counts = c2]
    BY <1>1, Zenon
  <2> HIDE DEF c2, p1
  <2> QED BY <2>1
<1>3. p2 = [inbox |-> i, queued |-> q, settled |-> t, counts |-> c2, senders |-> n2]
  <2> HIDE DEF c2, p1
  <2>1. p1.senders = n
    BY <1>2
  <2>2. p2 = [p1 EXCEPT !.senders = n2]
    BY <2>1, Zenon
  <2> HIDE DEF n2, p2
  <2> QED BY <1>2, <2>2
<1>4. p3 = [inbox |-> i, queued |-> q2, settled |-> t, counts |-> c2, senders |-> n2]
  <2> HIDE DEF c2, n2, p2
  <2>1. p2.queued = q
    BY <1>3
  <2>2. p3 = [p2 EXCEPT !.queued = q2]
    BY <2>1, Zenon
  <2> HIDE DEF q2, p3
  <2> QED BY <1>3, <2>2
<1>5. p4 = [inbox |-> i, queued |-> q2, settled |-> t2, counts |-> c2, senders |-> n2]
  <2> HIDE DEF c2, n2, q2, p3
  <2>1. p3.settled = t
    BY <1>4
  <2>2. p4 = [p3 EXCEPT !.settled = t2]
    BY <2>1, Zenon
  <2> HIDE DEF t2, p4
  <2> QED BY <1>4, <2>2
<1>6. AgentFlip(p, id, m, add) = [inbox |-> i, queued |-> q2, settled |-> t2, counts |-> c2, senders |-> n2]
  <2> HIDE DEF p1
  <2> QED BY <1>1, Zenon DEF AgentFlip, SendersFlip
<1>7. p4 = AgentFlip(p, id, m, add)
  <2> HIDE DEF p4, c2, n2, q2, t2
  <2> QED BY <1>5, <1>6
<1> QED BY <1>7 DEF Tracked

IsAgent(p) == p = [inbox |-> p.inbox, queued |-> p.queued, settled |-> p.settled,
                   counts |-> p.counts, senders |-> p.senders]
Record(l, mm, ag, k, due) ==
    [last_id |-> l, messages |-> mm, agents |-> ag, msg_keys |-> k, due |-> due]
Tracks(l, mm, ag, k, due, id, m, add) ==
    track(Record(l, mm, ag, k, due), id, m, add) =
        Record(l, mm,
               [a \in DOMAIN ag |-> IF a = m.to THEN AgentFlip(ag[a], id, m, add) ELSE ag[a]],
               k, DueFlip(due, id, m, add))

\* What track does to a store, field by field.
LEMMA TrackIs ==
    ASSUME NEW l, NEW mm, NEW ag, NEW k, NEW due, NEW id, NEW m, NEW add,
           \A a \in DOMAIN ag : IsAgent(ag[a])
    PROVE  Tracks(l, mm, ag, k, due, id, m, add)
<1> DEFINE bg == [a \in DOMAIN ag |-> IF a = m.to THEN Tracked(ag[a], id, m, add) ELSE ag[a]]
           s == [last_id |-> l, messages |-> mm, agents |-> ag, msg_keys |-> k, due |-> due]
           d == DueFlip(due, id, m, add)
           s1 == [s EXCEPT !.due = d]
<1>1. track(s, id, m, add) = [s1 EXCEPT !.agents = bg]
  BY DEF track, DueFlip, Tracked
<1>2. ASSUME NEW a \in DOMAIN ag PROVE Tracked(ag[a], id, m, add) = AgentFlip(ag[a], id, m, add)
  BY TrackedIs DEF IsAgent
<1>3. bg = [a \in DOMAIN ag |-> IF a = m.to THEN AgentFlip(ag[a], id, m, add) ELSE ag[a]]
  BY <1>2
<1>4. [s1 EXCEPT !.agents = bg] =
          [last_id |-> l, messages |-> mm, agents |-> bg, msg_keys |-> k, due |-> d]
  <2> HIDE DEF bg, d
  <2>1. s1 = [last_id |-> l, messages |-> mm, agents |-> ag, msg_keys |-> k, due |-> d]
    OBVIOUS
  <2> HIDE DEF s1
  <2> QED BY <2>1
<1> HIDE DEF bg, s1
<1> QED BY <1>1, <1>3, <1>4 DEF Tracks, Record
TrackMoved(l, mm, A, k, M, B, id) ==
    /\ track(Shown(l, mm, A, k, M, B), id, mm[id], TRUE) = Shown(l, mm, A, k, M \cup {id}, B)
    /\ track(Shown(l, mm, A, k, M \cup {id}, B), id, mm[id], FALSE) = Shown(l, mm, A, k, M, B)

\* Tracking a message takes the indexes of the others to theirs and its own, and
\* no longer tracking it takes them back.
LEMMA TrackMoves ==
    ASSUME NEW l, NEW mm, NEW A, NEW k, NEW M, IsFiniteSet(M), NEW B, NEW id, id \notin M,
           mm[id].from \in Agent, mm[id].state \in State
    PROVE  TrackMoved(l, mm, A, k, M, B, id)
<1> DEFINE N == M \cup {id}
           ag == [a \in A |-> AgentOf(mm, M, B, a)]
           bg == [a \in A |-> AgentOf(mm, N, B, a)]
           m == mm[id]
<1>1. \A a \in A : IsAgent(ag[a]) /\ IsAgent(bg[a])
  BY DEF AgentOf, IsAgent
<1>2. DOMAIN ag = A /\ DOMAIN bg = A
  OBVIOUS
<1>3. ASSUME NEW a \in A
      PROVE  /\ (IF a = m.to THEN AgentFlip(ag[a], id, m, TRUE) ELSE ag[a]) = bg[a]
             /\ (IF a = m.to THEN AgentFlip(bg[a], id, m, FALSE) ELSE bg[a]) = ag[a]
  <2>1. ag[a] = AgentOf(mm, M, B, a) /\ bg[a] = AgentOf(mm, N, B, a)
    OBVIOUS
  <2> HIDE DEF ag, bg
  <2>2. CASE a = m.to
    <3>1. AgentMoved(mm, M, B, id, a)
      BY <2>2, AgentMoves
    <3> QED BY <2>1, <2>2, <3>1, Zenon DEF AgentMoved
  <2>3. CASE a # m.to
    <3>1. AgentStayed(mm, M, B, id, a)
      BY <2>3, AgentStays
    <3> QED BY <2>1, <2>3, <3>1, Zenon DEF AgentStayed
  <2> QED BY <2>2, <2>3
<1>4. /\ DueFlip(DueOf(mm, M), id, mm[id], TRUE) = DueOf(mm, N)
      /\ DueFlip(DueOf(mm, N), id, mm[id], FALSE) = DueOf(mm, M)
  BY DueMoves
<1>5. Shown(l, mm, A, k, M, B) = [last_id |-> l, messages |-> mm, agents |-> ag, msg_keys |-> k,
                                  due |-> DueOf(mm, M)]
  BY DEF Shown
<1>6. Shown(l, mm, A, k, N, B) = [last_id |-> l, messages |-> mm, agents |-> bg, msg_keys |-> k,
                                  due |-> DueOf(mm, N)]
  BY DEF Shown
<1> HIDE DEF ag, bg, N
<1>7. track(Shown(l, mm, A, k, M, B), id, m, TRUE) = Shown(l, mm, A, k, N, B)
  <2>1. track(Shown(l, mm, A, k, M, B), id, m, TRUE) =
          [last_id |-> l, messages |-> mm,
           agents |-> [a \in DOMAIN ag |-> IF a = m.to THEN AgentFlip(ag[a], id, m, TRUE) ELSE ag[a]],
           msg_keys |-> k, due |-> DueFlip(DueOf(mm, M), id, m, TRUE)]
    <3> HIDE DEF m
    <3>1. Tracks(l, mm, ag, k, DueOf(mm, M), id, m, TRUE)
      BY <1>1, <1>2, TrackIs
    <3> QED BY <1>5, <3>1 DEF Tracks, Record
  <2>2. [a \in DOMAIN ag |-> IF a = m.to THEN AgentFlip(ag[a], id, m, TRUE) ELSE ag[a]] = bg
    <3>1. bg = [a \in A |-> bg[a]]
      BY DEF bg
    <3> HIDE DEF m
    <3> QED BY <1>2, <1>3, <3>1
  <2> QED BY <1>4, <1>6, <2>1, <2>2
<1>8. track(Shown(l, mm, A, k, N, B), id, m, FALSE) = Shown(l, mm, A, k, M, B)
  <2>1. track(Shown(l, mm, A, k, N, B), id, m, FALSE) =
          [last_id |-> l, messages |-> mm,
           agents |-> [a \in DOMAIN bg |-> IF a = m.to THEN AgentFlip(bg[a], id, m, FALSE) ELSE bg[a]],
           msg_keys |-> k, due |-> DueFlip(DueOf(mm, N), id, m, FALSE)]
    <3> HIDE DEF m
    <3>1. Tracks(l, mm, bg, k, DueOf(mm, N), id, m, FALSE)
      BY <1>1, <1>2, TrackIs
    <3> QED BY <1>6, <3>1 DEF Tracks, Record
  <2>2. [a \in DOMAIN bg |-> IF a = m.to THEN AgentFlip(bg[a], id, m, FALSE) ELSE bg[a]] = ag
    <3>1. ag = [a \in A |-> ag[a]]
      BY DEF ag
    <3> HIDE DEF m
    <3> QED BY <1>2, <1>3, <3>1
  <2> QED BY <1>4, <1>5, <2>1, <2>2
<1> QED BY <1>7, <1>8 DEF N, TrackMoved
-----------------------------------------------------------------------------
(***************************************************************************)
(* Changing and removing a message.                                        *)
(***************************************************************************)
\* What the indexes are built from may change where they do not look.
LEMMA ShownSame ==
    ASSUME NEW l, NEW mm, NEW nn, NEW A, NEW k, NEW M, NEW B,
           \A i \in M : mm[i] = nn[i], \A i \in B : mm[i].to = nn[i].to
    PROVE  [Shown(l, mm, A, k, M, B) EXCEPT !.messages = nn] = Shown(l, nn, A, k, M, B)
<1> DEFINE ag == [a \in A |-> AgentOf(mm, M, B, a)]
           due == DueOf(mm, M)
<1>1. ag = [a \in A |-> AgentOf(nn, M, B, a)] /\ due = DueOf(nn, M)
  <2>1. \A a \in A : AgentOf(mm, M, B, a) = AgentOf(nn, M, B, a)
    BY SameShown
  <2>2. due = DueOf(nn, M)
    BY SameShown
  <2> QED BY <2>1, <2>2
<1>2. Shown(l, mm, A, k, M, B) = [last_id |-> l, messages |-> mm, agents |-> ag, msg_keys |-> k, due |-> due]
  BY DEF Shown
<1>3. Shown(l, nn, A, k, M, B) = [last_id |-> l, messages |-> nn, agents |-> ag, msg_keys |-> k, due |-> due]
  BY <1>1 DEF Shown
<1> HIDE DEF ag, due
<1> QED BY <1>2, <1>3

\* A message that becomes another, to the same agent: the indexes follow.
LEMMA ChangedIs ==
    ASSUME NEW l, NEW mm, NEW A, NEW k, IsFiniteSet(DOMAIN mm), NEW id \in DOMAIN mm, NEW m,
           mm[id].from \in Agent, mm[id].state \in State, m.from \in Agent, m.state \in State,
           m.to = mm[id].to
    PROVE  changed(Built(l, mm, A, k), id, m) = Built(l, Put(mm, id, m), A, k)
<1> DEFINE D == DOMAIN mm
           nn == Put(mm, id, m)
           M == D \ {id}
<1>1. DOMAIN nn = D /\ nn[id] = m /\ \A i \in M : nn[i] = mm[i]
  BY DEF Put
<1>2. M \cup {id} = D /\ id \notin M /\ IsFiniteSet(M)
  BY FS_RemoveElement
<1>3. \A i \in D : mm[i].to = nn[i].to
  BY <1>1
<1>4. Built(l, mm, A, k).messages = mm
  BY DEF Built, Shown
<1> HIDE DEF nn, M
<1>5. track(Shown(l, mm, A, k, D, D), id, mm[id], FALSE) = Shown(l, mm, A, k, M, D)
  <2>1. TrackMoved(l, mm, A, k, M, D, id)
    BY <1>2, TrackMoves
  <2> QED BY <1>2, <2>1 DEF TrackMoved
<1>6. [Shown(l, mm, A, k, M, D) EXCEPT !.messages = nn] = Shown(l, nn, A, k, M, D)
  BY <1>1, <1>3, ShownSame
<1>7. track(Shown(l, nn, A, k, M, D), id, m, TRUE) = Shown(l, nn, A, k, D, D)
  <2>1. nn[id].from \in Agent /\ nn[id].state \in State
    BY <1>1
  <2>2. TrackMoved(l, nn, A, k, M, D, id)
    BY <1>2, <2>1, TrackMoves
  <2> QED BY <1>1, <1>2, <2>2 DEF TrackMoved
<1>8. Shown(l, mm, A, k, M, D).messages = mm
  BY DEF Shown
<1> DEFINE s == Built(l, mm, A, k)
           t == track(s, id, s.messages[id], FALSE)
<1>9. changed(s, id, m) = track([t EXCEPT !.messages = Put(@, id, m)], id, m, TRUE)
  BY DEF changed
<1>10. t = Shown(l, mm, A, k, M, D)
  BY <1>4, <1>5 DEF Built
<1> HIDE DEF t
<1>11. [t EXCEPT !.messages = Put(@, id, m)] = [t EXCEPT !.messages = nn]
  BY <1>8, <1>10, Zenon DEF nn
<1>12. changed(s, id, m) = Shown(l, nn, A, k, D, D)
  BY <1>6, <1>7, <1>9, <1>10, <1>11
<1> QED BY <1>1, <1>12 DEF Built, nn
-----------------------------------------------------------------------------
(***************************************************************************)
(* Messages dropped, and what is built again from those there are.         *)
(***************************************************************************)
KeysOf(mm, S) == {KeyOf(mm[i]) : i \in {j \in S : mm[j].key # None}}

\* What a store is without some of its messages.
Dropped(l, mm, A, k, S) == Built(l, Without(mm, S), A, Without(k, KeysOf(mm, S)))

\* What is left out of what is left is left out.
LEMMA WithoutMore ==
    ASSUME NEW f, NEW S, NEW T
    PROVE  Without(Without(f, S), T) = Without(f, S \cup T)
<1> DEFINE g == Without(f, S)
<1>1. DOMAIN g = DOMAIN f \ S /\ \A x \in DOMAIN f \ S : g[x] = f[x]
  BY DEF Without
<1>2. (DOMAIN f \ S) \ T = DOMAIN f \ (S \cup T)
  OBVIOUS
<1> HIDE DEF g
<1>3. Without(g, T) = [x \in DOMAIN f \ (S \cup T) |-> f[x]]
  BY <1>1, <1>2 DEF Without
<1> QED BY <1>3 DEF Without, g

\* A message that goes takes what it gave the indexes with it.
LEMMA RemoveIs ==
    ASSUME NEW l, NEW mm, NEW A, NEW k, IsFiniteSet(DOMAIN mm), NEW id \in DOMAIN mm,
           mm[id].from \in Agent, mm[id].state \in State, k = Without(k, {})
    PROVE  remove_message(id, Built(l, mm, A, k)) = Dropped(l, mm, A, k, {id})
<1> DEFINE D == DOMAIN mm
           nn == Without(mm, {id})
           M == D \ {id}
           s == Built(l, mm, A, k)
           m == s.messages[id]
           t == track(s, id, m, FALSE)
           ag == [a \in A |-> AgentOf(mm, M, D, a)]
           bg == [a \in A |-> AgentOf(nn, M, M, a)]
           cg == [a \in A |-> IF a = m.to THEN [ag[a] EXCEPT !.inbox = @ \ {id}] ELSE ag[a]]
           k2 == IF m.key = None THEN k ELSE Without(k, {<<m.to, m.from, m.key>>})
<1>1. DOMAIN nn = M /\ \A i \in M : mm[i] = nn[i]
  BY DEF Without
<1>2. M \cup {id} = D /\ id \notin M /\ IsFiniteSet(M)
  BY FS_RemoveElement
<1> DEFINE t1 == [t EXCEPT !.messages = Without(@, {id})]
           inboxes(f) == [a \in DOMAIN f |-> IF a = m.to THEN [f[a] EXCEPT !.inbox = @ \ {id}] ELSE f[a]]
           t2 == [t1 EXCEPT !.agents = inboxes(t.agents)]
           t3 == [t2 EXCEPT !.msg_keys = IF m.key = None THEN t.msg_keys
                                         ELSE Without(t.msg_keys, {<<m.to, m.from, m.key>>})]
<1>3. remove_message(id, s) = t3
  <2> HIDE DEF s
  <2> QED BY Zenon DEF remove_message
<1>4. m = mm[id]
  BY DEF Built, Shown
<1> HIDE DEF m
<1>5. t = Shown(l, mm, A, k, M, D)
  <2> HIDE DEF M
  <2>1. TrackMoved(l, mm, A, k, M, D, id)
    BY <1>2, TrackMoves
  <2> QED BY <1>2, <1>4, <2>1 DEF TrackMoved, Built
<1>6. \A a \in A : cg[a] = bg[a]
  <2> SUFFICES ASSUME NEW a \in A PROVE cg[a] = bg[a]
    OBVIOUS
  <2> DEFINE p == AgentOf(mm, M, M, a)
             q == AgentOf(mm, M, D, a)
  <2>1. bg[a] = p
    <3> HIDE DEF nn, M
    <3>1. AgentOf(mm, M, M, a) = AgentOf(nn, M, M, a)
      BY <1>1, SameShown
    <3> QED BY <3>1
  <2>2. ag[a] = q
    OBVIOUS
  <2>3. p.inbox = {i \in M : mm[i].to = a} /\ q.inbox = {i \in D : mm[i].to = a}
    BY DEF AgentOf
  <2>4. p = [q EXCEPT !.inbox = p.inbox] /\ q = [q EXCEPT !.inbox = q.inbox]
    <3> DEFINE x == {i \in M : mm[i].to = a}
               y == {i \in D : mm[i].to = a}
               w == Those(mm, M, a, {"queued"})
               z == Those(mm, M, a, State \ Pending)
               c == CountsOf(mm, M, a)
               n == SendersOf(mm, M, a)
    <3>1. /\ p = [inbox |-> x, queued |-> w, settled |-> z, counts |-> c, senders |-> n]
          /\ q = [inbox |-> y, queued |-> w, settled |-> z, counts |-> c, senders |-> n]
      BY DEF AgentOf
    <3> HIDE DEF p, q, w, x, y, z, c, n
    <3> QED BY <3>1
  <2>5. CASE a = m.to
    <3>1. q.inbox \ {id} = p.inbox
      BY <2>3
    <3>2. cg[a] = [q EXCEPT !.inbox = @ \ {id}]
      BY <2>2, <2>5
    <3> HIDE DEF cg, bg, p, q
    <3> QED BY <2>1, <2>4, <3>1, <3>2, Zenon
  <2>6. CASE a # m.to
    <3>1. q.inbox = p.inbox
      <4> HIDE DEF p, q
      <4> QED BY <1>4, <2>3, <2>6
    <3>2. cg[a] = q
      BY <2>2, <2>6
    <3> HIDE DEF cg, bg, p, q
    <3> QED BY <2>1, <2>4, <3>1, <3>2, Zenon
  <2> QED BY <2>5, <2>6
<1>7. cg = bg
  <2>1. cg = [a \in A |-> cg[a]] /\ bg = [a \in A |-> bg[a]]
    OBVIOUS
  <2> HIDE DEF cg, bg
  <2> QED BY <1>6, <2>1
<1>8. DueOf(mm, M) = DueOf(nn, M)
  <2> HIDE DEF nn, M
  <2> QED BY <1>1, SameShown
<1>9. t = [last_id |-> l, messages |-> mm, agents |-> ag, msg_keys |-> k, due |-> DueOf(mm, M)]
  BY <1>5 DEF Shown
<1>10. Built(l, nn, A, k2) = [last_id |-> l, messages |-> nn, agents |-> bg, msg_keys |-> k2, due |-> DueOf(nn, M)]
  BY <1>1 DEF Built, Shown
<1>11. k2 = Without(k, KeysOf(mm, {id}))
  <2>1. CASE m.key = None
    <3>1. KeysOf(mm, {id}) = {}
      BY <1>4, <2>1 DEF KeysOf
    <3> QED BY <2>1, <3>1
  <2>2. CASE m.key # None
    <3>1. KeysOf(mm, {id}) = {KeyOf(m)}
      BY <1>4, <2>2 DEF KeysOf
    <3> QED BY <2>2, <3>1 DEF KeyOf
  <2> QED BY <2>1, <2>2
<1>12. inboxes(ag) = cg
  OBVIOUS
<1>13. t.messages = mm /\ t.agents = ag /\ t.msg_keys = k
  <2> HIDE DEF t, ag, M
  <2> QED BY <1>9
<1> HIDE DEF t, ag, bg, cg, nn, inboxes, M
<1>14. t1 = [last_id |-> l, messages |-> nn, agents |-> ag, msg_keys |-> k, due |-> DueOf(mm, M)]
  <2>1. t1 = [t EXCEPT !.messages = nn]
    BY <1>13, Zenon DEF nn
  <2> QED BY <1>9, <2>1
<1> HIDE DEF t1
<1>15. t2 = [last_id |-> l, messages |-> nn, agents |-> cg, msg_keys |-> k, due |-> DueOf(mm, M)]
  <2>1. t2 = [t1 EXCEPT !.agents = cg]
    BY <1>12, <1>13, Zenon
  <2> QED BY <1>14, <2>1
<1> HIDE DEF t2
<1>16. t3 = [last_id |-> l, messages |-> nn, agents |-> cg, msg_keys |-> k2, due |-> DueOf(mm, M)]
  <2>1. t3 = [t2 EXCEPT !.msg_keys = k2]
    BY <1>13, Zenon
  <2> HIDE DEF k2, t3
  <2> QED BY <1>15, <2>1
<1> HIDE DEF t3, k2
<1>17. t3 = Built(l, nn, A, k2)
  BY <1>7, <1>8, <1>10, <1>16
<1> QED BY <1>11, <1>3, <1>17 DEF Dropped, nn

IsMap(f) == f = [x \in DOMAIN f |-> f[x]]
AreMessages(mm) == /\ IsMap(mm) /\ IsFiniteSet(DOMAIN mm)
                   /\ \A i \in DOMAIN mm : mm[i].from \in Agent /\ mm[i].state \in State

\* One more message dropped after others.
LEMMA DropMore ==
    ASSUME NEW l, NEW mm, NEW A, NEW k, AreMessages(mm), IsMap(k),
           NEW S \in SUBSET DOMAIN mm, NEW id \in DOMAIN mm, id \notin S
    PROVE  remove_message(id, Dropped(l, mm, A, k, S)) = Dropped(l, mm, A, k, S \cup {id})
<1> DEFINE nn == Without(mm, S)
           k2 == Without(k, KeysOf(mm, S))
<1>1. DOMAIN nn = DOMAIN mm \ S /\ \A i \in DOMAIN mm \ S : nn[i] = mm[i]
  BY DEF Without
<1>2. IsFiniteSet(DOMAIN nn)
  <2>1. IsFiniteSet(DOMAIN mm) /\ DOMAIN mm \ S \in SUBSET DOMAIN mm
    BY DEF AreMessages
  <2> QED BY <1>1, <2>1, FS_Subset
<1>3. nn[id].from \in Agent /\ nn[id].state \in State /\ id \in DOMAIN nn
  BY <1>1 DEF AreMessages
<1>4. k2 = Without(k2, {})
  BY DEF Without
<1>5. KeysOf(nn, {id}) = KeysOf(mm, {id})
  <2> HIDE DEF nn
  <2> QED BY <1>1 DEF KeysOf
<1>6. KeysOf(mm, S) \cup KeysOf(mm, {id}) = KeysOf(mm, S \cup {id})
  BY DEF KeysOf
<1>7. Dropped(l, mm, A, k, S) = Built(l, nn, A, k2)
  BY DEF Dropped
<1>8. Without(nn, {id}) = Without(mm, S \cup {id})
  BY WithoutMore
<1>9. Without(k2, KeysOf(mm, {id})) = Without(k, KeysOf(mm, S \cup {id}))
  BY <1>6, WithoutMore
<1> HIDE DEF nn, k2
<1>10. remove_message(id, Built(l, nn, A, k2)) = Dropped(l, nn, A, k2, {id})
  BY <1>2, <1>3, <1>4, RemoveIs
<1>11. Dropped(l, nn, A, k2, {id}) = Built(l, Without(nn, {id}), A, Without(k2, KeysOf(mm, {id})))
  BY <1>5 DEF Dropped
<1> QED BY <1>7, <1>8, <1>9, <1>10, <1>11 DEF Dropped

Drops(l, mm, A, k, S) == apply_drop(Built(l, mm, A, k), S) = Dropped(l, mm, A, k, S)

\* Messages dropped, in whatever order: those, and their keys, are gone.
LEMMA DropIs ==
    ASSUME NEW l, NEW mm, NEW A, NEW k, AreMessages(mm), IsMap(k), NEW D \in SUBSET DOMAIN mm
    PROVE  Drops(l, mm, A, k, D)
<1> DEFINE s == Built(l, mm, A, k)
           r(S) == Dropped(l, mm, A, k, S)
           eq(g) == g = [S \in SUBSET D |->
                           IF S = {} THEN s
                           ELSE remove_message(CHOOSE x \in S : TRUE, g[S \ {CHOOSE x \in S : TRUE}])]
           h == CHOOSE g : eq(g)
           ch == [S \in SUBSET D |-> CHOOSE x \in S : TRUE]
           Fam == [S \in SUBSET D |-> {r(S)}]
<1>1. apply_drop(s, D) = h[D]
  BY DEF apply_drop, FoldSet, MapThenFoldSet
<1>2. IsFiniteSet(D)
  BY FS_Subset DEF AreMessages
<1>3. r({}) = s
  <2>1. Without(mm, {}) = mm /\ Without(k, {}) = k /\ KeysOf(mm, {}) = {}
    BY DEF Without, KeysOf, IsMap, AreMessages
  <2> QED BY <2>1 DEF Dropped
<1>4. ASSUME NEW S \in SUBSET D, S # {}
      PROVE  ch[S] \in S /\ ch[S] = (CHOOSE x \in S : TRUE)
  BY <1>4
<1>5. ASSUME NEW S \in SUBSET D, S # {}
      PROVE  remove_message(ch[S], r(S \ {ch[S]})) = r(S) /\ S \ {ch[S]} \in SUBSET D
  <2>1. ch[S] \in S
    BY <1>4, <1>5
  <2> HIDE DEF ch
  <2>2. S \ {ch[S]} \in SUBSET DOMAIN mm /\ ch[S] \in DOMAIN mm /\ ch[S] \notin S \ {ch[S]}
        /\ (S \ {ch[S]}) \cup {ch[S]} = S
    BY <2>1
  <2> DEFINE S0 == S \ {ch[S]}
  <2> HIDE DEF S0
  <2>3. remove_message(ch[S], Dropped(l, mm, A, k, S0)) = Dropped(l, mm, A, k, S0 \cup {ch[S]})
    BY <2>2, DropMore DEF S0
  <2> QED BY <2>2, <2>3 DEF S0
<1> HIDE DEF r
<1>6. \E g : eq(g)
  <2> DEFINE R == [S \in SUBSET D |-> r(S)]
             e(S) == IF S = {} THEN s
                     ELSE remove_message(CHOOSE x \in S : TRUE, R[S \ {CHOOSE x \in S : TRUE}])
  <2>1. \A S \in SUBSET D : R[S] = e(S)
    <3> SUFFICES ASSUME NEW S \in SUBSET D
                 PROVE  R[S] = e(S)
      OBVIOUS
    <3>1. CASE S = {}
      BY <1>3, <3>1
    <3>2. CASE S # {}
      <4>1. ch[S] = (CHOOSE x \in S : TRUE)
        BY <1>4, <3>2
      <4> HIDE DEF ch
      <4>2. R[S] = r(S) /\ R[S \ {ch[S]}] = r(S \ {ch[S]})
        BY <1>5, <3>2
      <4> HIDE DEF R
      <4>3. R[S] = remove_message(ch[S], R[S \ {ch[S]}])
        BY <1>5, <3>2, <4>2
      <4> QED BY <3>2, <4>1, <4>3, Zenon
    <3> QED BY <3>1, <3>2
  <2>2. R = [S \in SUBSET D |-> R[S]]
    OBVIOUS
  <2> HIDE DEF e, R
  <2>3. R = [S \in SUBSET D |-> e(S)]
    BY <2>1, <2>2
  <2>4. eq(R)
    BY <2>3 DEF e
  <2> QED BY <2>4
<1>7. eq(h)
  BY <1>6
<1>8. h[{}] \in Fam[{}]
  <2>1. h[{}] = s
    BY <1>7
  <2> QED BY <1>3, <2>1
<1>9. \A S \in SUBSET D : S # {} /\ h[S \ {ch[S]}] \in Fam[S \ {ch[S]}] => h[S] \in Fam[S]
  <2> SUFFICES ASSUME NEW S \in SUBSET D, S # {}, h[S \ {ch[S]}] \in Fam[S \ {ch[S]}]
               PROVE  h[S] \in Fam[S]
    OBVIOUS
  <2>1. ch[S] = (CHOOSE x \in S : TRUE)
    BY <1>4
  <2>2. h[S] = remove_message(CHOOSE x \in S : TRUE, h[S \ {CHOOSE x \in S : TRUE}])
    BY <1>7
  <2> HIDE DEF h
  <2>3. h[S \ {ch[S]}] = r(S \ {ch[S]})
    BY <1>5
  <2>4. h[S] = r(S)
    <3> HIDE DEF ch
    <3> QED BY <1>5, <2>1, <2>2, <2>3
  <2> QED BY <2>4
<1>10. h[D] \in Fam[D]
  <2>1. \A S \in SUBSET D : S # {} => ch[S] \in S
    BY <1>4
  <2> HIDE DEF h, ch, Fam
  <2>2. \A S \in SUBSET D : h[S] \in Fam[S]
    BY <1>2, <1>8, <1>9, <2>1, FoldHolds
  <2> QED BY <2>2
<1> HIDE DEF h
<1> QED BY <1>1, <1>10 DEF Drops, r

Retracks(l, mm, ag, k, due) == retrack(Record(l, mm, ag, k, due)) = Built(l, mm, DOMAIN ag, k)

\* The indexes are built again from the messages, whatever they were.
LEMMA RetrackIs ==
    ASSUME NEW l, NEW mm, NEW ag, NEW k, NEW due, AreMessages(mm),
           \A a \in DOMAIN ag : ag[a].inbox = {i \in DOMAIN mm : mm[i].to = a}
    PROVE  Retracks(l, mm, ag, k, due)
<1> DEFINE D == DOMAIN mm
           s == Record(l, mm, ag, k, due)
           add(id, t) == track(t, id, t.messages[id], TRUE)
           bare == [s EXCEPT !.due = NoDue,
                             !.agents = [a \in DOMAIN @ |-> [NewAgent EXCEPT !.inbox = s.agents[a].inbox]]]
           r(S) == Shown(l, mm, DOMAIN ag, k, S, D)
           eq(g) == g = [S \in SUBSET D |->
                           IF S = {} THEN bare
                           ELSE add(CHOOSE x \in S : TRUE, g[S \ {CHOOSE x \in S : TRUE}])]
           h == CHOOSE g : eq(g)
           ch == [S \in SUBSET D |-> CHOOSE x \in S : TRUE]
           Fam == [S \in SUBSET D |-> {r(S)}]
<1>1. s.messages = mm
  BY DEF Record
<1>2. retrack(s) = h[D]
  <2> HIDE DEF s
  <2>1. retrack(s) = FoldSet(add, bare, D)
    BY <1>1 DEF retrack
  <2> HIDE DEF bare
  <2> QED BY <2>1 DEF FoldSet, MapThenFoldSet
<1>3. IsFiniteSet(D)
  BY DEF AreMessages
<1>4. r({}) = bare
  <2> DEFINE bg == [a \in DOMAIN ag |-> [NewAgent EXCEPT !.inbox = ag[a].inbox]]
             cg == [a \in DOMAIN ag |-> AgentOf(mm, {}, D, a)]
  <2>1. bare = [[s EXCEPT !.due = NoDue] EXCEPT !.agents = bg]
    BY DEF Record
  <2>2. \A a \in DOMAIN ag : [NewAgent EXCEPT !.inbox = ag[a].inbox] = AgentOf(mm, {}, D, a)
    <3> SUFFICES ASSUME NEW a \in DOMAIN ag
                 PROVE  [NewAgent EXCEPT !.inbox = ag[a].inbox] = AgentOf(mm, {}, D, a)
      OBVIOUS
    <3>1. \A X : Those(mm, {}, a, X) = {}
      BY DEF Those
    <3>2. \A b : Sent(mm, {}, a, b) = {}
      BY <3>1 DEF Sent
    <3>3. Cardinality({}) = 0
      BY FS_EmptySet
    <3>4. CountsOf(mm, {}, a) = NoCounts /\ SendersOf(mm, {}, a) = [b \in Agent |-> 0]
      BY <3>1, <3>2, <3>3 DEF CountsOf, SendersOf, NoCounts
    <3> DEFINE box == {i \in D : mm[i].to = a}
               no == [b \in Agent |-> 0]
    <3>5. ag[a].inbox = box
      OBVIOUS
    <3>6. AgentOf(mm, {}, D, a) = [inbox |-> box, queued |-> {}, settled |-> {}, counts |-> NoCounts,
                                   senders |-> no]
      BY <3>1, <3>4 DEF AgentOf
    <3>7. NewAgent = [inbox |-> {}, queued |-> {}, settled |-> {}, counts |-> NoCounts, senders |-> no]
      BY DEF NewAgent
    <3> HIDE DEF box, no
    <3>8. [NewAgent EXCEPT !.inbox = box] = AgentOf(mm, {}, D, a)
      <4> DEFINE c == NoCounts
                 z == {}
                 e == [inbox |-> z, queued |-> z, settled |-> z, counts |-> c, senders |-> no]
      <4> HIDE DEF c, z
      <4>1. [e EXCEPT !.inbox = box] = [inbox |-> box, queued |-> z, settled |-> z, counts |-> c,
                                        senders |-> no]
        OBVIOUS
      <4> HIDE DEF e
      <4>2. NewAgent = e
        BY <3>7 DEF e, c, z
      <4> QED BY <3>6, <4>1, <4>2, Zenon DEF c, z
    <3> QED BY <3>5, <3>8
  <2>3. bg = cg
    BY <2>2
  <2>4. DueOf(mm, {}) = NoDue
    BY DEF DueOf, NoDue
  <2>5. r({}) = [last_id |-> l, messages |-> mm, agents |-> cg, msg_keys |-> k, due |-> NoDue]
    BY <2>4 DEF Shown
  <2> HIDE DEF bg, cg
  <2> DEFINE s1 == [s EXCEPT !.due = NoDue]
  <2>6. s1 = [last_id |-> l, messages |-> mm, agents |-> ag, msg_keys |-> k, due |-> NoDue]
    BY DEF Record
  <2> HIDE DEF s1
  <2>7. [s1 EXCEPT !.agents = bg] =
            [last_id |-> l, messages |-> mm, agents |-> bg, msg_keys |-> k, due |-> NoDue]
    BY <2>6
  <2> QED BY <2>1, <2>3, <2>5, <2>7 DEF s1
<1>5. ASSUME NEW S \in SUBSET D, S # {}
      PROVE  ch[S] \in S /\ ch[S] = (CHOOSE x \in S : TRUE)
  BY <1>5
<1>6. ASSUME NEW S \in SUBSET D, S # {}
      PROVE  add(ch[S], r(S \ {ch[S]})) = r(S) /\ S \ {ch[S]} \in SUBSET D
  <2>1. ch[S] \in S
    BY <1>5, <1>6
  <2> DEFINE x == ch[S]
  <2> HIDE DEF ch, x
  <2> DEFINE S0 == S \ {x}
  <2>2. S0 \in SUBSET D /\ x \in D /\ x \notin S0 /\ S0 \cup {x} = S
    BY <2>1 DEF x
  <2>3. IsFiniteSet(S0)
    BY <1>3, <2>2, FS_Subset
  <2>4. mm[x].from \in Agent /\ mm[x].state \in State
    BY <2>2 DEF AreMessages
  <2> HIDE DEF S0
  <2>5. TrackMoved(l, mm, DOMAIN ag, k, S0, D, x)
    BY <2>2, <2>3, <2>4, TrackMoves
  <2>6. track(Shown(l, mm, DOMAIN ag, k, S0, D), x, mm[x], TRUE) = Shown(l, mm, DOMAIN ag, k, S, D)
    BY <2>2, <2>5 DEF TrackMoved
  <2>7. Shown(l, mm, DOMAIN ag, k, S0, D).messages = mm
    BY DEF Shown
  <2>8. add(x, r(S0)) = r(S)
    BY <2>6, <2>7
  <2> QED BY <2>2, <2>8 DEF x, S0
<1> HIDE DEF add, bare
<1> HIDE DEF r
<1>7. \E g : eq(g)
  <2> DEFINE R == [S \in SUBSET D |-> r(S)]
             e(S) == IF S = {} THEN bare
                     ELSE add(CHOOSE x \in S : TRUE, R[S \ {CHOOSE x \in S : TRUE}])
  <2>1. \A S \in SUBSET D : R[S] = e(S)
    <3> SUFFICES ASSUME NEW S \in SUBSET D
                 PROVE  R[S] = e(S)
      OBVIOUS
    <3>1. CASE S = {}
      BY <1>4, <3>1
    <3>2. CASE S # {}
      <4>1. ch[S] = (CHOOSE x \in S : TRUE)
        BY <1>5, <3>2
      <4> HIDE DEF ch
      <4>2. R[S] = r(S) /\ R[S \ {ch[S]}] = r(S \ {ch[S]})
        BY <1>6, <3>2
      <4> HIDE DEF R
      <4>3. R[S] = add(ch[S], R[S \ {ch[S]}])
        BY <1>6, <3>2, <4>2
      <4> QED BY <3>2, <4>1, <4>3, Zenon
    <3> QED BY <3>1, <3>2
  <2>2. R = [S \in SUBSET D |-> R[S]]
    OBVIOUS
  <2> HIDE DEF e, R
  <2>3. R = [S \in SUBSET D |-> e(S)]
    BY <2>1, <2>2
  <2>4. eq(R)
    BY <2>3 DEF e
  <2> QED BY <2>4
<1>8. eq(h)
  BY <1>7
<1>9. h[{}] \in Fam[{}]
  <2>1. h[{}] = bare
    BY <1>8
  <2> QED BY <1>4, <2>1
<1>10. \A S \in SUBSET D : S # {} /\ h[S \ {ch[S]}] \in Fam[S \ {ch[S]}] => h[S] \in Fam[S]
  <2> SUFFICES ASSUME NEW S \in SUBSET D, S # {}, h[S \ {ch[S]}] \in Fam[S \ {ch[S]}]
               PROVE  h[S] \in Fam[S]
    OBVIOUS
  <2>1. ch[S] = (CHOOSE x \in S : TRUE)
    BY <1>5
  <2>2. h[S] = add(CHOOSE x \in S : TRUE, h[S \ {CHOOSE x \in S : TRUE}])
    BY <1>8
  <2> HIDE DEF h
  <2>3. h[S \ {ch[S]}] = r(S \ {ch[S]})
    BY <1>6
  <2>4. h[S] = r(S)
    <3> HIDE DEF ch
    <3> QED BY <1>6, <2>1, <2>2, <2>3
  <2> QED BY <2>4
<1>11. h[D] \in Fam[D]
  <2>1. \A S \in SUBSET D : S # {} => ch[S] \in S
    BY <1>5
  <2> HIDE DEF h, ch, Fam
  <2>2. \A S \in SUBSET D : h[S] \in Fam[S]
    BY <1>3, <1>9, <1>10, <2>1, FoldHolds
  <2> QED BY <2>2
<1> HIDE DEF h
<1> QED BY <1>2, <1>11 DEF Retracks, Built, r
-----------------------------------------------------------------------------
(***************************************************************************)
(* Sound stores: the indexes are those of the messages there are.          *)
(***************************************************************************)
Sound(s) == /\ s = Built(s.last_id, s.messages, DOMAIN s.agents, s.msg_keys)
            /\ s.last_id \in Nat
            /\ s.messages \in Maps(1 .. s.last_id, MessageType)
            /\ DOMAIN s.agents \subseteq Agent /\ IsFiniteSet(DOMAIN s.agents)
            /\ s.msg_keys \in Maps(KeyType, Nat)

\* What a key finds is a message that has it.
Keyed(mm) == {i \in DOMAIN mm : mm[i].key # None}
KeysNamed(s) ==
    \A x \in DOMAIN s.msg_keys : /\ s.msg_keys[x] \in Keyed(s.messages)
                                /\ KeyOf(s.messages[s.msg_keys[x]]) = x

\* Every message has its agent, and every key its message.
Whole(s) == /\ Sound(s) /\ KeysNamed(s)
            /\ \A i \in DOMAIN s.messages : s.messages[i].to \in DOMAIN s.agents

IsStore(s, l, mm, A, k) == /\ Sound(s) /\ s.last_id = l /\ s.messages = mm
                           /\ DOMAIN s.agents = A /\ s.msg_keys = k

\* Maps are maps, and so are those with one entry more, or some fewer.
LEMMA MapIs == \A S, T, f : f \in Maps(S, T) => IsMap(f)
  BY MapsFact DEF IsMap

PutsIn(S, T, f, x, v) == /\ Put(f, x, v) \in Maps(S, T)
                         /\ DOMAIN Put(f, x, v) = DOMAIN f \cup {x}
                         /\ Put(f, x, v)[x] = v
                         /\ \A y \in DOMAIN f : y # x => Put(f, x, v)[y] = f[y]

\* An entry put in.
LEMMA PutIs ==
    ASSUME NEW S, NEW T, NEW f \in Maps(S, T), NEW x \in S, NEW v \in T
    PROVE  PutsIn(S, T, f, x, v)
<1>1. DOMAIN f \subseteq S /\ f \in [DOMAIN f -> T]
  BY MapsFact
<1>2. /\ DOMAIN Put(f, x, v) = DOMAIN f \cup {x} /\ Put(f, x, v)[x] = v
      /\ \A y \in DOMAIN f : y # x => Put(f, x, v)[y] = f[y]
      /\ Put(f, x, v) \in [DOMAIN f \cup {x} -> T]
  BY <1>1 DEF Put
<1>3. Put(f, x, v) \in Maps(S, T)
  BY <1>1, <1>2, MapsFact
<1> QED BY <1>2, <1>3 DEF PutsIn

\* Entries left out.
LEMMA WithoutIs ==
    ASSUME NEW S, NEW T, NEW f \in Maps(S, T), NEW D
    PROVE  /\ Without(f, D) \in Maps(S, T)
           /\ DOMAIN Without(f, D) = DOMAIN f \ D
           /\ \A y \in DOMAIN f \ D : Without(f, D)[y] = f[y]
<1>1. DOMAIN f \subseteq S /\ f \in [DOMAIN f -> T]
  BY MapsFact
<1>2. /\ DOMAIN Without(f, D) = DOMAIN f \ D
      /\ \A y \in DOMAIN f \ D : Without(f, D)[y] = f[y]
      /\ Without(f, D) \in [DOMAIN f \ D -> T]
  BY <1>1 DEF Without
<1>3. Without(f, D) \in Maps(S, T)
  BY <1>1, <1>2, MapsFact
<1> QED BY <1>2, <1>3

\* Messages of the type, under numbers so far given: what the indexes ask of them.
LEMMA MessagesAre ==
    ASSUME NEW l \in Nat, NEW mm \in Maps(1 .. l, MessageType)
    PROVE  /\ AreMessages(mm) /\ DOMAIN mm \subseteq 1 .. l
           /\ \A i \in DOMAIN mm : mm[i] \in MessageType
<1>1. DOMAIN mm \subseteq 1 .. l /\ mm \in [DOMAIN mm -> MessageType]
  BY MapsFact
<1>2. IsFiniteSet(DOMAIN mm)
  <2>1. IsFiniteSet(1 .. l)
    BY FS_Interval
  <2>2. DOMAIN mm \in SUBSET (1 .. l)
    BY <1>1
  <2> QED BY <2>1, <2>2, FS_Subset
<1>3. \A i \in DOMAIN mm : mm[i] \in MessageType
  BY <1>1
<1>4. \A i \in DOMAIN mm : mm[i].from \in Agent /\ mm[i].state \in State
  BY <1>3 DEF MessageType, MessageFields
<1>5. IsMap(mm)
  BY <1>1 DEF IsMap
<1> QED BY <1>1, <1>2, <1>3, <1>4, <1>5 DEF AreMessages

\* The fields of a message.
LEMMA MessageHas ==
    ASSUME NEW m \in MessageType
    PROVE  /\ m.from \in Agent /\ m.to \in Agent /\ m.key \in Key \cup {None} /\ m.state \in State
           /\ m.deliveries \in 0 .. MaxDeliveries /\ m.expires \in Nat
           /\ m.lease \in Lease \cup {None} /\ m.settled \in Nat \cup {None}
           /\ m.state = "leased" => m.lease \in Lease
           /\ m.state \notin Pending => m.settled \in Nat
           /\ m.state = "queued" => m.deliveries < MaxDeliveries
  BY DEF MessageType, MessageFields

\* What is built from such messages is sound.
LEMMA BuiltIs ==
    ASSUME NEW l \in Nat, NEW mm \in Maps(1 .. l, MessageType), NEW A \in SUBSET Agent,
           IsFiniteSet(A), NEW k \in Maps(KeyType, Nat)
    PROVE  IsStore(Built(l, mm, A, k), l, mm, A, k)
<1> DEFINE s == Built(l, mm, A, k)
           ag == [a \in A |-> AgentOf(mm, DOMAIN mm, DOMAIN mm, a)]
<1>1. s = [last_id |-> l, messages |-> mm, agents |-> ag, msg_keys |-> k, due |-> DueOf(mm, DOMAIN mm)]
  BY DEF Built, Shown
<1>2. DOMAIN ag = A
  OBVIOUS
<1> HIDE DEF ag
<1>3. s.last_id = l /\ s.messages = mm /\ DOMAIN s.agents = A /\ s.msg_keys = k
  BY <1>1, <1>2
<1>4. s = Built(s.last_id, s.messages, DOMAIN s.agents, s.msg_keys)
  BY <1>3, Zenon
<1> HIDE DEF s
<1>5. Sound(s)
  BY <1>3, <1>4 DEF Sound
<1> QED BY <1>3, <1>5 DEF IsStore, s

\* What a sound store has.
LEMMA SoundHas ==
    ASSUME NEW s, Sound(s)
    PROVE  /\ s.agents = [a \in DOMAIN s.agents |->
                            AgentOf(s.messages, DOMAIN s.messages, DOMAIN s.messages, a)]
           /\ s.due = DueOf(s.messages, DOMAIN s.messages)
           /\ s = Record(s.last_id, s.messages, s.agents, s.msg_keys, s.due)
           /\ AreMessages(s.messages) /\ IsMap(s.msg_keys)
           /\ DOMAIN s.messages \subseteq 1 .. s.last_id
           /\ \A i \in DOMAIN s.messages : s.messages[i] \in MessageType
<1> DEFINE l == s.last_id
           mm == s.messages
           A == DOMAIN s.agents
           k == s.msg_keys
           ag == [a \in A |-> AgentOf(mm, DOMAIN mm, DOMAIN mm, a)]
           d == DueOf(mm, DOMAIN mm)
<1>1. l \in Nat /\ mm \in Maps(1 .. l, MessageType) /\ k \in Maps(KeyType, Nat) /\ s = Built(l, mm, A, k)
  BY DEF Sound
<1>2. s = [last_id |-> l, messages |-> mm, agents |-> ag, msg_keys |-> k, due |-> d]
  BY <1>1 DEF Built, Shown
<1>3. s.agents = ag /\ s.due = d
  <2> DEFINE r == [last_id |-> l, messages |-> mm, agents |-> ag, msg_keys |-> k, due |-> d]
  <2>1. r.agents = ag /\ r.due = d
    OBVIOUS
  <2> HIDE DEF l, mm, A, k, ag, d
  <2>2. s = r
    BY <1>2
  <2> HIDE DEF r
  <2> QED BY <2>1, <2>2, Zenon
<1>4. s = Record(l, mm, s.agents, k, s.due)
  <2> HIDE DEF ag, d
  <2> QED BY <1>2, <1>3, Zenon DEF Record
<1> HIDE DEF l, mm, k
<1>5. AreMessages(mm) /\ DOMAIN mm \subseteq 1 .. l /\ \A i \in DOMAIN mm : mm[i] \in MessageType
  BY <1>1, MessagesAre
<1>6. IsMap(k)
  BY <1>1, MapIs
<1> QED BY <1>3, <1>4, <1>5, <1>6 DEF l, mm, k

\* Its indexes are what building them again gives.
LEMMA RetrackSame == ASSUME NEW s, Sound(s) PROVE retrack(s) = s
<1> DEFINE l == s.last_id
           mm == s.messages
           ag == s.agents
           k == s.msg_keys
           d == s.due
<1>1. /\ s = Record(l, mm, ag, k, d) /\ AreMessages(mm)
      /\ ag = [a \in DOMAIN ag |-> AgentOf(mm, DOMAIN mm, DOMAIN mm, a)]
  BY SoundHas
<1>2. s = Built(l, mm, DOMAIN ag, k)
  BY DEF Sound
<1> HIDE DEF l, mm, ag, k, d
<1>3. \A a \in DOMAIN ag : ag[a].inbox = {i \in DOMAIN mm : mm[i].to = a}
  <2> SUFFICES ASSUME NEW a \in DOMAIN ag PROVE ag[a].inbox = {i \in DOMAIN mm : mm[i].to = a}
    OBVIOUS
  <2>1. ag[a] = AgentOf(mm, DOMAIN mm, DOMAIN mm, a)
    BY <1>1
  <2> QED BY <2>1 DEF AgentOf
<1>4. Retracks(l, mm, ag, k, d)
  BY <1>1, <1>3, RetrackIs
<1> QED BY <1>1, <1>2, <1>4 DEF Retracks
-----------------------------------------------------------------------------
(***************************************************************************)
(* The effects, on sound stores.                                           *)
(***************************************************************************)
\* Where a message becomes another, to the same agent.
LEMMA ChangeIs ==
    ASSUME NEW s, Sound(s), NEW id \in DOMAIN s.messages, NEW m \in MessageType,
           m.to = s.messages[id].to
    PROVE  IsStore(changed(s, id, m), s.last_id, Put(s.messages, id, m), DOMAIN s.agents, s.msg_keys)
<1> DEFINE l == s.last_id
           mm == s.messages
           A == DOMAIN s.agents
           k == s.msg_keys
<1>1. /\ s = Built(l, mm, A, k) /\ l \in Nat /\ mm \in Maps(1 .. l, MessageType)
      /\ A \in SUBSET Agent /\ IsFiniteSet(A) /\ k \in Maps(KeyType, Nat)
  BY DEF Sound
<1>2. AreMessages(mm) /\ DOMAIN mm \subseteq 1 .. l /\ id \in DOMAIN mm /\ m.to = mm[id].to
  BY SoundHas
<1> HIDE DEF l, mm, A, k
<1>3. mm[id].from \in Agent /\ mm[id].state \in State /\ IsFiniteSet(DOMAIN mm)
  BY <1>2 DEF AreMessages
<1>4. m.from \in Agent /\ m.state \in State
  BY MessageHas
<1>5. changed(Built(l, mm, A, k), id, m) = Built(l, Put(mm, id, m), A, k)
  BY <1>2, <1>3, <1>4, ChangedIs
<1> DEFINE nn == Put(mm, id, m)
<1>6. nn \in Maps(1 .. l, MessageType)
  BY <1>1, <1>2, PutIs DEF PutsIn
<1> HIDE DEF nn
<1>7. IsStore(Built(l, nn, A, k), l, nn, A, k)
  BY <1>1, <1>6, BuiltIs
<1>8. changed(s, id, m) = Built(l, nn, A, k)
  BY <1>1, <1>5 DEF nn
<1> QED BY <1>7, <1>8 DEF nn, l, mm, A, k

Settled(m, state, at) == [m EXCEPT !.state = state,
                                   !.settled = IF state \in Pending THEN None ELSE at]

\* A message that is settled, or goes back to the queue.
LEMMA SettledIs ==
    ASSUME NEW m \in MessageType, NEW state \in State \ {"leased"}, NEW at \in Nat,
           state = "queued" => m.deliveries < MaxDeliveries
    PROVE  /\ Settled(m, state, at) \in MessageType
           /\ Settled(m, state, at).to = m.to /\ Settled(m, state, at).from = m.from
           /\ Settled(m, state, at).key = m.key /\ Settled(m, state, at).expires = m.expires
           /\ Settled(m, state, at).lease = m.lease
           /\ Settled(m, state, at).deliveries = m.deliveries
           /\ Settled(m, state, at).state = state
<1> DEFINE v == IF state \in Pending THEN None ELSE at
           n == Settled(m, state, at)
<1>1. v \in Nat \cup {None} /\ (state \notin Pending => v \in Nat)
  OBVIOUS
<1> HIDE DEF v
<1>2. m \in MessageFields
  BY DEF MessageType
<1>3. n = [m EXCEPT !.state = state, !.settled = v]
  BY DEF Settled, v
<1>4. n \in MessageFields /\ n.to = m.to /\ n.from = m.from /\ n.key = m.key /\ n.expires = m.expires
      /\ n.lease = m.lease /\ n.deliveries = m.deliveries /\ n.state = state /\ n.settled = v
  BY <1>1, <1>2, <1>3 DEF MessageFields
<1> HIDE DEF n
<1>5. n \in MessageType
  BY <1>1, <1>4 DEF MessageType
<1> QED BY <1>4, <1>5 DEF n

SettlesTo(s, id, state, at) ==
    IsStore(apply_settle(s, id, state, at), s.last_id,
            Put(s.messages, id, Settled(s.messages[id], state, at)), DOMAIN s.agents, s.msg_keys)

\* Store::apply of a settlement.
LEMMA SettleIs ==
    ASSUME NEW s, Sound(s), NEW id \in DOMAIN s.messages, NEW state \in State \ {"leased"},
           NEW at \in Nat, state = "queued" => s.messages[id].deliveries < MaxDeliveries
    PROVE  SettlesTo(s, id, state, at)
<1> DEFINE m == s.messages[id]
           n == Settled(m, state, at)
<1>1. m \in MessageType
  BY SoundHas
<1>2. n \in MessageType /\ n.to = m.to
  BY <1>1, SettledIs
<1>3. apply_settle(s, id, state, at) = changed(s, id, n)
  BY DEF apply_settle, Settled
<1> HIDE DEF n
<1>4. IsStore(changed(s, id, n), s.last_id, Put(s.messages, id, n), DOMAIN s.agents, s.msg_keys)
  BY <1>2, ChangeIs
<1> QED BY <1>3, <1>4 DEF SettlesTo, n

Leased(m, consumer, until) ==
    [m EXCEPT !.state = "leased", !.deliveries = @ + 1, !.settled = None,
              !.lease = [consumer |-> consumer, token |-> m.deliveries + 1, until |-> until]]

\* A message that is leased from the queue.
LEMMA LeasedIs ==
    ASSUME NEW m \in MessageType, m.state = "queued", NEW c \in Consumer, NEW until \in Nat
    PROVE  LET n == Leased(m, c, until)
           IN  /\ n \in MessageType
               /\ n.to = m.to /\ n.from = m.from /\ n.key = m.key /\ n.expires = m.expires
               /\ n.deliveries = m.deliveries + 1 /\ n.state = "leased"
<1> DEFINE n == Leased(m, c, until)
           d == m.deliveries + 1
           e == [consumer |-> c, token |-> d, until |-> until]
<1>1. m \in MessageFields /\ m.deliveries < MaxDeliveries /\ MaxDeliveries \in Nat
  BY LimitsAssumption DEF MessageType
<1>2. m.deliveries \in 0 .. MaxDeliveries
  BY <1>1 DEF MessageFields
<1>3. d \in 1 .. MaxDeliveries /\ d \in 0 .. MaxDeliveries
  BY <1>1, <1>2
<1> DEFINE n1 == [m EXCEPT !.state = "leased", !.deliveries = d, !.settled = None, !.lease = e]
<1>4. n = n1
  BY Zenon DEF Leased
<1> HIDE DEF d
<1>5. e \in Lease
  BY <1>3 DEF Lease
<1> HIDE DEF e
<1>6. "leased" \in State
  BY DEF State, Pending
<1>7. n1 \in MessageFields /\ n1.to = m.to /\ n1.from = m.from /\ n1.key = m.key /\ n1.expires = m.expires
      /\ n1.lease = e /\ n1.deliveries = d /\ n1.state = "leased"
  <2> HIDE DEF State
  <2> QED BY <1>1, <1>3, <1>5, <1>6 DEF MessageFields
<1> HIDE DEF n1, n
<1>8. n1 \in MessageType
  BY <1>5, <1>7 DEF MessageType, Pending
<1> QED BY <1>4, <1>7, <1>8 DEF n, d

LeasesTo(s, id, c, until) ==
    IsStore(apply_lease(s, id, c, until), s.last_id,
            Put(s.messages, id, Leased(s.messages[id], c, until)), DOMAIN s.agents, s.msg_keys)

\* Store::apply of a lease.
LEMMA LeaseIs ==
    ASSUME NEW s, Sound(s), NEW id \in DOMAIN s.messages, s.messages[id].state = "queued",
           NEW c \in Consumer, NEW until \in Nat
    PROVE  LeasesTo(s, id, c, until)
<1> DEFINE m == s.messages[id]
           n == Leased(m, c, until)
<1>1. m \in MessageType
  BY SoundHas
<1>2. n \in MessageType /\ n.to = m.to
  BY <1>1, LeasedIs
<1>3. apply_lease(s, id, c, until) = changed(s, id, n)
  BY DEF apply_lease, Leased
<1> HIDE DEF n
<1>4. IsStore(changed(s, id, n), s.last_id, Put(s.messages, id, n), DOMAIN s.agents, s.msg_keys)
  BY <1>2, ChangeIs
<1> QED BY <1>3, <1>4 DEF LeasesTo, n

DropsTo(s, S) == IsStore(apply_drop(s, S), s.last_id, Without(s.messages, S), DOMAIN s.agents,
                         Without(s.msg_keys, KeysOf(s.messages, S)))

\* Store::apply of a drop.
LEMMA DroppedIs ==
    ASSUME NEW s, Sound(s), NEW S \in SUBSET DOMAIN s.messages
    PROVE  DropsTo(s, S)
<1> DEFINE l == s.last_id
           mm == s.messages
           A == DOMAIN s.agents
           k == s.msg_keys
<1>1. /\ s = Built(l, mm, A, k) /\ l \in Nat /\ mm \in Maps(1 .. l, MessageType)
      /\ A \in SUBSET Agent /\ IsFiniteSet(A) /\ k \in Maps(KeyType, Nat)
  BY DEF Sound
<1>2. AreMessages(mm) /\ IsMap(k) /\ S \in SUBSET DOMAIN mm
  BY SoundHas
<1> HIDE DEF l, mm, A, k
<1>3. Drops(l, mm, A, k, S)
  BY <1>2, DropIs
<1> DEFINE nn == Without(mm, S)
           k2 == Without(k, KeysOf(mm, S))
<1>4. nn \in Maps(1 .. l, MessageType) /\ k2 \in Maps(KeyType, Nat)
  BY <1>1, WithoutIs
<1>5. apply_drop(s, S) = Built(l, nn, A, k2)
  BY <1>1, <1>3 DEF Drops, Dropped
<1> HIDE DEF nn, k2
<1>6. IsStore(Built(l, nn, A, k2), l, nn, A, k2)
  BY <1>1, <1>4, BuiltIs
<1> QED BY <1>5, <1>6 DEF DropsTo, nn, k2, l, mm, A, k

ForgetsTo(s, a) ==
    LET to == {i \in DOMAIN s.messages : s.messages[i].to = a}
    IN  IsStore(apply_forget(s, a), s.last_id, Without(s.messages, to), DOMAIN s.agents \ {a},
                Without(s.msg_keys, KeysOf(s.messages, to)))

\* Store::apply of a forgetting: the agent goes, with the messages to it.
LEMMA ForgetIs ==
    ASSUME NEW s, Sound(s), NEW a \in DOMAIN s.agents
    PROVE  ForgetsTo(s, a)
<1> DEFINE l == s.last_id
           mm == s.messages
           A == DOMAIN s.agents
           k == s.msg_keys
           B == A \ {a}
           to == {i \in DOMAIN mm : mm[i].to = a}
           ag == [b \in A |-> AgentOf(mm, DOMAIN mm, DOMAIN mm, b)]
           bg == [b \in B |-> AgentOf(mm, DOMAIN mm, DOMAIN mm, b)]
           d == DueOf(mm, DOMAIN mm)
           t == [s EXCEPT !.agents = Without(@, {a})]
<1>1. /\ s = Built(l, mm, A, k) /\ l \in Nat /\ mm \in Maps(1 .. l, MessageType)
      /\ A \in SUBSET Agent /\ IsFiniteSet(A) /\ k \in Maps(KeyType, Nat)
  BY DEF Sound
<1>2. s.agents = ag
  BY SoundHas
<1>3. s = [last_id |-> l, messages |-> mm, agents |-> ag, msg_keys |-> k, due |-> d]
  BY <1>1 DEF Built, Shown
<1>4. ag[a].inbox = to
  BY DEF AgentOf
<1>5. Without(ag, {a}) = bg
  BY DEF Without
<1>6. Built(l, mm, B, k) = [last_id |-> l, messages |-> mm, agents |-> bg, msg_keys |-> k, due |-> d]
  BY DEF Built, Shown
<1>7. IsFiniteSet(B) /\ B \in SUBSET Agent
  BY <1>1, FS_Subset
<1>8. apply_forget(s, a) = apply_drop(t, to)
  <2> HIDE DEF ag, to
  <2> QED BY <1>2, <1>4 DEF apply_forget
<1> HIDE DEF l, mm, A, k, ag, bg, d, B
<1>9. t = [last_id |-> l, messages |-> mm, agents |-> bg, msg_keys |-> k, due |-> d]
  <2>1. t = [s EXCEPT !.agents = bg]
    BY <1>2, <1>5, Zenon
  <2> HIDE DEF t
  <2> QED BY <1>3, <2>1
<1> HIDE DEF t
<1>10. t = Built(l, mm, B, k)
  BY <1>6, <1>9
<1>11. IsStore(t, l, mm, B, k)
  BY <1>1, <1>7, <1>10, BuiltIs
<1>12. Sound(t) /\ to \in SUBSET DOMAIN t.messages /\ t.messages = mm /\ t.last_id = l
       /\ DOMAIN t.agents = B /\ t.msg_keys = k
  BY <1>11 DEF IsStore
<1> HIDE DEF to
<1>13. DropsTo(t, to)
  BY <1>12, DroppedIs
<1>14. IsStore(apply_drop(t, to), l, Without(mm, to), B, Without(k, KeysOf(mm, to)))
  BY <1>12, <1>13 DEF DropsTo
<1> QED BY <1>8, <1>14 DEF ForgetsTo, l, mm, A, k, B, to

\* An agent no message is to has what a new one has.
LEMMA NewAgentIs ==
    ASSUME NEW mm, NEW a, \A i \in DOMAIN mm : mm[i].to # a
    PROVE  AgentOf(mm, DOMAIN mm, DOMAIN mm, a) = NewAgent
<1> DEFINE D == DOMAIN mm
<1>1. \A X : Those(mm, D, a, X) = {}
  BY DEF Those
<1>2. \A b : Sent(mm, D, a, b) = {}
  BY <1>1 DEF Sent
<1>3. Cardinality({}) = 0
  BY FS_EmptySet
<1>4. CountsOf(mm, D, a) = NoCounts /\ SendersOf(mm, D, a) = [b \in Agent |-> 0]
  BY <1>1, <1>2, <1>3 DEF CountsOf, SendersOf, NoCounts
<1>5. {i \in D : mm[i].to = a} = {}
  OBVIOUS
<1> DEFINE no == [b \in Agent |-> 0]
           box == {i \in D : mm[i].to = a}
           z == {}
<1>6. AgentOf(mm, D, D, a) = [inbox |-> box, queued |-> z, settled |-> z, counts |-> NoCounts,
                              senders |-> no]
  BY <1>1, <1>4 DEF AgentOf
<1>7. NewAgent = [inbox |-> z, queued |-> z, settled |-> z, counts |-> NoCounts, senders |-> no]
  BY DEF NewAgent
<1>8. box = z
  BY <1>5
<1> HIDE DEF D, no, box, z
<1> QED BY <1>6, <1>7, <1>8 DEF D

AgentsTo(s, a) == IsStore(apply_agent(s, a), s.last_id, s.messages, DOMAIN s.agents \cup {a}, s.msg_keys)

\* Store::apply of an agent.
LEMMA AgentIs ==
    ASSUME NEW s, Whole(s), NEW a \in Agent
    PROVE  AgentsTo(s, a)
<1> DEFINE l == s.last_id
           mm == s.messages
           A == DOMAIN s.agents
           k == s.msg_keys
           B == A \cup {a}
           ag == [b \in A |-> AgentOf(mm, DOMAIN mm, DOMAIN mm, b)]
           bg == [b \in B |-> AgentOf(mm, DOMAIN mm, DOMAIN mm, b)]
           d == DueOf(mm, DOMAIN mm)
<1>1. /\ s = Built(l, mm, A, k) /\ l \in Nat /\ mm \in Maps(1 .. l, MessageType)
      /\ A \in SUBSET Agent /\ IsFiniteSet(A) /\ k \in Maps(KeyType, Nat)
  BY DEF Sound, Whole
<1>2. s.agents = ag
  BY SoundHas DEF Whole
<1>3. s = [last_id |-> l, messages |-> mm, agents |-> ag, msg_keys |-> k, due |-> d]
  BY <1>1 DEF Built, Shown
<1>4. CASE a \in A
  <2>1. apply_agent(s, a) = s /\ B = A
    BY <1>4 DEF apply_agent
  <2>2. IsStore(s, l, mm, A, k)
    BY DEF IsStore, Whole
  <2> QED BY <2>1, <2>2 DEF AgentsTo
<1>5. CASE a \notin A
  <2>1. AgentOf(mm, DOMAIN mm, DOMAIN mm, a) = NewAgent
    BY <1>5, NewAgentIs DEF Whole
  <2>2. Put(ag, a, NewAgent) = bg
    BY <2>1 DEF Put
  <2>3. apply_agent(s, a) = [s EXCEPT !.agents = Put(@, a, NewAgent)]
    BY <1>5 DEF apply_agent
  <2>4. Built(l, mm, B, k) = [last_id |-> l, messages |-> mm, agents |-> bg, msg_keys |-> k, due |-> d]
    BY DEF Built, Shown
  <2>5. IsFiniteSet(B) /\ B \in SUBSET Agent
    BY <1>1, FS_AddElement
  <2> HIDE DEF l, mm, A, k, ag, bg, d, B
  <2> DEFINE t == [s EXCEPT !.agents = bg]
  <2>6. apply_agent(s, a) = t
    BY <1>2, <2>2, <2>3, Zenon
  <2>7. t = [last_id |-> l, messages |-> mm, agents |-> bg, msg_keys |-> k, due |-> d]
    BY <1>3
  <2> HIDE DEF t
  <2>8. IsStore(Built(l, mm, B, k), l, mm, B, k)
    BY <1>1, <2>5, BuiltIs
  <2> QED BY <2>4, <2>6, <2>7, <2>8 DEF AgentsTo, l, mm, A, k, B
<1> QED BY <1>4, <1>5

MessageTo(s, id, m) ==
    IsStore(apply_message(s, id, m), id, Put(s.messages, id, m), DOMAIN s.agents,
            IF m.key = None THEN s.msg_keys ELSE Put(s.msg_keys, KeyOf(m), id))

\* Store::apply of a message.
LEMMA MessageIs ==
    ASSUME NEW s, Sound(s), NEW id, id = s.last_id + 1, NEW m \in MessageType, m.to \in DOMAIN s.agents
    PROVE  MessageTo(s, id, m)
<1> DEFINE l == s.last_id
           mm == s.messages
           A == DOMAIN s.agents
           k == s.msg_keys
           D == DOMAIN mm
           E == D \cup {id}
           nn == Put(mm, id, m)
           k2 == IF m.key = None THEN k ELSE Put(k, KeyOf(m), id)
           ag == [b \in A |-> AgentOf(mm, D, D, b)]
           bg == [b \in A |-> AgentOf(nn, D, E, b)]
           d == DueOf(mm, D)
           to == [s.agents[m.to] EXCEPT !.inbox = @ \cup {id}]
<1>1. /\ s = Built(l, mm, A, k) /\ l \in Nat /\ mm \in Maps(1 .. l, MessageType)
      /\ A \in SUBSET Agent /\ IsFiniteSet(A) /\ k \in Maps(KeyType, Nat)
  BY DEF Sound
<1>2. s.agents = ag
  BY SoundHas
<1>3. s = [last_id |-> l, messages |-> mm, agents |-> ag, msg_keys |-> k, due |-> d]
  BY <1>1 DEF Built, Shown
<1>4. D \subseteq 1 .. l /\ IsFiniteSet(D) /\ id \in Nat /\ id \notin D
  BY <1>1, MessagesAre DEF AreMessages
<1>5. mm \in Maps(1 .. id, MessageType)
  <2> HIDE DEF mm
  <2> QED BY <1>1, <1>4, MapsFact
<1>6. nn \in Maps(1 .. id, MessageType) /\ DOMAIN nn = E /\ nn[id] = m /\ \A i \in D : nn[i] = mm[i]
  <2>1. id \in 1 .. id
    <3>1. id \in Nat /\ id >= 1
      <4> HIDE DEF l
      <4> QED BY <1>1 DEF l
    <3> QED BY <3>1
  <2> DEFINE S == 1 .. id
  <2>2. mm \in Maps(S, MessageType) /\ id \in S
    BY <1>5, <2>1
  <2> HIDE DEF mm, S
  <2>3. /\ nn \in Maps(S, MessageType)
        /\ DOMAIN nn = DOMAIN mm \cup {id}
        /\ nn[id] = m
        /\ \A i \in DOMAIN mm : i # id => nn[i] = mm[i]
    <3>1. PutsIn(S, MessageType, mm, id, m)
      BY <2>2, PutIs
    <3> QED BY <3>1 DEF PutsIn
  <2> QED BY <1>4, <2>3 DEF S
<1>7. k2 \in Maps(KeyType, Nat)
  <2>1. m.key # None => KeyOf(m) \in KeyType
    BY MessageHas DEF KeyOf, KeyType
  <2> QED BY <1>1, <1>4, <2>1, PutIs DEF PutsIn
<1>8. ASSUME NEW b \in A
      PROVE  bg[b] = IF b = m.to THEN [ag[b] EXCEPT !.inbox = @ \cup {id}] ELSE ag[b]
  <2> DEFINE p == AgentOf(nn, D, E, b)
             q == AgentOf(mm, D, D, b)
             w == Those(mm, D, b, {"queued"})
             z == Those(mm, D, b, State \ Pending)
             c == CountsOf(mm, D, b)
             n == SendersOf(mm, D, b)
             x == {i \in E : nn[i].to = b}
             y == {i \in D : mm[i].to = b}
  <2>1. AgentOf(nn, D, D, b) = q
    <3> HIDE DEF nn, D
    <3>1. \A i \in D : mm[i] = nn[i]
      BY <1>6
    <3> QED BY <3>1, SameShown
  <2>2. p = [AgentOf(nn, D, D, b) EXCEPT !.inbox = x]
    <3> DEFINE box == {i \in D : nn[i].to = b}
               w2 == Those(nn, D, b, {"queued"})
               z2 == Those(nn, D, b, State \ Pending)
               c2 == CountsOf(nn, D, b)
               n2 == SendersOf(nn, D, b)
    <3>1. p = [inbox |-> x, queued |-> w2, settled |-> z2, counts |-> c2, senders |-> n2]
      BY DEF AgentOf
    <3>2. AgentOf(nn, D, D, b) = [inbox |-> box, queued |-> w2, settled |-> z2, counts |-> c2, senders |-> n2]
      BY DEF AgentOf
    <3> HIDE DEF p, x, box, w2, z2, c2, n2, nn
    <3> QED BY <3>1, <3>2
  <2>3. q = [inbox |-> y, queued |-> w, settled |-> z, counts |-> c, senders |-> n]
    BY DEF AgentOf
  <2>4. x = IF b = m.to THEN y \cup {id} ELSE y
    <3> HIDE DEF nn, E, D
    <3> QED BY <1>4, <1>6 DEF E
  <2>5. bg[b] = p /\ ag[b] = q
    OBVIOUS
  <2> HIDE DEF p, q, w, z, c, n, x, y, ag, bg
  <2>6. q.inbox = y /\ [q EXCEPT !.inbox = y] = q
    BY <2>3
  <2>7. CASE b = m.to
    <3>1. p = [q EXCEPT !.inbox = y \cup {id}]
      BY <2>1, <2>2, <2>4, <2>7, Zenon
    <3> QED BY <2>5, <2>6, <2>7, <3>1, Zenon
  <2>8. CASE b # m.to
    <3>1. p = [q EXCEPT !.inbox = y]
      BY <2>1, <2>2, <2>4, <2>8, Zenon
    <3> QED BY <2>5, <2>6, <2>8, <3>1, Zenon
  <2> QED BY <2>7, <2>8
<1>9. Put(s.agents, m.to, to) = bg
  <2>1. bg = [b \in A |-> bg[b]] /\ A = DOMAIN s.agents \cup {m.to}
    OBVIOUS
  <2>2. s.agents[m.to] = ag[m.to]
    BY <1>2
  <2>3. \A b \in A : bg[b] = IF b = m.to THEN to ELSE s.agents[b]
    <3> SUFFICES ASSUME NEW b \in A PROVE bg[b] = IF b = m.to THEN to ELSE s.agents[b]
      OBVIOUS
    <3> HIDE DEF bg, ag
    <3>1. b = m.to => bg[b] = to
      BY <1>8, <2>2, Zenon
    <3>2. b # m.to => bg[b] = s.agents[b]
      BY <1>2, <1>8, Zenon
    <3> QED BY <3>1, <3>2
  <2> HIDE DEF bg, to
  <2> QED BY <2>1, <2>3 DEF Put
<1>10. d = DueOf(nn, D)
  <2> HIDE DEF nn, D
  <2>1. \A i \in D : mm[i] = nn[i]
    BY <1>6
  <2> QED BY <2>1, SameShown
<1>11. Shown(id, nn, A, k2, D, E) =
          [last_id |-> id, messages |-> nn, agents |-> bg, msg_keys |-> k2, due |-> DueOf(nn, D)]
  BY DEF Shown
<1> DEFINE filed == [s EXCEPT !.last_id = id, !.agents = Put(@, m.to, to), !.messages = Put(@, id, m),
                              !.msg_keys = IF m.key = None THEN @ ELSE Put(@, <<m.to, m.from, m.key>>, id)]
           filed2 == [s EXCEPT !.last_id = id, !.agents = bg, !.messages = nn, !.msg_keys = k2]
<1>12. apply_message(s, id, m) = track(filed, id, m, TRUE)
  BY DEF apply_message, apply_agent
<1>13. filed = filed2
  <2> HIDE DEF bg, to
  <2> QED BY <1>9, Zenon DEF KeyOf
<1> HIDE DEF bg, ag, d, filed, nn, k2, E, D
<1>14. filed2 = [last_id |-> id, messages |-> nn, agents |-> bg, msg_keys |-> k2, due |-> d]
  <2> HIDE DEF l, mm, A, k
  <2> DEFINE s1 == [s EXCEPT !.last_id = id]
             s2 == [s1 EXCEPT !.agents = bg]
             s3 == [s2 EXCEPT !.messages = nn]
  <2>1. s1 = [last_id |-> id, messages |-> mm, agents |-> ag, msg_keys |-> k, due |-> d]
    BY <1>3
  <2>2. filed2 = [s3 EXCEPT !.msg_keys = k2]
    BY Zenon DEF filed2
  <2> HIDE DEF s1
  <2>3. s2 = [last_id |-> id, messages |-> mm, agents |-> bg, msg_keys |-> k, due |-> d]
    BY <2>1
  <2> HIDE DEF s2
  <2>4. s3 = [last_id |-> id, messages |-> nn, agents |-> bg, msg_keys |-> k, due |-> d]
    BY <2>3
  <2> HIDE DEF s3
  <2> QED BY <2>2, <2>4
<1> HIDE DEF filed2
<1>15. filed = Shown(id, nn, A, k2, D, E)
  BY <1>10, <1>11, <1>13, <1>14
<1>16. track(filed, id, nn[id], TRUE) = Shown(id, nn, A, k2, E, E)
  <2>1. nn[id].from \in Agent /\ nn[id].state \in State
    BY <1>6, MessageHas
  <2>2. TrackMoved(id, nn, A, k2, D, E, id)
    BY <1>4, <2>1, TrackMoves
  <2> QED BY <1>15, <2>2 DEF TrackMoved, E
<1>17. apply_message(s, id, m) = Built(id, nn, A, k2)
  BY <1>6, <1>12, <1>16 DEF Built
<1> HIDE DEF mm, l, A, k
<1>18. IsStore(Built(id, nn, A, k2), id, nn, A, k2)
  BY <1>1, <1>4, <1>6, <1>7, BuiltIs
<1> QED BY <1>17, <1>18 DEF MessageTo, nn, k2, A, mm, k
-----------------------------------------------------------------------------
(***************************************************************************)
(* What is built again at a start, and at a rename.                        *)
(***************************************************************************)
KeysAgain(mm) == [x \in {KeyOf(mm[i]) : i \in Keyed(mm)} |-> Max({i \in Keyed(mm) : KeyOf(mm[i]) = x})]

\* Of the messages under a key, one has it again.
LEMMA KeysAgainIs ==
    ASSUME NEW l \in Nat, NEW mm \in Maps(1 .. l, MessageType)
    PROVE  /\ KeysAgain(mm) \in Maps(KeyType, Nat)
           /\ DOMAIN KeysAgain(mm) = {KeyOf(mm[i]) : i \in Keyed(mm)}
           /\ \A x \in DOMAIN KeysAgain(mm) :
                 KeysAgain(mm)[x] \in {i \in Keyed(mm) : KeyOf(mm[i]) = x}
<1> DEFINE K == {KeyOf(mm[i]) : i \in Keyed(mm)}
           at(x) == {i \in Keyed(mm) : KeyOf(mm[i]) = x}
<1>1. /\ AreMessages(mm) /\ DOMAIN mm \subseteq 1 .. l
      /\ \A i \in DOMAIN mm : mm[i] \in MessageType
  BY MessagesAre
<1>2. ASSUME NEW i \in Keyed(mm)
      PROVE  KeyOf(mm[i]) \in KeyType
  <2>1. mm[i] \in MessageType /\ mm[i].key # None
    BY <1>1 DEF Keyed
  <2>2. mm[i].to \in Agent /\ mm[i].from \in Agent /\ mm[i].key \in Key
    BY <2>1, MessageHas
  <2> QED BY <2>2 DEF KeyOf, KeyType
<1>3. ASSUME NEW x \in K
      PROVE  Max(at(x)) \in at(x) /\ Max(at(x)) \in Nat
  <2>1. at(x) # {} /\ at(x) \in SUBSET Nat /\ at(x) \in SUBSET DOMAIN mm /\ IsFiniteSet(DOMAIN mm)
    BY <1>1 DEF Keyed, AreMessages
  <2> HIDE DEF at
  <2>2. IsFiniteSet(at(x))
    BY <2>1, FS_Subset
  <2>3. Max(at(x)) \in at(x)
    BY <2>1, <2>2, GreatestOfFinite
  <2> QED BY <2>1, <2>3
<1>4. KeysAgain(mm) = [x \in K |-> Max(at(x))]
  BY DEF KeysAgain
<1>5. K \subseteq KeyType
  BY <1>2
<1> HIDE DEF at, K
<1>6. KeysAgain(mm) \in [K -> Nat] /\ DOMAIN KeysAgain(mm) = K /\ \A x \in K : KeysAgain(mm)[x] \in at(x)
  BY <1>3, <1>4
<1>7. KeysAgain(mm) \in Maps(KeyType, Nat)
  BY <1>5, <1>6, MapsFact
<1> QED BY <1>6, <1>7 DEF at, K

RestartsTo(s) == IsStore(retrack(reindex(s)), s.last_id, s.messages, DOMAIN s.agents, KeysAgain(s.messages))

\* A store read back.
LEMMA RestartIs ==
    ASSUME NEW s, Sound(s)
    PROVE  RestartsTo(s)
<1> DEFINE l == s.last_id
           mm == s.messages
           ag == s.agents
           A == DOMAIN ag
           k == s.msg_keys
           k2 == KeysAgain(mm)
           d == s.due
<1>1. /\ s = Record(l, mm, ag, k, d) /\ AreMessages(mm)
      /\ ag = [a \in DOMAIN ag |-> AgentOf(mm, DOMAIN mm, DOMAIN mm, a)]
  BY SoundHas
<1>2. l \in Nat /\ mm \in Maps(1 .. l, MessageType) /\ A \in SUBSET Agent /\ IsFiniteSet(A)
  BY DEF Sound
<1>3. reindex(s) = [s EXCEPT !.msg_keys = k2]
  BY DEF reindex, KeysAgain, Keyed, KeyOf
<1> HIDE DEF l, mm, ag, k, d
<1>4. k2 \in Maps(KeyType, Nat)
  BY <1>2, KeysAgainIs
<1> HIDE DEF k2
<1>5. reindex(s) = Record(l, mm, ag, k2, d)
  BY <1>1, <1>3 DEF Record
<1>6. \A a \in DOMAIN ag : ag[a].inbox = {i \in DOMAIN mm : mm[i].to = a}
  <2> SUFFICES ASSUME NEW a \in DOMAIN ag PROVE ag[a].inbox = {i \in DOMAIN mm : mm[i].to = a}
    OBVIOUS
  <2>1. ag[a] = AgentOf(mm, DOMAIN mm, DOMAIN mm, a)
    BY <1>1
  <2> QED BY <2>1 DEF AgentOf
<1>7. Retracks(l, mm, ag, k2, d)
  BY <1>1, <1>6, RetrackIs
<1>8. IsStore(Built(l, mm, A, k2), l, mm, A, k2)
  <2> HIDE DEF A
  <2> QED BY <1>2, <1>4, BuiltIs
<1> QED BY <1>5, <1>7, <1>8 DEF Retracks, RestartsTo, l, mm, ag, k2

Named(from, to, a) == IF a = from THEN to ELSE a
RenamedOf(m, from, to) == [m EXCEPT !.to = Named(from, to, @), !.from = Named(from, to, @)]
Renamed(mm, from, to) == [i \in DOMAIN mm |-> RenamedOf(mm[i], from, to)]

\* A message of an agent with another name.
LEMMA RenamedOfIs ==
    ASSUME NEW m \in MessageType, NEW from, NEW to \in Agent
    PROVE  LET n == RenamedOf(m, from, to)
           IN  /\ n \in MessageType
               /\ n.to = Named(from, to, m.to) /\ n.from = Named(from, to, m.from)
               /\ n.key = m.key /\ n.expires = m.expires /\ n.state = m.state /\ n.lease = m.lease
               /\ n.deliveries = m.deliveries
<1> DEFINE n == RenamedOf(m, from, to)
           t == Named(from, to, m.to)
           f == Named(from, to, m.from)
           m1 == [m EXCEPT !.to = t]
<1>1. m \in MessageFields
  BY DEF MessageType
<1>2. t \in Agent /\ f \in Agent
  BY <1>1 DEF Named, MessageFields
<1>3. n = [m EXCEPT !.to = t, !.from = f]
  BY Zenon DEF RenamedOf
<1> HIDE DEF t, f
<1>4. /\ n \in MessageFields /\ n.to = t /\ n.from = f /\ n.key = m.key /\ n.expires = m.expires
      /\ n.state = m.state /\ n.lease = m.lease /\ n.deliveries = m.deliveries
      /\ n.settled = m.settled
  BY <1>1, <1>2, <1>3 DEF MessageFields
<1> HIDE DEF n
<1>5. n \in MessageType
  BY <1>4 DEF MessageType
<1> QED BY <1>4, <1>5 DEF n, t, f

RenamesTo(s, from, to) ==
    IsStore(apply_rename(s, from, to), s.last_id, Renamed(s.messages, from, to),
            (DOMAIN s.agents \ {from}) \cup {to}, KeysAgain(Renamed(s.messages, from, to)))

\* Store::rename, to a name that is free.
LEMMA RenameIs ==
    ASSUME NEW s, Whole(s), NEW from \in DOMAIN s.agents, NEW to \in Agent, to \notin DOMAIN s.agents
    PROVE  RenamesTo(s, from, to)
<1> DEFINE l == s.last_id
           mm == s.messages
           ag == s.agents
           A == DOMAIN ag
           k == s.msg_keys
           d == s.due
           nn == Renamed(mm, from, to)
           k2 == KeysAgain(nn)
           B == (A \ {from}) \cup {to}
           box == ag[from].inbox
           named == [ag[from] EXCEPT !.inbox = box]
           bg == Put(Without(ag, {from}), to, named)
<1>1. /\ s = Record(l, mm, ag, k, d) /\ AreMessages(mm)
      /\ ag = [a \in DOMAIN ag |-> AgentOf(mm, DOMAIN mm, DOMAIN mm, a)]
      /\ \A i \in DOMAIN mm : mm[i] \in MessageType /\ mm[i].to \in A
  BY SoundHas DEF Whole
<1>2. l \in Nat /\ mm \in Maps(1 .. l, MessageType) /\ A \in SUBSET Agent /\ IsFiniteSet(A)
  BY DEF Sound, Whole
<1>3. DOMAIN nn = DOMAIN mm /\ \A i \in DOMAIN mm : nn[i] = RenamedOf(mm[i], from, to)
  BY DEF Renamed
<1> HIDE DEF nn
<1>4. ASSUME NEW i \in DOMAIN mm
      PROVE  nn[i] \in MessageType /\ nn[i].to = Named(from, to, mm[i].to)
  <2>1. mm[i] \in MessageType
    BY <1>1
  <2> QED BY <1>3, <2>1, RenamedOfIs
<1>5. nn \in Maps(1 .. l, MessageType)
  <2>1. IsMap(nn)
    BY DEF nn, Renamed, IsMap
  <2>2. DOMAIN mm \subseteq 1 .. l
    BY <1>2, MessagesAre
  <2> HIDE DEF mm
  <2>3. nn \in [DOMAIN nn -> MessageType]
    BY <1>3, <1>4, <2>1 DEF IsMap
  <2> QED BY <1>3, <2>2, <2>3, MapsFact
<1>6. AreMessages(nn) /\ k2 \in Maps(KeyType, Nat)
  <2> HIDE DEF l
  <2> QED BY <1>2, <1>5, MessagesAre, KeysAgainIs
<1> DEFINE f(a) == IF a = from THEN to ELSE a
           renamed(m) == [m EXCEPT !.to = f(@), !.from = f(@)]
           inbox == ag[from].inbox \cup (IF to \in DOMAIN ag THEN ag[to].inbox ELSE {})
           moved == [s EXCEPT
                       !.agents = Put(Without(@, {from}), to, [@[from] EXCEPT !.inbox = inbox]),
                       !.messages = [i \in DOMAIN @ |-> renamed(@[i])]]
<1>7. apply_rename(s, from, to) = retrack(reindex(moved))
  BY Zenon DEF apply_rename
<1>8. moved = [s EXCEPT !.agents = bg, !.messages = nn]
  <2>1. inbox = box
    OBVIOUS
  <2>2. [i \in DOMAIN mm |-> renamed(mm[i])] = nn
    BY Zenon DEF nn, Renamed, RenamedOf, Named
  <2> HIDE DEF inbox, renamed, box
  <2>3. moved = [s EXCEPT !.agents = Put(Without(ag, {from}), to, [ag[from] EXCEPT !.inbox = box]),
                          !.messages = [i \in DOMAIN mm |-> renamed(mm[i])]]
    BY <2>1, Zenon
  <2> QED BY <2>2, <2>3, Zenon
<1> HIDE DEF moved
<1>9. moved = Record(l, nn, bg, k, d)
  <2> HIDE DEF bg, l, mm, ag, k, d
  <2> DEFINE s1 == [s EXCEPT !.agents = bg]
  <2>1. s1 = Record(l, mm, bg, k, d)
    BY <1>1 DEF Record
  <2>2. moved = [s1 EXCEPT !.messages = nn]
    BY <1>8, Zenon
  <2> HIDE DEF s1
  <2> QED BY <2>1, <2>2 DEF Record
<1>10. reindex(moved) = Record(l, nn, bg, k2, d)
  <2>1. moved.messages = nn
    <3> HIDE DEF bg, l, ag, k, d
    <3> QED BY <1>9 DEF Record
  <2> HIDE DEF bg, l, ag, k, d
  <2>2. reindex(moved) = [moved EXCEPT !.msg_keys = k2]
    BY <2>1 DEF reindex, KeysAgain, Keyed, KeyOf
  <2> HIDE DEF k2
  <2> QED BY <1>9, <2>2 DEF Record
<1>11. DOMAIN bg = B /\ bg[to] = named /\ \A a \in A \ {from} : bg[a] = ag[a]
  <2> HIDE DEF ag, named
  <2> QED BY DEF Put, Without, ag
<1>12. \A a \in DOMAIN bg : bg[a].inbox = {i \in DOMAIN nn : nn[i].to = a}
  <2> SUFFICES ASSUME NEW a \in B PROVE bg[a].inbox = {i \in DOMAIN nn : nn[i].to = a}
    BY <1>11
  <2>1. \A b \in A : ag[b].inbox = {i \in DOMAIN mm : mm[i].to = b}
    <3> SUFFICES ASSUME NEW b \in A PROVE ag[b].inbox = {i \in DOMAIN mm : mm[i].to = b}
      OBVIOUS
    <3>1. ag[b] = AgentOf(mm, DOMAIN mm, DOMAIN mm, b)
      BY <1>1
    <3> QED BY <3>1 DEF AgentOf
  <2>2. named.inbox = box
    <3>1. ag[from] = AgentOf(mm, DOMAIN mm, DOMAIN mm, from)
      BY <1>1
    <3>2. IsAgent(ag[from])
      BY <3>1 DEF AgentOf, IsAgent
    <3> HIDE DEF box, ag
    <3> QED BY <3>2 DEF IsAgent
  <2> HIDE DEF bg, named, ag, mm
  <2>3. CASE a = to
    BY <1>1, <1>3, <1>4, <1>11, <2>1, <2>2, <2>3 DEF Named, ag
  <2>4. CASE a # to
    BY <1>1, <1>3, <1>4, <1>11, <2>1, <2>4 DEF Named, ag
  <2> QED BY <2>3, <2>4
<1> HIDE DEF l, mm, ag, k, d, k2, bg, A
<1>13. Retracks(l, nn, bg, k2, d)
  BY <1>6, <1>12, RetrackIs
<1>14. B \in SUBSET Agent /\ IsFiniteSet(B)
  <2>1. IsFiniteSet(A \ {from})
    BY <1>2, FS_RemoveElement
  <2> QED BY <1>2, <2>1, FS_AddElement
<1> HIDE DEF B
<1>15. IsStore(Built(l, nn, B, k2), l, nn, B, k2)
  BY <1>2, <1>5, <1>6, <1>14, BuiltIs
<1> QED BY <1>7, <1>10, <1>11, <1>13, <1>15 DEF Retracks, RenamesTo, l, mm, ag, nn, k2, B, A
-----------------------------------------------------------------------------
(***************************************************************************)
(* What is read of a sound store.                                          *)
(***************************************************************************)
Read(s, a) ==
    LET mm == s.messages
        D == DOMAIN mm
    IN  /\ s.agents[a].inbox = {i \in D : mm[i].to = a}
        /\ s.agents[a].queued = Those(mm, D, a, {"queued"})
        /\ s.agents[a].settled = Those(mm, D, a, State \ Pending)
        /\ pending_count(s, a) = Cardinality(Those(mm, D, a, Pending))
        /\ settled_count(s, a) \in Nat
        /\ \A b \in Agent : pending_from(s, a, b) = Cardinality(Sent(mm, D, a, b))

\* An agent's sets and counts are those of the messages to it.
LEMMA ReadIs ==
    ASSUME NEW s, Sound(s), NEW a \in DOMAIN s.agents
    PROVE  Read(s, a)
<1> DEFINE mm == s.messages
           D == DOMAIN mm
           p == s.agents[a]
           n(X) == Cardinality(Those(mm, D, a, X))
<1>1. p = AgentOf(mm, D, D, a) /\ AreMessages(mm)
  <2>1. s.agents = [b \in DOMAIN s.agents |-> AgentOf(mm, D, D, b)] /\ AreMessages(mm)
    BY SoundHas
  <2> HIDE DEF mm
  <2> QED BY <2>1
<1>2. \A X : Those(mm, D, a, X) \in SUBSET D
  BY DEF Those
<1>3. \A X : IsFiniteSet(Those(mm, D, a, X)) /\ n(X) \in Nat
  BY <1>1, <1>2, FS_Subset, FS_CardinalityType DEF AreMessages
<1>4. /\ p.inbox = {i \in D : mm[i].to = a} /\ p.queued = Those(mm, D, a, {"queued"})
      /\ p.settled = Those(mm, D, a, State \ Pending)
      /\ p.counts = CountsOf(mm, D, a) /\ p.senders = SendersOf(mm, D, a)
  BY <1>1 DEF AgentOf
<1>5. /\ p.counts.queued = n({"queued"}) /\ p.counts.leased = n({"leased"})
      /\ p.counts.dead = n({"dead"}) /\ p.counts.settled = n({"acked", "expired"})
  <2>1. p.counts = [queued |-> n({"queued"}), leased |-> n({"leased"}), dead |-> n({"dead"}),
                    settled |-> n({"acked", "expired"})]
    BY <1>4 DEF CountsOf
  <2> HIDE DEF n, p
  <2> QED BY <2>1
<1>6. n(Pending) = n({"queued"}) + n({"leased"})
  <2> DEFINE Q == Those(mm, D, a, {"queued"})
             L == Those(mm, D, a, {"leased"})
  <2>1. Those(mm, D, a, Pending) = Q \cup L /\ Q \cap L = {}
    BY DEF Those, Pending
  <2>2. Cardinality(Q \cup L) = Cardinality(Q) + Cardinality(L) - Cardinality(Q \cap L)
    BY <1>3, FS_Union
  <2>3. Cardinality({}) = 0
    BY FS_EmptySet
  <2>4. Cardinality(Q) \in Nat /\ Cardinality(L) \in Nat
    BY <1>3
  <2> HIDE DEF Q, L
  <2>5. Cardinality(Q \cup L) = Cardinality(Q) + Cardinality(L)
    <3>1. Cardinality(Q \cap L) = 0
      BY <2>1, <2>3, Zenon
    <3> QED BY <2>2, <2>4, <3>1
  <2> QED BY <2>1, <2>5 DEF Q, L
<1>7. pending_count(s, a) = n(Pending)
  BY <1>5, <1>6 DEF pending_count
<1>8. settled_count(s, a) \in Nat
  <2> HIDE DEF n
  <2> QED BY <1>3, <1>5 DEF settled_count
<1>9. \A b \in Agent : pending_from(s, a, b) = Cardinality(Sent(mm, D, a, b))
  BY <1>4 DEF pending_from, SendersOf
<1> QED BY <1>4, <1>7, <1>8, <1>9 DEF Read

DuesOf(s) ==
    LET mm == s.messages
        due == s.due
    IN  /\ due.leases \in SUBSET (Nat \X Nat) /\ IsFiniteSet(due.leases)
        /\ due.expiry \in SUBSET (Nat \X Nat) /\ IsFiniteSet(due.expiry)
        /\ due.settled \in SUBSET (Nat \X Nat) /\ IsFiniteSet(due.settled)
        /\ \A t, i : <<t, i>> \in due.leases => /\ i \in DOMAIN mm /\ mm[i].state = "leased"
                                                /\ mm[i].lease.until = t
        /\ \A t, i : <<t, i>> \in due.expiry => /\ i \in DOMAIN mm /\ mm[i].state \in Pending
                                                /\ mm[i].expires = t
        /\ \A t, i : <<t, i>> \in due.settled => i \in DOMAIN mm /\ mm[i].state \notin Pending

\* The due entries are of messages in the state they are due in.
LEMMA DuesAre ==
    ASSUME NEW s, Sound(s)
    PROVE  DuesOf(s)
<1> DEFINE mm == s.messages
           D == DOMAIN mm
           L == {j \in D : mm[j].state = "leased"}
           P == {j \in D : mm[j].state \in Pending}
           Q == {j \in D : mm[j].state \notin Pending}
           l == [i \in L |-> <<mm[i].lease.until, i>>]
           p == [i \in P |-> <<mm[i].expires, i>>]
           q == [i \in Q |-> <<mm[i].settled, i>>]
<1>1. s.due = DueOf(mm, D) /\ AreMessages(mm) /\ D \subseteq 1 .. s.last_id /\ s.last_id \in Nat
      /\ \A i \in D : mm[i] \in MessageType
  BY SoundHas DEF Sound
<1>2. /\ s.due.leases = {l[i] : i \in DOMAIN l} /\ s.due.expiry = {p[i] : i \in DOMAIN p}
      /\ s.due.settled = {q[i] : i \in DOMAIN q}
  <2>1. s.due = [leases |-> {<<mm[i].lease.until, i>> : i \in L},
                 expiry |-> {<<mm[i].expires, i>> : i \in P},
                 settled |-> {<<mm[i].settled, i>> : i \in Q}]
    BY <1>1 DEF DueOf
  <2>2. /\ {<<mm[i].lease.until, i>> : i \in L} = {l[i] : i \in DOMAIN l}
        /\ {<<mm[i].expires, i>> : i \in P} = {p[i] : i \in DOMAIN p}
        /\ {<<mm[i].settled, i>> : i \in Q} = {q[i] : i \in DOMAIN q}
    <3> HIDE DEF L, P, Q, mm
    <3> QED OBVIOUS
  <2> HIDE DEF l, p, q, L, P, Q, mm
  <2>3. s.due = [leases |-> {l[i] : i \in DOMAIN l}, expiry |-> {p[i] : i \in DOMAIN p},
                 settled |-> {q[i] : i \in DOMAIN q}]
    BY <2>1, <2>2, Zenon
  <2> QED BY <2>3
<1>3. D \subseteq Nat
  BY <1>1
<1>4. \A i \in L : mm[i].lease.until \in Nat
  <2> SUFFICES ASSUME NEW i \in L PROVE mm[i].lease.until \in Nat
    OBVIOUS
  <2>1. mm[i].lease \in Lease
    BY <1>1, MessageHas
  <2> QED BY <2>1 DEF Lease
<1>5. (\A i \in P : mm[i].expires \in Nat) /\ (\A i \in Q : mm[i].settled \in Nat)
  BY <1>1, MessageHas
<1>6. IsFiniteSet(L) /\ IsFiniteSet(P) /\ IsFiniteSet(Q)
  <2>1. L \in SUBSET D /\ P \in SUBSET D /\ Q \in SUBSET D /\ IsFiniteSet(D)
    BY <1>1 DEF AreMessages
  <2> HIDE DEF L, P, Q, D
  <2> QED BY <2>1, FS_Subset
<1>7. DOMAIN l = L /\ DOMAIN p = P /\ DOMAIN q = Q
  OBVIOUS
<1>8. IsFiniteSet(s.due.leases) /\ IsFiniteSet(s.due.expiry) /\ IsFiniteSet(s.due.settled)
  <2> HIDE DEF l, p, q, L, P, Q
  <2> QED BY <1>2, <1>6, <1>7, ImageFinite
<1>9. /\ s.due.leases \in SUBSET (Nat \X Nat) /\ s.due.expiry \in SUBSET (Nat \X Nat)
      /\ s.due.settled \in SUBSET (Nat \X Nat)
  <2>1. L \subseteq Nat /\ P \subseteq Nat /\ Q \subseteq Nat
    BY <1>3
  <2> HIDE DEF L, P, Q, mm
  <2>2. /\ \A i \in DOMAIN l : l[i] \in Nat \X Nat
        /\ \A i \in DOMAIN p : p[i] \in Nat \X Nat
        /\ \A i \in DOMAIN q : q[i] \in Nat \X Nat
    BY <1>4, <1>5, <2>1
  <2> HIDE DEF l, p, q
  <2> QED BY <1>2, <2>2
<1>10. /\ \A t, i : <<t, i>> \in s.due.leases => i \in L /\ mm[i].lease.until = t
       /\ \A t, i : <<t, i>> \in s.due.expiry => i \in P /\ mm[i].expires = t
       /\ \A t, i : <<t, i>> \in s.due.settled => i \in Q
  BY <1>2
<1> QED BY <1>8, <1>9, <1>10 DEF DuesOf
-----------------------------------------------------------------------------
(***************************************************************************)
(* What the commits of a request may make of a store: the messages in X    *)
(* may be settled or dropped, and the agents are those of one of AA.       *)
(***************************************************************************)
\* A key in the store is of the message that has it.
KeysKept(s) ==
    \A i \in Keyed(s.messages) : /\ KeyOf(s.messages[i]) \in DOMAIN s.msg_keys
                                 /\ s.msg_keys[KeyOf(s.messages[i])] = i

Kept(m, n) == /\ n.to = m.to /\ n.from = m.from /\ n.key = m.key /\ n.expires = m.expires
              /\ n.deliveries = m.deliveries /\ n.lease = m.lease
Becomes(m, n, t, given) ==
    /\ Kept(m, n)
    /\ m.state \notin Pending => n.state = m.state
    /\ m.state \in Pending /\ n.state \notin Pending => given
    /\ n.state = "queued" /\ n.lease # None => m.state = "queued" \/ n.lease.until <= t

Settles(s0, s, t, X, AA) ==
    /\ Whole(s)
    /\ s.last_id = s0.last_id
    /\ DOMAIN s.agents \in AA
    /\ DOMAIN s.messages \subseteq DOMAIN s0.messages
    /\ \A i \in DOMAIN s.messages : Becomes(s0.messages[i], s.messages[i], t, i \in X)
    /\ \A i \in DOMAIN s0.messages \ DOMAIN s.messages : s0.messages[i].state \notin Pending \/ i \in X
    /\ KeysKept(s0) => KeysKept(s)

\* Keys name their messages still: as these change, but not in who sent them to
\* whom and under which key,
LEMMA NamedSame ==
    ASSUME NEW s, KeysNamed(s), NEW u, u.msg_keys = s.msg_keys,
           DOMAIN u.messages = DOMAIN s.messages,
           \A i \in DOMAIN s.messages :
              LET m == s.messages[i]
                  n == u.messages[i]
              IN  n.to = m.to /\ n.from = m.from /\ n.key = m.key
    PROVE  KeysNamed(u)
BY DEF KeysNamed, Keyed, KeyOf

\* as some go with their keys,
LEMMA NamedStay ==
    ASSUME NEW s, KeysNamed(s), NEW u, NEW S \in SUBSET DOMAIN s.messages,
           u.messages = Without(s.messages, S),
           u.msg_keys = Without(s.msg_keys, KeysOf(s.messages, S))
    PROVE  KeysNamed(u)
<1> DEFINE K == KeysOf(s.messages, S)
           id(x) == s.msg_keys[x]
<1> SUFFICES ASSUME NEW x \in DOMAIN u.msg_keys
             PROVE  u.msg_keys[x] \in Keyed(u.messages) /\ KeyOf(u.messages[u.msg_keys[x]]) = x
  BY DEF KeysNamed
<1>1. x \in DOMAIN s.msg_keys \ K /\ u.msg_keys[x] = id(x)
  BY DEF Without
<1>2. id(x) \in DOMAIN s.messages /\ s.messages[id(x)].key # None /\ KeyOf(s.messages[id(x)]) = x
  BY <1>1 DEF KeysNamed, Keyed
<1>3. id(x) \notin S
  BY <1>1, <1>2 DEF KeysOf
<1> HIDE DEF K, id
<1>4. id(x) \in DOMAIN u.messages /\ u.messages[id(x)] = s.messages[id(x)]
  BY <1>2, <1>3 DEF Without
<1> QED BY <1>1, <1>2, <1>4 DEF Keyed

\* and as they are listed again.
LEMMA NamedAgain ==
    ASSUME NEW u, Sound(u), u.msg_keys = KeysAgain(u.messages)
    PROVE  KeysNamed(u)
<1>1. u.last_id \in Nat /\ u.messages \in Maps(1 .. u.last_id, MessageType)
  BY DEF Sound
<1>2. \A x \in DOMAIN u.msg_keys :
         u.msg_keys[x] \in {i \in Keyed(u.messages) : KeyOf(u.messages[i]) = x}
  BY <1>1, KeysAgainIs
<1> QED BY <1>2 DEF KeysNamed

\* A store as it is.
LEMMA SettlesNone ==
    ASSUME NEW s, Whole(s), NEW t, NEW X, NEW AA, DOMAIN s.agents \in AA
    PROVE  Settles(s, s, t, X, AA)
  BY DEF Settles, Becomes, Kept

\* A message the store has is one it had, and was to be handled if it is.
LEMMA SettledHad ==
    ASSUME NEW s0, NEW s, NEW t, NEW X, NEW AA, Settles(s0, s, t, X, AA), NEW i \in DOMAIN s.messages
    PROVE  /\ i \in DOMAIN s0.messages /\ Kept(s0.messages[i], s.messages[i])
           /\ s.messages[i].state \in Pending => s0.messages[i].state \in Pending
           /\ s.messages[i].state \notin Pending => s0.messages[i].state \notin Pending \/ i \in X
  BY DEF Settles, Becomes

\* One message settled, or back in the queue.
LEMMA SettlesOne ==
    ASSUME NEW s0, NEW s, NEW t \in Nat, NEW X, NEW AA, Settles(s0, s, t, X, AA),
           NEW id, NEW state \in State \ {"leased"},
           id \in DOMAIN s.messages =>
              LET m == s0.messages[id]
              IN  /\ m.state \in Pending
                  /\ state \notin Pending => id \in X
                  /\ state = "queued" => /\ m.lease # None => m.lease.until <= t
                                         /\ m.deliveries < MaxDeliveries
    PROVE  Settles(s0, apply_settle(s, id, state, t), t, X, AA)
<1>1. CASE id \notin DOMAIN s.messages
  BY <1>1 DEF apply_settle
<1>2. CASE id \in DOMAIN s.messages
  <2> DEFINE u == apply_settle(s, id, state, t)
             m == s.messages[id]
             n == Settled(m, state, t)
             k == s.msg_keys
             mm == s.messages
             nn == Put(mm, id, n)
             m0 == s0.messages[id]
  <2>1. Whole(s) /\ Sound(s) /\ mm[id].to \in DOMAIN s.agents /\ m \in MessageType
    BY <1>2, SoundHas DEF Settles, Whole
  <2>2. Kept(m0, m) /\ id \in DOMAIN s0.messages
    BY <1>2, SettledHad
  <2>3. state = "queued" => m.deliveries < MaxDeliveries
    BY <1>2, <2>2 DEF Kept
  <2>4. SettlesTo(s, id, state, t)
    BY <1>2, <2>1, <2>3, SettleIs
  <2>5. n.to = m.to /\ n.from = m.from /\ n.key = m.key /\ n.expires = m.expires /\ n.lease = m.lease
        /\ n.deliveries = m.deliveries /\ n.state = state
    BY <2>1, <2>3, SettledIs
  <2>6. /\ Sound(u) /\ u.last_id = s.last_id /\ u.messages = nn /\ DOMAIN u.agents = DOMAIN s.agents
        /\ u.msg_keys = k
    BY <2>4 DEF SettlesTo, IsStore
  <2>7. DOMAIN nn = DOMAIN mm /\ nn[id] = n /\ \A i \in DOMAIN mm \ {id} : nn[i] = mm[i]
    BY <1>2 DEF Put
  <2> HIDE DEF u, n, nn
  <2>8. Whole(u)
    <3>1. KeysNamed(u)
      BY <2>1, <2>5, <2>6, <2>7, NamedSame DEF Whole
    <3> QED BY <2>1, <2>5, <2>6, <2>7, <3>1 DEF Whole
  <2>9. Becomes(m0, n, t, id \in X)
    BY <1>2, <2>2, <2>5 DEF Becomes, Kept
  <2>10. \A i \in DOMAIN nn : Becomes(s0.messages[i], nn[i], t, i \in X)
    BY <2>7, <2>9 DEF Settles
  <2>11. KeysKept(s) => KeysKept(u)
    BY <2>5, <2>6, <2>7 DEF KeysKept, Keyed, KeyOf
  <2> QED BY <2>6, <2>7, <2>8, <2>10, <2>11 DEF Settles, u
<1> QED BY <1>1, <1>2

\* Keys of messages that go are no other message's.
LEMMA KeysStay ==
    ASSUME NEW s, KeysKept(s), NEW u, NEW S \in SUBSET DOMAIN s.messages,
           u.messages = Without(s.messages, S),
           u.msg_keys = Without(s.msg_keys, KeysOf(s.messages, S))
    PROVE  KeysKept(u)
<1> SUFFICES ASSUME NEW i \in Keyed(u.messages)
             PROVE  /\ KeyOf(u.messages[i]) \in DOMAIN u.msg_keys
                    /\ u.msg_keys[KeyOf(u.messages[i])] = i
  BY DEF KeysKept
<1> DEFINE m == s.messages[i]
           K == KeysOf(s.messages, S)
<1>1. i \in DOMAIN s.messages \ S /\ u.messages[i] = m /\ m.key # None
  BY DEF Keyed, Without
<1>2. KeyOf(m) \in DOMAIN s.msg_keys /\ s.msg_keys[KeyOf(m)] = i
  BY <1>1 DEF KeysKept, Keyed
<1>3. KeyOf(m) \notin K
  <2> SUFFICES ASSUME KeyOf(m) \in K PROVE FALSE
    OBVIOUS
  <2>1. PICK j \in S : s.messages[j].key # None /\ KeyOf(s.messages[j]) = KeyOf(m)
    BY DEF KeysOf
  <2>2. s.msg_keys[KeyOf(m)] = j
    BY <2>1 DEF KeysKept, Keyed
  <2> QED BY <1>1, <1>2, <2>2
<1> HIDE DEF K
<1> QED BY <1>1, <1>2, <1>3 DEF Without, K

\* Messages dropped, that are settled or may be.
LEMMA SettlesDrop ==
    ASSUME NEW s0, NEW s, NEW t, NEW X, NEW AA, Settles(s0, s, t, X, AA),
           NEW S \in SUBSET DOMAIN s.messages,
           \A i \in S : s.messages[i].state \notin Pending \/ i \in X
    PROVE  Settles(s0, apply_drop(s, S), t, X, AA)
<1> DEFINE u == apply_drop(s, S)
           mm == s.messages
           nn == Without(mm, S)
<1>1. Whole(s) /\ Sound(s)
  BY DEF Settles, Whole
<1>2. DropsTo(s, S)
  BY <1>1, DroppedIs
<1>3. /\ Sound(u) /\ u.last_id = s.last_id /\ u.messages = nn /\ DOMAIN u.agents = DOMAIN s.agents
      /\ u.msg_keys = Without(s.msg_keys, KeysOf(mm, S))
  BY <1>2 DEF DropsTo, IsStore
<1>4. DOMAIN nn = DOMAIN mm \ S /\ \A i \in DOMAIN nn : nn[i] = mm[i]
  BY DEF Without
<1> HIDE DEF u
<1>5. (KeysKept(s) => KeysKept(u)) /\ KeysNamed(u)
  BY <1>1, <1>3, KeysStay, NamedStay DEF Whole
<1> HIDE DEF nn
<1>6. Whole(u)
  BY <1>1, <1>3, <1>4, <1>5 DEF Whole
<1>7. \A i \in S : s0.messages[i].state \notin Pending \/ i \in X
  BY SettledHad
<1> QED BY <1>3, <1>4, <1>5, <1>6, <1>7 DEF Settles, u

\* An agent forgotten, that has no messages to handle but those that may go.
LEMMA SettlesForget ==
    ASSUME NEW s0, NEW s, NEW t, NEW X, NEW AA, Settles(s0, s, t, X, AA),
           NEW a, DOMAIN s.agents \ {a} \in AA,
           \A i \in DOMAIN s.messages : s.messages[i].to = a => s.messages[i].state \notin Pending \/ i \in X
    PROVE  Settles(s0, apply_forget(s, a), t, X, AA)
<1>1. CASE a \notin DOMAIN s.agents
  BY <1>1 DEF apply_forget
<1>2. CASE a \in DOMAIN s.agents
  <2> DEFINE u == apply_forget(s, a)
             mm == s.messages
             S == {i \in DOMAIN mm : mm[i].to = a}
             nn == Without(mm, S)
  <2>1. Whole(s) /\ Sound(s) /\ KeysNamed(s) /\ \A i \in DOMAIN mm : mm[i].to \in DOMAIN s.agents
    BY DEF Settles, Whole
  <2>2. ForgetsTo(s, a)
    BY <1>2, <2>1, ForgetIs
  <2>3. /\ Sound(u) /\ u.last_id = s.last_id /\ u.messages = nn
        /\ DOMAIN u.agents = DOMAIN s.agents \ {a}
        /\ u.msg_keys = Without(s.msg_keys, KeysOf(mm, S))
    BY <2>2 DEF ForgetsTo, IsStore
  <2>4. DOMAIN nn = DOMAIN mm \ S /\ \A i \in DOMAIN nn : nn[i] = mm[i]
    BY DEF Without
  <2> HIDE DEF u
  <2>5. (KeysKept(s) => KeysKept(u)) /\ KeysNamed(u)
    BY <2>1, <2>3, KeysStay, NamedStay
  <2>6. \A i \in DOMAIN nn : nn[i].to \in DOMAIN s.agents \ {a}
    BY <2>1, <2>4
  <2> HIDE DEF nn
  <2>7. Whole(u)
    BY <2>3, <2>5, <2>6 DEF Whole
  <2>8. \A i \in S : s0.messages[i].state \notin Pending \/ i \in X
    BY SettledHad
  <2> QED BY <2>3, <2>4, <2>5, <2>7, <2>8 DEF Settles, u
<1> QED BY <1>1, <1>2

\* An agent known.
LEMMA SettlesAgent ==
    ASSUME NEW s0, NEW s, NEW t, NEW X, NEW AA, Settles(s0, s, t, X, AA),
           NEW a \in Agent, DOMAIN s.agents \cup {a} \in AA
    PROVE  Settles(s0, apply_agent(s, a), t, X, AA)
<1> DEFINE u == apply_agent(s, a)
<1>1. Whole(s)
  BY DEF Settles
<1>2. AgentsTo(s, a)
  BY <1>1, AgentIs
<1>3. /\ Sound(u) /\ u.last_id = s.last_id /\ u.messages = s.messages
      /\ DOMAIN u.agents = DOMAIN s.agents \cup {a} /\ u.msg_keys = s.msg_keys
  BY <1>2 DEF AgentsTo, IsStore
<1> HIDE DEF u
<1>4. Whole(u) /\ (KeysKept(s) => KeysKept(u))
  BY <1>1, <1>3 DEF Whole, KeysKept, KeysNamed
<1> QED BY <1>3, <1>4 DEF Settles, u
-----------------------------------------------------------------------------
(***************************************************************************)
(* Rows of commits.                                                        *)
(***************************************************************************)
Outcomes(l) == {Built(l, b[1], b[2], b[3]) :
                   b \in Maps(1 .. l, MessageType) \X (SUBSET Agent) \X Maps(KeyType, Nat)}
Made(s0, t, X, AA) == {s \in Outcomes(s0.last_id) : Settles(s0, s, t, X, AA)}

\* What a request may make of a store, as a set.
LEMMA MadeIs ==
    ASSUME NEW s0, NEW t, NEW X, NEW AA, NEW s
    PROVE  s \in Made(s0, t, X, AA) <=> Settles(s0, s, t, X, AA)
<1> SUFFICES ASSUME Settles(s0, s, t, X, AA) PROVE s \in Outcomes(s0.last_id)
  BY DEF Made
<1> DEFINE b == <<s.messages, DOMAIN s.agents, s.msg_keys>>
<1>1. Sound(s) /\ s.last_id = s0.last_id
  BY DEF Settles, Whole
<1>2. b \in Maps(1 .. s0.last_id, MessageType) \X (SUBSET Agent) \X Maps(KeyType, Nat)
  BY <1>1 DEF Sound
<1>3. s = Built(s0.last_id, b[1], b[2], b[3])
  BY <1>1 DEF Sound
<1> HIDE DEF b
<1> QED BY <1>2, <1>3 DEF Outcomes

Rows(W) == Seq(W) \ {<<>>}

\* A row has a last store, and others of the same kind.
LEMMA RowIs ==
    ASSUME NEW W, NEW r \in Rows(W)
    PROVE  Last(r) \in W /\ Len(r) \in Nat /\ Len(r) >= 1 /\ \A i \in 1 .. Len(r) : r[i] \in W
<1>1. r \in Seq(W) /\ r # <<>> /\ Len(r) \in Nat
  BY DEF Rows
<1>2. Len(r) >= 1
  BY <1>1
<1> QED BY <1>1, <1>2 DEF Last

\* One more commit makes a longer row.
LEMMA RowMore ==
    ASSUME NEW W, NEW r \in Rows(W), NEW s \in W
    PROVE  Append(r, s) \in Rows(W) /\ Last(Append(r, s)) = s
<1>1. r \in Seq(W) /\ Len(r) \in Nat
  BY DEF Rows
<1>2. Append(r, s) \in Seq(W) /\ Len(Append(r, s)) = Len(r) + 1 /\ Append(r, s)[Len(r) + 1] = s
  BY <1>1
<1>3. Append(r, s) # <<>>
  BY <1>1, <1>2
<1> QED BY <1>2, <1>3 DEF Rows, Last

\* Before the first commit there is the store.
LEMMA RowOne == ASSUME NEW W, NEW s \in W PROVE <<s>> \in Rows(W) /\ Last(<<s>>) = s
  BY DEF Rows, Last

\* Whatever commits the journal takes, the store is one of the row.
LEMMA CommitIs ==
    ASSUME NEW W, NEW r \in Rows(W), NEW done, Commit(r, done)
    PROVE  store' \in W
<1>1. Last(r) \in W /\ Len(r) \in Nat /\ \A i \in 1 .. Len(r) : r[i] \in W
  BY RowIs
<1>2. \A i \in 1 .. Len(r) - 1 : i \in 1 .. Len(r)
  BY <1>1
<1> QED BY <1>1, <1>2 DEF Commit

Trimmed(s, a) == apply_drop(s, Range(First(s.agents[a].settled, settled_count(s, a) - HistoryLimit)))

\* Of the history beyond its limit, only what was settled goes.
LEMMA TrimmedIs ==
    ASSUME NEW s0, NEW s, NEW t, NEW X, NEW AA, Settles(s0, s, t, X, AA),
           NEW a, settled_count(s, a) - HistoryLimit > 0
    PROVE  Settles(s0, Trimmed(s, a), t, X, AA)
<1> DEFINE excess == settled_count(s, a) - HistoryLimit
           S == Range(First(s.agents[a].settled, excess))
           Q == Those(s.messages, DOMAIN s.messages, a, State \ Pending)
<1>1. HistoryLimit \in Nat
  BY LimitsAssumption
<1>2. a \in DOMAIN s.agents
  BY <1>1 DEF settled_count
<1>3. Sound(s)
  BY DEF Settles, Whole
<1>4. Read(s, a)
  BY <1>2, <1>3, ReadIs
<1>5. excess \in Nat /\ s.agents[a].settled = Q
  BY <1>1, <1>4 DEF Read
<1>6. Q \in SUBSET DOMAIN s.messages /\ \A i \in Q : s.messages[i].state \notin Pending
  BY DEF Those
<1>7. AreMessages(s.messages) /\ DOMAIN s.messages \subseteq 1 .. s.last_id
  BY <1>3, SoundHas
<1> HIDE DEF Q, excess
<1>8. IsFiniteSet(Q) /\ Q \in SUBSET Nat
  BY <1>6, <1>7, FS_Subset DEF AreMessages
<1>9. First(Q, excess) \in Seq(Q)
  BY <1>5, <1>8, FirstIs
<1>10. S \subseteq Q
  BY <1>5, <1>9 DEF Range
<1> HIDE DEF S
<1>11. Settles(s0, apply_drop(s, S), t, X, AA)
  BY <1>6, <1>10, SettlesDrop
<1> QED BY <1>11 DEF Trimmed, S, excess

\* A row, or one with what a limited history leaves.
LEMMA TrimHistoryIs ==
    ASSUME NEW r, NEW a
    PROVE  \/ trim_history(r, a) = r
           \/ /\ settled_count(Last(r), a) - HistoryLimit > 0
              /\ trim_history(r, a) = Append(r, Trimmed(Last(r), a))
  BY DEF trim_history, Trimmed

\* And so for rows.
LEMMA TrimIs ==
    ASSUME NEW s0, NEW t, NEW X, NEW AA, NEW r \in Rows(Made(s0, t, X, AA)), NEW a
    PROVE  trim_history(r, a) \in Rows(Made(s0, t, X, AA))
<1> DEFINE W == Made(s0, t, X, AA)
           s == Last(r)
<1>1. s \in W
  BY RowIs
<1>2. Settles(s0, s, t, X, AA)
  BY <1>1, MadeIs
<1>3. CASE trim_history(r, a) = r
  BY <1>3
<1>4. CASE /\ settled_count(s, a) - HistoryLimit > 0
           /\ trim_history(r, a) = Append(r, Trimmed(s, a))
  <2> HIDE DEF s
  <2>1. Settles(s0, Trimmed(s, a), t, X, AA)
    BY <1>2, <1>4, TrimmedIs
  <2>2. Trimmed(s, a) \in W
    BY <2>1, MadeIs
  <2> HIDE DEF W
  <2>3. Append(r, Trimmed(s, a)) \in Rows(W)
    BY <2>2, RowMore DEF W
  <2> QED BY <1>4, <2>3 DEF W
<1> QED BY <1>3, <1>4, TrimHistoryIs
-----------------------------------------------------------------------------
(***************************************************************************)
(* What time is up for.                                                    *)
(***************************************************************************)
LastRun(s, t) ==
    {i \in DOMAIN s.messages : /\ s.messages[i].lease # None /\ s.messages[i].lease.until <= t
                               /\ s.messages[i].deliveries = MaxDeliveries}
RanOut(s, t) == {i \in DOMAIN s.messages : s.messages[i].expires <= t}
UpAt(s, t) == LastRun(s, t) \cup RanOut(s, t)

\* More may be settled than may be.
LEMMA SettlesMore ==
    ASSUME NEW s0, NEW s, NEW t, NEW X, NEW Y, X \subseteq Y, NEW AA, Settles(s0, s, t, X, AA)
    PROVE  Settles(s0, s, t, Y, AA)
  BY DEF Settles, Becomes

\* And so for rows.
LEMMA RowsMore ==
    ASSUME NEW s0, NEW t, NEW X, NEW Y, X \subseteq Y, NEW AA, NEW r \in Rows(Made(s0, t, X, AA))
    PROVE  r \in Rows(Made(s0, t, Y, AA))
<1> DEFINE V == Made(s0, t, X, AA)
           W == Made(s0, t, Y, AA)
<1>1. V \subseteq W
  BY MadeIs, SettlesMore
<1> HIDE DEF V, W
<1>2. r \in Seq(V) /\ r # <<>>
  BY DEF Rows, V
<1>3. r \in Seq(W)
  BY <1>1, <1>2
<1> QED BY <1>2, <1>3 DEF Rows, W

\* Leases that ran out: their messages go back to the queue, or are dead letters
\* after their last delivery.
LEMMA ReclaimIs ==
    ASSUME NEW s0, Whole(s0), now \in Nat, NEW AA, DOMAIN s0.agents \in AA
    PROVE  reclaim(<<s0>>) \in Rows(Made(s0, now, LastRun(s0, now), AA))
<1> DEFINE X == LastRun(s0, now)
           R == Rows(Made(s0, now, X, AA))
           read == Last(<<s0>>)
           settle(acc, id) ==
               LET m == read.messages[id]
                   dead == Exhausted(m)
                   settled == Append(acc, apply_settle(Last(acc), id,
                                                       IF dead THEN "dead" ELSE "queued", now))
               IN  IF dead THEN trim_history(settled, m.to) ELSE settled
           seq == Due(read.due.leases, now)
           base == <<s0>>
           D == DOMAIN seq
           ch == [S \in SUBSET D |-> Max(S)]
           eq(g) == g = [S \in SUBSET D |->
                           IF S = {} THEN base ELSE settle(g[S \ {Max(S)}], seq[Max(S)])]
           h == CHOOSE g : eq(g)
           Fam == [S \in SUBSET D |-> R]
           f == [p \in (SUBSET D) \X R |-> settle(p[2], seq[ch[p[1]]])]
<1>1. reclaim(base) = h[D]
  <2>1. reclaim(base) = FoldLeft(settle, base, seq)
    BY DEF reclaim
  <2> HIDE DEF settle, seq, base, read
  <2> QED BY <2>1 DEF FoldLeft, MapThenFoldSet
<1>2. read = s0 /\ base \in R
  <2>1. s0 \in Made(s0, now, X, AA)
    BY SettlesNone, MadeIs
  <2> QED BY <2>1, RowOne
<1>3. Sound(s0) /\ DuesOf(s0)
  BY DuesAre DEF Whole
<1>4. /\ seq \in Seq(Nat)
      /\ \A i \in D : \E t \in 0 .. now : <<t, seq[i]>> \in s0.due.leases
  <2> HIDE DEF read
  <2> QED BY <1>2, <1>3, DueIs DEF DuesOf
<1>5. IsFiniteSet(D) /\ D \subseteq Nat
  <2>1. D = 1 .. Len(seq) /\ Len(seq) \in Nat
    <3> HIDE DEF seq
    <3> QED BY <1>4
  <2> HIDE DEF seq
  <2> QED BY <2>1, FS_Interval
<1>6. \A S \in SUBSET D : S # {} => ch[S] \in S /\ ch[S] = Max(S)
  <2> SUFFICES ASSUME NEW S \in SUBSET D, S # {} PROVE Max(S) \in S
    OBVIOUS
  <2> HIDE DEF seq
  <2>1. IsFiniteSet(S) /\ S \in SUBSET Nat
    BY <1>5, FS_Subset
  <2> QED BY <2>1, GreatestOfFinite
<1>7. ASSUME NEW acc \in R, NEW i \in D
      PROVE  settle(acc, seq[i]) \in R
  <2> DEFINE id == seq[i]
             m == s0.messages[id]
             to == IF Exhausted(m) THEN "dead" ELSE "queued"
             s == Last(acc)
             u == apply_settle(s, id, to, now)
             W == Made(s0, now, X, AA)
  <2>1. PICK t \in 0 .. now : <<t, id>> \in s0.due.leases
    BY <1>4
  <2>2. id \in DOMAIN s0.messages /\ m.state = "leased" /\ m.lease.until = t /\ t <= now
    <3> HIDE DEF id
    <3> QED BY <1>3, <2>1 DEF DuesOf
  <2>3. m \in MessageType
    <3> HIDE DEF id
    <3> QED BY <1>3, <2>2, SoundHas
  <2> HIDE DEF id
  <2>4. /\ m.lease # None /\ m.deliveries \in 0 .. MaxDeliveries /\ m.state \in Pending
        /\ MaxDeliveries \in Nat
    BY <2>2, <2>3, MessageHas, NoneAssumption, LimitsAssumption DEF Pending
  <2>5. Exhausted(m) => m.deliveries = MaxDeliveries /\ id \in X
    BY <2>2, <2>4 DEF Exhausted, LastRun
  <2>6. ~Exhausted(m) => m.deliveries < MaxDeliveries
    BY <2>4 DEF Exhausted
  <2>7. s \in W
    BY RowIs
  <2>8. Settles(s0, s, now, X, AA)
    BY <2>7, MadeIs
  <2> HIDE DEF s
  <2>9. to \in State \ {"leased"} /\ (to \notin Pending => id \in X)
        /\ (to = "queued" => m.deliveries < MaxDeliveries)
    BY <2>5, <2>6 DEF State, Pending
  <2> HIDE DEF to, X
  <2>10. Settles(s0, u, now, X, AA)
    BY <2>2, <2>4, <2>8, <2>9, SettlesOne
  <2>11. u \in W
    BY <2>10, MadeIs
  <2>12. Append(acc, u) \in R
    <3> HIDE DEF W
    <3> QED BY <2>11, RowMore DEF W
  <2>13. trim_history(Append(acc, u), m.to) \in R
    BY <2>12, TrimIs
  <2>14. settle(acc, id) = IF Exhausted(m) THEN trim_history(Append(acc, u), m.to) ELSE Append(acc, u)
    <3> HIDE DEF read
    <3> QED BY <1>2 DEF to, s
  <2> HIDE DEF settle, u, R
  <2> QED BY <2>12, <2>13, <2>14 DEF id
<1> HIDE DEF settle, seq, base, R, read, X
<1>8. PICK g : IsFold(g, D, ch, f, base) /\ \A S \in SUBSET D : g[S] \in R
  <2>1. ASSUME NEW S \in SUBSET D, S # {}, NEW t \in Fam[S \ {ch[S]}]
        PROVE  f[<<S, t>>] \in Fam[S]
    <3>1. ch[S] \in S /\ t \in R
      BY <1>6, <2>1
    <3> HIDE DEF ch
    <3>2. f[<<S, t>>] = settle(t, seq[ch[S]])
      BY <3>1
    <3> QED BY <1>7, <3>1, <3>2
  <2>2. base \in Fam[{}]
    BY <1>2
  <2>3. \A S \in SUBSET D : S # {} => ch[S] \in S
    BY <1>6
  <2> HIDE DEF ch, f, Fam
  <2>4. FoldsIn(D, ch, Fam, f, base)
    BY <1>5, <2>1, <2>2, <2>3, FoldMakes
  <2> QED BY <2>4 DEF FoldsIn, Fam
<1>9. eq(g)
  <2> DEFINE e(S) == IF S = {} THEN base ELSE settle(g[S \ {Max(S)}], seq[Max(S)])
             e2(S) == IF S = {} THEN base ELSE f[<<S, g[S \ {ch[S]}]>>]
  <2>1. g = [S \in SUBSET D |-> e2(S)]
    BY <1>8 DEF IsFold
  <2>2. ASSUME NEW S \in SUBSET D
        PROVE  e2(S) = e(S)
    <3>1. CASE S = {}
      BY <3>1
    <3>2. CASE S # {}
      <4>1. ch[S] = Max(S) /\ g[S \ {Max(S)}] \in R
        BY <1>6, <1>8, <3>2
      <4> HIDE DEF ch
      <4>2. f[<<S, g[S \ {ch[S]}]>>] = settle(g[S \ {ch[S]}], seq[ch[S]])
        BY <4>1
      <4> QED BY <3>2, <4>1, <4>2
    <3> QED BY <3>1, <3>2
  <2> HIDE DEF e2
  <2>3. g = [S \in SUBSET D |-> e(S)]
    BY <2>1, <2>2
  <2> QED BY <2>3
<1>10. eq(h)
  BY <1>9
<1>11. h[{}] \in Fam[{}]
  <2>1. h[{}] = base
    BY <1>10
  <2> QED BY <1>2, <2>1
<1>12. \A S \in SUBSET D : S # {} /\ h[S \ {ch[S]}] \in Fam[S \ {ch[S]}] => h[S] \in Fam[S]
  <2> SUFFICES ASSUME NEW S \in SUBSET D, S # {}, h[S \ {ch[S]}] \in Fam[S \ {ch[S]}]
               PROVE  h[S] \in R
    OBVIOUS
  <2>1. ch[S] = Max(S) /\ ch[S] \in S
    BY <1>6
  <2>2. h[S] = settle(h[S \ {Max(S)}], seq[Max(S)])
    BY <1>10
  <2> HIDE DEF h, ch
  <2>3. h[S \ {ch[S]}] \in R
    OBVIOUS
  <2> QED BY <1>7, <2>1, <2>2, <2>3
<1>13. h[D] \in R
  <2>1. \A S \in SUBSET D : S # {} => ch[S] \in S
    BY <1>6
  <2> HIDE DEF h, ch, Fam
  <2>2. \A S \in SUBSET D : h[S] \in Fam[S]
    BY <1>5, <1>11, <1>12, <2>1, FoldHolds
  <2> QED BY <2>2 DEF Fam
<1> HIDE DEF h
<1> QED BY <1>1, <1>13 DEF R, X, base

\* Messages past their expiry.
LEMMA ExpireIs ==
    ASSUME NEW s0, now \in Nat, NEW X, RanOut(s0, now) \subseteq X, NEW AA,
           NEW r \in Rows(Made(s0, now, X, AA))
    PROVE  expire(r) \in Rows(Made(s0, now, X, AA))
<1> DEFINE R == Rows(Made(s0, now, X, AA))
           read == Last(r)
           settle(acc, id) ==
               trim_history(Append(acc, apply_settle(Last(acc), id, "expired", now)),
                            read.messages[id].to)
           seq == Due(read.due.expiry, now)
           base == r
           D == DOMAIN seq
           ch == [S \in SUBSET D |-> Max(S)]
           eq(g) == g = [S \in SUBSET D |->
                           IF S = {} THEN base ELSE settle(g[S \ {Max(S)}], seq[Max(S)])]
           h == CHOOSE g : eq(g)
           Fam == [S \in SUBSET D |-> R]
           f == [p \in (SUBSET D) \X R |-> settle(p[2], seq[ch[p[1]]])]
<1>1. expire(base) = h[D]
  <2>1. expire(base) = FoldLeft(settle, base, seq)
    BY DEF expire
  <2> HIDE DEF settle, seq, base, read
  <2> QED BY <2>1 DEF FoldLeft, MapThenFoldSet
<1>2. Settles(s0, read, now, X, AA) /\ base \in R
  <2>1. read \in Made(s0, now, X, AA)
    BY RowIs
  <2> QED BY <2>1, MadeIs
<1>3. Sound(read) /\ DuesOf(read)
  <2> HIDE DEF read
  <2>1. Sound(read)
    BY <1>2 DEF Settles, Whole
  <2> QED BY <2>1, DuesAre
<1>4. /\ seq \in Seq(Nat)
      /\ \A i \in D : \E t \in 0 .. now : <<t, seq[i]>> \in read.due.expiry
  <2> HIDE DEF read
  <2> QED BY <1>3, DueIs DEF DuesOf
<1>5. IsFiniteSet(D) /\ D \subseteq Nat
  <2>1. D = 1 .. Len(seq) /\ Len(seq) \in Nat
    <3> HIDE DEF seq
    <3> QED BY <1>4
  <2> HIDE DEF seq
  <2> QED BY <2>1, FS_Interval
<1>6. \A S \in SUBSET D : S # {} => ch[S] \in S /\ ch[S] = Max(S)
  <2> SUFFICES ASSUME NEW S \in SUBSET D, S # {} PROVE Max(S) \in S
    OBVIOUS
  <2> HIDE DEF seq
  <2>1. IsFiniteSet(S) /\ S \in SUBSET Nat
    BY <1>5, FS_Subset
  <2> QED BY <2>1, GreatestOfFinite
<1>7. ASSUME NEW acc \in R, NEW i \in D
      PROVE  settle(acc, seq[i]) \in R
  <2> DEFINE id == seq[i]
             m == s0.messages[id]
             n == read.messages[id]
             s == Last(acc)
             u == apply_settle(s, id, "expired", now)
             W == Made(s0, now, X, AA)
  <2>1. PICK t \in 0 .. now : <<t, id>> \in read.due.expiry
    BY <1>4
  <2>2. id \in DOMAIN read.messages /\ n.state \in Pending /\ n.expires <= now
    <3> HIDE DEF id, read
    <3> QED BY <1>3, <2>1 DEF DuesOf
  <2> HIDE DEF id, seq, read
  <2>3. id \in DOMAIN s0.messages /\ m.state \in Pending /\ m.expires <= now
    BY <1>2, <2>2, SettledHad DEF Kept
  <2>4. id \in X
    BY <2>3 DEF RanOut
  <2>5. s \in W
    BY RowIs
  <2>6. Settles(s0, s, now, X, AA)
    BY <2>5, MadeIs
  <2> HIDE DEF s
  <2>7. "expired" \in State \ {"leased"} /\ "expired" # "queued"
    BY DEF State, Pending
  <2>8. Settles(s0, u, now, X, AA)
    BY <2>3, <2>4, <2>6, <2>7, SettlesOne
  <2>9. u \in W
    BY <2>8, MadeIs
  <2>10. Append(acc, u) \in R
    <3> HIDE DEF W
    <3> QED BY <2>9, RowMore DEF W
  <2>11. trim_history(Append(acc, u), n.to) \in R
    BY <2>10, TrimIs
  <2> QED BY <2>11 DEF id, s, seq, read
<1> HIDE DEF settle, seq, base, R, read
<1>8. PICK g : IsFold(g, D, ch, f, base) /\ \A S \in SUBSET D : g[S] \in R
  <2>1. ASSUME NEW S \in SUBSET D, S # {}, NEW t \in Fam[S \ {ch[S]}]
        PROVE  f[<<S, t>>] \in Fam[S]
    <3>1. ch[S] \in S /\ t \in R
      BY <1>6, <2>1
    <3> HIDE DEF ch
    <3>2. f[<<S, t>>] = settle(t, seq[ch[S]])
      BY <3>1
    <3> QED BY <1>7, <3>1, <3>2
  <2>2. base \in Fam[{}]
    BY <1>2
  <2>3. \A S \in SUBSET D : S # {} => ch[S] \in S
    BY <1>6
  <2> HIDE DEF ch, f, Fam
  <2>4. FoldsIn(D, ch, Fam, f, base)
    BY <1>5, <2>1, <2>2, <2>3, FoldMakes
  <2> QED BY <2>4 DEF FoldsIn, Fam
<1>9. eq(g)
  <2> DEFINE e(S) == IF S = {} THEN base ELSE settle(g[S \ {Max(S)}], seq[Max(S)])
             e2(S) == IF S = {} THEN base ELSE f[<<S, g[S \ {ch[S]}]>>]
  <2>1. g = [S \in SUBSET D |-> e2(S)]
    BY <1>8 DEF IsFold
  <2>2. ASSUME NEW S \in SUBSET D
        PROVE  e2(S) = e(S)
    <3>1. CASE S = {}
      BY <3>1
    <3>2. CASE S # {}
      <4>1. ch[S] = Max(S) /\ g[S \ {Max(S)}] \in R
        BY <1>6, <1>8, <3>2
      <4> HIDE DEF ch
      <4>2. f[<<S, g[S \ {ch[S]}]>>] = settle(g[S \ {ch[S]}], seq[ch[S]])
        BY <4>1
      <4> QED BY <3>2, <4>1, <4>2
    <3> QED BY <3>1, <3>2
  <2> HIDE DEF e2
  <2>3. g = [S \in SUBSET D |-> e(S)]
    BY <2>1, <2>2
  <2> QED BY <2>3
<1>10. eq(h)
  BY <1>9
<1>11. h[{}] \in Fam[{}]
  <2>1. h[{}] = base
    BY <1>10
  <2> QED BY <1>2, <2>1
<1>12. \A S \in SUBSET D : S # {} /\ h[S \ {ch[S]}] \in Fam[S \ {ch[S]}] => h[S] \in Fam[S]
  <2> SUFFICES ASSUME NEW S \in SUBSET D, S # {}, h[S \ {ch[S]}] \in Fam[S \ {ch[S]}]
               PROVE  h[S] \in R
    OBVIOUS
  <2>1. ch[S] = Max(S) /\ ch[S] \in S
    BY <1>6
  <2>2. h[S] = settle(h[S \ {Max(S)}], seq[Max(S)])
    BY <1>10
  <2> HIDE DEF h, ch
  <2>3. h[S \ {ch[S]}] \in R
    OBVIOUS
  <2> QED BY <1>7, <2>1, <2>2, <2>3
<1>13. h[D] \in R
  <2>1. \A S \in SUBSET D : S # {} => ch[S] \in S
    BY <1>6
  <2> HIDE DEF h, ch, Fam
  <2>2. \A S \in SUBSET D : h[S] \in Fam[S]
    BY <1>5, <1>11, <1>12, <2>1, FoldHolds
  <2> QED BY <2>2 DEF Fam
<1> HIDE DEF h
<1> QED BY <1>1, <1>13 DEF R, base

\* The sweep: leases that ran out, messages past their expiry, and those settled
\* long ago.
LEMMA SweepIs ==
    ASSUME NEW s0, Whole(s0), now \in Nat, NEW AA, DOMAIN s0.agents \in AA
    PROVE  sweep_due(<<s0>>) \in Rows(Made(s0, now, UpAt(s0, now), AA))
<1> DEFINE X == UpAt(s0, now)
           W == Made(s0, now, X, AA)
           swept == expire(reclaim(<<s0>>))
           s == Last(swept)
           kept_until == IF now > MsgTtlMs THEN now - MsgTtlMs ELSE 0
           stale == Range(Due(s.due.settled, kept_until))
<1>1. LastRun(s0, now) \subseteq X /\ RanOut(s0, now) \subseteq X
  BY DEF UpAt
<1> HIDE DEF X
<1>2. reclaim(<<s0>>) \in Rows(W)
  BY <1>1, ReclaimIs, RowsMore
<1>3. swept \in Rows(W)
  BY <1>1, <1>2, ExpireIs
<1>4. s \in W
  BY <1>3, RowIs
<1>5. Settles(s0, s, now, X, AA)
  BY <1>4, MadeIs
<1>6. Sound(s) /\ DuesOf(s)
  BY <1>5, DuesAre DEF Settles, Whole
<1>7. kept_until \in Nat
  BY LimitsAssumption
<1> HIDE DEF s, kept_until
<1>8. \A i \in stale : i \in DOMAIN s.messages /\ s.messages[i].state \notin Pending
  <2> DEFINE d == Due(s.due.settled, kept_until)
  <2>1. \A j \in DOMAIN d : \E t \in 0 .. kept_until : <<t, d[j]>> \in s.due.settled
    BY <1>6, <1>7, DueIs DEF DuesOf
  <2> HIDE DEF d
  <2>2. \A j \in DOMAIN d : d[j] \in DOMAIN s.messages /\ s.messages[d[j]].state \notin Pending
    BY <1>6, <2>1 DEF DuesOf
  <2>3. stale = Range(d)
    BY DEF d
  <2> HIDE DEF stale
  <2> QED BY <2>2, <2>3 DEF Range
<1> HIDE DEF stale
<1>9. Settles(s0, apply_drop(s, stale), now, X, AA)
  BY <1>5, <1>8, SettlesDrop
<1>10. apply_drop(s, stale) \in W
  BY <1>9, MadeIs
<1> HIDE DEF W, swept
<1>11. Append(swept, apply_drop(s, stale)) \in Rows(W)
  BY <1>3, <1>10, RowMore
<1>12. sweep_due(<<s0>>) = IF stale = {} THEN swept ELSE Append(swept, apply_drop(s, stale))
  BY DEF sweep_due, swept, s, kept_until, stale
<1> QED BY <1>3, <1>11, <1>12 DEF W, X
-----------------------------------------------------------------------------
(***************************************************************************)
(* Agents forgotten, and made known.                                       *)
(***************************************************************************)
\* A set as a sequence: each of its elements once.
LEMMA ToSeqIs ==
    ASSUME NEW S, IsFiniteSet(S)
    PROVE  LET seq == SetToSeq(S)
           IN  /\ seq \in Seq(S)
               /\ \A i, j \in DOMAIN seq : seq[i] = seq[j] => i = j
               /\ {seq[i] : i \in DOMAIN seq} = S
<1> DEFINE n == Cardinality(S)
           seq == SetToSeq(S)
<1>1. n \in Nat /\ ExistsBijection(1 .. n, S)
  BY FS_CardinalityType
<1>2. PICK g \in Bijection(1 .. n, S) : TRUE
  BY <1>1 DEF ExistsBijection
<1>3. g \in [1 .. n -> S] /\ IsInjective(g)
  BY <1>2 DEF Bijection, Injection, IsInjective
<1>4. seq \in [1 .. n -> S] /\ IsInjective(seq)
  BY <1>3 DEF SetToSeq
<1> HIDE DEF seq
<1>5. {seq[i] : i \in 1 .. n} = S
  <2> DEFINE T == {seq[i] : i \in 1 .. n}
  <2>1. T \in SUBSET S
    BY <1>4
  <2>2. seq \in Bijection(1 .. n, T)
    BY <1>4 DEF Bijection, Injection, Surjection, IsInjective
  <2>3. IsFiniteSet(T) /\ Cardinality(T) = n
    <3>1. ExistsBijection(1 .. n, T)
      BY <2>2 DEF ExistsBijection
    <3>2. IsFiniteSet(T)
      BY <2>1, FS_Subset
    <3> HIDE DEF T, n
    <3> QED BY <1>1, <3>1, <3>2, FS_CountingElements
  <2> HIDE DEF T
  <2>4. Cardinality(S) = Cardinality(T) => S = T
    BY <2>1, FS_Subset
  <2>5. T = S
    BY <2>3, <2>4
  <2> QED BY <2>5 DEF T
<1> QED BY <1>1, <1>4, <1>5 DEF IsInjective, seq

Between(A, B) == {E \in SUBSET B : A \subseteq E}
Forgotten(s, gone) == FoldLeft(forgotten, <<s>>, SetToSeq(gone))

\* Agents without messages to handle, but those that may go, are forgotten one
\* by one.
LEMMA ForgottenIs ==
    ASSUME NEW s0, Whole(s0), NEW t, NEW X, NEW gone \in SUBSET DOMAIN s0.agents,
           \A i \in DOMAIN s0.messages :
              s0.messages[i].to \in gone => s0.messages[i].state \notin Pending \/ i \in X
    PROVE  /\ Forgotten(s0, gone) \in Rows(Made(s0, t, X, Between(DOMAIN s0.agents \ gone, DOMAIN s0.agents)))
           /\ DOMAIN Last(Forgotten(s0, gone)).agents = DOMAIN s0.agents \ gone
<1> DEFINE A == DOMAIN s0.agents
           AA == Between(A \ gone, A)
           W == Made(s0, t, X, AA)
           R == Rows(W)
           seq == SetToSeq(gone)
           base == <<s0>>
           D == DOMAIN seq
           some(S) == {seq[j] : j \in S}
           ch == [S \in SUBSET D |-> Max(S)]
           eq(g) == g = [S \in SUBSET D |->
                           IF S = {} THEN base ELSE forgotten(g[S \ {Max(S)}], seq[Max(S)])]
           h == CHOOSE g : eq(g)
           Fam == [S \in SUBSET D |-> {r \in R : DOMAIN Last(r).agents = A \ some(S)}]
           f == [p \in (SUBSET D) \X R |-> forgotten(p[2], seq[ch[p[1]]])]
<1>1. Forgotten(s0, gone) = h[D]
  <2> HIDE DEF seq, base
  <2> QED BY DEF Forgotten, FoldLeft, MapThenFoldSet, seq, base
<1>2. IsFiniteSet(gone)
  BY FS_Subset DEF Whole, Sound
<1>3. seq \in Seq(gone) /\ some(D) = gone /\ \A i, j \in D : seq[i] = seq[j] => i = j
  BY <1>2, ToSeqIs
<1>4. base \in Fam[{}]
  <2>1. A \in AA /\ A \ some({}) = A
    BY DEF Between
  <2> HIDE DEF A, AA, seq
  <2>2. s0 \in W
    BY <2>1, SettlesNone, MadeIs DEF A
  <2>3. base \in R /\ Last(base) = s0
    BY <2>2, RowOne
  <2> HIDE DEF base, R, some
  <2> QED BY <2>1, <2>3 DEF A
<1>5. IsFiniteSet(D) /\ D \subseteq Nat
  <2>1. D = 1 .. Len(seq) /\ Len(seq) \in Nat
    <3> HIDE DEF seq
    <3> QED BY <1>3
  <2> HIDE DEF seq
  <2> QED BY <2>1, FS_Interval
<1>6. \A S \in SUBSET D : S # {} => ch[S] \in S /\ ch[S] = Max(S)
  <2> SUFFICES ASSUME NEW S \in SUBSET D, S # {} PROVE Max(S) \in S
    OBVIOUS
  <2> HIDE DEF seq
  <2>1. IsFiniteSet(S) /\ S \in SUBSET Nat
    BY <1>5, FS_Subset
  <2> QED BY <2>1, GreatestOfFinite
<1>7. ASSUME NEW S \in SUBSET D, S # {}, NEW acc \in Fam[S \ {ch[S]}]
      PROVE  forgotten(acc, seq[ch[S]]) \in Fam[S]
  <2> DEFINE T == S \ {ch[S]}
             a == seq[ch[S]]
             s == Last(acc)
             u == apply_forget(s, a)
  <2>1. ch[S] \in S /\ T \in SUBSET D /\ S = T \cup {ch[S]}
    BY <1>6, <1>7
  <2> HIDE DEF ch
  <2>2. acc \in R /\ DOMAIN s.agents = A \ some(T)
    BY <2>1
  <2>3. a \in gone /\ some(S) = some(T) \cup {a}
    <3> HIDE DEF seq
    <3> QED BY <1>3, <2>1
  <2>4. some(S) \subseteq gone
    <3> HIDE DEF seq
    <3> QED BY <1>3
  <2> HIDE DEF a, some, seq, A, Fam
  <2>5. DOMAIN s.agents \ {a} = A \ some(S) /\ DOMAIN s.agents \ {a} \in AA
    BY <2>2, <2>3, <2>4 DEF Between
  <2>6. s \in W
    BY <2>2, RowIs
  <2> HIDE DEF s, AA
  <2>7. Settles(s0, s, t, X, AA)
    BY <2>6, MadeIs
  <2>8. \A i \in DOMAIN s.messages : s.messages[i].to = a => s.messages[i].state \notin Pending \/ i \in X
    BY <2>3, <2>7, SettledHad DEF Kept
  <2>9. Settles(s0, u, t, X, AA)
    BY <2>5, <2>7, <2>8, SettlesForget
  <2>10. DOMAIN u.agents = A \ some(S)
    <3>1. Sound(s)
      BY <2>7 DEF Settles, Whole
    <3>2. CASE a \in DOMAIN s.agents
      <4>1. ForgetsTo(s, a)
        BY <3>1, <3>2, ForgetIs
      <4> QED BY <2>5, <4>1 DEF ForgetsTo, IsStore
    <3>3. CASE a \notin DOMAIN s.agents
      BY <2>5, <3>3 DEF apply_forget
    <3> QED BY <3>2, <3>3
  <2>11. u \in W
    BY <2>9, MadeIs
  <2> HIDE DEF u, W
  <2>12. Append(acc, u) \in R /\ Last(Append(acc, u)) = u
    BY <2>2, <2>11, RowMore
  <2>13. forgotten(acc, a) = Append(acc, u)
    BY DEF forgotten, u, s
  <2> HIDE DEF R
  <2> QED BY <2>10, <2>12, <2>13 DEF Fam, a
<1>8. \A S \in SUBSET D : Fam[S] \subseteq R
  OBVIOUS
<1> HIDE DEF seq, base, R, W, A, AA, some
<1>9. PICK g : IsFold(g, D, ch, f, base) /\ \A S \in SUBSET D : g[S] \in Fam[S]
  <2>1. ASSUME NEW S \in SUBSET D, S # {}, NEW acc \in Fam[S \ {ch[S]}]
        PROVE  f[<<S, acc>>] \in Fam[S]
    <3>1. forgotten(acc, seq[ch[S]]) \in Fam[S]
      BY <1>7, <2>1
    <3>2. acc \in R
      BY <1>8, <2>1
    <3> HIDE DEF ch, Fam
    <3>3. f[<<S, acc>>] = forgotten(acc, seq[ch[S]])
      BY <3>2
    <3> QED BY <3>1, <3>3
  <2>2. \A S \in SUBSET D : S # {} => ch[S] \in S
    BY <1>6
  <2> HIDE DEF ch, f, Fam
  <2>3. FoldsIn(D, ch, Fam, f, base)
    BY <1>4, <1>5, <2>1, <2>2, FoldMakes
  <2> QED BY <2>3 DEF FoldsIn
<1>10. eq(g)
  <2> DEFINE e(S) == IF S = {} THEN base ELSE forgotten(g[S \ {Max(S)}], seq[Max(S)])
             e2(S) == IF S = {} THEN base ELSE f[<<S, g[S \ {ch[S]}]>>]
  <2>1. g = [S \in SUBSET D |-> e2(S)]
    BY <1>9 DEF IsFold
  <2>2. ASSUME NEW S \in SUBSET D
        PROVE  e2(S) = e(S)
    <3>1. CASE S = {}
      BY <3>1
    <3>2. CASE S # {}
      <4>1. ch[S] = Max(S) /\ g[S \ {ch[S]}] \in R
        BY <1>6, <1>9, <1>8, <3>2
      <4> HIDE DEF ch
      <4>2. f[<<S, g[S \ {ch[S]}]>>] = forgotten(g[S \ {ch[S]}], seq[ch[S]])
        BY <4>1
      <4> QED BY <3>2, <4>1, <4>2
    <3> QED BY <3>1, <3>2
  <2> HIDE DEF e2
  <2>3. g = [S \in SUBSET D |-> e(S)]
    BY <2>1, <2>2
  <2> QED BY <2>3
<1>11. eq(h)
  BY <1>10
<1>12. h[{}] \in Fam[{}]
  <2>1. h[{}] = base
    BY <1>11
  <2> HIDE DEF h, Fam
  <2> QED BY <1>4, <2>1
<1>13. \A S \in SUBSET D : S # {} /\ h[S \ {ch[S]}] \in Fam[S \ {ch[S]}] => h[S] \in Fam[S]
  <2> SUFFICES ASSUME NEW S \in SUBSET D, S # {}, h[S \ {ch[S]}] \in Fam[S \ {ch[S]}]
               PROVE  h[S] \in Fam[S]
    OBVIOUS
  <2>1. ch[S] = Max(S) /\ ch[S] \in S
    BY <1>6
  <2>2. h[S] = forgotten(h[S \ {Max(S)}], seq[Max(S)])
    BY <1>11
  <2> HIDE DEF h, ch, Fam
  <2> QED BY <1>7, <2>1, <2>2
<1>14. h[D] \in Fam[D]
  <2>1. \A S \in SUBSET D : S # {} => ch[S] \in S
    BY <1>6
  <2> HIDE DEF h, ch, Fam
  <2>2. \A S \in SUBSET D : h[S] \in Fam[S]
    BY <1>5, <1>12, <1>13, <2>1, FoldHolds
  <2> QED BY <2>2
<1> HIDE DEF h
<1>15. h[D] \in R /\ DOMAIN Last(h[D]).agents = A \ gone
  BY <1>3, <1>14
<1> QED BY <1>1, <1>15 DEF R, W, AA, A

\* Rows with some agents are rows with those or others.
LEMMA RowsAmong ==
    ASSUME NEW s0, NEW t, NEW X, NEW AA, NEW BB, AA \subseteq BB, NEW r \in Rows(Made(s0, t, X, AA))
    PROVE  r \in Rows(Made(s0, t, X, BB))
<1> DEFINE V == Made(s0, t, X, AA)
           W == Made(s0, t, X, BB)
<1>1. \A s : Settles(s0, s, t, X, AA) => Settles(s0, s, t, X, BB)
  BY DEF Settles
<1>2. V \subseteq W
  BY <1>1, MadeIs
<1> HIDE DEF V, W
<1>3. r \in Seq(V) /\ r # <<>>
  BY DEF Rows, V
<1>4. r \in Seq(W)
  BY <1>2, <1>3
<1> QED BY <1>3, <1>4 DEF Rows, W

Both(A, gone, missing) == Between(A \ gone, A) \cup Between(A \ gone, (A \ gone) \cup missing)
Known(s, gone, missing) ==
    LET known(acc, a) == Append(acc, apply_agent(Last(acc), a))
    IN  FoldLeft(known, Forgotten(s, gone), SetToSeq(missing))

\* Agents are then made known one by one.
LEMMA KnownIs ==
    ASSUME NEW s0, Whole(s0), NEW t, NEW X, NEW gone \in SUBSET DOMAIN s0.agents,
           \A i \in DOMAIN s0.messages :
              s0.messages[i].to \in gone => s0.messages[i].state \notin Pending \/ i \in X,
           NEW missing \in SUBSET Agent, IsFiniteSet(missing)
    PROVE  /\ Known(s0, gone, missing) \in Rows(Made(s0, t, X, Both(DOMAIN s0.agents, gone, missing)))
           /\ DOMAIN Last(Known(s0, gone, missing)).agents = (DOMAIN s0.agents \ gone) \cup missing
<1> DEFINE A == DOMAIN s0.agents
           AA == Both(A, gone, missing)
           W == Made(s0, t, X, AA)
           R == Rows(W)
           settle(acc, a) == Append(acc, apply_agent(Last(acc), a))
           seq == SetToSeq(missing)
           base == Forgotten(s0, gone)
           D == DOMAIN seq
           some(S) == {seq[j] : j \in S}
           ch == [S \in SUBSET D |-> Max(S)]
           eq(g) == g = [S \in SUBSET D |->
                           IF S = {} THEN base ELSE settle(g[S \ {Max(S)}], seq[Max(S)])]
           h == CHOOSE g : eq(g)
           Fam == [S \in SUBSET D |-> {r \in R : DOMAIN Last(r).agents = (A \ gone) \cup some(S)}]
           f == [p \in (SUBSET D) \X R |-> settle(p[2], seq[ch[p[1]]])]
<1>1. Known(s0, gone, missing) = h[D]
  <2>1. Known(s0, gone, missing) = FoldLeft(settle, base, seq)
    BY DEF Known
  <2> HIDE DEF seq, base, settle
  <2> QED BY <2>1 DEF FoldLeft, MapThenFoldSet
<1>2. seq \in Seq(missing) /\ some(D) = missing
  BY ToSeqIs
<1>3. base \in Fam[{}]
  <2>1. /\ base \in Rows(Made(s0, t, X, Between(A \ gone, A)))
        /\ DOMAIN Last(base).agents = A \ gone
    BY ForgottenIs
  <2>2. Between(A \ gone, A) \subseteq AA
    BY DEF Both
  <2> HIDE DEF base, A
  <2>3. base \in R
    <3> HIDE DEF AA
    <3> QED BY <2>1, <2>2, RowsAmong
  <2> HIDE DEF R, seq
  <2> QED BY <2>1, <2>3
<1>4. IsFiniteSet(D) /\ D \subseteq Nat
  <2>1. D = 1 .. Len(seq) /\ Len(seq) \in Nat
    <3> HIDE DEF seq
    <3> QED BY <1>2
  <2> HIDE DEF seq
  <2> QED BY <2>1, FS_Interval
<1>5. \A S \in SUBSET D : S # {} => ch[S] \in S /\ ch[S] = Max(S)
  <2> SUFFICES ASSUME NEW S \in SUBSET D, S # {} PROVE Max(S) \in S
    OBVIOUS
  <2> HIDE DEF seq
  <2>1. IsFiniteSet(S) /\ S \in SUBSET Nat
    BY <1>4, FS_Subset
  <2> QED BY <2>1, GreatestOfFinite
<1>6. ASSUME NEW S \in SUBSET D, S # {}, NEW acc \in Fam[S \ {ch[S]}]
      PROVE  settle(acc, seq[ch[S]]) \in Fam[S]
  <2> DEFINE T == S \ {ch[S]}
             a == seq[ch[S]]
             s == Last(acc)
             u == apply_agent(s, a)
  <2>1. ch[S] \in S /\ T \in SUBSET D /\ S = T \cup {ch[S]}
    BY <1>5, <1>6
  <2> HIDE DEF ch
  <2>2. acc \in R /\ DOMAIN s.agents = (A \ gone) \cup some(T)
    BY <2>1
  <2>3. a \in missing /\ some(S) = some(T) \cup {a}
    <3> HIDE DEF seq
    <3> QED BY <1>2, <2>1
  <2>4. some(S) \subseteq missing
    <3> HIDE DEF seq
    <3> QED BY <1>2
  <2> HIDE DEF a, some, seq, A, Fam
  <2>5. DOMAIN s.agents \cup {a} = (A \ gone) \cup some(S) /\ DOMAIN s.agents \cup {a} \in AA
    BY <2>2, <2>3, <2>4 DEF Between, Both
  <2>6. s \in W
    BY <2>2, RowIs
  <2> HIDE DEF s, AA
  <2>7. Settles(s0, s, t, X, AA)
    BY <2>6, MadeIs
  <2>8. a \in Agent
    BY <2>3
  <2>9. Settles(s0, u, t, X, AA)
    BY <2>5, <2>7, <2>8, SettlesAgent
  <2>10. DOMAIN u.agents = (A \ gone) \cup some(S)
    <3>1. AgentsTo(s, a)
      BY <2>7, <2>8, AgentIs DEF Settles
    <3> QED BY <2>5, <3>1 DEF AgentsTo, IsStore
  <2>11. u \in W
    BY <2>9, MadeIs
  <2> HIDE DEF u, W
  <2>12. Append(acc, u) \in R /\ Last(Append(acc, u)) = u
    BY <2>2, <2>11, RowMore
  <2>13. settle(acc, a) = Append(acc, u)
    BY DEF u, s
  <2> HIDE DEF R, settle
  <2> QED BY <2>10, <2>12, <2>13 DEF Fam, a
<1>7. \A S \in SUBSET D : Fam[S] \subseteq R
  OBVIOUS
<1> HIDE DEF seq, base, R, W, A, AA, some, settle
<1>8. PICK g : IsFold(g, D, ch, f, base) /\ \A S \in SUBSET D : g[S] \in Fam[S]
  <2>1. ASSUME NEW S \in SUBSET D, S # {}, NEW acc \in Fam[S \ {ch[S]}]
        PROVE  f[<<S, acc>>] \in Fam[S]
    <3>1. settle(acc, seq[ch[S]]) \in Fam[S]
      BY <1>6, <2>1
    <3>2. acc \in R
      BY <1>7, <2>1
    <3> HIDE DEF ch, Fam
    <3>3. f[<<S, acc>>] = settle(acc, seq[ch[S]])
      BY <3>2
    <3> QED BY <3>1, <3>3
  <2>2. \A S \in SUBSET D : S # {} => ch[S] \in S
    BY <1>5
  <2> HIDE DEF ch, f, Fam
  <2>3. FoldsIn(D, ch, Fam, f, base)
    BY <1>3, <1>4, <2>1, <2>2, FoldMakes
  <2> QED BY <2>3 DEF FoldsIn
<1>9. eq(g)
  <2> DEFINE e(S) == IF S = {} THEN base ELSE settle(g[S \ {Max(S)}], seq[Max(S)])
             e2(S) == IF S = {} THEN base ELSE f[<<S, g[S \ {ch[S]}]>>]
  <2>1. g = [S \in SUBSET D |-> e2(S)]
    BY <1>8 DEF IsFold
  <2>2. ASSUME NEW S \in SUBSET D
        PROVE  e2(S) = e(S)
    <3>1. CASE S = {}
      BY <3>1
    <3>2. CASE S # {}
      <4>1. ch[S] = Max(S) /\ g[S \ {ch[S]}] \in R
        BY <1>5, <1>8, <1>7, <3>2
      <4> HIDE DEF ch
      <4>2. f[<<S, g[S \ {ch[S]}]>>] = settle(g[S \ {ch[S]}], seq[ch[S]])
        BY <4>1
      <4> QED BY <3>2, <4>1, <4>2
    <3> QED BY <3>1, <3>2
  <2> HIDE DEF e2
  <2>3. g = [S \in SUBSET D |-> e(S)]
    BY <2>1, <2>2
  <2> QED BY <2>3
<1>10. eq(h)
  BY <1>9
<1>11. h[{}] \in Fam[{}]
  <2>1. h[{}] = base
    BY <1>10
  <2> HIDE DEF h, Fam
  <2> QED BY <1>3, <2>1
<1>12. \A S \in SUBSET D : S # {} /\ h[S \ {ch[S]}] \in Fam[S \ {ch[S]}] => h[S] \in Fam[S]
  <2> SUFFICES ASSUME NEW S \in SUBSET D, S # {}, h[S \ {ch[S]}] \in Fam[S \ {ch[S]}]
               PROVE  h[S] \in Fam[S]
    OBVIOUS
  <2>1. ch[S] = Max(S) /\ ch[S] \in S
    BY <1>5
  <2>2. h[S] = settle(h[S \ {Max(S)}], seq[Max(S)])
    BY <1>10
  <2> HIDE DEF h, ch, Fam
  <2> QED BY <1>6, <2>1, <2>2
<1>13. h[D] \in Fam[D]
  <2>1. \A S \in SUBSET D : S # {} => ch[S] \in S
    BY <1>5
  <2> HIDE DEF h, ch, Fam
  <2>2. \A S \in SUBSET D : h[S] \in Fam[S]
    BY <1>4, <1>11, <1>12, <2>1, FoldHolds
  <2> QED BY <2>2
<1> HIDE DEF h
<1>14. h[D] \in R /\ DOMAIN Last(h[D]).agents = (A \ gone) \cup missing
  BY <1>2, <1>13
<1> QED BY <1>1, <1>14 DEF R, W, AA, A

\* The agents there may be after a request that needs names.
Roomy(A, gone, names) == {E \in SUBSET (A \cup names) : A \ gone \subseteq E /\ Cardinality(E) <= MaxAgents}
Ensures(s0, steps, gone, names, t) ==
    /\ steps \in Rows(Made(s0, t, {}, Roomy(DOMAIN s0.agents, gone, names)))
    /\ DOMAIN Last(steps).agents = (DOMAIN s0.agents \ gone) \cup names

\* Room is made for names, and they are known.
LEMMA EnsureIs ==
    ASSUME Whole(store), Cardinality(DOMAIN store.agents) <= MaxAgents,
           NEW names \in SUBSET Agent, IsFiniteSet(names), NEW steps \in ensure_agents(names), NEW t
    PROVE  \E gone \in SUBSET (removable(store) \ names) : Ensures(store, steps, gone, names, t)
<1> DEFINE A == DOMAIN store.agents
           missing == names \ A
           going == IF missing = {} \/ overflow(missing) < 0 THEN 0 ELSE overflow(missing)
<1>1. PICK gone \in kSubset(going, removable(store) \ names) :
         steps = Known(store, gone, missing)
  BY DEF ensure_agents, Known, Forgotten
<1>2. gone \in SUBSET (removable(store) \ names) /\ Cardinality(gone) = going
  BY <1>1 DEF kSubset
<1>3. gone \in SUBSET A /\ Sound(store) /\ IsFiniteSet(A)
  BY <1>2 DEF removable, Whole, Sound
<1>4. \A i \in DOMAIN store.messages : store.messages[i].to \in gone => store.messages[i].state \notin Pending
  <2> SUFFICES ASSUME NEW i \in DOMAIN store.messages, store.messages[i].to \in gone,
                      store.messages[i].state \in Pending
               PROVE  FALSE
    OBVIOUS
  <2> DEFINE a == store.messages[i].to
             P == Those(store.messages, DOMAIN store.messages, a, Pending)
  <2>1. a \in A /\ pending_count(store, a) = 0
    BY <1>2 DEF removable
  <2>2. Cardinality(P) = 0
    BY <1>3, <2>1, ReadIs DEF Read
  <2>3. i \in P /\ P \in SUBSET DOMAIN store.messages
    BY DEF Those
  <2>4. IsFiniteSet(DOMAIN store.messages)
    BY <1>3, SoundHas DEF AreMessages
  <2> HIDE DEF P
  <2>5. IsFiniteSet(P)
    BY <2>3, <2>4, FS_Subset
  <2> QED BY <2>2, <2>3, <2>5, FS_EmptySet
<1>5. missing \in SUBSET Agent /\ IsFiniteSet(missing) /\ A \cap missing = {}
  BY FS_Subset
<1> DEFINE BB == Both(A, gone, missing)
           F == (A \ gone) \cup missing
<1>6. /\ steps \in Rows(Made(store, t, {}, BB)) /\ DOMAIN Last(steps).agents = F
  <2> HIDE DEF missing
  <2> QED BY <1>1, <1>3, <1>4, <1>5, KnownIs
<1>7. IsFiniteSet(gone) /\ IsFiniteSet(A \ gone) /\ IsFiniteSet(F)
      /\ Cardinality(A \ gone) = Cardinality(A) - Cardinality(gone)
      /\ Cardinality(F) = Cardinality(A) - Cardinality(gone) + Cardinality(missing)
      /\ Cardinality(A) \in Nat /\ Cardinality(missing) \in Nat
  <2> HIDE DEF A, missing
  <2>1. IsFiniteSet(gone) /\ gone \cap A = gone /\ Cardinality(A) \in Nat /\ Cardinality(missing) \in Nat
    BY <1>3, <1>5, FS_Subset, FS_CardinalityType
  <2>2. IsFiniteSet(A \ gone) /\ Cardinality(A \ gone) = Cardinality(A) - Cardinality(A \cap gone)
    BY <1>3, <2>1, FS_Difference
  <2>3. A \cap gone = gone
    BY <2>1
  <2>4. (A \ gone) \cap missing = {} /\ Cardinality({}) = 0
    BY <1>5, FS_EmptySet
  <2>5. /\ IsFiniteSet(F)
        /\ Cardinality(F) = Cardinality(A \ gone) + Cardinality(missing) - Cardinality((A \ gone) \cap missing)
    BY <1>5, <2>2, FS_Union
  <2>6. Cardinality((A \ gone) \cap missing) = 0
    BY <2>4, Zenon
  <2>7. Cardinality(A \ gone) = Cardinality(A) - Cardinality(gone)
    BY <2>2, <2>3, Zenon
  <2>8. Cardinality(gone) \in Nat
    BY <2>1, FS_CardinalityType
  <2> HIDE DEF F
  <2> QED BY <2>1, <2>2, <2>5, <2>6, <2>7, <2>8
<1>8. Cardinality(F) <= MaxAgents
  <2>1. MaxAgents \in Nat
    BY LimitsAssumption
  <2>2. missing = {} => Cardinality(missing) = 0
    BY FS_EmptySet
  <2>3. going = IF missing = {} \/ overflow(missing) < 0 THEN 0 ELSE overflow(missing)
    OBVIOUS
  <2>4. overflow(missing) = Cardinality(A) + Cardinality(missing) - MaxAgents
    BY DEF overflow
  <2> HIDE DEF F, A, missing, going
  <2> QED BY <1>2, <1>7, <2>1, <2>2, <2>3, <2>4 DEF A
<1>9. BB \subseteq Roomy(A, gone, names)
  <2> SUFFICES ASSUME NEW E \in BB PROVE E \in Roomy(A, gone, names)
    OBVIOUS
  <2>1. A \ gone \subseteq E /\ (E \subseteq A \/ E \subseteq F)
    BY DEF Both, Between
  <2>2. E \subseteq A \cup names
    BY <2>1
  <2>3. CASE E \subseteq A
    <3>1. Cardinality(E) <= Cardinality(A) /\ IsFiniteSet(E)
      BY <1>3, <2>3, FS_Subset
    <3>2. Cardinality(E) \in Nat /\ MaxAgents \in Nat
      BY <3>1, FS_CardinalityType, LimitsAssumption
    <3> QED BY <1>7, <2>1, <2>2, <3>1, <3>2 DEF Roomy
  <2>4. CASE E \subseteq F
    <3> HIDE DEF F
    <3>1. Cardinality(E) <= Cardinality(F) /\ IsFiniteSet(E)
      BY <1>7, <2>4, FS_Subset
    <3>2. Cardinality(E) \in Nat /\ Cardinality(F) \in Nat /\ MaxAgents \in Nat
      BY <1>7, <3>1, FS_CardinalityType, LimitsAssumption
    <3> QED BY <1>8, <2>1, <2>2, <3>1, <3>2 DEF Roomy
  <2> QED BY <2>1, <2>3, <2>4
<1>10. F = (A \ gone) \cup names
  BY <1>2
<1> HIDE DEF BB, F
<1>11. steps \in Rows(Made(store, t, {}, Roomy(A, gone, names)))
  BY <1>6, <1>9, RowsAmong
<1> QED BY <1>2, <1>6, <1>10, <1>11 DEF Ensures
-----------------------------------------------------------------------------
(***************************************************************************)
(* Messages acknowledged, and leased.                                      *)
(***************************************************************************)
Held(s, a) == {i \in DOMAIN s.messages : s.messages[i].to = a /\ s.messages[i].lease # None}
Acks(s0, inbox, receipts, consumer) ==
    LET settle(acc, receipt) ==
            LET s == Last(acc)
            IN  IF /\ receipt.id \in DOMAIN s.messages
                   /\ accepts(s.messages[receipt.id], inbox, receipt, consumer)
                THEN Append(acc, apply_settle(s, receipt.id, "acked", now))
                ELSE acc
    IN  FoldLeft(settle, <<s0>>, receipts)

\* Only what is leased from the inbox is acknowledged.
LEMMA AcksAre ==
    ASSUME NEW s0, Whole(s0), now \in Nat, NEW inbox, NEW n \in Nat, NEW seq, DOMAIN seq = 1 .. n,
           NEW consumer, NEW AA, DOMAIN s0.agents \in AA
    PROVE  Acks(s0, inbox, seq, consumer) \in Rows(Made(s0, now, Held(s0, inbox), AA))
<1> DEFINE X == Held(s0, inbox)
           R == Rows(Made(s0, now, X, AA))
           settle(acc, receipt) ==
               LET s == Last(acc)
               IN  IF /\ receipt.id \in DOMAIN s.messages
                      /\ accepts(s.messages[receipt.id], inbox, receipt, consumer)
                   THEN Append(acc, apply_settle(s, receipt.id, "acked", now))
                   ELSE acc
           base == <<s0>>
           D == DOMAIN seq
           ch == [S \in SUBSET D |-> Max(S)]
           eq(g) == g = [S \in SUBSET D |->
                           IF S = {} THEN base ELSE settle(g[S \ {Max(S)}], seq[Max(S)])]
           h == CHOOSE g : eq(g)
           Fam == [S \in SUBSET D |-> R]
           f == [p \in (SUBSET D) \X R |-> settle(p[2], seq[ch[p[1]]])]
<1>1. Acks(s0, inbox, seq, consumer) = h[D]
  <2>1. Acks(s0, inbox, seq, consumer) = FoldLeft(settle, base, seq)
    BY DEF Acks
  <2> HIDE DEF settle, base
  <2> QED BY <2>1 DEF FoldLeft, MapThenFoldSet
<1>2. base \in R
  <2>1. s0 \in Made(s0, now, X, AA)
    BY SettlesNone, MadeIs
  <2> QED BY <2>1, RowOne
<1>3. IsFiniteSet(D) /\ D \subseteq Nat
  BY FS_Interval
<1>4. \A S \in SUBSET D : S # {} => ch[S] \in S /\ ch[S] = Max(S)
  <2> SUFFICES ASSUME NEW S \in SUBSET D, S # {} PROVE Max(S) \in S
    OBVIOUS
  <2>1. IsFiniteSet(S) /\ S \in SUBSET Nat
    BY <1>3, FS_Subset
  <2> QED BY <2>1, GreatestOfFinite
<1>5. ASSUME NEW acc \in R, NEW i \in D
      PROVE  settle(acc, seq[i]) \in R
  <2> DEFINE receipt == seq[i]
             id == receipt.id
             s == Last(acc)
             m == s.messages[id]
             u == apply_settle(s, id, "acked", now)
             W == Made(s0, now, X, AA)
             ok == id \in DOMAIN s.messages /\ accepts(m, inbox, receipt, consumer)
  <2>1. settle(acc, receipt) = IF ok THEN Append(acc, u) ELSE acc
    OBVIOUS
  <2>2. CASE ~ok
    BY <2>1, <2>2
  <2>3. CASE ok
    <3>1. id \in DOMAIN s.messages /\ m.to = inbox /\ m.state \in Pending /\ m.lease # None
      BY <2>3 DEF accepts
    <3>2. s \in W
      BY RowIs
    <3>3. Settles(s0, s, now, X, AA)
      BY <3>2, MadeIs
    <3> HIDE DEF s, id
    <3>4. s0.messages[id].state \in Pending /\ id \in X
      BY <3>1, <3>3, SettledHad DEF Kept, Held
    <3>5. "acked" \in State \ {"leased"} /\ "acked" # "queued"
      BY DEF State, Pending
    <3>6. Settles(s0, u, now, X, AA)
      BY <3>3, <3>4, <3>5, SettlesOne
    <3>7. u \in W
      BY <3>6, MadeIs
    <3>8. Append(acc, u) \in R
      <4> HIDE DEF W
      <4> QED BY <3>7, RowMore DEF W
    <3> HIDE DEF u, settle, R
    <3> QED BY <2>1, <2>3, <3>8
  <2> QED BY <2>2, <2>3
<1> HIDE DEF settle, base, R, X
<1>6. PICK g : IsFold(g, D, ch, f, base) /\ \A S \in SUBSET D : g[S] \in R
  <2>1. ASSUME NEW S \in SUBSET D, S # {}, NEW t \in Fam[S \ {ch[S]}]
        PROVE  f[<<S, t>>] \in Fam[S]
    <3>1. ch[S] \in S /\ t \in R
      BY <1>4, <2>1
    <3> HIDE DEF ch
    <3>2. f[<<S, t>>] = settle(t, seq[ch[S]])
      BY <3>1
    <3> QED BY <1>5, <3>1, <3>2
  <2>2. base \in Fam[{}]
    BY <1>2
  <2>3. \A S \in SUBSET D : S # {} => ch[S] \in S
    BY <1>4
  <2> HIDE DEF ch, f, Fam
  <2>4. FoldsIn(D, ch, Fam, f, base)
    BY <1>3, <2>1, <2>2, <2>3, FoldMakes
  <2> QED BY <2>4 DEF FoldsIn, Fam
<1>7. eq(g)
  <2> DEFINE e(S) == IF S = {} THEN base ELSE settle(g[S \ {Max(S)}], seq[Max(S)])
             e2(S) == IF S = {} THEN base ELSE f[<<S, g[S \ {ch[S]}]>>]
  <2>1. g = [S \in SUBSET D |-> e2(S)]
    BY <1>6 DEF IsFold
  <2>2. ASSUME NEW S \in SUBSET D
        PROVE  e2(S) = e(S)
    <3>1. CASE S = {}
      BY <3>1
    <3>2. CASE S # {}
      <4>1. ch[S] = Max(S) /\ g[S \ {Max(S)}] \in R
        BY <1>4, <1>6, <3>2
      <4> HIDE DEF ch
      <4>2. f[<<S, g[S \ {ch[S]}]>>] = settle(g[S \ {ch[S]}], seq[ch[S]])
        BY <4>1
      <4> QED BY <3>2, <4>1, <4>2
    <3> QED BY <3>1, <3>2
  <2> HIDE DEF e2
  <2>3. g = [S \in SUBSET D |-> e(S)]
    BY <2>1, <2>2
  <2> QED BY <2>3
<1>8. eq(h)
  BY <1>7
<1>9. h[{}] \in Fam[{}]
  <2>1. h[{}] = base
    BY <1>8
  <2> QED BY <1>2, <2>1
<1>10. \A S \in SUBSET D : S # {} /\ h[S \ {ch[S]}] \in Fam[S \ {ch[S]}] => h[S] \in Fam[S]
  <2> SUFFICES ASSUME NEW S \in SUBSET D, S # {}, h[S \ {ch[S]}] \in Fam[S \ {ch[S]}]
               PROVE  h[S] \in R
    OBVIOUS
  <2>1. ch[S] = Max(S) /\ ch[S] \in S
    BY <1>4
  <2>2. h[S] = settle(h[S \ {Max(S)}], seq[Max(S)])
    BY <1>8
  <2> HIDE DEF h, ch
  <2>3. h[S \ {ch[S]}] \in R
    OBVIOUS
  <2> QED BY <1>5, <2>1, <2>2, <2>3
<1>11. h[D] \in R
  <2>1. \A S \in SUBSET D : S # {} => ch[S] \in S
    BY <1>4
  <2> HIDE DEF h, ch, Fam
  <2>2. \A S \in SUBSET D : h[S] \in Fam[S]
    BY <1>3, <1>9, <1>10, <2>1, FoldHolds
  <2> QED BY <2>2 DEF Fam
<1> HIDE DEF h
<1> QED BY <1>1, <1>11 DEF R, X

\* What all requests do to the messages there were, leases too.
Comes(m, n, t, given) ==
    /\ n.to = m.to /\ n.from = m.from /\ n.key = m.key /\ n.expires = m.expires
    /\ m.state \notin Pending => n.state = m.state
    /\ m.state \in Pending /\ n.state \notin Pending => given
    /\ n.deliveries > m.deliveries /\ m.lease # None => m.lease.until <= t
    /\ n.state = "queued" /\ n.lease # None =>
          (m.state = "queued" /\ n.lease = m.lease) \/ n.lease.until <= t

Follows(s0, s, t, X, AA) ==
    /\ Whole(s)
    /\ s.last_id = s0.last_id
    /\ DOMAIN s.agents \in AA
    /\ DOMAIN s.messages \subseteq DOMAIN s0.messages
    /\ \A i \in DOMAIN s.messages : Comes(s0.messages[i], s.messages[i], t, i \in X)
    /\ \A i \in DOMAIN s0.messages \ DOMAIN s.messages : s0.messages[i].state \notin Pending \/ i \in X
    /\ KeysKept(s0) => KeysKept(s)

\* Settling is one of the things they do.
LEMMA SettlesFollows ==
    ASSUME NEW s0, Sound(s0), NEW s, NEW t, NEW X, NEW AA, Settles(s0, s, t, X, AA)
    PROVE  Follows(s0, s, t, X, AA)
<1>1. \A i \in DOMAIN s.messages : s0.messages[i].deliveries \in Nat
  <2> SUFFICES ASSUME NEW i \in DOMAIN s.messages PROVE s0.messages[i].deliveries \in Nat
    OBVIOUS
  <2>1. s0.messages[i] \in MessageType
    BY SoundHas DEF Settles
  <2>2. s0.messages[i].deliveries \in 0 .. MaxDeliveries /\ MaxDeliveries \in Nat
    BY <2>1, MessageHas, LimitsAssumption
  <2> QED BY <2>2
<1>2. \A i \in DOMAIN s.messages : Comes(s0.messages[i], s.messages[i], t, i \in X)
  <2> SUFFICES ASSUME NEW i \in DOMAIN s.messages
               PROVE  Comes(s0.messages[i], s.messages[i], t, i \in X)
    OBVIOUS
  <2>1. Becomes(s0.messages[i], s.messages[i], t, i \in X)
    BY DEF Settles
  <2>2. s.messages[i].deliveries = s0.messages[i].deliveries /\ s0.messages[i].deliveries \in Nat
    BY <1>1, <2>1 DEF Becomes, Kept
  <2> QED BY <2>1, <2>2 DEF Comes, Becomes, Kept
<1> QED BY <1>2 DEF Settles, Follows

\* A message leased from the queue.
LEMMA FollowsLease ==
    ASSUME NEW s0, NEW s, NEW t, NEW X, NEW AA, Follows(s0, s, t, X, AA),
           NEW id \in DOMAIN s.messages, s.messages[id].state = "queued",
           s0.messages[id].lease # None => s0.messages[id].lease.until <= t,
           NEW c \in Consumer, NEW until \in Nat
    PROVE  Follows(s0, apply_lease(s, id, c, until), t, X, AA)
<1> DEFINE u == apply_lease(s, id, c, until)
           m == s.messages[id]
           n == Leased(m, c, until)
           k == s.msg_keys
           mm == s.messages
           nn == Put(mm, id, n)
           m0 == s0.messages[id]
<1>1. Whole(s) /\ Sound(s) /\ mm[id].to \in DOMAIN s.agents /\ m \in MessageType
  BY SoundHas DEF Follows, Whole
<1>2. Comes(m0, m, t, id \in X) /\ id \in DOMAIN s0.messages
  BY DEF Follows
<1>3. LeasesTo(s, id, c, until)
  BY <1>1, LeaseIs
<1>4. n.to = m.to /\ n.from = m.from /\ n.key = m.key /\ n.expires = m.expires /\ n.state = "leased"
  BY <1>1, LeasedIs
<1>5. /\ Sound(u) /\ u.last_id = s.last_id /\ u.messages = nn /\ DOMAIN u.agents = DOMAIN s.agents
      /\ u.msg_keys = k
  BY <1>3 DEF LeasesTo, IsStore
<1>6. DOMAIN nn = DOMAIN mm /\ nn[id] = n /\ \A i \in DOMAIN mm \ {id} : nn[i] = mm[i]
  BY DEF Put
<1> HIDE DEF u, n, nn
<1>7. Whole(u)
  <2>1. KeysNamed(u)
    BY <1>1, <1>4, <1>5, <1>6, NamedSame DEF Whole
  <2> QED BY <1>1, <1>4, <1>5, <1>6, <2>1 DEF Whole
<1>8. Comes(m0, n, t, id \in X)
  BY <1>2, <1>4 DEF Comes, Pending
<1>9. \A i \in DOMAIN nn : Comes(s0.messages[i], nn[i], t, i \in X)
  BY <1>6, <1>8 DEF Follows
<1>10. KeysKept(s) => KeysKept(u)
  BY <1>4, <1>5, <1>6 DEF KeysKept, Keyed, KeyOf
<1> QED BY <1>5, <1>6, <1>7, <1>9, <1>10 DEF Follows, u

Taken(s0, t, X, AA) == {s \in Outcomes(s0.last_id) : Follows(s0, s, t, X, AA)}

\* As a set.
LEMMA TakenIs ==
    ASSUME NEW s0, NEW t, NEW X, NEW AA, NEW s
    PROVE  s \in Taken(s0, t, X, AA) <=> Follows(s0, s, t, X, AA)
<1> SUFFICES ASSUME Follows(s0, s, t, X, AA) PROVE s \in Outcomes(s0.last_id)
  BY DEF Taken
<1> DEFINE b == <<s.messages, DOMAIN s.agents, s.msg_keys>>
<1>1. Sound(s) /\ s.last_id = s0.last_id
  BY DEF Follows, Whole
<1>2. b \in Maps(1 .. s0.last_id, MessageType) \X (SUBSET Agent) \X Maps(KeyType, Nat)
  BY <1>1 DEF Sound
<1>3. s = Built(s0.last_id, b[1], b[2], b[3])
  BY <1>1 DEF Sound
<1> HIDE DEF b
<1> QED BY <1>2, <1>3 DEF Outcomes

Requeued(s, t) == \A i \in DOMAIN s.messages :
                     s.messages[i].state = "queued" /\ s.messages[i].lease # None
                        => s.messages[i].lease.until <= t
Swept(s) == expire(reclaim(<<s>>))
Chosen(s, inbox, limit, only) ==
    First({id \in leasable(s, inbox) \cap only : s.messages[id].expires > now}, limit)
Grants(s0, inbox, consumer, limit, only) ==
    LET grant(acc, id) == Append(acc, apply_lease(Last(acc), id, consumer, now + LeaseMs))
    IN  FoldLeft(grant, Swept(s0), Chosen(Last(Swept(s0)), inbox, limit, only))

\* Rows of what settles messages are rows of what requests do.
LEMMA RowsFollow ==
    ASSUME NEW s0, Sound(s0), NEW t, NEW X, NEW AA, NEW r \in Rows(Made(s0, t, X, AA))
    PROVE  r \in Rows(Taken(s0, t, X, AA))
<1> DEFINE V == Made(s0, t, X, AA)
           W == Taken(s0, t, X, AA)
<1>1. V \subseteq W
  BY MadeIs, TakenIs, SettlesFollows
<1> HIDE DEF V, W
<1>2. r \in Seq(V) /\ r # <<>>
  BY DEF Rows, V
<1>3. r \in Seq(W)
  BY <1>1, <1>2
<1> QED BY <1>2, <1>3 DEF Rows, W

\* What is due is swept.
LEMMA SweptIs ==
    ASSUME NEW s0, Whole(s0), now \in Nat, NEW AA, DOMAIN s0.agents \in AA
    PROVE  Swept(s0) \in Rows(Made(s0, now, UpAt(s0, now), AA))
<1> DEFINE X == UpAt(s0, now)
<1>1. LastRun(s0, now) \subseteq X /\ RanOut(s0, now) \subseteq X
  BY DEF UpAt
<1> HIDE DEF X
<1>2. reclaim(<<s0>>) \in Rows(Made(s0, now, X, AA))
  BY <1>1, ReclaimIs, RowsMore
<1>3. expire(reclaim(<<s0>>)) \in Rows(Made(s0, now, X, AA))
  BY <1>1, <1>2, ExpireIs
<1> QED BY <1>3 DEF Swept, X

\* The messages to lease are in the queue, each of them once.
LEMMA ChosenIs ==
    ASSUME NEW s, Sound(s), NEW inbox, NEW limit \in Nat, NEW only
    PROVE  LET ids == Chosen(s, inbox, limit, only)
           IN  /\ ids \in Seq(Nat)
               /\ \A i, j \in DOMAIN ids : ids[i] = ids[j] => i = j
               /\ \A i \in DOMAIN ids : ids[i] \in DOMAIN s.messages /\ s.messages[ids[i]].state = "queued"
<1> DEFINE S == {id \in leasable(s, inbox) \cap only : s.messages[id].expires > now}
           ids == First(S, limit)
<1>1. \A i \in S : i \in DOMAIN s.messages /\ s.messages[i].state = "queued"
  <2> SUFFICES ASSUME NEW i \in S PROVE i \in DOMAIN s.messages /\ s.messages[i].state = "queued"
    OBVIOUS
  <2>1. inbox \in DOMAIN s.agents /\ i \in s.agents[inbox].queued
    BY DEF leasable
  <2>2. s.agents[inbox].queued = Those(s.messages, DOMAIN s.messages, inbox, {"queued"})
    BY <2>1, ReadIs DEF Read
  <2> QED BY <2>1, <2>2 DEF Those
<1>2. S \in SUBSET DOMAIN s.messages
  BY <1>1
<1>3. AreMessages(s.messages) /\ DOMAIN s.messages \subseteq 1 .. s.last_id
  BY SoundHas
<1> HIDE DEF S
<1>4. S \in SUBSET Nat /\ IsFiniteSet(S)
  BY <1>2, <1>3, FS_Subset DEF AreMessages
<1>5. ids \in Seq(S) /\ \A i, j \in DOMAIN ids : ids[i] = ids[j] => i = j
  BY <1>4, FirstIs
<1> HIDE DEF ids
<1>6. \A i \in DOMAIN ids : ids[i] \in S
  BY <1>5
<1>7. ids \in Seq(Nat)
  <2> DEFINE N == Nat
  <2>1. S \subseteq N
    BY <1>4
  <2> HIDE DEF N
  <2>2. ids \in Seq(N)
    BY <1>5, <2>1
  <2> QED BY <2>2 DEF N
<1>8. Chosen(s, inbox, limit, only) = ids
  BY DEF Chosen, ids, S
<1> QED BY <1>1, <1>5, <1>6, <1>7, <1>8

\* A request to lease: what is due is swept, and messages are leased one by one.
LEMMA GrantsAre ==
    ASSUME NEW s0, Whole(s0), now \in Nat, Requeued(s0, now), NEW AA, DOMAIN s0.agents \in AA,
           NEW inbox, NEW consumer \in Consumer, NEW limit \in Nat, NEW only
    PROVE  Grants(s0, inbox, consumer, limit, only) \in Rows(Taken(s0, now, UpAt(s0, now), AA))
<1> DEFINE X == UpAt(s0, now)
           W == Taken(s0, now, X, AA)
           R == Rows(W)
           until == now + LeaseMs
           settle(acc, id) == Append(acc, apply_lease(Last(acc), id, consumer, now + LeaseMs))
           base == Swept(s0)
           last == Last(base)
           seq == Chosen(last, inbox, limit, only)
           D == DOMAIN seq
           waits(s, id) == id \in DOMAIN s.messages /\ s.messages[id].state = "queued"
           ch == [S \in SUBSET D |-> Max(S)]
           eq(g) == g = [S \in SUBSET D |->
                           IF S = {} THEN base ELSE settle(g[S \ {Max(S)}], seq[Max(S)])]
           h == CHOOSE g : eq(g)
           Fam == [S \in SUBSET D |-> {r \in R : \A j \in D \ S : waits(Last(r), seq[j])}]
           f == [p \in (SUBSET D) \X R |-> settle(p[2], seq[ch[p[1]]])]
<1>1. Grants(s0, inbox, consumer, limit, only) = h[D]
  <2>1. Grants(s0, inbox, consumer, limit, only) = FoldLeft(settle, base, seq)
    BY DEF Grants
  <2> HIDE DEF seq, base, settle
  <2> QED BY <2>1 DEF FoldLeft, MapThenFoldSet
<1>2. base \in R /\ Settles(s0, last, now, X, AA)
  <2>1. base \in Rows(Made(s0, now, X, AA))
    BY SweptIs
  <2> HIDE DEF base
  <2>2. base \in R
    BY <2>1, RowsFollow DEF Whole
  <2>3. last \in Made(s0, now, X, AA)
    BY <2>1, RowIs
  <2> QED BY <2>2, <2>3, MadeIs
<1>3. /\ seq \in Seq(Nat)
      /\ \A i, j \in D : seq[i] = seq[j] => i = j
      /\ \A i \in D : waits(last, seq[i])
  <2> HIDE DEF last
  <2>1. Sound(last)
    BY <1>2 DEF Settles, Whole
  <2> QED BY <2>1, ChosenIs
<1>4. base \in Fam[{}]
  <2> HIDE DEF seq, base, R, waits
  <2> QED BY <1>3, <1>2
<1>5. IsFiniteSet(D) /\ D \subseteq Nat
  <2>1. D = 1 .. Len(seq) /\ Len(seq) \in Nat
    <3> HIDE DEF seq
    <3> QED BY <1>3
  <2> HIDE DEF seq
  <2> QED BY <2>1, FS_Interval
<1>6. \A S \in SUBSET D : S # {} => ch[S] \in S /\ ch[S] = Max(S)
  <2> SUFFICES ASSUME NEW S \in SUBSET D, S # {} PROVE Max(S) \in S
    OBVIOUS
  <2> HIDE DEF seq
  <2>1. IsFiniteSet(S) /\ S \in SUBSET Nat
    BY <1>5, FS_Subset
  <2> QED BY <2>1, GreatestOfFinite
<1>7. ASSUME NEW S \in SUBSET D, S # {}, NEW acc \in Fam[S \ {ch[S]}]
      PROVE  settle(acc, seq[ch[S]]) \in Fam[S]
  <2> DEFINE T == S \ {ch[S]}
             c == ch[S]
             id == seq[c]
             s == Last(acc)
             u == apply_lease(s, id, consumer, until)
  <2>1. c \in S /\ T \in SUBSET D /\ S = T \cup {c} /\ c \in D \ T
    BY <1>6, <1>7
  <2> HIDE DEF c
  <2>2. acc \in R /\ \A j \in D \ T : waits(s, seq[j])
    <3> HIDE DEF waits
    <3> QED BY <2>1 DEF c
  <2>3. waits(s, id) /\ \A j \in D \ S : waits(s, seq[j]) /\ seq[j] # id
    <3> HIDE DEF waits, seq, s
    <3> QED BY <1>3, <2>1, <2>2
  <2>4. waits(last, id)
    <3> HIDE DEF waits, seq, last
    <3> QED BY <1>3, <2>1
  <2>5. s0.messages[id].lease # None => s0.messages[id].lease.until <= now
    <3> DEFINE m == s0.messages[id]
               n == last.messages[id]
    <3>1. Becomes(m, n, now, id \in X) /\ id \in DOMAIN s0.messages /\ n.state = "queued"
      <4> HIDE DEF last, id
      <4> QED BY <1>2, <2>4 DEF Settles
    <3>2. m.state = "queued" /\ m.lease # None => m.lease.until <= now
      BY <3>1 DEF Requeued
    <3> HIDE DEF m, n
    <3>3. m.lease # None => m.lease.until <= now
      BY <3>1, <3>2 DEF Becomes, Kept
    <3> QED BY <3>3 DEF m
  <2> HIDE DEF id, seq
  <2>6. s \in W
    BY <2>2, RowIs
  <2>7. Follows(s0, s, now, X, AA)
    BY <2>6, TakenIs
  <2>8. until \in Nat
    BY LimitsAssumption
  <2> HIDE DEF s, X, until
  <2>9. Follows(s0, u, now, X, AA)
    BY <2>3, <2>5, <2>7, <2>8, FollowsLease
  <2>10. \A j \in D \ S : waits(u, seq[j])
    <3>1. Sound(s) /\ waits(s, id)
      BY <2>3, <2>7 DEF Follows, Whole
    <3>2. LeasesTo(s, id, consumer, until)
      BY <2>8, <3>1, LeaseIs
    <3>3. u.messages = Put(s.messages, id, Leased(s.messages[id], consumer, until))
      BY <3>2 DEF LeasesTo, IsStore
    <3> HIDE DEF u
    <3>4. \A i \in DOMAIN s.messages : i # id => i \in DOMAIN u.messages /\ u.messages[i] = s.messages[i]
      BY <3>3 DEF Put
    <3> QED BY <2>3, <3>4
  <2>11. u \in W
    BY <2>9, TakenIs
  <2> HIDE DEF u, W, waits
  <2>12. Append(acc, u) \in R /\ Last(Append(acc, u)) = u
    BY <2>2, <2>11, RowMore
  <2>13. settle(acc, id) = Append(acc, u)
    BY DEF u, s, until
  <2> HIDE DEF R, settle
  <2>14. Append(acc, u) \in Fam[S]
    BY <2>10, <2>12
  <2> QED BY <2>13, <2>14 DEF id, c
<1>8. \A S \in SUBSET D : Fam[S] \subseteq R
  OBVIOUS
<1> HIDE DEF seq, base, R, W, X, waits, settle, last, until
<1>9. PICK g : IsFold(g, D, ch, f, base) /\ \A S \in SUBSET D : g[S] \in Fam[S]
  <2>1. ASSUME NEW S \in SUBSET D, S # {}, NEW acc \in Fam[S \ {ch[S]}]
        PROVE  f[<<S, acc>>] \in Fam[S]
    <3>1. settle(acc, seq[ch[S]]) \in Fam[S]
      BY <1>7, <2>1
    <3>2. acc \in R
      BY <1>8, <2>1
    <3> HIDE DEF ch, Fam
    <3>3. f[<<S, acc>>] = settle(acc, seq[ch[S]])
      BY <3>2
    <3> QED BY <3>1, <3>3
  <2>2. \A S \in SUBSET D : S # {} => ch[S] \in S
    BY <1>6
  <2> HIDE DEF ch, f, Fam
  <2>3. FoldsIn(D, ch, Fam, f, base)
    BY <1>4, <1>5, <2>1, <2>2, FoldMakes
  <2> QED BY <2>3 DEF FoldsIn
<1>10. eq(g)
  <2> DEFINE e(S) == IF S = {} THEN base ELSE settle(g[S \ {Max(S)}], seq[Max(S)])
             e2(S) == IF S = {} THEN base ELSE f[<<S, g[S \ {ch[S]}]>>]
  <2>1. g = [S \in SUBSET D |-> e2(S)]
    BY <1>9 DEF IsFold
  <2>2. ASSUME NEW S \in SUBSET D
        PROVE  e2(S) = e(S)
    <3>1. CASE S = {}
      BY <3>1
    <3>2. CASE S # {}
      <4>1. ch[S] = Max(S) /\ g[S \ {ch[S]}] \in R
        BY <1>6, <1>9, <1>8, <3>2
      <4> HIDE DEF ch
      <4>2. f[<<S, g[S \ {ch[S]}]>>] = settle(g[S \ {ch[S]}], seq[ch[S]])
        BY <4>1
      <4> QED BY <3>2, <4>1, <4>2
    <3> QED BY <3>1, <3>2
  <2> HIDE DEF e2
  <2>3. g = [S \in SUBSET D |-> e(S)]
    BY <2>1, <2>2
  <2> QED BY <2>3
<1>11. eq(h)
  BY <1>10
<1>12. h[{}] \in Fam[{}]
  <2>1. h[{}] = base
    BY <1>11
  <2> HIDE DEF h, Fam
  <2> QED BY <1>4, <2>1
<1>13. \A S \in SUBSET D : S # {} /\ h[S \ {ch[S]}] \in Fam[S \ {ch[S]}] => h[S] \in Fam[S]
  <2> SUFFICES ASSUME NEW S \in SUBSET D, S # {}, h[S \ {ch[S]}] \in Fam[S \ {ch[S]}]
               PROVE  h[S] \in Fam[S]
    OBVIOUS
  <2>1. ch[S] = Max(S) /\ ch[S] \in S
    BY <1>6
  <2>2. h[S] = settle(h[S \ {Max(S)}], seq[Max(S)])
    BY <1>11
  <2> HIDE DEF h, ch, Fam
  <2> QED BY <1>7, <2>1, <2>2
<1>14. h[D] \in Fam[D]
  <2>1. \A S \in SUBSET D : S # {} => ch[S] \in S
    BY <1>6
  <2> HIDE DEF h, ch, Fam
  <2>2. \A S \in SUBSET D : h[S] \in Fam[S]
    BY <1>5, <1>12, <1>13, <2>1, FoldHolds
  <2> QED BY <2>2
<1> HIDE DEF h
<1> HIDE DEF Fam
<1>15. h[D] \in R
  BY <1>14, <1>8
<1> QED BY <1>1, <1>15 DEF R, W, X
-----------------------------------------------------------------------------
(***************************************************************************)
(* What is true of the store whatever the requests.                        *)
(***************************************************************************)
Pend(s, a) == Those(s.messages, DOMAIN s.messages, a, Pending)
Filled(s) == \A a \in Agent : Cardinality(Pend(s, a)) <= MaxInbox
Shared(s) == \A a \in Agent, b \in Agent \ Admins :
                a # b => Cardinality(Sent(s.messages, DOMAIN s.messages, a, b)) <= share(MaxInbox)

StoreInv(s, t) == /\ Whole(s) /\ Requeued(s, t) /\ Filled(s)
                  /\ Cardinality(DOMAIN s.agents) <= MaxAgents
                  /\ ~Renaming => KeysKept(s) /\ Shared(s)

\* Sets of messages of a sound store are finite.
LEMMA PendFinite ==
    ASSUME NEW s, Sound(s), NEW a
    PROVE  /\ IsFiniteSet(Pend(s, a)) /\ Cardinality(Pend(s, a)) \in Nat
           /\ \A b : /\ IsFiniteSet(Sent(s.messages, DOMAIN s.messages, a, b))
                     /\ Cardinality(Sent(s.messages, DOMAIN s.messages, a, b)) \in Nat
<1> DEFINE D == DOMAIN s.messages
<1>1. IsFiniteSet(D)
  BY SoundHas DEF AreMessages
<1>2. Pend(s, a) \in SUBSET D /\ \A b : Sent(s.messages, D, a, b) \in SUBSET D
  BY DEF Pend, Those, Sent
<1> HIDE DEF D
<1>3. IsFiniteSet(Pend(s, a)) /\ \A b : IsFiniteSet(Sent(s.messages, D, a, b))
  BY <1>1, <1>2, FS_Subset
<1> QED BY <1>3, FS_CardinalityType DEF D

\* Messages to handle are fewer, or the same, as those there were.
LEMMA FollowsFewer ==
    ASSUME NEW s0, NEW s, NEW t, NEW X, NEW AA, Follows(s0, s, t, X, AA), NEW a
    PROVE  /\ Pend(s, a) \subseteq Pend(s0, a)
           /\ \A b : Sent(s.messages, DOMAIN s.messages, a, b)
                       \subseteq Sent(s0.messages, DOMAIN s0.messages, a, b)
<1>1. \A i \in DOMAIN s.messages :
         /\ i \in DOMAIN s0.messages
         /\ s.messages[i].to = s0.messages[i].to /\ s.messages[i].from = s0.messages[i].from
         /\ s.messages[i].state \in Pending => s0.messages[i].state \in Pending
  BY DEF Follows, Comes
<1>2. Pend(s, a) \subseteq Pend(s0, a)
  BY <1>1 DEF Pend, Those
<1> QED BY <1>1, <1>2 DEF Pend, Sent, Those

\* What the requests do keeps it so.
LEMMA FollowsKeeps ==
    ASSUME NEW s0, NEW t \in Nat, StoreInv(s0, t), NEW s, NEW X, NEW AA, Follows(s0, s, t, X, AA),
           \A E \in AA : Cardinality(E) <= MaxAgents
    PROVE  StoreInv(s, t)
<1>1. Whole(s) /\ Sound(s) /\ Sound(s0)
  BY DEF Follows, Whole, StoreInv
<1>2. Requeued(s, t)
  <2> SUFFICES ASSUME NEW i \in DOMAIN s.messages, s.messages[i].state = "queued", s.messages[i].lease # None
               PROVE  s.messages[i].lease.until <= t
    BY DEF Requeued
  <2>1. i \in DOMAIN s0.messages /\ Comes(s0.messages[i], s.messages[i], t, i \in X)
    BY DEF Follows
  <2>2. CASE s.messages[i].lease.until <= t
    BY <2>2
  <2>3. CASE s0.messages[i].state = "queued" /\ s.messages[i].lease = s0.messages[i].lease
    BY <2>1, <2>3 DEF StoreInv, Requeued
  <2> QED BY <2>1, <2>2, <2>3 DEF Comes
<1>3. MaxInbox \in Nat /\ share(MaxInbox) \in Nat
  BY LimitsAssumption DEF share
<1>4. Filled(s)
  <2> SUFFICES ASSUME NEW a \in Agent PROVE Cardinality(Pend(s, a)) <= MaxInbox
    BY DEF Filled
  <2>1. Cardinality(Pend(s, a)) <= Cardinality(Pend(s0, a))
    BY <1>1, FollowsFewer, PendFinite, FS_Subset
  <2>2. Cardinality(Pend(s0, a)) <= MaxInbox
    BY DEF StoreInv, Filled
  <2>3. Cardinality(Pend(s0, a)) \in Nat /\ Cardinality(Pend(s, a)) \in Nat
    BY <1>1, PendFinite
  <2> QED BY <1>3, <2>1, <2>2, <2>3
<1>5. ~Renaming => KeysKept(s)
  BY DEF StoreInv, Follows
<1>6. ~Renaming => Shared(s)
  <2> SUFFICES ASSUME ~Renaming, NEW a \in Agent, NEW b \in Agent \ Admins, a # b
               PROVE  Cardinality(Sent(s.messages, DOMAIN s.messages, a, b)) <= share(MaxInbox)
    BY DEF Shared
  <2> DEFINE V == Sent(s.messages, DOMAIN s.messages, a, b)
             U == Sent(s0.messages, DOMAIN s0.messages, a, b)
  <2>1. V \subseteq U
    BY FollowsFewer
  <2>2. Cardinality(U) <= share(MaxInbox)
    BY DEF StoreInv, Shared
  <2>3. IsFiniteSet(U) /\ Cardinality(U) \in Nat /\ Cardinality(V) \in Nat
    BY <1>1, PendFinite
  <2> HIDE DEF U, V
  <2>4. Cardinality(V) <= Cardinality(U)
    BY <2>1, <2>3, FS_Subset
  <2>5. Cardinality(V) <= share(MaxInbox)
    BY <1>3, <2>2, <2>3, <2>4
  <2> QED BY <2>5 DEF V
<1>7. Cardinality(DOMAIN s.agents) <= MaxAgents
  BY DEF Follows
<1> QED BY <1>1, <1>2, <1>4, <1>5, <1>6, <1>7 DEF StoreInv

\* A message new to an inbox with room for it.
LEMMA MessageKeeps ==
    ASSUME NEW s, NEW t \in Nat, StoreInv(s, t), NEW id, id = s.last_id + 1, NEW m \in MessageType,
           m.to \in DOMAIN s.agents, m.lease = None,
           Cardinality(Pend(s, m.to)) < MaxInbox,
           \/ m.from \in Admins \/ m.to = m.from
           \/ Cardinality(Sent(s.messages, DOMAIN s.messages, m.to, m.from)) < share(MaxInbox),
           ~Renaming /\ m.key # None => \A i \in Keyed(s.messages) : KeyOf(s.messages[i]) # KeyOf(m)
    PROVE  StoreInv(apply_message(s, id, m), t)
<1> DEFINE u == apply_message(s, id, m)
           mm == s.messages
           D == DOMAIN mm
           E == D \cup {id}
           nn == Put(mm, id, m)
           k == s.msg_keys
           k2 == IF m.key = None THEN k ELSE Put(k, KeyOf(m), id)
<1>1. Sound(s) /\ Whole(s)
  BY DEF StoreInv, Whole
<1>2. MessageTo(s, id, m)
  BY <1>1, MessageIs
<1>3. /\ Sound(u) /\ u.last_id = id /\ u.messages = nn /\ DOMAIN u.agents = DOMAIN s.agents /\ u.msg_keys = k2
  BY <1>2 DEF MessageTo, IsStore
<1>4. id \notin D /\ IsFiniteSet(D)
  <2>1. D \subseteq 1 .. s.last_id /\ s.last_id \in Nat /\ IsFiniteSet(D)
    BY <1>1, SoundHas DEF Sound, AreMessages
  <2> HIDE DEF D
  <2> QED BY <2>1
<1>5. DOMAIN nn = E /\ nn[id] = m /\ \A i \in D : nn[i] = mm[i]
  BY <1>4 DEF Put
<1> HIDE DEF u, nn, k2
<1>6. Whole(u)
  <2>1. ASSUME NEW x \in DOMAIN u.msg_keys
        PROVE  u.msg_keys[x] \in Keyed(u.messages) /\ KeyOf(u.messages[u.msg_keys[x]]) = x
    <3>1. CASE m.key # None /\ x = KeyOf(m)
      <4>1. u.msg_keys[x] = id
        BY <1>3, <3>1 DEF Put, k2
      <4> QED BY <1>3, <1>5, <3>1, <4>1 DEF Keyed
    <3>2. CASE ~(m.key # None /\ x = KeyOf(m))
      <4>1. x \in DOMAIN k /\ u.msg_keys[x] = k[x]
        BY <1>3, <2>1, <3>2 DEF Put, k2
      <4>2. k[x] \in Keyed(mm) /\ KeyOf(mm[k[x]]) = x
        BY <1>1, <4>1 DEF Whole, KeysNamed
      <4>3. k[x] \in D /\ mm[k[x]].key # None /\ nn[k[x]] = mm[k[x]]
        BY <1>5, <4>2 DEF Keyed
      <4> HIDE DEF mm, k
      <4> QED BY <1>3, <1>5, <4>1, <4>2, <4>3 DEF Keyed
    <3> QED BY <3>1, <3>2
  <2>2. KeysNamed(u)
    BY <2>1 DEF KeysNamed
  <2> QED BY <1>1, <1>3, <1>5, <2>2 DEF Whole
<1>7. Requeued(u, t)
  BY <1>3, <1>5 DEF Requeued, StoreInv
<1>8. Cardinality(DOMAIN u.agents) <= MaxAgents
  BY <1>3 DEF StoreInv
<1>9. \A a : Those(mm, D, a, Pending) = Those(nn, D, a, Pending)
  BY <1>5 DEF Those
<1>10. MaxInbox \in Nat /\ share(MaxInbox) \in Nat
  BY LimitsAssumption DEF share
<1>11. Filled(u)
  <2> SUFFICES ASSUME NEW a \in Agent PROVE Cardinality(Pend(u, a)) <= MaxInbox
    BY DEF Filled
  <2>1. Joins(nn, D, id, a, Pending)
    BY <1>4, ThoseWith
  <2>2. Pend(s, a) = Those(nn, D, a, Pending) /\ Pend(u, a) = Those(nn, E, a, Pending)
    BY <1>3, <1>5, <1>9 DEF Pend
  <2>3. Cardinality(Pend(s, a)) \in Nat /\ Cardinality(Pend(s, a)) <= MaxInbox
    BY <1>1, PendFinite DEF StoreInv, Filled
  <2>4. CASE m.to = a
    BY <1>5, <1>10, <2>1, <2>2, <2>3, <2>4 DEF Joins
  <2>5. CASE m.to # a
    BY <1>5, <2>1, <2>2, <2>3, <2>5 DEF Joins
  <2> QED BY <2>4, <2>5
<1>12. ~Renaming => Shared(u)
  <2> SUFFICES ASSUME ~Renaming, NEW a \in Agent, NEW b \in Agent \ Admins, a # b
               PROVE  Cardinality(Sent(u.messages, DOMAIN u.messages, a, b)) <= share(MaxInbox)
    BY DEF Shared
  <2> DEFINE U == Sent(mm, D, a, b)
             V == Sent(nn, E, a, b)
  <2>1. SentJoins(nn, D, id, a, b)
    BY <1>4, SentWith
  <2>2. U = Sent(nn, D, a, b)
    BY <1>5, <1>9 DEF Sent, Those
  <2>3. Cardinality(U) \in Nat /\ Cardinality(U) <= share(MaxInbox)
    BY <1>1, PendFinite DEF StoreInv, Shared
  <2> HIDE DEF U, D, E
  <2>4. CASE m.to = a /\ m.state \in Pending /\ m.from = b
    <3>1. Cardinality(U) < share(MaxInbox)
      BY <2>4 DEF U, D
    <3>2. Cardinality(V) = Cardinality(U) + 1
      BY <1>5, <2>1, <2>2, <2>4 DEF SentJoins, E
    <3> HIDE DEF V
    <3>3. Cardinality(V) <= share(MaxInbox)
      BY <1>10, <2>3, <3>1, <3>2
    <3> QED BY <1>3, <1>5, <3>3 DEF V
  <2>5. CASE ~(m.to = a /\ m.state \in Pending /\ m.from = b)
    <3>1. V = U
      BY <1>5, <2>1, <2>2, <2>5 DEF SentJoins, E
    <3> HIDE DEF V
    <3>2. Cardinality(V) <= share(MaxInbox)
      BY <2>3, <3>1
    <3> QED BY <1>3, <1>5, <3>2 DEF V
  <2> QED BY <2>4, <2>5
<1>13. ~Renaming => KeysKept(u)
  <2> SUFFICES ASSUME ~Renaming, NEW i \in Keyed(u.messages)
               PROVE  /\ KeyOf(u.messages[i]) \in DOMAIN u.msg_keys
                      /\ u.msg_keys[KeyOf(u.messages[i])] = i
    BY DEF KeysKept
  <2>1. KeysKept(s)
    BY DEF StoreInv
  <2>2. CASE i = id
    <3>1. m.key # None /\ u.messages[i] = m
      BY <1>3, <1>5, <2>2 DEF Keyed
    <3>2. u.msg_keys = Put(k, KeyOf(m), id)
      BY <1>3, <3>1 DEF k2
    <3> QED BY <2>2, <3>1, <3>2 DEF Put
  <2>3. CASE i # id
    <3>1. i \in Keyed(mm) /\ u.messages[i] = mm[i]
      BY <1>3, <1>5, <2>3 DEF Keyed
    <3>2. KeyOf(mm[i]) \in DOMAIN k /\ k[KeyOf(mm[i])] = i
      BY <2>1, <3>1 DEF KeysKept
    <3>3. m.key # None => KeyOf(mm[i]) # KeyOf(m)
      BY <3>1
    <3> HIDE DEF mm, k
    <3> QED BY <1>3, <3>1, <3>2, <3>3 DEF Put, k2
  <2> QED BY <2>2, <2>3
<1> QED BY <1>6, <1>7, <1>8, <1>11, <1>12, <1>13 DEF StoreInv, u

\* A rename to a name that is free, which is one only where agents are renamed.
LEMMA RenameKeeps ==
    ASSUME NEW s, NEW t \in Nat, StoreInv(s, t), Renaming, NEW from \in DOMAIN s.agents,
           NEW to \in Agent, to \notin DOMAIN s.agents
    PROVE  StoreInv(apply_rename(s, from, to), t)
<1> DEFINE u == apply_rename(s, from, to)
           mm == s.messages
           D == DOMAIN mm
           nn == Renamed(mm, from, to)
           A == DOMAIN s.agents
           B == (A \ {from}) \cup {to}
<1>1. Whole(s) /\ Sound(s)
  BY DEF StoreInv, Whole
<1>2. RenamesTo(s, from, to)
  BY <1>1, RenameIs
<1>3. /\ Sound(u) /\ u.messages = nn /\ DOMAIN u.agents = B
      /\ u.msg_keys = KeysAgain(u.messages)
  BY <1>2 DEF RenamesTo, IsStore
<1>4. DOMAIN nn = D /\ \A i \in D : nn[i] = RenamedOf(mm[i], from, to)
  BY DEF Renamed
<1> HIDE DEF u, nn, mm
<1>5. ASSUME NEW i \in D
      PROVE  /\ mm[i].to \in A /\ nn[i].to = Named(from, to, mm[i].to) /\ nn[i].state = mm[i].state
             /\ nn[i].lease = mm[i].lease
  <2>1. mm[i] \in MessageType
    BY <1>1, SoundHas DEF mm
  <2>2. mm[i].to \in A
    BY <1>1 DEF Whole, mm
  <2> QED BY <1>4, <2>1, <2>2, RenamedOfIs
<1>6. Whole(u)
  BY <1>3, <1>4, <1>5, NamedAgain DEF Whole, Named
<1>7. Requeued(u, t)
  BY <1>3, <1>4, <1>5 DEF Requeued, StoreInv, mm
<1>8. Cardinality(DOMAIN u.agents) <= MaxAgents
  <2>1. IsFiniteSet(A) /\ Cardinality(A) \in Nat /\ Cardinality(A) <= MaxAgents
    BY <1>1, FS_CardinalityType DEF Sound, StoreInv
  <2> HIDE DEF A
  <2>2. IsFiniteSet(A \ {from}) /\ Cardinality(A \ {from}) = Cardinality(A) - 1
    BY <2>1, FS_RemoveElement DEF A
  <2>3. to \notin A \ {from}
    BY DEF A
  <2>4. Cardinality(B) = Cardinality(A \ {from}) + 1
    BY <2>2, <2>3, FS_AddElement
  <2> HIDE DEF B
  <2>5. Cardinality(B) <= MaxAgents
    BY <2>1, <2>2, <2>4
  <2> QED BY <1>3, <2>5
<1>9. Filled(u)
  <2> SUFFICES ASSUME NEW a \in Agent PROVE Cardinality(Pend(u, a)) <= MaxInbox
    BY DEF Filled
  <2>1. Pend(u, a) = {i \in D : Named(from, to, mm[i].to) = a /\ mm[i].state \in Pending}
    BY <1>3, <1>4, <1>5 DEF Pend, Those
  <2>2. \A b : Pend(s, b) = {i \in D : mm[i].to = b /\ mm[i].state \in Pending}
    BY DEF Pend, Those, mm
  <2>3. \A b \in Agent : Cardinality(Pend(s, b)) <= MaxInbox
    BY DEF StoreInv, Filled
  <2>4. from \in Agent /\ A \subseteq Agent
    BY <1>1 DEF Sound
  <2>5. CASE a = to
    <3>1. Pend(u, a) = Pend(s, from)
      BY <1>5, <2>1, <2>2, <2>5 DEF Named
    <3> QED BY <2>3, <2>4, <3>1
  <2>6. CASE a # to
    <3>1. Pend(u, a) \subseteq Pend(s, a)
      BY <1>5, <2>1, <2>2, <2>6 DEF Named
    <3>2. IsFiniteSet(Pend(s, a)) /\ Cardinality(Pend(s, a)) \in Nat
      BY <1>1, PendFinite
    <3>3. Cardinality(Pend(u, a)) <= Cardinality(Pend(s, a)) /\ Cardinality(Pend(u, a)) \in Nat
      BY <1>6, <3>1, <3>2, FS_Subset, PendFinite DEF Whole
    <3>4. MaxInbox \in Nat
      BY LimitsAssumption
    <3> QED BY <2>3, <3>2, <3>3, <3>4
  <2> QED BY <2>5, <2>6
<1> QED BY <1>6, <1>7, <1>8, <1>9 DEF StoreInv, u

\* A store read back has the messages and the agents there were.
LEMMA RestartFollows ==
    ASSUME NEW s, Whole(s), NEW t, NEW X, NEW AA, DOMAIN s.agents \in AA
    PROVE  Follows(s, retrack(reindex(s)), t, X, AA)
<1> DEFINE u == retrack(reindex(s))
           mm == s.messages
           k == KeysAgain(mm)
<1>1. Sound(s) /\ RestartsTo(s)
  BY RestartIs DEF Whole
<1>2. /\ Sound(u) /\ u.last_id = s.last_id /\ u.messages = mm /\ DOMAIN u.agents = DOMAIN s.agents
      /\ u.msg_keys = k
  BY <1>1 DEF RestartsTo, IsStore
<1> HIDE DEF u
<1>3. Whole(u)
  BY <1>2, NamedAgain DEF Whole
<1>4. /\ DOMAIN k = {KeyOf(mm[i]) : i \in Keyed(mm)}
      /\ \A x \in DOMAIN k : k[x] \in {i \in Keyed(mm) : KeyOf(mm[i]) = x}
  <2>1. s.last_id \in Nat /\ mm \in Maps(1 .. s.last_id, MessageType)
    BY <1>1 DEF Sound
  <2> HIDE DEF mm
  <2> QED BY <2>1, KeysAgainIs
<1> HIDE DEF k
<1>5. KeysKept(s) => KeysKept(u)
  <2> SUFFICES ASSUME KeysKept(s), NEW i \in Keyed(mm)
               PROVE  KeyOf(mm[i]) \in DOMAIN k /\ k[KeyOf(mm[i])] = i
    BY <1>2 DEF KeysKept
  <2> DEFINE x == KeyOf(mm[i])
             j == k[x]
  <2>1. x \in DOMAIN k
    BY <1>4
  <2>2. j \in Keyed(mm) /\ KeyOf(mm[j]) = x
    <3> HIDE DEF x
    <3> QED BY <1>4, <2>1
  <2>3. s.msg_keys[x] = i /\ s.msg_keys[x] = j
    <3> HIDE DEF j
    <3> QED BY <2>2 DEF KeysKept
  <2> QED BY <2>1, <2>3
<1>6. \A i \in DOMAIN mm : Comes(mm[i], mm[i], t, i \in X)
  <2> SUFFICES ASSUME NEW i \in DOMAIN mm PROVE Comes(mm[i], mm[i], t, i \in X)
    OBVIOUS
  <2>1. mm[i] \in MessageType
    BY <1>1, SoundHas
  <2>2. mm[i].deliveries \in 0 .. MaxDeliveries /\ MaxDeliveries \in Nat
    BY <2>1, MessageHas, LimitsAssumption
  <2> HIDE DEF mm
  <2> QED BY <2>2 DEF Comes
<1> QED BY <1>2, <1>3, <1>5, <1>6 DEF Follows, u
-----------------------------------------------------------------------------
(***************************************************************************)
(* What each request makes of the store.                                   *)
(***************************************************************************)
Evicts(names, gone) == /\ gone \in SUBSET (removable(store) \ names)
                       /\ Follows(store, store', now, {}, Roomy(DOMAIN store.agents, gone, names))
Messages(a) == {i \in DOMAIN store.messages : store.messages[i].to = a}
Free(to) == IF to \in DOMAIN store.agents THEN apply_forget(store, to) ELSE store

\* Commits of a row that settles.
LEMMA CommitFollows ==
    ASSUME Whole(store), NEW X, NEW AA, NEW r \in Rows(Made(store, now, X, AA)), NEW done, Commit(r, done)
    PROVE  Follows(store, store', now, X, AA)
<1> DEFINE W == Made(store, now, X, AA)
<1>1. store' \in W
  <2> HIDE DEF W
  <2> QED BY CommitIs DEF W
<1>2. Settles(store, store', now, X, AA)
  BY <1>1, MadeIs
<1> QED BY <1>2, SettlesFollows DEF Whole

\* Making room for names.
LEMMA EvictStep ==
    ASSUME StoreInv(store, now), NEW names \in SUBSET Agent, IsFiniteSet(names),
           NEW steps \in ensure_agents(names), NEW done, Commit(steps, done)
    PROVE  \E gone : Evicts(names, gone) /\ (done => names \subseteq DOMAIN store'.agents)
<1>1. PICK gone \in SUBSET (removable(store) \ names) : Ensures(store, steps, gone, names, now)
  BY EnsureIs DEF StoreInv
<1>2. Follows(store, store', now, {}, Roomy(DOMAIN store.agents, gone, names))
  BY <1>1, CommitFollows DEF Ensures, StoreInv
<1>3. done => names \subseteq DOMAIN store'.agents
  BY <1>1 DEF Ensures, Commit
<1> QED BY <1>2, <1>3 DEF Evicts

\* Forgetting by name.
LEMMA ForgetStep ==
    ASSUME StoreInv(store, now), NEW a, forget(a)
    PROVE  Follows(store, store', now, Messages(a), Between(DOMAIN store.agents \ {a}, DOMAIN store.agents))
<1> DEFINE A == DOMAIN store.agents
           X == Messages(a)
           AA == Between(A \ {a}, A)
           s == apply_forget(store, a)
           W == Made(store, now, X, AA)
<1>1. Whole(store)
  BY DEF StoreInv
<1>2. A \in AA /\ A \ {a} \in AA
  BY DEF Between
<1> HIDE DEF AA
<1>3. Settles(store, store, now, X, AA)
  BY <1>1, <1>2, SettlesNone
<1>4. \A i \in DOMAIN store.messages :
         store.messages[i].to = a => store.messages[i].state \notin Pending \/ i \in X
  BY DEF Messages
<1> HIDE DEF X
<1>5. Settles(store, s, now, X, AA)
  BY <1>2, <1>3, <1>4, SettlesForget
<1>6. store \in W /\ s \in W
  BY <1>3, <1>5, MadeIs
<1> HIDE DEF W, s
<1>7. <<store>> \in Rows(W) /\ Last(<<store>>) = store
  BY <1>6, RowOne
<1>8. Append(<<store>>, s) \in Rows(W)
  BY <1>6, <1>7, RowMore
<1>9. PICK done \in BOOLEAN : Commit(Append(<<store>>, s), done)
  BY <1>7 DEF forget, forgotten, s
<1> QED BY <1>1, <1>8, <1>9, CommitFollows DEF W, X, AA

\* An agent that may be removed has nothing to handle.
LEMMA NothingToHandle ==
    ASSUME Whole(store), NEW i \in DOMAIN store.messages, pending_count(store, store.messages[i].to) = 0
    PROVE  store.messages[i].state \notin Pending
<1> DEFINE a == store.messages[i].to
           P == Those(store.messages, DOMAIN store.messages, a, Pending)
<1> SUFFICES ASSUME store.messages[i].state \in Pending PROVE FALSE
  OBVIOUS
<1>1. a \in DOMAIN store.agents /\ Sound(store)
  BY DEF Whole
<1>2. Cardinality(P) = 0
  BY <1>1, ReadIs DEF Read
<1>3. i \in P
  BY DEF Those
<1>4. IsFiniteSet(P)
  BY <1>1, PendFinite DEF Pend
<1> HIDE DEF P
<1> QED BY <1>2, <1>3, <1>4, FS_EmptySet

\* Cleaning up.
LEMMA CleanupStep ==
    ASSUME StoreInv(store, now), cleanup
    PROVE  Follows(store, store', now, {},
                   Between(DOMAIN store.agents \ removable(store), DOMAIN store.agents))
<1> DEFINE gone == removable(store)
           r == Forgotten(store, gone)
<1>1. Whole(store) /\ gone \in SUBSET DOMAIN store.agents
  BY DEF StoreInv, removable
<1>2. \A i \in DOMAIN store.messages : store.messages[i].to \in gone => store.messages[i].state \notin Pending
  BY <1>1, NothingToHandle DEF removable
<1>3. PICK done \in BOOLEAN : Commit(r, done)
  BY DEF cleanup, Forgotten
<1> HIDE DEF gone
<1>4. r \in Rows(Made(store, now, {}, Between(DOMAIN store.agents \ gone, DOMAIN store.agents)))
  BY <1>1, <1>2, ForgottenIs
<1> HIDE DEF r
<1>5. Follows(store, store', now, {}, Between(DOMAIN store.agents \ gone, DOMAIN store.agents))
  BY <1>1, <1>3, <1>4, CommitFollows
<1> QED BY <1>5 DEF gone

\* The sweep.
LEMMA SweepStep ==
    ASSUME StoreInv(store, now), now \in Nat, sweep
    PROVE  Follows(store, store', now, UpAt(store, now), {DOMAIN store.agents})
<1>1. Whole(store)
  BY DEF StoreInv
<1>2. PICK done \in BOOLEAN : Commit(sweep_due(<<store>>), done)
  BY DEF sweep
<1>3. sweep_due(<<store>>) \in Rows(Made(store, now, UpAt(store, now), {DOMAIN store.agents}))
  BY <1>1, SweepIs
<1> QED BY <1>1, <1>2, <1>3, CommitFollows

\* Leasing.
LEMMA LeaseStep ==
    ASSUME StoreInv(store, now), now \in Nat, NEW inbox, NEW consumer \in Consumer, NEW limit \in Nat,
           NEW only, lease(inbox, consumer, limit, only)
    PROVE  Follows(store, store', now, UpAt(store, now), {DOMAIN store.agents})
<1> DEFINE r == Grants(store, inbox, consumer, limit, only)
           W == Taken(store, now, UpAt(store, now), {DOMAIN store.agents})
<1>1. Whole(store) /\ Requeued(store, now)
  BY DEF StoreInv
<1>2. PICK done \in BOOLEAN : Commit(r, done)
  BY DEF lease, Grants, Chosen, Swept
<1>3. r \in Rows(W)
  BY <1>1, GrantsAre
<1> HIDE DEF r, W
<1>4. store' \in W
  BY <1>2, <1>3, CommitIs
<1> QED BY <1>4, TakenIs DEF W

\* Receipts come one or two at a time.
LEMMA ReceiptsAre == \A r \in Receipts : \E n \in Nat : DOMAIN r = 1 .. n
<1> SUFFICES ASSUME NEW r \in Receipts PROVE \E n \in Nat : DOMAIN r = 1 .. n
  OBVIOUS
<1>1. (\E x : r = <<x>>) \/ (\E x, y : r = <<x, y>>)
  BY DEF Receipts
<1>2. CASE \E x : r = <<x>>
  <2>1. DOMAIN r = 1 .. 1
    BY <1>2
  <2> QED BY <2>1
<1>3. CASE \E x, y : r = <<x, y>>
  <2>1. DOMAIN r = 1 .. 2
    BY <1>3
  <2> QED BY <2>1
<1> QED BY <1>1, <1>2, <1>3

\* Acknowledging.
LEMMA AckStep ==
    ASSUME StoreInv(store, now), now \in Nat, NEW inbox, NEW receipts \in Receipts, NEW consumer,
           ack(inbox, receipts, consumer)
    PROVE  Follows(store, store', now, Held(store, inbox), {DOMAIN store.agents})
<1> DEFINE X == Held(store, inbox)
           AA == {DOMAIN store.agents}
           acked == Acks(store, inbox, receipts, consumer)
           r == IF Len(acked) > 1 THEN trim_history(acked, inbox) ELSE acked
<1>1. Whole(store) /\ DOMAIN store.agents \in AA
  BY DEF StoreInv
<1>2. PICK done \in BOOLEAN : Commit(r, done)
  BY DEF ack, Acks
<1>3. PICK n \in Nat : DOMAIN receipts = 1 .. n
  BY ReceiptsAre
<1> HIDE DEF AA
<1>4. acked \in Rows(Made(store, now, X, AA))
  BY <1>1, <1>3, AcksAre
<1> HIDE DEF X, acked
<1>5. trim_history(acked, inbox) \in Rows(Made(store, now, X, AA))
  BY <1>4, TrimIs
<1>6. r \in Rows(Made(store, now, X, AA))
  BY <1>4, <1>5
<1> HIDE DEF r
<1> QED BY <1>1, <1>2, <1>6, CommitFollows DEF X, AA

\* Purging.
LEMMA PurgeStep ==
    ASSUME StoreInv(store, now), NEW inbox, purge(inbox)
    PROVE  Follows(store, store', now, Messages(inbox), {DOMAIN store.agents})
<1> DEFINE X == Messages(inbox)
           AA == {DOMAIN store.agents}
           S == store.agents[inbox].inbox
           s == apply_drop(store, S)
           W == Made(store, now, X, AA)
<1>1. Whole(store) /\ Sound(store) /\ DOMAIN store.agents \in AA /\ inbox \in DOMAIN store.agents
  BY DEF StoreInv, Whole, purge
<1>2. S = X
  BY <1>1, ReadIs DEF Read, Messages
<1>3. X \in SUBSET DOMAIN store.messages
  BY DEF Messages
<1> HIDE DEF X, AA, S
<1>4. Settles(store, store, now, X, AA)
  BY <1>1, SettlesNone
<1>5. Settles(store, s, now, X, AA)
  BY <1>2, <1>3, <1>4, SettlesDrop
<1>6. store \in W /\ s \in W
  BY <1>4, <1>5, MadeIs
<1>7. PICK done \in BOOLEAN : Commit(<<store, s>>, done)
  BY DEF purge, s, S
<1> HIDE DEF W, s
<1>8. <<store, s>> \in Rows(W)
  BY <1>6 DEF Rows
<1> QED BY <1>1, <1>7, <1>8, CommitFollows DEF W, X, AA

\* Starting again.
LEMMA RestartStep ==
    ASSUME StoreInv(store, now), restart
    PROVE  Follows(store, store', now, {}, {DOMAIN store.agents})
<1>1. Whole(store) /\ store' = retrack(reindex(store))
  BY DEF StoreInv, restart
<1> QED BY <1>1, RestartFollows

\* A name to be taken, free of the agent that had it.
LEMMA FreeIs ==
    ASSUME StoreInv(store, now), NEW to, pending_count(store, to) = 0
    PROVE  /\ Settles(store, Free(to), now, {}, Between(DOMAIN store.agents \ {to}, DOMAIN store.agents))
           /\ DOMAIN Free(to).agents = DOMAIN store.agents \ {to}
<1> DEFINE A == DOMAIN store.agents
           AA == Between(A \ {to}, A)
<1>1. Whole(store) /\ Sound(store)
  BY DEF StoreInv, Whole
<1>2. A \in AA /\ A \ {to} \in AA
  BY DEF Between
<1> HIDE DEF AA
<1>3. Settles(store, store, now, {}, AA)
  BY <1>1, <1>2, SettlesNone
<1>4. CASE to \in A
  <2>1. Free(to) = apply_forget(store, to)
    BY <1>4 DEF Free
  <2>2. \A i \in DOMAIN store.messages :
           store.messages[i].to = to => store.messages[i].state \notin Pending \/ i \in {}
    BY <1>1, NothingToHandle
  <2>3. Settles(store, apply_forget(store, to), now, {}, AA)
    BY <1>2, <1>3, <2>2, SettlesForget
  <2>4. ForgetsTo(store, to)
    BY <1>1, <1>4, ForgetIs
  <2> QED BY <2>1, <2>3, <2>4 DEF ForgetsTo, IsStore, AA
<1>5. CASE to \notin A
  BY <1>3, <1>5 DEF Free, AA
<1> QED BY <1>4, <1>5

\* What a rename makes: nothing but room for the name, or the store under it.
RenamesFree(from, to) ==
    /\ store' = apply_rename(Free(to), from, to)
    /\ sessions' = [x \in {y \in DOMAIN sessions : sessions[y].agent # to} |->
                       [sessions[x] EXCEPT !.agent = Named(from, to, @)]]
    /\ roomed' = {Named(from, to, a) : a \in roomed \ {to}}

\* Renaming.
LEMMA RenameStep ==
    ASSUME StoreInv(store, now), NEW from, NEW to, rename(from, to)
    PROVE  \/ RenamesFree(from, to)
           \/ /\ Follows(store, store', now, {}, Between(DOMAIN store.agents \ {to}, DOMAIN store.agents))
              /\ Follow
<1> DEFINE A == DOMAIN store.agents
           AA == Between(A \ {to}, A)
           s == Free(to)
           u == apply_rename(s, from, to)
           forgetting == IF to \in A THEN forgotten(<<store>>, to) ELSE <<store>>
           r == Append(forgetting, apply_rename(Last(forgetting), from, to))
           W == Made(store, now, {}, AA)
<1>1. Whole(store) /\ Sound(store)
  BY DEF StoreInv, Whole
<1>2. pending_count(store, to) = 0
  BY DEF rename
<1>3. Settles(store, s, now, {}, AA)
  BY <1>2, FreeIs
<1>4. Settles(store, store, now, {}, AA)
  <2>1. A \in AA
    BY DEF Between
  <2> HIDE DEF AA
  <2> QED BY <1>1, <2>1, SettlesNone
<1>5. store \in W /\ s \in W
  BY <1>3, <1>4, MadeIs
<1>6. forgetting \in Rows(W) /\ Last(forgetting) = s
  <2> HIDE DEF W
  <2>1. <<store>> \in Rows(W) /\ Last(<<store>>) = store
    BY <1>5, RowOne
  <2>2. CASE to \in A
    <3>1. s = apply_forget(store, to) /\ forgetting = Append(<<store>>, apply_forget(store, to))
      BY <2>1, <2>2 DEF forgotten, Free
    <3> HIDE DEF forgetting, s
    <3> QED BY <1>5, <2>1, <3>1, RowMore
  <2>3. CASE to \notin A
    BY <2>1, <2>3 DEF Free
  <2> QED BY <2>2, <2>3
<1>7. \/ /\ Commit(r, TRUE)
         /\ sessions' = [x \in {y \in DOMAIN sessions : sessions[y].agent # to} |->
                            [sessions[x] EXCEPT !.agent = Named(from, to, @)]]
         /\ roomed' = {Named(from, to, a) : a \in roomed \ {to}}
      \/ Commit(r, FALSE) /\ Follow
  BY DEF rename, Named
<1>8. r = Append(forgetting, u)
  BY <1>6
<1> HIDE DEF r, forgetting, W, u
<1>9. Len(forgetting) \in Nat /\ forgetting \in Seq(W) /\ \A i \in 1 .. Len(forgetting) : forgetting[i] \in W
  BY <1>6, RowIs DEF Rows
<1>10. Len(r) = Len(forgetting) + 1 /\ Last(r) = u /\ \A i \in 1 .. Len(forgetting) : r[i] = forgetting[i]
  BY <1>8, <1>9 DEF Last
<1>11. ASSUME Commit(r, TRUE) PROVE store' = apply_rename(Free(to), from, to)
  BY <1>10, <1>11 DEF Commit, u, s
<1>12. CASE Commit(r, FALSE) /\ Follow
  <2>1. PICK i \in 1 .. Len(r) - 1 : store' = r[i]
    BY <1>12 DEF Commit
  <2>2. store' \in W
    BY <1>9, <1>10, <2>1
  <2>3. Settles(store, store', now, {}, AA)
    BY <2>2, MadeIs DEF W
  <2>4. Follows(store, store', now, {}, AA)
    BY <1>1, <2>3, SettlesFollows
  <2> QED BY <1>12, <2>4
<1> HIDE DEF AA
<1> QED BY <1>7, <1>11, <1>12 DEF RenamesFree, AA

\* What is counted of an inbox is what is there, also of a name nobody has.
LEMMA PendingIs ==
    ASSUME NEW s, Whole(s), NEW a
    PROVE  /\ pending_count(s, a) = Cardinality(Pend(s, a))
           /\ \A b \in Agent : pending_from(s, a, b) = Cardinality(Sent(s.messages, DOMAIN s.messages, a, b))
<1>1. CASE a \in DOMAIN s.agents
  BY <1>1, ReadIs DEF Read, Whole, Pend
<1>2. CASE a \notin DOMAIN s.agents
  <2>1. Pend(s, a) = {} /\ \A b : Sent(s.messages, DOMAIN s.messages, a, b) = {}
    BY <1>2 DEF Whole, Pend, Those, Sent
  <2>2. Cardinality({}) = 0
    BY FS_EmptySet
  <2> QED BY <1>2, <2>1, <2>2, Zenon DEF pending_count, pending_from
<1> QED BY <1>1, <1>2

\* The message that is sent.
Fresh(from, to, key) ==
    [from |-> from, to |-> to, key |-> key, state |-> "queued", deliveries |-> 0,
     expires |-> now + MsgTtlMs, lease |-> None, settled |-> None]

\* It is one.
LEMMA FreshIs ==
    ASSUME NEW from \in Agent, NEW to \in Agent, NEW key \in Key \cup {None}, now \in Nat
    PROVE  Fresh(from, to, key) \in MessageType
<1>1. now + MsgTtlMs \in Nat /\ MaxDeliveries \in Nat /\ 0 < MaxDeliveries
  BY LimitsAssumption
<1>2. Fresh(from, to, key) \in MessageFields
  BY <1>1 DEF Fresh, MessageFields, State, Pending
<1> QED BY <1>1, <1>2 DEF Fresh, MessageType, Pending

\* A store with room for a message that is not in it.
Takes(s, m) ==
    /\ m.to \in DOMAIN s.agents
    /\ Cardinality(Pend(s, m.to)) < MaxInbox
    /\ \/ m.from \in Admins \/ m.to = m.from
       \/ Cardinality(Sent(s.messages, DOMAIN s.messages, m.to, m.from)) < share(MaxInbox)
    /\ ~Renaming /\ m.key # None => \A i \in Keyed(s.messages) : KeyOf(s.messages[i]) # KeyOf(m)

\* What a send checks in the store as it was holds of the one that takes the message.
LEMMA TakesIt ==
    ASSUME StoreInv(store, now), now \in Nat, NEW from \in Agent, NEW to \in Agent,
           NEW key \in Key \cup {None}, send(from, to, key),
           NEW s, NEW AA, Follows(store, s, now, {}, AA), to \in DOMAIN s.agents
    PROVE  Takes(s, Fresh(from, to, key))
<1> DEFINE m == Fresh(from, to, key)
           mm == store.messages
           nn == s.messages
<1>1. Whole(store) /\ Sound(store) /\ Whole(s) /\ Sound(s)
  BY DEF StoreInv, Whole, Follows
<1>2. m.to = to /\ m.from = from /\ m.key = key
  BY DEF Fresh
<1>3. Pend(s, to) \subseteq Pend(store, to) /\ Sent(nn, DOMAIN nn, to, from) \subseteq Sent(mm, DOMAIN mm, to, from)
  BY FollowsFewer
<1>4. /\ IsFiniteSet(Pend(store, to)) /\ Cardinality(Pend(store, to)) \in Nat
      /\ IsFiniteSet(Sent(mm, DOMAIN mm, to, from)) /\ Cardinality(Sent(mm, DOMAIN mm, to, from)) \in Nat
      /\ Cardinality(Pend(s, to)) \in Nat /\ Cardinality(Sent(nn, DOMAIN nn, to, from)) \in Nat
  BY <1>1, PendFinite
<1>5. /\ Cardinality(Pend(s, to)) <= Cardinality(Pend(store, to))
      /\ Cardinality(Sent(nn, DOMAIN nn, to, from)) <= Cardinality(Sent(mm, DOMAIN mm, to, from))
  BY <1>3, <1>4, FS_Subset
<1>6. /\ pending_count(store, to) = Cardinality(Pend(store, to))
      /\ pending_from(store, to, from) = Cardinality(Sent(mm, DOMAIN mm, to, from))
  BY <1>1, PendingIs
<1>7. MaxInbox \in Nat /\ share(MaxInbox) \in Nat
  BY LimitsAssumption DEF share
<1>8. /\ pending_count(store, to) < MaxInbox
      /\ from \in Admins \/ to = from \/ pending_from(store, to, from) < share(MaxInbox)
      /\ ~sent_before(to, from, key)
  BY DEF send
<1>9. Cardinality(Pend(s, to)) < MaxInbox
  BY <1>4, <1>5, <1>6, <1>7, <1>8
<1>10. from \in Admins \/ to = from \/ Cardinality(Sent(nn, DOMAIN nn, to, from)) < share(MaxInbox)
  BY <1>4, <1>5, <1>6, <1>7, <1>8
<1>11. ASSUME ~Renaming, key # None, NEW i \in Keyed(nn) PROVE KeyOf(nn[i]) # <<to, from, key>>
  <2>1. KeysKept(store) /\ <<to, from, key>> \notin DOMAIN store.msg_keys
    BY <1>8, <1>11 DEF StoreInv, sent_before
  <2>2. i \in DOMAIN nn /\ nn[i].key # None
    BY DEF Keyed
  <2>3. i \in DOMAIN mm /\ nn[i].to = mm[i].to /\ nn[i].from = mm[i].from /\ nn[i].key = mm[i].key
    BY <2>2 DEF Follows, Comes
  <2>4. i \in Keyed(mm) /\ KeyOf(nn[i]) = KeyOf(mm[i])
    BY <2>2, <2>3 DEF Keyed, KeyOf
  <2>5. KeyOf(mm[i]) \in DOMAIN store.msg_keys
    BY <2>1, <2>4 DEF KeysKept
  <2> QED BY <2>1, <2>4, <2>5
<1>12. KeyOf(m) = <<to, from, key>>
  BY <1>2 DEF KeyOf
<1> HIDE DEF m
<1> QED BY <1>2, <1>9, <1>10, <1>11, <1>12 DEF Takes, m

\* What a send makes of the store, once there is room for its names.
Sends(m, gone, s) ==
    LET u == apply_message(s, store.last_id + 1, m)
    IN  /\ gone \in SUBSET (removable(store) \ {m.from, m.to})
        /\ Settles(store, s, now, {}, Roomy(DOMAIN store.agents, gone, {m.from, m.to}))
        /\ StoreInv(u, now)
        /\ MessageTo(s, store.last_id + 1, m)
        /\ Settles(u, store', now, {}, {DOMAIN u.agents})

\* Sending.
LEMMA SendStep ==
    ASSUME StoreInv(store, now), now \in Nat, NEW from \in Agent, NEW to \in Agent,
           NEW key \in Key \cup {None}, send(from, to, key)
    PROVE  \/ \E gone : Evicts({from, to}, gone)
           \/ \E gone, s : Sends(Fresh(from, to, key), gone, s)
<1> DEFINE m == Fresh(from, to, key)
           names == {from, to}
           id == store.last_id + 1
<1>1. Whole(store) /\ Sound(store) /\ Cardinality(DOMAIN store.agents) <= MaxAgents
  BY DEF StoreInv, Whole
<1>2. m.to = to /\ m.from = from /\ m.lease = None /\ m \in MessageType
  BY FreshIs DEF Fresh
<1>3. PICK steps \in ensure_agents(names), done \in BOOLEAN :
         Commit(trim_history(Append(steps, apply_message(Last(steps), id, m)), to), done)
  BY DEF send, Fresh
<1> HIDE DEF m
<1>4. names \in SUBSET Agent /\ IsFiniteSet(names)
  <2>1. IsFiniteSet({}) /\ names = ({} \cup {from}) \cup {to}
    BY FS_EmptySet
  <2>2. IsFiniteSet({} \cup {from})
    BY <2>1, FS_AddElement
  <2>3. IsFiniteSet(({} \cup {from}) \cup {to})
    BY <2>2, FS_AddElement
  <2> QED BY <2>1, <2>3
<1> HIDE DEF names
<1>5. PICK gone \in SUBSET (removable(store) \ names) : Ensures(store, steps, gone, names, now)
  BY <1>1, <1>3, <1>4, EnsureIs
<1> DEFINE AA == Roomy(DOMAIN store.agents, gone, names)
           W == Made(store, now, {}, AA)
           s == Last(steps)
           u == apply_message(s, id, m)
           row == Append(steps, u)
           r == trim_history(row, to)
<1>6. steps \in Rows(W) /\ names \subseteq DOMAIN s.agents
  BY <1>5 DEF Ensures
<1> HIDE DEF W
<1>7. s \in W /\ Len(steps) \in Nat /\ steps \in Seq(W) /\ \A i \in 1 .. Len(steps) : steps[i] \in W
  BY <1>6, RowIs DEF Rows
<1>8. \A v \in W : Settles(store, v, now, {}, AA) /\ Follows(store, v, now, {}, AA)
  <2> SUFFICES ASSUME NEW v \in W PROVE Settles(store, v, now, {}, AA) /\ Follows(store, v, now, {}, AA)
    OBVIOUS
  <2>1. Settles(store, v, now, {}, AA)
    BY MadeIs DEF W
  <2> QED BY <1>1, <2>1, SettlesFollows
<1>9. Settles(store, s, now, {}, AA) /\ Follows(store, s, now, {}, AA)
  BY <1>7, <1>8
<1>10. StoreInv(s, now) /\ s.last_id = store.last_id
  <2>1. \A E \in AA : Cardinality(E) <= MaxAgents
    BY DEF Roomy
  <2> HIDE DEF AA, s
  <2> QED BY <1>9, <2>1, FollowsKeeps DEF Follows
<1>11. to \in DOMAIN s.agents
  BY <1>6 DEF names
<1>12. Takes(s, m)
  <2> HIDE DEF s, AA
  <2> QED BY <1>9, <1>11, TakesIt DEF m
<1>13. StoreInv(u, now)
  <2> HIDE DEF s
  <2> QED BY <1>2, <1>10, <1>12, MessageKeeps DEF Takes
<1>14. MessageTo(s, id, m)
  <2> HIDE DEF s
  <2> QED BY <1>2, <1>10, <1>11, MessageIs DEF StoreInv, Whole
<1> HIDE DEF u, s
<1>15. Settles(u, u, now, {}, {DOMAIN u.agents})
  BY <1>13, SettlesNone DEF StoreInv
<1>16. Len(row) = Len(steps) + 1 /\ Last(row) = u /\ row[Len(row)] = u
       /\ \A i \in 1 .. Len(steps) : row[i] = steps[i]
  BY <1>7 DEF Last
<1> HIDE DEF row
<1>17. ASSUME Settles(u, store', now, {}, {DOMAIN u.agents})
       PROVE  \E g, v : Sends(m, g, v)
  <2>1. gone \in SUBSET (removable(store) \ {m.from, m.to}) /\ names = {m.from, m.to}
    BY <1>2 DEF names
  <2>2. Sends(m, gone, s)
    BY <1>9, <1>13, <1>14, <1>17, <2>1 DEF Sends, u
  <2> QED BY <2>2
<1>18. ASSUME store' \in W PROVE Evicts(names, gone)
  BY <1>8, <1>18 DEF Evicts
<1>19. ASSUME NEW i \in 1 .. Len(row) - 1, store' = row[i] PROVE Evicts(names, gone)
  BY <1>7, <1>16, <1>18, <1>19
<1>20. Commit(r, done)
  BY <1>3 DEF row, u, s
<1>21. CASE r = row
  <2>1. CASE store' = u
    BY <1>15, <1>17, <2>1 DEF m
  <2>2. CASE \E i \in 1 .. Len(row) - 1 : store' = row[i]
    BY <1>19, <2>2 DEF names
  <2> QED BY <1>16, <1>20, <1>21, <2>1, <2>2 DEF Commit
<1>22. CASE settled_count(u, to) - HistoryLimit > 0 /\ r = Append(row, Trimmed(u, to))
  <2> DEFINE v == Trimmed(u, to)
  <2>1. Settles(u, v, now, {}, {DOMAIN u.agents})
    BY <1>15, <1>22, TrimmedIs
  <2> HIDE DEF r, v
  <2>2. row \in Seq(W \cup {u})
    BY <1>7 DEF row
  <2>3. Len(r) = Len(row) + 1 /\ Last(r) = v /\ \A i \in 1 .. Len(row) : r[i] = row[i]
    BY <1>22, <2>2 DEF Last, v
  <2>4. CASE store' = v
    BY <1>17, <2>1, <2>4 DEF m
  <2>5. CASE \E i \in 1 .. Len(r) - 1 : store' = r[i]
    <3>1. PICK i \in 1 .. Len(r) - 1 : store' = r[i]
      BY <2>5
    <3>2. i \in 1 .. Len(row) /\ store' = row[i]
      BY <1>7, <1>16, <2>3, <3>1
    <3>3. CASE i = Len(row)
      BY <1>15, <1>16, <1>17, <3>2, <3>3 DEF m
    <3>4. CASE i # Len(row)
      <4>1. i \in 1 .. Len(row) - 1
        BY <1>7, <1>16, <3>2, <3>4
      <4> QED BY <1>19, <3>2, <4>1 DEF names
    <3> QED BY <3>3, <3>4
  <2> QED BY <1>20, <2>3, <2>4, <2>5 DEF Commit
<1> QED BY <1>16, <1>21, <1>22, TrimHistoryIs
-----------------------------------------------------------------------------
(***************************************************************************)
(* The invariant: the store is in order, and those online or in rooms are   *)
(* agents there are.                                                       *)
(***************************************************************************)
Actors(ss, rr, A) == /\ DOMAIN ss \subseteq Session
                     /\ \A x \in DOMAIN ss : ss[x] \in [agent : A, expires : Nat]
                     /\ rr \subseteq A

InboxInv == /\ StoreInv(store, now)
            /\ Actors(sessions, roomed, DOMAIN store.agents)
            /\ now \in 0 .. MaxTime

\* It holds of a new server.
LEMMA InboxStarts == Init => InboxInv
<1> SUFFICES ASSUME Init PROVE InboxInv
  OBVIOUS
<1> DEFINE e == [i \in {} |-> None]
           k == [x \in {} |-> 0]
<1>1. store = [last_id |-> 0, messages |-> e, agents |-> [a \in {} |-> NewAgent], msg_keys |-> k, due |-> NoDue]
  BY DEF Init, NoMessages
<1>2. DOMAIN e = {} /\ e \in Maps(1 .. 0, MessageType) /\ k \in Maps(KeyType, Nat)
  BY DEF Maps
<1> HIDE DEF e, k
<1>3. DueOf(e, {}) = NoDue
  BY DEF DueOf, NoDue
<1>4. IsFiniteSet({}) /\ Cardinality({}) = 0
  BY FS_EmptySet
<1>5. Built(0, e, {}, k) = store
  <2>1. [a \in {} |-> AgentOf(e, {}, {}, a)] = [a \in {} |-> NewAgent]
    OBVIOUS
  <2> QED BY <1>1, <1>2, <1>3, <2>1, Zenon DEF Built, Shown
<1>6. IsStore(Built(0, e, {}, k), 0, e, {}, k)
  BY <1>2, <1>4, BuiltIs
<1>7. Sound(store) /\ store.messages = e /\ DOMAIN store.agents = {} /\ DOMAIN store.msg_keys = {}
  BY <1>1, <1>5, <1>6 DEF IsStore, k
<1>8. Whole(store) /\ Requeued(store, now) /\ KeysKept(store)
  BY <1>2, <1>7 DEF Whole, Requeued, KeysKept, KeysNamed, Keyed
<1>9. MaxInbox \in Nat /\ share(MaxInbox) \in Nat /\ MaxAgents \in Nat
  BY LimitsAssumption DEF share
<1>10. \A a : Pend(store, a) = {} /\ \A b : Sent(store.messages, DOMAIN store.messages, a, b) = {}
  BY <1>2, <1>7 DEF Pend, Sent, Those
<1>11. Filled(store) /\ Shared(store)
  BY <1>4, <1>9, <1>10 DEF Filled, Shared
<1>12. Actors(sessions, roomed, DOMAIN store.agents)
  BY DEF Actors, Init
<1>13. now \in 0 .. MaxTime
  BY BoundsAssumption DEF Init
<1> QED BY <1>4, <1>7, <1>8, <1>9, <1>11, <1>12, <1>13 DEF InboxInv, StoreInv

\* Among no more agents than there were, it is kept.
LEMMA KeepsAmong ==
    ASSUME StoreInv(store, now), now \in Nat, NEW X, NEW AA, AA \subseteq SUBSET (DOMAIN store.agents),
           Follows(store, store', now, X, AA)
    PROVE  StoreInv(store', now)
<1> DEFINE A == DOMAIN store.agents
<1>1. IsFiniteSet(A) /\ Cardinality(A) \in Nat /\ Cardinality(A) <= MaxAgents /\ MaxAgents \in Nat
  BY LimitsAssumption, FS_CardinalityType DEF StoreInv, Whole, Sound
<1>2. ASSUME NEW E \in AA PROVE Cardinality(E) <= MaxAgents
  <2>1. E \subseteq A
    OBVIOUS
  <2> HIDE DEF A
  <2>2. IsFiniteSet(E) /\ Cardinality(E) \in Nat /\ Cardinality(E) <= Cardinality(A)
    BY <1>1, <2>1, FS_Subset, FS_CardinalityType
  <2> QED BY <1>1, <2>2
<1> QED BY <1>2, FollowsKeeps

\* Making room keeps it, and only agents that may go do.
LEMMA EvictsKeeps ==
    ASSUME StoreInv(store, now), now \in Nat, NEW names, NEW gone, Evicts(names, gone)
    PROVE  StoreInv(store', now) /\ Gone \subseteq removable(store)
<1>1. \A E \in Roomy(DOMAIN store.agents, gone, names) : Cardinality(E) <= MaxAgents
  BY DEF Roomy
<1>2. Follows(store, store', now, {}, Roomy(DOMAIN store.agents, gone, names))
  BY DEF Evicts
<1>3. StoreInv(store', now)
  BY <1>1, <1>2, FollowsKeeps
<1>4. DOMAIN store'.agents \in Roomy(DOMAIN store.agents, gone, names) /\ gone \subseteq removable(store)
  BY <1>2 DEF Evicts, Follows
<1> QED BY <1>3, <1>4 DEF Gone, Roomy

\* So does a send.
LEMMA SendsKeeps ==
    ASSUME StoreInv(store, now), now \in Nat, NEW m, NEW gone, NEW s, Sends(m, gone, s)
    PROVE  StoreInv(store', now) /\ Gone \subseteq removable(store)
<1> DEFINE u == apply_message(s, store.last_id + 1, m)
<1>1. /\ StoreInv(u, now) /\ Settles(u, store', now, {}, {DOMAIN u.agents})
      /\ gone \subseteq removable(store)
      /\ DOMAIN s.agents \in Roomy(DOMAIN store.agents, gone, {m.from, m.to})
      /\ DOMAIN u.agents = DOMAIN s.agents
  BY DEF Sends, Settles, MessageTo, IsStore
<1> HIDE DEF u
<1>2. Follows(u, store', now, {}, {DOMAIN u.agents})
  BY <1>1, SettlesFollows DEF StoreInv, Whole
<1>3. \A E \in {DOMAIN u.agents} : Cardinality(E) <= MaxAgents
  BY <1>1 DEF StoreInv
<1>4. StoreInv(store', now)
  BY <1>1, <1>2, <1>3, FollowsKeeps
<1>5. DOMAIN store'.agents = DOMAIN s.agents
  BY <1>1 DEF Settles
<1> QED BY <1>1, <1>4, <1>5 DEF Gone, Roomy

\* A rename keeps it.
LEMMA RenamesKeeps ==
    ASSUME StoreInv(store, now), now \in Nat, NEW from \in Agent, NEW to \in Agent, rename(from, to),
           RenamesFree(from, to)
    PROVE  /\ StoreInv(store', now)
           /\ DOMAIN store'.agents = (DOMAIN store.agents \ {from, to}) \cup {to}
           /\ DOMAIN store'.messages = DOMAIN Free(to).messages
           /\ \A i \in DOMAIN store'.messages :
                 LET m == Free(to).messages[i]
                     n == store'.messages[i]
                 IN  n.deliveries = m.deliveries /\ n.state = m.state
<1> DEFINE A == DOMAIN store.agents
           AA == Between(A \ {to}, A)
           s == Free(to)
<1>1. /\ Renaming /\ from # to /\ from \in A /\ pending_count(store, to) = 0
      /\ store' = apply_rename(s, from, to)
  BY DEF rename, RenamesFree
<1>2. Settles(store, s, now, {}, AA) /\ DOMAIN s.agents = A \ {to} /\ Sound(store) /\ Whole(s)
  BY <1>1, FreeIs DEF StoreInv, Whole, Settles
<1>3. StoreInv(s, now)
  <2>1. IsFiniteSet(A) /\ Cardinality(A) \in Nat /\ Cardinality(A) <= MaxAgents /\ MaxAgents \in Nat
    BY LimitsAssumption, FS_CardinalityType DEF StoreInv, Whole, Sound
  <2>2. ASSUME NEW E \in AA PROVE Cardinality(E) <= MaxAgents
    <3>1. E \subseteq A
      BY DEF Between
    <3> HIDE DEF A
    <3>2. IsFiniteSet(E) /\ Cardinality(E) \in Nat /\ Cardinality(E) <= Cardinality(A)
      BY <2>1, <3>1, FS_Subset, FS_CardinalityType
    <3> QED BY <2>1, <3>2
  <2>3. Follows(store, s, now, {}, AA)
    BY <1>2, SettlesFollows
  <2> HIDE DEF s, AA
  <2> QED BY <2>2, <2>3, FollowsKeeps
<1> HIDE DEF s
<1>4. StoreInv(apply_rename(s, from, to), now)
  BY <1>1, <1>2, <1>3, RenameKeeps
<1>5. RenamesTo(s, from, to)
  BY <1>1, <1>2, RenameIs
<1>6. /\ store'.messages = Renamed(s.messages, from, to)
      /\ DOMAIN store'.agents = (DOMAIN s.agents \ {from}) \cup {to}
  BY <1>1, <1>5 DEF RenamesTo, IsStore
<1>7. ASSUME NEW i \in DOMAIN s.messages
      PROVE  /\ store'.messages[i].deliveries = s.messages[i].deliveries
             /\ store'.messages[i].state = s.messages[i].state
  <2>1. s.messages[i] \in MessageType
    BY <1>2, SoundHas DEF Whole
  <2>2. store'.messages[i] = RenamedOf(s.messages[i], from, to)
    BY <1>6 DEF Renamed
  <2> QED BY <2>1, <2>2, RenamedOfIs
<1> QED BY <1>1, <1>2, <1>4, <1>6, <1>7 DEF Renamed, s

\* Those that stay are agents still, where the sessions and rooms of those that go are ended.
LEMMA ActorsLeft ==
    ASSUME Actors(sessions, roomed, DOMAIN store.agents)
    PROVE  /\ Actors(SessionsLeft, roomed \ Gone, DOMAIN store'.agents)
           /\ \A S : Actors(Without(SessionsLeft, S), roomed \ Gone, DOMAIN store'.agents)
BY DEF Actors, SessionsLeft, Without, Gone

\* Presence.
LEMMA PresenceKeeps ==
    ASSUME InboxInv, now \in Nat, NEW a \in Agent, NEW x \in Session, presence(a, x)
    PROVE  /\ StoreInv(store', now) /\ Gone \subseteq removable(store)
           /\ Actors(sessions', roomed', DOMAIN store'.agents)
           /\ \E gone : Evicts({a}, gone)
<1> DEFINE A == DOMAIN store'.agents
           left == Without(SessionsLeft, Crowded(a, x))
<1>1. PICK steps \in ensure_agents({a}), done \in BOOLEAN :
         /\ Commit(steps, done)
         /\ sessions' = IF done THEN Put(left, x, [agent |-> a, expires |-> now + SessionTtlMs])
                                ELSE SessionsLeft
  BY DEF presence
<1>2. IsFiniteSet({a})
  <2>1. IsFiniteSet({} \cup {a}) /\ {} \cup {a} = {a}
    BY FS_EmptySet, FS_AddElement
  <2> QED BY <2>1
<1>3. PICK gone : Evicts({a}, gone) /\ (done => {a} \subseteq A)
  BY <1>1, <1>2, EvictStep DEF InboxInv
<1>4. StoreInv(store', now) /\ Gone \subseteq removable(store)
  BY <1>3, EvictsKeeps DEF InboxInv
<1>5. Actors(SessionsLeft, roomed \ Gone, A) /\ Actors(left, roomed \ Gone, A)
  BY ActorsLeft DEF InboxInv
<1>6. roomed' = roomed \ Gone
  BY DEF presence
<1> HIDE DEF left, A
<1>7. CASE done
  <2>1. now + SessionTtlMs \in Nat
    BY LimitsAssumption
  <2> DEFINE v == [agent |-> a, expires |-> now + SessionTtlMs]
  <2>2. v \in [agent : A, expires : Nat]
    BY <1>3, <1>7, <2>1
  <2> HIDE DEF v
  <2>3. sessions' = Put(left, x, v)
    BY <1>1, <1>7 DEF v
  <2>4. Actors(sessions', roomed', A)
    BY <1>5, <1>6, <2>2, <2>3 DEF Actors, Put
  <2> QED BY <1>3, <1>4, <2>4 DEF A
<1>8. CASE ~done
  BY <1>1, <1>3, <1>4, <1>5, <1>6, <1>8 DEF A
<1> QED BY <1>7, <1>8

\* Rename.
LEMMA RenameActors ==
    ASSUME InboxInv, now \in Nat, NEW from \in Agent, NEW to \in Agent, rename(from, to)
    PROVE  StoreInv(store', now) /\ Actors(sessions', roomed', DOMAIN store'.agents)
<1> DEFINE A == DOMAIN store.agents
<1>1. StoreInv(store, now) /\ Actors(sessions, roomed, A)
  BY DEF InboxInv
<1>2. CASE RenamesFree(from, to)
  <2>1. StoreInv(store', now) /\ DOMAIN store'.agents = (A \ {from, to}) \cup {to}
    BY <1>1, <1>2, RenamesKeeps
  <2>2. roomed' \subseteq DOMAIN store'.agents
    BY <1>1, <1>2, <2>1 DEF RenamesFree, Actors, Named
  <2>3. DOMAIN sessions' \subseteq Session
    BY <1>1, <1>2 DEF RenamesFree, Actors
  <2>4. ASSUME NEW x \in DOMAIN sessions' PROVE sessions'[x] \in [agent : DOMAIN store'.agents, expires : Nat]
    <3> DEFINE v == sessions[x]
    <3>1. x \in DOMAIN sessions /\ v.agent # to /\ sessions'[x] = [v EXCEPT !.agent = Named(from, to, @)]
      BY <1>2 DEF RenamesFree
    <3>2. v \in [agent : A, expires : Nat]
      BY <1>1, <3>1 DEF Actors
    <3> HIDE DEF v
    <3>3. Named(from, to, v.agent) \in DOMAIN store'.agents
      BY <2>1, <3>1, <3>2 DEF Named
    <3> QED BY <3>1, <3>2, <3>3
  <2> QED BY <2>1, <2>2, <2>3, <2>4 DEF Actors
<1>3. CASE /\ Follows(store, store', now, {}, Between(A \ {to}, A))
           /\ Follow
  <2>1. Between(A \ {to}, A) \subseteq SUBSET A
    BY DEF Between
  <2>2. StoreInv(store', now)
    BY <1>1, <1>3, <2>1, KeepsAmong
  <2>3. Actors(sessions', roomed', DOMAIN store'.agents)
    BY <1>1, <1>3, ActorsLeft DEF Follow
  <2> QED BY <2>2, <2>3
<1> QED BY <1>1, <1>2, <1>3, RenameStep

\* The store a step leaves, and those online and in rooms.
Steady == StoreInv(store', now') /\ Actors(sessions', roomed', DOMAIN store'.agents) /\ now' \in 0 .. MaxTime

\* Every step keeps the invariant.
LEMMA InboxKept ==
    ASSUME InboxInv, [Next]_vars
    PROVE  Steady
<1> DEFINE A == DOMAIN store.agents
<1>1. StoreInv(store, now) /\ Actors(sessions, roomed, A) /\ now \in 0 .. MaxTime /\ now \in Nat
  BY BoundsAssumption DEF InboxInv
<1>2. \A B : Between(B, A) \subseteq SUBSET A
  BY DEF Between
<1>3. {A} \subseteq SUBSET A
  OBVIOUS
<1>4. ASSUME NEW a \in Agent, NEW x \in Session, presence(a, x) PROVE Steady
  <2>1. StoreInv(store', now) /\ Actors(sessions', roomed', DOMAIN store'.agents)
    BY <1>1, <1>4, PresenceKeeps
  <2>2. now' = now
    BY <1>4 DEF presence
  <2> QED BY <1>1, <2>1, <2>2 DEF Steady
<1>5. ASSUME NEW a, NEW x, leave(a, x) PROVE Steady
  BY <1>1, <1>5 DEF leave, Steady, Actors, Without
<1>6. ASSUME NEW a, join(a) PROVE Steady
  BY <1>1, <1>6 DEF join, Steady, Actors
<1>7. ASSUME NEW a, part(a) PROVE Steady
  BY <1>1, <1>7 DEF part, Steady, Actors
<1>8. ASSUME NEW a \in Agent, forget(a) PROVE Steady
  <2>1. Follows(store, store', now, Messages(a), Between(A \ {a}, A))
    BY <1>1, <1>8, ForgetStep
  <2>2. StoreInv(store', now)
    BY <1>1, <1>2, <2>1, KeepsAmong
  <2>3. now' = now /\ sessions' = SessionsLeft /\ roomed' = roomed \ Gone
    BY <1>8 DEF forget, Follow
  <2> QED BY <1>1, <2>2, <2>3, ActorsLeft DEF Steady
<1>9. ASSUME NEW a \in Agent, purge(a) PROVE Steady
  <2>1. Follows(store, store', now, Messages(a), {A})
    BY <1>1, <1>9, PurgeStep
  <2>2. StoreInv(store', now) /\ DOMAIN store'.agents = A
    BY <1>1, <1>3, <2>1, KeepsAmong DEF Follows
  <2>3. now' = now /\ sessions' = sessions /\ roomed' = roomed
    BY <1>9 DEF purge
  <2> QED BY <1>1, <2>2, <2>3 DEF Steady
<1>10. CASE cleanup
  <2>1. Follows(store, store', now, {}, Between(A \ removable(store), A))
    BY <1>1, <1>10, CleanupStep
  <2>2. StoreInv(store', now)
    BY <1>1, <1>2, <2>1, KeepsAmong
  <2>3. now' = now /\ sessions' = SessionsLeft /\ roomed' = roomed \ Gone
    BY <1>10 DEF cleanup, Follow
  <2> QED BY <1>1, <2>2, <2>3, ActorsLeft DEF Steady
<1>11. ASSUME NEW a \in Agent, NEW b \in Agent, rename(a, b) PROVE Steady
  <2>1. StoreInv(store', now) /\ Actors(sessions', roomed', DOMAIN store'.agents)
    BY <1>1, <1>11, RenameActors
  <2>2. now' = now
    BY <1>11 DEF rename
  <2> QED BY <1>1, <2>1, <2>2 DEF Steady
<1>12. ASSUME NEW a \in Agent, NEW b \in Agent, NEW k \in Key \cup {None}, send(a, b, k) PROVE Steady
  <2>1. \/ \E gone : Evicts({a, b}, gone)
        \/ \E gone, s : Sends(Fresh(a, b, k), gone, s)
    BY <1>1, <1>12, SendStep
  <2>2. StoreInv(store', now)
    BY <1>1, <2>1, EvictsKeeps, SendsKeeps
  <2>3. now' = now /\ sessions' = SessionsLeft /\ roomed' = roomed \ Gone
    BY <1>12 DEF send, Follow
  <2> QED BY <1>1, <2>2, <2>3, ActorsLeft DEF Steady
<1>13. ASSUME NEW a, NEW c \in Consumer, NEW n \in Nat, NEW only, lease(a, c, n, only) PROVE Steady
  <2>1. Follows(store, store', now, UpAt(store, now), {A})
    BY <1>1, <1>13, LeaseStep
  <2>2. StoreInv(store', now) /\ DOMAIN store'.agents = A
    BY <1>1, <1>3, <2>1, KeepsAmong DEF Follows
  <2>3. now' = now /\ sessions' = sessions /\ roomed' = roomed
    BY <1>13 DEF lease
  <2> QED BY <1>1, <2>2, <2>3 DEF Steady
<1>14. ASSUME NEW a, NEW c, NEW r \in Receipts, ack(a, r, c) PROVE Steady
  <2>1. Follows(store, store', now, Held(store, a), {A})
    BY <1>1, <1>14, AckStep
  <2>2. StoreInv(store', now) /\ DOMAIN store'.agents = A
    BY <1>1, <1>3, <2>1, KeepsAmong DEF Follows
  <2>3. now' = now /\ sessions' = sessions /\ roomed' = roomed
    BY <1>14 DEF ack
  <2> QED BY <1>1, <2>2, <2>3 DEF Steady
<1>15. CASE sweep
  <2>1. Follows(store, store', now, UpAt(store, now), {A})
    BY <1>1, <1>15, SweepStep
  <2>2. StoreInv(store', now) /\ DOMAIN store'.agents = A
    BY <1>1, <1>3, <2>1, KeepsAmong DEF Follows
  <2>3. /\ now' = now /\ roomed' = roomed
        /\ sessions' = Without(sessions, {x \in DOMAIN sessions : sessions[x].expires <= now})
    BY <1>15 DEF sweep
  <2>4. Actors(sessions', roomed', DOMAIN store'.agents)
    BY <1>1, <2>2, <2>3 DEF Actors, Without
  <2> QED BY <1>1, <2>2, <2>3, <2>4 DEF Steady
<1>16. CASE pass
  <2>1. now' = now + 1 /\ now' \in 0 .. MaxTime /\ store' = store /\ sessions' = sessions /\ roomed' = roomed
    BY <1>1, <1>16, BoundsAssumption DEF pass
  <2>2. Requeued(store, now')
    <3> SUFFICES ASSUME NEW i \in DOMAIN store.messages, store.messages[i].state = "queued",
                        store.messages[i].lease # None
                 PROVE  store.messages[i].lease.until <= now'
      BY DEF Requeued
    <3>1. store.messages[i].lease.until <= now
      BY <1>1 DEF StoreInv, Requeued
    <3>2. store.messages[i] \in MessageType
      BY <1>1, SoundHas DEF StoreInv, Whole
    <3>3. store.messages[i].lease \in Lease
      BY <3>2, MessageHas
    <3>4. store.messages[i].lease.until \in Nat
      BY <3>3 DEF Lease
    <3> QED BY <1>1, <2>1, <3>1, <3>4
  <2> QED BY <1>1, <2>1, <2>2 DEF Steady, StoreInv
<1>17. CASE restart
  <2>1. Follows(store, store', now, {}, {A})
    BY <1>1, <1>17, RestartStep
  <2>2. StoreInv(store', now) /\ DOMAIN store'.agents = A
    BY <1>1, <1>3, <2>1, KeepsAmong DEF Follows
  <2>3. now' = now /\ sessions' = [x \in {} |-> None] /\ roomed' = roomed
    BY <1>17 DEF restart
  <2>4. Actors(sessions', roomed', DOMAIN store'.agents)
    BY <1>1, <2>2, <2>3 DEF Actors
  <2> QED BY <1>1, <2>2, <2>3, <2>4 DEF Steady
<1>18. CASE UNCHANGED vars
  BY <1>1, <1>18 DEF vars, Steady
<1>19. 1 .. MaxSends \subseteq Nat /\ 1 \in Nat
  OBVIOUS
<1> QED BY <1>4, <1>5, <1>6, <1>7, <1>8, <1>9, <1>10, <1>11, <1>12, <1>13, <1>14, <1>15, <1>16,
           <1>17, <1>18, <1>19 DEF Next

\* The invariant holds of every run.
THEOREM InboxInvariant == Spec => []InboxInv
<1>1. Init => InboxInv
  BY InboxStarts
<1>2. InboxInv /\ [Next]_vars => InboxInv'
  <2> SUFFICES ASSUME InboxInv, [Next]_vars PROVE InboxInv'
    OBVIOUS
  <2> QED BY InboxKept DEF Steady, InboxInv
<1> QED BY <1>1, <1>2, PTL DEF Spec
-----------------------------------------------------------------------------
(***************************************************************************)
(* What it says of the states.                                             *)
(***************************************************************************)
\* The indexes that are kept up are those that are built again.
LEMMA InvIndexes == InboxInv => IndexesMatch
<1> SUFFICES ASSUME InboxInv PROVE IndexesMatch
  OBVIOUS
<1>1. Sound(store) /\ \A id \in DOMAIN store.messages : store.messages[id].to \in DOMAIN store.agents
  BY DEF InboxInv, StoreInv, Whole
<1>2. retrack(store) = store
  BY <1>1, RetrackSame
<1>3. \A a \in DOMAIN store.agents :
         store.agents[a].inbox = {id \in DOMAIN store.messages : store.messages[id].to = a}
  BY <1>1, ReadIs DEF Read
<1> QED BY <1>1, <1>2, <1>3 DEF IndexesMatch

\* The types.
LEMMA InvTypes == InboxInv => TypeOK
<1> SUFFICES ASSUME InboxInv PROVE TypeOK
  OBVIOUS
<1>1. /\ Sound(store) /\ now \in 0 .. MaxTime
      /\ DOMAIN sessions \subseteq Session
      /\ \A x \in DOMAIN sessions : sessions[x] \in [agent : DOMAIN store.agents, expires : Nat]
      /\ roomed \subseteq DOMAIN store.agents
  BY DEF InboxInv, StoreInv, Whole, Actors
<1>2. DOMAIN store.messages \subseteq 1 .. store.last_id /\ DOMAIN store.agents \subseteq Agent
  BY <1>1, SoundHas DEF Sound
<1>3. \A id \in DOMAIN store.messages : store.messages[id] \in MessageFields
  BY <1>1, SoundHas DEF MessageType
<1> QED BY <1>1, <1>2, <1>3 DEF TypeOK, MessageFields

\* The messages to handle in an inbox, as the properties read them.
LEMMA InboxesAre ==
    ASSUME NEW s, Sound(s), NEW a \in DOMAIN s.agents
    PROVE  /\ {id \in s.agents[a].inbox : s.messages[id].state \in Pending} = Pend(s, a)
           /\ \A b : {id \in s.agents[a].inbox : /\ s.messages[id].from = b
                                                 /\ s.messages[id].state \in Pending}
                        = Sent(s.messages, DOMAIN s.messages, a, b)
<1>1. s.agents[a].inbox = {id \in DOMAIN s.messages : s.messages[id].to = a}
  BY ReadIs DEF Read
<1> QED BY <1>1 DEF Pend, Sent, Those

\* The limits.
LEMMA InvLimits == InboxInv => WithinLimits
<1> SUFFICES ASSUME InboxInv PROVE WithinLimits
  OBVIOUS
<1>1. Sound(store) /\ Filled(store) /\ Cardinality(DOMAIN store.agents) <= MaxAgents /\ DOMAIN store.agents \subseteq Agent
  BY DEF InboxInv, StoreInv, Whole, Sound
<1>2. ASSUME NEW a \in DOMAIN store.agents
      PROVE  Cardinality({id \in store.agents[a].inbox : store.messages[id].state \in Pending}) <= MaxInbox
  <2>1. {id \in store.agents[a].inbox : store.messages[id].state \in Pending} = Pend(store, a)
    BY <1>1, InboxesAre
  <2>2. Cardinality(Pend(store, a)) <= MaxInbox
    BY <1>1 DEF Filled
  <2> QED BY <2>1, <2>2, Zenon
<1> QED BY <1>1, <1>2, Zenon DEF WithinLimits

\* Deliveries are counted, and the last one is not followed by another wait.
LEMMA InvDeliveries == InboxInv => DeliveryLimit
<1> SUFFICES ASSUME InboxInv, NEW id \in DOMAIN store.messages
             PROVE  LET m == store.messages[id]
                    IN  m.deliveries <= MaxDeliveries - (IF m.state = "queued" THEN 1 ELSE 0)
  BY Zenon DEF DeliveryLimit
<1> DEFINE m == store.messages[id]
<1>1. m \in MessageType
  BY SoundHas DEF InboxInv, StoreInv, Whole
<1>2. m.deliveries \in 0 .. MaxDeliveries /\ (m.state = "queued" => m.deliveries < MaxDeliveries)
  BY <1>1, MessageHas
<1>3. MaxDeliveries \in Nat
  BY LimitsAssumption
<1> HIDE DEF m
<1>4. m.deliveries <= MaxDeliveries - (IF m.state = "queued" THEN 1 ELSE 0)
  BY <1>2, <1>3
<1> QED BY <1>4 DEF m

\* What a key names.
LEMMA InvNames == InboxInv => KeysNameMessages
<1> SUFFICES ASSUME InboxInv PROVE KeysNameMessages
  OBVIOUS
<1>1. KeysNamed(store)
  BY DEF InboxInv, StoreInv, Whole
<1> QED BY <1>1 DEF KeysNameMessages, KeysNamed, Keyed, KeyOf

\* Keys and shares, where names keep their messages.
LEMMA InvKeys == InboxInv /\ ~Renaming => KeysFindMessages /\ SharesHold
<1> SUFFICES ASSUME InboxInv, ~Renaming PROVE KeysFindMessages /\ SharesHold
  OBVIOUS
<1>1. Sound(store) /\ KeysKept(store) /\ Shared(store) /\ DOMAIN store.agents \subseteq Agent
  BY DEF InboxInv, StoreInv, Whole, Sound
<1>2. KeysFindMessages
  BY <1>1 DEF KeysFindMessages, KeysKept, Keyed, KeyOf
<1>3. ASSUME NEW a \in DOMAIN store.agents, NEW b \in Agent \ Admins, a # b
      PROVE  Cardinality({id \in store.agents[a].inbox :
                             /\ store.messages[id].from = b
                             /\ store.messages[id].state \in Pending}) <= share(MaxInbox)
  <2>1. {id \in store.agents[a].inbox : /\ store.messages[id].from = b
                                        /\ store.messages[id].state \in Pending}
           = Sent(store.messages, DOMAIN store.messages, a, b)
    BY <1>1, InboxesAre
  <2>2. Cardinality(Sent(store.messages, DOMAIN store.messages, a, b)) <= share(MaxInbox)
    BY <1>1, <1>3 DEF Shared
  <2> QED BY <2>1, <2>2, Zenon
<1> QED BY <1>2, <1>3, Zenon DEF SharesHold

\* Inboxes' sets and counts and the due indexes, kept up as messages come,
\* change and go (store.rs track), are what building them again gives (retrack).
THEOREM IndexesAlwaysMatch == Spec => []IndexesMatch
BY InboxInvariant, InvIndexes, PTL

\* Types, indexes, keys and limits hold after every request and any part of its
\* commits: no eviction, rename or requeue fills an inbox or the table of agents
\* past its limit, and none leaves a key that names another's message, or one
\* that is gone (Core::ensure_agents, rename, reclaim).
THEOREM AgentsAreHeld == Spec => []AgentsHold
<1>1. InboxInv => AgentsHold
  BY InvIndexes, InvTypes, InvNames, InvLimits DEF AgentsHold
<1> QED BY <1>1, InboxInvariant, PTL

\* A message kept, and no other, is found by its key, its deliveries are counted up to the
\* limit, and no sender takes more than its share (Core::send, reclaim), where
\* agents keep their names.
THEOREM InboxIsHeld == ASSUME ~Renaming PROVE Spec => []InboxHolds
<1>1. InboxInv => InboxHolds
  BY InvKeys, InvDeliveries DEF InboxHolds
<1> QED BY <1>1, InboxInvariant, PTL
-----------------------------------------------------------------------------
(***************************************************************************)
(* What it says of the steps.                                              *)
(***************************************************************************)
Lost == DOMAIN store.messages \ DOMAIN store'.messages
LostAmong(X) == \A id \in Lost : store.messages[id].state \notin Pending \/ id \in X

\* What follows discards what was handled, or is given, and leases once.
LEMMA FollowsOnce ==
    ASSUME NEW X, NEW AA, Follows(store, store', now, X, AA)
    PROVE  LostAmong(X) /\ LeasedOnce
BY DEF Follows, Comes, LostAmong, Lost, LeasedOnce

\* What is up is so by its expiry, or by its last lease.
LEMMA UpStays ==
    ASSUME LostAmong(UpAt(store, now))
    PROVE  StaysPending
BY DEF LostAmong, Lost, StaysPending, UpAt, LastRun, RanOut

\* Nothing given, nothing to handle is lost.
LEMMA NoneStays == ASSUME LostAmong({}) PROVE StaysPending
BY DEF LostAmong, Lost, StaysPending

\* A send neither.
LEMMA SendsOnce ==
    ASSUME StoreInv(store, now), NEW m, NEW gone, NEW s, Sends(m, gone, s)
    PROVE  LostAmong({}) /\ LeasedOnce
<1> DEFINE id == store.last_id + 1
           u == apply_message(s, id, m)
           mm == store.messages
           nn == store'.messages
           D == DOMAIN mm
<1>1. /\ Settles(store, s, now, {}, Roomy(DOMAIN store.agents, gone, {m.from, m.to}))
      /\ Settles(u, store', now, {}, {DOMAIN u.agents})
      /\ u.messages = Put(s.messages, id, m)
  BY DEF Sends, MessageTo, IsStore
<1> HIDE DEF u
<1>2. D \subseteq 1 .. store.last_id /\ store.last_id \in Nat
  BY SoundHas DEF StoreInv, Whole, Sound
<1>3. id \notin D
  <2> HIDE DEF D
  <2> QED BY <1>2
<1> HIDE DEF id
<1>4. \A i \in DOMAIN s.messages : i \in D /\ Becomes(mm[i], s.messages[i], now, i \in {})
  BY <1>1 DEF Settles
<1>5. \A i \in D \ DOMAIN s.messages : mm[i].state \notin Pending
  BY <1>1 DEF Settles
<1>6. /\ DOMAIN u.messages = DOMAIN s.messages \cup {id}
      /\ \A i \in DOMAIN s.messages : u.messages[i] = s.messages[i]
  BY <1>1, <1>3, <1>4 DEF Put
<1>7. \A i \in DOMAIN nn : i \in DOMAIN u.messages /\ Becomes(u.messages[i], nn[i], now, i \in {})
  BY <1>1 DEF Settles
<1>8. \A i \in DOMAIN u.messages \ DOMAIN nn : u.messages[i].state \notin Pending
  BY <1>1 DEF Settles
<1>9. LostAmong({})
  <2> SUFFICES ASSUME NEW i \in Lost PROVE mm[i].state \notin Pending
    BY DEF LostAmong
  <2>1. i \in D /\ i \notin DOMAIN nn
    BY DEF Lost
  <2> QED BY <1>4, <1>5, <1>6, <1>8, <2>1 DEF Becomes
<1>10. LeasedOnce
  <2> SUFFICES ASSUME NEW i \in D \cap DOMAIN nn
               PROVE  ~(nn[i].deliveries > mm[i].deliveries) /\ (mm[i].state \notin Pending => nn[i].state = mm[i].state)
    BY DEF LeasedOnce
  <2>1. i \in DOMAIN s.messages /\ u.messages[i] = s.messages[i]
    BY <1>3, <1>6, <1>7
  <2>2. Becomes(mm[i], s.messages[i], now, i \in {}) /\ Becomes(s.messages[i], nn[i], now, i \in {})
    BY <1>4, <1>7, <2>1
  <2>3. nn[i].deliveries = mm[i].deliveries
    BY <2>2 DEF Becomes, Kept
  <2>4. mm[i].deliveries \in Nat
    <3>1. mm[i] \in MessageType
      BY SoundHas DEF StoreInv, Whole
    <3>2. mm[i].deliveries \in 0 .. MaxDeliveries /\ MaxDeliveries \in Nat
      BY <3>1, MessageHas, LimitsAssumption
    <3> HIDE DEF mm
    <3> QED BY <3>2
  <2>5. mm[i].state \notin Pending => nn[i].state = mm[i].state
    BY <2>2 DEF Becomes
  <2> HIDE DEF mm, nn
  <2> QED BY <2>3, <2>4, <2>5
<1> QED BY <1>9, <1>10

\* A step that leaves the messages alone.
LEMMA SameOnce ==
    ASSUME StoreInv(store, now), store' = store
    PROVE  LostAmong({}) /\ LeasedOnce /\ Gone = {}
<1>1. Settles(store, store, now, {}, {DOMAIN store.agents})
  BY SettlesNone DEF StoreInv
<1>2. Follows(store, store', now, {}, {DOMAIN store.agents})
  BY <1>1, SettlesFollows DEF StoreInv, Whole
<1> QED BY <1>2, FollowsOnce DEF Gone

\* A rename loses nothing, and leases nothing.
LEMMA RenameOnce ==
    ASSUME StoreInv(store, now), now \in Nat, NEW from \in Agent, NEW to \in Agent, rename(from, to)
    PROVE  LostAmong({}) /\ LeasedOnce
<1> DEFINE A == DOMAIN store.agents
           AA == Between(A \ {to}, A)
           s == Free(to)
           mm == store.messages
           nn == store'.messages
           D == DOMAIN mm
<1>1. CASE RenamesFree(from, to)
  <2>1. pending_count(store, to) = 0
    BY DEF rename
  <2>2. Settles(store, s, now, {}, AA)
    BY <2>1, FreeIs
  <2>3. /\ DOMAIN nn = DOMAIN s.messages
        /\ \A i \in DOMAIN nn : nn[i].deliveries = s.messages[i].deliveries /\ nn[i].state = s.messages[i].state
    BY <1>1, RenamesKeeps
  <2>4. \A i \in DOMAIN s.messages : i \in D /\ Becomes(mm[i], s.messages[i], now, i \in {})
    BY <2>2 DEF Settles
  <2>5. \A i \in D \ DOMAIN s.messages : mm[i].state \notin Pending
    BY <2>2 DEF Settles
  <2> HIDE DEF s, AA
  <2>6. LostAmong({})
    BY <2>3, <2>5 DEF LostAmong, Lost
  <2>7. LeasedOnce
    <3> SUFFICES ASSUME NEW i \in D \cap DOMAIN nn
                 PROVE  ~(nn[i].deliveries > mm[i].deliveries) /\ (mm[i].state \notin Pending => nn[i].state = mm[i].state)
      BY DEF LeasedOnce
    <3>1. nn[i].deliveries = mm[i].deliveries /\ (mm[i].state \notin Pending => nn[i].state = mm[i].state)
      BY <2>3, <2>4 DEF Becomes, Kept
    <3>2. mm[i].deliveries \in Nat
      <4>1. mm[i] \in MessageType
        BY SoundHas DEF StoreInv, Whole
      <4>2. mm[i].deliveries \in 0 .. MaxDeliveries /\ MaxDeliveries \in Nat
        BY <4>1, MessageHas, LimitsAssumption
      <4> HIDE DEF mm
      <4> QED BY <4>2
    <3> HIDE DEF mm, nn
    <3> QED BY <3>1, <3>2
  <2> QED BY <2>6, <2>7
<1>2. CASE Follows(store, store', now, {}, AA)
  BY <1>2, FollowsOnce
<1> QED BY <1>1, <1>2, RenameStep

\* What every step is: it loses nothing to handle, leases nothing twice, and
\* ends no agent that is active.
ActiveStay == \A a \in Gone : \/ ~online(a) /\ a \notin roomed
                              \/ forget(a)
                              \/ \E b \in Agent : rename(a, b) \/ rename(b, a)
Careful == StaysPending /\ LeasedOnce /\ ActiveStay

\* Agents that may be removed are not active.
LEMMA RemovableStay == ASSUME Gone \subseteq removable(store) PROVE ActiveStay
BY DEF ActiveStay, removable

\* Every step is.
LEMMA StepsCareful ==
    ASSUME InboxInv, [Next]_vars
    PROVE  Careful
<1> DEFINE A == DOMAIN store.agents
<1>1. StoreInv(store, now) /\ now \in Nat
  BY BoundsAssumption DEF InboxInv
<1>2. ASSUME DOMAIN store'.agents = A PROVE ActiveStay
  BY <1>2 DEF ActiveStay, Gone
<1>3. ASSUME store' = store PROVE Careful
  BY <1>1, <1>2, <1>3, SameOnce, NoneStays DEF Careful
<1>4. ASSUME NEW a \in Agent, NEW x \in Session, presence(a, x) PROVE Careful
  <2>1. Gone \subseteq removable(store) /\ \E gone : Evicts({a}, gone)
    BY <1>1, <1>4, PresenceKeeps
  <2>2. LostAmong({}) /\ LeasedOnce
    BY <2>1, FollowsOnce DEF Evicts
  <2> QED BY <2>1, <2>2, NoneStays, RemovableStay DEF Careful
<1>5. ASSUME NEW a, NEW x, leave(a, x) PROVE Careful
  BY <1>3, <1>5 DEF leave
<1>6. ASSUME NEW a, join(a) \/ part(a) PROVE Careful
  BY <1>3, <1>6 DEF join, part
<1>7. ASSUME NEW a \in Agent, forget(a) PROVE Careful
  <2>1. Follows(store, store', now, Messages(a), Between(A \ {a}, A))
    BY <1>1, <1>7, ForgetStep
  <2>2. LostAmong(Messages(a)) /\ LeasedOnce
    BY <2>1, FollowsOnce
  <2>3. \A b : b = a => forget(b)
    BY <1>7
  <2>4. StaysPending
    BY <2>2, <2>3 DEF LostAmong, Lost, Messages, StaysPending
  <2>5. Gone \subseteq {a}
    BY <2>1 DEF Follows, Between, Gone
  <2>6. ActiveStay
    BY <2>3, <2>5 DEF ActiveStay
  <2> QED BY <2>2, <2>4, <2>6 DEF Careful
<1>8. ASSUME NEW a \in Agent, purge(a) PROVE Careful
  <2>1. Follows(store, store', now, Messages(a), {A})
    BY <1>1, <1>8, PurgeStep
  <2>2. LostAmong(Messages(a)) /\ LeasedOnce /\ DOMAIN store'.agents = A
    BY <2>1, FollowsOnce DEF Follows
  <2>3. \A b : b = a => purge(b)
    BY <1>8
  <2>4. StaysPending
    BY <2>2, <2>3 DEF LostAmong, Lost, Messages, StaysPending
  <2> QED BY <1>2, <2>2, <2>4 DEF Careful
<1>9. CASE cleanup
  <2>1. Follows(store, store', now, {}, Between(A \ removable(store), A))
    BY <1>1, <1>9, CleanupStep
  <2>2. LostAmong({}) /\ LeasedOnce
    BY <2>1, FollowsOnce
  <2>3. Gone \subseteq removable(store)
    BY <2>1 DEF Follows, Between, Gone
  <2> QED BY <2>2, <2>3, NoneStays, RemovableStay DEF Careful
<1>10. ASSUME NEW a \in Agent, NEW b \in Agent, rename(a, b) PROVE Careful
  <2>1. LostAmong({}) /\ LeasedOnce
    BY <1>1, <1>10, RenameOnce
  <2>2. Gone \subseteq {a, b}
    <3>1. CASE RenamesFree(a, b)
      <4>1. DOMAIN store'.agents = (A \ {a, b}) \cup {b}
        BY <1>1, <1>10, <3>1, RenamesKeeps
      <4> QED BY <4>1 DEF Gone
    <3>2. CASE Follows(store, store', now, {}, Between(A \ {b}, A))
      BY <3>2 DEF Follows, Between, Gone
    <3> QED BY <1>1, <1>10, <3>1, <3>2, RenameStep
  <2>3. ActiveStay
    <3>1. \A c, d : c = a /\ d = b => rename(c, d)
      BY <1>10
    <3> QED BY <2>2, <3>1 DEF ActiveStay
  <2> QED BY <2>1, <2>3, NoneStays DEF Careful
<1>11. ASSUME NEW a \in Agent, NEW b \in Agent, NEW k \in Key \cup {None}, send(a, b, k) PROVE Careful
  <2>1. CASE \E gone : Evicts({a, b}, gone)
    <3>1. LostAmong({}) /\ LeasedOnce
      BY <2>1, FollowsOnce DEF Evicts
    <3>2. Gone \subseteq removable(store)
      BY <1>1, <2>1, EvictsKeeps
    <3> QED BY <3>1, <3>2, NoneStays, RemovableStay DEF Careful
  <2>2. CASE \E gone, s : Sends(Fresh(a, b, k), gone, s)
    <3>1. LostAmong({}) /\ LeasedOnce
      BY <1>1, <2>2, SendsOnce
    <3>2. Gone \subseteq removable(store)
      BY <1>1, <2>2, SendsKeeps
    <3> QED BY <3>1, <3>2, NoneStays, RemovableStay DEF Careful
  <2> QED BY <1>1, <1>11, <2>1, <2>2, SendStep
<1>12. ASSUME Follows(store, store', now, UpAt(store, now), {A}) PROVE Careful
  <2>1. LostAmong(UpAt(store, now)) /\ LeasedOnce /\ DOMAIN store'.agents = A
    BY <1>12, FollowsOnce DEF Follows
  <2> QED BY <1>2, <2>1, UpStays DEF Careful
<1>13. ASSUME NEW a, NEW c \in Consumer, NEW n \in Nat, NEW only, lease(a, c, n, only) PROVE Careful
  BY <1>1, <1>12, <1>13, LeaseStep
<1>14. ASSUME NEW a, NEW c \in Consumer, NEW r \in Receipts, ack(a, r, c) PROVE Careful
  <2>1. Follows(store, store', now, Held(store, a), {A})
    BY <1>1, <1>14, AckStep
  <2>2. LostAmong(Held(store, a)) /\ LeasedOnce /\ DOMAIN store'.agents = A
    BY <2>1, FollowsOnce DEF Follows
  <2>3. \A b : b = a => ack(b, r, c)
    BY <1>14
  <2>4. StaysPending
    BY <2>2, <2>3 DEF LostAmong, Lost, Held, Acknowledged, StaysPending
  <2> QED BY <1>2, <2>2, <2>4 DEF Careful
<1>15. CASE sweep
  BY <1>1, <1>12, <1>15, SweepStep
<1>16. CASE pass
  BY <1>3, <1>16 DEF pass
<1>17. CASE restart
  <2>1. Follows(store, store', now, {}, {A})
    BY <1>1, <1>17, RestartStep
  <2>2. LostAmong({}) /\ LeasedOnce /\ DOMAIN store'.agents = A
    BY <2>1, FollowsOnce DEF Follows
  <2> QED BY <1>2, <2>2, NoneStays DEF Careful
<1>18. CASE UNCHANGED vars
  BY <1>3, <1>18 DEF vars
<1>19. 1 .. MaxSends \subseteq Nat /\ 1 \in Nat
  OBVIOUS
<1> QED BY <1>4, <1>5, <1>6, <1>7, <1>8, <1>9, <1>10, <1>11, <1>13, <1>14, <1>15, <1>16,
           <1>17, <1>18, <1>19 DEF Next

\* Eviction, cleaning up, renames, trimming and the sweep discard no message
\* still to be handled (Core::ensure_agents, cleanup, rename, trim_history,
\* sweep), whichever of their commits the journal refuses.
THEOREM PendingIsKept == Spec => KeepsPending
<1>1. InboxInv /\ [Next]_vars => [StaysPending]_vars
  BY StepsCareful DEF Careful
<1> QED BY <1>1, InboxInvariant, PTL DEF Spec, KeepsPending

\* Nor is one leased while another lease of it runs, or handled twice
\* (Core::lease_where, reclaim, ack).
THEOREM NeitherLostNorDoubledHolds == Spec => NeitherLostNorDoubled
<1>1. InboxInv /\ [Next]_vars => [StaysPending /\ LeasedOnce]_vars
  BY StepsCareful DEF Careful
<1> QED BY <1>1, InboxInvariant, PTL DEF Spec, NeitherLostNorDoubled

\* An agent online or in an open room goes only by name (Core::removable,
\* ensure_agents, cleanup).
THEOREM ActiveAgentsAreKept == Spec => ActiveAgentsStay
<1>1. InboxInv /\ [Next]_vars => [ActiveStay]_vars
  BY StepsCareful DEF Careful
<1>2. ActiveAgentsStay <=> [][ActiveStay]_vars
  BY PTL DEF ActiveAgentsStay, ActiveStay
<1> QED BY <1>1, <1>2, InboxInvariant, PTL DEF Spec
=============================================================================
