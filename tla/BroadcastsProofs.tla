--------------------------- MODULE BroadcastsProofs ---------------------------
(***************************************************************************)
(* Proofs about the broadcasts and the events: an inductive invariant of   *)
(* worlds, kept by every commit and by every step of a stream, and what    *)
(* follows of it for every number of agents, clients and limits.           *)
(***************************************************************************)
EXTENDS Broadcasts, Facts, SequenceTheorems

Item == [kind : {"event", "resync"}, id : Nat, scope : SUBSET Agent]

EventsType == [next : Nat, ring : Seq(Item), subscribers : SUBSET Client,
               feed : [Client -> Seq(Item)], handovers : Maps(Agent, Nat),
               owed : [Client -> SUBSET Nat]]

Broadcast == [id : Nat, from : Agent, key : Key \cup {NoKey}]

StoreType == [agents : Maps(Agent, Nat), sent : SUBSET Broadcast,
              keys : Maps(Agent \X Key, Nat), last_id : Nat]

WorldType == [store : StoreType, ev : EventsType, passed : [Agent -> SUBSET Nat],
              past : [Agent -> Nat]]

--------------------------------------------------------------------------
(* The inductive invariant.                                                *)

\* The history is a run of ids that ends with the last one given.
RingRuns(w) ==
    /\ Len(w.ring) < w.next
    /\ \A i \in DOMAIN w.ring : /\ w.ring[i].kind = "event"
                               /\ w.ring[i].id = w.next - Len(w.ring) + i - 1

\* What a client has yet to get comes in the order of ids: first what its
\* stream starts with, a gap alone or events, then its buffer.
InTurn(w, c) ==
    LET t == todo[c]
        f == w.feed[c]
    IN  /\ open[c] \/ (t = <<>> /\ f = <<>>)
        /\ last[c] < w.next
        /\ \A i \in DOMAIN t : t[i].kind = "event" => last[c] < t[i].id /\ t[i].id < w.next
        /\ \A i \in DOMAIN t : t[i].kind = "resync" => t[i].id <= w.next /\ Len(t) = 1
        /\ \A i, j \in DOMAIN t : i < j => t[i].id < t[j].id
        /\ \A i \in DOMAIN f : f[i].kind = "event" /\ last[c] < f[i].id /\ f[i].id < w.next
        /\ \A i, j \in DOMAIN f : i < j => f[i].id < f[j].id
        /\ \A i \in DOMAIN t, j \in DOMAIN f :
               IF t[i].kind = "event" THEN t[i].id < f[j].id ELSE t[i].id <= f[j].id

\* What a client is owed came after what it got, and after its name changed
\* hands; while the history has it, it is something the client sees.
OwedRight(w, c) ==
    /\ \A id \in w.owed[c] : last[c] < id /\ id < w.next
    /\ \A i \in DOMAIN w.ring : w.ring[i].id \in w.owed[c] => visible(w.ring[i], c)
    /\ Filter[c] \in DOMAIN w.handovers => \A id \in w.owed[c] : w.handovers[Filter[c]] <= id

\* What a client with a stream is owed it has yet to get, or to be told of,
\* or its stream ends before.
Covered(w, c) ==
    open[c] => \A id \in w.owed[c] :
        \/ \E i \in DOMAIN todo[c] : todo[c][i].kind = "resync" /\ id < todo[c][i].id
        \/ \E i \in DOMAIN todo[c] : todo[c][i].kind = "event" /\ id = todo[c][i].id
        \/ \E i \in DOMAIN w.feed[c] : id = w.feed[c][i].id
        \/ /\ c \notin w.subscribers
           /\ \A i \in DOMAIN todo[c] : todo[c][i].id <= id
           /\ \A i \in DOMAIN w.feed[c] : w.feed[c][i].id < id

HandoversKnown(w) == \A a \in DOMAIN w.handovers : w.handovers[a] <= w.next

EventsInv(w) ==
    /\ RingRuns(w)
    /\ HandoversKnown(w)
    /\ \A c \in Client : InTurn(w, c) /\ OwedRight(w, c) /\ Covered(w, c)

\* A name's past is before what is noted of it, or before the history.
PastNoted(t, w, a) ==
    /\ t[a] <= w.next
    /\ t[a] <= IF a \in DOMAIN w.handovers THEN w.handovers[a] ELSE oldest(w)

Listed(s) ==
    /\ IsFiniteSet(s.sent)
    /\ \A b \in s.sent : 0 < b.id /\ b.id <= s.last_id
    /\ \A b, d \in s.sent : b.id = d.id => b = d

CursorRight(s, p, a) ==
    /\ p[a] \subseteq 1..s.last_id
    /\ a \in DOMAIN s.agents =>
           /\ s.agents[a] <= s.last_id
           /\ {id \in Ids(s) : id > s.agents[a]} = Ids(s) \ p[a]
    /\ a \notin DOMAIN s.agents => p[a] \cap Ids(s) = {}

KeysRight(s) ==
    \A k \in DOMAIN s.keys : \E b \in s.sent : b.id = s.keys[k] /\ <<b.from, b.key>> = k

StoreInv(s, p) ==
    /\ Listed(s)
    /\ KeysRight(s)
    /\ \A a \in Agent : CursorRight(s, p, a)

StreamTypes ==
    /\ setup \in Setups
    /\ open \in [Client -> BOOLEAN]
    /\ todo \in [Client -> Seq(Item)]
    /\ last \in [Client -> Nat]

Types ==
    /\ Now \in WorldType
    /\ StreamTypes
    /\ lost \in Nat /\ restarts \in Nat

BroadcastsInv ==
    /\ Types
    /\ EventsInv(ev)
    /\ StoreInv(store, passed)

\* Where no rename stops between its commits.
PastInv == \A a \in Agent : PastNoted(past, ev, a)
\* Those a subscriber is replayed are picked from the history, each once and
\* in its order (Core::subscribe).
LEMMA ThosePicks ==
    ASSUME NEW T, NEW s \in Seq(T), NEW set
    PROVE  /\ Those(s, set) \in Seq(T)
           /\ \E at \in [1..Len(Those(s, set)) -> 1..Len(s)] :
                 /\ \A n \in 1..Len(Those(s, set)) : s[at[n]] \in set /\ Those(s, set)[n] = s[at[n]]
                 /\ \A n, m \in 1..Len(Those(s, set)) : n < m => at[n] < at[m]
                 /\ \A i \in 1..Len(s) : s[i] \in set => \E n \in 1..Len(Those(s, set)) : at[n] = i
<1> DEFINE P == {i \in 1..Len(s) : s[i] \in set}
<1> DEFINE k == Cardinality(P)
<1> DEFINE at == [n \in 1..k |-> CHOOSE i \in P : Rank(P, i) = n]
<1>1. /\ Len(s) \in Nat
      /\ DOMAIN s = 1..Len(s)
      /\ \A i \in 1..Len(s) : s[i] \in T
  OBVIOUS
<1>2. IsFiniteSet(P) /\ k \in Nat /\ P \subseteq 1..Len(s) /\ P \in SUBSET Nat
  <2>1. IsFiniteSet(1..Len(s))
    BY <1>1, FS_Interval
  <2> QED BY <2>1, FS_Subset, FS_CardinalityType
<1>3. Those(s, set) = [n \in 1..k |-> s[at[n]]]
  BY <1>1 DEF Those, Rank
<1>4. \A n \in 1..k : at[n] \in P /\ Rank(P, at[n]) = n
  <2> HIDE DEF P
  <2>1. ASSUME NEW n \in 1..k
        PROVE  \E i \in P : Rank(P, i) = n
    BY <1>1, <1>2, RankReaches
  <2> QED BY <2>1
<1>5. \A n \in 1..k : at[n] \in 1..Len(s) /\ s[at[n]] \in set
  BY <1>4
<1> HIDE DEF at
<1>6. at \in [1..k -> 1..Len(s)]
  BY <1>5 DEF at
<1>7. /\ Those(s, set) \in Seq(T)
      /\ Len(Those(s, set)) = k
  BY <1>1, <1>2, <1>3, <1>5
<1>8. ASSUME NEW n \in 1..k, NEW m \in 1..k, n < m
      PROVE  at[n] < at[m]
  <2>1. at[n] \in P /\ at[m] \in P /\ Rank(P, at[n]) = n /\ Rank(P, at[m]) = m
    BY <1>4
  <2>2. at[n] \in Nat /\ at[m] \in Nat
    BY <1>5
  <2> HIDE DEF P
  <2>3. ~(at[m] < at[n])
    <3>1. SUFFICES ASSUME at[m] < at[n] PROVE FALSE
      OBVIOUS
    <3>2. Rank(P, at[m]) < Rank(P, at[n])
      BY <1>2, <2>1, <3>1, RankGrows
    <3> QED BY <1>8, <2>1, <3>2
  <2>4. at[n] # at[m]
    BY <1>8, <2>1
  <2> QED BY <2>2, <2>3, <2>4
<1>9. ASSUME NEW i \in 1..Len(s), s[i] \in set
      PROVE  \E n \in 1..k : at[n] = i
  <2>1. i \in P /\ i \in Nat /\ i - 1 \in Nat
    BY <1>9
  <2> HIDE DEF P
  <2>2. Rank(P, i) \in 1..k
    <3>1. Rank(P, i - 1) \in Nat /\ Rank(P, i) <= k /\ Rank(P, i) \in Nat
      BY <1>2, <2>1, RankStep
    <3>2. Rank(P, (i - 1) + 1) = Rank(P, i - 1) + (IF (i - 1) + 1 \in P THEN 1 ELSE 0)
      BY <1>2, <2>1, RankStep
    <3>3. (i - 1) + 1 = i
      BY <2>1
    <3>4. Rank(P, i) = Rank(P, i - 1) + 1
      BY <2>1, <3>2, <3>3
    <3> QED BY <1>2, <3>1, <3>4
  <2>3. at[Rank(P, i)] \in P /\ Rank(P, at[Rank(P, i)]) = Rank(P, i)
    BY <1>4, <2>2
  <2> DEFINE j == at[Rank(P, i)]
  <2>4. j \in Nat
    BY <1>5, <2>2
  <2> HIDE DEF j
  <2>5. j \in P /\ Rank(P, j) = Rank(P, i)
    BY <2>3 DEF j
  <2>6. ~(j < i)
    <3>1. j < i => Rank(P, j) < Rank(P, i)
      BY <1>2, <2>1, <2>5, RankGrows
    <3> QED BY <2>2, <2>5, <3>1
  <2>7. ~(i < j)
    <3>1. i < j => Rank(P, i) < Rank(P, j)
      BY <1>2, <2>1, <2>5, RankGrows
    <3> QED BY <2>2, <2>5, <3>1
  <2>8. j = i
    BY <2>1, <2>4, <2>6, <2>7
  <2> QED BY <2>2, <2>8 DEF j
<1> QED
  <2>1. \A n \in 1..k : s[at[n]] \in set /\ Those(s, set)[n] = s[at[n]]
    BY <1>3, <1>5
  <2>2. \A n, m \in 1..k : n < m => at[n] < at[m]
    BY <1>8
  <2>3. \A i \in 1..Len(s) : s[i] \in set => \E n \in 1..k : at[n] = i
    BY <1>9
  <2> HIDE DEF P, k
  <2> QED BY <1>6, <1>7, <2>1, <2>2, <2>3

--------------------------------------------------------------------------
(* The events.                                                             *)

\* What is in the history tells which id is the oldest of it (subscribe).
LEMMA OldestIs ==
    ASSUME NEW w \in EventsType, RingRuns(w)
    PROVE  oldest(w) = w.next - Len(w.ring) /\ oldest(w) \in Nat
<1>1. w.ring \in Seq(Item) /\ w.next \in Nat
  BY DEF EventsType
<1>2. CASE w.ring = <<>>
  BY <1>1, <1>2 DEF oldest
<1>3. CASE w.ring # <<>>
  <2>1. 1 \in DOMAIN w.ring /\ Len(w.ring) \in Nat
    BY <1>1, <1>3
  <2>2. w.ring[1].id = w.next - Len(w.ring) + 1 - 1
    BY <2>1 DEF RingRuns
  <2> QED BY <1>1, <1>3, <2>1, <2>2 DEF oldest, RingRuns
<1> QED BY <1>2, <1>3

\* publish_event leaves the next id, a history that runs on, and notes as they were.
LEMMA PublishRing ==
    ASSUME NEW w \in EventsType, NEW scope \in SUBSET Agent, StreamTypes, RingRuns(w)
    PROVE  LET v == publish_event(w, scope)
           IN  /\ v.next = w.next + 1
               /\ v.handovers = w.handovers
               /\ v.ring \in Seq(Item)
               /\ RingRuns(v)
               /\ oldest(w) <= v.next - Len(v.ring)
               /\ \A i \in DOMAIN v.ring :
                     \/ v.ring[i] = Event(w.next, scope)
                     \/ v.ring[i].id < w.next /\ \E j \in DOMAIN w.ring : v.ring[i] = w.ring[j]
<1> DEFINE v == publish_event(w, scope)
<1> DEFINE e == Event(w.next, scope)
<1> DEFINE r == IF Len(w.ring) = setup.history THEN Tail(w.ring) ELSE w.ring
<1>1. w.ring \in Seq(Item) /\ w.next \in Nat /\ e \in Item
  BY DEF EventsType, Event, Item
<1>2. v.next = w.next + 1 /\ v.handovers = w.handovers /\ v.ring = Append(r, e)
  BY DEF publish_event, EventsType
<1>3. /\ Len(w.ring) \in Nat
      /\ w.ring \in [1..Len(w.ring) -> Item]
      /\ DOMAIN w.ring = 1..Len(w.ring)
  BY <1>1
<1>4. setup.history \in Nat \ {0}
  BY SetupAssumption DEF StreamTypes
<1>5. \A i \in 1..Len(w.ring) : w.ring[i].kind = "event" /\ w.ring[i].id = w.next - Len(w.ring) + i - 1
  BY <1>3 DEF RingRuns
<1>6. /\ r \in Seq(Item) /\ Len(r) \in Nat /\ Len(r) <= Len(w.ring)
      /\ \A i \in 1..Len(r) :
            /\ r[i].kind = "event" /\ r[i].id = w.next - Len(r) + i - 1
            /\ \E j \in 1..Len(w.ring) : r[i] = w.ring[j]
  <2>1. CASE Len(w.ring) = setup.history
    <3>1. w.ring # <<>>
      BY <1>1, <1>4, <2>1
    <3>2. /\ r = Tail(w.ring) /\ r \in Seq(Item) /\ Len(r) = Len(w.ring) - 1
          /\ \A i \in 1..Len(r) : r[i] = w.ring[i + 1]
      BY <1>1, <2>1, <3>1, HeadTailProperties
    <3> HIDE DEF r
    <3>3. ASSUME NEW i \in 1..Len(r)
          PROVE  /\ r[i].kind = "event" /\ r[i].id = w.next - Len(r) + i - 1
                 /\ \E j \in 1..Len(w.ring) : r[i] = w.ring[j]
      <4>1. i + 1 \in 1..Len(w.ring) /\ r[i] = w.ring[i + 1]
        BY <1>3, <3>2
      <4>2. w.next - Len(w.ring) + (i + 1) - 1 = w.next - Len(r) + i - 1
        BY <1>1, <1>3, <3>2
      <4> QED BY <1>5, <4>1, <4>2
    <3>4. Len(r) \in Nat /\ Len(r) <= Len(w.ring)
      BY <1>3, <3>2
    <3> QED BY <3>2, <3>3, <3>4
  <2>2. CASE Len(w.ring) # setup.history
    BY <1>1, <1>3, <1>5, <2>2
  <2> QED BY <2>1, <2>2
<1> HIDE DEF r
<1>7. /\ v.ring \in Seq(Item) /\ Len(v.ring) = Len(r) + 1 /\ DOMAIN v.ring = 1..(Len(r) + 1)
      /\ \A i \in 1..Len(r) : v.ring[i] = r[i]
      /\ v.ring[Len(r) + 1] = e
  BY <1>1, <1>2, <1>6, AppendProperties
<1> HIDE DEF v
<1>8. ASSUME NEW i \in DOMAIN v.ring
      PROVE  /\ v.ring[i].kind = "event" /\ v.ring[i].id = v.next - Len(v.ring) + i - 1
             /\ \/ v.ring[i] = e
                \/ v.ring[i].id < w.next /\ \E j \in DOMAIN w.ring : v.ring[i] = w.ring[j]
  <2>1. CASE i = Len(r) + 1
    BY <1>1, <1>2, <1>6, <1>7, <2>1 DEF Event
  <2>2. CASE i # Len(r) + 1
    <3>1. i \in 1..Len(r)
      BY <1>6, <1>7, <2>2
    <3>2. v.ring[i] = r[i] /\ r[i].id = w.next - Len(r) + i - 1
      BY <1>6, <1>7, <3>1
    <3>3. v.next - Len(v.ring) + i - 1 = w.next - Len(r) + i - 1
      <4>1. /\ i \in Int /\ Len(r) \in Int /\ w.next \in Int
            /\ v.next = w.next + 1 /\ Len(v.ring) = Len(r) + 1
        BY <1>1, <1>2, <1>6, <1>7, <3>1
      <4>2. v.next - Len(v.ring) = w.next - Len(r)
        BY <4>1
      <4> QED BY <4>2
    <3>4. w.next - Len(r) + i - 1 < w.next
      BY <1>1, <1>6, <3>1
    <3>5. r[i].kind = "event" /\ \E j \in DOMAIN w.ring : r[i] = w.ring[j]
      BY <1>3, <1>6, <3>1
    <3> QED BY <3>2, <3>3, <3>4, <3>5
  <2> QED BY <2>1, <2>2
<1>9. oldest(w) = w.next - Len(w.ring)
  BY OldestIs
<1>10. Len(v.ring) < v.next /\ oldest(w) <= v.next - Len(v.ring)
  BY <1>1, <1>2, <1>3, <1>6, <1>7, <1>9 DEF RingRuns
<1>11. RingRuns(v)
  BY <1>8, <1>10 DEF RingRuns
<1> QED BY <1>2, <1>7, <1>8, <1>10, <1>11 DEF v

\* What publish_event does for one client: it gets the event, or its stream
\* ends, or the event is none of its own.
LEMMA PublishClient ==
    ASSUME NEW w \in EventsType, NEW scope \in SUBSET Agent, StreamTypes, NEW c \in Client
    PROVE  LET v == publish_event(w, scope)
               e == Event(w.next, scope)
           IN  /\ \/ /\ open[c] /\ visible(e, c) /\ c \in w.subscribers
                     /\ v.feed[c] = Append(w.feed[c], e)
                  \/ /\ v.feed[c] = w.feed[c]
                     /\ c \in v.subscribers /\ open[c] => ~visible(e, c)
               /\ c \in v.subscribers => c \in w.subscribers
               /\ v.owed[c] = IF visible(e, c) /\ (open[c] \/ last[c] # NoId)
                              THEN w.owed[c] \cup {w.next} ELSE w.owed[c]
<1> DEFINE e == Event(w.next, scope)
<1> DEFINE sees == {x \in w.subscribers : visible(e, x)}
<1> DEFINE gets == {x \in sees : open[x] /\ Len(w.feed[x]) < setup.buffer}
<1> DEFINE v == publish_event(w, scope)
<1>1. /\ v.subscribers = (w.subscribers \ sees) \cup gets
      /\ v.feed = [x \in Client |-> IF x \in gets THEN Append(w.feed[x], e) ELSE w.feed[x]]
      /\ v.owed = Owing(w, e)
  BY DEF publish_event, EventsType
<1>2. v.owed[c] = IF visible(e, c) /\ (open[c] \/ last[c] # NoId)
                  THEN w.owed[c] \cup {w.next} ELSE w.owed[c]
  BY <1>1 DEF Owing, Event
<1>3. v.feed[c] = IF c \in gets THEN Append(w.feed[c], e) ELSE w.feed[c]
  BY <1>1
<1> HIDE DEF e, v
<1> QED BY <1>1, <1>2, <1>3 DEF e, v

\* publish_event changes what it should of the events and nothing else.
LEMMA PublishType ==
    ASSUME NEW w \in EventsType, NEW scope \in SUBSET Agent, StreamTypes, RingRuns(w)
    PROVE  publish_event(w, scope) \in EventsType
<1> DEFINE v == publish_event(w, scope)
<1> DEFINE e == Event(w.next, scope)
<1>1. /\ w.next \in Nat /\ w.feed \in [Client -> Seq(Item)] /\ w.owed \in [Client -> SUBSET Nat]
      /\ w.subscribers \in SUBSET Client /\ w.handovers \in Maps(Agent, Nat)
  BY DEF EventsType
<1>2. e \in Item
  BY <1>1 DEF Event, Item
<1>3. v.next \in Nat /\ v.ring \in Seq(Item) /\ v.handovers \in Maps(Agent, Nat)
  BY <1>1, PublishRing
<1>4. /\ v = [next |-> v.next, ring |-> v.ring, subscribers |-> v.subscribers, feed |-> v.feed,
              handovers |-> v.handovers, owed |-> v.owed]
      /\ DOMAIN v.feed = Client /\ v.feed = [c \in Client |-> v.feed[c]]
      /\ DOMAIN v.owed = Client /\ v.owed = [c \in Client |-> v.owed[c]]
      /\ v.subscribers \subseteq w.subscribers
  <2>1. w = [next |-> w.next, ring |-> w.ring, subscribers |-> w.subscribers, feed |-> w.feed,
             handovers |-> w.handovers, owed |-> w.owed]
    BY DEF EventsType
  <2>2. v = [next |-> v.next, ring |-> v.ring, subscribers |-> v.subscribers, feed |-> v.feed,
             handovers |-> v.handovers, owed |-> v.owed]
    <3> DEFINE r == Append(IF Len(w.ring) = setup.history THEN Tail(w.ring) ELSE w.ring, e)
    <3> DEFINE sees == {c \in w.subscribers : visible(e, c)}
    <3> DEFINE gets == {c \in sees : open[c] /\ Len(w.feed[c]) < setup.buffer}
    <3> DEFINE f == [c \in Client |-> IF c \in gets THEN Append(w.feed[c], e) ELSE w.feed[c]]
    <3> DEFINE s == (w.subscribers \ sees) \cup gets
    <3> DEFINE o == Owing(w, e)
    <3>1. v = [w EXCEPT !.next = w.next + 1, !.ring = r, !.subscribers = s, !.feed = f, !.owed = o]
      BY <2>1 DEF publish_event
    <3> HIDE DEF v, r, s, f, o
    <3> QED BY <2>1, <3>1
  <2>3. v.subscribers \subseteq w.subscribers
    BY DEF publish_event, EventsType
  <2>4. DOMAIN v.feed = Client /\ v.feed = [c \in Client |-> v.feed[c]]
    BY DEF publish_event, EventsType
  <2>5. DOMAIN v.owed = Client /\ v.owed = [c \in Client |-> v.owed[c]]
    BY DEF publish_event, EventsType, Owing
  <2> QED BY <2>2, <2>3, <2>4, <2>5
<1>5. ASSUME NEW c \in Client
      PROVE  v.feed[c] \in Seq(Item) /\ v.owed[c] \in SUBSET Nat
  <2>1. v.feed[c] = w.feed[c] \/ v.feed[c] = Append(w.feed[c], e)
    BY PublishClient
  <2>2. v.owed[c] = w.owed[c] \/ v.owed[c] = w.owed[c] \cup {w.next}
    BY PublishClient
  <2> HIDE DEF v, e
  <2>3. v.feed[c] \in Seq(Item)
    <3> DEFINE f == w.feed[c]
    <3>1. f \in Seq(Item) /\ (v.feed[c] = f \/ v.feed[c] = Append(f, e))
      BY <1>1, <2>1
    <3> HIDE DEF f
    <3>2. Append(f, e) \in Seq(Item)
      BY <1>2, <3>1, AppendProperties
    <3> QED BY <3>1, <3>2
  <2> QED BY <1>1, <2>2, <2>3
<1> HIDE DEF v
<1>6. v.feed \in [Client -> Seq(Item)] /\ v.owed \in [Client -> SUBSET Nat]
  BY <1>4, <1>5
<1>7. v.subscribers \in SUBSET Client
  BY <1>1, <1>4
<1>8. v \in EventsType
  BY <1>3, <1>4, <1>6, <1>7 DEF EventsType
<1> QED BY <1>8 DEF v

\* publish_event keeps what is to come in turn, and no event goes missing:
\* whoever sees it gets it, or its stream ends.
LEMMA PublishKeeps ==
    ASSUME NEW w \in EventsType, NEW scope \in SUBSET Agent, StreamTypes, EventsInv(w)
    PROVE  /\ publish_event(w, scope) \in EventsType
           /\ EventsInv(publish_event(w, scope))
<1> DEFINE v == publish_event(w, scope)
<1> DEFINE e == Event(w.next, scope)
<1>1. v \in EventsType
  BY PublishType DEF EventsInv
<1>2. /\ v.next = w.next + 1 /\ v.handovers = w.handovers /\ RingRuns(v)
      /\ \A i \in DOMAIN v.ring :
            \/ v.ring[i] = e
            \/ v.ring[i].id < w.next /\ \E j \in DOMAIN w.ring : v.ring[i] = w.ring[j]
  BY PublishRing DEF EventsInv
<1>3. w.next \in Nat /\ e.id = w.next /\ e.kind = "event" /\ e \in Item
  BY DEF EventsType, Event, Item
<1>4. ASSUME NEW c \in Client
      PROVE  InTurn(v, c) /\ OwedRight(v, c) /\ Covered(v, c)
  <2> DEFINE f == w.feed[c]
  <2> DEFINE g == v.feed[c]
  <2> DEFINE t == todo[c]
  <2>1. /\ \/ /\ open[c] /\ visible(e, c) /\ c \in w.subscribers
              /\ g = Append(f, e)
           \/ /\ g = f
              /\ c \in v.subscribers /\ open[c] => ~visible(e, c)
        /\ c \in v.subscribers => c \in w.subscribers
        /\ v.owed[c] = IF visible(e, c) /\ (open[c] \/ last[c] # NoId)
                       THEN w.owed[c] \cup {w.next} ELSE w.owed[c]
    BY PublishClient
  <2>2. /\ f \in Seq(Item) /\ t \in Seq(Item) /\ last[c] \in Nat /\ w.owed[c] \in SUBSET Nat
        /\ DOMAIN f = 1..Len(f) /\ Len(f) \in Nat /\ DOMAIN t = 1..Len(t) /\ Len(t) \in Nat
        /\ \A i \in DOMAIN f : f[i] \in Item /\ f[i].id \in Nat
        /\ \A i \in DOMAIN t : t[i] \in Item /\ t[i].id \in Nat /\ t[i].kind \in {"event", "resync"}
    <3>1. f \in Seq(Item) /\ t \in Seq(Item) /\ last[c] \in Nat /\ w.owed[c] \in SUBSET Nat
      BY DEF EventsType, StreamTypes
    <3> HIDE DEF f, t
    <3>2. \A x \in Item : x.id \in Nat /\ x.kind \in {"event", "resync"}
      BY DEF Item
    <3>3. /\ DOMAIN f = 1..Len(f) /\ Len(f) \in Nat /\ DOMAIN t = 1..Len(t) /\ Len(t) \in Nat
          /\ \A i \in DOMAIN f : f[i] \in Item
          /\ \A i \in DOMAIN t : t[i] \in Item
      BY <3>1
    <3> QED BY <3>1, <3>2, <3>3
  <2>3. InTurn(w, c) /\ OwedRight(w, c) /\ Covered(w, c)
    BY DEF EventsInv
  <2>4. /\ \/ g = f /\ (c \in v.subscribers /\ open[c] => ~visible(e, c))
           \/ g # f /\ open[c] /\ DOMAIN g = 1..(Len(f) + 1) /\ g[Len(f) + 1] = e
        /\ \A i \in DOMAIN f : i \in DOMAIN g /\ g[i] = f[i]
        /\ g # f => \A i \in DOMAIN g : i \in DOMAIN f \/ i = Len(f) + 1
    <3> HIDE DEF g, f, e
    <3>1. CASE g = Append(f, e) /\ open[c]
      <4>1. /\ Len(g) = Len(f) + 1 /\ g \in Seq(Item)
            /\ \A i \in 1..Len(f) : g[i] = f[i]
            /\ g[Len(f) + 1] = e
        BY <1>3, <2>2, <3>1, AppendProperties
      <4>2. DOMAIN g = 1..(Len(f) + 1) /\ Len(f) + 1 # Len(f)
        <5>1. Len(f) \in Nat /\ DOMAIN g = 1..Len(g)
          BY <2>2, <4>1
        <5> QED BY <4>1, <5>1
      <4>3. g # f
        BY <4>1, <4>2
      <4>4. Len(f) \in Nat /\ DOMAIN f = 1..Len(f)
        BY <2>2
      <4>5. \A i \in DOMAIN f : i \in DOMAIN g /\ g[i] = f[i]
        <5>1. \A i \in 1..Len(f) : i \in 1..(Len(f) + 1)
          BY <4>4
        <5> QED BY <4>1, <4>2, <4>4, <5>1, Zenon
      <4>6. \A i \in DOMAIN g : i \in DOMAIN f \/ i = Len(f) + 1
        <5>1. \A i \in 1..(Len(f) + 1) : i \in 1..Len(f) \/ i = Len(f) + 1
          BY <4>4
        <5> QED BY <4>2, <4>4, <5>1, Zenon
      <4> QED BY <3>1, <4>1, <4>2, <4>3, <4>5, <4>6
    <3>2. CASE g = f /\ (c \in v.subscribers /\ open[c] => ~visible(e, c))
      BY <2>2, <3>2
    <3> QED BY <2>1, <3>1, <3>2
  <2> HIDE DEF v, e, f, g, t
  <2>5. InTurn(v, c)
    <3>1. ASSUME NEW i \in DOMAIN g
          PROVE  g[i].kind = "event" /\ last[c] < g[i].id /\ g[i].id < v.next
      <4>1. CASE i \in DOMAIN f
        BY <1>2, <1>3, <2>2, <2>3, <2>4, <4>1 DEF InTurn, f
      <4>2. CASE g # f /\ i = Len(f) + 1
        BY <1>2, <1>3, <2>2, <2>3, <2>4, <4>2 DEF InTurn
      <4> QED BY <2>4, <4>1, <4>2
    <3>2. ASSUME NEW i \in DOMAIN g, NEW j \in DOMAIN g, i < j
          PROVE  g[i].id < g[j].id
      <4>1. CASE i \in DOMAIN f /\ j \in DOMAIN f
        BY <2>3, <2>4, <3>2, <4>1 DEF InTurn, f
      <4>2. CASE i \in DOMAIN f /\ g # f /\ j = Len(f) + 1
        BY <1>2, <1>3, <2>2, <2>3, <2>4, <4>2 DEF InTurn, f
      <4>3. CASE g # f /\ i = Len(f) + 1
        BY <2>2, <2>4, <3>2, <4>3
      <4> QED BY <2>4, <4>1, <4>2, <4>3
    <3>3. ASSUME NEW i \in DOMAIN t, NEW j \in DOMAIN g
          PROVE  IF t[i].kind = "event" THEN t[i].id < g[j].id ELSE t[i].id <= g[j].id
      <4>1. CASE j \in DOMAIN f
        BY <2>3, <2>4, <4>1 DEF InTurn, f, t
      <4>2. CASE g # f /\ j = Len(f) + 1
        BY <1>2, <1>3, <2>2, <2>3, <2>4, <4>2 DEF InTurn, t
      <4> QED BY <2>4, <4>1, <4>2
    <3>4. /\ open[c] \/ (t = <<>> /\ g = <<>>)
          /\ last[c] < v.next
          /\ \A i \in DOMAIN t : t[i].kind = "event" => last[c] < t[i].id /\ t[i].id < v.next
          /\ \A i \in DOMAIN t : t[i].kind = "resync" => t[i].id <= v.next /\ Len(t) = 1
          /\ \A i, j \in DOMAIN t : i < j => t[i].id < t[j].id
      BY <1>2, <1>3, <2>2, <2>3, <2>4 DEF InTurn, f, t
    <3> QED BY <3>1, <3>2, <3>3, <3>4 DEF InTurn, g, t
  <2>6. OwedRight(v, c)
    <3>1. \A id \in v.owed[c] : last[c] < id /\ id < v.next
      BY <1>2, <1>3, <2>1, <2>2, <2>3 DEF OwedRight, InTurn
    <3>2. ASSUME NEW i \in DOMAIN v.ring, v.ring[i].id \in v.owed[c]
          PROVE  visible(v.ring[i], c)
      <4>1. CASE v.ring[i] = e
        <5>1. w.next \notin w.owed[c]
          BY <1>3, <2>2, <2>3 DEF OwedRight
        <5> QED BY <1>3, <2>1, <3>2, <4>1, <5>1
      <4>2. CASE v.ring[i].id < w.next /\ \E j \in DOMAIN w.ring : v.ring[i] = w.ring[j]
        <5>1. v.ring[i].id \in w.owed[c]
          BY <1>3, <2>1, <3>2, <4>2
        <5> QED BY <2>3, <4>2, <5>1 DEF OwedRight
      <4> QED BY <1>2, <4>1, <4>2
    <3>3. Filter[c] \in DOMAIN v.handovers => \A id \in v.owed[c] : v.handovers[Filter[c]] <= id
      <4>1. \A a \in DOMAIN w.handovers : w.handovers[a] <= w.next
        BY DEF EventsInv, HandoversKnown
      <4> QED BY <1>2, <2>1, <2>3, <4>1 DEF OwedRight
    <3> QED BY <3>1, <3>2, <3>3 DEF OwedRight
  <2>7. Covered(v, c)
    <3>1. SUFFICES ASSUME open[c], NEW id \in v.owed[c]
          PROVE  \/ \E i \in DOMAIN t : t[i].kind = "resync" /\ id < t[i].id
                 \/ \E i \in DOMAIN t : t[i].kind = "event" /\ id = t[i].id
                 \/ \E i \in DOMAIN g : id = g[i].id
                 \/ /\ c \notin v.subscribers
                    /\ \A i \in DOMAIN t : t[i].id <= id
                    /\ \A i \in DOMAIN g : g[i].id < id
      BY DEF Covered, t, g
    <3>2. CASE id = w.next /\ visible(e, c) /\ g = f
      <4>1. c \notin v.subscribers
        BY <2>4, <3>1, <3>2
      <4>2. \A i \in DOMAIN t : t[i].id <= id
        BY <1>3, <2>2, <2>3, <3>2 DEF InTurn, t
      <4>3. \A i \in DOMAIN g : g[i].id < id
        BY <1>3, <2>2, <2>3, <3>2 DEF InTurn, f
      <4> QED BY <4>1, <4>2, <4>3
    <3>3. CASE id = w.next /\ g # f
      <4>1. Len(f) + 1 \in DOMAIN g /\ g[Len(f) + 1].id = id
        BY <1>3, <2>2, <2>4, <3>3
      <4> QED BY <4>1
    <3>4. CASE id \in w.owed[c]
      <4>1. \/ \E i \in DOMAIN t : t[i].kind = "resync" /\ id < t[i].id
            \/ \E i \in DOMAIN t : t[i].kind = "event" /\ id = t[i].id
            \/ \E i \in DOMAIN f : id = f[i].id
            \/ /\ c \notin w.subscribers
               /\ \A i \in DOMAIN t : t[i].id <= id
               /\ \A i \in DOMAIN f : f[i].id < id
        BY <2>3, <3>1, <3>4 DEF Covered, t, f
      <4>2. g # f => c \in w.subscribers
        BY <2>1
      <4> QED BY <2>1, <2>4, <4>1, <4>2
    <3> QED BY <2>1, <3>1, <3>2, <3>3, <3>4
  <2> QED BY <2>5, <2>6, <2>7
<1>5. HandoversKnown(v)
  <2>1. w.handovers \in [DOMAIN w.handovers -> Nat]
    BY MapsFact DEF EventsType
  <2> HIDE DEF v
  <2> QED BY <1>2, <1>3, <2>1 DEF EventsInv, HandoversKnown
<1> HIDE DEF v
<1>6. EventsInv(v)
  BY <1>2, <1>4, <1>5 DEF EventsInv
<1> QED BY <1>1, <1>6 DEF v

\* hand_over's notes: of the name when it changed hands, of the others what
\* the history may still have something to hide of.
LEMMA HandOverNotes ==
    ASSUME NEW w \in EventsType, NEW name \in Agent, HandoversKnown(w)
    PROVE  LET v == hand_over(w, name)
           IN  /\ v.next = w.next /\ v.ring = w.ring /\ v.feed = w.feed
               /\ v.subscribers \subseteq w.subscribers
               /\ \A c \in Client : v.owed[c] = IF Filter[c] = name THEN {} ELSE w.owed[c]
               /\ v \in EventsType
               /\ name \in DOMAIN v.handovers /\ v.handovers[name] = w.next
               /\ \A a \in Agent \ {name} :
                     IF a \in DOMAIN v.handovers
                     THEN a \in DOMAIN w.handovers /\ v.handovers[a] = w.handovers[a]
                     ELSE a \in DOMAIN w.handovers => w.handovers[a] <= oldest(w)
               /\ HandoversKnown(v)
<1> DEFINE v == hand_over(w, name)
<1> DEFINE keep == {a \in DOMAIN w.handovers : w.handovers[a] > oldest(w)} \cup {name}
<1> DEFINE h == [a \in keep |-> IF a = name THEN w.next ELSE w.handovers[a]]
<1> DEFINE s == {c \in w.subscribers : Filter[c] # name}
<1> DEFINE o == [c \in Client |-> IF Filter[c] = name THEN {} ELSE w.owed[c]]
<1>1. /\ w = [next |-> w.next, ring |-> w.ring, subscribers |-> w.subscribers, feed |-> w.feed,
              handovers |-> w.handovers, owed |-> w.owed]
      /\ w.next \in Nat /\ w.ring \in Seq(Item) /\ w.subscribers \in SUBSET Client
      /\ w.feed \in [Client -> Seq(Item)] /\ w.owed \in [Client -> SUBSET Nat]
      /\ w.handovers \in Maps(Agent, Nat)
  BY DEF EventsType
<1>2. v = [w EXCEPT !.handovers = h, !.subscribers = s, !.owed = o]
  BY <1>1 DEF hand_over
<1>3. w.handovers \in [DOMAIN w.handovers -> Nat] /\ DOMAIN w.handovers \subseteq Agent
  BY <1>1, MapsFact
<1>4. /\ h \in [keep -> Nat] /\ keep \subseteq Agent /\ name \in keep /\ h[name] = w.next
      /\ \A a \in keep : a # name => h[a] = w.handovers[a] /\ a \in DOMAIN w.handovers
      /\ \A a \in Agent : a \notin keep /\ a \in DOMAIN w.handovers => ~(w.handovers[a] > oldest(w))
      /\ \A a \in keep : h[a] <= w.next
  BY <1>1, <1>3 DEF HandoversKnown
<1>5. /\ o \in [Client -> SUBSET Nat] /\ s \in SUBSET Client /\ s \subseteq w.subscribers
      /\ \A c \in Client : o[c] = IF Filter[c] = name THEN {} ELSE w.owed[c]
  BY <1>1
<1> HIDE DEF v, h, s, o, keep
<1>6. /\ v.next = w.next /\ v.ring = w.ring /\ v.feed = w.feed
      /\ v.subscribers = s /\ v.owed = o /\ v.handovers = h
      /\ v = [next |-> w.next, ring |-> w.ring, subscribers |-> s, feed |-> w.feed,
              handovers |-> h, owed |-> o]
  BY <1>1, <1>2
<1>7. DOMAIN h = keep /\ h \in Maps(Agent, Nat)
  BY <1>4, MapsFact
<1>8. v \in EventsType
  BY <1>1, <1>5, <1>6, <1>7 DEF EventsType
<1>9. ASSUME NEW a \in Agent \ {name}
      PROVE  IF a \in DOMAIN v.handovers
             THEN a \in DOMAIN w.handovers /\ v.handovers[a] = w.handovers[a]
             ELSE a \in DOMAIN w.handovers => w.handovers[a] <= oldest(w)
  <2>1. CASE a \in keep
    BY <1>4, <1>6, <1>7, <2>1
  <2>2. CASE a \notin keep /\ a \in DOMAIN w.handovers
    <3>1. w.handovers[a] \in Nat /\ ~(w.handovers[a] > oldest(w))
      BY <1>3, <1>4, <2>2
    <3>2. oldest(w) \in Nat
      <4>1. w.ring # <<>> => w.ring[1] \in Item
        BY <1>1
      <4> QED BY <1>1, <4>1 DEF oldest, Item
    <3> QED BY <1>6, <1>7, <2>2, <3>1, <3>2
  <2>3. CASE a \notin keep /\ a \notin DOMAIN w.handovers
    BY <1>6, <1>7, <2>3
  <2> QED BY <2>1, <2>2, <2>3
<1>10. HandoversKnown(v)
  BY <1>4, <1>6, <1>7 DEF HandoversKnown
<1>11. \A c \in Client : v.owed[c] = IF Filter[c] = name THEN {} ELSE w.owed[c]
  BY <1>5, <1>6
<1>12. name \in DOMAIN v.handovers /\ v.handovers[name] = w.next /\ v.subscribers \subseteq w.subscribers
  BY <1>4, <1>5, <1>6, <1>7
<1> QED BY <1>6, <1>8, <1>9, <1>10, <1>11, <1>12 DEF v

\* hand_over keeps what is to come in turn; who follows the name is owed
\* nothing of its past.
LEMMA HandOverKeeps ==
    ASSUME NEW w \in EventsType, NEW name \in Agent, StreamTypes, EventsInv(w)
    PROVE  /\ hand_over(w, name) \in EventsType
           /\ EventsInv(hand_over(w, name))
<1> DEFINE v == hand_over(w, name)
<1>1. /\ v.next = w.next /\ v.ring = w.ring /\ v.feed = w.feed
      /\ v.subscribers \subseteq w.subscribers
      /\ \A c \in Client : v.owed[c] = IF Filter[c] = name THEN {} ELSE w.owed[c]
      /\ v \in EventsType
      /\ \A a \in Agent \ {name} :
            a \in DOMAIN v.handovers => a \in DOMAIN w.handovers /\ v.handovers[a] = w.handovers[a]
      /\ HandoversKnown(v)
  BY HandOverNotes DEF EventsInv
<1> HIDE DEF v
<1>2. RingRuns(v)
  BY <1>1 DEF EventsInv, RingRuns
<1>3. ASSUME NEW c \in Client
      PROVE  InTurn(v, c) /\ OwedRight(v, c) /\ Covered(v, c)
  <2>1. InTurn(w, c) /\ OwedRight(w, c) /\ Covered(w, c)
    BY DEF EventsInv
  <2>2. v.owed[c] = {} \/ (v.owed[c] = w.owed[c] /\ Filter[c] # name)
    BY <1>1
  <2>3. InTurn(v, c)
    BY <1>1, <2>1 DEF InTurn
  <2>4. Covered(v, c)
    BY <1>1, <2>1, <2>2 DEF Covered
  <2>5. OwedRight(v, c)
    <3>1. CASE v.owed[c] = {}
      BY <3>1 DEF OwedRight
    <3>2. CASE v.owed[c] = w.owed[c] /\ Filter[c] # name
      <4>1. Filter[c] \in DOMAIN v.handovers => Filter[c] \in Agent \ {name}
        BY <1>1, <3>2, MapsFact DEF EventsType
      <4> QED BY <1>1, <2>1, <3>2, <4>1 DEF OwedRight
    <3> QED BY <2>2, <3>1, <3>2
  <2> QED BY <2>3, <2>4, <2>5
<1>4. EventsInv(v)
  BY <1>1, <1>2, <1>3 DEF EventsInv
<1> QED BY <1>1, <1>4 DEF v

--------------------------------------------------------------------------
(* The streams.                                                            *)

\* A step of one client's stream leaves the others as they were.
LEMMA OthersKeep ==
    ASSUME NEW d \in Client, InTurn(ev, d), OwedRight(ev, d), Covered(ev, d),
           ev'.next = ev.next, ev'.ring = ev.ring, ev'.handovers = ev.handovers,
           ev'.feed[d] = ev.feed[d], ev'.owed[d] = ev.owed[d],
           d \in ev'.subscribers => d \in ev.subscribers,
           open'[d] = open[d], todo'[d] = todo[d], last'[d] = last[d]
    PROVE  (InTurn(ev, d) /\ OwedRight(ev, d) /\ Covered(ev, d))'
<1>1. InTurn(ev, d)'
  BY DEF InTurn
<1>2. OwedRight(ev, d)'
  BY DEF OwedRight, visible
<1>3. Covered(ev, d)'
  BY DEF Covered
<1> QED BY <1>1, <1>2, <1>3

\* What a stream starts with (Core::subscribe): nothing, the gap of a client
\* that is behind, or those of the history that the client sees, that came
\* after what it got and since its name changed hands, in their order.
LEMMA SubscribeStarts ==
    ASSUME NEW c \in Client, StreamTypes, ev \in EventsType, EventsInv(ev), subscribe(c)
    PROVE  LET since == IF Filter[c] \in DOMAIN ev.handovers THEN ev.handovers[Filter[c]] ELSE NoId
           IN  /\ todo'[c] \in Seq(Item)
               /\ \/ last[c] = NoId /\ todo'[c] = <<>>
                  \/ todo'[c] = <<Gap(ev.next)>>
                  \/ /\ last[c] # NoId
                     /\ \A i \in DOMAIN todo'[c] :
                           /\ todo'[c][i].kind = "event"
                           /\ last[c] < todo'[c][i].id /\ todo'[c][i].id < ev.next
                           /\ since <= todo'[c][i].id /\ oldest(ev) <= todo'[c][i].id
                     /\ \A i, j \in DOMAIN todo'[c] : i < j => todo'[c][i].id < todo'[c][j].id
                     /\ \A id \in ev.owed[c] : \E i \in DOMAIN todo'[c] : todo'[c][i].id = id
<1> DEFINE since == IF Filter[c] \in DOMAIN ev.handovers THEN ev.handovers[Filter[c]] ELSE NoId
<1> DEFINE kept == {e \in ToSet(ev.ring) : e.id > last[c] /\ e.id >= since /\ visible(e, c)}
<1> DEFINE r == ev.ring
<1> DEFINE t == Those(r, kept)
<1>1. /\ ev.next \in Nat /\ r \in Seq(Item) /\ last[c] \in Nat
      /\ DOMAIN r = 1..Len(r) /\ Len(r) \in Nat
      /\ ev.owed[c] \in SUBSET Nat
  BY DEF EventsType, StreamTypes
<1>2. /\ todo \in [Client -> Seq(Item)]
      /\ todo'[c] = IF last[c] = NoId THEN <<>>
                    ELSE IF behind(last[c]) THEN <<Gap(ev.next)>> ELSE t
  BY DEF subscribe, StreamTypes
<1>3. <<>> \in Seq(Item) /\ <<Gap(ev.next)>> \in Seq(Item)
  <2>1. Gap(ev.next) \in Item
    BY <1>1 DEF Gap, Item
  <2> QED BY <2>1
<1>4. CASE last[c] = NoId \/ behind(last[c])
  BY <1>2, <1>3, <1>4
<1>5. CASE last[c] # NoId /\ ~behind(last[c])
  <2>1. todo'[c] = t
    BY <1>2, <1>5
  <2>2. /\ t \in Seq(Item)
        /\ \E at \in [1..Len(t) -> 1..Len(r)] :
              /\ \A n \in 1..Len(t) : r[at[n]] \in kept /\ t[n] = r[at[n]]
              /\ \A n, m \in 1..Len(t) : n < m => at[n] < at[m]
              /\ \A i \in 1..Len(r) : r[i] \in kept => \E n \in 1..Len(t) : at[n] = i
    <3> HIDE DEF kept, r
    <3> QED BY <1>1, ThosePicks
  <2>3. PICK at \in [1..Len(t) -> 1..Len(r)] :
              /\ \A n \in 1..Len(t) : r[at[n]] \in kept /\ t[n] = r[at[n]]
              /\ \A n, m \in 1..Len(t) : n < m => at[n] < at[m]
              /\ \A i \in 1..Len(r) : r[i] \in kept => \E n \in 1..Len(t) : at[n] = i
    BY <2>2
  <2>4. DOMAIN t = 1..Len(t) /\ Len(t) \in Nat
    BY <2>2
  <2>5. /\ Len(r) < ev.next
        /\ \A i \in 1..Len(r) : r[i].kind = "event" /\ r[i].id = ev.next - Len(r) + i - 1
    BY <1>1 DEF EventsInv, RingRuns
  <2>6. oldest(ev) = ev.next - Len(r) /\ oldest(ev) \in Nat
    BY OldestIs DEF EventsInv
  <2>7. ~(last[c] + 1 < oldest(ev)) /\ ~(last[c] >= ev.next)
    BY <1>5 DEF behind
  <2>8. \A i \in 1..Len(r) : r[i] \in kept =>
            r[i].id > last[c] /\ r[i].id >= since /\ visible(r[i], c)
    OBVIOUS
  <2>9. ASSUME NEW id \in ev.owed[c]
        PROVE  \E n \in 1..Len(t) : t[n].id = id
    <3>1. last[c] < id /\ id < ev.next /\ id \in Nat
      BY <1>1 DEF EventsInv, OwedRight
    <3> DEFINE i == id - ev.next + Len(r) + 1
    <3>2. i \in 1..Len(r) /\ ev.next - Len(r) + i - 1 = id
      <4> DEFINE n == Len(r)
      <4> DEFINE k == ev.next
      <4> DEFINE l == last[c]
      <4>1. n \in Nat /\ k \in Nat /\ l \in Nat /\ id \in Nat
        BY <1>1, <3>1
      <4>2. n < k /\ k - n <= l + 1 /\ l < id /\ id < k
        BY <1>1, <2>5, <2>6, <2>7, <3>1
      <4> HIDE DEF n, k, l
      <4>3. id - k + n + 1 \in 1..n /\ k - n + (id - k + n + 1) - 1 = id
        BY <4>1, <4>2
      <4> QED BY <4>3 DEF n, k
    <3> HIDE DEF i, t
    <3>3. r[i].id = id /\ r[i] \in ToSet(ev.ring)
      BY <1>1, <2>5, <3>2 DEF ToSet
    <3>4. visible(r[i], c)
      BY <1>1, <3>2, <3>3 DEF EventsInv, OwedRight
    <3>5. since <= id
      BY <3>1 DEF EventsInv, OwedRight, NoId
    <3>6. since \in Nat
      <4>1. ev.handovers \in [DOMAIN ev.handovers -> Nat]
        BY MapsFact DEF EventsType
      <4> QED BY <4>1 DEF NoId
    <3>7. r[i] \in kept
      BY <1>1, <3>1, <3>3, <3>4, <3>5, <3>6
    <3>8. PICK n \in 1..Len(t) : at[n] = i
      BY <2>3, <3>2, <3>7
    <3>9. t[n].id = id
      BY <2>3, <3>3, <3>8
    <3> QED BY <3>9
  <2>10. ASSUME NEW n \in 1..Len(t)
         PROVE  /\ t[n].kind = "event" /\ last[c] < t[n].id /\ t[n].id < ev.next
                /\ since <= t[n].id /\ oldest(ev) <= t[n].id
                /\ t[n].id = ev.next - Len(r) + at[n] - 1
    <3> HIDE DEF t, kept
    <3>1. at[n] \in 1..Len(r) /\ r[at[n]] \in kept /\ t[n] = r[at[n]]
      BY <2>3
    <3>2. r[at[n]].id > last[c] /\ r[at[n]].id >= since
      BY <2>8, <3>1
    <3>3. r[at[n]].kind = "event" /\ r[at[n]].id = ev.next - Len(r) + at[n] - 1
      BY <2>5, <3>1
    <3>4. since \in Nat
      <4>1. ev.handovers \in [DOMAIN ev.handovers -> Nat]
        BY MapsFact DEF EventsType
      <4> QED BY <4>1 DEF NoId
    <3> DEFINE x == at[n]
    <3>5. x \in 1..Len(r)
      BY <3>1
    <3> HIDE DEF x
    <3>6. ev.next - Len(r) + x - 1 < ev.next /\ ev.next - Len(r) <= ev.next - Len(r) + x - 1
          /\ ev.next - Len(r) + x - 1 \in Int
      BY <1>1, <3>5
    <3> QED BY <1>1, <2>6, <3>1, <3>2, <3>3, <3>4, <3>6 DEF x
  <2>11. ASSUME NEW n \in 1..Len(t), NEW m \in 1..Len(t), n < m
         PROVE  t[n].id < t[m].id
    <3> HIDE DEF t
    <3> DEFINE x == at[n]
    <3> DEFINE y == at[m]
    <3>1. x < y /\ x \in 1..Len(r) /\ y \in 1..Len(r)
      BY <2>3, <2>11
    <3>2. t[n].id = ev.next - Len(r) + x - 1 /\ t[m].id = ev.next - Len(r) + y - 1
      BY <2>10
    <3> HIDE DEF x, y
    <3> QED BY <1>1, <3>1, <3>2
  <2> HIDE DEF t, since
  <2> QED BY <1>5, <2>1, <2>2, <2>4, <2>9, <2>10, <2>11 DEF since
<1> QED BY <1>4, <1>5

\* What a step of a stream has to keep.
StreamsInv == StreamTypes /\ ev \in EventsType /\ EventsInv(ev)

\* subscribe: whoever comes back gets what it is owed, or is told.
LEMMA SubscribeKeeps ==
    ASSUME NEW c \in Client, StreamsInv, subscribe(c)
    PROVE  StreamsInv'
<1>1. StreamTypes /\ ev \in EventsType /\ EventsInv(ev) /\ setup' = setup /\ last' = last
  BY DEF StreamsInv, subscribe
<1>2. /\ ev.next \in Nat /\ ev.ring \in Seq(Item) /\ ev.subscribers \in SUBSET Client
      /\ ev.feed \in [Client -> Seq(Item)] /\ ev.owed \in [Client -> SUBSET Nat]
      /\ ev.handovers \in Maps(Agent, Nat) /\ last[c] \in Nat
  BY <1>1 DEF EventsType, StreamTypes
<1>3. /\ ~open[c] /\ open'[c] /\ open' \in [Client -> BOOLEAN]
      /\ \A d \in Client \ {c} : open'[d] = open[d] /\ todo'[d] = todo[d]
  BY <1>1 DEF subscribe, StreamTypes
<1> DEFINE o == IF last[c] = NoId THEN {} ELSE ev.owed[c]
<1> DEFINE s == {x \in ev.subscribers : open[x]} \cup {c}
<1>4. /\ ev' = [ev EXCEPT !.subscribers = s, !.owed[c] = o]
      /\ o \in SUBSET Nat /\ s \in SUBSET Client
      /\ \A d \in Client \ {c} : d \in s => d \in ev.subscribers
  BY <1>1, <1>2 DEF subscribe
<1> HIDE DEF s
<1>5. /\ ev'.next = ev.next /\ ev'.ring = ev.ring /\ ev'.handovers = ev.handovers
      /\ ev'.feed = ev.feed /\ ev'.subscribers = s /\ ev'.owed = [ev.owed EXCEPT ![c] = o]
      /\ ev' \in EventsType
  BY <1>1, <1>2, <1>4 DEF EventsType
<1> DEFINE t == todo'[c]
<1> DEFINE since == IF Filter[c] \in DOMAIN ev.handovers THEN ev.handovers[Filter[c]] ELSE NoId
<1>6. /\ t \in Seq(Item)
      /\ \/ last[c] = NoId /\ t = <<>>
         \/ t = <<Gap(ev.next)>>
         \/ /\ last[c] # NoId
            /\ \A i \in DOMAIN t :
                  /\ t[i].kind = "event"
                  /\ last[c] < t[i].id /\ t[i].id < ev.next
                  /\ since <= t[i].id /\ oldest(ev) <= t[i].id
            /\ \A i, j \in DOMAIN t : i < j => t[i].id < t[j].id
            /\ \A id \in ev.owed[c] : \E i \in DOMAIN t : t[i].id = id
  BY <1>1, SubscribeStarts
<1>7. StreamTypes'
  <2>1. todo' = [todo EXCEPT ![c] = t]
    BY <1>1 DEF subscribe, StreamTypes
  <2> HIDE DEF t
  <2> QED BY <1>1, <1>3, <1>6, <2>1 DEF StreamTypes
<1>8. InTurn(ev, c) /\ OwedRight(ev, c)
  BY <1>1 DEF EventsInv
<1>9. ev.feed[c] = <<>> /\ ev'.feed[c] = <<>>
  BY <1>3, <1>5, <1>8 DEF InTurn
<1>10. ASSUME t = <<Gap(ev.next)>>
       PROVE  DOMAIN t = {1} /\ t[1].kind = "resync" /\ t[1].id = ev.next /\ Len(t) = 1
  BY <1>10 DEF Gap
<1> HIDE DEF t, since
<1>11. InTurn(ev, c)'
  <2>1. /\ last[c] < ev.next
        /\ \A i \in DOMAIN t : t[i].kind = "event" => last[c] < t[i].id /\ t[i].id < ev.next
        /\ \A i \in DOMAIN t : t[i].kind = "resync" => t[i].id <= ev.next /\ Len(t) = 1
        /\ \A i, j \in DOMAIN t : i < j => t[i].id < t[j].id
    <3>1. last[c] < ev.next
      BY <1>8 DEF InTurn
    <3>2. CASE t = <<>>
      BY <3>1, <3>2
    <3>3. CASE t = <<Gap(ev.next)>>
      BY <1>2, <1>10, <3>1, <3>3
    <3>4. CASE /\ \A i \in DOMAIN t : t[i].kind = "event" /\ last[c] < t[i].id /\ t[i].id < ev.next
               /\ \A i, j \in DOMAIN t : i < j => t[i].id < t[j].id
      BY <3>1, <3>4
    <3> QED BY <1>6, <3>2, <3>3, <3>4
  <2> QED BY <1>1, <1>3, <1>5, <1>9, <2>1 DEF InTurn, t
<1>12. ev'.owed[c] = o /\ o \subseteq ev.owed[c]
  BY <1>2, <1>5
<1>13. OwedRight(ev, c)'
  BY <1>1, <1>5, <1>8, <1>12 DEF OwedRight, visible
<1>14. Covered(ev, c)'
  <2>1. ASSUME NEW id \in o
        PROVE  \/ \E i \in DOMAIN t : t[i].kind = "resync" /\ id < t[i].id
               \/ \E i \in DOMAIN t : t[i].kind = "event" /\ id = t[i].id
    <3>1. last[c] # NoId /\ id \in ev.owed[c]
      OBVIOUS
    <3>2. CASE t = <<Gap(ev.next)>>
      <4>1. id < ev.next
        BY <1>8, <3>1 DEF OwedRight
      <4> QED BY <1>10, <3>2, <4>1
    <3> QED BY <1>6, <3>1, <3>2
  <2> QED BY <1>12, <2>1 DEF Covered, t
<1>15. ASSUME NEW d \in Client
       PROVE  (InTurn(ev, d) /\ OwedRight(ev, d) /\ Covered(ev, d))'
  <2>1. CASE d # c
    <3>1. InTurn(ev, d) /\ OwedRight(ev, d) /\ Covered(ev, d)
      BY <1>1 DEF EventsInv
    <3>2. ev'.owed[d] = ev.owed[d] /\ ev'.feed[d] = ev.feed[d]
      BY <1>2, <1>5, <2>1
    <3> QED BY <1>1, <1>3, <1>4, <1>5, <2>1, <3>1, <3>2, OthersKeep
  <2> QED BY <1>11, <1>13, <1>14, <2>1
<1>16. RingRuns(ev)' /\ HandoversKnown(ev)'
  BY <1>1, <1>5 DEF EventsInv, RingRuns, HandoversKnown
<1> QED BY <1>5, <1>7, <1>15, <1>16 DEF StreamsInv, EventsInv

\* deliver hands e to c: it was next of what the stream starts with, or of
\* the buffer, and comes ahead of all the client is owed, or tells it of more.
Delivered(c, e) ==
    /\ Gets(c, e)
    /\ ev' = [ev EXCEPT !.feed[c] = ev'.feed[c], !.owed[c] = Left(c, e)]
    /\ \/ last[c] < e.id /\ e.id < ev.next /\ \A id \in ev.owed[c] : e.id <= id
       \/ e.kind = "resync" /\ e.id <= ev.next
    /\ \/ /\ todo[c] # <<>> /\ e = todo[c][1]
          /\ todo' = [todo EXCEPT ![c] = Tail(todo[c])] /\ ev'.feed = ev.feed
       \/ /\ todo[c] = <<>> /\ ev.feed[c] # <<>> /\ e = ev.feed[c][1] /\ todo' = todo
          /\ ev'.feed = [ev.feed EXCEPT ![c] = Tail(ev.feed[c])]

\* What a client gets next is ahead of all it is owed: the order its stream
\* has is the order of the ids, and what it misses it was told of.
LEMMA DeliverGets ==
    ASSUME NEW c \in Client, StreamsInv, deliver(c)
    PROVE  \E e \in Item : Delivered(c, e)
<1>1. /\ ev.next \in Nat /\ ev.feed \in [Client -> Seq(Item)] /\ todo[c] \in Seq(Item)
      /\ ev.owed \in [Client -> SUBSET Nat] /\ last[c] \in Nat /\ open[c]
      /\ ev.feed[c] \in Seq(Item)
  BY DEF StreamsInv, EventsType, StreamTypes, deliver
<1>2. InTurn(ev, c) /\ OwedRight(ev, c) /\ Covered(ev, c)
  BY DEF StreamsInv, EventsInv
<1>3. \A x \in Item : x.id \in Nat /\ x.kind \in {"event", "resync"}
  BY DEF Item
<1> DEFINE t == todo[c]
<1> DEFINE f == ev.feed[c]
<1>4. CASE /\ t # <<>>
           /\ Gets(c, Head(t))
           /\ todo' = [todo EXCEPT ![c] = Tail(t)]
           /\ ev' = [ev EXCEPT !.owed[c] = Left(c, Head(t))]
  <2>1. Head(t) = t[1] /\ t[1] \in Item /\ DOMAIN t = 1..Len(t) /\ Len(t) \in Nat /\ 1 \in DOMAIN t
    BY <1>1, <1>4
  <2>2. /\ ev'.feed = ev.feed
        /\ ev' = [ev EXCEPT !.feed[c] = ev'.feed[c], !.owed[c] = Left(c, t[1])]
    BY <1>1, <1>4, <2>1 DEF StreamsInv, EventsType
  <2>3. CASE t[1].kind = "resync"
    <3>1. t[1].id <= ev.next
      BY <1>2, <2>1, <2>3 DEF InTurn
    <3>2. Delivered(c, t[1])
      BY <1>4, <2>1, <2>2, <2>3, <3>1 DEF Delivered
    <3> QED BY <2>1, <3>2
  <2>4. CASE t[1].kind = "event"
    <3>1. last[c] < t[1].id /\ t[1].id < ev.next
      BY <1>2, <2>1, <2>4 DEF InTurn
    <3>2. \A i \in DOMAIN t : t[1].id <= t[i].id /\ t[i].kind # "resync"
      <4>1. ASSUME NEW i \in DOMAIN t
            PROVE  t[1].id <= t[i].id /\ t[i].kind # "resync"
        <5>1. CASE i = 1
          BY <1>3, <2>1, <2>4, <5>1
        <5>2. CASE i # 1
          <6>1. 1 < i /\ Len(t) # 1 /\ t[i] \in Item
            <7>1. i \in 1..Len(t) /\ Len(t) \in Nat /\ t[i] \in Item
              BY <1>1, <2>1
            <7> HIDE DEF t
            <7> QED BY <5>2, <7>1
          <6>2. t[1].id < t[i].id
            BY <1>2, <2>1, <6>1 DEF InTurn
          <6>3. t[i].kind # "resync"
            BY <1>2, <6>1 DEF InTurn
          <6> QED BY <1>3, <2>1, <6>1, <6>2, <6>3
        <5> QED BY <5>1, <5>2
      <4> QED BY <4>1
    <3>3. \A j \in DOMAIN f : t[1].id < f[j].id
      BY <1>2, <2>1, <2>4 DEF InTurn
    <3>4. ASSUME NEW id \in ev.owed[c]
          PROVE  t[1].id <= id
      <4>1. \/ \E i \in DOMAIN t : t[i].kind = "resync"
            \/ \E i \in DOMAIN t : id = t[i].id
            \/ \E i \in DOMAIN f : id = f[i].id
            \/ \A i \in DOMAIN t : t[i].id <= id
        BY <1>1, <1>2 DEF Covered
      <4>2. t[1].id \in Nat /\ id \in Nat
        BY <1>1, <1>3, <2>1
      <4> HIDE DEF t, f
      <4> QED BY <2>1, <3>2, <3>3, <4>1, <4>2
    <3>5. Delivered(c, t[1])
      BY <1>4, <2>1, <2>2, <3>1, <3>4 DEF Delivered
    <3> QED BY <2>1, <3>5
  <2> QED BY <1>3, <2>1, <2>3, <2>4
<1>5. CASE /\ t = <<>> /\ f # <<>>
           /\ Gets(c, Head(f))
           /\ ev' = [ev EXCEPT !.feed[c] = Tail(@), !.owed[c] = Left(c, Head(f))]
           /\ todo' = todo
  <2>1. Head(f) = f[1] /\ f[1] \in Item /\ DOMAIN f = 1..Len(f) /\ Len(f) \in Nat /\ 1 \in DOMAIN f
    BY <1>1, <1>5
  <2>2. /\ ev'.feed = [ev.feed EXCEPT ![c] = Tail(f)]
        /\ ev' = [ev EXCEPT !.feed[c] = ev'.feed[c], !.owed[c] = Left(c, f[1])]
    BY <1>1, <1>5, <2>1 DEF StreamsInv, EventsType
  <2>3. last[c] < f[1].id /\ f[1].id < ev.next
    BY <1>2, <2>1 DEF InTurn
  <2>4. \A i \in DOMAIN f : f[1].id <= f[i].id
    <3>1. ASSUME NEW i \in DOMAIN f
          PROVE  f[1].id <= f[i].id
      <4>1. CASE i = 1
        BY <1>3, <2>1, <4>1
      <4>2. CASE i # 1
        <5>1. 1 < i /\ f[i] \in Item
          BY <1>1, <2>1, <4>2
        <5>2. f[1].id < f[i].id
          BY <1>2, <2>1, <5>1 DEF InTurn
        <5> QED BY <1>3, <2>1, <5>1, <5>2
      <4> QED BY <4>1, <4>2
    <3> QED BY <3>1
  <2>5. ASSUME NEW id \in ev.owed[c]
        PROVE  f[1].id <= id
    <3>1. \/ \E i \in DOMAIN f : id = f[i].id
          \/ \A i \in DOMAIN f : f[i].id < id
      BY <1>1, <1>2, <1>5 DEF Covered
    <3>2. f[1].id \in Nat /\ id \in Nat
      BY <1>1, <1>3, <2>1
    <3> HIDE DEF f
    <3> QED BY <2>1, <2>4, <3>1, <3>2
  <2>6. Delivered(c, f[1])
    BY <1>5, <2>1, <2>2, <2>3, <2>5 DEF Delivered
  <2> QED BY <2>1, <2>6
<1> QED BY <1>4, <1>5 DEF deliver

\* What is left of a sequence once its head is taken.
LEMMA TailRest ==
    ASSUME NEW s \in Seq(Item), s # <<>>
    PROVE  /\ Tail(s) \in Seq(Item) /\ 1 \in DOMAIN s
           /\ \A i \in DOMAIN Tail(s) : i + 1 \in DOMAIN s /\ Tail(s)[i] = s[i + 1]
           /\ \A i \in DOMAIN s : i = 1 \/ (1 < i /\ i - 1 \in DOMAIN Tail(s) /\ Tail(s)[i - 1] = s[i])
           /\ \A i \in DOMAIN Tail(s) : i \in Int /\ 1 < i + 1
           /\ Len(s) = 1 => Tail(s) = <<>>
<1>1. /\ Tail(s) \in Seq(Item) /\ Len(Tail(s)) = Len(s) - 1 /\ Len(s) \in Nat /\ Len(s) # 0
      /\ DOMAIN s = 1..Len(s) /\ DOMAIN Tail(s) = 1..Len(Tail(s))
      /\ \A i \in 1..Len(Tail(s)) : Tail(s)[i] = s[i + 1]
  BY HeadTailProperties
<1>2. ASSUME NEW i \in 1..(Len(s) - 1)
      PROVE  i + 1 \in 1..Len(s) /\ i \in Int /\ 1 < i + 1
  BY <1>1
<1>3. ASSUME NEW i \in 1..Len(s), i # 1
      PROVE  1 < i /\ i - 1 \in 1..(Len(s) - 1) /\ (i - 1) + 1 = i
  BY <1>1, <1>3
<1>4. Len(s) = 1 => Tail(s) = <<>>
  <2>1. Tail(s) # <<>> => Len(Tail(s)) \in Nat \ {0}
    BY <1>1, EmptySeq
  <2> QED BY <1>1, <2>1
<1>5. \A i \in 1..Len(s) : i = 1 \/ (1 < i /\ i - 1 \in DOMAIN Tail(s) /\ Tail(s)[i - 1] = s[i])
  <2>1. ASSUME NEW i \in 1..Len(s), i # 1
        PROVE  1 < i /\ i - 1 \in DOMAIN Tail(s) /\ Tail(s)[i - 1] = s[i]
    <3>1. i - 1 \in 1..(Len(s) - 1) /\ (i - 1) + 1 = i /\ 1 < i
      BY <1>3, <2>1
    <3>2. Tail(s)[i - 1] = s[(i - 1) + 1]
      BY <1>1, <3>1
    <3> QED BY <1>1, <3>1, <3>2
  <2> QED BY <2>1
<1> QED BY <1>1, <1>2, <1>4, <1>5

\* deliver: what is left is in turn, and nothing the client is owed went missing.
LEMMA DeliverKeeps ==
    ASSUME NEW c \in Client, StreamsInv, deliver(c)
    PROVE  StreamsInv'
<1>1. /\ StreamTypes /\ ev \in EventsType /\ EventsInv(ev)
      /\ setup' = setup /\ open' = open /\ open[c]
  BY DEF StreamsInv, deliver
<1>2. /\ ev.next \in Nat /\ ev.ring \in Seq(Item) /\ ev.subscribers \in SUBSET Client
      /\ ev.feed \in [Client -> Seq(Item)] /\ ev.owed \in [Client -> SUBSET Nat]
      /\ ev.handovers \in Maps(Agent, Nat) /\ last \in [Client -> Nat]
      /\ todo \in [Client -> Seq(Item)]
  BY <1>1 DEF EventsType, StreamTypes
<1>3. PICK e \in Item : Delivered(c, e)
  BY DeliverGets
<1>4. e.id \in Nat /\ e.kind \in {"event", "resync"} /\ \A x \in Item : x.id \in Nat
  BY DEF Item
<1> DEFINE t == todo[c]
<1> DEFINE f == ev.feed[c]
<1> DEFINE u == todo'[c]
<1> DEFINE g == ev'.feed[c]
<1> DEFINE o == Left(c, e)
<1>5. InTurn(ev, c) /\ OwedRight(ev, c) /\ Covered(ev, c)
  BY <1>1 DEF EventsInv
<1>6. \/ /\ t # <<>> /\ e = t[1] /\ u = Tail(t) /\ g = f
         /\ todo' = [todo EXCEPT ![c] = u] /\ ev'.feed = ev.feed
      \/ /\ t = <<>> /\ f # <<>> /\ e = f[1] /\ u = t /\ g = Tail(f)
         /\ todo' = todo /\ ev'.feed = [ev.feed EXCEPT ![c] = g]
  BY <1>2, <1>3 DEF Delivered
<1>7. /\ t \in Seq(Item) /\ f \in Seq(Item) /\ u \in Seq(Item) /\ g \in Seq(Item)
      /\ todo' \in [Client -> Seq(Item)] /\ ev'.feed \in [Client -> Seq(Item)]
      /\ \A d \in Client \ {c} : todo'[d] = todo[d] /\ ev'.feed[d] = ev.feed[d]
  <2>1. t \in Seq(Item) /\ f \in Seq(Item)
    BY <1>2
  <2>2. u \in Seq(Item) /\ g \in Seq(Item)
    <3> HIDE DEF t, f, u, g
    <3> QED BY <1>6, <2>1, TailRest
  <2> HIDE DEF t, f, u, g
  <2> QED BY <1>2, <1>6, <2>1, <2>2
<1>8. o = {id \in ev.owed[c] : e.id < id} \/ (e.kind = "resync" /\ o = {id \in ev.owed[c] : e.id <= id})
  BY <1>2, <1>4 DEF Left
<1>9. /\ ev'.next = ev.next /\ ev'.ring = ev.ring /\ ev'.handovers = ev.handovers
      /\ ev'.subscribers = ev.subscribers /\ ev'.owed = [ev.owed EXCEPT ![c] = o]
      /\ ev' \in EventsType
  <2>1. ev' = [ev EXCEPT !.feed[c] = g, !.owed[c] = o]
    BY <1>3 DEF Delivered
  <2>2. o \in SUBSET Nat
    BY <1>2, <1>8
  <2> HIDE DEF g, o
  <2> QED BY <1>1, <1>2, <1>7, <2>1, <2>2 DEF EventsType
<1>10. /\ last' = IF e.kind = "resync" THEN last ELSE [last EXCEPT ![c] = e.id]
       /\ last' \in [Client -> Nat]
       /\ last'[c] = IF e.kind = "resync" THEN last[c] ELSE e.id
       /\ \A d \in Client \ {c} : last'[d] = last[d]
  BY <1>2, <1>3, <1>4 DEF Delivered, Gets
<1>11. StreamTypes'
  BY <1>1, <1>7, <1>10 DEF StreamTypes
<1>12. /\ \A i \in DOMAIN t : t[i] \in Item /\ t[i].id \in Nat
       /\ \A i \in DOMAIN f : f[i] \in Item /\ f[i].id \in Nat
  <2> HIDE DEF t, f
  <2> QED BY <1>4, <1>7
<1>13. /\ \A i \in DOMAIN t : t[i].kind = "event" => last[c] < t[i].id /\ t[i].id < ev.next
       /\ \A i \in DOMAIN t : t[i].kind = "resync" => t[i].id <= ev.next /\ Len(t) = 1
       /\ \A i, j \in DOMAIN t : i < j => t[i].id < t[j].id
       /\ \A i \in DOMAIN f : f[i].kind = "event" /\ last[c] < f[i].id /\ f[i].id < ev.next
       /\ \A i, j \in DOMAIN f : i < j => f[i].id < f[j].id
       /\ \A i \in DOMAIN t, j \in DOMAIN f :
              IF t[i].kind = "event" THEN t[i].id < f[j].id ELSE t[i].id <= f[j].id
       /\ last[c] < ev.next
  BY <1>5 DEF InTurn
<1>14. /\ \A id \in ev.owed[c] : last[c] < id /\ id < ev.next
       /\ \A id \in ev.owed[c] :
              \/ \E i \in DOMAIN t : t[i].kind = "resync" /\ id < t[i].id
              \/ \E i \in DOMAIN t : t[i].kind = "event" /\ id = t[i].id
              \/ \E i \in DOMAIN f : id = f[i].id
              \/ /\ c \notin ev.subscribers
                 /\ \A i \in DOMAIN t : t[i].id <= id
                 /\ \A i \in DOMAIN f : f[i].id < id
  BY <1>1, <1>5 DEF OwedRight, Covered
<1>15. \/ last[c] < e.id /\ e.id < ev.next
       \/ e.kind = "resync" /\ e.id <= ev.next
  BY <1>3 DEF Delivered
<1> HIDE DEF t, f, u, g, o
<1>16. /\ last'[c] < ev.next
       /\ \A i \in DOMAIN u : u[i].kind = "event" => last'[c] < u[i].id /\ u[i].id < ev.next
       /\ \A i \in DOMAIN u : u[i].kind = "resync" => u[i].id <= ev.next /\ Len(u) = 1
       /\ \A i, j \in DOMAIN u : i < j => u[i].id < u[j].id
       /\ \A i \in DOMAIN g : g[i].kind = "event" /\ last'[c] < g[i].id /\ g[i].id < ev.next
       /\ \A i, j \in DOMAIN g : i < j => g[i].id < g[j].id
       /\ \A i \in DOMAIN u, j \in DOMAIN g :
              IF u[i].kind = "event" THEN u[i].id < g[j].id ELSE u[i].id <= g[j].id
  <2>1. CASE t # <<>> /\ e = t[1] /\ u = Tail(t) /\ g = f
    <3>1. /\ 1 \in DOMAIN t
          /\ \A i \in DOMAIN u : i \in Int /\ i + 1 \in DOMAIN t /\ u[i] = t[i + 1] /\ 1 < i + 1
          /\ Len(t) = 1 => u = <<>>
      BY <1>7, <2>1, TailRest
    <3>2. last'[c] < ev.next
      BY <1>10, <1>13, <1>15, <1>4
    <3>3. ASSUME NEW i \in DOMAIN u
          PROVE  /\ u[i].kind # "resync"
                 /\ u[i].kind = "event" => last'[c] < u[i].id /\ u[i].id < ev.next
      <4>1. i + 1 \in DOMAIN t /\ u[i] = t[i + 1] /\ 1 < i + 1 /\ Len(t) # 1
        BY <3>1, <3>3
      <4>2. t[1].id < t[i + 1].id
        BY <1>13, <3>1, <4>1
      <4> QED BY <1>4, <1>10, <1>12, <1>13, <2>1, <3>1, <4>1, <4>2
    <3>4. ASSUME NEW i \in DOMAIN u, NEW j \in DOMAIN u, i < j
          PROVE  u[i].id < u[j].id
      <4>1. i + 1 \in DOMAIN t /\ u[i] = t[i + 1] /\ j + 1 \in DOMAIN t /\ u[j] = t[j + 1]
            /\ i \in Int /\ j \in Int
        BY <3>1
      <4>2. i + 1 < j + 1
        BY <3>4, <4>1
      <4> QED BY <1>13, <4>1, <4>2
    <3>5. \A i \in DOMAIN g : g[i].kind = "event" /\ last'[c] < g[i].id /\ g[i].id < ev.next
      BY <1>4, <1>10, <1>12, <1>13, <2>1, <3>1
    <3>6. \A i \in DOMAIN u, j \in DOMAIN g :
              IF u[i].kind = "event" THEN u[i].id < g[j].id ELSE u[i].id <= g[j].id
      BY <1>13, <2>1, <3>1
    <3> QED BY <1>13, <2>1, <3>2, <3>3, <3>4, <3>5, <3>6
  <2>2. CASE t = <<>> /\ f # <<>> /\ e = f[1] /\ u = t /\ g = Tail(f)
    <3>1. /\ 1 \in DOMAIN f
          /\ \A i \in DOMAIN g : i \in Int /\ i + 1 \in DOMAIN f /\ g[i] = f[i + 1] /\ 1 < i + 1
          /\ DOMAIN u = {}
      BY <1>7, <2>2, TailRest
    <3>2. last'[c] < ev.next /\ last'[c] = e.id
      BY <1>10, <1>13, <2>2, <3>1
    <3>3. ASSUME NEW i \in DOMAIN g
          PROVE  g[i].kind = "event" /\ last'[c] < g[i].id /\ g[i].id < ev.next
      <4>1. i + 1 \in DOMAIN f /\ g[i] = f[i + 1] /\ 1 < i + 1
        BY <3>1
      <4> QED BY <1>13, <2>2, <3>1, <3>2, <4>1
    <3>4. ASSUME NEW i \in DOMAIN g, NEW j \in DOMAIN g, i < j
          PROVE  g[i].id < g[j].id
      <4>1. i + 1 \in DOMAIN f /\ g[i] = f[i + 1] /\ j + 1 \in DOMAIN f /\ g[j] = f[j + 1]
            /\ i \in Int /\ j \in Int
        BY <3>1
      <4>2. i + 1 < j + 1
        BY <3>4, <4>1
      <4> QED BY <1>13, <4>1, <4>2
    <3> QED BY <3>1, <3>2, <3>3, <3>4
  <2> QED BY <1>6, <2>1, <2>2
<1>17. InTurn(ev, c)'
  BY <1>1, <1>9, <1>16 DEF InTurn, u, g
<1>18. ev'.owed[c] = o /\ o \subseteq ev.owed[c] /\ o \in SUBSET Nat
  BY <1>2, <1>8, <1>9
<1>19. OwedRight(ev, c)'
  <2>1. ASSUME NEW id \in o
        PROVE  last'[c] < id /\ id < ev.next
    <3>1. CASE e.kind = "resync"
      BY <1>10, <1>14, <1>18, <3>1
    <3>2. CASE e.kind # "resync"
      BY <1>8, <1>10, <1>14, <1>18, <3>2
    <3> QED BY <3>1, <3>2
  <2> QED BY <1>5, <1>9, <1>18, <2>1 DEF OwedRight, visible
<1>20. Covered(ev, c)'
  <2>1. ASSUME NEW id \in o
        PROVE  \/ \E i \in DOMAIN u : u[i].kind = "resync" /\ id < u[i].id
               \/ \E i \in DOMAIN u : u[i].kind = "event" /\ id = u[i].id
               \/ \E i \in DOMAIN g : id = g[i].id
               \/ /\ c \notin ev.subscribers
                  /\ \A i \in DOMAIN u : u[i].id <= id
                  /\ \A i \in DOMAIN g : g[i].id < id
    <3>1. /\ id \in Nat
          /\ \/ \E i \in DOMAIN t : t[i].kind = "resync" /\ id < t[i].id
             \/ \E i \in DOMAIN t : t[i].kind = "event" /\ id = t[i].id
             \/ \E i \in DOMAIN f : id = f[i].id
             \/ /\ c \notin ev.subscribers
                /\ \A i \in DOMAIN t : t[i].id <= id
                /\ \A i \in DOMAIN f : f[i].id < id
      BY <1>14, <1>18
    <3>2. e.id < id \/ (e.kind = "resync" /\ e.id <= id)
      BY <1>8
    <3>3. CASE t # <<>> /\ e = t[1] /\ u = Tail(t) /\ g = f
      <4>1. /\ \A i \in DOMAIN t : i = 1 \/ (i - 1 \in DOMAIN u /\ u[i - 1] = t[i])
            /\ \A i \in DOMAIN u : i + 1 \in DOMAIN t /\ u[i] = t[i + 1]
        BY <1>7, <3>3, TailRest
      <4>2. ~(t[1].kind = "resync" /\ id < t[1].id) /\ ~(t[1].kind = "event" /\ id = t[1].id)
        BY <1>4, <3>1, <3>2, <3>3
      <4>3. CASE \E i \in DOMAIN t : t[i].kind = "resync" /\ id < t[i].id
        BY <4>1, <4>2, <4>3
      <4>4. CASE \E i \in DOMAIN t : t[i].kind = "event" /\ id = t[i].id
        BY <4>1, <4>2, <4>4
      <4> QED BY <3>1, <3>3, <4>1, <4>3, <4>4
    <3>4. CASE t = <<>> /\ f # <<>> /\ e = f[1] /\ u = t /\ g = Tail(f)
      <4>1. /\ \A i \in DOMAIN f : i = 1 \/ (i - 1 \in DOMAIN g /\ g[i - 1] = f[i])
            /\ \A i \in DOMAIN g : i + 1 \in DOMAIN f /\ g[i] = f[i + 1]
            /\ f[1].kind = "event"
        BY <1>7, <1>13, <3>4, TailRest
      <4>2. id # f[1].id
        BY <1>4, <3>1, <3>2, <3>4, <4>1
      <4>3. CASE \E i \in DOMAIN f : id = f[i].id
        BY <4>1, <4>2, <4>3
      <4> QED BY <3>1, <3>4, <4>1, <4>3
    <3> QED BY <1>6, <3>3, <3>4
  <2> QED BY <1>9, <1>18, <2>1 DEF Covered, u, g
<1>21. ASSUME NEW d \in Client
       PROVE  (InTurn(ev, d) /\ OwedRight(ev, d) /\ Covered(ev, d))'
  <2>1. CASE d # c
    <3>1. InTurn(ev, d) /\ OwedRight(ev, d) /\ Covered(ev, d)
      BY <1>1 DEF EventsInv
    <3>2. ev'.owed[d] = ev.owed[d]
      BY <1>2, <1>9, <2>1
    <3> QED BY <1>1, <1>7, <1>9, <1>10, <2>1, <3>1, <3>2, OthersKeep
  <2> QED BY <1>17, <1>19, <1>20, <2>1
<1>22. RingRuns(ev)' /\ HandoversKnown(ev)'
  BY <1>1, <1>9 DEF EventsInv, RingRuns, HandoversKnown
<1> QED BY <1>9, <1>11, <1>21, <1>22 DEF StreamsInv, EventsInv

\* end: a stream ends with nothing left to send.
LEMMA EndKeeps ==
    ASSUME NEW c \in Client, StreamsInv, end(c)
    PROVE  StreamsInv'
<1>1. /\ StreamTypes /\ ev \in EventsType /\ EventsInv(ev)
      /\ setup' = setup /\ ev' = ev /\ todo' = todo /\ last' = last
      /\ open' = [open EXCEPT ![c] = FALSE] /\ todo[c] = <<>> /\ ev.feed[c] = <<>>
  BY DEF StreamsInv, end, ends
<1>2. StreamTypes' /\ ~open'[c] /\ \A d \in Client \ {c} : open'[d] = open[d]
  BY <1>1 DEF StreamTypes
<1>a. /\ ev'.next = ev.next /\ ev'.ring = ev.ring /\ ev'.handovers = ev.handovers
      /\ ev'.subscribers = ev.subscribers /\ ev'.owed = ev.owed /\ ev'.feed = ev.feed
  BY <1>1
<1>3. ASSUME NEW d \in Client
      PROVE  (InTurn(ev, d) /\ OwedRight(ev, d) /\ Covered(ev, d))'
  <2>1. InTurn(ev, d) /\ OwedRight(ev, d) /\ Covered(ev, d)
    BY <1>1 DEF EventsInv
  <2>2. CASE d # c
    BY <1>1, <1>2, <1>a, <2>1, <2>2, OthersKeep
  <2>3. CASE d = c
    <3>1. InTurn(ev, c)'
      BY <1>1, <1>2, <2>1, <2>3 DEF InTurn
    <3>2. OwedRight(ev, c)'
      BY <1>1, <2>1, <2>3 DEF OwedRight, visible
    <3>3. Covered(ev, c)'
      BY <1>2 DEF Covered
    <3> QED BY <2>3, <3>1, <3>2, <3>3
  <2> QED BY <2>2, <2>3
<1>4. RingRuns(ev)' /\ HandoversKnown(ev)'
  BY <1>1 DEF EventsInv, RingRuns, HandoversKnown
<1> QED BY <1>1, <1>2, <1>3, <1>4 DEF StreamsInv, EventsInv

\* leave: what was on its way is lost, and is still owed.
LEMMA LeaveKeeps ==
    ASSUME NEW c \in Client, StreamsInv, leave(c)
    PROVE  StreamsInv'
<1>1. /\ StreamTypes /\ ev \in EventsType /\ EventsInv(ev)
      /\ setup' = setup /\ last' = last
      /\ open' = [open EXCEPT ![c] = FALSE] /\ todo' = [todo EXCEPT ![c] = <<>>]
      /\ ev' = [ev EXCEPT !.feed[c] = <<>>]
  BY DEF StreamsInv, leave
<1>2. /\ StreamTypes' /\ todo'[c] = <<>> /\ ~open'[c]
      /\ \A d \in Client \ {c} : open'[d] = open[d] /\ todo'[d] = todo[d]
  BY <1>1 DEF StreamTypes
<1>3. /\ ev'.next = ev.next /\ ev'.ring = ev.ring /\ ev'.handovers = ev.handovers
      /\ ev'.subscribers = ev.subscribers /\ ev'.owed = ev.owed
      /\ ev'.feed = [ev.feed EXCEPT ![c] = <<>>] /\ ev.feed \in [Client -> Seq(Item)]
      /\ ev' \in EventsType
  <2>1. <<>> \in Seq(Item)
    OBVIOUS
  <2> QED BY <1>1, <2>1 DEF EventsType
<1>4. ev'.feed[c] = <<>> /\ \A d \in Client \ {c} : ev'.feed[d] = ev.feed[d]
  BY <1>3
<1>5. ASSUME NEW d \in Client
      PROVE  (InTurn(ev, d) /\ OwedRight(ev, d) /\ Covered(ev, d))'
  <2>1. InTurn(ev, d) /\ OwedRight(ev, d) /\ Covered(ev, d)
    BY <1>1 DEF EventsInv
  <2>2. CASE d # c
    BY <1>1, <1>2, <1>3, <1>4, <2>1, <2>2, OthersKeep
  <2>3. CASE d = c
    <3>1. InTurn(ev, c)'
      BY <1>1, <1>2, <1>3, <1>4, <2>1, <2>3 DEF InTurn
    <3>2. OwedRight(ev, c)'
      BY <1>1, <1>3, <2>1, <2>3 DEF OwedRight, visible
    <3>3. Covered(ev, c)'
      BY <1>2 DEF Covered
    <3> QED BY <2>3, <3>1, <3>2, <3>3
  <2> QED BY <2>2, <2>3
<1>6. RingRuns(ev)' /\ HandoversKnown(ev)'
  BY <1>1, <1>3 DEF EventsInv, RingRuns, HandoversKnown
<1> QED BY <1>2, <1>3, <1>5, <1>6 DEF StreamsInv, EventsInv

\* NewProcess: the history is gone, and ids go on past those of the last server.
LEMMA NewProcessKeeps ==
    ASSUME StreamsInv, NewProcess
    PROVE  StreamsInv' /\ ev'.ring = <<>> /\ ev.next <= ev'.next /\ DOMAIN ev'.handovers = {}
<1>1. /\ StreamTypes /\ ev \in EventsType /\ EventsInv(ev)
      /\ setup' = setup /\ last' = last
      /\ open' = [c \in Client |-> FALSE] /\ todo' = [c \in Client |-> <<>>]
  BY DEF StreamsInv, NewProcess
<1>2. PICK next \in {ev.next, ev.next + 1} : ev' = NewEvents(next, ev.owed)
  BY DEF NewProcess
<1>3. /\ ev.next \in Nat /\ next \in Nat /\ ev.next <= next /\ ev.owed \in [Client -> SUBSET Nat]
      /\ <<>> \in Seq(Item)
  BY <1>1 DEF EventsType
<1>4. /\ ev'.next = next /\ ev'.ring = <<>> /\ ev'.subscribers = {} /\ ev'.owed = ev.owed
      /\ ev'.feed = [c \in Client |-> <<>>] /\ ev'.handovers = [a \in {} |-> NoId]
      /\ ev' = [next |-> next, ring |-> <<>>, subscribers |-> {}, feed |-> [c \in Client |-> <<>>],
                handovers |-> [a \in {} |-> NoId], owed |-> ev.owed]
  BY <1>2 DEF NewEvents
<1>5. ev'.handovers \in Maps(Agent, Nat) /\ DOMAIN ev'.handovers = {}
  <2>1. [a \in {} |-> NoId] \in [{} -> Nat] /\ DOMAIN [a \in {} |-> NoId] = {}
    BY DEF NoId
  <2>2. [{} -> Nat] \subseteq Maps(Agent, Nat)
    BY DEF Maps
  <2> QED BY <1>4, <2>1, <2>2
<1>6. ev' \in EventsType
  BY <1>3, <1>4, <1>5 DEF EventsType
<1>7. StreamTypes'
  BY <1>1, <1>3 DEF StreamTypes
<1>8. RingRuns(ev)' /\ HandoversKnown(ev)'
  <2>1. 0 < ev.next
    <3>1. Len(ev.ring) \in Nat /\ Len(ev.ring) < ev.next
      BY <1>1 DEF EventsInv, RingRuns, EventsType
    <3> QED BY <1>3, <3>1
  <2> QED BY <1>3, <1>4, <1>5, <2>1 DEF RingRuns, HandoversKnown
<1>9. ASSUME NEW c \in Client
      PROVE  (InTurn(ev, c) /\ OwedRight(ev, c) /\ Covered(ev, c))'
  <2>1. InTurn(ev, c) /\ OwedRight(ev, c) /\ last[c] \in Nat /\ ev.owed[c] \in SUBSET Nat
    BY <1>1, <1>3 DEF EventsInv, StreamTypes
  <2>2. ~open'[c] /\ todo'[c] = <<>> /\ ev'.feed[c] = <<>>
    BY <1>1, <1>4
  <2>3. InTurn(ev, c)'
    BY <1>1, <1>3, <1>4, <2>1, <2>2 DEF InTurn
  <2>4. OwedRight(ev, c)'
    BY <1>1, <1>3, <1>4, <1>5, <2>1 DEF OwedRight
  <2>5. Covered(ev, c)'
    BY <2>2 DEF Covered
  <2> QED BY <2>3, <2>4, <2>5
<1> QED BY <1>3, <1>4, <1>5, <1>6, <1>7, <1>8, <1>9 DEF StreamsInv, EventsInv

--------------------------------------------------------------------------
(* The worlds that a request's commits lead through.                       *)

WorldInv(w) ==
    /\ w \in WorldType
    /\ EventsInv(w.ev)
    /\ StoreInv(w.store, w.passed)

\* The past of all names but some is noted, and those some changed hands now.
PastBut(w, names) ==
    /\ \A a \in Agent \ names : PastNoted(w.past, w.ev, a)
    /\ \A a \in names : w.past[a] <= w.ev.next

\* The parts of a world.
LEMMA WorldParts ==
    ASSUME NEW w \in WorldType
    PROVE  /\ w = [store |-> w.store, ev |-> w.ev, passed |-> w.passed, past |-> w.past]
           /\ w.store \in StoreType /\ w.ev \in EventsType
           /\ w.passed \in [Agent -> SUBSET Nat] /\ w.past \in [Agent -> Nat]
  BY DEF WorldType

\* The parts of a store.
LEMMA StoreParts ==
    ASSUME NEW s \in StoreType
    PROVE  /\ s = [agents |-> s.agents, sent |-> s.sent, keys |-> s.keys, last_id |-> s.last_id]
           /\ s.agents \in [DOMAIN s.agents -> Nat] /\ DOMAIN s.agents \subseteq Agent
           /\ s.sent \in SUBSET Broadcast
           /\ s.keys \in [DOMAIN s.keys -> Nat] /\ DOMAIN s.keys \subseteq Agent \X Key
           /\ s.last_id \in Nat
  BY MapsFact DEF StoreType

\* Core::emit: an event among a request's changes.
LEMMA EmitWorld ==
    ASSUME NEW w, WorldInv(w), NEW scope \in SUBSET Agent, StreamTypes
    PROVE  /\ WorldInv(emit(w, scope))
           /\ emit(w, scope).store = w.store
           /\ emit(w, scope).ev.next = w.ev.next + 1
           /\ \A names \in SUBSET Agent : PastBut(w, names) => PastBut(emit(w, scope), names)
<1> DEFINE e == publish_event(w.ev, scope)
<1> DEFINE v == emit(w, scope)
<1>1. /\ w = [store |-> w.store, ev |-> w.ev, passed |-> w.passed, past |-> w.past]
      /\ w.store \in StoreType /\ w.ev \in EventsType
      /\ w.passed \in [Agent -> SUBSET Nat] /\ w.past \in [Agent -> Nat]
      /\ EventsInv(w.ev) /\ StoreInv(w.store, w.passed)
  BY WorldParts DEF WorldInv
<1>2. e \in EventsType /\ EventsInv(e)
  BY <1>1, PublishKeeps
<1>3. /\ e.next = w.ev.next + 1 /\ e.handovers = w.ev.handovers
      /\ oldest(w.ev) <= oldest(e) /\ oldest(w.ev) \in Nat /\ oldest(e) \in Nat /\ w.ev.next \in Nat
      /\ w.ev.handovers \in [DOMAIN w.ev.handovers -> Nat]
  <2>1. RingRuns(w.ev) /\ RingRuns(e)
    BY <1>1, <1>2 DEF EventsInv
  <2>2. e.next = w.ev.next + 1 /\ e.handovers = w.ev.handovers /\ oldest(w.ev) <= e.next - Len(e.ring)
    BY <1>1, <2>1, PublishRing
  <2>3. oldest(e) = e.next - Len(e.ring) /\ oldest(e) \in Nat /\ oldest(w.ev) \in Nat
    BY <1>1, <1>2, <2>1, OldestIs
  <2>4. w.ev.next \in Nat /\ w.ev.handovers \in [DOMAIN w.ev.handovers -> Nat]
    BY <1>1, MapsFact DEF EventsType
  <2> QED BY <2>2, <2>3, <2>4
<1>4. v = [w EXCEPT !.ev = e]
  BY DEF emit
<1> HIDE DEF e, v
<1>5. /\ v = [store |-> w.store, ev |-> e, passed |-> w.passed, past |-> w.past]
      /\ v.store = w.store /\ v.ev = e /\ v.passed = w.passed /\ v.past = w.past
  BY <1>1, <1>4
<1>6. WorldInv(v)
  BY <1>1, <1>2, <1>5 DEF WorldInv, WorldType
<1>7. ASSUME NEW names \in SUBSET Agent, PastBut(w, names)
      PROVE  PastBut(v, names)
  <2>1. ASSUME NEW a \in Agent \ names
        PROVE  PastNoted(v.past, v.ev, a)
    <3>1. PastNoted(w.past, w.ev, a) /\ w.past[a] \in Nat
      BY <1>1, <1>7 DEF PastBut
    <3> QED BY <1>3, <1>5, <3>1 DEF PastNoted
  <2>2. ASSUME NEW a \in names
        PROVE  v.past[a] <= v.ev.next
    <3>1. w.past[a] <= w.ev.next /\ w.past[a] \in Nat
      BY <1>1, <1>7 DEF PastBut
    <3> QED BY <1>3, <1>5, <3>1
  <2> QED BY <2>1, <2>2 DEF PastBut
<1> QED BY <1>3, <1>5, <1>6, <1>7 DEF v

\* hand_over among a request's changes: the past of the name is noted.
LEMMA HandOverWorld ==
    ASSUME NEW w, WorldInv(w), NEW name \in Agent, StreamTypes
    PROVE  LET v == [w EXCEPT !.ev = hand_over(@, name)]
           IN  /\ WorldInv(v)
               /\ v.store = w.store
               /\ \A names \in SUBSET Agent : PastBut(w, names) => PastBut(v, names \ {name})
<1> DEFINE e == hand_over(w.ev, name)
<1> DEFINE v == [w EXCEPT !.ev = hand_over(@, name)]
<1>1. /\ w = [store |-> w.store, ev |-> w.ev, passed |-> w.passed, past |-> w.past]
      /\ w.store \in StoreType /\ w.ev \in EventsType
      /\ w.passed \in [Agent -> SUBSET Nat] /\ w.past \in [Agent -> Nat]
      /\ EventsInv(w.ev) /\ StoreInv(w.store, w.passed)
  BY WorldParts DEF WorldInv
<1>2. e \in EventsType /\ EventsInv(e)
  BY <1>1, HandOverKeeps
<1>3. /\ e.next = w.ev.next /\ e.ring = w.ev.ring
      /\ name \in DOMAIN e.handovers /\ e.handovers[name] = w.ev.next
      /\ \A a \in Agent \ {name} :
            IF a \in DOMAIN e.handovers
            THEN a \in DOMAIN w.ev.handovers /\ e.handovers[a] = w.ev.handovers[a]
            ELSE a \in DOMAIN w.ev.handovers => w.ev.handovers[a] <= oldest(w.ev)
  BY <1>1, HandOverNotes DEF EventsInv
<1>4. /\ oldest(e) = oldest(w.ev) /\ oldest(w.ev) \in Nat /\ w.ev.next \in Nat
      /\ w.ev.handovers \in [DOMAIN w.ev.handovers -> Nat]
  BY <1>1, <1>3, OldestIs, MapsFact DEF EventsInv, EventsType, oldest
<1>5. v = [w EXCEPT !.ev = e]
  OBVIOUS
<1> HIDE DEF e, v
<1>6. /\ v = [store |-> w.store, ev |-> e, passed |-> w.passed, past |-> w.past]
      /\ v.store = w.store /\ v.ev = e /\ v.passed = w.passed /\ v.past = w.past
  BY <1>1, <1>5
<1>7. WorldInv(v)
  BY <1>1, <1>2, <1>6 DEF WorldInv, WorldType
<1>8. ASSUME NEW names \in SUBSET Agent, PastBut(w, names)
      PROVE  PastBut(v, names \ {name})
  <2>1. ASSUME NEW a \in Agent \ (names \ {name})
        PROVE  PastNoted(v.past, v.ev, a)
    <3>1. CASE a = name
      <4>1. w.past[a] <= w.ev.next
        BY <1>8, <3>1 DEF PastBut, PastNoted
      <4> QED BY <1>3, <1>6, <3>1, <4>1 DEF PastNoted
    <3>2. CASE a # name
      <4>1. a \in Agent \ {name} /\ PastNoted(w.past, w.ev, a) /\ w.past[a] \in Nat
        BY <1>1, <1>8, <2>1, <3>2 DEF PastBut
      <4>2. w.past[a] <= w.ev.next
        BY <4>1 DEF PastNoted
      <4>3. CASE a \in DOMAIN e.handovers
        <5>1. a \in DOMAIN w.ev.handovers /\ e.handovers[a] = w.ev.handovers[a]
          BY <1>3, <4>1, <4>3
        <5>2. w.past[a] <= w.ev.handovers[a]
          BY <4>1, <5>1 DEF PastNoted
        <5> QED BY <1>3, <1>6, <4>2, <4>3, <5>1, <5>2 DEF PastNoted
      <4>4. CASE a \notin DOMAIN e.handovers
        <5>1. w.past[a] <= oldest(w.ev)
          <6>1. CASE a \in DOMAIN w.ev.handovers
            <7>1. w.ev.handovers[a] <= oldest(w.ev) /\ w.past[a] <= w.ev.handovers[a]
              BY <1>3, <4>1, <4>4, <6>1 DEF PastNoted
            <7>2. w.ev.handovers[a] \in Nat
              BY <1>4, <6>1
            <7> QED BY <1>4, <4>1, <7>1, <7>2
          <6>2. CASE a \notin DOMAIN w.ev.handovers
            BY <4>1, <6>2 DEF PastNoted
          <6> QED BY <6>1, <6>2
        <5> QED BY <1>3, <1>4, <1>6, <4>2, <4>4, <5>1 DEF PastNoted
      <4> QED BY <4>3, <4>4
    <3> QED BY <3>1, <3>2
  <2>2. ASSUME NEW a \in names \ {name}
        PROVE  v.past[a] <= v.ev.next
    BY <1>3, <1>6, <1>8 DEF PastBut
  <2> QED BY <2>1, <2>2 DEF PastBut
<1> QED BY <1>6, <1>7, <1>8 DEF v

\* The ids of a list's broadcasts are among those given.
LEMMA IdsGiven ==
    ASSUME NEW s \in StoreType, Listed(s)
    PROVE  /\ Ids(s) \subseteq 1..s.last_id
           /\ \A id \in Ids(s) : id \in Nat /\ 0 < id /\ id <= s.last_id
<1>1. s.sent \in SUBSET Broadcast /\ s.last_id \in Nat
  BY StoreParts
<1>2. ASSUME NEW b \in s.sent
      PROVE  b.id \in Nat /\ 0 < b.id /\ b.id <= s.last_id
  BY <1>1 DEF Listed, Broadcast
<1> QED BY <1>1, <1>2 DEF Ids

\* Effect::Forget: what an agent had read goes with it.
LEMMA ForgetWorld ==
    ASSUME NEW w, WorldInv(w), NEW a \in Agent, StreamTypes
    PROVE  /\ WorldInv(Forget(w, a))
           /\ Forget(w, a).ev = w.ev
           /\ a \notin DOMAIN Forget(w, a).store.agents
           /\ DOMAIN Forget(w, a).store.agents = DOMAIN w.store.agents \ {a}
           /\ Forget(w, a).store.sent = w.store.sent /\ Forget(w, a).store.last_id = w.store.last_id
           /\ \A b \in Agent \ {a} : Forget(w, a).passed[b] = w.passed[b]
           /\ PastBut(w, {}) => PastBut(Forget(w, a), {a})
<1> DEFINE s == [w.store EXCEPT !.agents = Restrict(@, DOMAIN @ \ {a})]
<1> DEFINE p == [w.passed EXCEPT ![a] = {}]
<1> DEFINE t == Note(w.past, w, {a})
<1> DEFINE f == Restrict(w.store.agents, DOMAIN w.store.agents \ {a})
<1> DEFINE v == Forget(w, a)
<1>1. /\ w = [store |-> w.store, ev |-> w.ev, passed |-> w.passed, past |-> w.past]
      /\ w.store \in StoreType /\ w.ev \in EventsType
      /\ w.passed \in [Agent -> SUBSET Nat] /\ w.past \in [Agent -> Nat]
      /\ EventsInv(w.ev) /\ StoreInv(w.store, w.passed)
  BY WorldParts DEF WorldInv
<1>2. /\ w.store = [agents |-> w.store.agents, sent |-> w.store.sent, keys |-> w.store.keys,
                    last_id |-> w.store.last_id]
      /\ w.store.agents \in Maps(Agent, Nat) /\ w.ev.next \in Nat
  BY <1>1, StoreParts DEF StoreType, EventsType
<1>3. /\ f \in Maps(Agent, Nat) /\ DOMAIN f = DOMAIN w.store.agents \ {a}
      /\ \A x \in DOMAIN f : f[x] = w.store.agents[x]
  <2>1. DOMAIN w.store.agents \ {a} = DOMAIN w.store.agents \cap (Agent \ {a})
    BY <1>2, MapsFact
  <2> DEFINE g == w.store.agents
  <2>2. g \in Maps(Agent, Nat)
    BY <1>2
  <2>3. f = Restrict(g, DOMAIN g \cap (Agent \ {a})) /\ DOMAIN g \ {a} = DOMAIN g \cap (Agent \ {a})
    BY <2>1
  <2> HIDE DEF f, g
  <2>4. /\ f \in Maps(Agent, Nat) /\ DOMAIN f = DOMAIN g \ {a}
        /\ \A x \in DOMAIN f : f[x] = g[x]
    BY <2>2, <2>3, RestrictFact
  <2> QED BY <2>4 DEF g
<1>4. v = [w EXCEPT !.store = s, !.passed = p, !.past = t]
  BY <1>1 DEF Forget
<1>5. s = [w.store EXCEPT !.agents = f]
  OBVIOUS
<1>6. p \in [Agent -> SUBSET Nat] /\ p[a] = {} /\ \A b \in Agent \ {a} : p[b] = w.passed[b]
  BY <1>1
<1>7. /\ t \in [Agent -> Nat]
      /\ \A b \in Agent \ {a} : t[b] = w.past[b]
      /\ t[a] = w.ev.next \/ t[a] = w.past[a]
  BY <1>1, <1>2 DEF Note
<1> HIDE DEF s, p, t, f, v
<1>8. /\ s = [agents |-> f, sent |-> w.store.sent, keys |-> w.store.keys, last_id |-> w.store.last_id]
      /\ s.agents = f /\ s.sent = w.store.sent /\ s.keys = w.store.keys /\ s.last_id = w.store.last_id
  BY <1>2, <1>5
<1>9. s \in StoreType
  BY <1>1, <1>3, <1>8 DEF StoreType
<1>10. /\ v = [store |-> s, ev |-> w.ev, passed |-> p, past |-> t]
       /\ v.store = s /\ v.ev = w.ev /\ v.passed = p /\ v.past = t
  BY <1>1, <1>4
<1>11. StoreInv(s, p)
  <2>1. Listed(s) /\ KeysRight(s) /\ Ids(s) = Ids(w.store)
    BY <1>1, <1>8 DEF StoreInv, Listed, KeysRight, Ids
  <2>2. ASSUME NEW b \in Agent
        PROVE  CursorRight(s, p, b)
    <3>1. CursorRight(w.store, w.passed, b)
      BY <1>1 DEF StoreInv
    <3>2. CASE b = a
      BY <1>3, <1>6, <1>8, <3>2 DEF CursorRight
    <3>3. CASE b # a
      BY <1>3, <1>6, <1>8, <2>1, <3>1, <3>3 DEF CursorRight
    <3> QED BY <3>2, <3>3
  <2> QED BY <2>1, <2>2 DEF StoreInv
<1>12. WorldInv(v)
  BY <1>1, <1>6, <1>7, <1>9, <1>10, <1>11 DEF WorldInv, WorldType
<1>13. ASSUME PastBut(w, {})
       PROVE  PastBut(v, {a})
  <2>1. \A b \in Agent : PastNoted(w.past, w.ev, b) /\ w.past[b] <= w.ev.next
    BY <1>13 DEF PastBut, PastNoted
  <2>2. t[a] <= w.ev.next
    BY <1>2, <1>7, <2>1
  <2>3. \A b \in Agent \ {a} : PastNoted(t, w.ev, b)
    BY <1>7, <2>1 DEF PastNoted
  <2> QED BY <1>10, <2>2, <2>3 DEF PastBut
<1> QED BY <1>3, <1>6, <1>8, <1>10, <1>12, <1>13 DEF v

\* forget_agent
LEMMA ForgottenWorld ==
    ASSUME NEW w, WorldInv(w), NEW a \in Agent, StreamTypes
    PROVE  /\ WorldInv(Forgotten(w, a))
           /\ a \notin DOMAIN Forgotten(w, a).store.agents
           /\ DOMAIN Forgotten(w, a).store.agents = DOMAIN w.store.agents \ {a}
           /\ Forgotten(w, a).store.sent = w.store.sent
           /\ Forgotten(w, a).store.last_id = w.store.last_id
           /\ PastBut(w, {}) => PastBut(Forgotten(w, a), {})
<1> DEFINE x == Forget(w, a)
<1> DEFINE y == emit(x, {a})
<1>1. /\ WorldInv(x) /\ a \notin DOMAIN x.store.agents /\ DOMAIN x.store.agents = DOMAIN w.store.agents \ {a}
      /\ x.store.sent = w.store.sent /\ x.store.last_id = w.store.last_id
      /\ PastBut(w, {}) => PastBut(x, {a})
  BY ForgetWorld
<1>2. Forgotten(w, a) = [y EXCEPT !.ev = hand_over(@, a)]
  BY DEF Forgotten
<1> HIDE DEF x
<1>3. WorldInv(y) /\ y.store = x.store /\ (PastBut(x, {a}) => PastBut(y, {a}))
  BY <1>1, EmitWorld
<1> HIDE DEF y
<1>4. /\ WorldInv(Forgotten(w, a)) /\ Forgotten(w, a).store = y.store
      /\ PastBut(y, {a}) => PastBut(Forgotten(w, a), {a} \ {a})
  BY <1>2, <1>3, HandOverWorld
<1>5. {a} \ {a} = {}
  OBVIOUS
<1> QED BY <1>1, <1>3, <1>4, <1>5

Changed(w, s, p) == [w EXCEPT !.store = s, !.passed = p]

\* What changes a store and what was read in it leaves the events and the
\* past alone.
LEMMA StoreChanges ==
    ASSUME NEW w, WorldInv(w), NEW s \in StoreType, NEW p \in [Agent -> SUBSET Nat], StoreInv(s, p)
    PROVE  /\ WorldInv(Changed(w, s, p))
           /\ Changed(w, s, p).store = s /\ Changed(w, s, p).ev = w.ev
           /\ \A names \in SUBSET Agent : PastBut(w, names) => PastBut(Changed(w, s, p), names)
<1> DEFINE v == Changed(w, s, p)
<1>1. /\ w = [store |-> w.store, ev |-> w.ev, passed |-> w.passed, past |-> w.past]
      /\ w.ev \in EventsType /\ w.past \in [Agent -> Nat] /\ EventsInv(w.ev)
  BY WorldParts DEF WorldInv
<1>2. /\ v = [store |-> s, ev |-> w.ev, passed |-> p, past |-> w.past]
      /\ v.store = s /\ v.ev = w.ev /\ v.passed = p /\ v.past = w.past
  <2>1. v = [w EXCEPT !.store = s, !.passed = p]
    BY DEF Changed
  <2> HIDE DEF v
  <2> QED BY <1>1, <2>1
<1> HIDE DEF v
<1>3. WorldInv(v) /\ \A names \in SUBSET Agent : PastBut(w, names) => PastBut(v, names)
  BY <1>1, <1>2 DEF WorldInv, WorldType, PastBut
<1> QED BY <1>2, <1>3 DEF v

\* Effect::Agent: whoever is new has read nothing.
LEMMA RegisteredWorld ==
    ASSUME NEW w, WorldInv(w), NEW a \in Agent, a \notin DOMAIN w.store.agents, StreamTypes
    PROVE  /\ WorldInv(Registered(w, a))
           /\ a \in DOMAIN Registered(w, a).store.agents
           /\ Registered(w, a).store.sent = w.store.sent
           /\ Registered(w, a).store.last_id = w.store.last_id
           /\ PastBut(w, {}) => PastBut(Registered(w, a), {})
<1> DEFINE g == w.store.agents
<1> DEFINE f == [n \in DOMAIN g \cup {a} |-> IF n = a THEN NoId ELSE g[n]]
<1> DEFINE s == [w.store EXCEPT !.agents = f]
<1> DEFINE v == [w EXCEPT !.store.agents = [n \in DOMAIN @ \cup {a} |-> IF n = a THEN NoId ELSE @[n]]]
<1>1. /\ w = [store |-> w.store, ev |-> w.ev, passed |-> w.passed, past |-> w.past]
      /\ w.store \in StoreType /\ w.passed \in [Agent -> SUBSET Nat]
      /\ StoreInv(w.store, w.passed)
  BY WorldParts DEF WorldInv
<1>2. /\ w.store = [agents |-> g, sent |-> w.store.sent, keys |-> w.store.keys,
                    last_id |-> w.store.last_id]
      /\ g \in [DOMAIN g -> Nat] /\ DOMAIN g \subseteq Agent
      /\ w.store.last_id \in Nat
  BY <1>1, StoreParts
<1>3. v = [w EXCEPT !.store = s]
  BY <1>1
<1>4. Registered(w, a) = emit(v, {a})
  BY DEF Registered
<1>5. DOMAIN f = DOMAIN g \cup {a} /\ f[a] = 0 /\ \A b \in DOMAIN g : f[b] = g[b]
  BY DEF NoId
<1>6. f \in Maps(Agent, Nat)
  <2>1. f \in [DOMAIN f -> Nat] /\ DOMAIN f \subseteq Agent
    BY <1>2 DEF NoId
  <2> HIDE DEF f
  <2> QED BY <2>1, MapsFact
<1> HIDE DEF f, v
<1>7. /\ s = [agents |-> f, sent |-> w.store.sent, keys |-> w.store.keys, last_id |-> w.store.last_id]
      /\ s.agents = f /\ s.sent = w.store.sent /\ s.keys = w.store.keys /\ s.last_id = w.store.last_id
  BY <1>2
<1> HIDE DEF s
<1>8. s \in StoreType
  BY <1>1, <1>6, <1>7 DEF StoreType
<1>9. StoreInv(s, w.passed)
  <2>1. Listed(s) /\ KeysRight(s) /\ Ids(s) = Ids(w.store) /\ Listed(w.store)
    BY <1>1, <1>7 DEF StoreInv, Listed, KeysRight, Ids
  <2>2. ASSUME NEW b \in Agent
        PROVE  CursorRight(s, w.passed, b)
    <3>1. CursorRight(w.store, w.passed, b)
      BY <1>1 DEF StoreInv
    <3>2. CASE b = a
      <4>1. w.passed[a] \cap Ids(s) = {} /\ w.passed[a] \subseteq 1..s.last_id
        BY <1>7, <2>1, <3>1, <3>2 DEF CursorRight
      <4>2. \A id \in Ids(s) : id > 0
        BY <1>1, <2>1, IdsGiven
      <4>3. {id \in Ids(s) : id > s.agents[a]} = Ids(s) \ w.passed[a] /\ s.agents[a] <= s.last_id
        BY <1>2, <1>5, <1>7, <4>1, <4>2
      <4> QED BY <1>5, <1>7, <3>2, <4>1, <4>3 DEF CursorRight
    <3>3. CASE b # a
      BY <1>5, <1>7, <2>1, <3>1, <3>3 DEF CursorRight
    <3> QED BY <3>2, <3>3
  <2> QED BY <2>1, <2>2 DEF StoreInv
<1>10. v = Changed(w, s, w.passed)
  BY <1>1, <1>3 DEF Changed
<1>11. WorldInv(v) /\ v.store = s /\ (PastBut(w, {}) => PastBut(v, {}))
  <2>1. /\ WorldInv(v) /\ v.store = s
        /\ \A names \in SUBSET Agent : PastBut(w, names) => PastBut(v, names)
    BY <1>1, <1>8, <1>9, <1>10, StoreChanges
  <2> QED BY <2>1
<1>12. /\ WorldInv(emit(v, {a})) /\ emit(v, {a}).store = v.store
       /\ PastBut(v, {}) => PastBut(emit(v, {a}), {})
  BY <1>11, EmitWorld
<1> QED BY <1>4, <1>5, <1>7, <1>11, <1>12

\* broadcast: nobody has read what was just sent, and its key is its own.
LEMMA SentKeeps ==
    ASSUME NEW s \in StoreType, NEW p \in [Agent -> SUBSET Nat], StoreInv(s, p),
           NEW a \in Agent, NEW key \in Key \cup {NoKey}
    PROVE  /\ Sent(s, a, key) \in StoreType /\ StoreInv(Sent(s, a, key), p)
           /\ Sent(s, a, key).sent = s.sent \cup {[id |-> s.last_id + 1, from |-> a, key |-> key]}
           /\ Sent(s, a, key).last_id = s.last_id + 1
<1> DEFINE id == s.last_id + 1
<1> DEFINE b == [id |-> id, from |-> a, key |-> key]
<1> DEFINE g == s.keys
<1> DEFINE f == [k \in DOMAIN g \cup {<<a, key>>} |-> IF k = <<a, key>> THEN id ELSE g[k]]
<1> DEFINE keys == IF key = NoKey THEN g ELSE f
<1> DEFINE v == Sent(s, a, key)
<1>1. /\ s = [agents |-> s.agents, sent |-> s.sent, keys |-> s.keys, last_id |-> s.last_id]
      /\ s.agents \in Maps(Agent, Nat) /\ s.agents \in [DOMAIN s.agents -> Nat]
      /\ s.sent \in SUBSET Broadcast
      /\ g \in [DOMAIN g -> Nat] /\ DOMAIN g \subseteq Agent \X Key
      /\ s.last_id \in Nat /\ id \in Nat
  <2>1. s.agents \in Maps(Agent, Nat)
    BY DEF StoreType
  <2>2. s.last_id \in Nat => id \in Nat
    OBVIOUS
  <2> HIDE DEF id
  <2> QED BY <2>1, <2>2, StoreParts
<1>a. v = [s EXCEPT !.last_id = id, !.sent = s.sent \cup {b}, !.keys = keys]
  BY <1>1 DEF Sent
<1>2. /\ v = [agents |-> s.agents, sent |-> s.sent \cup {b}, keys |-> keys, last_id |-> id]
      /\ v.agents = s.agents /\ v.sent = s.sent \cup {b} /\ v.keys = keys /\ v.last_id = id
  <2> HIDE DEF v, b, keys, id
  <2> QED BY <1>1, <1>a
<1>3. b \in Broadcast /\ b.id = id /\ b.from = a /\ b.key = key
  BY <1>1 DEF Broadcast
<1>4. /\ keys \in Maps(Agent \X Key, Nat)
      /\ \A k \in DOMAIN keys : \/ k \in DOMAIN g /\ keys[k] = g[k]
                                \/ k = <<a, key>> /\ keys[k] = id
  <2>1. CASE key = NoKey
    BY <1>1, <2>1, MapsFact
  <2>2. CASE key # NoKey
    <3>1. f \in [DOMAIN f -> Nat] /\ DOMAIN f \subseteq Agent \X Key
      BY <1>1, <2>2
    <3>2. \A k \in DOMAIN f : \/ k \in DOMAIN g /\ f[k] = g[k]
                              \/ k = <<a, key>> /\ f[k] = id
      OBVIOUS
    <3>3. keys = f
      BY <2>2
    <3> HIDE DEF keys, f
    <3> QED BY <3>1, <3>2, <3>3, MapsFact
  <2> QED BY <2>1, <2>2
<1> HIDE DEF b, keys, v, f
<1>5. v \in StoreType
  BY <1>1, <1>2, <1>3, <1>4 DEF StoreType
<1>6. Listed(s) /\ KeysRight(s) /\ \A n \in Ids(s) : n \in Nat /\ n <= s.last_id
  BY IdsGiven DEF StoreInv
<1>7. Ids(v) = Ids(s) \cup {id}
  BY <1>2, <1>3 DEF Ids
<1>8. Listed(v)
  <2>1. IsFiniteSet(v.sent)
    BY <1>2, <1>6, FS_AddElement DEF Listed
  <2>2. ASSUME NEW x \in s.sent
        PROVE  x.id \in Nat /\ x.id <= s.last_id /\ 0 < x.id
    BY <1>1, <1>6 DEF Listed, Broadcast
  <2>3. \A x \in v.sent : 0 < x.id /\ x.id <= id
    BY <1>1, <1>2, <1>3, <2>2
  <2>4. \A x \in s.sent : x.id # id
    BY <1>1, <2>2
  <2>5. \A x, y \in v.sent : x.id = y.id => x = y
    BY <1>2, <1>3, <1>6, <2>4 DEF Listed
  <2> QED BY <1>2, <2>1, <2>3, <2>5 DEF Listed
<1>9. KeysRight(v)
  <2>1. ASSUME NEW k \in DOMAIN keys
        PROVE  \E x \in v.sent : x.id = keys[k] /\ <<x.from, x.key>> = k
    <3>1. CASE k \in DOMAIN g /\ keys[k] = g[k]
      <4>1. PICK x \in s.sent : x.id = g[k] /\ <<x.from, x.key>> = k
        BY <1>6, <3>1 DEF KeysRight
      <4> QED BY <1>2, <3>1, <4>1
    <3>2. CASE k = <<a, key>> /\ keys[k] = id
      BY <1>2, <1>3, <3>2
    <3> QED BY <1>4, <3>1, <3>2
  <2> QED BY <1>2, <2>1 DEF KeysRight
<1>10. ASSUME NEW n \in Agent
       PROVE  CursorRight(v, p, n)
  <2>1. CursorRight(s, p, n)
    BY DEF StoreInv
  <2>2. p[n] \subseteq 1..s.last_id /\ id \notin p[n] /\ p[n] \subseteq 1..id
    BY <1>1, <2>1 DEF CursorRight
  <2>3. CASE n \in DOMAIN s.agents
    <3>1. /\ s.agents[n] \in Nat /\ s.agents[n] <= s.last_id
          /\ {m \in Ids(s) : m > s.agents[n]} = Ids(s) \ p[n]
      BY <1>1, <2>1, <2>3 DEF CursorRight
    <3>2. id > s.agents[n] /\ s.agents[n] <= id
      BY <1>1, <3>1
    <3>3. {m \in Ids(v) : m > s.agents[n]} = Ids(v) \ p[n]
      BY <1>7, <2>2, <3>1, <3>2
    <3> QED BY <1>2, <2>2, <2>3, <3>2, <3>3 DEF CursorRight
  <2>4. CASE n \notin DOMAIN s.agents
    BY <1>2, <1>7, <2>1, <2>2, <2>4 DEF CursorRight
  <2> QED BY <2>3, <2>4
<1>11. StoreInv(v, p)
  BY <1>8, <1>9, <1>10 DEF StoreInv
<1> QED BY <1>2, <1>5, <1>11 DEF v, b

\* Broadcasts that go, whichever they are, take the keys that named them.
LEMMA WithoutKeeps ==
    ASSUME NEW s \in StoreType, NEW p \in [Agent -> SUBSET Nat], StoreInv(s, p), NEW ids
    PROVE  /\ Without(s, ids) \in StoreType /\ StoreInv(Without(s, ids), p)
           /\ Without(s, ids).sent = {b \in s.sent : b.id \notin ids}
           /\ Without(s, ids).last_id = s.last_id
<1> DEFINE gone == {b \in s.sent : b.id \in ids /\ b.key # NoKey}
<1> DEFINE sent == {b \in s.sent : b.id \notin ids}
<1> DEFINE g == s.keys
<1> DEFINE D == (Agent \X Key) \ {<<b.from, b.key>> : b \in gone}
<1> DEFINE keys == Restrict(g, DOMAIN g \cap D)
<1> DEFINE v == Without(s, ids)
<1>1. /\ s = [agents |-> s.agents, sent |-> s.sent, keys |-> s.keys, last_id |-> s.last_id]
      /\ s.agents \in [DOMAIN s.agents -> Nat]
      /\ s.sent \in SUBSET Broadcast
      /\ g \in [DOMAIN g -> Nat] /\ DOMAIN g \subseteq Agent \X Key
      /\ s.last_id \in Nat
  BY StoreParts
<1>2. s.agents \in Maps(Agent, Nat) /\ g \in Maps(Agent \X Key, Nat)
  BY DEF StoreType
<1>3. DOMAIN g \ {<<b.from, b.key>> : b \in gone} = DOMAIN g \cap D
  BY <1>1
<1>4. v = [s EXCEPT !.sent = sent, !.keys = keys]
  BY <1>1, <1>3 DEF Without
<1>5. /\ keys \in Maps(Agent \X Key, Nat) /\ DOMAIN keys = DOMAIN g \cap D
      /\ \A k \in DOMAIN keys : keys[k] = g[k]
  <2>1. keys = Restrict(g, DOMAIN g \cap D)
    OBVIOUS
  <2> HIDE DEF g, D, keys
  <2> QED BY <1>2, <2>1, RestrictFact
<1>6. sent \subseteq s.sent
  OBVIOUS
<1> HIDE DEF v, keys, sent
<1>7. /\ v = [agents |-> s.agents, sent |-> sent, keys |-> keys, last_id |-> s.last_id]
      /\ v.agents = s.agents /\ v.sent = sent /\ v.keys = keys /\ v.last_id = s.last_id
  BY <1>1, <1>4
<1>8. v \in StoreType
  BY <1>1, <1>2, <1>5, <1>6, <1>7 DEF StoreType
<1>9. Listed(v)
  <2>1. IsFiniteSet(sent)
    BY <1>6, FS_Subset DEF StoreInv, Listed
  <2> QED BY <1>6, <1>7, <2>1 DEF StoreInv, Listed
<1>10. KeysRight(v)
  <2>1. ASSUME NEW k \in DOMAIN keys
        PROVE  \E x \in sent : x.id = keys[k] /\ <<x.from, x.key>> = k
    <3>1. k \in DOMAIN g /\ k \in D /\ keys[k] = g[k] /\ k \in Agent \X Key
      BY <1>1, <1>5
    <3>2. PICK x \in s.sent : x.id = g[k] /\ <<x.from, x.key>> = k
      BY <3>1 DEF StoreInv, KeysRight
    <3>3. x.key # NoKey
      BY <3>1, <3>2, BroadcastsAssumption
    <3>4. x.id \notin ids
      BY <3>1, <3>2, <3>3
    <3> QED BY <3>1, <3>2, <3>4 DEF sent
  <2> QED BY <1>7, <2>1 DEF KeysRight
<1>11. Ids(v) \subseteq Ids(s)
  BY <1>6, <1>7 DEF Ids
<1>12. ASSUME NEW n \in Agent
       PROVE  CursorRight(v, p, n)
  <2>1. CursorRight(s, p, n)
    BY DEF StoreInv
  <2> QED BY <1>7, <1>11, <2>1 DEF CursorRight
<1>13. StoreInv(v, p)
  BY <1>9, <1>10, <1>12 DEF StoreInv
<1> QED BY <1>7, <1>8, <1>13 DEF v, sent

SeenAll(s, a) == [s EXCEPT !.agents[a] = Max(Ids(s))]

\* read_broadcasts: after the newest there is nothing unseen.
LEMMA ReadKeeps ==
    ASSUME NEW s \in StoreType, NEW p \in [Agent -> SUBSET Nat], StoreInv(s, p),
           NEW a \in DOMAIN s.agents, s.sent # {},
           NEW q \in [Agent -> SUBSET Nat], q[a] = Ids(s), \A b \in Agent \ {a} : q[b] = p[b]
    PROVE  SeenAll(s, a) \in StoreType /\ StoreInv(SeenAll(s, a), q)
<1> DEFINE v == SeenAll(s, a)
<1> DEFINE newest == Max(Ids(s))
<1> DEFINE f == [s.agents EXCEPT ![a] = newest]
<1>1. /\ s = [agents |-> s.agents, sent |-> s.sent, keys |-> s.keys, last_id |-> s.last_id]
      /\ s.agents \in [DOMAIN s.agents -> Nat] /\ DOMAIN s.agents \subseteq Agent
      /\ s.last_id \in Nat
  BY StoreParts
<1>2. Ids(s) \subseteq 1..s.last_id /\ Ids(s) # {}
  BY IdsGiven DEF StoreInv, Ids
<1>3. newest \in Ids(s) /\ \A id \in Ids(s) : id <= newest
  <2>1. Ids(s) \in SUBSET (0..s.last_id)
    BY <1>1, <1>2
  <2> QED BY <1>1, <1>2, <2>1, GreatestOf
<1>4. v = [s EXCEPT !.agents = f]
  BY <1>1 DEF SeenAll
<1> HIDE DEF newest, v
<1>5. /\ f \in [DOMAIN s.agents -> Nat] /\ DOMAIN f = DOMAIN s.agents
      /\ f[a] = newest /\ \A b \in DOMAIN f \ {a} : f[b] = s.agents[b]
  BY <1>1, <1>2, <1>3
<1> HIDE DEF f
<1>7. /\ v = [agents |-> f, sent |-> s.sent, keys |-> s.keys, last_id |-> s.last_id]
      /\ v.agents = f /\ v.sent = s.sent /\ v.keys = s.keys /\ v.last_id = s.last_id
  BY <1>1, <1>4
<1>8. v \in StoreType
  BY <1>1, <1>5, <1>7, MapsFact DEF StoreType
<1>9. Listed(v) /\ KeysRight(v) /\ Ids(v) = Ids(s)
  BY <1>7 DEF StoreInv, Listed, KeysRight, Ids
<1>10. ASSUME NEW b \in Agent
       PROVE  CursorRight(v, q, b)
  <2>1. CursorRight(s, p, b)
    BY DEF StoreInv
  <2>2. CASE b = a
    <3>1. {id \in Ids(s) : id > newest} = {} /\ newest <= s.last_id
      BY <1>1, <1>2, <1>3
    <3> QED BY <1>2, <1>5, <1>7, <1>9, <2>2, <3>1 DEF CursorRight
  <2>3. CASE b # a
    BY <1>5, <1>7, <1>9, <2>1, <2>3 DEF CursorRight
  <2> QED BY <2>2, <2>3
<1>11. StoreInv(v, q)
  BY <1>9, <1>10 DEF StoreInv
<1> QED BY <1>8, <1>11 DEF v

\* The keys indexed anew each name a broadcast that is kept.
LEMMA ReindexedKeeps ==
    ASSUME NEW s \in StoreType, Listed(s)
    PROVE  /\ Reindexed(s.sent) \in Maps(Agent \X Key, Nat)
           /\ \A k \in DOMAIN Reindexed(s.sent) :
                 \E b \in s.sent : b.id = Reindexed(s.sent)[k] /\ <<b.from, b.key>> = k
<1> DEFINE keyed == {b \in s.sent : b.key # NoKey}
<1> DEFINE D == {<<b.from, b.key>> : b \in keyed}
<1> DEFINE of(k) == {x \in keyed : <<x.from, x.key>> = k}
<1> DEFINE ids(k) == {b.id : b \in of(k)}
<1> DEFINE f == [k \in D |-> Max(ids(k))]
<1>1. Reindexed(s.sent) = f
  BY DEF Reindexed
<1>2. s.sent \in SUBSET Broadcast /\ s.last_id \in Nat
  BY StoreParts
<1>3. D \subseteq Agent \X Key
  BY <1>2 DEF Broadcast
<1>4. ASSUME NEW k \in D
      PROVE  Max(ids(k)) \in Nat /\ \E b \in s.sent : b.id = Max(ids(k)) /\ <<b.from, b.key>> = k
  <2>1. ids(k) # {}
    OBVIOUS
  <2>2. ids(k) \subseteq 1..s.last_id
    <3>1. ids(k) \subseteq Ids(s)
      BY DEF Ids
    <3> QED BY <3>1, IdsGiven
  <2>3. \A id \in ids(k) : \E b \in s.sent : b.id = id /\ <<b.from, b.key>> = k
    OBVIOUS
  <2> HIDE DEF ids
  <2>4. ids(k) \in SUBSET (0..s.last_id)
    BY <1>2, <2>2
  <2>5. Max(ids(k)) \in ids(k)
    BY <1>2, <2>1, <2>4, GreatestOf
  <2> QED BY <2>2, <2>3, <2>5
<1> HIDE DEF D, ids
<1>5. f \in [D -> Nat] /\ DOMAIN f = D /\ \A k \in D : f[k] = Max(ids(k))
  BY <1>4
<1> HIDE DEF f
<1> QED BY <1>1, <1>3, <1>4, <1>5, MapsFact

\* Store::rename: the agent has read under its new name what it had read
\* under the old one, and the broadcasts keep their ids.
LEMMA RenameKeeps ==
    ASSUME NEW s \in StoreType, NEW p \in [Agent -> SUBSET Nat], StoreInv(s, p),
           NEW a \in DOMAIN s.agents, NEW b \in Agent \ DOMAIN s.agents,
           NEW q \in [Agent -> SUBSET Nat], q[b] = p[a], q[a] = {},
           \A n \in Agent \ {a, b} : q[n] = p[n]
    PROVE  apply_rename(s, a, b) \in StoreType /\ StoreInv(apply_rename(s, a, b), q)
<1> DEFINE moved(x) == IF x.from = a THEN [x EXCEPT !.from = b] ELSE x
<1> DEFINE sent == {moved(x) : x \in s.sent}
<1> DEFINE g == s.agents
<1> DEFINE f == [n \in (DOMAIN g \ {a}) \cup {b} |-> IF n = b THEN g[a] ELSE g[n]]
<1> DEFINE keys == Reindexed(sent)
<1> DEFINE v == apply_rename(s, a, b)
<1> DEFINE u == [agents |-> f, sent |-> sent, keys |-> s.keys, last_id |-> s.last_id]
<1>1. /\ s = [agents |-> s.agents, sent |-> s.sent, keys |-> s.keys, last_id |-> s.last_id]
      /\ g \in [DOMAIN g -> Nat] /\ DOMAIN g \subseteq Agent
      /\ s.sent \in SUBSET Broadcast
      /\ s.last_id \in Nat
  BY StoreParts
<1>2. /\ v = [s EXCEPT !.agents = f, !.sent = sent, !.keys = keys]
      /\ s.keys \in Maps(Agent \X Key, Nat) /\ a \in Agent /\ a # b
  <2>1. v = [s EXCEPT !.agents = f, !.sent = sent, !.keys = keys]
    BY <1>1 DEF apply_rename
  <2>2. s.keys \in Maps(Agent \X Key, Nat)
    BY DEF StoreType
  <2> QED BY <1>1, <2>1, <2>2
<1>3. \A x \in s.sent : moved(x) \in Broadcast /\ moved(x).id = x.id
  BY <1>1 DEF Broadcast
<1> HIDE DEF moved
<1>4. IsFiniteSet(sent) /\ sent \in SUBSET Broadcast
  <2> DEFINE m == [x \in s.sent |-> moved(x)]
  <2>1. sent = {m[x] : x \in s.sent}
    OBVIOUS
  <2>2. DOMAIN m = s.sent /\ IsFiniteSet(s.sent)
    BY DEF StoreInv, Listed
  <2>3. sent \in SUBSET Broadcast
    BY <1>3
  <2> HIDE DEF m, sent
  <2> QED BY <2>1, <2>2, <2>3, ImageFinite
<1>5. /\ f \in [DOMAIN f -> Nat] /\ DOMAIN f = (DOMAIN g \ {a}) \cup {b}
      /\ f[b] = g[a] /\ \A n \in DOMAIN g \ {a} : f[n] = g[n]
  BY <1>1
<1>6. \A y \in sent : \E x \in s.sent : y = moved(x)
  OBVIOUS
<1>7. \A x \in s.sent : moved(x) \in sent
  OBVIOUS
<1> HIDE DEF f, sent, v, keys
<1>8. f \in Maps(Agent, Nat)
  BY <1>1, <1>2, <1>5, MapsFact
<1>9. u \in StoreType /\ u.sent = sent /\ u.last_id = s.last_id
  BY <1>1, <1>2, <1>4, <1>8 DEF StoreType
<1>10. \A y \in sent : \A d \in sent : /\ 0 < y.id /\ y.id <= s.last_id
                                       /\ y.id = d.id => y = d
  BY <1>3, <1>6 DEF StoreInv, Listed
<1>11. Listed(u)
  BY <1>4, <1>9, <1>10 DEF Listed
<1> HIDE DEF u
<1>12. /\ keys \in Maps(Agent \X Key, Nat)
       /\ \A k \in DOMAIN keys : \E x \in sent : x.id = keys[k] /\ <<x.from, x.key>> = k
  BY <1>9, <1>11, ReindexedKeeps DEF keys
<1>13. /\ v = [agents |-> f, sent |-> sent, keys |-> keys, last_id |-> s.last_id]
       /\ v.agents = f /\ v.sent = sent /\ v.keys = keys /\ v.last_id = s.last_id
  BY <1>1, <1>2
<1>14. v \in StoreType
  BY <1>1, <1>4, <1>8, <1>12, <1>13 DEF StoreType
<1>15. Listed(v) /\ KeysRight(v)
  BY <1>4, <1>10, <1>12, <1>13 DEF Listed, KeysRight
<1>16. Ids(v) = Ids(s)
  <2>1. \A y \in sent : \E x \in s.sent : y.id = x.id
    BY <1>3, <1>6
  <2>2. \A x \in s.sent : \E y \in sent : y.id = x.id
    BY <1>3, <1>7
  <2> QED BY <1>13, <2>1, <2>2 DEF Ids
<1>17. ASSUME NEW n \in Agent
       PROVE  CursorRight(v, q, n)
  <2>1. CursorRight(s, p, n) /\ CursorRight(s, p, a)
    BY <1>2 DEF StoreInv
  <2>2. CASE n = b
    BY <1>5, <1>13, <1>16, <2>1, <2>2 DEF CursorRight
  <2>3. CASE n = a
    <3>1. n \notin DOMAIN f
      BY <1>2, <1>5, <2>3
    <3> QED BY <1>13, <2>3, <3>1 DEF CursorRight
  <2>4. CASE n # a /\ n # b
    BY <1>5, <1>13, <1>16, <2>1, <2>4 DEF CursorRight
  <2> QED BY <2>2, <2>3, <2>4
<1>18. StoreInv(v, q)
  BY <1>15, <1>17 DEF StoreInv
<1> QED BY <1>14, <1>18 DEF v

\* What reads or renames: a world's next store.
LEMMA NextStoreKeeps ==
    ASSUME NEW s \in StoreType, NEW p \in [Agent -> SUBSET Nat], StoreInv(s, p)
    PROVE  LET q == [a \in Agent |-> p[a] \cap Ids(s)]
           IN  q \in [Agent -> SUBSET Nat] /\ StoreInv(s, q)
<1> DEFINE q == [a \in Agent |-> p[a] \cap Ids(s)]
<1>1. q \in [Agent -> SUBSET Nat] /\ \A a \in Agent : q[a] = p[a] \cap Ids(s)
  OBVIOUS
<1> HIDE DEF q
<1>2. ASSUME NEW a \in Agent
      PROVE  CursorRight(s, q, a)
  <2>1. CursorRight(s, p, a)
    BY DEF StoreInv
  <2> QED BY <1>1, <2>1 DEF CursorRight
<1>3. StoreInv(s, q)
  BY <1>2 DEF StoreInv
<1> QED BY <1>1, <1>3 DEF q

--------------------------------------------------------------------------
(* The steps.                                                              *)

\* What a commit that the journal took, or the last one before one it refused,
\* leaves behind.
Becomes(v) ==
    /\ store' = v.store /\ ev' = v.ev /\ past' = v.past
    /\ passed' = [a \in Agent |-> v.passed[a] \cap Ids(v.store)]
    /\ UNCHANGED <<setup, open, todo, last, lost, restarts>>

\* Core::commit leaves a world that one of the request's commits was to make.
LEMMA BecomesKeeps ==
    ASSUME BroadcastsInv, NEW v, WorldInv(v), Becomes(v)
    PROVE  BroadcastsInv' /\ (PastBut(v, {}) => PastInv')
<1>1. /\ v.store \in StoreType /\ v.ev \in EventsType
      /\ v.passed \in [Agent -> SUBSET Nat] /\ v.past \in [Agent -> Nat]
      /\ EventsInv(v.ev) /\ StoreInv(v.store, v.passed)
  BY WorldParts DEF WorldInv
<1>2. passed' \in [Agent -> SUBSET Nat] /\ StoreInv(v.store, passed')
  <2>1. passed' = [a \in Agent |-> v.passed[a] \cap Ids(v.store)]
    BY DEF Becomes
  <2> QED BY <1>1, <2>1, NextStoreKeeps
<1>3. /\ store' = v.store /\ ev' = v.ev /\ past' = v.past /\ setup' = setup /\ open' = open
      /\ todo' = todo /\ last' = last /\ lost' = lost /\ restarts' = restarts
  BY DEF Becomes
<1>4. Types'
  BY <1>1, <1>2, <1>3 DEF BroadcastsInv, Types, StreamTypes, Now, World, WorldType
<1>5. EventsInv(ev)'
  BY <1>1, <1>3 DEF EventsInv, RingRuns, HandoversKnown, InTurn, OwedRight, Covered, visible
<1>6. StoreInv(store, passed)'
  BY <1>2, <1>3 DEF StoreInv, Listed, KeysRight, CursorRight, Ids
<1>7. ASSUME PastBut(v, {})
      PROVE  PastInv'
  <2>1. \A a \in Agent : PastNoted(v.past, v.ev, a)
    BY <1>7 DEF PastBut
  <2> QED BY <1>3, <2>1 DEF PastInv, PastNoted, oldest
<1> QED BY <1>4, <1>5, <1>6, <1>7 DEF BroadcastsInv

\* The world before a request.
LEMMA NowHolds ==
    ASSUME BroadcastsInv
    PROVE  /\ WorldInv(Now) /\ StreamTypes
           /\ Now.store = store /\ Now.ev = ev /\ Now.passed = passed /\ Now.past = past
           /\ PastInv => PastBut(Now, {})
<1>1. Now.store = store /\ Now.ev = ev /\ Now.passed = passed /\ Now.past = past
  BY DEF Now, World
<1>2. WorldInv(Now) /\ StreamTypes
  BY <1>1 DEF BroadcastsInv, Types, WorldInv
<1>3. PastInv => PastBut(Now, {})
  BY <1>1 DEF PastInv, PastBut
<1> QED BY <1>1, <1>2, <1>3

Trimmed(s) == Without(s, Surplus(s.sent, Excess(s)))

\* What a broadcast does to the list, if it comes to send.
SendsOne(a, key) ==
    \E m \in StoreType :
        /\ m.sent = store.sent /\ m.last_id = store.last_id /\ Sent(m, a, key) \in StoreType
        /\ store'.last_id # store.last_id => store' \in {Sent(m, a, key), Trimmed(Sent(m, a, key))}

\* broadcast: whoever made room, the sender, what it sent and what was pushed
\* out leave a world in order, whichever commit is the last.
LEMMA BroadcastKeeps ==
    ASSUME BroadcastsInv, NEW a \in Agent, NEW key \in setup.keys \cup {NoKey}, broadcast(a, key)
    PROVE  BroadcastsInv' /\ (PastInv => PastInv') /\ SendsOne(a, key)
<1> DEFINE known == DOMAIN store.agents
<1> DEFINE rooms == IF a \in known \/ Cardinality(known) < setup.agents THEN {Now}
                    ELSE {Forgotten(Now, v) : v \in known}
<1>1. PICK room \in rooms :
         LET made == IF a \in known THEN room ELSE Registered(room, a)
             told == [made EXCEPT !.store = Sent(@, a, key)]
             fits == [told EXCEPT !.store = Without(@, Surplus(@.sent, Excess(@)))]
         IN  Commit({room, made} \cup (IF Excess(told.store) > 0 THEN {told} ELSE {}),
                    emit(fits, Everyone))
  BY DEF broadcast
<1> DEFINE made == IF a \in known THEN room ELSE Registered(room, a)
<1> DEFINE told == [made EXCEPT !.store = Sent(@, a, key)]
<1> DEFINE ids == Surplus(told.store.sent, Excess(told.store))
<1> DEFINE fits == [told EXCEPT !.store = Without(@, Surplus(@.sent, Excess(@)))]
<1>2. /\ WorldInv(Now) /\ StreamTypes /\ Now.store = store
      /\ PastInv => PastBut(Now, {})
  BY NowHolds
<1>3. key \in Key \cup {NoKey} /\ known \subseteq Agent
  <2>1. setup \in Setups /\ store \in StoreType
    BY <1>2, WorldParts DEF StreamTypes, WorldInv
  <2> QED BY <2>1, BroadcastsAssumption, StoreParts
<1>4. /\ WorldInv(room) /\ (PastInv => PastBut(room, {}))
      /\ a \notin known => a \notin DOMAIN room.store.agents
      /\ room.store.sent = store.sent /\ room.store.last_id = store.last_id
  <2>1. CASE room = Now
    BY <1>2, <2>1
  <2>2. CASE \E b \in known : room = Forgotten(Now, b)
    <3>1. PICK b \in known : room = Forgotten(Now, b)
      BY <2>2
    <3>2. b \in Agent
      BY <1>3
    <3>3. /\ WorldInv(Forgotten(Now, b)) /\ (PastBut(Now, {}) => PastBut(Forgotten(Now, b), {}))
          /\ DOMAIN Forgotten(Now, b).store.agents = DOMAIN Now.store.agents \ {b}
          /\ Forgotten(Now, b).store.sent = store.sent
          /\ Forgotten(Now, b).store.last_id = store.last_id
      BY <1>2, <3>2, ForgottenWorld
    <3> QED BY <1>2, <3>1, <3>3
  <2> QED BY <2>1, <2>2
<1> HIDE DEF rooms
<1>5. /\ WorldInv(made) /\ (PastInv => PastBut(made, {}))
      /\ made.store.sent = store.sent /\ made.store.last_id = store.last_id
  <2>1. CASE a \in known
    BY <1>4, <2>1
  <2>2. CASE a \notin known
    <3>1. /\ WorldInv(Registered(room, a)) /\ (PastBut(room, {}) => PastBut(Registered(room, a), {}))
          /\ Registered(room, a).store.sent = room.store.sent
          /\ Registered(room, a).store.last_id = room.store.last_id
      BY <1>2, <1>4, <2>2, RegisteredWorld
    <3> QED BY <1>4, <2>2, <3>1
  <2> QED BY <2>1, <2>2
<1> HIDE DEF known, made
<1>6. /\ made = [store |-> made.store, ev |-> made.ev, passed |-> made.passed, past |-> made.past]
      /\ made.store \in StoreType /\ made.passed \in [Agent -> SUBSET Nat]
      /\ StoreInv(made.store, made.passed)
  BY <1>5, WorldParts DEF WorldInv
<1> DEFINE s == Sent(made.store, a, key)
<1>7. s \in StoreType /\ StoreInv(s, made.passed)
  BY <1>3, <1>6, SentKeeps
<1>8. /\ WorldInv(told) /\ told.store = s /\ told.passed = made.passed
      /\ PastInv => PastBut(told, {})
  <2>1. told = [made EXCEPT !.store = s]
    OBVIOUS
  <2> HIDE DEF told, s
  <2>2. told = Changed(made, s, made.passed) /\ told.passed = made.passed
    BY <1>6, <2>1 DEF Changed
  <2>3. /\ WorldInv(Changed(made, s, made.passed)) /\ Changed(made, s, made.passed).store = s
        /\ PastBut(made, {}) => PastBut(Changed(made, s, made.passed), {})
    BY <1>5, <1>6, <1>7, StoreChanges
  <2> QED BY <1>5, <2>2, <2>3
<1> DEFINE u == Without(s, ids)
<1>9. u \in StoreType /\ StoreInv(u, told.passed)
  <2>1. told.passed \in [Agent -> SUBSET Nat] /\ StoreInv(s, told.passed)
    <3> HIDE DEF told, s
    <3> QED BY <1>6, <1>7, <1>8
  <2> HIDE DEF ids, s, told
  <2> QED BY <1>7, <2>1, WithoutKeeps
<1>a. u = Trimmed(s)
  BY <1>8 DEF Trimmed
<1>10. WorldInv(fits) /\ (PastInv => PastBut(fits, {})) /\ fits.store = u
  <2>1. fits = [told EXCEPT !.store = u]
    BY <1>8
  <2>2. told = [store |-> told.store, ev |-> told.ev, passed |-> told.passed, past |-> told.past]
        /\ told.passed \in [Agent -> SUBSET Nat]
    BY <1>8, WorldParts DEF WorldInv
  <2> HIDE DEF fits, told, u
  <2>3. fits = Changed(told, u, told.passed)
    BY <2>1, <2>2 DEF Changed
  <2>4. /\ WorldInv(Changed(told, u, told.passed)) /\ Changed(told, u, told.passed).store = u
        /\ PastBut(told, {}) => PastBut(Changed(told, u, told.passed), {})
    BY <1>8, <1>9, <2>2, StoreChanges
  <2> QED BY <1>8, <2>3, <2>4
<1> HIDE DEF fits, told, s, u
<1>11. /\ WorldInv(emit(fits, Everyone)) /\ (PastInv => PastBut(emit(fits, Everyone), {}))
       /\ emit(fits, Everyone).store = u
  <2>1. Everyone \in SUBSET Agent
    BY DEF Everyone
  <2> QED BY <1>2, <1>10, <2>1, EmitWorld
<1>12. Commit({room, made} \cup (IF Excess(told.store) > 0 THEN {told} ELSE {}), emit(fits, Everyone))
  BY <1>1 DEF fits, told, made, known
<1>13. PICK v \in {emit(fits, Everyone), room, made, told} : Becomes(v)
  BY <1>12 DEF Commit, Becomes
<1>14. WorldInv(v) /\ (PastInv => PastBut(v, {}))
  BY <1>4, <1>5, <1>8, <1>11, <1>13
<1>15. SendsOne(a, key)
  <2>1. store' = v.store /\ v.store \in {room.store, made.store, s, u}
    BY <1>8, <1>11, <1>13 DEF Becomes
  <2>2. store'.last_id # store.last_id => store' \in {s, u}
    BY <1>4, <1>5, <2>1
  <2> QED BY <1>5, <1>6, <1>7, <1>a, <2>2 DEF SendsOne, s
<1> QED BY <1>13, <1>14, <1>15, BecomesKeeps

\* A request with one commit leaves the world it asked for, if it leaves any.
LEMMA OneCommitKeeps ==
    ASSUME BroadcastsInv, NEW w, WorldInv(w), PastInv => PastBut(w, {}),
           w.store.last_id = store.last_id, \E v \in {w} : Becomes(v)
    PROVE  BroadcastsInv' /\ (PastInv => PastInv') /\ store'.last_id = store.last_id
<1>1. Becomes(w)
  OBVIOUS
<1>2. store' = w.store
  BY <1>1 DEF Becomes
<1> QED BY <1>1, <1>2, BecomesKeeps

\* read_broadcasts
LEMMA ReadWorldKeeps ==
    ASSUME BroadcastsInv, NEW a \in Agent, read(a)
    PROVE  BroadcastsInv' /\ (PastInv => PastInv') /\ store'.last_id = store.last_id
<1> DEFINE w == [Now EXCEPT !.store.agents[a] = Max(Ids(store)), !.passed[a] = Ids(store)]
<1> DEFINE s == [store EXCEPT !.agents[a] = Max(Ids(store))]
<1> DEFINE p == [passed EXCEPT ![a] = Ids(store)]
<1>1. a \in DOMAIN store.agents /\ store.sent # {} /\ \E v \in {w} : Becomes(v)
  BY DEF read, Commit, Becomes
<1>2. /\ WorldInv(Now) /\ Now.store = store /\ Now.passed = passed
      /\ PastInv => PastBut(Now, {})
  BY NowHolds
<1>3. /\ Now = [store |-> store, ev |-> Now.ev, passed |-> passed, past |-> Now.past]
      /\ store \in StoreType /\ passed \in [Agent -> SUBSET Nat] /\ StoreInv(store, passed)
  BY <1>2, WorldParts DEF WorldInv
<1>4. s \in StoreType /\ StoreInv(s, p) /\ p \in [Agent -> SUBSET Nat]
  <2>1. s = SeenAll(store, a)
    BY DEF SeenAll
  <2>2. /\ p \in [Agent -> SUBSET Nat] /\ p[a] = Ids(store) /\ a \in Agent
        /\ \A b \in Agent \ {a} : p[b] = passed[b]
    <3>1. Ids(store) \in SUBSET Nat
      BY <1>3, IdsGiven DEF StoreInv
    <3> QED BY <1>3, <3>1
  <2> HIDE DEF s, p
  <2> QED BY <1>1, <1>3, <2>1, <2>2, ReadKeeps
<1>5. w = Changed(Now, s, p)
  <2>1. w = [Now EXCEPT !.store = [Now.store EXCEPT !.agents[a] = Max(Ids(store))],
                        !.passed = [Now.passed EXCEPT ![a] = Ids(store)]]
    BY <1>3
  <2> QED BY <1>2, <2>1 DEF Changed
<1> HIDE DEF w, s, p
<1>6. WorldInv(w) /\ (PastInv => PastBut(w, {})) /\ w.store = s
  <2>1. /\ WorldInv(Changed(Now, s, p)) /\ Changed(Now, s, p).store = s
        /\ PastBut(Now, {}) => PastBut(Changed(Now, s, p), {})
    BY <1>2, <1>4, StoreChanges
  <2> QED BY <1>2, <1>5, <2>1
<1>7. s.last_id = store.last_id
  <2>1. store = [agents |-> store.agents, sent |-> store.sent, keys |-> store.keys,
                 last_id |-> store.last_id]
    BY <1>3, StoreParts
  <2> QED BY <2>1 DEF s
<1> QED BY <1>1, <1>6, <1>7, OneCommitKeeps

\* clear_broadcasts, and the sweep: what goes from the list, and who is told.
LEMMA DropWorld ==
    ASSUME BroadcastsInv, NEW ids
    PROVE  LET w == [Now EXCEPT !.store = Without(@, ids)]
           IN  WorldInv(w) /\ (PastInv => PastBut(w, {})) /\ w.store.last_id = store.last_id
<1> DEFINE w == [Now EXCEPT !.store = Without(@, ids)]
<1> DEFINE s == Without(store, ids)
<1>1. /\ WorldInv(Now) /\ Now.store = store /\ Now.passed = passed
      /\ PastInv => PastBut(Now, {})
  BY NowHolds
<1>2. /\ Now = [store |-> store, ev |-> Now.ev, passed |-> passed, past |-> Now.past]
      /\ store \in StoreType /\ passed \in [Agent -> SUBSET Nat] /\ StoreInv(store, passed)
  BY <1>1, WorldParts DEF WorldInv
<1>3. s \in StoreType /\ StoreInv(s, passed) /\ s.last_id = store.last_id
  BY <1>2, WithoutKeeps
<1>4. w = [Now EXCEPT !.store = s]
  BY <1>1
<1> HIDE DEF w, s
<1>5. w = Changed(Now, s, Now.passed)
  BY <1>2, <1>4 DEF Changed
<1>6. /\ WorldInv(Changed(Now, s, Now.passed)) /\ Changed(Now, s, Now.passed).store = s
      /\ PastBut(Now, {}) => PastBut(Changed(Now, s, Now.passed), {})
  BY <1>1, <1>2, <1>3, StoreChanges
<1> QED BY <1>1, <1>3, <1>5, <1>6 DEF w

\* clear_broadcasts
LEMMA ClearKeeps ==
    ASSUME BroadcastsInv, clear
    PROVE  BroadcastsInv' /\ (PastInv => PastInv') /\ store'.last_id = store.last_id
<1> DEFINE w == [Now EXCEPT !.store = Without(@, Ids(store))]
<1>1. \E v \in {emit(w, Everyone)} : Becomes(v)
  BY DEF clear, Commit, Becomes
<1>2. /\ WorldInv(w) /\ (PastInv => PastBut(w, {})) /\ w.store.last_id = store.last_id
      /\ StreamTypes /\ Everyone \in SUBSET Agent
  BY DropWorld, NowHolds DEF Everyone
<1> HIDE DEF w
<1>3. /\ WorldInv(emit(w, Everyone)) /\ (PastInv => PastBut(emit(w, Everyone), {}))
      /\ emit(w, Everyone).store = w.store
  BY <1>2, EmitWorld
<1> QED BY <1>1, <1>2, <1>3, OneCommitKeeps

\* The sweep of the broadcasts.
LEMMA ExpireKeeps ==
    ASSUME BroadcastsInv, expire
    PROVE  BroadcastsInv' /\ (PastInv => PastInv') /\ store'.last_id = store.last_id
<1>1. PICK b \in store.sent :
         Commit({}, [Now EXCEPT !.store = Without(@, {id \in Ids(store) : id <= b.id})])
  BY DEF expire
<1> DEFINE ids == {id \in Ids(store) : id <= b.id}
<1> DEFINE w == [Now EXCEPT !.store = Without(@, ids)]
<1>2. \E v \in {w} : Becomes(v)
  BY <1>1 DEF Commit, Becomes
<1> HIDE DEF ids
<1>3. WorldInv(w) /\ (PastInv => PastBut(w, {})) /\ w.store.last_id = store.last_id
  BY DropWorld
<1> HIDE DEF w
<1> QED BY <1>2, <1>3, OneCommitKeeps

\* ensure_agents
LEMMA RegisterKeeps ==
    ASSUME BroadcastsInv, NEW a \in Agent, register(a)
    PROVE  BroadcastsInv' /\ (PastInv => PastInv') /\ store'.last_id = store.last_id
<1>1. a \notin DOMAIN store.agents /\ \E v \in {Registered(Now, a)} : Becomes(v)
  BY DEF register, Commit, Becomes
<1>2. /\ WorldInv(Registered(Now, a)) /\ (PastInv => PastBut(Registered(Now, a), {}))
      /\ Registered(Now, a).store.last_id = store.last_id
  BY <1>1, NowHolds, RegisteredWorld
<1> QED BY <1>1, <1>2, OneCommitKeeps

\* forget_agent
LEMMA ForgetKeeps ==
    ASSUME BroadcastsInv, NEW a \in Agent, forget(a)
    PROVE  BroadcastsInv' /\ (PastInv => PastInv') /\ store'.last_id = store.last_id
<1>1. \E v \in {Forgotten(Now, a)} : Becomes(v)
  BY DEF forget, Commit, Becomes
<1>2. /\ WorldInv(Forgotten(Now, a)) /\ (PastInv => PastBut(Forgotten(Now, a), {}))
      /\ Forgotten(Now, a).store.last_id = store.last_id
  BY NowHolds, ForgottenWorld
<1> QED BY <1>1, <1>2, OneCommitKeeps

\* What else makes events.
LEMMA OtherKeeps ==
    ASSUME BroadcastsInv, NEW a \in Agent, other(a)
    PROVE  BroadcastsInv' /\ (PastInv => PastInv') /\ store'.last_id = store.last_id
<1>1. \E v \in {emit(Now, {a})} : Becomes(v)
  BY DEF other, Commit, Becomes
<1>2. {a} \in SUBSET Agent
  OBVIOUS
<1>3. /\ WorldInv(emit(Now, {a})) /\ (PastInv => PastBut(emit(Now, {a}), {}))
      /\ emit(Now, {a}).store.last_id = store.last_id
  BY <1>2, NowHolds, EmitWorld
<1> QED BY <1>1, <1>3, OneCommitKeeps

\* What a name's past is taken to be does not matter to the rest of the world.
LEMMA NotedWorld ==
    ASSUME NEW w, WorldInv(w), NEW t \in [Agent -> Nat]
    PROVE  LET v == [w EXCEPT !.past = t]
           IN  WorldInv(v) /\ v.ev = w.ev /\ v.past = t /\ v.store = w.store
<1> DEFINE v == [w EXCEPT !.past = t]
<1>1. /\ w = [store |-> w.store, ev |-> w.ev, passed |-> w.passed, past |-> w.past]
      /\ w.store \in StoreType /\ w.ev \in EventsType /\ w.passed \in [Agent -> SUBSET Nat]
      /\ EventsInv(w.ev) /\ StoreInv(w.store, w.passed)
  BY WorldParts DEF WorldInv
<1>2. /\ v = [store |-> w.store, ev |-> w.ev, passed |-> w.passed, past |-> t]
      /\ v.store = w.store /\ v.ev = w.ev /\ v.passed = w.passed /\ v.past = t
  BY <1>1
<1> HIDE DEF v
<1>3. WorldInv(v)
  BY <1>1, <1>2 DEF WorldInv, WorldType
<1> QED BY <1>2, <1>3 DEF v

\* rename: whoever has the new name has read what it had read under the old
\* one, and both names changed hands.
LEMMA RenameWorldKeeps ==
    ASSUME BroadcastsInv, NEW a \in Agent, NEW b \in Agent, rename(a, b)
    PROVE  BroadcastsInv' /\ (PastInv /\ ~setup.halves => PastInv') /\ store'.last_id = store.last_id
<1> DEFINE free == IF b \in DOMAIN store.agents THEN Forget(Now, b) ELSE Now
<1> DEFINE named == [free EXCEPT !.store = apply_rename(@, a, b),
                                 !.passed[b] = passed[a], !.passed[a] = {},
                                 !.past = Note(@, Now, {a, b})]
<1> DEFINE told == emit(named, {a, b})
<1> DEFINE final == [told EXCEPT !.ev = hand_over(hand_over(@, a), b)]
<1>1. /\ a # b /\ a \in DOMAIN store.agents
      /\ Commit(IF setup.halves THEN {free} ELSE {}, final)
  BY DEF rename
<1>2. /\ WorldInv(Now) /\ StreamTypes /\ Now.store = store /\ Now.ev = ev /\ Now.passed = passed
      /\ PastInv => PastBut(Now, {})
  BY NowHolds
<1>3. /\ WorldInv(free) /\ free.ev = ev /\ free.passed[a] = passed[a]
      /\ a \in DOMAIN free.store.agents /\ b \notin DOMAIN free.store.agents
      /\ PastInv => PastBut(free, {a, b})
      /\ free.store.last_id = store.last_id
  <2>1. ASSUME NEW w, NEW names \in SUBSET {a, b}, PastBut(w, names)
        PROVE  PastBut(w, {a, b})
    BY <2>1 DEF PastBut, PastNoted
  <2>2. CASE b \in DOMAIN store.agents
    <3>1. /\ WorldInv(Forget(Now, b)) /\ Forget(Now, b).ev = ev
          /\ DOMAIN Forget(Now, b).store.agents = DOMAIN store.agents \ {b}
          /\ Forget(Now, b).passed[a] = passed[a]
          /\ Forget(Now, b).store.last_id = store.last_id
          /\ PastBut(Now, {}) => PastBut(Forget(Now, b), {b})
      BY <1>1, <1>2, ForgetWorld
    <3>2. free = Forget(Now, b)
      BY <2>2
    <3> HIDE DEF free
    <3> QED BY <1>1, <1>2, <2>1, <3>1, <3>2
  <2>3. CASE b \notin DOMAIN store.agents
    <3>1. free = Now
      BY <2>3
    <3> HIDE DEF free
    <3> QED BY <1>1, <1>2, <2>1, <2>3, <3>1
  <2> QED BY <2>2, <2>3
<1> DEFINE s == apply_rename(free.store, a, b)
<1> DEFINE q == [[free.passed EXCEPT ![b] = passed[a]] EXCEPT ![a] = {}]
<1> DEFINE t == Note(free.past, Now, {a, b})
<1> HIDE DEF free
<1>4. /\ free = [store |-> free.store, ev |-> free.ev, passed |-> free.passed, past |-> free.past]
      /\ free.store \in StoreType /\ free.ev \in EventsType
      /\ free.passed \in [Agent -> SUBSET Nat] /\ free.past \in [Agent -> Nat]
      /\ StoreInv(free.store, free.passed)
  BY <1>3, WorldParts DEF WorldInv
<1>5. /\ q \in [Agent -> SUBSET Nat] /\ q[b] = free.passed[a] /\ q[a] = {}
      /\ \A n \in Agent \ {a, b} : q[n] = free.passed[n]
  <2>1. passed[a] \in SUBSET Nat
    BY <1>3, <1>4
  <2> QED BY <1>1, <1>3, <1>4, <2>1
<1>6. s \in StoreType /\ StoreInv(s, q) /\ s.last_id = store.last_id
  <2>1. s.last_id = free.store.last_id
    <3>1. free.store = [agents |-> free.store.agents, sent |-> free.store.sent,
                        keys |-> free.store.keys, last_id |-> free.store.last_id]
      BY <1>4, StoreParts
    <3> QED BY <3>1 DEF apply_rename
  <2> HIDE DEF q
  <2> QED BY <1>3, <1>4, <1>5, <2>1, RenameKeeps
<1>7. /\ t \in [Agent -> Nat]
      /\ \A n \in Agent : t[n] = free.past[n] \/ (n \in {a, b} /\ t[n] = ev.next)
  <2>1. ev.next \in Nat
    BY <1>3, <1>4 DEF EventsType
  <2> QED BY <1>2, <1>4, <2>1 DEF Note
<1>8. named = [Changed(free, s, q) EXCEPT !.past = t]
  <2>1. named = [free EXCEPT !.store = s, !.passed = q, !.past = t]
    BY <1>4
  <2> HIDE DEF named, s, q, t
  <2> QED BY <1>4, <2>1 DEF Changed
<1> HIDE DEF s, q, t, named
<1>9. /\ WorldInv(Changed(free, s, q)) /\ Changed(free, s, q).ev = free.ev
      /\ Changed(free, s, q).store = s
  BY <1>3, <1>5, <1>6, StoreChanges
<1>10. WorldInv(named) /\ named.ev = ev /\ named.past = t /\ named.store = s
  BY <1>3, <1>7, <1>8, <1>9, NotedWorld
<1>11. PastInv => PastBut(named, {a, b})
  <2>1. SUFFICES ASSUME PastInv PROVE PastBut(named, {a, b})
    OBVIOUS
  <2>2. /\ \A n \in Agent \ {a, b} : PastNoted(free.past, ev, n)
        /\ \A n \in {a, b} : free.past[n] <= ev.next
    BY <1>3, <2>1 DEF PastBut
  <2>3. ev.next \in Nat
    BY <1>3, <1>4 DEF EventsType
  <2>4. \A n \in Agent \ {a, b} : PastNoted(t, ev, n)
    BY <1>7, <2>2 DEF PastNoted
  <2>5. \A n \in {a, b} : t[n] <= ev.next
    BY <1>7, <2>2, <2>3
  <2> QED BY <1>10, <2>4, <2>5 DEF PastBut
<1>12. WorldInv(told) /\ (PastInv => PastBut(told, {a, b})) /\ told.store = s
  <2>1. {a, b} \in SUBSET Agent
    OBVIOUS
  <2> QED BY <1>2, <1>10, <1>11, <2>1, EmitWorld
<1>13. final = [[told EXCEPT !.ev = hand_over(@, a)] EXCEPT !.ev = hand_over(@, b)]
  <2>1. told = [store |-> told.store, ev |-> told.ev, passed |-> told.passed, past |-> told.past]
    BY <1>12, WorldParts DEF WorldInv
  <2> HIDE DEF told
  <2> QED BY <2>1
<1> HIDE DEF told, final
<1> DEFINE half == [told EXCEPT !.ev = hand_over(@, a)]
<1>14. WorldInv(half) /\ (PastInv => PastBut(half, {b})) /\ half.store = s
  <2>1. {a, b} \ {a} = {b} /\ {a, b} \in SUBSET Agent
    BY <1>1
  <2>2. /\ WorldInv(half) /\ half.store = told.store
        /\ \A names \in SUBSET Agent : PastBut(told, names) => PastBut(half, names \ {a})
    BY <1>2, <1>12, HandOverWorld
  <2> HIDE DEF half
  <2> QED BY <1>12, <2>1, <2>2
<1> HIDE DEF half
<1>15. WorldInv(final) /\ (PastInv => PastBut(final, {})) /\ final.store = s
  <2>1. {b} \ {b} = {} /\ {b} \in SUBSET Agent
    OBVIOUS
  <2>2. final = [half EXCEPT !.ev = hand_over(@, b)]
    BY <1>13 DEF half
  <2>3. /\ WorldInv(final) /\ final.store = half.store
        /\ \A names \in SUBSET Agent : PastBut(half, names) => PastBut(final, names \ {b})
    BY <1>2, <1>14, <2>2, HandOverWorld
  <2> QED BY <1>14, <2>1, <2>3
<1>16. PICK v \in {final} \cup (IF setup.halves THEN {free} ELSE {}) : Becomes(v)
  <2>1. Commit(IF setup.halves THEN {free} ELSE {}, final)
    BY <1>1 DEF final, told, named, free
  <2> QED BY <2>1 DEF Commit, Becomes
<1>17. WorldInv(v) /\ (PastInv /\ ~setup.halves => PastBut(v, {}))
  BY <1>3, <1>15, <1>16
<1>18. store'.last_id = store.last_id
  <2>1. store' = final.store \/ store' = free.store
    BY <1>16 DEF Becomes
  <2> QED BY <1>3, <1>6, <1>15, <2>1
<1> QED BY <1>16, <1>17, <1>18, BecomesKeeps

\* Loading a store: the keys are indexed anew, and the streams are gone.
LEMMA RestartKeeps ==
    ASSUME BroadcastsInv, restart
    PROVE  BroadcastsInv' /\ (PastInv => PastInv') /\ store'.last_id = store.last_id
<1>1. /\ store' = [store EXCEPT !.keys = Reindexed(store.sent)]
      /\ passed' = passed /\ past' = past /\ NewProcess
  BY DEF restart
<1>2. /\ StreamsInv /\ store \in StoreType /\ StoreInv(store, passed) /\ Now \in WorldType
      /\ passed \in [Agent -> SUBSET Nat] /\ past \in [Agent -> Nat] /\ lost \in Nat /\ restarts \in Nat
  BY WorldParts, NowHolds DEF BroadcastsInv, Types, StreamsInv, WorldInv
<1>3. /\ StreamsInv' /\ ev'.ring = <<>> /\ ev.next <= ev'.next /\ DOMAIN ev'.handovers = {}
      /\ lost' = lost /\ restarts' = restarts + 1
  BY <1>1, <1>2, NewProcessKeeps DEF NewProcess
<1> DEFINE keys == Reindexed(store.sent)
<1>4. /\ keys \in Maps(Agent \X Key, Nat)
      /\ \A k \in DOMAIN keys : \E b \in store.sent : b.id = keys[k] /\ <<b.from, b.key>> = k
  BY <1>2, ReindexedKeeps DEF StoreInv
<1> HIDE DEF keys
<1>5. /\ store' = [agents |-> store.agents, sent |-> store.sent, keys |-> keys,
                   last_id |-> store.last_id]
      /\ store'.agents = store.agents /\ store'.sent = store.sent /\ store'.keys = keys
      /\ store'.last_id = store.last_id
  BY <1>1, <1>2, StoreParts DEF keys
<1>6. store' \in StoreType
  <2>1. store.agents \in Maps(Agent, Nat) /\ store.sent \in SUBSET Broadcast /\ store.last_id \in Nat
    BY <1>2 DEF StoreType
  <2> QED BY <1>4, <1>5, <2>1 DEF StoreType
<1>7. StoreInv(store, passed)'
  BY <1>1, <1>2, <1>4, <1>5 DEF StoreInv, Listed, KeysRight, CursorRight, Ids
<1>8. BroadcastsInv'
  <2>1. Now' \in WorldType
    BY <1>1, <1>2, <1>3, <1>6 DEF Now, World, WorldType, StreamsInv
  <2> QED BY <1>2, <1>3, <1>7, <2>1 DEF BroadcastsInv, Types, StreamsInv
<1>9. ASSUME PastInv
      PROVE  PastInv'
  <2>1. ev.next \in Nat /\ ev'.next \in Nat
    BY <1>2, <1>3 DEF StreamsInv, EventsType
  <2>2. \A a \in Agent : past[a] \in Nat /\ past[a] <= ev.next
    BY <1>2, <1>9 DEF PastInv, PastNoted
  <2>3. \A a \in Agent : past[a] <= ev'.next
    BY <1>3, <2>1, <2>2
  <2> QED BY <1>1, <1>3, <2>3 DEF PastInv, PastNoted, oldest
<1> QED BY <1>5, <1>8, <1>9

\* Streams start, get what is theirs and end without a change to what is kept.
LEMMA StreamStepKeeps ==
    ASSUME BroadcastsInv, NEW c \in Client, Stream(c) \/ leave(c), UNCHANGED bvars
    PROVE  BroadcastsInv' /\ (PastInv => PastInv')
<1>1. /\ StreamsInv /\ store \in StoreType /\ StoreInv(store, passed)
      /\ passed \in [Agent -> SUBSET Nat] /\ past \in [Agent -> Nat] /\ lost \in Nat /\ restarts \in Nat
  BY WorldParts, NowHolds DEF BroadcastsInv, Types, StreamsInv, WorldInv
<1>2. store' = store /\ passed' = passed /\ past' = past
  BY DEF bvars
<1>3. StreamsInv'
  BY <1>1, SubscribeKeeps, DeliverKeeps, EndKeeps, LeaveKeeps DEF Stream
<1>4. /\ ev'.next = ev.next /\ ev'.ring = ev.ring /\ ev'.handovers = ev.handovers
      /\ restarts' = restarts /\ (lost' = lost \/ lost' = lost + 1)
  <2>1. ev = [next |-> ev.next, ring |-> ev.ring, subscribers |-> ev.subscribers, feed |-> ev.feed,
              handovers |-> ev.handovers, owed |-> ev.owed]
    BY <1>1 DEF StreamsInv, EventsType
  <2>2. CASE subscribe(c)
    BY <2>1, <2>2 DEF subscribe
  <2>3. CASE deliver(c)
    BY <2>1, <2>3 DEF deliver
  <2>4. CASE end(c)
    BY <2>4 DEF end
  <2>5. CASE leave(c)
    BY <2>1, <2>5 DEF leave
  <2> QED BY <2>2, <2>3, <2>4, <2>5 DEF Stream
<1>5. StoreInv(store, passed)'
  BY <1>1, <1>2 DEF StoreInv, Listed, KeysRight, CursorRight, Ids
<1>6. Now' \in WorldType
  BY <1>1, <1>2, <1>3 DEF Now, World, WorldType, StreamsInv
<1>7. BroadcastsInv'
  BY <1>1, <1>3, <1>4, <1>5, <1>6 DEF BroadcastsInv, Types, StreamsInv
<1>8. PastInv => PastInv'
  BY <1>2, <1>4 DEF PastInv, PastNoted, oldest
<1> QED BY <1>7, <1>8

\* A server with no broadcasts, agents or events.
LEMMA InitHolds ==
    ASSUME Init
    PROVE  BroadcastsInv /\ PastInv
<1>1. /\ setup \in Setups /\ ev = NewEvents(1, [c \in Client |-> {}])
      /\ open = [c \in Client |-> FALSE] /\ todo = [c \in Client |-> <<>>]
      /\ last = [c \in Client |-> 0] /\ lost = 0 /\ restarts = 0
      /\ store = [agents |-> [a \in {} |-> 0], sent |-> {}, keys |-> [k \in {} |-> 0], last_id |-> 0]
      /\ passed = [a \in Agent |-> {}] /\ past = [a \in Agent |-> 0]
  BY DEF Init, EventsInit, NoId
<1>2. /\ ev = [next |-> 1, ring |-> <<>>, subscribers |-> {}, feed |-> [c \in Client |-> <<>>],
               handovers |-> [a \in {} |-> 0], owed |-> [c \in Client |-> {}]]
      /\ ev.next = 1 /\ ev.ring = <<>> /\ ev.subscribers = {} /\ ev.feed = [c \in Client |-> <<>>]
      /\ ev.handovers = [a \in {} |-> 0] /\ ev.owed = [c \in Client |-> {}]
  BY <1>1 DEF NewEvents, NoId
<1>3. ASSUME NEW S
      PROVE  [x \in {} |-> 0] \in Maps(S, Nat) /\ DOMAIN [x \in {} |-> 0] = {}
  <2>1. [x \in {} |-> 0] \in [{} -> Nat] /\ [{} -> Nat] \in {[D -> Nat] : D \in SUBSET S}
    OBVIOUS
  <2> QED BY <2>1 DEF Maps
<1>4. <<>> \in Seq(Item) /\ {} \in SUBSET Nat
  OBVIOUS
<1>5. ev \in EventsType
  BY <1>2, <1>3, <1>4 DEF EventsType
<1>6. store \in StoreType
  <2>1. [a \in {} |-> 0] \in Maps(Agent, Nat) /\ [k \in {} |-> 0] \in Maps(Agent \X Key, Nat)
    BY <1>3
  <2>2. {} \in SUBSET Broadcast
    OBVIOUS
  <2> HIDE DEF Broadcast
  <2> QED BY <1>1, <2>1, <2>2 DEF StoreType
<1>7. Types
  <2>1. Now \in WorldType
    BY <1>1, <1>5, <1>6 DEF Now, World, WorldType
  <2>2. StreamTypes
    BY <1>1, <1>4 DEF StreamTypes
  <2> QED BY <1>1, <2>1, <2>2 DEF Types
<1>8. EventsInv(ev)
  <2>1. RingRuns(ev) /\ HandoversKnown(ev)
    BY <1>2, <1>3 DEF RingRuns, HandoversKnown
  <2>2. \A c \in Client : InTurn(ev, c) /\ OwedRight(ev, c) /\ Covered(ev, c)
    <3>1. ASSUME NEW c \in Client
          PROVE  /\ ~open[c] /\ todo[c] = <<>> /\ last[c] = 0
                 /\ ev.feed[c] = <<>> /\ ev.owed[c] = {} /\ ev.next = 1 /\ DOMAIN ev.ring = {}
                 /\ DOMAIN todo[c] = {} /\ DOMAIN ev.feed[c] = {}
      <4>1. DOMAIN <<>> = {}
        OBVIOUS
      <4>2. ~open[c] /\ todo[c] = <<>> /\ last[c] = 0 /\ ev.feed[c] = <<>> /\ ev.owed[c] = {}
        BY <1>1, <1>2
      <4> QED BY <1>2, <4>1, <4>2
    <3> QED BY <3>1 DEF InTurn, OwedRight, Covered
  <2> QED BY <2>1, <2>2 DEF EventsInv
<1>9. StoreInv(store, passed)
  <2>1. /\ DOMAIN store.agents = {} /\ DOMAIN store.keys = {} /\ store.sent = {} /\ store.last_id = 0
        /\ \A a \in Agent : passed[a] = {}
    BY <1>1
  <2>2. Listed(store)
    BY <2>1, FS_EmptySet DEF Listed
  <2>3. KeysRight(store) /\ Ids(store) = {}
    BY <2>1 DEF KeysRight, Ids
  <2>4. \A a \in Agent : CursorRight(store, passed, a)
    BY <2>1, <2>3 DEF CursorRight
  <2> QED BY <2>2, <2>3, <2>4 DEF StoreInv
<1>10. PastInv
  <2>1. DOMAIN ev.handovers = {} /\ oldest(ev) = 1 /\ ev.next = 1 /\ \A a \in Agent : past[a] = 0
    BY <1>1, <1>2, <1>3 DEF oldest
  <2> QED BY <2>1 DEF PastInv, PastNoted
<1> QED BY <1>7, <1>8, <1>9, <1>10 DEF BroadcastsInv

\* Every step keeps the world in order, and, where no rename stops between
\* its commits, the past of every name noted.
LEMMA NextKeeps ==
    ASSUME BroadcastsInv, [Next]_vars
    PROVE  /\ BroadcastsInv' /\ (PastInv /\ ~setup.halves => PastInv')
           /\ \/ store'.last_id = store.last_id
              \/ \E a \in Agent, key \in setup.keys \cup {NoKey} : SendsOne(a, key)
<1>1. ASSUME NEW a \in Agent, NEW key \in setup.keys \cup {NoKey}, broadcast(a, key)
      PROVE  BroadcastsInv' /\ (PastInv => PastInv') /\ SendsOne(a, key)
  BY <1>1, BroadcastKeeps
<1>2. ASSUME NEW a \in Agent, read(a) \/ register(a) \/ forget(a) \/ other(a)
      PROVE  BroadcastsInv' /\ (PastInv => PastInv') /\ store'.last_id = store.last_id
  BY <1>2, ReadWorldKeeps, RegisterKeeps, ForgetKeeps, OtherKeeps
<1>3. ASSUME NEW a \in Agent, NEW b \in Agent, rename(a, b)
      PROVE  /\ BroadcastsInv' /\ (PastInv /\ ~setup.halves => PastInv')
             /\ store'.last_id = store.last_id
  BY <1>3, RenameWorldKeeps
<1>4. CASE clear \/ expire \/ restart
  BY <1>4, ClearKeeps, ExpireKeeps, RestartKeeps
<1>5. CASE EventsNext /\ UNCHANGED bvars
  <2>1. PICK c \in setup.follow : Stream(c) \/ leave(c)
    BY <1>5 DEF EventsNext
  <2>2. c \in Client
    BY <2>1, SetupAssumption DEF BroadcastsInv, Types, StreamTypes
  <2> QED BY <1>5, <2>1, <2>2, StreamStepKeeps DEF bvars
<1>6. CASE UNCHANGED vars
  BY <1>6 DEF vars, evars, bvars, BroadcastsInv, Types, StreamTypes, Now, World, EventsInv, RingRuns,
       HandoversKnown, InTurn, OwedRight, Covered, visible, StoreInv, Listed, KeysRight, CursorRight,
       Ids, PastInv, PastNoted, oldest
<1> QED BY <1>1, <1>2, <1>3, <1>4, <1>5, <1>6 DEF Next

\* Requests change the store, and leave streams and clients as they are.
LEMMA RequestsLeaveStreams ==
    ASSUME Next
    PROVE  \/ EventsNext \/ restart
           \/ open' = open /\ todo' = todo /\ last' = last
<1>2. ASSUME NEW a \in Agent, NEW key \in setup.keys \cup {NoKey}, broadcast(a, key)
      PROVE  open' = open /\ todo' = todo /\ last' = last
  <2>1. \E v : Becomes(v)
    BY <1>2 DEF broadcast, Commit, Becomes
  <2> QED BY <2>1 DEF Becomes
<1>3. ASSUME NEW a \in Agent, read(a) \/ register(a) \/ forget(a) \/ other(a)
      PROVE  open' = open /\ todo' = todo /\ last' = last
  BY <1>3 DEF read, register, forget, other, Commit
<1>4. ASSUME NEW a \in Agent, NEW b \in Agent, rename(a, b)
      PROVE  open' = open /\ todo' = todo /\ last' = last
  BY <1>4 DEF rename, Commit
<1>5. CASE clear \/ expire
  BY <1>5 DEF clear, expire, Commit
<1> QED BY <1>2, <1>3, <1>4, <1>5 DEF Next

--------------------------------------------------------------------------
(* The theorems.                                                           *)

\* Whatever the limits, the number of agents and clients and the order of
\* their requests, the worlds between two commits are in order.
THEOREM BroadcastsHold == Spec => []BroadcastsInv
<1>1. Init => BroadcastsInv
  BY InitHolds
<1>2. BroadcastsInv /\ [Next]_vars => BroadcastsInv'
  BY NextKeeps
<1> QED BY <1>1, <1>2, PTL DEF Spec

\* read_broadcasts, trim_broadcasts: what an agent counts as unseen is what was
\* sent since it last read, and a key names a broadcast of its own.
THEOREM CursorsCount == Spec => []CursorsCountRight
<1>1. BroadcastsInv => CursorsCountRight
  <2>1. SUFFICES ASSUME BroadcastsInv PROVE CursorsCountRight
    OBVIOUS
  <2>2. StoreInv(store, passed) /\ DOMAIN store.agents \subseteq Agent
    BY <2>1, NowHolds, WorldParts, StoreParts DEF BroadcastsInv, WorldInv
  <2> QED BY <2>2 DEF StoreInv, KeysRight, CursorRight, CursorsCountRight
<1> QED BY <1>1, BroadcastsHold, PTL

\* subscribe, Server::events: what a client is owed comes in the order of ids,
\* and none of it is passed over without a word.
THEOREM NothingIsPassedOver == Spec => NoSilentGap
<1> DEFINE A == \A c \in Client : last'[c] # last[c] =>
                    /\ last'[c] > last[c]
                    /\ \A id \in ev.owed[c] : id >= last'[c]
<1>1. BroadcastsInv /\ [Next]_vars => [A]_evars
  <2>1. SUFFICES ASSUME BroadcastsInv, [Next]_vars PROVE A \/ UNCHANGED evars
    OBVIOUS
  <2>2. CASE last' = last
    BY <2>2
  <2>3. CASE last' # last
    <3>1. \E c \in Client : deliver(c)
      <4>1. EventsNext
        BY <2>1, <2>3, RequestsLeaveStreams DEF vars, evars, restart, NewProcess
      <4>2. PICK c \in setup.follow : Stream(c) \/ leave(c)
        BY <4>1 DEF EventsNext
      <4>3. c \in Client
        BY <2>1, <4>2, SetupAssumption DEF BroadcastsInv, Types, StreamTypes
      <4> QED BY <2>3, <4>2, <4>3 DEF Stream, subscribe, end, leave
    <3>2. PICK c \in Client : deliver(c)
      BY <3>1
    <3>3. StreamsInv
      BY <2>1, NowHolds, WorldParts DEF BroadcastsInv, StreamsInv, WorldInv
    <3>4. PICK e \in Item : Delivered(c, e)
      BY <3>2, <3>3, DeliverGets
    <3>5. last \in [Client -> Nat] /\ e.id \in Nat /\ ev.owed[c] \in SUBSET Nat
      BY <3>3 DEF StreamsInv, StreamTypes, Item, EventsType
    <3>6. e.kind # "resync" /\ last' = [last EXCEPT ![c] = e.id]
      BY <2>3, <3>4 DEF Delivered, Gets
    <3>7. last[c] < e.id /\ \A id \in ev.owed[c] : e.id <= id
      BY <3>4, <3>6 DEF Delivered
    <3> QED BY <3>5, <3>6, <3>7
  <2> QED BY <2>2, <2>3
<1> QED BY <1>1, BroadcastsHold, PTL DEF Spec, NoSilentGap

\* Events::handovers: where no rename stops between its commits, what came
\* before a name changed hands is never replayed to whoever follows it now.
THEOREM PastIsPrivate ==
    ASSUME \A s \in Setups : ~s.halves
    PROVE  Spec => PastStaysPrivate
<1> DEFINE A == \A c \in Client : ~open[c] /\ open'[c] /\ Filter[c] # Admin =>
                    \A i \in DOMAIN todo'[c] : todo'[c][i].id >= past[Filter[c]]
<1>1. Init => PastInv
  BY InitHolds
<1>2. BroadcastsInv /\ PastInv /\ [Next]_vars => PastInv'
  <2>1. BroadcastsInv => ~setup.halves
    BY DEF BroadcastsInv, Types, StreamTypes
  <2> QED BY <2>1, NextKeeps
<1>3. BroadcastsInv /\ PastInv /\ [Next]_vars => [A]_vars
  <2>1. SUFFICES ASSUME BroadcastsInv, PastInv, [Next]_vars, NEW c \in Client,
                        ~open[c], open'[c], Filter[c] # Admin
                 PROVE  \A i \in DOMAIN todo'[c] : todo'[c][i].id >= past[Filter[c]]
    OBVIOUS
  <2>2. StreamsInv /\ past \in [Agent -> Nat] /\ Filter[c] \in Agent
    BY <2>1, NowHolds, WorldParts, FilterAssumption DEF BroadcastsInv, StreamsInv, WorldInv
  <2>3. subscribe(c)
    <3>1. CASE EventsNext
      <4>1. PICK d \in setup.follow : Stream(d) \/ leave(d)
        BY <3>1 DEF EventsNext
      <4>2. open \in [Client -> BOOLEAN]
        BY <2>2 DEF StreamsInv, StreamTypes
      <4>3. deliver(d) => open' = open
        BY DEF deliver
      <4>4. end(d) \/ leave(d) => open' = [open EXCEPT ![d] = FALSE]
        BY DEF end, leave
      <4>5. subscribe(d) => open' = [open EXCEPT ![d] = TRUE]
        BY DEF subscribe
      <4> QED BY <2>1, <4>1, <4>2, <4>3, <4>4, <4>5 DEF Stream
    <3>2. CASE open' = open
      BY <2>1, <3>2
    <3>3. CASE restart
      BY <2>1, <3>3 DEF restart, NewProcess
    <3> QED BY <2>1, <3>1, <3>2, <3>3, RequestsLeaveStreams DEF vars, evars
  <2> DEFINE since == IF Filter[c] \in DOMAIN ev.handovers THEN ev.handovers[Filter[c]] ELSE NoId
  <2>4. /\ todo'[c] \in Seq(Item)
        /\ \/ last[c] = NoId /\ todo'[c] = <<>>
           \/ todo'[c] = <<Gap(ev.next)>>
           \/ \A i \in DOMAIN todo'[c] : since <= todo'[c][i].id /\ oldest(ev) <= todo'[c][i].id
    BY <2>2, <2>3, SubscribeStarts DEF StreamsInv
  <2>5. PastNoted(past, ev, Filter[c]) /\ past[Filter[c]] \in Nat /\ ev.next \in Nat
    BY <2>1, <2>2 DEF PastInv, StreamsInv, EventsType
  <2>6. CASE todo'[c] = <<>>
    BY <2>6
  <2>7. CASE todo'[c] = <<Gap(ev.next)>>
    BY <2>5, <2>7 DEF Gap, PastNoted
  <2>8. CASE \A i \in DOMAIN todo'[c] : since <= todo'[c][i].id /\ oldest(ev) <= todo'[c][i].id
    <3>1. \A i \in DOMAIN todo'[c] : todo'[c][i].id \in Nat
      <4>1. \A i \in DOMAIN todo'[c] : todo'[c][i] \in Item
        BY <2>4
      <4> QED BY <4>1 DEF Item
    <3>2. since \in Nat /\ oldest(ev) \in Nat
      <4>1. ev \in EventsType /\ RingRuns(ev)
        BY <2>2 DEF StreamsInv, EventsInv
      <4> QED BY <4>1, OldestIs, MapsFact DEF EventsType, NoId
    <3>3. past[Filter[c]] <= since \/ past[Filter[c]] <= oldest(ev)
      BY <2>5 DEF PastNoted
    <3> HIDE DEF since
    <3> QED BY <2>5, <2>8, <3>1, <3>2, <3>3
  <2> QED BY <2>4, <2>6, <2>7, <2>8
<1> QED BY <1>1, <1>2, <1>3, BroadcastsHold, PTL DEF Spec, PastStaysPrivate

--------------------------------------------------------------------------
(* What is pushed out of a full list.                                      *)

Numbered(S) == IsFiniteSet(S) /\ S \subseteq Broadcast /\ \A b, d \in S : b.id = d.id => b = d

\* Counting those sent before one.
LEMMA BeforeCounts ==
    ASSUME NEW S, Numbered(S), NEW b \in S
    PROVE  /\ Before(S, b) \in Nat /\ Cardinality(S) \in Nat /\ Before(S, b) < Cardinality(S)
           /\ Cardinality({d \in S : ~(d.id < b.id)}) = Cardinality(S) - Before(S, b)
           /\ (\A d \in S : d = b \/ d.id < b.id) => Before(S, b) = Cardinality(S) - 1
<1> DEFINE T == {d \in S : d.id < b.id}
<1> DEFINE R == {d \in S : ~(d.id < b.id)}
<1>1. IsFiniteSet(S) /\ Cardinality(S) \in Nat /\ b.id \in Nat
  BY FS_CardinalityType DEF Numbered, Broadcast
<1>2. /\ S \cap T = T /\ S \ T = R /\ b \notin T
      /\ T \subseteq S
  BY <1>1
<1>3. /\ IsFiniteSet(T) /\ Cardinality(T) \in Nat /\ Cardinality(T) <= Cardinality(S)
      /\ Cardinality(T) = Cardinality(S) => S = T
  <2> HIDE DEF T
  <2> QED BY <1>1, <1>2, FS_Subset, FS_CardinalityType
<1>4. Cardinality(R) = Cardinality(S) - Cardinality(T)
  <2> HIDE DEF T, R
  <2> QED BY <1>1, <1>2, FS_Difference
<1>5. Cardinality(T) < Cardinality(S)
  BY <1>1, <1>2, <1>3
<1>6. ASSUME \A d \in S : d = b \/ d.id < b.id
      PROVE  Cardinality(T) = Cardinality(S) - 1
  <2>1. T = S \ {b}
    BY <1>2, <1>6
  <2> HIDE DEF T
  <2> QED BY <1>1, <2>1, FS_RemoveElement
<1> QED BY <1>1, <1>3, <1>4, <1>5, <1>6 DEF Before

\* Some broadcast of any was sent first.
LEMMA FirstSent ==
    ASSUME NEW S, S \subseteq Broadcast, S # {}
    PROVE  \E b \in S : \A d \in S : ~(d.id < b.id)
<1> DEFINE I == {b.id : b \in S}
<1>1. I \in SUBSET Nat /\ I # {} /\ \A b \in S : b.id \in Nat
  BY DEF Broadcast
<1>2. \E i \in I : \A j \in I : i <= j
  <2> HIDE DEF I
  <2> QED BY <1>1, LeastOf
<1>3. PICK b \in S : \A j \in I : b.id <= j
  BY <1>2
<1>4. \A d \in S : b.id <= d.id
  BY <1>3
<1> QED BY <1>1, <1>4

\* The oldest of a list are as many as asked for, or all there are.
LEMMA OldestCount ==
    ASSUME NEW S, Numbered(S), NEW n \in Nat
    PROVE  /\ Oldest(S, n) \subseteq S /\ IsFiniteSet(Oldest(S, n))
           /\ Cardinality(Oldest(S, n)) \in Nat
           /\ n <= Cardinality(S) => n <= Cardinality(Oldest(S, n))
           /\ Cardinality(S) <= n => Oldest(S, n) = S
<1> DEFINE F == Oldest(S, n)
<1>1. F \subseteq S /\ IsFiniteSet(S) /\ Cardinality(S) \in Nat
  BY FS_CardinalityType DEF Oldest, Numbered
<1>2. IsFiniteSet(F) /\ Cardinality(F) \in Nat
  <2> HIDE DEF F
  <2> QED BY <1>1, FS_Subset, FS_CardinalityType
<1>3. ASSUME n <= Cardinality(S)
      PROVE  n <= Cardinality(F)
  <2>1. CASE S \ F = {}
    <3>1. S = F
      BY <1>1, <2>1
    <3> HIDE DEF F
    <3> QED BY <1>3, <3>1
  <2>2. CASE S \ F # {}
    <3>1. PICK b \in S \ F : \A d \in S \ F : ~(d.id < b.id)
      <4>1. S \ F \subseteq Broadcast
        BY DEF Numbered
      <4> HIDE DEF F
      <4> QED BY <2>2, <4>1, FirstSent
    <3> DEFINE T == {d \in S : d.id < b.id}
    <3>2. T \subseteq F
      BY <3>1
    <3>3. ~(Before(S, b) < n) /\ Before(S, b) \in Nat
      BY <3>1, BeforeCounts DEF Oldest
    <3>4. Cardinality(T) <= Cardinality(F)
      <4> HIDE DEF T, F
      <4> QED BY <1>2, <3>2, FS_Subset
    <3>5. Cardinality(T) = Before(S, b)
      BY DEF Before
    <3> HIDE DEF T, F
    <3> QED BY <1>2, <3>3, <3>4, <3>5
  <2> QED BY <2>1, <2>2
<1>4. ASSUME Cardinality(S) <= n
      PROVE  F = S
  <2>1. \A b \in S : Before(S, b) < n
    <3>1. ASSUME NEW b \in S
          PROVE  Before(S, b) < n
      <4>1. Before(S, b) \in Nat /\ Before(S, b) < Cardinality(S)
        BY BeforeCounts
      <4> HIDE DEF F
      <4> QED BY <1>1, <1>4, <4>1
    <3> QED BY <3>1
  <2> QED BY <2>1 DEF Oldest
<1> QED BY <1>1, <1>2, <1>3, <1>4

\* Of a sender's broadcasts, those not sent before all but a share are a share.
LEMMA NewestCount ==
    ASSUME NEW T, Numbered(T), NEW k \in Nat,
           NEW U, U \subseteq {b \in T : ~(Before(T, b) < Cardinality(T) - k)}
    PROVE  Cardinality(U) <= k
<1>1. IsFiniteSet(T) /\ Cardinality(T) \in Nat /\ U \subseteq T /\ U \subseteq Broadcast
  BY FS_CardinalityType DEF Numbered
<1>2. CASE U = {}
  BY <1>2, FS_EmptySet
<1>3. CASE U # {}
  <2>1. PICK b \in U : \A d \in U : ~(d.id < b.id)
    BY <1>1, <1>3, FirstSent
  <2> DEFINE R == {d \in T : ~(d.id < b.id)}
  <2>2. U \subseteq R /\ R \subseteq T /\ b \in T
    BY <1>1, <2>1
  <2>3. /\ Cardinality(R) = Cardinality(T) - Before(T, b) /\ Before(T, b) \in Nat
        /\ ~(Before(T, b) < Cardinality(T) - k)
    BY <2>1, <2>2, BeforeCounts
  <2> HIDE DEF R
  <2>4. IsFiniteSet(R) /\ Cardinality(R) \in Nat
    BY <1>1, <2>2, FS_Subset, FS_CardinalityType
  <2>5. Cardinality(U) <= Cardinality(R) /\ Cardinality(U) \in Nat
    BY <2>2, <2>4, FS_Subset, FS_CardinalityType
  <2> QED BY <1>1, <2>3, <2>4, <2>5
<1> QED BY <1>2, <1>3

\* Some of a list are a list.
LEMMA SomeNumbered ==
    ASSUME NEW S, Numbered(S), NEW T, T \subseteq S
    PROVE  Numbered(T)
  BY FS_Subset DEF Numbered

\* trim_broadcasts' count of what does not fit.
LEMMA ExcessIs ==
    ASSUME NEW n \in Int
    PROVE  Max({n, 0}) = IF n > 0 THEN n ELSE 0
<1> DEFINE m == IF n > 0 THEN n ELSE 0
<1>1. m \in {n, 0} /\ m >= n /\ m >= 0 /\ \A x \in {n, 0} : x >= n /\ x >= 0 => x = m
  OBVIOUS
<1>2. Max({n, 0}) \in {n, 0} /\ \A y \in {n, 0} : Max({n, 0}) >= y
  BY <1>1 DEF Max
<1> QED BY <1>1, <1>2

\* The broadcasts of those who hold more than a share, each without its last share.
OverShare(S) == {b \in S : Before(From(S, b.from), b) < Held(S, b.from) - share(setup.kept)}

\* A share is at least one broadcast.
LEMMA ShareIs ==
    ASSUME StreamTypes
    PROVE  share(setup.kept) \in Nat /\ 1 <= share(setup.kept) /\ setup.kept \in Nat /\ 1 <= setup.kept
<1>1. setup.kept \in Nat /\ 1 <= setup.kept
  BY BroadcastsAssumption DEF StreamTypes
<1>2. setup.kept \div 4 \in Int
  BY <1>1
<1> QED BY <1>1, <1>2 DEF share

\* trim_broadcasts pushes out of a list too long for one: not what was sent
\* last, and, of those who hold no more than a share, nothing until nobody
\* holds more.
LEMMA SurplusPushesOut ==
    ASSUME StreamTypes, NEW S, Numbered(S), NEW e \in Nat, e = 0 \/ e <= Cardinality(S) - setup.kept,
           NEW n \in S, \A d \in S : d = n \/ d.id < n.id
    PROVE  LET out == Surplus(S, e)
               left == {b \in S : b.id \notin out}
           IN  /\ n \in left
               /\ \/ \A a \in Agent : Held(S, a) <= share(setup.kept) => From(S, a) \subseteq left
                  \/ \A a \in Agent : Held(left, a) <= share(setup.kept)
<1> DEFINE over == OverShare(S)
<1> DEFINE first == Oldest(over, e)
<1> DEFINE more == e - Cardinality(first)
<1> DEFINE rest == Oldest(S \ first, more)
<1> DEFINE out == Surplus(S, e)
<1> DEFINE left == {b \in S : b.id \notin out}
<1> DEFINE k == share(setup.kept)
<1>1. k \in Nat /\ 1 <= k /\ setup.kept \in Nat /\ 1 <= setup.kept
  BY ShareIs
<1>2. out = {b.id : b \in first \cup rest}
  BY DEF Surplus, OverShare
<1>3. over \subseteq S /\ Numbered(over)
  BY SomeNumbered DEF OverShare
<1>4. /\ first \subseteq over /\ IsFiniteSet(first) /\ Cardinality(first) \in Nat
      /\ e <= Cardinality(over) => e <= Cardinality(first)
      /\ Cardinality(over) <= e => first = over
  <2> HIDE DEF over
  <2> QED BY <1>3, OldestCount
<1>5. more \in Int /\ Numbered(S \ first) /\ rest \subseteq S
  <2>1. more \in Int
    BY <1>4
  <2>2. S \ first \subseteq S
    OBVIOUS
  <2> HIDE DEF first, more
  <2> QED BY <2>1, <2>2, SomeNumbered DEF Oldest
<1>6. left = S \ (first \cup rest)
  <2>1. \A b \in S : \A d \in first \cup rest : b.id = d.id => b = d
    BY <1>3, <1>4, <1>5 DEF Numbered
  <2> HIDE DEF first, rest, out
  <2> QED BY <1>2, <2>1
<1>7. \A a : Numbered(From(S, a)) /\ Cardinality(From(S, a)) \in Nat
  <2>1. \A a : From(S, a) \subseteq S
    BY DEF From
  <2>2. \A a : Numbered(From(S, a))
    BY <2>1, SomeNumbered
  <2> QED BY <2>2, FS_CardinalityType DEF Numbered
<1>8. n \notin over
  <2> DEFINE T == From(S, n.from)
  <2>1. n \in T /\ \A d \in T : d = n \/ d.id < n.id
    BY DEF From
  <2>2. Before(T, n) = Cardinality(T) - 1
    <3> HIDE DEF T
    <3>1. Numbered(T)
      BY <1>7 DEF T
    <3> QED BY <2>1, <3>1, BeforeCounts
  <2>3. Cardinality(T) \in Nat
    BY <1>7
  <2>4. ~(Before(T, n) < Cardinality(T) - k)
    <3> HIDE DEF T, k
    <3> QED BY <1>1, <2>2, <2>3
  <2> QED BY <2>4 DEF OverShare, Held
<1>9. n \notin rest
  <2> DEFINE T == S \ first
  <2>1. n \in T /\ \A d \in T : d = n \/ d.id < n.id
    BY <1>4, <1>8
  <2>2. Numbered(T)
    BY <1>5
  <2>3. Cardinality(T) = Cardinality(S) - Cardinality(first)
    <3>1. IsFiniteSet(S) /\ S \cap first = first
      BY <1>3, <1>4 DEF Numbered
    <3> HIDE DEF first
    <3> QED BY <3>1, FS_Difference
  <2>4. Cardinality(S) \in Nat /\ Cardinality(T) \in Nat
    BY <2>2, FS_CardinalityType DEF Numbered
  <2> HIDE DEF T, first, over
  <2>5. Before(T, n) = Cardinality(T) - 1 /\ 0 < Cardinality(T)
    <3>1. Before(T, n) \in Nat /\ Before(T, n) < Cardinality(T)
      BY <2>1, <2>2, BeforeCounts
    <3>2. Before(T, n) = Cardinality(T) - 1
      BY <2>1, <2>2, BeforeCounts
    <3> QED BY <2>4, <3>1, <3>2
  <2>6. ~(Before(T, n) < more)
    BY <1>1, <1>4, <2>3, <2>4, <2>5
  <2> QED BY <2>6 DEF T, Oldest
<1>10. n \in left
  BY <1>4, <1>6, <1>8, <1>9
<1>11. CASE e <= Cardinality(over)
  <2>1. rest = {}
    <3>1. more <= 0
      BY <1>4, <1>11
    <3>2. \A b \in S \ first : Before(S \ first, b) \in Nat
      <4> HIDE DEF first
      <4> QED BY <1>5, BeforeCounts
    <3> HIDE DEF first, more
    <3> QED BY <1>5, <3>1, <3>2 DEF Oldest
  <2>2. ASSUME NEW a \in Agent, Held(S, a) <= k, NEW b \in From(S, a)
        PROVE  b \in left
    <3>1. b \in S /\ b.from = a
      BY DEF From
    <3>2. Before(From(S, a), b) \in Nat
      BY <1>7, BeforeCounts
    <3>3. ~(Before(From(S, a), b) < Held(S, a) - k)
      <4>1. Held(S, a) \in Nat
        BY <1>7 DEF Held
      <4> HIDE DEF k
      <4> QED BY <1>1, <2>2, <3>2, <4>1
    <3>4. b \notin over
      BY <3>1, <3>3 DEF OverShare
    <3> HIDE DEF over
    <3> QED BY <1>4, <1>6, <2>1, <3>1, <3>4
  <2> QED BY <1>10, <2>2
<1>12. CASE ~(e <= Cardinality(over))
  <2>1. first = over
    <3>1. Cardinality(over) \in Nat
      BY <1>3, FS_CardinalityType DEF Numbered
    <3> HIDE DEF over
    <3> QED BY <1>4, <1>12, <3>1
  <2>2. ASSUME NEW a \in Agent
        PROVE  Held(left, a) <= k
    <3> DEFINE T == From(S, a)
    <3> DEFINE U == From(left, a)
    <3>1. U \subseteq {b \in T : ~(Before(T, b) < Cardinality(T) - k)}
      <4>1. ASSUME NEW b \in U
            PROVE  b \in T /\ ~(Before(T, b) < Cardinality(T) - k)
        <5>1. b \in S /\ b.from = a /\ b \notin over
          BY <1>6, <2>1 DEF From
        <5> QED BY <5>1 DEF OverShare, From, Held
      <4> QED BY <4>1
    <3>2. Numbered(T)
      BY <1>7
    <3> HIDE DEF T, U, k
    <3>3. Cardinality(U) <= k
      BY <1>1, <3>1, <3>2, NewestCount
    <3> QED BY <3>3 DEF U, Held
  <2> QED BY <1>10, <2>2
<1> QED BY <1>11, <1>12

\* A broadcast that is sent is the last of the list, and pushes out what
\* trim_broadcasts finds in excess.
LEMMA SendingKeepsShares ==
    ASSUME BroadcastsInv, BroadcastsInv', NEW a \in Agent, NEW key \in Key \cup {NoKey}, SendsOne(a, key),
           store'.last_id > store.last_id
    PROVE  LET sender == (CHOOSE b \in store'.sent : b.id = store'.last_id).from
           IN  /\ store'.last_id \in Ids(store')
               /\ \/ \A n \in Agent \ {sender} : Held(store.sent, n) <= share(setup.kept) =>
                        From(store.sent, n) \subseteq store'.sent
                  \/ \A n \in Agent : Held(store'.sent, n) <= share(setup.kept)
<1>1. /\ store \in StoreType /\ Listed(store) /\ StreamTypes /\ Listed(store')
      /\ StoreInv(store, passed) /\ passed \in [Agent -> SUBSET Nat]
  BY WorldParts, NowHolds DEF BroadcastsInv, WorldInv, StoreInv
<1>2. PICK m \in StoreType :
         /\ m.sent = store.sent /\ m.last_id = store.last_id /\ Sent(m, a, key) \in StoreType
         /\ store'.last_id # store.last_id => store' \in {Sent(m, a, key), Trimmed(Sent(m, a, key))}
  BY DEF SendsOne
<1> DEFINE new == [id |-> store.last_id + 1, from |-> a, key |-> key]
<1> DEFINE s == Sent(m, a, key)
<1>3. store.last_id \in Nat /\ store.sent \subseteq Broadcast
  BY <1>1, StoreParts
<1>4. store' = s \/ store' = Trimmed(s)
  BY <1>2, <1>3
<1>5. /\ s.sent = store.sent \cup {new} /\ s.last_id = store.last_id + 1
      /\ new \in s.sent /\ new.id = store.last_id + 1 /\ new.from = a /\ new \in Broadcast
  <2>1. m = [agents |-> m.agents, sent |-> m.sent, keys |-> m.keys, last_id |-> m.last_id]
    BY StoreParts
  <2>2. new.id = store.last_id + 1 /\ new.from = a /\ new \in Broadcast
    BY <1>3 DEF Broadcast
  <2>3. s.sent = store.sent \cup {new} /\ s.last_id = store.last_id + 1
    BY <1>2, <2>1 DEF Sent
  <2> QED BY <2>2, <2>3
<1> HIDE DEF s, new
<1>6. \A d \in store.sent : d.id \in Nat /\ d.id < new.id
  BY <1>1, <1>3, <1>5 DEF Listed, Broadcast
<1>7. Numbered(s.sent) /\ \A d \in s.sent : d = new \/ d.id < new.id
  <2>1. \A b, d \in s.sent : b.id = d.id => b = d
    BY <1>1, <1>5, <1>6 DEF Listed
  <2>2. IsFiniteSet(s.sent)
    BY <1>1, <1>5, FS_AddElement DEF Listed
  <2> QED BY <1>3, <1>5, <1>6, <2>1, <2>2 DEF Numbered
<1> DEFINE e == Excess(s)
<1> DEFINE left == {b \in s.sent : b.id \notin Surplus(s.sent, e)}
<1>8. /\ new \in left
      /\ \/ \A n \in Agent : Held(s.sent, n) <= share(setup.kept) => From(s.sent, n) \subseteq left
         \/ \A n \in Agent : Held(left, n) <= share(setup.kept)
  <2>1. Cardinality(s.sent) \in Nat /\ setup.kept \in Nat
    BY <1>1, <1>7, ShareIs, FS_CardinalityType DEF Numbered
  <2>2. e \in Nat /\ (e = 0 \/ e <= Cardinality(s.sent) - setup.kept)
    BY <2>1, ExcessIs DEF Excess
  <2> HIDE DEF e
  <2> QED BY <1>1, <1>5, <1>7, <2>2, SurplusPushesOut
<1>9. Trimmed(s).sent = left /\ Trimmed(s).last_id = s.last_id
  <2>1. s \in StoreType
    BY <1>2 DEF s
  <2>2. s = [agents |-> s.agents, sent |-> s.sent, keys |-> s.keys, last_id |-> s.last_id]
    BY <2>1, StoreParts
  <2> QED BY <2>2 DEF Trimmed, Without
<1>10. new \in store'.sent /\ store'.last_id = new.id
  BY <1>4, <1>5, <1>8, <1>9
<1>11. (CHOOSE b \in store'.sent : b.id = store'.last_id).from = a
  <2>1. \A b \in store'.sent : b.id = store'.last_id => b = new
    BY <1>1, <1>10 DEF Listed
  <2> QED BY <1>5, <1>10, <2>1
<1>12. store'.last_id \in Ids(store')
  BY <1>10 DEF Ids
<1>13. \A n \in Agent \ {a} : From(s.sent, n) = From(store.sent, n)
  BY <1>5 DEF From
<1>14. CASE store' = s
  BY <1>5, <1>11, <1>12, <1>14 DEF From
<1>15. CASE store' = Trimmed(s)
  <2>1. CASE \A n \in Agent : Held(s.sent, n) <= share(setup.kept) => From(s.sent, n) \subseteq left
    <3>1. \A n \in Agent \ {a} : Held(store.sent, n) <= share(setup.kept) =>
             From(store.sent, n) \subseteq store'.sent
      BY <1>9, <1>13, <1>15, <2>1 DEF Held
    <3> QED BY <1>11, <1>12, <3>1
  <2>2. CASE \A n \in Agent : Held(left, n) <= share(setup.kept)
    BY <1>9, <1>12, <1>15, <2>2
  <2> QED BY <1>8, <2>1, <2>2
<1> QED BY <1>4, <1>14, <1>15

\* trim_broadcasts, Core::broadcast: one sender's flood pushes out its own
\* broadcasts, and of the others only what they hold above a share, as long
\* as anyone holds more; what was just sent stays.
THEOREM FloodIsItsOwn == Spec => FloodPushesOutItself
<1> DEFINE A == store'.last_id > store.last_id =>
                LET sender == (CHOOSE b \in store'.sent : b.id = store'.last_id).from
                IN  /\ store'.last_id \in Ids(store')
                    /\ \/ \A a \in Agent \ {sender} : Held(store.sent, a) <= share(setup.kept) =>
                             From(store.sent, a) \subseteq store'.sent
                       \/ \A a \in Agent : Held(store'.sent, a) <= share(setup.kept)
<1>1. BroadcastsInv /\ BroadcastsInv' /\ [Next]_vars => [A]_vars
  <2>1. SUFFICES ASSUME BroadcastsInv, BroadcastsInv', [Next]_vars, store'.last_id > store.last_id
                 PROVE  A
    OBVIOUS
  <2>2. store.last_id \in Nat
    BY <2>1, NowHolds, WorldParts, StoreParts DEF WorldInv
  <2>3. PICK a \in Agent, key \in setup.keys \cup {NoKey} : SendsOne(a, key)
    BY <2>1, <2>2, NextKeeps
  <2>4. key \in Key \cup {NoKey}
    BY <2>1, BroadcastsAssumption DEF BroadcastsInv, Types, StreamTypes
  <2> QED BY <2>1, <2>3, <2>4, SendingKeepsShares
<1> QED BY <1>1, BroadcastsHold, PTL DEF Spec, FloodPushesOutItself
=============================================================================
