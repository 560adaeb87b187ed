----------------------------- MODULE RoomsProofs -----------------------------
(***************************************************************************)
(* What holds of Rooms for every number of agents, rooms, posts and limits. *)
(*                                                                         *)
(* A store is Sound when each room is as its posts and its members say,    *)
(* and Fair when moreover agents are who they were: none has taken a name  *)
(* that was in use.  A request makes a row of stores.  Grown(s0, K) and    *)
(* Ends(s0) are the stores such rows are made of, by how they stand to the *)
(* store s0 the request found, so whichever commit the journal refuses,    *)
(* what is left is one of them; Goes is what every step comes to, and      *)
(* Turns what one that merges two agents does.                             *)
(***************************************************************************)
EXTENDS Rooms, Facts

-----------------------------------------------------------------------------
(***************************************************************************)
(* Maps, rows of stores, and some of a set.                                *)
(***************************************************************************)
PutsIn(S, T, f, x, v) == /\ Put(f, x, v) \in Maps(S, T)
                         /\ DOMAIN Put(f, x, v) = DOMAIN f \cup {x}
                         /\ Put(f, x, v)[x] = v
                         /\ \A y \in DOMAIN f : y # x => Put(f, x, v)[y] = f[y]

\* An entry put in.
LEMMA PutIs ==
    ASSUME NEW S, NEW T, NEW f \in Maps(S, T), NEW x \in S, NEW v \in T
    PROVE  PutsIn(S, T, f, x, v)
<1>1. DOMAIN f \subseteq S /\ f \in [DOMAIN f -> T]
  BY MapsFact
<1>2. /\ DOMAIN Put(f, x, v) = DOMAIN f \cup {x} /\ Put(f, x, v)[x] = v
      /\ \A y \in DOMAIN f : y # x => Put(f, x, v)[y] = f[y]
      /\ Put(f, x, v) \in [DOMAIN f \cup {x} -> T]
  BY <1>1 DEF Put
<1>3. Put(f, x, v) \in Maps(S, T)
  BY <1>1, <1>2, MapsFact
<1> QED BY <1>2, <1>3 DEF PutsIn

LeavesIn(S, T, f, D) == /\ Without(f, D) \in Maps(S, T)
                        /\ DOMAIN Without(f, D) = DOMAIN f \ D
                        /\ \A y \in DOMAIN f \ D : Without(f, D)[y] = f[y]

\* Entries left out.
LEMMA WithoutIs ==
    ASSUME NEW S, NEW T, NEW f \in Maps(S, T), NEW D
    PROVE  LeavesIn(S, T, f, D)
<1>1. DOMAIN f \subseteq S /\ f \in [DOMAIN f -> T]
  BY MapsFact
<1>2. /\ DOMAIN Without(f, D) = DOMAIN f \ D
      /\ \A y \in DOMAIN f \ D : Without(f, D)[y] = f[y]
      /\ Without(f, D) \in [DOMAIN f \ D -> T]
  BY <1>1 DEF Without
<1>3. Without(f, D) \in Maps(S, T)
  BY <1>1, <1>2, MapsFact
<1> QED BY <1>2, <1>3 DEF LeavesIn

\* What a map has under each of its keys.
LEMMA MapHas ==
    ASSUME NEW S, NEW T, NEW f \in Maps(S, T)
    PROVE  DOMAIN f \subseteq S /\ \A x \in DOMAIN f : f[x] \in T
  BY MapsFact

\* A function from some of S to T is a map.
LEMMA MapMade ==
    ASSUME NEW S, NEW T, NEW D \in SUBSET S, NEW f \in [D -> T]
    PROVE  f \in Maps(S, T)
  BY MapsFact

\* Nothing is a map.
LEMMA NothingIs == \A S, T : Nothing \in Maps(S, T) /\ DOMAIN Nothing = {}
<1>1. ASSUME NEW S, NEW T PROVE Nothing \in Maps(S, T)
  <2>1. Nothing \in [{} -> T]
    BY DEF Nothing
  <2> QED BY <2>1, MapsFact
<1> QED BY <1>1 DEF Nothing

Rows(W) == Seq(W) \ {<<>>}

\* A row has a last store, and others of the same kind.
LEMMA RowIs ==
    ASSUME NEW W, NEW r \in Rows(W)
    PROVE  Last(r) \in W /\ Len(r) \in Nat /\ Len(r) >= 1 /\ \A i \in 1 .. Len(r) : r[i] \in W
<1>1. r \in Seq(W) /\ r # <<>> /\ Len(r) \in Nat
  BY DEF Rows
<1>2. Len(r) >= 1
  BY <1>1
<1> QED BY <1>1, <1>2 DEF Last

\* One more commit makes a longer row.
LEMMA RowMore ==
    ASSUME NEW W, NEW r \in Rows(W), NEW s \in W
    PROVE  Append(r, s) \in Rows(W) /\ Last(Append(r, s)) = s
<1>1. r \in Seq(W) /\ Len(r) \in Nat
  BY DEF Rows
<1>2. Append(r, s) \in Seq(W) /\ Len(Append(r, s)) = Len(r) + 1 /\ Append(r, s)[Len(r) + 1] = s
  BY <1>1
<1>3. Append(r, s) # <<>>
  BY <1>1, <1>2
<1> QED BY <1>2, <1>3 DEF Rows, Last

\* Before the first commit there is the store.
LEMMA RowOne == ASSUME NEW W, NEW s \in W PROVE <<s>> \in Rows(W) /\ Last(<<s>>) = s
  BY DEF Rows, Last

\* Rows of some stores are rows of more.
LEMMA RowsAmong == ASSUME NEW V, NEW W, V \subseteq W, NEW r \in Rows(V) PROVE r \in Rows(W)
<1>1. r \in Seq(V) /\ r # <<>>
  BY DEF Rows
<1>2. r \in Seq(W)
  BY <1>1
<1> QED BY <1>1, <1>2 DEF Rows

\* Several commits more make a longer row.
LEMMA RowWith ==
    ASSUME NEW W, NEW r \in Rows(W), NEW c \in Nat, NEW g \in [1 .. c -> W]
    PROVE  /\ r \o g \in Rows(W)
           /\ Last(r \o g) = IF c = 0 THEN Last(r) ELSE g[c]
<1>1. r \in Seq(W) /\ Len(r) \in Nat /\ Len(r) >= 1
  BY RowIs DEF Rows
<1>2. g \in Seq(W) /\ Len(g) = c
  BY SeqDef
<1>3. r \o g \in Seq(W) /\ Len(r \o g) = Len(r) + c
  BY <1>1, <1>2
<1>4. r \o g # <<>>
  BY <1>1, <1>3
<1>5. (r \o g)[Len(r) + c] = IF c = 0 THEN r[Len(r)] ELSE g[c]
  BY <1>1, <1>2
<1> QED BY <1>3, <1>4, <1>5 DEF Rows, Last

\* More and more of a finite set, and in the end all of it.
LEMMA SomeIs ==
    ASSUME NEW S, IsFiniteSet(S)
    PROVE  /\ Cardinality(S) \in Nat
           /\ Cardinality(S) = 0 => S = {}
           /\ \A n \in 1 .. Cardinality(S) : Some(S, n) \subseteq S
           /\ Some(S, Cardinality(S)) = S
<1> DEFINE n == Cardinality(S)
           seq == SetToSeq(S)
<1>1. n \in Nat /\ ExistsBijection(1 .. n, S)
  BY FS_CardinalityType
<1>2. PICK g \in Bijection(1 .. n, S) : TRUE
  BY <1>1 DEF ExistsBijection
<1>3. g \in [1 .. n -> S] /\ IsInjective(g)
  BY <1>2 DEF Bijection, Injection, IsInjective
<1>4. seq \in [1 .. n -> S] /\ IsInjective(seq)
  BY <1>3 DEF SetToSeq
<1> HIDE DEF seq
<1>5. {seq[i] : i \in 1 .. n} = S
  <2> DEFINE T == {seq[i] : i \in 1 .. n}
  <2>1. T \in SUBSET S
    BY <1>4
  <2>2. seq \in Bijection(1 .. n, T)
    BY <1>4 DEF Bijection, Injection, Surjection, IsInjective
  <2>3. IsFiniteSet(T) /\ Cardinality(T) = n
    <3>1. ExistsBijection(1 .. n, T)
      BY <2>2 DEF ExistsBijection
    <3>2. IsFiniteSet(T)
      BY <2>1, FS_Subset
    <3> HIDE DEF T, n
    <3> QED BY <1>1, <3>1, <3>2, FS_CountingElements
  <2> HIDE DEF T
  <2>4. Cardinality(S) = Cardinality(T) => S = T
    BY <2>1, FS_Subset
  <2>5. T = S
    BY <2>3, <2>4
  <2> QED BY <2>5 DEF T
<1>6. n = 0 => S = {}
  BY FS_EmptySet
<1>7. \A k : Some(S, k) = {seq[i] : i \in 1 .. k}
  BY DEF Some, seq
<1>8. \A k \in 1 .. n : Some(S, k) \subseteq S
  <2> SUFFICES ASSUME NEW k \in 1 .. n, NEW i \in 1 .. k PROVE seq[i] \in S
    BY <1>7
  <2>1. i \in 1 .. n
    BY <1>1
  <2> QED BY <1>4, <2>1
<1>9. Some(S, n) = S
  BY <1>5, <1>7
<1> QED BY <1>1, <1>6, <1>8, <1>9

\* The first of some numbers, and in the end all of them.
LEMMA FirstIs ==
    ASSUME NEW S \in SUBSET Nat, IsFiniteSet(S)
    PROVE  /\ Cardinality(S) \in Nat
           /\ Cardinality(S) = 0 => S = {}
           /\ \A n : First(S, n) \subseteq S
           /\ First(S, Cardinality(S)) = S
<1>1. Cardinality(S) \in Nat /\ (Cardinality(S) = 0 => S = {})
  BY FS_CardinalityType, FS_EmptySet
<1>2. \A n : First(S, n) \subseteq S
  BY DEF First
<1>3. ASSUME NEW x \in S PROVE Cardinality({y \in S : y < x}) < Cardinality(S)
  <2> DEFINE B == {y \in S : y < x}
  <2>1. B \in SUBSET S /\ B # S
    OBVIOUS
  <2> HIDE DEF B
  <2>2. IsFiniteSet(B) /\ Cardinality(B) \in Nat /\ Cardinality(B) <= Cardinality(S)
           /\ (Cardinality(B) = Cardinality(S) => B = S)
    BY <2>1, FS_Subset, FS_CardinalityType
  <2>3. Cardinality(B) < Cardinality(S)
    BY <1>1, <2>1, <2>2
  <2> QED BY <2>3 DEF B
<1> QED BY <1>1, <1>2, <1>3 DEF First
-----------------------------------------------------------------------------
(***************************************************************************)
(* What holds of every store, and what of each that a request may make.    *)
(***************************************************************************)
Kind == {"note", "question", "answer", "event"}
MemberType == [role : {"owner", "member"}, cursor : Nat]
EntryType == [value : Value, version : Nat \ {0}]
AskType == [to : SUBSET Agent, expires : Nat, status : Status]
PostType == [kind : Kind, ask : AskType \cup {None}, key : Key \cup {None}, from : Agent,
             reply_to : Nat \cup {None}]
RoomType == [members : Maps(Agent, MemberType), private : BOOLEAN, created_by : Agent,
             closed : Nat \cup {None}, board : Maps(Entry, EntryType),
             posts : Maps(Nat, PostType), open : SUBSET Nat]
PostKey == Name \X Agent \X Key
StoreType == [last_id : Nat, agents : SUBSET Agent, rooms : Maps(Name, RoomType),
              post_keys : Maps(PostKey, Nat)]

\* A post as its kind has it, under an id given so far.
PostSound(p, n) ==
    /\ p.reply_to # None => p.reply_to \in 1 .. n
    /\ p.kind = "question" <=> p.ask # None
    /\ p.kind = "event" => p.key = None

\* A room where the ids up to n are given, and the agents there are A.
RoomSound(room, n, A) ==
    /\ DOMAIN room.posts \subseteq 1 .. n
    /\ \A id \in DOMAIN room.posts : PostSound(room.posts[id], n)
    /\ \A a \in DOMAIN room.members : room.members[a].cursor <= n
    /\ DOMAIN room.members \subseteq A
    /\ room.open = OpenQuestions(room.posts)
    /\ ~is_open(room) => room.open = {}

Sound(s) ==
    /\ s \in StoreType
    /\ Cardinality(s.agents) <= MaxAgents
    /\ IsFiniteSet(DOMAIN s.rooms) /\ Cardinality(DOMAIN s.rooms) <= MaxRooms
    /\ \A r \in DOMAIN s.rooms : RoomSound(s.rooms[r], s.last_id, s.agents)

\* The questions of a room that an agent has open.
OpenOf(room, a) == {q \in room.open : room.posts[q].from = a}

\* As long as agents keep to names nobody had before, and the operator to its own.
RoomFair(room) ==
    /\ \A q \in room.open :
          /\ \A id \in Answers(room, q) : room.posts[id].from # room.posts[q].from
          /\ \A i, j \in Answers(room, q) : i # j => room.posts[i].from # room.posts[j].from
    /\ Cardinality(room.open) <= MaxOpenQuestions
    /\ \A a \in Agent \ Operators : Cardinality(OpenOf(room, a)) <= share(MaxOpenQuestions)

KeyOf(r, p) == <<r, p.from, p.key>>

\* The keys are those of the posts, each of one post.
KeysRight(s) ==
    /\ \A r \in DOMAIN s.rooms : \A id \in DOMAIN s.rooms[r].posts :
          LET p == s.rooms[r].posts[id]
          IN  p.key # None => /\ KeyOf(r, p) \in DOMAIN s.post_keys
                              /\ s.post_keys[KeyOf(r, p)] = id
    /\ \A x \in DOMAIN s.post_keys :
          \E r \in DOMAIN s.rooms : \E id \in DOMAIN s.rooms[r].posts :
             s.rooms[r].posts[id].key # None /\ x = KeyOf(r, s.rooms[r].posts[id])

Fair(s) == KeysRight(s) /\ \A r \in DOMAIN s.rooms : RoomFair(s.rooms[r])

\* An open question waits for somebody.
AwaitedIn(room, q) ==
    LET to == room.posts[q].ask.to
    IN  /\ to # {} => waiting_on(room, q) # {}
        /\ to = {} => Answers(room, q) = {}
Awaited(s) == \A r \in DOMAIN s.rooms : \A q \in s.rooms[r].open : AwaitedIn(s.rooms[r], q)

\* Entries of a board are as they were, at a later version, or gone.
BoardRises(b, c) == \A k \in DOMAIN b \cap DOMAIN c : c[k] = b[k] \/ c[k].version > b[k].version

\* The room q is p with posts added, each of a kind and in reply to what K has,
\* and some trimmed that need not be kept.
RoomGrew(r, p, q, n, K) ==
    /\ \A id \in DOMAIN q.posts : /\ id <= n => id \in DOMAIN p.posts /\ q.posts[id] = p.posts[id]
                                  /\ id > n => <<r, q.posts[id].kind, q.posts[id].reply_to>> \in K
    /\ \A id \in DOMAIN p.posts : keeps(p, p.posts[id]) => id \in DOMAIN q.posts
    /\ BoardRises(p.board, q.board)

\* A new room has no other posts.
NewIn(r, q, K) == \A id \in DOMAIN q.posts : <<r, q.posts[id].kind, q.posts[id].reply_to>> \in K

\* Every room is so.
Grew(s, t, K) ==
    /\ s.last_id <= t.last_id
    /\ \A r \in DOMAIN s.rooms \cap DOMAIN t.rooms :
          RoomGrew(r, s.rooms[r], t.rooms[r], s.last_id, K)
    /\ \A r \in DOMAIN t.rooms \ DOMAIN s.rooms : NewIn(r, t.rooms[r], K)

\* What no step does otherwise to a room p than to make it q.
RoomKept(p, q) ==
    /\ \A x \in p.open : /\ x \in DOMAIN q.posts
                         /\ x \in q.open => Answers(p, x) \subseteq Answers(q, x)
    /\ \A x \in DOMAIN p.posts \cap DOMAIN q.posts :
          LET before == p.posts[x].ask
              after == q.posts[x].ask
          IN  before # None /\ after.status # before.status =>
                 /\ before.status = "open"
                 /\ after.status = "resolved" =>
                       Answers(q, x) # {} /\ after.to \subseteq answered(q, x)
    /\ BoardRises(p.board, q.board)

Kept(s, t) == \A r \in DOMAIN s.rooms \cap DOMAIN t.rooms : RoomKept(s.rooms[r], t.rooms[r])
-----------------------------------------------------------------------------
(***************************************************************************)
(* A room changed in place.                                                *)
(***************************************************************************)
\* What a store has.
LEMMA StoreHas ==
    ASSUME NEW s \in StoreType
    PROVE  /\ s = [last_id |-> s.last_id, agents |-> s.agents, rooms |-> s.rooms,
                   post_keys |-> s.post_keys]
           /\ s.last_id \in Nat /\ s.agents \in SUBSET Agent
           /\ s.rooms \in Maps(Name, RoomType) /\ s.post_keys \in Maps(PostKey, Nat)
           /\ DOMAIN s.rooms \subseteq Name
           /\ \A r \in DOMAIN s.rooms : s.rooms[r] \in RoomType
<1>1. /\ s = [last_id |-> s.last_id, agents |-> s.agents, rooms |-> s.rooms,
              post_keys |-> s.post_keys]
      /\ s.last_id \in Nat /\ s.agents \in SUBSET Agent
      /\ s.rooms \in Maps(Name, RoomType) /\ s.post_keys \in Maps(PostKey, Nat)
  BY DEF StoreType
<1>2. DOMAIN s.rooms \subseteq Name /\ \A r \in DOMAIN s.rooms : s.rooms[r] \in RoomType
  BY <1>1, MapHas
<1> QED BY <1>1, <1>2

\* What a room has.
LEMMA RoomHas ==
    ASSUME NEW room \in RoomType
    PROVE  /\ room.members \in Maps(Agent, MemberType) /\ room.private \in BOOLEAN
           /\ room.created_by \in Agent /\ room.closed \in Nat \cup {None}
           /\ room.board \in Maps(Entry, EntryType) /\ room.posts \in Maps(Nat, PostType)
           /\ room.open \in SUBSET Nat
           /\ DOMAIN room.posts \subseteq Nat
           /\ \A id \in DOMAIN room.posts : room.posts[id] \in PostType
<1>1. /\ room.members \in Maps(Agent, MemberType) /\ room.private \in BOOLEAN
      /\ room.created_by \in Agent /\ room.closed \in Nat \cup {None}
      /\ room.board \in Maps(Entry, EntryType) /\ room.posts \in Maps(Nat, PostType)
      /\ room.open \in SUBSET Nat
  BY DEF RoomType
<1>2. DOMAIN room.posts \subseteq Nat /\ \A id \in DOMAIN room.posts : room.posts[id] \in PostType
  BY <1>1, MapHas
<1> QED BY <1>1, <1>2

\* What a post has.
LEMMA PostHas ==
    ASSUME NEW p \in PostType
    PROVE  /\ p = [kind |-> p.kind, ask |-> p.ask, key |-> p.key, from |-> p.from,
                   reply_to |-> p.reply_to]
           /\ p.kind \in Kind /\ p.ask \in AskType \cup {None} /\ p.key \in Key \cup {None}
           /\ p.from \in Agent /\ p.reply_to \in Nat \cup {None}
  BY DEF PostType

\* What is asked is something.
LEMMA AskHas ==
    ASSUME NEW x \in AskType
    PROVE  /\ x # None /\ x = [to |-> x.to, expires |-> x.expires, status |-> x.status]
           /\ x.to \in SUBSET Agent /\ x.expires \in Nat /\ x.status \in Status
  BY NoneAssumption DEF AskType, Status

Placed(s, r, room, t) ==
    /\ t \in StoreType
    /\ t.last_id = s.last_id /\ t.agents = s.agents /\ t.post_keys = s.post_keys
    /\ DOMAIN t.rooms = DOMAIN s.rooms \cup {r}
    /\ t.rooms[r] = room
    /\ \A x \in DOMAIN s.rooms : x # r => t.rooms[x] = s.rooms[x]

\* A room in its place.
LEMMA InRoomIs ==
    ASSUME NEW s \in StoreType, NEW r \in Name, NEW room \in RoomType
    PROVE  Placed(s, r, room, in_room(s, r, room))
<1> DEFINE f == Put(s.rooms, r, room)
           t == in_room(s, r, room)
<1>1. PutsIn(Name, RoomType, s.rooms, r, room)
  BY StoreHas, PutIs
<1>2. /\ f \in Maps(Name, RoomType) /\ DOMAIN f = DOMAIN s.rooms \cup {r} /\ f[r] = room
      /\ \A x \in DOMAIN s.rooms : x # r => f[x] = s.rooms[x]
  BY <1>1 DEF PutsIn
<1>3. t = [s EXCEPT !.rooms = f]
  BY DEF in_room
<1> HIDE DEF f, t
<1>4. t \in StoreType /\ t.last_id = s.last_id /\ t.agents = s.agents /\ t.post_keys = s.post_keys
         /\ t.rooms = f
  BY <1>2, <1>3 DEF StoreType
<1> QED BY <1>2, <1>4 DEF Placed, t

\* A room as sound as it was leaves the store so.
LEMMA SoundIn ==
    ASSUME NEW s, Sound(s), NEW r \in DOMAIN s.rooms, NEW room \in RoomType,
           RoomSound(room, s.last_id, s.agents)
    PROVE  Sound(in_room(s, r, room)) /\ Placed(s, r, room, in_room(s, r, room))
<1> DEFINE t == in_room(s, r, room)
<1>1. Placed(s, r, room, t)
  BY InRoomIs, StoreHas DEF Sound
<1> HIDE DEF t
<1>2. DOMAIN t.rooms = DOMAIN s.rooms
  BY <1>1 DEF Placed
<1>3. \A x \in DOMAIN t.rooms : RoomSound(t.rooms[x], t.last_id, t.agents)
  BY <1>1, <1>2 DEF Sound, Placed
<1> QED BY <1>1, <1>2, <1>3 DEF Sound, Placed, t

\* The posts are as they were, as far as keys go.
SameKeys(f, g) == /\ DOMAIN f = DOMAIN g
                  /\ \A id \in DOMAIN f : f[id].from = g[id].from /\ f[id].key = g[id].key

\* Keys stay right where no post has another author or key.
LEMMA KeysIn ==
    ASSUME NEW s, NEW t, KeysRight(s), t.post_keys = s.post_keys, DOMAIN t.rooms = DOMAIN s.rooms,
           \A r \in DOMAIN s.rooms : SameKeys(s.rooms[r].posts, t.rooms[r].posts)
    PROVE  KeysRight(t)
<1>1. ASSUME NEW r \in DOMAIN t.rooms, NEW id \in DOMAIN t.rooms[r].posts
      PROVE  /\ id \in DOMAIN s.rooms[r].posts
             /\ t.rooms[r].posts[id].key = s.rooms[r].posts[id].key
             /\ KeyOf(r, t.rooms[r].posts[id]) = KeyOf(r, s.rooms[r].posts[id])
  BY DEF SameKeys, KeyOf
<1>2. ASSUME NEW r \in DOMAIN t.rooms, NEW id \in DOMAIN t.rooms[r].posts,
             t.rooms[r].posts[id].key # None
      PROVE  /\ KeyOf(r, t.rooms[r].posts[id]) \in DOMAIN t.post_keys
             /\ t.post_keys[KeyOf(r, t.rooms[r].posts[id])] = id
  BY <1>1, <1>2 DEF KeysRight
<1>3. ASSUME NEW x \in DOMAIN t.post_keys
      PROVE  \E r \in DOMAIN t.rooms : \E id \in DOMAIN t.rooms[r].posts :
                t.rooms[r].posts[id].key # None /\ x = KeyOf(r, t.rooms[r].posts[id])
  <2>1. PICK r \in DOMAIN s.rooms : \E id \in DOMAIN s.rooms[r].posts :
                s.rooms[r].posts[id].key # None /\ x = KeyOf(r, s.rooms[r].posts[id])
    BY DEF KeysRight
  <2>2. PICK id \in DOMAIN s.rooms[r].posts :
                s.rooms[r].posts[id].key # None /\ x = KeyOf(r, s.rooms[r].posts[id])
    BY <2>1
  <2>3. r \in DOMAIN t.rooms /\ id \in DOMAIN t.rooms[r].posts
    BY DEF SameKeys
  <2> QED BY <1>1, <2>2, <2>3
<1> QED BY <1>2, <1>3 DEF KeysRight

\* A room whose posts and open questions are another's is as fair.
LEMMA FairSame ==
    ASSUME NEW p, NEW q, RoomFair(p), q.posts = p.posts, q.open = p.open
    PROVE  RoomFair(q)
<1>1. \A x : Answers(q, x) = Answers(p, x)
  BY DEF Answers
<1>2. \A a : OpenOf(q, a) = OpenOf(p, a)
  BY DEF OpenOf
<1> QED BY <1>1, <1>2 DEF RoomFair

Grown(s0, K) == {t \in StoreType : Sound(t) /\ Grew(s0, t, K) /\ (Fair(s0) => Fair(t))}
Ends(s0) == {t \in StoreType : Sound(t) /\ Kept(s0, t) /\ (Fair(s0) => Fair(t))}

\* Rooms that are open stay so, and no agent comes or goes.
SameFrame(s, t) == /\ t.last_id >= s.last_id /\ t.agents = s.agents /\ DOMAIN t.rooms = DOMAIN s.rooms
                   /\ \A r \in DOMAIN s.rooms : t.rooms[r].closed = s.rooms[r].closed

Unasked(p, q) == q.posts = p.posts /\ q.open = p.open /\ q.board = p.board

\* A room whose posts, questions and board are as before, but for the rest.
LEMMA QuietIn ==
    ASSUME NEW s, Sound(s), NEW r \in DOMAIN s.rooms, NEW room \in RoomType,
           RoomSound(room, s.last_id, s.agents), Unasked(s.rooms[r], room)
    PROVE  LET t == in_room(s, r, room)
           IN  /\ Placed(s, r, room, t)
               /\ \A s0, K : s \in Grown(s0, K) => t \in Grown(s0, K)
               /\ \A s0 : s \in Ends(s0) => t \in Ends(s0)
               /\ room.closed = s.rooms[r].closed => SameFrame(s, t)
<1> DEFINE t == in_room(s, r, room)
<1>1. Sound(t) /\ Placed(s, r, room, t)
  BY SoundIn
<1> HIDE DEF t
<1>2. t.last_id = s.last_id /\ DOMAIN t.rooms = DOMAIN s.rooms /\ t.agents = s.agents /\ t \in StoreType
  BY <1>1 DEF Placed
<1>3. ASSUME NEW x \in DOMAIN s.rooms PROVE Unasked(s.rooms[x], t.rooms[x])
  BY <1>1 DEF Placed, Unasked
<1>4. ASSUME Fair(s) PROVE Fair(t)
  <2>1. \A x \in DOMAIN s.rooms : SameKeys(s.rooms[x].posts, t.rooms[x].posts)
    BY <1>3 DEF SameKeys, Unasked
  <2>2. KeysRight(t)
    BY <1>1, <1>2, <1>4, <2>1, KeysIn DEF Fair, Placed
  <2>3. \A x \in DOMAIN t.rooms : RoomFair(t.rooms[x])
    BY <1>2, <1>3, <1>4, FairSame DEF Fair, Unasked
  <2> QED BY <2>2, <2>3 DEF Fair
<1>5. ASSUME NEW s0, NEW K, s \in Grown(s0, K) PROVE t \in Grown(s0, K)
  <2>1. Grew(s0, s, K) /\ (Fair(s0) => Fair(s))
    BY <1>5 DEF Grown
  <2>2. ASSUME NEW x \in DOMAIN s0.rooms \cap DOMAIN t.rooms
        PROVE  RoomGrew(x, s0.rooms[x], t.rooms[x], s0.last_id, K)
    <3>1. RoomGrew(x, s0.rooms[x], s.rooms[x], s0.last_id, K) /\ Unasked(s.rooms[x], t.rooms[x])
      BY <1>2, <1>3, <2>1 DEF Grew
    <3> QED BY <3>1 DEF RoomGrew, Unasked
  <2>4. ASSUME NEW x \in DOMAIN t.rooms \ DOMAIN s0.rooms PROVE NewIn(x, t.rooms[x], K)
    <3>1. NewIn(x, s.rooms[x], K) /\ Unasked(s.rooms[x], t.rooms[x])
      BY <1>2, <1>3, <2>1 DEF Grew
    <3> QED BY <3>1 DEF NewIn, Unasked
  <2>3. Grew(s0, t, K)
    BY <1>2, <2>1, <2>2, <2>4 DEF Grew
  <2> QED BY <1>1, <1>2, <1>4, <2>1, <2>3 DEF Grown
<1>6. ASSUME NEW s0, s \in Ends(s0) PROVE t \in Ends(s0)
  <2>1. Kept(s0, s) /\ (Fair(s0) => Fair(s))
    BY <1>6 DEF Ends
  <2>2. ASSUME NEW p, NEW q, NEW q2, RoomKept(p, q), Unasked(q, q2) PROVE RoomKept(p, q2)
    <3>1. \A x : Answers(q2, x) = Answers(q, x) /\ answered(q2, x) = answered(q, x)
      BY <2>2 DEF Answers, answered, Unasked
    <3>2. q2.posts = q.posts /\ q2.open = q.open /\ q2.board = q.board
      BY <2>2 DEF Unasked
    <3> QED BY <2>2, <3>1, <3>2 DEF RoomKept
  <2>3. Kept(s0, t)
    BY <1>2, <1>3, <2>1, <2>2 DEF Kept
  <2> QED BY <1>1, <1>2, <1>4, <2>1, <2>3 DEF Ends
<1>7. room.closed = s.rooms[r].closed => SameFrame(s, t)
  <2>1. s.last_id \in Nat
    BY StoreHas DEF Sound
  <2> QED BY <1>1, <1>2, <2>1 DEF SameFrame, Placed
<1> QED BY <1>1, <1>5, <1>6, <1>7 DEF t
-----------------------------------------------------------------------------
(***************************************************************************)
(* Members, what they read, and rooms that are closed and opened.          *)
(***************************************************************************)
\* The room r of s becomes `room`, and nothing is made of its posts.
QuietTo(s, r, t) ==
    /\ DOMAIN t.rooms = DOMAIN s.rooms /\ t.agents = s.agents /\ t.last_id = s.last_id
    /\ \A s0, K : s \in Grown(s0, K) => t \in Grown(s0, K)
    /\ \A s0 : s \in Ends(s0) => t \in Ends(s0)

\* The members of a room may be any agents there are.
LEMMA MembersTo ==
    ASSUME NEW s, Sound(s), NEW r \in DOMAIN s.rooms, NEW mm \in Maps(Agent, MemberType),
           DOMAIN mm \subseteq s.agents, \A a \in DOMAIN mm : mm[a].cursor <= s.last_id
    PROVE  LET t == in_room(s, r, [s.rooms[r] EXCEPT !.members = mm])
           IN  QuietTo(s, r, t) /\ SameFrame(s, t)
<1> DEFINE p == s.rooms[r]
           q == [p EXCEPT !.members = mm]
<1>1. p \in RoomType /\ RoomSound(p, s.last_id, s.agents)
  BY StoreHas DEF Sound
<1>2. /\ q \in RoomType /\ q.members = mm /\ q.posts = p.posts /\ q.open = p.open
      /\ q.board = p.board /\ q.closed = p.closed
  BY <1>1 DEF RoomType
<1> HIDE DEF p, q
<1>3. RoomSound(q, s.last_id, s.agents) /\ Unasked(p, q)
  BY <1>1, <1>2 DEF RoomSound, Unasked, is_open
<1> DEFINE t == in_room(s, r, q)
<1>4. /\ Placed(s, r, q, t)
      /\ \A s0, K : s \in Grown(s0, K) => t \in Grown(s0, K)
      /\ \A s0 : s \in Ends(s0) => t \in Ends(s0)
      /\ q.closed = p.closed => SameFrame(s, t)
  BY <1>2, <1>3, QuietIn DEF p
<1> HIDE DEF t
<1>5. QuietTo(s, r, t) /\ SameFrame(s, t)
  BY <1>2, <1>4 DEF QuietTo, Placed
<1> QED BY <1>5 DEF t, q, p

\* What members there are.
LEMMA MembersHave ==
    ASSUME NEW s, Sound(s), NEW r \in DOMAIN s.rooms
    PROVE  /\ s.rooms[r].members \in Maps(Agent, MemberType)
           /\ DOMAIN s.rooms[r].members \subseteq s.agents
           /\ \A a \in DOMAIN s.rooms[r].members :
                 /\ s.rooms[r].members[a] \in MemberType
                 /\ s.rooms[r].members[a].cursor <= s.last_id
<1>1. s.rooms[r] \in RoomType /\ RoomSound(s.rooms[r], s.last_id, s.agents)
  BY StoreHas DEF Sound
<1>2. s.rooms[r].members \in Maps(Agent, MemberType)
  BY <1>1, RoomHas
<1>3. \A a \in DOMAIN s.rooms[r].members : s.rooms[r].members[a] \in MemberType
  BY <1>2, MapHas
<1> QED BY <1>1, <1>2, <1>3 DEF RoomSound

\* A member, known already.
LEMMA MemberIs ==
    ASSUME NEW s, Sound(s), NEW r \in DOMAIN s.rooms, NEW a \in s.agents,
           NEW m \in MemberType, m.cursor <= s.last_id
    PROVE  QuietTo(s, r, apply_member(s, r, a, m)) /\ SameFrame(s, apply_member(s, r, a, m))
<1> DEFINE mm == Put(s.rooms[r].members, a, m)
<1>1. a \in Agent
  BY StoreHas DEF Sound
<1>2. /\ mm \in Maps(Agent, MemberType) /\ DOMAIN mm = DOMAIN s.rooms[r].members \cup {a}
      /\ mm[a] = m /\ \A b \in DOMAIN s.rooms[r].members : b # a => mm[b] = s.rooms[r].members[b]
  <2>1. s.rooms[r].members \in Maps(Agent, MemberType)
    BY MembersHave
  <2>2. PutsIn(Agent, MemberType, s.rooms[r].members, a, m)
    BY <1>1, <2>1, PutIs
  <2> QED BY <2>2 DEF PutsIn
<1>3. apply_member(s, r, a, m) = in_room(s, r, [s.rooms[r] EXCEPT !.members = mm])
  BY DEF apply_member
<1> HIDE DEF mm
<1>4. DOMAIN mm \subseteq s.agents /\ \A b \in DOMAIN mm : mm[b].cursor <= s.last_id
  BY <1>2, MembersHave
<1> QED BY <1>2, <1>3, <1>4, MembersTo

\* One less.
LEMMA NoMemberIs ==
    ASSUME NEW s, Sound(s), NEW r \in DOMAIN s.rooms, NEW a
    PROVE  QuietTo(s, r, apply_no_member(s, r, a)) /\ SameFrame(s, apply_no_member(s, r, a))
<1> DEFINE mm == Without(s.rooms[r].members, {a})
<1>2. /\ mm \in Maps(Agent, MemberType) /\ DOMAIN mm = DOMAIN s.rooms[r].members \ {a}
      /\ \A b \in DOMAIN s.rooms[r].members \ {a} : mm[b] = s.rooms[r].members[b]
  <2>1. s.rooms[r].members \in Maps(Agent, MemberType)
    BY MembersHave
  <2>2. LeavesIn(Agent, MemberType, s.rooms[r].members, {a})
    BY <2>1, WithoutIs
  <2> QED BY <2>2 DEF LeavesIn
<1>3. apply_no_member(s, r, a) = in_room(s, r, [s.rooms[r] EXCEPT !.members = mm])
  BY DEF apply_no_member
<1> HIDE DEF mm
<1>4. DOMAIN mm \subseteq s.agents /\ \A b \in DOMAIN mm : mm[b].cursor <= s.last_id
  BY <1>2, MembersHave
<1> QED BY <1>2, <1>3, <1>4, MembersTo

\* A member reads up to an id that is given.
LEMMA CursorIs ==
    ASSUME NEW s, Sound(s), NEW r \in DOMAIN s.rooms, NEW a \in DOMAIN s.rooms[r].members,
           NEW id \in Nat, id <= s.last_id
    PROVE  QuietTo(s, r, apply_cursor(s, r, a, id)) /\ SameFrame(s, apply_cursor(s, r, a, id))
<1> DEFINE p == s.rooms[r]
           m == [p.members[a] EXCEPT !.cursor = id]
<1>1. p.members[a] \in MemberType /\ a \in s.agents
  BY MembersHave
<1>2. m \in MemberType /\ m.cursor = id
  BY <1>1 DEF MemberType
<1>3. apply_cursor(s, r, a, id) = apply_member(s, r, a, m)
  BY DEF apply_cursor, apply_member
<1> HIDE DEF m
<1> QED BY <1>1, <1>2, <1>3, MemberIs

\* A room is opened, or closed when it has no open questions.
LEMMA CloseIs ==
    ASSUME NEW s, Sound(s), NEW r \in DOMAIN s.rooms, NEW at \in Nat \cup {None},
           at # None => s.rooms[r].open = {}
    PROVE  QuietTo(s, r, apply_close(s, r, at)) /\ apply_close(s, r, at).rooms[r].closed = at
<1> DEFINE p == s.rooms[r]
           q == [p EXCEPT !.closed = at]
<1>1. p \in RoomType /\ RoomSound(p, s.last_id, s.agents)
  BY StoreHas DEF Sound
<1>2. /\ q \in RoomType /\ q.members = p.members /\ q.posts = p.posts /\ q.open = p.open
      /\ q.board = p.board /\ q.closed = at
  BY <1>1 DEF RoomType
<1>3. apply_close(s, r, at) = in_room(s, r, q)
  BY DEF apply_close
<1> HIDE DEF q
<1>4. RoomSound(q, s.last_id, s.agents) /\ Unasked(p, q)
  BY <1>1, <1>2 DEF RoomSound, Unasked, is_open
<1> HIDE DEF p
<1> DEFINE t == in_room(s, r, q)
<1>5. /\ Placed(s, r, q, t)
      /\ \A s0, K : s \in Grown(s0, K) => t \in Grown(s0, K)
      /\ \A s0 : s \in Ends(s0) => t \in Ends(s0)
  BY <1>2, <1>4, QuietIn DEF p
<1> HIDE DEF t
<1>6. QuietTo(s, r, t) /\ t.rooms[r].closed = at
  BY <1>2, <1>5 DEF QuietTo, Placed
<1> QED BY <1>3, <1>6 DEF t
-----------------------------------------------------------------------------
(***************************************************************************)
(* A post made.                                                            *)
(***************************************************************************)
\* More ids are given, and more agents known.
LEMMA RoomSoundMore ==
    ASSUME NEW room \in RoomType, NEW n \in Nat, NEW m \in Nat, n <= m, NEW A, NEW B, A \subseteq B,
           RoomSound(room, n, A)
    PROVE  RoomSound(room, m, B)
<1>1. ASSUME NEW id \in DOMAIN room.posts PROVE PostSound(room.posts[id], m)
  <2>1. room.posts[id].reply_to \in Nat \cup {None} /\ PostSound(room.posts[id], n)
    BY RoomHas, PostHas DEF RoomSound
  <2> QED BY <2>1 DEF PostSound
<1>2. \A a \in DOMAIN room.members : room.members[a].cursor <= m
  <2>1. room.members \in Maps(Agent, MemberType)
    BY RoomHas
  <2>2. \A a \in DOMAIN room.members : room.members[a] \in MemberType
    BY <2>1, MapHas
  <2>3. \A a \in DOMAIN room.members : room.members[a].cursor \in Nat
    BY <2>2 DEF MemberType
  <2> QED BY <2>3 DEF RoomSound
<1> QED BY <1>1, <1>2 DEF RoomSound

PostIn(room, id, p) == [room EXCEPT !.posts = Put(@, id, p),
                                    !.open = IF is_open_question(p) THEN @ \cup {id} ELSE @]

\* The room q is p with the post x under a new id.
Posts1(p, id, x, q) ==
    /\ q \in RoomType
    /\ DOMAIN q.posts = DOMAIN p.posts \cup {id} /\ id \notin DOMAIN p.posts
    /\ q.posts[id] = x
    /\ \A i \in DOMAIN p.posts : q.posts[i] = p.posts[i]
    /\ q.open = IF is_open_question(x) THEN p.open \cup {id} ELSE p.open
    /\ q.members = p.members /\ q.board = p.board /\ q.closed = p.closed

\* A post put in a room leaves it sound.
LEMMA PostInIs ==
    ASSUME NEW room \in RoomType, NEW n \in Nat, NEW A, RoomSound(room, n, A),
           NEW x \in PostType, PostSound(x, n), is_open_question(x) => is_open(room)
    PROVE  /\ Posts1(room, n + 1, x, PostIn(room, n + 1, x))
           /\ RoomSound(PostIn(room, n + 1, x), n + 1, A)
<1> DEFINE id == n + 1
           q == PostIn(room, id, x)
           f == Put(room.posts, id, x)
           o == IF is_open_question(x) THEN room.open \cup {id} ELSE room.open
<1>1. id \in Nat /\ id \notin DOMAIN room.posts
  BY DEF RoomSound
<1>2. PutsIn(Nat, PostType, room.posts, id, x)
  <2>1. room.posts \in Maps(Nat, PostType)
    BY RoomHas
  <2> QED BY <1>1, <2>1, PutIs
<1>3. /\ f \in Maps(Nat, PostType) /\ DOMAIN f = DOMAIN room.posts \cup {id} /\ f[id] = x
      /\ \A i \in DOMAIN room.posts : f[i] = room.posts[i]
  BY <1>1, <1>2 DEF PutsIn
<1>4. o \in SUBSET Nat
  BY <1>1, RoomHas
<1>5. q = [room EXCEPT !.posts = f, !.open = o]
  BY DEF PostIn
<1> HIDE DEF f, o, q
<1>6. /\ q \in RoomType /\ q.posts = f /\ q.open = o
      /\ q.members = room.members /\ q.board = room.board /\ q.closed = room.closed
  BY <1>3, <1>4, <1>5 DEF RoomType
<1>7. Posts1(room, id, x, q)
  BY <1>1, <1>3, <1>6 DEF Posts1, o
<1>8. RoomSound(room, id, A)
  BY <1>1, RoomSoundMore
<1>9. PostSound(x, id)
  <2>1. x.reply_to \in Nat \cup {None}
    BY PostHas
  <2> QED BY <2>1 DEF PostSound
<1>10. DOMAIN q.posts \subseteq 1 .. id /\ \A i \in DOMAIN q.posts : PostSound(q.posts[i], id)
  <2>1. id \in 1 .. id
    BY <1>1
  <2> QED BY <1>3, <1>6, <1>8, <1>9, <2>1 DEF RoomSound
<1>11. q.open = OpenQuestions(q.posts)
  <2>1. OpenQuestions(q.posts) = {i \in DOMAIN room.posts \cup {id} : is_open_question(f[i])}
    BY <1>3, <1>6 DEF OpenQuestions
  <2>2. room.open = {i \in DOMAIN room.posts : is_open_question(room.posts[i])}
    BY DEF RoomSound, OpenQuestions
  <2>3. \A i \in DOMAIN room.posts : is_open_question(f[i]) <=> is_open_question(room.posts[i])
    BY <1>3
  <2> HIDE DEF is_open_question
  <2> QED BY <1>3, <1>6, <2>1, <2>2, <2>3 DEF o
<1>12. ~is_open(q) => q.open = {}
  BY <1>6 DEF RoomSound, is_open, o
<1>13. (\A a \in DOMAIN q.members : q.members[a].cursor <= id) /\ DOMAIN q.members \subseteq A
  BY <1>6, <1>8 DEF RoomSound
<1>14. RoomSound(q, id, A)
  BY <1>10, <1>11, <1>12, <1>13 DEF RoomSound
<1> QED BY <1>7, <1>14 DEF q

\* A question for which there is room, or an answer by somebody who may give it.
Fits(room, p) ==
    /\ is_open_question(p) =>
          /\ Cardinality(room.open) < MaxOpenQuestions
          /\ p.from \notin Operators => Cardinality(OpenOf(room, p.from)) < share(MaxOpenQuestions)
    /\ p.kind = "answer" /\ p.reply_to \in room.open =>
          /\ p.from # room.posts[p.reply_to].from
          /\ \A i \in Answers(room, p.reply_to) : room.posts[i].from # p.from

\* The open questions of a room are posts of it, and a finite set.
LEMMA OpenIs ==
    ASSUME NEW room, NEW n \in Nat, NEW A, RoomSound(room, n, A)
    PROVE  /\ room.open \subseteq DOMAIN room.posts
           /\ DOMAIN room.posts \in SUBSET (1 .. n) /\ IsFiniteSet(DOMAIN room.posts)
           /\ IsFiniteSet(room.open) /\ Cardinality(room.open) \in Nat
           /\ \A a : /\ OpenOf(room, a) \subseteq room.open /\ IsFiniteSet(OpenOf(room, a))
                     /\ Cardinality(OpenOf(room, a)) \in Nat
<1>1. room.open \subseteq DOMAIN room.posts
  BY DEF RoomSound, OpenQuestions
<1>2. DOMAIN room.posts \in SUBSET (1 .. n)
  BY DEF RoomSound
<1>3. IsFiniteSet(DOMAIN room.posts)
  <2>1. IsFiniteSet(1 .. n)
    BY FS_Interval
  <2> QED BY <1>2, <2>1, FS_Subset
<1>4. IsFiniteSet(room.open) /\ Cardinality(room.open) \in Nat
  BY <1>1, <1>3, FS_Subset, FS_CardinalityType
<1>5. \A a : OpenOf(room, a) \subseteq room.open
  BY DEF OpenOf
<1>6. ASSUME NEW a PROVE IsFiniteSet(OpenOf(room, a)) /\ Cardinality(OpenOf(room, a)) \in Nat
  BY <1>4, <1>5, FS_Subset, FS_CardinalityType
<1> QED BY <1>1, <1>2, <1>3, <1>4, <1>5, <1>6

\* An agent's share of a limit is one at least.
LEMMA ShareIs == ASSUME NEW l \in Nat \ {0} PROVE share(l) \in Nat /\ share(l) >= 1
  BY DEF share

\* A post that fits leaves the room fair.
LEMMA PostFair ==
    ASSUME NEW p \in RoomType, NEW n \in Nat, NEW A, RoomSound(p, n, A), RoomFair(p),
           NEW x \in PostType, PostSound(x, n), NEW q, Posts1(p, n + 1, x, q), Fits(p, x)
    PROVE  RoomFair(q)
<1> DEFINE id == n + 1
<1>1. /\ DOMAIN q.posts = DOMAIN p.posts \cup {id} /\ id \notin DOMAIN p.posts /\ q.posts[id] = x
      /\ \A i \in DOMAIN p.posts : q.posts[i] = p.posts[i]
      /\ q.open = IF is_open_question(x) THEN p.open \cup {id} ELSE p.open
  BY DEF Posts1
<1>2. p.open \subseteq DOMAIN p.posts /\ IsFiniteSet(p.open) /\ Cardinality(p.open) \in Nat
         /\ DOMAIN p.posts \subseteq 1 .. n
  BY OpenIs
<1>3. \A i \in DOMAIN q.posts : q.posts[i].reply_to # id
  <2>1. ASSUME NEW y \in PostType, PostSound(y, n) PROVE y.reply_to # id
    <3>1. y.reply_to = None \/ y.reply_to \in 1 .. n
      BY <2>1 DEF PostSound
    <3>2. id \notin 1 .. n /\ id # None
      BY NoneAssumption
    <3> QED BY <3>1, <3>2
  <2>2. \A i \in DOMAIN p.posts : p.posts[i] \in PostType /\ PostSound(p.posts[i], n)
    BY RoomHas DEF RoomSound
  <2> QED BY <1>1, <2>1, <2>2
<1>4. Answers(q, id) = {}
  BY <1>3 DEF Answers
<1>5. ASSUME NEW y
      PROVE  Answers(q, y) = Answers(p, y) \cup {i \in {id} : x.kind = "answer" /\ x.reply_to = y}
  BY <1>1 DEF Answers
<1>6. \A y : Answers(p, y) \subseteq DOMAIN p.posts
  BY DEF Answers
<1>7. ASSUME NEW y \in p.open
      PROVE  /\ \A i \in Answers(q, y) : q.posts[i].from # q.posts[y].from
             /\ \A i, j \in Answers(q, y) : i # j => q.posts[i].from # q.posts[j].from
  <2>1. /\ \A i \in Answers(p, y) : p.posts[i].from # p.posts[y].from
        /\ \A i, j \in Answers(p, y) : i # j => p.posts[i].from # p.posts[j].from
    BY DEF RoomFair
  <2>2. q.posts[y] = p.posts[y] /\ \A i \in Answers(p, y) : q.posts[i] = p.posts[i]
    BY <1>1, <1>2, <1>6
  <2>3. x.kind = "answer" /\ x.reply_to = y =>
           /\ x.from # p.posts[y].from
           /\ \A i \in Answers(p, y) : p.posts[i].from # x.from
    BY DEF Fits
  <2>4. \A i \in Answers(q, y) : i \in Answers(p, y) \/ (i = id /\ x.kind = "answer" /\ x.reply_to = y)
    BY <1>5
  <2> QED BY <1>1, <2>1, <2>2, <2>3, <2>4
<1>8. ASSUME NEW y \in q.open
      PROVE  /\ \A i \in Answers(q, y) : q.posts[i].from # q.posts[y].from
             /\ \A i, j \in Answers(q, y) : i # j => q.posts[i].from # q.posts[j].from
  <2>1. y \in p.open \/ y = id
    BY <1>1
  <2> QED BY <1>4, <1>7, <2>1
<1>9. CASE ~is_open_question(x)
  <2>1. q.open = p.open
    BY <1>1, <1>9
  <2>2. \A a : OpenOf(q, a) = OpenOf(p, a)
    BY <1>1, <1>2, <2>1 DEF OpenOf
  <2> QED BY <1>8, <2>1, <2>2 DEF RoomFair
<1>10. CASE is_open_question(x)
  <2>1. q.open = p.open \cup {id} /\ id \notin p.open
    BY <1>1, <1>2, <1>10
  <2>2. Cardinality(q.open) = Cardinality(p.open) + 1
    BY <1>2, <2>1, FS_AddElement
  <2>3. Cardinality(q.open) <= MaxOpenQuestions
    BY <1>2, <1>10, <2>2, LimitsAssumption DEF Fits
  <2>4. ASSUME NEW a \in Agent \ Operators
        PROVE  Cardinality(OpenOf(q, a)) <= share(MaxOpenQuestions)
    <3>1. Cardinality(OpenOf(p, a)) <= share(MaxOpenQuestions) /\ share(MaxOpenQuestions) \in Nat
      BY ShareIs, LimitsAssumption DEF RoomFair
    <3>2. CASE a # x.from
      <4>1. OpenOf(q, a) = OpenOf(p, a)
        BY <1>1, <1>2, <2>1, <3>2 DEF OpenOf
      <4> QED BY <3>1, <4>1
    <3>3. CASE a = x.from
      <4>1. OpenOf(q, a) = OpenOf(p, a) \cup {id} /\ id \notin OpenOf(p, a)
        BY <1>1, <1>2, <2>1, <3>3 DEF OpenOf
      <4>2. IsFiniteSet(OpenOf(p, a)) /\ Cardinality(OpenOf(p, a)) \in Nat
        BY OpenIs
      <4>3. Cardinality(OpenOf(q, a)) = Cardinality(OpenOf(p, a)) + 1
        BY <4>1, <4>2, FS_AddElement
      <4>4. Cardinality(OpenOf(p, a)) < share(MaxOpenQuestions)
        BY <1>10, <3>3 DEF Fits
      <4> QED BY <3>1, <4>2, <4>3, <4>4
    <3> QED BY <3>2, <3>3
  <2> QED BY <1>8, <2>3, <2>4 DEF RoomFair
<1> QED BY <1>9, <1>10
\* A post in a room of a store.
PostedAt(s, r, x, u) ==
    /\ u \in StoreType /\ Sound(u)
    /\ u.last_id = s.last_id + 1 /\ u.agents = s.agents /\ DOMAIN u.rooms = DOMAIN s.rooms
    /\ Posts1(s.rooms[r], s.last_id + 1, x, u.rooms[r])
    /\ \A y \in DOMAIN s.rooms : y # r => u.rooms[y] = s.rooms[y]
    /\ u.post_keys = IF x.key = None THEN s.post_keys
                     ELSE Put(s.post_keys, KeyOf(r, x), s.last_id + 1)

\* Applying a post puts it in its room, and its key among the keys.
LEMMA PostTo ==
    ASSUME NEW s, Sound(s), NEW r \in DOMAIN s.rooms, NEW x \in PostType, PostSound(x, s.last_id),
           is_open_question(x) => is_open(s.rooms[r])
    PROVE  PostedAt(s, r, x, apply_post(s, r, s.last_id + 1, x))
<1> DEFINE n == s.last_id
           id == n + 1
           room == PostIn(s.rooms[r], id, x)
           v == in_room(s, r, room)
           kk == IF x.key = None THEN s.post_keys ELSE Put(s.post_keys, KeyOf(r, x), id)
           u == apply_post(s, r, id, x)
<1>1. /\ s \in StoreType /\ n \in Nat /\ id \in Nat /\ r \in Name /\ s.rooms[r] \in RoomType
      /\ RoomSound(s.rooms[r], n, s.agents)
  BY StoreHas DEF Sound
<1>2. Posts1(s.rooms[r], id, x, room) /\ RoomSound(room, id, s.agents)
  BY <1>1, PostInIs
<1>3. Placed(s, r, room, v)
  <2>1. room \in RoomType
    BY <1>2 DEF Posts1
  <2> HIDE DEF room
  <2> QED BY <1>1, <2>1, InRoomIs
<1>4. kk \in Maps(PostKey, Nat)
  <2>1. s.post_keys \in Maps(PostKey, Nat)
    BY <1>1, StoreHas
  <2>2. CASE x.key # None
    <3>1. KeyOf(r, x) \in PostKey
      BY <1>1, <2>2, PostHas DEF KeyOf, PostKey
    <3>2. PutsIn(PostKey, Nat, s.post_keys, KeyOf(r, x), id)
      BY <1>1, <2>1, <3>1, PutIs
    <3> QED BY <2>2, <3>2 DEF PutsIn
  <2> QED BY <2>1, <2>2
<1>5. u = [v EXCEPT !.last_id = id, !.post_keys = kk]
  <2>1. v.post_keys = s.post_keys
    BY <1>3 DEF Placed
  <2>2. v \in StoreType
    BY <1>3 DEF Placed
  <2>3. v = [last_id |-> v.last_id, agents |-> v.agents, rooms |-> v.rooms, post_keys |-> v.post_keys]
    BY <2>2, StoreHas
  <2>4. u = [v EXCEPT !.last_id = id,
                      !.post_keys = IF x.key = None THEN @ ELSE Put(@, <<r, x.from, x.key>>, id)]
    BY DEF apply_post, PostIn
  <2> HIDE DEF v, u
  <2> QED BY <2>1, <2>3, <2>4 DEF KeyOf
<1> HIDE DEF u, v, kk, room
<1>6. /\ u \in StoreType /\ u.last_id = id /\ u.agents = v.agents /\ u.rooms = v.rooms
      /\ u.post_keys = kk
  <2>1. v \in StoreType
    BY <1>3 DEF Placed
  <2> QED BY <1>1, <1>4, <1>5, <2>1 DEF StoreType
<1>7. /\ u.agents = s.agents /\ DOMAIN u.rooms = DOMAIN s.rooms /\ u.rooms[r] = room
      /\ \A y \in DOMAIN s.rooms : y # r => u.rooms[y] = s.rooms[y]
  BY <1>3, <1>6 DEF Placed
<1>8. ASSUME NEW y \in DOMAIN u.rooms PROVE RoomSound(u.rooms[y], id, u.agents)
  <2>1. CASE y = r
    BY <1>2, <1>7, <2>1
  <2>2. CASE y # r
    <3>1. u.rooms[y] = s.rooms[y] /\ s.rooms[y] \in RoomType /\ RoomSound(s.rooms[y], n, s.agents)
      BY <1>1, <1>7, <2>2, StoreHas DEF Sound
    <3> QED BY <1>1, <1>7, <3>1, RoomSoundMore
  <2> QED BY <2>1, <2>2
<1>9. Sound(u)
  BY <1>6, <1>7, <1>8 DEF Sound
<1>10. u.post_keys = IF x.key = None THEN s.post_keys ELSE Put(s.post_keys, KeyOf(r, x), id)
  BY <1>6 DEF kk
<1>11. PostedAt(s, r, x, u)
  BY <1>2, <1>6, <1>7, <1>9, <1>10 DEF PostedAt
<1> QED BY <1>11 DEF u

KeyNew(s, r, x) == x.key # None => KeyOf(r, x) \notin DOMAIN s.post_keys

\* Under a new key, it is found by that.
LEMMA PostKeys ==
    ASSUME NEW s, Sound(s), KeysRight(s), NEW r \in DOMAIN s.rooms, NEW x \in PostType,
           NEW u, PostedAt(s, r, x, u), KeyNew(s, r, x)
    PROVE  KeysRight(u)
<1> DEFINE id == s.last_id + 1
           k == KeyOf(r, x)
<1>1. /\ DOMAIN u.rooms = DOMAIN s.rooms
      /\ \A y \in DOMAIN s.rooms : y # r => u.rooms[y] = s.rooms[y]
      /\ DOMAIN u.rooms[r].posts = DOMAIN s.rooms[r].posts \cup {id}
      /\ u.rooms[r].posts[id] = x
      /\ \A i \in DOMAIN s.rooms[r].posts : u.rooms[r].posts[i] = s.rooms[r].posts[i]
  BY DEF PostedAt, Posts1
<1>2. /\ \A y \in DOMAIN s.post_keys : y \in DOMAIN u.post_keys /\ u.post_keys[y] = s.post_keys[y]
      /\ x.key # None => k \in DOMAIN u.post_keys /\ u.post_keys[k] = id
      /\ \A y \in DOMAIN u.post_keys : y \in DOMAIN s.post_keys \/ (x.key # None /\ y = k)
  BY DEF PostedAt, KeyNew, Put
<1> HIDE DEF id, k
<1>3. ASSUME NEW y \in DOMAIN u.rooms, NEW i \in DOMAIN u.rooms[y].posts
      PROVE  \/ /\ i \in DOMAIN s.rooms[y].posts /\ u.rooms[y].posts[i] = s.rooms[y].posts[i]
             \/ y = r /\ i = id /\ u.rooms[y].posts[i] = x
  BY <1>1
<1>4. ASSUME NEW y \in DOMAIN s.rooms, NEW i \in DOMAIN s.rooms[y].posts
      PROVE  i \in DOMAIN u.rooms[y].posts /\ u.rooms[y].posts[i] = s.rooms[y].posts[i]
  BY <1>1
<1>5. ASSUME NEW y \in DOMAIN u.rooms, NEW i \in DOMAIN u.rooms[y].posts,
             u.rooms[y].posts[i].key # None
      PROVE  /\ KeyOf(y, u.rooms[y].posts[i]) \in DOMAIN u.post_keys
             /\ u.post_keys[KeyOf(y, u.rooms[y].posts[i])] = i
  <2>1. CASE i \in DOMAIN s.rooms[y].posts /\ u.rooms[y].posts[i] = s.rooms[y].posts[i]
    <3>1. /\ KeyOf(y, s.rooms[y].posts[i]) \in DOMAIN s.post_keys
          /\ s.post_keys[KeyOf(y, s.rooms[y].posts[i])] = i
      BY <1>1, <1>5, <2>1 DEF KeysRight
    <3> QED BY <1>2, <2>1, <3>1
  <2>2. CASE y = r /\ i = id /\ u.rooms[y].posts[i] = x
    BY <1>2, <1>5, <2>2 DEF k
  <2> QED BY <1>3, <2>1, <2>2
<1>6. ASSUME NEW z \in DOMAIN u.post_keys
      PROVE  \E y \in DOMAIN u.rooms : \E i \in DOMAIN u.rooms[y].posts :
                u.rooms[y].posts[i].key # None /\ z = KeyOf(y, u.rooms[y].posts[i])
  <2>1. CASE z \in DOMAIN s.post_keys
    <3>1. PICK y \in DOMAIN s.rooms : \E i \in DOMAIN s.rooms[y].posts :
                s.rooms[y].posts[i].key # None /\ z = KeyOf(y, s.rooms[y].posts[i])
      BY <2>1 DEF KeysRight
    <3>2. PICK i \in DOMAIN s.rooms[y].posts :
                s.rooms[y].posts[i].key # None /\ z = KeyOf(y, s.rooms[y].posts[i])
      BY <3>1
    <3> QED BY <1>1, <1>4, <3>2
  <2>2. CASE x.key # None /\ z = k
    <3>1. r \in DOMAIN u.rooms /\ id \in DOMAIN u.rooms[r].posts /\ u.rooms[r].posts[id] = x
      BY <1>1
    <3> QED BY <2>2, <3>1 DEF k
  <2> QED BY <1>2, <2>1, <2>2
<1> QED BY <1>5, <1>6 DEF KeysRight

\* A post of a kind there may be leaves the store as it was, but for itself.
LEMMA PostGrown ==
    ASSUME NEW s0, NEW K, NEW s \in Grown(s0, K), Sound(s0), NEW r \in DOMAIN s.rooms, NEW x \in PostType,
           PostSound(x, s.last_id), is_open_question(x) => is_open(s.rooms[r]),
           <<r, x.kind, x.reply_to>> \in K, Fair(s0) => Fits(s.rooms[r], x) /\ KeyNew(s, r, x)
    PROVE  LET u == apply_post(s, r, s.last_id + 1, x)
           IN  u \in Grown(s0, K) /\ PostedAt(s, r, x, u) /\ SameFrame(s, u)
<1> DEFINE id == s.last_id + 1
           u == apply_post(s, r, id, x)
<1>1. Sound(s) /\ Grew(s0, s, K) /\ (Fair(s0) => Fair(s)) /\ s.last_id \in Nat /\ s0.last_id \in Nat
  BY StoreHas DEF Grown, Sound
<1>2. PostedAt(s, r, x, u)
  BY <1>1, PostTo
<1> HIDE DEF u
<1>3. /\ u \in StoreType /\ Sound(u) /\ DOMAIN u.rooms = DOMAIN s.rooms /\ u.last_id = id
      /\ Posts1(s.rooms[r], id, x, u.rooms[r]) /\ u.agents = s.agents
      /\ \A y \in DOMAIN s.rooms : y # r => u.rooms[y] = s.rooms[y]
  BY <1>2 DEF PostedAt
<1>4. ASSUME Fair(s0) PROVE Fair(u)
  <2>4. Fair(s)
    BY <1>1, <1>4
  <2>1. KeysRight(u)
    BY <1>1, <1>2, <1>4, <2>4, PostKeys DEF Fair
  <2>2. RoomFair(u.rooms[r])
    <3>1. s.rooms[r] \in RoomType /\ RoomSound(s.rooms[r], s.last_id, s.agents) /\ RoomFair(s.rooms[r])
      BY <1>1, <2>4, StoreHas DEF Sound, Fair
    <3> QED BY <1>1, <1>3, <1>4, <3>1, PostFair
  <2>3. \A y \in DOMAIN u.rooms : RoomFair(u.rooms[y])
    BY <1>3, <2>4, <2>2 DEF Fair
  <2> QED BY <2>1, <2>3 DEF Fair
<1>5. ASSUME NEW y \in DOMAIN s0.rooms \cap DOMAIN u.rooms
      PROVE  RoomGrew(y, s0.rooms[y], u.rooms[y], s0.last_id, K)
  <2>1. RoomGrew(y, s0.rooms[y], s.rooms[y], s0.last_id, K)
    BY <1>1, <1>3 DEF Grew
  <2>2. CASE y # r
    BY <1>3, <2>1, <2>2
  <2>3. CASE y = r
    <3>1. id > s0.last_id
      BY <1>1 DEF Grew
    <3>2. ~(id <= s0.last_id)
      BY <1>1, <3>1
    <3>3. /\ DOMAIN u.rooms[r].posts = DOMAIN s.rooms[r].posts \cup {id}
          /\ u.rooms[r].posts[id] = x /\ u.rooms[r].board = s.rooms[r].board
          /\ \A i \in DOMAIN s.rooms[r].posts : u.rooms[r].posts[i] = s.rooms[r].posts[i]
      BY <1>3 DEF Posts1
    <3> QED BY <2>1, <2>3, <3>2, <3>3 DEF RoomGrew
  <2> QED BY <2>2, <2>3
<1>9. ASSUME NEW y \in DOMAIN u.rooms \ DOMAIN s0.rooms PROVE NewIn(y, u.rooms[y], K)
  <2>1. NewIn(y, s.rooms[y], K)
    BY <1>1, <1>3 DEF Grew
  <2>2. CASE y # r
    BY <1>3, <2>1, <2>2
  <2>3. CASE y = r
    <3>1. /\ DOMAIN u.rooms[r].posts = DOMAIN s.rooms[r].posts \cup {id}
          /\ u.rooms[r].posts[id] = x
          /\ \A i \in DOMAIN s.rooms[r].posts : u.rooms[r].posts[i] = s.rooms[r].posts[i]
      BY <1>3 DEF Posts1
    <3> QED BY <2>1, <2>3, <3>1 DEF NewIn
  <2> QED BY <2>2, <2>3
<1>6. Grew(s0, u, K)
  BY <1>1, <1>3, <1>5, <1>9 DEF Grew
<1>7. u \in Grown(s0, K)
  BY <1>1, <1>3, <1>4, <1>6 DEF Grown
<1>8. SameFrame(s, u)
  BY <1>1, <1>3 DEF SameFrame, Posts1
<1> QED BY <1>2, <1>7, <1>8 DEF u
-----------------------------------------------------------------------------
(***************************************************************************)
(* Posts trimmed.                                                          *)
(***************************************************************************)
\* Some posts are left out of the room p, none of them to be kept.
Posts0(p, ids, q) ==
    /\ q \in RoomType
    /\ DOMAIN q.posts = DOMAIN p.posts \ ids
    /\ \A i \in DOMAIN q.posts : q.posts[i] = p.posts[i]
    /\ q.open = p.open
    /\ q.members = p.members /\ q.board = p.board /\ q.closed = p.closed

DroppedAt(s, r, ids, u) ==
    /\ u \in StoreType /\ Sound(u)
    /\ u.last_id = s.last_id /\ u.agents = s.agents /\ DOMAIN u.rooms = DOMAIN s.rooms
    /\ Posts0(s.rooms[r], ids, u.rooms[r])
    /\ \A y \in DOMAIN s.rooms : y # r => u.rooms[y] = s.rooms[y]
    /\ u.post_keys = Without(s.post_keys, KeysOf(r, s.rooms[r].posts, ids))

Unkept(room, ids) == ids \subseteq DOMAIN room.posts /\ \A i \in ids : ~keeps(room, room.posts[i])

\* Posts that need not be kept go, with their keys.
LEMMA DropTo ==
    ASSUME NEW s, Sound(s), NEW r \in DOMAIN s.rooms, NEW ids, Unkept(s.rooms[r], ids)
    PROVE  DroppedAt(s, r, ids, apply_drop_posts(s, r, ids))
<1> DEFINE p == s.rooms[r]
           f == Without(p.posts, ids)
           q == [p EXCEPT !.open = @ \ ids, !.posts = Without(@, ids)]
           v == in_room(s, r, q)
           kk == Without(s.post_keys, KeysOf(r, p.posts, ids))
           u == apply_drop_posts(s, r, ids)
<1>1. /\ s \in StoreType /\ s.last_id \in Nat /\ r \in Name /\ p \in RoomType
      /\ RoomSound(p, s.last_id, s.agents)
  BY StoreHas DEF Sound
<1>2. /\ f \in Maps(Nat, PostType) /\ DOMAIN f = DOMAIN p.posts \ ids
      /\ \A i \in DOMAIN f : f[i] = p.posts[i]
  <2>1. p.posts \in Maps(Nat, PostType)
    BY <1>1, RoomHas
  <2> HIDE DEF p
  <2>2. LeavesIn(Nat, PostType, p.posts, ids)
    BY <2>1, WithoutIs
  <2> QED BY <2>2 DEF LeavesIn
<1>3. p.open \ ids = p.open
  <2>1. \A i \in p.open : is_open_question(p.posts[i])
    BY <1>1 DEF RoomSound, OpenQuestions
  <2>2. \A i \in ids : ~is_open_question(p.posts[i])
    BY DEF Unkept, keeps
  <2> QED BY <2>1, <2>2
<1> HIDE DEF p
<1>4. q = [p EXCEPT !.open = p.open \ ids, !.posts = f]
  BY <1>1
<1> HIDE DEF q, f
<1>5. /\ q \in RoomType /\ q.open = p.open /\ q.posts = f
      /\ q.members = p.members /\ q.board = p.board /\ q.closed = p.closed
  BY <1>1, <1>2, <1>3, <1>4 DEF RoomType
<1>6. Posts0(p, ids, q)
  BY <1>2, <1>5 DEF Posts0
<1>7. RoomSound(q, s.last_id, s.agents)
  <2>1. q.open = OpenQuestions(q.posts)
    <3>1. p.open = {i \in DOMAIN p.posts : is_open_question(p.posts[i])}
      BY <1>1 DEF RoomSound, OpenQuestions
    <3>2. OpenQuestions(q.posts) = {i \in DOMAIN p.posts \ ids : is_open_question(p.posts[i])}
      BY <1>2, <1>5 DEF OpenQuestions
    <3> HIDE DEF is_open_question
    <3> QED BY <1>3, <1>5, <3>1, <3>2
  <2>2. \A i \in DOMAIN q.posts : i \in DOMAIN p.posts /\ q.posts[i] = p.posts[i]
    BY <1>2, <1>5
  <2> QED BY <1>1, <1>5, <2>1, <2>2 DEF RoomSound, is_open
<1>8. Sound(v) /\ Placed(s, r, q, v)
  BY <1>5, <1>7, SoundIn
<1>9. kk \in Maps(PostKey, Nat)
  <2>1. s.post_keys \in Maps(PostKey, Nat)
    BY <1>1, StoreHas
  <2>2. LeavesIn(PostKey, Nat, s.post_keys, KeysOf(r, p.posts, ids))
    BY <2>1, WithoutIs
  <2> QED BY <2>2 DEF LeavesIn
<1>10. u = [v EXCEPT !.post_keys = kk]
  <2>1. v.post_keys = s.post_keys /\ v \in StoreType
    BY <1>8 DEF Placed
  <2>2. v = [last_id |-> v.last_id, agents |-> v.agents, rooms |-> v.rooms, post_keys |-> v.post_keys]
    BY <2>1, StoreHas
  <2>3. u = [v EXCEPT !.post_keys = Without(@, KeysOf(r, p.posts, ids))]
    BY DEF apply_drop_posts, p, q
  <2> HIDE DEF v, u
  <2> QED BY <2>1, <2>2, <2>3
<1> HIDE DEF u, v, kk
<1>11. /\ u \in StoreType /\ u.last_id = v.last_id /\ u.agents = v.agents /\ u.rooms = v.rooms
       /\ u.post_keys = kk
  <2>1. v \in StoreType
    BY <1>8 DEF Placed
  <2> QED BY <1>9, <1>10, <2>1 DEF StoreType
<1>12. Sound(u)
  BY <1>8, <1>11 DEF Sound
<1>13. DroppedAt(s, r, ids, u)
  BY <1>6, <1>8, <1>11, <1>12 DEF DroppedAt, Placed, kk, p
<1> QED BY <1>13 DEF u

\* With posts go their keys, and those alone.
LEMMA DropKeys ==
    ASSUME NEW s, KeysRight(s), NEW r \in DOMAIN s.rooms, NEW ids, ids \subseteq DOMAIN s.rooms[r].posts,
           NEW u, DroppedAt(s, r, ids, u)
    PROVE  KeysRight(u)
<1> DEFINE gone == KeysOf(r, s.rooms[r].posts, ids)
<1>1. /\ DOMAIN u.rooms = DOMAIN s.rooms
      /\ \A y \in DOMAIN s.rooms : y # r => u.rooms[y] = s.rooms[y]
      /\ DOMAIN u.rooms[r].posts = DOMAIN s.rooms[r].posts \ ids
      /\ \A i \in DOMAIN u.rooms[r].posts : u.rooms[r].posts[i] = s.rooms[r].posts[i]
  BY DEF DroppedAt, Posts0
<1>2. /\ DOMAIN u.post_keys = DOMAIN s.post_keys \ gone
      /\ \A y \in DOMAIN u.post_keys : u.post_keys[y] = s.post_keys[y]
  BY DEF DroppedAt, Without
<1>3. \A k \in gone : \E i \in ids : s.rooms[r].posts[i].key # None /\ k = KeyOf(r, s.rooms[r].posts[i])
  BY DEF KeysOf, KeyOf
<1>4. \A i \in ids : s.rooms[r].posts[i].key # None => KeyOf(r, s.rooms[r].posts[i]) \in gone
  BY DEF KeysOf, KeyOf
<1> HIDE DEF gone
<1>5. ASSUME NEW y \in DOMAIN u.rooms, NEW i \in DOMAIN u.rooms[y].posts
      PROVE  i \in DOMAIN s.rooms[y].posts /\ u.rooms[y].posts[i] = s.rooms[y].posts[i]
                /\ (y = r => i \notin ids)
  BY <1>1
<1>6. ASSUME NEW y \in DOMAIN u.rooms, NEW i \in DOMAIN u.rooms[y].posts,
             u.rooms[y].posts[i].key # None
      PROVE  /\ KeyOf(y, u.rooms[y].posts[i]) \in DOMAIN u.post_keys
             /\ u.post_keys[KeyOf(y, u.rooms[y].posts[i])] = i
  <2> DEFINE k == KeyOf(y, s.rooms[y].posts[i])
  <2>1. k \in DOMAIN s.post_keys /\ s.post_keys[k] = i
    BY <1>1, <1>5, <1>6 DEF KeysRight
  <2>2. k \notin gone
    <3> SUFFICES ASSUME k \in gone PROVE FALSE
      OBVIOUS
    <3>1. PICK j \in ids : s.rooms[r].posts[j].key # None /\ k = KeyOf(r, s.rooms[r].posts[j])
      BY <1>3
    <3>2. s.post_keys[k] = j
      BY <3>1 DEF KeysRight
    <3>3. y = r
      BY <3>1 DEF KeyOf
    <3> QED BY <1>5, <2>1, <3>2, <3>3
  <2> QED BY <1>2, <1>5, <2>1, <2>2
<1>7. ASSUME NEW z \in DOMAIN u.post_keys
      PROVE  \E y \in DOMAIN u.rooms : \E i \in DOMAIN u.rooms[y].posts :
                u.rooms[y].posts[i].key # None /\ z = KeyOf(y, u.rooms[y].posts[i])
  <2>1. z \in DOMAIN s.post_keys /\ z \notin gone
    BY <1>2
  <2>2. PICK y \in DOMAIN s.rooms : \E i \in DOMAIN s.rooms[y].posts :
              s.rooms[y].posts[i].key # None /\ z = KeyOf(y, s.rooms[y].posts[i])
    BY <2>1 DEF KeysRight
  <2>3. PICK i \in DOMAIN s.rooms[y].posts :
              s.rooms[y].posts[i].key # None /\ z = KeyOf(y, s.rooms[y].posts[i])
    BY <2>2
  <2>4. y = r => i \notin ids
    BY <1>4, <2>1, <2>3
  <2>5. i \in DOMAIN u.rooms[y].posts
    BY <1>1, <2>4
  <2> QED BY <1>1, <1>5, <2>3, <2>5
<1> QED BY <1>6, <1>7 DEF KeysRight

\* A room stays as fair without posts it need not keep.
LEMMA DropFair ==
    ASSUME NEW p, NEW n \in Nat, NEW A, RoomSound(p, n, A), RoomFair(p),
           NEW ids, Unkept(p, ids), NEW q, Posts0(p, ids, q)
    PROVE  RoomFair(q)
<1>1. /\ DOMAIN q.posts = DOMAIN p.posts \ ids /\ q.open = p.open
      /\ \A i \in DOMAIN q.posts : q.posts[i] = p.posts[i]
  BY DEF Posts0
<1>2. \A y \in p.open : y \in DOMAIN p.posts /\ is_open_question(p.posts[y])
  BY DEF RoomSound, OpenQuestions
<1>3. \A y \in p.open : y \in DOMAIN q.posts
  BY <1>1, <1>2 DEF Unkept, keeps
<1>4. \A y : Answers(q, y) \subseteq Answers(p, y) /\ Answers(q, y) \subseteq DOMAIN q.posts
  BY <1>1 DEF Answers
<1>5. \A a : OpenOf(q, a) = OpenOf(p, a)
  BY <1>1, <1>3 DEF OpenOf
<1> QED BY <1>1, <1>3, <1>4, <1>5 DEF RoomFair

\* What is to be kept of a room is in what grows from it, and to be kept there.
LEMMA KeepsStill ==
    ASSUME NEW r, NEW p, NEW q, NEW n \in Nat, NEW K, RoomGrew(r, p, q, n, K),
           DOMAIN p.posts \subseteq 1 .. n, NEW x \in DOMAIN p.posts, keeps(p, p.posts[x])
    PROVE  x \in DOMAIN q.posts /\ q.posts[x] = p.posts[x] /\ keeps(q, q.posts[x])
<1>1. ASSUME NEW y \in DOMAIN p.posts, keeps(p, p.posts[y])
      PROVE  y \in DOMAIN q.posts /\ q.posts[y] = p.posts[y]
  <2>1. y <= n
    OBVIOUS
  <2>2. y \in DOMAIN q.posts
    BY <1>1 DEF RoomGrew
  <2> QED BY <2>1, <2>2 DEF RoomGrew
<1>2. CASE is_open_question(p.posts[x])
  BY <1>1, <1>2 DEF keeps
<1>3. CASE ~is_open_question(p.posts[x])
  <2> DEFINE z == p.posts[x].reply_to
  <2>1. p.posts[x].kind = "answer" /\ z \in DOMAIN p.posts /\ is_open_question(p.posts[z])
    BY <1>3 DEF keeps
  <2>2. keeps(p, p.posts[z])
    BY <2>1 DEF keeps
  <2>3. z \in DOMAIN q.posts /\ q.posts[z] = p.posts[z]
    BY <1>1, <2>1, <2>2
  <2>4. x \in DOMAIN q.posts /\ q.posts[x] = p.posts[x]
    BY <1>1
  <2> QED BY <2>1, <2>3, <2>4 DEF keeps
<1> QED BY <1>2, <1>3

\* Trimming a room that posts were added to is no loss to it.
LEMMA DropGrown ==
    ASSUME NEW s0, NEW K, NEW s \in Grown(s0, K), Sound(s0), NEW r \in DOMAIN s.rooms,
           NEW ids, Unkept(s.rooms[r], ids)
    PROVE  LET u == apply_drop_posts(s, r, ids)
           IN  u \in Grown(s0, K) /\ DroppedAt(s, r, ids, u) /\ SameFrame(s, u)
<1> DEFINE u == apply_drop_posts(s, r, ids)
<1>1. Sound(s) /\ Grew(s0, s, K) /\ (Fair(s0) => Fair(s)) /\ s.last_id \in Nat /\ s0.last_id \in Nat
  BY StoreHas DEF Grown, Sound
<1>2. DroppedAt(s, r, ids, u)
  BY <1>1, DropTo
<1> HIDE DEF u
<1>3. /\ u \in StoreType /\ Sound(u) /\ DOMAIN u.rooms = DOMAIN s.rooms /\ u.last_id = s.last_id
      /\ Posts0(s.rooms[r], ids, u.rooms[r]) /\ u.agents = s.agents
      /\ \A y \in DOMAIN s.rooms : y # r => u.rooms[y] = s.rooms[y]
  BY <1>2 DEF DroppedAt
<1>4. ASSUME Fair(s) PROVE Fair(u)
  <2>1. KeysRight(u)
    BY <1>2, <1>4, DropKeys DEF Fair, Unkept
  <2>2. RoomFair(u.rooms[r])
    <3>1. RoomSound(s.rooms[r], s.last_id, s.agents) /\ RoomFair(s.rooms[r])
      BY <1>1, <1>4 DEF Sound, Fair
    <3> QED BY <1>1, <1>3, <3>1, DropFair
  <2>3. \A y \in DOMAIN u.rooms : RoomFair(u.rooms[y])
    BY <1>3, <1>4, <2>2 DEF Fair
  <2> QED BY <2>1, <2>3 DEF Fair
<1>5. ASSUME NEW y \in DOMAIN s0.rooms \cap DOMAIN u.rooms
      PROVE  RoomGrew(y, s0.rooms[y], u.rooms[y], s0.last_id, K)
  <2>1. RoomGrew(y, s0.rooms[y], s.rooms[y], s0.last_id, K)
    BY <1>1, <1>3 DEF Grew
  <2>2. CASE y # r
    BY <1>3, <2>1, <2>2
  <2>3. CASE y = r
    <3> DEFINE p0 == s0.rooms[r]
               p == s.rooms[r]
               q == u.rooms[r]
    <3>1. DOMAIN p0.posts \subseteq 1 .. s0.last_id
      BY <2>3 DEF Sound, RoomSound
    <3>2. RoomGrew(r, p0, p, s0.last_id, K)
      BY <2>1, <2>3
    <3>3. /\ DOMAIN q.posts = DOMAIN p.posts \ ids /\ q.board = p.board
          /\ \A i \in DOMAIN q.posts : q.posts[i] = p.posts[i]
      BY <1>3 DEF Posts0
    <3>4. Unkept(p, ids)
      OBVIOUS
    <3> HIDE DEF p0, p, q
    <3>5. ASSUME NEW x \in DOMAIN p0.posts, keeps(p0, p0.posts[x]) PROVE x \in DOMAIN q.posts
      <4>1. x \in DOMAIN p.posts /\ keeps(p, p.posts[x])
        BY <1>1, <3>1, <3>2, <3>5, KeepsStill
      <4> QED BY <3>3, <3>4, <4>1 DEF Unkept
    <3>6. RoomGrew(r, p0, q, s0.last_id, K)
      BY <3>2, <3>3, <3>5 DEF RoomGrew
    <3> QED BY <2>3, <3>6 DEF p0, q
  <2> QED BY <2>2, <2>3
<1>9. ASSUME NEW y \in DOMAIN u.rooms \ DOMAIN s0.rooms PROVE NewIn(y, u.rooms[y], K)
  <2>1. NewIn(y, s.rooms[y], K)
    BY <1>1, <1>3 DEF Grew
  <2>2. CASE y # r
    BY <1>3, <2>1, <2>2
  <2>3. CASE y = r
    <3>1. /\ DOMAIN u.rooms[r].posts \subseteq DOMAIN s.rooms[r].posts
          /\ \A i \in DOMAIN u.rooms[r].posts : u.rooms[r].posts[i] = s.rooms[r].posts[i]
      BY <1>3 DEF Posts0
    <3> QED BY <2>1, <2>3, <3>1 DEF NewIn
  <2> QED BY <2>2, <2>3
<1>6. Grew(s0, u, K)
  BY <1>1, <1>3, <1>5, <1>9 DEF Grew
<1>7. u \in Grown(s0, K)
  BY <1>1, <1>3, <1>4, <1>6 DEF Grown
<1>8. SameFrame(s, u)
  BY <1>1, <1>3 DEF SameFrame, Posts0
<1> QED BY <1>2, <1>7, <1>8 DEF u
-----------------------------------------------------------------------------
(***************************************************************************)
(* Rows of commits: posts, and what the room keeps of them.                *)
(***************************************************************************)
\* The row `longer` goes on from `row`, its agents the same and its rooms as open.
GoesOn(s0, K, row, longer) == /\ longer \in Rows(Grown(s0, K))
                              /\ SameFrame(Last(row), Last(longer))

\* A store frames itself.
LEMMA FrameSame == ASSUME NEW s, NEW n \in Nat, s.last_id = n PROVE SameFrame(s, s)
  BY DEF SameFrame

\* Frames that follow on one another make one.
LEMMA FrameOn ==
    ASSUME NEW s, NEW t, NEW u, SameFrame(s, t), SameFrame(t, u),
           s.last_id \in Nat, t.last_id \in Nat, u.last_id \in Nat
    PROVE  SameFrame(s, u)
  BY DEF SameFrame

\* What the last store of a row is.
LEMMA LastIs ==
    ASSUME NEW s0, NEW K, NEW row \in Rows(Grown(s0, K))
    PROVE  /\ Last(row) \in Grown(s0, K) /\ Sound(Last(row)) /\ Grew(s0, Last(row), K)
           /\ Fair(s0) => Fair(Last(row))
           /\ Last(row).last_id \in Nat
<1>1. Last(row) \in Grown(s0, K)
  BY RowIs
<1>2. Sound(Last(row)) /\ Grew(s0, Last(row), K) /\ (Fair(s0) => Fair(Last(row)))
  BY <1>1 DEF Grown
<1>3. Last(row).last_id \in Nat
  BY <1>2, StoreHas DEF Sound
<1> QED BY <1>1, <1>2, <1>3

\* Rows that go on from one another make one.
LEMMA GoesOnOn ==
    ASSUME NEW s0, NEW K, NEW a \in Rows(Grown(s0, K)), NEW b, NEW c, GoesOn(s0, K, a, b), GoesOn(s0, K, b, c)
    PROVE  GoesOn(s0, K, a, c)
<1>1. b \in Rows(Grown(s0, K)) /\ c \in Rows(Grown(s0, K))
  BY DEF GoesOn
<1>2. Last(a).last_id \in Nat /\ Last(b).last_id \in Nat /\ Last(c).last_id \in Nat
  BY <1>1, LastIs
<1>3. SameFrame(Last(a), Last(b)) /\ SameFrame(Last(b), Last(c))
  BY DEF GoesOn
<1>4. SameFrame(Last(a), Last(c))
  BY <1>2, <1>3, FrameOn
<1> QED BY <1>1, <1>4 DEF GoesOn

\* What is to be kept of p is in q.
AllKept(p, q) ==
    \A i \in DOMAIN p.posts :
       keeps(p, p.posts[i]) => i \in DOMAIN q.posts /\ q.posts[i] = p.posts[i]

\* Timelines are trimmed of what need not be kept.
LEMMA TrimIs ==
    ASSUME NEW s0, Sound(s0), NEW K, NEW row \in Rows(Grown(s0, K)), NEW r \in DOMAIN Last(row).rooms
    PROVE  /\ GoesOn(s0, K, row, trim_room(row, r))
           /\ AllKept(Last(row).rooms[r], Last(trim_room(row, r)).rooms[r])
<1> DEFINE s == Last(row)
           room == s.rooms[r]
           excess == Cardinality(DOMAIN room.posts) - RoomHistory
           ids == First({id \in DOMAIN room.posts : ~keeps(room, room.posts[id])}, excess)
           u == apply_drop_posts(s, r, ids)
<1>1. s \in Grown(s0, K) /\ s.last_id \in Nat
  BY LastIs
<1>2. trim_room(row, r) = row \/ trim_room(row, r) = Append(row, u)
  BY DEF trim_room
<1>3. Unkept(room, ids)
  BY DEF Unkept, First
<1> HIDE DEF ids, s
<1>4. u \in Grown(s0, K) /\ DroppedAt(s, r, ids, u) /\ SameFrame(s, u)
  BY <1>1, <1>3, DropGrown DEF s
<1> HIDE DEF u
<1>5. AllKept(room, u.rooms[r])
  <2>1. /\ DOMAIN u.rooms[r].posts = DOMAIN room.posts \ ids
        /\ \A i \in DOMAIN u.rooms[r].posts : u.rooms[r].posts[i] = room.posts[i]
    BY <1>4 DEF DroppedAt, Posts0
  <2> QED BY <1>3, <2>1 DEF AllKept, Unkept
<1>6. CASE trim_room(row, r) = row
  <2>1. SameFrame(s, s) /\ AllKept(room, room)
    BY <1>1, FrameSame DEF AllKept
  <2> QED BY <1>6, <2>1 DEF GoesOn, s
<1>7. CASE trim_room(row, r) = Append(row, u)
  <2>1. Append(row, u) \in Rows(Grown(s0, K)) /\ Last(Append(row, u)) = u
    BY <1>4, RowMore
  <2> QED BY <1>4, <1>5, <1>7, <2>1 DEF GoesOn, s
<1> QED BY <1>2, <1>6, <1>7

\* The post x can be put in the room r of s, under the next id.
MayPost(s0, s, r, x, K) ==
    /\ x \in PostType /\ PostSound(x, s.last_id)
    /\ is_open_question(x) => is_open(s.rooms[r])
    /\ <<r, x.kind, x.reply_to>> \in K
    /\ Fair(s0) => Fits(s.rooms[r], x) /\ KeyNew(s, r, x)

\* Appending a post goes on with the row; all the room is to keep it keeps.
LEMMA AppendIs ==
    ASSUME NEW s0, Sound(s0), NEW K, NEW row \in Rows(Grown(s0, K)), NEW r \in DOMAIN Last(row).rooms,
           NEW x, MayPost(s0, Last(row), r, x, K)
    PROVE  /\ GoesOn(s0, K, row, append(row, r, x))
           /\ \E u : /\ PostedAt(Last(row), r, x, u)
                     /\ AllKept(u.rooms[r], Last(append(row, r, x)).rooms[r])
<1> DEFINE s == Last(row)
           u == apply_post(s, r, s.last_id + 1, x)
           more == Append(row, u)
           all == append(row, r, x)
<1>1. s \in Grown(s0, K) /\ s.last_id \in Nat
  BY LastIs
<1>2. all = trim_room(more, r)
  BY DEF append
<1> HIDE DEF all
<1>3. u \in Grown(s0, K) /\ PostedAt(s, r, x, u) /\ SameFrame(s, u)
  <2> HIDE DEF s, u
  <2>1. r \in DOMAIN s.rooms /\ MayPost(s0, s, r, x, K)
    BY DEF s
  <2> QED BY <1>1, <2>1, PostGrown DEF MayPost, u
<1> HIDE DEF u
<1>4. more \in Rows(Grown(s0, K)) /\ Last(more) = u
  BY <1>3, RowMore
<1>5. GoesOn(s0, K, row, more)
  BY <1>3, <1>4 DEF GoesOn
<1>6. r \in DOMAIN u.rooms
  BY <1>3 DEF SameFrame
<1> HIDE DEF more, s
<1>7. GoesOn(s0, K, more, all) /\ AllKept(u.rooms[r], Last(all).rooms[r])
  BY <1>2, <1>4, <1>6, TrimIs
<1>8. GoesOn(s0, K, row, all)
  BY <1>4, <1>5, <1>7, GoesOnOn
<1> QED BY <1>3, <1>7, <1>8 DEF all, s

Event(a) == Post(a, "event", None, None, None)
Events == {<<r, "event", None>> : r \in Name}

\* A line in a timeline can always be put there.
LEMMA EventIs ==
    ASSUME NEW s0, NEW s, Sound(s), NEW r \in DOMAIN s.rooms, NEW a \in Agent, NEW K,
           Events \subseteq K
    PROVE  MayPost(s0, s, r, Event(a), K)
<1>1. r \in Name
  BY StoreHas DEF Sound
<1>2. <<r, "event", None>> \in K
  BY <1>1 DEF Events
<1> DEFINE x == Event(a)
<1>3. x.kind = "event" /\ x.ask = None /\ x.key = None /\ x.from = a /\ x.reply_to = None
  BY DEF Event, Post
<1>4. x \in PostType
  BY DEF Event, Post, PostType, Kind
<1> HIDE DEF x
<1>5. PostSound(x, s.last_id) /\ ~is_open_question(x)
  BY <1>3 DEF PostSound, is_open_question
<1>6. Fits(s.rooms[r], x) /\ KeyNew(s, r, x)
  BY <1>3, <1>5 DEF Fits, KeyNew
<1>7. MayPost(s0, s, r, x, K)
  BY <1>2, <1>3, <1>4, <1>5, <1>6 DEF MayPost
<1> QED BY <1>7 DEF x

\* A line in the timeline.
LEMMA LogIs ==
    ASSUME NEW s0, Sound(s0), NEW K, Events \subseteq K, NEW row \in Rows(Grown(s0, K)),
           NEW r \in DOMAIN Last(row).rooms, NEW a \in Agent
    PROVE  GoesOn(s0, K, row, log(row, r, a))
<1>1. Sound(Last(row))
  BY LastIs
<1>2. MayPost(s0, Last(row), r, Event(a), K)
  BY <1>1, EventIs
<1>3. log(row, r, a) = append(row, r, Event(a))
  BY DEF log, Event
<1> QED BY <1>2, <1>3, AppendIs

\* One commit that changes a room quietly.
LEMMA QuietRow ==
    ASSUME NEW s0, NEW K, NEW row \in Rows(Grown(s0, K)), NEW r, NEW t, QuietTo(Last(row), r, t)
    PROVE  Append(row, t) \in Rows(Grown(s0, K)) /\ Last(Append(row, t)) = t
<1>1. t \in Grown(s0, K)
  BY LastIs DEF QuietTo
<1> QED BY <1>1, RowMore

\* A member comes in, or takes another role.
LEMMA JoinedIs ==
    ASSUME NEW s0, Sound(s0), NEW K, Events \subseteq K, NEW row \in Rows(Grown(s0, K)),
           NEW r \in DOMAIN Last(row).rooms, NEW a \in Last(row).agents,
           NEW m \in MemberType, m.cursor <= Last(row).last_id, NEW actor \in Agent
    PROVE  GoesOn(s0, K, row, joined(row, r, a, m, actor))
<1> DEFINE s == Last(row)
           t == apply_member(s, r, a, m)
           more == Append(row, t)
<1>1. Sound(s)
  BY LastIs
<1> HIDE DEF s
<1>2. QuietTo(s, r, t) /\ SameFrame(s, t)
  BY <1>1, MemberIs DEF s
<1> HIDE DEF t
<1>3. more \in Rows(Grown(s0, K)) /\ Last(more) = t
  BY <1>2, QuietRow DEF s
<1>4. GoesOn(s0, K, row, more)
  BY <1>2, <1>3 DEF GoesOn, s
<1>5. r \in DOMAIN Last(more).rooms
  BY <1>2, <1>3 DEF SameFrame, s
<1>6. joined(row, r, a, m, actor) = log(more, r, actor)
  BY DEF joined, t, s
<1> HIDE DEF more
<1>7. GoesOn(s0, K, more, log(more, r, actor))
  BY <1>3, <1>5, LogIs
<1> QED BY <1>3, <1>4, <1>6, <1>7, GoesOnOn
-----------------------------------------------------------------------------
(***************************************************************************)
(* Agents come and go.                                                     *)
(***************************************************************************)
\* Every room keeps its posts, questions and board.
QuietAll(s, t) ==
    /\ t \in StoreType /\ Sound(t) /\ t.last_id = s.last_id /\ t.post_keys = s.post_keys
    /\ DOMAIN t.rooms = DOMAIN s.rooms
    /\ \A x \in DOMAIN s.rooms : Unasked(s.rooms[x], t.rooms[x])

\* Agents that come and go add no post.
LEMMA QuietGrown ==
    ASSUME NEW s, NEW t, QuietAll(s, t), NEW s0, NEW K, s \in Grown(s0, K)
    PROVE  t \in Grown(s0, K)
<1>1. /\ t \in StoreType /\ Sound(t) /\ t.last_id = s.last_id /\ t.post_keys = s.post_keys
      /\ DOMAIN t.rooms = DOMAIN s.rooms
      /\ \A x \in DOMAIN s.rooms : Unasked(s.rooms[x], t.rooms[x])
  BY DEF QuietAll
<1>2. Grew(s0, s, K) /\ (Fair(s0) => Fair(s))
  BY DEF Grown
<1>3. ASSUME Fair(s) PROVE Fair(t)
  <2>1. \A x \in DOMAIN s.rooms : SameKeys(s.rooms[x].posts, t.rooms[x].posts)
    BY <1>1 DEF SameKeys, Unasked
  <2>2. KeysRight(t)
    BY <1>1, <1>3, <2>1, KeysIn DEF Fair
  <2>3. \A x \in DOMAIN t.rooms : RoomFair(t.rooms[x])
    BY <1>1, <1>3, FairSame DEF Fair, Unasked
  <2> QED BY <2>2, <2>3 DEF Fair
<1>4. ASSUME NEW x \in DOMAIN s0.rooms \cap DOMAIN t.rooms
      PROVE  RoomGrew(x, s0.rooms[x], t.rooms[x], s0.last_id, K)
  <2>1. RoomGrew(x, s0.rooms[x], s.rooms[x], s0.last_id, K) /\ Unasked(s.rooms[x], t.rooms[x])
    BY <1>1, <1>2 DEF Grew
  <2> QED BY <2>1 DEF RoomGrew, Unasked
<1>6. ASSUME NEW x \in DOMAIN t.rooms \ DOMAIN s0.rooms PROVE NewIn(x, t.rooms[x], K)
  <2>1. NewIn(x, s.rooms[x], K) /\ Unasked(s.rooms[x], t.rooms[x])
    BY <1>1, <1>2 DEF Grew
  <2> QED BY <2>1 DEF NewIn, Unasked
<1>5. Grew(s0, t, K)
  BY <1>1, <1>2, <1>4, <1>6 DEF Grew
<1> QED BY <1>1, <1>2, <1>3, <1>5 DEF Grown

\* As the store stands to itself.
LEMMA GrownSelf == ASSUME NEW s, Sound(s), NEW K PROVE s \in Grown(s, K)
<1>1. s.last_id \in Nat /\ s \in StoreType
  BY StoreHas DEF Sound
<1>2. ASSUME NEW r \in DOMAIN s.rooms
      PROVE  RoomGrew(r, s.rooms[r], s.rooms[r], s.last_id, K)
  <2>1. DOMAIN s.rooms[r].posts \subseteq 1 .. s.last_id
    BY DEF Sound, RoomSound
  <2>2. \A id \in DOMAIN s.rooms[r].posts : ~(id > s.last_id)
    BY <1>1, <2>1
  <2> QED BY <2>2 DEF RoomGrew, BoardRises
<1>3. Grew(s, s, K)
  BY <1>1, <1>2 DEF Grew
<1> QED BY <1>1, <1>3 DEF Grown

\* Agents and rooms, as some commits leave them: rooms are as open as they were.
ForgotTo(s, as, t) ==
    /\ QuietAll(s, t) /\ t.agents = s.agents \ as
    /\ \A r \in DOMAIN s.rooms : t.rooms[r].closed = s.rooms[r].closed

\* Forgetting agents takes them out of every room.
LEMMA ForgetIs ==
    ASSUME NEW s, Sound(s), NEW as
    PROVE  ForgotTo(s, as, apply_forget(s, as))
<1> DEFINE t == apply_forget(s, as)
           room(r) == [s.rooms[r] EXCEPT !.members = Without(@, as)]
           f == [r \in DOMAIN s.rooms |-> room(r)]
           A == s.agents \ as
<1>1. /\ s \in StoreType /\ s.last_id \in Nat /\ s.agents \in SUBSET Agent /\ IsFiniteSet(Agent)
      /\ DOMAIN s.rooms \subseteq Name
  BY StoreHas, AgentAssumption DEF Sound
<1>2. IsFiniteSet(A) /\ IsFiniteSet(s.agents) /\ Cardinality(A) <= Cardinality(s.agents)
         /\ Cardinality(A) \in Nat /\ Cardinality(s.agents) \in Nat
  BY <1>1, FS_Subset, FS_CardinalityType
<1>3. ASSUME NEW r \in DOMAIN s.rooms
      PROVE  /\ room(r) \in RoomType /\ RoomSound(room(r), s.last_id, A)
             /\ Unasked(s.rooms[r], room(r)) /\ room(r).closed = s.rooms[r].closed
  <2> DEFINE p == s.rooms[r]
             q == room(r)
             mm == Without(p.members, as)
  <2>1. p \in RoomType /\ RoomSound(p, s.last_id, s.agents)
    BY <1>1, StoreHas DEF Sound
  <2>2. p.members \in Maps(Agent, MemberType)
    BY <2>1, RoomHas
  <2> HIDE DEF p
  <2>3. LeavesIn(Agent, MemberType, p.members, as)
    BY <2>2, WithoutIs
  <2>4. /\ mm \in Maps(Agent, MemberType) /\ DOMAIN mm = DOMAIN p.members \ as
        /\ \A b \in DOMAIN mm : mm[b] = p.members[b]
    BY <2>3 DEF LeavesIn
  <2>5. q = [p EXCEPT !.members = mm]
    BY DEF p
  <2> HIDE DEF mm, q
  <2>6. /\ q \in RoomType /\ q.members = mm /\ q.posts = p.posts /\ q.open = p.open
        /\ q.board = p.board /\ q.closed = p.closed
    BY <2>1, <2>4, <2>5 DEF RoomType
  <2>7. RoomSound(q, s.last_id, A) /\ Unasked(p, q)
    BY <2>1, <2>4, <2>6 DEF RoomSound, Unasked, is_open
  <2> QED BY <2>6, <2>7 DEF p, q
<1>5. t = [s EXCEPT !.agents = A, !.rooms = f]
  BY DEF apply_forget
<1> HIDE DEF room
<1>4. f \in Maps(Name, RoomType) /\ DOMAIN f = DOMAIN s.rooms /\ \A r \in DOMAIN s.rooms : f[r] = room(r)
  <2>1. f \in [DOMAIN s.rooms -> RoomType]
    BY <1>3
  <2> QED BY <1>1, <2>1, MapMade
<1> HIDE DEF f, t, A
<1>6. /\ t \in StoreType /\ t.last_id = s.last_id /\ t.agents = A /\ t.rooms = f
      /\ t.post_keys = s.post_keys
  <2>1. A \in SUBSET Agent
    BY <1>1 DEF A
  <2> QED BY <1>1, <1>4, <1>5, <2>1 DEF StoreType
<1>7. Sound(t)
  <2>1. Cardinality(A) <= MaxAgents
    BY <1>2, LimitsAssumption DEF Sound
  <2> QED BY <1>3, <1>4, <1>6, <2>1 DEF Sound
<1>8. ForgotTo(s, as, t)
  BY <1>3, <1>4, <1>6, <1>7 DEF ForgotTo, QuietAll, A
<1> QED BY <1>8 DEF t

\* Agents known, when there is room for them.
KnownTo(s, as, t) ==
    /\ QuietAll(s, t) /\ t.agents = s.agents \cup as
    /\ \A r \in DOMAIN s.rooms : t.rooms[r].closed = s.rooms[r].closed

\* Agents that there is room for become known.
LEMMA AgentIs ==
    ASSUME NEW s, Sound(s), NEW as \in SUBSET Agent, Cardinality(s.agents \cup as) <= MaxAgents
    PROVE  KnownTo(s, as, apply_agent(s, as))
<1> DEFINE t == apply_agent(s, as)
           A == s.agents \cup as
<1>1. /\ s \in StoreType /\ s.last_id \in Nat /\ s.agents \in SUBSET Agent
  BY StoreHas DEF Sound
<1>2. t = [s EXCEPT !.agents = A]
  BY DEF apply_agent
<1> HIDE DEF t
<1>3. /\ t \in StoreType /\ t.last_id = s.last_id /\ t.agents = A /\ t.rooms = s.rooms
      /\ t.post_keys = s.post_keys
  BY <1>1, <1>2 DEF StoreType
<1>4. ASSUME NEW r \in DOMAIN t.rooms PROVE RoomSound(t.rooms[r], t.last_id, t.agents)
  <2>1. s.rooms[r] \in RoomType /\ RoomSound(s.rooms[r], s.last_id, s.agents)
    BY <1>1, <1>3, StoreHas DEF Sound
  <2>2. s.agents \subseteq A
    OBVIOUS
  <2>4. s.last_id <= s.last_id
    BY <1>1
  <2> HIDE DEF A
  <2>3. RoomSound(s.rooms[r], s.last_id, A)
    BY <1>1, <2>1, <2>2, <2>4, RoomSoundMore
  <2> QED BY <1>3, <2>3
<1>5. Sound(t)
  BY <1>3, <1>4 DEF Sound
<1>6. KnownTo(s, as, t)
  BY <1>3, <1>5 DEF KnownTo, QuietAll, Unasked
<1> QED BY <1>6 DEF t

\* Rooms are there as they were, and as open.
SameRooms(s, t) == /\ t.last_id = s.last_id /\ DOMAIN t.rooms = DOMAIN s.rooms
                   /\ \A r \in DOMAIN s.rooms : t.rooms[r].closed = s.rooms[r].closed

\* A commit for each agent forgotten comes to all of them forgotten.
LEMMA ForgottenIs ==
    ASSUME NEW s0, NEW K, NEW row \in Rows(Grown(s0, K)), NEW as \in SUBSET Agent
    PROVE  /\ forgotten(row, as) \in Rows(Grown(s0, K))
           /\ Last(forgotten(row, as)).agents = Last(row).agents \ as
           /\ SameRooms(Last(row), Last(forgotten(row, as)))
<1> DEFINE s == Last(row)
           c == Cardinality(as)
           g == [n \in 1 .. c |-> apply_forget(s, Some(as, n))]
<1>1. s \in Grown(s0, K) /\ Sound(s)
  BY LastIs
<1>2. IsFiniteSet(as)
  BY AgentAssumption, FS_Subset
<1>3. /\ c \in Nat /\ (c = 0 => as = {}) /\ Some(as, c) = as
  BY <1>2, SomeIs
<1>4. forgotten(row, as) = row \o g
  BY DEF forgotten
<1> HIDE DEF c, s
<1>5. \A n \in 1 .. c : ForgotTo(s, Some(as, n), apply_forget(s, Some(as, n)))
  BY <1>1, ForgetIs
<1>6. \A n \in 1 .. c : apply_forget(s, Some(as, n)) \in Grown(s0, K)
  BY <1>1, <1>5, QuietGrown DEF ForgotTo
<1>7. g \in [1 .. c -> Grown(s0, K)]
  BY <1>6
<1>8. c # 0 => g[c] = apply_forget(s, as) /\ ForgotTo(s, as, g[c])
  <2> SUFFICES ASSUME c # 0 PROVE g[c] = apply_forget(s, as) /\ ForgotTo(s, as, g[c])
    OBVIOUS
  <2>1. c \in 1 .. c
    BY <1>3
  <2> QED BY <1>3, <1>5, <2>1
<1> HIDE DEF g
<1>9. row \o g \in Rows(Grown(s0, K)) /\ Last(row \o g) = IF c = 0 THEN Last(row) ELSE g[c]
  BY <1>3, <1>7, RowWith
<1>10. CASE c = 0
  <2>1. Last(row \o g) = s /\ s.agents \ as = s.agents
    BY <1>3, <1>9, <1>10 DEF s
  <2> QED BY <1>4, <1>9, <2>1 DEF SameRooms, s
<1>11. CASE c # 0
  <2>1. ForgotTo(s, as, Last(row \o g))
    BY <1>8, <1>9, <1>11
  <2> QED BY <1>4, <1>9, <2>1 DEF ForgotTo, QuietAll, SameRooms, s
<1> QED BY <1>10, <1>11

\* A commit for each agent known comes to all of them known.
LEMMA KnownIs ==
    ASSUME NEW s0, NEW K, NEW row \in Rows(Grown(s0, K)), NEW as \in SUBSET Agent,
           Cardinality(Last(row).agents \cup as) <= MaxAgents
    PROVE  /\ known(row, as) \in Rows(Grown(s0, K))
           /\ Last(known(row, as)).agents = Last(row).agents \cup as
           /\ SameRooms(Last(row), Last(known(row, as)))
<1> DEFINE s == Last(row)
           c == Cardinality(as)
           g == [n \in 1 .. c |-> apply_agent(s, Some(as, n))]
<1>1. s \in Grown(s0, K) /\ Sound(s)
  BY LastIs
<1>2. IsFiniteSet(as) /\ IsFiniteSet(Agent)
  BY AgentAssumption, FS_Subset
<1>3. /\ c \in Nat /\ (c = 0 => as = {}) /\ Some(as, c) = as /\ \A n \in 1 .. c : Some(as, n) \subseteq as
  BY <1>2, SomeIs
<1>4. known(row, as) = row \o g
  BY DEF known
<1>5. s.agents \in SUBSET Agent
  BY <1>1, StoreHas DEF Sound
<1> HIDE DEF c, s
<1>6. ASSUME NEW n \in 1 .. c PROVE KnownTo(s, Some(as, n), apply_agent(s, Some(as, n)))
  <2> DEFINE B == s.agents \cup Some(as, n)
             C == s.agents \cup as
  <2>1. B \in SUBSET C /\ C \in SUBSET Agent
    BY <1>3, <1>5
  <2>2. Cardinality(C) <= MaxAgents
    BY DEF s
  <2> HIDE DEF B, C
  <2>3. Cardinality(B) <= Cardinality(C) /\ Cardinality(B) \in Nat /\ Cardinality(C) \in Nat
    BY <1>2, <2>1, FS_Subset, FS_CardinalityType
  <2>4. Cardinality(B) <= MaxAgents
    BY <2>2, <2>3, LimitsAssumption
  <2> QED BY <1>1, <1>3, <2>4, AgentIs DEF B
<1>7. \A n \in 1 .. c : apply_agent(s, Some(as, n)) \in Grown(s0, K)
  BY <1>1, <1>6, QuietGrown DEF KnownTo
<1>8. g \in [1 .. c -> Grown(s0, K)]
  BY <1>7
<1>9. c # 0 => g[c] = apply_agent(s, as) /\ KnownTo(s, as, g[c])
  <2> SUFFICES ASSUME c # 0 PROVE g[c] = apply_agent(s, as) /\ KnownTo(s, as, g[c])
    OBVIOUS
  <2>1. c \in 1 .. c
    BY <1>3
  <2> QED BY <1>3, <1>6, <2>1
<1> HIDE DEF g
<1>10. row \o g \in Rows(Grown(s0, K)) /\ Last(row \o g) = IF c = 0 THEN Last(row) ELSE g[c]
  BY <1>3, <1>8, RowWith
<1>11. CASE c = 0
  <2>1. Last(row \o g) = s /\ s.agents \cup as = s.agents
    BY <1>3, <1>10, <1>11 DEF s
  <2> QED BY <1>4, <1>10, <2>1 DEF SameRooms, s
<1>12. CASE c # 0
  <2>1. KnownTo(s, as, Last(row \o g))
    BY <1>9, <1>10, <1>12
  <2> QED BY <1>4, <1>10, <2>1 DEF KnownTo, QuietAll, SameRooms, s
<1> QED BY <1>11, <1>12

\* Agents made known, the least needed of the others forgotten: there is room for
\* them, and their names are known in the end.
LEMMA EnsureIs ==
    ASSUME Sound(store), NEW K, NEW names \in SUBSET Agent, NEW row \in ensure_agents(names)
    PROVE  /\ row \in Rows(Grown(store, K))
           /\ names \subseteq Last(row).agents /\ store.agents \cap names \subseteq Last(row).agents
           /\ SameRooms(store, Last(row))
<1> DEFINE missing == names \ store.agents
           excess == Cardinality(store.agents) + Cardinality(missing) - MaxAgents
           k == IF excess < 0 THEN 0 ELSE excess
           base == <<store>>
<1>1. store \in Grown(store, K) /\ store.agents \in SUBSET Agent /\ IsFiniteSet(Agent)
  BY GrownSelf, AgentAssumption, StoreHas DEF Sound
<1>2. base \in Rows(Grown(store, K)) /\ Last(base) = store
  BY <1>1, RowOne
<1>3. CASE missing = {}
  <2>1. row = base
    BY <1>3 DEF ensure_agents
  <2> QED BY <1>2, <1>3, <2>1 DEF SameRooms
<1>4. CASE missing # {}
  <2>1. PICK gone \in kSubset(k, store.agents \ (room_members(store) \cup names)) :
           row = known(forgotten(base, gone), missing)
    BY <1>4 DEF ensure_agents
  <2>2. gone \subseteq store.agents \ names /\ Cardinality(gone) = k
    BY DEF kSubset
  <2> DEFINE mid == forgotten(base, gone)
  <2> HIDE DEF base
  <2>3. gone \in SUBSET Agent /\ missing \in SUBSET Agent
    BY <1>1, <2>2
  <2>4. /\ mid \in Rows(Grown(store, K))
        /\ Last(mid).agents = store.agents \ gone
        /\ SameRooms(store, Last(mid))
    BY <1>2, <2>3, ForgottenIs
  <2> HIDE DEF mid
  <2>5. Cardinality(Last(mid).agents \cup missing) <= MaxAgents
    <3> DEFINE A == store.agents
               B == A \ gone
    <3>1. IsFiniteSet(A) /\ IsFiniteSet(missing) /\ IsFiniteSet(gone) /\ IsFiniteSet(B)
      BY <1>1, <2>3, FS_Subset
    <3>2. /\ Cardinality(A) \in Nat /\ Cardinality(missing) \in Nat /\ Cardinality(gone) \in Nat
          /\ Cardinality(B) \in Nat
      BY <3>1, FS_CardinalityType
    <3>3. gone \in SUBSET A
      BY <2>2
    <3>4. Cardinality(B) = Cardinality(A) - Cardinality(gone)
      <4>1. A \cap gone = gone
        BY <3>3
      <4>2. Cardinality(A \ gone) = Cardinality(A) - Cardinality(A \cap gone)
        BY <3>1, FS_Difference
      <4> QED BY <4>1, <4>2
    <3>5. B \cap missing = {}
      OBVIOUS
    <3> HIDE DEF B, missing
    <3>6. Cardinality(B \cup missing) = Cardinality(B) + Cardinality(missing) - Cardinality(B \cap missing)
      BY <3>1, FS_Union
    <3>7. Cardinality(B \cap missing) = 0
      BY <3>5, FS_EmptySet
    <3>9. Cardinality(A) + Cardinality(missing) - k <= MaxAgents /\ k \in Nat
      BY <3>2, LimitsAssumption
    <3>10. Cardinality(gone) = k
      BY <2>2
    <3> HIDE DEF k, A
    <3>8. Cardinality(B \cup missing) = Cardinality(A) - k + Cardinality(missing)
      BY <3>2, <3>4, <3>6, <3>7, <3>10
    <3>11. Cardinality(B \cup missing) <= MaxAgents
      <4>1. Cardinality(A) - k + Cardinality(missing) = Cardinality(A) + Cardinality(missing) - k
        BY <3>2, <3>9
      <4> QED BY <3>8, <3>9, <4>1
    <3>12. Last(mid).agents = B
      BY <2>4 DEF B, A
    <3> QED BY <3>11, <3>12
  <2>6. /\ row \in Rows(Grown(store, K))
        /\ Last(row).agents = Last(mid).agents \cup missing
        /\ SameRooms(Last(mid), Last(row))
    BY <2>1, <2>3, <2>4, <2>5, KnownIs DEF mid
  <2>7. SameRooms(store, Last(row))
    BY <2>4, <2>6 DEF SameRooms
  <2>8. names \subseteq Last(row).agents
    BY <2>2, <2>4, <2>6
  <2> QED BY <2>6, <2>7, <2>8
<1> QED BY <1>3, <1>4
-----------------------------------------------------------------------------
(***************************************************************************)
(* Rooms come and go, and entries of their boards.                         *)
(***************************************************************************)
\* Rooms rs are gone, with their keys, and the others are as they were.
RoomsGone(s, rs, t) ==
    /\ t \in StoreType /\ Sound(t) /\ t.last_id = s.last_id /\ t.agents = s.agents
    /\ DOMAIN t.rooms = DOMAIN s.rooms \ rs
    /\ \A r \in DOMAIN t.rooms : t.rooms[r] = s.rooms[r]
    /\ t.post_keys = Without(s.post_keys, {x \in DOMAIN s.post_keys : x[1] \in rs})

\* Rooms dropped are gone with their keys.
LEMMA RoomsGoneIs ==
    ASSUME NEW s, Sound(s), NEW rs
    PROVE  RoomsGone(s, rs, apply_drop_room(s, rs))
<1> DEFINE t == apply_drop_room(s, rs)
           f == Without(s.rooms, rs)
           kk == Without(s.post_keys, {x \in DOMAIN s.post_keys : x[1] \in rs})
<1>1. s \in StoreType
  BY DEF Sound
<1>2. /\ f \in Maps(Name, RoomType) /\ DOMAIN f = DOMAIN s.rooms \ rs
      /\ \A r \in DOMAIN f : f[r] = s.rooms[r]
  <2>1. s.rooms \in Maps(Name, RoomType)
    BY <1>1, StoreHas
  <2>2. LeavesIn(Name, RoomType, s.rooms, rs)
    BY <2>1, WithoutIs
  <2> QED BY <2>2 DEF LeavesIn
<1>3. kk \in Maps(PostKey, Nat)
  <2>1. s.post_keys \in Maps(PostKey, Nat)
    BY <1>1, StoreHas
  <2>2. LeavesIn(PostKey, Nat, s.post_keys, {x \in DOMAIN s.post_keys : x[1] \in rs})
    BY <2>1, WithoutIs
  <2> QED BY <2>2 DEF LeavesIn
<1>4. t = [s EXCEPT !.rooms = f, !.post_keys = kk]
  BY DEF apply_drop_room
<1> HIDE DEF t, f, kk
<1>5. /\ t \in StoreType /\ t.last_id = s.last_id /\ t.agents = s.agents /\ t.rooms = f
      /\ t.post_keys = kk
  BY <1>1, <1>2, <1>3, <1>4 DEF StoreType
<1>6. IsFiniteSet(DOMAIN t.rooms) /\ Cardinality(DOMAIN t.rooms) <= MaxRooms
  <2> DEFINE A == DOMAIN s.rooms
             B == DOMAIN t.rooms
  <2>1. B \in SUBSET A /\ IsFiniteSet(A) /\ Cardinality(A) <= MaxRooms
    BY <1>2, <1>5 DEF Sound
  <2> HIDE DEF A, B
  <2>2. IsFiniteSet(B) /\ Cardinality(B) <= Cardinality(A) /\ Cardinality(A) \in Nat /\ Cardinality(B) \in Nat
    BY <2>1, FS_Subset, FS_CardinalityType
  <2>3. Cardinality(B) <= MaxRooms
    BY <2>1, <2>2, LimitsAssumption
  <2> QED BY <2>2, <2>3 DEF B
<1>7. Sound(t)
  BY <1>2, <1>5, <1>6 DEF Sound
<1>8. RoomsGone(s, rs, t)
  BY <1>2, <1>5, <1>7 DEF RoomsGone, kk
<1> QED BY <1>8 DEF t

\* The rooms that stay are as fair as they were.
LEMMA GoneFair ==
    ASSUME NEW s, Fair(s), NEW rs, NEW t, RoomsGone(s, rs, t)
    PROVE  Fair(t)
<1>1. /\ DOMAIN t.rooms = DOMAIN s.rooms \ rs
      /\ \A r \in DOMAIN t.rooms : t.rooms[r] = s.rooms[r]
  BY DEF RoomsGone
<1>2. /\ DOMAIN t.post_keys = {x \in DOMAIN s.post_keys : x[1] \notin rs}
      /\ \A x \in DOMAIN t.post_keys : t.post_keys[x] = s.post_keys[x]
  BY DEF RoomsGone, Without
<1>3. \A r, p : KeyOf(r, p)[1] = r
  BY DEF KeyOf
<1>4. ASSUME NEW r \in DOMAIN t.rooms, NEW id \in DOMAIN t.rooms[r].posts, t.rooms[r].posts[id].key # None
      PROVE  /\ KeyOf(r, t.rooms[r].posts[id]) \in DOMAIN t.post_keys
             /\ t.post_keys[KeyOf(r, t.rooms[r].posts[id])] = id
  <2>1. t.rooms[r] = s.rooms[r] /\ r \in DOMAIN s.rooms /\ r \notin rs
    BY <1>1
  <2>2. /\ KeyOf(r, t.rooms[r].posts[id]) \in DOMAIN s.post_keys
        /\ s.post_keys[KeyOf(r, t.rooms[r].posts[id])] = id
    BY <1>4, <2>1 DEF Fair, KeysRight
  <2> QED BY <1>2, <1>3, <2>1, <2>2
<1>5. ASSUME NEW x \in DOMAIN t.post_keys
      PROVE  \E r \in DOMAIN t.rooms : \E id \in DOMAIN t.rooms[r].posts :
                t.rooms[r].posts[id].key # None /\ x = KeyOf(r, t.rooms[r].posts[id])
  <2>1. x \in DOMAIN s.post_keys /\ x[1] \notin rs
    BY <1>2
  <2>2. PICK r \in DOMAIN s.rooms : \E id \in DOMAIN s.rooms[r].posts :
                s.rooms[r].posts[id].key # None /\ x = KeyOf(r, s.rooms[r].posts[id])
    BY <2>1 DEF Fair, KeysRight
  <2>3. r \in DOMAIN t.rooms /\ t.rooms[r] = s.rooms[r]
    BY <1>1, <1>3, <2>1, <2>2
  <2> QED BY <2>2, <2>3
<1>6. \A r \in DOMAIN t.rooms : RoomFair(t.rooms[r])
  BY <1>1 DEF Fair
<1> QED BY <1>4, <1>5, <1>6 DEF Fair, KeysRight

\* Rooms may be dropped in the course of any request.
LEMMA GoneIn ==
    ASSUME NEW s, Sound(s), NEW rs
    PROVE  /\ \A s0, K : s \in Grown(s0, K) => apply_drop_room(s, rs) \in Grown(s0, K)
           /\ \A s0 : s \in Ends(s0) => apply_drop_room(s, rs) \in Ends(s0)
<1> DEFINE t == apply_drop_room(s, rs)
<1>1. RoomsGone(s, rs, t)
  BY RoomsGoneIs
<1> HIDE DEF t
<1>2. /\ t \in StoreType /\ Sound(t) /\ t.last_id = s.last_id
      /\ DOMAIN t.rooms \subseteq DOMAIN s.rooms
      /\ \A r \in DOMAIN t.rooms : t.rooms[r] = s.rooms[r]
  BY <1>1 DEF RoomsGone
<1>3. Fair(s) => Fair(t)
  BY <1>1, GoneFair
<1>4. ASSUME NEW s0, NEW K, s \in Grown(s0, K) PROVE t \in Grown(s0, K)
  <2>1. Grew(s0, s, K) /\ (Fair(s0) => Fair(s))
    BY <1>4 DEF Grown
  <2>2. Grew(s0, t, K)
    BY <1>2, <2>1 DEF Grew
  <2> QED BY <1>2, <1>3, <2>1, <2>2 DEF Grown
<1>5. ASSUME NEW s0, s \in Ends(s0) PROVE t \in Ends(s0)
  <2>1. Kept(s0, s) /\ (Fair(s0) => Fair(s))
    BY <1>5 DEF Ends
  <2>2. Kept(s0, t)
    BY <1>2, <2>1 DEF Kept
  <2> QED BY <1>2, <1>3, <2>1, <2>2 DEF Ends
<1> QED BY <1>4, <1>5 DEF t

\* Rooms dropped one by one.
LEMMA DropRoomsIs ==
    ASSUME NEW W, \A s \in W : Sound(s), \A s \in W : \A x : apply_drop_room(s, x) \in W,
           NEW row \in Rows(W), NEW rs, IsFiniteSet(rs)
    PROVE  /\ drop_rooms(row, rs) \in Rows(W)
           /\ Last(drop_rooms(row, rs)).last_id = Last(row).last_id
           /\ Last(drop_rooms(row, rs)).agents = Last(row).agents
           /\ DOMAIN Last(drop_rooms(row, rs)).rooms = DOMAIN Last(row).rooms \ rs
           /\ \A r \in DOMAIN Last(drop_rooms(row, rs)).rooms :
                 Last(drop_rooms(row, rs)).rooms[r] = Last(row).rooms[r]
<1> DEFINE s == Last(row)
           c == Cardinality(rs)
           g == [n \in 1 .. c |-> apply_drop_room(s, Some(rs, n))]
<1>1. s \in W /\ Sound(s)
  BY RowIs
<1>3. /\ c \in Nat /\ (c = 0 => rs = {}) /\ Some(rs, c) = rs
  BY SomeIs
<1>4. drop_rooms(row, rs) = row \o g
  BY DEF drop_rooms
<1> HIDE DEF c, s
<1>5. \A n \in 1 .. c : apply_drop_room(s, Some(rs, n)) \in W
  BY <1>1
<1>7. g \in [1 .. c -> W]
  BY <1>5
<1>8. c # 0 => g[c] = apply_drop_room(s, rs) /\ RoomsGone(s, rs, g[c])
  <2> SUFFICES ASSUME c # 0 PROVE g[c] = apply_drop_room(s, rs) /\ RoomsGone(s, rs, g[c])
    OBVIOUS
  <2>1. c \in 1 .. c
    BY <1>3
  <2> QED BY <1>1, <1>3, <2>1, RoomsGoneIs
<1> HIDE DEF g
<1>9. row \o g \in Rows(W) /\ Last(row \o g) = IF c = 0 THEN Last(row) ELSE g[c]
  BY <1>3, <1>7, RowWith
<1>10. CASE c = 0
  <2>1. Last(row \o g) = s /\ DOMAIN s.rooms \ rs = DOMAIN s.rooms
    BY <1>3, <1>9, <1>10 DEF s
  <2> QED BY <1>4, <1>9, <2>1 DEF s
<1>11. CASE c # 0
  <2>1. RoomsGone(s, rs, Last(row \o g))
    BY <1>8, <1>9, <1>11
  <2> QED BY <1>4, <1>9, <2>1 DEF RoomsGone, s
<1> QED BY <1>10, <1>11

\* A new room.
LEMMA RoomIs ==
    ASSUME NEW s0, NEW K, NEW s \in Grown(s0, K), NEW r \in Name, r \notin DOMAIN s0.rooms,
           r \notin DOMAIN s.rooms, Cardinality(DOMAIN s.rooms) < MaxRooms,
           NEW mm \in Maps(Agent, MemberType), DOMAIN mm \subseteq s.agents,
           \A a \in DOMAIN mm : mm[a].cursor = 0, NEW private \in BOOLEAN, NEW a \in Agent
    PROVE  LET t == apply_room(s, r, Room(mm, private, a))
           IN  t \in Grown(s0, K) /\ r \in DOMAIN t.rooms
<1> DEFINE p == Room(mm, private, a)
           q == [p EXCEPT !.open = OpenQuestions(p.posts)]
           t == in_room(s, r, q)
<1>1. Sound(s) /\ Grew(s0, s, K) /\ (Fair(s0) => Fair(s)) /\ s \in StoreType
  BY DEF Grown
<1>2. /\ Nothing \in Maps(Entry, EntryType) /\ Nothing \in Maps(Nat, PostType) /\ DOMAIN Nothing = {}
  BY NothingIs
<1>3. q = [members |-> mm, private |-> private, created_by |-> a, closed |-> None,
           board |-> Nothing, posts |-> Nothing, open |-> {}]
  <2>1. p = [members |-> mm, private |-> private, created_by |-> a, closed |-> None,
             board |-> Nothing, posts |-> Nothing, open |-> {}]
    BY DEF Room
  <2> HIDE DEF p
  <2>2. OpenQuestions(p.posts) = {}
    BY <1>2, <2>1 DEF OpenQuestions
  <2>3. q = [p EXCEPT !.open = {}]
    BY <2>2
  <2> HIDE DEF q
  <2> QED BY <2>1, <2>3
<1> HIDE DEF q
<1>4. q \in RoomType /\ q.posts = Nothing /\ q.open = {} /\ q.members = mm /\ q.closed = None
  BY <1>2, <1>3 DEF RoomType
<1>5. RoomSound(q, s.last_id, s.agents)
  <2>1. s.last_id \in Nat
    BY <1>1, StoreHas
  <2>2. OpenQuestions(q.posts) = {}
    BY <1>2, <1>4 DEF OpenQuestions
  <2> QED BY <1>2, <1>4, <2>1, <2>2 DEF RoomSound
<1>6. Placed(s, r, q, t)
  BY <1>1, <1>4, InRoomIs
<1> HIDE DEF t
<1>7. /\ t \in StoreType /\ t.last_id = s.last_id /\ t.agents = s.agents
      /\ t.post_keys = s.post_keys /\ DOMAIN t.rooms = DOMAIN s.rooms \cup {r} /\ t.rooms[r] = q
      /\ \A x \in DOMAIN s.rooms : t.rooms[x] = s.rooms[x]
  BY <1>6 DEF Placed
<1>8. IsFiniteSet(DOMAIN t.rooms) /\ Cardinality(DOMAIN t.rooms) <= MaxRooms
  <2> DEFINE D == DOMAIN s.rooms
  <2>1. IsFiniteSet(D) /\ Cardinality(D) \in Nat /\ Cardinality(D) < MaxRooms /\ r \notin D
    BY <1>1, FS_CardinalityType DEF Sound
  <2>2. DOMAIN t.rooms = D \cup {r}
    BY <1>7
  <2> HIDE DEF D
  <2>3. IsFiniteSet(D \cup {r}) /\ Cardinality(D \cup {r}) = Cardinality(D) + 1
    BY <2>1, FS_AddElement
  <2>4. Cardinality(D \cup {r}) <= MaxRooms
    BY <2>1, <2>3, LimitsAssumption
  <2> QED BY <2>2, <2>3, <2>4
<1>9. \A x \in DOMAIN t.rooms : RoomSound(t.rooms[x], t.last_id, t.agents)
  BY <1>1, <1>5, <1>7 DEF Sound
<1>10. Sound(t)
  BY <1>1, <1>7, <1>8, <1>9 DEF Sound
<1>11. ASSUME Fair(s) PROVE Fair(t)
  <2>1. ASSUME NEW y \in DOMAIN t.rooms, NEW i \in DOMAIN t.rooms[y].posts
        PROVE  y \in DOMAIN s.rooms /\ t.rooms[y] = s.rooms[y]
    BY <1>2, <1>4, <1>7
  <2>2. KeysRight(t)
    <3>1. \A y \in DOMAIN s.rooms : y \in DOMAIN t.rooms /\ t.rooms[y] = s.rooms[y]
      BY <1>7
    <3> QED BY <1>7, <1>11, <2>1, <3>1 DEF Fair, KeysRight
  <2>3. RoomFair(q)
    <3>1. OpenOf(q, 0) = {} /\ \A x : OpenOf(q, x) = {}
      BY <1>4 DEF OpenOf
    <3>2. Cardinality({}) = 0
      BY FS_EmptySet
    <3>3. share(MaxOpenQuestions) \in Nat
      BY ShareIs, LimitsAssumption
    <3>4. \A x : Cardinality(OpenOf(q, x)) = 0
      BY <3>1, <3>2
    <3>5. Cardinality(q.open) = 0
      BY <1>4, <3>2
    <3> QED BY <1>4, <3>3, <3>4, <3>5, LimitsAssumption DEF RoomFair
  <2>4. \A x \in DOMAIN t.rooms : RoomFair(t.rooms[x])
    BY <1>7, <1>11, <2>3 DEF Fair
  <2> QED BY <2>2, <2>4 DEF Fair
<1>15. NewIn(r, q, K)
  BY <1>2, <1>4 DEF NewIn
<1>12. Grew(s0, t, K)
  BY <1>1, <1>7, <1>15 DEF Grew
<1>13. t \in Grown(s0, K)
  BY <1>1, <1>7, <1>10, <1>11, <1>12 DEF Grown
<1>14. apply_room(s, r, p) = t
  BY DEF apply_room, t, q
<1> QED BY <1>7, <1>13, <1>14

\* An entry of a board is set to a later version, or removed.
LEMMA BoardIs ==
    ASSUME NEW s, Sound(s), NEW r \in DOMAIN s.rooms, NEW k \in Entry, NEW e \in EntryType \cup {None},
           k \in DOMAIN s.rooms[r].board /\ e # None => e.version > s.rooms[r].board[k].version, NEW K
    PROVE  LET t == apply_board(s, r, k, e)
           IN  t \in Grown(s, K) /\ DOMAIN t.rooms = DOMAIN s.rooms /\ t.agents = s.agents
<1> DEFINE p == s.rooms[r]
           b == IF e = None THEN Without(p.board, {k}) ELSE Put(p.board, k, e)
           q == [p EXCEPT !.board = b]
           t == in_room(s, r, q)
<1>1. p \in RoomType /\ RoomSound(p, s.last_id, s.agents) /\ s.last_id \in Nat
  BY StoreHas DEF Sound
<1>2. p.board \in Maps(Entry, EntryType)
  BY <1>1, RoomHas
<1>3. b \in Maps(Entry, EntryType) /\ BoardRises(p.board, b)
  <2>1. CASE e = None
    <3>1. LeavesIn(Entry, EntryType, p.board, {k})
      BY <1>2, WithoutIs
    <3> QED BY <2>1, <3>1 DEF LeavesIn, BoardRises
  <2>2. CASE e # None
    <3>1. PutsIn(Entry, EntryType, p.board, k, e)
      BY <1>2, <2>2, PutIs
    <3>2. k \in DOMAIN p.board => e.version > p.board[k].version
      BY <2>2
    <3> HIDE DEF p
    <3> QED BY <2>2, <3>1, <3>2 DEF PutsIn, BoardRises
  <2> QED BY <2>1, <2>2
<1>4. apply_board(s, r, k, e) = t
  BY DEF apply_board
<1> HIDE DEF b, p
<1>5. /\ q \in RoomType /\ q.members = p.members /\ q.posts = p.posts /\ q.open = p.open
      /\ q.closed = p.closed /\ q.board = b
  BY <1>1, <1>3 DEF RoomType
<1> HIDE DEF q
<1>6. RoomSound(q, s.last_id, s.agents)
  BY <1>1, <1>5 DEF RoomSound, is_open
<1>7. Sound(t) /\ Placed(s, r, q, t)
  BY <1>5, <1>6, SoundIn
<1> HIDE DEF t
<1>8. /\ t \in StoreType /\ t.last_id = s.last_id /\ t.agents = s.agents
      /\ t.post_keys = s.post_keys /\ DOMAIN t.rooms = DOMAIN s.rooms /\ t.rooms[r] = q
      /\ \A x \in DOMAIN s.rooms : x # r => t.rooms[x] = s.rooms[x]
  BY <1>7 DEF Placed
<1>9. \A x \in DOMAIN s.rooms : t.rooms[x].posts = s.rooms[x].posts /\ t.rooms[x].open = s.rooms[x].open
  BY <1>5, <1>8 DEF p
<1>10. ASSUME Fair(s) PROVE Fair(t)
  <2>1. \A x \in DOMAIN s.rooms : SameKeys(s.rooms[x].posts, t.rooms[x].posts)
    BY <1>9 DEF SameKeys
  <2>2. KeysRight(t)
    BY <1>8, <1>10, <2>1, KeysIn DEF Fair
  <2>3. \A x \in DOMAIN t.rooms : RoomFair(t.rooms[x])
    BY <1>8, <1>9, <1>10, FairSame DEF Fair
  <2> QED BY <2>2, <2>3 DEF Fair
<1>11. Grew(s, s, K)
  BY GrownSelf DEF Grown
<1>12. ASSUME NEW x \in DOMAIN s.rooms \cap DOMAIN t.rooms
       PROVE  RoomGrew(x, s.rooms[x], t.rooms[x], s.last_id, K)
  <2>1. RoomGrew(x, s.rooms[x], s.rooms[x], s.last_id, K)
    BY <1>11 DEF Grew
  <2>2. BoardRises(s.rooms[x].board, t.rooms[x].board)
    BY <1>3, <1>5, <1>8 DEF p, BoardRises
  <2>3. t.rooms[x].posts = s.rooms[x].posts
    BY <1>9
  <2> QED BY <2>1, <2>2, <2>3 DEF RoomGrew
<1>13. Grew(s, t, K)
  BY <1>1, <1>8, <1>12 DEF Grew
<1>14. t \in Grown(s, K)
  BY <1>7, <1>8, <1>10, <1>13 DEF Grown
<1> QED BY <1>4, <1>8, <1>14
-----------------------------------------------------------------------------
(***************************************************************************)
(* What a request ends with; questions settled.                            *)
(***************************************************************************)
\* An open question is a post of its room, and to be kept.
LEMMA OpenHas ==
    ASSUME NEW room, room.open = OpenQuestions(room.posts), NEW x \in room.open
    PROVE  /\ x \in DOMAIN room.posts /\ room.posts[x].ask # None
           /\ room.posts[x].ask.status = "open" /\ keeps(room, room.posts[x])
           /\ \A i \in Answers(room, x) : i \in DOMAIN room.posts /\ keeps(room, room.posts[i])
  BY DEF OpenQuestions, is_open_question, keeps, Answers

\* A room to which posts were added is kept as it should be.
LEMMA RoomGrewKept ==
    ASSUME NEW r, NEW p, NEW q, NEW n \in Nat, NEW K, RoomGrew(r, p, q, n, K),
           DOMAIN p.posts \subseteq 1 .. n, p.open = OpenQuestions(p.posts)
    PROVE  /\ RoomKept(p, q)
           /\ \A x \in p.open : x \in DOMAIN q.posts /\ q.posts[x] = p.posts[x]
                                /\ Answers(p, x) \subseteq Answers(q, x)
<1>1. ASSUME NEW x \in p.open
      PROVE  x \in DOMAIN q.posts /\ q.posts[x] = p.posts[x] /\ Answers(p, x) \subseteq Answers(q, x)
  <2>1. x \in DOMAIN p.posts /\ keeps(p, p.posts[x])
    BY OpenHas
  <2>2. x \in DOMAIN q.posts /\ q.posts[x] = p.posts[x]
    BY <2>1, KeepsStill
  <2>3. ASSUME NEW i \in Answers(p, x) PROVE i \in Answers(q, x)
    <3>1. i \in DOMAIN p.posts /\ keeps(p, p.posts[i])
      BY OpenHas
    <3>2. i \in DOMAIN q.posts /\ q.posts[i] = p.posts[i]
      BY <3>1, KeepsStill
    <3> QED BY <3>2 DEF Answers
  <2> QED BY <2>2, <2>3
<1>2. ASSUME NEW x \in DOMAIN p.posts \cap DOMAIN q.posts PROVE q.posts[x] = p.posts[x]
  <2>1. x <= n
    BY <1>2
  <2> QED BY <1>2, <2>1 DEF RoomGrew
<1>3. BoardRises(p.board, q.board)
  BY DEF RoomGrew
<1> QED BY <1>1, <1>2, <1>3 DEF RoomKept

\* A store to which posts were added may be one a request ends with.
LEMMA GrownEnds ==
    ASSUME NEW s0, Sound(s0), NEW K
    PROVE  Grown(s0, K) \subseteq Ends(s0)
<1> SUFFICES ASSUME NEW t \in Grown(s0, K) PROVE t \in Ends(s0)
  OBVIOUS
<1>1. t \in StoreType /\ Sound(t) /\ Grew(s0, t, K) /\ (Fair(s0) => Fair(t)) /\ s0.last_id \in Nat
  BY StoreHas DEF Grown, Sound
<1>2. ASSUME NEW r \in DOMAIN s0.rooms \cap DOMAIN t.rooms PROVE RoomKept(s0.rooms[r], t.rooms[r])
  <2>1. RoomGrew(r, s0.rooms[r], t.rooms[r], s0.last_id, K)
    BY <1>1 DEF Grew
  <2>2. DOMAIN s0.rooms[r].posts \subseteq 1 .. s0.last_id
        /\ s0.rooms[r].open = OpenQuestions(s0.rooms[r].posts)
    BY DEF Sound, RoomSound
  <2> QED BY <1>1, <2>1, <2>2, RoomGrewKept
<1> QED BY <1>1, <1>2 DEF Ends, Kept

\* The open questions ids of the room p are settled in q.
Settles(p, ids, status, q) ==
    /\ q \in RoomType
    /\ DOMAIN q.posts = DOMAIN p.posts
    /\ \A i \in DOMAIN p.posts \ ids : q.posts[i] = p.posts[i]
    /\ \A i \in ids : /\ q.posts[i].ask # None /\ q.posts[i].ask.status = status
                      /\ q.posts[i].ask.to = p.posts[i].ask.to
    /\ \A i \in DOMAIN p.posts : /\ q.posts[i].from = p.posts[i].from /\ q.posts[i].key = p.posts[i].key
                                 /\ q.posts[i].kind = p.posts[i].kind
                                 /\ q.posts[i].reply_to = p.posts[i].reply_to
    /\ q.open = p.open \ ids
    /\ q.members = p.members /\ q.board = p.board /\ q.closed = p.closed

Settled == Status \ {"open"}

\* A status set on open questions settles them.
LEMMA SettlesIs ==
    ASSUME NEW p \in RoomType, NEW n \in Nat, NEW A, RoomSound(p, n, A), NEW ids, ids \subseteq p.open,
           NEW status \in Settled
    PROVE  Settles(p, ids, status, with_status(p, ids, status))
<1> DEFINE set(x) == [x EXCEPT !.ask.status = status]
           f == [i \in DOMAIN p.posts |-> IF i \in ids THEN set(p.posts[i]) ELSE p.posts[i]]
           q == with_status(p, ids, status)
<1>1. /\ p.posts \in Maps(Nat, PostType) /\ DOMAIN p.posts \subseteq Nat /\ p.open \in SUBSET Nat
      /\ \A i \in DOMAIN p.posts : p.posts[i] \in PostType
  BY RoomHas
<1>2. status \in Status /\ status # "open"
  BY DEF Settled
<1>3. ASSUME NEW i \in ids
      PROVE  /\ i \in DOMAIN p.posts /\ p.posts[i] \in PostType /\ p.posts[i].ask \in AskType
             /\ set(p.posts[i]) \in PostType
             /\ set(p.posts[i]).ask # None /\ set(p.posts[i]).ask.status = status
             /\ set(p.posts[i]).ask.to = p.posts[i].ask.to
             /\ set(p.posts[i]).from = p.posts[i].from /\ set(p.posts[i]).key = p.posts[i].key
             /\ set(p.posts[i]).kind = p.posts[i].kind
             /\ set(p.posts[i]).reply_to = p.posts[i].reply_to
  <2> DEFINE x == p.posts[i]
             y == [x.ask EXCEPT !.status = status]
             z == [x EXCEPT !.ask = y]
  <2>1. i \in DOMAIN p.posts /\ x.ask # None
    BY OpenHas DEF RoomSound
  <2>2. x \in PostType
    BY <1>1, <2>1
  <2> HIDE DEF x
  <2>3. x.ask \in AskType
    BY <2>1, <2>2 DEF PostType
  <2>4. y \in AskType /\ y.status = status /\ y.to = x.ask.to
    BY <1>2, <2>3 DEF AskType
  <2>5. set(x) = z
    OBVIOUS
  <2> HIDE DEF y, set
  <2>6. z \in PostType /\ z.ask = y /\ z.from = x.from /\ z.key = x.key /\ z.kind = x.kind
        /\ z.reply_to = x.reply_to
    BY <2>2, <2>4 DEF PostType
  <2>7. y # None
    BY <2>4, AskHas
  <2> QED BY <2>1, <2>2, <2>3, <2>4, <2>5, <2>6, <2>7 DEF x
<1>4. q = [p EXCEPT !.posts = f, !.open = p.open \ ids]
  BY DEF with_status
<1> HIDE DEF set, q
<1>5. /\ DOMAIN f = DOMAIN p.posts
      /\ \A i \in ids : f[i] = set(p.posts[i])
      /\ \A i \in DOMAIN p.posts \ ids : f[i] = p.posts[i]
  BY <1>3
<1>6. f \in Maps(Nat, PostType)
  <2>1. \A i \in DOMAIN f : f[i] \in PostType
    BY <1>1, <1>3, <1>5
  <2>2. f \in [DOMAIN p.posts -> PostType]
    BY <2>1
  <2> QED BY <1>1, <2>2, MapMade
<1> HIDE DEF f
<1>7. /\ q \in RoomType /\ q.posts = f /\ q.open = p.open \ ids /\ q.members = p.members
      /\ q.board = p.board /\ q.closed = p.closed
  <2>1. p.open \ ids \in SUBSET Nat
    BY <1>1
  <2> QED BY <1>4, <1>6, <2>1 DEF RoomType
<1>8. ASSUME NEW i \in DOMAIN p.posts
      PROVE  /\ f[i].from = p.posts[i].from /\ f[i].key = p.posts[i].key
             /\ f[i].kind = p.posts[i].kind /\ f[i].reply_to = p.posts[i].reply_to
  BY <1>3, <1>5
<1>9. Settles(p, ids, status, q)
  BY <1>3, <1>5, <1>7, <1>8 DEF Settles
<1> QED BY <1>9 DEF q

\* A room with questions settled is sound, and as fair.
LEMMA SettlesSound ==
    ASSUME NEW p, NEW n \in Nat, NEW A, RoomSound(p, n, A), NEW ids, ids \subseteq p.open,
           NEW status \in Settled, NEW q, Settles(p, ids, status, q)
    PROVE  RoomSound(q, n, A) /\ (RoomFair(p) => RoomFair(q))
<1>1. /\ DOMAIN q.posts = DOMAIN p.posts
      /\ \A i \in DOMAIN p.posts \ ids : q.posts[i] = p.posts[i]
      /\ \A i \in ids : q.posts[i].ask # None /\ q.posts[i].ask.status = status
      /\ \A i \in DOMAIN p.posts : /\ q.posts[i].from = p.posts[i].from /\ q.posts[i].key = p.posts[i].key
                                   /\ q.posts[i].kind = p.posts[i].kind
                                   /\ q.posts[i].reply_to = p.posts[i].reply_to
      /\ q.open = p.open \ ids
      /\ q.members = p.members /\ q.board = p.board /\ q.closed = p.closed
  BY DEF Settles
<1>2. /\ DOMAIN p.posts \subseteq 1 .. n
      /\ p.open = OpenQuestions(p.posts)
      /\ \A i \in DOMAIN p.posts : PostSound(p.posts[i], n)
  BY DEF RoomSound
<1>3. \A i \in ids : i \in DOMAIN p.posts /\ p.posts[i].ask # None
  BY <1>2, OpenHas
<1>4. q.open = OpenQuestions(q.posts)
  <2>1. status # "open"
    BY DEF Settled
  <2> QED BY <1>1, <1>2, <1>3, <2>1 DEF OpenQuestions, is_open_question
<1>5. \A i \in DOMAIN q.posts : PostSound(q.posts[i], n)
  BY <1>1, <1>2, <1>3 DEF PostSound
<1>6. RoomSound(q, n, A)
  <2>1. \A a \in DOMAIN q.members : q.members[a].cursor <= n
    BY <1>1 DEF RoomSound
  <2>2. DOMAIN q.members \subseteq A
    BY <1>1 DEF RoomSound
  <2>3. ~is_open(q) => q.open = {}
    BY <1>1 DEF RoomSound, is_open
  <2> QED BY <1>1, <1>2, <1>4, <1>5, <2>1, <2>2, <2>3 DEF RoomSound
<1>7. ASSUME RoomFair(p) PROVE RoomFair(q)
  <2>1. \A x : Answers(q, x) = Answers(p, x)
    BY <1>1 DEF Answers
  <2>2. ASSUME NEW x \in q.open
        PROVE  /\ \A i \in Answers(q, x) : q.posts[i].from # q.posts[x].from
               /\ \A i, j \in Answers(q, x) : i # j => q.posts[i].from # q.posts[j].from
    <3>1. x \in p.open /\ x \in DOMAIN p.posts
      BY <1>1, <1>2, OpenHas
    <3>2. /\ \A i \in Answers(p, x) : p.posts[i].from # p.posts[x].from
          /\ \A i, j \in Answers(p, x) : i # j => p.posts[i].from # p.posts[j].from
      BY <1>7, <3>1 DEF RoomFair
    <3>3. \A i \in Answers(p, x) : i \in DOMAIN p.posts
      BY DEF Answers
    <3>4. Answers(q, x) = Answers(p, x)
      BY <2>1
    <3>5. \A i \in DOMAIN p.posts : q.posts[i].from = p.posts[i].from
      BY <1>1
    <3> QED BY <3>1, <3>2, <3>3, <3>4, <3>5
  <2>3. IsFiniteSet(p.open)
    BY OpenIs
  <2>4. q.open \in SUBSET p.open /\ \A a : OpenOf(q, a) \in SUBSET OpenOf(p, a)
    BY <1>1, <1>2, OpenHas DEF OpenOf
  <2>5. \A a : IsFiniteSet(OpenOf(p, a))
    BY <2>3, FS_Subset DEF OpenOf
  <2>6. Cardinality(q.open) <= MaxOpenQuestions
    <3>1. Cardinality(q.open) <= Cardinality(p.open) /\ Cardinality(q.open) \in Nat
          /\ Cardinality(p.open) \in Nat
      BY <2>3, <2>4, FS_Subset, FS_CardinalityType
    <3>2. Cardinality(p.open) <= MaxOpenQuestions
      BY <1>7 DEF RoomFair
    <3> QED BY <3>1, <3>2, LimitsAssumption
  <2>7. ASSUME NEW a \in Agent \ Operators PROVE Cardinality(OpenOf(q, a)) <= share(MaxOpenQuestions)
    <3>1. Cardinality(OpenOf(q, a)) <= Cardinality(OpenOf(p, a)) /\ Cardinality(OpenOf(q, a)) \in Nat
          /\ Cardinality(OpenOf(p, a)) \in Nat
      BY <2>5, <2>4, FS_Subset, FS_CardinalityType
    <3>2. Cardinality(OpenOf(p, a)) <= share(MaxOpenQuestions)
      BY <1>7 DEF RoomFair
    <3>3. share(MaxOpenQuestions) \in Nat
      BY ShareIs, LimitsAssumption
    <3> QED BY <3>1, <3>2, <3>3
  <2> QED BY <2>2, <2>6, <2>7 DEF RoomFair
<1> QED BY <1>6, <1>7
-----------------------------------------------------------------------------
(***************************************************************************)
(* Questions of several rooms settled.                                     *)
(***************************************************************************)
Of(Q, r) == {q[2] : q \in {q \in Q : q[1] = r}}

\* Pairs of a room and a question open in it.
OpenIn(s, Q) == \A q \in Q : q[1] \in DOMAIN s.rooms /\ q[2] \in s.rooms[q[1]].open

SettledIn(s, Q, status, t) ==
    /\ t \in StoreType /\ Sound(t)
    /\ t.last_id = s.last_id /\ t.agents = s.agents /\ t.post_keys = s.post_keys
    /\ DOMAIN t.rooms = DOMAIN s.rooms
    /\ \A r \in DOMAIN s.rooms : /\ Settles(s.rooms[r], Of(Q, r), status, t.rooms[r])
                                 /\ Of(Q, r) \subseteq s.rooms[r].open
    /\ Fair(s) => Fair(t)

\* Questions of several rooms, settled at once.
LEMMA SettledInIs ==
    ASSUME NEW s, Sound(s), NEW Q, OpenIn(s, Q), NEW status \in Settled
    PROVE  SettledIn(s, Q, status, apply_question(s, Q, status))
<1> DEFINE g(r) == with_status(s.rooms[r], Of(Q, r), status)
           f == [r \in DOMAIN s.rooms |-> g(r)]
           t == apply_question(s, Q, status)
<1>1. /\ s \in StoreType /\ s.last_id \in Nat /\ DOMAIN s.rooms \subseteq Name
      /\ \A r \in DOMAIN s.rooms : s.rooms[r] \in RoomType /\ RoomSound(s.rooms[r], s.last_id, s.agents)
  BY StoreHas DEF Sound
<1>2. t = [s EXCEPT !.rooms = f]
  BY DEF apply_question, Of
<1>3. ASSUME NEW r \in DOMAIN s.rooms PROVE Of(Q, r) \subseteq s.rooms[r].open
  BY DEF Of, OpenIn
<1>4. ASSUME NEW r \in DOMAIN s.rooms PROVE Settles(s.rooms[r], Of(Q, r), status, g(r))
  <2> DEFINE p == s.rooms[r]
             ids == Of(Q, r)
  <2>1. p \in RoomType /\ RoomSound(p, s.last_id, s.agents) /\ ids \subseteq p.open
    BY <1>1, <1>3
  <2> HIDE DEF p, ids
  <2>2. Settles(p, ids, status, with_status(p, ids, status))
    BY <1>1, <2>1, SettlesIs
  <2> QED BY <2>2 DEF p, ids
<1> HIDE DEF g, t
<1>5. /\ f \in Maps(Name, RoomType) /\ DOMAIN f = DOMAIN s.rooms
      /\ \A r \in DOMAIN s.rooms : f[r] = g(r)
  <2>1. \A r \in DOMAIN s.rooms : g(r) \in RoomType
    BY <1>4 DEF Settles
  <2>2. f \in [DOMAIN s.rooms -> RoomType]
    BY <2>1
  <2> QED BY <1>1, <2>2, MapMade
<1> HIDE DEF f
<1>6. /\ t \in StoreType /\ t.last_id = s.last_id /\ t.agents = s.agents
      /\ t.post_keys = s.post_keys /\ t.rooms = f
  BY <1>1, <1>2, <1>5 DEF StoreType
<1>7. \A r \in DOMAIN s.rooms : Settles(s.rooms[r], Of(Q, r), status, t.rooms[r])
  BY <1>4, <1>5, <1>6
<1>8. ASSUME NEW r \in DOMAIN s.rooms
      PROVE  /\ RoomSound(t.rooms[r], s.last_id, s.agents)
             /\ RoomFair(s.rooms[r]) => RoomFair(t.rooms[r])
  BY <1>1, <1>3, <1>7, SettlesSound
<1>9. Sound(t)
  BY <1>5, <1>6, <1>8 DEF Sound
<1>10. ASSUME Fair(s) PROVE Fair(t)
  <2>1. \A r \in DOMAIN s.rooms : SameKeys(s.rooms[r].posts, t.rooms[r].posts)
    BY <1>7 DEF SameKeys, Settles
  <2>2. KeysRight(t)
    BY <1>5, <1>6, <1>10, <2>1, KeysIn DEF Fair
  <2> QED BY <1>5, <1>6, <1>8, <1>10, <2>2 DEF Fair
<1>11. SettledIn(s, Q, status, t)
  BY <1>3, <1>5, <1>6, <1>7, <1>9, <1>10 DEF SettledIn
<1> QED BY <1>11 DEF t

\* Questions are withdrawn or expire, or resolve when all they name have answered.
MayResolve(room, q) == Answers(room, q) # {} /\ room.posts[q].ask.to \subseteq answered(room, q)

\* What is settled was open, and resolved only by those it names.
LEMMA SettlesKept ==
    ASSUME NEW p0, NEW p, NEW q, NEW ids, NEW status, RoomKept(p0, p), Settles(p, ids, status, q),
           ids \subseteq p.open, p.open = OpenQuestions(p.posts),
           status = "resolved" => \A i \in ids : MayResolve(p, i)
    PROVE  RoomKept(p0, q)
<1>1. /\ DOMAIN q.posts = DOMAIN p.posts
      /\ \A i \in DOMAIN p.posts \ ids : q.posts[i] = p.posts[i]
      /\ \A i \in ids : /\ q.posts[i].ask # None /\ q.posts[i].ask.status = status
                        /\ q.posts[i].ask.to = p.posts[i].ask.to
      /\ \A i \in DOMAIN p.posts : /\ q.posts[i].from = p.posts[i].from
                                   /\ q.posts[i].kind = p.posts[i].kind
                                   /\ q.posts[i].reply_to = p.posts[i].reply_to
      /\ q.open = p.open \ ids /\ q.board = p.board
  BY DEF Settles
<1>2. \A x : Answers(q, x) = Answers(p, x)
  BY <1>1 DEF Answers
<1>3. \A x : answered(q, x) = answered(p, x)
  BY <1>1, <1>2 DEF answered, Answers
<1>4. ASSUME NEW x \in p0.open
      PROVE  /\ x \in DOMAIN q.posts
             /\ x \in q.open => Answers(p0, x) \subseteq Answers(q, x)
  BY <1>1, <1>2 DEF RoomKept
<1>5. ASSUME NEW x \in DOMAIN p0.posts \cap DOMAIN q.posts,
             p0.posts[x].ask # None, q.posts[x].ask.status # p0.posts[x].ask.status
      PROVE  /\ p0.posts[x].ask.status = "open"
             /\ q.posts[x].ask.status = "resolved" =>
                   Answers(q, x) # {} /\ q.posts[x].ask.to \subseteq answered(q, x)
  <2>1. CASE x \in ids
    <3>1. p.posts[x].ask.status = "open" /\ x \in DOMAIN p.posts
      BY <2>1, OpenHas
    <3>2. p0.posts[x].ask.status = "open"
      BY <1>1, <1>5, <3>1 DEF RoomKept
    <3>3. ASSUME q.posts[x].ask.status = "resolved"
          PROVE  Answers(q, x) # {} /\ q.posts[x].ask.to \subseteq answered(q, x)
      <4>1. MayResolve(p, x)
        BY <1>1, <2>1, <3>3
      <4> QED BY <1>1, <1>2, <1>3, <2>1, <4>1 DEF MayResolve
    <3> QED BY <3>2, <3>3
  <2>2. CASE x \notin ids
    <3>1. q.posts[x] = p.posts[x] /\ x \in DOMAIN p.posts
      BY <1>1, <2>2
    <3> QED BY <1>2, <1>3, <1>5, <3>1 DEF RoomKept
  <2> QED BY <2>1, <2>2
<1>6. BoardRises(p0.board, q.board)
  BY <1>1 DEF RoomKept
<1> QED BY <1>4, <1>5, <1>6 DEF RoomKept

\* Questions may be settled in the course of any request.
LEMMA SettleEnds ==
    ASSUME NEW s0, NEW s \in Ends(s0), NEW Q, OpenIn(s, Q), NEW status \in Settled,
           status = "resolved" => \A q \in Q : MayResolve(s.rooms[q[1]], q[2])
    PROVE  apply_question(s, Q, status) \in Ends(s0)
<1> DEFINE t == apply_question(s, Q, status)
<1>1. Sound(s) /\ Kept(s0, s) /\ (Fair(s0) => Fair(s))
  BY DEF Ends
<1>2. SettledIn(s, Q, status, t)
  BY <1>1, SettledInIs
<1> HIDE DEF t
<1>3. ASSUME NEW r \in DOMAIN s0.rooms \cap DOMAIN t.rooms PROVE RoomKept(s0.rooms[r], t.rooms[r])
  <2>1. /\ r \in DOMAIN s.rooms /\ Settles(s.rooms[r], Of(Q, r), status, t.rooms[r])
        /\ Of(Q, r) \subseteq s.rooms[r].open
    BY <1>2 DEF SettledIn
  <2>2. RoomKept(s0.rooms[r], s.rooms[r]) /\ s.rooms[r].open = OpenQuestions(s.rooms[r].posts)
    BY <1>1, <2>1 DEF Kept, Sound, RoomSound
  <2>3. status = "resolved" => \A i \in Of(Q, r) : MayResolve(s.rooms[r], i)
    BY DEF Of
  <2> QED BY <2>1, <2>2, <2>3, SettlesKept
<1>4. t \in Ends(s0)
  BY <1>1, <1>2, <1>3 DEF Ends, Kept, SettledIn
<1> QED BY <1>4 DEF t

\* A question that stays open is as awaited as it was.
LEMMA SettledAwaited ==
    ASSUME NEW s, Sound(s), NEW Q, NEW status, NEW t, SettledIn(s, Q, status, t),
           NEW r \in DOMAIN t.rooms, NEW x \in t.rooms[r].open
    PROVE  /\ r \in DOMAIN s.rooms /\ x \in s.rooms[r].open /\ <<r, x>> \notin Q
           /\ AwaitedIn(s.rooms[r], x) => AwaitedIn(t.rooms[r], x)
<1> DEFINE p == s.rooms[r]
           q == t.rooms[r]
           ids == Of(Q, r)
<1>1. r \in DOMAIN s.rooms /\ Settles(p, ids, status, q) /\ p.open = OpenQuestions(p.posts)
  BY DEF SettledIn, Sound, RoomSound
<1>2. <<r, x>> \in Q => x \in ids
  BY DEF Of
<1> HIDE DEF p, ids
<1>4. x \in q.open
  OBVIOUS
<1> HIDE DEF q
<1>3. /\ DOMAIN q.posts = DOMAIN p.posts
      /\ \A i \in DOMAIN p.posts \ ids : q.posts[i] = p.posts[i]
      /\ \A i \in DOMAIN p.posts : /\ q.posts[i].from = p.posts[i].from
                                   /\ q.posts[i].kind = p.posts[i].kind
                                   /\ q.posts[i].reply_to = p.posts[i].reply_to
      /\ q.open = p.open \ ids
  BY <1>1 DEF Settles
<1>5. x \in p.open /\ x \in DOMAIN p.posts /\ x \notin ids /\ q.posts[x] = p.posts[x]
  BY <1>1, <1>3, <1>4, OpenHas
<1>6. Answers(q, x) = Answers(p, x)
  BY <1>3 DEF Answers
<1>7. answered(q, x) = answered(p, x)
  BY <1>3, <1>6 DEF answered, Answers
<1> QED BY <1>1, <1>2, <1>5, <1>6, <1>7 DEF AwaitedIn, waiting_on, p, q
-----------------------------------------------------------------------------
(***************************************************************************)
(* Rows of commits that settle questions or drop rooms.                    *)
(***************************************************************************)
\* The questions Q are settled, and those that stay are as awaited.
SettledRow(s, Q, t) ==
    /\ t.last_id = s.last_id /\ t.agents = s.agents /\ DOMAIN t.rooms = DOMAIN s.rooms
    /\ \A r \in DOMAIN s.rooms : /\ t.rooms[r].open = s.rooms[r].open \ Of(Q, r)
                                 /\ t.rooms[r].closed = s.rooms[r].closed
    /\ Awaited(s) => Awaited(t)

\* What questions settled leave of those that stay.
LEMMA SettledRowIs ==
    ASSUME NEW s, Sound(s), NEW Q, NEW status, NEW t, SettledIn(s, Q, status, t)
    PROVE  SettledRow(s, Q, t)
<1>1. /\ t.last_id = s.last_id /\ t.agents = s.agents /\ DOMAIN t.rooms = DOMAIN s.rooms
      /\ \A r \in DOMAIN s.rooms : Settles(s.rooms[r], Of(Q, r), status, t.rooms[r])
  BY DEF SettledIn
<1>2. ASSUME NEW r \in DOMAIN s.rooms
      PROVE  t.rooms[r].open = s.rooms[r].open \ Of(Q, r) /\ t.rooms[r].closed = s.rooms[r].closed
  BY <1>1 DEF Settles
<1>3. Awaited(s) => Awaited(t)
  BY SettledAwaited DEF Awaited
<1> QED BY <1>1, <1>2, <1>3 DEF SettledRow

\* A commit for each question settled comes to all of them settled.
LEMMA SettleRow ==
    ASSUME NEW s0, NEW row \in Rows(Ends(s0)), NEW Q, OpenIn(Last(row), Q),
           NEW status \in {"withdrawn", "expired"}, NEW c \in Nat, c = 0 => Q = {},
           NEW G, \A n \in 1 .. c : G[n] \subseteq Q, c # 0 => G[c] = Q
    PROVE  LET all == row \o [n \in 1 .. c |-> apply_question(Last(row), G[n], status)]
           IN  all \in Rows(Ends(s0)) /\ SettledRow(Last(row), Q, Last(all))
<1> DEFINE s == Last(row)
           g == [n \in 1 .. c |-> apply_question(s, G[n], status)]
<1>1. s \in Ends(s0) /\ Sound(s)
  BY RowIs DEF Ends
<1>2. status \in Settled /\ status # "resolved"
  BY DEF Settled, Status
<1> HIDE DEF s
<1>3. ASSUME NEW n \in 1 .. c PROVE apply_question(s, G[n], status) \in Ends(s0)
  <2>1. OpenIn(s, G[n])
    BY DEF OpenIn, s
  <2> QED BY <1>1, <1>2, <2>1, SettleEnds
<1>4. g \in [1 .. c -> Ends(s0)]
  BY <1>3
<1>5. c # 0 => g[c] = apply_question(s, Q, status)
  <2> SUFFICES ASSUME c # 0 PROVE g[c] = apply_question(s, Q, status)
    OBVIOUS
  <2>1. c \in 1 .. c
    OBVIOUS
  <2> QED BY <2>1
<1>6. SettledIn(s, Q, status, apply_question(s, Q, status))
  BY <1>1, <1>2, SettledInIs DEF s
<1>7. SettledRow(s, Q, apply_question(s, Q, status))
  BY <1>1, <1>6, SettledRowIs
<1> HIDE DEF g
<1>8. row \o g \in Rows(Ends(s0)) /\ Last(row \o g) = IF c = 0 THEN Last(row) ELSE g[c]
  BY <1>4, RowWith
<1>9. SettledRow(s, Q, Last(row \o g))
  <2>1. CASE c # 0
    BY <1>5, <1>7, <1>8, <2>1
  <2>2. CASE c = 0
    <3>1. Last(row \o g) = s /\ Q = {}
      BY <1>8, <2>2 DEF s
    <3>2. \A r : Of(Q, r) = {}
      BY <3>1 DEF Of
    <3>3. SettledRow(s, Q, s)
      BY <3>2 DEF SettledRow
    <3> QED BY <3>1, <3>3
  <2> QED BY <2>1, <2>2
<1> QED BY <1>8, <1>9 DEF g, s

\* A closing room withdraws its open questions.
LEMMA WithdrawnIs ==
    ASSUME NEW s0, NEW row \in Rows(Ends(s0)), NEW r \in DOMAIN Last(row).rooms
    PROVE  LET all == withdrawn(row, r, Last(row).rooms[r].open)
           IN  /\ all \in Rows(Ends(s0)) /\ r \in DOMAIN Last(all).rooms
               /\ Last(all).rooms[r].open = {}
               /\ Awaited(Last(row)) => Awaited(Last(all))
<1> DEFINE s == Last(row)
           ids == s.rooms[r].open
           Q == {r} \X ids
           c == Cardinality(ids)
           G == [n \in 1 .. c |-> {r} \X First(ids, n)]
           g == [n \in 1 .. c |-> apply_question(s, G[n], "withdrawn")]
           all == withdrawn(row, r, ids)
<1>1. Sound(s)
  BY RowIs DEF Ends
<1>2. RoomSound(s.rooms[r], s.last_id, s.agents) /\ s.last_id \in Nat
  BY <1>1, StoreHas DEF Sound
<1>3. ids \in SUBSET Nat /\ IsFiniteSet(ids)
  BY <1>2, OpenIs
<1>4. OpenIn(s, Q)
  BY DEF OpenIn
<1> HIDE DEF ids
<1>5. /\ c \in Nat /\ (c = 0 => ids = {}) /\ First(ids, c) = ids
      /\ \A n : First(ids, n) \subseteq ids
  BY <1>3, FirstIs
<1> HIDE DEF c
<1>6. c = 0 => Q = {}
  BY <1>5
<1>7. \A n \in 1 .. c : G[n] \subseteq Q
  BY <1>5
<1>8. c # 0 => G[c] = Q
  <2> SUFFICES ASSUME c # 0 PROVE G[c] = Q
    OBVIOUS
  <2>1. c \in 1 .. c
    BY <1>5
  <2> QED BY <1>5, <2>1
<1>9. g = [n \in 1 .. c |-> apply_question(s, {r} \X First(ids, n), "withdrawn")]
  OBVIOUS
<1>10. all = row \o g
  BY <1>9 DEF withdrawn, c
<1>11. ids \ Of(Q, r) = {}
  <2>1. \A x \in ids : x \in Of(Q, r)
    <3> SUFFICES ASSUME NEW x \in ids PROVE x \in Of(Q, r)
      OBVIOUS
    <3>1. <<r, x>> \in Q /\ <<r, x>>[1] = r /\ <<r, x>>[2] = x
      OBVIOUS
    <3> HIDE DEF Q
    <3> QED BY <3>1 DEF Of
  <2> QED BY <2>1
<1> HIDE DEF all, G, Q
<1>12. row \o g \in Rows(Ends(s0)) /\ SettledRow(s, Q, Last(row \o g))
  BY <1>4, <1>5, <1>6, <1>7, <1>8, SettleRow
<1>13. all \in Rows(Ends(s0)) /\ SettledRow(s, Q, Last(all))
  BY <1>10, <1>12
<1>14. /\ r \in DOMAIN Last(all).rooms /\ Last(all).rooms[r].open = {}
       /\ Awaited(s) => Awaited(Last(all))
  BY <1>11, <1>13 DEF SettledRow, ids
<1> QED BY <1>13, <1>14 DEF all, ids

\* Questions past their expiry.
LEMMA ExpiredIs ==
    ASSUME NEW s0, NEW row \in Rows(Ends(s0)), NEW Q, IsFiniteSet(Q), OpenIn(Last(row), Q)
    PROVE  LET all == expired(row, Q)
           IN  all \in Rows(Ends(s0)) /\ (Awaited(Last(row)) => Awaited(Last(all)))
<1> DEFINE s == Last(row)
           c == Cardinality(Q)
           G == [n \in 1 .. c |-> Some(Q, n)]
           g == [n \in 1 .. c |-> apply_question(s, G[n], "expired")]
           all == expired(row, Q)
<1>1. /\ c \in Nat /\ (c = 0 => Q = {}) /\ Some(Q, c) = Q
      /\ \A n \in 1 .. c : Some(Q, n) \subseteq Q
  BY SomeIs
<1>2. all = row \o g
  BY DEF expired
<1> HIDE DEF c
<1>3. \A n \in 1 .. c : G[n] \subseteq Q
  BY <1>1
<1>4. c # 0 => G[c] = Q
  <2> SUFFICES ASSUME c # 0 PROVE G[c] = Q
    OBVIOUS
  <2>1. c \in 1 .. c
    BY <1>1
  <2> QED BY <1>1, <2>1
<1> HIDE DEF all, G
<1>5. row \o g \in Rows(Ends(s0)) /\ SettledRow(s, Q, Last(row \o g))
  BY <1>1, <1>3, <1>4, SettleRow
<1>6. all \in Rows(Ends(s0)) /\ SettledRow(s, Q, Last(all))
  BY <1>2, <1>5
<1> QED BY <1>6 DEF SettledRow, all

\* Rooms dropped at the end.
LEMMA DropEnds ==
    ASSUME NEW s0, NEW row \in Rows(Ends(s0)), NEW rs, IsFiniteSet(rs)
    PROVE  LET all == drop_rooms(row, rs)
           IN  all \in Rows(Ends(s0)) /\ (Awaited(Last(row)) => Awaited(Last(all)))
<1> DEFINE W == Ends(s0)
           all == drop_rooms(row, rs)
<1>1. \A s \in W : Sound(s)
  BY DEF Ends
<1>2. \A s \in W : \A x : apply_drop_room(s, x) \in W
  BY <1>1, GoneIn
<1> HIDE DEF W
<1>3. row \in Rows(W)
  BY DEF W
<1>4. /\ all \in Rows(W)
      /\ DOMAIN Last(all).rooms = DOMAIN Last(row).rooms \ rs
      /\ \A r \in DOMAIN Last(all).rooms : Last(all).rooms[r] = Last(row).rooms[r]
  BY <1>1, <1>2, <1>3, DropRoomsIs
<1> HIDE DEF all
<1>5. Awaited(Last(row)) => Awaited(Last(all))
  BY <1>4 DEF Awaited
<1> QED BY <1>4, <1>5 DEF all, W
-----------------------------------------------------------------------------
(***************************************************************************)
(* Open questions wait for somebody.                                       *)
(***************************************************************************)
\* With no answer made to it, an open question is as awaited as it was.
LEMMA GrownAwaited ==
    ASSUME NEW s0, Sound(s0), NEW K, NEW t \in Grown(s0, K), Awaited(s0),
           NEW r \in DOMAIN t.rooms, NEW x \in t.rooms[r].open, <<r, "answer", x>> \notin K
    PROVE  AwaitedIn(t.rooms[r], x)
<1> DEFINE q == t.rooms[r]
<1>1. /\ Sound(t) /\ Grew(s0, t, K) /\ s0.last_id \in Nat /\ t.last_id \in Nat
      /\ RoomSound(q, t.last_id, t.agents)
  BY StoreHas DEF Grown, Sound
<1>2. x \in q.open /\ q.open = OpenQuestions(q.posts) /\ DOMAIN q.posts \subseteq 1 .. t.last_id
  BY <1>1 DEF RoomSound
<1>3. CASE r \notin DOMAIN s0.rooms
  <2>1. NewIn(r, q, K)
    BY <1>1, <1>3 DEF Grew
  <2> HIDE DEF q
  <2>2. Answers(q, x) = {}
    BY <2>1 DEF NewIn, Answers
  <2>3. answered(q, x) = {}
    BY <2>2 DEF answered
  <2> QED BY <2>2, <2>3 DEF AwaitedIn, waiting_on, q
<1>4. CASE r \in DOMAIN s0.rooms
  <2> DEFINE p == s0.rooms[r]
             n == s0.last_id
  <2>1. /\ RoomGrew(r, p, q, n, K) /\ DOMAIN p.posts \subseteq 1 .. n
        /\ p.open = OpenQuestions(p.posts)
        /\ \A i \in DOMAIN p.posts : PostSound(p.posts[i], n)
    BY <1>1, <1>4 DEF Grew, Sound, RoomSound
  <2>2. x \in p.open => AwaitedIn(p, x)
    BY <1>4 DEF Awaited
  <2> HIDE DEF p, q, n
  <2>3. /\ \A id \in DOMAIN q.posts : /\ id <= n => id \in DOMAIN p.posts /\ q.posts[id] = p.posts[id]
                                      /\ id > n => <<r, q.posts[id].kind, q.posts[id].reply_to>> \in K
    BY <2>1 DEF RoomGrew
  <2>4. x \in DOMAIN q.posts /\ x \in Nat /\ n \in Nat
    BY <1>1, <1>2, OpenHas DEF n
  <2>5. ASSUME NEW i \in Answers(q, x) PROVE i \in Answers(p, x) /\ i \in DOMAIN p.posts /\ q.posts[i] = p.posts[i]
    <3>1. i \in DOMAIN q.posts /\ q.posts[i].kind = "answer" /\ q.posts[i].reply_to = x /\ i \in Nat
      BY <1>1, <1>2 DEF Answers
    <3>2. ~(i > n)
      BY <2>3, <3>1
    <3>3. i <= n
      BY <2>4, <3>1, <3>2
    <3>4. i \in DOMAIN p.posts /\ q.posts[i] = p.posts[i]
      BY <2>3, <3>1, <3>3
    <3> QED BY <3>1, <3>4 DEF Answers
  <2>6. CASE x <= n
    <3>1. x \in DOMAIN p.posts /\ q.posts[x] = p.posts[x]
      BY <2>3, <2>4, <2>6
    <3>2. x \in p.open
      BY <1>2, <2>1, <3>1 DEF OpenQuestions
    <3>3. AwaitedIn(p, x)
      BY <2>2, <3>2
    <3>4. Answers(q, x) \subseteq Answers(p, x)
      BY <2>5
    <3>5. answered(q, x) \subseteq answered(p, x)
      BY <2>5 DEF answered
    <3>6. AwaitedIn(q, x)
      BY <3>1, <3>3, <3>4, <3>5 DEF AwaitedIn, waiting_on
    <3> QED BY <3>6 DEF q
  <2>7. CASE ~(x <= n)
    <3>1. ASSUME NEW i \in Answers(q, x) PROVE FALSE
      <4>1. i \in DOMAIN p.posts /\ p.posts[i].reply_to = x
        BY <2>5 DEF Answers
      <4>2. PostSound(p.posts[i], n)
        BY <2>1, <4>1
      <4>3. x # None
        BY <2>4, NoneAssumption
      <4>4. x \in 1 .. n
        BY <4>1, <4>2, <4>3 DEF PostSound
      <4> QED BY <2>7, <4>4
    <3>2. Answers(q, x) = {}
      BY <3>1
    <3>3. answered(q, x) = {}
      BY <3>2 DEF answered
    <3>4. AwaitedIn(q, x)
      BY <3>2, <3>3 DEF AwaitedIn, waiting_on
    <3> QED BY <3>4 DEF q
  <2> QED BY <2>6, <2>7
<1> QED BY <1>3, <1>4

\* No answer is among the posts K.
Unanswering(K) == \A r, x : <<r, "answer", x>> \notin K

\* Questions are awaited as long as no answer comes.
LEMMA AwaitedStill ==
    ASSUME NEW s0, Sound(s0), NEW K, Unanswering(K), NEW t \in Grown(s0, K)
    PROVE  Awaited(s0) => Awaited(t)
  BY GrownAwaited DEF Awaited, Unanswering

\* A line in a timeline answers nothing.
LEMMA EventsUnanswering == Unanswering(Events)
<1>1. \A r, x : <<r, "answer", x>> \notin Events
  <2> SUFFICES ASSUME NEW r, NEW x, <<r, "answer", x>> \in Events PROVE FALSE
    OBVIOUS
  <2>1. PICK y \in Name : <<r, "answer", x>> = <<y, "event", None>>
    BY DEF Events
  <2>2. "answer" = "event"
    BY <2>1
  <2> QED BY <2>2
<1> QED BY <1>1 DEF Unanswering

\* A room whose posts and open questions are as they were.
LEMMA QuietAwaited ==
    ASSUME NEW s, NEW r \in DOMAIN s.rooms, NEW room, NEW t, Placed(s, r, room, t),
           Unasked(s.rooms[r], room), Awaited(s)
    PROVE  Awaited(t)
<1>1. ASSUME NEW x \in DOMAIN t.rooms PROVE x \in DOMAIN s.rooms /\ Unasked(s.rooms[x], t.rooms[x])
  BY DEF Placed, Unasked
<1>2. ASSUME NEW p, NEW q, Unasked(p, q), NEW i, AwaitedIn(p, i) PROVE AwaitedIn(q, i)
  <2>1. q.posts = p.posts
    BY <1>2 DEF Unasked
  <2>2. Answers(q, i) = Answers(p, i)
    BY <2>1 DEF Answers
  <2>3. answered(q, i) = answered(p, i)
    BY <2>1, <2>2 DEF answered
  <2> QED BY <1>2, <2>1, <2>2, <2>3 DEF AwaitedIn, waiting_on
<1>3. ASSUME NEW x \in DOMAIN t.rooms, NEW i \in t.rooms[x].open PROVE AwaitedIn(t.rooms[x], i)
  <2>1. Unasked(s.rooms[x], t.rooms[x]) /\ x \in DOMAIN s.rooms
    BY <1>1
  <2>2. i \in s.rooms[x].open
    BY <2>1 DEF Unasked
  <2>3. AwaitedIn(s.rooms[x], i)
    BY <2>1, <2>2 DEF Awaited
  <2> QED BY <1>2, <2>1, <2>3
<1> QED BY <1>3 DEF Awaited

\* Nor does closing a room or opening it again.
LEMMA CloseAwaited ==
    ASSUME NEW s, Sound(s), NEW r \in DOMAIN s.rooms, NEW at \in Nat \cup {None}, Awaited(s)
    PROVE  Awaited(apply_close(s, r, at))
<1> DEFINE p == s.rooms[r]
           q == [p EXCEPT !.closed = at]
           t == apply_close(s, r, at)
<1>1. p \in RoomType /\ s \in StoreType /\ r \in Name
  BY StoreHas DEF Sound
<1>2. q \in RoomType /\ q.posts = p.posts /\ q.open = p.open /\ q.board = p.board
  BY <1>1 DEF RoomType
<1>3. t = in_room(s, r, q)
  BY DEF apply_close
<1> HIDE DEF q, t
<1>4. Placed(s, r, q, t)
  BY <1>1, <1>2, <1>3, InRoomIs
<1>5. Awaited(t)
  BY <1>2, <1>4, QuietAwaited DEF Unasked
<1> QED BY <1>5 DEF t
-----------------------------------------------------------------------------
(***************************************************************************)
(* What a request comes to.                                                *)
(***************************************************************************)
\* The row of a request is of stores it may end with.
Makes(steps) == steps \in Rows(Ends(store)) /\ (Awaited(store) => Awaited(Last(steps)))

\* The store after a request, or a commit of it that was the last not refused.
Goes ==
    /\ store' \in StoreType /\ Sound(store') /\ Kept(store, store')
    /\ Fair(store) => Fair(store')
    /\ "failing" \notin uses => (Awaited(store) => Awaited(store'))

\* Whichever commit of such a row is the last, it comes to what a step may do.
LEMMA MadeIs ==
    ASSUME NEW steps, Makes(steps), NEW rare, Made(steps, rare)
    PROVE  Goes
<1>1. steps \in Rows(Ends(store)) /\ (Awaited(store) => Awaited(Last(steps)))
  BY DEF Makes
<1>2. Last(steps) \in Ends(store) /\ \A i \in 1 .. Len(steps) : steps[i] \in Ends(store)
  BY <1>1, RowIs
<1>3. Len(steps) \in Nat
  BY <1>1, RowIs
<1>4. CASE store' = Last(steps)
  BY <1>1, <1>2, <1>4 DEF Ends, Goes
<1>5. CASE "failing" \in uses /\ \E i \in 2 .. Len(steps) - 1 : store' = steps[i]
  <2>1. PICK i \in 2 .. Len(steps) - 1 : store' = steps[i]
    BY <1>5
  <2>2. i \in 1 .. Len(steps)
    BY <1>3
  <2>3. store' \in Ends(store)
    BY <1>2, <2>1, <2>2
  <2> QED BY <1>5, <2>3 DEF Ends, Goes
<1> QED BY <1>4, <1>5 DEF Made

\* A row to which nothing but events, notes and questions were added.
LEMMA GrownMakes ==
    ASSUME Sound(store), NEW K, Unanswering(K), NEW steps \in Rows(Grown(store, K))
    PROVE  Makes(steps)
<1>1. Grown(store, K) \subseteq Ends(store)
  BY GrownEnds
<1> DEFINE V == Grown(store, K)
           W == Ends(store)
<1>2. Last(steps) \in V
  BY RowIs
<1>3. Awaited(store) => Awaited(Last(steps))
  BY <1>2, AwaitedStill
<1>5. steps \in Rows(V) /\ V \subseteq W
  BY <1>1
<1> HIDE DEF V, W
<1>4. steps \in Rows(W)
  BY <1>5, RowsAmong
<1> QED BY <1>3, <1>4 DEF Makes, W

\* Rows to which less may be added.
LEMMA GrownMore ==
    ASSUME NEW s0, NEW K, NEW L, K \subseteq L
    PROVE  /\ Grown(s0, K) \subseteq Grown(s0, L)
           /\ \A row \in Rows(Grown(s0, K)) : row \in Rows(Grown(s0, L))
<1>1. Grown(s0, K) \subseteq Grown(s0, L)
  <2> SUFFICES ASSUME NEW t \in Grown(s0, K) PROVE t \in Grown(s0, L)
    OBVIOUS
  <2>1. Grew(s0, t, K)
    BY DEF Grown
  <2>2. Grew(s0, t, L)
    BY <2>1 DEF Grew, RoomGrew, NewIn
  <2> QED BY <2>2 DEF Grown
<1>2. \A row \in Rows(Grown(s0, K)) : row \in Rows(Grown(s0, L))
  BY <1>1, RowsAmong
<1> QED BY <1>1, <1>2
-----------------------------------------------------------------------------
(***************************************************************************)
(* The requests, but for posts, questions and answers.                     *)
(***************************************************************************)
\* A row of one commit.
LEMMA RowTwo ==
    ASSUME NEW W, NEW s \in W, NEW t \in W
    PROVE  <<s, t>> \in Rows(W) /\ Last(<<s, t>>) = t
<1>1. <<s, t>> \in Seq(W) /\ <<s, t>> # <<>> /\ Len(<<s, t>>) = 2
  OBVIOUS
<1> QED BY <1>1 DEF Rows, Last

\* A request starts from the store as it is.
LEMMA StoreRow ==
    ASSUME Sound(store)
    PROVE  /\ <<store>> \in Rows(Grown(store, Events)) /\ Last(<<store>>) = store
           /\ Unanswering(Events) /\ store.last_id \in Nat
           /\ <<store>> \in Rows(Ends(store))
<1>1. store \in Grown(store, Events)
  BY GrownSelf
<1>2. Grown(store, Events) \subseteq Ends(store)
  BY GrownEnds
<1>3. store \in Ends(store)
  BY <1>1, <1>2
<1>4. <<store>> \in Rows(Grown(store, Events)) /\ Last(<<store>>) = store
  BY <1>1, RowOne
<1>5. <<store>> \in Rows(Ends(store))
  BY <1>3, RowOne
<1>6. store.last_id \in Nat
  BY StoreHas DEF Sound
<1> QED BY <1>4, <1>5, <1>6, EventsUnanswering

\* Some room makes way: there is one less than there may be.
LEMMA EvictedIs ==
    ASSUME Sound(store), NEW evicted \in Evicted
    PROVE  /\ IsFiniteSet(evicted)
           /\ Cardinality(DOMAIN store.rooms \ evicted) < MaxRooms
<1> DEFINE D == DOMAIN store.rooms
<1>1. IsFiniteSet(D) /\ Cardinality(D) \in Nat /\ Cardinality(D) <= MaxRooms
  BY FS_CardinalityType DEF Sound
<1>2. CASE Cardinality(D) < MaxRooms
  <2>1. evicted = {}
    BY <1>2 DEF Evicted
  <2>2. D \ evicted = D
    BY <2>1
  <2> QED BY <1>2, <2>1, <2>2, FS_EmptySet
<1>3. CASE ~(Cardinality(D) < MaxRooms)
  <2>1. PICK r \in Closed : evicted = {r}
    BY <1>3 DEF Evicted
  <2>2. r \in D
    BY DEF Closed
  <2>3. IsFiniteSet(evicted)
    BY <2>1, FS_Singleton
  <2> HIDE DEF D
  <2>4. Cardinality(D \ {r}) = Cardinality(D) - 1
    BY <1>1, <2>2, FS_RemoveElement
  <2>5. Cardinality(D \ {r}) < MaxRooms
    BY <1>1, <2>4, LimitsAssumption
  <2> QED BY <2>1, <2>3, <2>5 DEF D
<1> QED BY <1>2, <1>3

\* Core::create_room.
LEMMA CreateRoomStep ==
    ASSUME Sound(store), NEW r \in Name, NEW a \in Agent, NEW others \in SUBSET Agent,
           NEW private \in BOOLEAN, create_room(r, a, others, private)
    PROVE  Goes
<1> DEFINE members == [m \in others \cup {a} |-> Member(IF m = a THEN "owner" ELSE "member")]
           room == Room(members, private, a)
           emptied(steps, evicted) == drop_rooms(steps, evicted)
           made(steps, evicted) == Append(emptied(steps, evicted),
                                          apply_room(Last(emptied(steps, evicted)), r, room))
           all(steps, evicted) == log(made(steps, evicted), r, a)
           W == Grown(store, Events)
<1>1. PICK evicted \in Evicted, steps \in ensure_agents(others \cup {a}) : Commit(all(steps, evicted))
  BY DEF create_room
<1>2. r \notin DOMAIN store.rooms
  BY DEF create_room, There
<1>3. others \cup {a} \in SUBSET Agent
  OBVIOUS
<1>4. /\ steps \in Rows(W) /\ others \cup {a} \subseteq Last(steps).agents
      /\ SameRooms(store, Last(steps))
  BY <1>3, EnsureIs
<1>5. IsFiniteSet(evicted) /\ Cardinality(DOMAIN store.rooms \ evicted) < MaxRooms
  BY EvictedIs
<1>6. (\A s \in W : Sound(s)) /\ \A s \in W : \A x : apply_drop_room(s, x) \in W
  BY GoneIn DEF Grown
<1> HIDE DEF W
<1> DEFINE e == emptied(steps, evicted)
<1>7. /\ e \in Rows(W) /\ Last(e).agents = Last(steps).agents
      /\ DOMAIN Last(e).rooms = DOMAIN Last(steps).rooms \ evicted
  BY <1>4, <1>5, <1>6, DropRoomsIs
<1> HIDE DEF emptied
<1>8. DOMAIN Last(e).rooms = DOMAIN store.rooms \ evicted
  BY <1>4, <1>7 DEF SameRooms
<1>9. /\ members \in Maps(Agent, MemberType) /\ DOMAIN members = others \cup {a}
      /\ \A m \in DOMAIN members : members[m].cursor = 0
  <2>1. \A m \in others \cup {a} : members[m] \in MemberType
    BY DEF Member, MemberType
  <2>2. members \in [others \cup {a} -> MemberType]
    BY <2>1
  <2>3. members \in Maps(Agent, MemberType)
    BY <1>3, <2>2, MapMade
  <2> QED BY <2>3 DEF Member
<1> HIDE DEF members
<1>10. Last(e) \in W /\ r \notin DOMAIN Last(e).rooms /\ Cardinality(DOMAIN Last(e).rooms) < MaxRooms
  BY <1>2, <1>5, <1>7, <1>8, RowIs
<1>11. DOMAIN members \subseteq Last(e).agents
  BY <1>4, <1>7, <1>9
<1> DEFINE t == apply_room(Last(e), r, room)
<1>12. t \in W /\ r \in DOMAIN t.rooms
  BY <1>2, <1>9, <1>10, <1>11, RoomIs DEF W
<1> HIDE DEF t, e
<1> DEFINE m2 == Append(e, t)
<1>13. m2 \in Rows(W) /\ Last(m2) = t
  BY <1>7, <1>12, RowMore
<1> HIDE DEF m2
<1>14. log(m2, r, a) \in Rows(W)
  <2>1. m2 \in Rows(Grown(store, Events)) /\ r \in DOMAIN Last(m2).rooms
    BY <1>12, <1>13 DEF W
  <2> QED BY <2>1, LogIs DEF GoesOn, W
<1>15. all(steps, evicted) = log(m2, r, a)
  BY DEF m2, e, t
<1> HIDE DEF all
<1>16. Makes(all(steps, evicted))
  BY <1>14, <1>15, EventsUnanswering, GrownMakes DEF W
<1> QED BY <1>1, <1>16, MadeIs DEF Commit

\* A row that goes on from the store as it is.
LEMMA JoinStep ==
    ASSUME Sound(store), NEW r \in DOMAIN store.rooms, NEW a \in Agent, NEW actor \in Agent,
           NEW role \in {None, "owner", "member"}, join(r, a, role, actor)
    PROVE  Goes
<1> DEFINE room == store.rooms[r]
           m1 == [room.members[a] EXCEPT !.role = role]
           m2 == Member(IF role = None THEN "member" ELSE role)
<1>1. CASE /\ a \in DOMAIN room.members /\ role # None
           /\ Commit(joined(<<store>>, r, a, m1, actor))
  <2>1. /\ room.members[a] \in MemberType /\ room.members[a].cursor <= store.last_id
        /\ a \in store.agents
    BY <1>1, MembersHave
  <2>2. m1 \in MemberType /\ m1.cursor <= store.last_id
    BY <1>1, <2>1 DEF MemberType
  <2> HIDE DEF m1
  <2>3. <<store>> \in Rows(Grown(store, Events)) /\ Last(<<store>>) = store
    BY StoreRow
  <2>4. joined(<<store>>, r, a, m1, actor) \in Rows(Grown(store, Events))
    BY <2>1, <2>2, <2>3, JoinedIs DEF GoesOn
  <2>5. Makes(joined(<<store>>, r, a, m1, actor))
    BY <2>4, EventsUnanswering, GrownMakes
  <2> QED BY <1>1, <2>5, MadeIs DEF Commit
<1>2. CASE \E steps \in ensure_agents({a}) : Commit(joined(steps, r, a, m2, actor))
  <2>1. PICK steps \in ensure_agents({a}) : Commit(joined(steps, r, a, m2, actor))
    BY <1>2
  <2>2. /\ steps \in Rows(Grown(store, Events)) /\ {a} \subseteq Last(steps).agents
        /\ SameRooms(store, Last(steps))
    BY EnsureIs
  <2>3. m2 \in MemberType /\ m2.cursor = 0
    BY DEF Member, MemberType
  <2> HIDE DEF m2
  <2>4. r \in DOMAIN Last(steps).rooms /\ m2.cursor <= Last(steps).last_id
    BY <2>2, <2>3, StoreRow DEF SameRooms
  <2>5. joined(steps, r, a, m2, actor) \in Rows(Grown(store, Events))
    BY <2>2, <2>3, <2>4, JoinedIs DEF GoesOn
  <2>6. Makes(joined(steps, r, a, m2, actor))
    BY <2>5, EventsUnanswering, GrownMakes
  <2> QED BY <2>1, <2>6, MadeIs DEF Commit
<1> QED BY <1>1, <1>2 DEF join

\* Core::leave_room.
LEMMA LeaveRoomStep ==
    ASSUME Sound(store), NEW r \in DOMAIN store.rooms, NEW a, NEW actor \in Agent,
           leave_room(r, a, actor)
    PROVE  Goes
<1> DEFINE t == apply_no_member(store, r, a)
           left == <<store, t>>
<1>1. store \in Grown(store, Events)
  BY GrownSelf
<1>2. QuietTo(store, r, t)
  BY NoMemberIs
<1>3. DOMAIN t.rooms = DOMAIN store.rooms /\ t \in Grown(store, Events)
  BY <1>1, <1>2 DEF QuietTo
<1>4. Commit(left) \/ Commit(log(left, r, actor))
  BY DEF leave_room
<1> HIDE DEF t
<1>5. left \in Rows(Grown(store, Events)) /\ Last(left) = t
  BY <1>1, <1>3, RowTwo
<1> HIDE DEF left
<1>6. log(left, r, actor) \in Rows(Grown(store, Events))
  BY <1>3, <1>5, LogIs DEF GoesOn
<1>7. Makes(left) /\ Makes(log(left, r, actor))
  BY <1>5, <1>6, EventsUnanswering, GrownMakes
<1> QED BY <1>4, <1>7, MadeIs DEF Commit

\* Core::delete_room.
LEMMA DeleteRoomStep ==
    ASSUME Sound(store), NEW r, NEW actor, delete_room(r, actor)
    PROVE  Goes
<1>1. <<store>> \in Rows(Ends(store)) /\ Last(<<store>>) = store
  BY StoreRow
<1>2. IsFiniteSet({r})
  BY FS_Singleton
<1>3. Makes(drop_rooms(<<store>>, {r}))
  BY <1>1, <1>2, DropEnds DEF Makes
<1> QED BY <1>3, MadeIs DEF delete_room, Commit

\* Core::withdraw.
LEMMA WithdrawStep ==
    ASSUME Sound(store), NEW r \in DOMAIN store.rooms, NEW q, NEW actor, withdraw(r, q, actor)
    PROVE  Goes
<1> DEFINE Q == {<<r, q>>}
           base == <<store>>
           t == apply_question(store, Q, "withdrawn")
<1>1. base \in Rows(Ends(store)) /\ Last(base) = store /\ store \in Ends(store)
  BY StoreRow, RowIs
<1>2. OpenIn(store, Q)
  <2>1. q \in DOMAIN store.rooms[r].posts /\ is_open_question(store.rooms[r].posts[q])
    BY DEF withdraw
  <2>2. store.rooms[r].open = OpenQuestions(store.rooms[r].posts)
    BY DEF Sound, RoomSound
  <2>3. q \in store.rooms[r].open
    BY <2>1, <2>2 DEF OpenQuestions
  <2> QED BY <2>3 DEF OpenIn
<1>3. "withdrawn" \in Settled /\ "withdrawn" # "resolved"
  BY DEF Settled, Status
<1>4. set_question(base, r, q, "withdrawn") = Append(base, t)
  BY <1>1 DEF set_question
<1> HIDE DEF Q, base
<1>5. t \in Ends(store)
  BY <1>1, <1>2, <1>3, SettleEnds
<1>6. SettledRow(store, Q, t)
  BY <1>2, <1>3, SettledInIs, SettledRowIs
<1> HIDE DEF t
<1>7. Append(base, t) \in Rows(Ends(store)) /\ Last(Append(base, t)) = t
  BY <1>1, <1>5, RowMore
<1>8. Makes(Append(base, t))
  BY <1>6, <1>7 DEF Makes, SettledRow
<1>9. Commit(set_question(base, r, q, "withdrawn"))
  BY DEF withdraw, base
<1> QED BY <1>4, <1>8, <1>9, MadeIs DEF Commit
-----------------------------------------------------------------------------
(***************************************************************************)
(* Rooms updated, read and swept; boards; agents that come and go.         *)
(***************************************************************************)
\* A room that is closed opens again.
LEMMA ReopenedIs ==
    ASSUME Sound(store), NEW r \in DOMAIN store.rooms, NEW actor \in Agent
    PROVE  LET row == Reopened(<<store>>, r, actor)
           IN  row \in Rows(Grown(store, Events)) /\ r \in DOMAIN Last(row).rooms
<1> DEFINE base == <<store>>
           t == apply_close(store, r, None)
           more == Append(base, t)
           all == Reopened(base, r, actor)
<1>1. base \in Rows(Grown(store, Events)) /\ Last(base) = store
  BY StoreRow
<1>2. QuietTo(store, r, t)
  BY CloseIs
<1>3. DOMAIN t.rooms = DOMAIN store.rooms
  BY <1>2 DEF QuietTo
<1>4. all = log(more, r, actor)
  BY <1>1 DEF Reopened
<1> HIDE DEF t, base, all
<1>5. more \in Rows(Grown(store, Events)) /\ Last(more) = t
  BY <1>1, <1>2, QuietRow
<1> HIDE DEF more
<1>6. log(more, r, actor) \in Rows(Grown(store, Events)) /\ SameFrame(t, Last(log(more, r, actor)))
  BY <1>3, <1>5, LogIs DEF GoesOn
<1>7. r \in DOMAIN Last(all).rooms
  BY <1>3, <1>4, <1>6 DEF SameFrame
<1> QED BY <1>4, <1>6, <1>7 DEF all, base

\* A room closes: its open questions are withdrawn first.
LEMMA ClosingIs ==
    ASSUME Sound(store), NEW row \in Rows(Grown(store, Events)), NEW r \in DOMAIN Last(row).rooms,
           NEW actor \in Agent, now \in Nat
    PROVE  Makes(Closing(row, r, actor))
<1> DEFINE logged == log(row, r, actor)
           settled == withdrawn(logged, r, Last(logged).rooms[r].open)
           t == apply_close(Last(settled), r, now)
           W == Ends(store)
<1>1. logged \in Rows(Grown(store, Events)) /\ SameFrame(Last(row), Last(logged))
  BY LogIs DEF GoesOn
<1>2. r \in DOMAIN Last(logged).rooms
  BY <1>1 DEF SameFrame
<1>3. Closing(row, r, actor) = Append(settled, t)
  BY DEF Closing
<1> HIDE DEF logged, W
<1>4. Makes(logged)
  BY <1>1, EventsUnanswering, GrownMakes
<1>5. logged \in Rows(W) /\ (Awaited(store) => Awaited(Last(logged)))
  BY <1>4 DEF Makes, W
<1>6. /\ settled \in Rows(W) /\ r \in DOMAIN Last(settled).rooms
      /\ Last(settled).rooms[r].open = {}
      /\ Awaited(Last(logged)) => Awaited(Last(settled))
  BY <1>2, <1>5, WithdrawnIs DEF W
<1> HIDE DEF settled
<1>7. Last(settled) \in W /\ Sound(Last(settled))
  BY <1>6, RowIs DEF W, Ends
<1>8. QuietTo(Last(settled), r, t)
  BY <1>6, <1>7, CloseIs
<1>9. t \in W
  BY <1>7, <1>8 DEF QuietTo, W
<1>10. Awaited(Last(settled)) => Awaited(t)
  BY <1>6, <1>7, CloseAwaited
<1> HIDE DEF t
<1>11. Append(settled, t) \in Rows(W) /\ Last(Append(settled, t)) = t
  BY <1>6, <1>9, RowMore
<1> QED BY <1>3, <1>5, <1>6, <1>10, <1>11 DEF Makes, W

\* Core::update_room: a room reopened, its topic set, closed.
LEMMA UpdateRoomStep ==
    ASSUME Sound(store), NEW r \in DOMAIN store.rooms, NEW topic, NEW closed, NEW actor \in Agent,
           now \in Nat, update_room(r, topic, closed, actor)
    PROVE  Goes
<1> DEFINE base == <<store>>
           W == Grown(store, Events)
           reopened == IF closed = FALSE /\ ~is_open(store.rooms[r]) THEN Reopened(base, r, actor)
                       ELSE base
           set == IF topic THEN log(reopened, r, actor) ELSE reopened
<1>1. base \in Rows(W) /\ r \in DOMAIN Last(base).rooms
  BY StoreRow
<1>2. reopened \in Rows(W) /\ r \in DOMAIN Last(reopened).rooms
  BY <1>1, ReopenedIs
<1>3. Commit(Closing(set, r, actor)) \/ Commit(set)
  BY DEF update_room
<1> HIDE DEF reopened, base
<1>4. set \in Rows(W) /\ r \in DOMAIN Last(set).rooms
  <2>1. CASE topic
    <3>1. GoesOn(store, Events, reopened, log(reopened, r, actor))
      BY <1>2, LogIs
    <3> QED BY <1>2, <2>1, <3>1 DEF GoesOn, SameFrame
  <2>2. CASE ~topic
    BY <1>2, <2>2
  <2> QED BY <2>1, <2>2
<1> HIDE DEF set
<1>5. Makes(set)
  BY <1>4, EventsUnanswering, GrownMakes
<1>6. Makes(Closing(set, r, actor))
  BY <1>4, ClosingIs
<1> QED BY <1>3, <1>5, <1>6, MadeIs DEF Commit

\* Core::read_room moves a cursor to a post there is.
LEMMA ReadRoomStep ==
    ASSUME Sound(store), NEW r \in DOMAIN store.rooms, NEW a, NEW n \in Nat \ {0}, read_room(r, a, n)
    PROVE  Goes
<1> DEFINE posts == store.rooms[r].posts
           unread == {id \in DOMAIN posts : id > store.rooms[r].members[a].cursor}
           others == First({id \in unread : posts[id].from # a}, n)
           some == IF Cardinality(others) = n THEN others ELSE unread
           t(id) == apply_cursor(store, r, a, id)
<1>1. a \in DOMAIN store.rooms[r].members /\ unread # {} /\ Commit(<<store, t(Max(some))>>)
  BY DEF read_room
<1>2. DOMAIN posts \in SUBSET (1 .. store.last_id) /\ store.last_id \in Nat
  <2>1. RoomSound(store.rooms[r], store.last_id, store.agents) /\ store.last_id \in Nat
    BY StoreHas DEF Sound
  <2> QED BY <2>1, OpenIs
<1>3. unread \subseteq 1 .. store.last_id /\ others \subseteq unread
  BY <1>2 DEF First
<1> HIDE DEF posts, others, unread
<1>4. some \subseteq 1 .. store.last_id /\ some # {}
  <2>1. Cardinality(others) = n => others # {}
    BY FS_EmptySet
  <2> QED BY <1>1, <1>3, <2>1
<1> HIDE DEF some
<1>5. Max(some) \in some
  <2>1. IsFiniteSet(1 .. store.last_id)
    BY <1>2, FS_Interval
  <2>2. IsFiniteSet(some)
    BY <1>4, <2>1, FS_Subset
  <2>3. some \in SUBSET Nat
    BY <1>2, <1>4
  <2> QED BY <1>4, <2>2, <2>3, GreatestOfFinite
<1> DEFINE id == Max(some)
<1>13. id \in 1 .. store.last_id
  BY <1>4, <1>5
<1>6. id \in Nat /\ id <= store.last_id
  BY <1>2, <1>13
<1> HIDE DEF id
<1>7. store \in Grown(store, Events)
  BY GrownSelf
<1>8. QuietTo(store, r, t(id))
  BY <1>1, <1>6, CursorIs
<1> DEFINE u == t(id)
<1>9. u \in Grown(store, Events)
  BY <1>7, <1>8 DEF QuietTo
<1>10. Commit(<<store, u>>)
  BY <1>1 DEF id
<1> HIDE DEF u
<1>11. <<store, u>> \in Rows(Grown(store, Events))
  BY <1>7, <1>9, RowTwo
<1>12. Makes(<<store, u>>)
  BY <1>11, EventsUnanswering, GrownMakes
<1> QED BY <1>10, <1>12, MadeIs DEF Commit

\* Core::board_set: an entry set is at a later version.
LEMMA BoardSetStep ==
    ASSUME Sound(store), NEW r \in DOMAIN store.rooms, NEW k \in Entry, NEW v \in Value \cup {None},
           NEW expect, NEW actor \in Agent, board_set(r, k, v, expect, actor)
    PROVE  Goes
<1> DEFINE board == store.rooms[r].board
           version == Version(store, <<r, k>>)
           e == IF v = None THEN None ELSE BoardEntry(v, NextVersion(version))
           t == apply_board(store, r, k, e)
           row == <<store, t>>
<1>1. Commit(log(row, r, actor))
  BY DEF board_set
<1>2. board \in Maps(Entry, EntryType)
  BY StoreHas, RoomHas DEF Sound
<1>3. version = IF k \in DOMAIN board THEN board[k].version ELSE 0
  BY DEF Version
<1> HIDE DEF board
<1>4. version \in Nat /\ (k \in DOMAIN board => version = board[k].version)
  <2>1. k \in DOMAIN board => board[k] \in EntryType
    BY <1>2, MapHas
  <2> QED BY <1>3, <2>1 DEF EntryType
<1> HIDE DEF version
<1>5. e \in EntryType \cup {None} /\ (e # None => e.version = version + 1)
  BY <1>4 DEF BoardEntry, NextVersion, EntryType
<1> HIDE DEF e
<1>6. k \in DOMAIN board /\ e # None => e.version > board[k].version
  BY <1>4, <1>5
<1>7. t \in Grown(store, Events) /\ DOMAIN t.rooms = DOMAIN store.rooms
  BY <1>5, <1>6, BoardIs DEF board
<1> HIDE DEF t
<1>8. store \in Grown(store, Events)
  BY GrownSelf
<1>9. row \in Rows(Grown(store, Events)) /\ Last(row) = t
  BY <1>7, <1>8, RowTwo
<1> HIDE DEF row
<1>10. log(row, r, actor) \in Rows(Grown(store, Events))
  BY <1>7, <1>9, LogIs DEF GoesOn
<1>11. Makes(log(row, r, actor))
  BY <1>10, EventsUnanswering, GrownMakes
<1> QED BY <1>1, <1>11, MadeIs DEF Commit

\* Core::ensure_agents.
LEMMA AppearStep ==
    ASSUME Sound(store), NEW a \in Agent, appear(a)
    PROVE  Goes
<1>1. PICK steps \in ensure_agents({a}) : Made(steps, 1)
  BY DEF appear
<1>2. steps \in Rows(Grown(store, Events))
  BY EnsureIs
<1>3. Makes(steps)
  BY <1>2, EventsUnanswering, GrownMakes
<1> QED BY <1>1, <1>3, MadeIs

\* Core::forget.
LEMMA ForgetStep ==
    ASSUME Sound(store), NEW a \in Agent, forget(a)
    PROVE  Goes
<1>1. <<store>> \in Rows(Grown(store, Events))
  BY StoreRow
<1>2. forgotten(<<store>>, {a}) \in Rows(Grown(store, Events))
  BY <1>1, ForgottenIs
<1>3. Makes(forgotten(<<store>>, {a}))
  BY <1>2, EventsUnanswering, GrownMakes
<1> QED BY <1>3, MadeIs DEF forget

\* Questions that are overdue are a finite set of open ones.
LEMMA OverdueIs ==
    ASSUME Sound(store)
    PROVE  IsFiniteSet(Overdue) /\ OpenIn(store, Overdue)
<1> DEFINE D == DOMAIN store.rooms
           n == store.last_id
<1>1. IsFiniteSet(D) /\ n \in Nat
  BY StoreHas DEF Sound
<1>2. ASSUME NEW r \in D PROVE store.rooms[r].open \subseteq 1 .. n
  <2>1. RoomSound(store.rooms[r], store.last_id, store.agents)
    BY DEF Sound
  <2> QED BY <1>1, <2>1, OpenIs
<1>3. Overdue \subseteq D \X (1 .. n)
  <2> SUFFICES ASSUME NEW q \in Overdue PROVE q \in D \X (1 .. n)
    OBVIOUS
  <2>1. PICK r \in D : q \in {<<r, id>> : id \in Expired(store.rooms[r])}
    BY DEF Overdue
  <2>2. PICK id \in Expired(store.rooms[r]) : q = <<r, id>>
    BY <2>1
  <2>3. id \in store.rooms[r].open
    BY <2>2 DEF Expired
  <2>4. id \in 1 .. n
    BY <1>2, <2>3
  <2> HIDE DEF D, n
  <2> QED BY <2>2, <2>4
<1>4. IsFiniteSet(D \X (1 .. n))
  <2>1. IsFiniteSet(1 .. n)
    BY <1>1, FS_Interval
  <2> HIDE DEF D, n
  <2> QED BY <1>1, <2>1, FS_Product
<1>5. IsFiniteSet(Overdue)
  BY <1>3, <1>4, FS_Subset
<1>6. ASSUME NEW q \in Overdue PROVE q[1] \in D /\ q[2] \in store.rooms[q[1]].open
  <2>1. PICK r \in D : q \in {<<r, id>> : id \in Expired(store.rooms[r])}
    BY DEF Overdue
  <2>2. PICK id \in Expired(store.rooms[r]) : q = <<r, id>>
    BY <2>1
  <2>3. id \in store.rooms[r].open
    BY <2>2 DEF Expired
  <2> QED BY <2>2, <2>3
<1> QED BY <1>5, <1>6 DEF OpenIn

\* Core::sweep_rooms.
LEMMA SweepStep ==
    ASSUME Sound(store), sweep
    PROVE  Goes
<1> DEFINE W == Ends(store)
           base == <<store>>
           row == expired(base, Overdue)
           stale == {r \in DOMAIN store.rooms : Stale(store.rooms[r])}
           all == drop_rooms(row, stale)
<1>1. base \in Rows(W) /\ Last(base) = store
  BY StoreRow
<1>2. Commit(all)
  BY DEF sweep, Swept
<1>3. IsFiniteSet(stale)
  <2>1. IsFiniteSet(DOMAIN store.rooms)
    BY DEF Sound
  <2>2. stale \subseteq DOMAIN store.rooms
    OBVIOUS
  <2> HIDE DEF stale
  <2> QED BY <2>1, <2>2, FS_Subset
<1> HIDE DEF base, stale, W
<1>4. row \in Rows(W) /\ (Awaited(store) => Awaited(Last(row)))
  BY <1>1, OverdueIs, ExpiredIs DEF W
<1> HIDE DEF row
<1>5. all \in Rows(W) /\ (Awaited(Last(row)) => Awaited(Last(all)))
  BY <1>3, <1>4, DropEnds DEF W
<1>6. Makes(all)
  BY <1>4, <1>5 DEF Makes, W
<1> QED BY <1>2, <1>6, MadeIs DEF Commit
-----------------------------------------------------------------------------
(***************************************************************************)
(* Posts, questions and answers.                                           *)
(***************************************************************************)
\* A set as a sequence.
LEMMA ToSeqIs ==
    ASSUME NEW S, IsFiniteSet(S)
    PROVE  LET seq == SetToSeq(S)
           IN  /\ IsFiniteSet(DOMAIN seq) /\ DOMAIN seq \subseteq Nat
               /\ \A i \in DOMAIN seq : seq[i] \in S
<1> DEFINE n == Cardinality(S)
           seq == SetToSeq(S)
<1>1. n \in Nat /\ ExistsBijection(1 .. n, S)
  BY FS_CardinalityType
<1>2. PICK g \in Bijection(1 .. n, S) : TRUE
  BY <1>1 DEF ExistsBijection
<1>3. g \in [1 .. n -> S] /\ IsInjective(g)
  BY <1>2 DEF Bijection, Injection, IsInjective
<1>4. seq \in [1 .. n -> S]
  BY <1>3 DEF SetToSeq
<1> HIDE DEF seq
<1>5. DOMAIN seq = 1 .. n /\ \A i \in DOMAIN seq : seq[i] \in S
  BY <1>4
<1>6. IsFiniteSet(1 .. n) /\ 1 .. n \subseteq Nat
  BY <1>1, FS_Interval
<1> QED BY <1>5, <1>6 DEF seq

\* Members brought in, one by one.
LEMMA BroughtIs ==
    ASSUME Sound(store), NEW row \in Rows(Grown(store, Events)), NEW r \in DOMAIN Last(row).rooms,
           NEW ms \in SUBSET Last(row).agents, NEW actor \in Agent
    PROVE  GoesOn(store, Events, row, brought(row, r, ms, actor))
<1> DEFINE R == {longer \in Rows(Grown(store, Events)) : SameFrame(Last(row), Last(longer))}
           step(acc, m) == joined(acc, r, m, Member("member"), actor)
           seq == SetToSeq(ms)
           D == DOMAIN seq
           ch == [S \in SUBSET D |-> Max(S)]
           eq(g) == g = [S \in SUBSET D |->
                           IF S = {} THEN row ELSE step(g[S \ {Max(S)}], seq[Max(S)])]
           h == CHOOSE g : eq(g)
           Fam == [S \in SUBSET D |-> R]
           f == [p \in (SUBSET D) \X R |-> step(p[2], seq[ch[p[1]]])]
<1>1. brought(row, r, ms, actor) = h[D]
  <2> HIDE DEF seq
  <2> QED BY DEF brought, FoldLeft, MapThenFoldSet, seq
<1>2. IsFiniteSet(ms)
  <2>1. Last(row).agents \in SUBSET Agent
    BY LastIs, StoreHas DEF Sound
  <2> QED BY <2>1, AgentAssumption, FS_Subset
<1>3. IsFiniteSet(D) /\ D \subseteq Nat /\ \A i \in D : seq[i] \in ms
  BY <1>2, ToSeqIs
<1>4. row \in R
  <2>1. SameFrame(Last(row), Last(row))
    BY LastIs, FrameSame
  <2> QED BY <2>1
<1>6. \A S \in SUBSET D : S # {} => ch[S] \in S /\ ch[S] = Max(S)
  <2> SUFFICES ASSUME NEW S \in SUBSET D, S # {} PROVE Max(S) \in S
    OBVIOUS
  <2> HIDE DEF seq
  <2>1. IsFiniteSet(S) /\ S \in SUBSET Nat
    BY <1>3, FS_Subset
  <2> QED BY <2>1, GreatestOfFinite
<1>7. ASSUME NEW acc \in R, NEW m \in ms PROVE step(acc, m) \in R
  <2> DEFINE W == Grown(store, Events)
             k == Member("member")
  <2>1. acc \in Rows(W) /\ SameFrame(Last(row), Last(acc))
    OBVIOUS
  <2>2. r \in DOMAIN Last(acc).rooms /\ m \in Last(acc).agents
    BY <2>1 DEF SameFrame
  <2>3. k \in MemberType /\ k.cursor <= Last(acc).last_id
    <3>1. Last(acc).last_id \in Nat
      BY <2>1, LastIs
    <3> QED BY <3>1 DEF Member, MemberType
  <2> HIDE DEF k
  <2>4. GoesOn(store, Events, acc, joined(acc, r, m, k, actor))
    BY <2>1, <2>2, <2>3, JoinedIs DEF W
  <2>5. GoesOn(store, Events, row, acc)
    BY <2>1 DEF GoesOn
  <2>6. GoesOn(store, Events, row, joined(acc, r, m, k, actor))
    BY <2>4, <2>5, GoesOnOn
  <2> QED BY <2>6 DEF GoesOn, k
<1> HIDE DEF seq, R, step
<1>9. PICK g : IsFold(g, D, ch, f, row) /\ \A S \in SUBSET D : g[S] \in Fam[S]
  <2>1. ASSUME NEW S \in SUBSET D, S # {}, NEW acc \in Fam[S \ {ch[S]}]
        PROVE  f[<<S, acc>>] \in Fam[S]
    <3>1. ch[S] \in D /\ acc \in R
      BY <1>6, <2>1
    <3>2. step(acc, seq[ch[S]]) \in R
      BY <1>3, <1>7, <3>1
    <3>4. Fam[S] = R
      OBVIOUS
    <3> HIDE DEF ch, Fam
    <3>3. f[<<S, acc>>] = step(acc, seq[ch[S]])
      BY <3>1
    <3> QED BY <3>2, <3>3, <3>4
  <2>2. \A S \in SUBSET D : S # {} => ch[S] \in S
    BY <1>6
  <2>4. row \in Fam[{}]
    BY <1>4
  <2> HIDE DEF ch, f, Fam
  <2>3. FoldsIn(D, ch, Fam, f, row)
    BY <1>3, <2>1, <2>2, <2>4, FoldMakes
  <2> QED BY <2>3 DEF FoldsIn
<1>10. eq(g)
  <2> DEFINE e(S) == IF S = {} THEN row ELSE step(g[S \ {Max(S)}], seq[Max(S)])
             e2(S) == IF S = {} THEN row ELSE f[<<S, g[S \ {ch[S]}]>>]
  <2>1. g = [S \in SUBSET D |-> e2(S)]
    BY <1>9 DEF IsFold
  <2>2. ASSUME NEW S \in SUBSET D
        PROVE  e2(S) = e(S)
    <3>1. CASE S = {}
      BY <3>1
    <3>2. CASE S # {}
      <4>1. ch[S] = Max(S) /\ g[S \ {ch[S]}] \in R
        BY <1>6, <1>9, <3>2
      <4> HIDE DEF ch
      <4>2. f[<<S, g[S \ {ch[S]}]>>] = step(g[S \ {ch[S]}], seq[ch[S]])
        BY <4>1
      <4> QED BY <3>2, <4>1, <4>2
    <3> QED BY <3>1, <3>2
  <2> HIDE DEF e2
  <2>3. g = [S \in SUBSET D |-> e(S)]
    BY <2>1, <2>2
  <2> QED BY <2>3
<1>11. eq(h)
  BY <1>10
<1>12. h[{}] \in Fam[{}]
  <2>1. h[{}] = row
    BY <1>11
  <2>2. Fam[{}] = R
    OBVIOUS
  <2> HIDE DEF h, Fam
  <2> QED BY <1>4, <2>1, <2>2
<1>13. \A S \in SUBSET D : S # {} /\ h[S \ {ch[S]}] \in Fam[S \ {ch[S]}] => h[S] \in Fam[S]
  <2> SUFFICES ASSUME NEW S \in SUBSET D, S # {}, h[S \ {ch[S]}] \in Fam[S \ {ch[S]}]
               PROVE  h[S] \in Fam[S]
    OBVIOUS
  <2>1. ch[S] = Max(S) /\ ch[S] \in S
    BY <1>6
  <2>2. h[S] = step(h[S \ {Max(S)}], seq[Max(S)])
    BY <1>11
  <2>3. Fam[S] = R /\ Fam[S \ {ch[S]}] = R
    OBVIOUS
  <2> HIDE DEF h, ch, Fam
  <2> QED BY <1>3, <1>7, <2>1, <2>2, <2>3
<1>14. h[D] \in Fam[D]
  <2>1. \A S \in SUBSET D : S # {} => ch[S] \in S
    BY <1>6
  <2> HIDE DEF h, ch, Fam
  <2>2. \A S \in SUBSET D : h[S] \in Fam[S]
    BY <1>3, <1>12, <1>13, <2>1, FoldHolds
  <2> QED BY <2>2
<1>15. Fam[D] = R
  OBVIOUS
<1> HIDE DEF h, Fam
<1>16. h[D] \in R
  BY <1>14, <1>15
<1> QED BY <1>1, <1>16 DEF R, GoesOn
\* What is in a room to which only events were added: the open questions and
\* their answers there were, and no new post under a key.
EventsOnly(p, q) ==
    /\ q.open = p.open
    /\ \A x \in p.open : q.posts[x] = p.posts[x] /\ Answers(q, x) = Answers(p, x)
    /\ \A x \in DOMAIN p.posts \cap DOMAIN q.posts : q.posts[x] = p.posts[x]
    /\ \A i \in DOMAIN q.posts :
          q.posts[i].key # None => i \in DOMAIN p.posts /\ q.posts[i] = p.posts[i]

\* Lines in a timeline leave questions, answers and keys as they were.
LEMMA EventsOnlyIs ==
    ASSUME Sound(store), NEW t \in Grown(store, Events), NEW r \in DOMAIN store.rooms \cap DOMAIN t.rooms
    PROVE  EventsOnly(store.rooms[r], t.rooms[r])
<1> DEFINE p == store.rooms[r]
           q == t.rooms[r]
           n == store.last_id
<1>1. /\ RoomSound(q, t.last_id, t.agents) /\ RoomGrew(r, p, q, n, Events)
      /\ RoomSound(p, n, store.agents) /\ n \in Nat /\ t.last_id \in Nat
  BY StoreHas DEF Grown, Grew, Sound
<1> HIDE DEF p, q, n
<1>2. /\ DOMAIN q.posts \subseteq 1 .. t.last_id /\ q.open = OpenQuestions(q.posts)
      /\ \A i \in DOMAIN q.posts : PostSound(q.posts[i], t.last_id)
      /\ DOMAIN p.posts \subseteq 1 .. n /\ p.open = OpenQuestions(p.posts)
  BY <1>1 DEF RoomSound
<1>3. ASSUME NEW i \in DOMAIN q.posts, q.posts[i].kind # "event"
      PROVE  i \in DOMAIN p.posts /\ q.posts[i] = p.posts[i]
  <2>1. <<r, q.posts[i].kind, q.posts[i].reply_to>> \notin Events
    <3>1. ASSUME NEW y \in Name, <<r, q.posts[i].kind, q.posts[i].reply_to>> = <<y, "event", None>>
          PROVE  FALSE
      BY <1>3, <3>1
    <3> QED BY <3>1 DEF Events
  <2>2. ~(i > n) /\ i \in Nat
    BY <1>1, <1>2, <2>1 DEF RoomGrew
  <2>3. i <= n
    BY <1>1, <2>2
  <2> QED BY <1>1, <2>3 DEF RoomGrew
<1>4. /\ RoomKept(p, q)
      /\ \A x \in p.open : x \in DOMAIN q.posts /\ q.posts[x] = p.posts[x]
                           /\ Answers(p, x) \subseteq Answers(q, x)
  BY <1>1, <1>2, RoomGrewKept
<1>5. q.open = p.open
  <2>1. ASSUME NEW x \in q.open PROVE x \in p.open
    <3>1. x \in DOMAIN q.posts /\ is_open_question(q.posts[x]) /\ q.posts[x].ask # None
      BY <1>2 DEF OpenQuestions, is_open_question
    <3>2. q.posts[x].kind # "event"
      <4>1. q.posts[x].kind = "question"
        BY <1>2, <3>1 DEF PostSound
      <4> QED BY <4>1
    <3>3. x \in DOMAIN p.posts /\ q.posts[x] = p.posts[x]
      BY <1>3, <3>1, <3>2
    <3> QED BY <1>2, <3>1, <3>3 DEF OpenQuestions
  <2>2. ASSUME NEW x \in p.open PROVE x \in q.open
    <3>1. is_open_question(p.posts[x])
      BY <1>2 DEF OpenQuestions
    <3> QED BY <1>2, <1>4, <3>1 DEF OpenQuestions
  <2> QED BY <2>1, <2>2
<1>6. ASSUME NEW x \in p.open PROVE q.posts[x] = p.posts[x] /\ Answers(q, x) = Answers(p, x)
  <2>1. ASSUME NEW i \in Answers(q, x) PROVE i \in Answers(p, x)
    <3>1. i \in DOMAIN q.posts /\ q.posts[i].kind # "event" /\ q.posts[i].kind = "answer"
          /\ q.posts[i].reply_to = x
      BY DEF Answers
    <3>2. i \in DOMAIN p.posts /\ q.posts[i] = p.posts[i]
      BY <1>3, <3>1
    <3> QED BY <3>1, <3>2 DEF Answers
  <2> QED BY <1>4, <2>1
<1>7. \A x \in DOMAIN p.posts \cap DOMAIN q.posts : q.posts[x] = p.posts[x]
  <2> SUFFICES ASSUME NEW x \in DOMAIN p.posts \cap DOMAIN q.posts PROVE q.posts[x] = p.posts[x]
    OBVIOUS
  <2>1. x <= n
    BY <1>2
  <2> QED BY <1>1, <2>1 DEF RoomGrew
<1>8. ASSUME NEW i \in DOMAIN q.posts, q.posts[i].key # None
      PROVE  i \in DOMAIN p.posts /\ q.posts[i] = p.posts[i]
  <2>1. q.posts[i].kind # "event"
    BY <1>2, <1>8 DEF PostSound
  <2> QED BY <1>3, <2>1
<1>9. EventsOnly(p, q)
  BY <1>5, <1>6, <1>7, <1>8 DEF EventsOnly
<1> QED BY <1>9 DEF p, q

\* A key not used before is not used in what grew from the store.
LEMMA KeyStillNew ==
    ASSUME Sound(store), Fair(store), NEW t \in Grown(store, Events), NEW x,
           NEW r \in DOMAIN store.rooms \cap DOMAIN t.rooms, ~Repeated(r, x.from, x.key)
    PROVE  KeyNew(t, r, x)
<1> SUFFICES ASSUME x.key # None, KeyOf(r, x) \in DOMAIN t.post_keys
             PROVE  FALSE
  BY DEF KeyNew
<1>1. KeysRight(t) /\ KeysRight(store)
  BY DEF Grown, Fair
<1>2. PICK y \in DOMAIN t.rooms : \E i \in DOMAIN t.rooms[y].posts :
         t.rooms[y].posts[i].key # None /\ KeyOf(r, x) = KeyOf(y, t.rooms[y].posts[i])
  BY <1>1 DEF KeysRight
<1>3. PICK i \in DOMAIN t.rooms[y].posts :
         t.rooms[y].posts[i].key # None /\ KeyOf(r, x) = KeyOf(y, t.rooms[y].posts[i])
  BY <1>2
<1>4. y = r
  BY <1>3 DEF KeyOf
<1>5. EventsOnly(store.rooms[r], t.rooms[r])
  BY EventsOnlyIs
<1>6. i \in DOMAIN store.rooms[r].posts /\ store.rooms[r].posts[i] = t.rooms[r].posts[i]
  BY <1>3, <1>4, <1>5 DEF EventsOnly
<1>7. /\ KeyOf(r, x) \in DOMAIN store.post_keys
      /\ store.post_keys[KeyOf(r, x)] \in DOMAIN store.rooms[r].posts
  BY <1>1, <1>3, <1>4, <1>6 DEF KeysRight
<1> QED BY <1>7 DEF Repeated, KeyOf

\* A post that could be made in the store can be made in what grew from it.
LEMMA MayStill ==
    ASSUME Sound(store), NEW row \in Rows(Grown(store, Events)),
           NEW r \in DOMAIN store.rooms, r \in DOMAIN Last(row).rooms,
           Last(row).rooms[r].closed = store.rooms[r].closed,
           NEW x \in PostType, PostSound(x, store.last_id), is_open(store.rooms[r]),
           ~Repeated(r, x.from, x.key), NEW K, <<r, x.kind, x.reply_to>> \in K,
           RoomFair(store.rooms[r]) => Fits(store.rooms[r], x)
    PROVE  MayPost(store, Last(row), r, x, K)
<1> DEFINE t == Last(row)
           p == store.rooms[r]
           q == t.rooms[r]
<1>1. t \in Grown(store, Events) /\ t.last_id \in Nat /\ store.last_id \in Nat /\ store.last_id <= t.last_id
  BY LastIs, StoreHas DEF Grew, Sound
<1>2. EventsOnly(p, q)
  BY <1>1, EventsOnlyIs
<1>3. PostSound(x, t.last_id)
  BY <1>1 DEF PostSound
<1>4. is_open(q)
  BY DEF is_open
<1>5. ASSUME Fair(store) PROVE Fits(q, x) /\ KeyNew(t, r, x)
  <2>1. KeyNew(t, r, x)
    BY <1>1, <1>5, KeyStillNew
  <2>2. Fits(p, x)
    BY <1>5 DEF Fair
  <2>4. RoomSound(p, store.last_id, store.agents)
    BY DEF Sound
  <2> HIDE DEF p, q, t
  <2>3. Fits(q, x)
    <3>1. q.open = p.open /\ \A a : OpenOf(q, a) = OpenOf(p, a)
      BY <1>2 DEF EventsOnly, OpenOf
    <3>2. ASSUME x.kind = "answer", x.reply_to \in q.open
          PROVE  /\ x.from # q.posts[x.reply_to].from
                 /\ \A i \in Answers(q, x.reply_to) : q.posts[i].from # x.from
      <4>1. x.reply_to \in p.open /\ q.posts[x.reply_to] = p.posts[x.reply_to]
            /\ Answers(q, x.reply_to) = Answers(p, x.reply_to)
        BY <1>2, <3>2 DEF EventsOnly
      <4>2. \A i \in Answers(p, x.reply_to) : p.posts[i].from # x.from
        BY <2>2, <3>2, <4>1 DEF Fits
      <4>3. \A i \in Answers(p, x.reply_to) : i \in DOMAIN p.posts /\ i \in DOMAIN q.posts
        BY <4>1 DEF Answers
      <4>4. \A i \in Answers(p, x.reply_to) : q.posts[i] = p.posts[i]
        BY <1>2, <4>3 DEF EventsOnly
      <4>5. x.from # p.posts[x.reply_to].from
        BY <2>2, <3>2, <4>1 DEF Fits
      <4> QED BY <4>1, <4>2, <4>4, <4>5
    <3> QED BY <2>2, <3>1, <3>2 DEF Fits
  <2> QED BY <2>1, <2>3
<1> QED BY <1>3, <1>4, <1>5 DEF MayPost
\* Core::post: those it brings in join, then the post is made.
LEMMA PostedStep ==
    ASSUME Sound(store), NEW r \in DOMAIN store.rooms, NEW a \in Agent, NEW to \in SUBSET Agent,
           NEW x \in PostType, PostSound(x, store.last_id), is_open(store.rooms[r]),
           ~Repeated(r, x.from, x.key), x.kind # "answer",
           RoomFair(store.rooms[r]) => Fits(store.rooms[r], x), Posted(r, a, to, x)
    PROVE  Goes
<1> DEFINE joining == ({a} \cup to) \ DOMAIN store.rooms[r].members
           K == Events \cup {<<r, x.kind, x.reply_to>>}
           V == Grown(store, Events)
           W == Grown(store, K)
<1>1. PICK steps \in ensure_agents(joining) : Commit(append(brought(steps, r, joining, a), r, x))
  BY DEF Posted
<1>2. joining \in SUBSET Agent
  OBVIOUS
<1> HIDE DEF joining
<1>3. steps \in Rows(V) /\ joining \subseteq Last(steps).agents /\ SameRooms(store, Last(steps))
  BY <1>2, EnsureIs
<1> DEFINE in == brought(steps, r, joining, a)
<1>4. r \in DOMAIN Last(steps).rooms /\ Last(steps).rooms[r].closed = store.rooms[r].closed
  BY <1>3 DEF SameRooms
<1>5. GoesOn(store, Events, steps, in)
  BY <1>3, <1>4, BroughtIs
<1> HIDE DEF in
<1>6. /\ in \in Rows(V) /\ r \in DOMAIN Last(in).rooms
      /\ Last(in).rooms[r].closed = store.rooms[r].closed
  BY <1>4, <1>5 DEF GoesOn, SameFrame
<1>7. MayPost(store, Last(in), r, x, K)
  <2>1. <<r, x.kind, x.reply_to>> \in K
    OBVIOUS
  <2> HIDE DEF K
  <2> QED BY <1>6, <2>1, MayStill
<1>8. Unanswering(K)
  <2> SUFFICES ASSUME NEW y, NEW i PROVE <<y, "answer", i>> \notin K
    BY DEF Unanswering
  <2>1. <<y, "answer", i>> \notin Events
    BY EventsUnanswering DEF Unanswering
  <2>2. <<y, "answer", i>> # <<r, x.kind, x.reply_to>>
    OBVIOUS
  <2> QED BY <2>1, <2>2
<1>9. Events \subseteq K
  OBVIOUS
<1> HIDE DEF K
<1>10. in \in Rows(W)
  BY <1>6, <1>9, GrownMore
<1>11. append(in, r, x) \in Rows(W)
  <2>1. GoesOn(store, K, in, append(in, r, x))
    BY <1>6, <1>7, <1>10, AppendIs
  <2> QED BY <2>1 DEF GoesOn
<1>12. Makes(append(in, r, x))
  BY <1>8, <1>11, GrownMakes
<1> QED BY <1>1, <1>12, MadeIs DEF Commit, in

\* A note posted.
LEMMA PostStep ==
    ASSUME Sound(store), NEW r \in DOMAIN store.rooms, NEW a \in Agent, NEW key \in Key \cup {None},
           post(r, a, key)
    PROVE  Goes
<1> DEFINE x == Post(a, "note", None, None, key)
<1>1. x.kind = "note" /\ x.ask = None /\ x.key = key /\ x.from = a /\ x.reply_to = None
      /\ x \in PostType
  BY DEF Post, PostType, Kind
<1>2. is_open(store.rooms[r]) /\ ~Repeated(r, a, key) /\ Posted(r, a, {}, x)
  BY DEF post
<1> HIDE DEF x
<1>3. PostSound(x, store.last_id) /\ ~is_open_question(x)
  BY <1>1 DEF PostSound, is_open_question
<1>4. Fits(store.rooms[r], x)
  BY <1>1, <1>3 DEF Fits
<1>5. x.kind # "answer"
  BY <1>1
<1> QED BY <1>1, <1>2, <1>3, <1>4, <1>5, PostedStep

\* A question asked, within the limits of admit_question.
LEMMA AskStep ==
    ASSUME Sound(store), NEW r \in DOMAIN store.rooms, NEW a \in Agent, NEW key \in Key \cup {None},
           NEW to \in SUBSET Agent, NEW ttl \in Nat, now \in Nat, ask(r, a, to, ttl, key)
    PROVE  Goes
<1> DEFINE y == Ask(to, now + ttl)
           x == Post(a, "question", None, y, key)
           room == store.rooms[r]
<1>1. /\ is_open(room) /\ ~Repeated(r, a, key) /\ Posted(r, a, to, x)
      /\ admit_question(room, to, a)
  BY DEF ask
<1>2. y \in AskType /\ y.status = "open"
  BY DEF Ask, AskType, Status
<1> HIDE DEF y
<1>3. y # None
  BY <1>2, AskHas
<1>4. x.kind = "question" /\ x.ask = y /\ x.key = key /\ x.from = a /\ x.reply_to = None
      /\ x \in PostType
  BY <1>2 DEF Post, PostType, Kind
<1> HIDE DEF x
<1>5. PostSound(x, store.last_id)
  BY <1>3, <1>4 DEF PostSound
<1>6. x.kind # "answer"
  BY <1>4
<1>7. Fits(room, x)
  BY <1>1, <1>4, <1>6 DEF Fits, admit_question, strict, OpenOf
<1> QED BY <1>1, <1>4, <1>5, <1>6, <1>7, PostedStep

\* An answer made is in the room, as is the question it is to.
LEMMA AnswerMade ==
    ASSUME NEW s, Sound(s), NEW r \in DOMAIN s.rooms, NEW q \in s.rooms[r].open,
           NEW x, x.kind = "answer", x.reply_to = q, ~is_open_question(x),
           NEW u, PostedAt(s, r, x, u), NEW t, Sound(t), r \in DOMAIN t.rooms,
           AllKept(u.rooms[r], t.rooms[r])
    PROVE  q \in t.rooms[r].open /\ Answers(t.rooms[r], q) # {}
<1> DEFINE p == s.rooms[r]
           v == u.rooms[r]
           w == t.rooms[r]
           id == s.last_id + 1
<1>1. /\ p.open = OpenQuestions(p.posts) /\ w.open = OpenQuestions(w.posts)
  BY DEF Sound, RoomSound
<1>2. /\ DOMAIN v.posts = DOMAIN p.posts \cup {id} /\ v.posts[id] = x
      /\ \A i \in DOMAIN p.posts : v.posts[i] = p.posts[i]
  BY DEF PostedAt, Posts1
<1>3. AllKept(v, w) /\ q \in p.open
  OBVIOUS
<1> HIDE DEF p, v, w, id
<1>4. q \in DOMAIN p.posts /\ is_open_question(p.posts[q])
  BY <1>1, <1>3 DEF OpenQuestions
<1>5. q \in DOMAIN v.posts /\ is_open_question(v.posts[q])
  BY <1>2, <1>4
<1>6. q \in DOMAIN w.posts /\ w.posts[q] = v.posts[q]
  BY <1>3, <1>5 DEF AllKept, keeps
<1>7. id \in DOMAIN v.posts /\ keeps(v, v.posts[id])
  BY <1>2, <1>5 DEF keeps
<1>8. id \in DOMAIN w.posts /\ w.posts[id] = x
  BY <1>2, <1>3, <1>7 DEF AllKept
<1>9. id \in Answers(w, q)
  BY <1>8 DEF Answers
<1>10. q \in w.open
  BY <1>1, <1>5, <1>6 DEF OpenQuestions
<1> QED BY <1>9, <1>10 DEF w

\* An answer given, the last one resolving the question.
LEMMA AnswerStep ==
    ASSUME Sound(store), NEW r \in DOMAIN store.rooms, NEW a \in Agent, NEW key \in Key \cup {None},
           NEW q \in DOMAIN store.rooms[r].posts, answer(r, q, a, key)
    PROVE  Goes
<1> DEFINE room == store.rooms[r]
           x == Post(a, "answer", q, None, key)
           K == Events \cup {<<r, "answer", q>>}
           V == Grown(store, Events)
           W == Grown(store, K)
           E == Ends(store)
<1>1. /\ is_open(room) /\ ~Repeated(r, a, key)
      /\ is_open_question(room.posts[q]) /\ may_answer(room, q, a)
  BY DEF answer
<1>2. PICK in \in Rows(V) :
         /\ r \in DOMAIN Last(in).rooms /\ Last(in).rooms[r].closed = room.closed
         /\ \/ Commit(append(in, r, x)) /\ ~Resolved(Last(append(in, r, x)).rooms[r], q)
            \/ /\ Commit(set_question(append(in, r, x), r, q, "resolved"))
               /\ Resolved(Last(append(in, r, x)).rooms[r], q)
  <2> DEFINE commits(in) ==
                \/ Commit(append(in, r, x)) /\ ~Resolved(Last(append(in, r, x)).rooms[r], q)
                \/ /\ Commit(set_question(append(in, r, x), r, q, "resolved"))
                   /\ Resolved(Last(append(in, r, x)).rooms[r], q)
             base == <<store>>
             m == Member("member")
  <2>1. \/ a \in DOMAIN room.members /\ commits(base)
        \/ \E steps \in ensure_agents({a}) : commits(joined(steps, r, a, m, a))
    BY DEF answer
  <2> HIDE DEF commits
  <2>2. CASE commits(base)
    <3>1. base \in Rows(V) /\ Last(base) = store
      BY StoreRow
    <3> HIDE DEF base
    <3> QED BY <2>2, <3>1 DEF commits
  <2>3. CASE \E steps \in ensure_agents({a}) : commits(joined(steps, r, a, m, a))
    <3>1. PICK steps \in ensure_agents({a}) : commits(joined(steps, r, a, m, a))
      BY <2>3
    <3>2. steps \in Rows(V) /\ {a} \subseteq Last(steps).agents /\ SameRooms(store, Last(steps))
      BY EnsureIs
    <3>3. r \in DOMAIN Last(steps).rooms /\ Last(steps).rooms[r].closed = room.closed
      BY <3>2 DEF SameRooms
    <3>4. m \in MemberType /\ m.cursor <= Last(steps).last_id
      <4>1. Last(steps).last_id \in Nat
        BY <3>2, LastIs
      <4> QED BY <4>1 DEF Member, MemberType
    <3> HIDE DEF m
    <3> DEFINE in == joined(steps, r, a, m, a)
    <3>5. GoesOn(store, Events, steps, in)
      BY <3>2, <3>3, <3>4, JoinedIs
    <3> HIDE DEF in
    <3>6. /\ in \in Rows(V) /\ r \in DOMAIN Last(in).rooms
          /\ Last(in).rooms[r].closed = room.closed
      BY <3>3, <3>5 DEF GoesOn, SameFrame
    <3>7. commits(in)
      BY <3>1 DEF in
    <3> QED BY <3>6, <3>7 DEF commits
  <2> QED BY <2>1, <2>2, <2>3
<1>3. /\ q \in room.open /\ q \in 1 .. store.last_id
  <2>1. room.open = OpenQuestions(room.posts) /\ DOMAIN room.posts \subseteq 1 .. store.last_id
    BY DEF Sound, RoomSound
  <2> QED BY <1>1, <2>1 DEF OpenQuestions
<1>4. x.kind = "answer" /\ x.ask = None /\ x.key = key /\ x.from = a /\ x.reply_to = q
  BY DEF Post
<1>5. x \in PostType
  <2>1. q \in Nat
    BY <1>3, StoreHas DEF Sound
  <2> QED BY <2>1 DEF Post, PostType, Kind
<1> HIDE DEF x
<1>6. PostSound(x, store.last_id) /\ ~is_open_question(x)
  BY <1>3, <1>4 DEF PostSound, is_open_question
<1>7. Fits(room, x)
  <2>1. x.kind = "answer" /\ x.from = a /\ x.reply_to = q /\ ~is_open_question(x)
    BY <1>4, <1>6
  <2>2. a # room.posts[q].from
    BY <1>1 DEF may_answer
  <2>3. \A i \in Answers(room, q) : room.posts[i].from # a
    BY <1>1 DEF may_answer, answered
  <2> HIDE DEF room
  <2> QED BY <2>1, <2>2, <2>3 DEF Fits
<1>8. <<r, x.kind, x.reply_to>> \in K /\ Events \subseteq K
  BY <1>4
<1>9. \A y, i : <<y, "answer", i>> \in K => y = r /\ i = q
  <2> SUFFICES ASSUME NEW y, NEW i, <<y, "answer", i>> \in K PROVE y = r /\ i = q
    OBVIOUS
  <2>1. <<y, "answer", i>> \notin Events
    BY EventsUnanswering DEF Unanswering
  <2>2. <<y, "answer", i>> = <<r, "answer", q>>
    BY <2>1
  <2> QED BY <2>2
<1> HIDE DEF K
<1>10. ~Repeated(r, x.from, x.key)
  BY <1>1, <1>4
<1>11. MayPost(store, Last(in), r, x, K)
  BY <1>1, <1>2, <1>5, <1>6, <1>7, <1>8, <1>10, MayStill
<1>12. in \in Rows(W)
  BY <1>8, GrownMore
<1> DEFINE made == append(in, r, x)
           t == Last(made)
<1>13. /\ GoesOn(store, K, in, made)
       /\ \E u : PostedAt(Last(in), r, x, u) /\ AllKept(u.rooms[r], t.rooms[r])
  BY <1>2, <1>11, <1>12, AppendIs
<1> HIDE DEF made
<1>14. made \in Rows(W) /\ r \in DOMAIN t.rooms
  BY <1>2, <1>13 DEF GoesOn, SameFrame
<1>15. t \in W /\ Sound(t) /\ Sound(Last(in)) /\ Last(in) \in V
  BY <1>14, LastIs
<1>16. q \in Last(in).rooms[r].open
  <2>1. EventsOnly(room, Last(in).rooms[r])
    BY <1>2, <1>15, EventsOnlyIs
  <2> QED BY <1>3, <2>1 DEF EventsOnly
<1>17. q \in t.rooms[r].open /\ Answers(t.rooms[r], q) # {}
  BY <1>2, <1>4, <1>6, <1>13, <1>14, <1>15, <1>16, AnswerMade
<1>18. made \in Rows(E)
  BY <1>14, GrownEnds, RowsAmong
<1>19. ASSUME Awaited(store), NEW y \in DOMAIN t.rooms, NEW i \in t.rooms[y].open, <<y, i>> # <<r, q>>
       PROVE  AwaitedIn(t.rooms[y], i)
  <2>1. <<y, "answer", i>> \notin K
    BY <1>9, <1>19
  <2> QED BY <1>15, <1>19, <2>1, GrownAwaited
<1>20. CASE Commit(made) /\ ~Resolved(t.rooms[r], q)
  <2>1. AwaitedIn(t.rooms[r], q)
    BY <1>20 DEF AwaitedIn, Resolved
  <2>2. Awaited(store) => Awaited(t)
    BY <1>19, <2>1 DEF Awaited
  <2>3. Makes(made)
    BY <1>18, <2>2 DEF Makes
  <2> QED BY <1>20, <2>3, MadeIs DEF Commit
<1>21. CASE Commit(set_question(made, r, q, "resolved")) /\ Resolved(t.rooms[r], q)
  <2> DEFINE Q == {<<r, q>>}
             u == apply_question(t, Q, "resolved")
             all == Append(made, u)
  <2>1. set_question(made, r, q, "resolved") = all
    BY DEF set_question
  <2>2. OpenIn(t, Q)
    BY <1>14, <1>17 DEF OpenIn
  <2>3. "resolved" \in Settled
    BY DEF Settled, Status
  <2>4. MayResolve(t.rooms[r], q)
    BY <1>17, <1>21 DEF MayResolve, Resolved, waiting_on
  <2>5. \A y \in Q : MayResolve(t.rooms[y[1]], y[2])
    BY <2>4
  <2>6. t \in E
    BY <1>18, RowIs
  <2>12. \A y, i : <<y, i>> \notin Q => <<y, i>> # <<r, q>>
    OBVIOUS
  <2> HIDE DEF Q, t
  <2>7. SettledIn(t, Q, "resolved", u)
    BY <1>15, <2>2, <2>3, SettledInIs
  <2>8. u \in E
    BY <2>2, <2>3, <2>5, <2>6, SettleEnds
  <2> HIDE DEF u
  <2>9. Awaited(store) => Awaited(u)
    <3> SUFFICES ASSUME Awaited(store), NEW y \in DOMAIN u.rooms, NEW i \in u.rooms[y].open
                 PROVE  AwaitedIn(u.rooms[y], i)
      BY DEF Awaited
    <3>1. /\ y \in DOMAIN t.rooms /\ i \in t.rooms[y].open /\ <<y, i>> \notin Q
          /\ AwaitedIn(t.rooms[y], i) => AwaitedIn(u.rooms[y], i)
      BY <1>15, <2>7, SettledAwaited
    <3> QED BY <1>19, <2>12, <3>1
  <2>10. all \in Rows(E) /\ Last(all) = u
    BY <1>18, <2>8, RowMore
  <2> HIDE DEF all
  <2>11. Makes(all)
    BY <2>9, <2>10 DEF Makes
  <2> QED BY <1>21, <2>1, <2>11, MadeIs DEF Commit
<1> QED BY <1>2, <1>20, <1>21 DEF made, t
-----------------------------------------------------------------------------
(***************************************************************************)
(* Indexes found out again; agents renamed.                                *)
(***************************************************************************)
\* No two posts of a room under one key of one agent.
KeysOnce(s) ==
    \A r \in DOMAIN s.rooms : \A i, j \in DOMAIN s.rooms[r].posts :
       LET p == s.rooms[r].posts
       IN  p[i].key # None /\ p[i].from = p[j].from /\ p[i].key = p[j].key => i = j

\* Keys that are right tell the posts apart.
LEMMA KeysRightOnce == ASSUME NEW s, KeysRight(s) PROVE KeysOnce(s)
<1> SUFFICES ASSUME NEW r \in DOMAIN s.rooms, NEW i \in DOMAIN s.rooms[r].posts,
                    NEW j \in DOMAIN s.rooms[r].posts,
                    s.rooms[r].posts[i].key # None,
                    s.rooms[r].posts[i].from = s.rooms[r].posts[j].from,
                    s.rooms[r].posts[i].key = s.rooms[r].posts[j].key
             PROVE  i = j
  BY DEF KeysOnce
<1>1. KeyOf(r, s.rooms[r].posts[i]) = KeyOf(r, s.rooms[r].posts[j])
  BY DEF KeyOf
<1>2. s.post_keys[KeyOf(r, s.rooms[r].posts[i])] = i /\ s.post_keys[KeyOf(r, s.rooms[r].posts[j])] = j
  BY DEF KeysRight
<1> QED BY <1>1, <1>2

\* The store is as it was but for its keys, and those are of its posts.
Reindexed(s, t) ==
    /\ t \in StoreType /\ Sound(t)
    /\ t.last_id = s.last_id /\ t.agents = s.agents /\ t.rooms = s.rooms
    /\ KeysOnce(s) => KeysRight(t)

\* Store::reindex finds the keys that are right, where posts can be told apart.
LEMMA ReindexIs ==
    ASSUME NEW s, Sound(s)
    PROVE  Reindexed(s, reindex(s))
<1> DEFINE P(r) == s.rooms[r].posts
           keyed(r) == {id \in DOMAIN P(r) : P(r)[id].key # None}
           of(r, id) == <<r, P(r)[id].from, P(r)[id].key>>
           D == UNION {{of(r, id) : id \in keyed(r)} : r \in DOMAIN s.rooms}
           S(x) == {id \in keyed(x[1]) : of(x[1], id) = x}
           kk == [x \in D |-> Max(S(x))]
           t == reindex(s)
<1>1. t = [s EXCEPT !.post_keys = kk]
  BY DEF reindex
<1>2. /\ s \in StoreType /\ s.last_id \in Nat /\ DOMAIN s.rooms \subseteq Name
      /\ \A r \in DOMAIN s.rooms : s.rooms[r] \in RoomType /\ RoomSound(s.rooms[r], s.last_id, s.agents)
  BY StoreHas DEF Sound
<1>3. ASSUME NEW r \in DOMAIN s.rooms
      PROVE  /\ DOMAIN P(r) \in SUBSET (1 .. s.last_id) /\ IsFiniteSet(DOMAIN P(r))
             /\ \A id \in DOMAIN P(r) : P(r)[id] \in PostType
  BY <1>2, OpenIs, RoomHas
<1> HIDE DEF P, t
<1>4. ASSUME NEW x \in D
      PROVE  \E r \in DOMAIN s.rooms : \E id \in DOMAIN P(r) :
                x = of(r, id) /\ x[1] = r /\ P(r)[id].key # None /\ id \in S(x)
  <2>1. PICK r \in DOMAIN s.rooms : x \in {of(r, id) : id \in keyed(r)}
    OBVIOUS
  <2>2. PICK id \in keyed(r) : x = of(r, id)
    BY <2>1
  <2>3. x[1] = r
    BY <2>2
  <2> QED BY <2>2, <2>3
<1>5. ASSUME NEW x \in D PROVE S(x) \in SUBSET Nat /\ IsFiniteSet(S(x)) /\ S(x) # {}
  <2>0. PICK r \in DOMAIN s.rooms : \E id \in DOMAIN P(r) :
                x = of(r, id) /\ x[1] = r /\ P(r)[id].key # None /\ id \in S(x)
    BY <1>4
  <2>1. PICK id \in DOMAIN P(r) :
                x = of(r, id) /\ x[1] = r /\ P(r)[id].key # None /\ id \in S(x)
    BY <2>0
  <2>2. S(x) \subseteq DOMAIN P(r)
    BY <2>1
  <2> HIDE DEF S
  <2>3. IsFiniteSet(S(x))
    BY <1>3, <2>2, FS_Subset
  <2>4. DOMAIN P(r) \subseteq Nat
    BY <1>3
  <2> QED BY <2>1, <2>2, <2>3, <2>4
<1>6. ASSUME NEW x \in D PROVE Max(S(x)) \in S(x)
  <2>1. S(x) \in SUBSET Nat /\ IsFiniteSet(S(x)) /\ S(x) # {}
    BY <1>5
  <2> HIDE DEF S
  <2> QED BY <2>1, GreatestOfFinite
<1>7. D \in SUBSET PostKey
  <2> SUFFICES ASSUME NEW x \in D PROVE x \in PostKey
    OBVIOUS
  <2>0. PICK r \in DOMAIN s.rooms : \E id \in DOMAIN P(r) : x = of(r, id) /\ P(r)[id].key # None
    BY <1>4
  <2>1. PICK id \in DOMAIN P(r) : x = of(r, id) /\ P(r)[id].key # None
    BY <2>0
  <2>2. P(r)[id] \in PostType /\ r \in Name
    BY <1>2, <1>3
  <2>3. P(r)[id].from \in Agent /\ P(r)[id].key \in Key
    BY <2>1, <2>2 DEF PostType
  <2> HIDE DEF D, S
  <2> QED BY <2>1, <2>2, <2>3 DEF PostKey
<1>8. ASSUME NEW r \in DOMAIN s.rooms, NEW id \in DOMAIN P(r), P(r)[id].key # None
      PROVE  of(r, id) \in D
  <2>1. of(r, id) \in {of(r, i) : i \in keyed(r)}
    BY <1>8
  <2> QED BY <2>1
<1>9. \A x \in D : \A i : i \in S(x) => i \in DOMAIN P(x[1]) /\ of(x[1], i) = x
  OBVIOUS
<1>10. kk \in Maps(PostKey, Nat) /\ DOMAIN kk = D /\ \A x \in D : kk[x] = Max(S(x))
  <2>1. \A x \in D : Max(S(x)) \in Nat
    BY <1>5, <1>6
  <2> HIDE DEF D, S
  <2>2. kk \in [D -> Nat]
    BY <2>1
  <2> QED BY <1>7, <2>2, MapMade
<1> HIDE DEF kk, D, S
<1>11. /\ t \in StoreType /\ t.last_id = s.last_id /\ t.agents = s.agents /\ t.rooms = s.rooms
       /\ t.post_keys = kk
  BY <1>1, <1>2, <1>10 DEF StoreType
<1>12. Sound(t)
  BY <1>11 DEF Sound
<1>13. ASSUME KeysOnce(s) PROVE KeysRight(t)
  <2>1. ASSUME NEW r \in DOMAIN t.rooms, NEW id \in DOMAIN t.rooms[r].posts,
               t.rooms[r].posts[id].key # None
        PROVE  /\ KeyOf(r, t.rooms[r].posts[id]) \in DOMAIN t.post_keys
               /\ t.post_keys[KeyOf(r, t.rooms[r].posts[id])] = id
    <3> DEFINE x == of(r, id)
    <3>1. r \in DOMAIN s.rooms /\ id \in DOMAIN P(r) /\ P(r)[id].key # None
      BY <1>11, <2>1 DEF P
    <3>2. KeyOf(r, t.rooms[r].posts[id]) = x /\ x[1] = r
      BY <1>11 DEF KeyOf, P
    <3>3. x \in D
      BY <1>8, <3>1
    <3>4. kk[x] \in S(x)
      BY <1>6, <1>10, <3>3
    <3>5. kk[x] \in DOMAIN P(r) /\ of(r, kk[x]) = of(r, id)
      BY <1>9, <3>2, <3>3, <3>4
    <3>6. P(r)[kk[x]].from = P(r)[id].from /\ P(r)[kk[x]].key = P(r)[id].key
      BY <3>5
    <3>7. kk[x] = id
      BY <1>13, <3>1, <3>5, <3>6 DEF KeysOnce, P
    <3> HIDE DEF x
    <3> QED BY <1>10, <1>11, <3>2, <3>3, <3>7
  <2>2. ASSUME NEW x \in DOMAIN t.post_keys
        PROVE  \E r \in DOMAIN t.rooms : \E id \in DOMAIN t.rooms[r].posts :
                  t.rooms[r].posts[id].key # None /\ x = KeyOf(r, t.rooms[r].posts[id])
    <3>0. PICK r \in DOMAIN s.rooms : \E id \in DOMAIN P(r) : x = of(r, id) /\ P(r)[id].key # None
      BY <1>4, <1>10, <1>11
    <3>1. PICK id \in DOMAIN P(r) : x = of(r, id) /\ P(r)[id].key # None
      BY <3>0
    <3> QED BY <1>11, <3>1 DEF KeyOf, P
  <2> QED BY <2>1, <2>2 DEF KeysRight
<1>14. Reindexed(s, t)
  BY <1>11, <1>12, <1>13 DEF Reindexed
<1> QED BY <1>14 DEF t
-----------------------------------------------------------------------------
(***************************************************************************)
(* Restarts.                                                               *)
(***************************************************************************)
\* A store with the same rooms keeps them.
LEMMA SameKept ==
    ASSUME NEW s, Sound(s), NEW t, t.rooms = s.rooms
    PROVE  Kept(s, t) /\ (Awaited(s) => Awaited(t))
<1>1. ASSUME NEW r \in DOMAIN s.rooms PROVE RoomKept(s.rooms[r], s.rooms[r])
  <2>1. s.rooms[r].open = OpenQuestions(s.rooms[r].posts)
    BY DEF Sound, RoomSound
  <2>2. \A x \in s.rooms[r].open : x \in DOMAIN s.rooms[r].posts
    BY <2>1, OpenHas
  <2> QED BY <2>2 DEF RoomKept, BoardRises
<1> QED BY <1>1 DEF Kept, Awaited

\* The open questions found out again are those there were.
LEMMA RestartIs == ASSUME Sound(store), restart PROVE Goes /\ store'.rooms = store.rooms
<1> DEFINE f == [r \in DOMAIN store.rooms |->
                   [store.rooms[r] EXCEPT !.open = OpenQuestions(store.rooms[r].posts)]]
           u == [store EXCEPT !.rooms = f]
<1>1. /\ store \in StoreType /\ store.rooms \in [DOMAIN store.rooms -> RoomType]
      /\ \A r \in DOMAIN store.rooms : /\ store.rooms[r] \in RoomType
                                       /\ store.rooms[r].open = OpenQuestions(store.rooms[r].posts)
  <2>1. store.rooms \in Maps(Name, RoomType)
    BY StoreHas DEF Sound
  <2>2. store.rooms \in [DOMAIN store.rooms -> RoomType]
    BY <2>1, MapsFact
  <2> QED BY <2>2 DEF Sound, RoomSound
<1>2. ASSUME NEW p \in RoomType PROVE [p EXCEPT !.open = p.open] = p
  BY DEF RoomType
<1>3. f = store.rooms
  BY <1>1, <1>2
<1> HIDE DEF f
<1>4. u = store
  BY <1>1, <1>3 DEF StoreType
<1>5. store' = reindex(u)
  BY DEF restart, f
<1> HIDE DEF u
<1>6. Reindexed(store, store')
  BY <1>4, <1>5, ReindexIs
<1>7. store' \in StoreType /\ Sound(store') /\ store'.rooms = store.rooms
  BY <1>6 DEF Reindexed
<1>8. Kept(store, store') /\ (Awaited(store) => Awaited(store'))
  BY <1>7, SameKept
<1>9. ASSUME Fair(store) PROVE Fair(store')
  <2>1. KeysRight(store')
    BY <1>6, <1>9, KeysRightOnce DEF Fair, Reindexed
  <2> QED BY <1>7, <1>9, <2>1 DEF Fair
<1> QED BY <1>7, <1>8, <1>9 DEF Goes

\* Store::from_snapshot, as a step.
LEMMA RestartStep == ASSUME Sound(store), restart PROVE Goes
  BY RestartIs

\* Store::from_snapshot leaves the rooms as they were.
LEMMA RestartRooms == ASSUME Sound(store), restart PROVE store'.rooms = store.rooms
  BY RestartIs
-----------------------------------------------------------------------------
(***************************************************************************)
(* Agents renamed.                                                         *)
(***************************************************************************)
Named(from, to, a) == IF a = from THEN to ELSE a

\* A post under the new name.
RenamedPost(p, q, from, to) ==
    /\ q \in PostType
    /\ q.kind = p.kind /\ q.reply_to = p.reply_to /\ q.key = p.key
    /\ q.from = Named(from, to, p.from)
    /\ q.ask = None <=> p.ask = None
    /\ p.ask # None => /\ q.ask.status = p.ask.status
                       /\ q.ask.to = {Named(from, to, a) : a \in p.ask.to}

\* Store::rename, of one post.
LEMMA RenamedPostIs ==
    ASSUME NEW p \in PostType, NEW from \in Agent, NEW to \in Agent, NEW q,
           q = [p EXCEPT !.from = Named(from, to, p.from),
                         !.ask = IF p.ask = None THEN p.ask
                                 ELSE [p.ask EXCEPT !.to = {Named(from, to, a) : a \in p.ask.to}]]
    PROVE  RenamedPost(p, q, from, to)
<1> DEFINE T == {Named(from, to, a) : a \in p.ask.to}
           k == [p.ask EXCEPT !.to = T]
           m == IF p.ask = None THEN p.ask ELSE k
<1>1. /\ p.ask \in AskType \cup {None} /\ p.from \in Agent
      /\ p.kind \in Kind /\ p.key \in Key \cup {None} /\ p.reply_to \in Nat \cup {None}
  BY DEF PostType
<1>2. Named(from, to, p.from) \in Agent
  BY <1>1 DEF Named
<1>3. ASSUME p.ask # None
      PROVE  k \in AskType /\ k.status = p.ask.status /\ k.to = T
  <2>1. p.ask \in AskType /\ p.ask.to \in SUBSET Agent
    BY <1>1, <1>3 DEF AskType
  <2>2. T \in SUBSET Agent
    BY <2>1 DEF Named
  <2> HIDE DEF T
  <2> QED BY <2>1, <2>2 DEF AskType
<1>4. None \notin AskType
  BY NoneAssumption DEF AskType, Status
<1> HIDE DEF T, k
<1>5. m \in AskType \cup {None} /\ (m = None <=> p.ask = None)
      /\ (p.ask # None => m.status = p.ask.status /\ m.to = T)
  BY <1>1, <1>3, <1>4
<1>6. q = [p EXCEPT !.from = Named(from, to, p.from), !.ask = m]
  BY DEF k, T
<1> HIDE DEF m
<1>7. /\ q \in PostType /\ q.kind = p.kind /\ q.reply_to = p.reply_to /\ q.key = p.key
      /\ q.from = Named(from, to, p.from) /\ q.ask = m
  BY <1>2, <1>5, <1>6 DEF PostType
<1> QED BY <1>5, <1>7 DEF RenamedPost, T

\* A room under the new name.
RenamedRoom(p, q, from, to) ==
    /\ q \in RoomType
    /\ DOMAIN q.posts = DOMAIN p.posts
    /\ \A i \in DOMAIN p.posts : RenamedPost(p.posts[i], q.posts[i], from, to)
    /\ q.open = p.open /\ q.board = p.board /\ q.closed = p.closed

\* Members under the new name.
RenamedMembers(mm, n, from, to, out) ==
    /\ out \in Maps(Agent, MemberType)
    /\ DOMAIN out \subseteq (DOMAIN mm \ {from}) \cup {to}
    /\ \A a \in DOMAIN out : out[a].cursor <= n

\* Store::rename, of the members of a room.
LEMMA RenamedMembersIs ==
    ASSUME NEW mm \in Maps(Agent, MemberType), NEW n, NEW from \in Agent, NEW to \in Agent, from # to,
           \A a \in DOMAIN mm : mm[a].cursor <= n, NEW out,
           out = IF from \in DOMAIN mm THEN Put(Without(mm, {from}), to, mm[from]) ELSE mm
    PROVE  RenamedMembers(mm, n, from, to, out)
<1>1. CASE from \in DOMAIN mm
  <2> DEFINE w == Without(mm, {from})
             v == mm[from]
  <2>1. LeavesIn(Agent, MemberType, mm, {from})
    BY WithoutIs
  <2>2. /\ w \in Maps(Agent, MemberType) /\ DOMAIN w = DOMAIN mm \ {from}
        /\ \A a \in DOMAIN w : w[a] = mm[a]
    BY <2>1 DEF LeavesIn
  <2>3. v \in MemberType /\ v.cursor <= n
    BY <1>1, MapHas
  <2> HIDE DEF w, v
  <2>4. PutsIn(Agent, MemberType, w, to, v)
    BY <2>2, <2>3, PutIs
  <2>5. out = Put(w, to, v)
    BY <1>1 DEF w, v
  <2> QED BY <2>2, <2>3, <2>4, <2>5 DEF PutsIn, RenamedMembers
<1>2. CASE from \notin DOMAIN mm
  BY <1>2 DEF RenamedMembers
<1> QED BY <1>1, <1>2

\* The same, as a room of a store.
RenamedIn(p, q, n, A, from, to) ==
    RenamedRoom(p, q, from, to) /\ RoomSound(q, n, (A \ {from}) \cup {to})

\* Store::rename, of one room.
LEMMA RenamedRoomIs ==
    ASSUME NEW p \in RoomType, NEW n \in Nat, NEW A, RoomSound(p, n, A),
           NEW from \in Agent, NEW to \in Agent, from # to,
           NEW mm, mm = IF from \in DOMAIN p.members
                        THEN Put(Without(p.members, {from}), to, p.members[from]) ELSE p.members,
           NEW pp, pp \in [DOMAIN p.posts -> PostType],
           \A i \in DOMAIN p.posts : RenamedPost(p.posts[i], pp[i], from, to),
           NEW q, q = [p EXCEPT !.created_by = Named(from, to, p.created_by),
                                !.members = mm, !.posts = pp]
    PROVE  RenamedIn(p, q, n, A, from, to)
<1>1. /\ p.members \in Maps(Agent, MemberType) /\ p.created_by \in Agent
      /\ DOMAIN p.posts \subseteq Nat
  BY RoomHas
<1>2. /\ DOMAIN p.posts \subseteq 1 .. n /\ p.open = OpenQuestions(p.posts)
      /\ \A i \in DOMAIN p.posts : PostSound(p.posts[i], n)
      /\ \A a \in DOMAIN p.members : p.members[a].cursor <= n
      /\ DOMAIN p.members \subseteq A /\ (~is_open(p) => p.open = {})
  BY DEF RoomSound
<1>3. /\ mm \in Maps(Agent, MemberType)
      /\ DOMAIN mm \subseteq (DOMAIN p.members \ {from}) \cup {to}
      /\ \A a \in DOMAIN mm : mm[a].cursor <= n
  <2> DEFINE m == p.members
  <2>1. m \in Maps(Agent, MemberType) /\ \A a \in DOMAIN m : m[a].cursor <= n
    BY <1>1, <1>2
  <2>2. mm = IF from \in DOMAIN m THEN Put(Without(m, {from}), to, m[from]) ELSE m
    OBVIOUS
  <2> HIDE DEF m
  <2>3. RenamedMembers(m, n, from, to, mm)
    BY <2>1, <2>2, RenamedMembersIs
  <2> QED BY <2>3 DEF RenamedMembers, m
<1>4. pp \in Maps(Nat, PostType) /\ DOMAIN pp = DOMAIN p.posts
  BY <1>1, MapMade
<1>5. Named(from, to, p.created_by) \in Agent
  BY <1>1 DEF Named
<1>6. /\ q \in RoomType /\ q.members = mm /\ q.posts = pp /\ q.open = p.open
      /\ q.board = p.board /\ q.closed = p.closed
  BY <1>3, <1>4, <1>5 DEF RoomType
<1>7. RenamedRoom(p, q, from, to)
  BY <1>4, <1>6 DEF RenamedRoom
<1>8. q.open = OpenQuestions(q.posts)
  BY <1>2, <1>4, <1>6 DEF OpenQuestions, is_open_question, RenamedPost
<1>9. \A i \in DOMAIN q.posts : PostSound(q.posts[i], n)
  BY <1>2, <1>4, <1>6 DEF PostSound, RenamedPost
<1>10. DOMAIN q.members \subseteq (A \ {from}) \cup {to}
  BY <1>2, <1>3, <1>6
<1>11. ~is_open(q) => q.open = {}
  BY <1>2, <1>6 DEF is_open
<1>12. RoomSound(q, n, (A \ {from}) \cup {to})
  BY <1>2, <1>3, <1>4, <1>6, <1>8, <1>9, <1>10, <1>11 DEF RoomSound
<1> QED BY <1>7, <1>12 DEF RenamedIn

\* The questions and answers of a room are what they were.
LEMMA RenamedRoomKept ==
    ASSUME NEW p, NEW q, NEW from, NEW to, RenamedRoom(p, q, from, to),
           p.open = OpenQuestions(p.posts)
    PROVE  RoomKept(p, q) /\ \A x : Answers(q, x) = Answers(p, x)
<1>1. \A x : Answers(q, x) = Answers(p, x)
  BY DEF RenamedRoom, RenamedPost, Answers
<1>2. \A x \in p.open : x \in DOMAIN q.posts
  BY OpenHas DEF RenamedRoom
<1>3. \A x \in DOMAIN p.posts \cap DOMAIN q.posts :
         p.posts[x].ask # None => q.posts[x].ask.status = p.posts[x].ask.status
  BY DEF RenamedRoom, RenamedPost
<1>4. BoardRises(p.board, q.board)
  BY DEF RenamedRoom, BoardRises
<1> QED BY <1>1, <1>2, <1>3, <1>4 DEF RoomKept
-----------------------------------------------------------------------------
\* The store under the new name.
Renamed(s, t, from, to) ==
    /\ t \in StoreType /\ Sound(t) /\ DOMAIN t.rooms = DOMAIN s.rooms
    /\ \A r \in DOMAIN s.rooms : RenamedRoom(s.rooms[r], t.rooms[r], from, to)
    /\ \E u : u.rooms = t.rooms /\ (KeysOnce(u) => KeysRight(t))

\* Store::rename, of all there is.
LEMMA RenameIs ==
    ASSUME NEW s, Sound(s), NEW from \in s.agents, NEW to \in Agent, from # to
    PROVE  Renamed(s, apply_rename(s, from, to), from, to)
<1> DEFINE new(p) == [p EXCEPT !.from = Named(from, to, p.from),
                         !.ask = IF p.ask = None THEN p.ask
                                 ELSE [p.ask EXCEPT !.to = {Named(from, to, a) : a \in p.ask.to}]]
           mm(x) == IF from \in DOMAIN x.members
                    THEN Put(Without(x.members, {from}), to, x.members[from]) ELSE x.members
           pp(x) == [i \in DOMAIN x.posts |-> new(x.posts[i])]
           g(x) == [x EXCEPT !.created_by = Named(from, to, x.created_by),
                             !.members = mm(x), !.posts = pp(x)]
           f == [r \in DOMAIN s.rooms |-> g(s.rooms[r])]
           A == (s.agents \ {from}) \cup {to}
           u == [s EXCEPT !.agents = A, !.rooms = f]
<1>1. apply_rename(s, from, to) = reindex(u)
  BY DEF apply_rename, Named
<1>2. /\ s \in StoreType /\ s.last_id \in Nat /\ DOMAIN s.rooms \subseteq Name
      /\ s.agents \in SUBSET Agent /\ from \in Agent
      /\ \A r \in DOMAIN s.rooms : s.rooms[r] \in RoomType /\ RoomSound(s.rooms[r], s.last_id, s.agents)
  BY StoreHas DEF Sound
<1>3. ASSUME NEW p \in PostType PROVE RenamedPost(p, new(p), from, to)
  BY <1>2, RenamedPostIs
<1> HIDE DEF new
<1>4. ASSUME NEW x \in RoomType, RoomSound(x, s.last_id, s.agents)
      PROVE  RenamedRoom(x, g(x), from, to) /\ RoomSound(g(x), s.last_id, A)
  <2> DEFINE m == mm(x)
             k == pp(x)
             q == g(x)
  <2>1. \A i \in DOMAIN x.posts : x.posts[i] \in PostType
    BY RoomHas
  <2>2. /\ k \in [DOMAIN x.posts -> PostType]
        /\ \A i \in DOMAIN x.posts : RenamedPost(x.posts[i], k[i], from, to)
    BY <1>3, <2>1 DEF RenamedPost
  <2>3. m = IF from \in DOMAIN x.members
            THEN Put(Without(x.members, {from}), to, x.members[from]) ELSE x.members
    OBVIOUS
  <2>4. q = [x EXCEPT !.created_by = Named(from, to, x.created_by), !.members = m, !.posts = k]
    OBVIOUS
  <2> HIDE DEF m, k, q, A
  <2>6. x \in RoomType /\ RoomSound(x, s.last_id, s.agents) /\ s.last_id \in Nat /\ from \in Agent
    BY <1>2, <1>4
  <2>5. RenamedIn(x, q, s.last_id, s.agents, from, to)
    BY <2>2, <2>3, <2>4, <2>6, RenamedRoomIs
  <2> QED BY <2>5 DEF RenamedIn, q, A
<1> HIDE DEF g
<1>5. f \in Maps(Name, RoomType) /\ DOMAIN f = DOMAIN s.rooms /\ \A r \in DOMAIN s.rooms : f[r] = g(s.rooms[r])
  <2>1. \A r \in DOMAIN s.rooms : g(s.rooms[r]) \in RoomType
    BY <1>2, <1>4 DEF RenamedRoom
  <2>2. f \in [DOMAIN s.rooms -> RoomType]
    BY <2>1
  <2> QED BY <1>2, <2>2, MapMade
<1>6. A \in SUBSET Agent /\ Cardinality(A) <= MaxAgents
  <2>1. A \in SUBSET Agent
    BY <1>2
  <2>2. /\ IsFiniteSet(s.agents) /\ Cardinality(s.agents) \in Nat /\ Cardinality(s.agents) <= MaxAgents
    <3>1. IsFiniteSet(s.agents)
      BY <1>2, AgentAssumption, FS_Subset
    <3> QED BY <3>1, FS_CardinalityType DEF Sound
  <2>3. /\ IsFiniteSet(s.agents \ {from})
        /\ Cardinality(s.agents \ {from}) = Cardinality(s.agents) - 1
    BY <2>2, FS_RemoveElement
  <2>4. \/ Cardinality(A) = Cardinality(s.agents \ {from})
        \/ Cardinality(A) = Cardinality(s.agents \ {from}) + 1
    BY <2>3, FS_AddElement
  <2>5. MaxAgents \in Nat
    BY LimitsAssumption
  <2> HIDE DEF A
  <2> QED BY <2>1, <2>2, <2>3, <2>4, <2>5
<1> HIDE DEF f, A
<1>7. /\ u \in StoreType /\ u.last_id = s.last_id /\ u.agents = A /\ u.rooms = f
  BY <1>2, <1>5, <1>6 DEF StoreType
<1> HIDE DEF u
<1>8. Sound(u)
  <2>1. \A r \in DOMAIN u.rooms : RoomSound(u.rooms[r], u.last_id, u.agents)
    BY <1>2, <1>4, <1>5, <1>7
  <2>2. IsFiniteSet(DOMAIN u.rooms) /\ Cardinality(DOMAIN u.rooms) <= MaxRooms
    BY <1>5, <1>7 DEF Sound
  <2> QED BY <1>6, <1>7, <2>1, <2>2 DEF Sound
<1>9. Reindexed(u, reindex(u))
  BY <1>8, ReindexIs
<1>10. /\ reindex(u) \in StoreType /\ Sound(reindex(u)) /\ reindex(u).rooms = u.rooms
       /\ KeysOnce(u) => KeysRight(reindex(u))
  BY <1>9 DEF Reindexed
<1>11. \A r \in DOMAIN s.rooms : RenamedRoom(s.rooms[r], u.rooms[r], from, to)
  BY <1>2, <1>4, <1>5, <1>7
<1> QED BY <1>1, <1>5, <1>7, <1>10, <1>11 DEF Renamed
-----------------------------------------------------------------------------
\* What every step comes to.
Turns == store' \in StoreType /\ Sound(store') /\ Kept(store, store')

\* A rename settles no question and loses no answer.
LEMMA RenamedKept ==
    ASSUME Sound(store), NEW s \in Grown(store, Events), NEW t, NEW from, NEW to, Renamed(s, t, from, to)
    PROVE  Kept(store, t)
<1> SUFFICES ASSUME NEW r \in DOMAIN store.rooms \cap DOMAIN t.rooms
             PROVE  RoomKept(store.rooms[r], t.rooms[r])
  BY DEF Kept
<1> DEFINE p == store.rooms[r]
           q == s.rooms[r]
           w == t.rooms[r]
           n == store.last_id
<1>1. /\ RenamedRoom(q, w, from, to) /\ RoomGrew(r, p, q, n, Events) /\ n \in Nat
      /\ DOMAIN p.posts \subseteq 1 .. n /\ p.open = OpenQuestions(p.posts)
      /\ q.open = OpenQuestions(q.posts)
  <2>1. r \in DOMAIN s.rooms
    BY DEF Renamed
  <2>2. Sound(s) /\ Grew(store, s, Events)
    BY DEF Grown
  <2>3. RoomSound(p, n, store.agents) /\ RoomSound(q, s.last_id, s.agents)
    BY <2>1, <2>2 DEF Sound
  <2>4. RoomGrew(r, p, q, n, Events)
    BY <2>1, <2>2 DEF Grew
  <2>5. n \in Nat
    BY StoreHas DEF Sound
  <2> QED BY <2>1, <2>3, <2>4, <2>5 DEF Renamed, RoomSound
<1> HIDE DEF p, q, w, n
<1>2. \A x : Answers(w, x) = Answers(q, x)
  BY <1>1, RenamedRoomKept
<1>3. \A x \in p.open : x \in DOMAIN q.posts /\ q.posts[x] = p.posts[x] /\ Answers(p, x) \subseteq Answers(q, x)
  BY <1>1, RoomGrewKept
<1>4. ASSUME NEW x \in DOMAIN p.posts \cap DOMAIN w.posts, p.posts[x].ask # None
      PROVE  w.posts[x].ask.status = p.posts[x].ask.status
  <2>1. x <= n /\ x \in DOMAIN q.posts
    BY <1>1 DEF RenamedRoom
  <2>2. q.posts[x] = p.posts[x]
    BY <1>1, <2>1 DEF RoomGrew
  <2>3. RenamedPost(q.posts[x], w.posts[x], from, to)
    BY <1>1, <2>1 DEF RenamedRoom
  <2> QED BY <1>4, <2>2, <2>3 DEF RenamedPost
<1>5. BoardRises(p.board, w.board)
  BY <1>1 DEF RoomGrew, RenamedRoom
<1>6. \A x \in p.open : x \in DOMAIN w.posts /\ Answers(p, x) \subseteq Answers(w, x)
  BY <1>1, <1>2, <1>3 DEF RenamedRoom
<1>7. RoomKept(p, w)
  BY <1>4, <1>5, <1>6 DEF RoomKept
<1> QED BY <1>7 DEF p, w

\* Nothing in a room refers to the name.
Unused(p, a) ==
    \A i \in DOMAIN p.posts : p.posts[i].from # a /\ (p.posts[i].ask # None => a \notin p.posts[i].ask.to)

\* Agents stay apart when one takes a name nobody has.
LEMMA NamedOnce ==
    ASSUME NEW from, NEW to, NEW a, NEW b, a # to, b # to, Named(from, to, a) = Named(from, to, b)
    PROVE  a = b
  BY DEF Named

\* Agents that take a name nobody had are told apart as before.
LEMMA RenamedFair ==
    ASSUME NEW p, NEW q, NEW from \in Agent \ Operators, NEW to, from # to, RenamedRoom(p, q, from, to),
           NEW n \in Nat, NEW A, RoomSound(p, n, A), Unused(p, to), RoomFair(p)
    PROVE  RoomFair(q)
<1>1. /\ p.open = OpenQuestions(p.posts) /\ q.open = p.open
      /\ \A i \in DOMAIN p.posts : /\ q.posts[i].from = Named(from, to, p.posts[i].from)
                                   /\ p.posts[i].from # to
  BY DEF RoomSound, RenamedRoom, RenamedPost, Unused
<1>2. \A x : Answers(q, x) = Answers(p, x)
  BY <1>1, RenamedRoomKept
<1>3. ASSUME NEW x \in q.open
      PROVE  /\ \A i \in Answers(q, x) : q.posts[i].from # q.posts[x].from
             /\ \A i, j \in Answers(q, x) : i # j => q.posts[i].from # q.posts[j].from
  <2>1. x \in p.open /\ x \in DOMAIN p.posts
    BY <1>1, OpenHas
  <2>2. /\ \A i \in Answers(p, x) : p.posts[i].from # p.posts[x].from
        /\ \A i, j \in Answers(p, x) : i # j => p.posts[i].from # p.posts[j].from
    BY <2>1 DEF RoomFair
  <2>3. \A i \in Answers(p, x) : i \in DOMAIN p.posts
    BY DEF Answers
  <2>4. ASSUME NEW i \in Answers(p, x) PROVE q.posts[i].from # q.posts[x].from
    <3>1. i \in DOMAIN p.posts /\ p.posts[i].from # p.posts[x].from
      BY <2>2, <2>3
    <3> QED BY <1>1, <2>1, <3>1, NamedOnce
  <2>5. ASSUME NEW i \in Answers(p, x), NEW j \in Answers(p, x), i # j PROVE q.posts[i].from # q.posts[j].from
    <3>1. i \in DOMAIN p.posts /\ j \in DOMAIN p.posts /\ p.posts[i].from # p.posts[j].from
      BY <2>2, <2>3, <2>5
    <3> QED BY <1>1, <3>1, NamedOnce
  <2>6. Answers(q, x) = Answers(p, x)
    BY <1>2
  <2> QED BY <2>4, <2>5, <2>6
<1>4. Cardinality(q.open) <= MaxOpenQuestions
  BY <1>1 DEF RoomFair
<1>5. ASSUME NEW a \in Agent \ Operators PROVE Cardinality(OpenOf(q, a)) <= share(MaxOpenQuestions)
  <2> DEFINE b == IF a = to THEN from ELSE a
  <2>1. b \in Agent \ Operators /\ OpenOf(q, a) \in SUBSET OpenOf(p, b)
    <3>1. b \in Agent \ Operators
      OBVIOUS
    <3>2. ASSUME NEW x \in OpenOf(q, a) PROVE x \in OpenOf(p, b)
      <4>1. x \in p.open /\ x \in DOMAIN p.posts /\ q.posts[x].from = a
        BY <1>1, OpenHas DEF OpenOf
      <4>2. Named(from, to, p.posts[x].from) = a /\ p.posts[x].from # to
        BY <1>1, <4>1
      <4>3. p.posts[x].from = b
        BY <4>2 DEF Named
      <4> QED BY <4>1, <4>3 DEF OpenOf
    <3> HIDE DEF b
    <3> QED BY <3>1, <3>2
  <2> HIDE DEF b
  <2>2. IsFiniteSet(OpenOf(p, b)) /\ Cardinality(OpenOf(p, b)) \in Nat
    BY OpenIs
  <2>3. Cardinality(OpenOf(p, b)) <= share(MaxOpenQuestions)
    BY <2>1 DEF RoomFair
  <2>4. Cardinality(OpenOf(q, a)) <= Cardinality(OpenOf(p, b)) /\ Cardinality(OpenOf(q, a)) \in Nat
    BY <2>1, <2>2, FS_Subset, FS_CardinalityType
  <2>5. share(MaxOpenQuestions) \in Nat
    BY LimitsAssumption DEF share
  <2> QED BY <2>2, <2>3, <2>4, <2>5
<1> QED BY <1>3, <1>4, <1>5 DEF RoomFair

\* Who was waited for is, under the new name.
LEMMA RenamedAwaited ==
    ASSUME NEW p, NEW q, NEW from, NEW to, RenamedRoom(p, q, from, to),
           p.open = OpenQuestions(p.posts), Unused(p, to), NEW x \in q.open, AwaitedIn(p, x)
    PROVE  AwaitedIn(q, x)
<1> DEFINE N(a) == Named(from, to, a)
           S == p.posts[x].ask.to
<1>1. /\ x \in DOMAIN p.posts /\ p.posts[x].ask # None
      /\ q.posts[x].ask.to = {N(a) : a \in S} /\ to \notin S
  <2>1. x \in p.open
    BY DEF RenamedRoom
  <2>2. x \in DOMAIN p.posts /\ p.posts[x].ask # None
    BY <2>1, OpenHas
  <2> QED BY <2>2 DEF RenamedRoom, RenamedPost, Unused
<1>2. Answers(q, x) = Answers(p, x)
  BY RenamedRoomKept
<1>3. ASSUME S = {} PROVE Answers(q, x) = {}
  BY <1>2, <1>3 DEF AwaitedIn
<1>4. ASSUME S # {} PROVE waiting_on(q, x) # {}
  <2>1. PICK b \in S : b \notin answered(p, x)
    BY <1>4 DEF AwaitedIn, waiting_on
  <2>2. N(b) \in q.posts[x].ask.to
    BY <1>1
  <2>3. ASSUME N(b) \in answered(q, x) PROVE FALSE
    <3>1. PICK i \in Answers(q, x) : N(b) = q.posts[i].from
      BY <2>3 DEF answered
    <3>2. i \in DOMAIN p.posts /\ i \in Answers(p, x)
      BY <1>2 DEF Answers
    <3>3. q.posts[i].from = N(p.posts[i].from) /\ p.posts[i].from # to
      BY <3>2 DEF RenamedRoom, RenamedPost, Unused
    <3>4. b = p.posts[i].from
      BY <1>1, <3>1, <3>3, NamedOnce
    <3> QED BY <2>1, <3>2, <3>4 DEF answered
  <2> QED BY <2>2, <2>3 DEF waiting_on
<1>5. q.posts[x].ask.to = {} => S = {}
  BY <1>1
<1>6. q.posts[x].ask.to # {} => S # {}
  BY <1>1
<1> QED BY <1>3, <1>4, <1>5, <1>6 DEF AwaitedIn
-----------------------------------------------------------------------------
\* Any rename, one that merges two agents too.
LEMMA RenameTurns ==
    ASSUME Sound(store), NEW from \in Agent, NEW to \in Agent, rename(from, to)
    PROVE  Turns
<1> DEFINE row == forgotten(<<store>>, store.agents \cap {to})
           s == Last(row)
           t == apply_rename(s, from, to)
           W == {w \in StoreType : Sound(w) /\ Kept(store, w)}
<1>1. from # to /\ from \in store.agents /\ Made(Append(row, t), 1)
  BY DEF rename
<1>2. store.agents \cap {to} \in SUBSET Agent
  OBVIOUS
<1>3. /\ row \in Rows(Grown(store, Events)) /\ s \in Grown(store, Events)
      /\ s.agents = store.agents \ (store.agents \cap {to})
  <2>1. <<store>> \in Rows(Grown(store, Events)) /\ Last(<<store>>) = store
    BY StoreRow DEF Last
  <2> QED BY <1>2, <2>1, ForgottenIs, LastIs
<1> HIDE DEF row, t
<1>4. Sound(s) /\ from \in s.agents
  BY <1>1, <1>3 DEF Grown
<1>5. Renamed(s, t, from, to)
  BY <1>1, <1>4, RenameIs DEF t
<1>6. t \in W
  <2>1. t \in StoreType /\ Sound(t)
    BY <1>5 DEF Renamed
  <2>2. Kept(store, t)
    BY <1>3, <1>5, RenamedKept
  <2> QED BY <2>1, <2>2
<1>7. row \in Rows(W)
  <2>1. Grown(store, Events) \subseteq Ends(store)
    BY GrownEnds
  <2>2. Grown(store, Events) \subseteq W
    BY <2>1 DEF Ends
  <2> HIDE DEF W
  <2> QED BY <1>3, <2>2, RowsAmong
<1> HIDE DEF W
<1>8. Append(row, t) \in Rows(W) /\ Last(Append(row, t)) = t
  BY <1>6, <1>7, RowMore
<1> DEFINE steps == Append(row, t)
<1>9. Len(steps) \in Nat /\ (\A i \in 1 .. Len(steps) : steps[i] \in W) /\ Last(steps) \in W
  BY <1>8, RowIs
<1> HIDE DEF steps
<1>10. store' \in W
  <2>1. CASE store' = Last(steps)
    BY <1>9, <2>1
  <2>2. CASE \E i \in 2 .. Len(steps) - 1 : store' = steps[i]
    <3>1. PICK i \in 2 .. Len(steps) - 1 : store' = steps[i]
      BY <2>2
    <3>2. i \in 1 .. Len(steps)
      BY <1>9
    <3> QED BY <1>9, <3>1, <3>2
  <2> QED BY <1>1, <2>1, <2>2 DEF Made, steps
<1> QED BY <1>10 DEF Turns, W

\* No room has a post that refers to a name not in use.
LEMMA UnusedIs ==
    ASSUME NEW a, ~name_in_use(a)
    PROVE  a \notin store.agents /\ \A r \in DOMAIN store.rooms : Unused(store.rooms[r], a)
  BY DEF name_in_use, Unused

\* A rename to a name not in use.
LEMMA RenameStep ==
    ASSUME Sound(store), NEW from \in Agent \ Operators, NEW to \in Agent, rename(from, to),
           "merging" \notin uses
    PROVE  Goes
<1> DEFINE none == store.agents \cap {to}
           row == forgotten(<<store>>, none)
           t == apply_rename(Last(row), from, to)
           u == apply_rename(store, from, to)
<1>1. from # to /\ from \in store.agents /\ Made(Append(row, t), 1) /\ ~name_in_use(to)
  BY DEF rename
<1>2. to \notin store.agents /\ \A r \in DOMAIN store.rooms : Unused(store.rooms[r], to)
  BY <1>1, UnusedIs
<1>3. none = {} /\ Cardinality(none) = 0
  BY <1>2, FS_EmptySet
<1>4. row \in Rows({store}) /\ Last(row) = store
  <2> DEFINE g == [n \in 1 .. 0 |-> apply_forget(store, Some(none, n))]
  <2>1. <<store>> \in Rows({store}) /\ Last(<<store>>) = store
    BY RowOne
  <2>2. row = <<store>> \o g
    BY <1>3, <2>1 DEF forgotten
  <2>3. g \in [1 .. 0 -> {store}]
    OBVIOUS
  <2> HIDE DEF g, row
  <2>4. <<store>> \o g \in Rows({store}) /\ Last(<<store>> \o g) = Last(<<store>>)
    BY <2>1, <2>3, RowWith
  <2> QED BY <2>1, <2>2, <2>4
<1> HIDE DEF row, u, none
<1>5. Append(row, t) = Append(row, u)
  BY <1>4 DEF u
<1> HIDE DEF t
<1>6. Renamed(store, u, from, to)
  BY <1>1, RenameIs DEF u
<1>7. Kept(store, u)
  <2>1. store \in Grown(store, Events)
    BY GrownSelf
  <2> QED BY <1>6, <2>1, RenamedKept
<1>8. \A r \in DOMAIN store.rooms :
         /\ RenamedRoom(store.rooms[r], u.rooms[r], from, to)
         /\ RoomSound(store.rooms[r], store.last_id, store.agents) /\ store.last_id \in Nat
         /\ store.rooms[r].open = OpenQuestions(store.rooms[r].posts)
  BY <1>6, StoreHas DEF Renamed, Sound, RoomSound
<1>9. ASSUME Fair(store) PROVE Fair(u)
  <2>1. \A r \in DOMAIN u.rooms : RoomFair(u.rooms[r])
    <3>1. \A r \in DOMAIN store.rooms : RoomFair(store.rooms[r])
      BY <1>9 DEF Fair
    <3>2. DOMAIN u.rooms = DOMAIN store.rooms
      BY <1>6 DEF Renamed
    <3> QED BY <1>1, <1>2, <1>8, <3>1, <3>2, RenamedFair
  <2>2. PICK w : w.rooms = u.rooms /\ (KeysOnce(w) => KeysRight(u))
    BY <1>6 DEF Renamed
  <2>3. KeysOnce(store)
    BY <1>9, KeysRightOnce DEF Fair
  <2>4. KeysOnce(w)
    <3> SUFFICES ASSUME NEW r \in DOMAIN w.rooms, NEW i \in DOMAIN w.rooms[r].posts,
                        NEW j \in DOMAIN w.rooms[r].posts,
                        w.rooms[r].posts[i].key # None,
                        w.rooms[r].posts[i].from = w.rooms[r].posts[j].from,
                        w.rooms[r].posts[i].key = w.rooms[r].posts[j].key
                 PROVE  i = j
      BY DEF KeysOnce
    <3> DEFINE p == store.rooms[r].posts
    <3>1. r \in DOMAIN store.rooms
      BY <1>6, <2>2 DEF Renamed
    <3>2. i \in DOMAIN p /\ j \in DOMAIN p /\ RenamedPost(p[i], u.rooms[r].posts[i], from, to)
          /\ RenamedPost(p[j], u.rooms[r].posts[j], from, to)
      BY <1>8, <2>2, <3>1 DEF RenamedRoom
    <3>3. p[i].from # to /\ p[j].from # to
      BY <1>2, <3>1, <3>2 DEF Unused
    <3>4. /\ p[i].key # None /\ p[i].key = p[j].key
          /\ Named(from, to, p[i].from) = Named(from, to, p[j].from)
      BY <2>2, <3>2 DEF RenamedPost
    <3>5. p[i].from = p[j].from
      BY <3>3, <3>4, NamedOnce
    <3> QED BY <2>3, <3>1, <3>2, <3>4, <3>5 DEF KeysOnce
  <2> QED BY <2>1, <2>2, <2>4 DEF Fair
<1>10. ASSUME Awaited(store) PROVE Awaited(u)
  <2> SUFFICES ASSUME NEW r \in DOMAIN u.rooms, NEW x \in u.rooms[r].open PROVE AwaitedIn(u.rooms[r], x)
    BY DEF Awaited
  <2>1. r \in DOMAIN store.rooms /\ RenamedRoom(store.rooms[r], u.rooms[r], from, to)
    BY <1>6, <1>8 DEF Renamed
  <2>2. AwaitedIn(store.rooms[r], x)
    BY <1>10, <2>1 DEF RenamedRoom, Awaited
  <2> QED BY <1>2, <1>8, <2>1, <2>2, RenamedAwaited
<1>11. u \in Ends(store)
  BY <1>6, <1>7, <1>9 DEF Ends, Renamed
<1>12. Makes(Append(row, u))
  <2>1. store \in Ends(store)
    BY GrownEnds, GrownSelf
  <2>2. row \in Rows(Ends(store))
    BY <1>4, <2>1, RowsAmong
  <2>3. Append(row, u) \in Rows(Ends(store)) /\ Last(Append(row, u)) = u
    BY <1>11, <2>2, RowMore
  <2> QED BY <1>10, <2>3 DEF Makes
<1> QED BY <1>1, <1>5, <1>12, MadeIs
-----------------------------------------------------------------------------
(***************************************************************************)
(* Every step.                                                             *)
(***************************************************************************)
\* What a row of commits does to the rest: readers hold what they held.
Follows == /\ holds' = [a \in DOMAIN holds |-> [holds[a] EXCEPT !.since = Since(holds[a])]]
           /\ UNCHANGED <<uses, now>>

\* A row of commits leaves the rest as Follows says.
LEMMA MadeFollows == \A steps, rare : Made(steps, rare) => Follows
  BY DEF Made, Follows

\* So does a room created.
LEMMA CreateFollows ==
    ASSUME NEW r, NEW a, NEW others, NEW private, create_room(r, a, others, private)
    PROVE  Follows
  BY MadeFollows DEF create_room, Commit

\* So does a post.
LEMMA PostFollows ==
    ASSUME NEW r, NEW a, NEW to, NEW x, Posted(r, a, to, x)
    PROVE  Follows
  BY MadeFollows DEF Posted, Commit

\* A member who joins is new, has another role, or joins again and nothing happens.
LEMMA JoinFollows ==
    ASSUME NEW r, NEW a, NEW role, NEW actor, join(r, a, role, actor)
    PROVE  Follows
  BY MadeFollows DEF join, Commit

\* So does an answer.
LEMMA AnswerFollows ==
    ASSUME NEW r, NEW q, NEW a, NEW key, answer(r, q, a, key)
    PROVE  Follows
  BY MadeFollows DEF answer, Commit

\* The requests that make a post.
LEMMA PostingStep ==
    ASSUME Sound(store), now \in Nat, Posting
    PROVE  Goes /\ Follows
<1>1. ASSUME NEW r \in Name, NEW a \in Creators, NEW others \in SUBSET Agent, NEW private \in BOOLEAN,
             create_room(r, a, others, private)
      PROVE  Goes /\ Follows
  <2>1. a \in Agent
    BY AgentAssumption
  <2> QED BY <1>1, <2>1, CreateRoomStep, CreateFollows
<1>2. Keys \subseteq Key \cup {None}
  BY DEF Keys
<1> SUFFICES ASSUME NEW r \in DOMAIN store.rooms, NEW a \in Agent,
       \/ \E b \in Agent, role \in {None, "owner", "member"} : join(r, b, role, a)
       \/ \E topic \in BOOLEAN, closed \in {None, TRUE, FALSE} : update_room(r, topic, closed, a)
       \/ \E key \in Keys : post(r, a, key)
       \/ \E key \in Keys, to \in SUBSET Agent, ttl \in 1 .. MsgTtlMs : ask(r, a, to, ttl, key)
       \/ \E key \in Keys, q \in DOMAIN store.rooms[r].posts : answer(r, q, a, key)
       \/ \E k \in Entry, v \in Value \cup {None}, expect \in {None} \cup 0 .. MaxPosts :
             board_set(r, k, v, expect, a)
             PROVE  Goes /\ Follows
  BY <1>1 DEF Posting
<1>3. ASSUME NEW b \in Agent, NEW role \in {None, "owner", "member"}, join(r, b, role, a)
      PROVE  Goes /\ Follows
  BY <1>3, JoinStep, JoinFollows
<1>4. ASSUME NEW topic \in BOOLEAN, NEW closed \in {None, TRUE, FALSE}, update_room(r, topic, closed, a)
      PROVE  Goes /\ Follows
  <2>1. Follows
    BY <1>4, MadeFollows DEF update_room, Commit
  <2> QED BY <1>4, <2>1, UpdateRoomStep
<1>5. ASSUME NEW key \in Keys, post(r, a, key) PROVE Goes /\ Follows
  <2>1. key \in Key \cup {None}
    BY <1>2
  <2>2. Follows
    BY <1>5, PostFollows DEF post
  <2> QED BY <1>5, <2>1, <2>2, PostStep
<1>6. ASSUME NEW key \in Keys, NEW to \in SUBSET Agent, NEW ttl \in 1 .. MsgTtlMs, ask(r, a, to, ttl, key)
      PROVE  Goes /\ Follows
  <2>1. key \in Key \cup {None} /\ ttl \in Nat
    BY <1>2, LimitsAssumption
  <2>2. Follows
    BY <1>6, PostFollows DEF ask
  <2> QED BY <1>6, <2>1, <2>2, AskStep
<1>7. ASSUME NEW key \in Keys, NEW q \in DOMAIN store.rooms[r].posts, answer(r, q, a, key)
      PROVE  Goes /\ Follows
  <2>1. key \in Key \cup {None}
    BY <1>2
  <2> QED BY <1>7, <2>1, AnswerStep, AnswerFollows
<1>8. ASSUME NEW k \in Entry, NEW v \in Value \cup {None}, NEW expect, board_set(r, k, v, expect, a)
      PROVE  Goes /\ Follows
  <2>1. Follows
    BY <1>8, MadeFollows DEF board_set, Commit
  <2> QED BY <1>8, <2>1, BoardSetStep
<1> QED BY <1>3, <1>4, <1>5, <1>6, <1>7, <1>8

\* Reading an entry changes only what its reader holds.
Reads(r, k, a) ==
    /\ r \in DOMAIN store.rooms /\ k \in DOMAIN store.rooms[r].board
    /\ holds' = Put(holds, a, [version |-> Version(store, <<r, k>>), of |-> <<r, k>>, since |-> "same"])
    /\ UNCHANGED <<store, uses, now>>

\* The requests that need make none.
LEMMA RequestsStep ==
    ASSUME Sound(store), now \in Nat, Requests
    PROVE  (Goes /\ Follows) \/ \E r, k, a : Reads(r, k, a)
<1> SUFFICES ASSUME NEW r \in DOMAIN store.rooms, NEW a \in Agent,
       \/ \E b \in Agent : leave_room(r, b, a)
       \/ delete_room(r, a)
       \/ \E q \in DOMAIN store.rooms[r].posts : withdraw(r, q, a)
       \/ \E n \in 1 .. MaxPosts : read_room(r, a, n)
       \/ \E k \in Entry : board_read(r, k, a)
             PROVE  (Goes /\ Follows) \/ \E k : Reads(r, k, a)
  BY DEF Requests
<1>1. ASSUME NEW b \in Agent, leave_room(r, b, a) PROVE Goes /\ Follows
  <2>1. Follows
    BY <1>1, MadeFollows DEF leave_room, Commit
  <2> QED BY <1>1, <2>1, LeaveRoomStep
<1>2. ASSUME delete_room(r, a) PROVE Goes /\ Follows
  <2>1. Follows
    BY <1>2, MadeFollows DEF delete_room, Commit
  <2> QED BY <1>2, <2>1, DeleteRoomStep
<1>3. ASSUME NEW q, withdraw(r, q, a) PROVE Goes /\ Follows
  <2>1. Follows
    BY <1>3, MadeFollows DEF withdraw, Commit
  <2> QED BY <1>3, <2>1, WithdrawStep
<1>4. ASSUME NEW n \in 1 .. MaxPosts, read_room(r, a, n) PROVE Goes /\ Follows
  <2>1. Follows
    BY <1>4, MadeFollows DEF read_room, Commit
  <2>2. n \in Nat \ {0}
    OBVIOUS
  <2> QED BY <1>4, <2>1, <2>2, ReadRoomStep
<1>5. ASSUME NEW k \in Entry, board_read(r, k, a) PROVE Reads(r, k, a)
  BY <1>5 DEF board_read, Reads
<1> QED BY <1>1, <1>2, <1>3, <1>4, <1>5

\* The agents that a behaviour is about keep to themselves: none takes a name
\* that is in use, and the operator keeps its own.
Apart == "merging" \notin uses /\ ("agents" \in uses => Operators = {})

\* What steps come to says more than what merges do.
LEMMA GoesTurns == Goes => Turns
  BY DEF Goes, Turns

\* Agents that come, go and are renamed.
LEMMA AgentsStep ==
    ASSUME Sound(store), "agents" \in uses, Agents
    PROVE  Turns /\ (Apart => Goes) /\ Follows
<1>1. ASSUME NEW a \in Agent, appear(a) PROVE Turns /\ (Apart => Goes) /\ Follows
  <2>1. Follows
    BY <1>1, MadeFollows DEF appear
  <2> QED BY <1>1, <2>1, AppearStep, GoesTurns
<1>2. ASSUME NEW a \in Agent, forget(a) PROVE Turns /\ (Apart => Goes) /\ Follows
  <2>1. Follows
    BY <1>2, MadeFollows DEF forget
  <2> QED BY <1>2, <2>1, ForgetStep, GoesTurns
<1>3. ASSUME NEW a \in Agent, NEW b \in Agent, rename(a, b) PROVE Turns /\ (Apart => Goes) /\ Follows
  <2>1. Follows
    BY <1>3, MadeFollows DEF rename
  <2>2. Turns
    BY <1>3, RenameTurns
  <2>3. ASSUME Apart PROVE Goes
    <3>1. "merging" \notin uses /\ a \in Agent \ Operators
      BY <2>3 DEF Apart
    <3> QED BY <1>3, <3>1, RenameStep
  <2> QED BY <2>1, <2>2, <2>3
<1> QED BY <1>1, <1>2, <1>3 DEF Agents
-----------------------------------------------------------------------------
(***************************************************************************)
(* The invariant.                                                          *)
(***************************************************************************)
HoldType == [version : Nat \ {0}, of : Name \X Entry, since : {"same", "changed", "removed"}]

\* What a reader holds is of the entry as it stands, or of an earlier version.
Held(s, h) == /\ h.since = "same" => Version(s, h.of) = h.version
              /\ h.since = "changed" => Version(s, h.of) > h.version

HoldsRight == /\ holds \in [DOMAIN holds -> HoldType]
              /\ \A a \in DOMAIN holds : Held(store, holds[a])

RoomsInv ==
    /\ Sound(store) /\ now \in 0 .. MaxTime
    /\ HoldsRight
    /\ Apart => Fair(store) /\ ("failing" \notin uses => Awaited(store))

\* An entry that is there has a version, one that is not has none.
LEMMA VersionIs ==
    ASSUME NEW s, Sound(s), NEW r \in Name, NEW k
    PROVE  /\ Version(s, <<r, k>>) \in Nat
           /\ Version(s, <<r, k>>) # 0 => r \in DOMAIN s.rooms /\ k \in DOMAIN s.rooms[r].board
           /\ r \in DOMAIN s.rooms /\ k \in DOMAIN s.rooms[r].board =>
                 /\ Version(s, <<r, k>>) = s.rooms[r].board[k].version
                 /\ Version(s, <<r, k>>) # 0
<1>1. ASSUME r \in DOMAIN s.rooms, k \in DOMAIN s.rooms[r].board
      PROVE  s.rooms[r].board[k].version \in Nat \ {0}
  <2>1. s.rooms[r] \in RoomType
    BY <1>1, StoreHas DEF Sound
  <2>2. s.rooms[r].board \in Maps(Entry, EntryType)
    BY <2>1, RoomHas
  <2>3. s.rooms[r].board[k] \in EntryType
    BY <1>1, <2>2, MapHas
  <2> QED BY <2>3 DEF EntryType
<1> QED BY <1>1 DEF Version

\* The versions of an entry that stays rise.
LEMMA VersionRises ==
    ASSUME Sound(store), Turns, NEW r \in Name, NEW k,
           Version(store, <<r, k>>) # 0, Version(store', <<r, k>>) # 0
    PROVE  \/ store'.rooms[r].board[k] = store.rooms[r].board[k]
              /\ Version(store', <<r, k>>) = Version(store, <<r, k>>)
           \/ Version(store', <<r, k>>) > Version(store, <<r, k>>)
<1>1. Sound(store') /\ Kept(store, store')
  BY DEF Turns
<1>2. /\ r \in DOMAIN store.rooms /\ k \in DOMAIN store.rooms[r].board
      /\ Version(store, <<r, k>>) = store.rooms[r].board[k].version
  BY VersionIs
<1>3. /\ r \in DOMAIN store'.rooms /\ k \in DOMAIN store'.rooms[r].board
      /\ Version(store', <<r, k>>) = store'.rooms[r].board[k].version
  BY <1>1, VersionIs
<1>4. BoardRises(store.rooms[r].board, store'.rooms[r].board)
  BY <1>1, <1>2, <1>3 DEF Kept, RoomKept
<1>5. CASE store'.rooms[r].board[k] = store.rooms[r].board[k]
  BY <1>2, <1>3, <1>5
<1>6. CASE store'.rooms[r].board[k].version > store.rooms[r].board[k].version
  BY <1>2, <1>3, <1>6
<1> QED BY <1>2, <1>3, <1>4, <1>5, <1>6 DEF BoardRises

\* What a reader holds stays right while the store changes.
LEMMA HeldStill ==
    ASSUME Sound(store), Turns, NEW h \in HoldType, Held(store, h)
    PROVE  /\ [h EXCEPT !.since = Since(h)] \in HoldType
           /\ Held(store', [h EXCEPT !.since = Since(h)])
<1>1. h.of \in Name \X Entry /\ h.version \in Nat \ {0} /\ h.since \in {"same", "changed", "removed"}
  BY DEF HoldType
<1>2. PICK r \in Name, k \in Entry : h.of = <<r, k>>
  BY <1>1
<1> DEFINE v == Version(store, <<r, k>>)
           w == Version(store', <<r, k>>)
           g == [h EXCEPT !.since = Since(h)]
<1>3. Sound(store')
  BY DEF Turns
<1>4. v \in Nat /\ w \in Nat
  BY <1>3, VersionIs
<1>5. h.of[1] = r /\ h.of[2] = k
  BY <1>2
<1>6. v # 0 /\ w # 0 => \/ store'.rooms[r].board[k] = store.rooms[r].board[k] /\ w = v
                        \/ w > v
  BY VersionRises
<1>7. (h.since = "same" => v = h.version) /\ (h.since = "changed" => v > h.version)
  BY <1>2 DEF Held
<1>8. Since(h) = IF w = 0 THEN "removed"
                 ELSE IF h.since = "same" /\ store'.rooms[r].board[k] # store.rooms[r].board[k]
                 THEN "changed" ELSE h.since
  BY <1>2, <1>5 DEF Since
<1> HIDE DEF v, w
<1>9. Since(h) \in {"same", "changed", "removed"}
  BY <1>1, <1>8
<1>10. g \in HoldType /\ g.since = Since(h) /\ g.of = <<r, k>> /\ g.version = h.version
  BY <1>2, <1>9 DEF HoldType
<1> HIDE DEF g
<1>11. ASSUME Since(h) = "same" PROVE w = h.version
  <2>1. w # 0 /\ h.since = "same" /\ store'.rooms[r].board[k] = store.rooms[r].board[k]
    BY <1>8, <1>11
  <2>2. v # 0 /\ v = h.version
    BY <1>1, <1>7, <2>1
  <2>3. CASE w = v
    BY <2>2, <2>3
  <2>4. CASE w > v
    \* an entry that is the same has the same version
    <3>1. w = store'.rooms[r].board[k].version /\ v = store.rooms[r].board[k].version
      BY <1>3, <2>1, <2>2, VersionIs DEF v, w
    <3> QED BY <1>4, <2>1, <2>4, <3>1
  <2> QED BY <1>6, <2>1, <2>2, <2>3, <2>4
<1>12. ASSUME Since(h) = "changed" PROVE w > h.version
  <2>1. w # 0
    BY <1>8, <1>12
  <2>2. CASE h.since = "same"
    <3>1. store'.rooms[r].board[k] # store.rooms[r].board[k]
      BY <1>8, <1>12, <2>1, <2>2
    <3>2. v # 0 /\ v = h.version
      BY <1>1, <1>7, <2>2
    <3> QED BY <1>6, <2>1, <3>1, <3>2
  <2>3. CASE h.since # "same"
    <3>1. h.since = "changed"
      BY <1>8, <1>12, <2>1, <2>3
    <3>2. v > h.version /\ v # 0
      BY <1>1, <1>4, <1>7, <3>1
    <3>3. w = v \/ w > v
      BY <1>6, <2>1, <3>2
    <3> QED BY <1>1, <1>4, <3>2, <3>3
  <2> QED BY <2>2, <2>3
<1>13. Held(store', g)
  BY <1>10, <1>11, <1>12 DEF Held, w
<1> QED BY <1>10, <1>13 DEF g

\* What readers hold, after a row of commits.
LEMMA FollowsRight ==
    ASSUME Sound(store), Turns, Follows, HoldsRight
    PROVE  HoldsRight'
<1>1. ASSUME NEW a \in DOMAIN holds
      PROVE  /\ [holds[a] EXCEPT !.since = Since(holds[a])] \in HoldType
             /\ Held(store', [holds[a] EXCEPT !.since = Since(holds[a])])
  <2>1. holds[a] \in HoldType /\ Held(store, holds[a])
    BY DEF HoldsRight
  <2> QED BY <2>1, HeldStill
<1> QED BY <1>1 DEF Follows, HoldsRight

\* Rooms that stay leave what readers hold right.
LEMMA SameRight ==
    ASSUME HoldsRight, store'.rooms = store.rooms, holds' = holds
    PROVE  HoldsRight'
<1>1. \A x : Version(store', x) = Version(store, x)
  BY DEF Version
<1> QED BY <1>1 DEF HoldsRight, Held

\* And so does another entry read.
LEMMA ReadsRight ==
    ASSUME Sound(store), HoldsRight, NEW r, NEW k, NEW a, Reads(r, k, a)
    PROVE  HoldsRight'
<1> DEFINE h == [version |-> Version(store, <<r, k>>), of |-> <<r, k>>, since |-> "same"]
<1>1. r \in DOMAIN store.rooms /\ k \in DOMAIN store.rooms[r].board /\ r \in Name
  BY StoreHas DEF Reads, Sound
<1>2. k \in Entry
  <2>1. store.rooms[r] \in RoomType
    BY <1>1, StoreHas DEF Sound
  <2>2. store.rooms[r].board \in Maps(Entry, EntryType)
    BY <2>1, RoomHas
  <2> QED BY <1>1, <2>2, MapHas
<1>3. Version(store, <<r, k>>) \in Nat \ {0}
  BY <1>1, VersionIs
<1>4. h \in HoldType /\ Held(store, h)
  BY <1>1, <1>2, <1>3 DEF HoldType, Held
<1>5. holds' = Put(holds, a, h) /\ store' = store
  BY DEF Reads
<1> HIDE DEF h
<1>6. /\ holds' \in [DOMAIN holds' -> HoldType]
      /\ \A x \in DOMAIN holds' : Held(store, holds'[x])
  BY <1>4, <1>5 DEF HoldsRight, Put
<1> QED BY <1>5, <1>6 DEF HoldsRight
-----------------------------------------------------------------------------
\* The invariant holds at the start.
LEMMA RoomsInit == ASSUME Init PROVE RoomsInv
<1>1. /\ store = [last_id |-> 0, agents |-> Present, rooms |-> Nothing, post_keys |-> Nothing]
      /\ holds = Nothing /\ now = 0
  BY DEF Init
<1>2. /\ Nothing \in Maps(Name, RoomType) /\ Nothing \in Maps(PostKey, Nat) /\ DOMAIN Nothing = {}
  BY NothingIs
<1>3. Present \in SUBSET Agent /\ Cardinality(Present) <= MaxAgents
  BY AgentAssumption
<1>4. /\ store \in StoreType /\ store.agents = Present /\ store.rooms = Nothing
      /\ store.post_keys = Nothing
  BY <1>1, <1>2, <1>3 DEF StoreType
<1>5. Sound(store)
  <2>1. IsFiniteSet({}) /\ Cardinality({}) = 0 /\ 0 <= MaxRooms
    BY FS_EmptySet, LimitsAssumption
  <2> QED BY <1>2, <1>3, <1>4, <2>1 DEF Sound
<1>6. Fair(store) /\ Awaited(store)
  BY <1>2, <1>4 DEF Fair, KeysRight, Awaited
<1>7. HoldsRight
  BY <1>1, <1>2 DEF HoldsRight, Nothing
<1>8. now \in 0 .. MaxTime
  BY <1>1, BoundsAssumption
<1> QED BY <1>5, <1>6, <1>7, <1>8 DEF RoomsInv

\* Time passes, or nothing happens.
Waits == UNCHANGED <<store, holds, uses>> /\ now' \in 0 .. MaxTime

\* A restart changes none of the rooms.
Restarts == Goes /\ store'.rooms = store.rooms /\ UNCHANGED <<holds, uses, now>>

\* What a step is, as far as the invariant tells.
Progress == \/ Turns /\ (Apart => Goes) /\ Follows
            \/ \E r, k, a : Reads(r, k, a)
            \/ Restarts
            \/ Waits

\* Every step of the specification is one of those.
LEMMA Progresses == ASSUME RoomsInv, [Next]_vars PROVE Progress
<1>1. Sound(store) /\ now \in 0 .. MaxTime /\ now \in Nat
  BY BoundsAssumption DEF RoomsInv
<1>2. CASE Posting
  BY <1>1, <1>2, PostingStep, GoesTurns DEF Progress
<1>3. CASE Requests
  BY <1>1, <1>3, RequestsStep, GoesTurns DEF Progress
<1>4. CASE "agents" \in uses /\ Agents
  BY <1>1, <1>4, AgentsStep DEF Progress
<1>5. CASE sweep
  <2>1. Follows
    BY <1>5, MadeFollows DEF sweep, Commit
  <2> QED BY <1>1, <1>5, <2>1, SweepStep, GoesTurns DEF Progress
<1>6. CASE pass
  <2>1. now < MaxTime /\ now' = now + 1 /\ UNCHANGED <<store, holds, uses>>
    BY <1>6 DEF pass
  <2>2. now' \in 0 .. MaxTime
    BY <1>1, <2>1, BoundsAssumption
  <2> QED BY <2>1, <2>2 DEF Progress, Waits
<1>7. CASE restart
  <2>1. Goes /\ UNCHANGED <<holds, uses, now>>
    BY <1>1, <1>7, RestartStep DEF restart
  <2>2. store'.rooms = store.rooms
    BY <1>1, <1>7, RestartRooms
  <2> QED BY <2>1, <2>2 DEF Progress, Restarts
<1>8. CASE UNCHANGED vars
  BY <1>1, <1>8 DEF vars, Progress, Waits
<1> QED BY <1>2, <1>3, <1>4, <1>5, <1>6, <1>7, <1>8 DEF Next

\* A step that leaves the store alone keeps its rooms.
LEMMA StoreStays ==
    ASSUME Sound(store), store' = store
    PROVE  Kept(store, store')
  BY SameKept

\* Every step keeps the invariant, and what questions and answers there are.
LEMMA RoomsStep ==
    ASSUME RoomsInv, [Next]_vars
    PROVE  RoomsInv' /\ Kept(store, store')
<1>1. Sound(store) /\ HoldsRight /\ now \in 0 .. MaxTime
      /\ (Apart => Fair(store) /\ ("failing" \notin uses => Awaited(store)))
  BY DEF RoomsInv
<1>2. Progress
  BY Progresses
<1>3. CASE Turns /\ (Apart => Goes) /\ Follows
  <2>1. Sound(store') /\ Kept(store, store')
    BY <1>3 DEF Turns
  <2>2. HoldsRight'
    BY <1>1, <1>3, FollowsRight
  <2>3. now' = now /\ uses' = uses
    BY <1>3 DEF Follows
  <2>4. Apart' => Fair(store') /\ ("failing" \notin uses' => Awaited(store'))
    BY <1>1, <1>3, <2>3 DEF Apart, Goes
  <2> QED BY <1>1, <2>1, <2>2, <2>3, <2>4 DEF RoomsInv
<1>4. CASE \E r, k, a : Reads(r, k, a)
  <2>1. PICK r, k, a : Reads(r, k, a)
    BY <1>4
  <2>2. HoldsRight'
    BY <1>1, <2>1, ReadsRight
  <2>3. store' = store /\ uses' = uses /\ now' = now
    BY <2>1 DEF Reads
  <2>4. Kept(store, store')
    BY <1>1, <2>3, StoreStays
  <2> QED BY <1>1, <2>2, <2>3, <2>4 DEF RoomsInv, Apart
<1>5. CASE Restarts
  <2>1. Goes /\ store'.rooms = store.rooms /\ holds' = holds /\ uses' = uses /\ now' = now
    BY <1>5 DEF Restarts
  <2>2. HoldsRight'
    BY <1>1, <2>1, SameRight
  <2>3. Sound(store') /\ Kept(store, store')
    BY <2>1 DEF Goes
  <2>4. Apart' => Fair(store') /\ ("failing" \notin uses' => Awaited(store'))
    BY <1>1, <2>1 DEF Apart, Goes
  <2> QED BY <1>1, <2>1, <2>2, <2>3, <2>4 DEF RoomsInv
<1>6. CASE Waits
  <2>1. store' = store /\ holds' = holds /\ uses' = uses /\ now' \in 0 .. MaxTime
    BY <1>6 DEF Waits
  <2>2. HoldsRight'
    BY <1>1, <2>1, SameRight
  <2>3. Kept(store, store')
    BY <1>1, <2>1, StoreStays
  <2> QED BY <1>1, <2>1, <2>2, <2>3 DEF RoomsInv, Apart
<1> QED BY <1>2, <1>3, <1>4, <1>5, <1>6 DEF Progress
-----------------------------------------------------------------------------
(***************************************************************************)
(* What the invariant says, part by part.                                  *)
(***************************************************************************)
LEMMA SoundTyped == ASSUME Sound(store), now \in 0 .. MaxTime PROVE TypeOK
<1> DEFINE Id == 1 .. store.last_id
           A == [to : SUBSET Agent, expires : Nat, status : Status]
           K == {"note", "question", "answer", "event"}
           P == [from : Agent, kind : K, reply_to : Id \cup {None},
                 ask : A \cup {None}, key : Key \cup {None}]
<1>1. /\ store.last_id \in Nat /\ store.agents \in SUBSET Agent
      /\ \A r \in DOMAIN store.rooms :
            store.rooms[r] \in RoomType /\ RoomSound(store.rooms[r], store.last_id, store.agents)
  BY StoreHas DEF Sound
<1>2. ASSUME NEW r \in DOMAIN store.rooms, NEW id \in DOMAIN store.rooms[r].posts
      PROVE  id \in Id /\ store.rooms[r].posts[id] \in P
  <2> DEFINE p == store.rooms[r].posts[id]
  <2>1. id \in Id /\ PostSound(p, store.last_id)
    BY <1>1 DEF RoomSound
  <2>2. p \in PostType
    BY <1>1, RoomHas
  <2> HIDE DEF p
  <2>3. p.reply_to \in Id \cup {None}
    BY <2>1 DEF PostSound
  <2>4. p \in P
    BY <2>2, <2>3 DEF PostType, AskType, Kind
  <2> QED BY <2>1, <2>4 DEF p
<1>3. ASSUME NEW r \in DOMAIN store.rooms, NEW a \in DOMAIN store.rooms[r].members
      PROVE  store.rooms[r].members[a] \in [role : {"owner", "member"}, cursor : 0 .. store.last_id]
  <2> DEFINE m == store.rooms[r].members[a]
  <2>1. m.cursor <= store.last_id
    BY <1>1 DEF RoomSound
  <2>2. store.rooms[r].members \in Maps(Agent, MemberType)
    BY <1>1, RoomHas
  <2>3. m \in MemberType
    BY <2>2, MapHas
  <2> HIDE DEF m
  <2>4. m.cursor \in 0 .. store.last_id
    BY <1>1, <2>1, <2>3 DEF MemberType
  <2>5. m \in [role : {"owner", "member"}, cursor : 0 .. store.last_id]
    BY <2>3, <2>4 DEF MemberType
  <2> QED BY <2>5 DEF m
<1>4. ASSUME NEW r \in DOMAIN store.rooms, NEW k \in DOMAIN store.rooms[r].board
      PROVE  store.rooms[r].board[k] \in [value : Value, version : Nat \ {0}]
  <2>1. store.rooms[r].board \in Maps(Entry, EntryType)
    BY <1>1, RoomHas
  <2>2. store.rooms[r].board[k] \in EntryType
    BY <2>1, MapHas
  <2> QED BY <2>2 DEF EntryType
<1>5. Cardinality(store.agents) <= MaxAgents /\ Cardinality(DOMAIN store.rooms) <= MaxRooms
  BY DEF Sound
<1> QED BY <1>1, <1>2, <1>3, <1>4, <1>5 DEF TypeOK

\* A sound store's rooms know their open questions, and their members are known.
LEMMA SoundMatches == ASSUME Sound(store) PROVE OpenMatches /\ MembersKnown
<1>1. \A r \in DOMAIN store.rooms : RoomSound(store.rooms[r], store.last_id, store.agents)
  BY DEF Sound
<1>2. OpenMatches
  BY <1>1 DEF OpenMatches, RoomSound
<1>3. MembersKnown
  BY <1>1 DEF MembersKnown, RoomSound
<1> QED BY <1>2, <1>3

\* A fair store's questions, shares and keys.
LEMMA FairHolds ==
    ASSUME Sound(store), Fair(store)
    PROVE  AnswersDiffer /\ WithinShares /\ KeysFindPosts
<1>1. \A r \in DOMAIN store.rooms : RoomFair(store.rooms[r]) /\ KeysRight(store)
  BY DEF Fair
<1>2. AnswersDiffer
  BY <1>1 DEF AnswersDiffer, RoomFair
<1>3. WithinShares
  BY <1>1 DEF WithinShares, RoomFair, OpenOf
<1>4. KeysFindPosts
  <2>0. KeysRight(store)
    BY DEF Fair
  <2>1. ASSUME NEW r \in DOMAIN store.rooms, NEW id \in DOMAIN store.rooms[r].posts,
               store.rooms[r].posts[id].key # None
        PROVE  LET p == store.rooms[r].posts[id]
               IN  /\ <<r, p.from, p.key>> \in DOMAIN store.post_keys
                   /\ store.post_keys[<<r, p.from, p.key>>] = id
    BY <2>0, <2>1 DEF KeysRight, KeyOf
  <2>2. ASSUME NEW x \in DOMAIN store.post_keys
        PROVE  /\ x[1] \in DOMAIN store.rooms
               /\ store.post_keys[x] \in DOMAIN store.rooms[x[1]].posts
               /\ x \in KeysOf(x[1], store.rooms[x[1]].posts, {store.post_keys[x]})
    <3>1. PICK r \in DOMAIN store.rooms : \E id \in DOMAIN store.rooms[r].posts :
             store.rooms[r].posts[id].key # None /\ x = KeyOf(r, store.rooms[r].posts[id])
      BY <2>0 DEF KeysRight
    <3>2. PICK id \in DOMAIN store.rooms[r].posts :
             store.rooms[r].posts[id].key # None /\ x = KeyOf(r, store.rooms[r].posts[id])
      BY <3>1
    <3>3. store.post_keys[x] = id
      BY <2>0, <3>2 DEF KeysRight
    <3>4. x[1] = r
      BY <3>2 DEF KeyOf
    <3>5. x \in KeysOf(r, store.rooms[r].posts, {id})
      BY <3>2 DEF KeysOf, KeyOf
    <3> QED BY <3>3, <3>4, <3>5
  <2> QED BY <2>1, <2>2 DEF KeysFindPosts
<1> QED BY <1>2, <1>3, <1>4

\* Its open questions, where no commit is refused.
LEMMA AwaitedHolds == ASSUME "failing" \notin uses => Awaited(store) PROVE OpenIsAwaited
  BY DEF OpenIsAwaited, Awaited, AwaitedIn

\* An entry changed since it was read is at another version.
LEMMA RightFails == ASSUME HoldsRight PROVE StaleWritesFailButAfterRemoval
<1> SUFFICES ASSUME NEW a \in DOMAIN holds, holds[a].since = "changed"
             PROVE  Version(store, holds[a].of) # holds[a].version
  BY DEF StaleWritesFailButAfterRemoval
<1>1. Version(store, holds[a].of) > holds[a].version /\ holds[a].version \in Nat
  BY DEF HoldsRight, Held, HoldType
<1> QED BY <1>1
-----------------------------------------------------------------------------
(***************************************************************************)
(* Theorems.                                                               *)
(***************************************************************************)
\* The invariant of every behaviour.
LEMMA RoomsInvariant == Spec => []RoomsInv
<1>1. Init => RoomsInv
  BY RoomsInit
<1>2. RoomsInv /\ [Next]_vars => RoomsInv'
  BY RoomsStep
<1> QED BY <1>1, <1>2, PTL DEF Spec

\* Types, the limits on agents and rooms, which questions are open and that
\* members are known hold in every state, whatever requests are made: merges of
\* agents, refused commits and restarts too (Store::apply, reindex,
\* Core::ensure_agents, rename, create_room).
THEOREM RoomsAreSound == Spec => [](TypeOK /\ OpenMatches /\ MembersKnown)
<1>1. RoomsInv => TypeOK /\ OpenMatches /\ MembersKnown
  BY SoundTyped, SoundMatches DEF RoomsInv
<1> QED BY <1>1, RoomsInvariant, PTL

\* Unless the administrator merges two agents, or the operator takes another
\* name, all of RoomsHold does: an open question is waited for, each answers it
\* once, agents keep to their shares, and keys find posts (Core::answer,
\* admit_question, trim_room, post_by_key).
THEOREM RoomsAlwaysHold == Spec => [](Apart => RoomsHold)
<1>1. ASSUME RoomsInv, Apart PROVE RoomsHold
  <2>1. TypeOK /\ OpenMatches /\ MembersKnown
    BY <1>1, SoundTyped, SoundMatches DEF RoomsInv
  <2>2. AnswersDiffer /\ WithinShares /\ KeysFindPosts /\ OpenIsAwaited
    BY <1>1, FairHolds, AwaitedHolds DEF RoomsInv
  <2> QED BY <2>1, <2>2 DEF RoomsHold
<1>2. RoomsInv => (Apart => RoomsHold)
  BY <1>1
<1> QED BY <1>2, RoomsInvariant, PTL

\* A write with the version a reader holds of an entry changed since is refused,
\* unless the entry was removed in between (Core::board_set).
THEOREM StaleWritesFail == Spec => []StaleWritesFailButAfterRemoval
<1>1. RoomsInv => StaleWritesFailButAfterRemoval
  BY RightFails DEF RoomsInv
<1> QED BY <1>1, RoomsInvariant, PTL

\* The steps of OpenQuestionsStay and of SettledOnce.
QuestionsStay ==
    \A r \in DOMAIN store.rooms \cap DOMAIN store'.rooms :
       \A q \in store.rooms[r].open :
          LET room == store'.rooms[r]
          IN  /\ q \in DOMAIN room.posts
              /\ q \in room.open => Answers(store.rooms[r], q) \subseteq Answers(room, q)
SettlesOnce ==
    \A r \in DOMAIN store.rooms \cap DOMAIN store'.rooms :
       \A q \in DOMAIN store.rooms[r].posts \cap DOMAIN store'.rooms[r].posts :
          LET before == store.rooms[r].posts[q].ask
              after == store'.rooms[r].posts[q].ask
          IN  before # None /\ after.status # before.status =>
                 /\ before.status = "open"
                 /\ after.status = "resolved" =>
                       /\ Answers(store'.rooms[r], q) # {}
                       /\ after.to \subseteq answered(store'.rooms[r], q)

\* What no step does to a room, for the properties of steps.
LEMMA KeptStays == ASSUME Kept(store, store') PROVE QuestionsStay /\ SettlesOnce
  BY DEF Kept, RoomKept, QuestionsStay, SettlesOnce

\* However many posts follow, and whatever a room is trimmed to, an open question
\* and its answers stay in it (Core::trim_room, Room::keeps).
THEOREM QuestionsAlwaysStay == Spec => OpenQuestionsStay
<1>1. RoomsInv /\ [Next]_vars => [QuestionsStay]_vars
  BY RoomsStep, KeptStays
<1>2. OpenQuestionsStay <=> [][QuestionsStay]_vars
  BY PTL DEF OpenQuestionsStay, QuestionsStay
<1> QED BY <1>1, <1>2, RoomsInvariant, PTL DEF Spec

\* A question is settled once, and resolves when all it names have answered
\* (Core::answer, withdraw, update_room, sweep_rooms).
THEOREM QuestionsSettleOnce == Spec => SettledOnce
<1>1. RoomsInv /\ [Next]_vars => [SettlesOnce]_vars
  BY RoomsStep, KeptStays
<1>2. SettledOnce <=> [][SettlesOnce]_vars
  BY PTL DEF SettledOnce, SettlesOnce
<1> QED BY <1>1, <1>2, RoomsInvariant, PTL DEF Spec
=============================================================================
