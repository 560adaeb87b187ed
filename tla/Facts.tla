-------------------------------- MODULE Facts --------------------------------
(***************************************************************************)
(* What the proofs use of numbers and of finite sets of them: the least    *)
(* and the greatest of a set, and the ranks of positions; and of functions *)
(* with some of a set for their domain.                                    *)
(***************************************************************************)
EXTENDS Integers, FiniteSets, FiniteSetsExt, FiniteSetTheorems, WellFoundedInduction,
        SequenceTheorems, TLAPS

\* Ids, positions and generations are numbers: any set of them has a least.
LEMMA LeastOf ==
    ASSUME NEW S \in SUBSET Nat, S # {}
    PROVE  \E x \in S : \A y \in S : x <= y
<1> DEFINE R == OpToRel(<, Nat)
<1>1. IsWellFoundedOn(R, Nat)
  BY NatLessThanWellFounded
<1>2. S \subseteq Nat
  OBVIOUS
<1> HIDE DEF R
<1>3. PICK x \in S : \A y \in S : ~(<<y, x>> \in R)
  BY <1>1, <1>2, WFMin
<1>4. ASSUME NEW y \in S
      PROVE  x <= y
  <2>1. <<y, x>> \notin R
    BY <1>3
  <2>2. x \in Nat /\ y \in Nat
    OBVIOUS
  <2>3. ~(y < x)
    BY <2>1, <2>2 DEF R, OpToRel
  <2> QED BY <2>2, <2>3
<1> QED BY <1>4

\* What holds of the first number and passes from each to the next holds of all.
LEMMA SetInduction ==
    ASSUME NEW T, 0 \in T, \A n \in Nat : n \in T => n + 1 \in T
    PROVE  Nat \subseteq T
<1> DEFINE U == Nat \ T
<1>1. SUFFICES ASSUME U # {} PROVE FALSE
  OBVIOUS
<1>2. PICK x \in U : \A y \in U : x <= y
  <2>1. U \in SUBSET Nat
    OBVIOUS
  <2> HIDE DEF U
  <2> QED BY <1>1, <2>1, LeastOf
<1>3. x \in Nat /\ x # 0
  OBVIOUS
<1>4. x - 1 \in Nat /\ x - 1 \in T
  BY <1>2, <1>3
<1> QED BY <1>3, <1>4

\* A set of numbers with a bound has a greatest, which is its Max.
LEMMA GreatestOf ==
    ASSUME NEW n \in Nat, NEW S \in SUBSET (0..n), S # {}
    PROVE  /\ Max(S) \in S
           /\ \A y \in S : y <= Max(S)
<1> DEFINE D == {x \in 0..n : n - x \in S}
<1>1. D \in SUBSET Nat
  OBVIOUS
<1>2. D # {}
  <2>1. PICK y \in S : TRUE
    OBVIOUS
  <2>2. n - y \in 0..n /\ n - (n - y) = y
    OBVIOUS
  <2> QED BY <2>2
<1>3. \E x \in D : \A y \in D : x <= y
  <2> HIDE DEF D
  <2> QED BY <1>1, <1>2, LeastOf
<1>4. PICK x \in D : \A y \in D : x <= y
  BY <1>3
<1>5. ASSUME NEW y \in S
      PROVE  n - x >= y
  <2>1. n - y \in 0..n /\ n - (n - y) = y
    OBVIOUS
  <2>2. n - y \in D
    BY <2>1
  <2>3. x <= n - y /\ x \in 0..n
    BY <1>4, <2>2
  <2> QED BY <2>3, y \in 0..n
<1>6. n - x \in S
  OBVIOUS
<1>7. \E z \in S : \A y \in S : z >= y
  BY <1>5, <1>6
<1>8. Max(S) \in S /\ \A y \in S : Max(S) >= y
  BY <1>7 DEF Max
<1> QED BY <1>8, S \subseteq Int

\* How many of a set of numbers come up to i.
Rank(P, i) == Cardinality({j \in P : j <= i})

\* One more number adds itself to the rank, or nothing.
LEMMA RankStep ==
    ASSUME NEW P \in SUBSET Nat, IsFiniteSet(P), NEW i \in Nat
    PROVE  /\ Rank(P, i) \in Nat
           /\ Rank(P, i) <= Cardinality(P)
           /\ Rank(P, i + 1) = Rank(P, i) + (IF i + 1 \in P THEN 1 ELSE 0)
<1>0. \A j \in P : j \in Nat
  OBVIOUS
<1> DEFINE A == {j \in P : j <= i}
<1> DEFINE B == {j \in P : j <= i + 1}
<1>1. IsFiniteSet(A) /\ Cardinality(A) \in Nat /\ Cardinality(A) <= Cardinality(P)
  BY FS_Subset, FS_CardinalityType
<1>2. CASE i + 1 \in P
  <2>1. B = A \cup {i + 1} /\ i + 1 \notin A
    <3>1. \A j \in P : j <= i + 1 <=> (j <= i \/ j = i + 1)
      BY <1>0
    <3>2. ~(i + 1 <= i)
      OBVIOUS
    <3> QED BY <1>2, <3>1, <3>2, Zenon
  <2>2. Cardinality(B) = Cardinality(A) + 1
    <3> HIDE DEF A, B
    <3> QED BY <1>1, <2>1, FS_AddElement
  <2> QED BY <1>1, <1>2, <2>2 DEF Rank
<1>3. CASE i + 1 \notin P
  <2>1. B = A
    <3>1. \A j \in P : j # i + 1 => (j <= i + 1 <=> j <= i)
      BY <1>0
    <3> QED BY <1>3, <3>1, Zenon
  <2> QED BY <1>1, <1>3, <2>1 DEF Rank
<1> QED BY <1>2, <1>3

\* Of two in the set the greater has the greater rank.
LEMMA RankGrows ==
    ASSUME NEW P \in SUBSET Nat, IsFiniteSet(P), NEW i \in P, NEW j \in P, i < j
    PROVE  Rank(P, i) < Rank(P, j)
<1>0. \A k \in P : k \in Nat
  OBVIOUS
<1> DEFINE A == {k \in P : k <= i}
<1> DEFINE B == {k \in P : k <= j}
<1>1. A \subseteq B /\ j \in B /\ j \notin A
  <2>1. (\A k \in P : k <= i => k <= j) /\ j <= j /\ ~(j <= i)
    BY <1>0
  <2> QED BY <2>1, Zenon
<1>2. IsFiniteSet(B) /\ Cardinality(B) \in Nat /\ IsFiniteSet(A) /\ Cardinality(A) \in Nat
  BY FS_Subset, FS_CardinalityType
<1>3. Cardinality(A) <= Cardinality(B) /\ (Cardinality(A) = Cardinality(B) => A = B)
  <2> HIDE DEF A, B
  <2> QED BY <1>1, <1>2, FS_Subset
<1>4. Cardinality(A) < Cardinality(B)
  BY <1>1, <1>2, <1>3
<1> QED BY <1>4 DEF Rank

\* Every number up to the size of the set is the rank of one in it.
LEMMA RankReaches ==
    ASSUME NEW P, IsFiniteSet(P), NEW m \in Nat, P \subseteq 1..m, NEW n \in 1..Cardinality(P)
    PROVE  \E i \in P : Rank(P, i) = n
<1>0. \A j \in P : j \in 1..m
  OBVIOUS
<1>1. P \in SUBSET Nat /\ Cardinality(P) \in Nat
  BY FS_CardinalityType
<1> DEFINE E == {i \in Nat : n <= Rank(P, i)}
<1>2. m \in E
  <2>1. {j \in P : j <= m} = P
    <3>1. \A j \in P : j <= m
      BY <1>0
    <3> QED BY <3>1, Zenon
  <2> QED BY <1>1, <2>1 DEF Rank
<1>3. 0 \notin E
  <2>1. {j \in P : j <= 0} = {}
    <3>1. \A j \in P : ~(j <= 0)
      BY <1>0
    <3> QED BY <3>1, Zenon
  <2> QED BY <2>1, FS_EmptySet DEF Rank
<1>4. \E i \in E : \A j \in E : i <= j
  <2>1. E \in SUBSET Nat /\ E # {}
    BY <1>2
  <2> HIDE DEF E
  <2> QED BY <2>1, LeastOf
<1>5. PICK i \in E : \A j \in E : i <= j
  BY <1>4
<1>6. i \in Nat /\ i # 0 /\ i - 1 \in Nat /\ i - 1 \notin E
  BY <1>3, <1>5
<1>7. Rank(P, i - 1) < n /\ Rank(P, i - 1) \in Nat
  BY <1>1, <1>6, RankStep
<1>8. Rank(P, i) = Rank(P, i - 1) + (IF i \in P THEN 1 ELSE 0)
  <2>1. (i - 1) + 1 = i
    BY <1>6
  <2> QED BY <1>1, <1>6, <2>1, RankStep
<1>9. n <= Rank(P, i)
  BY <1>5
<1> QED BY <1>7, <1>8, <1>9

\* What a finite set is mapped to is finite.
LEMMA ImageFinite ==
    ASSUME NEW f, IsFiniteSet(DOMAIN f)
    PROVE  IsFiniteSet({f[x] : x \in DOMAIN f})
<1> DEFINE T == {f[x] : x \in DOMAIN f}
<1> DEFINE g == [x \in DOMAIN f |-> f[x]]
<1>1. g \in Surjection(DOMAIN f, T)
  BY DEF Surjection
<1> QED BY <1>1, FS_Surjection

\* Functions with some of S for their domain: what is there has a value.
Maps(S, T) == UNION {[D -> T] : D \in SUBSET S}

\* What a function with some of S for its domain is.
LEMMA MapsFact == \A S, T, f : f \in Maps(S, T) <=> DOMAIN f \subseteq S /\ f \in [DOMAIN f -> T]
  BY DEF Maps

\* A function keeps its values on what is left of its domain.
LEMMA RestrictFact ==
    ASSUME NEW S, NEW T, NEW f \in Maps(S, T), NEW D
    PROVE  /\ Restrict(f, DOMAIN f \cap D) \in Maps(S, T)
           /\ DOMAIN Restrict(f, DOMAIN f \cap D) = DOMAIN f \cap D
           /\ \A x \in DOMAIN f \cap D : Restrict(f, DOMAIN f \cap D)[x] = f[x]
<1>1. f \in [DOMAIN f -> T] /\ DOMAIN f \subseteq S
  BY MapsFact
<1>2. /\ Restrict(f, DOMAIN f \cap D) \in [DOMAIN f \cap D -> T]
      /\ \A x \in DOMAIN f \cap D : Restrict(f, DOMAIN f \cap D)[x] = f[x]
  BY <1>1 DEF Restrict
<1>3. DOMAIN Restrict(f, DOMAIN f \cap D) = DOMAIN f \cap D
  BY <1>2
<1> QED BY <1>1, <1>2, <1>3, MapsFact

\* A finite set of numbers has a greatest, which is its Max.
LEMMA GreatestOfFinite ==
    ASSUME NEW S \in SUBSET Nat, IsFiniteSet(S), S # {}
    PROVE  /\ Max(S) \in S
           /\ \A y \in S : y <= Max(S)
<1>0. PICK n \in Nat : ExistsBijection(1 .. n, S)
  BY FS_NatBijection
<1>1. PICK f \in Bijection(1 .. n, S) : TRUE
  BY <1>0 DEF ExistsBijection
<1>2. f \in [1 .. n -> S] /\ \A x \in S : \E i \in 1 .. n : f[i] = x
  BY <1>1 DEF Bijection, Injection, Surjection
<1> DEFINE T == {k \in Nat : \E b \in Nat : \A i \in 1 .. n : i <= k => f[i] <= b}
<1>3. 0 \in T
  OBVIOUS
<1>4. ASSUME NEW k \in Nat, k \in T
      PROVE  k + 1 \in T
  <2>1. PICK b \in Nat : \A i \in 1 .. n : i <= k => f[i] <= b
    BY <1>4
  <2>2. CASE k + 1 \in 1 .. n
    <3>1. f[k + 1] \in Nat
      BY <1>2, <2>2
    <3>2. \A i \in 1 .. n : f[i] \in Nat
      BY <1>2
    <3>3. PICK c \in Nat : b <= c /\ f[k + 1] <= c
      BY <3>1
    <3>4. \A i \in 1 .. n : i <= k + 1 => f[i] <= c
      BY <2>1, <3>2, <3>3
    <3> QED BY <3>4
  <2>3. CASE k + 1 \notin 1 .. n
    <3>1. \A i \in 1 .. n : i <= k + 1 => f[i] <= b
      BY <2>1, <2>3
    <3> QED BY <3>1
  <2> QED BY <2>2, <2>3
<1>5. n \in T
  <2> HIDE DEF T
  <2> QED BY <1>3, <1>4, SetInduction
<1>6. PICK b \in Nat : \A i \in 1 .. n : f[i] <= b
  BY <1>5
<1>7. S \in SUBSET (0 .. b)
  BY <1>2, <1>6
<1> QED BY <1>7, GreatestOf

\* The numbers of a sequence grow.
Rising(s) == \A i, j \in DOMAIN s : i < j => s[i] < s[j]

\* Of two that grow, one that has no number the other has not, and lacks none
\* below one it has, is the beginning of the other.
LEMMA RisingPrefix ==
    ASSUME NEW s \in Seq(Nat), NEW t \in Seq(Nat), Rising(s), Rising(t),
           \A i \in DOMAIN s : \E j \in DOMAIN t : t[j] = s[i],
           \A i \in DOMAIN s, j \in DOMAIN t : t[j] < s[i] => \E k \in DOMAIN s : s[k] = t[j]
    PROVE  Len(s) <= Len(t) /\ \A i \in 1 .. Len(s) : s[i] = t[i]
<1> DEFINE T == {n \in Nat : n <= Len(s) => n <= Len(t) /\ \A i \in 1 .. n : s[i] = t[i]}
<1>0. /\ Len(s) \in Nat /\ Len(t) \in Nat
      /\ DOMAIN s = 1 .. Len(s) /\ DOMAIN t = 1 .. Len(t)
      /\ \A i \in 1 .. Len(s) : s[i] \in Nat
      /\ \A i \in 1 .. Len(t) : t[i] \in Nat
  OBVIOUS
<1>1. 0 \in T
  BY <1>0
<1>2. ASSUME NEW n \in Nat, n \in T
      PROVE  n + 1 \in T
  <2> SUFFICES ASSUME n + 1 <= Len(s)
               PROVE  n + 1 <= Len(t) /\ s[n + 1] = t[n + 1]
    <3>1. n + 1 <= Len(s) => n <= Len(s) /\ \A i \in 1 .. n : s[i] = t[i]
      BY <1>0, <1>2
    <3>2. \A i \in 1 .. n + 1 : i \in 1 .. n \/ i = n + 1
      OBVIOUS
    <3> QED BY <3>1, <3>2
  <2>1. n + 1 \in 1 .. Len(s) /\ \A i \in 1 .. n : s[i] = t[i]
    BY <1>0, <1>2
  <2>2. PICK j \in 1 .. Len(t) : t[j] = s[n + 1]
    BY <1>0, <2>1
  <2>3. j > n
    <3> SUFFICES ASSUME j <= n PROVE FALSE
      BY <1>0
    <3>1. j \in 1 .. n /\ j \in 1 .. Len(s) /\ j < n + 1
      BY <1>0
    <3>2. s[j] < s[n + 1]
      BY <1>0, <2>1, <3>1 DEF Rising
    <3> QED BY <1>0, <2>1, <2>2, <3>1, <3>2
  <2>4. n + 1 \in 1 .. Len(t)
    BY <1>0, <2>3
  <2>5. t[n + 1] <= s[n + 1]
    <3>1. CASE j = n + 1
      BY <1>0, <2>2, <3>1, <2>4
    <3>2. CASE j # n + 1
      <4>1. n + 1 < j
        BY <1>0, <2>3, <3>2
      <4>2. t[n + 1] < t[j]
        BY <1>0, <2>4, <4>1 DEF Rising
      <4> QED BY <1>0, <2>2, <2>4, <4>2
    <3> QED BY <3>1, <3>2
  <2>6. ~(t[n + 1] < s[n + 1])
    <3> SUFFICES ASSUME t[n + 1] < s[n + 1] PROVE FALSE
      OBVIOUS
    <3>1. PICK k \in 1 .. Len(s) : s[k] = t[n + 1]
      BY <1>0, <2>1, <2>4
    <3>2. k < n + 1
      <4> SUFFICES ASSUME n + 1 <= k PROVE FALSE
        BY <1>0
      <4>1. CASE k = n + 1
        BY <1>0, <2>1, <3>1, <4>1
      <4>2. CASE n + 1 < k
        <5>1. s[n + 1] < s[k]
          BY <1>0, <2>1, <4>2 DEF Rising
        <5> QED BY <1>0, <2>1, <2>4, <3>1, <5>1
      <4> QED BY <1>0, <4>1, <4>2
    <3>3. k \in 1 .. n /\ k \in 1 .. Len(t)
      BY <1>0, <2>4, <3>2
    <3>4. t[k] < t[n + 1]
      BY <1>0, <2>4, <3>2, <3>3 DEF Rising
    <3> QED BY <1>0, <2>1, <2>4, <3>1, <3>3, <3>4
  <2>7. s[n + 1] \in Nat /\ t[n + 1] \in Nat
    BY <1>0, <2>1, <2>4
  <2> QED BY <1>0, <2>4, <2>5, <2>6, <2>7
<1>3. Len(s) \in T
  <2> HIDE DEF T
  <2> QED BY <1>0, <1>1, <1>2, SetInduction
<1> QED BY <1>0, <1>3

\* With the same numbers they are the same.
LEMMA RisingSame ==
    ASSUME NEW s \in Seq(Nat), NEW t \in Seq(Nat), Rising(s), Rising(t),
           \A i \in DOMAIN s : \E j \in DOMAIN t : t[j] = s[i],
           \A j \in DOMAIN t : \E i \in DOMAIN s : s[i] = t[j]
    PROVE  s = t
<1>1. Len(s) <= Len(t) /\ \A i \in 1 .. Len(s) : s[i] = t[i]
  BY RisingPrefix
<1>2. Len(t) <= Len(s)
  BY RisingPrefix
<1>3. Len(s) = Len(t) /\ Len(s) \in Nat
  BY <1>1, <1>2, LenProperties
<1>4. DOMAIN s = 1 .. Len(s) /\ DOMAIN t = 1 .. Len(s)
  BY <1>3, LenProperties
<1> QED BY <1>1, <1>4, SeqEqual

\* How many of P come before p in an order of it.
RankIn(P, R, p) == Cardinality({q \in P : <<q, p>> \in R})

\* An order of a finite set gives each of the numbers from 0 to one of it.
LEMMA RankedBy ==
    ASSUME NEW P, IsFiniteSet(P), NEW R,
           \A p \in P : <<p, p>> \notin R,
           \A p, q, r \in P : <<p, q>> \in R /\ <<q, r>> \in R => <<p, r>> \in R,
           \A p, q \in P : p # q => <<p, q>> \in R \/ <<q, p>> \in R
    PROVE  /\ \A p \in P : RankIn(P, R, p) \in 0 .. Cardinality(P) - 1
           /\ \A p, q \in P : <<p, q>> \in R => RankIn(P, R, p) < RankIn(P, R, q)
           /\ \A k \in 0 .. Cardinality(P) - 1 : \E p \in P : RankIn(P, R, p) = k
<1>0. Cardinality(P) \in Nat
  BY FS_CardinalityType
<1> DEFINE below(p) == {q \in P : <<q, p>> \in R}
<1>1. ASSUME NEW p \in P
      PROVE  /\ IsFiniteSet(below(p)) /\ Cardinality(below(p)) \in Nat
             /\ Cardinality(below(p)) <= Cardinality(P) - 1
  <2>1. below(p) \in SUBSET (P \ {p})
    OBVIOUS
  <2>2. IsFiniteSet(P \ {p}) /\ Cardinality(P \ {p}) = Cardinality(P) - 1
    BY FS_RemoveElement
  <2> DEFINE B == below(p)
  <2> HIDE DEF B
  <2>3. B \in SUBSET (P \ {p})
    BY <2>1 DEF B
  <2>4. IsFiniteSet(B) /\ Cardinality(B) <= Cardinality(P \ {p})
    BY <2>2, <2>3, FS_Subset
  <2>5. Cardinality(B) \in Nat
    BY <2>4, FS_CardinalityType
  <2> QED BY <2>2, <2>4, <2>5 DEF B
<1>2. ASSUME NEW p \in P, NEW q \in P, <<p, q>> \in R
      PROVE  Cardinality(below(p)) < Cardinality(below(q))
  <2>1. below(p) \in SUBSET below(q) /\ p \in below(q) /\ p \notin below(p)
    BY <1>2
  <2> DEFINE A == below(p)
             B == below(q)
  <2>2. /\ IsFiniteSet(A) /\ IsFiniteSet(B) /\ Cardinality(A) \in Nat /\ Cardinality(B) \in Nat
        /\ A \in SUBSET B /\ A # B
    BY <1>1, <2>1
  <2> HIDE DEF A, B
  <2>3. Cardinality(A) <= Cardinality(B) /\ (Cardinality(B) = Cardinality(A) => B = A)
    BY <2>2, FS_Subset
  <2>4. Cardinality(A) < Cardinality(B)
    BY <2>2, <2>3
  <2> QED BY <2>4 DEF A, B
<1>3. \A p \in P : RankIn(P, R, p) = Cardinality(below(p))
  BY DEF RankIn
<1> HIDE DEF below
<1>4. \A p \in P : RankIn(P, R, p) \in 0 .. Cardinality(P) - 1
  BY <1>0, <1>1, <1>3
<1>5. \A p, q \in P : <<p, q>> \in R => RankIn(P, R, p) < RankIn(P, R, q)
  BY <1>2, <1>3
<1> DEFINE I == 0 .. Cardinality(P) - 1
           f == [p \in P |-> RankIn(P, R, p)]
<1>6. IsFiniteSet(I) /\ Cardinality(I) = Cardinality(P)
  <2>1. Cardinality(P) - 1 \in Int /\ 0 \in Int
    BY <1>0
  <2>2. IsFiniteSet(I) /\ Cardinality(I) = IF 0 > Cardinality(P) - 1 THEN 0 ELSE Cardinality(P) - 1 - 0 + 1
    BY <2>1, FS_Interval
  <2> QED BY <1>0, <2>2
<1>7. f \in [P -> I] /\ \A p \in P : f[p] = RankIn(P, R, p)
  BY <1>4
<1>8. \A p, q \in P : f[p] = f[q] => p = q
  <2> SUFFICES ASSUME NEW p \in P, NEW q \in P, p # q PROVE f[p] # f[q]
    OBVIOUS
  <2>1. RankIn(P, R, p) < RankIn(P, R, q) \/ RankIn(P, R, q) < RankIn(P, R, p)
    BY <1>5
  <2>2. RankIn(P, R, p) \in Nat /\ RankIn(P, R, q) \in Nat
    BY <1>0, <1>4
  <2> QED BY <1>7, <2>1, <2>2
<1> HIDE DEF f, I
<1>9. f \in Injection(P, I)
  BY <1>7, <1>8 DEF Injection, IsInjective
<1>10. f \in Surjection(P, I)
  BY <1>6, <1>9, FS_Injection
<1>11. \A k \in I : \E p \in P : f[p] = k
  BY <1>10 DEF Surjection
<1>12. \A k \in I : \E p \in P : RankIn(P, R, p) = k
  BY <1>7, <1>11
<1> QED BY <1>4, <1>5, <1>12 DEF I

\* A fold over the subsets of a finite set, that takes ch[S] from S each time.
IsFold(g, D, ch, f, base) ==
    g = [S \in SUBSET D |-> IF S = {} THEN base ELSE f[<<S, g[S \ {ch[S]}]>>]]
FoldsIn(D, ch, Fam, f, base) ==
    \E g : IsFold(g, D, ch, f, base) /\ \A S \in SUBSET D : g[S] \in Fam[S]

\* A fold over the subsets of a finite set: some function is what taking one
\* element at a time gives, and its values are where each step leads.
LEMMA FoldMakes ==
    ASSUME NEW D, IsFiniteSet(D), NEW ch, NEW Fam, NEW f, NEW base,
           \A S \in SUBSET D : S # {} => ch[S] \in S,
           base \in Fam[{}],
           \A S \in SUBSET D : S # {} => \A t \in Fam[S \ {ch[S]}] : f[<<S, t>>] \in Fam[S]
    PROVE  FoldsIn(D, ch, Fam, f, base)
<1> DEFINE P(n) == {S \in SUBSET D : Cardinality(S) <= n}
           makes(n, g) == /\ g = [S \in P(n) |-> IF S = {} THEN base ELSE f[<<S, g[S \ {ch[S]}]>>]]
                          /\ \A S \in P(n) : g[S] \in Fam[S]
           T == {n \in Nat : \E g : makes(n, g)}
<1>1. \A S \in SUBSET D : IsFiniteSet(S) /\ Cardinality(S) \in Nat /\ Cardinality(S) <= Cardinality(D)
  BY FS_Subset, FS_CardinalityType
<1>2. ASSUME NEW S \in SUBSET D, S # {}
      PROVE  S \ {ch[S]} \in SUBSET D /\ Cardinality(S \ {ch[S]}) = Cardinality(S) - 1
  BY <1>1, <1>2, FS_RemoveElement
<1>3. 0 \in T
  <2> DEFINE g == [S \in P(0) |-> base]
  <2>1. \A S \in P(0) : S = {}
    <3> SUFFICES ASSUME NEW S \in P(0), S # {} PROVE FALSE
      OBVIOUS
    <3>1. Cardinality(S \ {ch[S]}) = Cardinality(S) - 1 /\ Cardinality(S \ {ch[S]}) \in Nat
      BY <1>1, <1>2
    <3> QED BY <1>1, <3>1
  <2>2. makes(0, g)
    BY <2>1
  <2> QED BY <2>2
<1>4. ASSUME NEW n \in Nat, n \in T
      PROVE  n + 1 \in T
  <2>1. PICK g : makes(n, g)
    BY <1>4
  <2> DEFINE h == [S \in P(n + 1) |-> IF S = {} THEN base ELSE f[<<S, g[S \ {ch[S]}]>>]]
  <2>2. \A S \in P(n) : S \in P(n + 1) /\ g[S] = h[S]
    <3> SUFFICES ASSUME NEW S \in P(n) PROVE S \in P(n + 1) /\ g[S] = h[S]
      OBVIOUS
    <3>1. S \in P(n + 1)
      BY <1>1
    <3>2. g[S] = IF S = {} THEN base ELSE f[<<S, g[S \ {ch[S]}]>>]
      BY <2>1
    <3> QED BY <3>1, <3>2
  <2>3. \A S \in P(n + 1) : S # {} => S \ {ch[S]} \in P(n)
    BY <1>1, <1>2
  <2>4. \A S \in P(n + 1) : S # {} => h[S] = f[<<S, h[S \ {ch[S]}]>>] /\ h[S \ {ch[S]}] \in Fam[S \ {ch[S]}]
    <3> SUFFICES ASSUME NEW S \in P(n + 1), S # {}
                 PROVE  h[S] = f[<<S, h[S \ {ch[S]}]>>] /\ h[S \ {ch[S]}] \in Fam[S \ {ch[S]}]
      OBVIOUS
    <3> DEFINE R == S \ {ch[S]}
    <3>1. R \in P(n) /\ h[S] = f[<<S, g[R]>>]
      BY <2>3
    <3>2. g[R] = h[R] /\ g[R] \in Fam[R]
      BY <2>1, <2>2, <3>1
    <3> QED BY <3>1, <3>2
  <2>5. \A S \in P(n + 1) : h[S] = IF S = {} THEN base ELSE f[<<S, h[S \ {ch[S]}]>>]
    BY <2>4
  <2>6. \A S \in P(n + 1) : h[S] \in Fam[S]
    BY <2>4
  <2>7. DOMAIN h = P(n + 1) /\ h = [S \in P(n + 1) |-> h[S]]
    OBVIOUS
  <2> HIDE DEF h
  <2>8. h = [S \in P(n + 1) |-> IF S = {} THEN base ELSE f[<<S, h[S \ {ch[S]}]>>]]
    BY <2>5, <2>7
  <2>9. makes(n + 1, h) /\ n + 1 \in Nat
    <3> HIDE DEF P
    <3>1. n + 1 \in Nat
      OBVIOUS
    <3> QED BY <2>6, <2>8, <3>1, Zenon
  <2> HIDE DEF makes
  <2> QED BY <2>9
<1>5. Cardinality(D) \in T
  <2>1. Cardinality(D) \in Nat
    BY <1>1
  <2> HIDE DEF T
  <2> QED BY <1>3, <1>4, <2>1, SetInduction
<1>6. P(Cardinality(D)) = SUBSET D
  BY <1>1
<1> QED BY <1>5, <1>6 DEF FoldsIn, IsFold

\* What holds of a fold's base, and passes along each of its steps, holds of it.
LEMMA FoldHolds ==
    ASSUME NEW D, IsFiniteSet(D), NEW ch, NEW Fam, NEW g,
           \A S \in SUBSET D : S # {} => ch[S] \in S,
           g[{}] \in Fam[{}],
           \A S \in SUBSET D : S # {} /\ g[S \ {ch[S]}] \in Fam[S \ {ch[S]}] => g[S] \in Fam[S]
    PROVE  \A S \in SUBSET D : g[S] \in Fam[S]
<1> DEFINE T == {n \in Nat : \A S \in SUBSET D : Cardinality(S) <= n => g[S] \in Fam[S]}
<1>1. \A S \in SUBSET D : IsFiniteSet(S) /\ Cardinality(S) \in Nat /\ Cardinality(S) <= Cardinality(D)
  BY FS_Subset, FS_CardinalityType
<1>2. ASSUME NEW S \in SUBSET D, S # {}
      PROVE  /\ S \ {ch[S]} \in SUBSET D /\ Cardinality(S \ {ch[S]}) = Cardinality(S) - 1
             /\ Cardinality(S \ {ch[S]}) \in Nat
  BY <1>1, <1>2, FS_RemoveElement, FS_CardinalityType
<1>3. 0 \in T
  <2>1. ASSUME NEW S \in SUBSET D, Cardinality(S) <= 0
        PROVE  S = {}
    <3>1. Cardinality(S) \in Nat /\ Cardinality(S) = 0
      BY <1>1, <2>1
    <3>2. S # {} => Cardinality(S \ {ch[S]}) = Cardinality(S) - 1 /\ Cardinality(S \ {ch[S]}) \in Nat
      BY <1>2
    <3> QED BY <3>1, <3>2
  <2> QED BY <2>1
<1>4. ASSUME NEW n \in Nat, n \in T
      PROVE  n + 1 \in T
  <2> SUFFICES ASSUME NEW S \in SUBSET D, Cardinality(S) <= n + 1, S # {}
               PROVE  g[S] \in Fam[S]
    OBVIOUS
  <2>1. Cardinality(S \ {ch[S]}) <= n /\ S \ {ch[S]} \in SUBSET D
    BY <1>1, <1>2
  <2> QED BY <1>4, <2>1
<1>5. Cardinality(D) \in T
  <2>1. Cardinality(D) \in Nat
    BY <1>1
  <2> HIDE DEF T
  <2> QED BY <1>3, <1>4, <2>1, SetInduction
<1> QED BY <1>1, <1>5
=============================================================================
