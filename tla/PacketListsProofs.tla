-------------------------- MODULE PacketListsProofs --------------------------
(***************************************************************************)
(* What the operators of PacketLists return, for lists of any length: the  *)
(* lemmas the proofs about Recovery rest on.                               *)
(***************************************************************************)
EXTENDS PacketLists, TLAPS, FiniteSetTheorems, SequenceTheorems, WellFoundedInduction

-----------------------------------------------------------------------------
(* Positions. *)

\* A non-empty set of natural numbers has a least member.
LEMMA LeastMember ==
  ASSUME NEW T \in SUBSET Nat, T # {}
  PROVE  \E x \in T : \A y \in T : x <= y
<1>1. \E x \in T : \A y \in T : ~ (<<y, x>> \in OpToRel(<, Nat))
  BY NatLessThanWellFounded, WFMin
<1>2. PICK x \in T : \A y \in T : ~ (<<y, x>> \in OpToRel(<, Nat))
  BY <1>1
<1>3. ASSUME NEW y \in T PROVE x <= y
  <2>1. x \in Nat /\ y \in Nat
    OBVIOUS
  <2>2. ~ (y < x)
    BY <1>2, <2>1 DEF OpToRel
  <2> QED
    BY <2>1, <2>2
<1> QED
  BY <1>3

\* Sets of positions are finite.
LEMMA PositionsFinite ==
  ASSUME NEW n \in Nat, NEW I \in SUBSET (1..n)
  PROVE  /\ IsFiniteSet(I)
         /\ Cardinality(I) \in Nat
         /\ Cardinality(I) = 0 <=> I = {}
<1>1. IsFiniteSet(1..n)
  BY FS_Interval
<1>2. IsFiniteSet(I)
  BY <1>1, FS_Subset
<1> QED
  BY <1>2, FS_CardinalityType, FS_EmptySet

\* The k-th smallest position exists, and Nth returns it.
LEMMA NthCounts ==
  ASSUME NEW n \in Nat, NEW I \in SUBSET (1..n), NEW k \in 1..Cardinality(I)
  PROVE  Nth(I, k) \in I /\ Cardinality({ j \in I : j <= Nth(I, k) }) = k
<1> DEFINE Below(i) == { j \in I : j <= i }
           T == { i \in Nat : Cardinality(Below(i)) >= k }
<1>0. \A j \in I : j \in Nat /\ 1 <= j /\ j <= n
  OBVIOUS
<1>1. IsFiniteSet(I)
  BY PositionsFinite
<1>2. Cardinality(I) \in Nat /\ k \in Nat /\ 1 <= k /\ k <= Cardinality(I)
  <2>1. Cardinality(I) \in Nat
    BY PositionsFinite
  <2> QED
    BY <2>1
<1>3. \A i : IsFiniteSet(Below(i)) /\ Cardinality(Below(i)) \in Nat
  <2>1. TAKE i
  <2>2. Below(i) \in SUBSET I
    OBVIOUS
  <2> HIDE DEF Below
  <2>3. IsFiniteSet(Below(i))
    BY <1>1, <2>2, FS_Subset
  <2> QED
    BY <2>3, FS_CardinalityType
<1>4. Below(n) = I
  BY <1>0
<1>5. n \in T
  BY <1>2, <1>4
<1>6. PICK i \in T : \A j \in T : i <= j
  BY <1>5, LeastMember
<1>7. i # 0
  <2>1. Below(0) = {}
    <3>1. \A j \in I : ~ (j <= 0)
      BY <1>0
    <3> QED
      BY <3>1
  <2>2. Cardinality(Below(0)) = 0
    BY <2>1, FS_EmptySet
  <2> QED
    BY <1>2, <1>6, <2>2
<1>8. i \in Nat /\ i - 1 \in Nat /\ i - 1 \notin T
  <2>1. i \in Nat
    OBVIOUS
  <2>2. i - 1 \in Nat /\ ~ (i <= i - 1)
    BY <2>1, <1>7
  <2> HIDE DEF T
  <2> QED
    BY <2>1, <2>2, <1>6
<1>a. Cardinality(Below(i)) >= k
  BY <1>6
<1>9. ~ (Cardinality(Below(i - 1)) >= k)
  BY <1>8
<1>10. i \in I
  <2>1. SUFFICES ASSUME i \notin I PROVE FALSE
    OBVIOUS
  <2>2. Below(i) = Below(i - 1)
    <3>1. \A j \in I : j # i
      BY <2>1
    <3>2. \A j \in I : j <= i <=> j <= i - 1
      BY <1>0, <1>8, <3>1
    <3> QED
      BY <3>2
  <2> HIDE DEF Below
  <2> QED
    BY <2>2, <1>9, <1>a
<1>11. Below(i) = Below(i - 1) \cup {i}
  <2>1. \A j \in I : j <= i <=> (j <= i - 1 \/ j = i)
    BY <1>0, <1>8
  <2> QED
    BY <2>1, <1>8, <1>10
<1>12. i \notin Below(i - 1)
  BY <1>8
<1> HIDE DEF Below
<1>13. Cardinality(Below(i)) = Cardinality(Below(i - 1)) + 1
  BY <1>11, <1>12, <1>3, FS_AddElement
<1>14. Cardinality(Below(i)) = k
  <2>1. Cardinality(Below(i)) \in Nat /\ Cardinality(Below(i - 1)) \in Nat
    BY <1>3
  <2> QED
    BY <2>1, <1>13, <1>9, <1>a, <1>2
<1>15. Nth(I, k) = CHOOSE x \in I : Cardinality(Below(x)) = k
  BY DEF Nth, Below
<1>16. Nth(I, k) \in I /\ Cardinality(Below(Nth(I, k))) = k
  BY <1>10, <1>14, <1>15
<1> QED
  BY <1>16 DEF Below

LEMMA NthSpec ==
  ASSUME NEW n \in Nat, NEW I \in SUBSET (1..n), NEW k \in 1..Cardinality(I)
  PROVE  Nth(I, k) \in I
BY NthCounts

\* The kept positions hold members of the list: Keep picks, it makes up nothing.
LEMMA KeepSpec ==
  ASSUME NEW S, NEW s \in Seq(S), NEW I \in SUBSET (DOMAIN s)
  PROVE  Keep(s, I) \in Seq(S)
<1> DEFINE n == Cardinality(I)
<1>1. DOMAIN s = 1..Len(s) /\ Len(s) \in Nat
  BY LenProperties
<1>2. I \in SUBSET (1..Len(s))
  BY <1>1
<1>3. n \in Nat
  BY <1>1, <1>2, PositionsFinite
<1>4. \A k \in 1..n : Nth(I, k) \in DOMAIN s
  BY <1>1, NthSpec
<1>5. \A k \in 1..n : s[Nth(I, k)] \in S
  BY <1>1, <1>4, ElementOfSeq
<1>6. Keep(s, I) = [ k \in 1..n |-> s[Nth(I, k)] ]
  BY DEF Keep
<1> HIDE DEF n
<1> QED
  BY <1>3, <1>5, <1>6

-----------------------------------------------------------------------------
(* The erased front of a list. *)

\* DropFirst makes up no ids, and what it takes away stood at one of the first n
\* positions.
LEMMA DropFirstSpec ==
  ASSUME NEW S, NEW s \in Seq(S), NEW n \in Nat
  PROVE  /\ DropFirst(s, n) \in Seq(S)
         /\ Elements(DropFirst(s, n)) \subseteq Elements(s)
         /\ \A x \in Elements(s) :
              \/ x \in Elements(DropFirst(s, n))
              \/ \E i \in 1..Len(s) : i <= n /\ s[i] = x
<1> DEFINE a == IF n <= Len(s) THEN n ELSE Len(s)
           t == SubSeq(s, 1 + a, Len(s))
<1>1. Len(s) \in Nat /\ DOMAIN s = 1..Len(s) /\ \A i \in 1..Len(s) : s[i] \in S
  BY LenProperties, ElementOfSeq
<1>2. a \in Nat /\ a <= Len(s) /\ a <= n
  BY <1>1
<1>3. DropFirst(s, n) = t
  BY DEF DropFirst
<1> HIDE DEF a
<1>4. /\ t \in Seq(S)
      /\ Len(t) = IF 1 + a <= Len(s) THEN Len(s) - (1 + a) + 1 ELSE 0
      /\ \A i \in 1..(Len(s) - (1 + a) + 1) : t[i] = s[(1 + a) + i - 1]
  BY <1>1, <1>2, SubSeqProperties
<1> HIDE DEF t
<1>5. Len(t) = Len(s) - a /\ DOMAIN t = 1..(Len(s) - a)
  <2>1. Len(t) = Len(s) - a
    BY <1>1, <1>2, <1>4
  <2> QED
    BY <1>4, <2>1, LenProperties
<1>6. \A i \in 1..(Len(s) - a) : t[i] = s[a + i]
  <2>1. Len(s) - (1 + a) + 1 = Len(s) - a
    BY <1>1, <1>2
  <2>2. \A i \in 1..(Len(s) - a) : (1 + a) + i - 1 = a + i
    BY <1>1, <1>2
  <2> QED
    BY <1>4, <2>1, <2>2
<1>7. Elements(t) \subseteq Elements(s)
  BY <1>1, <1>2, <1>5, <1>6 DEF Elements
<1>8. ASSUME NEW x \in Elements(s), x \notin Elements(t)
      PROVE  \E i \in 1..Len(s) : i <= n /\ s[i] = x
  <2>1. PICK i \in 1..Len(s) : s[i] = x
    BY <1>1 DEF Elements
  <2>2. ~ (i > a)
    <3>1. SUFFICES ASSUME i > a PROVE FALSE
      OBVIOUS
    <3>2. i - a \in 1..(Len(s) - a)
      BY <3>1, <1>1, <1>2
    <3>3. t[i - a] = s[i]
      BY <3>2, <1>6, <1>1, <1>2
    <3> QED
      BY <3>2, <3>3, <2>1, <1>5, <1>8 DEF Elements
  <2> QED
    BY <2>1, <2>2, <1>1, <1>2
<1> QED
  BY <1>3, <1>4, <1>7, <1>8

-----------------------------------------------------------------------------
(* Members of lists that grow and shrink at their ends. *)

LEMMA EmptyElements == Elements(<<>>) = {}
BY DEF Elements

LEMMA AppendElements ==
  ASSUME NEW S, NEW s \in Seq(S), NEW x \in S
  PROVE  Elements(Append(s, x)) = Elements(s) \union {x}
<1>1. /\ Append(s, x) \in Seq(S)
      /\ Len(Append(s, x)) = Len(s) + 1
      /\ \A i \in 1..Len(s) : Append(s, x)[i] = s[i]
      /\ Append(s, x)[Len(s) + 1] = x
  BY AppendProperties
<1>2. /\ Len(s) \in Nat /\ DOMAIN s = 1..Len(s)
      /\ DOMAIN Append(s, x) = 1..(Len(s) + 1)
  BY <1>1, LenProperties
<1>3. 1..(Len(s) + 1) = (1..Len(s)) \union {Len(s) + 1}
  BY <1>2
<1> QED
  BY <1>1, <1>2, <1>3 DEF Elements

LEMMA HeadTailElements ==
  ASSUME NEW S, NEW s \in Seq(S), s # <<>>
  PROVE  Head(s) \in Elements(s) /\ Elements(Tail(s)) \subseteq Elements(s)
<1>1. /\ Tail(s) \in Seq(S) /\ Len(Tail(s)) = Len(s) - 1
      /\ \A i \in 1..Len(Tail(s)) : Tail(s)[i] = s[i + 1]
  BY HeadTailProperties
<1>2. /\ Len(s) \in Nat \ {0} /\ DOMAIN s = 1..Len(s)
      /\ DOMAIN Tail(s) = 1..(Len(s) - 1)
  BY <1>1, LenProperties, EmptySeq
<1>3. Head(s) = s[1] /\ 1 \in 1..Len(s)
  BY <1>2
<1>4. \A i \in 1..(Len(s) - 1) : i + 1 \in 1..Len(s)
  BY <1>2
<1> QED
  BY <1>1, <1>2, <1>3, <1>4 DEF Elements

-----------------------------------------------------------------------------
(* The requests' answers and comparisons. *)

\* The ids answered for a replay are ids of the list.
LEMMA FirstVersionsType ==
  ASSUME NEW S, NEW s \in Seq(S)
  PROVE  FirstVersions(s) \in Seq(S)
BY KeepSpec DEF FirstVersions

\* The ids to be replayed are ids of the master's list.
LEMMA UnprocessedType ==
  ASSUME NEW S, NEW m \in Seq(S), NEW s
  PROVE  Unprocessed(m, s) \in Seq(S)
BY KeepSpec DEF Unprocessed

\* There is a longest common prefix, and PrefixLen is its length.
LEMMA PrefixLenSpec ==
  ASSUME NEW S, NEW m \in Seq(S), NEW s \in Seq(S)
  PROVE  /\ PrefixLen(m, s) \in Nat
         /\ PrefixLen(m, s) <= Len(m)
         /\ PrefixLen(m, s) <= Len(s)
         /\ \A i \in 1..PrefixLen(m, s) : m[i] = s[i]
<1> DEFINE IsPrefixLen(n) ==
             /\ n <= Len(s)
             /\ \A i \in 1..n : m[i] = s[i]
             /\ (n < Len(m) /\ n < Len(s)) => m[n + 1] # s[n + 1]
           T == { n \in Nat : (n < Len(m) /\ n < Len(s)) => m[n + 1] # s[n + 1] }
<1>1. Len(m) \in Nat /\ Len(s) \in Nat
  BY LenProperties
<1>2. Len(m) \in T /\ Len(s) \in T
  BY <1>1
<1>3. PICK n \in T : \A k \in T : n <= k
  BY <1>2, LeastMember
<1>4. n \in Nat /\ n <= Len(m) /\ n <= Len(s)
  BY <1>2, <1>3
<1>5. ASSUME NEW i \in 1..n PROVE m[i] = s[i]
  <2>1. i \in Nat /\ i - 1 \in Nat /\ ~ (n <= i - 1)
    BY <1>4
  <2>2. i - 1 \notin T
    BY <1>3, <2>1
  <2>3. m[(i - 1) + 1] = s[(i - 1) + 1]
    BY <2>1, <2>2
  <2> QED
    BY <2>1, <2>3
<1>6. n \in 0..Len(m) /\ IsPrefixLen(n)
  BY <1>1, <1>4, <1>5
<1>7. PrefixLen(m, s) = CHOOSE k \in 0..Len(m) : IsPrefixLen(k)
  BY DEF PrefixLen
<1> HIDE DEF IsPrefixLen
<1>8. PrefixLen(m, s) \in 0..Len(m) /\ IsPrefixLen(PrefixLen(m, s))
  BY <1>6, <1>7
<1> QED
  BY <1>1, <1>8 DEF IsPrefixLen

\* The common ids are the first ids of the master's list, and the slave has
\* them all.
LEMMA CommonSpec ==
  ASSUME NEW S, NEW m \in Seq(S), NEW s \in Seq(S)
  PROVE  /\ Common(m, s) \in Seq(S)
         /\ Len(Common(m, s)) <= Len(m)
         /\ \A i \in 1..Len(Common(m, s)) :
              Common(m, s)[i] = m[i] /\ m[i] \in Elements(s)
<1> DEFINE p == PrefixLen(m, s)
           n == p + (IF HasOrphans(m, s) THEN 1 ELSE 0)
<1>1. /\ Len(m) \in Nat /\ Len(s) \in Nat /\ DOMAIN s = 1..Len(s)
      /\ \A i \in 1..Len(m) : m[i] \in S
  BY LenProperties, ElementOfSeq
<1>2. p \in Nat /\ p <= Len(m) /\ p <= Len(s) /\ \A i \in 1..p : m[i] = s[i]
  BY PrefixLenSpec
<1>3. Common(m, s) = SubSeq(m, 1, n)
  BY DEF Common
<1> HIDE DEF p
<1>4. HasOrphans(m, s) => p + 1 <= Len(m) /\ m[p + 1] \in Elements(s)
  <2>1. SUFFICES ASSUME HasOrphans(m, s)
                 PROVE  p + 1 <= Len(m) /\ m[p + 1] \in Elements(s)
    OBVIOUS
  <2>2. p + 1 <= Len(m) /\ LaterAt(s, p + 1, m[p + 1]) # {}
    BY <2>1 DEF HasOrphans, p
  <2>3. PICK j \in (p + 1)..Len(s) : s[j] = m[p + 1]
    BY <2>2 DEF LaterAt
  <2>4. j \in DOMAIN s
    BY <1>1, <1>2
  <2> QED
    BY <2>2, <2>3, <2>4 DEF Elements
<1>5. n \in Nat /\ n <= Len(m)
  BY <1>1, <1>2, <1>4
<1>6. \A i \in 1..n : m[i] \in Elements(s)
  <2>1. TAKE i \in 1..n
  <2>2. CASE i <= p
    <3>1. i \in 1..p /\ i \in DOMAIN s
      BY <1>1, <1>2, <1>5, <2>2
    <3> QED
      BY <3>1, <1>2 DEF Elements
  <2>3. CASE ~ (i <= p)
    <3>1. HasOrphans(m, s) /\ i = p + 1
      BY <1>2, <1>5, <2>3
    <3> QED
      BY <3>1, <1>4
  <2> QED
    BY <2>2, <2>3
<1> HIDE DEF n
<1>7. /\ SubSeq(m, 1, n) \in Seq(S)
      /\ Len(SubSeq(m, 1, n)) = IF 1 <= n THEN n - 1 + 1 ELSE 0
      /\ \A i \in 1..(n - 1 + 1) : SubSeq(m, 1, n)[i] = m[1 + i - 1]
  <2>1. \A i \in 1..n : m[i] \in S
    BY <1>1, <1>5
  <2> QED
    BY <1>5, <2>1, SubSeqProperties
<1> HIDE DEF Common
<1>8. Len(Common(m, s)) = n
  BY <1>3, <1>5, <1>7
<1>9. \A i \in 1..n : Common(m, s)[i] = m[i]
  <2>1. n - 1 + 1 = n /\ \A i \in 1..n : 1 + i - 1 = i
    BY <1>5
  <2> QED
    BY <1>3, <1>7, <2>1
<1> QED
  BY <1>3, <1>5, <1>6, <1>7, <1>8, <1>9

\* The orphans are ids of the slave's list.
LEMMA OrphansSpec ==
  ASSUME NEW S, NEW m \in Seq(S), NEW s \in Seq(S)
  PROVE  /\ Orphans(m, s) \in Seq(S)
         /\ Elements(Orphans(m, s)) \subseteq Elements(s)
<1>1. CASE ~ HasOrphans(m, s)
  <2>1. Orphans(m, s) = <<>>
    BY <1>1 DEF Orphans
  <2>2. Elements(<<>>) = {}
    BY DEF Elements
  <2> QED
    BY <2>1, <2>2, EmptySeq
<1>2. CASE HasOrphans(m, s)
  <2> DEFINE k == PrefixLen(m, s) + 1
             I == LaterAt(s, k, m[k])
             j == Nth(I, 1)
  <2>1. /\ Len(s) \in Nat /\ DOMAIN s = 1..Len(s)
        /\ \A i \in 1..Len(s) : s[i] \in S
    BY LenProperties, ElementOfSeq
  <2>2. k \in Nat /\ 1 <= k
    BY PrefixLenSpec
  <2>3. I # {} /\ I \in SUBSET (1..Len(s))
    <3>1. I # {}
      BY <1>2 DEF HasOrphans
    <3>2. I \subseteq k..Len(s)
      BY DEF LaterAt
    <3>3. k..Len(s) \subseteq 1..Len(s)
      BY <2>1, <2>2
    <3> QED
      BY <3>1, <3>2, <3>3
  <2>4. 1 \in 1..Cardinality(I)
    <3>1. Cardinality(I) \in Nat /\ Cardinality(I) # 0
      BY <2>1, <2>3, PositionsFinite
    <3> QED
      BY <3>1
  <2>5. j \in 1..Len(s)
    <3> HIDE DEF I
    <3>1. j \in I
      BY <2>1, <2>3, <2>4, NthSpec
    <3> QED
      BY <2>3, <3>1
  <2>6. Orphans(m, s) = SubSeq(s, k, j - 1)
    BY <1>2 DEF Orphans
  <2> HIDE DEF j, k, I
  <2>7. \A i \in k..(j - 1) : i \in 1..Len(s)
    BY <2>1, <2>2, <2>5
  <2>8. k \in Int /\ j - 1 \in Int
    BY <2>2, <2>5
  <2>9. /\ SubSeq(s, k, j - 1) \in Seq(S)
        /\ Len(SubSeq(s, k, j - 1)) = IF k <= j - 1 THEN (j - 1) - k + 1 ELSE 0
        /\ \A i \in 1..((j - 1) - k + 1) : SubSeq(s, k, j - 1)[i] = s[k + i - 1]
    BY <2>1, <2>7, <2>8, SubSeqProperties
  <2> DEFINE t == SubSeq(s, k, j - 1)
  <2>10. ASSUME NEW x \in Elements(t) PROVE x \in Elements(s)
    <3> HIDE DEF t
    <3>1. DOMAIN t = 1..Len(t)
      BY <2>9, LenProperties DEF t
    <3>2. PICK i \in 1..Len(t) : x = t[i]
      BY <3>1 DEF Elements
    <3>3. Len(t) = IF k <= j - 1 THEN (j - 1) - k + 1 ELSE 0
      BY <2>9 DEF t
    <3>4. i \in 1..((j - 1) - k + 1) /\ k + i - 1 \in k..(j - 1)
      BY <3>3, <2>8
    <3>5. x = s[k + i - 1]
      BY <3>2, <3>4, <2>9 DEF t
    <3> QED
      BY <3>4, <3>5, <2>7, <2>1 DEF Elements
  <2> QED
    BY <2>6, <2>9, <2>10
<1> QED
  BY <1>1, <1>2

\* A concatenation holds the members of both lists.
LEMMA ConcatElements ==
  ASSUME NEW S, NEW a \in Seq(S), NEW b \in Seq(S)
  PROVE  Elements(a \o b) \subseteq Elements(a) \union Elements(b)
<1>1. /\ a \o b \in Seq(S)
      /\ Len(a \o b) = Len(a) + Len(b)
      /\ \A i \in 1..(Len(a) + Len(b)) :
           (a \o b)[i] = IF i <= Len(a) THEN a[i] ELSE b[i - Len(a)]
  BY ConcatProperties
<1>2. /\ DOMAIN (a \o b) = 1..(Len(a) + Len(b))
      /\ DOMAIN a = 1..Len(a) /\ DOMAIN b = 1..Len(b)
      /\ Len(a) \in Nat /\ Len(b) \in Nat
  BY <1>1, LenProperties
<1>3. SUFFICES ASSUME NEW i \in 1..(Len(a) + Len(b))
               PROVE  (a \o b)[i] \in Elements(a) \union Elements(b)
  BY <1>2 DEF Elements
<1>4. CASE i <= Len(a)
  BY <1>1, <1>2, <1>4 DEF Elements
<1>5. CASE ~ (i <= Len(a))
  <2>1. i - Len(a) \in 1..Len(b)
    BY <1>2, <1>5
  <2> QED
    BY <1>1, <1>2, <1>5, <2>1 DEF Elements
<1> QED
  BY <1>4, <1>5

\* The plan of a clear names only ids of the slave's list, and in the regular
\* case it counts only ids of the master's list that the slave has.
LEMMA ClearPlanSpec ==
  ASSUME NEW S, NEW m \in Seq(S), NEW s \in Seq(S)
  PROVE  /\ ClearPlan(m, s).fromMaster \in Nat
         /\ ClearPlan(m, s).fromSlave \in Nat
         /\ ClearPlan(m, s).packets \in Seq(S)
         /\ Elements(ClearPlan(m, s).packets) \subseteq Elements(s)
         /\ m # <<>> /\ ClearPlan(m, s).packets # <<>> =>
              /\ ClearPlan(m, s).fromMaster <= Len(m)
              /\ \A i \in 1..ClearPlan(m, s).fromMaster : m[i] \in Elements(s)
<1>1. Len(m) \in Nat /\ Len(s) \in Nat
  BY LenProperties
<1>2. CASE NothingInCommon(m, s)
  <2>1. /\ ClearPlan(m, s).fromMaster = Len(m)
        /\ ClearPlan(m, s).fromSlave = Len(s)
        /\ ClearPlan(m, s).packets = <<>>
    BY <1>2 DEF ClearPlan
  <2>2. Elements(<<>>) = {}
    BY DEF Elements
  <2> QED
    BY <1>1, <2>1, <2>2, EmptySeq
<1>3. CASE ~ NothingInCommon(m, s)
  <2> DEFINE lead == IF m = <<>> THEN s ELSE m
             c == Common(lead, s)
             o == Orphans(lead, s)
  <2>1. /\ ClearPlan(m, s).fromMaster = Len(c)
        /\ ClearPlan(m, s).fromSlave = Len(c) + Len(o)
        /\ ClearPlan(m, s).packets = c \o o
    BY <1>3 DEF ClearPlan
  <2>2. lead \in Seq(S) /\ (m # <<>> => lead = m)
    OBVIOUS
  <2> HIDE DEF lead
  <2>3. /\ c \in Seq(S) /\ Len(c) <= Len(lead)
        /\ \A i \in 1..Len(c) : c[i] = lead[i] /\ lead[i] \in Elements(s)
    BY <2>2, CommonSpec
  <2>4. o \in Seq(S) /\ Elements(o) \subseteq Elements(s)
    BY <2>2, OrphansSpec
  <2> HIDE DEF c, o
  <2>5. Elements(c) \subseteq Elements(s)
    <3>1. DOMAIN c = 1..Len(c)
      BY <2>3, LenProperties
    <3> QED
      BY <2>3, <3>1 DEF Elements
  <2>6. c \o o \in Seq(S) /\ Len(c) \in Nat /\ Len(o) \in Nat
    BY <2>3, <2>4, ConcatProperties, LenProperties
  <2>7. Elements(c \o o) \subseteq Elements(s)
    BY <2>3, <2>4, <2>5, ConcatElements
  <2> QED
    BY <2>1, <2>2, <2>3, <2>6, <2>7
<1> QED
  BY <1>2, <1>3

\* Nth is the position that has as many positions up to it.
LEMMA NthIs ==
  ASSUME NEW I \in SUBSET Nat, IsFiniteSet(I), NEW i \in I,
         NEW B \in SUBSET I, \A j \in I : j \in B <=> j <= i,
         NEW k \in Nat, Cardinality(B) = k
  PROVE  Nth(I, k) = i
<1> DEFINE Below(x) == { j \in I : j <= x }
<1>1. ASSUME NEW x \in I, NEW y \in I, x < y, Cardinality(Below(x)) = Cardinality(Below(y))
      PROVE  FALSE
  <2>0. x \in Nat /\ y \in Nat /\ \A j \in I : j \in Nat /\ (j <= x => j <= y)
    BY <1>1
  <2>1. Below(y) \in SUBSET I /\ Below(x) \in SUBSET Below(y)
    BY <2>0
  <2>2. y \in Below(y) /\ y \notin Below(x)
    BY <1>1, <2>0
  <2> HIDE DEF Below
  <2>3. IsFiniteSet(Below(y))
    BY <2>1, FS_Subset
  <2>4. Below(y) = Below(x)
    BY <1>1, <2>1, <2>3, FS_Subset
  <2> QED
    BY <2>2, <2>4
<1>4. Cardinality(Below(i)) = k
  <2>1. B = Below(i)
    OBVIOUS
  <2> QED
    BY <2>1
<1>2. ASSUME NEW x \in I, Cardinality(Below(x)) = k PROVE x = i
  <2>1. x \in Nat /\ i \in Nat
    OBVIOUS
  <2>2. Cardinality(Below(x)) = Cardinality(Below(i))
    BY <1>2, <1>4
  <2> HIDE DEF Below
  <2> QED
    BY <1>1, <2>1, <2>2
<1>3. Nth(I, k) = CHOOSE x \in I : Cardinality(Below(x)) = k
  BY DEF Nth
<1> HIDE DEF Below
<1> QED
  BY <1>2, <1>3, <1>4

\* The positions kept, when they are known in their order.
LEMMA KeepIs ==
  ASSUME NEW s, NEW I \in SUBSET Nat, NEW l \in Nat,
         NEW f \in [1..l -> I],
         \A j, k \in 1..l : j < k => f[j] < f[k],
         \A i \in I : \E k \in 1..l : f[k] = i
  PROVE  /\ DOMAIN Keep(s, I) = 1..l
         /\ \A k \in 1..l : Keep(s, I)[k] = s[f[k]]
<1> DEFINE Below(i) == { j \in I : j <= i }
<1>0. /\ \A k \in 1..l : f[k] \in I
      /\ \A i \in I : i \in Nat
  OBVIOUS
<1>1. \A j, k \in 1..l : f[j] = f[k] => j = k
  <2>1. SUFFICES ASSUME NEW j \in 1..l, NEW k \in 1..l, f[j] = f[k], j # k PROVE FALSE
    OBVIOUS
  <2>2. j < k \/ k < j
    BY <2>1
  <2>3. f[j] < f[k] \/ f[k] < f[j]
    BY <2>2
  <2>4. f[j] \in Nat
    BY <1>0
  <2> QED
    BY <2>1, <2>3, <2>4
<1>2. ASSUME NEW k \in 1..l PROVE Cardinality(Below(f[k])) = k
  <2> DEFINE g == [ j \in 1..k |-> f[j] ]
             B == Below(f[k])
  <2>1. 1..k \subseteq 1..l /\ k \in Nat
    OBVIOUS
  <2>2. ASSUME NEW j \in 1..k PROVE f[j] \in B
    <3>1. j = k \/ j < k
      OBVIOUS
    <3>2. j \in 1..l
      BY <2>1
    <3>3. f[j] = f[k] \/ f[j] < f[k]
      BY <3>1, <3>2
    <3>4. f[j] \in I /\ f[j] \in Nat /\ f[k] \in Nat
      BY <1>0, <3>2
    <3>5. f[j] <= f[k]
      BY <3>3, <3>4
    <3> QED
      BY <3>4, <3>5
  <2>3. ASSUME NEW i \in B PROVE \E j \in 1..k : f[j] = i
    <3>1. PICK j \in 1..l : f[j] = i
      OBVIOUS
    <3>2. ~ (k < j)
      <4>1. SUFFICES ASSUME k < j PROVE FALSE
        OBVIOUS
      <4>2. f[k] < f[j]
        BY <4>1
      <4>3. f[j] <= f[k] /\ f[j] \in Nat /\ f[k] \in Nat
        BY <1>0, <3>1
      <4> QED
        BY <4>2, <4>3
    <3>3. j \in 1..k
      BY <3>1, <3>2
    <3> QED
      BY <3>1, <3>3
  <2> HIDE DEF B
  <2>4. g \in [1..k -> B]
    BY <2>2
  <2>5. g \in Bijection(1..k, B)
    <3>1. \A j \in 1..k : g[j] = f[j]
      OBVIOUS
    <3> HIDE DEF g
    <3>2. \A a, b \in 1..k : g[a] = g[b] => a = b
      BY <1>1, <2>1, <3>1
    <3>3. \A i \in B : \E j \in 1..k : g[j] = i
      BY <2>3, <3>1
    <3> QED
      BY <2>4, <3>2, <3>3 DEF Bijection, Injection, IsInjective, Surjection
  <2>6. ExistsBijection(1..k, B)
    BY <2>5 DEF ExistsBijection
  <2> QED
    BY <2>1, <2>6, FS_CountingElements DEF B
<1>3. Cardinality(I) = l /\ IsFiniteSet(I)
  <2>1. f \in Bijection(1..l, I)
    BY <1>1 DEF Bijection, Injection, IsInjective, Surjection
  <2>2. ExistsBijection(1..l, I)
    BY <2>1 DEF ExistsBijection
  <2>3. IsFiniteSet(1..l)
    BY FS_Interval
  <2> QED
    BY <2>2, <2>3, FS_CountingElements, FS_Bijection
<1>4. ASSUME NEW k \in 1..l PROVE Nth(I, k) = f[k]
  <2>1. PICK i \in I : i = f[k]
    BY <1>0
  <2>2. /\ Below(i) \in SUBSET I /\ \A j \in I : j \in Below(i) <=> j <= i
        /\ Cardinality(Below(i)) = k /\ k \in Nat
    BY <1>2, <2>1
  <2> HIDE DEF Below
  <2>3. Nth(I, k) = i
    BY <1>3, <2>2, NthIs
  <2> QED
    BY <2>1, <2>3
<1> QED
  BY <1>3, <1>4 DEF Keep

\* What DropFirst leaves, element by element.
LEMMA DropFirstIs ==
  ASSUME NEW S, NEW s \in Seq(S), NEW a \in Nat, NEW n \in Nat,
         IF n <= Len(s) THEN a = n ELSE a = Len(s)
  PROVE  /\ DropFirst(s, n) \in Seq(S)
         /\ Len(DropFirst(s, n)) = Len(s) - a
         /\ \A i \in 1..(Len(s) - a) : DropFirst(s, n)[i] = s[a + i]
<1> DEFINE t == SubSeq(s, 1 + a, Len(s))
<1>1. Len(s) \in Nat /\ \A i \in 1..Len(s) : s[i] \in S
  BY LenProperties, ElementOfSeq
<1>2. a <= Len(s)
  BY <1>1
<1>3. DropFirst(s, n) = t
  BY DEF DropFirst
<1>b. 1 + a \in Int /\ Len(s) \in Int /\ \A i \in (1 + a)..Len(s) : s[i] \in S
  BY <1>1
<1>c. t \in Seq(S)
  BY <1>b, SubSeqProperties
<1>d. /\ 1 + a <= Len(s) => Len(t) = Len(s) - (1 + a) + 1
      /\ ~ (1 + a <= Len(s)) => Len(t) = 0
  BY <1>b, SubSeqProperties
<1>e. \A i \in 1..(Len(s) - (1 + a) + 1) : t[i] = s[(1 + a) + i - 1]
  BY <1>b, SubSeqProperties
<1> HIDE DEF t
<1>5. Len(t) = Len(s) - a
  <2>1. CASE 1 + a <= Len(s)
    BY <1>1, <1>d, <2>1
  <2>2. CASE ~ (1 + a <= Len(s))
    BY <1>1, <1>2, <1>d, <2>2
  <2> QED
    BY <2>1, <2>2
<1>6. Len(s) - (1 + a) + 1 = Len(s) - a /\ \A i \in 1..(Len(s) - a) : (1 + a) + i - 1 = a + i
  BY <1>1, <1>2
<1> QED
  BY <1>3, <1>c, <1>e, <1>5, <1>6

\* When one list is a prefix of the other, the common prefix is the shorter one.
LEMMA PrefixLenAligned ==
  ASSUME NEW S, NEW m \in Seq(S), NEW s \in Seq(S),
         \A i \in 1..Len(m) : i <= Len(s) => m[i] = s[i]
  PROVE  PrefixLen(m, s) = IF Len(m) <= Len(s) THEN Len(m) ELSE Len(s)
<1> DEFINE IsPrefixLen(n) ==
             /\ n <= Len(s)
             /\ \A i \in 1..n : m[i] = s[i]
             /\ (n < Len(m) /\ n < Len(s)) => m[n + 1] # s[n + 1]
           p == IF Len(m) <= Len(s) THEN Len(m) ELSE Len(s)
<1>1. Len(m) \in Nat /\ Len(s) \in Nat
  BY LenProperties
<1>2. p \in 0..Len(m) /\ IsPrefixLen(p)
  BY <1>1
<1>3. ASSUME NEW n \in 0..Len(m), IsPrefixLen(n) PROVE n = p
  <2>1. CASE n < Len(m) /\ n < Len(s)
    <3>1. n + 1 \in 1..Len(m) /\ n + 1 <= Len(s)
      BY <1>1, <2>1
    <3>2. m[n + 1] = s[n + 1]
      BY <3>1
    <3> QED
      BY <1>3, <2>1, <3>2
  <2>2. CASE ~ (n < Len(m) /\ n < Len(s))
    BY <1>1, <1>3, <2>2
  <2> QED
    BY <2>1, <2>2
<1>4. PrefixLen(m, s) = CHOOSE n \in 0..Len(m) : IsPrefixLen(n)
  BY DEF PrefixLen
<1> HIDE DEF IsPrefixLen, p
<1>5. PrefixLen(m, s) = p
  BY <1>2, <1>3, <1>4
<1> QED
  BY <1>5 DEF p

\* A clear of two such lists counts as many ids from the front of both.
LEMMA ClearPlanAligned ==
  ASSUME NEW S, NEW m \in Seq(S), NEW s \in Seq(S),
         \A i \in 1..Len(m) : i <= Len(s) => m[i] = s[i]
  PROVE  /\ ClearPlan(m, s).fromMaster = ClearPlan(m, s).fromSlave
         /\ ClearPlan(m, s).fromSlave <= Len(s)
<1> DEFINE lead == IF m = <<>> THEN s ELSE m
           c == Common(lead, s)
           o == Orphans(lead, s)
           p == PrefixLen(lead, s)
<1>1. Len(m) \in Nat /\ Len(s) \in Nat
  BY LenProperties
<1>2. lead \in Seq(S) /\ \A i \in 1..Len(lead) : i <= Len(s) => lead[i] = s[i]
  OBVIOUS
<1>3. m # <<>> => lead = m
  OBVIOUS
<1> HIDE DEF lead
<1>4. Len(lead) \in Nat
  BY <1>2, LenProperties
<1>5. p = IF Len(lead) <= Len(s) THEN Len(lead) ELSE Len(s)
  BY <1>2, PrefixLenAligned
<1>6. ~ HasOrphans(lead, s)
  BY <1>1, <1>4, <1>5 DEF HasOrphans
<1>7. o = <<>> /\ Len(o) = 0
  BY <1>6 DEF Orphans
<1>8. c = SubSeq(lead, 1, p)
  <2>1. c = SubSeq(lead, 1, p + 0)
    BY <1>6 DEF Common
  <2>2. p + 0 = p
    BY <1>1, <1>4, <1>5
  <2> QED
    BY <2>1, <2>2
<1>9. Len(c) = p
  <2>1. p \in Nat /\ p <= Len(lead)
    BY <1>1, <1>4, <1>5
  <2> HIDE DEF p
  <2>2. \A i \in 1..p : lead[i] \in S
    BY <1>2, <1>4, <2>1, ElementOfSeq
  <2>3. Len(SubSeq(lead, 1, p)) = IF 1 <= p THEN p - 1 + 1 ELSE 0
    BY <2>1, <2>2, SubSeqProperties
  <2> QED
    BY <1>8, <2>1, <2>3
<1> HIDE DEF c, o, p
<1>10. ~ NothingInCommon(m, s)
  <2>1. SUFFICES ASSUME NothingInCommon(m, s) PROVE FALSE
    OBVIOUS
  <2>2. m # <<>> /\ Common(m, s) = <<>> /\ Len(m) < 2 * Len(s)
    BY <2>1 DEF NothingInCommon
  <2>3. lead = m /\ Len(c) = 0
    BY <1>3, <2>2 DEF c
  <2>4. Len(m) # 0
    BY <2>2, EmptySeq
  <2> QED
    BY <1>1, <1>5, <1>9, <2>2, <2>3, <2>4
<1>11. /\ ClearPlan(m, s).fromMaster = Len(c)
       /\ ClearPlan(m, s).fromSlave = Len(c) + Len(o)
  BY <1>10 DEF ClearPlan, c, o, lead
<1> QED
  BY <1>1, <1>4, <1>5, <1>7, <1>9, <1>11

-----------------------------------------------------------------------------
(* Lists put together element by element. *)

\* Kept positions in their order, put together from a part whose positions are all
\* smaller and a run of positions behind it.
LEMMA KeepRun ==
  ASSUME NEW S, NEW q \in Seq(S), NEW n \in 1..(Len(q) + 1), NEW e \in (n - 1)..Len(q),
         NEW I \in SUBSET (1..(n - 1))
  PROVE  Keep(q, I \union (n..e)) = Keep(q, I) \o SubSeq(q, n, e)
<1> DEFINE c == Cardinality(I)
           T == I \union (n..e)
<1>1. Len(q) \in Nat /\ n \in Nat /\ n - 1 \in Nat /\ e \in Nat /\ 1 <= n /\ n <= Len(q) + 1 /\ n - 1 <= e /\ e <= Len(q)
  BY LenProperties
<1>2. IsFiniteSet(I) /\ c \in Nat
  BY <1>1, PositionsFinite
<1>3. T \in SUBSET Nat /\ IsFiniteSet(T) /\ T \in SUBSET (1..Len(q))
  <2>1. T \in SUBSET (1..Len(q))
    BY <1>1
  <2>2. IsFiniteSet(T)
    BY <1>1, <2>1, PositionsFinite
  <2> QED
    BY <2>1, <2>2
<1>4. ASSUME NEW d \in (n - 1)..e
      PROVE  /\ IsFiniteSet(I \union (n..d))
             /\ Cardinality(I \union (n..d)) = c + (d - n + 1)
  <2>1. n..d \in SUBSET (1..Len(q))
    BY <1>1
  <2>2. IsFiniteSet(n..d) /\ Cardinality(n..d) = d - n + 1
    <3>1. n \in Int /\ d \in Int
      BY <1>1
    <3>2. IsFiniteSet(n..d) /\ Cardinality(n..d) = IF n > d THEN 0 ELSE d - n + 1
      BY <3>1, FS_Interval
    <3>3. n > d => d - n + 1 = 0
      BY <1>1
    <3> QED
      BY <3>2, <3>3
  <2>3. I \intersect (n..d) = {}
    BY <1>1
  <2>4. Cardinality(I \union (n..d)) = Cardinality(I) + Cardinality(n..d) - Cardinality(I \intersect (n..d))
    BY <1>2, <2>2, FS_Union
  <2>5. IsFiniteSet(I \union (n..d))
    BY <1>2, <2>2, FS_Union
  <2>6. Cardinality(I \intersect (n..d)) = 0
    BY <2>3, FS_EmptySet
  <2> QED
    BY <1>1, <1>2, <2>2, <2>4, <2>5, <2>6
<1>5. Cardinality(T) = c + (e - n + 1) /\ c + (e - n + 1) \in Nat
  <2> HIDE DEF c
  <2>1. e \in (n - 1)..e
    BY <1>1
  <2>2. Cardinality(I \union (n..e)) = c + (e - n + 1)
    BY <1>4, <2>1
  <2>3. c + (e - n + 1) \in Nat
    BY <1>1, <1>2
  <2> QED
    BY <2>2, <2>3
<1>6. ASSUME NEW k \in 1..c PROVE Nth(T, k) = Nth(I, k)
  <2> DEFINE x == Nth(I, k)
             B == { y \in I : y <= x }
  <2>1. x \in I /\ Cardinality(B) = k
    BY <1>1, NthCounts
  <2>2. x \in T /\ B \in SUBSET T /\ k \in Nat
    BY <1>2, <2>1
  <2>3. \A y \in T : y \in B <=> y <= x
    <3>1. x \in 1..(n - 1)
      BY <2>1
    <3> HIDE DEF x
    <3>2. \A y \in n..e : ~ (y <= x) /\ y \notin I
      BY <1>1, <3>1
    <3> QED
      BY <3>2
  <2> HIDE DEF x, B, T
  <2>4. Nth(T, k) = x
    BY <1>3, <2>1, <2>2, <2>3, NthIs
  <2> QED
    BY <2>4 DEF x
<1>7. ASSUME NEW k \in (c + 1)..(c + (e - n + 1)) PROVE Nth(T, k) = n + (k - c) - 1
  <2>1. PICK x \in n..e : x = n + (k - c) - 1
    <3>1. n + (k - c) - 1 \in n..e
      BY <1>1, <1>2
    <3> QED
      BY <3>1
  <2>2. PICK B : B = I \union (n..x)
    OBVIOUS
  <2>3. x \in T /\ B \in SUBSET T /\ k \in Nat
    BY <1>1, <1>2, <2>2
  <2>4. \A y \in T : y \in B <=> y <= x
    BY <1>1, <2>2
  <2>5. Cardinality(B) = c + (x - n + 1)
    <3> HIDE DEF c
    <3>1. x \in (n - 1)..e
      BY <1>1
    <3>2. Cardinality(I \union (n..x)) = c + (x - n + 1)
      BY <1>4, <3>1
    <3> QED
      BY <2>2, <3>2
  <2>6. c + (x - n + 1) = k
    BY SMTT(30), <1>1, <1>2, <2>1
  <2> HIDE DEF T
  <2>7. Nth(T, k) = x
    BY <1>3, <2>3, <2>4, <2>5, <2>6, NthIs
  <2> QED
    BY <2>1, <2>7
<1>8. /\ Keep(q, I) \in Seq(S) /\ Len(Keep(q, I)) = c
      /\ \A k \in 1..c : Keep(q, I)[k] = q[Nth(I, k)]
  <2>1. I \in SUBSET (DOMAIN q)
    BY <1>1, LenProperties
  <2>2. Keep(q, I) \in Seq(S)
    BY <2>1, KeepSpec
  <2>3. Keep(q, I) = [ k \in 1..c |-> q[Nth(I, k)] ]
    BY DEF Keep
  <2> HIDE DEF c
  <2> QED
    BY <1>2, <2>2, <2>3, LenProperties
<1>9. /\ Keep(q, T) \in Seq(S) /\ Len(Keep(q, T)) = c + (e - n + 1)
      /\ \A k \in 1..(c + (e - n + 1)) : Keep(q, T)[k] = q[Nth(T, k)]
  <2>1. T \in SUBSET (DOMAIN q)
    BY <1>1, <1>3, LenProperties
  <2> HIDE DEF T, c
  <2>2. Keep(q, T) \in Seq(S)
    BY <2>1, KeepSpec
  <2>3. Keep(q, T) = [ k \in 1..(c + (e - n + 1)) |-> q[Nth(T, k)] ]
    BY <1>5 DEF Keep
  <2> QED
    BY <1>5, <2>2, <2>3, LenProperties
<1>10. /\ SubSeq(q, n, e) \in Seq(S) /\ Len(SubSeq(q, n, e)) = e - n + 1
       /\ \A k \in 1..(e - n + 1) : SubSeq(q, n, e)[k] = q[n + k - 1]
  <2>1. \A k \in n..e : q[k] \in S
    BY <1>1, ElementOfSeq
  <2>2. /\ SubSeq(q, n, e) \in Seq(S)
        /\ Len(SubSeq(q, n, e)) = IF n <= e THEN e - n + 1 ELSE 0
        /\ \A k \in 1..(e - n + 1) : SubSeq(q, n, e)[k] = q[n + k - 1]
    BY <1>1, <2>1, SubSeqProperties
  <2> QED
    BY <1>1, <2>2
<1> HIDE DEF T, c
<1> DEFINE u == Keep(q, I)
           v == SubSeq(q, n, e)
           w == Keep(q, T)
<1>11. /\ u \o v \in Seq(S) /\ Len(u \o v) = Len(u) + Len(v)
       /\ \A k \in 1..(Len(u) + Len(v)) : (u \o v)[k] = IF k <= Len(u) THEN u[k] ELSE v[k - Len(u)]
  BY <1>8, <1>10, ConcatProperties
<1>12. Len(w) = Len(u \o v)
  BY <1>8, <1>9, <1>10, <1>11
<1>13. ASSUME NEW k \in 1..Len(w) PROVE w[k] = (u \o v)[k]
  <2>1. k \in 1..(c + (e - n + 1)) /\ Len(u) + Len(v) = c + (e - n + 1)
    BY <1>8, <1>9, <1>10
  <2>2. CASE k <= c
    <3>1. k \in 1..c
      BY <1>2, <2>1, <2>2
    <3>2. (u \o v)[k] = u[k]
      BY <1>8, <1>11, <2>1, <2>2
    <3> QED
      BY <1>6, <1>8, <1>9, <2>1, <3>1, <3>2
  <2>3. CASE ~ (k <= c)
    <3>1. k \in (c + 1)..(c + (e - n + 1)) /\ k - c \in 1..(e - n + 1)
      BY <1>1, <1>2, <2>1, <2>3
    <3>2. (u \o v)[k] = v[k - c]
      BY <1>8, <1>11, <2>1, <2>3
    <3>3. v[k - c] = q[n + (k - c) - 1]
      BY <1>10, <3>1
    <3>4. w[k] = q[n + (k - c) - 1]
      BY <1>7, <1>9, <2>1, <3>1
    <3> QED
      BY <3>2, <3>3, <3>4
  <2> QED
    BY <2>2, <2>3
<1>14. w \in Seq(S) /\ u \o v \in Seq(S)
  BY <1>9, <1>11
<1> HIDE DEF u, v, w
<1>15. w = u \o v
  BY <1>12, <1>13, <1>14, SeqEqual
<1> QED
  BY <1>15 DEF u, v, w, T

\* A list is what it holds at each position.
LEMMA OneMore ==
  ASSUME NEW S, NEW u \in Seq(S), NEW q \in Seq(S), NEW n \in 1..Len(q)
  PROVE  u \o SubSeq(q, n, n) = Append(u, q[n])
<1>1. n \in Int /\ n \in Nat /\ q[n] \in S /\ \A k \in n..n : q[k] \in S
  BY LenProperties, ElementOfSeq
<1> DEFINE v == SubSeq(q, n, n)
           w == Append(u, q[n])
<1>2. v \in Seq(S) /\ Len(v) = 1 /\ v[1] = q[n]
  <2>1. /\ v \in Seq(S) /\ Len(v) = IF n <= n THEN n - n + 1 ELSE 0
        /\ \A k \in 1..(n - n + 1) : v[k] = q[n + k - 1]
    BY <1>1, SubSeqProperties
  <2> HIDE DEF v, w
  <2>2. n - n + 1 = 1 /\ n + 1 - 1 = n /\ n <= n
    BY <1>1
  <2>3. Len(v) = 1
    BY <2>1, <2>2
  <2>4. v[1] = q[n]
    BY <2>1, <2>2
  <2> QED
    BY <2>1, <2>3, <2>4
<1> HIDE DEF v
<1>3. /\ u \o v \in Seq(S) /\ Len(u \o v) = Len(u) + Len(v)
      /\ \A k \in 1..(Len(u) + Len(v)) : (u \o v)[k] = IF k <= Len(u) THEN u[k] ELSE v[k - Len(u)]
  BY <1>2, ConcatProperties
<1>4. /\ w \in Seq(S) /\ Len(w) = Len(u) + 1
      /\ \A k \in 1..Len(u) : w[k] = u[k]
      /\ w[Len(u) + 1] = q[n]
  BY <1>1, AppendProperties
<1> HIDE DEF w
<1>5. Len(u) \in Nat
  BY LenProperties
<1>6. ASSUME NEW k \in 1..Len(w) PROVE w[k] = (u \o v)[k]
  <2>1. k \in 1..(Len(u) + Len(v)) /\ (k <= Len(u) \/ k = Len(u) + 1)
    BY <1>2, <1>4, <1>5
  <2>2. CASE k <= Len(u)
    BY <1>3, <1>4, <1>5, <2>1, <2>2
  <2>3. CASE k = Len(u) + 1
    <3>1. k - Len(u) = 1 /\ ~ (k <= Len(u))
      BY <1>5, <2>3
    <3> QED
      BY <1>2, <1>3, <1>4, <2>1, <2>3, <3>1
  <2> QED
    BY <2>1, <2>2, <2>3
<1>7. w = u \o v
  BY <1>2, <1>3, <1>4, <1>6, SeqEqual
<1> QED
  BY <1>7 DEF v, w

\* What is left of a list from a position on.
LEMMA RestIs ==
  ASSUME NEW S, NEW q \in Seq(S), NEW n \in 1..(Len(q) + 1)
  PROVE  /\ SubSeq(q, n, Len(q)) \in Seq(S)
         /\ Len(SubSeq(q, n, Len(q))) = Len(q) - n + 1
         /\ \A k \in 1..(Len(q) - n + 1) : SubSeq(q, n, Len(q))[k] = q[n + k - 1]
<1>1. n \in Int /\ Len(q) \in Nat /\ \A k \in n..Len(q) : q[k] \in S
  BY LenProperties, ElementOfSeq
<1>2. /\ SubSeq(q, n, Len(q)) \in Seq(S)
      /\ Len(SubSeq(q, n, Len(q))) = IF n <= Len(q) THEN Len(q) - n + 1 ELSE 0
      /\ \A k \in 1..(Len(q) - n + 1) : SubSeq(q, n, Len(q))[k] = q[n + k - 1]
  BY <1>1, SubSeqProperties
<1> QED
  BY <1>1, <1>2

\* The front of a list, up to a position.
LEMMA FrontIs ==
  ASSUME NEW S, NEW q \in Seq(S), NEW n \in 0..Len(q)
  PROVE  /\ SubSeq(q, 1, n) \in Seq(S)
         /\ Len(SubSeq(q, 1, n)) = n
         /\ \A k \in 1..n : SubSeq(q, 1, n)[k] = q[k]
<1>1. n \in Nat /\ n \in Int /\ 1 \in Int /\ Len(q) \in Nat /\ \A k \in 1..n : q[k] \in S
  BY LenProperties, ElementOfSeq
<1>2. /\ SubSeq(q, 1, n) \in Seq(S)
      /\ Len(SubSeq(q, 1, n)) = IF 1 <= n THEN n - 1 + 1 ELSE 0
      /\ \A k \in 1..(n - 1 + 1) : SubSeq(q, 1, n)[k] = q[1 + k - 1]
  BY <1>1, SubSeqProperties
<1> DEFINE v == SubSeq(q, 1, n)
<1> HIDE DEF v
<1>3. Len(v) = n
  BY <1>1, <1>2 DEF v
<1>4. ASSUME NEW k \in 1..n PROVE v[k] = q[k]
  <2>1. k \in 1..(n - 1 + 1) /\ 1 + k - 1 = k
    BY <1>1
  <2> QED
    BY <1>2, <2>1 DEF v
<1> QED
  BY <1>2, <1>3, <1>4 DEF v

LEMMA FrontGrows ==
  ASSUME NEW S, NEW q \in Seq(S), NEW n \in 1..Len(q)
  PROVE  Append(SubSeq(q, 1, n - 1), q[n]) = SubSeq(q, 1, n)
<1> DEFINE u == SubSeq(q, 1, n - 1)
           v == SubSeq(q, 1, n)
           w == Append(u, q[n])
<1>1. /\ Len(q) \in Nat /\ n \in Nat /\ n - 1 \in 0..Len(q) /\ n \in 0..Len(q) /\ q[n] \in S
      /\ 1..n = (1..(n - 1)) \union {n}
  BY LenProperties, ElementOfSeq
<1>2. u \in Seq(S) /\ Len(u) = n - 1 /\ \A k \in 1..(n - 1) : u[k] = q[k]
  BY <1>1, FrontIs
<1>3. v \in Seq(S) /\ Len(v) = n /\ \A k \in 1..n : v[k] = q[k]
  BY <1>1, FrontIs
<1> HIDE DEF u, v
<1>4. /\ w \in Seq(S) /\ Len(w) = Len(u) + 1
      /\ \A k \in 1..Len(u) : w[k] = u[k]
      /\ w[Len(u) + 1] = q[n]
  BY <1>1, <1>2, AppendProperties
<1> HIDE DEF w
<1>5. Len(w) = n /\ w[n] = q[n] /\ \A k \in 1..(n - 1) : w[k] = q[k]
  BY <1>1, <1>2, <1>4
<1>6. \A k \in 1..Len(w) : w[k] = v[k]
  BY <1>1, <1>3, <1>5
<1>7. w = v
  BY <1>3, <1>4, <1>5, <1>6, SeqEqual
<1> QED
  BY <1>7 DEF u, v, w

\* Passing an element: it goes from the front of the rest to the end of the part
\* before.
LEMMA PassElement ==
  ASSUME NEW S, NEW u \in Seq(S), NEW q \in Seq(S), NEW n \in 1..Len(q)
  PROVE  Append(u, q[n]) \o SubSeq(q, n + 1, Len(q)) = u \o SubSeq(q, n, Len(q))
<1> DEFINE a == Append(u, q[n])
           b == SubSeq(q, n, Len(q))
           c == SubSeq(q, n + 1, Len(q))
<1>1. Len(u) \in Nat /\ Len(q) \in Nat /\ n \in Nat /\ 1 <= n /\ n <= Len(q) /\ q[n] \in S
  BY LenProperties, ElementOfSeq
<1>2. /\ a \in Seq(S) /\ Len(a) = Len(u) + 1
      /\ \A k \in 1..Len(u) : a[k] = u[k]
      /\ a[Len(u) + 1] = q[n]
  BY <1>1, AppendProperties
<1>3. /\ b \in Seq(S) /\ Len(b) = Len(q) - n + 1
      /\ \A k \in 1..(Len(q) - n + 1) : b[k] = q[n + k - 1]
  <2>1. n \in 1..(Len(q) + 1)
    BY <1>1
  <2> QED
    BY <2>1, RestIs
<1>4. /\ c \in Seq(S) /\ Len(c) = Len(q) - (n + 1) + 1
      /\ \A k \in 1..(Len(q) - (n + 1) + 1) : c[k] = q[(n + 1) + k - 1]
  <2>1. n + 1 \in 1..(Len(q) + 1)
    BY <1>1
  <2> QED
    BY <2>1, RestIs
<1> HIDE DEF a, b, c
<1>5. /\ a \o c \in Seq(S) /\ Len(a \o c) = Len(a) + Len(c)
      /\ \A k \in 1..(Len(a) + Len(c)) : (a \o c)[k] = IF k <= Len(a) THEN a[k] ELSE c[k - Len(a)]
  BY <1>2, <1>4, ConcatProperties
<1>6. /\ u \o b \in Seq(S) /\ Len(u \o b) = Len(u) + Len(b)
      /\ \A k \in 1..(Len(u) + Len(b)) : (u \o b)[k] = IF k <= Len(u) THEN u[k] ELSE b[k - Len(u)]
  BY <1>3, ConcatProperties
<1>7. Len(a \o c) = Len(u \o b)
  BY <1>1, <1>2, <1>3, <1>4, <1>5, <1>6
<1>8. ASSUME NEW k \in 1..Len(a \o c) PROVE (a \o c)[k] = (u \o b)[k]
  <2>1. k \in 1..(Len(a) + Len(c)) /\ k \in 1..(Len(u) + Len(b)) /\ k \in Nat
    BY <1>5, <1>6, <1>7
  <2>2. CASE k <= Len(u)
    <3>1. k <= Len(a) /\ k \in 1..Len(u)
      BY <1>1, <1>2, <2>1, <2>2
    <3> QED
      BY <1>2, <1>5, <1>6, <2>1, <2>2, <3>1
  <2>3. CASE k = Len(u) + 1
    <3>1. k <= Len(a) /\ ~ (k <= Len(u)) /\ k - Len(u) = 1 /\ 1 \in 1..(Len(q) - n + 1)
      BY <1>1, <1>2, <2>3
    <3>2. n + 1 - 1 = n
      BY <1>1
    <3>3. b[1] = q[n]
      BY <1>3, <3>1, <3>2
    <3> QED
      BY <1>2, <1>5, <1>6, <2>1, <2>3, <3>1, <3>3
  <2>4. CASE k > Len(u) + 1
    <3>1. ~ (k <= Len(a)) /\ ~ (k <= Len(u)) /\ k - Len(a) \in 1..(Len(q) - (n + 1) + 1)
      BY <1>1, <1>2, <1>4, <2>1, <2>4
    <3>2. k - Len(u) \in 1..(Len(q) - n + 1)
      BY <1>1, <1>3, <2>1, <2>4
    <3>3. (n + 1) + (k - Len(a)) - 1 = n + (k - Len(u)) - 1
      BY <1>1, <1>2, <2>1
    <3>4. c[k - Len(a)] = b[k - Len(u)]
      BY <1>3, <1>4, <3>1, <3>2, <3>3
    <3> QED
      BY <1>5, <1>6, <2>1, <3>1, <3>4
  <2> QED
    BY <1>1, <2>1, <2>2, <2>3, <2>4
<1>9. a \o c = u \o b
  BY <1>5, <1>6, <1>7, <1>8, SeqEqual
<1> QED
  BY <1>9 DEF a, b, c

LEMMA KeepMore ==
  ASSUME NEW S, NEW q \in Seq(S), NEW n \in 1..Len(q), NEW I \in SUBSET (1..(n - 1))
  PROVE  Keep(q, I \union {n}) = Append(Keep(q, I), q[n])
<1>1. n \in 1..(Len(q) + 1) /\ n \in (n - 1)..Len(q) /\ n..n = {n} /\ n - 1 \in Nat /\ n - 1 <= Len(q)
  BY LenProperties
<1>2. Keep(q, I \union (n..n)) = Keep(q, I) \o SubSeq(q, n, n)
  BY <1>1, KeepRun
<1>3. I \in SUBSET (DOMAIN q)
  BY <1>1, LenProperties
<1>4. Keep(q, I) \in Seq(S)
  BY <1>3, KeepSpec
<1>5. Keep(q, I) \o SubSeq(q, n, n) = Append(Keep(q, I), q[n])
  BY <1>4, OneMore
<1> QED
  BY <1>1, <1>2, <1>5

LEMMA KeepNothing ==
  ASSUME NEW q
  PROVE  Keep(q, {}) = <<>>
<1>1. Cardinality({}) = 0
  BY FS_EmptySet
<1>2. Keep(q, {}) = [ k \in 1..0 |-> q[Nth({}, k)] ]
  BY <1>1 DEF Keep
<1>3. 1..0 = {}
  OBVIOUS
<1> QED
  BY <1>2, <1>3

\* No two of the first versions have the same base.
LEMMA FirstVersionsDistinct ==
  ASSUME NEW S, NEW q \in Seq(S)
  PROVE  \A a, b \in DOMAIN FirstVersions(q) :
           BaseOf(FirstVersions(q)[a]) = BaseOf(FirstVersions(q)[b]) => a = b
<1> DEFINE I == { k \in DOMAIN q : \A l \in 1..(k - 1) : BaseOf(q[l]) # BaseOf(q[k]) }
           c == Cardinality(I)
           f == FirstVersions(q)
<1>1. DOMAIN q = 1..Len(q) /\ Len(q) \in Nat
  BY LenProperties
<1>2. I \in SUBSET (1..Len(q))
  BY <1>1
<1>3. \A k, l \in I : l < k => BaseOf(q[l]) # BaseOf(q[k])
  <2>1. TAKE k \in I, l \in I
  <2>2. l < k => l \in 1..(k - 1)
    BY <1>1
  <2> QED
    BY <2>2
<1>4. f = Keep(q, I)
  BY DEF FirstVersions
<1> HIDE DEF I, f
<1>5. f = [ k \in 1..c |-> q[Nth(I, k)] ]
  BY <1>4 DEF Keep
<1>6. SUFFICES ASSUME NEW a \in 1..c, NEW b \in 1..c, BaseOf(f[a]) = BaseOf(f[b])
               PROVE  a = b
  BY <1>5 DEF f
<1>7. /\ Nth(I, a) \in I /\ Cardinality({ y \in I : y <= Nth(I, a) }) = a
      /\ Nth(I, b) \in I /\ Cardinality({ y \in I : y <= Nth(I, b) }) = b
  BY <1>1, <1>2, NthCounts
<1>8. f[a] = q[Nth(I, a)] /\ f[b] = q[Nth(I, b)]
  BY <1>5
<1> HIDE DEF c
<1>9. ~ (Nth(I, a) < Nth(I, b)) /\ ~ (Nth(I, b) < Nth(I, a))
  BY <1>3, <1>6, <1>7, <1>8
<1>10. Nth(I, a) \in Nat /\ Nth(I, b) \in Nat
  <2>1. Nth(I, a) \in 1..Len(q) /\ Nth(I, b) \in 1..Len(q)
    BY <1>2, <1>7
  <2> QED
    BY <1>1, <2>1
<1>11. Nth(I, a) = Nth(I, b)
  BY <1>9, <1>10
<1> QED
  BY <1>7, <1>11

\* PrefixLen is the length of a common prefix after which the lists differ or end.
LEMMA PrefixLenIs ==
  ASSUME NEW S, NEW u \in Seq(S), NEW v \in Seq(S), NEW n \in Nat,
         n <= Len(u), n <= Len(v), \A k \in 1..n : u[k] = v[k],
         n < Len(u) /\ n < Len(v) => u[n + 1] # v[n + 1]
  PROVE  PrefixLen(u, v) = n
<1> DEFINE IsPrefixLen(x) ==
             /\ x <= Len(v)
             /\ \A k \in 1..x : u[k] = v[k]
             /\ (x < Len(u) /\ x < Len(v)) => u[x + 1] # v[x + 1]
<1>1. Len(u) \in Nat /\ Len(v) \in Nat
  BY LenProperties
<1>2. n \in 0..Len(u) /\ IsPrefixLen(n)
  BY <1>1
<1>3. ASSUME NEW x \in 0..Len(u), IsPrefixLen(x) PROVE x = n
  <2>1. CASE x < n
    <3>1. x + 1 \in 1..n /\ x < Len(u) /\ x < Len(v)
      BY <1>1, <2>1
    <3> QED
      BY <1>3, <3>1
  <2>2. CASE n < x
    <3>1. n + 1 \in 1..x /\ n < Len(u) /\ n < Len(v)
      BY <1>1, <1>3, <2>2
    <3> QED
      BY <1>3, <3>1
  <2> QED
    BY <2>1, <2>2
<1>4. PrefixLen(u, v) = CHOOSE x \in 0..Len(u) : IsPrefixLen(x)
  BY DEF PrefixLen
<1> HIDE DEF IsPrefixLen
<1> QED
  BY <1>2, <1>3, <1>4

\* The first of the positions at which an id is found.
LEMMA FirstLater ==
  ASSUME NEW S, NEW v \in Seq(S), NEW n \in Nat, NEW id,
         NEW p \in n..Len(v), v[p] = id, \A k \in n..(p - 1) : v[k] # id
  PROVE  Nth(LaterAt(v, n, id), 1) = p
<1> DEFINE I == LaterAt(v, n, id)
<1>1. Len(v) \in Nat
  BY LenProperties
<1>2. I \in SUBSET (0..Len(v)) /\ p \in I
  BY <1>1 DEF LaterAt
<1>3. \A k \in I : k \in {p} <=> k <= p
  <2>1. TAKE k \in I
  <2>2. k \in n..Len(v) /\ v[k] = id
    BY DEF LaterAt
  <2>3. ~ (k < p)
    <3>1. SUFFICES ASSUME k < p PROVE FALSE
      OBVIOUS
    <3>2. k \in n..(p - 1)
      BY <1>1, <2>2, <3>1
    <3> QED
      BY <2>2, <3>2
  <2> QED
    BY <1>1, <2>2, <2>3
<1>4. IsFiniteSet(I)
  <2>1. IsFiniteSet(0..Len(v))
    BY <1>1, FS_Interval
  <2> HIDE DEF I
  <2> QED
    BY <1>2, <2>1, FS_Subset
<1>5. Cardinality({p}) = 1
  BY FS_Singleton
<1>6. I \in SUBSET Nat /\ {p} \in SUBSET I /\ 1 \in Nat
  BY <1>1, <1>2
<1> HIDE DEF I
<1>7. Nth(I, 1) = p
  BY <1>2, <1>3, <1>4, <1>5, <1>6, NthIs
<1> QED
  BY <1>7 DEF I
==============================================================================
