---------------------------- MODULE SequenceFacts ----------------------------
(***************************************************************************)
(* What the proofs need of the sequence operators the queues are built     *)
(* from: which elements they keep.  The least-number principle is derived  *)
(* from the library's theorem about well-founded relations, as a statement *)
(* about sets, so that it can be cited without instantiating an operator.  *)
(***************************************************************************)
EXTENDS Integers, FiniteSets, SequencesExt, SequenceTheorems, FiniteSetTheorems,
        WellFoundedInduction, TLAPS

(* A set of naturals has a least element.                                  *)
LEMMA LeastNatural ==
  ASSUME NEW T, T \subseteq Nat, T # {}
  PROVE  \E x \in T : \A y \in T : x <= y
<1> DEFINE R == {p \in Nat \X Nat : p[1] < p[2]}
<1>1. OpToRel(<, Nat) = R
  BY DEF OpToRel
<1>2. IsWellFoundedOn(R, Nat)
  BY <1>1, NatLessThanWellFounded, Zenon
<1>3. PICK x \in T : \A y \in T : ~ (<<y, x>> \in R)
  <2> HIDE DEF R
  <2> QED
    BY <1>2, WFMin
<1>4. ASSUME NEW y \in T
      PROVE  x <= y
  <2>1. ~ (<<y, x>> \in R) /\ x \in Nat /\ y \in Nat
    BY <1>3
  <2>2. ~ (y < x)
    BY <2>1
  <2>3. QED
    BY <2>1, <2>2
<1>5. QED
  BY <1>4

(* Min is the least element.                                               *)
LEMMA MinIsLeast ==
  ASSUME NEW T, T \subseteq Nat, T # {}
  PROVE  Min(T) \in T /\ \A y \in T : Min(T) <= y
<1>1. PICK x \in T : \A y \in T : x <= y
  BY LeastNatural
<1>2. QED
  BY <1>1 DEF Min

-----------------------------------------------------------------------------
LEMMA AppendElements ==
  ASSUME NEW S, NEW s \in Seq(S), NEW e \in S
  PROVE  /\ Append(s, e) \in Seq(S)
         /\ Len(Append(s, e)) = Len(s) + 1
         /\ ToSet(Append(s, e)) = ToSet(s) \cup {e}
<1>1. /\ DOMAIN Append(s, e) = 1 .. Len(s) + 1
      /\ \A i \in 1 .. Len(s) : Append(s, e)[i] = s[i]
  OBVIOUS
<1>2. /\ Append(s, e)[Len(s) + 1] = e
      /\ DOMAIN s = 1 .. Len(s)
      /\ Len(s) \in Nat
  OBVIOUS
<1>3. ToSet(Append(s, e)) = ToSet(s) \cup {e}
  BY <1>1, <1>2 DEF ToSet
<1>4. QED
  BY <1>1, <1>2, <1>3

LEMMA RemoveAtElements ==
  ASSUME NEW S, NEW s \in Seq(S), NEW i \in 1 .. Len(s)
  PROVE  /\ RemoveAt(s, i) \in Seq(S)
         /\ Len(RemoveAt(s, i)) = Len(s) - 1
         /\ ToSet(RemoveAt(s, i)) = {s[j] : j \in 1 .. Len(s) \ {i}}
<1> DEFINE r == RemoveAt(s, i)
<1>1. /\ r \in Seq(S)
      /\ Len(r) = Len(s) - 1
      /\ \A j \in 1 .. Len(s) - 1 : r[j] = IF j < i THEN s[j] ELSE s[j + 1]
  <2> DEFINE a == SubSeq(s, 1, i - 1)
             b == SubSeq(s, i + 1, Len(s))
  <2>1. /\ a \in Seq(S) /\ Len(a) = i - 1
        /\ \A j \in 1 .. i - 1 : a[j] = s[j]
    OBVIOUS
  <2>2. /\ b \in Seq(S) /\ Len(b) = Len(s) - i
        /\ \A j \in 1 .. Len(s) - i : b[j] = s[j + i]
    OBVIOUS
  <2>3. r = a \o b
    BY DEF RemoveAt
  <2> HIDE DEF a, b, r
  <2>4. /\ r \in Seq(S)
        /\ Len(r) = Len(a) + Len(b)
        /\ \A j \in 1 .. Len(a) + Len(b) :
             r[j] = IF j <= Len(a) THEN a[j] ELSE b[j - Len(a)]
    BY <2>1, <2>2, <2>3, ConcatProperties
  <2>5. ASSUME NEW j \in 1 .. Len(s) - 1
        PROVE  r[j] = IF j < i THEN s[j] ELSE s[j + 1]
    <3> j \in 1 .. Len(a) + Len(b)
      BY <2>1, <2>2
    <3>1. CASE j < i
      <4>1. j <= Len(a) /\ a[j] = s[j]
        BY <2>1, <3>1
      <4>2. QED
        BY <2>4, <3>1, <4>1
    <3>2. CASE j >= i
      <4>1. j - Len(a) \in 1 .. Len(s) - i /\ (j - Len(a)) + i = j + 1
        BY <2>1, <3>2
      <4>2. b[j - Len(a)] = s[j + 1]
        BY <2>2, <4>1
      <4>3. ~ (j <= Len(a))
        BY <2>1, <3>2
      <4>4. QED
        BY <2>4, <3>2, <4>2, <4>3
    <3>3. QED
      BY <3>1, <3>2
  <2>6. QED
    BY <2>1, <2>2, <2>4, <2>5
<1> HIDE DEF r
<1>2. ASSUME NEW j \in 1 .. Len(s) \ {i}
      PROVE  \E k \in 1 .. Len(s) - 1 : r[k] = s[j]
  <2>1. CASE j < i
    BY <1>1, <2>1
  <2>2. CASE j > i
    <3>1. j - 1 \in 1 .. Len(s) - 1 /\ r[j - 1] = s[j]
      BY <1>1, <2>2
    <3>2. QED
      BY <3>1
  <2>3. QED
    BY <2>1, <2>2
<1>3. ASSUME NEW k \in 1 .. Len(s) - 1
      PROVE  \E j \in 1 .. Len(s) \ {i} : r[k] = s[j]
  <2>1. CASE k < i
    BY <1>1, <2>1
  <2>2. CASE k >= i
    <3>1. k + 1 \in 1 .. Len(s) \ {i} /\ r[k] = s[k + 1]
      BY <1>1, <2>2
    <3>2. QED
      BY <3>1
  <2>3. QED
    BY <2>1, <2>2
<1>4. ToSet(r) = {r[k] : k \in 1 .. Len(s) - 1}
  <2>1. DOMAIN r = 1 .. Len(s) - 1
    BY <1>1
  <2>2. QED
    BY <2>1 DEF ToSet
<1>5. ToSet(r) = {s[j] : j \in 1 .. Len(s) \ {i}}
  <2>1. ASSUME NEW x \in ToSet(r)
        PROVE  x \in {s[j] : j \in 1 .. Len(s) \ {i}}
    <3>1. PICK k \in 1 .. Len(s) - 1 : x = r[k]
      BY <1>4
    <3>2. QED
      BY <1>3, <3>1
  <2>2. ASSUME NEW x \in {s[j] : j \in 1 .. Len(s) \ {i}}
        PROVE  x \in ToSet(r)
    <3>1. PICK j \in 1 .. Len(s) \ {i} : x = s[j]
      OBVIOUS
    <3>2. PICK k \in 1 .. Len(s) - 1 : r[k] = s[j]
      BY <1>2
    <3>3. QED
      BY <1>4, <3>1, <3>2
  <2>3. QED
    BY <2>1, <2>2
<1>6. QED
  BY <1>1, <1>5 DEF r

(* Removing the first occurrence of e leaves everything else.              *)
LEMMA RemoveFirstElements ==
  ASSUME NEW S, NEW s \in Seq(S), NEW e
  PROVE  /\ RemoveFirst(s, e) \in Seq(S)
         /\ Len(RemoveFirst(s, e)) <= Len(s)
         /\ e \in ToSet(s) => Len(RemoveFirst(s, e)) = Len(s) - 1
         /\ ToSet(s) \ {e} \subseteq ToSet(RemoveFirst(s, e))
         /\ ToSet(RemoveFirst(s, e)) \subseteq ToSet(s)
<1>1. ToSet(s) = {s[j] : j \in 1 .. Len(s)}
  BY DEF ToSet
<1>2. CASE ~ \E j \in 1 .. Len(s) : s[j] = e
  BY <1>1, <1>2 DEF RemoveFirst
<1>3. CASE \E j \in 1 .. Len(s) : s[j] = e
  <2> DEFINE I == {j \in 1 .. Len(s) : s[j] = e}
  <2>1. RemoveFirst(s, e) = RemoveAt(s, Min(I))
    BY <1>3 DEF RemoveFirst, SelectInSeq, SelectInSubSeq
  <2>2. I \subseteq Nat /\ I # {}
    BY <1>3
  <2>3. Min(I) \in 1 .. Len(s) /\ s[Min(I)] = e
    <3> HIDE DEF I
    <3>1. Min(I) \in I
      BY <2>2, MinIsLeast
    <3>2. QED
      BY <3>1 DEF I
  <2> HIDE DEF I
  <2>4. /\ RemoveAt(s, Min(I)) \in Seq(S)
        /\ Len(RemoveAt(s, Min(I))) = Len(s) - 1
        /\ ToSet(RemoveAt(s, Min(I))) = {s[j] : j \in 1 .. Len(s) \ {Min(I)}}
    BY <2>3, RemoveAtElements
  <2>5. QED
    BY <1>1, <2>1, <2>3, <2>4
<1>4. QED
  BY <1>2, <1>3

-----------------------------------------------------------------------------
(* An injective sequence stays so when new elements follow.                *)
LEMMA AppendDistinct ==
  ASSUME NEW S, NEW s \in Seq(S), NEW e \in S, NEW t, t = Append(s, e),
         IsInjective(s), e \notin ToSet(s)
  PROVE  IsInjective(t)
<1>1. /\ DOMAIN t = 1..Len(s) + 1 /\ DOMAIN s = 1..Len(s) /\ Len(s) \in Nat
      /\ t[Len(s) + 1] = e
      /\ \A i \in 1..Len(s) : t[i] = s[i]
  OBVIOUS
<1>2. \A i \in 1..Len(s) : s[i] # e
  BY <1>1 DEF ToSet
<1>3. \A i, j \in 1..Len(s) : s[i] = s[j] => i = j
  BY <1>1 DEF IsInjective
<1>4. ASSUME NEW i \in 1..Len(s) + 1, NEW j \in 1..Len(s) + 1, t[i] = t[j] PROVE i = j
  BY <1>1, <1>2, <1>3, <1>4
<1>5. QED
  BY <1>1, <1>4 DEF IsInjective

LEMMA ConcatElements ==
  ASSUME NEW S, NEW s \in Seq(S), NEW t \in Seq(S)
  PROVE  /\ s \o t \in Seq(S)
         /\ Len(s) <= Len(s \o t)
         /\ \A i \in 1..Len(s) : (s \o t)[i] = s[i]
         /\ \A i \in 1..Len(s \o t) : i > Len(s) => (s \o t)[i] \in ToSet(t)
         /\ ToSet(s \o t) = ToSet(s) \cup ToSet(t)
         /\ (IsInjective(s) /\ IsInjective(t) /\ ToSet(s) \cap ToSet(t) = {})
              => IsInjective(s \o t)
<1> DEFINE c == s \o t
<1>1. /\ c \in Seq(S) /\ Len(c) = Len(s) + Len(t)
      /\ \A i \in 1..Len(s) + Len(t) : c[i] = IF i <= Len(s) THEN s[i] ELSE t[i - Len(s)]
  BY ConcatProperties
<1>2. /\ Len(s) \in Nat /\ Len(t) \in Nat
      /\ DOMAIN s = 1..Len(s) /\ DOMAIN t = 1..Len(t)
  OBVIOUS
<1> HIDE DEF c
<1>3. DOMAIN c = 1..Len(s) + Len(t)
  BY <1>1
<1>4. /\ \A i \in 1..Len(s) : i \in DOMAIN c /\ c[i] = s[i]
      /\ \A i \in 1..Len(t) : Len(s) + i \in DOMAIN c /\ c[Len(s) + i] = t[i]
      /\ \A i \in DOMAIN c : i \in 1..Len(s) \/ i - Len(s) \in 1..Len(t)
      /\ \A i \in DOMAIN c : i > Len(s) => i - Len(s) \in 1..Len(t) /\ c[i] = t[i - Len(s)]
  <2>1. \A i \in 1..Len(s) : i \in DOMAIN c /\ c[i] = s[i]
    BY <1>1, <1>2, <1>3
  <2>2. ASSUME NEW i \in 1..Len(t)
        PROVE  Len(s) + i \in DOMAIN c /\ c[Len(s) + i] = t[i]
    <3>1. Len(s) + i \in 1..Len(s) + Len(t) /\ ~ (Len(s) + i <= Len(s)) /\ (Len(s) + i) - Len(s) = i
      BY <1>2
    <3>2. QED
      BY <1>1, <1>3, <3>1
  <2>3. ASSUME NEW i \in DOMAIN c, i > Len(s)
        PROVE  i - Len(s) \in 1..Len(t) /\ c[i] = t[i - Len(s)]
    BY <1>1, <1>2, <1>3, <2>3
  <2>4. \A i \in DOMAIN c : i \in 1..Len(s) \/ i - Len(s) \in 1..Len(t)
    BY <1>2, <1>3
  <2>5. QED
    BY <2>1, <2>2, <2>3, <2>4
<1>5. ToSet(c) = ToSet(s) \cup ToSet(t)
  <2>1. ASSUME NEW x \in ToSet(c) PROVE x \in ToSet(s) \cup ToSet(t)
    <3>1. PICK i \in DOMAIN c : c[i] = x
      BY <2>1 DEF ToSet
    <3>2. CASE i \in 1..Len(s)
      BY <1>2, <1>4, <3>1, <3>2 DEF ToSet
    <3>3. CASE i \notin 1..Len(s)
      <4>1. i - Len(s) \in 1..Len(t) /\ i > Len(s)
        BY <1>2, <1>3, <1>4, <3>1, <3>3
      <4>2. QED
        BY <1>2, <1>4, <3>1, <4>1 DEF ToSet
    <3>4. QED
      BY <3>2, <3>3
  <2>2. ASSUME NEW x \in ToSet(s) \cup ToSet(t) PROVE x \in ToSet(c)
    BY <1>2, <1>4, <2>2 DEF ToSet
  <2>3. QED
    BY <2>1, <2>2
<1>6. ASSUME IsInjective(s), IsInjective(t), ToSet(s) \cap ToSet(t) = {}
      PROVE  IsInjective(c)
  <2>1. \A i \in 1..Len(s), j \in 1..Len(t) : s[i] # t[j]
    BY <1>2, <1>6 DEF ToSet
  <2>2. ASSUME NEW i \in DOMAIN c, NEW j \in DOMAIN c, c[i] = c[j] PROVE i = j
    <3>1. CASE i <= Len(s) /\ j <= Len(s)
      BY <1>1, <1>2, <1>3, <1>6, <2>2, <3>1 DEF IsInjective
    <3>2. CASE i > Len(s) /\ j > Len(s)
      <4>1. t[i - Len(s)] = t[j - Len(s)] /\ i - Len(s) \in DOMAIN t /\ j - Len(s) \in DOMAIN t
        BY <1>2, <1>4, <2>2, <3>2
      <4>2. i - Len(s) = j - Len(s)
        BY <1>6, <4>1 DEF IsInjective
      <4>3. QED
        BY <1>2, <1>3, <4>2
    <3>3. CASE i <= Len(s) /\ j > Len(s)
      BY <1>1, <1>2, <1>3, <1>4, <2>1, <2>2, <3>3
    <3>4. CASE i > Len(s) /\ j <= Len(s)
      BY <1>1, <1>2, <1>3, <1>4, <2>1, <2>2, <3>4
    <3>5. QED
      BY <1>2, <1>3, <3>1, <3>2, <3>3, <3>4
  <2>3. QED
    BY <2>2 DEF IsInjective
<1>7. \A i \in 1..Len(c) : i > Len(s) => c[i] \in ToSet(t)
  BY <1>1, <1>2, <1>3, <1>4 DEF ToSet
<1>8. QED
  BY <1>1, <1>2, <1>4, <1>5, <1>6, <1>7 DEF c

-----------------------------------------------------------------------------
(* A finite set of naturals, in ascending order.                           *)
Sorted(S, s) ==
  /\ s \in [1..Cardinality(S) -> S]
  /\ ToSet(s) = S
  /\ \A i, j \in DOMAIN s : i < j => s[i] < s[j]

LEMMA SortedExists ==
  ASSUME NEW S \in SUBSET Nat, IsFiniteSet(S)
  PROVE  \E s : Sorted(S, s)
<1> DEFINE Bad == {n \in Nat : \E T \in SUBSET Nat :
                     /\ IsFiniteSet(T) /\ Cardinality(T) = n
                     /\ ~ \E s : Sorted(T, s)}
<1>1. Bad = {}
  <2> SUFFICES ASSUME Bad # {} PROVE FALSE
    OBVIOUS
  <2>1. PICK n \in Bad : \A k \in Bad : n <= k
    <3>1. Bad \subseteq Nat
      OBVIOUS
    <3> HIDE DEF Bad
    <3>2. QED
      BY <3>1, LeastNatural
  <2>2. PICK T \in SUBSET Nat : /\ IsFiniteSet(T) /\ Cardinality(T) = n
                                /\ ~ \E s : Sorted(T, s)
    BY <2>1
  <2>3. n \in Nat
    BY <2>1
  <2>4. T # {}
    <3>1. ASSUME T = {} PROVE FALSE
      <4> DEFINE e == [i \in 1..0 |-> 0]
      <4>1. Cardinality(T) = 0
        BY <3>1, FS_EmptySet
      <4>2. Sorted(T, e)
        BY <3>1, <4>1 DEF Sorted, ToSet
      <4>3. QED
        BY <2>2, <4>2
    <3>2. QED
      BY <3>1
  <2> DEFINE x == Min(T)
             U == T \ {x}
  <2>5. x \in T /\ \A y \in T : x <= y
    BY <2>4, MinIsLeast
  <2> HIDE DEF x
  <2>6. IsFiniteSet(U) /\ Cardinality(U) = n - 1 /\ U \in SUBSET Nat
    BY <2>2, <2>5, FS_RemoveElement
  <2>7. n - 1 \in Nat
    BY <2>6, FS_CardinalityType
  <2>8. n - 1 \notin Bad
    <3> HIDE DEF Bad
    <3>1. QED
      BY <2>1, <2>3, <2>7
  <2> HIDE DEF U
  <2>9. PICK u : Sorted(U, u)
    BY <2>6, <2>7, <2>8
  <2> DEFINE s == [i \in 1..n |-> IF i = 1 THEN x ELSE u[i - 1]]
  <2>10. /\ \A y \in U : y \in T /\ y # x
         /\ \A y \in T : y = x \/ y \in U
    BY DEF U
  <2>11. /\ \A j \in 1..n - 1 : u[j] \in U
         /\ \A y \in U : \E j \in 1..n - 1 : u[j] = y
         /\ \A i, j \in 1..n - 1 : i < j => u[i] < u[j]
    BY <2>6, <2>9 DEF Sorted, ToSet
  <2>12. s \in [1..n -> T]
    BY <2>3, <2>5, <2>10, <2>11
  <2>13. ASSUME NEW y \in T PROVE \E i \in 1..n : s[i] = y
    <3>1. CASE y = x
      BY <2>3, <2>7, <3>1
    <3>2. CASE y \in U
      <4>1. PICK j \in 1..n - 1 : u[j] = y
        BY <2>11, <3>2
      <4>2. j + 1 \in 1..n /\ s[j + 1] = y
        BY <2>3, <4>1
      <4>3. QED
        BY <4>2
    <3>3. QED
      BY <2>10, <3>1, <3>2
  <2>14. ASSUME NEW i \in 1..n, NEW j \in 1..n, i < j PROVE s[i] < s[j]
    <3>1. j - 1 \in 1..n - 1 /\ s[j] = u[j - 1]
      BY <2>3, <2>14
    <3>2. CASE i = 1
      <4>1. s[i] = x /\ u[j - 1] \in T /\ u[j - 1] # x
        BY <2>10, <2>11, <3>1, <3>2
      <4>2. x \in Nat /\ u[j - 1] \in Nat /\ x <= u[j - 1]
        BY <2>2, <2>5, <4>1
      <4>3. QED
        BY <3>1, <4>1, <4>2
    <3>3. CASE i # 1
      <4>1. i - 1 \in 1..n - 1 /\ s[i] = u[i - 1] /\ i - 1 < j - 1
        BY <2>3, <2>14, <3>3
      <4>2. QED
        BY <2>11, <3>1, <4>1
    <3>4. QED
      BY <3>2, <3>3
  <2> HIDE DEF s
  <2>15. ToSet(s) = T
    BY <2>12, <2>13 DEF ToSet
  <2>16. Sorted(T, s)
    BY <2>2, <2>12, <2>14, <2>15 DEF Sorted
  <2>17. QED
    BY <2>2, <2>16
<1>2. Cardinality(S) \in Nat /\ Cardinality(S) \notin Bad
  <2> HIDE DEF Bad
  <2>1. QED
    BY <1>1, FS_CardinalityType
<1>3. QED
  BY <1>2

-----------------------------------------------------------------------------
(* Max is the greatest element of a bounded set.                           *)
LEMMA MaxIsGreatest ==
  ASSUME NEW T, T \subseteq Nat, T # {}, NEW n \in Nat, \A y \in T : y <= n
  PROVE  Max(T) \in T /\ \A y \in T : y <= Max(T)
<1> DEFINE U == {n - y : y \in T}
<1>1. U \subseteq Nat /\ U # {}
  <2>1. \A y \in T : n - y \in Nat
    OBVIOUS
  <2>2. QED
    BY <2>1
<1>2. PICK u \in U : \A v \in U : u <= v
  <2> HIDE DEF U
  <2>1. QED
    BY <1>1, LeastNatural
<1>3. PICK x \in T : u = n - x
  BY <1>2
<1>4. ASSUME NEW y \in T
      PROVE  y <= x
  <2>1. n - x <= n - y
    BY <1>2, <1>3, <1>4
  <2>2. QED
    BY <1>3, <2>1
<1>5. \A y \in T : x >= y
  BY <1>3, <1>4
<1>6. QED
  BY <1>3, <1>5 DEF Max

LEMMA MaxOfTwo ==
  ASSUME NEW a \in Int, NEW b \in Int
  PROVE  Max({a, b}) \in {a, b} /\ Max({a, b}) >= a /\ Max({a, b}) >= b
<1>1. \E x \in {a, b} : \A y \in {a, b} : x >= y
  OBVIOUS
<1>2. QED
  BY <1>1 DEF Max

-----------------------------------------------------------------------------
(* A function that is iterated N times from b.                             *)
LEMMA IterationExists ==
  ASSUME NEW V, NEW b \in V, NEW G \in [V -> V], NEW N \in Nat
  PROVE  \E f \in [0..N -> V] :
           f[0] = b /\ \A n \in 1..N : f[n] = G[f[n - 1]]
<1> DEFINE Iterates(f, n) == f \in [0..n -> V] /\ f[0] = b
                               /\ \A k \in 1..n : f[k] = G[f[k - 1]]
           Bad == {n \in 0..N : ~ \E f : Iterates(f, n)}
<1>1. CASE Bad = {}
  BY <1>1
<1>2. CASE Bad # {}
  <2>1. PICK n \in Bad : \A k \in Bad : n <= k
    <3>1. Bad \subseteq Nat
      OBVIOUS
    <3> HIDE DEF Bad
    <3>2. QED
      BY <1>2, <3>1, LeastNatural
  <2>2. CASE n = 0
    <3> DEFINE f == [k \in 0..0 |-> b]
    <3>1. Iterates(f, 0)
      OBVIOUS
    <3>2. QED
      BY <2>1, <2>2, <3>1
  <2>3. CASE n # 0
    <3>0. n - 1 \in 0..N /\ n \in Nat /\ ~ (n <= n - 1)
      BY <2>1, <2>3
    <3>1. n - 1 \in 0..N /\ n - 1 \notin Bad /\ n \in Nat
      <4> HIDE DEF Bad
      <4>1. QED
        BY <2>1, <3>0
    <3>2. PICK g : Iterates(g, n - 1)
      <4> HIDE DEF Iterates
      <4>1. QED
        BY <3>1
    <3> DEFINE f == [k \in 0..n |-> IF k = n THEN G[g[n - 1]] ELSE g[k]]
    <3>3. n - 1 \in 0..n - 1 /\ g[n - 1] \in V /\ \A k \in 0..n : k = n \/ k \in 0..n - 1
      BY <3>1, <3>2
    <3>4. f \in [0..n -> V] /\ f[0] = b
      BY <2>3, <3>1, <3>2, <3>3
    <3>5. ASSUME NEW k \in 1..n PROVE f[k] = G[f[k - 1]]
      <4>1. k - 1 \in 0..n - 1 /\ f[k - 1] = g[k - 1]
        BY <3>1, <3>5
      <4>2. CASE k = n
        BY <4>1, <4>2
      <4>3. CASE k # n
        <5>1. k \in 1..n - 1 /\ f[k] = g[k]
          BY <3>1, <3>5, <4>3
        <5>2. QED
          BY <3>2, <4>1, <5>1
      <4>4. QED
        BY <4>2, <4>3
    <3>6. Iterates(f, n)
      BY <3>4, <3>5
    <3>7. QED
      BY <2>1, <3>6
  <2>4. QED
    BY <2>2, <2>3
<1>3. QED
  BY <1>1, <1>2
=============================================================================
