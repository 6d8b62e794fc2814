----------------------------- MODULE DataLemmas -----------------------------
(***************************************************************************)
(* Lemmas that the proofs of several modules use: the smallest and the     *)
(* largest number of a set, the first element of a finite order, the size  *)
(* of a union; what is kept of a sequence that is cut, grown at its front  *)
(* or changed in place.                                                    *)
(***************************************************************************)
EXTENDS Integers, SequencesExt, FiniteSetsExt, Filters, FiniteSetTheorems, SequenceTheorems, FunctionTheorems, TLAPS

(* Every set of natural numbers has a smallest one: the set {0 .. n - 1}   *)
(* of an element n is minimal among the finite sets that there are of them. *)
(* What would be an induction is a proof about the smallest counterexample. *)
LEMMA SmallestOf ==
  ASSUME NEW T \in SUBSET Nat, T # {}
  PROVE  \E m \in T : \A k \in T : m <= k
<1>. DEFINE Below == {0 .. n - 1 : n \in T}
<1>1. Below \subseteq FiniteSubsetsOf(Nat) /\ Below # {}
  <2>1. ASSUME NEW n \in T PROVE 0 .. n - 1 \in FiniteSubsetsOf(Nat)
    <3>1. IsFiniteSet(0 .. n - 1)
      BY FS_Interval
    <3>2. 0 .. n - 1 \subseteq Nat
      OBVIOUS
    <3>. QED BY <3>1, <3>2 DEF FiniteSubsetsOf
  <2>. QED BY <2>1
<1>2. PICK x \in Below : \A y \in Below : ~ (<<y, x>> \in StrictSubsetOrdering(Nat))
  BY <1>1, WFMin, FS_StrictSubsetOrderingWellFounded
<1>3. PICK m \in T : x = 0 .. m - 1
  BY <1>2
<1>4. ASSUME NEW k \in T, k < m PROVE FALSE
  <2>1. 0 .. k - 1 \in Below /\ x \in SUBSET Nat /\ 0 .. k - 1 \in SUBSET Nat
    BY <1>1, <1>2 DEF FiniteSubsetsOf
  <2>2. 0 .. k - 1 \subseteq x
    BY <1>3, <1>4
  <2>3. k \in x /\ k \notin 0 .. k - 1
    BY <1>3, <1>4
  <2>4. <<0 .. k - 1, x>> \in StrictSubsetOrdering(Nat)
    BY <2>1, <2>2, <2>3 DEF StrictSubsetOrdering
  <2>. QED BY <2>1, <2>4, <1>2
<1>. QED BY <1>4

LEMMA MinIsSmallest ==
  ASSUME NEW T \in SUBSET Nat, T # {}
  PROVE  Min(T) \in T /\ \A k \in T : Min(T) <= k
BY SmallestOf DEF Min

LEMMA MaxIsIn ==
  ASSUME NEW n \in Nat, NEW T \in SUBSET (0 .. n), T # {}
  PROVE  Max(T) \in T /\ \A t \in T : t <= Max(T)
<1>. DEFINE Rest == {n - t : t \in T}
<1>1. PICK m \in Rest : \A k \in Rest : m <= k
  <2>1. ASSUME NEW t \in T PROVE n - t \in Nat
    OBVIOUS
  <2>2. Rest \in SUBSET Nat
    BY <2>1
  <2>3. Rest # {}
    <3>1. PICK t \in T : TRUE
      OBVIOUS
    <3>. QED BY <3>1
  <2>. HIDE DEF Rest
  <2>. QED BY <2>2, <2>3, SmallestOf
<1>2. PICK t \in T : m = n - t
  BY <1>1
<1>3. ASSUME NEW u \in T PROVE t >= u
  BY <1>1, <1>2, n - u \in Rest, SMTT(60)
<1>4. Max(T) \in T /\ \A u \in T : Max(T) >= u
  BY <1>3 DEF Max
<1>5. ASSUME NEW u \in T PROVE u <= Max(T)
  <2>1. u \in 0 .. n /\ Max(T) \in 0 .. n /\ Max(T) >= u
    BY <1>4
  <2>. QED BY <2>1
<1>. QED BY <1>4, <1>5

LEMMA MaxOfInterval ==
  ASSUME NEW n \in Nat \ {0}
  PROVE  Max(1..n) = n
<1>1. n \in 1..n /\ \A y \in 1..n : n >= y
  OBVIOUS
<1>2. \A x \in 1..n : (\A y \in 1..n : x >= y) => x = n
  OBVIOUS
<1>. QED BY <1>1, <1>2 DEF Max

(* A strict linear order has a first element in every finite set: the one  *)
(* with the fewest before it.                                              *)
LEMMA FirstOfOrder ==
  ASSUME NEW S, IsFiniteSet(S), S # {}, NEW R,
         \A a \in S : <<a, a>> \notin R,
         \A a, b \in S : a # b => <<a, b>> \in R \/ <<b, a>> \in R,
         \A a, b, c \in S : <<a, b>> \in R /\ <<b, c>> \in R => <<a, c>> \in R
  PROVE  \E a \in S : \A b \in S \ {a} : <<a, b>> \in R
<1>. DEFINE Before(a) == {b \in S : <<b, a>> \in R}
            Size == [a \in S |-> Cardinality(Before(a))]
            Sizes == {Size[a] : a \in S}
<1>1. ASSUME NEW a \in S
      PROVE  /\ IsFiniteSet(Before(a)) /\ Size[a] = Cardinality(Before(a)) /\ Size[a] \in Nat
  BY FS_Subset, FS_CardinalityType
<1>2. ASSUME NEW a \in S, NEW b \in S, <<b, a>> \in R PROVE Size[b] < Size[a]
  <2>1. b \in Before(a) /\ b \notin Before(b)
    BY <1>2
  <2>2. Before(b) \in SUBSET Before(a) /\ Before(b) # Before(a)
    BY <1>2, <2>1
  <2>. HIDE DEF Before
  <2>3. Cardinality(Before(b)) <= Cardinality(Before(a)) /\ Cardinality(Before(b)) # Cardinality(Before(a))
    BY <1>1, <2>2, FS_Subset
  <2>. HIDE DEF Size
  <2>. QED BY <1>1, <2>3
<1>3. \A c \in S : Size[c] \in Nat
  BY <1>1
<1>. HIDE DEF Before, Size
<1>4. PICK a \in S : \A b \in S : Size[a] <= Size[b]
  <2>1. Sizes \in SUBSET Nat /\ Sizes # {}
    BY <1>3
  <2>2. PICK n \in Sizes : \A m \in Sizes : n <= m
    <3>. HIDE DEF Sizes
    <3>. QED BY <2>1, SmallestOf
  <2>. QED BY <2>2
<1>5. ASSUME NEW b \in S \ {a}, <<a, b>> \notin R PROVE FALSE
  <2>1. <<b, a>> \in R
    BY <1>5
  <2>2. Size[b] < Size[a] /\ Size[a] <= Size[b] /\ Size[a] \in Nat /\ Size[b] \in Nat
    BY <1>2, <1>3, <1>4, <1>5, <2>1
  <2>. QED BY <2>2
<1>. QED BY <1>5

(* Sets of at most w elements each, one for each element of A, have at     *)
(* most w times as many elements as A.                                     *)
LEMMA UnionBound ==
  ASSUME NEW A, IsFiniteSet(A), NEW w \in Nat, NEW F,
         \A a \in A : IsFiniteSet(F[a]) /\ Cardinality(F[a]) <= w
  PROVE  LET U == UNION {F[a] : a \in A} IN
         IsFiniteSet(U) /\ Cardinality(U) <= Cardinality(A) * w
<1>. DEFINE U(D) == UNION {F[a] : a \in D}
            Ok(D) == IsFiniteSet(U(D)) /\ Cardinality(U(D)) <= Cardinality(D) * w
            Wrong == {D \in SUBSET A : ~Ok(D)}
            Sizes == {Cardinality(D) : D \in Wrong}
<1>1. \A D \in SUBSET A : IsFiniteSet(D) /\ Cardinality(D) \in Nat
  BY FS_Subset, FS_CardinalityType
<1>2. SUFFICES ASSUME Wrong # {} PROVE FALSE
  <2>1. A \in SUBSET A /\ A \notin Wrong
    BY <1>2
  <2>2. Ok(A)
    BY <2>1
  <2>. QED BY <2>2
<1>3. PICK D \in Wrong : \A E \in Wrong : Cardinality(D) <= Cardinality(E)
  <2>1. Sizes \in SUBSET Nat /\ Sizes # {}
    <3>. HIDE DEF Ok
    <3>. QED BY <1>1, <1>2
  <2>2. PICK n \in Sizes : \A m \in Sizes : n <= m
    <3>. HIDE DEF Sizes
    <3>. QED BY <2>1, SmallestOf
  <2>. HIDE DEF Wrong
  <2>. QED BY <2>2
<1>4. D \in SUBSET A /\ ~Ok(D)
  BY <1>3
<1>5. CASE D = {}
  <2>1. U(D) = {} /\ Cardinality(D) = 0
    BY <1>5, FS_EmptySet
  <2>2. Cardinality(U(D)) = 0 /\ IsFiniteSet(U(D)) /\ 0 <= 0 * w
    BY <2>1, FS_EmptySet
  <2>. QED BY <1>4, <2>1, <2>2
<1>6. CASE D # {}
  <2>1. PICK a \in D : TRUE
    BY <1>6
  <2>. DEFINE R == D \ {a}
              n == Cardinality(R)
  <2>2. R \in SUBSET A /\ n \in Nat /\ Cardinality(D) = n + 1 /\ a \in A
    BY <1>1, <1>4, <2>1, FS_RemoveElement
  <2>3. Ok(R)
    <3>1. R \notin Wrong
      <4>. HIDE DEF Wrong
      <4>1. ~(Cardinality(D) <= Cardinality(R))
        BY <2>2
      <4>. QED BY <1>3, <4>1
    <3>. QED BY <2>2, <3>1
  <2>4. U(D) = U(R) \cup F[a]
    BY <2>1
  <2>. HIDE DEF U
  <2>5. /\ IsFiniteSet(U(R)) /\ Cardinality(U(R)) <= n * w /\ Cardinality(U(R)) \in Nat
        /\ IsFiniteSet(F[a]) /\ Cardinality(F[a]) <= w /\ Cardinality(F[a]) \in Nat
        /\ Cardinality(U(R) \cap F[a]) \in Nat
    <3>1. IsFiniteSet(U(R) \cap F[a])
      BY <2>3, FS_Subset, U(R) \cap F[a] \in SUBSET U(R)
    <3>. QED BY <2>2, <2>3, <3>1, FS_CardinalityType
  <2>6. IsFiniteSet(U(D)) /\ Cardinality(U(D)) = Cardinality(U(R)) + Cardinality(F[a]) - Cardinality(U(R) \cap F[a])
    <3>. DEFINE X == U(R)
                Y == F[a]
    <3>1. IsFiniteSet(X) /\ IsFiniteSet(Y) /\ U(D) = X \cup Y
      BY <2>4, <2>5
    <3>. HIDE DEF X, Y
    <3>2. IsFiniteSet(X \cup Y) /\ Cardinality(X \cup Y) = Cardinality(X) + Cardinality(Y) - Cardinality(X \cap Y)
      BY <3>1, FS_Union
    <3>. QED BY <3>1, <3>2 DEF X, Y
  <2>. HIDE DEF n
  <2>7. Cardinality(U(D)) <= n * w + w
    <3>1. n * w \in Nat
      BY <2>2
    <3>. QED BY <2>5, <2>6, <3>1
  <2>8. n * w + w = (n + 1) * w
    BY <2>2
  <2>. QED BY <1>4, <2>2, <2>6, <2>7, <2>8
<1>. QED BY <1>5, <1>6

(* A set grows by one element at most.                                     *)
LEMMA AtMostOneMore ==
  ASSUME NEW S, IsFiniteSet(S), NEW x, NEW T, T \subseteq S \cup {x}
  PROVE  /\ IsFiniteSet(T) /\ Cardinality(T) \in Nat /\ Cardinality(S) \in Nat
         /\ Cardinality(T) <= Cardinality(S) + 1
<1>1. IsFiniteSet(S \cup {x}) /\ Cardinality(S) \in Nat
      /\ Cardinality(S \cup {x}) = IF x \in S THEN Cardinality(S) ELSE Cardinality(S) + 1
  BY FS_AddElement, FS_CardinalityType
<1>2. /\ IsFiniteSet(T) /\ Cardinality(T) <= Cardinality(S \cup {x})
  BY <1>1, FS_Subset
<1>3. Cardinality(T) \in Nat
  BY <1>2, FS_CardinalityType
<1>. QED BY <1>1, <1>2, <1>3
-----------------------------------------------------------------------------
(* A sequence is known by what it is a function of.                        *)
LEMMA MappedSeq ==
  ASSUME NEW S, NEW n \in Nat, NEW f \in [1 .. n -> S]
  PROVE  f \in Seq(S) /\ Len(f) = n /\ DOMAIN f = 1 .. n
<1>1. f \in Seq(S)
  BY DEF Seq
<1>2. Len(f) \in Nat /\ DOMAIN f = 1 .. Len(f) /\ DOMAIN f = 1 .. n
  BY <1>1, LenProperties
<1>3. Len(f) = n
  BY <1>2
<1>. QED BY <1>1, <1>2, <1>3

(* The first elements of a sequence                                        *)
LEMMA FirstPart ==
  ASSUME NEW S, NEW s \in Seq(S), NEW n \in 0 .. Len(s)
  PROVE  /\ SubSeq(s, 1, n) \in Seq(S) /\ Len(SubSeq(s, 1, n)) = n
         /\ DOMAIN SubSeq(s, 1, n) = 1 .. n
         /\ \A i \in 1 .. n : SubSeq(s, 1, n)[i] = s[i]
<1>1. Len(s) \in Nat /\ n \in Int /\ 1 \in Int /\ \A i \in 1 .. n : i \in 1 .. Len(s) /\ 1 + i - 1 = i
  BY LenProperties
<1>2. \A i \in 1 .. n : s[i] \in S
  BY <1>1, ElementOfSeq
<1>3. /\ SubSeq(s, 1, n) \in Seq(S)
      /\ Len(SubSeq(s, 1, n)) = IF 1 <= n THEN n - 1 + 1 ELSE 0
      /\ \A i \in 1 .. n - 1 + 1 : SubSeq(s, 1, n)[i] = s[1 + i - 1]
  BY <1>1, <1>2, SubSeqProperties
<1>4. n - 1 + 1 = n /\ (~(1 <= n) => n = 0)
  BY <1>1
<1>5. Len(SubSeq(s, 1, n)) = n
  BY <1>3, <1>4
<1>. QED BY <1>1, <1>3, <1>4, <1>5, LenProperties

(* A cut at a limit                                                        *)
LEMMA CutAt ==
  ASSUME NEW S, NEW s \in Seq(S), NEW max \in Nat
  PROVE  LET c == SubSeq(s, 1, IF Len(s) < max THEN Len(s) ELSE max)
         IN  /\ c \in Seq(S) /\ Len(c) <= max /\ Len(c) <= Len(s) /\ DOMAIN c = 1 .. Len(c)
             /\ Len(c) \in Nat /\ Len(c) = IF Len(s) < max THEN Len(s) ELSE max
             /\ \A i \in 1 .. Len(c) : c[i] = s[i]
<1>. DEFINE n == IF Len(s) < max THEN Len(s) ELSE max
<1>1. n \in 0 .. Len(s) /\ n <= max /\ n <= Len(s) /\ n \in Nat
  BY LenProperties
<1>. HIDE DEF n
<1>2. /\ SubSeq(s, 1, n) \in Seq(S) /\ Len(SubSeq(s, 1, n)) = n
      /\ DOMAIN SubSeq(s, 1, n) = 1 .. n
      /\ \A i \in 1 .. n : SubSeq(s, 1, n)[i] = s[i]
  BY <1>1, FirstPart
<1>. QED BY <1>1, <1>2 DEF n

(* A sequence with one more element in front                               *)
LEMMA InFront ==
  ASSUME NEW S, NEW s \in Seq(S), NEW x \in S
  PROVE  LET c == <<x>> \o s
         IN  /\ c \in Seq(S) /\ Len(c) = Len(s) + 1 /\ DOMAIN c = 1 .. Len(s) + 1
             /\ Len(s) \in Nat /\ DOMAIN s = 1 .. Len(s)
             /\ c[1] = x /\ \A i \in 1 .. Len(s) + 1 : i # 1 => i - 1 \in 1 .. Len(s) /\ c[i] = s[i - 1]
<1>1. <<x>> \in Seq(S) /\ Len(<<x>>) = 1 /\ <<x>>[1] = x
  OBVIOUS
<1>2. Len(s) \in Nat /\ DOMAIN s = 1 .. Len(s)
  BY LenProperties
<1>. DEFINE y == <<x>>
<1>. HIDE DEF y
<1>3. /\ y \o s \in Seq(S) /\ Len(y \o s) = 1 + Len(s)
      /\ \A i \in 1 .. 1 + Len(s) : (y \o s)[i] = IF i <= 1 THEN y[i] ELSE s[i - 1]
  BY <1>1, ConcatProperties DEF y
<1>4. DOMAIN (y \o s) = 1 .. Len(s) + 1 /\ Len(y \o s) = Len(s) + 1
  BY <1>2, <1>3, LenProperties
<1>5. 1 \in 1 .. 1 + Len(s) /\ (y \o s)[1] = x
  BY <1>1, <1>2, <1>3 DEF y
<1>6. ASSUME NEW i \in 1 .. Len(s) + 1, i # 1 PROVE i - 1 \in 1 .. Len(s) /\ (y \o s)[i] = s[i - 1]
  BY <1>2, <1>3, <1>6
<1>. QED BY <1>2, <1>3, <1>4, <1>5, <1>6 DEF y

(* A sequence with one element less                                        *)
LEMMA WithoutOne ==
  ASSUME NEW S, NEW s \in Seq(S), NEW k \in 1 .. Len(s)
  PROVE  LET c == RemoveAt(s, k)
         IN  /\ c \in Seq(S) /\ Len(c) = Len(s) - 1 /\ DOMAIN c = 1 .. Len(s) - 1
             /\ Len(s) \in Nat
             /\ \A i \in 1 .. Len(s) - 1 :
                  /\ i \in 1 .. Len(s) /\ i + 1 \in 1 .. Len(s)
                  /\ c[i] = IF i < k THEN s[i] ELSE s[i + 1]
<1>. DEFINE a == SubSeq(s, 1, k - 1)
            b == SubSeq(s, k + 1, Len(s))
<1>1. Len(s) \in Nat /\ k - 1 \in 0 .. Len(s) /\ k \in Nat /\ k + 1 \in Int /\ Len(s) \in Int
  BY LenProperties
<1>2. a \in Seq(S) /\ Len(a) = k - 1 /\ \A i \in 1 .. k - 1 : a[i] = s[i]
  BY <1>1, FirstPart
<1>3. \A i \in k + 1 .. Len(s) : s[i] \in S
  BY <1>1, ElementOfSeq
<1>4. /\ b \in Seq(S)
      /\ Len(b) = IF k + 1 <= Len(s) THEN Len(s) - (k + 1) + 1 ELSE 0
      /\ \A i \in 1 .. Len(s) - (k + 1) + 1 : b[i] = s[k + 1 + i - 1]
  BY <1>1, <1>3, SubSeqProperties
<1>. HIDE DEF a, b
<1>5. Len(b) = Len(s) - k
  BY <1>1, <1>4
<1>6. /\ a \o b \in Seq(S) /\ Len(a \o b) = Len(a) + Len(b)
      /\ \A i \in 1 .. Len(a) + Len(b) : (a \o b)[i] = IF i <= Len(a) THEN a[i] ELSE b[i - Len(a)]
  BY <1>2, <1>4, ConcatProperties
<1>7. Len(a) + Len(b) = Len(s) - 1
  BY <1>1, <1>2, <1>5
<1>8. ASSUME NEW i \in 1 .. Len(s) - 1
      PROVE  /\ i \in 1 .. Len(s) /\ i + 1 \in 1 .. Len(s)
             /\ (a \o b)[i] = IF i < k THEN s[i] ELSE s[i + 1]
  <2>1. i \in 1 .. Len(s) /\ i + 1 \in 1 .. Len(s) /\ i \in Int
    BY <1>1
  <2>2. (a \o b)[i] = IF i <= k - 1 THEN a[i] ELSE b[i - (k - 1)]
    BY <1>2, <1>6, <1>7
  <2>3. CASE i < k
    <3>1. i \in 1 .. k - 1 /\ i <= k - 1
      BY <1>1, <2>1, <2>3
    <3>. QED BY <1>2, <2>1, <2>2, <2>3, <3>1
  <2>4. CASE ~(i < k)
    <3>1. /\ ~(i <= k - 1) /\ i - (k - 1) \in 1 .. Len(s) - (k + 1) + 1
          /\ k + 1 + (i - (k - 1)) - 1 = i + 1
      BY <1>1, <2>1, <2>4
    <3>. QED BY <1>4, <2>1, <2>2, <2>4, <3>1
  <2>. QED BY <2>3, <2>4
<1>9. DOMAIN (a \o b) = 1 .. Len(s) - 1 /\ Len(a \o b) = Len(s) - 1
  BY <1>6, <1>7, LenProperties
<1>. QED BY <1>1, <1>6, <1>8, <1>9 DEF RemoveAt, a, b

(* What a sequence is extended from is a prefix of it.                     *)
LEMMA PrefixOfExtension ==
  ASSUME NEW S, NEW s \in Seq(S), NEW t \in Seq(S)
  PROVE  IsPrefix(s, s \o t)
<1>1. Len(s) \in Nat /\ Len(t) \in Nat /\ Len(s) \in Int
  BY LenProperties
<1>2. /\ s \o t \in Seq(S) /\ Len(s \o t) = Len(s) + Len(t)
      /\ \A i \in 1 .. Len(s) + Len(t) : (s \o t)[i] = IF i <= Len(s) THEN s[i] ELSE t[i - Len(s)]
  BY ConcatProperties
<1>3. Len(s) <= Len(s \o t) /\ Len(s) \in 0 .. Len(s \o t) /\ Len(s) \in 0 .. Len(s)
  BY <1>1, <1>2
<1>. DEFINE n == Len(s)
            a == SubSeq(s, 1, n)
            b == SubSeq(s \o t, 1, n)
<1>4. a \in Seq(S) /\ Len(a) = n /\ \A i \in 1 .. n : a[i] = s[i]
  BY <1>3, FirstPart
<1>5. b \in Seq(S) /\ Len(b) = n /\ \A i \in 1 .. n : b[i] = (s \o t)[i]
  BY <1>2, <1>3, FirstPart
<1>6. \A i \in 1 .. n : a[i] = b[i]
  BY <1>1, <1>2, <1>4, <1>5
<1>. HIDE DEF a, b
<1>7. a = b
  BY <1>4, <1>5, <1>6, SeqEqual
<1>. QED BY <1>3, <1>7 DEF IsPrefix, a, b
-----------------------------------------------------------------------------
(* Induction up to n, over the set of the numbers that have the property   *)
LEMMA UpTo ==
  ASSUME NEW n \in Nat, NEW S, 0 \in S, \A k \in 1 .. n : k - 1 \in S => k \in S
  PROVE  0 .. n \subseteq S
<1>. DEFINE T == (0 .. n) \ S
<1>1. SUFFICES ASSUME T # {} PROVE FALSE
  OBVIOUS
<1>2. T \in SUBSET Nat
  OBVIOUS
<1>3. PICK m \in T : \A k \in T : m <= k
  <2>. HIDE DEF T
  <2>. QED BY <1>1, <1>2, SmallestOf
<1>4. m \in 1 .. n /\ m - 1 \in 0 .. n /\ ~(m <= m - 1) /\ m \notin S
  BY <1>3
<1>5. m - 1 \notin T
  BY <1>3, <1>4
<1>6. m - 1 \in S
  BY <1>4, <1>5
<1>. QED BY <1>4, <1>6

(* What is computed step by step exists: a value for the start, and for    *)
(* each number one from that of the number before.                         *)
Computes(g, V, n, b, step) ==
    g \in [0 .. n -> V] /\ g[0] = b /\ \A k \in 1 .. n : g[k] = step[<<k, g[k - 1]>>]

LEMMA StepByStep ==
  ASSUME NEW V, NEW n \in Nat, NEW b \in V, NEW step \in [(1 .. n) \X V -> V]
  PROVE  \E g : Computes(g, V, n, b, step)
<1>. DEFINE Good(m, g) == g[0] = b /\ \A k \in 1 .. m : g[k] = step[<<k, g[k - 1]>>]
            S == {m \in 0 .. n : \E g \in [0 .. m -> V] : Good(m, g)}
<1>1. 0 \in S
  <2>. DEFINE g == [k \in 0 .. 0 |-> b]
  <2>1. g \in [0 .. 0 -> V] /\ Good(0, g)
    OBVIOUS
  <2>. HIDE DEF g, Good
  <2>. QED BY <2>1
<1>2. ASSUME NEW m \in 1 .. n, m - 1 \in S PROVE m \in S
  <2>1. PICK g \in [0 .. m - 1 -> V] : Good(m - 1, g)
    BY <1>2
  <2>. DEFINE h == [k \in 0 .. m |-> IF k = m THEN step[<<m, g[m - 1]>>] ELSE g[k]]
  <2>2. /\ m - 1 \in 0 .. m - 1 /\ m \in 0 .. m /\ m # m - 1 /\ m - 1 \in 0 .. m /\ 0 \in 0 .. m /\ 0 # m
        /\ \A k \in 0 .. m : k # m => k \in 0 .. m - 1
        /\ \A k \in 1 .. m : k # m => k \in 1 .. m - 1 /\ k - 1 \in 0 .. m /\ k - 1 # m /\ k \in 0 .. m
    OBVIOUS
  <2>3. step[<<m, g[m - 1]>>] \in V
    BY <2>2
  <2>4. h \in [0 .. m -> V]
    BY <2>2, <2>3
  <2>5. h[0] = b
    BY <2>1, <2>2
  <2>6. ASSUME NEW k \in 1 .. m PROVE h[k] = step[<<k, h[k - 1]>>]
    <3>1. CASE k = m
      BY <2>2, <3>1
    <3>2. CASE k # m
      BY <2>1, <2>2, <3>2
    <3>. QED BY <3>1, <3>2
  <2>. HIDE DEF h
  <2>7. Good(m, h)
    BY <2>5, <2>6
  <2>. HIDE DEF Good
  <2>. QED BY <2>4, <2>7
<1>3. n \in S
  <2>. HIDE DEF S
  <2>1. 0 .. n \subseteq S
    BY <1>1, <1>2, UpTo
  <2>. QED BY <2>1
<1>4. PICK g \in [0 .. n -> V] : Good(n, g)
  BY <1>3
<1>5. Computes(g, V, n, b, step)
  BY <1>4 DEF Computes
<1>. QED BY <1>5

(* ... and stays among the values.                                         *)
LEMMA StepsStay ==
  ASSUME NEW V, NEW n \in Nat, NEW f, f = [k \in 0 .. n |-> f[k]],
         f[0] \in V, \A k \in 1 .. n : f[k - 1] \in V => f[k] \in V
  PROVE  f \in [0 .. n -> V]
<1>. DEFINE S == {k \in 0 .. n : f[k] \in V}
<1>1. 0 \in S /\ \A k \in 1 .. n : k - 1 \in S => k \in S
  OBVIOUS
<1>. HIDE DEF S
<1>2. 0 .. n \subseteq S
  BY <1>1, UpTo
<1>3. \A k \in 0 .. n : f[k] \in V
  BY <1>2 DEF S
<1>. QED BY <1>3

(* The numbers of a set, from the smallest on                              *)
LEMMA NthFacts ==
  ASSUME NEW n \in Nat, NEW K \in SUBSET (1 .. n)
  PROVE  /\ IsFiniteSet(K) /\ Cardinality(K) \in Nat /\ Cardinality(K) <= n
         /\ \A i \in 1 .. Cardinality(K) : NthOf(K, i) \in K
         /\ \A i \in 1 .. Cardinality(K) : Cardinality({j \in K : j <= NthOf(K, i)}) = i
         /\ \A i, j \in 1 .. Cardinality(K) : i < j => NthOf(K, i) < NthOf(K, j)
         /\ \A k \in K : \E i \in 1 .. Cardinality(K) : NthOf(K, i) = k
<1>. DEFINE UpToK(k) == {j \in K : j <= k}
            rank == [k \in K |-> Cardinality(UpToK(k))]
            m == Cardinality(K)
<1>1. IsFiniteSet(K) /\ m \in Nat /\ m <= n
  <2>1. IsFiniteSet(1 .. n) /\ Cardinality(1 .. n) = n
    <3>1. Cardinality(1 .. n) = IF 1 > n THEN 0 ELSE n - 1 + 1
      BY FS_Interval
    <3>. QED BY <3>1, FS_Interval
  <2>. QED BY <2>1, FS_Subset, FS_CardinalityType
<1>2. ASSUME NEW k \in K
      PROVE  IsFiniteSet(UpToK(k)) /\ rank[k] = Cardinality(UpToK(k)) /\ rank[k] \in 1 .. m
  <2>1. UpToK(k) \in SUBSET K /\ k \in UpToK(k)
    OBVIOUS
  <2>. HIDE DEF UpToK
  <2>2. IsFiniteSet(UpToK(k)) /\ Cardinality(UpToK(k)) <= m /\ Cardinality(UpToK(k)) \in Nat
        /\ Cardinality(UpToK(k)) # 0
    BY <1>1, <2>1, FS_Subset, FS_CardinalityType, FS_EmptySet
  <2>3. rank[k] = Cardinality(UpToK(k))
    OBVIOUS
  <2>. HIDE DEF rank, m
  <2>. QED BY <1>1, <2>2, <2>3
<1>3. ASSUME NEW k \in K, NEW l \in K, k < l PROVE rank[k] < rank[l]
  <2>1. UpToK(k) \in SUBSET UpToK(l) /\ l \in UpToK(l) /\ l \notin UpToK(k)
    <3>1. k \in Int /\ l \in Int /\ ~(l <= k) /\ l <= l
      BY <1>3
    <3>2. ASSUME NEW x \in K, x <= k PROVE x <= l
      <4>1. x \in Int
        OBVIOUS
      <4>. QED BY <1>3, <3>1, <3>2, <4>1
    <3>. QED BY <3>1, <3>2
  <2>2. UpToK(k) # UpToK(l)
    BY <2>1
  <2>. HIDE DEF UpToK, rank
  <2>3. Cardinality(UpToK(k)) <= Cardinality(UpToK(l)) /\ Cardinality(UpToK(k)) # Cardinality(UpToK(l))
    BY <1>2, <2>1, <2>2, FS_Subset
  <2>4. rank[k] \in 1 .. m /\ rank[l] \in 1 .. m
    BY <1>2
  <2>. QED BY <1>1, <1>2, <2>3, <2>4
<1>4. rank \in [K -> 1 .. m]
  <2>1. rank = [k \in K |-> rank[k]]
    OBVIOUS
  <2>. HIDE DEF rank
  <2>. QED BY <1>2, <2>1
<1>. HIDE DEF rank, m
<1>5. \A k, l \in K : rank[k] = rank[l] => k = l
  <2>. TAKE k, l \in K
  <2>1. k < l \/ l < k \/ k = l
    OBVIOUS
  <2>. QED BY <1>3, <1>4, <2>1
<1>6. \A i \in 1 .. m : \E k \in K : rank[k] = i
  <2>1. rank \in Injection(K, 1 .. m)
    BY <1>4, <1>5 DEF Injection, IsInjective
  <2>2. IsFiniteSet(1 .. m) /\ Cardinality(1 .. m) = Cardinality(K)
    <3>1. Cardinality(1 .. m) = (IF 1 > m THEN 0 ELSE m - 1 + 1) /\ IsFiniteSet(1 .. m)
      BY <1>1, FS_Interval
    <3>2. m = IF 1 > m THEN 0 ELSE m - 1 + 1
      BY <1>1
    <3>. QED BY <3>1, <3>2 DEF m
  <2>3. rank \in Surjection(K, 1 .. m)
    BY <2>1, <2>2, FS_Injection
  <2>. QED BY <2>3 DEF Surjection
<1>7. ASSUME NEW i \in 1 .. m PROVE NthOf(K, i) \in K /\ rank[NthOf(K, i)] = i
  <2>1. \E k \in K : Cardinality({j \in K : j <= k}) = i
    BY <1>2, <1>6
  <2>2. NthOf(K, i) \in K /\ Cardinality(UpToK(NthOf(K, i))) = i
    BY <2>1 DEF NthOf
  <2>. HIDE DEF UpToK
  <2>. QED BY <1>2, <2>2
<1>8. ASSUME NEW i \in 1 .. m, NEW j \in 1 .. m, i < j PROVE NthOf(K, i) < NthOf(K, j)
  <2>1. NthOf(K, i) \in K /\ NthOf(K, j) \in K /\ rank[NthOf(K, i)] = i /\ rank[NthOf(K, j)] = j
    BY <1>7
  <2>. DEFINE a == NthOf(K, i)
              c == NthOf(K, j)
  <2>2. a < c \/ c < a \/ a = c
    <3>1. a \in 1 .. n /\ c \in 1 .. n
      BY <2>1
    <3>. HIDE DEF a, c
    <3>. QED BY <3>1
  <2>3. c < a => rank[c] < rank[a]
    BY <1>3, <2>1
  <2>. HIDE DEF a, c
  <2>. QED BY <1>1, <1>8, <2>1, <2>2, <2>3 DEF a, c
<1>9. ASSUME NEW k \in K PROVE \E i \in 1 .. m : NthOf(K, i) = k
  <2>1. rank[k] \in 1 .. m /\ NthOf(K, rank[k]) \in K /\ rank[NthOf(K, rank[k])] = rank[k]
    BY <1>4, <1>7
  <2>. QED BY <1>5, <2>1
<1>10. ASSUME NEW i \in 1 .. m PROVE Cardinality({j \in K : j <= NthOf(K, i)}) = i
  BY <1>2, <1>7
<1>. QED BY <1>1, <1>7, <1>8, <1>9, <1>10 DEF m

(* A number that is larger than all others comes after them, which stay    *)
(* where they are.                                                         *)
LEMMA NthStays ==
  ASSUME NEW n \in Nat, NEW K \in SUBSET (1 .. n), NEW x \in 1 .. n, \A k \in K : k < x,
         NEW L, L = K \cup {x}, NEW i \in 1 .. Cardinality(K)
  PROVE  NthOf(L, i) = NthOf(K, i) /\ NthOf(K, i) \in K
<1>. DEFINE m == Cardinality(K)
            In(k) == Cardinality({j \in K : j <= k})
            At(k) == Cardinality({j \in L : j <= k})
<1>1. IsFiniteSet(K) /\ m \in Nat /\ x \notin K
  <2>1. x \notin K
    OBVIOUS
  <2>. QED BY <2>1, NthFacts
<1>2. L \in SUBSET (1 .. n) /\ Cardinality(L) = m + 1
  BY <1>1, FS_AddElement
<1>3. \A k \in K : At(k) = In(k)
  <2>1. ASSUME NEW k \in K PROVE {j \in L : j <= k} = {j \in K : j <= k}
    <3>1. ~(x <= k)
      BY <1>2
    <3>. QED BY <3>1
  <2>. QED BY <2>1
<1>4. At(x) = m + 1
  <2>1. \A k \in L : k <= x
    BY <1>2
  <2>2. {j \in L : j <= x} = L
    BY <2>1
  <2>. QED BY <1>2, <2>2
<1>. QED
  <2>. DEFINE y == NthOf(K, i)
  <2>1. y \in K /\ In(y) = i
    BY NthFacts
  <2>2. At(y) = i /\ y \in L
    BY <1>3, <2>1
  <2>3. PICK h \in 1 .. m + 1 : NthOf(L, h) = y
    <3>1. \A k \in L : \E h \in 1 .. Cardinality(L) : NthOf(L, h) = k
      BY <1>2, NthFacts
    <3>. HIDE DEF y, m
    <3>. QED BY <1>2, <2>2, <3>1
  <2>4. At(NthOf(L, h)) = h
    BY <1>2, <2>3, NthFacts
  <2>5. h = i
    BY <2>2, <2>3, <2>4
  <2>. QED BY <2>1, <2>3, <2>5

LEMMA NthLast ==
  ASSUME NEW n \in Nat, NEW K \in SUBSET (1 .. n), NEW x \in 1 .. n, \A k \in K : k < x,
         NEW L, L = K \cup {x}
  PROVE  /\ Cardinality(K) \in Nat /\ Cardinality(L) = Cardinality(K) + 1
         /\ NthOf(L, Cardinality(K) + 1) = x
<1>. DEFINE m == Cardinality(K)
<1>1. m \in Nat /\ x \notin K /\ IsFiniteSet(K)
  <2>1. x \notin K
    OBVIOUS
  <2>. QED BY <2>1, NthFacts
<1>2. L \in SUBSET (1 .. n) /\ Cardinality(L) = m + 1
  BY <1>1, FS_AddElement
<1>3. PICK i \in 1 .. m + 1 : NthOf(L, i) = x
  <2>1. \A k \in L : \E h \in 1 .. Cardinality(L) : NthOf(L, h) = k
    BY <1>2, NthFacts
  <2>. QED BY <1>2, <2>1
<1>4. i \notin 1 .. m
  <2>1. ASSUME i \in 1 .. m PROVE FALSE
    <3>1. NthOf(L, i) \in K
      BY <2>1, NthStays
    <3>. QED BY <1>1, <1>3, <3>1
  <2>. QED BY <2>1
<1>5. i = m + 1
  BY <1>1, <1>4
<1>. QED BY <1>1, <1>2, <1>3, <1>5

(* A filtered sequence: each element of it has a place in the sequence it  *)
(* comes from, the places ascend, and each place that was picked is one.   *)
LEMMA PickedFacts ==
  ASSUME NEW S, NEW s \in Seq(S), NEW K \in SUBSET DOMAIN s
  PROVE  LET c == Picked(s, K)
         IN  /\ c \in Seq(S) /\ Len(c) = Cardinality(K) /\ DOMAIN c = 1 .. Len(c)
             /\ Len(c) \in Nat /\ Len(c) <= Len(s)
             /\ \A i \in 1 .. Len(c) : NthOf(K, i) \in K /\ c[i] = s[NthOf(K, i)]
             /\ \A i, j \in 1 .. Len(c) : i < j => NthOf(K, i) < NthOf(K, j)
             /\ \A k \in K : \E i \in 1 .. Len(c) : NthOf(K, i) = k
             /\ ToSet(c) = {s[k] : k \in K}
<1>. DEFINE c == Picked(s, K)
            m == Cardinality(K)
<1>1. DOMAIN s = 1 .. Len(s) /\ Len(s) \in Nat
  BY LenProperties
<1>2. /\ m \in Nat /\ m <= Len(s)
      /\ \A i \in 1 .. m : NthOf(K, i) \in K
      /\ \A i, j \in 1 .. m : i < j => NthOf(K, i) < NthOf(K, j)
      /\ \A k \in K : \E i \in 1 .. m : NthOf(K, i) = k
  BY <1>1, NthFacts
<1>3. \A i \in 1 .. m : s[NthOf(K, i)] \in S
  BY <1>1, <1>2, ElementOfSeq
<1>4. c \in [1 .. m -> S] /\ \A i \in 1 .. m : c[i] = s[NthOf(K, i)]
  BY <1>3 DEF Picked
<1>. HIDE DEF c, m
<1>5. c \in Seq(S) /\ Len(c) = m /\ DOMAIN c = 1 .. m
  BY <1>2, <1>4, MappedSeq
<1>6. ToSet(c) = {s[k] : k \in K}
  BY <1>2, <1>4, <1>5 DEF ToSet
<1>. QED BY <1>1, <1>2, <1>4, <1>5, <1>6 DEF c, m
(* The elements of a finite set, one after the other                       *)
LEMMA SetAsSeq ==
  ASSUME NEW S, IsFiniteSet(S)
  PROVE  /\ Cardinality(S) \in Nat
         /\ SetToSeq(S) \in [1 .. Cardinality(S) -> S]
         /\ \A i, j \in 1 .. Cardinality(S) : SetToSeq(S)[i] = SetToSeq(S)[j] => i = j
<1>1. Cardinality(S) \in Nat
  BY FS_CardinalityType
<1>. DEFINE n == Cardinality(S)
<1>2. \E f \in [1 .. n -> S] : IsInjective(f)
  <2>1. ExistsBijection(1 .. n, S)
    BY FS_CardinalityType
  <2>2. PICK f \in Bijection(1 .. n, S) : TRUE
    BY <2>1 DEF ExistsBijection
  <2>. QED BY <2>2 DEF Bijection, Injection
<1>3. SetToSeq(S) \in [1 .. n -> S] /\ IsInjective(SetToSeq(S))
  BY <1>2 DEF SetToSeq
<1>4. DOMAIN SetToSeq(S) = 1 .. n
  BY <1>3
<1>. HIDE DEF n
<1>5. \A i, j \in 1 .. n : SetToSeq(S)[i] = SetToSeq(S)[j] => i = j
  BY <1>3, <1>4 DEF IsInjective
<1>. QED BY <1>1, <1>3, <1>5 DEF n

(* What is in a sequence that grew at its end                             *)
LEMMA ToSetAppend ==
  ASSUME NEW S, NEW s \in Seq(S), NEW x \in S
  PROVE  ToSet(Append(s, x)) = ToSet(s) \cup {x}
<1>1. /\ Append(s, x) \in Seq(S) /\ Len(Append(s, x)) = Len(s) + 1
      /\ \A i \in 1 .. Len(s) : Append(s, x)[i] = s[i]
      /\ Append(s, x)[Len(s) + 1] = x
  BY AppendProperties
<1>2. DOMAIN s = 1 .. Len(s) /\ DOMAIN Append(s, x) = 1 .. Len(s) + 1 /\ Len(s) \in Nat
  BY <1>1, LenProperties
<1>. DEFINE t == Append(s, x)
            n == Len(s)
<1>. HIDE DEF t, n
<1>3. /\ \A i \in 1 .. n + 1 : i \in 1 .. n \/ i = n + 1
      /\ \A i \in 1 .. n : i \in 1 .. n + 1
      /\ n + 1 \in 1 .. n + 1
  BY <1>2 DEF n
<1>4. ToSet(t) = ToSet(s) \cup {x}
  BY <1>1, <1>2, <1>3 DEF ToSet, t, n
<1>. QED BY <1>4 DEF t

LEMMA ToSetConcat ==
  ASSUME NEW S, NEW s \in Seq(S), NEW t \in Seq(S)
  PROVE  ToSet(s \o t) = ToSet(s) \cup ToSet(t)
<1>1. /\ s \o t \in Seq(S) /\ Len(s \o t) = Len(s) + Len(t)
      /\ \A i \in 1 .. Len(s) + Len(t) : (s \o t)[i] = IF i <= Len(s) THEN s[i] ELSE t[i - Len(s)]
  BY ConcatProperties
<1>2. /\ DOMAIN s = 1 .. Len(s) /\ DOMAIN t = 1 .. Len(t) /\ Len(s) \in Nat /\ Len(t) \in Nat
      /\ DOMAIN (s \o t) = 1 .. Len(s) + Len(t)
  BY <1>1, LenProperties
<1>. DEFINE u == s \o t
            n == Len(s)
            m == Len(t)
<1>. HIDE DEF u, n, m
<1>3. /\ \A i \in 1 .. n + m : (i \in 1 .. n /\ u[i] = s[i]) \/ (i - n \in 1 .. m /\ u[i] = t[i - n])
      /\ \A i \in 1 .. n : i \in 1 .. n + m /\ u[i] = s[i]
      /\ \A i \in 1 .. m : n + i \in 1 .. n + m /\ u[n + i] = t[i]
  <2>1. ASSUME NEW i \in 1 .. n + m PROVE (i \in 1 .. n /\ i <= n) \/ (i - n \in 1 .. m /\ ~(i <= n))
    BY <1>2 DEF n, m
  <2>2. ASSUME NEW i \in 1 .. n PROVE i \in 1 .. n + m /\ i <= n
    BY <1>2 DEF n, m
  <2>3. ASSUME NEW i \in 1 .. m PROVE n + i \in 1 .. n + m /\ ~(n + i <= n) /\ (n + i) - n = i
    BY <1>2 DEF n, m
  <2>4. \A i \in 1 .. n + m : u[i] = IF i <= n THEN s[i] ELSE t[i - n]
    BY <1>1 DEF u, n, m
  <2>. QED BY <2>1, <2>2, <2>3, <2>4
<1>4. DOMAIN s = 1 .. n /\ DOMAIN t = 1 .. m /\ DOMAIN u = 1 .. n + m
  BY <1>2 DEF u, n, m
<1>5. ToSet(u) = ToSet(s) \cup ToSet(t)
  BY <1>3, <1>4 DEF ToSet
<1>. QED BY <1>5 DEF u
-----------------------------------------------------------------------------
(* r holds elements of s, each of a place of its own.                      *)
PartOf(r, s) ==
    \E f \in [DOMAIN r -> DOMAIN s] :
        /\ \A i, j \in DOMAIN r : f[i] = f[j] => i = j
        /\ \A i \in DOMAIN r : r[i] = s[f[i]]

LEMMA PartOfPart ==
  ASSUME NEW q, NEW r, NEW s, PartOf(q, r), PartOf(r, s)
  PROVE  PartOf(q, s)
<1>1. PICK f \in [DOMAIN q -> DOMAIN r] :
        /\ \A i, j \in DOMAIN q : f[i] = f[j] => i = j
        /\ \A i \in DOMAIN q : q[i] = r[f[i]]
  BY DEF PartOf
<1>2. PICK g \in [DOMAIN r -> DOMAIN s] :
        /\ \A i, j \in DOMAIN r : g[i] = g[j] => i = j
        /\ \A i \in DOMAIN r : r[i] = s[g[i]]
  BY DEF PartOf
<1>. DEFINE h == [i \in DOMAIN q |-> g[f[i]]]
<1>3. h \in [DOMAIN q -> DOMAIN s]
  BY <1>1, <1>2
<1>4. \A i, j \in DOMAIN q : h[i] = h[j] => i = j
  BY <1>1, <1>2
<1>5. \A i \in DOMAIN q : q[i] = s[h[i]]
  BY <1>1, <1>2
<1>. HIDE DEF h
<1>. QED BY <1>3, <1>4, <1>5 DEF PartOf

LEMMA PickedIsPart ==
  ASSUME NEW S, NEW s \in Seq(S), NEW K \in SUBSET DOMAIN s
  PROVE  PartOf(Picked(s, K), s)
<1>. DEFINE c == Picked(s, K)
            h == [i \in DOMAIN c |-> NthOf(K, i)]
<1>1. /\ DOMAIN c = 1 .. Len(c) /\ Len(c) \in Nat
      /\ \A i \in 1 .. Len(c) : NthOf(K, i) \in K /\ c[i] = s[NthOf(K, i)]
      /\ \A i, j \in 1 .. Len(c) : i < j => NthOf(K, i) < NthOf(K, j)
  BY PickedFacts
<1>2. DOMAIN s = 1 .. Len(s) /\ Len(s) \in Nat
  BY LenProperties
<1>. HIDE DEF c
<1>3. h \in [DOMAIN c -> DOMAIN s] /\ \A i \in DOMAIN c : h[i] = NthOf(K, i) /\ h[i] \in 1 .. Len(s)
  BY <1>1, <1>2
<1>. HIDE DEF h
<1>4. ASSUME NEW i \in DOMAIN c, NEW j \in DOMAIN c, h[i] = h[j] PROVE i = j
  <2>1. h[i] \in Int /\ h[j] \in Int /\ i \in Int /\ j \in Int
    BY <1>1, <1>2, <1>3
  <2>2. ~(i < j) /\ ~(j < i)
    BY <1>1, <1>3, <1>4, <2>1
  <2>. QED BY <2>1, <2>2
<1>5. \A i \in DOMAIN c : c[i] = s[h[i]]
  BY <1>1, <1>3
<1>6. PartOf(c, s)
  BY <1>3, <1>4, <1>5 DEF PartOf
<1>. QED BY <1>6 DEF c

(* What is left without one element: part of the rest, and all of it       *)
LEMMA WithoutOneIsPart ==
  ASSUME NEW S, NEW s \in Seq(S), NEW k \in 1 .. Len(s)
  PROVE  /\ PartOf(RemoveAt(s, k), s)
         /\ \A j \in DOMAIN s : j # k => \E i \in DOMAIN RemoveAt(s, k) : RemoveAt(s, k)[i] = s[j]
         /\ \A i \in DOMAIN RemoveAt(s, k) : \E j \in DOMAIN s : j # k /\ RemoveAt(s, k)[i] = s[j]
<1>. DEFINE c == RemoveAt(s, k)
            n == Len(s)
            h == [i \in DOMAIN c |-> IF i < k THEN i ELSE i + 1]
<1>1. /\ DOMAIN c = 1 .. n - 1 /\ n \in Nat /\ DOMAIN s = 1 .. n
      /\ \A i \in 1 .. n - 1 :
           i \in 1 .. n /\ i + 1 \in 1 .. n /\ c[i] = IF i < k THEN s[i] ELSE s[i + 1]
  <2>1. DOMAIN s = 1 .. n /\ n \in Nat
    BY LenProperties
  <2>. QED BY <2>1, WithoutOne
<1>2. k \in 1 .. n
  OBVIOUS
<1>. HIDE DEF c, n
<1>3. h \in [DOMAIN c -> DOMAIN s] /\ \A i \in DOMAIN c : h[i] # k /\ c[i] = s[h[i]]
  <2>1. \A i \in DOMAIN c : h[i] \in 1 .. n /\ h[i] # k
    BY <1>1, <1>2
  <2>. QED BY <1>1, <2>1
<1>4. \A i, j \in DOMAIN c : h[i] = h[j] => i = j
  BY <1>1, <1>2
<1>5. ASSUME NEW j \in DOMAIN s, j # k PROVE \E i \in DOMAIN c : h[i] = j
  <2>1. CASE j < k
    <3>1. j \in 1 .. n - 1
      BY <1>1, <1>2, <2>1
    <3>. QED BY <1>1, <2>1, <3>1
  <2>2. CASE ~(j < k)
    <3>1. j - 1 \in 1 .. n - 1 /\ ~(j - 1 < k) /\ (j - 1) + 1 = j
      BY <1>1, <1>2, <1>5, <2>2
    <3>. QED BY <1>1, <3>1
  <2>. QED BY <2>1, <2>2
<1>. HIDE DEF h
<1>6. PartOf(c, s)
  BY <1>3, <1>4 DEF PartOf
<1>. QED BY <1>3, <1>5, <1>6 DEF c

(* What lies between two places of a sequence                              *)
LEMMA Between ==
  ASSUME NEW S, NEW s \in Seq(S), NEW a \in 1 .. Len(s) + 1, NEW b \in a - 1 .. Len(s)
  PROVE  /\ SubSeq(s, a, b) \in Seq(S) /\ Len(SubSeq(s, a, b)) = b - a + 1
         /\ DOMAIN SubSeq(s, a, b) = 1 .. b - a + 1
         /\ \A i \in a .. b : i - a + 1 \in 1 .. b - a + 1 /\ SubSeq(s, a, b)[i - a + 1] = s[i]
<1>1. Len(s) \in Nat /\ a \in Int /\ b \in Int /\ a >= 1 /\ b >= a - 1 /\ b <= Len(s)
  <2>1. Len(s) \in Nat
    BY LenProperties
  <2>. QED BY <2>1
<1>2. \A i \in a .. b : s[i] \in S
  <2>1. \A i \in a .. b : i \in 1 .. Len(s)
    BY <1>1
  <2>. QED BY <2>1, ElementOfSeq
<1>3. /\ SubSeq(s, a, b) \in Seq(S)
      /\ Len(SubSeq(s, a, b)) = IF a <= b THEN b - a + 1 ELSE 0
      /\ \A i \in 1 .. b - a + 1 : SubSeq(s, a, b)[i] = s[a + i - 1]
  BY <1>1, <1>2, SubSeqProperties
<1>4. (IF a <= b THEN b - a + 1 ELSE 0) = b - a + 1
  BY <1>1
<1>. DEFINE c == SubSeq(s, a, b)
<1>5. c \in Seq(S) /\ Len(c) = b - a + 1 /\ \A i \in 1 .. b - a + 1 : c[i] = s[a + i - 1]
  BY <1>3, <1>4
<1>. HIDE DEF c
<1>6. DOMAIN c = 1 .. b - a + 1
  BY <1>5, LenProperties
<1>7. \A i \in a .. b : i - a + 1 \in 1 .. b - a + 1 /\ c[i - a + 1] = s[i]
  <2>1. \A i \in a .. b : i - a + 1 \in 1 .. b - a + 1 /\ a + (i - a + 1) - 1 = i
    BY <1>1
  <2>. QED BY <1>5, <2>1
<1>. QED BY <1>5, <1>6, <1>7 DEF c
=============================================================================
