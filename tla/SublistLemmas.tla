--------------------------- MODULE SublistLemmas ---------------------------
(***************************************************************************)
(* What Sublist(s, I) is: the elements of s at the positions in I, each    *)
(* once and in their order.  The models of loops that take elements off a  *)
(* list rest on it.  Also what other proofs share: least and largest       *)
(* numbers, induction, how a function on numbers is made step by step, and *)
(* how sequences look after \o and SubSeq.                                 *)
(***************************************************************************)
EXTENDS Sublists, FiniteSetTheorems, TLAPS

(* Induction over the natural numbers: a set of them has a least one.      *)
LEMMA LeastNat ==
  ASSUME NEW T \in SUBSET Nat, T # {}
  PROVE  \E n \in T : \A m \in T : n <= m
  <1> DEFINE R == StrictSubsetOrdering(Nat)
             U == {1 .. n : n \in T}
  <1>1. U \subseteq FiniteSubsetsOf(Nat)
    <2> SUFFICES ASSUME NEW n \in T
                 PROVE  1 .. n \in FiniteSubsetsOf(Nat)
      OBVIOUS
    <2>1. IsFiniteSet(1 .. n)
      BY FS_Interval
    <2> QED
      BY <2>1 DEF FiniteSubsetsOf
  <1>2. IsWellFoundedOn(R, FiniteSubsetsOf(Nat))
    BY FS_StrictSubsetOrderingWellFounded
  <1>3. U # {}
    OBVIOUS
  <1>4. \E x \in U : \A y \in U : ~(<<y, x>> \in R)
    <2> HIDE DEF R, U
    <2> QED
      BY <1>1, <1>2, <1>3, WFMin
  <1>5. PICK n \in T : \A m \in T : ~(<<1 .. m, 1 .. n>> \in R)
    BY <1>4
  <1>6. ASSUME NEW m \in T, m < n
        PROVE  FALSE
    <2>1. 1 .. m \subseteq 1 .. n /\ n \in 1 .. n /\ n \notin 1 .. m
      BY <1>6
    <2>2. <<1 .. m, 1 .. n>> \in R
      BY <2>1 DEF StrictSubsetOrdering
    <2> QED
      BY <1>5, <2>2
  <1> QED
    BY <1>6

(* Induction along a sequence of that length.                              *)
LEMMA Counting ==
  ASSUME NEW N \in Nat, NEW T, 0 \in T, \A n \in 1 .. N : n - 1 \in T => n \in T
  PROVE  \A n \in 0 .. N : n \in T
<1> DEFINE U == {n \in 0 .. N : n \notin T}
<1>1. SUFFICES ASSUME NEW i \in U
               PROVE  FALSE
  OBVIOUS
<1>2. U \in SUBSET Nat
  OBVIOUS
<1>3. PICK n \in U : \A m \in U : n <= m
  <2> HIDE DEF U
  <2> QED
    BY <1>1, <1>2, LeastNat
<1>4. n \in 1 .. N
  BY <1>3
<1>5. n - 1 \in T
  BY <1>3, <1>4
<1> QED
  BY <1>3, <1>4, <1>5

(* The largest of some numbers, 0 if there are none.                       *)
LEMMA Largest ==
  ASSUME NEW N \in Nat, NEW S \in SUBSET (1 .. N)
  PROVE  \E n \in S \union {0} : \A i \in S : i <= n
<1> DEFINE T == {N - i : i \in S \union {0}}
<1>1. T \in SUBSET Nat /\ T # {}
  OBVIOUS
<1>2. PICK m \in T : \A j \in T : m <= j
  <2> HIDE DEF T
  <2> QED
    BY <1>1, LeastNat
<1>3. PICK n \in S \union {0} : m = N - n
  BY <1>2
<1>4. ASSUME NEW i \in S
      PROVE  i <= n
  <2>1. m <= N - i
    BY <1>2
  <2> QED
    BY <1>3, <2>1
<1> QED
  BY <1>4

Iterable(S) ==
  \A N \in Nat : \A t \in S : \A F \in [1 .. N -> [S -> S]] :
    \E f \in [0 .. N -> S] : f[0] = t /\ \A n \in 1 .. N : f[n] = F[n][f[n - 1]]

(* There is a sequence of them, each made of the one before, so that a     *)
(* function defined by recursion over 0 .. N exists.                       *)
LEMMA Recursion == \A S : Iterable(S)
<1> SUFFICES ASSUME NEW S, NEW N \in Nat, NEW t \in S, NEW F \in [1 .. N -> [S -> S]]
             PROVE  \E f \in [0 .. N -> S] : f[0] = t /\ \A n \in 1 .. N : f[n] = F[n][f[n - 1]]
  BY DEF Iterable
<1> DEFINE Made(n) == \E f \in [0 .. n -> S] :
                        f[0] = t /\ \A m \in 1 .. n : f[m] = F[m][f[m - 1]]
           T == {n \in 0 .. N : ~Made(n)}
<1>1. Made(0)
  <2>1. [m \in 0 .. 0 |-> t] \in [0 .. 0 -> S] /\ [m \in 0 .. 0 |-> t][0] = t
    OBVIOUS
  <2>2. \A m \in 1 .. 0 : FALSE
    OBVIOUS
  <2> QED
    BY <2>1, <2>2
<1>2. ASSUME NEW n \in 1 .. N, Made(n - 1)
      PROVE  Made(n)
  <2>1. PICK g \in [0 .. n - 1 -> S] :
          g[0] = t /\ \A m \in 1 .. n - 1 : g[m] = F[m][g[m - 1]]
    BY <1>2
  <2> DEFINE f == [m \in 0 .. n |-> IF m = n THEN F[n][g[n - 1]] ELSE g[m]]
  <2>2. n \in Nat /\ n # 0 /\ n - 1 \in 0 .. n - 1 /\ g[n - 1] \in S
    OBVIOUS
  <2>3. F[n][g[n - 1]] \in S
    BY <2>2
  <2>4. f \in [0 .. n -> S] /\ f[0] = t
    BY <2>1, <2>2, <2>3
  <2>5. ASSUME NEW m \in 1 .. n
        PROVE  f[m] = F[m][f[m - 1]]
    BY <2>1, <2>2
  <2> QED
    BY <2>4, <2>5
<1>3. ASSUME ~Made(N)
      PROVE  FALSE
  <2>1. T \in SUBSET Nat /\ N \in T
    BY <1>3
  <2> HIDE DEF Made
  <2>2. PICK n \in T : \A m \in T : n <= m
    <3> HIDE DEF T
    <3> QED
      BY <2>1, LeastNat
  <2>3. n \in 1 .. N /\ n - 1 \in 0 .. N /\ n - 1 \notin T
    BY <1>1, <2>2
  <2>4. Made(n - 1) /\ ~Made(n)
    BY <2>2, <2>3
  <2> QED
    BY <1>2, <2>3, <2>4
<1> QED
  BY <1>3

(* How many numbers of I there are up to n.                                *)
UpTo(I, n) == {j \in I : j <= n}

Rank(I, n) == Cardinality(UpTo(I, n))

(* Going one further adds the number, if it is in the set.                 *)
LEMMA RankStep ==
  ASSUME NEW N \in Nat, NEW I \in SUBSET (1 .. N), NEW n \in Nat
  PROVE  /\ IsFiniteSet(UpTo(I, n)) /\ Rank(I, n) \in Nat
         /\ Cardinality(I) \in Nat /\ Rank(I, n) <= Cardinality(I)
         /\ n + 1 \in I => Rank(I, n + 1) = Rank(I, n) + 1
         /\ n + 1 \notin I => Rank(I, n + 1) = Rank(I, n)
  <1>0. IsFiniteSet(I) /\ \A j \in I : j \in Nat
    <2>1. IsFiniteSet(1 .. N)
      BY FS_Interval
    <2>2. IsFiniteSet(I)
      BY <2>1, FS_Subset, Zenon
    <2> QED
      BY <2>2
  <1>1. UpTo(I, n) \in SUBSET I
    BY DEF UpTo
  <1>2. /\ IsFiniteSet(UpTo(I, n)) /\ Rank(I, n) \in Nat
        /\ Cardinality(I) \in Nat /\ Rank(I, n) <= Cardinality(I)
    BY <1>0, <1>1, FS_Subset, FS_CardinalityType DEF Rank
  <1>3. ASSUME n + 1 \in I
        PROVE  Rank(I, n + 1) = Rank(I, n) + 1
    <2>1. \A j \in I : j <= n + 1 <=> j <= n \/ j = n + 1
      BY <1>0
    <2>2. n + 1 <= n + 1 /\ ~(n + 1 <= n)
      OBVIOUS
    <2>3. UpTo(I, n + 1) = UpTo(I, n) \union {n + 1} /\ n + 1 \notin UpTo(I, n)
      BY <1>3, <2>1, <2>2, Zenon DEF UpTo
    <2> QED
      BY <1>2, <2>3, FS_AddElement DEF Rank
  <1>4. ASSUME n + 1 \notin I
        PROVE  Rank(I, n + 1) = Rank(I, n)
    <2>1. \A j \in I : j <= n + 1 <=> j <= n
      BY <1>0, <1>4
    <2>2. UpTo(I, n + 1) = UpTo(I, n)
      BY <2>1 DEF UpTo
    <2> QED
      BY <2>2 DEF Rank
  <1> QED
    BY <1>2, <1>3, <1>4

(* Of two numbers of the set the greater one has the greater rank.         *)
LEMMA RankOrder ==
  ASSUME NEW N \in Nat, NEW I \in SUBSET (1 .. N), NEW i \in I, NEW j \in I, i < j
  PROVE  Rank(I, i) < Rank(I, j)
  <1>0. i \in Nat /\ j \in Nat /\ \A m \in I : m \in Nat
    OBVIOUS
  <1>1. j <= j /\ \A m \in I : m <= i => m <= j /\ m # j
    BY <1>0
  <1>2. UpTo(I, i) \subseteq UpTo(I, j) \ {j} /\ j \in UpTo(I, j)
    BY <1>1, Zenon DEF UpTo
  <1>3. IsFiniteSet(UpTo(I, j)) /\ Rank(I, i) \in Nat /\ Rank(I, j) \in Nat
    BY <1>0, RankStep
  <1>4. /\ IsFiniteSet(UpTo(I, j) \ {j})
        /\ Cardinality(UpTo(I, j) \ {j}) = Rank(I, j) - 1
    BY <1>2, <1>3, FS_RemoveElement DEF Rank
  <1>5. Rank(I, i) <= Cardinality(UpTo(I, j) \ {j})
    BY <1>2, <1>4, FS_Subset DEF Rank
  <1> QED
    BY <1>3, <1>4, <1>5

(* Nth() finds the number of that rank, and every number has its rank.     *)
LEMMA NthFacts ==
  ASSUME NEW N \in Nat, NEW I \in SUBSET (1 .. N)
  PROVE  /\ \A k \in 1 .. Cardinality(I) : Nth(I, k) \in I /\ Rank(I, Nth(I, k)) = k
         /\ \A i \in I : Rank(I, i) \in 1 .. Cardinality(I) /\ Nth(I, Rank(I, i)) = i
  <1>0. Cardinality(I) \in Nat /\ \A i \in I : i \in Nat /\ 1 <= i /\ i <= N
    BY RankStep
  <1>1. ASSUME NEW k \in 1 .. Cardinality(I)
        PROVE  Nth(I, k) \in I /\ Rank(I, Nth(I, k)) = k
    <2> DEFINE T == {n \in Nat : Rank(I, n) >= k}
    <2>1. N \in T
      <3>1. UpTo(I, N) = I
        BY <1>0 DEF UpTo
      <3> QED
        BY <1>0, <3>1 DEF Rank
    <2>2. PICK n \in T : \A m \in T : n <= m
      <3> HIDE DEF T
      <3>1. T \in SUBSET Nat
        BY DEF T
      <3> QED
        BY <2>1, <3>1, LeastNat
    <2>3. Rank(I, 0) = 0
      <3>1. \A i \in I : ~(i <= 0)
        BY <1>0
      <3>2. UpTo(I, 0) = {}
        BY <3>1 DEF UpTo
      <3> QED
        BY <3>2, FS_EmptySet DEF Rank
    <2>4. n \in Nat \ {0} /\ Rank(I, n) >= k
      BY <2>2, <2>3
    <2>5. n - 1 \in Nat /\ ~(Rank(I, n - 1) >= k)
      BY <2>2, <2>4
    <2>6. Rank(I, n - 1) \in Nat
      BY <1>0, <2>5, RankStep
    <2>7. n \in I /\ Rank(I, n) = k
      <3>1. n = (n - 1) + 1
        BY <2>4
      <3>2. (n \in I => Rank(I, n) = Rank(I, n - 1) + 1)
            /\ (n \notin I => Rank(I, n) = Rank(I, n - 1))
        <4> DEFINE m == n - 1
        <4>1. /\ m + 1 \in I => Rank(I, m + 1) = Rank(I, m) + 1
              /\ m + 1 \notin I => Rank(I, m + 1) = Rank(I, m)
          <5> HIDE DEF m
          <5>1. m \in Nat
            BY <2>5 DEF m
          <5> QED
            BY <5>1, RankStep
        <4> QED
          BY <3>1, <4>1
      <3> QED
        BY <2>4, <2>5, <2>6, <3>2
    <2>8. Cardinality({j \in I : j <= n}) = k
      BY <2>7 DEF Rank, UpTo
    <2> QED
      BY <2>7, <2>8 DEF Nth, Rank, UpTo
  <1>2. ASSUME NEW i \in I
        PROVE  Rank(I, i) \in 1 .. Cardinality(I) /\ Nth(I, Rank(I, i)) = i
    <2>1. i \in UpTo(I, i) /\ i \in Nat
      BY <1>0 DEF UpTo
    <2>2. IsFiniteSet(UpTo(I, i)) /\ Rank(I, i) \in Nat /\ Rank(I, i) <= Cardinality(I)
      BY <1>0, <2>1, RankStep
    <2>3. Rank(I, i) # 0
      BY <2>1, <2>2, FS_EmptySet DEF Rank
    <2>4. Rank(I, i) \in 1 .. Cardinality(I)
      BY <1>0, <2>2, <2>3
    <2> DEFINE j == Nth(I, Rank(I, i))
    <2>5. j \in I /\ Rank(I, j) = Rank(I, i)
      BY <1>1, <2>4
    <2> HIDE DEF j
    <2>6. j \in I /\ ~(Rank(I, i) < Rank(I, j)) /\ ~(Rank(I, j) < Rank(I, i))
      BY <2>2, <2>5
    <2>7. ~(i < j) /\ ~(j < i)
      BY <2>6, RankOrder
    <2>8. j \in Nat
      BY <1>0, <2>5
    <2>9. i = j
      BY <2>1, <2>7, <2>8
    <2> QED
      BY <2>4, <2>9 DEF j
  <1> QED
    BY <1>1, <1>2

----------------------------------------------------------------------------
(* A sublist has elements of the list only, those at the positions in I.   *)
LEMMA SublistFacts ==
  ASSUME NEW D, NEW s \in Seq(D), NEW I \in SUBSET DOMAIN s
  PROVE  /\ Sublist(s, I) \in Seq(D)
         /\ Len(Sublist(s, I)) = Cardinality(I) /\ Cardinality(I) \in Nat
         /\ Cardinality(I) <= Len(s)
         /\ \A k \in DOMAIN Sublist(s, I) : Nth(I, k) \in I /\ Sublist(s, I)[k] = s[Nth(I, k)]
         /\ \A i \in I : \E k \in DOMAIN Sublist(s, I) : Nth(I, k) = i
  <1>1. Len(s) \in Nat /\ DOMAIN s = 1 .. Len(s)
    OBVIOUS
  <1>2. /\ \A k \in 1 .. Cardinality(I) : Nth(I, k) \in I /\ Rank(I, Nth(I, k)) = k
        /\ \A i \in I : Rank(I, i) \in 1 .. Cardinality(I) /\ Nth(I, Rank(I, i)) = i
    BY <1>1, NthFacts
  <1>3. Cardinality(I) \in Nat /\ Cardinality(I) <= Len(s)
    <2>1. IsFiniteSet(1 .. Len(s)) /\ Cardinality(1 .. Len(s)) = Len(s)
      <3> DEFINE n == Len(s)
      <3>1. n \in Nat /\ 1 \in Int /\ n \in Int
        BY <1>1
      <3> HIDE DEF n
      <3>2. IsFiniteSet(1 .. n) /\ Cardinality(1 .. n) = IF 1 > n THEN 0 ELSE n - 1 + 1
        BY <3>1, FS_Interval
      <3> QED
        BY <3>1, <3>2 DEF n
    <2>2. I \in SUBSET (1 .. Len(s))
      BY <1>1
    <2> QED
      BY <2>1, <2>2, FS_Subset, FS_CardinalityType
  <1>4. \A i \in I : s[i] \in D
    BY <1>1
  <1>5. Sublist(s, I) \in [1 .. Cardinality(I) -> D]
    BY <1>2, <1>4 DEF Sublist
  <1>6. Sublist(s, I) \in Seq(D) /\ Len(Sublist(s, I)) = Cardinality(I)
    BY <1>3, <1>5
  <1>7. DOMAIN Sublist(s, I) = 1 .. Cardinality(I)
    BY <1>5
  <1>8. \A k \in DOMAIN Sublist(s, I) : Nth(I, k) \in I /\ Sublist(s, I)[k] = s[Nth(I, k)]
    BY <1>2, <1>7 DEF Sublist
  <1>9. \A i \in I : \E k \in DOMAIN Sublist(s, I) : Nth(I, k) = i
    BY <1>2, <1>7
  <1> QED
    BY <1>3, <1>6, <1>8, <1>9

(* The order is that of the list.                                          *)
LEMMA SublistOrder ==
  ASSUME NEW D, NEW s \in Seq(D), NEW I \in SUBSET DOMAIN s,
         NEW k \in DOMAIN Sublist(s, I), NEW l \in DOMAIN Sublist(s, I), k < l
  PROVE  Nth(I, k) < Nth(I, l)
  <1>1. Len(s) \in Nat /\ DOMAIN s = 1 .. Len(s)
    OBVIOUS
  <1>2. DOMAIN Sublist(s, I) = 1 .. Cardinality(I)
    BY DEF Sublist
  <1>3. \A m \in 1 .. Cardinality(I) : Nth(I, m) \in I /\ Rank(I, Nth(I, m)) = m
    BY <1>1, NthFacts
  <1>4. Nth(I, k) \in I /\ Nth(I, l) \in I /\ Rank(I, Nth(I, k)) = k /\ Rank(I, Nth(I, l)) = l
    BY <1>2, <1>3
  <1>5. ~(Nth(I, l) < Nth(I, k))
    <2>1. Cardinality(I) \in Nat
      BY SublistFacts
    <2>2. ~(l < k)
      BY <1>2, <2>1
    <2> QED
      BY <1>1, <1>4, <2>2, RankOrder
  <1>6. Nth(I, l) # Nth(I, k)
    <2>1. Cardinality(I) \in Nat
      BY SublistFacts
    <2> QED
      BY <1>2, <1>4, <2>1
  <1> QED
    BY <1>1, <1>4, <1>5, <1>6

----------------------------------------------------------------------------
(* Sequences put together, cut off at the front and extended by one.       *)
LEMMA ConcatFacts ==
  ASSUME NEW D, NEW a \in Seq(D), NEW b \in Seq(D)
  PROVE  /\ a \o b \in Seq(D) /\ Len(a \o b) = Len(a) + Len(b)
         /\ \A i \in DOMAIN a : i \in DOMAIN (a \o b) /\ (a \o b)[i] = a[i]
         /\ \A i \in DOMAIN b : Len(a) + i \in DOMAIN (a \o b) /\ (a \o b)[Len(a) + i] = b[i]
         /\ \A i \in DOMAIN (a \o b) : \/ i \in DOMAIN a
                                     \/ i - Len(a) \in DOMAIN b
  <1>1. a \o b \in Seq(D) /\ Len(a \o b) = Len(a) + Len(b)
    OBVIOUS
  <1>2. \A i \in DOMAIN a : i \in DOMAIN (a \o b) /\ (a \o b)[i] = a[i]
    OBVIOUS
  <1>3. \A i \in DOMAIN b : Len(a) + i \in DOMAIN (a \o b) /\ (a \o b)[Len(a) + i] = b[i]
    OBVIOUS
  <1> QED
    BY <1>1, <1>2, <1>3

LEMMA SubSeqFacts ==
  ASSUME NEW D, NEW s \in Seq(D), NEW n \in 0 .. Len(s)
  PROVE  /\ SubSeq(s, 1, n) \in Seq(D) /\ Len(SubSeq(s, 1, n)) = n
         /\ \A i \in 1 .. n : SubSeq(s, 1, n)[i] = s[i]
         /\ SubSeq(s, n + 1, Len(s)) \in Seq(D) /\ Len(SubSeq(s, n + 1, Len(s))) = Len(s) - n
         /\ \A i \in 1 .. Len(s) - n : SubSeq(s, n + 1, Len(s))[i] = s[n + i]
  <1>1. SubSeq(s, 1, n) \in Seq(D) /\ Len(SubSeq(s, 1, n)) = n
    OBVIOUS
  <1>2. \A i \in 1 .. n : SubSeq(s, 1, n)[i] = s[i]
    OBVIOUS
  <1>3. SubSeq(s, n + 1, Len(s)) \in Seq(D) /\ Len(SubSeq(s, n + 1, Len(s))) = Len(s) - n
    OBVIOUS
  <1>4. \A i \in 1 .. Len(s) - n : SubSeq(s, n + 1, Len(s))[i] = s[n + i]
    OBVIOUS
  <1> QED
    BY <1>1, <1>2, <1>3, <1>4
============================================================================
