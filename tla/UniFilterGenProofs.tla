------------------------- MODULE UniFilterGenProofs -------------------------
(***************************************************************************)
(* For all keys, values and underlying trees: a transaction looks as if it *)
(* had been committed, commit() leaves what it looked like but for what    *)
(* others change meanwhile, and callbacks tell of each change of it that   *)
(* set() does not pass over and others do not make behind commit(), and    *)
(* nothing else; a cache that has read everything agrees with the tree it  *)
(* is of; and for all intervals: UniRetryGen waits before it tries again.  *)
(***************************************************************************)
EXTENDS UniTransactionGen, UniRetryGen, UniCacheGen, SublistLemmas

Call == Key \X (Value \union {Null})

(* TempSet makes a tree of a tree.                                         *)
LEMMA TempSetType ==
  ASSUME NEW t \in Tree, NEW k \in Key, NEW v \in Value \union {Null}
  PROVE  TempSet(t, k, v) \in Tree
  BY ValueAssumption DEF TempSet, Stored, Removed, Tree

(* The trees that come about while a log is replayed.                      *)
LEMMA Replaying ==
  ASSUME NEW t \in Tree, NEW s \in Seq(Call)
  PROVE  \E f \in [0 .. Len(s) -> Tree] :
           /\ f[0] = t
           /\ \A n \in 1 .. Len(s) : f[n] = TempSet(f[n - 1], s[n][1], s[n][2])
           /\ Replayed(t, s) = f[Len(s)]
<1> DEFINE N == Len(s)
           F == [n \in 1 .. N |-> [u \in Tree |-> TempSet(u, s[n][1], s[n][2])]]
           after[n \in 0 .. Len(s)] ==
             IF n = 0 THEN t ELSE TempSet(after[n - 1], s[n][1], s[n][2])
<1>1. N \in Nat /\ \A n \in 1 .. N : s[n][1] \in Key /\ s[n][2] \in Value \union {Null}
  BY DEF Call
<1>2. F \in [1 .. N -> [Tree -> Tree]]
  BY <1>1, TempSetType
<1>3. PICK f \in [0 .. N -> Tree] : f[0] = t /\ \A n \in 1 .. N : f[n] = F[n][f[n - 1]]
  <2>1. N \in Nat
    BY <1>1
  <2> HIDE DEF F, N
  <2>2. \A G \in [1 .. N -> [Tree -> Tree]] :
          \E f \in [0 .. N -> Tree] : f[0] = t /\ \A n \in 1 .. N : f[n] = G[n][f[n - 1]]
    <3>1. Iterable(Tree)
      BY Recursion
    <3> QED
      BY <2>1, <3>1 DEF Iterable
  <2>3. F \in [1 .. N -> [Tree -> Tree]]
    BY <1>2
  <2> QED
    BY <2>2, <2>3, Zenon
<1>4. ASSUME NEW n \in 1 .. N
      PROVE  f[n] = TempSet(f[n - 1], s[n][1], s[n][2])
  <2>1. n - 1 \in 0 .. N
    BY <1>1
  <2>2. f[n - 1] \in Tree
    BY <1>3, <2>1
  <2>3. F[n] = [u \in Tree |-> TempSet(u, s[n][1], s[n][2])]
    OBVIOUS
  <2>4. F[n][f[n - 1]] = TempSet(f[n - 1], s[n][1], s[n][2])
    <3> HIDE DEF F
    <3> QED
      BY <2>2, <2>3, Zenon
  <2> QED
    BY <1>3, <2>4, Zenon
<1>5. f = [n \in 0 .. Len(s) |-> IF n = 0 THEN t ELSE TempSet(f[n - 1], s[n][1], s[n][2])]
  BY <1>3, <1>4
<1>6. after = [n \in 0 .. Len(s) |->
                IF n = 0 THEN t ELSE TempSet(after[n - 1], s[n][1], s[n][2])]
  BY <1>5, Zenon
<1>7. Replayed(t, s) = after[Len(s)]
  BY Zenon DEF Replayed
<1> QED
  OBVIOUS

(* A call more is a change more; without calls there is none.              *)
LEMMA ReplayedAppend ==
  ASSUME NEW t \in Tree, NEW s \in Seq(Call), NEW c \in Call
  PROVE  /\ Replayed(t, Append(s, c)) = TempSet(Replayed(t, s), c[1], c[2])
         /\ Replayed(t, s) \in Tree
<1> DEFINE N == Len(s)
           l == Append(s, c)
<1>1. /\ N \in Nat /\ l \in Seq(Call) /\ Len(l) = N + 1
      /\ l[N + 1] = c /\ \A n \in 1 .. N : l[n] = s[n]
  OBVIOUS
<1>2. PICK f \in [0 .. N -> Tree] :
        /\ f[0] = t
        /\ \A n \in 1 .. N : f[n] = TempSet(f[n - 1], s[n][1], s[n][2])
        /\ Replayed(t, s) = f[N]
  BY Replaying
<1> HIDE DEF l
<1>3. PICK g \in [0 .. Len(l) -> Tree] :
        /\ g[0] = t
        /\ \A n \in 1 .. Len(l) : g[n] = TempSet(g[n - 1], l[n][1], l[n][2])
        /\ Replayed(t, l) = g[Len(l)]
  BY <1>1, Replaying
<1> HIDE DEF N
<1>4. ASSUME NEW n \in 0 .. N, f[n] # g[n]
      PROVE  FALSE
  <2> DEFINE T == {m \in 0 .. N : f[m] # g[m]}
  <2>1. T \in SUBSET Nat /\ n \in T
    BY <1>1, <1>4
  <2>2. PICK m \in T : \A j \in T : m <= j
    <3> HIDE DEF T
    <3> QED
      BY <2>1, LeastNat
  <2>3. m \in 0 .. N /\ f[m] # g[m] /\ m # 0
    BY <1>2, <1>3, <2>2
  <2>4. m \in 1 .. N /\ m \in 1 .. Len(l) /\ m - 1 \in 0 .. N /\ m - 1 \notin T
    BY <1>1, <2>2, <2>3
  <2>5. f[m - 1] = g[m - 1]
    BY <2>4
  <2>6. f[m] = TempSet(f[m - 1], s[m][1], s[m][2]) /\ g[m] = TempSet(g[m - 1], l[m][1], l[m][2])
    BY <1>2, <1>3, <2>4
  <2>7. l[m] = s[m]
    BY <1>1, <2>4
  <2> HIDE DEF T
  <2> QED
    BY <2>3, <2>5, <2>6, <2>7, Zenon
<1>5. f[N] = g[N] /\ f[N] \in Tree
  BY <1>1, <1>4
<1>6. PICK j \in 1 .. Len(l) : j = N + 1 /\ j - 1 = N
  BY <1>1
<1>7. g[N + 1] = TempSet(g[N], c[1], c[2])
  <2>1. g[j] = TempSet(g[j - 1], l[j][1], l[j][2])
    BY <1>3
  <2> QED
    BY <1>1, <1>6, <2>1, Zenon
<1>8. Replayed(t, l) = TempSet(Replayed(t, s), c[1], c[2])
  BY <1>1, <1>2, <1>3, <1>5, <1>7, Zenon
<1> QED
  BY <1>2, <1>5, <1>8 DEF l

LEMMA ReplayedNothing ==
  ASSUME NEW t \in Tree
  PROVE  Replayed(t, <<>>) = t
<1>1. <<>> \in Seq(Call) /\ Len(<<>>) = 0
  OBVIOUS
<1>2. \A s \in Seq(Call) : \E f \in [0 .. Len(s) -> Tree] : f[0] = t /\ Replayed(t, s) = f[Len(s)]
  BY Replaying
<1>3. PICK f \in [0 .. Len(<<>>) -> Tree] : f[0] = t /\ Replayed(t, <<>>) = f[Len(<<>>)]
  BY <1>1, <1>2, Zenon
<1> QED
  BY <1>1, <1>3, Zenon

(* What lies above a key, and below it.                                    *)
LEMMA PathFacts ==
  ASSUME NEW k \in Key
  PROVE  /\ k \in PathTo(k) /\ k \in Subtree(k) /\ k \notin Above(k)
         /\ PathTo(k) = Above(k) \union {k} /\ Above(k) \subseteq Key
         /\ Subtree(k) \subseteq Key
         /\ \A p \in Above(k) : PathTo(p) \subseteq Above(k) /\ Above(p) \subseteq Above(k)
         /\ \A j \in Key : j \in Subtree(k) <=> k \in PathTo(j)
         /\ \A j \in Key : j \in Subtree(k) /\ j # k => k \in Above(j)
         /\ \A j \in Key : \A p \in PathTo(j) : p \in Subtree(k) => j \in Subtree(k)
         /\ \A p \in Above(k) : p \notin Subtree(k)
<1>1. k \in PathTo(k) /\ k \in Subtree(k) /\ k \notin Above(k)
  BY PrefixAssumption DEF PathTo, Subtree, Above
<1>2. PathTo(k) = Above(k) \union {k} /\ Above(k) \subseteq Key /\ Subtree(k) \subseteq Key
  BY <1>1 DEF Above, PathTo, Subtree
<1>3. ASSUME NEW p \in Above(k), NEW q \in PathTo(p)
      PROVE  q \in Above(k)
  BY <1>3, PrefixAssumption DEF PathTo, Above
<1>4. \A j \in Key : j \in Subtree(k) <=> k \in PathTo(j)
  BY DEF PathTo, Subtree
<1>5. \A j \in Key : \A p \in PathTo(j) : p \in Subtree(k) => j \in Subtree(k)
  BY PrefixAssumption DEF PathTo, Subtree
<1>6. \A p \in Above(k) : p \notin Subtree(k)
  BY PrefixAssumption DEF PathTo, Subtree, Above
<1>7. \A j \in Key : j \in Subtree(k) /\ j # k => k \in Above(j)
  BY <1>4 DEF Above
<1>8. \A p \in Above(k) : PathTo(p) \subseteq Above(k) /\ Above(p) \subseteq Above(k)
  BY <1>3 DEF Above
<1> QED
  BY <1>1, <1>2, <1>4, <1>5, <1>6, <1>7, <1>8

ClosedTree == {t \in Tree : PrefixClosed(t)}

(* set() keeps a tree a tree.                                              *)
LEMMA TempSetClosed ==
  ASSUME NEW t \in ClosedTree, NEW k \in Key, NEW v \in Value \union {Null}
  PROVE  TempSet(t, k, v) \in ClosedTree
<1>1. t \in Tree /\ PrefixClosed(t)
  BY DEF ClosedTree
<1>2. TempSet(t, k, v) \in Tree
  BY <1>1, ValueAssumption DEF TempSet, Stored, Removed, Tree
<1>3. SUFFICES ASSUME NEW q \in Key, TempSet(t, k, v)[q] # Null,
                      NEW p \in Key, <<p, q>> \in Prefix
               PROVE  TempSet(t, k, v)[p] # Null
  BY <1>2 DEF ClosedTree, PrefixClosed, Exists, PathTo
<1>4. \A q1 \in Key, p1 \in Key : t[q1] # Null /\ <<p1, q1>> \in Prefix => t[p1] # Null
  BY <1>1 DEF PrefixClosed, Exists, PathTo
<1>5. CASE v = Null
  <2>1. <<k, q>> \notin Prefix /\ t[q] # Null
    BY <1>3, <1>5 DEF TempSet, Removed, Subtree
  <2>2. <<k, p>> \notin Prefix
    BY <1>3, <2>1, PrefixAssumption
  <2>3. t[p] # Null
    BY <1>3, <1>4, <2>1
  <2> QED
    BY <1>5, <2>2, <2>3 DEF TempSet, Removed, Subtree
<1>6. CASE v # Null
  <2>1. TempSet(t, k, v)[p] = IF p = k THEN v
                              ELSE IF p \in PathTo(k) /\ t[p] = Null THEN Empty ELSE t[p]
    BY <1>6 DEF TempSet, Stored
  <2>2. CASE q \in PathTo(k)
    <3>1. p \in PathTo(k)
      BY <1>3, <2>2, PrefixAssumption DEF PathTo
    <3> QED
      BY <1>6, <2>1, <3>1, ValueAssumption
  <2>3. CASE q \notin PathTo(k)
    <3>1. q # k
      BY <2>3, PrefixAssumption DEF PathTo
    <3>2. t[q] # Null
      BY <1>3, <1>6, <2>3, <3>1 DEF TempSet, Stored
    <3> QED
      BY <1>3, <1>4, <1>6, <2>1, <3>2, ValueAssumption
  <2> QED
    BY <2>2, <2>3
<1> QED
  BY <1>5, <1>6

(* On the way to a key there is a child of each key above it.              *)
LEMMA ChildTowards ==
  ASSUME NEW p \in Key, NEW k \in Key, <<p, k>> \in Prefix, p # k
  PROVE  \E c \in Children(p) : <<c, k>> \in Prefix
<1> DEFINE B == {q \in Key : <<p, q>> \in Prefix /\ p # q /\ <<q, k>> \in Prefix}
           size(q) == Cardinality(PathTo(q))
           W == {size(q) : q \in B}
<1>1. \A q \in Key : IsFiniteSet(PathTo(q)) /\ size(q) \in Nat
  <2> SUFFICES ASSUME NEW q \in Key
               PROVE  IsFiniteSet(PathTo(q)) /\ size(q) \in Nat
    OBVIOUS
  <2>1. PathTo(q) \subseteq Key /\ IsFiniteSet(Key)
    BY KeyAssumption DEF PathTo
  <2>2. IsFiniteSet(PathTo(q))
    BY <2>1, FS_Subset, Zenon
  <2> QED
    BY <2>2, FS_CardinalityType, Zenon
<1>2. k \in B
  BY PrefixAssumption
<1>3. W \in SUBSET Nat /\ W # {}
  BY <1>1, <1>2
<1>4. PICK m \in W : \A n \in W : m <= n
  <2> HIDE DEF W
  <2> QED
    BY <1>3, LeastNat
<1>5. PICK c \in B : m = size(c)
  BY <1>4
<1>6. ASSUME NEW q \in PathTo(c), q # c
      PROVE  <<q, p>> \in Prefix
  <2>1. q \in Key /\ <<q, c>> \in Prefix /\ c \in Key /\ <<p, c>> \in Prefix
    BY <1>5, <1>6 DEF PathTo
  <2>2. SUFFICES ASSUME <<q, p>> \notin Prefix
                 PROVE  FALSE
    OBVIOUS
  <2>3. <<p, q>> \in Prefix /\ p # q
    BY <2>1, <2>2, PathAssumption, PrefixAssumption
  <2>4. q \in B
    BY <1>5, <2>1, <2>3, PrefixAssumption
  <2>5. size(c) <= size(q)
    BY <1>4, <1>5, <2>4
  <2>6. PathTo(q) \subseteq PathTo(c) /\ c \in PathTo(c) /\ c \notin PathTo(q)
    BY <1>6, <2>1, PrefixAssumption DEF PathTo
  <2>7. size(q) < size(c)
    <3>1. PathTo(q) # PathTo(c)
      BY <2>6
    <3>2. IsFiniteSet(PathTo(c))
      BY <1>1, <2>1
    <3>3. PathTo(q) \in SUBSET PathTo(c)
      BY <2>6
    <3>4. size(q) <= size(c) /\ (size(c) = size(q) => PathTo(c) = PathTo(q))
      BY <3>2, <3>3, FS_Subset
    <3> QED
      BY <1>1, <2>1, <3>1, <3>4
  <2> QED
    BY <1>1, <2>1, <2>5, <2>7
<1>7. c \in Children(p)
  BY <1>5, <1>6 DEF Children, Subtree
<1> QED
  BY <1>5, <1>7

(* The tree that is seen over the tree t.                                  *)
SeenOver(t) == [k \in Key |-> Seen(t, k)]

(* set() of a value creates what is missing above the key, in the changes  *)
(* as in the tree that is seen.                                            *)
LEMMA SetShape ==
  ASSUME TransactionInv, NEW k \in Key, NEW v \in Value, tx_set(k, v)
  PROVE  /\ mode' = [j \in Key |-> IF j \in Vivified(k) THEN "NEWNODE"
                                   ELSE IF j = k /\ ~Replaced(k) THEN "NEWVALUE"
                                   ELSE mode[j]]
         /\ new' = [j \in Key |-> IF j = k THEN v
                                  ELSE IF j \in Above(k) /\ Replaced(j) /\ new[j] = Null THEN Empty
                                  ELSE new[j]]
         /\ \A j \in Key : Replaced(j)' <=> Replaced(j)
<1>1. /\ mode \in [Key -> {"none", "NEWVALUE", "NEWTREE", "NEWNODE", "BLANK"}]
      /\ new \in Tree
  BY DEF TransactionInv, TransactionTypeOK
<1>2. mode' = [j \in Key |-> IF j \in Vivified(k) THEN "NEWNODE"
                             ELSE IF j = k /\ ~Replaced(k) THEN "NEWVALUE"
                             ELSE mode[j]]
  BY DEF tx_set
<1>3. new' = [j \in Key |-> IF j = k THEN v
                            ELSE IF j \in Above(k) /\ Replaced(j) /\ new[j] = Null THEN Empty
                            ELSE new[j]]
  <2>1. CASE Replaced(k)
    BY <2>1 DEF tx_set, set_value
  <2>2. CASE ~Replaced(k)
    <3>1. \A j \in Above(k) : ~Replaced(j)
      BY <2>2, PathFacts DEF Replaced
    <3>2. new' = [new EXCEPT ![k] = v]
      BY <2>2 DEF tx_set, change_value
    <3> QED
      BY <1>1, <3>1, <3>2 DEF Tree
  <2> QED
    BY <2>1, <2>2
<1>4. ASSUME NEW j \in Key
      PROVE  mode'[j] = "NEWTREE" <=> mode[j] = "NEWTREE"
  <2>1. j \in Vivified(k) => mode[j] # "NEWTREE"
    BY DEF Vivified
  <2>2. j = k /\ ~Replaced(k) => mode[j] # "NEWTREE"
    BY PathFacts DEF Replaced
  <2> QED
    BY <1>1, <1>2, <2>1, <2>2
<1>5. \A j \in Key : PathTo(j) \subseteq Key
  BY DEF PathTo
<1>6. \A j \in Key : Replaced(j)' <=> Replaced(j)
  BY <1>4, <1>5 DEF Replaced
<1> QED
  BY <1>2, <1>3, <1>6

(* What the invariant says of the nodes above a node.                      *)
LEMMA NodeFacts ==
  ASSUME TransactionInv
  PROVE  /\ mode \in [Key -> {"none", "NEWVALUE", "NEWTREE", "NEWNODE", "BLANK"}]
         /\ new \in Tree /\ tx_base \in Tree /\ tx_told \in Tree
         /\ was_null_or_empty \in [Key -> BOOLEAN] /\ log \in Seq(Call)
         /\ \A j \in Key : \A p \in PathTo(j) : Replaced(p) => Replaced(j)
         /\ \A j \in Key : mode[j] = "NEWTREE" => Replaced(j) /\ ~Creates(j)
         /\ \A j \in Key : mode[j] # "none" => \A p \in Above(j) : ~Replaced(p) /\ mode[p] # "none"
         /\ \A j \in Key : Creates(j) => ~Replaced(j)
<1>1. /\ mode \in [Key -> {"none", "NEWVALUE", "NEWTREE", "NEWNODE", "BLANK"}]
      /\ new \in Tree /\ tx_base \in Tree /\ tx_told \in Tree
      /\ was_null_or_empty \in [Key -> BOOLEAN] /\ log \in Seq(Call)
  BY DEF TransactionInv, TransactionTypeOK, Call
<1>2. \A j \in Key : mode[j] # "none" => \A p \in Above(j) : mode[p] \notin {"none", "NEWTREE"}
  BY DEF TransactionInv, TransactionTypeOK
<1>3. \A j \in Key : \A p \in PathTo(j) : PathTo(p) \subseteq PathTo(j) /\ p \in Key
  BY PrefixAssumption DEF PathTo
<1>4. \A j \in Key : \A p \in PathTo(j) : Replaced(p) => Replaced(j)
  BY <1>3 DEF Replaced
<1>5. \A j \in Key : mode[j] = "NEWTREE" => Replaced(j) /\ ~Creates(j)
  BY PathFacts DEF Replaced, Creates
<1>6. ASSUME NEW j \in Key, mode[j] # "none", NEW p \in Above(j), Replaced(p)
      PROVE  FALSE
  <2>1. PICK q \in PathTo(p) : mode[q] = "NEWTREE"
    BY <1>6 DEF Replaced
  <2>2. q \in Above(j)
    BY <2>1, PathFacts
  <2> QED
    BY <1>2, <1>6, <2>1, <2>2
<1>7. ASSUME NEW j \in Key, Creates(j), Replaced(j)
      PROVE  FALSE
  <2>1. PICK q \in PathTo(j) : mode[q] = "NEWTREE"
    BY <1>7 DEF Replaced
  <2>2. q # j /\ q \in Above(j) /\ mode[j] # "none"
    BY <1>7, <2>1 DEF Creates, Above
  <2> QED
    BY <1>2, <2>1, <2>2
<1> QED
  BY <1>1, <1>2, <1>4, <1>5, <1>6, <1>7

(* The picture after set() of a value is the picture with the value set.   *)
LEMMA SetSeen ==
  ASSUME TransactionInv, NEW k \in Key, NEW v \in Value, tx_set(k, v), NEW t \in Tree
  PROVE  SeenOver(t)' = TempSet(SeenOver(t), k, v)
<1>1. /\ mode' = [j \in Key |-> IF j \in Vivified(k) THEN "NEWNODE"
                                ELSE IF j = k /\ ~Replaced(k) THEN "NEWVALUE"
                                ELSE mode[j]]
      /\ new' = [j \in Key |-> IF j = k THEN v
                               ELSE IF j \in Above(k) /\ Replaced(j) /\ new[j] = Null THEN Empty
                               ELSE new[j]]
      /\ \A j \in Key : Replaced(j)' <=> Replaced(j)
  BY SetShape
<1>2. k \notin Above(k) /\ PathTo(k) = Above(k) \union {k}
  BY PathFacts
<1>3. /\ mode \in [Key -> {"none", "NEWVALUE", "NEWTREE", "NEWNODE", "BLANK"}]
      /\ \A j \in Key : mode[j] = "NEWTREE" => Replaced(j)
      /\ new \in Tree
  BY NodeFacts
<1>4. Empty # Null /\ v # Null
  BY ValueAssumption
<1>5. ASSUME NEW j \in Key
      PROVE  Seen(t, j)' = IF j = k THEN v
                           ELSE IF j \in PathTo(k) /\ Seen(t, j) = Null THEN Empty
                           ELSE Seen(t, j)
  <2>0. Seen(t, j)' = IF Replaced(j)' \/ mode'[j] = "NEWVALUE" THEN new'[j]
                      ELSE IF mode'[j] = "NEWNODE" /\ Unset(t[j]) THEN Empty
                      ELSE t[j]
    BY DEF Seen
  <2>1. CASE j = k
    <3>1. k \notin Vivified(k)
      BY <1>2 DEF Vivified
    <3> QED
      BY <1>1, <2>0, <2>1, <3>1
  <2>2. CASE j \in Above(k) /\ Replaced(j)
    <3>1. new'[j] = IF new[j] = Null THEN Empty ELSE new[j]
      BY <1>1, <1>2, <2>2
    <3> QED
      BY <1>1, <1>2, <2>0, <2>2, <3>1 DEF Seen
  <2>3. CASE j \in Vivified(k)
    <3>1. mode'[j] = "NEWNODE" /\ ~Replaced(j) /\ mode[j] \in {"none", "BLANK"} /\ j \in Above(k)
      BY <1>1, <2>3 DEF Vivified
    <3> QED
      BY <1>1, <1>2, <1>4, <2>0, <3>1 DEF Seen, Unset
  <2>4. CASE j \in Above(k) /\ ~Replaced(j) /\ j \notin Vivified(k)
    <3>1. mode[j] \in {"NEWVALUE", "NEWNODE"} /\ mode'[j] = mode[j] /\ new'[j] = new[j]
      BY <1>1, <1>2, <1>3, <2>4 DEF Vivified
    <3>2. mode[j] = "NEWVALUE" => new[j] # Null
      BY DEF TransactionInv, NewExists
    <3> QED
      BY <1>1, <1>2, <1>4, <2>0, <2>4, <3>1, <3>2 DEF Seen, Unset
  <2>5. CASE j \notin PathTo(k)
    <3>1. mode'[j] = mode[j] /\ new'[j] = new[j]
      BY <1>1, <1>2, <2>5 DEF Vivified
    <3> QED
      BY <1>1, <1>2, <2>0, <2>5, <3>1 DEF Seen
  <2> QED
    BY <1>2, <2>1, <2>2, <2>3, <2>4, <2>5
<1>6. SeenOver(t)' = [j \in Key |-> Seen(t, j)']
  BY DEF SeenOver
<1>7. TempSet(SeenOver(t), k, v)
        = [j \in Key |-> IF j = k THEN v
                         ELSE IF j \in PathTo(k) /\ Seen(t, j) = Null THEN Empty
                         ELSE Seen(t, j)]
  BY <1>4 DEF TempSet, Stored, SeenOver
<1> QED
  BY <1>5, <1>6, <1>7, Zenon

(* Callbacks tell trees.                                                   *)
LEMMA NotifyType ==
  ASSUME tx_told \in Tree, NEW D, NEW t \in Tree, NEW S, NotifyBut(D, t, S)
  PROVE  tx_told' \in Tree
  BY DEF NotifyBut, Tree

(* A call more leaves the picture what the calls make of the tree below,   *)
(* if it does so to the picture.                                           *)
LEMMA SeenNext ==
  ASSUME TransactionInv, NEW k \in Key, NEW v \in Value \union {Null},
         log' = Append(log, <<k, v>>),
         \A t \in Tree : SeenOver(t)' = TempSet(SeenOver(t), k, v)
  PROVE  SeenAsReplayed' /\ (log \in Seq(Key \X (Value \union {Null})))'
<1>1. log \in Seq(Call)
  BY NodeFacts
<1> DEFINE c == <<k, v>>
<1>2. c \in Call /\ c[1] = k /\ c[2] = v
  BY DEF Call
<1>3. (log \in Seq(Key \X (Value \union {Null})))'
  <2>1. log' \in Seq(Call)
    BY <1>1, <1>2
  <2> QED
    BY <2>1 DEF Call
<1>4. ASSUME NEW t \in Tree
      PROVE  SeenOver(t)' = Replayed(t, log')
  <2>1. SeenOver(t) = Replayed(t, log)
    BY DEF TransactionInv, SeenAsReplayed, SeenOver
  <2> HIDE DEF c
  <2>2. Replayed(t, Append(log, c)) = TempSet(Replayed(t, log), c[1], c[2])
    BY <1>1, <1>2, ReplayedAppend
  <2>3. log' = Append(log, c)
    BY DEF c
  <2> QED
    BY <1>2, <2>1, <2>2, <2>3
<1>5. SeenAsReplayed'
  BY <1>4, Zenon DEF SeenAsReplayed, SeenOver
<1> QED
  BY <1>3, <1>5

LEMMA SetKeeps ==
  ASSUME TransactionInv, NEW k \in Key, NEW v \in Value, tx_set(k, v)
  PROVE  TransactionInv'
<1>1. /\ mode' = [j \in Key |-> IF j \in Vivified(k) THEN "NEWNODE"
                                ELSE IF j = k /\ ~Replaced(k) THEN "NEWVALUE"
                                ELSE mode[j]]
      /\ new' = [j \in Key |-> IF j = k THEN v
                               ELSE IF j \in Above(k) /\ Replaced(j) /\ new[j] = Null THEN Empty
                               ELSE new[j]]
      /\ \A j \in Key : Replaced(j)' <=> Replaced(j)
  BY SetShape
<1>2. /\ k \notin Above(k) /\ PathTo(k) = Above(k) \union {k} /\ Above(k) \subseteq Key
      /\ \A p \in Above(k) : Above(p) \subseteq Above(k)
  BY PathFacts
<1>3. /\ mode \in [Key -> {"none", "NEWVALUE", "NEWTREE", "NEWNODE", "BLANK"}]
      /\ new \in Tree /\ tx_base \in Tree /\ tx_told \in Tree
      /\ was_null_or_empty \in [Key -> BOOLEAN]
      /\ \A j \in Key : \A p \in PathTo(j) : Replaced(p) => Replaced(j)
      /\ \A j \in Key : mode[j] = "NEWTREE" => Replaced(j) /\ ~Creates(j)
      /\ \A j \in Key : mode[j] # "none" => \A p \in Above(j) : ~Replaced(p) /\ mode[p] # "none"
  BY NodeFacts
<1>4. /\ Empty \in Value /\ Empty # Null /\ v # Null
      /\ \A j \in Key : Above(j) \subseteq Key /\ Above(j) \subseteq PathTo(j)
      /\ \A j \in Key : j \in PathTo(k) => PathTo(j) \subseteq PathTo(k)
      /\ \A j \in Key : PathTo(j) \subseteq Key
  BY ValueAssumption, PrefixAssumption DEF Above, PathTo
<1>5. ASSUME NEW p \in Above(k), ~Replaced(p)
      PROVE  Creates(p)'
  <2>1. mode[p] # "NEWTREE" /\ p \in Key /\ p # k
    BY <1>2, <1>3, <1>5
  <2>2. p \in Vivified(k) \/ mode[p] \in {"NEWVALUE", "NEWNODE"}
    BY <1>3, <1>5, <2>1 DEF Vivified
  <2> QED
    BY <1>1, <2>1, <2>2 DEF Creates
<1>6. ASSUME NEW p \in Key, Creates(p)
      PROVE  Creates(p)'
  BY <1>1, <1>6 DEF Creates
<1>7. ASSUME NEW j \in Key, j \in Vivified(k) \/ (j = k /\ ~Replaced(k)), NEW p \in Above(j)
      PROVE  Creates(p)'
  <2>1. p \in Above(k) /\ ~Replaced(j) /\ p \in PathTo(j)
    BY <1>2, <1>4, <1>7 DEF Vivified
  <2> QED
    BY <1>3, <1>5, <2>1
<1>8. TransactionTypeOK'
  <2>1. tx_base' \in Tree
    BY <1>3 DEF tx_set
  <2>2. new' \in Tree
    BY <1>1, <1>3, <1>4 DEF Tree
  <2>3. tx_told' \in Tree
    <3>1. [j \in Key |-> IF j = k THEN v ELSE Empty] \in Tree
      BY <1>4 DEF Tree
    <3>2. \E D, S : NotifyBut(D, [j \in Key |-> IF j = k THEN v ELSE Empty], S)
      BY Zenon DEF tx_set, set_value, change_value, Notify
    <3> QED
      BY <1>3, <3>1, <3>2, NotifyType
  <2>4. mode' \in [Key -> {"none", "NEWVALUE", "NEWTREE", "NEWNODE", "BLANK"}]
    BY <1>1, <1>3
  <2>5. was_null_or_empty' \in [Key -> BOOLEAN]
    <3>1. \A j \in Key : Unset(tx_base[j]) \in BOOLEAN
      BY DEF Unset
    <3> QED
      BY <1>3, <3>1 DEF tx_set
  <2>6. ASSUME NEW j \in Key, mode'[j] # "none", NEW p \in Above(j)
        PROVE  mode'[p] \notin {"none", "NEWTREE"}
    <3>1. CASE j \in Vivified(k) \/ (j = k /\ ~Replaced(k))
      BY <1>7, <3>1 DEF Creates
    <3>2. CASE ~(j \in Vivified(k) \/ (j = k /\ ~Replaced(k)))
      <4>1. p \in Key /\ mode[j] # "none"
        BY <1>1, <1>4, <2>6, <3>2
      <4>2. mode[p] \notin {"none", "NEWTREE"}
        BY <1>3, <2>6, <4>1
      <4> QED
        BY <1>1, <4>1, <4>2
    <3> QED
      BY <3>1, <3>2
  <2>7. /\ tx_left' = tx_left /\ committing' = committing /\ touched' = touched
        /\ tx_left \in [Key -> {"no", "apply", "list", "delete"}] /\ committing \in BOOLEAN
        /\ (~committing => tx_left = NothingLeft) /\ touched \subseteq Key
    BY DEF tx_set, TransactionInv, TransactionTypeOK
  <2> QED
    BY <2>1, <2>2, <2>3, <2>4, <2>5, <2>6, <2>7 DEF TransactionTypeOK
<1>9. CreatedAbove'
  <2>1. ASSUME NEW j \in Key, Creates(j)' \/ (mode'[j] = "NEWTREE" /\ new'[j] # Null),
               NEW p \in Above(j)
        PROVE  Creates(p)'
    <3>1. CASE j \in Vivified(k) \/ (j = k /\ ~Replaced(k))
      BY <1>7, <3>1
    <3>2. CASE ~(j \in Vivified(k) \/ (j = k /\ ~Replaced(k)))
      <4>1. p \in Key /\ mode'[j] = mode[j]
        BY <1>1, <1>4, <3>2
      <4>2. CASE Creates(j) \/ (mode[j] = "NEWTREE" /\ new[j] # Null)
        BY <1>6, <2>1, <4>1, <4>2 DEF TransactionInv, CreatedAbove
      <4>3. CASE ~(Creates(j) \/ (mode[j] = "NEWTREE" /\ new[j] # Null))
        <5>1. mode[j] = "NEWTREE" /\ new[j] = Null /\ new'[j] # Null
          BY <2>1, <4>1, <4>3 DEF Creates
        <5>2. j \in PathTo(k) /\ p \in Above(k)
          BY <1>1, <1>2, <2>1, <5>1
        <5>3. ~Replaced(p)
          BY <1>3, <2>1, <5>1
        <5> QED
          BY <1>5, <5>2, <5>3
      <4> QED
        BY <4>2, <4>3
    <3> QED
      BY <3>1, <3>2
  <2> QED
    BY <2>1 DEF CreatedAbove
<1>10. NewExists'
  <2>1. ASSUME NEW j \in Key, mode'[j] = "NEWVALUE"
        PROVE  new'[j] # Null
    <3>1. j # k => mode[j] = "NEWVALUE"
      BY <1>1, <2>1
    <3>2. j # k => new[j] # Null
      BY <3>1 DEF TransactionInv, NewExists
    <3> QED
      BY <1>1, <1>4, <3>2
  <2>2. ASSUME NEW j \in Key, Replaced(j)', new'[j] # Null, NEW p \in PathTo(j), Replaced(p)'
        PROVE  new'[p] # Null
    <3>1. p \in Key /\ Replaced(j) /\ Replaced(p)
      BY <1>1, <1>4, <2>2
    <3>2. CASE p \in PathTo(k)
      BY <1>1, <1>2, <1>4, <3>1, <3>2
    <3>3. CASE p \notin PathTo(k)
      <4>1. j \notin PathTo(k)
        BY <1>4, <2>2, <3>3
      <4>2. new'[j] = new[j] /\ new'[p] = new[p]
        BY <1>1, <1>2, <3>1, <3>3, <4>1
      <4> QED
        BY <2>2, <3>1, <4>2 DEF TransactionInv, NewExists
    <3> QED
      BY <3>2, <3>3
  <2> QED
    BY <2>1, <2>2 DEF NewExists
<1>11. SeenAsReplayed' /\ (log \in Seq(Key \X (Value \union {Null})))'
  <2>1. log' = Append(log, <<k, v>>)
    BY DEF tx_set
  <2> QED
    BY <2>1, SetSeen, SeenNext
<1> QED
  BY <1>8, <1>9, <1>10, <1>11 DEF TransactionInv

(* set() of null clears what is below the key in the changes, and leaves   *)
(* the meaning of all other nodes alone.                                   *)
LEMMA RemoveShape ==
  ASSUME TransactionInv, NEW k \in Key, tx_remove(k)
  PROVE  /\ mode' \in [Key -> {"none", "NEWVALUE", "NEWTREE", "NEWNODE", "BLANK"}]
         /\ new' = Removed(new, k)
         /\ \A j \in Subtree(k) :
              /\ Replaced(j)' /\ ~Creates(j)' /\ new'[j] = Null
              /\ mode'[j] # "none" => j = k \/ mode'[j] = mode[j]
         /\ \A j \in Key \ Subtree(k) :
              /\ Replaced(j)' <=> Replaced(j)
              /\ mode'[j] = mode[j] \/ (mode[j] = "none" /\ mode'[j] = "BLANK" /\ j \in Above(k))
              /\ new'[j] = new[j]
         /\ \A p \in Above(k) : mode'[k] # "none" => mode'[p] \notin {"none", "NEWTREE"}
<1>1. /\ mode \in [Key -> {"none", "NEWVALUE", "NEWTREE", "NEWNODE", "BLANK"}]
      /\ new \in Tree
      /\ \A j \in Key : \A p \in PathTo(j) : Replaced(p) => Replaced(j)
      /\ \A j \in Key : mode[j] = "NEWTREE" => Replaced(j)
      /\ \A j \in Key : mode[j] # "none" => \A p \in Above(j) : ~Replaced(p) /\ mode[p] # "none"
      /\ \A j \in Key : Creates(j) => ~Replaced(j)
  BY NodeFacts
<1>2. /\ k \in Subtree(k) /\ Subtree(k) \subseteq Key /\ Above(k) \subseteq Key
      /\ \A j \in Key : j \in Subtree(k) <=> k \in PathTo(j)
      /\ \A j \in Key : \A p \in PathTo(j) : p \in Subtree(k) => j \in Subtree(k)
      /\ \A p \in Above(k) : p \notin Subtree(k)
  BY PathFacts
<1>3. /\ \A j \in Key : PathTo(j) \subseteq Key
      /\ Above(k) \subseteq PathTo(k)
  BY DEF PathTo, Above
<1>4. new' = Removed(new, k)
  BY DEF tx_remove
<1>5. \A j \in Key : new'[j] = IF j \in Subtree(k) THEN Null ELSE new[j]
  BY <1>4 DEF Removed
<1>6. CASE Replaced(k)
  <2>1. mode' = mode
    BY <1>6 DEF tx_remove
  <2>2. \A j \in Key : Replaced(j)' <=> Replaced(j)
    BY <2>1 DEF Replaced
  <2>3. \A j \in Subtree(k) : Replaced(j)
    BY <1>1, <1>2, <1>6
  <2>4. \A j \in Subtree(k) : ~Creates(j)'
    BY <1>1, <1>2, <2>1, <2>3 DEF Creates
  <2>5. \A p \in Above(k) : mode'[k] # "none" => mode'[p] \notin {"none", "NEWTREE"}
    BY <1>1, <1>2, <2>1
  <2> QED
    BY <1>1, <1>2, <1>4, <1>5, <2>1, <2>2, <2>3, <2>4, <2>5
<1>7. CASE ~Replaced(k)
  <2>1. mode' = [j \in Key |-> IF j = k THEN "NEWTREE"
                               ELSE IF j \in Subtree(k) THEN "none"
                               ELSE IF j \in Above(k) /\ mode[j] = "none" THEN "BLANK"
                               ELSE mode[j]]
    BY <1>7 DEF tx_remove
  <2>2. mode' \in [Key -> {"none", "NEWVALUE", "NEWTREE", "NEWNODE", "BLANK"}]
    BY <1>1, <2>1
  <2>3. \A j \in Subtree(k) : Replaced(j)' /\ ~Creates(j)'
    BY <1>2, <2>1 DEF Replaced, Creates
  <2>4. ASSUME NEW j \in Key \ Subtree(k)
        PROVE  /\ mode'[j] = mode[j] \/ (mode[j] = "none" /\ mode'[j] = "BLANK" /\ j \in Above(k))
               /\ mode'[j] = "NEWTREE" <=> mode[j] = "NEWTREE"
    BY <1>2, <2>1
  <2>5. ASSUME NEW j \in Key \ Subtree(k)
        PROVE  Replaced(j)' <=> Replaced(j)
    <3>1. \A q \in PathTo(j) : q \in Key \ Subtree(k)
      BY <1>2, <1>3
    <3> QED
      BY <2>4, <3>1 DEF Replaced
  <2>6. \A p \in Above(k) : mode'[p] \notin {"none", "NEWTREE"}
    BY <1>1, <1>2, <1>3, <1>7, <2>1
  <2>7. \A j \in Subtree(k) : mode'[j] # "none" => j = k
    BY <1>2, <2>1
  <2> QED
    BY <1>4, <1>5, <1>2, <2>2, <2>3, <2>4, <2>5, <2>6, <2>7
<1> QED
  BY <1>6, <1>7

LEMMA RemoveKeeps ==
  ASSUME TransactionInv, NEW k \in Key, tx_remove(k)
  PROVE  TransactionInv'
<1>1. /\ mode' \in [Key -> {"none", "NEWVALUE", "NEWTREE", "NEWNODE", "BLANK"}]
      /\ new' = Removed(new, k)
      /\ \A j \in Subtree(k) :
           /\ Replaced(j)' /\ ~Creates(j)' /\ new'[j] = Null
           /\ mode'[j] # "none" => j = k \/ mode'[j] = mode[j]
      /\ \A j \in Key \ Subtree(k) :
           /\ Replaced(j)' <=> Replaced(j)
           /\ mode'[j] = mode[j] \/ (mode[j] = "none" /\ mode'[j] = "BLANK" /\ j \in Above(k))
           /\ new'[j] = new[j]
      /\ \A p \in Above(k) : mode'[k] # "none" => mode'[p] \notin {"none", "NEWTREE"}
  BY RemoveShape
<1>2. /\ mode \in [Key -> {"none", "NEWVALUE", "NEWTREE", "NEWNODE", "BLANK"}]
      /\ new \in Tree /\ tx_base \in Tree /\ tx_told \in Tree
      /\ was_null_or_empty \in [Key -> BOOLEAN]
      /\ \A j \in Key : mode[j] # "none" => \A p \in Above(j) : ~Replaced(p) /\ mode[p] # "none"
      /\ \A j \in Key : mode[j] = "NEWTREE" => Replaced(j)
  BY NodeFacts
<1>3. /\ k \in Subtree(k) /\ Subtree(k) \subseteq Key
      /\ \A j \in Key : \A p \in PathTo(j) : p \in Subtree(k) => j \in Subtree(k)
      /\ \A p \in Above(k) : p \notin Subtree(k) /\ Above(p) \subseteq Above(k)
  BY PathFacts
<1>4. \A j \in Key : Above(j) \subseteq PathTo(j) /\ PathTo(j) \subseteq Key
  BY DEF Above, PathTo
<1>5. ASSUME NEW p \in Key, mode[p] \notin {"none", "NEWTREE"}, p \notin Subtree(k)
      PROVE  mode'[p] = mode[p]
  BY <1>1, <1>5
<1>6. TransactionTypeOK'
  <2>1. tx_base' \in Tree /\ new' \in Tree
    BY <1>1, <1>2 DEF tx_remove, Removed, Tree
  <2>2. tx_told' \in Tree
    <3>1. EmptyTree \in Tree
      BY DEF EmptyTree, Tree
    <3>2. \E D, S : NotifyBut(D, EmptyTree, S)
      BY Zenon DEF tx_remove, Notify
    <3> QED
      BY <1>2, <3>1, <3>2, NotifyType
  <2>3. was_null_or_empty' \in [Key -> BOOLEAN]
    <3>1. CASE Replaced(k)
      BY <1>2, <3>1 DEF tx_remove
    <3>2. CASE ~Replaced(k)
      <4>1. was_null_or_empty' = [j \in Key |-> j \notin Subtree(k) /\ was_null_or_empty[j]]
        BY <3>2 DEF tx_remove
      <4> QED
        BY <1>2, <4>1
    <3> QED
      BY <3>1, <3>2
  <2>4. ASSUME NEW j \in Key, mode'[j] # "none", NEW p \in Above(j)
        PROVE  mode'[p] \notin {"none", "NEWTREE"}
    <3>1. CASE j = k
      BY <1>1, <2>4, <3>1
    <3>2. CASE j # k /\ mode'[j] = mode[j]
      <4>1. p \in Key /\ mode[p] \notin {"none", "NEWTREE"}
        BY <1>2, <1>4, <2>4, <3>2
      <4>2. CASE p \in Subtree(k)
        <5>1. j \in Subtree(k)
          BY <1>3, <1>4, <2>4, <4>2
        <5>2. mode'[p] # "none" => p = k \/ mode'[p] = mode[p]
          BY <1>1, <4>2
        <5>3. CASE Replaced(k)
          BY <1>2, <2>4, <3>2, <4>1, <5>3 DEF tx_remove
        <5>4. CASE ~Replaced(k)
          BY <2>4, <3>2, <5>1, <5>4 DEF tx_remove
        <5> QED
          BY <5>3, <5>4
      <4>3. CASE p \notin Subtree(k)
        BY <1>5, <4>1, <4>3
      <4> QED
        BY <4>2, <4>3
    <3>3. CASE j # k /\ mode'[j] # mode[j]
      <4>1. j \in Above(k)
        BY <1>1, <2>4, <3>3
      <4>2. p \in Above(k)
        BY <1>3, <2>4, <4>1
      <4>3. mode'[k] # "none"
        <5>1. CASE Replaced(k)
          BY <3>3, <5>1 DEF tx_remove
        <5>2. CASE ~Replaced(k)
          BY <5>2 DEF tx_remove
        <5> QED
          BY <5>1, <5>2
      <4> QED
        BY <1>1, <4>2, <4>3
    <3> QED
      BY <3>1, <3>2, <3>3
  <2>7. /\ tx_left' = tx_left /\ committing' = committing /\ touched' = touched
        /\ tx_left \in [Key -> {"no", "apply", "list", "delete"}] /\ committing \in BOOLEAN
        /\ (~committing => tx_left = NothingLeft) /\ touched \subseteq Key
    BY DEF tx_remove, TransactionInv, TransactionTypeOK
  <2> QED
    BY <1>1, <2>1, <2>2, <2>3, <2>4, <2>7 DEF TransactionTypeOK
<1>7. CreatedAbove'
  <2>1. ASSUME NEW j \in Key, Creates(j)' \/ (mode'[j] = "NEWTREE" /\ new'[j] # Null),
               NEW p \in Above(j)
        PROVE  Creates(p)'
    <3>1. j \notin Subtree(k) /\ p \notin Subtree(k) /\ p \in Key
      BY <1>1, <1>3, <1>4, <2>1
    <3>2. mode'[j] = mode[j] /\ new'[j] = new[j]
      BY <1>1, <2>1, <3>1 DEF Creates
    <3>3. Creates(p)
      BY <2>1, <3>2 DEF TransactionInv, CreatedAbove, Creates
    <3> QED
      BY <1>5, <3>1, <3>3 DEF Creates
  <2> QED
    BY <2>1 DEF CreatedAbove
<1>8. NewExists'
  <2>1. ASSUME NEW j \in Key, mode'[j] = "NEWVALUE"
        PROVE  new'[j] # Null
    <3>1. j \notin Subtree(k)
      BY <1>1, <2>1 DEF Creates
    <3>2. mode[j] = "NEWVALUE" /\ new'[j] = new[j]
      BY <1>1, <2>1, <3>1
    <3> QED
      BY <3>2 DEF TransactionInv, NewExists
  <2>2. ASSUME NEW j \in Key, Replaced(j)', new'[j] # Null, NEW p \in PathTo(j), Replaced(p)'
        PROVE  new'[p] # Null
    <3>1. j \notin Subtree(k)
      BY <1>1, <2>2
    <3>2. p \notin Subtree(k) /\ p \in Key
      BY <1>3, <1>4, <3>1, <2>2
    <3>3. Replaced(j) /\ Replaced(p) /\ new'[j] = new[j] /\ new'[p] = new[p]
      BY <1>1, <2>2, <3>1, <3>2
    <3> QED
      BY <2>2, <3>3 DEF TransactionInv, NewExists
  <2> QED
    BY <2>1, <2>2 DEF NewExists
<1>9. ASSUME NEW t \in Tree
      PROVE  SeenOver(t)' = TempSet(SeenOver(t), k, Null)
  <2>1. ASSUME NEW j \in Key
        PROVE  Seen(t, j)' = IF j \in Subtree(k) THEN Null ELSE Seen(t, j)
    <3>0. Seen(t, j)' = IF Replaced(j)' \/ mode'[j] = "NEWVALUE" THEN new'[j]
                        ELSE IF mode'[j] = "NEWNODE" /\ Unset(t[j]) THEN Empty
                        ELSE t[j]
      BY DEF Seen
    <3>1. CASE j \in Subtree(k)
      BY <1>1, <3>0, <3>1
    <3>2. CASE j \notin Subtree(k)
      <4>1. /\ Replaced(j)' <=> Replaced(j)
            /\ mode'[j] = "NEWVALUE" <=> mode[j] = "NEWVALUE"
            /\ mode'[j] = "NEWNODE" <=> mode[j] = "NEWNODE"
            /\ new'[j] = new[j]
        BY <1>1, <3>2
      <4> QED
        BY <3>0, <3>2, <4>1 DEF Seen
    <3> QED
      BY <3>1, <3>2
  <2>2. SeenOver(t)' = [j \in Key |-> Seen(t, j)']
    BY DEF SeenOver
  <2>3. TempSet(SeenOver(t), k, Null)
          = [j \in Key |-> IF j \in Subtree(k) THEN Null ELSE Seen(t, j)]
    BY DEF TempSet, Removed, SeenOver
  <2> QED
    BY <2>1, <2>2, <2>3, Zenon
<1>10. SeenAsReplayed' /\ (log \in Seq(Key \X (Value \union {Null})))'
  <2>1. log' = Append(log, <<k, Null>>)
    BY DEF tx_remove
  <2> QED
    BY <1>9, <2>1, SeenNext
<1> QED
  BY <1>6, <1>7, <1>8, <1>10 DEF TransactionInv

(* Without change nodes the underlying tree is what is seen.               *)
LEMMA NothingChanged ==
  ASSUME NoChanges, log' = <<>>, tx_base' \in Tree, tx_told' \in Tree,
         tx_left' = NothingLeft, committing' = FALSE, touched' \subseteq Key
  PROVE  TransactionInv'
<1>1. /\ mode' = [k \in Key |-> "none"] /\ new' = [k \in Key |-> Null]
      /\ was_null_or_empty' = [k \in Key |-> FALSE]
  BY DEF NoChanges, NoChange, EmptyTree
<1>2. \A k \in Key : ~Replaced(k)' /\ ~Creates(k)' /\ mode'[k] = "none"
  BY <1>1 DEF Replaced, Creates, PathTo
<1>3. TransactionTypeOK'
  <2>1. new' \in Tree
    BY <1>1 DEF Tree
  <2>2. tx_left' \in [Key -> {"no", "apply", "list", "delete"}]
    BY DEF NothingLeft
  <2> QED
    BY <1>1, <2>1, <2>2 DEF TransactionTypeOK
<1>4. CreatedAbove' /\ NewExists'
  BY <1>2 DEF CreatedAbove, NewExists
<1>5. SeenAsReplayed'
  <2>1. ASSUME NEW t \in Tree
        PROVE  SeenOver(t)' = Replayed(t, log')
    <3>1. SeenOver(t)' = [k \in Key |-> t[k]]
      BY <1>2 DEF SeenOver, Seen
    <3>2. t = [k \in Key |-> t[k]]
      BY DEF Tree
    <3>3. Replayed(t, <<>>) = t
      BY ReplayedNothing
    <3> QED
      BY <3>1, <3>2, <3>3, Zenon
  <2> QED
    BY <2>1, Zenon DEF SeenAsReplayed, SeenOver
<1>6. (log \in Seq(Key \X (Value \union {Null})))'
  <2>1. <<>> \in Seq(Key \X (Value \union {Null}))
    OBVIOUS
  <2> QED
    BY <2>1
<1> QED
  BY <1>3, <1>4, <1>5, <1>6 DEF TransactionInv

LEMMA RefreshKeeps ==
  ASSUME TransactionInv, tx_refresh
  PROVE  TransactionInv'
<1>1. tx_base \in Tree /\ tx_told \in Tree /\ touched \subseteq Key
  BY NodeFacts DEF TransactionInv, TransactionTypeOK
<1>2. tx_base' \in Tree /\ tx_told' \in Tree
  <2>1. \E D, S : NotifyBut(D, tx_base, S)
    BY Zenon DEF tx_refresh, Notify
  <2>2. tx_base' = tx_base
    BY DEF tx_refresh
  <2> QED
    BY <1>1, <2>1, <2>2, NotifyType
<1>3. NoChanges /\ log' = <<>>
  BY Zenon DEF tx_refresh
<1>4. tx_left' = NothingLeft /\ committing' = FALSE /\ touched' \subseteq Key
  BY <1>1 DEF tx_refresh, TransactionInv, TransactionTypeOK
<1> QED
  BY <1>2, <1>3, <1>4, NothingChanged

(* The change tree and the calls stay, and the picture of every tree is    *)
(* right already.                                                          *)
LEMMA ChangesStay ==
  ASSUME TransactionInv, UNCHANGED <<mode, new, log>>,
         tx_base' \in Tree, tx_told' \in Tree, was_null_or_empty' \in [Key -> BOOLEAN],
         tx_left' \in [Key -> {"no", "apply", "list", "delete"}],
         committing' \in BOOLEAN, ~committing' => tx_left' = NothingLeft, touched' \subseteq Key
  PROVE  TransactionInv'
<1>1. TransactionTypeOK'
  BY DEF TransactionTypeOK, TransactionInv
<1>2. (\A j \in Key : Replaced(j)' <=> Replaced(j)) /\ (\A j \in Key : Creates(j)' <=> Creates(j))
  BY DEF Replaced, Creates
<1>3. CreatedAbove' /\ NewExists'
  <2>1. CreatedAbove /\ NewExists /\ mode' = mode /\ new' = new
    BY DEF TransactionInv
  <2>2. \A j \in Key : Above(j) \subseteq Key /\ PathTo(j) \subseteq Key
    BY DEF Above, PathTo
  <2>3. CreatedAbove'
    BY <1>2, <2>1, <2>2 DEF CreatedAbove
  <2>4. NewExists'
    BY <1>2, <2>1, <2>2 DEF NewExists
  <2> QED
    BY <2>3, <2>4
<1>4. SeenAsReplayed'
  <2>1. ASSUME NEW t \in Tree
        PROVE  SeenOver(t)' = SeenOver(t)
    BY <1>2 DEF SeenOver, Seen
  <2>2. \A t \in Tree : SeenOver(t) = Replayed(t, log)
    BY DEF TransactionInv, SeenAsReplayed, SeenOver
  <2>3. \A t \in Tree : SeenOver(t)' = Replayed(t, log')
    BY <2>1, <2>2
  <2> QED
    BY <2>3, Zenon DEF SeenAsReplayed, SeenOver
<1>5. (log \in Seq(Key \X (Value \union {Null})))'
  BY DEF TransactionInv
<1> QED
  BY <1>1, <1>3, <1>4, <1>5 DEF TransactionInv

(* So it does when the tree below becomes another one.                     *)
LEMMA BaseKeeps ==
  ASSUME TransactionInv, NEW t \in Tree, BaseBecomes(t),
         tx_left' \in [Key -> {"no", "apply", "list", "delete"}],
         committing' \in BOOLEAN, ~committing' => tx_left' = NothingLeft, touched' \subseteq Key
  PROVE  TransactionInv'
<1>1. /\ tx_told \in Tree /\ was_null_or_empty \in [Key -> BOOLEAN]
      /\ tx_base' = t /\ UNCHANGED <<mode, new, log>>
  BY NodeFacts DEF BaseBecomes
<1>2. tx_told' \in Tree
  <2> DEFINE u == [j \in Key |-> IF mode[j] = "NEWNODE" /\ t[j] = Null THEN Empty ELSE t[j]]
  <2>1. u \in Tree
    BY ValueAssumption DEF Tree
  <2>2. \E D, S : NotifyBut(D, u, S)
    BY Zenon DEF BaseBecomes, Notify
  <2> HIDE DEF u
  <2> QED
    BY <1>1, <2>1, <2>2, NotifyType
<1>3. was_null_or_empty' \in [Key -> BOOLEAN]
  <2>1. \A j \in Key : Unset(t[j]) \in BOOLEAN
    BY DEF Unset
  <2>2. was_null_or_empty' = [j \in Key |->
           IF mode[j] = "NEWNODE" /\ j \in Changed(tx_base, t)
             THEN Unset(t[j]) ELSE was_null_or_empty[j]]
    BY Zenon DEF BaseBecomes
  <2> QED
    BY <1>1, <2>1, <2>2
<1> QED
  BY <1>1, <1>2, <1>3, ChangesStay

LEMMA OtherKeeps ==
  ASSUME TransactionInv, NEW k \in Key, NEW v \in Value \union {Null}, tx_other(k, v)
  PROVE  TransactionInv'
<1> DEFINE t == TempSet(tx_base, k, v)
<1>1. t \in Tree
  BY NodeFacts, TempSetType
<1>2. BaseBecomes(t)
  BY DEF tx_other
<1>3. /\ tx_left' \in [Key -> {"no", "apply", "list", "delete"}]
      /\ committing' \in BOOLEAN /\ (~committing' => tx_left' = NothingLeft)
  BY DEF tx_other, TransactionInv, TransactionTypeOK
<1>4. touched' \subseteq Key
  BY DEF tx_other, Changed, TransactionInv, TransactionTypeOK
<1> HIDE DEF t
<1> QED
  BY <1>1, <1>2, <1>3, <1>4, BaseKeeps

----------------------------------------------------------------------------
(* The steps of commit().  A node that is applied is set() of the key, or  *)
(* nothing if the key is there.                                            *)
LEMMA ApplyIsSet ==
  ASSUME TransactionInv, NEW t \in Tree, NEW k \in Key
  PROVE  apply_changes(t, k) = t \/ \E v \in Value \union {Null} : apply_changes(t, k) = TempSet(t, k, v)
<1>1. Empty \in Value /\ Empty # Null
  BY ValueAssumption
<1>2. new[k] \in Value \union {Null}
  BY NodeFacts DEF Tree
<1>3. Stored(t, k, Empty) = TempSet(t, k, Empty)
  BY <1>1 DEF TempSet
<1> QED
  BY <1>1, <1>2, <1>3 DEF apply_changes

LEMMA CommitKeeps ==
  ASSUME TransactionInv,
         \/ tx_commit \/ tx_committed
         \/ \E k \in Key : tx_apply(k) \/ tx_list(k) \/ tx_delete(k)
  PROVE  TransactionInv'
<1>1. /\ tx_base \in Tree /\ tx_told \in Tree /\ was_null_or_empty \in [Key -> BOOLEAN]
      /\ tx_left \in [Key -> {"no", "apply", "list", "delete"}] /\ touched \subseteq Key
      /\ committing \in BOOLEAN /\ (~committing => tx_left = NothingLeft)
  BY DEF TransactionInv, TransactionTypeOK
<1>2. \A k \in Key : tx_left[k] # "no" => committing
  BY <1>1 DEF NothingLeft
<1>3. CASE tx_commit
  <2>1. tx_left' \in [Key -> {"no", "apply", "list", "delete"}]
    BY <1>3 DEF tx_commit
  <2> QED
    BY <1>1, <1>3, <2>1, ChangesStay DEF tx_commit, changevars
<1>4. CASE tx_committed
  BY <1>1, <1>4, NothingChanged DEF tx_committed
<1>5. ASSUME NEW k \in Key, tx_apply(k)
      PROVE  TransactionInv'
  <2> DEFINE t == apply_changes(tx_base, k)
  <2>1. t \in Tree
    BY <1>1, ApplyIsSet, TempSetType
  <2>2. BaseBecomes(t) /\ UNCHANGED <<committing, touched>>
    BY <1>5 DEF tx_apply, base_set
  <2>3. committing /\ tx_left' \in [Key -> {"no", "apply", "list", "delete"}]
    BY <1>1, <1>2, <1>5 DEF tx_apply
  <2> HIDE DEF t
  <2> QED
    BY <1>1, <2>1, <2>2, <2>3, BaseKeeps
<1>6. ASSUME NEW k \in Key, tx_list(k)
      PROVE  TransactionInv'
  <2>1. committing /\ tx_left' \in [Key -> {"no", "apply", "list", "delete"}]
    BY <1>1, <1>2, <1>6 DEF tx_list
  <2> QED
    BY <1>1, <1>6, <2>1, ChangesStay DEF tx_list, absvars, changevars
<1>7. ASSUME NEW k \in Key, tx_delete(k)
      PROVE  TransactionInv'
  <2> DEFINE t == Removed(tx_base, k)
  <2>1. t \in Tree
    BY <1>1 DEF Removed, Tree
  <2>2. BaseBecomes(t) /\ UNCHANGED <<committing, touched>>
    BY <1>7 DEF tx_delete, base_set
  <2>3. committing /\ tx_left' \in [Key -> {"no", "apply", "list", "delete"}]
    BY <1>1, <1>2, <1>7 DEF tx_delete
  <2> HIDE DEF t
  <2> QED
    BY <1>1, <2>1, <2>2, <2>3, BaseKeeps
<1> QED
  BY <1>3, <1>4, <1>5, <1>6, <1>7

LEMMA TransactionStart == TransactionInit => TransactionInv
<1> SUFFICES ASSUME TransactionInit
             PROVE  TransactionInv
  OBVIOUS
<1>1. /\ mode = [k \in Key |-> "none"] /\ new = [k \in Key |-> Null]
      /\ was_null_or_empty = [k \in Key |-> FALSE] /\ log = <<>>
      /\ tx_base \in Tree /\ tx_told \in Tree
      /\ tx_left = [k \in Key |-> "no"] /\ committing = FALSE /\ touched = {}
  BY InitTreeAssumption DEF TransactionInit, AbsInit, NoChange, NothingLeft, EmptyTree
<1>2. \A k \in Key : ~Replaced(k) /\ ~Creates(k) /\ mode[k] = "none"
  BY <1>1 DEF Replaced, Creates, PathTo
<1>3. TransactionTypeOK
  <2>1. new \in Tree
    BY <1>1 DEF Tree
  <2> QED
    BY <1>1, <2>1 DEF TransactionTypeOK, NothingLeft
<1>4. CreatedAbove /\ NewExists
  BY <1>2 DEF CreatedAbove, NewExists
<1>5. SeenAsReplayed
  <2>1. ASSUME NEW t \in Tree
        PROVE  SeenOver(t) = Replayed(t, log)
    <3>1. SeenOver(t) = [k \in Key |-> t[k]]
      BY <1>2 DEF SeenOver, Seen
    <3>2. t = [k \in Key |-> t[k]]
      BY DEF Tree
    <3>3. Replayed(t, <<>>) = t
      BY ReplayedNothing
    <3> QED
      BY <1>1, <3>1, <3>2, <3>3, Zenon
  <2> QED
    BY <2>1, Zenon DEF SeenAsReplayed, SeenOver
<1>6. log \in Seq(Key \X (Value \union {Null}))
  BY <1>1
<1> QED
  BY <1>3, <1>4, <1>5, <1>6 DEF TransactionInv

LEMMA TransactionStep == TransactionInv /\ [TransactionNext]_transactionvars => TransactionInv'
<1> SUFFICES ASSUME TransactionInv, [TransactionNext]_transactionvars
             PROVE  TransactionInv'
  OBVIOUS
<1>1. ASSUME NEW k \in Key, NEW v \in Value, tx_set(k, v)
      PROVE  TransactionInv'
  BY <1>1, SetKeeps
<1>2. ASSUME NEW k \in Key, tx_remove(k)
      PROVE  TransactionInv'
  BY <1>2, RemoveKeeps
<1>3. CASE \/ tx_commit \/ tx_committed
           \/ \E k \in Key : tx_apply(k) \/ tx_list(k) \/ tx_delete(k)
  BY <1>3, CommitKeeps
<1>4. CASE tx_refresh
  BY <1>4, RefreshKeeps
<1>5. ASSUME NEW k \in Key, NEW v \in Value \union {Null}, tx_other(k, v)
      PROVE  TransactionInv'
  BY <1>5, OtherKeeps
<1>6. CASE UNCHANGED transactionvars
  BY <1>6 DEF transactionvars, absvars, changevars, TransactionInv, TransactionTypeOK, CreatedAbove,
              NewExists, SeenAsReplayed, Seen, Replaced, Creates
<1> QED
  BY <1>1, <1>2, <1>3, <1>4, <1>5, <1>6 DEF TransactionNext

(* At all times the changes on top of any underlying tree look like the    *)
(* set() calls made on it: what UniConfChangeTree is for.                  *)
THEOREM TransactionInvariance == TransactionSpec => []TransactionInv
<1> QED
  BY TransactionStart, TransactionStep, PTL DEF TransactionSpec

(* "The results that you get are equivalent to the results that you would  *)
(* have gotten if you had called commit()", of get() and of iterator().    *)
LEMMA LooksCommitted == TransactionInv => AsIfCommitted
<1> SUFFICES ASSUME TransactionInv
             PROVE  AsIfCommitted
  OBVIOUS
<1> DEFINE t == Replayed(tx_base, log)
<1>1. /\ mode \in [Key -> {"none", "NEWVALUE", "NEWTREE", "NEWNODE", "BLANK"}]
      /\ tx_base \in Tree
      /\ \A j \in Key : \A p \in PathTo(j) : Replaced(p) => Replaced(j)
      /\ \A j \in Key : mode[j] = "NEWTREE" => Replaced(j)
      /\ \A j \in Key : Creates(j) => ~Replaced(j)
  BY NodeFacts
<1>2. t = SeenOver(tx_base)
  BY <1>1 DEF TransactionInv, SeenAsReplayed, SeenOver
<1>3. \A k \in Key : get(k) = t[k]
  BY <1>2 DEF SeenOver, get
<1> HIDE DEF t
<1>4. ASSUME NEW k \in Key
      PROVE  iterator(k) = {<<c, t[c]>> : c \in Existing(t, k)}
  <2> DEFINE changed == {c \in Children(k) : \/ mode[c] \in {"NEWVALUE", "NEWNODE"}
                                             \/ mode[c] = "NEWTREE" /\ new[c] # Null}
             others == {c \in Existing(tx_base, k) : mode[c] \in {"none", "BLANK"}}
  <2>1. \A c \in Children(k) : c \in Key /\ k \in PathTo(c) /\ PathTo(c) \subseteq {c} \union PathTo(k)
    BY DEF Children, Subtree, PathTo
  <2>2. iterator(k) = IF Replaced(k) THEN {<<c, new[c]>> : c \in Existing(new, k)}
                      ELSE {<<c, get(c)>> : c \in changed} \union {<<c, tx_base[c]>> : c \in others}
    BY DEF iterator
  <2>3. CASE Replaced(k)
    <3>1. \A c \in Children(k) : t[c] = new[c]
      BY <1>1, <1>3, <2>1, <2>3 DEF get, Seen
    <3>2. Existing(new, k) = Existing(t, k)
      BY <3>1 DEF Existing, Exists
    <3>3. \A c \in Existing(t, k) : new[c] = t[c]
      BY <3>1 DEF Existing
    <3> QED
      BY <2>2, <2>3, <3>2, <3>3
  <2>4. CASE ~Replaced(k)
    <3>1. ASSUME NEW c \in Children(k)
          PROVE  /\ c \in Existing(t, k) <=> c \in changed \union others
                 /\ c \in others => tx_base[c] = t[c]
      <4>1. c \in Key /\ t[c] = Seen(tx_base, c)
        BY <1>3, <2>1 DEF get
      <4>2. Replaced(c) <=> mode[c] = "NEWTREE"
        BY <1>1, <2>1, <2>4 DEF Replaced
      <4>3. CASE mode[c] = "NEWTREE"
        BY <4>1, <4>2, <4>3 DEF Seen, Existing, Exists
      <4>4. CASE mode[c] = "NEWVALUE"
        <5>1. new[c] # Null
          BY <4>1, <4>4 DEF TransactionInv, NewExists
        <5> QED
          BY <4>1, <4>4, <5>1 DEF Seen, Existing, Exists
      <4>5. CASE mode[c] = "NEWNODE"
        BY <4>1, <4>2, <4>5, ValueAssumption DEF Seen, Unset, Existing, Exists
      <4>6. CASE mode[c] \in {"none", "BLANK"}
        BY <4>1, <4>2, <4>6 DEF Seen, Existing, Exists
      <4> QED
        BY <1>1, <4>1, <4>3, <4>4, <4>5, <4>6
    <3>2. Existing(t, k) = changed \union others
      <4>1. Existing(t, k) \subseteq Children(k) /\ changed \subseteq Children(k)
            /\ others \subseteq Children(k)
        BY DEF Existing
      <4> HIDE DEF changed, others
      <4> QED
        BY <3>1, <4>1
    <3>3. (\A c \in changed : get(c) = t[c]) /\ (\A c \in others : tx_base[c] = t[c])
      <4>1. changed \subseteq Children(k) /\ others \subseteq Children(k)
        BY DEF Existing
      <4> HIDE DEF changed, others
      <4> QED
        BY <1>3, <2>1, <3>1, <4>1
    <3> HIDE DEF changed, others
    <3> QED
      BY <2>2, <2>4, <3>2, <3>3
  <2> QED
    BY <2>3, <2>4
<1> QED
  BY <1>3, <1>4 DEF AsIfCommitted, t

(* The class comment, at all times.                                        *)
THEOREM AlwaysAsIfCommitted == TransactionSpec => []AsIfCommitted
<1> QED
  BY TransactionInvariance, LooksCommitted, PTL

(* What exists on the way to a node that makes its key exist is seen, over *)
(* any tree.                                                               *)
LEMMA AboveSeen ==
  ASSUME TransactionInv, NEW k \in Key, Creates(k) \/ (Replaced(k) /\ new[k] # Null),
         NEW p \in Above(k)
  PROVE  /\ Creates(p) \/ (Replaced(p) /\ new[p] # Null)
         /\ \A t \in Tree : Seen(t, p) # Null
<1>1. /\ p \in Key /\ p \in PathTo(k) /\ p # k
      /\ \A j \in Key : PathTo(j) \subseteq Key
  BY DEF Above, PathTo
<1>2. CreatedAbove /\ NewExists
  BY DEF TransactionInv
<1>3. Creates(p) \/ (Replaced(p) /\ new[p] # Null)
  <2>1. CASE Creates(k)
    BY <1>2, <2>1 DEF CreatedAbove
  <2>2. CASE Replaced(p) /\ Replaced(k) /\ new[k] # Null
    BY <1>1, <1>2, <2>2 DEF NewExists
  <2>3. CASE ~Replaced(p) /\ Replaced(k) /\ new[k] # Null
    <3>1. PICK q \in PathTo(k) : mode[q] = "NEWTREE"
      BY <2>3 DEF Replaced
    <3>2. q \in Key /\ Replaced(q) /\ new[q] # Null
      BY <1>1, <1>2, <2>3, <3>1, NodeFacts DEF NewExists
    <3>3. q \notin PathTo(p)
      BY <2>3, <3>1 DEF Replaced
    <3>4. p \in Above(q)
      BY <1>1, <3>1, <3>2, <3>3, PathAssumption, PrefixAssumption DEF Above, PathTo
    <3> QED
      BY <1>2, <3>1, <3>2, <3>4 DEF CreatedAbove
  <2> QED
    BY <2>1, <2>2, <2>3
<1>4. ASSUME NEW t \in Tree
      PROVE  Seen(t, p) # Null
  BY <1>1, <1>2, <1>3, ValueAssumption, NodeFacts DEF Seen, Creates, Unset, NewExists
<1> QED
  BY <1>3, <1>4

(* No step of commit() changes the picture.                                *)
LEMMA ApplySeen ==
  ASSUME TransactionInv, NEW t \in Tree, NEW k \in ToApply, NEW j \in Key
  PROVE  Seen(apply_changes(t, k), j) = Seen(t, j)
<1>1. /\ k \in Key
      /\ mode[k] \in {"NEWVALUE", "NEWNODE", "NEWTREE"} \/ (Replaced(k) /\ new[k] # Null)
  BY DEF ToApply
<1>2. /\ mode[k] = "NEWTREE" => Replaced(k)
      /\ Creates(k) => ~Replaced(k)
      /\ \A i \in Key : \A p \in PathTo(i) : Replaced(p) => Replaced(i)
      /\ PathTo(k) = Above(k) \union {k} /\ Subtree(k) \subseteq Key
      /\ \A i \in Subtree(k) : k \in PathTo(i)
      /\ mode[k] = "NEWVALUE" => new[k] # Null
  BY <1>1, NodeFacts, PathFacts DEF TransactionInv, NewExists
<1>3. ASSUME NEW v, Creates(k) \/ (Replaced(k) /\ new[k] # Null),
             mode[k] = "NEWNODE" => t[k] = Null /\ v = Empty
      PROVE  Seen(Stored(t, k, v), j) = Seen(t, j)
  <2>1. Stored(t, k, v)[j] = IF j = k THEN v
                             ELSE IF j \in PathTo(k) /\ t[j] = Null THEN Empty ELSE t[j]
    BY DEF Stored
  <2>2. CASE j = k
    BY <1>1, <1>2, <1>3, <2>1, <2>2 DEF Seen, Creates, Unset
  <2>3. CASE j \in Above(k)
    BY <1>1, <1>3, <2>1, <2>3, AboveSeen DEF Seen, Creates, Unset
  <2>4. CASE j \notin PathTo(k)
    BY <1>2, <2>1, <2>4 DEF Seen
  <2> QED
    BY <1>2, <2>2, <2>3, <2>4
<1>4. CASE mode[k] = "NEWNODE"
  BY <1>3, <1>4 DEF apply_changes, Creates, Exists
<1>5. CASE mode[k] # "NEWNODE" /\ new[k] # Null
  <2>1. Creates(k) \/ (Replaced(k) /\ new[k] # Null)
    BY <1>1, <1>2, <1>5 DEF Creates
  <2>2. apply_changes(t, k) = Stored(t, k, new[k])
    BY <1>5 DEF apply_changes, TempSet
  <2> QED
    BY <1>3, <1>5, <2>1, <2>2
<1>6. CASE mode[k] # "NEWNODE" /\ new[k] = Null
  <2>1. Replaced(k)
    BY <1>1, <1>2, <1>6
  <2>2. apply_changes(t, k)[j] = IF j \in Subtree(k) THEN Null ELSE t[j]
    BY <1>6 DEF apply_changes, TempSet, Removed
  <2> QED
    BY <1>2, <2>1, <2>2 DEF Seen
<1> QED
  BY <1>4, <1>5, <1>6

LEMMA DeleteSeen ==
  ASSUME TransactionInv, NEW t \in Tree, NEW k \in Key, Replaced(k), NEW j \in Key
  PROVE  Seen(Removed(t, k), j) = Seen(t, j)
<1>1. j \in Subtree(k) => Replaced(j)
  BY NodeFacts, PathFacts
<1> QED
  BY <1>1 DEF Seen, Removed

(* Below a key that a replacement tree does not have, it has none.         *)
LEMMA NoneBelow ==
  ASSUME TransactionInv, NEW k \in Key, Replaced(k), new[k] = Null, NEW j \in Subtree(k)
  PROVE  j \in Key /\ get(j) = Null
<1>1. j \in Key /\ k \in PathTo(j) /\ Replaced(j)
  BY NodeFacts, PathFacts
<1>2. new[j] = Null
  BY <1>1 DEF TransactionInv, NewExists
<1> QED
  BY <1>1, <1>2 DEF get, Seen

(* The walk is in order when it starts, and stays so.                      *)
LEMMA OrderKept ==
  ASSUME TransactionInv, LeftInOrder,
         tx_commit \/ \E k \in Key : tx_apply(k) \/ tx_list(k) \/ tx_delete(k)
  PROVE  LeftInOrder'
<1>1. /\ tx_left \in [Key -> {"no", "apply", "list", "delete"}]
      /\ \A k \in Key : Subtree(k) \subseteq Key
  BY DEF TransactionInv, TransactionTypeOK, Subtree
<1>2. UNCHANGED <<mode, new>>
  BY DEF tx_commit, tx_apply, tx_list, tx_delete, base_set, BaseBecomes, changevars
<1>3. ToApply' = ToApply /\ \A k \in Key : Replaced(k)' <=> Replaced(k)
  <2>1. \A k \in Key : Replaced(k)' <=> Replaced(k)
    BY <1>2 DEF Replaced
  <2> QED
    BY <1>2, <2>1 DEF ToApply
<1>4. SUFFICES ASSUME NEW i \in Key
               PROVE  /\ tx_left'[i] = "apply" => i \in ToApply
                      /\ tx_left'[i] \in {"apply", "list"} =>
                           \A j \in Subtree(i) \intersect ToApply : j # i => tx_left'[j] = "apply"
                      /\ tx_left'[i] = "list" => Replaced(i) /\ new[i] # Null
                      /\ tx_left'[i] = "delete" => Replaced(i) /\ new[i] = Null
  BY <1>2, <1>3 DEF LeftInOrder
<1>5. /\ tx_left[i] = "apply" => i \in ToApply
      /\ tx_left[i] \in {"apply", "list"} =>
           \A j \in Subtree(i) \intersect ToApply : j # i => tx_left[j] = "apply"
      /\ tx_left[i] = "list" => Replaced(i) /\ new[i] # Null
      /\ tx_left[i] = "delete" => Replaced(i) /\ new[i] = Null
  BY DEF LeftInOrder
<1>6. CASE tx_commit
  <2>1. tx_left' = [k \in Key |-> IF k \in ToApply THEN "apply" ELSE "no"]
    BY <1>6 DEF tx_commit
  <2> QED
    BY <1>1, <2>1
<1>7. ASSUME NEW k \in Key, tx_apply(k)
      PROVE  /\ tx_left'[i] = "apply" => i \in ToApply
             /\ tx_left'[i] \in {"apply", "list"} =>
                  \A j \in Subtree(i) \intersect ToApply : j # i => tx_left'[j] = "apply"
             /\ tx_left'[i] = "list" => Replaced(i) /\ new[i] # Null
             /\ tx_left'[i] = "delete" => Replaced(i) /\ new[i] = Null
  <2>1. /\ tx_left' = [tx_left EXCEPT ![k] = IF Replaced(k) /\ new[k] # Null THEN "list" ELSE "no"]
        /\ tx_left[k] = "apply" /\ \A p \in Above(k) : tx_left[p] = "no"
    BY <1>7 DEF tx_apply
  <2>2. k \in Subtree(i) /\ k # i => i \in Above(k)
    BY PathFacts
  <2>3. CASE i = k
    BY <1>1, <1>5, <2>1, <2>3
  <2>4. CASE i # k
    BY <1>1, <1>5, <2>1, <2>2, <2>4
  <2> QED
    BY <2>3, <2>4
<1>8. ASSUME NEW k \in Key, tx_list(k)
      PROVE  /\ tx_left'[i] = "apply" => i \in ToApply
             /\ tx_left'[i] \in {"apply", "list"} =>
                  \A j \in Subtree(i) \intersect ToApply : j # i => tx_left'[j] = "apply"
             /\ tx_left'[i] = "list" => Replaced(i) /\ new[i] # Null
             /\ tx_left'[i] = "delete" => Replaced(i) /\ new[i] = Null
  <2>1. /\ tx_left' = [j \in Key |-> IF j = k THEN "no"
                                    ELSE IF j \in extra(k) THEN "delete" ELSE tx_left[j]]
        /\ tx_left[k] = "list"
    BY <1>8 DEF tx_list
  <2>2. Replaced(k)
    BY <2>1 DEF LeftInOrder
  <2>3. ASSUME NEW c \in extra(k)
        PROVE  Replaced(c) /\ new[c] = Null /\ c \notin ToApply
    <3>1. c \in Key /\ c \in Subtree(k) /\ c # k /\ new[c] = Null
      BY <1>1 DEF extra, Existing, Children
    <3>2. Replaced(c) /\ k \in Above(c)
      BY <2>2, <3>1, NodeFacts, PathFacts
    <3>3. mode[c] = "none"
      BY <2>2, <3>1, <3>2, NodeFacts
    <3> QED
      BY <3>1, <3>2, <3>3 DEF ToApply
  <2> QED
    BY <1>1, <1>5, <2>1, <2>3
<1>9. ASSUME NEW k \in Key, tx_delete(k)
      PROVE  /\ tx_left'[i] = "apply" => i \in ToApply
             /\ tx_left'[i] \in {"apply", "list"} =>
                  \A j \in Subtree(i) \intersect ToApply : j # i => tx_left'[j] = "apply"
             /\ tx_left'[i] = "list" => Replaced(i) /\ new[i] # Null
             /\ tx_left'[i] = "delete" => Replaced(i) /\ new[i] = Null
  <2>1. tx_left' = [tx_left EXCEPT ![k] = "no"] /\ tx_left[k] = "delete"
    BY <1>9 DEF tx_delete
  <2> QED
    BY <1>1, <1>5, <2>1
<1> QED
  BY <1>6, <1>7, <1>8, <1>9

(* A step of commit() that leaves the picture and the keys touched as they *)
(* are: where it finds or makes everything above done, its key is right.   *)
LEMMA DoneKept ==
  ASSUME TransactionInv, UNCHANGED <<mode, new, touched>>, committing,
         \A j \in Key : get(j)' = get(j),
         \A j \in Key \ touched : Done(j)' => tx_base'[j] = get(j)
  PROVE  DoneAsSeen'
  BY DEF DoneAsSeen

LEMMA StartDone ==
  ASSUME TransactionInv, tx_commit
  PROVE  DoneAsSeen'
<1>1. UNCHANGED <<mode, new, tx_base>>
  BY DEF tx_commit, changevars
<1>2. tx_left' = [k \in Key |-> IF k \in ToApply THEN "apply" ELSE "no"]
  BY DEF tx_commit
<1>3. ASSUME NEW j \in Key, Done(j)'
      PROVE  tx_base'[j] = get(j)'
  <2>1. ASSUME NEW p \in PathTo(j)
        PROVE  p \in Key /\ p \notin ToApply
    <3>1. p \in Key /\ (p = j \/ p \in Above(j))
      BY DEF PathTo, Above
    <3>2. tx_left'[p] # "apply"
      BY <1>3, <3>1 DEF Done
    <3> QED
      BY <1>2, <3>1, <3>2
  <2>2. ~Replaced(j)
    BY <2>1 DEF Replaced, ToApply
  <2>3. mode[j] \notin {"NEWVALUE", "NEWNODE"}
    BY <2>1, PathFacts DEF ToApply
  <2> QED
    BY <1>1, <2>2, <2>3 DEF get, Seen, Replaced
<1> QED
  BY <1>3 DEF DoneAsSeen

LEMMA ApplyDone ==
  ASSUME TransactionInv, LeftInOrder, DoneAsSeen, NEW k \in Key, tx_apply(k)
  PROVE  DoneAsSeen' /\ \A j \in Key : get(j)' = get(j)
<1> DEFINE t == apply_changes(tx_base, k)
<1>1. /\ tx_base' = t /\ UNCHANGED <<mode, new, touched, committing>>
      /\ tx_left[k] = "apply" /\ \A p \in Above(k) : tx_left[p] = "no"
      /\ \A j \in Key : tx_left[j] \in {"no", "apply"}
      /\ tx_left' = [tx_left EXCEPT ![k] = IF Replaced(k) /\ new[k] # Null THEN "list" ELSE "no"]
  BY DEF tx_apply, base_set, BaseBecomes
<1>2. /\ tx_base \in Tree /\ tx_left \in [Key -> {"no", "apply", "list", "delete"}]
      /\ mode \in [Key -> {"none", "NEWVALUE", "NEWTREE", "NEWNODE", "BLANK"}]
      /\ committing
  BY <1>1 DEF TransactionInv, TransactionTypeOK, NothingLeft
<1>3. k \in ToApply
  BY <1>1 DEF LeftInOrder
<1>4. \A j \in Key : get(j)' = get(j)
  <2>1. \A j \in Key : get(j)' = Seen(t, j)
    BY <1>1 DEF get, Seen, Replaced
  <2> QED
    BY <1>2, <1>3, <2>1, ApplySeen DEF get
<1>5. /\ mode[k] = "NEWTREE" => Replaced(k)
      /\ Creates(k) => ~Replaced(k)
      /\ Creates(k) \/ Replaced(k)
      /\ mode[k] = "NEWVALUE" => new[k] # Null
  BY <1>3, NodeFacts DEF TransactionInv, NewExists, ToApply, Creates
<1>6. t[k] = get(k)
  <2>1. CASE mode[k] = "NEWNODE"
    BY <1>5, <2>1 DEF apply_changes, Creates, Exists, Stored, get, Seen, Unset
  <2>2. CASE mode[k] # "NEWNODE"
    BY <1>5, <2>2, PathFacts DEF apply_changes, TempSet, Creates, Stored, Removed, get, Seen
  <2> QED
    BY <2>1, <2>2
<1>7. ASSUME NEW j \in Key \ touched, Done(j)'
      PROVE  t[j] = get(j)
  <2>1. CASE j = k
    BY <1>6, <2>1
  <2>2. CASE j \notin Subtree(k)
    <3>1. k \notin PathTo(j) /\ j # k
      BY <2>2, PathFacts
    <3>2. tx_left[j] \in {"no", "list"} /\ \A p \in Above(j) : tx_left[p] = "no"
      BY <1>1, <1>2, <1>7, <3>1 DEF Done, Above, PathTo
    <3>3. tx_base[j] = get(j)
      BY <1>2, <1>7, <3>2 DEF DoneAsSeen, Done
    <3>4. CASE j \in Above(k) /\ (Creates(k) \/ (Replaced(k) /\ new[k] # Null))
      <4>1. tx_base[j] # Null
        BY <1>2, <3>3, <3>4, AboveSeen DEF get
      <4> QED
        BY <2>2, <3>1, <3>3, <4>1 DEF apply_changes, Stored, TempSet, Removed, Exists
    <3>5. CASE j \notin Above(k)
      <4>1. j \notin PathTo(k)
        BY <3>1, <3>5, PathFacts
      <4> QED
        BY <2>2, <3>1, <3>3, <4>1 DEF apply_changes, Stored, TempSet, Removed
    <3>6. CASE Replaced(k) /\ new[k] = Null
      BY <1>5, <2>2, <3>3, <3>6 DEF apply_changes, TempSet, Removed, Creates
    <3> QED
      BY <1>5, <3>4, <3>5, <3>6
  <2>3. CASE j \in Subtree(k) /\ j # k
    <3>1. k \in Above(j) /\ tx_left'[k] = "no"
      BY <1>7, <2>3, PathFacts DEF Done
    <3>2. ~(Replaced(k) /\ new[k] # Null)
      BY <1>1, <1>2, <3>1
    <3>3. CASE Replaced(k) /\ new[k] = Null
      <4>1. t[j] = Null
        BY <1>5, <2>3, <3>3 DEF apply_changes, TempSet, Removed, Creates
      <4>2. get(j) = Null
        BY <2>3, <3>3, NoneBelow
      <4> QED
        BY <4>1, <4>2
    <3>4. CASE ~Replaced(k)
      <4>1. ASSUME NEW q \in PathTo(j), k \in PathTo(q), q # k
            PROVE  q \notin ToApply
        <5>1. q \in Key /\ q \in Subtree(k)
          BY <4>1, PathFacts DEF PathTo
        <5>2. q \in ToApply => tx_left[q] = "apply"
          BY <1>1, <4>1, <5>1 DEF LeftInOrder
        <5>3. tx_left'[q] = tx_left[q]
          BY <1>1, <1>2, <4>1, <5>1
        <5>4. tx_left'[q] # "apply"
          BY <1>7, <4>1 DEF Done, Above
        <5> QED
          BY <5>2, <5>3, <5>4
      <4>2. ~Replaced(j)
        <5> SUFFICES ASSUME NEW q \in PathTo(j), mode[q] = "NEWTREE"
                     PROVE  FALSE
          BY DEF Replaced
        <5>1. q \in Key /\ q \in ToApply
          BY DEF PathTo, ToApply
        <5>2. q \notin PathTo(k)
          BY <3>4 DEF Replaced
        <5>3. k \in PathTo(q) /\ q # k
          BY <2>3, <5>1, <5>2, PathAssumption, PrefixAssumption DEF PathTo, Subtree
        <5> QED
          BY <4>1, <5>1, <5>3
      <4>3. mode[j] \notin {"NEWVALUE", "NEWNODE"}
        BY <2>3, <4>1, PathFacts DEF ToApply
      <4>4. get(j)' = tx_base'[j]
        BY <1>1, <4>2, <4>3 DEF get, Seen, Replaced
      <4> QED
        BY <1>1, <1>4, <4>4
    <3> QED
      BY <3>2, <3>3, <3>4
  <2> QED
    BY <2>1, <2>2, <2>3
<1> HIDE DEF t
<1>8. DoneAsSeen'
  BY <1>1, <1>2, <1>4, <1>7, DoneKept
<1> QED
  BY <1>4, <1>8

LEMMA ListDone ==
  ASSUME TransactionInv, LeftInOrder, DoneAsSeen, PrefixClosed(tx_base), NEW k \in Key, tx_list(k)
  PROVE  DoneAsSeen'
<1>1. /\ UNCHANGED <<mode, new, touched, committing, tx_base>> /\ tx_left[k] = "list"
      /\ tx_left' = [j \in Key |-> IF j = k THEN "no"
                                  ELSE IF j \in extra(k) THEN "delete" ELSE tx_left[j]]
  BY DEF tx_list, absvars, changevars
<1>2. committing
  BY <1>1 DEF TransactionInv, TransactionTypeOK, NothingLeft
<1>3. \A j \in Key : get(j)' = get(j)
  BY <1>1 DEF get, Seen, Replaced
<1>4. Replaced(k) /\ \A j \in Subtree(k) \intersect ToApply : j # k => tx_left[j] = "apply"
  BY <1>1 DEF LeftInOrder
<1>5. extra(k) \subseteq Subtree(k) /\ k \notin extra(k)
  BY DEF extra, Existing, Children
<1>6. ASSUME NEW j \in Key \ touched, Done(j)'
      PROVE  tx_base[j] = get(j)
  <2>1. tx_left'[j] \in {"no", "list"} /\ \A p \in Above(j) : tx_left'[p] = "no"
    BY <1>6 DEF Done
  <2>2. CASE j \notin Subtree(k) \/ j = k
    <3>1. \A p \in Above(j) : p \in Key /\ p # k /\ p \notin extra(k)
      <4>1. \A p \in Above(j) : p \in Key /\ p \in PathTo(j) /\ p # j
        BY DEF Above, PathTo
      <4>2. \A p \in Above(j) : p \notin Subtree(k)
        BY <2>2, <4>1, PathFacts
      <4> QED
        BY <1>5, <4>1, <4>2, PathFacts
    <3>2. j = k \/ j \notin extra(k)
      BY <1>5, <2>2
    <3>3. Done(j)
      BY <1>1, <2>1, <3>1, <3>2 DEF Done
    <3> QED
      BY <1>2, <1>6, <3>3 DEF DoneAsSeen
  <2>3. CASE j \in Subtree(k) /\ j # k
    <3>1. PICK c \in Children(k) : <<c, j>> \in Prefix
      BY <2>3, ChildTowards DEF Subtree
    <3>2. c \in Key /\ c \in Subtree(k) /\ c # k /\ c \in PathTo(j) /\ j \in Subtree(c)
      BY <3>1 DEF Children, Subtree, PathTo
    <3>3. tx_left'[c] \in {"no", "list"}
      BY <2>1, <3>2 DEF Above
    <3>4. Replaced(c)
      BY <1>4, <3>2, NodeFacts, PathFacts
    <3>5. new[c] = Null
      <4> SUFFICES ASSUME new[c] # Null
                   PROVE  FALSE
        OBVIOUS
      <4>1. tx_left[c] = "apply"
        BY <1>4, <3>2, <3>4 DEF ToApply
      <4>2. c \notin extra(k)
        BY DEF extra
      <4> QED
        BY <1>1, <3>2, <3>3, <4>1, <4>2
    <3>6. tx_base[c] = Null
      <4>1. c \notin extra(k)
        BY <1>1, <3>2, <3>3
      <4> QED
        BY <3>1, <3>5, <4>1 DEF extra, Existing, Exists
    <3>7. tx_base[j] = Null
      BY <3>2, <3>6 DEF PrefixClosed, Exists
    <3>8. get(j) = Null
      BY <3>2, <3>4, <3>5, NoneBelow
    <3> QED
      BY <3>7, <3>8
  <2> QED
    BY <2>2, <2>3
<1> QED
  BY <1>1, <1>2, <1>3, <1>6, DoneKept

LEMMA DeleteDone ==
  ASSUME TransactionInv, LeftInOrder, DoneAsSeen, NEW k \in Key, tx_delete(k)
  PROVE  DoneAsSeen' /\ \A j \in Key : get(j)' = get(j)
<1>1. /\ tx_base' = Removed(tx_base, k) /\ UNCHANGED <<mode, new, touched, committing>>
      /\ tx_left[k] = "delete" /\ tx_left' = [tx_left EXCEPT ![k] = "no"]
  BY DEF tx_delete, base_set, BaseBecomes
<1>2. tx_base \in Tree /\ committing /\ tx_left \in [Key -> {"no", "apply", "list", "delete"}]
  BY <1>1 DEF TransactionInv, TransactionTypeOK, NothingLeft
<1>3. Replaced(k) /\ new[k] = Null
  BY <1>1 DEF LeftInOrder
<1>4. \A j \in Key : get(j)' = get(j)
  <2>1. \A j \in Key : get(j)' = Seen(Removed(tx_base, k), j)
    BY <1>1 DEF get, Seen, Replaced
  <2> QED
    BY <1>2, <1>3, <2>1, DeleteSeen DEF get
<1>5. ASSUME NEW j \in Key \ touched, Done(j)'
      PROVE  tx_base'[j] = get(j)
  <2>1. CASE j \in Subtree(k)
    BY <1>1, <1>3, <2>1, NoneBelow DEF Removed
  <2>2. CASE j \notin Subtree(k)
    <3>1. k \notin PathTo(j) /\ j # k
      BY <2>2, PathFacts
    <3>2. Done(j)
      BY <1>1, <1>2, <1>5, <3>1 DEF Done, Above, PathTo
    <3> QED
      BY <1>1, <1>2, <1>5, <2>2, <3>2 DEF DoneAsSeen, Removed
  <2> QED
    BY <2>1, <2>2
<1> QED
  BY <1>1, <1>2, <1>4, <1>5, DoneKept

(* What others change is touched; the rest stays as it was.                *)
LEMMA OtherDone ==
  ASSUME TransactionInv, DoneAsSeen, NEW k \in Key, NEW v \in Value \union {Null}, tx_other(k, v)
  PROVE  DoneAsSeen'
<1>1. UNCHANGED <<mode, new, committing, tx_left>>
  BY DEF tx_other, BaseBecomes
<1>2. ASSUME committing', NEW j \in Key \ touched', Done(j)'
      PROVE  tx_base'[j] = get(j)'
  <2>1. touched' = touched \union Changed(tx_base, tx_base')
    BY <1>1, <1>2 DEF tx_other
  <2>2. j \notin touched /\ tx_base'[j] = tx_base[j]
    BY <1>2, <2>1 DEF Changed
  <2>3. Done(j) /\ committing
    BY <1>1, <1>2 DEF Done
  <2>4. tx_base[j] = get(j)
    BY <2>2, <2>3 DEF DoneAsSeen
  <2> QED
    BY <1>1, <2>2, <2>4 DEF get, Seen, Replaced
<1> QED
  BY <1>2 DEF DoneAsSeen

(* The tree below stays a tree, whoever changes it.                        *)
LEMMA BaseClosed ==
  ASSUME TransactionInv, PrefixClosed(tx_base), [TransactionNext]_transactionvars
  PROVE  PrefixClosed(tx_base)'
<1>1. tx_base \in Tree /\ tx_base \in ClosedTree
  BY NodeFacts DEF ClosedTree
<1>2. \A k \in Key, v \in Value \union {Null} : TempSet(tx_base, k, v) \in ClosedTree
  BY <1>1, TempSetClosed
<1>3. \A k \in Key : apply_changes(tx_base, k) \in ClosedTree
  BY <1>1, <1>2, ApplyIsSet
<1>4. \A k \in Key : Removed(tx_base, k) \in ClosedTree
  <2>1. \A k \in Key : Removed(tx_base, k) = TempSet(tx_base, k, Null)
    BY DEF TempSet
  <2> QED
    BY <1>2, <2>1
<1>5. tx_base' \in ClosedTree
  BY <1>1, <1>2, <1>3, <1>4
  DEF TransactionNext, transactionvars, absvars, tx_set, tx_remove, tx_commit, tx_committed, tx_apply,
      tx_list, tx_delete, tx_refresh, tx_other, base_set, BaseBecomes
<1> QED
  BY <1>5 DEF ClosedTree

LEMMA CommitStart == TransactionInit => CommitInv
<1> SUFFICES ASSUME TransactionInit
             PROVE  CommitInv
  OBVIOUS
<1>1. tx_base = InitTree /\ committing = FALSE /\ \A k \in Key : tx_left[k] = "no"
  BY DEF TransactionInit, AbsInit, NothingLeft
<1> QED
  BY <1>1, InitTreeAssumption DEF CommitInv, LeftInOrder, DoneAsSeen

LEMMA CommitStep ==
  TransactionInv /\ CommitInv /\ [TransactionNext]_transactionvars => CommitInv'
<1> SUFFICES ASSUME TransactionInv, CommitInv, [TransactionNext]_transactionvars
             PROVE  LeftInOrder' /\ DoneAsSeen'
  <2>1. ASSUME TransactionInv, CommitInv, [TransactionNext]_transactionvars
        PROVE  PrefixClosed(tx_base)'
    BY <2>1, BaseClosed DEF CommitInv
  <2> QED
    BY <2>1 DEF CommitInv
<1>1. LeftInOrder /\ DoneAsSeen /\ PrefixClosed(tx_base)
  BY DEF CommitInv
<1>2. CASE tx_commit
  BY <1>1, <1>2, OrderKept, StartDone
<1>3. ASSUME NEW k \in Key, tx_apply(k) \/ tx_list(k) \/ tx_delete(k)
      PROVE  LeftInOrder' /\ DoneAsSeen'
  BY <1>1, <1>3, OrderKept, ApplyDone, ListDone, DeleteDone
<1>4. ASSUME NEW k \in Key, NEW v \in Value \union {Null}, tx_other(k, v)
      PROVE  LeftInOrder' /\ DoneAsSeen'
  <2>1. UNCHANGED <<mode, new, tx_left>>
    BY <1>4 DEF tx_other, BaseBecomes
  <2>2. LeftInOrder'
    BY <1>1, <2>1 DEF LeftInOrder, ToApply, Replaced
  <2> QED
    BY <1>1, <1>4, <2>2, OtherDone
<1>5. CASE \/ \E k \in Key, v \in Value : tx_set(k, v)
           \/ \E k \in Key : tx_remove(k)
           \/ tx_committed \/ tx_refresh
  <2>1. committing' = FALSE /\ tx_left' = NothingLeft
    BY <1>5 DEF tx_set, tx_remove, tx_committed, tx_refresh, TransactionInv, TransactionTypeOK
  <2>2. \A k \in Key : tx_left'[k] = "no"
    BY <2>1 DEF NothingLeft
  <2> QED
    BY <2>1, <2>2 DEF LeftInOrder, DoneAsSeen
<1>6. CASE UNCHANGED transactionvars
  BY <1>1, <1>6 DEF transactionvars, absvars, changevars, LeftInOrder, ToApply, DoneAsSeen, Done,
                    Replaced, get, Seen
<1> QED
  BY <1>2, <1>3, <1>4, <1>5, <1>6 DEF TransactionNext

(* In the middle of commit(), too: what it is done with is what it looks   *)
(* like, but for the keys that others have changed since it was called,    *)
(* and what lies below a key comes after it.                               *)
THEOREM CommitInvariance == TransactionSpec => []CommitInv
<1> QED
  BY TransactionInvariance, CommitStart, CommitStep, PTL DEF TransactionSpec

(* Callbacks for keys that look different now, with what they look like,   *)
(* and for no key that looks the same, tell all of it and nothing else.    *)
LEMMA ToldPrecisely ==
  ASSUME CallbackInv, NEW D \in SUBSET Key, NEW t, NEW S \in SUBSET Key, NotifyBut(D, t, S),
         \A k \in D : get(k)' = t[k] /\ get(k) # t[k],
         \A k \in Key \ (D \union S) : get(k)' = get(k)
  PROVE  ToldAll' /\ NoIdleCallback' /\ (untold \subseteq Key)'
<1>1. /\ idle' = (idle \/ \E k \in D \ untold : tx_told[k] = t[k])
      /\ tx_told' = [k \in Key |-> IF k \in D THEN t[k] ELSE tx_told[k]]
      /\ untold' = (untold \ D) \union S
  BY DEF NotifyBut
<1>2. ToldAll /\ ~idle /\ untold \subseteq Key
  BY DEF CallbackInv, NoIdleCallback
<1>3. \A k \in D \ untold : tx_told[k] = get(k)
  BY <1>2 DEF ToldAll
<1>4. ~idle'
  BY <1>1, <1>2, <1>3
<1>5. ASSUME NEW k \in Key, k \notin untold'
      PROVE  tx_told'[k] = get(k)'
  <2>1. CASE k \in D
    BY <1>1, <2>1
  <2>2. CASE k \notin D
    <3>1. k \notin untold /\ k \notin D \union S
      BY <1>1, <1>5, <2>2
    <3>2. tx_told[k] = get(k)
      BY <1>2, <3>1 DEF ToldAll
    <3> QED
      BY <1>1, <2>2, <3>1, <3>2
  <2> QED
    BY <2>1, <2>2
<1>6. ToldAll'
  BY <1>5 DEF ToldAll
<1>7. (untold \subseteq Key)'
  BY <1>1, <1>2
<1> QED
  BY <1>4, <1>6, <1>7 DEF NoIdleCallback

(* What get() answers, in terms of what a step does to the variables.      *)
LEMMA GetNext ==
  \A k \in Key :
    get(k)' = IF Replaced(k)' \/ mode'[k] = "NEWVALUE" THEN new'[k]
              ELSE IF mode'[k] = "NEWNODE" /\ Unset(tx_base'[k]) THEN Empty
              ELSE tx_base'[k]
  BY DEF get, Seen

(* set() tells of the nodes it makes and of the value, if it is another    *)
(* one and not passed over.                                                *)
LEMMA SetTells ==
  ASSUME TransactionInv, CallbackInv, NEW k \in Key, NEW v \in Value, tx_set(k, v)
  PROVE  CallbackInv'
<1>1. /\ mode' = [j \in Key |-> IF j \in Vivified(k) THEN "NEWNODE"
                                ELSE IF j = k /\ ~Replaced(k) THEN "NEWVALUE"
                                ELSE mode[j]]
      /\ new' = [j \in Key |-> IF j = k THEN v
                               ELSE IF j \in Above(k) /\ Replaced(j) /\ new[j] = Null THEN Empty
                               ELSE new[j]]
      /\ \A j \in Key : Replaced(j)' <=> Replaced(j)
      /\ tx_base' = tx_base
      /\ was_null_or_empty' = [j \in Key |-> IF j \in Vivified(k) THEN Unset(tx_base[j])
                                             ELSE j # k /\ was_null_or_empty[j]]
  BY SetShape DEF tx_set
<1>2. k \notin Above(k) /\ Above(k) \subseteq Key
  BY PathFacts
<1>3. /\ mode \in [Key -> {"none", "NEWVALUE", "NEWTREE", "NEWNODE", "BLANK"}]
      /\ \A j \in Key : mode[j] = "NEWTREE" => Replaced(j)
      /\ tx_base \in Tree /\ new \in Tree
  BY NodeFacts
<1>4. Empty # Null /\ v # Null
  BY ValueAssumption
<1>5. Vivified(k) \subseteq Key /\ k \notin Vivified(k)
  BY <1>2 DEF Vivified
<1>6. WasUnset'
  <2>1. ASSUME NEW j \in Key, mode'[j] = "NEWNODE"
        PROVE  was_null_or_empty'[j] = Unset(tx_base'[j])
    <3>1. CASE j \in Vivified(k)
      BY <1>1, <3>1
    <3>2. CASE j \notin Vivified(k) /\ j # k
      <4>1. mode[j] = "NEWNODE"
        BY <1>1, <2>1, <3>2
      <4>2. was_null_or_empty[j] = Unset(tx_base[j])
        BY <4>1 DEF CallbackInv, WasUnset
      <4>3. was_null_or_empty'[j] = was_null_or_empty[j]
        <5>1. was_null_or_empty'[j] = (j # k /\ was_null_or_empty[j])
          BY <1>1, <3>2
        <5>2. was_null_or_empty[j] \in BOOLEAN
          BY NodeFacts
        <5> QED
          BY <3>2, <5>1, <5>2
      <4> QED
        BY <1>1, <4>2, <4>3
    <3>3. CASE j = k
      <4>1. Replaced(k) /\ mode[k] = "NEWNODE"
        BY <1>1, <1>5, <2>1, <3>3
      <4> QED
        BY <4>1, NodeFacts DEF Creates
    <3> QED
      BY <3>1, <3>2, <3>3
  <2> QED
    BY <2>1 DEF WasUnset
<1> DEFINE u == [j \in Key |-> IF j = k THEN v ELSE Empty]
<1>7. ASSUME NEW j \in Key
      PROVE  get(j)' = IF j = k THEN v
                       ELSE IF j \in PathTo(k) /\ get(j) = Null THEN Empty
                       ELSE get(j)
  <2>1. SeenOver(tx_base)' = TempSet(SeenOver(tx_base), k, v)
    <3> PICK b \in Tree : b = tx_base
      BY <1>3
    <3>1. SeenOver(b)' = TempSet(SeenOver(b), k, v)
      BY SetSeen
    <3>2. SeenOver(tx_base)' = SeenOver(b)'
      BY <1>1 DEF SeenOver, Seen
    <3> QED
      BY <3>1, <3>2
  <2>2. SeenOver(tx_base)' = [i \in Key |-> get(i)'] /\ SeenOver(tx_base) = [i \in Key |-> get(i)]
    BY DEF SeenOver, get
  <2> QED
    BY <1>4, <2>1, <2>2 DEF TempSet, Stored
<1>8. ASSUME NEW j \in Vivified(k)
      PROVE  get(j) = tx_base[j] /\ j \in PathTo(k) /\ j # k
  BY <1>5, <1>8 DEF Vivified, Above, get, Seen
<1>9. ASSUME NEW j \in Above(k), ~Replaced(j), j \notin Vivified(k)
      PROVE  get(j) # Null
  <2>1. mode[j] \in {"NEWVALUE", "NEWNODE"} /\ j \in Key
    BY <1>2, <1>3, <1>9 DEF Vivified
  <2>2. mode[j] = "NEWVALUE" => new[j] # Null
    BY <2>1 DEF TransactionInv, NewExists
  <2> QED
    BY <1>4, <1>9, <2>1, <2>2 DEF get, Seen, Unset
<1>10. \A j \in Key : Replaced(j) => get(j) = new[j]
  BY DEF get, Seen
<1>11. CASE Replaced(k)
  <2> DEFINE made == {j \in Above(k) : Replaced(j) /\ new[j] = Null}
             D == {j \in Vivified(k) : tx_base[j] = Null} \union made
                    \union (IF new[k] = v THEN {} ELSE {k})
  <2>1. NotifyBut(D, u, {})
    BY <1>11 DEF tx_set, set_value, Notify
  <2>2. D \in SUBSET Key
    BY <1>2, <1>5
  <2>3. ASSUME NEW j \in D
        PROVE  get(j)' = u[j] /\ get(j) # u[j]
    <3>1. CASE j = k
      BY <1>2, <1>5, <1>7, <1>10, <1>11, <2>3, <3>1
    <3>2. CASE j \in made
      <4>1. j \in Key /\ j # k /\ j \in PathTo(k) /\ get(j) = Null
        BY <1>2, <1>10, <3>2 DEF Above
      <4> QED
        BY <1>4, <1>7, <4>1
    <3>3. CASE j \in Vivified(k) /\ tx_base[j] = Null
      BY <1>4, <1>5, <1>7, <1>8, <3>3
    <3> QED
      BY <2>3, <3>1, <3>2, <3>3
  <2>4. ASSUME NEW j \in Key \ (D \union {})
        PROVE  get(j)' = get(j)
    <3>1. CASE j = k
      BY <1>7, <1>10, <1>11, <2>4, <3>1
    <3>2. CASE j \in Above(k)
      <4>1. get(j) # Null
        BY <1>8, <1>9, <1>10, <2>4, <3>2
      <4> QED
        BY <1>2, <1>7, <3>2, <4>1
    <3>3. CASE j \notin PathTo(k)
      BY <1>7, <3>3, PathFacts
    <3> QED
      BY <3>1, <3>2, <3>3, PathFacts
  <2> HIDE DEF D, u
  <2>5. ToldAll' /\ NoIdleCallback' /\ (untold \subseteq Key)'
    BY <2>1, <2>2, <2>3, <2>4, ToldPrecisely
  <2> QED
    BY <1>6, <2>5 DEF CallbackInv
<1>12. CASE ~Replaced(k)
  <2> DEFINE D == {j \in Vivified(k) : tx_base[j] = Null}
                    \union (IF changes_value(k, v) THEN {k} ELSE {})
             S == IF passes_over(k, v) THEN {k} ELSE {}
  <2>1. NotifyBut(D, u, S)
    BY <1>12 DEF tx_set, change_value
  <2>2. D \in SUBSET Key /\ S \in SUBSET Key
    BY <1>5
  <2>3. changes_value(k, v) => get(k) # v
    <3>1. mode[k] # "NEWTREE"
      BY <1>3, <1>12
    <3> QED
      BY <1>3, <1>4, <1>12, <3>1 DEF changes_value, get, Seen, Unset
  <2>4. ~changes_value(k, v) /\ ~passes_over(k, v) => get(k) = v
    <3>1. CASE mode[k] = "NEWVALUE"
      BY <1>12, <3>1 DEF changes_value, get, Seen
    <3>2. CASE mode[k] = "NEWNODE"
      BY <1>4, <1>12, <3>2 DEF changes_value, passes_over, get, Seen, Unset
    <3>3. CASE mode[k] \notin {"NEWVALUE", "NEWNODE"}
      BY <1>12, <3>3 DEF changes_value, get, Seen
    <3> QED
      BY <3>1, <3>2, <3>3
  <2>5. ASSUME NEW j \in D
        PROVE  get(j)' = u[j] /\ get(j) # u[j]
    <3>1. CASE j = k
      BY <1>5, <1>7, <2>3, <2>5, <3>1
    <3>2. CASE j \in Vivified(k) /\ tx_base[j] = Null
      BY <1>4, <1>5, <1>7, <1>8, <3>2
    <3> QED
      BY <2>5, <3>1, <3>2
  <2>6. ASSUME NEW j \in Key \ (D \union S)
        PROVE  get(j)' = get(j)
    <3>1. CASE j = k
      BY <1>7, <2>4, <2>6, <3>1
    <3>2. CASE j \in Above(k)
      <4>1. ~Replaced(j)
        BY <1>2, <1>12, <3>2, NodeFacts DEF Above
      <4>2. get(j) # Null
        BY <1>8, <1>9, <2>6, <3>2, <4>1
      <4> QED
        BY <1>2, <1>7, <3>2, <4>2
    <3>3. CASE j \notin PathTo(k)
      BY <1>7, <3>3, PathFacts
    <3> QED
      BY <3>1, <3>2, <3>3, PathFacts
  <2> HIDE DEF D, S, u
  <2>7. ToldAll' /\ NoIdleCallback' /\ (untold \subseteq Key)'
    BY <2>1, <2>2, <2>5, <2>6, ToldPrecisely
  <2> QED
    BY <1>6, <2>7 DEF CallbackInv
<1> QED
  BY <1>11, <1>12

(* set() of null tells that what was there is gone.                        *)
LEMMA RemoveTells ==
  ASSUME TransactionInv, CallbackInv, NEW k \in Key, tx_remove(k)
  PROVE  CallbackInv'
<1> DEFINE D == {j \in Subtree(k) : get(j) # Null}
<1>1. /\ \A j \in Subtree(k) : Replaced(j)' /\ ~Creates(j)' /\ new'[j] = Null
      /\ \A j \in Key \ Subtree(k) :
           /\ Replaced(j)' <=> Replaced(j)
           /\ mode'[j] = mode[j] \/ (mode[j] = "none" /\ mode'[j] = "BLANK" /\ j \in Above(k))
           /\ new'[j] = new[j]
      /\ tx_base' = tx_base
  BY RemoveShape DEF tx_remove
<1>2. Subtree(k) \subseteq Key
  BY PathFacts
<1>3. WasUnset'
  <2>1. ASSUME NEW j \in Key, mode'[j] = "NEWNODE"
        PROVE  was_null_or_empty'[j] = Unset(tx_base'[j])
    <3>1. j \notin Subtree(k) /\ mode[j] = "NEWNODE"
      BY <1>1, <2>1 DEF Creates
    <3>2. was_null_or_empty[j] = Unset(tx_base[j])
      BY <3>1 DEF CallbackInv, WasUnset
    <3>3. was_null_or_empty'[j] = was_null_or_empty[j]
      <4>1. CASE Replaced(k)
        BY <4>1 DEF tx_remove
      <4>2. CASE ~Replaced(k)
        <5>1. was_null_or_empty' = [i \in Key |-> i \notin Subtree(k) /\ was_null_or_empty[i]]
          BY <4>2 DEF tx_remove
        <5>2. was_null_or_empty[j] \in BOOLEAN
          BY NodeFacts
        <5> QED
          BY <3>1, <5>1, <5>2
      <4> QED
        BY <4>1, <4>2
    <3> QED
      BY <1>1, <3>2, <3>3
  <2> QED
    BY <2>1 DEF WasUnset
<1>4. NotifyBut(D, EmptyTree, {})
  BY DEF tx_remove, Notify
<1>5. ASSUME NEW j \in Subtree(k)
      PROVE  get(j)' = Null
  BY <1>1, <1>2, GetNext
<1>6. ASSUME NEW j \in D
      PROVE  get(j)' = EmptyTree[j] /\ get(j) # EmptyTree[j]
  BY <1>2, <1>5 DEF EmptyTree
<1>7. ASSUME NEW j \in Key \ (D \union {})
      PROVE  get(j)' = get(j)
  <2>1. CASE j \in Subtree(k)
    BY <1>5, <1>7, <2>1
  <2>2. CASE j \notin Subtree(k)
    <3>1. /\ Replaced(j)' <=> Replaced(j)
          /\ mode'[j] = "NEWVALUE" <=> mode[j] = "NEWVALUE"
          /\ mode'[j] = "NEWNODE" <=> mode[j] = "NEWNODE"
          /\ new'[j] = new[j] /\ tx_base'[j] = tx_base[j]
      BY <1>1, <2>2
    <3> QED
      BY <3>1 DEF get, Seen
  <2> QED
    BY <2>1, <2>2
<1>8. D \in SUBSET Key
  BY <1>2
<1> HIDE DEF D
<1>9. ToldAll' /\ NoIdleCallback' /\ (untold \subseteq Key)'
  BY <1>4, <1>6, <1>7, <1>8, ToldPrecisely
<1> QED
  BY <1>3, <1>9 DEF CallbackInv

(* After the last change node the flags say nothing.                       *)
LEMMA NoFlags ==
  ASSUME NoChanges
  PROVE  WasUnset' /\ \A k \in Key : get(k)' = tx_base'[k]
<1>1. \A k \in Key : mode'[k] = "none" /\ ~Replaced(k)'
  BY DEF NoChanges, NoChange, Replaced, PathTo
<1> QED
  BY <1>1, GetNext DEF WasUnset

(* What the callbacks of a change below announce, of a tree that is        *)
(* changed from outside or made to be what it looks like.                  *)
LEMMA AnnouncedSeen ==
  ASSUME TransactionInv, CallbackInv, NEW t \in Tree, NEW k \in Key
  PROVE  LET told == IF mode[k] = "NEWNODE" /\ t[k] = Null THEN Empty ELSE t[k]
         IN /\ k \in gencallback(t) => Seen(t, k) = told /\ get(k) # told
            /\ k \notin gencallback(t) => Seen(t, k) = get(k)
<1> DEFINE told == IF mode[k] = "NEWNODE" /\ t[k] = Null THEN Empty ELSE t[k]
<1>1. Empty # Null
  BY ValueAssumption
<1>2. mode[k] = "NEWNODE" => was_null_or_empty[k] = Unset(tx_base[k])
  BY DEF CallbackInv, WasUnset
<1>3. k \in gencallback(t) <=> /\ t[k] # tx_base[k] /\ ~Replaced(k) /\ mode[k] # "NEWVALUE"
                               /\ mode[k] = "NEWNODE" => ~Unset(tx_base[k]) \/ ~Unset(t[k])
  BY <1>2 DEF gencallback, Changed
<1>4. CASE Replaced(k) \/ mode[k] = "NEWVALUE"
  BY <1>3, <1>4 DEF Seen, get
<1>5. CASE ~Replaced(k) /\ mode[k] = "NEWNODE"
  BY <1>1, <1>3, <1>5 DEF Seen, get, Unset
<1>6. CASE ~Replaced(k) /\ mode[k] \notin {"NEWVALUE", "NEWNODE"}
  BY <1>3, <1>6 DEF Seen, get
<1> QED
  BY <1>4, <1>5, <1>6

(* refresh() tells how the picture becomes the underlying tree.            *)
LEMMA RefreshTells ==
  ASSUME TransactionInv, CallbackInv, tx_refresh
  PROVE  CallbackInv'
<1>1. WasUnset' /\ \A k \in Key : get(k)' = tx_base'[k]
  BY NoFlags DEF tx_refresh
<1>2. NotifyBut(cancel_changes, tx_base, {}) /\ tx_base' = tx_base
  BY DEF tx_refresh, Notify
<1>3. cancel_changes \in SUBSET Key
  BY DEF cancel_changes
<1>4. ASSUME NEW k \in cancel_changes
      PROVE  get(k)' = tx_base[k] /\ get(k) # tx_base[k]
  BY <1>1, <1>2, <1>4, ValueAssumption DEF cancel_changes, get, Seen, Unset
<1>5. ASSUME NEW k \in Key \ (cancel_changes \union {})
      PROVE  get(k)' = get(k)
  BY <1>1, <1>2, <1>5 DEF cancel_changes, get, Seen, Unset
<1>6. ToldAll' /\ NoIdleCallback' /\ (untold \subseteq Key)'
  BY <1>2, <1>3, <1>4, <1>5, ToldPrecisely
<1> QED
  BY <1>1, <1>6 DEF CallbackInv

(* Changes below, by others or by commit(), are told where the change tree *)
(* lets them be seen.                                                      *)
LEMMA BaseTells ==
  ASSUME TransactionInv, CallbackInv, NEW t \in Tree, BaseBecomes(t)
  PROVE  CallbackInv'
<1> DEFINE D == gencallback(t)
           u == [j \in Key |-> IF mode[j] = "NEWNODE" /\ t[j] = Null THEN Empty ELSE t[j]]
<1>1. NotifyBut(D, u, {}) /\ tx_base' = t /\ UNCHANGED <<mode, new>>
  BY DEF BaseBecomes, Notify
<1>2. ASSUME NEW j \in Key
      PROVE  get(j)' = Seen(t, j)
  BY <1>1 DEF get, Seen, Replaced
<1>3. ASSUME NEW j \in Key
      PROVE  /\ j \in D => get(j)' = u[j] /\ get(j) # u[j]
             /\ j \notin D => get(j)' = get(j)
  BY <1>2, AnnouncedSeen
<1>4. D \in SUBSET Key
  BY DEF gencallback, Changed
<1>5. WasUnset'
  <2>1. was_null_or_empty' = [j \in Key |->
           IF mode[j] = "NEWNODE" /\ j \in Changed(tx_base, t)
             THEN Unset(t[j]) ELSE was_null_or_empty[j]]
    BY Zenon DEF BaseBecomes
  <2>2. \A j \in Key : mode[j] = "NEWNODE" => was_null_or_empty[j] = Unset(tx_base[j])
    BY DEF CallbackInv, WasUnset
  <2> QED
    BY <1>1, <2>1, <2>2 DEF WasUnset, Changed
<1> HIDE DEF D, u
<1>6. ToldAll' /\ NoIdleCallback' /\ (untold \subseteq Key)'
  BY <1>1, <1>3, <1>4, ToldPrecisely
<1> QED
  BY <1>5, <1>6 DEF CallbackInv

(* Neither the picture nor what was told of it changes.                    *)
LEMMA NothingTold ==
  ASSUME CallbackInv, UNCHANGED <<tx_told, tx_base, mode, new, was_null_or_empty, idle, untold>>
  PROVE  CallbackInv' /\ \A k \in Key : get(k)' = get(k)
<1>1. \A k \in Key : get(k)' = get(k)
  BY DEF get, Seen, Replaced
<1>2. ToldAll' /\ NoIdleCallback' /\ WasUnset'
  BY <1>1 DEF CallbackInv, ToldAll, NoIdleCallback, WasUnset
<1> QED
  BY <1>1, <1>2 DEF CallbackInv

(* At the end of commit() the keys nobody else touched are what they       *)
(* looked like, and the others become untold.                              *)
LEMMA CommittedTells ==
  ASSUME TransactionInv, CommitInv, CallbackInv, tx_committed
  PROVE  CallbackInv'
<1>1. WasUnset' /\ \A k \in Key : get(k)' = tx_base'[k]
  BY NoFlags DEF tx_committed
<1>2. /\ tx_told' = tx_told /\ tx_base' = tx_base /\ idle' = idle
      /\ untold' = untold \union {k \in touched : tx_base[k] # get(k)}
  BY DEF tx_committed
<1>3. ASSUME NEW k \in Key \ touched
      PROVE  tx_base[k] = get(k)
  <2>1. Done(k) /\ committing
    BY PathFacts DEF tx_committed, NothingLeft, Done
  <2> QED
    BY <1>3, <2>1 DEF CommitInv, DoneAsSeen
<1>4. ASSUME NEW k \in Key \ untold'
      PROVE  tx_told'[k] = get(k)'
  BY <1>1, <1>2, <1>3, <1>4 DEF CallbackInv, ToldAll
<1>5. touched \subseteq Key
  BY DEF TransactionInv, TransactionTypeOK
<1> QED
  BY <1>1, <1>2, <1>4, <1>5 DEF CallbackInv, ToldAll, NoIdleCallback

LEMMA CallbackStep ==
  TransactionInv /\ CommitInv /\ CallbackInv /\ [TransactionNext]_transactionvars => CallbackInv'
<1> SUFFICES ASSUME TransactionInv, CommitInv, CallbackInv, [TransactionNext]_transactionvars
             PROVE  CallbackInv'
  OBVIOUS
<1>1. CASE UNCHANGED transactionvars
  BY <1>1, NothingTold DEF transactionvars, absvars, changevars, history
<1>2. CASE tx_commit
  BY <1>2, NothingTold DEF tx_commit, changevars, history
<1>3. ASSUME NEW k \in Key, tx_list(k)
      PROVE  CallbackInv'
  BY <1>3, NothingTold DEF tx_list, absvars, changevars, history
<1>4. ASSUME NEW k \in Key, tx_apply(k)
      PROVE  CallbackInv'
  <2> DEFINE t == apply_changes(tx_base, k)
  <2>1. t \in Tree
    BY NodeFacts, ApplyIsSet, TempSetType
  <2>2. BaseBecomes(t)
    BY <1>4 DEF tx_apply, base_set
  <2> HIDE DEF t
  <2> QED
    BY <2>1, <2>2, BaseTells
<1>5. ASSUME NEW k \in Key, tx_delete(k)
      PROVE  CallbackInv'
  <2>1. Removed(tx_base, k) \in Tree
    BY NodeFacts DEF Removed, Tree
  <2> QED
    BY <1>5, <2>1, BaseTells DEF tx_delete, base_set
<1>6. ASSUME NEW k \in Key, NEW v \in Value \union {Null}, tx_other(k, v)
      PROVE  CallbackInv'
  <2>1. TempSet(tx_base, k, v) \in Tree
    BY NodeFacts, TempSetType
  <2> QED
    BY <1>6, <2>1, BaseTells DEF tx_other
<1> QED
  BY <1>1, <1>2, <1>3, <1>4, <1>5, <1>6, SetTells, RemoveTells, CommittedTells, RefreshTells, Zenon
  DEF TransactionNext

LEMMA CallbackStart == TransactionInit => CallbackInv
<1> SUFFICES ASSUME TransactionInit
             PROVE  CallbackInv
  OBVIOUS
<1>1. /\ mode = [k \in Key |-> "none"] /\ tx_base = tx_told /\ ~idle /\ untold = {}
  BY DEF TransactionInit, AbsInit, NoChange
<1>2. \A k \in Key : get(k) = tx_base[k]
  BY <1>1 DEF get, Seen, Replaced, PathTo
<1> QED
  BY <1>1, <1>2 DEF CallbackInv, ToldAll, NoIdleCallback, WasUnset

(* Whatever the transaction, its end and others do, callbacks tell of each *)
(* change of the picture but those set() passes over and those others make *)
(* of committed keys before commit() is over, and of nothing else.         *)
THEOREM CallbacksAreTold == TransactionSpec => []CallbackInv
<1> QED
  BY TransactionInvariance, CommitInvariance, CallbackStart, CallbackStep, PTL DEF TransactionSpec

(* The class comment, at all times, of what is asked and what is told.     *)
THEOREM TransactionIsSeen == TransactionSpec => []TransactionSeen
<1>1. TransactionInv /\ CommitInv /\ CallbackInv => TransactionSeen
  BY LooksCommitted DEF TransactionInv, CommitInv, CallbackInv, TransactionSeen
<1> QED
  BY <1>1, TransactionInvariance, CommitInvariance, CallbacksAreTold, PTL

(* The abstract transaction replays calls as the model does.               *)
LEMMA PromisedReplay ==
  /\ \A t, s : Promised!Replayed(t, s) = Replayed(t, s)
  /\ \A t, k, v : Promised!TempSet(t, k, v) = TempSet(t, k, v)
<1>1. \A t, k, v : Promised!TempSet(t, k, v) = TempSet(t, k, v)
  BY Zenon DEF Promised!TempSet, TempSet, Promised!Removed, Removed, Promised!Stored, Stored,
               Promised!Subtree, Subtree, Promised!PathTo, PathTo
<1>2. \A t, s : Promised!Replayed(t, s) = Replayed(t, s)
  BY Zenon DEF Promised!Replayed, Replayed, Promised!TempSet, TempSet, Promised!Removed, Removed,
               Promised!Stored, Stored, Promised!Subtree, Subtree, Promised!PathTo, PathTo
<1> QED
  BY <1>1, <1>2

LEMMA PromisedStart == TransactionInit => Promised!AbsInit
<1> SUFFICES ASSUME TransactionInit
             PROVE  Promised!AbsInit
  OBVIOUS
<1>1. /\ tx_base = InitTree /\ log = <<>> /\ nothers = 0 /\ mode = [k \in Key |-> "none"]
      /\ committing = FALSE /\ touched = {}
  BY DEF TransactionInit, AbsInit, NoChange
<1>2. [k \in Key |-> get(k)] = InitTree
  <2>1. \A k \in Key : get(k) = InitTree[k]
    BY <1>1 DEF get, Seen, Replaced, PathTo
  <2> QED
    BY <2>1, InitTreeAssumption DEF Tree
<1> QED
  BY <1>1, <1>2 DEF Promised!AbsInit

(* Every step is one of the abstract transaction, or none.                 *)
LEMMA PromisedStep ==
  TransactionInv /\ TransactionInv' /\ CommitInv /\ [TransactionNext]_transactionvars
    => [Promised!AbsNext]_Promised!absvars
<1> SUFFICES ASSUME TransactionInv, TransactionInv', CommitInv, [TransactionNext]_transactionvars
             PROVE  [Promised!AbsNext]_Promised!absvars
  OBVIOUS
<1>1. Promised!Tell
  <2>1. tx_base' \in Tree
    BY DEF TransactionInv, TransactionTypeOK
  <2> QED
    BY <2>1, PromisedReplay DEF TransactionInv, SeenAsReplayed, get, Promised!Tell
<1>2. tx_base \in Tree /\ LeftInOrder /\ DoneAsSeen
  BY DEF TransactionInv, TransactionTypeOK, CommitInv
<1>3. Promised!Replayed(tx_base, log) = [k \in Key |-> get(k)]
  BY <1>2, PromisedReplay DEF TransactionInv, SeenAsReplayed, get
<1>4. ASSUME NEW k \in Key, NEW v \in Value, tx_set(k, v)
      PROVE  Promised!AbsSet(k, v)
  BY <1>1, <1>4 DEF tx_set, Promised!AbsSet
<1>5. ASSUME NEW k \in Key, tx_remove(k)
      PROVE  Promised!AbsSet(k, Null)
  BY <1>1, <1>5 DEF tx_remove, Promised!AbsSet
<1>6. ASSUME tx_commit
      PROVE  Promised!AbsCommit
  <2>1. [k \in Key |-> get(k)]' = [k \in Key |-> get(k)]
    BY <1>6 DEF tx_commit, changevars, get, Seen, Replaced
  <2> QED
    BY <1>6, <2>1 DEF tx_commit, Promised!AbsCommit
<1>7. ASSUME NEW k \in Key, tx_apply(k) \/ tx_delete(k)
      PROVE  Promised!AbsApply
  <2>1. \A j \in Key : get(j)' = get(j)
    BY <1>2, <1>7, ApplyDone, DeleteDone
  <2>2. UNCHANGED <<log, nothers, committing, touched>>
    BY <1>7 DEF tx_apply, tx_delete, base_set, BaseBecomes
  <2>3. committing
    BY <1>7 DEF tx_apply, tx_delete, TransactionInv, TransactionTypeOK, NothingLeft
  <2>4. Promised!Replayed(tx_base', log) = [j \in Key |-> get(j)]
    <3>1. tx_base' \in Tree /\ SeenAsReplayed'
      BY DEF TransactionInv, TransactionTypeOK
    <3>2. Replayed(tx_base', log) = [j \in Key |-> get(j)']
      BY <2>2, <3>1 DEF SeenAsReplayed, get
    <3> QED
      BY <2>1, <3>2, PromisedReplay
  <2> QED
    BY <1>3, <2>1, <2>2, <2>3, <2>4 DEF Promised!AbsApply
<1>8. ASSUME NEW k \in Key, tx_list(k)
      PROVE  UNCHANGED Promised!absvars
  BY <1>8 DEF tx_list, absvars, changevars, Promised!absvars, get, Seen, Replaced
<1>9. ASSUME tx_committed
      PROVE  Promised!AbsCommitted
  <2>1. ASSUME NEW k \in Key \ touched
        PROVE  tx_base[k] = get(k)
    <3>1. Done(k) /\ committing
      BY <1>9, PathFacts DEF tx_committed, NothingLeft, Done
    <3> QED
      BY <1>2, <2>1, <3>1 DEF DoneAsSeen
  <2>2. \A k \in Key \ touched : tx_base[k] = Promised!Replayed(tx_base, log)[k]
    BY <1>3, <2>1
  <2> QED
    BY <1>1, <1>9, <2>2 DEF tx_committed, Promised!AbsCommitted
<1>10. ASSUME tx_refresh
       PROVE  Promised!AbsRefresh
  BY <1>1, <1>10 DEF tx_refresh, Promised!AbsRefresh
<1>11. ASSUME NEW k \in Key, NEW v \in Value \union {Null}, tx_other(k, v)
       PROVE  Promised!AbsOther(k, v)
  <2>1. tx_base' = Promised!TempSet(tx_base, k, v) /\ log' = log
    BY <1>11, PromisedReplay DEF tx_other, BaseBecomes
  <2>2. touched' = IF committing THEN touched \union Promised!Changed(tx_base, tx_base') ELSE touched
    BY <1>11 DEF tx_other, Changed, Promised!Changed
  <2> QED
    BY <1>1, <1>11, <2>1, <2>2 DEF tx_other, Promised!AbsOther
<1>12. CASE UNCHANGED transactionvars
  BY <1>12 DEF transactionvars, absvars, changevars, Promised!absvars, get, Seen, Replaced
<1> QED
  BY <1>4, <1>5, <1>6, <1>7, <1>8, <1>9, <1>10, <1>11, <1>12 DEF TransactionNext, Promised!AbsNext

(* The change tree is a log of set() calls: commit() leaves the underlying *)
(* tree as the calls would, but for the keys that others change from its   *)
(* callbacks, refresh() as it was, and between them others' changes show   *)
(* through as the calls make them.                                         *)
THEOREM TransactionImplements == TransactionSpec => ImplementsTransaction
<1> QED
  BY TransactionInvariance, CommitInvariance, PromisedStart, PromisedStep, PTL
  DEF TransactionSpec, ImplementsTransaction, Promised!AbsSpec

----------------------------------------------------------------------------
(* A call releases a failed generator only together with putting off the   *)
(* next attempt, and puts it off further only when one was due.            *)
LEMMA CallWaits == RetryInv /\ call => RetryInv'
<1> SUFFICES ASSUME RetryInv, call
             PROVE  RetryInv'
  OBVIOUS
<1>1. /\ inner \in {"none", "ok", "broken", "failed"}
      /\ due \in Int /\ left \in 0 .. Interval /\ Interval \in Nat
      /\ inner = "none" /\ left < Interval => due >= Interval - left
  BY RetryAssumption DEF RetryInv
<1> DEFINE m == maybe_reconnect
<1>2. PICK waits \in BOOLEAN :
        /\ inner' = maybe_disconnect(IF waits THEN Passed(m) ELSE m).inner
        /\ due' = maybe_disconnect(IF waits THEN Passed(m) ELSE m).due
        /\ left' = IF inner # "none" /\ maybe_disconnect(IF waits THEN Passed(m) ELSE m).inner = "none"
                     THEN 0 ELSE left
  BY Zenon DEF call
<1> DEFINE n == IF waits THEN Passed(m) ELSE m
<1>3. /\ m.inner = (IF Attempts /\ server THEN "ok" ELSE inner)
      /\ m.due = (IF Attempts /\ ~server THEN due + Interval ELSE due)
  BY DEF maybe_reconnect
<1>4. /\ n.due = m.due
      /\ n.inner = m.inner \/ (m.inner = "broken" /\ n.inner = "failed")
  BY DEF Passed, maybe_reconnect
<1>5. /\ inner' = (IF n.inner = "failed" THEN "none" ELSE n.inner)
      /\ due' = (IF n.inner = "failed" THEN Interval ELSE n.due)
      /\ left' = IF inner # "none" /\ inner' = "none" THEN 0 ELSE left
  BY <1>2 DEF maybe_disconnect
<1> HIDE DEF m, n
<1>6. CASE inner = "none"
  <2>1. due <= 0 => left = Interval
    BY <1>1, <1>6
  <2>2. n.inner \in {"none", "ok"} /\ n.due = m.due
    BY <1>3, <1>4, <1>6
  <2> QED
    BY <1>1, <1>3, <1>5, <1>6, <2>1, <2>2 DEF RetryInv, Attempts
<1>7. CASE inner # "none"
  <2>1. m.inner = inner /\ m.due = due
    BY <1>3, <1>7 DEF Attempts
  <2>2. n.due = due /\ n.inner \in {"ok", "broken", "failed"}
    BY <1>1, <1>4, <1>7, <2>1
  <2> QED
    BY <1>1, <1>5, <1>7, <2>2 DEF RetryInv
<1> QED
  BY <1>6, <1>7

(* "At least 5000ms have passed since the disconnect" whenever an attempt  *)
(* to reconnect is made, however many attempts have been missed.           *)
THEOREM RetryWaits == RetrySpec => []WaitsAfterDisconnect
<1>1. RetryInit => RetryInv
  BY RetryAssumption DEF RetryInit, RetryInv
<1>2. RetryInv /\ [RetryNext]_retryvars => RetryInv'
  <2> SUFFICES ASSUME RetryInv, [RetryNext]_retryvars
               PROVE  RetryInv'
    OBVIOUS
  <2>1. CASE call
    BY <2>1, CallWaits
  <2>2. CASE tick
    BY <2>2, RetryAssumption DEF tick, RetryInv
  <2>3. CASE server_up
    BY <2>3 DEF server_up, RetryInv
  <2>4. CASE server_down
    BY <2>4 DEF server_down, RetryInv
  <2>5. CASE found_broken
    BY <2>5 DEF found_broken, RetryInv
  <2>6. CASE UNCHANGED retryvars
    BY <2>6 DEF retryvars, RetryInv
  <2> QED
    BY <2>1, <2>2, <2>3, <2>4, <2>5, <2>6 DEF RetryNext
<1>3. RetryInv => WaitsAfterDisconnect
  <2> SUFFICES ASSUME RetryInv
               PROVE  Attempts => left = Interval
    BY DEF WaitsAfterDisconnect
  <2> QED
    BY RetryAssumption DEF RetryInv, Attempts
<1> QED
  BY <1>1, <1>2, <1>3, PTL DEF RetrySpec

----------------------------------------------------------------------------
(* UniCacheGen.                                                            *)

(* So do entries and notices.                                              *)
LEMMA TakenType ==
  ASSUME NEW t \in ClosedTree, NEW m \in Message
  PROVE  Taken(t, m) \in ClosedTree
  BY TempSetClosed DEF Taken, loadtree, deltacallback, Message

(* The trees that come about while messages are stored.                    *)
LEMMA Filling ==
  ASSUME NEW t \in ClosedTree, NEW s \in Seq(Message)
  PROVE  \E f \in [0 .. Len(s) -> ClosedTree] :
           /\ f[0] = t
           /\ \A n \in 1 .. Len(s) : f[n] = Taken(f[n - 1], s[n])
           /\ Filled(t, s) = f[Len(s)]
<1> DEFINE N == Len(s)
           F == [n \in 1 .. N |-> [u \in ClosedTree |-> Taken(u, s[n])]]
           after[n \in 0 .. Len(s)] == IF n = 0 THEN t ELSE Taken(after[n - 1], s[n])
<1>1. N \in Nat /\ \A n \in 1 .. N : s[n] \in Message
  OBVIOUS
<1>2. F \in [1 .. N -> [ClosedTree -> ClosedTree]]
  BY <1>1, TakenType
<1>3. PICK f \in [0 .. N -> ClosedTree] : f[0] = t /\ \A n \in 1 .. N : f[n] = F[n][f[n - 1]]
  <2> HIDE DEF F, N
  <2>1. \A G \in [1 .. N -> [ClosedTree -> ClosedTree]] :
          \E f \in [0 .. N -> ClosedTree] : f[0] = t /\ \A n \in 1 .. N : f[n] = G[n][f[n - 1]]
    <3>1. Iterable(ClosedTree)
      BY Recursion
    <3> QED
      BY <1>1, <3>1 DEF Iterable
  <2> QED
    BY <1>2, <2>1, Zenon
<1>4. ASSUME NEW n \in 1 .. N
      PROVE  f[n] = Taken(f[n - 1], s[n])
  <2>1. f[n - 1] \in ClosedTree
    BY <1>1, <1>3
  <2>2. F[n] = [u \in ClosedTree |-> Taken(u, s[n])]
    OBVIOUS
  <2>3. F[n][f[n - 1]] = Taken(f[n - 1], s[n])
    <3> HIDE DEF F
    <3> QED
      BY <2>1, <2>2, Zenon
  <2> QED
    BY <1>3, <2>3, Zenon
<1>5. f = [n \in 0 .. Len(s) |-> IF n = 0 THEN t ELSE Taken(f[n - 1], s[n])]
  BY <1>3, <1>4
<1>6. after = [n \in 0 .. Len(s) |-> IF n = 0 THEN t ELSE Taken(after[n - 1], s[n])]
  BY <1>5, Zenon
<1>7. Filled(t, s) = after[Len(s)]
  BY Zenon DEF Filled
<1> HIDE DEF after, N
<1>8. \A n \in 0 .. N : f[n] = after[n]
  <2> DEFINE T == {n \in 0 .. N : f[n] = after[n]}
  <2>1. 0 \in T
    BY <1>1, <1>3, <1>6 DEF N
  <2>2. \A n \in 1 .. N : n - 1 \in T => n \in T
    BY <1>1, <1>4, <1>6 DEF N
  <2> HIDE DEF T
  <2>3. \A n \in 0 .. N : n \in T
    BY <1>1, <2>1, <2>2, Counting, Zenon
  <2> QED
    BY <2>3 DEF T
<1> QED
  BY <1>1, <1>3, <1>4, <1>7, <1>8 DEF N

(* Messages in two parts are stored part by part.                          *)
LEMMA FilledFacts ==
  ASSUME NEW t \in ClosedTree, NEW a \in Seq(Message), NEW b \in Seq(Message)
  PROVE  /\ Filled(t, a) \in ClosedTree
         /\ Filled(t, a \o b) = Filled(Filled(t, a), b)
<1>1. PICK f \in [0 .. Len(a) -> ClosedTree] :
        /\ f[0] = t
        /\ \A n \in 1 .. Len(a) : f[n] = Taken(f[n - 1], a[n])
        /\ Filled(t, a) = f[Len(a)]
  BY Filling
<1>2. Filled(t, a) \in ClosedTree
  BY <1>1
<1>3. PICK g \in [0 .. Len(b) -> ClosedTree] :
        /\ g[0] = Filled(t, a)
        /\ \A n \in 1 .. Len(b) : g[n] = Taken(g[n - 1], b[n])
        /\ Filled(Filled(t, a), b) = g[Len(b)]
  BY <1>2, Filling
<1> DEFINE c == a \o b
<1>4. /\ c \in Seq(Message) /\ Len(a) \in Nat /\ Len(b) \in Nat /\ Len(c) = Len(a) + Len(b)
      /\ \A n \in 1 .. Len(a) : c[n] = a[n]
      /\ \A n \in 1 .. Len(b) : c[Len(a) + n] = b[n]
  BY ConcatFacts
<1> HIDE DEF c
<1>5. PICK h \in [0 .. Len(c) -> ClosedTree] :
        /\ h[0] = t
        /\ \A n \in 1 .. Len(c) : h[n] = Taken(h[n - 1], c[n])
        /\ Filled(t, c) = h[Len(c)]
  BY <1>4, Filling
<1>6. \A n \in 0 .. Len(a) : h[n] = f[n]
  <2> DEFINE T == {n \in 0 .. Len(a) : h[n] = f[n]}
  <2>1. 0 \in T
    BY <1>1, <1>4, <1>5
  <2>2. \A n \in 1 .. Len(a) : n - 1 \in T => n \in T
    BY <1>1, <1>4, <1>5
  <2> HIDE DEF T
  <2>3. \A n \in 0 .. Len(a) : n \in T
    BY <1>4, <2>1, <2>2, Counting, Zenon
  <2> QED
    BY <2>3 DEF T
<1>7. \A n \in 0 .. Len(b) : h[Len(a) + n] = g[n]
  <2> DEFINE T == {n \in 0 .. Len(b) : h[Len(a) + n] = g[n]}
  <2>1. 0 \in T
    BY <1>1, <1>3, <1>4, <1>6
  <2>2. \A n \in 1 .. Len(b) : n - 1 \in T => n \in T
    <3> SUFFICES ASSUME NEW n \in 1 .. Len(b), h[Len(a) + (n - 1)] = g[n - 1]
                 PROVE  h[Len(a) + n] = g[n]
      BY <1>4
    <3>1. Len(a) + n \in 1 .. Len(c) /\ (Len(a) + n) - 1 = Len(a) + (n - 1)
      BY <1>4
    <3>2. h[Len(a) + n] = Taken(h[Len(a) + (n - 1)], c[Len(a) + n])
      BY <1>5, <3>1
    <3> QED
      BY <1>3, <1>4, <3>2
  <2> HIDE DEF T
  <2>3. \A n \in 0 .. Len(b) : n \in T
    BY <1>4, <2>1, <2>2, Counting, Zenon
  <2> QED
    BY <2>3 DEF T
<1>8. Filled(t, c) = Filled(Filled(t, a), b)
  BY <1>3, <1>4, <1>5, <1>7
<1> QED
  BY <1>2, <1>8 DEF c

(* No message, and one.                                                    *)
LEMMA FilledOne ==
  ASSUME NEW t \in ClosedTree, NEW m \in Message
  PROVE  Filled(t, <<>>) = t /\ Filled(t, <<m>>) = Taken(t, m)
<1>1. <<>> \in Seq(Message) /\ Len(<<>>) = 0 /\ <<m>> \in Seq(Message) /\ Len(<<m>>) = 1 /\ <<m>>[1] = m
  OBVIOUS
<1>2. Filled(t, <<>>) = t
  <2> DEFINE e == <<>>
  <2>1. e \in Seq(Message) /\ Len(e) = 0
    BY <1>1
  <2> HIDE DEF e
  <2>2. PICK f \in [0 .. Len(e) -> ClosedTree] : f[0] = t /\ Filled(t, e) = f[Len(e)]
    BY <2>1, Filling
  <2> QED
    BY <2>1, <2>2 DEF e
<1>3. Filled(t, <<m>>) = Taken(t, m)
  <2> DEFINE e == <<m>>
  <2>1. e \in Seq(Message) /\ Len(e) = 1 /\ e[1] = m
    BY <1>1
  <2> HIDE DEF e
  <2>2. PICK f \in [0 .. Len(e) -> ClosedTree] :
          /\ f[0] = t /\ Filled(t, e) = f[Len(e)]
          /\ \A n \in 1 .. Len(e) : f[n] = Taken(f[n - 1], e[n])
    BY <2>1, Filling
  <2> QED
    BY <2>1, <2>2 DEF e
<1> QED
  BY <1>2, <1>3

States ==
  [load : {"before", "asked", "done"}, listed : Seq(Message), held : Seq(Message),
   cache : ClosedTree]

(* Reading a message leaves a state of the client and the cache.           *)
LEMMA ReceivedType ==
  ASSUME NEW r \in States, NEW m \in Message
  PROVE  Received(r, m) \in States
<1>1. Filled(Filled(r.cache, r.held), r.listed) \in ClosedTree
  BY FilledFacts DEF States
<1>2. m.type = "NOTICE" => deltacallback(r.cache, m) \in ClosedTree
  BY TempSetClosed DEF States, deltacallback, Message
<1>3. m.type \in {"VAL", "NOTICE", "OK", "FAIL"}
  BY DEF Message
<1>4. Append(r.listed, m) \in Seq(Message) /\ Append(r.held, m) \in Seq(Message)
  BY DEF States
<1>5. CASE m.type = "VAL"
  BY <1>4, <1>5 DEF Received, States
<1>6. CASE m.type = "NOTICE" /\ r.load = "asked"
  BY <1>4, <1>6 DEF Received, States
<1>7. CASE m.type = "NOTICE" /\ r.load # "asked"
  BY <1>2, <1>7 DEF Received, States
<1>8. CASE m.type \in {"OK", "FAIL"}
  <2>1. Received(r, m) = [load |-> "done", held |-> <<>>, listed |-> <<>>,
                          cache |-> Filled(Filled(r.cache, r.held), r.listed)]
    BY <1>8 DEF Received
  <2> QED
    BY <1>1, <2>1 DEF States
<1> QED
  BY <1>3, <1>5, <1>6, <1>7, <1>8

(* The states that come about while messages are read.                     *)
LEMMA Reading ==
  ASSUME NEW t \in States, NEW s \in Seq(Message)
  PROVE  \E f \in [0 .. Len(s) -> States] :
           /\ f[0] = t
           /\ \A n \in 1 .. Len(s) : f[n] = Received(f[n - 1], s[n])
           /\ Read(t, s) = f[Len(s)]
<1> DEFINE N == Len(s)
           F == [n \in 1 .. N |-> [u \in States |-> Received(u, s[n])]]
           after[n \in 0 .. Len(s)] == IF n = 0 THEN t ELSE Received(after[n - 1], s[n])
<1>1. N \in Nat /\ \A n \in 1 .. N : s[n] \in Message
  OBVIOUS
<1>2. F \in [1 .. N -> [States -> States]]
  BY <1>1, ReceivedType
<1>3. PICK f \in [0 .. N -> States] : f[0] = t /\ \A n \in 1 .. N : f[n] = F[n][f[n - 1]]
  <2> HIDE DEF F, N
  <2>1. \A G \in [1 .. N -> [States -> States]] :
          \E f \in [0 .. N -> States] : f[0] = t /\ \A n \in 1 .. N : f[n] = G[n][f[n - 1]]
    <3>1. Iterable(States)
      BY Recursion
    <3> QED
      BY <1>1, <3>1 DEF Iterable
  <2> QED
    BY <1>2, <2>1, Zenon
<1>4. ASSUME NEW n \in 1 .. N
      PROVE  f[n] = Received(f[n - 1], s[n])
  <2>1. f[n - 1] \in States
    BY <1>1, <1>3
  <2>2. F[n] = [u \in States |-> Received(u, s[n])]
    OBVIOUS
  <2>3. F[n][f[n - 1]] = Received(f[n - 1], s[n])
    <3> HIDE DEF F
    <3> QED
      BY <2>1, <2>2, Zenon
  <2> QED
    BY <1>3, <2>3, Zenon
<1>5. f = [n \in 0 .. Len(s) |-> IF n = 0 THEN t ELSE Received(f[n - 1], s[n])]
  BY <1>3, <1>4
<1>6. after = [n \in 0 .. Len(s) |-> IF n = 0 THEN t ELSE Received(after[n - 1], s[n])]
  BY <1>5, Zenon
<1>7. Read(t, s) = after[Len(s)]
  BY Zenon DEF Read
<1> HIDE DEF after, N
<1>8. \A n \in 0 .. N : f[n] = after[n]
  <2> DEFINE T == {n \in 0 .. N : f[n] = after[n]}
  <2>1. 0 \in T
    BY <1>1, <1>3, <1>6 DEF N
  <2>2. \A n \in 1 .. N : n - 1 \in T => n \in T
    BY <1>1, <1>4, <1>6 DEF N
  <2> HIDE DEF T
  <2>3. \A n \in 0 .. N : n \in T
    BY <1>1, <2>1, <2>2, Counting, Zenon
  <2> QED
    BY <2>3 DEF T
<1> QED
  BY <1>1, <1>3, <1>4, <1>7, <1>8 DEF N

(* Messages in two parts are read part by part.                            *)
LEMMA ReadFacts ==
  ASSUME NEW t \in States, NEW a \in Seq(Message), NEW b \in Seq(Message)
  PROVE  /\ Read(t, a) \in States
         /\ Read(t, a \o b) = Read(Read(t, a), b)
<1>1. PICK f \in [0 .. Len(a) -> States] :
        /\ f[0] = t
        /\ \A n \in 1 .. Len(a) : f[n] = Received(f[n - 1], a[n])
        /\ Read(t, a) = f[Len(a)]
  BY Reading
<1>2. Read(t, a) \in States
  BY <1>1
<1>3. PICK g \in [0 .. Len(b) -> States] :
        /\ g[0] = Read(t, a)
        /\ \A n \in 1 .. Len(b) : g[n] = Received(g[n - 1], b[n])
        /\ Read(Read(t, a), b) = g[Len(b)]
  BY <1>2, Reading
<1> DEFINE c == a \o b
<1>4. /\ c \in Seq(Message) /\ Len(a) \in Nat /\ Len(b) \in Nat /\ Len(c) = Len(a) + Len(b)
      /\ \A n \in 1 .. Len(a) : c[n] = a[n]
      /\ \A n \in 1 .. Len(b) : c[Len(a) + n] = b[n]
  BY ConcatFacts
<1> HIDE DEF c
<1>5. PICK h \in [0 .. Len(c) -> States] :
        /\ h[0] = t
        /\ \A n \in 1 .. Len(c) : h[n] = Received(h[n - 1], c[n])
        /\ Read(t, c) = h[Len(c)]
  BY <1>4, Reading
<1>6. \A n \in 0 .. Len(a) : h[n] = f[n]
  <2> DEFINE T == {n \in 0 .. Len(a) : h[n] = f[n]}
  <2>1. 0 \in T
    BY <1>1, <1>4, <1>5
  <2>2. \A n \in 1 .. Len(a) : n - 1 \in T => n \in T
    BY <1>1, <1>4, <1>5
  <2> HIDE DEF T
  <2>3. \A n \in 0 .. Len(a) : n \in T
    BY <1>4, <2>1, <2>2, Counting, Zenon
  <2> QED
    BY <2>3 DEF T
<1>7. \A n \in 0 .. Len(b) : h[Len(a) + n] = g[n]
  <2> DEFINE T == {n \in 0 .. Len(b) : h[Len(a) + n] = g[n]}
  <2>1. 0 \in T
    BY <1>1, <1>3, <1>4, <1>6
  <2>2. \A n \in 1 .. Len(b) : n - 1 \in T => n \in T
    <3> SUFFICES ASSUME NEW n \in 1 .. Len(b), h[Len(a) + (n - 1)] = g[n - 1]
                 PROVE  h[Len(a) + n] = g[n]
      BY <1>4
    <3>1. Len(a) + n \in 1 .. Len(c) /\ (Len(a) + n) - 1 = Len(a) + (n - 1)
      BY <1>4
    <3>2. h[Len(a) + n] = Received(h[Len(a) + (n - 1)], c[Len(a) + n])
      BY <1>5, <3>1
    <3> QED
      BY <1>3, <1>4, <3>2
  <2> HIDE DEF T
  <2>3. \A n \in 0 .. Len(b) : n \in T
    BY <1>4, <2>1, <2>2, Counting, Zenon
  <2> QED
    BY <2>3 DEF T
<1>8. Read(t, c) = Read(Read(t, a), b)
  BY <1>3, <1>4, <1>5, <1>7
<1> QED
  BY <1>2, <1>8 DEF c

(* No message, and one.                                                    *)
LEMMA ReadOne ==
  ASSUME NEW t \in States, NEW m \in Message
  PROVE  Read(t, <<>>) = t /\ Read(t, <<m>>) = Received(t, m)
<1>1. <<>> \in Seq(Message) /\ Len(<<>>) = 0 /\ <<m>> \in Seq(Message) /\ Len(<<m>>) = 1 /\ <<m>>[1] = m
  OBVIOUS
<1>2. Read(t, <<>>) = t
  <2> DEFINE e == <<>>
  <2>1. e \in Seq(Message) /\ Len(e) = 0
    BY <1>1
  <2> HIDE DEF e
  <2>2. PICK f \in [0 .. Len(e) -> States] : f[0] = t /\ Read(t, e) = f[Len(e)]
    BY <2>1, Reading
  <2> QED
    BY <2>1, <2>2 DEF e
<1>3. Read(t, <<m>>) = Received(t, m)
  <2> DEFINE e == <<m>>
  <2>1. e \in Seq(Message) /\ Len(e) = 1 /\ e[1] = m
    BY <1>1
  <2> HIDE DEF e
  <2>2. PICK f \in [0 .. Len(e) -> States] :
          /\ f[0] = t /\ Read(t, e) = f[Len(e)]
          /\ \A n \in 1 .. Len(e) : f[n] = Received(f[n - 1], e[n])
    BY <2>1, Reading
  <2> QED
    BY <2>1, <2>2 DEF e
<1> QED
  BY <1>2, <1>3

(* A notice is stored at once or held back: it comes to the same.          *)
LEMMA NoticeRead ==
  ASSUME NEW r \in States, NEW m \in Message, m.type = "NOTICE",
         r.load # "asked" => r.held = <<>>
  PROVE  LET x == Received(r, m)
         IN /\ x \in States /\ x.load = r.load /\ x.listed = r.listed
            /\ x.load # "asked" => x.held = <<>>
            /\ Filled(x.cache, x.held) = Taken(Filled(r.cache, r.held), m)
<1> DEFINE x == Received(r, m)
<1>1. x \in States
  BY ReceivedType
<1>2. /\ r.cache \in ClosedTree /\ r.held \in Seq(Message) /\ <<m>> \in Seq(Message)
      /\ r.listed \in Seq(Message)
  BY DEF States
<1>3. CASE r.load = "asked"
  <2>1. x = [r EXCEPT !.held = Append(@, m)]
    BY <1>3 DEF Received
  <2>2. x.load = r.load /\ x.listed = r.listed /\ x.cache = r.cache /\ x.held = r.held \o <<m>>
    BY <1>2, <2>1 DEF States
  <2>3. Filled(r.cache, r.held \o <<m>>) = Filled(Filled(r.cache, r.held), <<m>>)
    BY <1>2, FilledFacts
  <2>4. Filled(r.cache, r.held) \in ClosedTree
    BY <1>2, FilledFacts
  <2> HIDE DEF x
  <2> QED
    BY <1>1, <1>3, <2>2, <2>3, <2>4, FilledOne DEF x
<1>4. CASE r.load # "asked"
  <2>1. x = [r EXCEPT !.cache = deltacallback(@, m)]
    BY <1>4 DEF Received
  <2>2. /\ x.load = r.load /\ x.listed = r.listed /\ x.held = <<>>
        /\ x.cache = deltacallback(r.cache, m)
    BY <1>4, <2>1 DEF States
  <2>3. x.cache \in ClosedTree
    BY <1>1 DEF States
  <2>4. Filled(r.cache, <<>>) = r.cache /\ Filled(x.cache, <<>>) = x.cache
    BY <1>2, <2>3, FilledOne
  <2> HIDE DEF x
  <2> QED
    BY <1>1, <1>4, <2>2, <2>4 DEF x, Taken
<1> QED
  BY <1>3, <1>4

(* So do many.                                                             *)
LEMMA NoticesRead ==
  ASSUME NEW r \in States, NEW s \in Seq(Message), \A i \in 1 .. Len(s) : s[i].type = "NOTICE",
         r.load # "asked" => r.held = <<>>
  PROVE  LET x == Read(r, s)
         IN /\ x \in States /\ x.load = r.load /\ x.listed = r.listed
            /\ x.load # "asked" => x.held = <<>>
            /\ Filled(x.cache, x.held) = Filled(Filled(r.cache, r.held), s)
<1> DEFINE N == Len(s)
           v == Filled(r.cache, r.held)
<1>1. N \in Nat /\ \A n \in 1 .. N : s[n] \in Message
  OBVIOUS
<1>2. v \in ClosedTree
  BY FilledFacts DEF States
<1>3. PICK f \in [0 .. N -> States] :
        f[0] = r /\ (\A n \in 1 .. N : f[n] = Received(f[n - 1], s[n])) /\ Read(r, s) = f[N]
  BY Reading
<1> HIDE DEF v
<1>4. PICK g \in [0 .. N -> ClosedTree] :
        g[0] = v /\ (\A n \in 1 .. N : g[n] = Taken(g[n - 1], s[n])) /\ Filled(v, s) = g[N]
  BY <1>2, Filling
<1> HIDE DEF N
<1> DEFINE T == {n \in 0 .. N :
                   /\ f[n].load = r.load /\ f[n].listed = r.listed
                   /\ f[n].load # "asked" => f[n].held = <<>>
                   /\ Filled(f[n].cache, f[n].held) = g[n]}
<1>5. 0 \in T
  BY <1>1, <1>3, <1>4 DEF v
<1>6. ASSUME NEW n \in 1 .. N, n - 1 \in T
      PROVE  n \in T
  <2>1. n - 1 \in 0 .. N /\ f[n - 1] \in States /\ s[n] \in Message /\ s[n].type = "NOTICE"
    BY <1>1, <1>3 DEF N
  <2>2. f[n - 1].load # "asked" => f[n - 1].held = <<>>
    BY <1>6
  <2>3. LET x == Received(f[n - 1], s[n])
        IN /\ x.load = f[n - 1].load /\ x.listed = f[n - 1].listed
           /\ x.load # "asked" => x.held = <<>>
           /\ Filled(x.cache, x.held) = Taken(Filled(f[n - 1].cache, f[n - 1].held), s[n])
    BY <2>1, <2>2, NoticeRead
  <2>4. f[n] = Received(f[n - 1], s[n]) /\ g[n] = Taken(g[n - 1], s[n])
    BY <1>3, <1>4
  <2>5. /\ f[n - 1].load = r.load /\ f[n - 1].listed = r.listed
        /\ Filled(f[n - 1].cache, f[n - 1].held) = g[n - 1]
    BY <1>6
  <2>6. /\ f[n].load = r.load /\ f[n].listed = r.listed
        /\ f[n].load # "asked" => f[n].held = <<>>
        /\ Filled(f[n].cache, f[n].held) = g[n]
    BY <2>3, <2>4, <2>5, Zenon
  <2>7. n \in 0 .. N
    BY <1>1
  <2> QED
    BY <2>6, <2>7
<1>7. \A n \in 1 .. N : n - 1 \in T => n \in T
  BY <1>6
<1> HIDE DEF T
<1>8. N \in T
  <2>1. \A n \in 0 .. N : n \in T
    BY <1>1, <1>5, <1>7, Counting, Zenon
  <2> QED
    BY <1>1, <2>1
<1> QED
  BY <1>1, <1>3, <1>4, <1>8 DEF N, T, v

(* What the cache becomes when it is told of a change to tree t: told keys *)
(* have the new value, others the old one or that of a parent of others.   *)
LEMMA ChangeTold ==
  ASSUME NEW c \in ClosedTree, NEW t \in ClosedTree, NEW s \in Seq(Message),
         \A i \in 1 .. Len(s) : s[i].type = "NOTICE" /\ s[i].value = t[s[i].key]
  PROVE  LET u == Filled(c, s)
         IN \A j \in Key :
              /\ (\E i \in 1 .. Len(s) : s[i].key = j) => u[j] = t[j]
              /\ u[j] \in {c[j], t[j]} \/ (u[j] = Empty /\ c[j] = Null /\ t[j] # Null)
<1> DEFINE N == Len(s)
<1>1. N \in Nat /\ \A n \in 1 .. N : s[n] \in Message /\ s[n].key \in Key
  <2>1. N \in Nat /\ \A n \in 1 .. N : s[n] \in Message
    OBVIOUS
  <2>2. \A m \in Message : m.key \in Key
    BY DEF Message
  <2> QED
    BY <2>1, <2>2
<1>2. PICK f \in [0 .. N -> ClosedTree] :
        f[0] = c /\ (\A n \in 1 .. N : f[n] = Taken(f[n - 1], s[n])) /\ Filled(c, s) = f[N]
  BY Filling
<1> HIDE DEF N
<1> DEFINE Told(u, n) ==
             \A j \in Key :
               /\ (\E i \in 1 .. n : s[i].key = j) => u[j] = t[j]
               /\ u[j] \in {c[j], t[j]} \/ (u[j] = Empty /\ c[j] = Null /\ t[j] # Null)
           T == {n \in 0 .. N : Told(f[n], n)}
<1>3. 0 \in T
  BY <1>1, <1>2
<1>4. ASSUME NEW n \in 1 .. N, n - 1 \in T
      PROVE  n \in T
  <2> DEFINE u == f[n - 1]
             k == s[n].key
             w == f[n]
  <2>1. u \in Tree /\ t \in Tree /\ PrefixClosed(t) /\ k \in Key
    <3>1. n - 1 \in 0 .. N /\ k \in Key
      BY <1>1
    <3>2. u \in ClosedTree
      BY <1>2, <3>1
    <3> QED
      BY <3>1, <3>2 DEF ClosedTree
  <2>2. w = TempSet(u, k, t[k])
    BY <1>1, <1>2 DEF Taken, deltacallback, N
  <2>3. Told(u, n - 1)
    BY <1>4
  <2>4. \A i \in 1 .. n : i \in 1 .. n - 1 \/ i = n
    BY <1>1
  <2>5. ASSUME NEW j \in Key
        PROVE  /\ (\E i \in 1 .. n : s[i].key = j) => w[j] = t[j]
               /\ w[j] \in {c[j], t[j]} \/ (w[j] = Empty /\ c[j] = Null /\ t[j] # Null)
    <3> DEFINE before == \E i \in 1 .. n - 1 : s[i].key = j
    <3>1. /\ before => u[j] = t[j]
          /\ u[j] \in {c[j], t[j]} \/ (u[j] = Empty /\ c[j] = Null /\ t[j] # Null)
      BY <2>3
    <3>2. (\E i \in 1 .. n : s[i].key = j) => before \/ j = k
      BY <2>4
    <3> HIDE DEF before, u, k, w
    <3>3. CASE t[k] = Null /\ <<k, j>> \in Prefix
      <4>1. w[j] = Null
        BY <2>1, <2>2, <3>3 DEF TempSet, Removed, Subtree
      <4>2. t[j] = Null
        BY <2>1, <3>3 DEF PrefixClosed, Exists, PathTo
      <4> QED
        BY <4>1, <4>2
    <3>4. CASE t[k] = Null /\ <<k, j>> \notin Prefix
      <4>1. w[j] = u[j] /\ j # k
        BY <2>1, <2>2, <3>4, PrefixAssumption DEF TempSet, Removed, Subtree
      <4> QED
        BY <3>1, <3>2, <4>1
    <3>5. CASE t[k] # Null /\ j = k
      <4>1. w[j] = t[j]
        BY <2>1, <2>2, <3>5 DEF TempSet, Stored
      <4> QED
        BY <4>1
    <3>6. CASE t[k] # Null /\ j # k /\ j \in PathTo(k) /\ u[j] = Null
      <4>1. w[j] = Empty
        BY <2>1, <2>2, <3>6 DEF TempSet, Stored
      <4>2. t[j] # Null
        BY <2>1, <3>6 DEF PrefixClosed, Exists
      <4>3. c[j] = Null /\ ~before
        BY <3>1, <3>6, <4>2, ValueAssumption
      <4> QED
        BY <3>2, <3>6, <4>1, <4>2, <4>3
    <3>7. CASE t[k] # Null /\ j # k /\ ~(j \in PathTo(k) /\ u[j] = Null)
      <4>1. w[j] = u[j]
        BY <2>1, <2>2, <3>7 DEF TempSet, Stored
      <4> QED
        BY <3>1, <3>2, <3>7, <4>1
    <3> QED
      BY <3>3, <3>4, <3>5, <3>6, <3>7
  <2>6. Told(f[n], n)
    BY <2>5
  <2> QED
    BY <1>1, <2>6
<1>5. \A n \in 1 .. N : n - 1 \in T => n \in T
  BY <1>4
<1> HIDE DEF T
<1>6. N \in T
  <2>1. \A n \in 0 .. N : n \in T
    BY <1>1, <1>3, <1>5, Counting, Zenon
  <2> QED
    BY <1>1, <2>1
<1>7. Told(f[N], N)
  BY <1>6 DEF T
<1> QED
  BY <1>2, <1>7 DEF N

(* So what the cache has of the daemon's tree it has of the changed tree.  *)
LEMMA ChangeKeeps ==
  ASSUME NEW c \in ClosedTree, NEW t \in ClosedTree, NEW u \in ClosedTree, NEW s \in Seq(Message),
         \A i \in 1 .. Len(s) : s[i].type = "NOTICE" /\ s[i].value = u[s[i].key],
         \A j \in Changed(t, u) : \E i \in 1 .. Len(s) : s[i].key = j
  PROVE  /\ PartOf(c, t) => PartOf(Filled(c, s), u)
         /\ \A D : Agrees(c, t, D) => Agrees(Filled(c, s), u, D)
<1> DEFINE x == Filled(c, s)
<1>1. ASSUME NEW j \in Key
      PROVE  /\ t[j] # u[j] => x[j] = u[j]
             /\ x[j] \in {c[j], u[j]} \/ (x[j] = Empty /\ c[j] = Null /\ u[j] # Null)
  <2>1. /\ (\E i \in 1 .. Len(s) : s[i].key = j) => x[j] = u[j]
        /\ x[j] \in {c[j], u[j]} \/ (x[j] = Empty /\ c[j] = Null /\ u[j] # Null)
    BY ChangeTold
  <2>2. t[j] # u[j] => \E i \in 1 .. Len(s) : s[i].key = j
    BY DEF Changed
  <2> QED
    BY <2>1, <2>2
<1> HIDE DEF x
<1>2. PartOf(c, t) => PartOf(x, u)
  BY <1>1, ValueAssumption DEF PartOf, Exists
<1>3. \A D : Agrees(c, t, D) => Agrees(x, u, D)
  BY <1>1, ValueAssumption DEF Agrees
<1> QED
  BY <1>2, <1>3 DEF x

(* What the cache becomes when a listing is stored that is complete and    *)
(* true of the keys that did not change.                                   *)
LEMMA ListingStored ==
  ASSUME NEW c \in ClosedTree, NEW ms \in Seq(Message), tree \in Tree, PartOf(c, tree), ListedTrue(ms),
         \A k \in Key \ (racing \union {Root}) :
           Exists(tree, k) => \E i \in DOMAIN ms : ms[i].key = k
  PROVE  Agrees(Filled(c, ms), tree, racing \union {Root})
<1> DEFINE N == Len(ms)
           K == Key \ (racing \union {Root})
<1>1. N \in Nat /\ DOMAIN ms = 1 .. N /\ \A n \in 1 .. N : ms[n] \in Message
  OBVIOUS
<1>2. PICK f \in [0 .. N -> ClosedTree] :
        f[0] = c /\ (\A n \in 1 .. N : f[n] = Taken(f[n - 1], ms[n])) /\ Filled(c, ms) = f[N]
  BY Filling
<1> HIDE DEF N
<1> DEFINE Has(u, n) ==
             \A j \in K :
               /\ u[j] # Null => Exists(tree, j) /\ u[j] \in {tree[j], Empty}
               /\ (\E i \in 1 .. n : ms[i].key = j) /\ tree[j] \notin {Null, Empty} => u[j] = tree[j]
           T == {n \in 0 .. N : Has(f[n], n)}
<1>3. 0 \in T
  BY <1>1, <1>2 DEF PartOf, Exists
<1>4. ASSUME NEW n \in 1 .. N, n - 1 \in T
      PROVE  n \in T
  <2> DEFINE u == f[n - 1]
             k == ms[n].key
             v == ms[n].value
             w == f[n]
  <2>1. /\ u \in Tree /\ k \in Key /\ v \in Value \union {Null} /\ ms[n].type = "VAL"
        /\ n \in DOMAIN ms
    <3>1. n - 1 \in 0 .. N /\ n \in DOMAIN ms
      BY <1>1
    <3>2. ms[n].type = "VAL"
      BY <3>1 DEF ListedTrue
    <3>3. u \in Tree
      BY <1>2, <3>1 DEF ClosedTree
    <3>4. \A m \in Message : m.key \in Key /\ m.value \in Value \union {Null}
      BY DEF Message
    <3> QED
      BY <1>1, <3>1, <3>2, <3>3, <3>4
  <2>2. w = IF v \in {Null, Empty} THEN u ELSE TempSet(u, k, v)
    BY <1>2, <2>1 DEF Taken, loadtree
  <2>3. Has(u, n - 1)
    BY <1>4
  <2>4. \A i \in 1 .. n : i \in 1 .. n - 1 \/ i = n
    BY <1>1
  <2>5. \A q \in PathTo(k) \ racing : (q = k => v = tree[q]) /\ (v # Null => Exists(tree, q))
    BY <2>1 DEF ListedTrue
  <2>6. ASSUME NEW j \in K
        PROVE  /\ w[j] # Null => Exists(tree, j) /\ w[j] \in {tree[j], Empty}
               /\ (\E i \in 1 .. n : ms[i].key = j) /\ tree[j] \notin {Null, Empty} => w[j] = tree[j]
    <3> DEFINE before == \E i \in 1 .. n - 1 : ms[i].key = j
    <3>1. /\ u[j] # Null => Exists(tree, j) /\ u[j] \in {tree[j], Empty}
          /\ before /\ tree[j] \notin {Null, Empty} => u[j] = tree[j]
      BY <2>3
    <3>2. (\E i \in 1 .. n : ms[i].key = j) => before \/ j = k
      BY <2>4
    <3>3. j = k => v = tree[j]
      BY <2>5, PrefixAssumption DEF PathTo
    <3> HIDE DEF before, u, k, v, w
    <3>4. CASE v \in {Null, Empty}
      BY <2>2, <3>1, <3>2, <3>3, <3>4
    <3>5. CASE v \notin {Null, Empty} /\ j = k
      <4>1. w[j] = v /\ v # Null
        BY <2>1, <2>2, <3>5 DEF TempSet, Stored
      <4> QED
        BY <3>3, <3>5, <4>1 DEF Exists
    <3>6. CASE v \notin {Null, Empty} /\ j # k /\ j \in PathTo(k) /\ u[j] = Null
      <4>1. w[j] = Empty
        BY <2>1, <2>2, <3>6 DEF TempSet, Stored
      <4>2. Exists(tree, j)
        BY <2>5, <3>6
      <4> QED
        BY <3>1, <3>2, <3>6, <4>1, <4>2
    <3>7. CASE v \notin {Null, Empty} /\ j # k /\ ~(j \in PathTo(k) /\ u[j] = Null)
      <4>1. w[j] = u[j]
        BY <2>1, <2>2, <3>7 DEF TempSet, Stored
      <4> QED
        BY <3>1, <3>2, <3>7, <4>1
    <3> QED
      BY <3>4, <3>5, <3>6, <3>7
  <2>7. Has(f[n], n)
    BY <2>6
  <2> QED
    BY <1>1, <2>7
<1>5. \A n \in 1 .. N : n - 1 \in T => n \in T
  BY <1>4
<1> HIDE DEF T
<1>6. N \in T
  <2>1. \A n \in 0 .. N : n \in T
    BY <1>1, <1>3, <1>5, Counting, Zenon
  <2> QED
    BY <1>1, <2>1
<1>7. Has(f[N], N)
  BY <1>6 DEF T
<1> QED
  BY <1>1, <1>2, <1>7 DEF Agrees, Exists

(* When the iterator looks below an entry, the names there come to those   *)
(* that are left, and none is lost.                                        *)
LEMMA WalkFacts ==
  ASSUME NEW t, NEW l \in Seq(SUBSET Key), NEW e
  PROVE  LET w == WalkOn(t, l, e)
         IN /\ w \in Seq(SUBSET Key)
            /\ \A i \in DOMAIN l : \A p \in l[i] : \E n \in DOMAIN w : p \in w[n]
            /\ e # Null /\ Exists(t, e) =>
                 \A p \in Existing(t, e) : \E n \in DOMAIN w : p \in w[n]
<1> DEFINE below == IF e # Null /\ Exists(t, e) THEN Append(l, Existing(t, e)) ELSE l
           open == {i \in DOMAIN below : below[i] # {}}
           n == CHOOSE n \in open \union {0} : \A i \in open : i <= n
           w == SubSeq(below, 1, n)
<1>1. Existing(t, e) \in SUBSET Key
  BY DEF Existing, Children, Subtree
<1>2. /\ below \in Seq(SUBSET Key)
      /\ \A i \in DOMAIN l : i \in DOMAIN below /\ below[i] = l[i]
      /\ e # Null /\ Exists(t, e) => Len(l) + 1 \in DOMAIN below /\ below[Len(l) + 1] = Existing(t, e)
  BY <1>1
<1> HIDE DEF below
<1>3. Len(below) \in Nat /\ DOMAIN below = 1 .. Len(below) /\ open \in SUBSET (1 .. Len(below))
  BY <1>2
<1>4. \E m \in open \union {0} : \A i \in open : i <= m
  <2> HIDE DEF open
  <2> QED
    BY <1>3, Largest
<1>5. n \in open \union {0} /\ \A i \in open : i <= n
  <2> HIDE DEF open
  <2> QED
    BY <1>4, Zenon
<1> HIDE DEF n
<1>6. n \in 0 .. Len(below)
  BY <1>3, <1>5
<1>7. w \in Seq(SUBSET Key) /\ Len(w) = n /\ \A i \in 1 .. n : w[i] = below[i]
  BY <1>2, <1>6, SubSeqFacts
<1>8. WalkOn(t, l, e) = w
  BY DEF WalkOn, w, below, n, open
<1>9. \A i \in DOMAIN below : \A p \in below[i] : \E j \in DOMAIN w : p \in w[j]
  <2> SUFFICES ASSUME NEW i \in DOMAIN below, NEW p \in below[i]
               PROVE  \E j \in DOMAIN w : p \in w[j]
    OBVIOUS
  <2>1. i \in 1 .. n
    BY <1>3, <1>5, <1>6
  <2>2. w[i] = below[i]
    BY <1>7, <2>1
  <2>3. i \in DOMAIN w
    BY <1>7, <2>1
  <2> HIDE DEF w
  <2> QED
    BY <2>2, <2>3
<1> HIDE DEF w
<1> QED
  BY <1>2, <1>7, <1>8, <1>9

(* Whatever is read, client and cache are in a state of their types.       *)
LEMMA EndFacts ==
  ASSUME TypeOK
  PROVE  Local \in States /\ End \in States /\ AtEnd \in ClosedTree
<1>1. Local \in States
  BY DEF TypeOK, Local, States, ClosedTree
<1>2. End \in States
  BY <1>1, ReadFacts DEF TypeOK, End
<1>3. AtEnd \in ClosedTree
  BY <1>2, FilledFacts DEF AtEnd, States
<1> QED
  BY <1>1, <1>2, <1>3

(* A message more on the stream is a message more to be read.              *)
LEMMA EndAppend ==
  ASSUME NEW r \in States, NEW s \in Seq(Message), NEW m \in Message
  PROVE  Append(s, m) \in Seq(Message) /\ Read(r, Append(s, m)) = Received(Read(r, s), m)
<1>1. Append(s, m) = s \o <<m>> /\ <<m>> \in Seq(Message) /\ Append(s, m) \in Seq(Message)
  OBVIOUS
<1>2. Read(r, s) \in States /\ Read(r, s \o <<m>>) = Read(Read(r, s), <<m>>)
  BY <1>1, ReadFacts
<1> QED
  BY <1>1, <1>2, ReadOne

(* Somebody changes the daemon's tree.                                     *)
LEMMA CacheChange ==
  ASSUME CacheInv, NEW t \in ClosedTree, NEW s \in Listings(Changed(tree, t)), Change(t, s)
  PROVE  CacheInv'
<1> DEFINE b == [i \in DOMAIN s |-> Msg("NOTICE", s[i], t[s[i]])]
<1>1. TypeOK /\ Local \in States /\ End \in States /\ AtEnd \in ClosedTree
  BY EndFacts DEF CacheInv
<1>2. /\ nsets < MaxSets /\ nsets' = nsets + 1 /\ tree' = t /\ stream' = stream \o b
      /\ racing' = IF Walking THEN racing \union Changed(tree, t) ELSE racing
      /\ UNCHANGED <<levels, entered, load, listed, held, cache>>
  BY DEF Change
<1>3. /\ b \in Seq(Message) /\ Len(b) = Len(s) /\ Len(s) \in Nat
      /\ \A i \in 1 .. Len(b) : b[i].type = "NOTICE" /\ b[i].key = s[i] /\ b[i].value = t[b[i].key]
      /\ \A j \in Changed(tree, t) : \E i \in 1 .. Len(b) : b[i].key = j
  <2> DEFINE n == Cardinality(Changed(tree, t))
  <2>1. n \in Nat
    <3>1. Changed(tree, t) \in SUBSET Key /\ IsFiniteSet(Key)
      BY KeyAssumption DEF Changed
    <3>2. IsFiniteSet(Changed(tree, t))
      BY <3>1, FS_Subset
    <3> QED
      BY <3>2, FS_CardinalityType
  <2>2. s \in [1 .. n -> Key] /\ \A j \in Changed(tree, t) : \E i \in 1 .. n : s[i] = j
    BY DEF Listings, Changed
  <2> HIDE DEF n
  <2>3. Len(s) = n /\ DOMAIN s = 1 .. n
    BY <2>1, <2>2
  <2>4. \A i \in 1 .. n : Msg("NOTICE", s[i], t[s[i]]) \in Message
    BY <2>2 DEF Msg, Message, ClosedTree, Tree
  <2>5. b \in [1 .. n -> Message] /\ \A i \in 1 .. n : b[i] = Msg("NOTICE", s[i], t[s[i]])
    BY <2>3, <2>4
  <2> HIDE DEF b
  <2>6. b \in Seq(Message) /\ Len(b) = n
    BY <2>1, <2>5
  <2> QED
    BY <2>1, <2>2, <2>3, <2>5, <2>6 DEF Msg
<1> HIDE DEF b
<1>4. Local' = Local
  BY <1>2 DEF Local
<1>5. End' = Read(End, b)
  <2>1. End' = Read(Local, stream \o b)
    BY <1>2, <1>4 DEF End
  <2> QED
    BY <1>1, <1>3, <2>1, ReadFacts DEF End, TypeOK
<1>6. /\ End'.load = End.load /\ End'.listed = End.listed
      /\ End'.load # "asked" => End'.held = <<>>
      /\ AtEnd' = Filled(AtEnd, b)
  <2>1. End.load # "asked" => End.held = <<>>
    BY DEF CacheInv
  <2>2. LET x == Read(End, b)
        IN /\ x.load = End.load /\ x.listed = End.listed
           /\ x.load # "asked" => x.held = <<>>
           /\ Filled(x.cache, x.held) = Filled(Filled(End.cache, End.held), b)
    BY <1>1, <1>3, <2>1, NoticesRead
  <2>3. AtEnd' = Filled(Read(End, b).cache, Read(End, b).held)
    BY <1>5 DEF AtEnd
  <2> QED
    BY <1>5, <2>2, <2>3 DEF AtEnd
<1>7. /\ PartOf(AtEnd, tree) => PartOf(AtEnd', t)
      /\ \A D : Agrees(AtEnd, tree, D) => Agrees(AtEnd', t, D)
  <2>1. tree \in ClosedTree
    BY <1>1 DEF TypeOK, ClosedTree
  <2>2. /\ PartOf(AtEnd, tree) => PartOf(Filled(AtEnd, b), t)
        /\ \A D : Agrees(AtEnd, tree, D) => Agrees(Filled(AtEnd, b), t, D)
    BY <1>1, <1>3, <2>1, ChangeKeeps
  <2> QED
    BY <1>6, <2>2
<1>8. TypeOK'
  <2>1. tree' \in Tree /\ PrefixClosed(tree)' /\ racing' \subseteq Key
    <3>1. Changed(tree, t) \subseteq Key
      BY DEF Changed
    <3> QED
      BY <1>1, <1>2, <3>1 DEF TypeOK, ClosedTree, PrefixClosed
  <2>2. stream' \in Seq(Message)
    BY <1>1, <1>2, <1>3 DEF TypeOK
  <2>3. nsets' \in 0 .. MaxSets
    BY <1>1, <1>2, CacheAssumption DEF TypeOK
  <2> QED
    BY <1>1, <1>2, <2>1, <2>2, <2>3 DEF TypeOK, PrefixClosed
<1>9. (Walking <=> End.load = "asked")' /\ Walking' = Walking
  BY <1>2, <1>6 DEF CacheInv, Walking
<1>10. ASSUME load' = "before"
       PROVE  held' = <<>> /\ listed' = <<>> /\ racing' = {} /\ \A i \in DOMAIN stream' : stream'[i].type = "NOTICE"
  <2>1. held = <<>> /\ listed = <<>> /\ racing = {} /\ \A i \in DOMAIN stream : stream[i].type = "NOTICE"
    BY <1>2, <1>10 DEF CacheInv
  <2>2. ~Walking
    <3>1. LET x == Read(Local, stream) IN x.load = Local.load
      <4>1. stream \in Seq(Message) /\ \A i \in 1 .. Len(stream) : stream[i].type = "NOTICE"
        BY <1>1, <2>1 DEF TypeOK
      <4>2. Local.held = <<>>
        BY <2>1 DEF Local
      <4> QED
        BY <1>1, <4>1, <4>2, NoticesRead
    <3>2. End.load = "before"
      BY <1>2, <1>10, <3>1 DEF Local, End
    <3> QED
      BY <3>2 DEF CacheInv
  <2>3. /\ Len(stream) \in Nat /\ DOMAIN stream = 1 .. Len(stream)
        /\ DOMAIN stream' = 1 .. Len(stream) + Len(b)
        /\ \A i \in 1 .. Len(stream) : stream'[i] = stream[i]
        /\ \A i \in 1 .. Len(b) : stream'[Len(stream) + i] = b[i]
    <3>1. stream \in Seq(Message)
      BY <1>1 DEF TypeOK
    <3>2. LET c == stream \o b
          IN /\ Len(stream) \in Nat /\ DOMAIN stream = 1 .. Len(stream)
             /\ DOMAIN c = 1 .. Len(stream) + Len(b)
             /\ \A i \in 1 .. Len(stream) : c[i] = stream[i]
             /\ \A i \in 1 .. Len(b) : c[Len(stream) + i] = b[i]
      BY <1>3, <3>1
    <3> QED
      BY <1>2, <3>2
  <2>4. ASSUME NEW i \in DOMAIN stream'
        PROVE  stream'[i].type = "NOTICE"
    <3>1. i \in 1 .. Len(stream) \/ (i - Len(stream) \in 1 .. Len(b) /\ i = Len(stream) + (i - Len(stream)))
      BY <1>3, <2>3
    <3> QED
      BY <1>3, <2>1, <2>3, <3>1
  <2> QED
    BY <1>2, <2>1, <2>2, <2>4
<1>11. ASSUME Walking
       PROVE  ListedTrue(End.listed)' /\ AllListed(End.listed)'
  <2>1. ListedTrue(End.listed) /\ AllListed(End.listed)
    BY <1>11 DEF CacheInv
  <2>2. \A k \in Key : k \notin racing' => k \notin racing /\ tree'[k] = tree[k]
    BY <1>2, <1>11 DEF Changed
  <2>3. ListedTrue(End.listed)'
    <3>1. \A i \in DOMAIN End.listed : \A k \in PathTo(End.listed[i].key) : k \in Key
      BY DEF PathTo
    <3> QED
      BY <1>6, <2>1, <2>2, <3>1 DEF ListedTrue, Exists
  <2>4. AllListed(End.listed)'
    BY <1>2, <1>6, <2>1, <2>2 DEF AllListed, ToCome, Exists
  <2> QED
    BY <2>3, <2>4
<1>12. ~Walking => entered' = Null /\ End'.held = <<>>
  BY <1>2, <1>6 DEF CacheInv
<1>13. End'.load # "done" => PartOf(AtEnd', tree')
  BY <1>2, <1>6, <1>7 DEF CacheInv
<1>14. End'.load = "done" => Agrees(AtEnd', tree', racing' \union {Root})
  <2>1. SUFFICES ASSUME End.load = "done"
                 PROVE  Agrees(AtEnd', t, racing \union {Root})
    BY <1>2, <1>6 DEF CacheInv
  <2> QED
    BY <1>7, <2>1 DEF CacheInv
<1> QED
  BY <1>8, <1>9, <1>10, <1>11, <1>12, <1>13, <1>14 DEF CacheInv

(* What is to come is left once the iterator has looked below its entry.   *)
LEMMA NamesLeft ==
  ASSUME TypeOK, NEW k \in Key, Exists(tree, k), ToCome(k)
  PROVE  \E n \in DOMAIN Advanced : \E p \in Advanced[n] : p \in Key /\ <<p, k>> \in Prefix
<1>1. /\ Advanced \in Seq(SUBSET Key)
      /\ \A i \in DOMAIN levels : \A p \in levels[i] : \E n \in DOMAIN Advanced : p \in Advanced[n]
      /\ entered # Null /\ Exists(tree, entered) =>
           \A p \in Existing(tree, entered) : \E n \in DOMAIN Advanced : p \in Advanced[n]
  <2>1. levels \in Seq(SUBSET Key)
    BY DEF TypeOK
  <2> QED
    BY <2>1, WalkFacts DEF Advanced
<1>2. \A i \in DOMAIN levels : levels[i] \subseteq Key
  BY DEF TypeOK
<1>3. CASE entered # Null /\ entered # k /\ <<entered, k>> \in Prefix
  <2>1. entered \in Key
    BY <1>3 DEF TypeOK
  <2>2. PICK c \in Children(entered) : <<c, k>> \in Prefix
    BY <1>3, <2>1, ChildTowards
  <2>3. c \in Key
    BY <2>2 DEF Children, Subtree
  <2>4. Exists(tree, entered) /\ Exists(tree, c)
    BY <1>3, <2>1, <2>2, <2>3 DEF TypeOK, PrefixClosed, PathTo
  <2>5. c \in Existing(tree, entered)
    BY <2>2, <2>4 DEF Existing
  <2> QED
    BY <1>1, <1>3, <2>2, <2>3, <2>4, <2>5
<1>4. CASE \E i \in DOMAIN levels : \E p \in levels[i] : <<p, k>> \in Prefix
  <2>1. PICK i \in DOMAIN levels : \E q \in levels[i] : <<q, k>> \in Prefix
    BY <1>4
  <2> PICK p \in levels[i] : <<p, k>> \in Prefix
    BY <2>1
  <2>2. p \in Key
    BY <1>2
  <2> QED
    BY <1>1, <2>2
<1> QED
  BY <1>3, <1>4 DEF ToCome

(* The daemon goes on with the listing, or ends it.                        *)
LEMMA CacheListing ==
  ASSUME CacheInv, do_subtree
  PROVE  CacheInv'
<1>1. TypeOK /\ Local \in States /\ End \in States /\ AtEnd \in ClosedTree
  BY EndFacts DEF CacheInv
<1>2. /\ Walking /\ UNCHANGED <<tree, load, listed, held, cache, racing, nsets>>
  BY DEF do_subtree
<1>3. Local' = Local
  BY <1>2 DEF Local
<1>4. End.load = "asked" /\ ListedTrue(End.listed) /\ AllListed(End.listed) /\ PartOf(AtEnd, tree)
  BY <1>2 DEF CacheInv
<1>5. load # "before"
  <2>1. SUFFICES ASSUME load = "before"
                 PROVE  FALSE
    OBVIOUS
  <2>2. stream \in Seq(Message) /\ \A i \in 1 .. Len(stream) : stream[i].type = "NOTICE"
    BY <1>1, <2>1 DEF TypeOK, CacheInv
  <2>3. Local.held = <<>>
    BY <2>1 DEF Local, CacheInv
  <2>4. LET x == Read(Local, stream) IN x.load = Local.load
    BY <1>1, <2>2, <2>3, NoticesRead
  <2> QED
    BY <1>4, <2>1, <2>4 DEF End, Local
<1>6. End.listed \in Seq(Message) /\ End.held \in Seq(Message) /\ End.cache \in ClosedTree
  BY <1>1 DEF States
<1>7. PrefixClosed(tree)' /\ PrefixClosed(cache)'
  BY <1>1, <1>2 DEF TypeOK, PrefixClosed, Exists
<1>8. Advanced \in Seq(SUBSET Key)
  <2>1. levels \in Seq(SUBSET Key)
    BY <1>1 DEF TypeOK
  <2> QED
    BY <2>1, WalkFacts DEF Advanced
<1>9. CASE Advanced = <<>>
  <2> DEFINE m == Msg("OK", Root, Null)
  <2>1. stream' = Append(stream, m) /\ levels' = <<>> /\ entered' = Null
    BY <1>9 DEF do_subtree
  <2>2. m \in Message /\ m.type = "OK"
    BY KeyAssumption DEF Msg, Message
  <2>3. stream' \in Seq(Message) /\ End' = Received(End, m)
    BY <1>1, <1>3, <2>1, <2>2, EndAppend DEF End, TypeOK
  <2>4. End' = [load |-> "done", held |-> <<>>, listed |-> <<>>, cache |-> Filled(AtEnd, End.listed)]
    BY <2>2, <2>3 DEF Received, AtEnd
  <2>5. AtEnd' = Filled(AtEnd, End.listed)
    <3>1. Filled(AtEnd, End.listed) \in ClosedTree
      BY <1>1, <1>6, FilledFacts
    <3>2. AtEnd' = Filled(End'.cache, End'.held)
      BY DEF AtEnd
    <3> QED
      BY <2>2, <2>4, <3>1, <3>2, FilledOne
  <2>6. Agrees(AtEnd', tree, racing \union {Root})
    <3>1. \A k \in Key \ (racing \union {Root}) :
            Exists(tree, k) => \E i \in DOMAIN End.listed : End.listed[i].key = k
      <4> SUFFICES ASSUME NEW k \in Key \ (racing \union {Root}), Exists(tree, k), ToCome(k)
                   PROVE  FALSE
        BY <1>4 DEF AllListed
      <4>1. \E n \in DOMAIN Advanced : TRUE
        BY <1>1, NamesLeft
      <4> QED
        BY <1>9, <4>1
    <3> QED
      BY <1>1, <1>4, <1>6, <2>5, <3>1, ListingStored DEF TypeOK
  <2>7. TypeOK'
    BY <1>1, <1>2, <1>7, <2>1, <2>3 DEF TypeOK
  <2>8. ~Walking' /\ Agrees(AtEnd', tree', racing' \union {Root})
    BY <1>2, <2>1, <2>6 DEF Walking
  <2> QED
    BY <1>2, <1>5, <2>1, <2>4, <2>7, <2>8 DEF CacheInv
<1>10. CASE Advanced # <<>>
  <2>1. PICK e \in Deepest :
          /\ stream' = Append(stream, Msg("VAL", e, tree[e]))
          /\ levels' = WalkPast(Advanced, e) /\ entered' = e
    BY <1>10 DEF do_subtree
  <2> DEFINE m == Msg("VAL", e, tree[e])
             N == Len(Advanced)
  <2>2. N \in Nat /\ N # 0 /\ DOMAIN Advanced = 1 .. N /\ \A i \in 1 .. N : Advanced[i] \in SUBSET Key
    BY <1>8, <1>10
  <2>3. e \in Key
    <3>1. Deepest \in SUBSET Key
      BY <2>2 DEF Deepest
    <3> QED
      BY <3>1
  <2> HIDE DEF N
  <2>4. levels' = [i \in 1 .. N |-> IF i = N THEN Advanced[N] \ {e} ELSE Advanced[i]]
    BY <2>1, <2>2 DEF WalkPast, N
  <2>5. levels' \in Seq(SUBSET Key) /\ levels' # <<>>
    <3>1. levels' \in [1 .. N -> SUBSET Key]
      BY <2>2, <2>4
    <3>2. levels' \in Seq(SUBSET Key) /\ DOMAIN levels' = 1 .. N
      BY <2>2, <3>1
    <3> QED
      BY <2>2, <3>2
  <2>6. m \in Message /\ m.type = "VAL" /\ m.key = e /\ m.value = tree[e]
    BY <1>1, <2>3 DEF Msg, Message, TypeOK, Tree
  <2> HIDE DEF m
  <2>7. stream' \in Seq(Message) /\ End' = Received(End, m)
    BY <1>1, <1>3, <2>1, <2>6, EndAppend DEF End, TypeOK, m
  <2>8. /\ End'.load = End.load /\ End'.held = End.held /\ End'.cache = End.cache
        /\ End'.listed = Append(End.listed, m)
    <3>1. End' = [End EXCEPT !.listed = Append(@, m)]
      BY <2>6, <2>7 DEF Received
    <3> QED
      BY <1>1, <3>1 DEF States
  <2>9. AtEnd' = AtEnd
    BY <2>8 DEF AtEnd
  <2>10. /\ Len(End.listed) \in Nat /\ DOMAIN End.listed = 1 .. Len(End.listed)
         /\ DOMAIN End'.listed = 1 .. Len(End.listed) + 1
         /\ \A i \in 1 .. Len(End.listed) : End'.listed[i] = End.listed[i]
         /\ End'.listed[Len(End.listed) + 1] = m
    BY <1>6, <2>6, <2>8
  <2>11. ListedTrue(End.listed)'
    <3> SUFFICES ASSUME NEW i \in DOMAIN End'.listed
                 PROVE  /\ End'.listed[i].type = "VAL"
                        /\ \A k \in PathTo(End'.listed[i].key) \ racing :
                             /\ k = End'.listed[i].key => End'.listed[i].value = tree[k]
                             /\ End'.listed[i].value # Null => Exists(tree, k)
      BY <1>2 DEF ListedTrue, Exists
    <3>1. CASE i \in 1 .. Len(End.listed)
      BY <1>4, <2>10, <3>1 DEF ListedTrue
    <3>2. CASE i = Len(End.listed) + 1
      <4>1. tree[e] # Null => \A k \in PathTo(e) : Exists(tree, k)
        BY <1>1, <2>3 DEF TypeOK, PrefixClosed, Exists
      <4> QED
        BY <2>6, <2>10, <3>2, <4>1
    <3> QED
      BY <2>10, <3>1, <3>2
  <2>12. AllListed(End.listed)'
    <3> SUFFICES ASSUME NEW k \in Key \ (racing \union {Root}), Exists(tree, k)
                 PROVE  ToCome(k)' \/ \E i \in DOMAIN End'.listed : End'.listed[i].key = k
      BY <1>2 DEF AllListed, Exists
    <3>1. CASE \E i \in DOMAIN End.listed : End.listed[i].key = k
      BY <2>10, <3>1
    <3>2. CASE ToCome(k)
      <4>0. PICK n \in DOMAIN Advanced : \E q \in Advanced[n] : q \in Key /\ <<q, k>> \in Prefix
        BY <1>1, <3>2, NamesLeft
      <4>1. PICK p \in Advanced[n] : p \in Key /\ <<p, k>> \in Prefix
        BY <4>0
      <4>2. CASE p = e /\ k = e
        BY <2>6, <2>10, <4>2
      <4>3. CASE p = e /\ k # e
        BY <2>1, <2>3, <4>1, <4>3, CacheAssumption DEF ToCome
      <4>4. CASE p # e
        <5>1. n \in DOMAIN levels' /\ p \in levels'[n]
          BY <2>2, <2>4, <4>1, <4>4
        <5> QED
          BY <4>1, <5>1 DEF ToCome
      <4> QED
        BY <4>2, <4>3, <4>4
    <3> QED
      BY <1>4, <3>1, <3>2 DEF AllListed
  <2>13. TypeOK'
    BY <1>1, <1>2, <1>7, <2>1, <2>3, <2>5, <2>7 DEF TypeOK
  <2>14. Walking' /\ PartOf(AtEnd', tree')
    BY <1>2, <1>4, <2>5, <2>9 DEF Walking
  <2> QED
    BY <1>2, <1>4, <1>5, <2>8, <2>11, <2>12, <2>13, <2>14 DEF CacheInv
<1> QED
  BY <1>9, <1>10

(* The first refresh() asks for the listing.                               *)
LEMMA CacheRefresh ==
  ASSUME CacheInv, refresh
  PROVE  CacheInv'
<1>1. TypeOK /\ Local \in States /\ End \in States /\ AtEnd \in ClosedTree
  BY EndFacts DEF CacheInv
<1>2. /\ load = "before" /\ load' = "asked"
      /\ UNCHANGED <<tree, entered, listed, held, cache, racing, nsets>>
  BY DEF refresh
<1>3. /\ held = <<>> /\ listed = <<>> /\ racing = {}
      /\ stream \in Seq(Message) /\ \A i \in 1 .. Len(stream) : stream[i].type = "NOTICE"
  BY <1>1, <1>2 DEF CacheInv, TypeOK
<1> DEFINE r == Local'
           x == Read(r, stream)
<1>4. /\ r \in States /\ r.load = "asked" /\ r.listed = <<>> /\ r.held = <<>> /\ r.cache = Local.cache
      /\ Local.load = "before" /\ Local.listed = <<>> /\ Local.held = <<>>
  <2>1. r = [load |-> "asked", listed |-> listed, held |-> held, cache |-> cache]
    BY <1>2 DEF Local
  <2> QED
    BY <1>1, <1>2, <1>3, <2>1 DEF Local, States, TypeOK, ClosedTree
<1> HIDE DEF r
<1>5. /\ End.load = "before"
      /\ AtEnd = Filled(Filled(Local.cache, Local.held), stream)
  <2>1. LET y == Read(Local, stream)
        IN y.load = Local.load /\ Filled(y.cache, y.held) = Filled(Filled(Local.cache, Local.held), stream)
    BY <1>1, <1>3, <1>4, NoticesRead
  <2> QED
    BY <1>4, <2>1 DEF End, AtEnd
<1>6. /\ x \in States /\ x.load = "asked" /\ x.listed = <<>>
      /\ Filled(x.cache, x.held) = AtEnd
  <2>1. /\ x \in States /\ x.load = r.load /\ x.listed = r.listed
        /\ Filled(x.cache, x.held) = Filled(Filled(r.cache, r.held), stream)
    BY <1>3, <1>4, NoticesRead
  <2> QED
    BY <1>4, <1>5, <2>1
<1> HIDE DEF x
<1>7. ~Walking /\ PartOf(AtEnd, tree) /\ entered = Null
  BY <1>5 DEF CacheInv
<1>8. PrefixClosed(tree)' /\ PrefixClosed(cache)'
  BY <1>1, <1>2 DEF TypeOK, PrefixClosed, Exists
<1>9. CASE Exists(tree, Root)
  <2>1. levels' = <<Existing(tree, Root)>> /\ stream' = stream
    BY <1>9 DEF refresh
  <2>2. Existing(tree, Root) \in SUBSET Key
    BY DEF Existing, Children, Subtree
  <2>3. End' = x
    BY <2>1 DEF End, x, r
  <2>4. AtEnd' = AtEnd
    BY <1>6, <2>3 DEF AtEnd
  <2>5. levels' \in Seq(SUBSET Key) /\ levels' # <<>> /\ 1 \in DOMAIN levels' /\ levels'[1] = Existing(tree, Root)
    BY <2>1, <2>2
  <2>6. TypeOK'
    BY <1>1, <1>2, <1>8, <2>1, <2>5 DEF TypeOK
  <2>7. ListedTrue(End.listed)'
    BY <1>6, <2>3 DEF ListedTrue
  <2>8. AllListed(End.listed)'
    <3> SUFFICES ASSUME NEW k \in Key, k # Root, Exists(tree, k)
                 PROVE  ToCome(k)'
      BY <1>2 DEF AllListed, Exists
    <3>1. PICK c \in Children(Root) : <<c, k>> \in Prefix
      BY ChildTowards, KeyAssumption, PrefixAssumption
    <3>2. Exists(tree, c)
      BY <1>1, <3>1 DEF TypeOK, PrefixClosed, PathTo, Children, Subtree
    <3>3. c \in Existing(tree, Root)
      BY <3>1, <3>2 DEF Existing
    <3> QED
      BY <2>5, <3>1, <3>3 DEF ToCome
  <2>9. Walking' /\ End'.load = "asked" /\ PartOf(AtEnd', tree')
    BY <1>2, <1>6, <1>7, <2>3, <2>4, <2>5 DEF Walking
  <2> QED
    BY <1>2, <2>6, <2>7, <2>8, <2>9 DEF CacheInv
<1>10. CASE ~Exists(tree, Root)
  <2> DEFINE m == Msg("FAIL", Root, Null)
  <2>1. stream' = Append(stream, m) /\ levels' = levels
    BY <1>10 DEF refresh
  <2>2. m \in Message /\ m.type = "FAIL"
    BY KeyAssumption DEF Msg, Message
  <2>3. stream' \in Seq(Message) /\ Read(r, Append(stream, m)) = Received(x, m)
    BY <1>3, <1>4, <2>1, <2>2, EndAppend DEF x
  <2>4. End' = Received(x, m)
    BY <2>1, <2>3 DEF End, r
  <2>5. End' = [load |-> "done", held |-> <<>>, listed |-> <<>>, cache |-> Filled(AtEnd, <<>>)]
    BY <1>6, <2>2, <2>4 DEF Received
  <2>6. Filled(AtEnd, <<>>) = AtEnd
    <3>1. Msg("FAIL", Root, Null) \in Message
      BY <2>2
    <3> QED
      BY <1>1, <3>1, FilledOne
  <2>7. AtEnd' = AtEnd
    BY <2>5, <2>6 DEF AtEnd
  <2>8. Agrees(AtEnd, tree, racing \union {Root})
    <3>1. \A k \in Key : tree[k] = Null
      BY <1>1, <1>10, KeyAssumption, PrefixAssumption DEF TypeOK, PrefixClosed, PathTo, Exists
    <3> QED
      BY <1>7, <3>1 DEF Agrees, PartOf, Exists
  <2>9. TypeOK'
    BY <1>1, <1>2, <1>8, <2>1, <2>3 DEF TypeOK
  <2>10. ~Walking' /\ entered' = Null /\ Agrees(AtEnd', tree', racing' \union {Root})
    BY <1>2, <1>7, <2>1, <2>7, <2>8 DEF Walking
  <2> QED
    BY <1>2, <2>5, <2>9, <2>10 DEF CacheInv
<1> QED
  BY <1>9, <1>10

(* One message is read, which changes nothing of what all will come to.    *)
LEMMA CacheMessage ==
  ASSUME CacheInv, conncallback
  PROVE  CacheInv'
<1> DEFINE m == Head(stream)
<1>1. TypeOK /\ Local \in States /\ End \in States /\ AtEnd \in ClosedTree
  BY EndFacts DEF CacheInv
<1>2. /\ stream # <<>> /\ stream' = Tail(stream)
      /\ UNCHANGED <<tree, levels, entered, racing, nsets>>
  BY DEF conncallback
<1>3. /\ stream \in Seq(Message) /\ m \in Message /\ Tail(stream) \in Seq(Message)
      /\ <<m>> \in Seq(Message) /\ stream = <<m>> \o Tail(stream)
      /\ m = stream[1] /\ 1 \in DOMAIN stream
      /\ \A i \in DOMAIN Tail(stream) : i + 1 \in DOMAIN stream /\ Tail(stream)[i] = stream[i + 1]
  <2>1. stream \in Seq(Message) /\ stream # <<>>
    BY <1>1, <1>2 DEF TypeOK
  <2> QED
    BY <2>1
<1> HIDE DEF m
<1> DEFINE r == Received(Local, m)
<1>4. r \in States
  BY <1>1, <1>3, ReceivedType
<1>5. load' = r.load /\ listed' = r.listed /\ held' = r.held /\ cache' = r.cache
  BY DEF conncallback, m
<1> HIDE DEF r
<1>6. Local' = r
  BY <1>4, <1>5 DEF Local, States
<1>7. End' = End
  <2>1. Read(Local, <<m>> \o Tail(stream)) = Read(Read(Local, <<m>>), Tail(stream))
    BY <1>1, <1>3, ReadFacts
  <2>2. Read(Local, <<m>>) = r
    BY <1>1, <1>3, ReadOne DEF r
  <2>3. End' = Read(r, Tail(stream))
    BY <1>2, <1>6 DEF End
  <2> QED
    BY <1>3, <2>1, <2>2, <2>3 DEF End
<1>8. AtEnd' = AtEnd
  BY <1>7 DEF AtEnd
<1>9. TypeOK'
  BY <1>1, <1>2, <1>3, <1>4, <1>5 DEF TypeOK, States, ClosedTree, PrefixClosed, Exists
<1>10. ASSUME load' = "before"
       PROVE  held' = <<>> /\ listed' = <<>> /\ racing' = {} /\ \A i \in DOMAIN stream' : stream'[i].type = "NOTICE"
  <2>1. load = "before"
    <3>1. r.load \in {load, "done"}
      BY <1>1, <1>3 DEF r, Received, Local, States, Message
    <3> QED
      BY <1>5, <1>10, <3>1
  <2>2. held = <<>> /\ listed = <<>> /\ racing = {} /\ \A i \in DOMAIN stream : stream[i].type = "NOTICE"
    BY <2>1 DEF CacheInv
  <2>3. m.type = "NOTICE" /\ Local.load # "asked"
    BY <1>3, <2>1, <2>2 DEF Local
  <2>4. r = [Local EXCEPT !.cache = deltacallback(@, m)]
    BY <2>3 DEF r, Received
  <2>5. r.held = held /\ r.listed = listed
    BY <2>4 DEF Local
  <2> QED
    BY <1>2, <1>3, <1>5, <2>2, <2>5
<1>11. /\ ListedTrue(End.listed) => ListedTrue(End.listed)'
       /\ AllListed(End.listed) => AllListed(End.listed)'
  BY <1>2, <1>7 DEF ListedTrue, AllListed, ToCome, Exists
<1>12. Walking' = Walking
  BY <1>2 DEF Walking
<1> QED
  BY <1>2, <1>7, <1>8, <1>9, <1>10, <1>11, <1>12 DEF CacheInv

(* At the start the cache is empty, and nothing is on its way.             *)
LEMMA CacheStart == Init => CacheInv
<1> SUFFICES ASSUME Init
             PROVE  CacheInv
  OBVIOUS
<1> DEFINE e == <<>>
<1>1. /\ tree = Loaded /\ levels = e /\ entered = Null /\ stream = e /\ load = "before"
      /\ listed = e /\ held = e /\ cache = EmptyTree /\ racing = {} /\ nsets = 0
  BY DEF Init
<1>2. EmptyTree \in Tree /\ PrefixClosed(EmptyTree) /\ \A k \in Key : EmptyTree[k] = Null
  BY DEF EmptyTree, Tree, PrefixClosed, Exists
<1>3. e \in Seq(Message) /\ e \in Seq(SUBSET Key) /\ DOMAIN e = {}
  OBVIOUS
<1>4. PrefixClosed(tree) /\ PrefixClosed(cache)
  BY <1>1, <1>2, CacheAssumption
<1>5. TypeOK
  BY <1>1, <1>2, <1>3, <1>4, CacheAssumption DEF TypeOK
<1>6. Local \in States
  BY <1>5, EndFacts
<1>7. Msg("OK", Root, Null) \in Message
  BY KeyAssumption DEF Msg, Message
<1>8. Read(Local, <<>>) = Local
  BY <1>6, <1>7, ReadOne
<1>9. End = Local
  BY <1>1, <1>8 DEF End
<1>10. End.load = "before" /\ End.held = <<>> /\ End.cache = EmptyTree
  BY <1>1, <1>9 DEF Local
<1>11. AtEnd = EmptyTree
  <2>1. EmptyTree \in ClosedTree
    BY <1>2 DEF ClosedTree
  <2> QED
    BY <1>7, <1>10, <2>1, FilledOne DEF AtEnd
<1>12. PartOf(AtEnd, tree)
  BY <1>2, <1>11 DEF PartOf, Exists
<1>13. ~Walking
  BY <1>1 DEF Walking
<1> QED
  BY <1>1, <1>3, <1>5, <1>10, <1>12, <1>13 DEF CacheInv

(* Every step keeps the invariant; set() and remove() are changes.         *)
LEMMA CacheStep == CacheInv /\ [Next]_vars => CacheInv'
<1> SUFFICES ASSUME CacheInv, [Next]_vars
             PROVE  CacheInv'
  OBVIOUS
<1>1. tree \in ClosedTree
  BY DEF CacheInv, TypeOK, ClosedTree
<1>2. ASSUME NEW k \in Key, NEW v \in Value, set(k, v)
      PROVE  CacheInv'
  <2> DEFINE t == Stored(tree, k, v)
  <2>1. t = TempSet(tree, k, v)
    BY ValueAssumption DEF TempSet
  <2>2. t \in ClosedTree
    BY <1>1, <2>1, TempSetClosed
  <2>3. PICK s \in TopDown(Changed(tree, t)) : Change(t, s)
    BY <1>2 DEF set
  <2> HIDE DEF t
  <2>4. s \in Listings(Changed(tree, t))
    BY <2>3 DEF TopDown
  <2> QED
    BY <2>2, <2>3, <2>4, CacheChange
<1>3. ASSUME NEW k \in Key, remove(k)
      PROVE  CacheInv'
  <2> DEFINE t == Removed(tree, k)
  <2>1. t = TempSet(tree, k, Null)
    BY DEF TempSet
  <2>2. t \in ClosedTree
    BY <1>1, <2>1, TempSetClosed
  <2>3. PICK s \in BottomUp(Changed(tree, t)) : Change(t, s)
    BY <1>3 DEF remove
  <2> HIDE DEF t
  <2>4. s \in Listings(Changed(tree, t))
    BY <2>3 DEF BottomUp
  <2> QED
    BY <2>2, <2>3, <2>4, CacheChange
<1>4. ASSUME UNCHANGED vars
      PROVE  CacheInv'
  <2>1. UNCHANGED <<tree, levels, entered, stream, load, listed, held, cache, racing, nsets>>
    BY <1>4 DEF vars
  <2>2. Local' = Local /\ End' = End /\ AtEnd' = AtEnd /\ Walking' = Walking
    BY <2>1 DEF Local, End, AtEnd, Walking
  <2>3. /\ ListedTrue(End.listed) => ListedTrue(End.listed)'
        /\ AllListed(End.listed) => AllListed(End.listed)'
    BY <2>1, <2>2 DEF ListedTrue, AllListed, ToCome, Exists
  <2>4. TypeOK'
    BY <2>1 DEF CacheInv, TypeOK, PrefixClosed, Exists
  <2> QED
    BY <2>1, <2>2, <2>3, <2>4 DEF CacheInv
<1> QED
  BY <1>2, <1>3, <1>4, CacheListing, CacheRefresh, CacheMessage DEF Next

(* The inductive invariant, about what the client and the cache come to    *)
(* when they have read what the daemon sent.                               *)
THEOREM CacheInvariance == Spec => []CacheInv
<1>1. Init => CacheInv
  BY CacheStart
<1>2. CacheInv /\ [Next]_vars => CacheInv'
  BY CacheStep
<1> QED
  BY <1>1, <1>2, PTL DEF Spec

(* UniCacheGen keeps up with the daemon: when it has read everything, keys *)
(* that did not change while the listing was produced have their values,   *)
(* whatever order entries and notices of changes came in.                  *)
THEOREM CacheKeepsUp == Spec => []CacheCurrent
<1>1. CacheInv => CacheCurrent
  <2> SUFFICES ASSUME CacheInv
               PROVE  CacheCurrent
    OBVIOUS
  <2>1. TypeOK /\ Local \in States
    BY EndFacts DEF CacheInv
  <2>2. ASSUME CaughtUp
        PROVE  Agrees(cache, tree, racing \union {Root})
    <3>1. load = "done" /\ stream = <<>>
      BY <2>2 DEF CaughtUp
    <3>2. Msg("OK", Root, Null) \in Message
      BY KeyAssumption DEF Msg, Message
    <3>3. Read(Local, <<>>) = Local
      BY <2>1, <3>2, ReadOne
    <3>4. End = Local
      BY <3>1, <3>3 DEF End
    <3>5. End.load = "done" /\ End.cache = cache
      BY <3>1, <3>4 DEF Local
    <3>6. End.held = <<>>
      BY <3>5 DEF CacheInv
    <3>7. cache \in ClosedTree
      BY <2>1 DEF TypeOK, ClosedTree
    <3>8. AtEnd = cache
      BY <3>2, <3>5, <3>6, <3>7, FilledOne DEF AtEnd
    <3> QED
      BY <3>5, <3>8 DEF CacheInv
  <2> QED
    BY <2>1, <2>2 DEF CacheCurrent, CacheAgrees
<1> QED
  BY <1>1, CacheInvariance, PTL
============================================================================
