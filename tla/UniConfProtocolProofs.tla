----------------------- MODULE UniConfProtocolProofs -----------------------
(***************************************************************************)
(* Proofs about UniConfProtocol, in this order: what the steps of the      *)
(* daemon come to; types (ProtocolTypes); what a client knows of the tree  *)
(* once it has read what is on its way (TheToldConverge); that one request *)
(* is on its way at a time (NoReplyStrays); that the reply that comes is   *)
(* the one to it (RepliesAreMatched); that notices and replies keep their  *)
(* order (GetsAreTold); and how changes of many keys are announced and     *)
(* completed (ToldTopDown, RemovalsAreCompleted).                          *)
(***************************************************************************)
EXTENDS UniConfProtocol, SublistLemmas

----------------------------------------------------------------------------
(* Sequences and trees.                                                    *)

LEMMA TailFacts ==
  ASSUME NEW D, NEW q \in Seq(D), q # <<>>
  PROVE  /\ Tail(q) \in Seq(D) /\ Head(q) \in D /\ Head(q) = q[1]
         /\ Len(q) \in Nat \ {0} /\ Len(Tail(q)) = Len(q) - 1
         /\ DOMAIN q = 1 .. Len(q) /\ DOMAIN Tail(q) = 1 .. Len(q) - 1
         /\ \A i \in 1 .. Len(q) - 1 : Tail(q)[i] = q[i + 1]
OBVIOUS

LEMMA AppendFacts ==
  ASSUME NEW D, NEW q \in Seq(D), NEW e \in D
  PROVE  /\ Append(q, e) \in Seq(D) /\ Len(q) \in Nat
         /\ Len(Append(q, e)) = Len(q) + 1
         /\ DOMAIN q = 1 .. Len(q) /\ DOMAIN Append(q, e) = 1 .. Len(q) + 1
         /\ \A i \in 1 .. Len(q) : Append(q, e)[i] = q[i]
         /\ Append(q, e)[Len(q) + 1] = e
         /\ q \o <<e>> = Append(q, e)
OBVIOUS

LEMMA StoredType ==
  ASSUME NEW t \in Tree, NEW k \in Key, NEW v \in Value \union {Null}
  PROVE  Stored(t, k, v) \in Tree
BY ValueAssumption DEF Stored, Tree

(* What may become of a tree in a step: nodes go, or nodes come.           *)
Shrinks(t, u) == \A k \in Key : u[k] = t[k] \/ u[k] = Null

Grows(t, u) == \A k \in Key : Exists(t, k) => Exists(u, k)

LEMMA StoredGrows ==
  ASSUME NEW t \in Tree, NEW k \in Key, NEW v \in Value
  PROVE  /\ Grows(t, Stored(t, k, v))
         /\ PrefixClosed(t) => PrefixClosed(Stored(t, k, v))
<1> DEFINE u == Stored(t, k, v)
<1>1. \A q \in Key : Exists(u, q) <=> q \in PathTo(k) \/ Exists(t, q)
  <2>1. v # Null /\ Empty # Null /\ k \in PathTo(k)
    BY ValueAssumption, PrefixAssumption DEF PathTo
  <2> QED
    BY <2>1 DEF Stored, Exists
<1>2. \A q \in PathTo(k) : PathTo(q) \subseteq PathTo(k)
  BY PrefixAssumption DEF PathTo
<1>3. \A q \in Key : PathTo(q) \subseteq Key
  BY DEF PathTo
<1> HIDE DEF u
<1> QED
  BY <1>1, <1>2, <1>3 DEF Grows, PrefixClosed, u

(* The tree without the keys in X and all that is below them.              *)
Pruned(t, X) == [k \in Key |-> IF k \in X THEN Null ELSE t[k]]

Falls(X) == \A k \in X : Subtree(k) \subseteq X

LEMMA PruneShrinks ==
  ASSUME NEW t \in Tree, NEW X, Falls(X)
  PROVE  /\ Pruned(t, X) \in Tree
         /\ Shrinks(t, Pruned(t, X))
         /\ PrefixClosed(t) => PrefixClosed(Pruned(t, X))
<1>1. Pruned(t, X) \in Tree /\ Shrinks(t, Pruned(t, X))
  BY DEF Pruned, Tree, Shrinks
<1>2. ASSUME PrefixClosed(t), NEW k \in Key, Exists(Pruned(t, X), k), NEW p \in PathTo(k)
      PROVE  Exists(Pruned(t, X), p)
  <2>1. k \notin X /\ Exists(t, k) /\ p \in Key /\ k \in Subtree(p)
    BY <1>2 DEF Pruned, Exists, PathTo, Subtree
  <2>2. p \notin X
    BY <2>1 DEF Falls
  <2>3. Exists(t, p)
    BY <1>2, <2>1 DEF PrefixClosed
  <2> QED
    BY <2>1, <2>2, <2>3 DEF Pruned, Exists
<1> QED
  BY <1>1, <1>2 DEF PrefixClosed

LEMMA ShrinksOn ==
  ASSUME NEW t, NEW u, NEW v, Shrinks(t, u), Shrinks(u, v)
  PROVE  Shrinks(t, v)
BY DEF Shrinks

LEMMA SubtreeFalls == \A k : Falls(Subtree(k))
<1> SUFFICES ASSUME NEW k, NEW j \in Subtree(k), NEW l \in Subtree(j)
             PROVE  l \in Subtree(k)
  BY DEF Falls
<1>1. <<k, j>> \in Prefix /\ <<j, l>> \in Prefix /\ j \in Key /\ l \in Key
  BY DEF Subtree
<1>2. k \in Key
  BY <1>1, KeyAssumption
<1> QED
  BY <1>1, <1>2, PrefixAssumption DEF Subtree

LEMMA RemovedShrinks ==
  ASSUME NEW t \in Tree, NEW k
  PROVE  /\ Removed(t, k) \in Tree
         /\ Shrinks(t, Removed(t, k))
         /\ PrefixClosed(t) => PrefixClosed(Removed(t, k))
<1>1. Removed(t, k) = Pruned(t, Subtree(k))
  BY DEF Removed, Pruned
<1> QED
  BY <1>1, PruneShrinks, SubtreeFalls

LEMMA RemoveLevelShrinks ==
  ASSUME NEW L \in SUBSET Key, NEW t \in Tree
  PROVE  /\ RemoveLevel(L, t) \in Tree
         /\ Shrinks(t, RemoveLevel(L, t))
         /\ PrefixClosed(t) => PrefixClosed(RemoveLevel(L, t))
         /\ \A e \in L : ~Exists(RemoveLevel(L, t), e)
<1> DEFINE u == [k \in Key |-> IF \E e \in L : k \in Subtree(e) THEN Null ELSE t[k]]
           sections == {Parent(e) : e \in L}
           X == UNION {Subtree(e) : e \in L}
           Y == UNION {Subtree(p) : p \in {q \in sections : ~HasChildren(u, q)}}
<1>1. Falls(X) /\ Falls(Y)
  BY SubtreeFalls DEF Falls
<1>2. u = Pruned(t, X)
  BY DEF Pruned
<1>3. RemoveLevel(L, t) = Pruned(u, Y)
  BY DEF RemoveLevel, Pruned
<1>4. \A e \in L : ~Exists(u, e)
  <2>1. \A e \in L : e \in Subtree(e) /\ e \in Key
    BY PrefixAssumption DEF Subtree
  <2> QED
    BY <2>1 DEF Exists
<1> HIDE DEF u, X, Y
<1>5. u \in Tree /\ Shrinks(t, u) /\ (PrefixClosed(t) => PrefixClosed(u))
  BY <1>1, <1>2, PruneShrinks
<1>6. /\ Pruned(u, Y) \in Tree /\ Shrinks(u, Pruned(u, Y))
      /\ PrefixClosed(u) => PrefixClosed(Pruned(u, Y))
  BY <1>1, <1>5, PruneShrinks
<1>7. \A e \in L : ~Exists(Pruned(u, Y), e)
  BY <1>4, <1>6 DEF Shrinks, Exists
<1> QED
  BY <1>3, <1>5, <1>6, <1>7, ShrinksOn

(* The orders in which changed keys are announced.                         *)
Announced(t, u) == Listings(Changed(t, u))

LEMMA ListingFacts ==
  ASSUME NEW t, NEW u, NEW s \in Announced(t, u)
  PROVE  /\ s \in Seq(Key)
         /\ \A k \in Key : t[k] # u[k] <=> \E i \in DOMAIN s : s[i] = k
<1> DEFINE S == Changed(t, u)
<1>1. S \in SUBSET Key /\ \A k \in Key : k \in S <=> t[k] # u[k]
  BY DEF Changed
<1>2. Cardinality(S) \in Nat
  BY <1>1, KeyAssumption, FS_Subset, FS_CardinalityType
<1>3. s \in [1 .. Cardinality(S) -> S] /\ \A x \in S : \E i \in DOMAIN s : s[i] = x
  BY DEF Listings, Announced
<1> HIDE DEF S
<1>4. s \in Seq(Key)
  BY <1>1, <1>2, <1>3
<1>5. \A i \in DOMAIN s : s[i] \in S
  BY <1>3
<1> QED
  BY <1>1, <1>3, <1>4, <1>5

LEMMA OrdersAnnounce ==
  ASSUME NEW t, NEW u
  PROVE  TopDown(Changed(t, u)) \subseteq Announced(t, u)
         /\ BottomUp(Changed(t, u)) \subseteq Announced(t, u)
BY DEF TopDown, BottomUp, Announced

(* The changed keys come in an order that respects the tree.               *)
Neatly(t, u, s) ==
  /\ PrefixClosed(t) => PrefixClosed(u)
  /\ \/ s \in TopDown(Changed(t, u)) /\ Grows(t, u)
     \/ s \in BottomUp(Changed(t, u)) /\ Shrinks(t, u)

LEMMA NoticesType ==
  ASSUME NEW s \in Seq(Key), NEW t \in Tree
  PROVE  /\ Notices(s, t) \in Seq(Notice) /\ DOMAIN Notices(s, t) = DOMAIN s
         /\ \A i \in DOMAIN s : /\ Notices(s, t)[i].type = "NOTICE"
                                /\ Notices(s, t)[i].key = s[i]
                                /\ Notices(s, t)[i].value = t[s[i]]
<1>1. \A i \in DOMAIN s : Msg("NOTICE", s[i], t[s[i]]) \in Notice
  BY DEF Msg, Notice, Tree
<1>2. DOMAIN s = 1 .. Len(s) /\ Len(s) \in Nat
  OBVIOUS
<1>3. Notices(s, t) \in Seq(Notice)
  BY <1>1, <1>2 DEF Notices
<1> QED
  BY <1>3 DEF Notices, Msg

LEMMA NoNotices == ASSUME NEW t PROVE Notices(<<>>, t) = <<>>
BY DEF Notices

(* The entries of a listing have values.                                   *)
IsList(L) == \A p \in L : p[2] # Null

(* What a daemon step makes of the messages to the clients.                *)
Replies(c, m) ==
  /\ tree' = tree
  /\ s2c' = [d \in Client |-> IF d = c /\ c \in attached \intersect up
                                THEN Append(s2c[d], m) ELSE s2c[d]]

Publishes(D, t, s) ==
  /\ tree' = t
  /\ s2c' = [d \in Client |-> IF d \in D THEN s2c[d] \o Notices(s, t) ELSE s2c[d]]

LEMMA NoticeIsMessage == Notice \subseteq Message
BY DEF Message

LEMMA ReplyReplies ==
  ASSUME TypeOK, NEW c \in Client, NEW m \in Message, Reply(c, m)
  PROVE  Replies(c, m)
<1>1. \A d \in Client : s2c[d] \in Seq(Message)
  BY DEF TypeOK
<1>2. \A d \in Client : s2c[d] \o <<>> = s2c[d] /\ s2c[d] \o <<m>> = Append(s2c[d], m)
  BY <1>1
<1>3. \A d \in Client : s2c[d] \o <<>> \o <<>> = s2c[d] /\ s2c[d] \o <<>> \o <<m>> = Append(s2c[d], m)
  BY <1>1, <1>2
<1>4. /\ tree' = tree
      /\ s2c' = [d \in Client |->
               IF d \in attached \intersect up
                 THEN s2c[d] \o <<>> \o (IF d = c THEN <<m>> ELSE <<>>)
                 ELSE s2c[d]]
  BY NoNotices DEF Reply, Publish
<1> QED
  BY <1>3, <1>4 DEF Replies

LEMMA PublishPublishes ==
  ASSUME TypeOK, NEW c \in Client, NEW t \in Tree, NEW s \in Seq(Key), Publish(c, t, s, <<>>)
  PROVE  Publishes(attached \intersect up, t, s)
<1>1. \A d \in Client : s2c[d] \in Seq(Message)
  BY DEF TypeOK
<1>2. Notices(s, t) \in Seq(Message)
  BY NoticesType, NoticeIsMessage
<1>3. \A d \in Client : s2c[d] \o Notices(s, t) \o <<>> = s2c[d] \o Notices(s, t)
  BY <1>1, <1>2
<1> QED
  BY <1>3 DEF Publish, Publishes

Levels == Seq(SUBSET Key)

LEMMA WalkType ==
  ASSUME NEW t, NEW levels \in Levels, NEW entered
  PROVE  WalkOn(t, levels, entered) \in Levels
<1> DEFINE below == IF entered # Null /\ Exists(t, entered)
                      THEN Append(levels, Existing(t, entered)) ELSE levels
           open == {i \in DOMAIN below : below[i] # {}}
<1>1. Existing(t, entered) \in SUBSET Key
  BY DEF Existing, Children, Subtree
<1>2. below \in Levels
  BY <1>1 DEF Levels
<1> HIDE DEF below
<1>3. Len(below) \in Nat /\ open \in SUBSET (1 .. Len(below))
  BY <1>2 DEF Levels
<1>4. \E n \in open \union {0} : \A i \in open : i <= n
  <2> HIDE DEF open
  <2> QED
    BY <1>3, Largest
<1>5. (CHOOSE n \in open \union {0} : \A i \in open : i <= n) \in 0 .. Len(below)
  <2>1. (CHOOSE n \in open \union {0} : \A i \in open : i <= n) \in open \union {0}
    <3> HIDE DEF open
    <3> QED
      BY <1>4, Zenon
  <2>2. \A m \in open \union {0} : m \in 0 .. Len(below)
    BY <1>3
  <2> HIDE DEF open
  <2> QED
    BY <2>1, <2>2, Zenon
<1>6. \A n \in 0 .. Len(below) : SubSeq(below, 1, n) \in Levels
  <2>1. Len(below) \in Nat /\ below \in Seq(SUBSET Key)
    BY <1>2, <1>3 DEF Levels
  <2> QED
    BY <2>1, SubSeqFacts DEF Levels
<1>7. WalkOn(t, levels, entered) =
        SubSeq(below, 1, CHOOSE n \in open \union {0} : \A i \in open : i <= n)
  BY DEF WalkOn, below
<1> QED
  BY <1>5, <1>6, <1>7

LEMMA WalkPastType ==
  ASSUME NEW levels \in Levels, NEW e
  PROVE  WalkPast(levels, e) \in Levels
<1> DEFINE N == Len(levels)
<1>1. N \in Nat /\ DOMAIN levels = 1 .. N /\ \A i \in 1 .. N : levels[i] \in SUBSET Key
  BY DEF Levels
<1> HIDE DEF N
<1>2. WalkPast(levels, e) = [i \in 1 .. N |-> IF i = N THEN levels[N] \ {e} ELSE levels[i]]
  BY <1>1 DEF WalkPast, N
<1>3. \A i \in 1 .. N : (IF i = N THEN levels[N] \ {e} ELSE levels[i]) \in SUBSET Key
  BY <1>1
<1>4. WalkPast(levels, e) \in [1 .. N -> SUBSET Key]
  BY <1>2, <1>3
<1> QED
  BY <1>1, <1>4 DEF Levels

(* Removing the rest of the entries in one go.                             *)
LEMMA RemoveRestShrinks ==
  ASSUME NEW c, tree \in Tree, Walk(c) \in Levels
  PROVE  /\ RemoveRest(c) \in Tree
         /\ Shrinks(tree, RemoveRest(c))
         /\ PrefixClosed(tree) => PrefixClosed(RemoveRest(c))
         /\ \A i \in DOMAIN Walk(c) : \A e \in Walk(c)[i] : ~Exists(RemoveRest(c), e)
<1> DEFINE w == Walk(c)
           N == Len(w)
           F == [n \in 1 .. N |-> [t \in Tree |-> RemoveLevel(w[N + 1 - n], t)]]
           after[n \in 0 .. Len(w)] ==
             IF n = 0 THEN tree ELSE RemoveLevel(w[Len(w) + 1 - n], after[n - 1])
<1>1. N \in Nat /\ DOMAIN w = 1 .. N /\ \A i \in 1 .. N : w[i] \in SUBSET Key
  BY DEF Levels
<1>2. F \in [1 .. N -> [Tree -> Tree]]
  <2>1. \A n \in 1 .. N : \A t \in Tree : RemoveLevel(w[N + 1 - n], t) \in Tree
    <3>1. \A n \in 1 .. N : w[N + 1 - n] \in SUBSET Key
      BY <1>1
    <3> HIDE DEF w, N
    <3> QED
      BY <3>1, RemoveLevelShrinks
  <2> QED
    BY <2>1
<1>3. PICK f \in [0 .. N -> Tree] : f[0] = tree /\ \A n \in 1 .. N : f[n] = F[n][f[n - 1]]
  <2> HIDE DEF F, N
  <2>1. Iterable(Tree)
    BY Recursion
  <2> QED
    BY <1>1, <1>2, <2>1 DEF Iterable
<1>4. ASSUME NEW n \in 1 .. N
      PROVE  f[n] = RemoveLevel(w[N + 1 - n], f[n - 1])
  <2>1. n - 1 \in 0 .. N
    BY <1>1
  <2>2. f[n - 1] \in Tree
    BY <1>3, <2>1
  <2>3. F[n] = [t \in Tree |-> RemoveLevel(w[N + 1 - n], t)]
    OBVIOUS
  <2>4. F[n][f[n - 1]] = RemoveLevel(w[N + 1 - n], f[n - 1])
    <3> HIDE DEF F
    <3> QED
      BY <2>2, <2>3, Zenon
  <2> QED
    BY <1>3, <2>4, Zenon
<1>5. f = [n \in 0 .. Len(w) |->
             IF n = 0 THEN tree ELSE RemoveLevel(w[Len(w) + 1 - n], f[n - 1])]
  BY <1>1, <1>3, <1>4
<1>6. after = [n \in 0 .. Len(w) |->
                 IF n = 0 THEN tree ELSE RemoveLevel(w[Len(w) + 1 - n], after[n - 1])]
  BY <1>5, Zenon
<1>7. RemoveRest(c) = after[Len(w)]
  BY Zenon DEF RemoveRest
<1> HIDE DEF w, F, after
(* After n turns of the loop.                                              *)
<1> DEFINE Good(n) == /\ after[n] \in Tree
                      /\ Shrinks(tree, after[n])
                      /\ PrefixClosed(tree) => PrefixClosed(after[n])
                      /\ \A m \in 1 .. n : \A e \in w[N + 1 - m] : ~Exists(after[n], e)
<1>8. Good(0)
  <2>1. after[0] = tree
    <3>1. 0 \in 0 .. Len(w)
      BY <1>1
    <3> QED
      BY <1>6, <3>1
  <2> QED
    BY <2>1 DEF Shrinks
<1>9. ASSUME NEW n \in 1 .. N, Good(n - 1)
      PROVE  Good(n)
  <2>1. n \in 0 .. Len(w) /\ n # 0 /\ N + 1 - n \in 1 .. N
    BY <1>1
  <2>2. after[n] = RemoveLevel(w[N + 1 - n], after[n - 1])
    BY <1>6, <2>1
  <2>3. /\ after[n] \in Tree /\ Shrinks(after[n - 1], after[n])
        /\ PrefixClosed(after[n - 1]) => PrefixClosed(after[n])
        /\ \A e \in w[N + 1 - n] : ~Exists(after[n], e)
    BY <1>1, <1>9, <2>1, <2>2, RemoveLevelShrinks
  <2>4. Shrinks(tree, after[n])
    BY <1>9, <2>3, ShrinksOn
  <2>5. ASSUME NEW m \in 1 .. n, NEW e \in w[N + 1 - m]
        PROVE  ~Exists(after[n], e)
    <3>1. CASE m = n
      BY <2>3, <2>5, <3>1
    <3>2. CASE m # n
      <4>1. m \in 1 .. n - 1 /\ N + 1 - m \in 1 .. N
        BY <1>1, <3>2
      <4>2. ~Exists(after[n - 1], e) /\ e \in Key
        BY <1>1, <1>9, <2>5, <4>1
      <4> QED
        BY <2>3, <4>2 DEF Shrinks, Exists
    <3> QED
      BY <3>1, <3>2
  <2> QED
    BY <1>9, <2>3, <2>4, <2>5
<1> HIDE DEF Good
<1>10. Good(N)
  <2> DEFINE T == {n \in 0 .. N : ~Good(n)}
  <2>1. ASSUME T # {}
        PROVE  FALSE
    <3>1. T \in SUBSET Nat
      BY <1>1
    <3>2. PICK n \in T : \A m \in T : n <= m
      <4> HIDE DEF T
      <4> QED
        BY <2>1, <3>1, LeastNat
    <3>3. n \in 1 .. N
      BY <1>1, <1>8, <3>2
    <3>4. n - 1 \in 0 .. N /\ n - 1 \notin T
      BY <1>1, <3>2, <3>3
    <3> QED
      BY <1>9, <3>2, <3>3, <3>4
  <2> QED
    BY <1>1, <2>1
<1>11. ASSUME NEW i \in 1 .. N, NEW e \in w[i]
       PROVE  ~Exists(after[N], e)
  <2>1. PICK m \in 1 .. N : N + 1 - m = i
    <3>1. N + 1 - i \in 1 .. N /\ N + 1 - (N + 1 - i) = i
      BY <1>1
    <3> QED
      BY <3>1
  <2> QED
    BY <1>10, <1>11, <2>1 DEF Good
<1>12. RemoveRest(c) = after[N]
  BY <1>7 DEF N
<1>13. after[N] \in Tree /\ Shrinks(tree, after[N]) /\ (PrefixClosed(tree) => PrefixClosed(after[N]))
  BY <1>10 DEF Good
<1> HIDE DEF N
<1> QED
  BY <1>1, <1>11, <1>12, <1>13 DEF w

----------------------------------------------------------------------------
(* What the steps of the daemon come to.                                   *)

(* The command that is read.                                               *)
LEMMA ReadingFacts ==
  ASSUME TypeOK, NEW c \in Client, NEW op, Reading(c, op)
  PROVE  /\ c \in attached /\ task[c] = Idle /\ c2s[c] # <<>>
         /\ Arg(c) \in RequestType /\ Arg(c) = c2s[c][1] /\ Arg(c).op = op
         /\ Arg(c).key \in Key /\ Arg(c).value \in Value \union {Null}
         /\ c2s' = [c2s EXCEPT ![c] = Tail(@)]
         /\ UNCHANGED <<resultvars, clientvars>>
<1>1. c2s[c] \in Seq(RequestType) /\ c2s[c] # <<>>
  BY DEF Reading, TypeOK
<1>2. Arg(c) \in RequestType /\ Arg(c) = c2s[c][1]
  BY <1>1, TailFacts DEF Arg
<1> QED
  BY <1>1, <1>2 DEF Reading, Arg, RequestType

(* The completion reply m and the answer a to a request of kind op for k.  *)
Fits(op, k, m, a) ==
  /\ op = "get" => \/ m.type = "ONEVAL" /\ m.key = k /\ m.value = a
                   \/ m.type = "FAIL" /\ a = Null
  /\ op = "hchild" => /\ m.type = "CHILD" /\ m.key = k /\ m.value = a
                      /\ a \in {"TRUE", "FALSE"}
  /\ op = "commit" => m.type = "OK" /\ a = "OK"
  /\ op = "subt" => \/ m.type = "OK" /\ a = {}
                    \/ m.type = "FAIL" /\ a = NoList

Answers(c, op, m, a) ==
  /\ Reading(c, op)
  /\ op \in Replying
  /\ m \in Message /\ m.type \in Completion
  /\ Fits(op, Arg(c).key, m, a)
  /\ op = "get" => a = tree[Arg(c).key]
  /\ Replies(c, m)
  /\ Answer(c, a)
  /\ UNCHANGED <<attached, task>>

LEMMA MsgType ==
  ASSUME NEW type \in {"HELLO", "OK", "FAIL", "CHILD", "ONEVAL", "VAL"}, NEW k \in Key,
         NEW v \in Value \union {Null, "TRUE", "FALSE"}
  PROVE  /\ Msg(type, k, v) \in Message /\ Msg(type, k, v).type = type
         /\ Msg(type, k, v).key = k /\ Msg(type, k, v).value = v
BY DEF Msg, Message

LEMMA GetAnswers ==
  ASSUME TypeOK, NEW c \in Client, do_get(c)
  PROVE  \E m \in Message : \E a : Answers(c, "get", m, a)
<1> DEFINE k == Arg(c).key
           m == IF Exists(tree, k) THEN Msg("ONEVAL", k, tree[k]) ELSE Msg("FAIL", Root, Null)
<1>1. Reading(c, "get") /\ Reply(c, m) /\ Answer(c, tree[k]) /\ UNCHANGED <<attached, task>>
  BY DEF do_get
<1>2. k \in Key /\ tree[k] \in Value \union {Null}
  BY <1>1, ReadingFacts DEF TypeOK, Tree
<1>3. m \in Message /\ m.type \in {"ONEVAL", "FAIL"} /\ Fits("get", k, m, tree[k])
  BY <1>2, MsgType, KeyAssumption DEF Exists, Fits
<1> HIDE DEF m
<1>4. Replies(c, m)
  BY <1>1, <1>3, ReplyReplies
<1>5. Answers(c, "get", m, tree[k])
  BY <1>1, <1>3, <1>4 DEF Answers, Replying, Completion
<1> QED
  BY <1>3, <1>5

LEMMA ChildAnswers ==
  ASSUME TypeOK, NEW c \in Client, do_haschildren(c)
  PROVE  \E m \in Message : \E a : Answers(c, "hchild", m, a)
<1> DEFINE k == Arg(c).key
           has == IF HasChildren(tree, k) THEN "TRUE" ELSE "FALSE"
           m == Msg("CHILD", k, has)
<1>1. Reading(c, "hchild") /\ Reply(c, m) /\ Answer(c, has) /\ UNCHANGED <<attached, task>>
  BY DEF do_haschildren
<1>2. k \in Key /\ has \in {"TRUE", "FALSE"}
  BY <1>1, ReadingFacts
<1>3. m \in Message /\ m.type = "CHILD" /\ Fits("hchild", k, m, has)
  BY <1>2, MsgType DEF Fits
<1> HIDE DEF m
<1>4. Replies(c, m)
  BY <1>1, <1>3, ReplyReplies
<1>5. Answers(c, "hchild", m, has)
  BY <1>1, <1>3, <1>4 DEF Answers, Replying, Completion
<1> QED
  BY <1>3, <1>5

LEMMA CommitAnswers ==
  ASSUME TypeOK, NEW c \in Client, do_commit(c)
  PROVE  \E m \in Message : \E a : Answers(c, "commit", m, a)
<1> DEFINE m == Msg("OK", Root, Null)
<1>1. Reading(c, "commit") /\ Reply(c, m) /\ Answer(c, "OK") /\ UNCHANGED <<attached, task>>
  BY DEF do_commit
<1>2. m \in Message /\ m.type = "OK" /\ \A k : Fits("commit", k, m, "OK")
  BY MsgType, KeyAssumption DEF Fits
<1> HIDE DEF m
<1>3. Replies(c, m)
  BY <1>1, <1>2, ReplyReplies
<1>4. Answers(c, "commit", m, "OK")
  BY <1>1, <1>2, <1>3 DEF Answers, Replying, Completion
<1> QED
  BY <1>2, <1>4

(* A listing begins: one entry is sent, the others are left to send.       *)
Lists(c, L, e) ==
  /\ Reading(c, "subt")
  /\ L \in SUBSET Pair /\ IsList(L) /\ e \in L
  /\ Replies(c, Msg("VAL", e[1], e[2]))
  /\ Answer(c, L)
  /\ task' = [task EXCEPT ![c] = [kind |-> "subt", todo |-> L \ {e}]]
  /\ UNCHANGED attached

LEMMA SubtreeAnswers ==
  ASSUME TypeOK, NEW c \in Client, do_subtree(c)
  PROVE  \/ \E m \in Message : \E a : Answers(c, "subt", m, a)
         \/ \E L \in SUBSET Pair : \E e \in L : Lists(c, L, e)
<1> DEFINE k == Arg(c).key
           L == {<<e, tree[e]>> : e \in Existing(tree, k)}
<1>1. Reading(c, "subt") /\ UNCHANGED attached
  BY DEF do_subtree
<1>2. L \in SUBSET Pair /\ IsList(L)
  <2>1. \A e \in Existing(tree, k) : e \in Key /\ tree[e] \in Value \union {Null} /\ tree[e] # Null
    BY DEF Existing, Children, Subtree, Exists, TypeOK, Tree
  <2> QED
    BY <2>1 DEF Pair, IsList
<1>3. CASE Exists(tree, k) /\ L = {}
  <2> DEFINE m == Msg("OK", Root, Null)
  <2>1. Reply(c, m) /\ Answer(c, L) /\ UNCHANGED task
    BY <1>3 DEF do_subtree
  <2>2. m \in Message /\ m.type = "OK" /\ Fits("subt", k, m, L)
    BY <1>3, MsgType, KeyAssumption DEF Fits
  <2> HIDE DEF m, L
  <2>3. Replies(c, m)
    BY <2>1, <2>2, ReplyReplies
  <2>4. Answers(c, "subt", m, L)
    BY <1>1, <2>1, <2>2, <2>3 DEF Answers, Replying, Completion
  <2> QED
    BY <2>2, <2>4
<1>4. CASE ~Exists(tree, k)
  <2> DEFINE m == Msg("FAIL", Root, Null)
  <2>1. Reply(c, m) /\ Answer(c, NoList) /\ UNCHANGED task
    BY <1>4 DEF do_subtree
  <2>2. m \in Message /\ m.type = "FAIL" /\ Fits("subt", k, m, NoList)
    BY MsgType, KeyAssumption DEF Fits
  <2> HIDE DEF m
  <2>3. Replies(c, m)
    BY <2>1, <2>2, ReplyReplies
  <2>4. Answers(c, "subt", m, NoList)
    BY <1>1, <2>1, <2>2, <2>3 DEF Answers, Replying, Completion
  <2> QED
    BY <2>2, <2>4
<1>5. CASE Exists(tree, k) /\ L # {}
  <2>1. PICK e \in L : SendValue(c, e, L \ {e}) /\ Answer(c, L)
    BY <1>5 DEF do_subtree
  <2> HIDE DEF L
  <2>2. Msg("VAL", e[1], e[2]) \in Message
    BY <1>2, MsgType DEF Pair
  <2>3. Replies(c, Msg("VAL", e[1], e[2]))
    BY <2>1, <2>2, ReplyReplies DEF SendValue
  <2>4. Lists(c, L, e)
    BY <1>1, <1>2, <2>1, <2>3 DEF Lists, SendValue
  <2> QED
    BY <1>2, <2>4
<1> QED
  BY <1>3, <1>4, <1>5

(* The tree becomes another one and all clients in D are told.             *)
Announces(D) ==
  \E t \in Tree : \E s \in Announced(tree, t) : Neatly(tree, t, s) /\ Publishes(D, t, s)

Online == attached \intersect up

NotListing(c) == /\ task' \in [Client -> TaskType]
                 /\ task' = [task EXCEPT ![c] = task'[c]]
                 /\ task'[c].kind # "subt"

LEMMA RemoveEntryAnnounces ==
  ASSUME TypeOK, NEW c \in Client, NEW e, RemoveEntry(c, e)
  PROVE  Announces(Online)
<1> DEFINE t == Removed(tree, e)
           u == IF HasChildren(t, Parent(e)) THEN t ELSE Removed(t, Parent(e))
<1>1. t \in Tree /\ Shrinks(tree, t) /\ (PrefixClosed(tree) => PrefixClosed(t))
  BY RemovedShrinks DEF TypeOK
<1>2. u \in Tree /\ Shrinks(tree, u) /\ (PrefixClosed(tree) => PrefixClosed(u))
  <2> HIDE DEF t
  <2>1. LET v == Removed(t, Parent(e))
        IN v \in Tree /\ Shrinks(tree, v) /\ (PrefixClosed(t) => PrefixClosed(v))
    BY <1>1, RemovedShrinks, ShrinksOn
  <2> QED
    BY <1>1, <2>1
<1>3. PICK s \in BottomUp(Changed(tree, u)) : Publish(c, u, s, <<>>)
  BY Zenon DEF RemoveEntry
<1> HIDE DEF u
<1>4. s \in Announced(tree, u)
  BY <1>3, OrdersAnnounce
<1>5. s \in Seq(Key)
  BY <1>4, ListingFacts
<1>6. Publishes(Online, u, s)
  BY <1>2, <1>3, <1>5, PublishPublishes DEF Online
<1>7. Neatly(tree, u, s)
  BY <1>2, <1>3 DEF Neatly
<1> QED
  BY <1>2, <1>4, <1>6, <1>7 DEF Announces

LEMMA RemoveTurnAnnounces ==
  ASSUME TypeOK, NEW c \in Client, NEW w \in Levels, w # <<>>, RemoveTurn(c, w)
  PROVE  Announces(Online) /\ NotListing(c)
<1>1. PICK e \in w[Len(w)] : /\ RemoveEntry(c, e)
                             /\ task' = [task EXCEPT ![c] = Removing(WalkPast(w, e), e)]
  BY DEF RemoveTurn
<1>2. e \in Key
  <2>1. Len(w) \in DOMAIN w /\ w[Len(w)] \in SUBSET Key
    BY DEF Levels
  <2> QED
    BY <2>1
<1>3. WalkPast(w, e) \in Seq(SUBSET Key)
  BY WalkPastType DEF Levels
<1>4. Removing(WalkPast(w, e), e) \in TaskType /\ Removing(WalkPast(w, e), e).kind = "del"
  BY <1>2, <1>3 DEF Removing, TaskType
<1>5. NotListing(c)
  BY <1>1, <1>4 DEF NotListing, TypeOK
<1> QED
  BY <1>1, <1>5, RemoveEntryAnnounces

(* A command without a reply: set or del.                                  *)
Changes(c, op) ==
  /\ Reading(c, op)
  /\ op \in {"set", "del"}
  /\ Announces(Online)
  /\ Answer(c, "none")
  /\ NotListing(c)
  /\ UNCHANGED attached

LEMMA SetChanges ==
  ASSUME TypeOK, NEW c \in Client, do_set(c)
  PROVE  Changes(c, "set")
<1> DEFINE t == Stored(tree, Arg(c).key, Arg(c).value)
<1>1. /\ Reading(c, "set") /\ Answer(c, "none") /\ UNCHANGED <<attached, task>>
      /\ \E s \in TopDown(Changed(tree, t)) : Publish(c, t, s, <<>>)
  BY DEF do_set
<1>2. t \in Tree /\ Grows(tree, t) /\ (PrefixClosed(tree) => PrefixClosed(t))
  <2>1. Arg(c).key \in Key /\ Arg(c).value \in Value
    BY <1>1, ReadingFacts DEF RequestType, Replying
  <2> QED
    BY <2>1, StoredType, StoredGrows DEF TypeOK
<1> HIDE DEF t
<1>3. PICK s \in TopDown(Changed(tree, t)) : Publish(c, t, s, <<>>)
  BY <1>1
<1>4. s \in Announced(tree, t)
  BY <1>3, OrdersAnnounce
<1>5. s \in Seq(Key)
  BY <1>4, ListingFacts
<1>6. Publishes(Online, t, s)
  BY <1>2, <1>3, <1>5, PublishPublishes DEF Online
<1>7. NotListing(c)
  BY <1>1, ReadingFacts DEF NotListing, TypeOK, Idle
<1>8. Neatly(tree, t, s)
  BY <1>2, <1>3 DEF Neatly
<1> QED
  BY <1>1, <1>2, <1>4, <1>6, <1>7, <1>8 DEF Changes, Announces

LEMMA RemoveChanges ==
  ASSUME TypeOK, NEW c \in Client, do_remove(c)
  PROVE  Changes(c, "del")
<1> DEFINE k == Arg(c).key
           w == <<Existing(tree, k)>>
           t == Removed(tree, k)
<1>1. Reading(c, "del") /\ Answer(c, "none") /\ UNCHANGED attached
  BY DEF do_remove
<1>2. CASE HasChildren(tree, k)
  <2>1. RemoveTurn(c, w)
    BY <1>2 DEF do_remove
  <2>2. Existing(tree, k) \in SUBSET Key
    BY DEF Existing, Children, Subtree
  <2>3. w \in Levels /\ w # <<>>
    BY <2>2 DEF Levels
  <2> QED
    BY <1>1, <2>1, <2>3, RemoveTurnAnnounces DEF Changes
<1>3. CASE ~HasChildren(tree, k)
  <2>1. UNCHANGED task /\ \E s \in BottomUp(Changed(tree, t)) : Publish(c, t, s, <<>>)
    BY <1>3 DEF do_remove
  <2>2. t \in Tree /\ Shrinks(tree, t) /\ (PrefixClosed(tree) => PrefixClosed(t))
    BY RemovedShrinks DEF TypeOK
  <2> HIDE DEF t
  <2>3. PICK s \in BottomUp(Changed(tree, t)) : Publish(c, t, s, <<>>)
    BY <2>1
  <2>4. s \in Announced(tree, t)
    BY <2>3, OrdersAnnounce
  <2>5. s \in Seq(Key)
    BY <2>4, ListingFacts
  <2>6. Publishes(Online, t, s)
    BY <2>2, <2>3, <2>5, PublishPublishes DEF Online
  <2>7. NotListing(c)
    BY <1>1, <2>1, ReadingFacts DEF NotListing, TypeOK, Idle
  <2>8. Neatly(tree, t, s)
    BY <2>2, <2>3 DEF Neatly
  <2> QED
    BY <1>1, <2>2, <2>4, <2>6, <2>7, <2>8 DEF Changes, Announces
<1> QED
  BY <1>2, <1>3

(* What a coroutine has in hand.                                           *)
LEMMA TaskFacts ==
  ASSUME TypeOK, NEW c \in Client
  PROVE  /\ task[c] \in TaskType
         /\ task[c].kind = "subt" => task[c].todo \in SUBSET Pair
         /\ task[c].kind = "del" => Walk(c) \in Levels
<1>1. task[c] \in TaskType
  BY DEF TypeOK
<1>2. task[c].kind = "subt" => task[c].todo \in SUBSET Pair
  BY <1>1 DEF TaskType, Idle
<1>3. task[c].kind = "del" => task[c].levels \in Levels
  BY <1>1 DEF TaskType, Idle, Levels
<1> QED
  BY <1>1, <1>2, <1>3, WalkType DEF Walk

(* A removal goes on, or is over.                                          *)
GoesOn(c) ==
  /\ Announces(Online) \/ UNCHANGED <<tree, s2c>>
  /\ task[c].kind = "del"
  /\ NotListing(c)
  /\ UNCHANGED <<attached, c2s, resultvars, clientvars, answer>>

LEMMA RemoveGoesOn ==
  ASSUME TypeOK, NEW c \in Client, continue_remove(c)
  PROVE  GoesOn(c)
<1>1. task[c].kind = "del" /\ UNCHANGED <<attached, c2s, resultvars, clientvars, answer>>
  BY DEF continue_remove
<1>2. Walk(c) \in Levels
  BY <1>1, TaskFacts
<1>3. CASE Walk(c) = <<>>
  <2>1. task' = [task EXCEPT ![c] = Idle] /\ UNCHANGED <<tree, s2c>>
    BY <1>3 DEF continue_remove
  <2>2. NotListing(c)
    BY <2>1 DEF NotListing, TypeOK, TaskType, Idle
  <2> QED
    BY <1>1, <2>1, <2>2 DEF GoesOn
<1>4. CASE Walk(c) # <<>>
  <2>1. RemoveTurn(c, Walk(c))
    BY <1>4 DEF continue_remove
  <2> QED
    BY <1>1, <1>2, <1>4, <2>1, RemoveTurnAnnounces DEF GoesOn
<1> QED
  BY <1>3, <1>4

(* A listing goes on with one entry more, or ends.                         *)
ListsOn(c) ==
  /\ task[c].kind = "subt" /\ task[c].todo \in SUBSET Pair
  /\ \/ \E e \in task[c].todo :
          /\ Replies(c, Msg("VAL", e[1], e[2]))
          /\ task' = [task EXCEPT ![c] = [kind |-> "subt", todo |-> task[c].todo \ {e}]]
     \/ /\ task[c].todo = {}
        /\ Replies(c, Msg("OK", Root, Null))
        /\ task' = [task EXCEPT ![c] = Idle]
  /\ c \in attached
  /\ UNCHANGED <<attached, c2s, resultvars, clientvars, answer>>

LEMMA SubtreeListsOn ==
  ASSUME TypeOK, NEW c \in Client, continue_subtree(c)
  PROVE  ListsOn(c)
<1>1. /\ c \in attached /\ task[c].kind = "subt"
      /\ UNCHANGED <<attached, c2s, resultvars, clientvars, answer>>
  BY DEF continue_subtree
<1>2. task[c].todo \in SUBSET Pair
  BY <1>1, TaskFacts
<1>3. CASE task[c].todo = {}
  <2>1. Reply(c, Msg("OK", Root, Null)) /\ task' = [task EXCEPT ![c] = Idle]
    BY <1>3 DEF continue_subtree
  <2>2. Replies(c, Msg("OK", Root, Null))
    BY <2>1, MsgType, KeyAssumption, ReplyReplies
  <2> QED
    BY <1>1, <1>2, <1>3, <2>1, <2>2 DEF ListsOn
<1>4. CASE task[c].todo # {}
  <2>1. PICK e \in task[c].todo : SendValue(c, e, task[c].todo \ {e})
    BY <1>4 DEF continue_subtree
  <2>2. Msg("VAL", e[1], e[2]) \in Message
    BY <1>2, MsgType DEF Pair
  <2>3. Replies(c, Msg("VAL", e[1], e[2]))
    BY <2>1, <2>2, ReplyReplies DEF SendValue
  <2> QED
    BY <1>1, <1>2, <2>1, <2>3 DEF ListsOn, SendValue
<1> QED
  BY <1>3, <1>4

(* Commands of clients that do not wait: quit, setv.                       *)
Refuses(c, op) ==
  /\ Reading(c, op)
  /\ op \in {"quit", "setv"}
  /\ \E m \in Message : m.type # "NOTICE" /\ Replies(c, m)
  /\ \E a : Answer(c, a)
  /\ op = "quit" => attached' = attached \ {c}
  /\ op = "setv" => UNCHANGED attached
  /\ UNCHANGED task

LEMMA QuitRefuses ==
  ASSUME TypeOK, NEW c \in Client, do_quit(c)
  PROVE  Refuses(c, "quit")
<1> DEFINE m == Msg("OK", Root, Null)
<1>1. m \in Message /\ m.type # "NOTICE"
  BY MsgType, KeyAssumption
<1>2. /\ Reading(c, "quit") /\ Reply(c, m) /\ Answer(c, "none")
      /\ attached' = attached \ {c} /\ UNCHANGED task
  BY DEF do_quit
<1> HIDE DEF m
<1>3. Replies(c, m)
  BY <1>1, <1>2, ReplyReplies
<1> QED
  BY <1>1, <1>2, <1>3 DEF Refuses

LEMMA SetvRefuses ==
  ASSUME TypeOK, NEW c \in Client, do_invalid(c)
  PROVE  Refuses(c, "setv")
<1> DEFINE m == Msg("FAIL", Root, Null)
<1>1. m \in Message /\ m.type # "NOTICE"
  BY MsgType, KeyAssumption
<1>2. /\ Reading(c, "setv") /\ Reply(c, m) /\ Answer(c, "FAIL")
      /\ UNCHANGED <<attached, task>>
  BY DEF do_invalid
<1> HIDE DEF m
<1>3. Replies(c, m)
  BY <1>1, <1>2, ReplyReplies
<1> QED
  BY <1>1, <1>2, <1>3 DEF Refuses

(* The connection object goes, its coroutine having finished.              *)
Detaches(c) ==
  /\ c \in attached
  /\ Announces(Online \ {c})
  /\ attached' = attached \ {c}
  /\ task' = [task EXCEPT ![c] = Idle]
  /\ c2s' = [c2s EXCEPT ![c] = <<>>]
  /\ UNCHANGED <<resultvars, clientvars, answer>>

LEMMA DetachDetaches ==
  ASSUME TypeOK, NEW c \in Client, detach(c)
  PROVE  Detaches(c)
<1> DEFINE t == IF task[c].kind = "del" THEN RemoveRest(c) ELSE tree
<1>1. t \in Tree /\ Shrinks(tree, t) /\ (PrefixClosed(tree) => PrefixClosed(t))
  BY TaskFacts, RemoveRestShrinks DEF TypeOK, Shrinks
<1>2. \E s \in BottomUp(Changed(tree, t)) :
       /\ tree' = t
       /\ s2c' = [d \in Client |-> IF d \in (attached \intersect up) \ {c}
                                     THEN s2c[d] \o Notices(s, t) ELSE s2c[d]]
  BY Zenon DEF detach, FinishTask
<1> HIDE DEF t
<1>3. PICK s \in BottomUp(Changed(tree, t)) : Publishes(Online \ {c}, t, s)
  BY <1>2 DEF Publishes, Online
<1>4. s \in Announced(tree, t)
  BY <1>3, OrdersAnnounce
<1>5. Neatly(tree, t, s)
  BY <1>1, <1>3 DEF Neatly
<1> QED
  BY <1>1, <1>3, <1>4, <1>5 DEF Announces, Detaches, detach

----------------------------------------------------------------------------
(* Types.  A request that was read has its answer, and there is no answer  *)
(* without a request: while the daemon has a connection object, requests   *)
(* answered and requests under way are all there are.                      *)
IsSeq(q) == \E S : q \in Seq(S)

Tidy(c) ==
  /\ IsSeq(answer[c])
  /\ stack[c] = <<>> => deltas[c] = <<>>
  /\ c \in attached => Len(answer[c]) + Len(c2s[c]) = nreq[c]

TypeInv == TypeOK /\ \A c \in Client : Tidy(c)

LEMMA IsSeqAppend ==
  ASSUME NEW q, IsSeq(q), NEW e
  PROVE  /\ IsSeq(Append(q, e)) /\ Len(q) \in Nat /\ Len(Append(q, e)) = Len(q) + 1
         /\ DOMAIN q = 1 .. Len(q) /\ DOMAIN Append(q, e) = 1 .. Len(q) + 1
         /\ \A i \in 1 .. Len(q) : Append(q, e)[i] = q[i]
         /\ Append(q, e)[Len(q) + 1] = e
<1>1. PICK S : q \in Seq(S)
  BY DEF IsSeq
<1> DEFINE U == S \union {e}
<1>2. q \in Seq(U) /\ e \in U
  BY <1>1
<1> HIDE DEF U
<1>3. Append(q, e) \in Seq(U)
  BY <1>2
<1> QED
  BY <1>2, <1>3, AppendFacts DEF IsSeq

(* Messages reach the clients; a client other than c only notices.         *)
Hears(d) == \E N \in Seq(Notice) : s2c'[d] = s2c[d] \o N

Sends(c) ==
  /\ tree' \in Tree
  /\ s2c' \in [Client -> Seq(Message)]
  /\ \A d \in Client \ {c} : Hears(d)

LEMMA NothingHeard ==
  ASSUME TypeOK, NEW d \in Client, s2c'[d] = s2c[d]
  PROVE  Hears(d)
<1>1. s2c[d] \in Seq(Message)
  BY DEF TypeOK
<1>2. s2c[d] \o <<>> = s2c[d] /\ <<>> \in Seq(Notice)
  BY <1>1
<1> QED
  BY <1>2 DEF Hears

LEMMA ReplySends ==
  ASSUME TypeOK, NEW c \in Client, NEW m \in Message, Replies(c, m)
  PROVE  Sends(c)
<1>1. tree' \in Tree
  BY DEF Replies, TypeOK
<1>2. \A d \in Client : s2c[d] \in Seq(Message) /\ Append(s2c[d], m) \in Seq(Message)
  BY DEF TypeOK
<1>3. s2c' \in [Client -> Seq(Message)] /\ \A d \in Client \ {c} : s2c'[d] = s2c[d]
  BY <1>2 DEF Replies
<1> QED
  BY <1>1, <1>3, NothingHeard DEF Sends

LEMMA AnnounceSends ==
  ASSUME TypeOK, NEW D, Announces(D)
  PROVE  /\ tree' \in Tree
         /\ s2c' \in [Client -> Seq(Message)]
         /\ \A d \in Client : Hears(d)
         /\ \A d \in Client \ D : s2c'[d] = s2c[d]
<1>1. PICK t \in Tree : \E s \in Announced(tree, t) : Publishes(D, t, s)
  BY DEF Announces
<1>2. PICK s \in Announced(tree, t) : Publishes(D, t, s)
  BY <1>1
<1>3. s \in Seq(Key)
  BY <1>2, ListingFacts
<1> DEFINE N == Notices(s, t)
<1>4. N \in Seq(Notice) /\ N \in Seq(Message)
  BY <1>3, NoticesType, NoticeIsMessage
<1> HIDE DEF N
<1>5. \A d \in Client : s2c[d] \in Seq(Message) /\ s2c[d] \o N \in Seq(Message)
  BY <1>4 DEF TypeOK
<1>6. /\ tree' = t
      /\ s2c' = [d \in Client |-> IF d \in D THEN s2c[d] \o N ELSE s2c[d]]
  BY <1>2 DEF Publishes, N
<1>7. s2c' \in [Client -> Seq(Message)]
  BY <1>5, <1>6
<1>8. \A d \in Client : s2c'[d] = s2c[d] \o N \/ s2c'[d] = s2c[d]
  BY <1>6
<1>9. \A d \in Client : Hears(d)
  BY <1>4, <1>8, NothingHeard DEF Hears
<1> QED
  BY <1>1, <1>6, <1>7, <1>9

(* What the daemon does for client c leaves the others' connections alone. *)
Served(c) ==
  /\ Sends(c)
  /\ task' \in [Client -> TaskType]
  /\ c2s' \in [Client -> Seq(RequestType)]
  /\ attached' \subseteq attached
  /\ UNCHANGED <<resultvars, clientvars>>
  /\ DOMAIN answer' = Client
  /\ IsSeq(answer'[c])
  /\ Len(answer'[c]) <= nreq[c]
  /\ c \in attached' => Len(answer'[c]) + Len(c2s'[c]) = nreq[c]
  /\ \A d \in Client \ {c} : /\ task'[d] = task[d] /\ c2s'[d] = c2s[d]
                             /\ answer'[d] = answer[d]
                             /\ d \in attached' <=> d \in attached

(* The command is off the queue and has its answer.                        *)
LEMMA ReadAnswered ==
  ASSUME TypeInv, NEW c \in Client, NEW op, Reading(c, op), NEW a, Answer(c, a)
  PROVE  /\ c2s' \in [Client -> Seq(RequestType)] /\ DOMAIN answer' = Client
         /\ c2s'[c] = Tail(c2s[c]) /\ answer'[c] = Append(answer[c], a)
         /\ IsSeq(answer'[c])
         /\ Len(answer'[c]) + Len(c2s'[c]) = nreq[c] /\ Len(answer'[c]) <= nreq[c]
         /\ \A d \in Client \ {c} : c2s'[d] = c2s[d] /\ answer'[d] = answer[d]
         /\ UNCHANGED <<resultvars, clientvars>>
<1>1. TypeOK /\ Tidy(c)
  BY DEF TypeInv
<1>2. /\ c \in attached /\ c2s[c] # <<>> /\ c2s' = [c2s EXCEPT ![c] = Tail(@)]
      /\ UNCHANGED <<resultvars, clientvars>>
  BY DEF Reading
<1>3. c2s \in [Client -> Seq(RequestType)] /\ DOMAIN answer = Client /\ nreq[c] \in Nat
  BY <1>1 DEF TypeOK
<1>4. Tail(c2s[c]) \in Seq(RequestType) /\ Len(Tail(c2s[c])) = Len(c2s[c]) - 1 /\ Len(c2s[c]) \in Nat \ {0}
  BY <1>2, <1>3, TailFacts
<1>5. answer' = [answer EXCEPT ![c] = Append(@, a)]
  BY DEF Answer
<1>6. /\ IsSeq(Append(answer[c], a)) /\ Len(answer[c]) \in Nat
      /\ Len(Append(answer[c], a)) = Len(answer[c]) + 1
  BY <1>1, IsSeqAppend DEF Tidy
<1>7. /\ c2s' \in [Client -> Seq(RequestType)] /\ c2s'[c] = Tail(c2s[c])
      /\ \A d \in Client \ {c} : c2s'[d] = c2s[d]
  BY <1>2, <1>3, <1>4
<1>8. /\ DOMAIN answer' = Client /\ answer'[c] = Append(answer[c], a)
      /\ \A d \in Client \ {c} : answer'[d] = answer[d]
  BY <1>3, <1>5
<1>9. Len(answer[c]) + Len(c2s[c]) = nreq[c]
  BY <1>1, <1>2 DEF Tidy
<1>10. Len(answer'[c]) + Len(c2s'[c]) = nreq[c] /\ Len(answer'[c]) <= nreq[c]
  BY <1>3, <1>4, <1>6, <1>7, <1>8, <1>9
<1> QED
  BY <1>2, <1>6, <1>7, <1>8, <1>10

(* The kinds of daemon steps.                                              *)
LEMMA DaemonCases ==
  ASSUME TypeOK, NEW c \in Client, DaemonStep(c)
  PROVE  \/ \E op \in Replying, m \in Message : \E a : Answers(c, op, m, a)
         \/ \E L \in SUBSET Pair : \E e \in L : Lists(c, L, e)
         \/ ListsOn(c)
         \/ \E op \in {"set", "del"} : Changes(c, op)
         \/ GoesOn(c)
         \/ \E op \in {"quit", "setv"} : Refuses(c, op)
<1> USE DEF Replying
<1>1. CASE do_get(c)
  BY <1>1, GetAnswers
<1>2. CASE do_haschildren(c)
  BY <1>2, ChildAnswers
<1>3. CASE do_commit(c)
  BY <1>3, CommitAnswers
<1>4. CASE do_subtree(c)
  BY <1>4, SubtreeAnswers
<1>5. CASE do_set(c)
  BY <1>5, SetChanges
<1>6. CASE do_remove(c)
  BY <1>6, RemoveChanges
<1>7. CASE do_quit(c)
  BY <1>7, QuitRefuses
<1>8. CASE do_invalid(c)
  BY <1>8, SetvRefuses
<1>9. CASE continue_remove(c)
  BY <1>9, RemoveGoesOn
<1>10. CASE continue_subtree(c)
  BY <1>10, SubtreeListsOn
<1> QED
  BY <1>1, <1>2, <1>3, <1>4, <1>5, <1>6, <1>7, <1>8, <1>9, <1>10 DEF DaemonStep

LEMMA ListingTask ==
  ASSUME TypeOK, NEW c \in Client, NEW T \in SUBSET Pair,
         task' = [task EXCEPT ![c] = [kind |-> "subt", todo |-> T]]
  PROVE  /\ task' \in [Client -> TaskType] /\ task'[c].kind = "subt" /\ task'[c].todo = T
         /\ \A d \in Client \ {c} : task'[d] = task[d]
<1>1. [kind |-> "subt", todo |-> T] \in TaskType
  BY DEF TaskType
<1>2. task \in [Client -> TaskType]
  BY DEF TypeOK
<1> QED
  BY <1>1, <1>2

LEMMA IdleTask ==
  ASSUME TypeOK, NEW c \in Client, task' = [task EXCEPT ![c] = Idle]
  PROVE  /\ task' \in [Client -> TaskType] /\ task'[c] = Idle
         /\ \A d \in Client \ {c} : task'[d] = task[d]
<1>1. Idle \in TaskType /\ task \in [Client -> TaskType]
  BY DEF TaskType, TypeOK
<1> QED
  BY <1>1

LEMMA OtherTask ==
  ASSUME TypeOK, NEW c \in Client, NotListing(c)
  PROVE  /\ task' \in [Client -> TaskType] /\ task'[c].kind # "subt"
         /\ \A d \in Client \ {c} : task'[d] = task[d]
BY DEF NotListing, TypeOK

LEMMA ValType ==
  ASSUME NEW T \in SUBSET Pair, NEW e \in T
  PROVE  /\ Msg("VAL", e[1], e[2]) \in Message /\ Msg("VAL", e[1], e[2]).type = "VAL"
         /\ e = <<Msg("VAL", e[1], e[2]).key, Msg("VAL", e[1], e[2]).value>>
BY MsgType DEF Pair

LEMMA OkType == Msg("OK", Root, Null) \in Message /\ Msg("OK", Root, Null).type = "OK"
BY MsgType, KeyAssumption

(* One request has been read and one answer decided, for c alone.          *)
AnsweredOne(c) ==
  /\ c2s' \in [Client -> Seq(RequestType)]
  /\ DOMAIN answer' = Client
  /\ IsSeq(answer'[c])
  /\ Len(answer'[c]) <= nreq[c]
  /\ Len(answer'[c]) + Len(c2s'[c]) = nreq[c]
  /\ \A d \in Client \ {c} : c2s'[d] = c2s[d] /\ answer'[d] = answer[d]
  /\ UNCHANGED <<resultvars, clientvars>>

LEMMA AnswersOne ==
  ASSUME TypeInv, NEW c \in Client, NEW op, Reading(c, op), NEW a, Answer(c, a)
  PROVE  AnsweredOne(c)
BY ReadAnswered DEF AnsweredOne

LEMMA Serving ==
  ASSUME TypeInv, NEW c \in Client, DaemonStep(c) \/ detach(c)
  PROVE  Served(c)
<1> USE DEF TypeInv
<1>0. /\ task \in [Client -> TaskType] /\ c2s \in [Client -> Seq(RequestType)]
      /\ DOMAIN answer = Client /\ attached \subseteq Client
      /\ IsSeq(answer[c]) /\ Len(answer[c]) <= nreq[c]
      /\ c \in attached => Len(answer[c]) + Len(c2s[c]) = nreq[c]
  BY DEF TypeOK, Tidy
<1>1. ASSUME NEW op \in Replying, NEW m \in Message, NEW a, Answers(c, op, m, a)
      PROVE  Served(c)
  <2>1. Reading(c, op) /\ Answer(c, a) /\ UNCHANGED <<attached, task>> /\ Replies(c, m)
    BY <1>1 DEF Answers
  <2>2. Sends(c)
    BY <2>1, ReplySends
  <2>3. AnsweredOne(c)
    BY <2>1, AnswersOne
  <2>4. task' \in [Client -> TaskType] /\ \A d \in Client \ {c} : task'[d] = task[d]
    BY <1>0, <2>1
  <2> QED
    BY <1>0, <2>1, <2>2, <2>3, <2>4 DEF Served, AnsweredOne
<1>2. ASSUME NEW L \in SUBSET Pair, NEW e \in L, Lists(c, L, e)
      PROVE  Served(c)
  <2>1. /\ Reading(c, "subt") /\ Answer(c, L) /\ UNCHANGED attached
        /\ Replies(c, Msg("VAL", e[1], e[2]))
        /\ task' = [task EXCEPT ![c] = [kind |-> "subt", todo |-> L \ {e}]]
    BY <1>2 DEF Lists
  <2>2. Sends(c)
    BY <2>1, ValType, ReplySends
  <2>3. L \ {e} \in SUBSET Pair
    OBVIOUS
  <2>4. task' \in [Client -> TaskType] /\ \A d \in Client \ {c} : task'[d] = task[d]
    BY <2>1, <2>3, ListingTask
  <2>5. AnsweredOne(c)
    BY <2>1, AnswersOne
  <2> QED
    BY <1>0, <2>1, <2>2, <2>4, <2>5 DEF Served, AnsweredOne
<1>3. CASE ListsOn(c)
  <2>1. Sends(c)
    BY <1>3, ValType, OkType, ReplySends DEF ListsOn
  <2>2. task' \in [Client -> TaskType] /\ \A d \in Client \ {c} : task'[d] = task[d]
    <3>1. CASE \E e \in task[c].todo :
                 task' = [task EXCEPT ![c] = [kind |-> "subt", todo |-> task[c].todo \ {e}]]
      <4>1. PICK e : task' = [task EXCEPT ![c] = [kind |-> "subt", todo |-> task[c].todo \ {e}]]
        BY <3>1
      <4>2. task[c].todo \ {e} \in SUBSET Pair
        BY <1>3 DEF ListsOn
      <4> QED
        BY <4>1, <4>2, ListingTask
    <3>2. CASE task' = [task EXCEPT ![c] = Idle]
      BY <3>2, IdleTask
    <3> QED
      BY <1>3, <3>1, <3>2 DEF ListsOn
  <2> QED
    BY <1>0, <1>3, <2>1, <2>2 DEF Served, ListsOn
<1>4. ASSUME NEW op \in {"set", "del"}, Changes(c, op)
      PROVE  Served(c)
  <2>1. Reading(c, op) /\ Answer(c, "none") /\ UNCHANGED attached /\ NotListing(c)
        /\ Announces(Online)
    BY <1>4 DEF Changes
  <2>2. Sends(c)
    BY <2>1, AnnounceSends DEF Sends
  <2>3. AnsweredOne(c)
    BY <2>1, AnswersOne
  <2>4. task' \in [Client -> TaskType] /\ \A d \in Client \ {c} : task'[d] = task[d]
    BY <1>0, <2>1, OtherTask
  <2> QED
    BY <1>0, <2>1, <2>2, <2>3, <2>4 DEF Served, AnsweredOne
<1>5. CASE GoesOn(c)
  <2>1. Sends(c)
    <3>1. CASE Announces(Online)
      BY <3>1, AnnounceSends DEF Sends
    <3>2. CASE UNCHANGED <<tree, s2c>>
      BY <3>2, NothingHeard DEF Sends, TypeOK
    <3> QED
      BY <1>5, <3>1, <3>2 DEF GoesOn
  <2>2. NotListing(c) /\ UNCHANGED <<attached, c2s, resultvars, clientvars, answer>>
    BY <1>5 DEF GoesOn
  <2> QED
    BY <1>0, <2>1, <2>2, OtherTask DEF Served, clientvars
<1>6. ASSUME NEW op \in {"quit", "setv"}, Refuses(c, op)
      PROVE  Served(c)
  <2>1. PICK m \in Message : Replies(c, m)
    BY <1>6 DEF Refuses
  <2>2. PICK a : Answer(c, a)
    BY <1>6 DEF Refuses
  <2>3. Reading(c, op) /\ UNCHANGED task /\ attached' \in {attached, attached \ {c}}
    BY <1>6 DEF Refuses
  <2> QED
    BY <1>0, <2>1, <2>2, <2>3, ReadAnswered, ReplySends DEF Served
<1>7. CASE detach(c)
  <2>1. Detaches(c)
    BY <1>7, DetachDetaches
  <2>2. Sends(c)
    BY <2>1, AnnounceSends DEF Detaches, Sends
  <2>3. /\ c2s' \in [Client -> Seq(RequestType)]
        /\ \A d \in Client \ {c} : c2s'[d] = c2s[d]
    <3>1. c2s' = [c2s EXCEPT ![c] = <<>>] /\ <<>> \in Seq(RequestType)
      BY <2>1 DEF Detaches
    <3> QED
      BY <1>0, <3>1
  <2> QED
    BY <1>0, <2>1, <2>2, <2>3, IdleTask DEF Served, Detaches, clientvars
<1>8. CASE DaemonStep(c)
  <2>1. TypeOK
    OBVIOUS
  <2> QED
    BY <1>1, <1>2, <1>3, <1>4, <1>5, <1>6, <1>8, <2>1, DaemonCases
<1> QED
  BY <1>7, <1>8

(* Nothing but what c's connection object does to c changes for others.    *)
LEMMA ServedType ==
  ASSUME TypeInv, NEW c \in Client, Served(c)
  PROVE  TypeInv'
<1> USE DEF TypeInv
<1>1. /\ tree' \in Tree /\ s2c' \in [Client -> Seq(Message)]
      /\ task' \in [Client -> TaskType] /\ c2s' \in [Client -> Seq(RequestType)]
      /\ attached' \subseteq attached /\ DOMAIN answer' = Client
  BY DEF Served, Sends
<1>2. UNCHANGED <<resultvars, clientvars>>
  BY DEF Served
<1>3. UNCHANGED <<cmdinprogress, cmdsuccess, result_key, result, result_list, up, stack,
                  version, deltas, told, nreq>>
  BY <1>2 DEF resultvars, clientvars
<1>4. ASSUME NEW d \in Client
      PROVE  Len(answer'[d]) <= nreq'[d] /\ Tidy(d)'
  <2>1. CASE d = c
    BY <1>3, <2>1 DEF Served, Tidy
  <2>2. CASE d # c
    <3>1. /\ answer'[d] = answer[d] /\ c2s'[d] = c2s[d]
          /\ d \in attached' <=> d \in attached
      BY <2>2 DEF Served
    <3>2. Len(answer[d]) <= nreq[d] /\ Tidy(d)
      BY DEF TypeOK
    <3>3. IsSeq(answer'[d])
      BY <3>1, <3>2 DEF Tidy, IsSeq
    <3>4. Len(answer'[d]) <= nreq'[d] /\ (stack'[d] = <<>> => deltas'[d] = <<>>)
      BY <1>3, <3>1, <3>2 DEF Tidy
    <3>5. d \in attached' => Len(answer'[d]) + Len(c2s'[d]) = nreq'[d]
      BY <1>3, <3>1, <3>2 DEF Tidy
    <3> QED
      BY <3>3, <3>4, <3>5 DEF Tidy
  <2> QED
    BY <2>1, <2>2
<1>5. \A d \in Client : nreq'[d] <= MaxReq[d] /\ Nested(d)'
  BY <1>3 DEF TypeOK, Nested
<1>6. TypeOK'
  BY <1>1, <1>3, <1>4, <1>5 DEF TypeOK
<1> QED
  BY <1>4, <1>6

(* Calls begin.                                                            *)
LEMMA PushFacts ==
  ASSUME TypeOK, NEW c \in Client, NEW op, CanCall(c, op),
         NEW f \in FrameType, f.phase = "wait", f.op \in Replying => f.rest = <<>>, Push(c, f)
  PROVE  /\ stack' \in [Client -> Seq(FrameType)]
         /\ \A d \in Client : Nested(d)'
         /\ \A d \in Client \ {c} : stack'[d] = stack[d]
         /\ stack'[c] = Append(stack[c], f) /\ stack'[c] # <<>>
         /\ Len(stack[c]) \in {0, 1} /\ Len(stack'[c]) = Len(stack[c]) + 1
         /\ Len(stack[c]) = 1 => stack[c][1].phase = "callback" /\ op \in CallbackOp
         /\ Len(stack[c]) = 0 => op \in Op[c]
<1>1. /\ stack \in [Client -> Seq(FrameType)] /\ \A d \in Client : Nested(d)
      /\ stack' = [stack EXCEPT ![c] = Append(@, f)]
  BY DEF TypeOK, Push
<1>2. stack[c] \in Seq(FrameType) /\ Len(stack[c]) \in Nat /\ Len(stack[c]) <= 2
  BY <1>1 DEF Nested
<1>3. /\ Append(stack[c], f) \in Seq(FrameType) /\ Len(Append(stack[c], f)) = Len(stack[c]) + 1
      /\ DOMAIN stack[c] = 1 .. Len(stack[c])
      /\ DOMAIN Append(stack[c], f) = 1 .. Len(stack[c]) + 1
      /\ \A i \in 1 .. Len(stack[c]) : Append(stack[c], f)[i] = stack[c][i]
      /\ Append(stack[c], f)[Len(stack[c]) + 1] = f
  BY <1>2, AppendFacts
<1>4. /\ stack' \in [Client -> Seq(FrameType)] /\ stack'[c] = Append(stack[c], f)
      /\ \A d \in Client \ {c} : stack'[d] = stack[d]
  BY <1>1, <1>3
<1>5. CASE stack[c] = <<>>
  <2>1. Len(stack[c]) = 0 /\ op \in Op[c]
    BY <1>5 DEF CanCall
  <2>2. Nested(c)' /\ stack'[c] # <<>>
    BY <1>3, <1>4, <2>1 DEF Nested
  <2> QED
    BY <1>1, <1>3, <1>4, <2>1, <2>2 DEF Nested
<1>6. CASE stack[c] # <<>>
  <2>1. Top(c).phase = "callback" /\ op \in CallbackOp
    BY <1>6 DEF CanCall
  <2>2. Len(stack[c]) # 0
    BY <1>2, <1>6
  <2>3. Len(stack[c]) # 2
    BY <1>1, <2>1 DEF Top, Nested
  <2>4. Len(stack[c]) = 1
    <3> DEFINE n == Len(stack[c])
    <3>1. n \in Nat /\ n <= 2 /\ n # 0 /\ n # 2
      BY <1>2, <2>2, <2>3
    <3> HIDE DEF n
    <3>2. n = 1
      BY <3>1
    <3> QED
      BY <3>2 DEF n
  <2>5. stack[c][1].phase = "callback"
    BY <2>1, <2>4 DEF Top
  <2>6. Nested(c)' /\ stack'[c] # <<>>
    BY <1>1, <1>3, <1>4, <2>4, <2>5 DEF Nested
  <2> QED
    BY <1>1, <1>3, <1>4, <2>1, <2>4, <2>5, <2>6 DEF Nested
<1> QED
  BY <1>5, <1>6

LEMMA WriteFacts ==
  ASSUME TypeInv, NEW c \in Client, NEW q \in Seq(RequestType), Write(c, q)
  PROVE  /\ c2s' \in [Client -> Seq(RequestType)] /\ nreq' \in [Client -> Nat]
         /\ c2s'[c] = c2s[c] \o q /\ nreq'[c] = nreq[c] + Len(q)
         /\ \A d \in Client \ {c} : c2s'[d] = c2s[d] /\ nreq'[d] = nreq[d]
         /\ \A d \in Client : /\ nreq'[d] <= MaxReq[d] /\ nreq[d] <= nreq'[d]
                              /\ d \in attached => Len(answer[d]) + Len(c2s'[d]) = nreq'[d]
                              /\ Len(answer[d]) \in Nat /\ Len(answer[d]) <= nreq'[d]
<1>1. /\ c2s \in [Client -> Seq(RequestType)] /\ nreq \in [Client -> Nat]
      /\ \A d \in Client : nreq[d] <= MaxReq[d] /\ Tidy(d) /\ Len(answer[d]) <= nreq[d]
  BY DEF TypeInv, TypeOK
<1>2. /\ nreq[c] + Len(q) <= MaxReq[c]
      /\ nreq' = [nreq EXCEPT ![c] = @ + Len(q)]
      /\ c2s' = [c2s EXCEPT ![c] = @ \o q]
  BY DEF Write
<1>3. Len(q) \in Nat /\ c2s[c] \o q \in Seq(RequestType) /\ Len(c2s[c] \o q) = Len(c2s[c]) + Len(q)
      /\ Len(c2s[c]) \in Nat
  BY <1>1
<1>4. /\ c2s' \in [Client -> Seq(RequestType)] /\ nreq' \in [Client -> Nat]
      /\ c2s'[c] = c2s[c] \o q /\ nreq'[c] = nreq[c] + Len(q)
      /\ \A d \in Client \ {c} : c2s'[d] = c2s[d] /\ nreq'[d] = nreq[d]
  BY <1>1, <1>2, <1>3
<1>5. \A d \in Client : Len(answer[d]) \in Nat /\ nreq[d] \in Nat
  BY <1>1, IsSeqAppend DEF Tidy
<1>6. ASSUME NEW d \in Client
      PROVE  /\ nreq'[d] <= MaxReq[d] /\ nreq[d] <= nreq'[d]
             /\ d \in attached => Len(answer[d]) + Len(c2s'[d]) = nreq'[d]
             /\ Len(answer[d]) \in Nat /\ Len(answer[d]) <= nreq'[d]
  <2> DEFINE N == nreq[d]
             A == Len(answer[d])
             L == Len(c2s[d])
             K == Len(q)
             M == MaxReq[d]
  <2>1. N \in Nat /\ A \in Nat /\ L \in Nat /\ K \in Nat /\ M \in Nat
    BY <1>1, <1>3, <1>5, ProtocolAssumption
  <2>2. N <= M /\ A <= N /\ (d \in attached => A + L = N)
    BY <1>1 DEF Tidy
  <2>3. \/ N + K <= M /\ nreq'[d] = N + K /\ Len(c2s'[d]) = L + K
        \/ nreq'[d] = N /\ c2s'[d] = c2s[d]
    BY <1>2, <1>3, <1>4
  <2>4. \/ N + K <= M /\ nreq'[d] = N + K /\ Len(c2s'[d]) = L + K
        \/ nreq'[d] = N /\ Len(c2s'[d]) = L
    BY <2>3
  <2> DEFINE N2 == nreq'[d]
             L2 == Len(c2s'[d])
  <2>5. \/ N + K <= M /\ N2 = N + K /\ L2 = L + K
        \/ N2 = N /\ L2 = L
    BY <2>4
  <2> HIDE DEF N, A, L, K, M, N2, L2
  <2>6. N2 <= M /\ N <= N2 /\ A <= N2 /\ (d \in attached => A + L2 = N2)
    BY <2>1, <2>2, <2>5
  <2> QED
    BY <2>1, <2>6 DEF N, A, M, N2, L2
<1> QED
  BY <1>4, <1>6

----------------------------------------------------------------------------
(* A step by or for client c leaves the others to themselves, except that  *)
(* they are sent notices.                                                  *)
Untouched(d) ==
  /\ d \in up' <=> d \in up
  /\ d \in attached' <=> d \in attached
  /\ task'[d] = task[d] /\ c2s'[d] = c2s[d] /\ Hears(d)
  /\ stack'[d] = stack[d] /\ nreq'[d] = nreq[d] /\ answer'[d] = answer[d]
  /\ cmdinprogress'[d] = cmdinprogress[d] /\ cmdsuccess'[d] = cmdsuccess[d]
  /\ result_key'[d] = result_key[d] /\ result'[d] = result[d]
  /\ result_list'[d] = result_list[d]
  /\ deltas'[d] = deltas[d] /\ told'[d] = told[d]

Keeps(c) == TypeInv' /\ \A d \in Client \ {c} : Untouched(d)

LEMMA ServingKeeps ==
  ASSUME TypeInv, NEW c \in Client, DaemonStep(c) \/ detach(c)
  PROVE  Keeps(c)
<1>1. Served(c)
  BY Serving
<1>2. TypeInv'
  BY <1>1, ServedType
<1>3. UNCHANGED <<cmdinprogress, cmdsuccess, result_key, result, result_list, up, stack,
                  version, deltas, told, nreq>>
  BY <1>1 DEF Served, resultvars, clientvars
<1>4. \A d \in Client \ {c} : Untouched(d)
  BY <1>1, <1>3 DEF Served, Sends, Untouched
<1> QED
  BY <1>2, <1>4 DEF Keeps

(* A client's own step, once its own part has its type.                    *)
LEMMA OwnStep ==
  ASSUME TypeInv, NEW c \in Client,
         UNCHANGED <<daemonvars, answer>>,
         c2s' \in [Client -> Seq(RequestType)], s2c' \in [Client -> Seq(Message)],
         up' \subseteq Client, stack' \in [Client -> Seq(FrameType)],
         cmdinprogress' \in [Client -> BOOLEAN], cmdsuccess' \in [Client -> BOOLEAN],
         result_key' \in [Client -> Key \union {Null}],
         result' \in [Client -> Value \union {Null, "TRUE", "FALSE"}],
         result_list' \in [Client -> SUBSET ((Key \union {Null}) \X (Value \union {Null, "TRUE", "FALSE"}))],
         version' \in [Client -> {0, PROTOCOL_VERSION}],
         deltas' \in [Client -> Seq(Notice)], told' \in [Client -> Tree],
         nreq' \in [Client -> Nat],
         nreq'[c] <= MaxReq[c] /\ Len(answer[c]) <= nreq'[c],
         Nested(c)', stack'[c] = <<>> => deltas'[c] = <<>>,
         c \in attached => Len(answer[c]) + Len(c2s'[c]) = nreq'[c],
         \A d \in Client \ {c} :
           /\ d \in up' <=> d \in up
           /\ c2s'[d] = c2s[d] /\ s2c'[d] = s2c[d] /\ stack'[d] = stack[d] /\ nreq'[d] = nreq[d]
           /\ cmdinprogress'[d] = cmdinprogress[d] /\ cmdsuccess'[d] = cmdsuccess[d]
           /\ result_key'[d] = result_key[d] /\ result'[d] = result[d]
           /\ result_list'[d] = result_list[d]
           /\ deltas'[d] = deltas[d] /\ told'[d] = told[d]
  PROVE  Keeps(c)
<1>1. TypeOK /\ \A d \in Client : Tidy(d)
  BY DEF TypeInv
<1>2. UNCHANGED <<tree, attached, task, answer>>
  BY DEF daemonvars
<1>3. \A d \in Client \ {c} : Untouched(d)
  BY <1>1, <1>2, NothingHeard DEF Untouched
<1>4. \A d \in Client : nreq'[d] <= MaxReq[d] /\ Len(answer'[d]) <= nreq'[d]
  BY <1>1, <1>2 DEF TypeOK
<1>5. ASSUME NEW d \in Client
      PROVE  Nested(d)'
  <2>1. CASE d = c
    BY <2>1
  <2>2. CASE d # c
    <3>1. stack'[d] = stack[d] /\ Nested(d)
      BY <1>1, <2>2 DEF TypeOK
    <3> QED
      BY <3>1 DEF Nested
  <2> QED
    BY <2>1, <2>2
<1>6. ASSUME NEW d \in Client
      PROVE  Tidy(d)'
  <2>1. IsSeq(answer'[d])
    BY <1>1, <1>2 DEF Tidy
  <2>2. CASE d = c
    BY <1>2, <2>1, <2>2 DEF Tidy
  <2>3. CASE d # c
    BY <1>1, <1>2, <2>1, <2>3 DEF Tidy
  <2> QED
    BY <2>2, <2>3
<1>7. TypeOK'
  BY <1>1, <1>2, <1>4, <1>5 DEF TypeOK
<1> QED
  BY <1>3, <1>6, <1>7 DEF Keeps, TypeInv

(* What holds of client c before.                                          *)
LEMMA OwnFacts ==
  ASSUME TypeInv, NEW c \in Client
  PROVE  /\ TypeOK /\ Tidy(c) /\ Nested(c)
         /\ c2s[c] \in Seq(RequestType) /\ s2c[c] \in Seq(Message)
         /\ stack[c] \in Seq(FrameType) /\ deltas[c] \in Seq(Notice)
         /\ nreq[c] \in Nat /\ nreq[c] <= MaxReq[c] /\ Len(answer[c]) <= nreq[c]
         /\ c \in attached => Len(answer[c]) + Len(c2s[c]) = nreq[c]
         /\ stack[c] = <<>> => deltas[c] = <<>>
         /\ IsSeq(answer[c])
BY DEF TypeInv, TypeOK, Tidy

LEMMA RequestMade ==
  ASSUME NEW op \in Replying \union {"del", "setv", "quit"}, NEW k \in Key,
         NEW v \in Value \union {Null}
  PROVE  /\ Request(op, k, v) \in RequestType /\ Request(op, k, v).op = op
         /\ Request(op, k, v).key = k /\ <<Request(op, k, v)>> \in Seq(RequestType)
         /\ Len(<<Request(op, k, v)>>) = 1
BY DEF Request, RequestType

(* A call that waits for its reply: request and iterator.                  *)
Calls(c, op, k) ==
  /\ CanCall(c, op)
  /\ op \in Replying /\ k \in Key
  /\ Write(c, <<Request(op, k, Null)>>)
  /\ do_select(c, Frame(op, k, nreq'[c], <<>>))
  /\ result_list' = [result_list EXCEPT ![c] = IF op = "subt" THEN {} ELSE @]
  /\ UNCHANGED <<daemonvars, s2c, result_key, result, up, version, deltas, told, answer>>

LEMMA RequestCalls ==
  ASSUME TypeInv, NEW c \in Client, NEW k \in Key
  PROVE  /\ request(c, "get", k) => Calls(c, "get", k)
         /\ request(c, "hchild", k) => Calls(c, "hchild", k)
         /\ request(c, "commit", Root) => Calls(c, "commit", Root)
         /\ iterator(c, k) => Calls(c, "subt", k)
<1>1. result_list' = result_list => result_list' = [result_list EXCEPT ![c] = @]
  BY DEF TypeInv, TypeOK
<1> QED
  BY <1>1, KeyAssumption DEF request, iterator, Calls, Replying

LEMMA CallKeeps ==
  ASSUME TypeInv, NEW c \in Client, NEW op, NEW k, Calls(c, op, k)
  PROVE  Keeps(c)
<1> DEFINE r == Request(op, k, Null)
           f == Frame(op, k, nreq'[c], <<>>)
<1>1. /\ CanCall(c, op) /\ op \in Replying /\ k \in Key
      /\ Write(c, <<r>>) /\ do_select(c, f)
      /\ result_list' = [result_list EXCEPT ![c] = IF op = "subt" THEN {} ELSE @]
      /\ UNCHANGED <<daemonvars, s2c, result_key, result, up, version, deltas, told, answer>>
  BY DEF Calls
<1>2. <<r>> \in Seq(RequestType)
  BY <1>1, RequestMade
<1> HIDE DEF r
<1>3. /\ c2s' \in [Client -> Seq(RequestType)] /\ nreq' \in [Client -> Nat]
      /\ nreq'[c] <= MaxReq[c] /\ Len(answer[c]) <= nreq'[c]
      /\ c \in attached => Len(answer[c]) + Len(c2s'[c]) = nreq'[c]
      /\ \A d \in Client \ {c} : c2s'[d] = c2s[d] /\ nreq'[d] = nreq[d]
  BY <1>1, <1>2, WriteFacts
<1>4. f \in FrameType /\ f.phase = "wait" /\ f.rest = <<>>
  <2>1. <<>> \in Seq(Pair) /\ nreq'[c] \in Nat
    BY <1>3
  <2>2. PICK n \in Nat : n = nreq'[c]
    BY <2>1
  <2>3. f = Frame(op, k, n, <<>>)
    BY <2>2
  <2> HIDE DEF f
  <2>4. op \in Replying \union {"set"} /\ k \in Key
    BY <1>1
  <2> QED
    BY <2>1, <2>3, <2>4 DEF Frame, FrameType
<1> HIDE DEF f
<1>5. Push(c, f) /\ cmdinprogress' = [cmdinprogress EXCEPT ![c] = TRUE]
      /\ cmdsuccess' = [cmdsuccess EXCEPT ![c] = FALSE]
  BY <1>1 DEF do_select
<1>6. /\ stack' \in [Client -> Seq(FrameType)] /\ Nested(c)' /\ stack'[c] # <<>>
      /\ \A d \in Client \ {c} : stack'[d] = stack[d]
  <2>1. TypeOK
    BY DEF TypeInv
  <2> QED
    BY <1>1, <1>4, <1>5, <2>1, PushFacts
<1>7. TypeOK
  BY DEF TypeInv
<1>8. /\ cmdinprogress' \in [Client -> BOOLEAN] /\ cmdsuccess' \in [Client -> BOOLEAN]
      /\ result_list' \in [Client -> SUBSET ((Key \union {Null}) \X (Value \union {Null, "TRUE", "FALSE"}))]
      /\ \A d \in Client \ {c} : /\ cmdinprogress'[d] = cmdinprogress[d]
                                 /\ cmdsuccess'[d] = cmdsuccess[d]
                                 /\ result_list'[d] = result_list[d]
  BY <1>1, <1>5, <1>7 DEF TypeOK
<1>9. /\ s2c' \in [Client -> Seq(Message)] /\ up' \subseteq Client
      /\ result_key' \in [Client -> Key \union {Null}]
      /\ result' \in [Client -> Value \union {Null, "TRUE", "FALSE"}]
      /\ version' \in [Client -> {0, PROTOCOL_VERSION}]
      /\ deltas' \in [Client -> Seq(Notice)] /\ told' \in [Client -> Tree]
  BY <1>1, <1>7 DEF TypeOK
<1> QED
  BY <1>1, <1>3, <1>6, <1>8, <1>9, OwnStep

(* set, del, and setv in single steps.                                     *)
Sets(c, op, p) ==
  /\ p \in Seq(Pair) /\ p # <<>>
  /\ set(c, op, p)

LEMMA SetRequestMade ==
  ASSUME NEW k \in Key, NEW v \in Value \union {Null}
  PROVE  /\ SetRequest(k, v) \in RequestType /\ SetRequest(k, v).op \in {"set", "del"}
         /\ <<SetRequest(k, v)>> \in Seq(RequestType) /\ Len(<<SetRequest(k, v)>>) = 1
BY DEF SetRequest, Request, RequestType

LEMMA SetKeeps ==
  ASSUME TypeInv, NEW c \in Client, NEW op, NEW p, Sets(c, op, p)
  PROVE  Keeps(c)
<1> DEFINE r == SetRequest(p[1][1], p[1][2])
           f == Frame("set", p[1][1], nreq'[c], Tail(p))
<1>0. p[1] \in Pair /\ p[1][1] \in Key /\ p[1][2] \in Value \union {Null} /\ Tail(p) \in Seq(Pair)
  BY DEF Sets, Pair
<1>1. /\ CanCall(c, op) /\ Write(c, <<r>>) /\ Push(c, f)
      /\ UNCHANGED <<daemonvars, s2c, resultvars, up, version, deltas, told, answer>>
  BY DEF Sets, set
<1>2. <<r>> \in Seq(RequestType)
  BY <1>0, SetRequestMade
<1> HIDE DEF r
<1>3. /\ c2s' \in [Client -> Seq(RequestType)] /\ nreq' \in [Client -> Nat]
      /\ nreq'[c] <= MaxReq[c] /\ Len(answer[c]) <= nreq'[c]
      /\ c \in attached => Len(answer[c]) + Len(c2s'[c]) = nreq'[c]
      /\ \A d \in Client \ {c} : c2s'[d] = c2s[d] /\ nreq'[d] = nreq[d]
  BY <1>1, <1>2, WriteFacts
<1>4. f \in FrameType /\ f.phase = "wait" /\ f.op = "set" /\ f.op \notin Replying
  <2>1. PICK n \in Nat : n = nreq'[c]
    BY <1>3
  <2>2. PICK k \in Key : k = p[1][1]
    BY <1>0
  <2>3. f = Frame("set", k, n, Tail(p))
    BY <2>1, <2>2
  <2> HIDE DEF f
  <2> QED
    <3>1. "set" \in Replying \union {"set"} /\ "set" \notin Replying
      BY DEF Replying
    <3> QED
      BY <1>0, <2>3, <3>1 DEF Frame, FrameType
<1> HIDE DEF f
<1>5. TypeOK
  BY DEF TypeInv
<1>6. /\ stack' \in [Client -> Seq(FrameType)] /\ Nested(c)' /\ stack'[c] # <<>>
      /\ \A d \in Client \ {c} : stack'[d] = stack[d]
  BY <1>1, <1>4, <1>5, PushFacts
<1>7. /\ s2c' \in [Client -> Seq(Message)] /\ up' \subseteq Client
      /\ cmdinprogress' \in [Client -> BOOLEAN] /\ cmdsuccess' \in [Client -> BOOLEAN]
      /\ result_key' \in [Client -> Key \union {Null}]
      /\ result' \in [Client -> Value \union {Null, "TRUE", "FALSE"}]
      /\ result_list' \in [Client -> SUBSET ((Key \union {Null}) \X (Value \union {Null, "TRUE", "FALSE"}))]
      /\ version' \in [Client -> {0, PROTOCOL_VERSION}]
      /\ deltas' \in [Client -> Seq(Notice)] /\ told' \in [Client -> Tree]
  BY <1>1, <1>5 DEF TypeOK, resultvars
<1>8. UNCHANGED <<daemonvars, s2c, cmdinprogress, cmdsuccess, result_key, result,
                  result_list, up, version, deltas, told, answer>>
  BY <1>1 DEF resultvars
<1> QED
  BY <1>3, <1>6, <1>7, <1>8, OwnStep

(* The innermost call's frame is replaced by g.                            *)
LEMMA SetTopFacts ==
  ASSUME TypeInv, NEW c \in Client, stack[c] # <<>>, NEW g \in FrameType, SetTop(c, g),
         g.op = Top(c).op, g.op \in Replying => g.rest = <<>>,
         Len(stack[c]) = 1 \/ g.phase = "wait"
  PROVE  /\ stack' \in [Client -> Seq(FrameType)] /\ Nested(c)' /\ stack'[c] # <<>>
         /\ \A d \in Client \ {c} : stack'[d] = stack[d]
         /\ Len(stack[c]) \in Nat \ {0} /\ Len(stack'[c]) = Len(stack[c])
         /\ stack'[c][Len(stack[c])] = g
         /\ \A i \in 1 .. Len(stack[c]) : i # Len(stack[c]) => stack'[c][i] = stack[c][i]
<1>1. stack \in [Client -> Seq(FrameType)] /\ stack[c] \in Seq(FrameType) /\ Nested(c)
  BY OwnFacts DEF TypeInv, TypeOK
<1> DEFINE q == stack[c]
           n == Len(stack[c])
           q2 == [q EXCEPT ![n] = g]
<1>2. n \in Nat /\ n # 0 /\ DOMAIN q = 1 .. n
  BY <1>1
<1>3. q2 \in Seq(FrameType) /\ Len(q2) = n /\ DOMAIN q2 = 1 .. n
  BY <1>1
<1>4. q2[n] = g /\ \A i \in 1 .. n : i # n => q2[i] = q[i]
  BY <1>1, <1>2
<1>5. stack' = [stack EXCEPT ![c] = q2]
  BY DEF SetTop
<1>6. q2 # <<>>
  BY <1>2, <1>3
<1> HIDE DEF q2
<1>7. /\ stack' \in [Client -> Seq(FrameType)] /\ stack'[c] = q2
      /\ \A d \in Client \ {c} : stack'[d] = stack[d]
  BY <1>1, <1>3, <1>5
<1>8. Nested(c)'
  <2>1. n <= 2 /\ (n = 2 => q[1].phase = "callback" /\ q[2].phase = "wait")
        /\ \A i \in 1 .. n : q[i].op \in Replying => q[i].rest = <<>>
    BY <1>1, <1>2 DEF Nested
  <2>2. n = 2 => q2[1].phase = "callback" /\ q2[2].phase = "wait"
    <3>1. n = 1 \/ g.phase = "wait"
      OBVIOUS
    <3> HIDE DEF n
    <3> QED
      BY <1>2, <1>4, <2>1, <3>1
  <2>3. \A i \in 1 .. n : q2[i].op \in Replying => q2[i].rest = <<>>
    BY <1>4, <2>1
  <2> QED
    BY <1>3, <1>7, <2>1, <2>2, <2>3 DEF Nested
<1> QED
  BY <1>2, <1>3, <1>4, <1>6, <1>7, <1>8

(* The innermost call.                                                     *)
LEMMA TopFacts ==
  ASSUME TypeInv, NEW c \in Client, stack[c] # <<>>
  PROVE  /\ Top(c) \in FrameType /\ Len(stack[c]) \in {1, 2}
         /\ Top(c).op \in Replying \union {"set"} /\ Top(c).rest \in Seq(Pair)
         /\ Top(c).op \in Replying => Top(c).rest = <<>>
         /\ Len(stack[c]) = 2 => Top(c).phase = "wait"
         /\ Top(c) = stack[c][Len(stack[c])]
         /\ Len(stack[c]) \in DOMAIN stack[c]
<1> DEFINE n == Len(stack[c])
<1>1. stack[c] \in Seq(FrameType) /\ Nested(c)
  BY OwnFacts
<1>2. n \in Nat /\ n # 0 /\ n <= 2 /\ DOMAIN stack[c] = 1 .. n
  BY <1>1 DEF Nested
<1>3. n \in {1, 2} /\ n \in DOMAIN stack[c]
  <2> HIDE DEF n
  <2> QED
    BY <1>2
<1>4. Top(c) = stack[c][n] /\ Top(c) \in FrameType
  BY <1>1, <1>3 DEF Top
<1>5. Top(c).op \in Replying => Top(c).rest = <<>>
  BY <1>1, <1>3, <1>4 DEF Nested
<1>6. n = 2 => Top(c).phase = "wait"
  BY <1>1, <1>4 DEF Nested
<1>7. Top(c).op \in Replying \union {"set"} /\ Top(c).rest \in Seq(Pair)
  BY <1>4 DEF FrameType
<1> QED
  BY <1>3, <1>4, <1>5, <1>6, <1>7

LEMMA SetNextKeeps ==
  ASSUME TypeInv, NEW c \in Client, set_next(c)
  PROVE  /\ Keeps(c) /\ Top(c).op = "set"
         /\ Len(stack'[c]) = Len(stack[c])
         /\ \A i \in 1 .. Len(stack[c]) : i # Len(stack[c]) => stack'[c][i] = stack[c][i]
         /\ stack'[c][Len(stack[c])].op = "set"
<1> DEFINE p == Head(Top(c).rest)
           r == SetRequest(p[1], p[2])
           g == [Top(c) EXCEPT !.rest = Tail(@)]
<1>1. /\ stack[c] # <<>> /\ Top(c).phase = "wait" /\ Top(c).rest # <<>>
      /\ Write(c, <<r>>) /\ SetTop(c, g)
      /\ UNCHANGED <<daemonvars, s2c, resultvars, up, version, deltas, told, answer>>
  BY DEF set_next
<1>2. /\ Top(c) \in FrameType /\ Top(c).rest \in Seq(Pair)
      /\ Top(c).op \notin Replying /\ Top(c).op = "set"
  BY <1>1, TopFacts
<1>3. p \in Pair /\ Tail(Top(c).rest) \in Seq(Pair)
  BY <1>1, <1>2
<1>4. <<r>> \in Seq(RequestType)
  <2>1. p[1] \in Key /\ p[2] \in Value \union {Null}
    BY <1>3 DEF Pair
  <2> QED
    BY <2>1, SetRequestMade
<1>5. g \in FrameType /\ g.op = Top(c).op /\ g.phase = "wait" /\ g.op \notin Replying
  BY <1>1, <1>2, <1>3 DEF FrameType
<1> HIDE DEF r, g, p
<1>6. /\ c2s' \in [Client -> Seq(RequestType)] /\ nreq' \in [Client -> Nat]
      /\ nreq'[c] <= MaxReq[c] /\ Len(answer[c]) <= nreq'[c]
      /\ c \in attached => Len(answer[c]) + Len(c2s'[c]) = nreq'[c]
      /\ \A d \in Client \ {c} : c2s'[d] = c2s[d] /\ nreq'[d] = nreq[d]
  BY <1>1, <1>4, WriteFacts
<1>7. /\ stack' \in [Client -> Seq(FrameType)] /\ Nested(c)' /\ stack'[c] # <<>>
      /\ \A d \in Client \ {c} : stack'[d] = stack[d]
      /\ Len(stack'[c]) = Len(stack[c])
      /\ \A i \in 1 .. Len(stack[c]) : i # Len(stack[c]) => stack'[c][i] = stack[c][i]
      /\ stack'[c][Len(stack[c])] = g
  BY <1>1, <1>5, SetTopFacts
<1>8. TypeOK
  BY DEF TypeInv
<1>9. /\ s2c' \in [Client -> Seq(Message)] /\ up' \subseteq Client
      /\ cmdinprogress' \in [Client -> BOOLEAN] /\ cmdsuccess' \in [Client -> BOOLEAN]
      /\ result_key' \in [Client -> Key \union {Null}]
      /\ result' \in [Client -> Value \union {Null, "TRUE", "FALSE"}]
      /\ result_list' \in [Client -> SUBSET ((Key \union {Null}) \X (Value \union {Null, "TRUE", "FALSE"}))]
      /\ version' \in [Client -> {0, PROTOCOL_VERSION}]
      /\ deltas' \in [Client -> Seq(Notice)] /\ told' \in [Client -> Tree]
  BY <1>1, <1>8 DEF TypeOK, resultvars
<1>10. UNCHANGED <<daemonvars, s2c, cmdinprogress, cmdsuccess, result_key, result,
                   result_list, up, version, deltas, told, answer>>
  BY <1>1 DEF resultvars
<1>11. Keeps(c)
  BY <1>6, <1>7, <1>9, <1>10, OwnStep
<1> QED
  BY <1>2, <1>5, <1>7, <1>11

(* setv in one go, and quit: nothing is waited for.                        *)
LEMMA SetvKeeps ==
  ASSUME TypeInv, NEW c \in Client, NEW p \in Pair, NEW q \in Pair, setv(c, p, q)
  PROVE  Keeps(c)
<1> DEFINE r == <<Request("setv", p[1], p[2]), Request("setv", q[1], q[2]),
                  Request("setv", Root, Null)>>
<1>1. /\ Write(c, r)
      /\ UNCHANGED <<daemonvars, s2c, resultvars, up, stack, version, deltas, told, answer>>
  BY DEF setv
<1>2. r \in Seq(RequestType)
  <2>1. p[1] \in Key /\ p[2] \in Value \union {Null} /\ q[1] \in Key /\ q[2] \in Value \union {Null}
    BY DEF Pair
  <2>2. /\ Request("setv", p[1], p[2]) \in RequestType
        /\ Request("setv", q[1], q[2]) \in RequestType
        /\ Request("setv", Root, Null) \in RequestType
    BY <2>1, KeyAssumption DEF Request, RequestType
  <2> QED
    BY <2>2
<1> HIDE DEF r
<1>3. /\ c2s' \in [Client -> Seq(RequestType)] /\ nreq' \in [Client -> Nat]
      /\ nreq'[c] <= MaxReq[c] /\ Len(answer[c]) <= nreq'[c]
      /\ c \in attached => Len(answer[c]) + Len(c2s'[c]) = nreq'[c]
      /\ \A d \in Client \ {c} : c2s'[d] = c2s[d] /\ nreq'[d] = nreq[d]
  BY <1>1, <1>2, WriteFacts
<1>4. TypeOK /\ Nested(c) /\ Tidy(c)
  BY OwnFacts
<1>5. UNCHANGED <<daemonvars, s2c, cmdinprogress, cmdsuccess, result_key, result,
                  result_list, up, stack, version, deltas, told, answer>>
  BY <1>1 DEF resultvars
<1>6. /\ s2c' \in [Client -> Seq(Message)] /\ up' \subseteq Client
      /\ stack' \in [Client -> Seq(FrameType)]
      /\ cmdinprogress' \in [Client -> BOOLEAN] /\ cmdsuccess' \in [Client -> BOOLEAN]
      /\ result_key' \in [Client -> Key \union {Null}]
      /\ result' \in [Client -> Value \union {Null, "TRUE", "FALSE"}]
      /\ result_list' \in [Client -> SUBSET ((Key \union {Null}) \X (Value \union {Null, "TRUE", "FALSE"}))]
      /\ version' \in [Client -> {0, PROTOCOL_VERSION}]
      /\ deltas' \in [Client -> Seq(Notice)] /\ told' \in [Client -> Tree]
  BY <1>4, <1>5 DEF TypeOK
<1>7. Nested(c)' /\ (stack'[c] = <<>> => deltas'[c] = <<>>)
  BY <1>4, <1>5 DEF Nested, Tidy
<1> QED
  BY <1>3, <1>5, <1>6, <1>7, OwnStep

LEMMA QuitKeeps ==
  ASSUME TypeInv, NEW c \in Client, quit(c)
  PROVE  Keeps(c)
<1> DEFINE r == <<Request("quit", Root, Null)>>
<1>1. /\ Write(c, r) /\ up' = up \ {c}
      /\ UNCHANGED <<daemonvars, s2c, resultvars, stack, version, deltas, told, answer>>
  BY DEF quit
<1>2. r \in Seq(RequestType)
  BY KeyAssumption DEF Request, RequestType
<1> HIDE DEF r
<1>3. /\ c2s' \in [Client -> Seq(RequestType)] /\ nreq' \in [Client -> Nat]
      /\ nreq'[c] <= MaxReq[c] /\ Len(answer[c]) <= nreq'[c]
      /\ c \in attached => Len(answer[c]) + Len(c2s'[c]) = nreq'[c]
      /\ \A d \in Client \ {c} : c2s'[d] = c2s[d] /\ nreq'[d] = nreq[d]
  BY <1>1, <1>2, WriteFacts
<1>4. TypeOK /\ Nested(c) /\ Tidy(c)
  BY OwnFacts
<1>5. UNCHANGED <<daemonvars, s2c, cmdinprogress, cmdsuccess, result_key, result,
                  result_list, stack, version, deltas, told, answer>>
  BY <1>1 DEF resultvars
<1>6. /\ s2c' \in [Client -> Seq(Message)] /\ up' \subseteq Client
      /\ stack' \in [Client -> Seq(FrameType)]
      /\ cmdinprogress' \in [Client -> BOOLEAN] /\ cmdsuccess' \in [Client -> BOOLEAN]
      /\ result_key' \in [Client -> Key \union {Null}]
      /\ result' \in [Client -> Value \union {Null, "TRUE", "FALSE"}]
      /\ result_list' \in [Client -> SUBSET ((Key \union {Null}) \X (Value \union {Null, "TRUE", "FALSE"}))]
      /\ version' \in [Client -> {0, PROTOCOL_VERSION}]
      /\ deltas' \in [Client -> Seq(Notice)] /\ told' \in [Client -> Tree]
  BY <1>1, <1>4, <1>5 DEF TypeOK
<1>7. Nested(c)' /\ (stack'[c] = <<>> => deltas'[c] = <<>>)
  BY <1>4, <1>5 DEF Nested, Tidy
<1>8. \A d \in Client \ {c} : d \in up' <=> d \in up
  BY <1>1
<1> QED
  BY <1>3, <1>5, <1>6, <1>7, <1>8, OwnStep

(* Nothing is written: c2s, nreq and what was answered stay as they are.   *)
LEMMA NothingWritten ==
  ASSUME TypeInv, NEW c \in Client, UNCHANGED <<c2s, nreq, answer>>
  PROVE  /\ c2s' \in [Client -> Seq(RequestType)] /\ nreq' \in [Client -> Nat]
         /\ nreq'[c] <= MaxReq[c] /\ Len(answer[c]) <= nreq'[c]
         /\ c \in attached => Len(answer[c]) + Len(c2s'[c]) = nreq'[c]
         /\ \A d \in Client \ {c} : c2s'[d] = c2s[d] /\ nreq'[d] = nreq[d]
BY OwnFacts DEF TypeInv, TypeOK

(* The connection is given up.                                             *)
LEMMA LostKeeps ==
  ASSUME TypeInv, NEW c \in Client, timeout(c) \/ eof(c)
  PROVE  Keeps(c) /\ c \notin up'
<1>1. /\ up' = up \ {c}
      /\ UNCHANGED <<daemonvars, c2s, s2c, result_key, result, result_list, stack, version,
                     deltas, told, nreq, answer>>
      /\ \/ Complete(c, FALSE)
         \/ UNCHANGED <<cmdinprogress, cmdsuccess>>
  BY DEF timeout, eof, resultvars
<1>2. TypeOK /\ Nested(c) /\ Tidy(c)
  BY OwnFacts
<1>3. /\ cmdinprogress' \in [Client -> BOOLEAN] /\ cmdsuccess' \in [Client -> BOOLEAN]
      /\ \A d \in Client \ {c} : /\ cmdinprogress'[d] = cmdinprogress[d]
                                 /\ cmdsuccess'[d] = cmdsuccess[d]
  BY <1>1, <1>2 DEF Complete, TypeOK
<1>4. /\ s2c' \in [Client -> Seq(Message)] /\ up' \subseteq Client
      /\ stack' \in [Client -> Seq(FrameType)]
      /\ result_key' \in [Client -> Key \union {Null}]
      /\ result' \in [Client -> Value \union {Null, "TRUE", "FALSE"}]
      /\ result_list' \in [Client -> SUBSET ((Key \union {Null}) \X (Value \union {Null, "TRUE", "FALSE"}))]
      /\ version' \in [Client -> {0, PROTOCOL_VERSION}]
      /\ deltas' \in [Client -> Seq(Notice)] /\ told' \in [Client -> Tree]
  BY <1>1, <1>2 DEF TypeOK
<1>5. Nested(c)' /\ (stack'[c] = <<>> => deltas'[c] = <<>>)
  BY <1>1, <1>2 DEF Nested, Tidy
<1>6. /\ c2s' \in [Client -> Seq(RequestType)] /\ nreq' \in [Client -> Nat]
      /\ nreq'[c] <= MaxReq[c] /\ Len(answer[c]) <= nreq'[c]
      /\ c \in attached => Len(answer[c]) + Len(c2s'[c]) = nreq'[c]
      /\ \A d \in Client \ {c} : c2s'[d] = c2s[d] /\ nreq'[d] = nreq[d]
  BY <1>1, NothingWritten
<1>7. /\ UNCHANGED <<daemonvars, answer>>
      /\ \A d \in Client \ {c} :
           /\ d \in up' <=> d \in up
           /\ s2c'[d] = s2c[d] /\ stack'[d] = stack[d]
           /\ result_key'[d] = result_key[d] /\ result'[d] = result[d]
           /\ result_list'[d] = result_list[d]
           /\ deltas'[d] = deltas[d] /\ told'[d] = told[d]
  BY <1>1
<1>8. Keeps(c)
  BY <1>3, <1>4, <1>5, <1>6, <1>7, OwnStep
<1> QED
  BY <1>1, <1>8

(* A message is read.                                                      *)
LEMMA ReadKeeps ==
  ASSUME TypeInv, NEW c \in Client, conncallback(c)
  PROVE  /\ Keeps(c) /\ s2c[c] # <<>> /\ s2c'[c] = Tail(s2c[c])
         /\ UNCHANGED <<daemonvars, c2s, up, stack, nreq, answer>>
<1> DEFINE m == Head(s2c[c])
<1>1. /\ s2c[c] # <<>> /\ s2c' = [s2c EXCEPT ![c] = Tail(@)]
      /\ UNCHANGED <<daemonvars, c2s, up, stack, nreq, answer>>
  BY DEF conncallback
<1>2. TypeOK /\ Nested(c) /\ Tidy(c) /\ s2c[c] \in Seq(Message)
  BY OwnFacts
<1>3. m \in Message /\ Tail(s2c[c]) \in Seq(Message)
  BY <1>1, <1>2, TailFacts
<1>4. /\ s2c' \in [Client -> Seq(Message)] /\ s2c'[c] = Tail(s2c[c])
      /\ \A d \in Client \ {c} : s2c'[d] = s2c[d]
  BY <1>1, <1>2, <1>3 DEF TypeOK
<1>5. m.key \in Key /\ m.value \in Value \union {Null, "TRUE", "FALSE"}
      /\ (m.type = "NOTICE" => m \in Notice /\ m.value \in Value \union {Null})
  BY <1>3 DEF Message, Notice
<1>6. \/ on_hello(c, m) \/ on_ok(c, m) \/ on_fail(c, m) \/ on_value(c, m)
      \/ on_part(c, m) \/ on_notice(c, m)
  BY DEF conncallback
<1> HIDE DEF m
<1> DEFINE Flags ==
             /\ cmdinprogress' \in [Client -> BOOLEAN] /\ cmdsuccess' \in [Client -> BOOLEAN]
             /\ \A d \in Client \ {c} : /\ cmdinprogress'[d] = cmdinprogress[d]
                                        /\ cmdsuccess'[d] = cmdsuccess[d]
           Fields ==
             /\ result_key' \in [Client -> Key \union {Null}]
             /\ result' \in [Client -> Value \union {Null, "TRUE", "FALSE"}]
             /\ \A d \in Client \ {c} : result_key'[d] = result_key[d] /\ result'[d] = result[d]
           List ==
             /\ result_list' \in [Client -> SUBSET ((Key \union {Null}) \X (Value \union {Null, "TRUE", "FALSE"}))]
             /\ \A d \in Client \ {c} : result_list'[d] = result_list[d]
           Rest ==
             /\ version' \in [Client -> {0, PROTOCOL_VERSION}]
             /\ deltas' \in [Client -> Seq(Notice)] /\ told' \in [Client -> Tree]
             /\ stack[c] = <<>> => deltas'[c] = <<>>
             /\ \A d \in Client \ {c} : deltas'[d] = deltas[d] /\ told'[d] = told[d]
<1>7. Flags
  <2>1. CASE UNCHANGED <<cmdinprogress, cmdsuccess>>
    BY <1>2, <2>1 DEF TypeOK
  <2>2. CASE Complete(c, TRUE) \/ Complete(c, FALSE)
    BY <1>2, <2>2 DEF TypeOK, Complete
  <2> QED
    BY <1>6, <2>1, <2>2 DEF on_hello, on_ok, on_fail, on_value, on_part, on_notice, resultvars
<1>8. Fields
  <2>1. CASE UNCHANGED <<result_key, result>>
    BY <1>2, <2>1 DEF TypeOK
  <2>2. CASE on_fail(c, m)
    BY <1>2, <2>2 DEF TypeOK, on_fail
  <2>3. CASE on_value(c, m)
    BY <1>2, <1>5, <2>3 DEF TypeOK, on_value
  <2> QED
    BY <1>6, <2>1, <2>2, <2>3 DEF on_hello, on_ok, on_part, on_notice, resultvars
<1>9. List
  <2>1. CASE UNCHANGED result_list
    BY <1>2, <2>1 DEF TypeOK
  <2>2. CASE on_part(c, m)
    <3>1. <<m.key, m.value>> \in (Key \union {Null}) \X (Value \union {Null, "TRUE", "FALSE"})
      BY <1>5
    <3>2. result_list' = [result_list EXCEPT ![c] =
                            IF @ = NoList THEN @ ELSE @ \union {<<m.key, m.value>>}]
      BY <2>2 DEF on_part
    <3> DEFINE e == <<m.key, m.value>>
               D == (Key \union {Null}) \X (Value \union {Null, "TRUE", "FALSE"})
    <3> HIDE DEF e, D
    <3>3. result_list \in [Client -> SUBSET D]
      BY <1>2 DEF TypeOK, D
    <3>4. e \in D /\ result_list' = [result_list EXCEPT ![c] = IF @ = NoList THEN @ ELSE @ \union {e}]
      BY <3>1, <3>2 DEF e, D
    <3>5. /\ result_list' \in [Client -> SUBSET D]
          /\ \A d \in Client \ {c} : result_list'[d] = result_list[d]
      BY <3>3, <3>4
    <3> QED
      BY <3>5 DEF D
  <2> QED
    BY <1>6, <2>1, <2>2 DEF on_hello, on_ok, on_fail, on_value, on_notice, resultvars
<1>10. Rest
  <2>1. CASE UNCHANGED <<version, deltas, told>>
    BY <1>2, <2>1 DEF TypeOK, Tidy
  <2>2. CASE on_hello(c, m)
    BY <1>2, <2>2 DEF TypeOK, Tidy, on_hello
  <2>3. CASE on_notice(c, m)
    <3>1. m \in Notice /\ m.key \in Key /\ m.value \in Value \union {Null} /\ UNCHANGED version
      BY <1>5, <2>3 DEF on_notice
    <3>2. CASE stack[c] = <<>>
      <4>1. told' = [told EXCEPT ![c][m.key] = m.value] /\ UNCHANGED deltas
        BY <2>3, <3>2 DEF on_notice
      <4>2. told' \in [Client -> Tree] /\ \A d \in Client \ {c} : told'[d] = told[d]
        BY <1>2, <3>1, <4>1 DEF TypeOK, Tree
      <4> QED
        BY <1>2, <3>1, <4>1, <4>2 DEF TypeOK, Tidy
    <3>3. CASE stack[c] # <<>>
      <4>1. deltas' = [deltas EXCEPT ![c] = Append(@, m)] /\ UNCHANGED told
        BY <2>3, <3>3 DEF on_notice
      <4>2. Append(deltas[c], m) \in Seq(Notice)
        BY <1>2, <3>1 DEF TypeOK
      <4>3. deltas' \in [Client -> Seq(Notice)] /\ \A d \in Client \ {c} : deltas'[d] = deltas[d]
        BY <1>2, <4>1, <4>2 DEF TypeOK
      <4> QED
        BY <1>2, <3>1, <3>3, <4>1, <4>3 DEF TypeOK
    <3> QED
      BY <3>2, <3>3
  <2> QED
    BY <1>6, <2>1, <2>2, <2>3 DEF on_ok, on_fail, on_value, on_part
<1>11. /\ stack' \in [Client -> Seq(FrameType)] /\ up' \subseteq Client
       /\ Nested(c)' /\ (stack'[c] = <<>> => deltas'[c] = <<>>)
  BY <1>1, <1>2, <1>10 DEF TypeOK, Nested
<1>12. /\ c2s' \in [Client -> Seq(RequestType)] /\ nreq' \in [Client -> Nat]
       /\ nreq'[c] <= MaxReq[c] /\ Len(answer[c]) <= nreq'[c]
       /\ c \in attached => Len(answer[c]) + Len(c2s'[c]) = nreq'[c]
       /\ \A d \in Client \ {c} : c2s'[d] = c2s[d] /\ nreq'[d] = nreq[d]
  BY <1>1, NothingWritten
<1>13. /\ UNCHANGED <<daemonvars, answer>>
       /\ \A d \in Client \ {c} : /\ d \in up' <=> d \in up
                                  /\ stack'[d] = stack[d]
  BY <1>1
<1>14. Keeps(c)
  BY <1>4, <1>7, <1>8, <1>9, <1>10, <1>11, <1>12, <1>13, OwnStep
<1> QED
  BY <1>1, <1>4, <1>14

(* The first delta is dispatched.                                          *)
LEMMA FlushKeeps ==
  ASSUME TypeInv, NEW c \in Client, flush_delta(c)
  PROVE  /\ Keeps(c) /\ Len(stack[c]) = 1 /\ Len(stack'[c]) = 1 /\ stack'[c] # <<>>
         /\ stack'[c][1] = [Top(c) EXCEPT !.phase = "callback"] /\ Top(c) = stack[c][1]
         /\ Top(c) \in FrameType
<1> DEFINE g == [Top(c) EXCEPT !.phase = "callback"]
           d1 == Head(deltas[c])
<1>1. /\ stack[c] # <<>> /\ Len(stack[c]) = 1 /\ deltas[c] # <<>> /\ SetTop(c, g)
      /\ told' = [told EXCEPT ![c][d1.key] = d1.value]
      /\ deltas' = [deltas EXCEPT ![c] = Tail(@)]
      /\ UNCHANGED <<daemonvars, c2s, s2c, resultvars, up, version, nreq, answer>>
  BY DEF flush_delta, Unholding
<1>2. TypeOK /\ Nested(c) /\ Tidy(c) /\ deltas[c] \in Seq(Notice)
  BY OwnFacts
<1>3. d1 \in Notice /\ Tail(deltas[c]) \in Seq(Notice)
  BY <1>1, <1>2, TailFacts
<1>4. d1.key \in Key /\ d1.value \in Value \union {Null}
  BY <1>3 DEF Notice
<1> HIDE DEF d1
<1>5. /\ told' \in [Client -> Tree] /\ deltas' \in [Client -> Seq(Notice)]
      /\ \A d \in Client \ {c} : told'[d] = told[d] /\ deltas'[d] = deltas[d]
  <2>1. told' \in [Client -> Tree] /\ \A d \in Client \ {c} : told'[d] = told[d]
    BY <1>1, <1>2, <1>4 DEF TypeOK, Tree
  <2>2. deltas' \in [Client -> Seq(Notice)] /\ \A d \in Client \ {c} : deltas'[d] = deltas[d]
    BY <1>1, <1>2, <1>3 DEF TypeOK
  <2> QED
    BY <2>1, <2>2
<1>6. Top(c) \in FrameType /\ (Top(c).op \in Replying => Top(c).rest = <<>>)
      /\ Top(c) = stack[c][1]
  BY <1>1, TopFacts
<1>7. g \in FrameType /\ g.op = Top(c).op /\ g.rest = Top(c).rest
  <2>1. g \in FrameType /\ g.op = Top(c).op /\ g.rest = Top(c).rest
    BY <1>6 DEF FrameType
  <2> QED
    BY <2>1
<1> HIDE DEF g
<1>8. /\ stack' \in [Client -> Seq(FrameType)] /\ Nested(c)' /\ stack'[c] # <<>>
      /\ \A d \in Client \ {c} : stack'[d] = stack[d]
      /\ Len(stack'[c]) = Len(stack[c])
      /\ stack'[c][Len(stack[c])] = g
  BY <1>1, <1>6, <1>7, SetTopFacts
<1>9. /\ s2c' \in [Client -> Seq(Message)] /\ up' \subseteq Client
      /\ cmdinprogress' \in [Client -> BOOLEAN] /\ cmdsuccess' \in [Client -> BOOLEAN]
      /\ result_key' \in [Client -> Key \union {Null}]
      /\ result' \in [Client -> Value \union {Null, "TRUE", "FALSE"}]
      /\ result_list' \in [Client -> SUBSET ((Key \union {Null}) \X (Value \union {Null, "TRUE", "FALSE"}))]
      /\ version' \in [Client -> {0, PROTOCOL_VERSION}]
  BY <1>1, <1>2 DEF TypeOK, resultvars
<1>10. /\ c2s' \in [Client -> Seq(RequestType)] /\ nreq' \in [Client -> Nat]
       /\ nreq'[c] <= MaxReq[c] /\ Len(answer[c]) <= nreq'[c]
       /\ c \in attached => Len(answer[c]) + Len(c2s'[c]) = nreq'[c]
       /\ \A d \in Client \ {c} : c2s'[d] = c2s[d] /\ nreq'[d] = nreq[d]
  BY <1>1, NothingWritten
<1>11. UNCHANGED <<daemonvars, s2c, cmdinprogress, cmdsuccess, result_key, result,
                   result_list, up, version, answer>>
  BY <1>1 DEF resultvars
<1>12. Keeps(c)
  BY <1>5, <1>8, <1>9, <1>10, <1>11, OwnStep
<1> QED
  BY <1>1, <1>6, <1>8, <1>12 DEF g

(* A call returns.                                                         *)
LEMMA ReturnKeeps ==
  ASSUME TypeInv, NEW c \in Client, return(c)
  PROVE  /\ Keeps(c)
         /\ \/ Len(stack[c]) = 1 /\ stack'[c] = <<>>
            \/ /\ Len(stack[c]) = 2 /\ Len(stack'[c]) = 1 /\ stack'[c] # <<>>
               /\ stack'[c][1] = stack[c][1] /\ stack[c][1].phase = "callback"
<1> DEFINE q == stack[c]
           n == Len(stack[c])
           q2 == SubSeq(q, 1, n - 1)
<1>1. /\ q # <<>> /\ (n > 1 \/ deltas[c] = <<>>)
      /\ stack' = [stack EXCEPT ![c] = q2]
      /\ result_list' = [result_list EXCEPT ![c] = IF Top(c).op = "subt" THEN NoList ELSE @]
      /\ UNCHANGED <<daemonvars, c2s, s2c, cmdinprogress, cmdsuccess, result_key, result,
                     up, version, deltas, told, nreq, answer>>
  BY DEF return, Unholding
<1>2. TypeOK /\ Nested(c) /\ Tidy(c) /\ q \in Seq(FrameType)
  BY OwnFacts
<1>3. n \in {1, 2}
  BY <1>1, TopFacts
<1>4. /\ q2 \in Seq(FrameType) /\ Len(q2) = n - 1 /\ DOMAIN q2 = 1 .. n - 1
      /\ \A i \in 1 .. n - 1 : q2[i] = q[i]
  <2>1. n - 1 \in 0 .. n
    <3> HIDE DEF n
    <3> QED
      BY <1>3
  <2>2. q \in Seq(FrameType) /\ n = Len(q)
    BY <1>2
  <2>3. /\ q2 \in Seq(FrameType) /\ Len(q2) = n - 1
        /\ \A i \in 1 .. n - 1 : q2[i] = q[i]
    <3>1. PICK m \in 0 .. Len(q) : m = n - 1
      BY <2>1
    <3> HIDE DEF n, q
    <3>2. /\ SubSeq(q, 1, m) \in Seq(FrameType) /\ Len(SubSeq(q, 1, m)) = m
          /\ \A i \in 1 .. m : SubSeq(q, 1, m)[i] = q[i]
      BY <2>2, SubSeqFacts
    <3> QED
      BY <3>1, <3>2
  <2>4. DOMAIN q2 = 1 .. Len(q2)
    <3> HIDE DEF q2, n, q
    <3> QED
      BY <2>3
  <2> QED
    BY <2>3, <2>4
<1>5. n = 1 => q2 = <<>>
  <2> HIDE DEF q2, n, q
  <2> QED
    BY <1>4
<1>6. n = 2 => Len(q2) = 1 /\ q2[1] = q[1] /\ q2 # <<>> /\ DOMAIN q2 = {1}
  <2>1. n = 2 => n - 1 = 1 /\ 1 .. n - 1 = {1}
    OBVIOUS
  <2>2. n = 2 => Len(q2) = 1 /\ q2[1] = q[1] /\ DOMAIN q2 = {1}
    <3> HIDE DEF n, q2
    <3> QED
      BY <1>4, <2>1
  <2>3. n = 2 => q2 # <<>>
    BY <2>2
  <2> QED
    BY <2>2, <2>3
<1> HIDE DEF q2
<1>7. /\ stack' \in [Client -> Seq(FrameType)] /\ stack'[c] = q2
      /\ \A d \in Client \ {c} : stack'[d] = stack[d]
  BY <1>1, <1>2, <1>4 DEF TypeOK
<1>8. Nested(c)'
  <2>1. n = 1 => Nested(c)'
    BY <1>5, <1>7 DEF Nested
  <2>2. n = 2 => Nested(c)'
    <3>1. q[1].op \in Replying => q[1].rest = <<>>
      <4>1. 1 \in DOMAIN q
        BY <1>1, <1>2
      <4> QED
        BY <1>2, <4>1 DEF Nested
    <3> HIDE DEF n
    <3>2. SUFFICES ASSUME n = 2 PROVE Nested(c)'
      OBVIOUS
    <3>3. Len(stack'[c]) = 1 /\ DOMAIN stack'[c] = {1} /\ stack'[c][1] = q[1]
      BY <1>6, <1>7, <3>2
    <3>4. Len(stack'[c]) <= 2 /\ Len(stack'[c]) # 2
      BY <3>3
    <3>5. \A i \in DOMAIN stack'[c] : stack'[c][i].op \in Replying => stack'[c][i].rest = <<>>
      BY <3>1, <3>3
    <3> QED
      BY <3>4, <3>5 DEF Nested
  <2> HIDE DEF n
  <2> QED
    BY <1>3, <2>1, <2>2
<1>9. stack'[c] = <<>> => deltas'[c] = <<>>
  <2>1. (n > 1 \/ deltas[c] = <<>>) /\ UNCHANGED deltas
    BY <1>1
  <2> HIDE DEF n
  <2>2. n = 1 \/ n = 2
    BY <1>3
  <2>3. n = 1 => ~(n > 1)
    OBVIOUS
  <2> QED
    BY <1>6, <1>7, <2>1, <2>2, <2>3
<1>10. /\ result_list' \in [Client -> SUBSET ((Key \union {Null}) \X (Value \union {Null, "TRUE", "FALSE"}))]
       /\ \A d \in Client \ {c} : result_list'[d] = result_list[d]
  <2> DEFINE D == (Key \union {Null}) \X (Value \union {Null, "TRUE", "FALSE"})
  <2>1. NoList \in SUBSET D
    BY DEF NoList
  <2>2. result_list \in [Client -> SUBSET D]
    BY <1>2 DEF TypeOK
  <2> HIDE DEF D
  <2>3. /\ result_list' \in [Client -> SUBSET D]
        /\ \A d \in Client \ {c} : result_list'[d] = result_list[d]
    BY <1>1, <2>1, <2>2
  <2> QED
    BY <2>3 DEF D
<1>11. /\ s2c' \in [Client -> Seq(Message)] /\ up' \subseteq Client
       /\ cmdinprogress' \in [Client -> BOOLEAN] /\ cmdsuccess' \in [Client -> BOOLEAN]
       /\ result_key' \in [Client -> Key \union {Null}]
       /\ result' \in [Client -> Value \union {Null, "TRUE", "FALSE"}]
       /\ version' \in [Client -> {0, PROTOCOL_VERSION}]
       /\ deltas' \in [Client -> Seq(Notice)] /\ told' \in [Client -> Tree]
  BY <1>1, <1>2 DEF TypeOK
<1>12. /\ c2s' \in [Client -> Seq(RequestType)] /\ nreq' \in [Client -> Nat]
       /\ nreq'[c] <= MaxReq[c] /\ Len(answer[c]) <= nreq'[c]
       /\ c \in attached => Len(answer[c]) + Len(c2s'[c]) = nreq'[c]
       /\ \A d \in Client \ {c} : c2s'[d] = c2s[d] /\ nreq'[d] = nreq[d]
  BY <1>1, NothingWritten
<1>13. UNCHANGED <<daemonvars, s2c, cmdinprogress, cmdsuccess, result_key, result,
                   up, version, deltas, told, answer>>
  BY <1>1
<1>14. Keeps(c)
  BY <1>7, <1>8, <1>9, <1>10, <1>11, <1>12, <1>13, OwnStep
<1>15. n = 2 => q[1].phase = "callback"
  BY <1>2 DEF Nested
<1> QED
  BY <1>3, <1>5, <1>6, <1>7, <1>14, <1>15

(* Every step of a client other than a call.                               *)
LEMMA ClientKeeps ==
  ASSUME TypeInv, NEW c \in Client, ClientStep(c) \/ timeout(c)
  PROVE  Keeps(c)
BY ReadKeeps, FlushKeeps, ReturnKeeps, SetNextKeeps, LostKeeps DEF ClientStep

(* The calls of a client: one that waits for a reply, one that sets one    *)
(* pair or two, a SETV, and quit.                                          *)
LEMMA CallCases ==
  ASSUME TypeInv, NEW c \in Client, CallStep(c)
  PROVE  \/ \E op \in Replying, k \in Key : Calls(c, op, k)
         \/ \E op \in {"set", "setv"} : \E p : Sets(c, op, p)
         \/ \E p, q \in Pair : setv(c, p, q)
         \/ quit(c)
<1>1. CASE \E k \in Key : request(c, "get", k) \/ request(c, "hchild", k) \/ iterator(c, k)
  <2>1. PICK k \in Key : request(c, "get", k) \/ request(c, "hchild", k) \/ iterator(c, k)
    BY <1>1
  <2>2. Calls(c, "get", k) \/ Calls(c, "hchild", k) \/ Calls(c, "subt", k)
    BY <2>1, RequestCalls
  <2>3. "get" \in Replying /\ "hchild" \in Replying /\ "subt" \in Replying
    BY DEF Replying
  <2> QED
    BY <2>2, <2>3
<1>2. CASE request(c, "commit", Root)
  <2>1. Root \in Key /\ "commit" \in Replying
    BY KeyAssumption DEF Replying
  <2>2. Calls(c, "commit", Root)
    BY <1>2, <2>1, RequestCalls
  <2> QED
    BY <2>1, <2>2
<1>3. CASE \E k \in Key, v \in Value \union {Null} : set(c, "set", <<<<k, v>>>>)
  <2>1. PICK k \in Key, v \in Value \union {Null} : set(c, "set", <<<<k, v>>>>)
    BY <1>3
  <2> DEFINE p == <<<<k, v>>>>
  <2>2. <<k, v>> \in Pair
    BY DEF Pair
  <2>3. p \in Seq(Pair) /\ p # <<>>
    BY <2>2
  <2>4. Sets(c, "set", p)
    BY <2>1, <2>3 DEF Sets
  <2> QED
    BY <2>4
<1>4. CASE \E k, l \in Key, v, w \in Value :
             \/ set(c, "setv", <<<<k, v>>, <<l, w>>>>)
             \/ setv(c, <<k, v>>, <<l, w>>)
  <2>1. PICK k, l \in Key, v, w \in Value :
             \/ set(c, "setv", <<<<k, v>>, <<l, w>>>>)
             \/ setv(c, <<k, v>>, <<l, w>>)
    BY <1>4
  <2> DEFINE a == <<k, v>>
             b == <<l, w>>
             p == <<a, b>>
  <2>2. a \in Pair /\ b \in Pair
    BY DEF Pair
  <2>3. set(c, "setv", p) \/ setv(c, a, b)
    BY <2>1
  <2> HIDE DEF a, b
  <2>4. p \in Seq(Pair) /\ p # <<>>
    BY <2>2
  <2> HIDE DEF p
  <2>5. Sets(c, "setv", p) \/ setv(c, a, b)
    BY <2>3, <2>4 DEF Sets
  <2> QED
    BY <2>2, <2>5
<1> QED
  BY <1>1, <1>2, <1>3, <1>4 DEF CallStep

(* Every step of the system is one client's, or is taken for one.          *)
LEMMA StepKeeps ==
  ASSUME TypeInv, Next
  PROVE  \E c \in Client :
           /\ Keeps(c)
           /\ DaemonStep(c) \/ CallStep(c) \/ ClientStep(c) \/ timeout(c) \/ detach(c)
<1>1. PICK c \in Client :
        DaemonStep(c) \/ CallStep(c) \/ ClientStep(c) \/ timeout(c) \/ detach(c)
  BY DEF Next
<1>2. CASE DaemonStep(c) \/ detach(c)
  BY <1>2, ServingKeeps
<1>3. CASE CallStep(c)
  BY <1>3, CallCases, CallKeeps, SetKeeps, SetvKeeps, QuitKeeps
<1>4. CASE ClientStep(c) \/ timeout(c)
  BY <1>4, ClientKeeps
<1> QED
  BY <1>1, <1>2, <1>3, <1>4

LEMMA StutterKeeps ==
  ASSUME TypeInv, UNCHANGED vars
  PROVE  TypeInv'
<1>1. TypeOK'
  BY DEF TypeInv, TypeOK, Nested, vars, daemonvars, resultvars, clientvars
<1>2. ASSUME NEW c \in Client PROVE Tidy(c)'
  BY <1>2 DEF TypeInv, Tidy, vars, daemonvars, resultvars, clientvars
<1> QED
  BY <1>1, <1>2 DEF TypeInv

LEMMA InitTypes == Init => TypeInv
<1> SUFFICES ASSUME Init PROVE TypeInv
  OBVIOUS
<1>1. InitTree \in Tree /\ MaxReq \in [Client -> Nat] /\ Root \in Key
  BY ProtocolAssumption, KeyAssumption
<1>2. Msg("HELLO", Root, Null) \in Message
  BY <1>1, MsgType
<1>3. /\ tree \in Tree /\ attached \subseteq Client /\ up \subseteq Client
      /\ task \in [Client -> TaskType]
      /\ c2s \in [Client -> Seq(RequestType)]
      /\ stack \in [Client -> Seq(FrameType)]
      /\ cmdinprogress \in [Client -> BOOLEAN] /\ cmdsuccess \in [Client -> BOOLEAN]
      /\ result_key \in [Client -> Key \union {Null}]
      /\ result \in [Client -> Value \union {Null, "TRUE", "FALSE"}]
      /\ version \in [Client -> {0, PROTOCOL_VERSION}]
      /\ deltas \in [Client -> Seq(Notice)]
      /\ told \in [Client -> Tree]
      /\ nreq \in [Client -> Nat]
      /\ DOMAIN answer = Client
  BY <1>1 DEF Init, TaskType
<1>4. s2c \in [Client -> Seq(Message)]
  BY <1>2 DEF Init
<1>5. result_list \in [Client -> SUBSET ((Key \union {Null}) \X (Value \union {Null, "TRUE", "FALSE"}))]
  BY DEF Init, NoList
<1>6. ASSUME NEW c \in Client
      PROVE  nreq[c] <= MaxReq[c] /\ Len(answer[c]) <= nreq[c] /\ Nested(c) /\ Tidy(c)
  <2>1. nreq[c] = 0 /\ answer[c] = <<>> /\ stack[c] = <<>> /\ deltas[c] = <<>> /\ c2s[c] = <<>>
    BY <1>6 DEF Init
  <2>2. nreq[c] <= MaxReq[c] /\ Len(answer[c]) <= nreq[c]
    BY <1>1, <2>1
  <2>3. Nested(c)
    BY <2>1 DEF Nested
  <2>4. IsSeq(answer[c])
    BY <2>1 DEF IsSeq
  <2>5. Tidy(c)
    BY <2>1, <2>4 DEF Tidy
  <2> QED
    BY <2>2, <2>3, <2>5
<1>7. TypeOK
  BY <1>3, <1>4, <1>5, <1>6 DEF TypeOK
<1> QED
  BY <1>6, <1>7 DEF TypeInv

LEMMA Types == Spec => []TypeInv
<1>1. TypeInv /\ [Next]_vars => TypeInv'
  <2>1. ASSUME TypeInv, Next PROVE TypeInv'
    BY <2>1, StepKeeps DEF Keeps
  <2> QED
    BY <2>1, StutterKeeps
<1> QED
  BY <1>1, InitTypes, PTL DEF Spec

(* Type correctness: whatever the clients, the daemon and the connections  *)
(* between them do, every variable keeps its type; in particular no more   *)
(* requests are answered than were issued, and calls nest two deep at most *)
(* (UniClientGen, UniConfDaemonConn).                                      *)
THEOREM ProtocolTypes == Spec => []TypeOK
<1>1. TypeInv => TypeOK
  BY DEF TypeInv
<1> QED
  BY <1>1, Types, PTL

----------------------------------------------------------------------------
(* What a client knows.  Reading the messages q, one who took d for the    *)
(* value of k comes to take it for v.                                      *)
About(q, k) == {i \in DOMAIN q : q[i].type = "NOTICE" /\ q[i].key = k}

LastSays(q, k, v) ==
  \E i \in About(q, k) : \A j \in About(q, k) : i <= j => q[j].value = v

Leads(q, k, d, v) ==
  \/ About(q, k) = {} /\ d = v
  \/ LastSays(q, k, v)

LEMMA LeadsNowhere ==
  ASSUME NEW q, \A i \in DOMAIN q : q[i].type # "NOTICE", NEW k, NEW d, NEW v
  PROVE  Leads(q, k, d, v) <=> d = v
<1>1. About(q, k) = {}
  BY DEF About
<1> QED
  BY <1>1 DEF Leads, LastSays

(* One message is read, by one who then knows e.                           *)
LEMMA LeadsTail ==
  ASSUME NEW D, NEW q \in Seq(D), q # <<>>, NEW k, NEW d, NEW v, Leads(q, k, d, v), NEW e,
         IF Head(q).type = "NOTICE" /\ Head(q).key = k THEN e = Head(q).value ELSE e = d
  PROVE  Leads(Tail(q), k, e, v)
<1> DEFINE r == Tail(q)
           n == Len(q)
<1>1. /\ Head(q) = q[1] /\ n \in Nat \ {0} /\ DOMAIN q = 1 .. n /\ DOMAIN r = 1 .. n - 1
      /\ \A i \in 1 .. n - 1 : r[i] = q[i + 1]
  BY TailFacts
<1> HIDE DEF r, n
<1>2. ASSUME NEW i \in About(r, k) PROVE i \in 1 .. n - 1 /\ i + 1 \in About(q, k) /\ r[i] = q[i + 1]
  BY <1>1, <1>2 DEF About
<1>3. ASSUME NEW j \in About(q, k), j # 1
      PROVE  j - 1 \in About(r, k) /\ r[j - 1] = q[j]
  <2>1. j \in 1 .. n /\ q[j].type = "NOTICE" /\ q[j].key = k
    BY <1>1, <1>3 DEF About
  <2>2. j - 1 \in 1 .. n - 1 /\ (j - 1) + 1 = j
    BY <1>1, <1>3, <2>1
  <2>3. r[j - 1] = q[j]
    BY <1>1, <2>2
  <2> QED
    BY <1>1, <2>1, <2>2, <2>3 DEF About
<1>4. 1 \in About(q, k) <=> Head(q).type = "NOTICE" /\ Head(q).key = k
  BY <1>1 DEF About
<1>5. CASE LastSays(q, k, v)
  <2>1. PICK i \in About(q, k) : \A j \in About(q, k) : i <= j => q[j].value = v
    BY <1>5 DEF LastSays
  <2>2. i \in 1 .. n /\ About(q, k) \subseteq 1 .. n
    BY <1>1, <2>1 DEF About
  <2>3. CASE i # 1
    <3>1. i - 1 \in About(r, k)
      BY <1>3, <2>1, <2>3
    <3>2. ASSUME NEW j \in About(r, k), i - 1 <= j PROVE r[j].value = v
      <4>1. j \in 1 .. n - 1 /\ j + 1 \in About(q, k) /\ r[j] = q[j + 1]
        BY <1>2, <3>2
      <4>2. i <= j + 1
        BY <2>2, <3>2, <4>1
      <4> QED
        BY <2>1, <4>1, <4>2
    <3>3. LastSays(r, k, v)
      BY <3>1, <3>2 DEF LastSays
    <3> QED
      BY <3>3 DEF Leads, r
  <2>4. CASE i = 1
    <3>1. ASSUME NEW j \in About(q, k) PROVE q[j].value = v
      BY <2>1, <2>2, <2>4, <3>1
    <3>2. e = v
      BY <1>1, <1>4, <2>1, <2>4, <3>1
    <3>3. ASSUME NEW i0 \in About(r, k) PROVE LastSays(r, k, v)
      <4>1. \A j \in About(r, k) : r[j].value = v
        BY <1>2, <3>1
      <4> QED
        BY <3>3, <4>1 DEF LastSays
    <3> QED
      BY <3>2, <3>3 DEF Leads, r
  <2> QED
    BY <2>3, <2>4
<1>6. CASE About(q, k) = {} /\ d = v
  <2>1. About(r, k) = {}
    BY <1>2, <1>6
  <2>2. e = v
    BY <1>4, <1>6
  <2> QED
    BY <2>1, <2>2 DEF Leads, r
<1> QED
  BY <1>5, <1>6 DEF Leads

(* Messages are read one after the other.                                  *)
LEMMA LeadsOn ==
  ASSUME NEW D, NEW q \in Seq(D), NEW r \in Seq(D), NEW k, NEW d, NEW v, NEW w,
         Leads(q, k, d, v), Leads(r, k, v, w)
  PROVE  Leads(q \o r, k, d, w)
<1> DEFINE p == q \o r
           m == Len(q)
           n == Len(r)
<1>1. /\ m \in Nat /\ n \in Nat /\ DOMAIN q = 1 .. m /\ DOMAIN r = 1 .. n
      /\ DOMAIN p = 1 .. m + n
      /\ \A i \in 1 .. m : p[i] = q[i]
      /\ \A i \in 1 .. n : p[m + i] = r[i]
  <2>1. \A i \in 1 .. n : p[m + i] = r[i]
    OBVIOUS
  <2> QED
    BY <2>1
<1> HIDE DEF p, m, n
<1>2. ASSUME NEW i \in About(q, k) PROVE i \in 1 .. m /\ i \in About(p, k) /\ p[i] = q[i]
  BY <1>1, <1>2 DEF About
<1>3. ASSUME NEW i \in About(r, k)
      PROVE  i \in 1 .. n /\ m + i \in About(p, k) /\ p[m + i] = r[i]
  <2>1. i \in 1 .. n /\ r[i].type = "NOTICE" /\ r[i].key = k
    BY <1>1, <1>3 DEF About
  <2>2. m + i \in 1 .. m + n /\ p[m + i] = r[i]
    BY <1>1, <2>1
  <2> QED
    BY <1>1, <2>1, <2>2 DEF About
<1>4. ASSUME NEW j \in About(p, k)
      PROVE  \/ j \in 1 .. m /\ j \in About(q, k)
             \/ j \in 1 .. m + n /\ j - m \in 1 .. n /\ j - m \in About(r, k) /\ p[j] = r[j - m]
  <2>1. j \in 1 .. m + n /\ p[j].type = "NOTICE" /\ p[j].key = k
    BY <1>1, <1>4 DEF About
  <2>2. CASE j <= m
    <3>1. j \in 1 .. m
      BY <1>1, <2>1, <2>2
    <3> QED
      BY <1>1, <2>1, <3>1 DEF About
  <2>3. CASE ~(j <= m)
    <3>1. j - m \in 1 .. n /\ m + (j - m) = j
      BY <1>1, <2>1, <2>3
    <3>2. p[j] = r[j - m]
      BY <1>1, <3>1
    <3> QED
      BY <1>1, <2>1, <3>1, <3>2 DEF About
  <2> QED
    BY <2>2, <2>3
<1>5. CASE LastSays(r, k, w)
  <2>1. PICK i \in About(r, k) : \A j \in About(r, k) : i <= j => r[j].value = w
    BY <1>5 DEF LastSays
  <2>2. m + i \in About(p, k) /\ i \in 1 .. n
    BY <1>3, <2>1
  <2>3. ASSUME NEW j \in About(p, k), m + i <= j PROVE p[j].value = w
    <3>1. ~(j \in 1 .. m)
      BY <1>1, <2>2, <2>3
    <3>2. j \in 1 .. m + n /\ j - m \in 1 .. n /\ j - m \in About(r, k) /\ p[j] = r[j - m]
      BY <1>4, <2>3, <3>1
    <3>3. i <= j - m
      BY <1>1, <2>2, <2>3, <3>2
    <3> QED
      BY <2>1, <3>2, <3>3
  <2>4. LastSays(p, k, w)
    BY <2>2, <2>3 DEF LastSays
  <2> QED
    BY <2>4 DEF Leads, p
<1>6. CASE About(r, k) = {} /\ v = w
  <2>1. \A j \in About(p, k) : j \in 1 .. m /\ j \in About(q, k) /\ p[j] = q[j]
    BY <1>2, <1>4, <1>6
  <2>2. CASE LastSays(q, k, v)
    <3>1. PICK i \in About(q, k) : \A j \in About(q, k) : i <= j => q[j].value = v
      BY <2>2 DEF LastSays
    <3>2. i \in About(p, k) /\ \A j \in About(p, k) : i <= j => p[j].value = w
      BY <1>2, <1>6, <2>1, <3>1
    <3>3. LastSays(p, k, w)
      BY <3>2 DEF LastSays
    <3> QED
      BY <3>3 DEF Leads, p
  <2>3. CASE About(q, k) = {} /\ d = v
    <3>1. About(p, k) = {} /\ d = w
      BY <1>6, <2>1, <2>3
    <3> QED
      BY <3>1 DEF Leads, p
  <2> QED
    BY <2>2, <2>3 DEF Leads
<1> QED
  BY <1>5, <1>6 DEF Leads

(* The notices of a change lead from the tree before it to the one after.  *)
LEMMA NoticesLead ==
  ASSUME NEW t \in Tree, NEW u \in Tree, NEW s \in Announced(t, u), NEW k \in Key
  PROVE  Leads(Notices(s, u), k, t[k], u[k])
<1> DEFINE N == Notices(s, u)
<1>1. s \in Seq(Key) /\ (t[k] # u[k] <=> \E i \in DOMAIN s : s[i] = k)
  BY ListingFacts
<1>2. DOMAIN N = DOMAIN s /\ \A i \in DOMAIN s : /\ N[i].type = "NOTICE" /\ N[i].key = s[i]
                                                 /\ N[i].value = u[s[i]]
  BY <1>1, NoticesType
<1> HIDE DEF N
<1>3. About(N, k) = {i \in DOMAIN s : s[i] = k} /\ \A i \in About(N, k) : N[i].value = u[k]
  BY <1>2 DEF About
<1>4. CASE t[k] = u[k]
  <2>1. CASE About(N, k) = {}
    BY <1>4, <2>1 DEF Leads, N
  <2>2. CASE About(N, k) # {}
    BY <1>1, <1>3, <1>4, <2>2
  <2> QED
    BY <2>1, <2>2
<1>5. CASE t[k] # u[k]
  <2>1. PICK i \in About(N, k) : TRUE
    BY <1>1, <1>3, <1>5
  <2>2. LastSays(N, k, u[k])
    BY <1>3, <2>1 DEF LastSays
  <2> QED
    BY <2>2 DEF Leads, N
<1> QED
  BY <1>4, <1>5

(* What c will have been told once it has dispatched what it holds back    *)
(* and read what is on its way is what the daemon has.                     *)
Knows(c) ==
  \A k \in Key : \E d : /\ Leads(deltas[c], k, told[c][k], d)
                        /\ Leads(s2c[c], k, d, tree[k])

ToldInv == \A c \in up \intersect attached : Knows(c)

LEMMA KnowsConverges == TypeInv /\ ToldInv => ToldConverges
<1> SUFFICES ASSUME TypeInv, ToldInv, NEW c \in up \intersect attached, deltas[c] = <<>>,
                    \A i \in DOMAIN s2c[c] : s2c[c][i].type # "NOTICE"
             PROVE  told[c] = tree
  BY DEF ToldConverges
<1>1. c \in Client /\ told[c] \in Tree /\ tree \in Tree
  BY DEF TypeInv, TypeOK
<1>2. ASSUME NEW k \in Key PROVE told[c][k] = tree[k]
  <2>1. PICK d : Leads(deltas[c], k, told[c][k], d) /\ Leads(s2c[c], k, d, tree[k])
    BY DEF ToldInv, Knows
  <2>2. told[c][k] = d
    BY <2>1, LeadsNowhere
  <2>3. d = tree[k]
    BY <2>1, LeadsNowhere
  <2> QED
    BY <2>2, <2>3
<1> QED
  BY <1>1, <1>2 DEF Tree

(* The daemon's steps: notices of a change go to every client online; what *)
(* else is sent is no notice.                                              *)
Tells(c) ==
  /\ \/ \E m \in Message : m.type # "NOTICE" /\ Replies(c, m)
     \/ Announces(Online)
     \/ Announces(Online \ {c}) /\ c \notin attached'
     \/ UNCHANGED <<tree, s2c>>
  /\ attached' \subseteq attached
  /\ UNCHANGED clientvars

LEMMA DaemonTells ==
  ASSUME TypeInv, NEW c \in Client, DaemonStep(c) \/ detach(c)
  PROVE  Tells(c)
<1>0. TypeOK
  BY DEF TypeInv
<1>1. CASE \E op \in Replying, m \in Message : \E a : Answers(c, op, m, a)
  <2>1. PICK op \in Replying, m \in Message : \E a : Answers(c, op, m, a)
    BY <1>1
  <2>2. /\ m.type \in Completion /\ Replies(c, m) /\ UNCHANGED <<attached, clientvars>>
    BY <2>1 DEF Answers, Reading
  <2> QED
    BY <2>2 DEF Tells, Completion
<1>2. CASE \E L \in SUBSET Pair : \E e \in L : Lists(c, L, e)
  <2>1. PICK L \in SUBSET Pair : \E e \in L : Lists(c, L, e)
    BY <1>2
  <2>2. PICK e \in L : Lists(c, L, e)
    BY <2>1
  <2>3. Replies(c, Msg("VAL", e[1], e[2])) /\ UNCHANGED <<attached, clientvars>>
    BY <2>2 DEF Lists, Reading
  <2>4. Msg("VAL", e[1], e[2]) \in Message /\ Msg("VAL", e[1], e[2]).type = "VAL"
    BY <2>1, <2>2, ValType
  <2> QED
    BY <2>3, <2>4 DEF Tells
<1>3. CASE ListsOn(c)
  <2>1. UNCHANGED <<attached, clientvars>> /\ task[c].todo \in SUBSET Pair
    BY <1>3 DEF ListsOn
  <2>2. CASE \E e \in task[c].todo : Replies(c, Msg("VAL", e[1], e[2]))
    <3>1. PICK e \in task[c].todo : Replies(c, Msg("VAL", e[1], e[2]))
      BY <2>2
    <3>2. Msg("VAL", e[1], e[2]) \in Message /\ Msg("VAL", e[1], e[2]).type = "VAL"
      BY <2>1, <3>1, ValType
    <3> QED
      BY <2>1, <3>1, <3>2 DEF Tells
  <2>3. CASE Replies(c, Msg("OK", Root, Null))
    BY <2>1, <2>3, OkType DEF Tells
  <2> QED
    BY <1>3, <2>2, <2>3 DEF ListsOn
<1>4. CASE \E op \in {"set", "del"} : Changes(c, op)
  BY <1>4 DEF Changes, Reading, Tells
<1>5. CASE GoesOn(c)
  BY <1>5 DEF GoesOn, Tells
<1>6. CASE \E op \in {"quit", "setv"} : Refuses(c, op)
  <2>1. PICK op \in {"quit", "setv"} : Refuses(c, op)
    BY <1>6
  <2> QED
    BY <2>1 DEF Refuses, Reading, Tells
<1>7. CASE detach(c)
  <2>1. Detaches(c)
    BY <1>0, <1>7, DetachDetaches
  <2> QED
    BY <2>1 DEF Detaches, Tells
<1> QED
  BY <1>0, <1>1, <1>2, <1>3, <1>4, <1>5, <1>6, <1>7, DaemonCases

LEMMA TellsKnown ==
  ASSUME TypeInv, ToldInv, NEW c \in Client, Tells(c)
  PROVE  ToldInv'
<1> SUFFICES ASSUME NEW x \in (up \intersect attached)', NEW k \in Key
             PROVE  \E d : /\ Leads(deltas'[x], k, told'[x][k], d)
                           /\ Leads(s2c'[x], k, d, tree'[k])
  BY DEF ToldInv, Knows
<1>1. /\ UNCHANGED <<up, deltas, told>> /\ attached' \subseteq attached
      /\ x \in up \intersect attached /\ x \in attached' /\ x \in Client
  BY DEF Tells, clientvars, TypeInv, TypeOK
<1>2. PICK d : Leads(deltas[x], k, told[x][k], d) /\ Leads(s2c[x], k, d, tree[k])
  BY <1>1 DEF ToldInv, Knows
<1>3. TypeOK /\ tree \in Tree /\ s2c[x] \in Seq(Message)
  BY <1>1 DEF TypeInv, TypeOK
<1>4. CASE \E m \in Message : m.type # "NOTICE" /\ Replies(c, m)
  <2>1. PICK m \in Message : m.type # "NOTICE" /\ Replies(c, m)
    BY <1>4
  <2>2. CASE x = c
    <3>1. tree' = tree /\ s2c'[x] = Append(s2c[x], m)
      BY <1>1, <2>1, <2>2 DEF Replies
    <3>2. <<m>> \in Seq(Message) /\ s2c'[x] = s2c[x] \o <<m>>
      BY <1>3, <2>1, <3>1, AppendFacts
    <3>3. \A i \in DOMAIN <<m>> : <<m>>[i].type # "NOTICE"
      BY <2>1
    <3>4. Leads(<<m>>, k, tree[k], tree[k])
      BY <3>3, LeadsNowhere
    <3>5. Leads(s2c'[x], k, d, tree'[k])
      BY <1>2, <1>3, <3>1, <3>2, <3>4, LeadsOn
    <3> QED
      BY <1>1, <1>2, <3>5
  <2>3. CASE x # c
    <3>1. tree' = tree /\ s2c'[x] = s2c[x]
      BY <1>1, <2>1, <2>3 DEF Replies
    <3> QED
      BY <1>1, <1>2, <3>1
  <2> QED
    BY <2>2, <2>3
<1>5. ASSUME NEW D, Announces(D), x \in D
      PROVE  Leads(s2c'[x], k, d, tree'[k])
  <2>1. PICK t \in Tree : \E s \in Announced(tree, t) : Publishes(D, t, s)
    BY <1>5 DEF Announces
  <2>2. PICK s \in Announced(tree, t) : Publishes(D, t, s)
    BY <2>1
  <2>3. tree' = t /\ s2c'[x] = s2c[x] \o Notices(s, t)
    BY <1>1, <1>5, <2>2 DEF Publishes
  <2>4. s \in Seq(Key)
    BY <2>2, ListingFacts
  <2>5. Notices(s, t) \in Seq(Message)
    BY <2>4, NoticesType, NoticeIsMessage
  <2>6. Leads(Notices(s, t), k, tree[k], t[k])
    BY <1>3, <2>2, NoticesLead
  <2> QED
    BY <1>2, <1>3, <2>3, <2>5, <2>6, LeadsOn
<1>6. CASE Announces(Online)
  <2>1. Leads(s2c'[x], k, d, tree'[k])
    BY <1>1, <1>5, <1>6 DEF Online
  <2> QED
    BY <1>1, <1>2, <2>1
<1>7. CASE Announces(Online \ {c}) /\ c \notin attached'
  <2>1. Leads(s2c'[x], k, d, tree'[k])
    BY <1>1, <1>5, <1>7 DEF Online
  <2> QED
    BY <1>1, <1>2, <2>1
<1>8. CASE UNCHANGED <<tree, s2c>>
  BY <1>1, <1>2, <1>8
<1> QED
  BY <1>4, <1>6, <1>7, <1>8 DEF Tells

(* What is read of k, if anything is, by one who took d for its value.     *)
Learnt(m, k, d) == IF m.type = "NOTICE" /\ m.key = k THEN m.value ELSE d

(* A notice is read: the client is told at once, or holds it back.         *)
LEMMA ReadLeads ==
  ASSUME TypeInv, NEW c \in Client, conncallback(c), NEW k \in Key, NEW d,
         Leads(deltas[c], k, told[c][k], d)
  PROVE  Leads(deltas'[c], k, told'[c][k], Learnt(Head(s2c[c]), k, d))
<1> DEFINE m == Head(s2c[c])
           e == Learnt(m, k, d)
<1>1. TypeOK /\ s2c[c] \in Seq(Message) /\ deltas[c] \in Seq(Notice)
      /\ (stack[c] = <<>> => deltas[c] = <<>>) /\ s2c[c] # <<>>
  BY OwnFacts DEF conncallback
<1>2. m \in Message
  BY <1>1, TailFacts
<1>3. \/ on_notice(c, m)
      \/ m.type # "NOTICE" /\ UNCHANGED <<deltas, told>>
  BY DEF conncallback, on_hello, on_ok, on_fail, on_value, on_part
<1>4. e = IF m.type = "NOTICE" /\ m.key = k THEN m.value ELSE d
  BY DEF Learnt
<1> HIDE DEF m, e
<1>5. CASE m.type # "NOTICE" /\ UNCHANGED <<deltas, told>>
  BY <1>4, <1>5 DEF m, e
<1>6. CASE on_notice(c, m)
  <2>1. m \in Notice /\ m.type = "NOTICE" /\ m.key \in Key
    BY <1>2, <1>6 DEF on_notice, Message, Notice
  <2>2. CASE stack[c] = <<>>
    <3>1. told' = [told EXCEPT ![c][m.key] = m.value] /\ deltas' = deltas /\ deltas[c] = <<>>
      BY <1>1, <1>6, <2>2 DEF on_notice
    <3>2. told[c] \in Tree /\ told \in [Client -> Tree]
      BY <1>1 DEF TypeOK
    <3>3. told'[c] = [told[c] EXCEPT ![m.key] = m.value]
      BY <3>1, <3>2
    <3>4. told'[c][k] = IF m.key = k THEN m.value ELSE told[c][k]
      BY <2>1, <3>2, <3>3 DEF Tree
    <3>5. told[c][k] = d
      BY <3>1, LeadsNowhere
    <3>6. told'[c][k] = e
      BY <1>4, <2>1, <3>4, <3>5
    <3>7. Leads(deltas'[c], k, told'[c][k], e)
      BY <3>1, <3>6, LeadsNowhere
    <3> QED
      BY <3>7 DEF m, e
  <2>3. CASE stack[c] # <<>>
    <3>1. deltas' = [deltas EXCEPT ![c] = Append(@, m)] /\ told' = told
      BY <1>6, <2>3 DEF on_notice
    <3>2. deltas'[c] = deltas[c] \o <<m>> /\ <<m>> \in Seq(Notice)
      BY <1>1, <2>1, <3>1, AppendFacts DEF TypeOK
    <3>3. Leads(<<m>>, k, d, e)
      <4>1. DOMAIN <<m>> = {1} /\ <<m>>[1] = m
        OBVIOUS
      <4>2. CASE m.key = k
        <5>1. About(<<m>>, k) = {1} /\ e = m.value
          BY <1>4, <2>1, <4>1, <4>2 DEF About
        <5> QED
          BY <4>1, <5>1 DEF Leads, LastSays
      <4>3. CASE m.key # k
        <5>1. About(<<m>>, k) = {} /\ e = d
          BY <1>4, <4>1, <4>3 DEF About
        <5> QED
          BY <5>1 DEF Leads
      <4> QED
        BY <4>2, <4>3
    <3>4. Leads(deltas'[c], k, told'[c][k], e)
      BY <1>1, <3>1, <3>2, <3>3, LeadsOn
    <3> QED
      BY <3>4 DEF m, e
  <2> QED
    BY <2>2, <2>3
<1> QED
  BY <1>3, <1>5, <1>6

LEMMA ReadKnown ==
  ASSUME TypeInv, ToldInv, NEW c \in Client, conncallback(c)
  PROVE  ToldInv'
<1> DEFINE m == Head(s2c[c])
<1>1. /\ s2c[c] # <<>> /\ s2c'[c] = Tail(s2c[c])
      /\ UNCHANGED <<tree, attached, up>> /\ Keeps(c)
  BY ReadKeeps DEF daemonvars
<1>2. s2c[c] \in Seq(Message)
  BY OwnFacts
<1> SUFFICES ASSUME NEW x \in (up \intersect attached)', NEW k \in Key
             PROVE  \E d : /\ Leads(deltas'[x], k, told'[x][k], d)
                           /\ Leads(s2c'[x], k, d, tree'[k])
  BY DEF ToldInv, Knows
<1>3. x \in up \intersect attached /\ x \in Client /\ UNCHANGED tree
  BY <1>1 DEF TypeInv, TypeOK
<1>4. PICK d : Leads(deltas[x], k, told[x][k], d) /\ Leads(s2c[x], k, d, tree[k])
  BY <1>3 DEF ToldInv, Knows
<1>5. CASE x # c
  <2>1. s2c'[x] = s2c[x] /\ deltas'[x] = deltas[x] /\ told'[x] = told[x]
    <3>1. Untouched(x)
      BY <1>1, <1>3, <1>5 DEF Keeps
    <3>2. s2c' = [s2c EXCEPT ![c] = Tail(@)] /\ s2c \in [Client -> Seq(Message)]
      BY DEF conncallback, TypeInv, TypeOK
    <3> QED
      BY <1>3, <1>5, <3>1, <3>2 DEF Untouched
  <2> QED
    BY <1>3, <1>4, <2>1
<1>6. CASE x = c
  <2>1. PICK e : e = Learnt(m, k, d)
    OBVIOUS
  <2>2. IF m.type = "NOTICE" /\ m.key = k THEN e = m.value ELSE e = d
    BY <2>1 DEF Learnt
  <2>3. Leads(deltas'[c], k, told'[c][k], e)
    BY <1>4, <1>6, <2>1, ReadLeads
  <2>4. Leads(Tail(s2c[c]), k, e, tree[k])
    BY <1>1, <1>2, <1>4, <1>6, <2>2, LeadsTail
  <2> QED
    BY <1>1, <1>3, <1>6, <2>3, <2>4
<1> QED
  BY <1>5, <1>6

(* A delta is dispatched.                                                  *)
LEMMA FlushLeads ==
  ASSUME TypeInv, NEW c \in Client, flush_delta(c), NEW k \in Key, NEW d,
         Leads(deltas[c], k, told[c][k], d)
  PROVE  Leads(deltas'[c], k, told'[c][k], d)
<1> DEFINE n == Head(deltas[c])
<1>1. /\ deltas[c] # <<>> /\ deltas' = [deltas EXCEPT ![c] = Tail(@)]
      /\ told' = [told EXCEPT ![c][n.key] = n.value]
  BY DEF flush_delta
<1>2. TypeOK /\ deltas[c] \in Seq(Notice)
  BY OwnFacts
<1>3. n \in Notice
  BY <1>1, <1>2, TailFacts
<1>4. n.key \in Key /\ n.type = "NOTICE"
  BY <1>3 DEF Notice
<1>5. told[c] \in Tree /\ told \in [Client -> Tree] /\ deltas'[c] = Tail(deltas[c])
  BY <1>1, <1>2 DEF TypeOK
<1>6. told'[c][k] = IF n.key = k THEN n.value ELSE told[c][k]
  <2> HIDE DEF n
  <2>1. told'[c] = [told[c] EXCEPT ![n.key] = n.value]
    BY <1>1, <1>5
  <2> QED
    BY <1>4, <1>5, <2>1 DEF Tree
<1>7. IF n.type = "NOTICE" /\ n.key = k THEN told'[c][k] = n.value ELSE told'[c][k] = told[c][k]
  BY <1>4, <1>6
<1>8. Leads(Tail(deltas[c]), k, told'[c][k], d)
  BY <1>1, <1>2, <1>7, LeadsTail
<1> QED
  BY <1>5, <1>8

LEMMA FlushKnown ==
  ASSUME TypeInv, ToldInv, NEW c \in Client, flush_delta(c)
  PROVE  ToldInv'
<1>1. UNCHANGED <<tree, attached, up, s2c>> /\ Keeps(c)
  BY FlushKeeps DEF flush_delta, daemonvars
<1> SUFFICES ASSUME NEW x \in (up \intersect attached)', NEW k \in Key
             PROVE  \E d : /\ Leads(deltas'[x], k, told'[x][k], d)
                           /\ Leads(s2c'[x], k, d, tree'[k])
  BY DEF ToldInv, Knows
<1>2. x \in up \intersect attached /\ x \in Client /\ UNCHANGED <<tree, s2c>>
  BY <1>1 DEF TypeInv, TypeOK
<1>3. PICK d : Leads(deltas[x], k, told[x][k], d) /\ Leads(s2c[x], k, d, tree[k])
  BY <1>2 DEF ToldInv, Knows
<1>4. CASE x # c
  <2>1. deltas'[x] = deltas[x] /\ told'[x] = told[x]
    BY <1>1, <1>2, <1>4 DEF Keeps, Untouched
  <2> QED
    BY <1>2, <1>3, <2>1
<1>5. CASE x = c
  BY <1>2, <1>3, <1>5, FlushLeads
<1> QED
  BY <1>4, <1>5

(* What a call leaves alone.                                               *)
LEMMA CallChanges ==
  ASSUME TypeInv, NEW c \in Client, CallStep(c)
  PROVE  /\ UNCHANGED <<tree, attached, task, s2c, deltas, told, answer>>
         /\ up' \subseteq up
<1>1. CASE \E op \in Replying, k \in Key : Calls(c, op, k)
  BY <1>1 DEF Calls, daemonvars
<1>2. CASE \E op \in {"set", "setv"} : \E p : Sets(c, op, p)
  BY <1>2 DEF Sets, set, daemonvars
<1>3. CASE \E p, q \in Pair : setv(c, p, q)
  BY <1>3 DEF setv, daemonvars
<1>4. CASE quit(c)
  BY <1>4 DEF quit, daemonvars
<1> QED
  BY <1>1, <1>2, <1>3, <1>4, CallCases

(* No other step of a client changes what it knows.                        *)
LEMMA ElseKnown ==
  ASSUME ToldInv, UNCHANGED <<tree, attached, s2c, deltas, told>>, up' \subseteq up
  PROVE  ToldInv'
BY DEF ToldInv, Knows

LEMMA ToldStep == TypeInv /\ ToldInv /\ [Next]_vars => ToldInv'
<1> SUFFICES ASSUME TypeInv, ToldInv, [Next]_vars PROVE ToldInv'
  OBVIOUS
<1>1. CASE UNCHANGED vars
  BY <1>1, ElseKnown DEF vars, daemonvars, clientvars
<1>2. ASSUME NEW c \in Client,
             DaemonStep(c) \/ CallStep(c) \/ ClientStep(c) \/ timeout(c) \/ detach(c)
      PROVE  ToldInv'
  <2>1. CASE DaemonStep(c) \/ detach(c)
    BY <2>1, DaemonTells, TellsKnown
  <2>2. CASE CallStep(c)
    <3>1. UNCHANGED <<tree, attached, s2c, deltas, told>> /\ up' \subseteq up
      BY <2>2, CallChanges
    <3> QED
      BY <3>1, ElseKnown
  <2>3. CASE conncallback(c)
    BY <2>3, ReadKnown
  <2>4. CASE flush_delta(c)
    BY <2>4, FlushKnown
  <2>5. CASE return(c) \/ set_next(c) \/ eof(c) \/ timeout(c)
    <3>1. UNCHANGED <<tree, attached, s2c, deltas, told>> /\ up' \subseteq up
      BY <2>5 DEF return, set_next, eof, timeout, daemonvars
    <3> QED
      BY <3>1, ElseKnown
  <2> QED
    BY <1>2, <2>1, <2>2, <2>3, <2>4, <2>5 DEF ClientStep
<1> QED
  BY <1>1, <1>2 DEF Next

LEMMA InitTold == Init => ToldInv
<1> SUFFICES ASSUME Init, NEW c \in up \intersect attached, NEW k \in Key
             PROVE  /\ Leads(deltas[c], k, told[c][k], tree[k])
                    /\ Leads(s2c[c], k, tree[k], tree[k])
  BY DEF ToldInv, Knows
<1>1. /\ c \in Client /\ deltas[c] = <<>> /\ told[c] = tree
      /\ s2c[c] = <<Msg("HELLO", Root, Null)>>
  BY DEF Init
<1>2. \A i \in DOMAIN s2c[c] : s2c[c][i].type # "NOTICE"
  BY <1>1 DEF Msg
<1>3. Leads(s2c[c], k, tree[k], tree[k])
  BY <1>2, LeadsNowhere
<1>4. \A i \in DOMAIN deltas[c] : deltas[c][i].type # "NOTICE"
  BY <1>1
<1>5. Leads(deltas[c], k, told[c][k], tree[k]) <=> told[c][k] = tree[k]
  BY <1>4, LeadsNowhere
<1> QED
  BY <1>1, <1>3, <1>5

(* A client that has read and dispatched every notice has been told of     *)
(* exactly the tree the daemon has: no change by any client, no removed    *)
(* entry and no interleaving of the two loses or misorders a notice, held  *)
(* back or not (UniConfDaemonConn::deltacallback, UniClientGen).           *)
THEOREM TheToldConverge == Spec => []ToldConverges
<1>1. TypeInv /\ ToldInv => ToldConverges
  BY KnowsConverges
<1> QED
  BY <1>1, InitTold, ToldStep, Types, PTL DEF Spec

----------------------------------------------------------------------------
(* Where in a queue the elements of S are.                                 *)
Places(q, S) == {i \in DOMAIN q : q[i] \in S}

Alone(S) == \E i \in S : S = {i}

LEMMA PlacesTail ==
  ASSUME NEW D, NEW q \in Seq(D), q # <<>>, NEW S
  PROVE  /\ \A i \in Places(Tail(q), S) :
              /\ i \in Nat \ {0} /\ i + 1 \in Places(q, S) /\ Tail(q)[i] = q[i + 1]
         /\ \A j \in Places(q, S) :
              j # 1 => j - 1 \in Places(Tail(q), S) /\ Tail(q)[j - 1] = q[j]
         /\ Places(q, S) \subseteq Nat \ {0}
         /\ 1 \in Places(q, S) <=> Head(q) \in S
<1> DEFINE r == Tail(q)
           n == Len(q)
<1>1. /\ Head(q) = q[1] /\ n \in Nat \ {0} /\ DOMAIN q = 1 .. n /\ DOMAIN r = 1 .. n - 1
      /\ \A i \in 1 .. n - 1 : r[i] = q[i + 1]
  BY TailFacts
<1> HIDE DEF r, n
<1>2. ASSUME NEW i \in Places(r, S)
      PROVE  i \in Nat \ {0} /\ i + 1 \in Places(q, S) /\ r[i] = q[i + 1]
  <2>1. i \in 1 .. n - 1 /\ r[i] \in S
    BY <1>1, <1>2 DEF Places
  <2>2. i \in Nat \ {0} /\ i + 1 \in 1 .. n /\ r[i] = q[i + 1]
    BY <1>1, <2>1
  <2> QED
    BY <1>1, <2>1, <2>2 DEF Places
<1>3. ASSUME NEW j \in Places(q, S), j # 1
      PROVE  j - 1 \in Places(r, S) /\ r[j - 1] = q[j]
  <2>1. j \in 1 .. n /\ q[j] \in S
    BY <1>1, <1>3 DEF Places
  <2>2. j - 1 \in 1 .. n - 1 /\ (j - 1) + 1 = j
    BY <1>1, <1>3, <2>1
  <2>3. r[j - 1] = q[j]
    BY <1>1, <2>2
  <2> QED
    BY <1>1, <2>1, <2>2, <2>3 DEF Places
<1>4. Places(q, S) \subseteq Nat \ {0} /\ (1 \in Places(q, S) <=> Head(q) \in S)
  BY <1>1 DEF Places
<1> QED
  BY <1>2, <1>3, <1>4 DEF r

(* An element that is not of S leaves the queue, ...                       *)
LEMMA OtherLeaves ==
  ASSUME NEW D, NEW q \in Seq(D), q # <<>>, NEW S, Head(q) \notin S
  PROVE  /\ Places(q, S) = {} <=> Places(Tail(q), S) = {}
         /\ Alone(Places(q, S)) <=> Alone(Places(Tail(q), S))
<1> DEFINE P == Places(q, S)
           R == Places(Tail(q), S)
<1>1. /\ \A i \in R : i \in Nat \ {0} /\ i + 1 \in P
      /\ \A j \in P : j # 1 => j - 1 \in R
      /\ P \subseteq Nat \ {0} /\ 1 \notin P
  BY PlacesTail
<1> HIDE DEF P, R
<1>2. P = {} <=> R = {}
  BY <1>1
<1>3. ASSUME Alone(P) PROVE Alone(R)
  <2>1. PICK j \in P : P = {j}
    BY <1>3 DEF Alone
  <2>2. j - 1 \in R /\ j \in Nat
    BY <1>1, <2>1
  <2>3. ASSUME NEW i \in R PROVE i = j - 1
    <3>1. i \in Nat /\ i + 1 = j
      BY <1>1, <2>1, <2>3
    <3> QED
      BY <2>2, <3>1
  <2>4. R = {j - 1}
    BY <2>2, <2>3
  <2> QED
    BY <2>2, <2>4 DEF Alone
<1>4. ASSUME Alone(R) PROVE Alone(P)
  <2>1. PICK i \in R : R = {i}
    BY <1>4 DEF Alone
  <2>2. i + 1 \in P /\ i \in Nat
    BY <1>1, <2>1
  <2>3. ASSUME NEW j \in P PROVE j = i + 1
    <3>1. j - 1 = i /\ j \in Nat
      BY <1>1, <2>1, <2>3
    <3> QED
      BY <2>2, <3>1
  <2>4. P = {i + 1}
    BY <2>2, <2>3
  <2> QED
    BY <2>2, <2>4 DEF Alone
<1> QED
  BY <1>2, <1>3, <1>4 DEF P, R

(* ... or the only one of S does.                                          *)
LEMMA OnlyLeaves ==
  ASSUME NEW D, NEW q \in Seq(D), q # <<>>, NEW S, Head(q) \in S, Alone(Places(q, S))
  PROVE  Places(q, S) = {1} /\ Places(Tail(q), S) = {}
<1>1. Places(q, S) = {1}
  <2>1. 1 \in Places(q, S)
    BY PlacesTail
  <2> QED
    BY <2>1 DEF Alone
<1>2. ASSUME NEW i \in Places(Tail(q), S) PROVE FALSE
  <2>1. i \in Nat \ {0} /\ i + 1 \in Places(q, S)
    BY <1>2, PlacesTail
  <2>2. i + 1 = 1
    BY <1>1, <2>1
  <2> QED
    BY <2>1, <2>2
<1> QED
  BY <1>1, <1>2

LEMMA PlacesAppend ==
  ASSUME NEW D, NEW q \in Seq(D), NEW e \in D, NEW S
  PROVE  /\ e \in S => Places(Append(q, e), S) = Places(q, S) \union {Len(q) + 1}
         /\ e \notin S => Places(Append(q, e), S) = Places(q, S)
         /\ Places(q, S) \subseteq 1 .. Len(q)
<1> DEFINE r == Append(q, e)
           n == Len(q)
<1>1. /\ n \in Nat /\ DOMAIN q = 1 .. n /\ DOMAIN r = 1 .. n + 1
      /\ \A i \in 1 .. n : r[i] = q[i]
      /\ r[n + 1] = e
  BY AppendFacts
<1> HIDE DEF r, n
<1>2. 1 .. n + 1 = (1 .. n) \union {n + 1} /\ n + 1 \notin 1 .. n
  BY <1>1
<1>3. /\ e \in S => Places(r, S) = Places(q, S) \union {n + 1}
      /\ e \notin S => Places(r, S) = Places(q, S)
  BY <1>1, <1>2 DEF Places
<1>4. Places(q, S) \subseteq 1 .. n
  BY <1>1 DEF Places
<1> QED
  BY <1>1, <1>3, <1>4 DEF r, n

(* What follows is not of S.                                               *)
LEMMA PlacesBefore ==
  ASSUME NEW D, NEW q \in Seq(D), NEW r \in Seq(D), NEW S, \A i \in DOMAIN r : r[i] \notin S
  PROVE  /\ Places(q \o r, S) = Places(q, S)
         /\ \A i \in DOMAIN q : (q \o r)[i] = q[i]
<1> DEFINE p == q \o r
           m == Len(q)
           n == Len(r)
<1>1. /\ m \in Nat /\ n \in Nat /\ DOMAIN q = 1 .. m /\ DOMAIN r = 1 .. n
      /\ DOMAIN p = 1 .. m + n
      /\ \A i \in 1 .. m : p[i] = q[i]
      /\ \A i \in 1 .. n : p[m + i] = r[i]
  <2>1. \A i \in 1 .. n : p[m + i] = r[i]
    OBVIOUS
  <2> QED
    BY <2>1
<1> HIDE DEF p, m, n
<1>2. ASSUME NEW i \in Places(p, S) PROVE i \in Places(q, S)
  <2>1. i \in 1 .. m + n /\ p[i] \in S
    BY <1>1, <1>2 DEF Places
  <2>2. CASE ~(i <= m)
    <3>1. i - m \in 1 .. n /\ m + (i - m) = i
      BY <1>1, <2>1, <2>2
    <3>2. p[i] = r[i - m]
      BY <1>1, <3>1
    <3> QED
      BY <1>1, <2>1, <3>1, <3>2
  <2>3. CASE i <= m
    <3>1. i \in 1 .. m
      BY <1>1, <2>1, <2>3
    <3> QED
      BY <1>1, <2>1, <3>1 DEF Places
  <2> QED
    BY <2>2, <2>3
<1>3. ASSUME NEW i \in Places(q, S) PROVE i \in Places(p, S)
  <2>1. i \in 1 .. m /\ q[i] \in S
    BY <1>1, <1>3 DEF Places
  <2>2. i \in 1 .. m + n /\ p[i] = q[i]
    BY <1>1, <2>1
  <2> QED
    BY <1>1, <2>1, <2>2 DEF Places
<1> QED
  BY <1>1, <1>2, <1>3 DEF p

LEMMA CountAlone ==
  ASSUME NEW S
  PROVE  /\ S = {} => Cardinality(S) = 0
         /\ Alone(S) => Cardinality(S) = 1
BY FS_EmptySet, FS_Singleton DEF Alone

(* Requests that get a completion reply, the completion replies, and the   *)
(* parts of a listing.                                                     *)
Awaited == {r \in RequestType : r.op \in Replying}
Completing == {m \in Message : m.type \in Completion}
Valued == {m \in Message : m.type = "VAL"}

Vals(c) == {i \in DOMAIN s2c[c] : s2c[c][i].type = "VAL"}

LEMMA QueuePlaces ==
  ASSUME NEW q \in Seq(RequestType), NEW r \in Seq(Message)
  PROVE  /\ {i \in DOMAIN q : q[i].op \in Replying} = Places(q, Awaited)
         /\ {i \in DOMAIN r : r[i].type \in Completion} = Places(r, Completing)
         /\ {i \in DOMAIN r : r[i].type = "VAL"} = Places(r, Valued)
<1>1. /\ \A i \in DOMAIN q : q[i] \in RequestType
      /\ \A i \in DOMAIN r : r[i] \in Message
  OBVIOUS
<1> QED
  BY <1>1 DEF Places, Awaited, Completing, Valued

LEMMA Queues ==
  ASSUME TypeInv, NEW c \in Client
  PROVE  /\ Due(c) = Places(c2s[c], Awaited) /\ Sent(c) = Places(s2c[c], Completing)
         /\ Vals(c) = Places(s2c[c], Valued)
<1>1. c2s[c] \in Seq(RequestType) /\ s2c[c] \in Seq(Message)
  BY OwnFacts
<1> QED
  BY <1>1, QueuePlaces DEF Due, Sent, Vals

LEMMA QueuesNext ==
  ASSUME TypeInv', NEW c \in Client
  PROVE  /\ Due(c)' = Places(c2s'[c], Awaited) /\ Sent(c)' = Places(s2c'[c], Completing)
         /\ Vals(c)' = Places(s2c'[c], Valued)
<1>1. c2s'[c] \in Seq(RequestType) /\ s2c'[c] \in Seq(Message)
  BY DEF TypeInv, TypeOK
<1> QED
  BY <1>1, QueuePlaces DEF Due, Sent, Vals

(* Notices leave replies and parts where they are.                         *)
LEMMA HearsPlaces ==
  ASSUME TypeInv, TypeInv', NEW c \in Client, Hears(c)
  PROVE  /\ Sent(c)' = Sent(c) /\ Vals(c)' = Vals(c)
         /\ \A i \in DOMAIN s2c[c] : s2c'[c][i] = s2c[c][i]
<1>1. PICK N \in Seq(Notice) : s2c'[c] = s2c[c] \o N
  BY DEF Hears
<1>2. s2c[c] \in Seq(Message)
  BY OwnFacts
<1>3. N \in Seq(Message)
  BY <1>1, NoticeIsMessage
<1>4. \A i \in DOMAIN N : N[i].type = "NOTICE"
  <2>1. \A i \in DOMAIN N : N[i] \in Notice
    BY <1>1
  <2> QED
    BY <2>1 DEF Notice
<1>5. \A i \in DOMAIN N : N[i] \notin Completing /\ N[i] \notin Valued
  BY <1>4 DEF Completing, Valued, Completion
<1>6. /\ Places(s2c[c] \o N, Completing) = Places(s2c[c], Completing)
      /\ Places(s2c[c] \o N, Valued) = Places(s2c[c], Valued)
      /\ \A i \in DOMAIN s2c[c] : (s2c[c] \o N)[i] = s2c[c][i]
  BY <1>2, <1>3, <1>5, PlacesBefore
<1> QED
  BY <1>1, <1>6, Queues, QueuesNext

(* A reply goes to the end of the queue.                                   *)
LEMMA ReplyPlaces ==
  ASSUME TypeInv, TypeInv', NEW c \in Online, NEW m \in Message, Replies(c, m)
  PROVE  /\ Sent(c)' = IF m.type \in Completion THEN Sent(c) \union {Len(s2c[c]) + 1} ELSE Sent(c)
         /\ Vals(c)' = IF m.type = "VAL" THEN Vals(c) \union {Len(s2c[c]) + 1} ELSE Vals(c)
         /\ Len(s2c[c]) \in Nat /\ s2c'[c][Len(s2c[c]) + 1] = m
         /\ \A i \in Sent(c) \union Vals(c) :
              i \in Nat /\ i <= Len(s2c[c]) /\ s2c'[c][i] = s2c[c][i]
<1>0. c \in Client
  BY DEF Online, TypeInv, TypeOK
<1>1. s2c'[c] = Append(s2c[c], m)
  BY <1>0 DEF Replies, Online
<1>2. s2c[c] \in Seq(Message)
  BY <1>0, OwnFacts
<1>3. (m \in Completing <=> m.type \in Completion) /\ (m \in Valued <=> m.type = "VAL")
  BY DEF Completing, Valued
<1>4. /\ Due(c) = Places(c2s[c], Awaited) /\ Sent(c) = Places(s2c[c], Completing)
      /\ Vals(c) = Places(s2c[c], Valued)
      /\ Sent(c)' = Places(s2c'[c], Completing) /\ Vals(c)' = Places(s2c'[c], Valued)
  BY <1>0, Queues, QueuesNext
<1>5. PICK q \in Seq(Message) : q = s2c[c]
  BY <1>2
<1> DEFINE p == Append(q, m)
           n == Len(q)
<1>51. /\ m \in Completing => Places(p, Completing) = Places(q, Completing) \union {n + 1}
       /\ m \notin Completing => Places(p, Completing) = Places(q, Completing)
       /\ Places(q, Completing) \subseteq 1 .. n
  BY PlacesAppend
<1>52. /\ m \in Valued => Places(p, Valued) = Places(q, Valued) \union {n + 1}
       /\ m \notin Valued => Places(p, Valued) = Places(q, Valued)
       /\ Places(q, Valued) \subseteq 1 .. n
  BY PlacesAppend
<1>53. n \in Nat /\ p[n + 1] = m /\ \A i \in 1 .. n : i \in Nat /\ i <= n /\ p[i] = q[i]
  BY AppendFacts
<1>6. /\ Sent(c) = Places(q, Completing) /\ Vals(c) = Places(q, Valued)
      /\ Sent(c)' = Places(p, Completing) /\ Vals(c)' = Places(p, Valued)
  BY <1>1, <1>4, <1>5
<1>7. s2c'[c] = p /\ s2c[c] = q /\ Len(s2c[c]) = n
  BY <1>1, <1>5
<1> HIDE DEF p, n
<1>8. /\ Sent(c)' = IF m.type \in Completion THEN Sent(c) \union {n + 1} ELSE Sent(c)
      /\ \A i \in Sent(c) : i \in Nat /\ i <= n /\ p[i] = q[i]
  BY <1>3, <1>51, <1>53, <1>6
<1>9. /\ Vals(c)' = IF m.type = "VAL" THEN Vals(c) \union {n + 1} ELSE Vals(c)
      /\ \A i \in Vals(c) : i \in Nat /\ i <= n /\ p[i] = q[i]
  BY <1>3, <1>52, <1>53, <1>6
<1>10. n \in Nat /\ p[n + 1] = m
  BY <1>53
<1> QED
  BY <1>7, <1>8, <1>9, <1>10

----------------------------------------------------------------------------
(* One request at a time.  A client that waits has its request in the      *)
(* queue to the daemon, in the daemon's hands, or its reply in the queue   *)
(* back, and only one of these.                                            *)
Listing(c) == task[c].kind = "subt"

Asked(c) == Alone(Due(c)) /\ ~Listing(c) /\ Sent(c) = {}
Listed(c) == Due(c) = {} /\ Listing(c) /\ Sent(c) = {}
Replied(c) == Due(c) = {} /\ ~Listing(c) /\ Alone(Sent(c))
Quiet(c) == Due(c) = {} /\ ~Listing(c) /\ Sent(c) = {}

Plain(c) == \A i \in DOMAIN c2s[c] : c2s[c][i].op \notin {"setv", "quit"}

Stage(c) ==
  /\ Plain(c)
  /\ c \in attached => IF Waiting(c) THEN Asked(c) \/ Listed(c) \/ Replied(c) ELSE Quiet(c)
  /\ c \notin attached => /\ ~Listing(c)
                          /\ Sent(c) = {} \/ (Waiting(c) /\ Alone(Sent(c)))

StageInv == \A c \in up : "setv" \notin Op[c] => Stage(c)

LEMMA AloneSome == \A S : Alone(S) => S # {}
BY DEF Alone

LEMMA StageCounts == TypeInv /\ StageInv => NoStrayReply
<1> SUFFICES ASSUME TypeInv, StageInv, NEW c \in up \intersect attached, "setv" \notin Op[c]
             PROVE  Outstanding(c) = IF Waiting(c) THEN 1 ELSE 0
  BY DEF NoStrayReply
<1>1. Stage(c)
  BY DEF StageInv
<1> DEFINE d == Cardinality(Due(c))
           n == Cardinality(Sent(c))
<1>2. Outstanding(c) = d + n + (IF Listing(c) THEN 1 ELSE 0)
  BY DEF Outstanding, Listing
<1>3. (Asked(c) => d = 1 /\ n = 0 /\ ~Listing(c)) /\ (Listed(c) => d = 0 /\ n = 0 /\ Listing(c))
  BY CountAlone DEF Asked, Listed
<1>4. (Replied(c) => d = 0 /\ n = 1 /\ ~Listing(c)) /\ (Quiet(c) => d = 0 /\ n = 0 /\ ~Listing(c))
  BY CountAlone DEF Replied, Quiet
<1> HIDE DEF d, n
<1>5. CASE Waiting(c)
  BY <1>1, <1>2, <1>3, <1>4, <1>5 DEF Stage
<1>6. CASE ~Waiting(c)
  BY <1>1, <1>2, <1>4, <1>6 DEF Stage
<1> QED
  BY <1>5, <1>6

LEMMA WaitsOn ==
  ASSUME NEW c, stack'[c] = stack[c], cmdinprogress'[c] = cmdinprogress[c]
  PROVE  Waiting(c)' <=> Waiting(c)
BY DEF Waiting, Top

(* The step of another client.                                             *)
LEMMA UntouchedStage ==
  ASSUME TypeInv, TypeInv', NEW c \in Client, Untouched(c), Stage(c)
  PROVE  Stage(c)'
<1>1. /\ c \in attached' <=> c \in attached
      /\ task'[c] = task[c] /\ c2s'[c] = c2s[c] /\ Hears(c)
      /\ stack'[c] = stack[c] /\ cmdinprogress'[c] = cmdinprogress[c]
  BY DEF Untouched
<1>2. Sent(c)' = Sent(c)
  BY <1>1, HearsPlaces
<1>3. Due(c)' = Due(c) /\ (Listing(c)' <=> Listing(c)) /\ (Plain(c)' <=> Plain(c))
  BY <1>1 DEF Due, Listing, Plain
<1>4. Waiting(c)' <=> Waiting(c)
  BY <1>1, WaitsOn
<1>5. /\ Asked(c)' <=> Asked(c)
      /\ Listed(c)' <=> Listed(c)
      /\ Replied(c)' <=> Replied(c)
      /\ Quiet(c)' <=> Quiet(c)
  BY <1>2, <1>3 DEF Asked, Listed, Replied, Quiet
<1> QED
  BY <1>1, <1>2, <1>3, <1>4, <1>5 DEF Stage

(* A request is taken off the queue.                                       *)
LEMMA TakenDue ==
  ASSUME TypeInv, TypeInv', NEW c \in Client, c2s[c] # <<>>, c2s'[c] = Tail(c2s[c]), Plain(c)
  PROVE  /\ Plain(c)' /\ c2s[c][1].op \notin {"setv", "quit"}
         /\ c2s[c][1].op \in Replying => Due(c) # {} /\ (Alone(Due(c)) => Due(c) = {1} /\ Due(c)' = {})
         /\ c2s[c][1].op \notin Replying => /\ Due(c)' = {} <=> Due(c) = {}
                                            /\ Alone(Due(c)') <=> Alone(Due(c))
<1>1. c2s[c] \in Seq(RequestType)
  BY OwnFacts
<1>2. PICK q \in Seq(RequestType) : q = c2s[c]
  BY <1>1
<1>3. q # <<>> /\ Due(c) = Places(q, Awaited) /\ Due(c)' = Places(Tail(q), Awaited)
  BY <1>2, Queues, QueuesNext
<1>4. /\ Head(q) \in RequestType /\ Head(q) = q[1]
      /\ Len(q) \in Nat \ {0} /\ DOMAIN q = 1 .. Len(q) /\ DOMAIN Tail(q) = 1 .. Len(q) - 1
      /\ \A i \in 1 .. Len(q) - 1 : Tail(q)[i] = q[i + 1]
  BY <1>3, TailFacts
<1>5. Head(q) \in Awaited <=> q[1].op \in Replying
  BY <1>4 DEF Awaited
<1>6. ASSUME q[1].op \in Replying
      PROVE  Due(c) # {} /\ (Alone(Due(c)) => Due(c) = {1} /\ Due(c)' = {})
  <2>1. 1 \in Places(q, Awaited)
    BY <1>4, <1>5, <1>6 DEF Places
  <2> QED
    BY <1>3, <1>5, <1>6, <2>1, OnlyLeaves
<1>7. ASSUME q[1].op \notin Replying
      PROVE  /\ Due(c)' = {} <=> Due(c) = {}
             /\ Alone(Due(c)') <=> Alone(Due(c))
  BY <1>3, <1>5, <1>7, OtherLeaves
<1>8. q[1].op \notin {"setv", "quit"}
  BY <1>2, <1>4 DEF Plain
<1>9. Plain(c)'
  <2>1. ASSUME NEW i \in DOMAIN Tail(q) PROVE Tail(q)[i].op \notin {"setv", "quit"}
    <3>1. i + 1 \in DOMAIN q /\ Tail(q)[i] = q[i + 1]
      BY <1>4, <2>1
    <3> QED
      BY <1>2, <3>1 DEF Plain
  <2> QED
    BY <1>2, <2>1 DEF Plain
<1> QED
  BY <1>2, <1>6, <1>7, <1>8, <1>9

(* The queue is left alone.                                                *)
LEMMA SameDue ==
  ASSUME NEW c, c2s'[c] = c2s[c]
  PROVE  Due(c)' = Due(c) /\ (Plain(c)' <=> Plain(c))
BY DEF Due, Plain

(* The daemon takes a request off the queue of c: if it gets a reply, it   *)
(* is the one c waits for.                                                 *)
LEMMA ReadingStage ==
  ASSUME TypeInv, TypeInv', NEW c \in Client, c \in up, Stage(c),
         NEW op, Reading(c, op), NEW a, Answer(c, a)
  PROVE  /\ c \in attached /\ c \in Online /\ ~Listing(c) /\ c2s[c] # <<>>
         /\ c2s'[c] = Tail(c2s[c]) /\ c2s[c][1].op = op
         /\ Plain(c)' /\ op \notin {"setv", "quit"}
         /\ op \in Replying => Waiting(c) /\ Due(c) = {1} /\ Due(c)' = {} /\ Sent(c) = {}
         /\ op \notin Replying => /\ Due(c)' = {} <=> Due(c) = {}
                                  /\ Alone(Due(c)') <=> Alone(Due(c))
<1>1. TypeOK
  BY DEF TypeInv
<1>2. c \in attached /\ task[c] = Idle /\ c2s[c] # <<>> /\ c2s[c][1].op = op
  BY <1>1, ReadingFacts
<1>3. ~Listing(c)
  BY <1>2 DEF Listing, Idle
<1>4. c2s'[c] = Tail(c2s[c])
  BY ReadAnswered
<1>5. /\ Plain(c)' /\ op \notin {"setv", "quit"}
      /\ op \in Replying => Due(c) # {} /\ (Alone(Due(c)) => Due(c) = {1} /\ Due(c)' = {})
      /\ op \notin Replying => /\ Due(c)' = {} <=> Due(c) = {}
                               /\ Alone(Due(c)') <=> Alone(Due(c))
  BY <1>2, <1>4, TakenDue DEF Stage
<1>6. op \in Replying => Waiting(c) /\ Due(c) = {1} /\ Due(c)' = {} /\ Sent(c) = {}
  BY <1>2, <1>3, <1>5 DEF Stage, Asked, Listed, Replied, Quiet
<1> QED
  BY <1>2, <1>3, <1>4, <1>5, <1>6 DEF Online

(* The daemon serves c.                                                    *)
LEMMA ServedStage ==
  ASSUME TypeInv, TypeInv', NEW c \in Client, c \in up, Stage(c), DaemonStep(c)
  PROVE  Stage(c)'
<1>0. TypeOK
  BY DEF TypeInv
<1>1. UNCHANGED clientvars /\ UNCHANGED resultvars
  BY Serving DEF Served
<1>2. (Waiting(c)' <=> Waiting(c))
  <2>1. stack'[c] = stack[c] /\ cmdinprogress'[c] = cmdinprogress[c]
    BY <1>1 DEF clientvars, resultvars
  <2> QED
    BY <2>1, WaitsOn
<1>3. ASSUME NEW op, Reading(c, op), NEW a, Answer(c, a)
      PROVE  /\ c \in attached /\ c \in Online /\ ~Listing(c) /\ Plain(c)'
             /\ op \notin {"setv", "quit"}
             /\ op \in Replying => Waiting(c) /\ Due(c)' = {} /\ Sent(c) = {}
             /\ op \notin Replying => /\ Due(c)' = {} <=> Due(c) = {}
                                      /\ Alone(Due(c)') <=> Alone(Due(c))
  BY <1>3, ReadingStage
<1>4. ASSUME NEW op, NEW m \in Message, NEW a, Answers(c, op, m, a)
      PROVE  Stage(c)'
  <2>1. /\ Reading(c, op) /\ Answer(c, a) /\ op \in Replying /\ m.type \in Completion
        /\ Replies(c, m) /\ UNCHANGED <<attached, task>>
    BY <1>4 DEF Answers
  <2>2. /\ c \in Online /\ c \in attached /\ ~Listing(c) /\ Plain(c)' /\ Waiting(c)
        /\ Due(c)' = {} /\ Sent(c) = {}
    BY <1>3, <2>1
  <2>3. Sent(c)' = Sent(c) \union {Len(s2c[c]) + 1}
    BY <2>1, <2>2, ReplyPlaces
  <2>4. Alone(Sent(c)')
    BY <2>2, <2>3 DEF Alone
  <2>5. ~Listing(c)'
    BY <2>1, <2>2 DEF Listing
  <2>6. Replied(c)' /\ Waiting(c)' /\ c \in attached'
    BY <1>2, <2>1, <2>2, <2>4, <2>5 DEF Replied
  <2> QED
    BY <2>2, <2>6 DEF Stage
<1>5. ASSUME NEW L \in SUBSET Pair, NEW e \in L, Lists(c, L, e)
      PROVE  Stage(c)'
  <2> DEFINE m == Msg("VAL", e[1], e[2])
  <2>1. /\ Reading(c, "subt") /\ Answer(c, L) /\ Replies(c, m)
        /\ task' = [task EXCEPT ![c] = [kind |-> "subt", todo |-> L \ {e}]]
        /\ UNCHANGED attached
    BY <1>5 DEF Lists
  <2>2. /\ c \in Online /\ c \in attached /\ Plain(c)' /\ Waiting(c)
        /\ Due(c)' = {} /\ Sent(c) = {}
    BY <1>3, <2>1 DEF Replying
  <2>3. m \in Message /\ m.type \notin Completion
    BY ValType DEF Completion
  <2>4. Sent(c)' = {}
    BY <2>1, <2>2, <2>3, ReplyPlaces
  <2>5. L \ {e} \in SUBSET Pair
    OBVIOUS
  <2>6. Listing(c)'
    BY <1>0, <2>1, <2>5, ListingTask DEF Listing
  <2>7. Listed(c)' /\ Waiting(c)' /\ c \in attached'
    BY <1>2, <2>1, <2>2, <2>4, <2>6 DEF Listed
  <2> QED
    BY <2>2, <2>7 DEF Stage
<1>6. CASE ListsOn(c)
  <2>1. /\ Listing(c) /\ task[c].todo \in SUBSET Pair /\ c \in attached
        /\ UNCHANGED <<attached, c2s>>
    BY <1>6 DEF ListsOn, Listing
  <2>2. Waiting(c) /\ Due(c) = {} /\ Sent(c) = {} /\ Plain(c) /\ c \in Online
    BY <2>1 DEF Stage, Asked, Listed, Replied, Quiet, Online
  <2>3. Due(c)' = {} /\ Plain(c)' /\ Waiting(c)' /\ c \in attached'
    BY <1>2, <2>1, <2>2, SameDue
  <2>4. ASSUME NEW e \in task[c].todo, Replies(c, Msg("VAL", e[1], e[2])),
               task' = [task EXCEPT ![c] = [kind |-> "subt", todo |-> task[c].todo \ {e}]]
        PROVE  Listed(c)'
    <3> DEFINE m == Msg("VAL", e[1], e[2])
               T == task[c].todo \ {e}
    <3>1. m \in Message /\ m.type \notin Completion
      BY <2>1, ValType DEF Completion
    <3>2. Sent(c)' = {}
      BY <2>2, <2>4, <3>1, ReplyPlaces
    <3>3. T \in SUBSET Pair
      BY <2>1
    <3>4. PICK U \in SUBSET Pair : U = T
      BY <3>3
    <3>5. Listing(c)'
      BY <1>0, <2>4, <3>4, ListingTask DEF Listing
    <3> QED
      BY <2>3, <3>2, <3>5 DEF Listed
  <2>5. ASSUME Replies(c, Msg("OK", Root, Null)), task' = [task EXCEPT ![c] = Idle]
        PROVE  Replied(c)'
    <3> DEFINE m == Msg("OK", Root, Null)
    <3>1. m \in Message /\ m.type \in Completion
      BY OkType DEF Completion
    <3>2. Sent(c)' = Sent(c) \union {Len(s2c[c]) + 1}
      BY <2>2, <2>5, <3>1, ReplyPlaces
    <3>3. Alone(Sent(c)')
      BY <2>2, <3>2 DEF Alone
    <3>4. ~Listing(c)'
      BY <1>0, <2>5, IdleTask DEF Listing, Idle
    <3> QED
      BY <2>3, <3>3, <3>4 DEF Replied
  <2>6. Listed(c)' \/ Replied(c)'
    BY <1>6, <2>4, <2>5 DEF ListsOn
  <2> QED
    BY <2>3, <2>6 DEF Stage
<1>7. ASSUME NEW op, Changes(c, op)
      PROVE  Stage(c)'
  <2>1. /\ Reading(c, op) /\ op \in {"set", "del"} /\ Announces(Online) /\ Answer(c, "none")
        /\ NotListing(c) /\ UNCHANGED attached
    BY <1>7 DEF Changes
  <2>2. /\ c \in attached /\ ~Listing(c) /\ Plain(c)'
        /\ Due(c)' = {} <=> Due(c) = {}
        /\ Alone(Due(c)') <=> Alone(Due(c))
    BY <1>3, <2>1 DEF Replying
  <2>3. Sent(c)' = Sent(c)
    BY <1>0, <2>1, AnnounceSends, HearsPlaces
  <2>4. ~Listing(c)'
    BY <2>1 DEF NotListing, Listing
  <2>5. (Asked(c)' <=> Asked(c)) /\ (Replied(c)' <=> Replied(c)) /\ (Quiet(c)' <=> Quiet(c))
    BY <2>2, <2>3, <2>4 DEF Asked, Replied, Quiet
  <2>6. ~Listed(c) /\ c \in attached'
    BY <2>1, <2>2 DEF Listed
  <2> QED
    BY <1>2, <2>2, <2>5, <2>6 DEF Stage
<1>8. CASE GoesOn(c)
  <2>1. /\ ~Listing(c) /\ ~Listing(c)' /\ UNCHANGED <<attached, c2s>>
        /\ Announces(Online) \/ UNCHANGED <<tree, s2c>>
    BY <1>8 DEF GoesOn, NotListing, Listing
  <2>2. Hears(c)
    BY <1>0, <2>1, AnnounceSends, NothingHeard
  <2>3. Sent(c)' = Sent(c) /\ Due(c)' = Due(c) /\ (Plain(c)' <=> Plain(c))
    BY <2>1, <2>2, HearsPlaces, SameDue
  <2>4. /\ Asked(c)' <=> Asked(c)
        /\ Listed(c)' <=> Listed(c)
        /\ Replied(c)' <=> Replied(c)
        /\ Quiet(c)' <=> Quiet(c)
    BY <2>1, <2>3 DEF Asked, Listed, Replied, Quiet
  <2> QED
    BY <1>2, <2>1, <2>3, <2>4 DEF Stage
<1>9. ASSUME NEW op, Refuses(c, op) PROVE FALSE
  <2>1. /\ Reading(c, op) /\ op \in {"quit", "setv"} /\ \E a : Answer(c, a)
    BY <1>9 DEF Refuses
  <2> QED
    BY <1>3, <2>1
<1> QED
  BY <1>0, <1>4, <1>5, <1>6, <1>7, <1>8, <1>9, DaemonCases

(* The daemon lets c go.                                                   *)
LEMMA DetachedStage ==
  ASSUME TypeInv, TypeInv', NEW c \in Client, Stage(c), detach(c)
  PROVE  Stage(c)'
<1>0. TypeOK
  BY DEF TypeInv
<1>1. /\ c \in attached /\ Announces(Online \ {c}) /\ attached' = attached \ {c}
      /\ task' = [task EXCEPT ![c] = Idle] /\ c2s' = [c2s EXCEPT ![c] = <<>>]
      /\ UNCHANGED <<resultvars, clientvars>>
  BY <1>0, DetachDetaches DEF Detaches
<1>2. c2s'[c] = <<>> /\ Plain(c)'
  BY <1>0, <1>1 DEF TypeOK, Plain
<1>3. ~Listing(c)'
  BY <1>0, <1>1, IdleTask DEF Listing, Idle
<1>4. Sent(c)' = Sent(c)
  BY <1>0, <1>1, AnnounceSends, HearsPlaces
<1>5. Waiting(c)' <=> Waiting(c)
  <2>1. stack'[c] = stack[c] /\ cmdinprogress'[c] = cmdinprogress[c]
    BY <1>1 DEF clientvars, resultvars
  <2> QED
    BY <2>1, WaitsOn
<1>6. Sent(c) = {} \/ (Waiting(c) /\ Alone(Sent(c)))
  BY <1>1 DEF Stage, Asked, Listed, Replied, Quiet
<1>7. c \notin attached'
  BY <1>1
<1> QED
  BY <1>2, <1>3, <1>4, <1>5, <1>6, <1>7 DEF Stage

(* A client that may call, or whose call is over, does not wait.           *)
LEMMA CallersWaitNot ==
  ASSUME NEW c
  PROVE  /\ \A op : CanCall(c, op) => ~Waiting(c)
         /\ Unholding(c) /\ c \in up => ~Waiting(c)
BY DEF CanCall, Unholding, Waiting

(* Requests are written behind those on their way.                         *)
LEMMA WrittenDue ==
  ASSUME TypeInv, TypeInv', NEW c \in Client, NEW r \in RequestType, c2s'[c] = c2s[c] \o <<r>>,
         r.op \notin {"setv", "quit"}, Plain(c)
  PROVE  /\ Plain(c)' /\ c2s'[c][Len(c2s[c]) + 1] = r /\ Len(c2s[c]) \in Nat
         /\ r.op \in Replying => Due(c)' = Due(c) \union {Len(c2s[c]) + 1}
         /\ r.op \notin Replying => Due(c)' = Due(c)
<1>1. c2s[c] \in Seq(RequestType)
  BY OwnFacts
<1>2. PICK q \in Seq(RequestType) : q = c2s[c]
  BY <1>1
<1> DEFINE p == Append(q, r)
           n == Len(q)
<1>3. /\ p \in Seq(RequestType) /\ n \in Nat /\ DOMAIN q = 1 .. n /\ DOMAIN p = 1 .. n + 1
      /\ \A i \in 1 .. n : p[i] = q[i]
      /\ p[n + 1] = r /\ q \o <<r>> = p
  BY AppendFacts
<1>4. /\ r \in Awaited => Places(p, Awaited) = Places(q, Awaited) \union {n + 1}
      /\ r \notin Awaited => Places(p, Awaited) = Places(q, Awaited)
  BY PlacesAppend
<1> HIDE DEF p
<1>5. c2s'[c] = p
  BY <1>2, <1>3
<1>6. Due(c) = Places(q, Awaited) /\ Due(c)' = Places(p, Awaited)
  BY <1>2, <1>5, Queues, QueuesNext
<1>7. r \in Awaited <=> r.op \in Replying
  BY DEF Awaited
<1>8. Plain(c)'
  <2>1. \A i \in 1 .. n : q[i].op \notin {"setv", "quit"}
    BY <1>2, <1>3 DEF Plain
  <2>2. 1 .. n + 1 = (1 .. n) \union {n + 1}
    BY <1>3
  <2>3. \A i \in DOMAIN p : p[i].op \notin {"setv", "quit"}
    BY <1>3, <2>1, <2>2
  <2> QED
    BY <1>5, <2>3 DEF Plain
<1> QED
  BY <1>2, <1>3, <1>4, <1>5, <1>6, <1>7, <1>8

(* The client calls and waits for a reply.                                 *)
LEMMA CalledStage ==
  ASSUME TypeInv, TypeInv', NEW c \in Client, NEW op, NEW k, Calls(c, op, k), Stage(c)
  PROVE  Stage(c)' /\ Waiting(c)'
<1>1. /\ CanCall(c, op) /\ op \in Replying /\ k \in Key
      /\ Write(c, <<Request(op, k, Null)>>) /\ do_select(c, Frame(op, k, nreq'[c], <<>>))
      /\ UNCHANGED <<attached, task, s2c>>
  BY DEF Calls, daemonvars
<1> DEFINE r == Request(op, k, Null)
<1>2. r \in RequestType /\ r.op = op /\ <<r>> \in Seq(RequestType)
  BY <1>1, RequestMade
<1>3. op \notin {"setv", "quit"}
  BY <1>1 DEF Replying
<1>4. c2s'[c] = c2s[c] \o <<r>>
  BY <1>1, <1>2, WriteFacts
<1> HIDE DEF r
<1>5. Plain(c)' /\ Due(c)' = Due(c) \union {Len(c2s[c]) + 1}
  BY <1>1, <1>2, <1>3, <1>4, WrittenDue DEF Stage
<1>6. ~Waiting(c) /\ Sent(c)' = Sent(c) /\ (Listing(c)' <=> Listing(c))
  BY <1>1, CallersWaitNot DEF Sent, Listing
<1>7. Waiting(c)'
  <2> DEFINE f == Frame(op, k, nreq'[c], <<>>)
  <2>1. f.op = op /\ f.phase = "wait"
    BY DEF Frame
  <2> HIDE DEF f
  <2>2. /\ stack' = [stack EXCEPT ![c] = Append(@, f)]
        /\ cmdinprogress' = [cmdinprogress EXCEPT ![c] = TRUE]
    BY <1>1 DEF do_select, Push, f
  <2>3. stack[c] \in Seq(FrameType) /\ stack \in [Client -> Seq(FrameType)]
        /\ cmdinprogress \in [Client -> BOOLEAN]
    BY DEF TypeInv, TypeOK
  <2>4. cmdinprogress'[c] = TRUE /\ stack'[c] = Append(stack[c], f)
    BY <2>2, <2>3
  <2>5. stack'[c] # <<>> /\ stack'[c][Len(stack'[c])] = f
    BY <2>3, <2>4
  <2> QED
    BY <1>1, <2>1, <2>4, <2>5 DEF Waiting, Top
<1>8. CASE c \in attached
  <2>1. Due(c) = {} /\ ~Listing(c) /\ Sent(c) = {}
    BY <1>6, <1>8 DEF Stage, Quiet
  <2>2. Alone(Due(c)')
    BY <1>5, <2>1 DEF Alone
  <2>3. Asked(c)'
    BY <1>6, <2>1, <2>2 DEF Asked
  <2> QED
    BY <1>1, <1>5, <1>7, <1>8, <2>3 DEF Stage
<1>9. CASE c \notin attached
  <2>1. ~Listing(c) /\ Sent(c) = {}
    BY <1>6, <1>9 DEF Stage
  <2> QED
    BY <1>1, <1>5, <1>6, <1>7, <1>9, <2>1 DEF Stage
<1> QED
  BY <1>7, <1>8, <1>9

(* The client sets a pair.                                                 *)
LEMMA WroteSetStage ==
  ASSUME TypeInv, TypeInv', NEW c \in Client, NEW k \in Key, NEW v \in Value \union {Null},
         Write(c, <<SetRequest(k, v)>>), Stage(c), ~Waiting(c), ~Waiting(c)',
         UNCHANGED <<attached, task, s2c>>
  PROVE  Stage(c)'
<1> DEFINE r == SetRequest(k, v)
<1>1. r \in RequestType /\ r.op \in {"set", "del"} /\ <<r>> \in Seq(RequestType)
  BY SetRequestMade
<1> HIDE DEF r
<1>2. Write(c, <<r>>)
  BY DEF r
<1>3. c2s'[c] = c2s[c] \o <<r>>
  BY <1>1, <1>2, WriteFacts
<1>4. r.op \notin {"setv", "quit"} /\ r.op \notin Replying
  BY <1>1 DEF Replying
<1>5. Plain(c)' /\ Due(c)' = Due(c)
  BY <1>1, <1>3, <1>4, WrittenDue DEF Stage
<1>6. Sent(c)' = Sent(c) /\ (Listing(c)' <=> Listing(c)) /\ (c \in attached' <=> c \in attached)
  BY DEF Sent, Listing
<1>7. Quiet(c)' <=> Quiet(c)
  BY <1>5, <1>6 DEF Quiet
<1> QED
  BY <1>5, <1>6, <1>7 DEF Stage

LEMMA SetStage ==
  ASSUME TypeInv, TypeInv', NEW c \in Client, NEW op, NEW p, Sets(c, op, p), Stage(c)
  PROVE  Stage(c)' /\ ~Waiting(c) /\ ~Waiting(c)'
         /\ stack[c] \in Seq(FrameType)
         /\ \E f \in FrameType : f.op = "set" /\ stack'[c] = Append(stack[c], f)
<1> DEFINE k == p[1][1]
           v == p[1][2]
           f == Frame("set", k, nreq'[c], Tail(p))
<1>1. /\ CanCall(c, op) /\ Write(c, <<SetRequest(k, v)>>) /\ Push(c, f)
      /\ UNCHANGED <<attached, task, s2c>> /\ p \in Seq(Pair) /\ p # <<>>
  BY DEF Sets, set, daemonvars
<1>2. k \in Key /\ v \in Value \union {Null} /\ Tail(p) \in Seq(Pair)
  <2>1. p[1] \in Pair /\ Tail(p) \in Seq(Pair)
    BY <1>1, TailFacts
  <2> QED
    BY <2>1 DEF Pair
<1>3. f.op = "set" /\ f \in FrameType
  <2>1. nreq'[c] \in Nat
    BY DEF TypeInv, TypeOK
  <2>2. PICK n \in Nat : n = nreq'[c]
    BY <2>1
  <2> HIDE DEF k
  <2> QED
    BY <1>2, <2>2 DEF Frame, FrameType
<1> HIDE DEF f
<1>4. stack[c] \in Seq(FrameType) /\ stack \in [Client -> Seq(FrameType)]
  BY DEF TypeInv, TypeOK
<1>5. stack'[c] = Append(stack[c], f)
  BY <1>1, <1>4 DEF Push
<1>6. stack'[c] # <<>> /\ stack'[c][Len(stack'[c])] = f
  BY <1>3, <1>4, <1>5
<1>7. ~Waiting(c)'
  BY <1>3, <1>6 DEF Waiting, Top, Replying
<1>8. ~Waiting(c)
  BY <1>1, CallersWaitNot
<1>9. Stage(c)'
  <2>1. k \in Key /\ v \in Value \union {Null} /\ Write(c, <<SetRequest(k, v)>>)
    BY <1>1, <1>2
  <2> HIDE DEF k, v
  <2> QED
    BY <1>1, <1>7, <1>8, <2>1, WroteSetStage
<1> QED
  BY <1>3, <1>4, <1>5, <1>7, <1>8, <1>9

LEMMA SetNextStage ==
  ASSUME TypeInv, TypeInv', NEW c \in Client, set_next(c), Stage(c)
  PROVE  Stage(c)' /\ ~Waiting(c) /\ ~Waiting(c)'
<1> DEFINE p == Head(Top(c).rest)
<1>1. /\ stack[c] # <<>> /\ Top(c).rest # <<>> /\ Write(c, <<SetRequest(p[1], p[2])>>)
      /\ UNCHANGED <<attached, task, s2c>>
  BY DEF set_next, daemonvars
<1>2. Top(c).rest \in Seq(Pair) /\ Top(c).op = "set"
  BY <1>1, TopFacts, SetNextKeeps
<1>3. p \in Pair
  BY <1>1, <1>2, TailFacts
<1> HIDE DEF p
<1>4. p[1] \in Key /\ p[2] \in Value \union {Null}
  BY <1>3 DEF Pair
<1>5. ~Waiting(c)
  BY <1>2 DEF Waiting, Replying
<1>6. ~Waiting(c)'
  <2>1. Len(stack'[c]) = Len(stack[c]) /\ stack'[c][Len(stack[c])].op = "set"
    BY SetNextKeeps
  <2>2. stack'[c][Len(stack'[c])].op = "set"
    BY <2>1
  <2> QED
    BY <2>2 DEF Waiting, Top, Replying
<1> QED
  BY <1>1, <1>4, <1>5, <1>6, WroteSetStage

(* The client reads a message: a completion reply ends the wait, anything  *)
(* else leaves it as it is.                                                *)
LEMMA ReadStage ==
  ASSUME TypeInv, TypeInv', NEW c \in Client, conncallback(c), Stage(c)
  PROVE  /\ Stage(c)'
         /\ IF Head(s2c[c]).type \in Completion THEN Waiting(c) /\ ~Waiting(c)'
                                                ELSE Waiting(c)' <=> Waiting(c)
<1>1. /\ s2c[c] # <<>> /\ s2c'[c] = Tail(s2c[c])
      /\ UNCHANGED <<daemonvars, c2s, up, stack, nreq, answer>>
  BY ReadKeeps
<1>2. s2c[c] \in Seq(Message) /\ cmdinprogress \in [Client -> BOOLEAN]
  BY DEF TypeInv, TypeOK
<1>3. PICK q \in Seq(Message) : q = s2c[c]
  BY <1>2
<1>4. /\ q # <<>> /\ Sent(c) = Places(q, Completing) /\ Sent(c)' = Places(Tail(q), Completing)
  BY <1>1, <1>3, Queues, QueuesNext
<1>5. Head(q) \in Message
  BY <1>4, TailFacts
<1>6. Head(q) \in Completing <=> Head(q).type \in Completion
  BY <1>5 DEF Completing
<1>7. /\ Due(c)' = Due(c) /\ (Plain(c)' <=> Plain(c)) /\ (Listing(c)' <=> Listing(c))
      /\ (c \in attached' <=> c \in attached) /\ stack'[c] = stack[c]
  BY <1>1, SameDue DEF Listing, daemonvars
<1>8. LET m == Head(q)
      IN \/ on_hello(c, m) \/ on_ok(c, m) \/ on_fail(c, m) \/ on_value(c, m)
         \/ on_part(c, m) \/ on_notice(c, m)
  BY <1>3 DEF conncallback
<1>9. CASE Head(q).type \in Completion
  <2>1. 1 \in Places(q, Completing)
    <3>1. Head(q) = q[1] /\ DOMAIN q = 1 .. Len(q) /\ Len(q) \in Nat \ {0}
      BY <1>4, TailFacts
    <3> QED
      BY <1>6, <1>9, <3>1 DEF Places
  <2>2. Waiting(c) /\ Alone(Sent(c))
    BY <1>4, <2>1 DEF Stage, Asked, Listed, Replied, Quiet
  <2>3. Sent(c)' = {}
    BY <1>4, <1>6, <1>9, <2>2, OnlyLeaves
  <2>4. c \in attached => Replied(c)
    BY <1>4, <2>1, <2>2 DEF Stage, Asked, Listed
  <2>5. Complete(c, TRUE) \/ Complete(c, FALSE)
    BY <1>8, <1>9 DEF on_hello, on_ok, on_fail, on_value, on_part, on_notice, Completion
  <2>6. cmdinprogress'[c] = FALSE
    BY <1>2, <2>5 DEF Complete
  <2>7. ~Waiting(c)'
    BY <2>6 DEF Waiting
  <2>8. c \in attached => Quiet(c)'
    BY <1>7, <2>3, <2>4 DEF Replied, Quiet
  <2>9. Stage(c)'
    BY <1>7, <2>3, <2>7, <2>8 DEF Stage
  <2> QED
    BY <1>3, <1>9, <2>2, <2>7, <2>9
<1>10. CASE Head(q).type \notin Completion
  <2>1. /\ Sent(c) = {} <=> Sent(c)' = {}
        /\ Alone(Sent(c)) <=> Alone(Sent(c)')
    BY <1>4, <1>6, <1>10, OtherLeaves
  <2>2. UNCHANGED cmdinprogress
    BY <1>8, <1>10 DEF on_hello, on_ok, on_fail, on_value, on_part, on_notice, Completion, resultvars
  <2>3. Waiting(c)' <=> Waiting(c)
    BY <1>7, <2>2, WaitsOn
  <2>4. /\ Asked(c)' <=> Asked(c)
        /\ Listed(c)' <=> Listed(c)
        /\ Replied(c)' <=> Replied(c)
        /\ Quiet(c)' <=> Quiet(c)
    BY <1>7, <2>1 DEF Asked, Listed, Replied, Quiet
  <2>5. Stage(c)'
    BY <1>7, <2>1, <2>3, <2>4 DEF Stage
  <2> QED
    BY <1>3, <1>10, <2>3, <2>5
<1> QED
  BY <1>9, <1>10

(* A callback is called, or a call returns.                                *)
LEMMA OverStage ==
  ASSUME TypeInv, TypeInv', NEW c \in Client, flush_delta(c) \/ return(c), c \in up, Stage(c)
  PROVE  Stage(c)' /\ ~Waiting(c) /\ ~Waiting(c)'
<1>1. Unholding(c) /\ UNCHANGED <<daemonvars, c2s, s2c>>
  BY DEF flush_delta, return
<1>2. ~Waiting(c)
  BY <1>1, CallersWaitNot
<1>3. ~Waiting(c)'
  <2>1. CASE flush_delta(c)
    <3>1. /\ Len(stack'[c]) = 1 /\ stack'[c][1] = [Top(c) EXCEPT !.phase = "callback"]
          /\ Top(c) \in FrameType
      BY <2>1, FlushKeeps
    <3>2. stack'[c][1].phase = "callback"
      BY <3>1 DEF FrameType
    <3> QED
      BY <3>1, <3>2 DEF Waiting, Top
  <2>2. CASE return(c)
    <3>1. \/ stack'[c] = <<>>
          \/ Len(stack'[c]) = 1 /\ stack'[c][1].phase = "callback"
      BY <2>2, ReturnKeeps
    <3> QED
      BY <3>1 DEF Waiting, Top
  <2> QED
    BY <2>1, <2>2
<1>4. /\ Due(c)' = Due(c) /\ (Plain(c)' <=> Plain(c)) /\ (Listing(c)' <=> Listing(c))
      /\ Sent(c)' = Sent(c) /\ (c \in attached' <=> c \in attached)
  BY <1>1, SameDue DEF Listing, Sent, daemonvars
<1>5. Quiet(c)' <=> Quiet(c)
  BY <1>4 DEF Quiet
<1> QED
  BY <1>2, <1>3, <1>4, <1>5 DEF Stage

(* A connection that is lost is not made again.                            *)
LEMMA UpShrinks ==
  ASSUME TypeInv, NEW c \in Client,
         DaemonStep(c) \/ CallStep(c) \/ ClientStep(c) \/ timeout(c) \/ detach(c)
  PROVE  up' \subseteq up
<1>1. CASE DaemonStep(c) \/ detach(c)
  BY <1>1, Serving DEF Served, clientvars
<1>2. CASE CallStep(c)
  BY <1>2, CallChanges
<1>3. CASE ClientStep(c) \/ timeout(c)
  BY <1>3 DEF ClientStep, conncallback, flush_delta, return, set_next, eof, timeout
<1> QED
  BY <1>1, <1>2, <1>3

(* A client that does not use SETV, and stays online.                      *)
LEMMA OwnStage ==
  ASSUME TypeInv, TypeInv', NEW c \in Client, c \in up, c \in up', "setv" \notin Op[c], Stage(c),
         DaemonStep(c) \/ CallStep(c) \/ ClientStep(c) \/ timeout(c) \/ detach(c)
  PROVE  Stage(c)'
<1>1. CASE DaemonStep(c)
  BY <1>1, ServedStage
<1>2. CASE detach(c)
  BY <1>2, DetachedStage
<1>3. CASE CallStep(c)
  <2>1. ASSUME NEW p, NEW q, setv(c, p, q) PROVE FALSE
    <3>1. CanCall(c, "setv")
      BY <2>1 DEF setv
    <3>2. "setv" \in Op[c]
      BY <3>1, ProtocolAssumption DEF CanCall
    <3> QED
      BY <3>2
  <2>2. ~quit(c)
    BY DEF quit
  <2> QED
    BY <1>3, <2>1, <2>2, CallCases, CalledStage, SetStage
<1>4. CASE ClientStep(c) \/ timeout(c)
  <2>1. ~eof(c) /\ ~timeout(c)
    BY LostKeeps
  <2> QED
    BY <1>4, <2>1, ReadStage, OverStage, SetNextStage DEF ClientStep
<1> QED
  BY <1>1, <1>2, <1>3, <1>4

LEMMA StageStep == TypeInv /\ StageInv /\ [Next]_vars => StageInv'
<1> SUFFICES ASSUME TypeInv, StageInv, [Next]_vars, NEW x \in up', "setv" \notin Op[x]
             PROVE  Stage(x)'
  BY DEF StageInv
<1>1. CASE UNCHANGED vars
  <2>1. x \in up /\ UNCHANGED <<attached, task, c2s, s2c, stack, cmdinprogress>>
    BY <1>1 DEF vars, daemonvars, clientvars, resultvars
  <2>2. Stage(x)
    BY <2>1 DEF StageInv
  <2>3. /\ Due(x)' = Due(x) /\ Sent(x)' = Sent(x) /\ (Plain(x)' <=> Plain(x))
        /\ (Listing(x)' <=> Listing(x)) /\ (Waiting(x)' <=> Waiting(x))
    BY <2>1 DEF Due, Sent, Plain, Listing, Waiting, Top
  <2>4. /\ Asked(x)' <=> Asked(x)
        /\ Listed(x)' <=> Listed(x)
        /\ Replied(x)' <=> Replied(x)
        /\ Quiet(x)' <=> Quiet(x)
    BY <2>3 DEF Asked, Listed, Replied, Quiet
  <2> QED
    BY <2>1, <2>2, <2>3, <2>4 DEF Stage
<1>2. CASE Next
  <2>1. PICK c \in Client :
          /\ Keeps(c)
          /\ DaemonStep(c) \/ CallStep(c) \/ ClientStep(c) \/ timeout(c) \/ detach(c)
    BY <1>2, StepKeeps
  <2>2. TypeInv' /\ x \in Client
    BY <2>1 DEF Keeps, TypeInv, TypeOK
  <2>3. CASE x # c
    <3>1. Untouched(x)
      BY <2>1, <2>2, <2>3 DEF Keeps
    <3>2. Stage(x)
      BY <3>1 DEF Untouched, StageInv
    <3> QED
      BY <2>2, <3>1, <3>2, UntouchedStage
  <2>4. CASE x = c
    <3>1. c \in up
      <4>1. up' \subseteq up
        BY <2>1, UpShrinks
      <4> QED
        BY <2>4, <4>1
    <3>2. Stage(c)
      BY <2>4, <3>1 DEF StageInv
    <3> QED
      BY <2>1, <2>2, <2>4, <3>1, <3>2, OwnStage
  <2> QED
    BY <2>3, <2>4
<1> QED
  BY <1>1, <1>2

LEMMA InitStage == Init => StageInv
<1> SUFFICES ASSUME Init, NEW c \in up PROVE Stage(c)
  BY DEF StageInv
<1>1. /\ c \in Client /\ c \in attached /\ c2s[c] = <<>> /\ stack[c] = <<>>
      /\ task[c] = Idle /\ s2c[c] = <<Msg("HELLO", Root, Null)>>
  BY DEF Init
<1>2. Due(c) = {} /\ Plain(c)
  BY <1>1 DEF Due, Plain
<1>3. Sent(c) = {}
  <2>1. \A i \in DOMAIN s2c[c] : s2c[c][i].type = "HELLO"
    BY <1>1 DEF Msg
  <2> QED
    BY <2>1 DEF Sent, Completion
<1>4. ~Listing(c) /\ ~Waiting(c)
  BY <1>1 DEF Listing, Idle, Waiting
<1> QED
  BY <1>1, <1>2, <1>3, <1>4 DEF Stage, Quiet

(* Exactly one completion reply is under way to a client that waits, none  *)
(* to one that does not: no reply is left over to be taken for the answer  *)
(* to the next request, whatever the other clients do, and whichever       *)
(* requests callbacks make (UniClientGen::do_select).                      *)
THEOREM NoReplyStrays == Spec => []NoStrayReply
<1>1. TypeInv /\ StageInv => NoStrayReply
  BY StageCounts
<1> QED
  BY <1>1, InitStage, StageStep, Types, PTL DEF Spec

----------------------------------------------------------------------------
(* The answer that comes is the one to the request that is waited for.     *)
Caller(c) == stack[c][1]

(* The entries of a listing the client has, and those on their way to it.  *)
Parts(c) == result_list[c] \union {<<s2c[c][i].key, s2c[c][i].value>> : i \in Vals(c)}

(* m completes the call f with what the daemon answered to its request.    *)
Matches(c, f, m) ==
  LET a == answer[c][f.id]
  IN IF f.op = "subt" THEN \/ m.type = "OK" /\ IsList(a) /\ Parts(c) = a
                           \/ m.type = "FAIL" /\ a = NoList
                      ELSE Fits(f.op, f.key, m, a)

ValueOf(c, f) ==
  LET mine == cmdsuccess[c] /\ result_key[c] = f.key
  IN CASE f.op = "get"    -> IF mine THEN result[c] ELSE Null
       [] f.op = "hchild" -> IF mine /\ result[c] = "TRUE" THEN "TRUE" ELSE "FALSE"
       [] f.op = "commit" -> IF cmdsuccess[c] THEN "OK" ELSE "FAIL"
       [] f.op = "subt"   -> IF cmdsuccess[c] THEN result_list[c] ELSE NoList

(* The request of the call f is on its way, being listed, or answered.     *)
Pending(c, f) ==
  /\ c \in attached =>
       \A i \in Due(c) :
         /\ c2s[c][i].op = f.op /\ c2s[c][i].key = f.key
         /\ Len(answer[c]) + i = f.id
         /\ Vals(c) = {} /\ (f.op = "subt" => result_list[c] = {})
  /\ Listing(c) =>
       /\ f.op = "subt" /\ f.id \in DOMAIN answer[c]
       /\ IsList(answer[c][f.id])
       /\ Parts(c) \union task[c].todo = answer[c][f.id]
  /\ \A j \in Sent(c) :
       /\ \A i \in Vals(c) : i < j
       /\ f.id \in DOMAIN answer[c]
       /\ Matches(c, f, s2c[c][j])

Done(c, f) == f.id \in DOMAIN answer[c] /\ ValueOf(c, f) = answer[c][f.id]

Shallow(c) == \A i \in DOMAIN stack[c] : i # 1 => stack[c][i].op \notin Replying

InOrder(c) ==
  /\ Shallow(c)
  /\ ~Waiting(c) => Vals(c) = {}
  /\ stack[c] # <<>> /\ Caller(c).op \in Replying =>
       IF Waiting(c) THEN Pending(c, Caller(c)) ELSE Done(c, Caller(c))

OrderInv == \A c \in up : Orderly(c) => InOrder(c)

LEMMA PartsKept ==
  ASSUME NEW c, Vals(c)' = Vals(c), \A i \in Vals(c) : s2c'[c][i] = s2c[c][i],
         result_list'[c] = result_list[c]
  PROVE  Parts(c)' = Parts(c)
<1> DEFINE P == {<<s2c[c][i].key, s2c[c][i].value>> : i \in Vals(c)}
           Q == {<<s2c'[c][i].key, s2c'[c][i].value>> : i \in Vals(c)'}
<1>1. P = Q
  OBVIOUS
<1>2. Parts(c) = result_list[c] \union P /\ Parts(c)' = result_list'[c] \union Q
  BY DEF Parts
<1> QED
  BY <1>1, <1>2

LEMMA DoneKept ==
  ASSUME NEW c, NEW f, cmdsuccess'[c] = cmdsuccess[c], result_key'[c] = result_key[c],
         result'[c] = result[c], result_list'[c] = result_list[c], Done(c, f),
         \A i \in DOMAIN answer[c] : i \in DOMAIN answer'[c] /\ answer'[c][i] = answer[c][i]
  PROVE  Done(c, f)'
<1>1. ValueOf(c, f)' = ValueOf(c, f)
  BY DEF ValueOf
<1> QED
  BY <1>1 DEF Done

(* Nothing happens to the messages and the answers of c.                   *)
LEMMA PendingKept ==
  ASSUME TypeInv, NEW c \in Client, NEW f, Sent(c)' = Sent(c), Vals(c)' = Vals(c),
         \A i \in DOMAIN s2c[c] : s2c'[c][i] = s2c[c][i],
         result_list'[c] = result_list[c], answer'[c] = answer[c],
         c \in attached' => c \in attached /\ c2s'[c] = c2s[c],
         Listing(c)' => Listing(c) /\ task'[c] = task[c],
         Pending(c, f)
  PROVE  Pending(c, f)'
<1>1. Vals(c) \subseteq DOMAIN s2c[c] /\ Sent(c) \subseteq DOMAIN s2c[c]
  BY DEF Vals, Sent
<1>2. Parts(c)' = Parts(c)
  BY <1>1, PartsKept
<1>3. c \in attached' => Due(c)' = Due(c)
  BY DEF Due
<1>4. c \in attached' =>
        \A i \in Due(c)' :
          /\ c2s'[c][i].op = f.op /\ c2s'[c][i].key = f.key
          /\ Len(answer'[c]) + i = f.id
          /\ Vals(c)' = {} /\ (f.op = "subt" => result_list'[c] = {})
  BY <1>3 DEF Pending
<1>5. Listing(c)' =>
        /\ f.op = "subt" /\ f.id \in DOMAIN answer'[c]
        /\ IsList(answer'[c][f.id])
        /\ Parts(c)' \union task'[c].todo = answer'[c][f.id]
  BY <1>2 DEF Pending
<1>6. ASSUME NEW j \in Sent(c)'
      PROVE  /\ \A i \in Vals(c)' : i < j
             /\ f.id \in DOMAIN answer'[c]
             /\ Matches(c, f, s2c[c][j])'
  <2>1. /\ j \in Sent(c) /\ \A i \in Vals(c) : i < j
        /\ f.id \in DOMAIN answer[c] /\ Matches(c, f, s2c[c][j])
    BY <1>6 DEF Pending
  <2>2. s2c'[c][j] = s2c[c][j]
    BY <1>1, <2>1
  <2>3. Matches(c, f, s2c[c][j])'
    BY <1>2, <2>1, <2>2 DEF Matches
  <2> QED
    BY <2>1, <2>3
<1> QED
  BY <1>4, <1>5, <1>6 DEF Pending

(* A client that waits has one call, its own.                              *)
LEMMA WaitingCalls ==
  ASSUME TypeInv, NEW c \in Client, Waiting(c), Shallow(c)
  PROVE  stack[c] # <<>> /\ Top(c) = Caller(c) /\ Caller(c).op \in Replying
<1>1. stack[c] # <<>> /\ Top(c).op \in Replying
  BY DEF Waiting
<1>2. Len(stack[c]) \in DOMAIN stack[c] /\ Top(c) = stack[c][Len(stack[c])]
  BY <1>1, TopFacts
<1> DEFINE n == Len(stack[c])
<1> HIDE DEF n
<1>3. n = 1
  BY <1>1, <1>2 DEF Shallow, n
<1>4. Top(c) = Caller(c)
  BY <1>2, <1>3 DEF n, Caller
<1> QED
  BY <1>1, <1>4

LEMMA UntouchedOrder ==
  ASSUME TypeInv, TypeInv', NEW c \in Client, Untouched(c), InOrder(c)
  PROVE  InOrder(c)'
<1>1. /\ c \in attached' <=> c \in attached
      /\ task'[c] = task[c] /\ c2s'[c] = c2s[c] /\ Hears(c) /\ answer'[c] = answer[c]
      /\ stack'[c] = stack[c] /\ cmdinprogress'[c] = cmdinprogress[c]
      /\ cmdsuccess'[c] = cmdsuccess[c] /\ result_key'[c] = result_key[c]
      /\ result'[c] = result[c] /\ result_list'[c] = result_list[c]
  BY DEF Untouched
<1>2. /\ Sent(c)' = Sent(c) /\ Vals(c)' = Vals(c)
      /\ \A i \in DOMAIN s2c[c] : s2c'[c][i] = s2c[c][i]
  BY <1>1, HearsPlaces
<1>3. Waiting(c)' <=> Waiting(c)
  BY <1>1, WaitsOn
<1>4. Listing(c)' <=> Listing(c)
  BY <1>1 DEF Listing
<1>5. Shallow(c)' /\ Caller(c)' = Caller(c)
  BY <1>1 DEF InOrder, Shallow, Caller
<1>6. ASSUME NEW f, Pending(c, f) PROVE Pending(c, f)'
  BY <1>1, <1>2, <1>4, <1>6, PendingKept
<1>7. ASSUME NEW f, Done(c, f) PROVE Done(c, f)'
  BY <1>1, <1>7, DoneKept
<1>8. ASSUME stack[c] # <<>>, Caller(c).op \in Replying
      PROVE  IF Waiting(c) THEN Pending(c, Caller(c))' ELSE Done(c, Caller(c))'
  <2>1. PICK f : f = Caller(c)
    OBVIOUS
  <2>2. f = Caller(c)'
    BY <1>5, <2>1
  <2>3. IF Waiting(c) THEN Pending(c, f) ELSE Done(c, f)
    BY <1>8, <2>1 DEF InOrder
  <2>4. IF Waiting(c) THEN Pending(c, f)' ELSE Done(c, f)'
    BY <1>6, <1>7, <2>3
  <2>5. (Pending(c, f)' => Pending(c, Caller(c))') /\ (Done(c, f)' => Done(c, Caller(c))')
    BY <2>2
  <2> QED
    BY <2>4, <2>5
<1> QED
  BY <1>1, <1>2, <1>3, <1>5, <1>8 DEF InOrder

(* The client waits, and the daemon answers its request.                   *)
LEMMA AnsweredOrder ==
  ASSUME TypeInv, TypeInv', NEW c \in Client, c \in up, Stage(c),
         NEW op, NEW m \in Message, NEW a, Answers(c, op, m, a),
         NEW f, f.id \in Nat, Pending(c, f)
  PROVE  Pending(c, f)'
<1>0. TypeOK
  BY DEF TypeInv
<1>1. /\ Reading(c, op) /\ op \in Replying /\ Fits(op, Arg(c).key, m, a)
      /\ m.type \in Completion /\ Replies(c, m) /\ Answer(c, a) /\ UNCHANGED <<attached, task>>
  BY DEF Answers
<1>2. /\ c \in attached /\ c \in Online /\ ~Listing(c)
      /\ Due(c) = {1} /\ Due(c)' = {} /\ Sent(c) = {}
  BY <1>1, ReadingStage
<1>3. Arg(c) = c2s[c][1] /\ Arg(c).op = op /\ UNCHANGED resultvars
  BY <1>0, <1>1, ReadingFacts
<1>4. /\ op = f.op /\ Arg(c).key = f.key /\ Len(answer[c]) + 1 = f.id
      /\ Vals(c) = {} /\ (f.op = "subt" => result_list[c] = {})
  BY <1>2, <1>3 DEF Pending
<1>5. answer'[c] = Append(answer[c], a) /\ IsSeq(answer[c])
  BY <1>1, ReadAnswered, OwnFacts
<1>6. f.id \in DOMAIN answer'[c] /\ answer'[c][f.id] = a
  <2>1. PICK b : b = answer[c]
    OBVIOUS
  <2>2. /\ Len(b) \in Nat /\ DOMAIN Append(b, a) = 1 .. Len(b) + 1
        /\ Append(b, a)[Len(b) + 1] = a
    BY <1>5, <2>1, IsSeqAppend
  <2> DEFINE n == Len(b)
  <2>3. n \in Nat /\ DOMAIN Append(b, a) = 1 .. n + 1 /\ n + 1 = f.id
    BY <1>4, <2>1, <2>2
  <2> HIDE DEF n
  <2>4. f.id \in 1 .. n + 1
    BY <2>3
  <2> QED
    BY <1>4, <1>5, <2>1, <2>2, <2>3, <2>4 DEF n
<1>7. /\ Sent(c)' = {Len(s2c[c]) + 1} /\ Vals(c)' = {} /\ s2c'[c][Len(s2c[c]) + 1] = m
  <2>1. m.type # "VAL"
    BY <1>1 DEF Completion
  <2>2. /\ Sent(c)' = Sent(c) \union {Len(s2c[c]) + 1} /\ Vals(c)' = Vals(c)
        /\ s2c'[c][Len(s2c[c]) + 1] = m
    BY <1>1, <1>2, <2>1, ReplyPlaces
  <2> QED
    BY <1>2, <1>4, <2>2
<1>8. Matches(c, f, m)'
  <2>1. CASE f.op = "subt"
    <3>1. (m.type = "OK" /\ a = {}) \/ (m.type = "FAIL" /\ a = NoList)
      BY <1>1, <1>4, <2>1 DEF Fits
    <3>2. Parts(c)' = {}
      <4>1. result_list'[c] = {}
        BY <1>3, <1>4, <2>1 DEF resultvars
      <4> QED
        BY <1>7, <4>1 DEF Parts
    <3> QED
      BY <1>6, <2>1, <3>1, <3>2 DEF Matches, IsList
  <2>2. CASE f.op # "subt"
    <3>1. Fits(f.op, f.key, m, a)
      BY <1>1, <1>4
    <3> QED
      BY <1>6, <2>2, <3>1 DEF Matches
  <2> QED
    BY <2>1, <2>2
<1>9. ~Listing(c)'
  BY <1>1, <1>2 DEF Listing
<1>10. ASSUME NEW j \in Sent(c)' PROVE Matches(c, f, s2c[c][j])'
  <2>1. s2c'[c][j] = m
    BY <1>7, <1>10
  <2> QED
    BY <1>8, <2>1 DEF Matches
<1> QED
  BY <1>2, <1>6, <1>7, <1>9, <1>10 DEF Pending

LEMMA PartsGrow ==
  ASSUME NEW c, NEW n, NEW e, Vals(c)' = Vals(c) \union {n},
         \A i \in Vals(c) : s2c'[c][i] = s2c[c][i],
         e = <<s2c'[c][n].key, s2c'[c][n].value>>,
         result_list'[c] = result_list[c]
  PROVE  Parts(c)' = Parts(c) \union {e}
<1> DEFINE P == {<<s2c[c][i].key, s2c[c][i].value>> : i \in Vals(c)}
           Q == {<<s2c'[c][i].key, s2c'[c][i].value>> : i \in Vals(c)'}
<1>1. Q = P \union {e}
  OBVIOUS
<1>2. Parts(c) = result_list[c] \union P /\ Parts(c)' = result_list'[c] \union Q
  BY DEF Parts
<1> QED
  BY <1>1, <1>2

(* It begins to list, ...                                                  *)
LEMMA ListedOrder ==
  ASSUME TypeInv, TypeInv', NEW c \in Client, c \in up, Stage(c),
         NEW L \in SUBSET Pair, NEW e \in L, Lists(c, L, e),
         NEW f, f.id \in Nat, Pending(c, f)
  PROVE  Pending(c, f)'
<1>0. TypeOK
  BY DEF TypeInv
<1> DEFINE m == Msg("VAL", e[1], e[2])
<1>1. /\ Reading(c, "subt") /\ Replies(c, m) /\ Answer(c, L) /\ IsList(L)
      /\ task' = [task EXCEPT ![c] = [kind |-> "subt", todo |-> L \ {e}]]
      /\ UNCHANGED attached
  BY DEF Lists
<1>2. /\ c \in attached /\ c \in Online /\ ~Listing(c)
      /\ Due(c) = {1} /\ Due(c)' = {} /\ Sent(c) = {}
  BY <1>1, ReadingStage DEF Replying
<1>3. Arg(c) = c2s[c][1] /\ Arg(c).op = "subt" /\ UNCHANGED resultvars
  BY <1>0, <1>1, ReadingFacts
<1>4. /\ f.op = "subt" /\ Len(answer[c]) + 1 = f.id
      /\ Vals(c) = {} /\ result_list[c] = {}
  BY <1>2, <1>3 DEF Pending
<1>5. answer'[c] = Append(answer[c], L) /\ IsSeq(answer[c])
  BY <1>1, ReadAnswered, OwnFacts
<1>6. f.id \in DOMAIN answer'[c] /\ answer'[c][f.id] = L
  <2>1. PICK b : b = answer[c]
    OBVIOUS
  <2>2. /\ Len(b) \in Nat /\ DOMAIN Append(b, L) = 1 .. Len(b) + 1
        /\ Append(b, L)[Len(b) + 1] = L
    BY <1>5, <2>1, IsSeqAppend
  <2> DEFINE n == Len(b)
  <2>3. n \in Nat /\ DOMAIN Append(b, L) = 1 .. n + 1 /\ n + 1 = f.id
    BY <1>4, <2>1, <2>2
  <2> HIDE DEF n
  <2>4. f.id \in 1 .. n + 1
    BY <2>3
  <2> QED
    BY <1>4, <1>5, <2>1, <2>2, <2>3, <2>4 DEF n
<1>7. m \in Message /\ m.type = "VAL" /\ e = <<m.key, m.value>>
  BY ValType
<1> HIDE DEF m
<1> DEFINE n == Len(s2c[c]) + 1
<1>8. /\ Sent(c)' = {} /\ Vals(c)' = Vals(c) \union {n} /\ s2c'[c][n] = m
      /\ \A i \in Vals(c) : s2c'[c][i] = s2c[c][i]
  <2>1. m.type \notin Completion
    BY <1>7 DEF Completion
  <2> QED
    BY <1>1, <1>2, <1>7, <2>1, ReplyPlaces
<1> HIDE DEF n
<1>9. Parts(c)' = {e}
  <2>1. result_list'[c] = result_list[c]
    BY <1>3 DEF resultvars
  <2>2. Parts(c)' = Parts(c) \union {e}
    BY <1>7, <1>8, <2>1, PartsGrow
  <2>3. Parts(c) = {}
    BY <1>4 DEF Parts
  <2> QED
    BY <2>2, <2>3
<1>10. task'[c].todo = L \ {e}
  <2>1. PICK T \in SUBSET Pair : T = L \ {e}
    OBVIOUS
  <2> QED
    BY <1>0, <1>1, <2>1, ListingTask
<1> QED
  BY <1>1, <1>2, <1>4, <1>6, <1>8, <1>9, <1>10 DEF Pending

(* ... lists on, or has listed all.                                        *)
LEMMA ListsOnOrder ==
  ASSUME TypeInv, TypeInv', NEW c \in Client, c \in up, Stage(c), ListsOn(c),
         NEW f, Pending(c, f)
  PROVE  Pending(c, f)'
<1>0. TypeOK
  BY DEF TypeInv
<1>1. /\ Listing(c) /\ task[c].todo \in SUBSET Pair /\ c \in attached
      /\ UNCHANGED <<attached, c2s, resultvars, answer>>
  BY DEF ListsOn, Listing
<1>2. Due(c) = {} /\ Sent(c) = {} /\ c \in Online
  BY <1>1 DEF Stage, Asked, Listed, Replied, Quiet, Online
<1>3. Due(c)' = {} /\ result_list'[c] = result_list[c] /\ answer'[c] = answer[c]
  BY <1>1, <1>2, SameDue DEF resultvars
<1>4. /\ f.op = "subt" /\ f.id \in DOMAIN answer[c]
      /\ IsList(answer[c][f.id])
      /\ Parts(c) \union task[c].todo = answer[c][f.id]
  BY <1>1 DEF Pending
<1>5. ASSUME NEW e \in task[c].todo, Replies(c, Msg("VAL", e[1], e[2])),
             task' = [task EXCEPT ![c] = [kind |-> "subt", todo |-> task[c].todo \ {e}]]
      PROVE  Pending(c, f)'
  <2> DEFINE m == Msg("VAL", e[1], e[2])
             n == Len(s2c[c]) + 1
  <2>1. m \in Message /\ m.type = "VAL" /\ e = <<m.key, m.value>>
    BY <1>1, ValType
  <2>2. Replies(c, m)
    BY <1>5
  <2> HIDE DEF m
  <2>3. /\ Sent(c)' = {} /\ Vals(c)' = Vals(c) \union {n} /\ s2c'[c][n] = m
        /\ \A i \in Vals(c) : s2c'[c][i] = s2c[c][i]
    <3>1. m.type \notin Completion
      BY <2>1 DEF Completion
    <3> QED
      BY <1>2, <2>1, <2>2, <3>1, ReplyPlaces
  <2> HIDE DEF n
  <2>4. Parts(c)' = Parts(c) \union {e}
    BY <1>3, <2>1, <2>3, PartsGrow
  <2>5. task'[c].todo = task[c].todo \ {e}
    <3>1. PICK T \in SUBSET Pair : T = task[c].todo \ {e}
      BY <1>1
    <3> QED
      BY <1>0, <1>5, <3>1, ListingTask
  <2>6. Parts(c)' \union task'[c].todo = answer'[c][f.id]
    BY <1>3, <1>4, <2>4, <2>5
  <2> QED
    BY <1>3, <1>4, <2>3, <2>6 DEF Pending
<1>6. ASSUME task[c].todo = {}, Replies(c, Msg("OK", Root, Null)), task' = [task EXCEPT ![c] = Idle]
      PROVE  Pending(c, f)'
  <2> DEFINE m == Msg("OK", Root, Null)
             n == Len(s2c[c]) + 1
  <2>1. m \in Message /\ m.type = "OK"
    BY OkType
  <2>2. Replies(c, m)
    BY <1>6
  <2> HIDE DEF m
  <2>3. /\ Sent(c)' = {n} /\ Vals(c)' = Vals(c) /\ s2c'[c][n] = m
        /\ \A i \in Vals(c) : s2c'[c][i] = s2c[c][i] /\ i < n
    <3>1. m.type \in Completion /\ m.type # "VAL"
      BY <2>1 DEF Completion
    <3>2. /\ Sent(c)' = Sent(c) \union {n} /\ Vals(c)' = Vals(c)
          /\ Len(s2c[c]) \in Nat /\ s2c'[c][n] = m
          /\ \A i \in Sent(c) \union Vals(c) :
               i \in Nat /\ i <= Len(s2c[c]) /\ s2c'[c][i] = s2c[c][i]
      BY <1>2, <2>1, <2>2, <3>1, ReplyPlaces
    <3>3. \A i \in Vals(c) : s2c'[c][i] = s2c[c][i] /\ i < n
      BY <3>2
    <3> QED
      BY <1>2, <3>2, <3>3
  <2> HIDE DEF n
  <2>4. Parts(c)' = Parts(c)
    BY <1>3, <2>3, PartsKept
  <2>5. Parts(c)' = answer'[c][f.id]
    BY <1>3, <1>4, <1>6, <2>4
  <2>6. ~Listing(c)'
    BY <1>0, <1>6, IdleTask DEF Listing, Idle
  <2>7. ASSUME NEW j \in Sent(c)' PROVE Matches(c, f, s2c[c][j])'
    <3>1. s2c'[c][j].type = "OK"
      BY <2>1, <2>3, <2>7
    <3> QED
      BY <1>3, <1>4, <2>5, <3>1 DEF Matches
  <2> QED
    BY <1>3, <1>4, <2>3, <2>6, <2>7 DEF Pending
<1> QED
  BY <1>5, <1>6 DEF ListsOn

(* The daemon changes the tree for c, whose earlier answer stays.          *)
LEMMA ChangedOrder ==
  ASSUME TypeInv, TypeInv', NEW c \in Client, c \in up, Stage(c), NEW op, Changes(c, op),
         NEW f, Pending(c, f)
  PROVE  Pending(c, f)'
<1>0. TypeOK
  BY DEF TypeInv
<1>1. /\ Reading(c, op) /\ op \in {"set", "del"} /\ Announces(Online) /\ Answer(c, "none")
      /\ NotListing(c) /\ UNCHANGED attached
  BY DEF Changes
<1>2. /\ c \in attached /\ c2s[c] # <<>> /\ c2s'[c] = Tail(c2s[c]) /\ op \notin Replying
  BY <1>1, ReadingStage DEF Replying
<1>3. c2s[c][1].op = op /\ UNCHANGED resultvars
  BY <1>0, <1>1, ReadingFacts
<1>4. answer'[c] = Append(answer[c], "none") /\ IsSeq(answer[c])
  BY <1>1, ReadAnswered, OwnFacts
<1>5. PICK b : b = answer[c]
  OBVIOUS
<1> DEFINE n == Len(b)
<1>6. /\ n \in Nat /\ DOMAIN b = 1 .. n /\ DOMAIN Append(b, "none") = 1 .. n + 1
      /\ Len(Append(b, "none")) = n + 1
      /\ \A i \in 1 .. n : Append(b, "none")[i] = b[i]
  BY <1>4, <1>5, IsSeqAppend
<1>7. /\ Len(answer[c]) = n /\ Len(answer'[c]) = n + 1
      /\ \A i \in DOMAIN answer[c] : i \in DOMAIN answer'[c] /\ answer'[c][i] = answer[c][i]
  <2>1. 1 .. n \subseteq 1 .. n + 1
    BY <1>6
  <2> QED
    BY <1>4, <1>5, <1>6, <2>1
<1> HIDE DEF n
<1>8. /\ Sent(c)' = Sent(c) /\ Vals(c)' = Vals(c)
      /\ \A i \in DOMAIN s2c[c] : s2c'[c][i] = s2c[c][i]
  BY <1>0, <1>1, AnnounceSends, HearsPlaces
<1>9. Vals(c) \subseteq DOMAIN s2c[c] /\ Sent(c) \subseteq DOMAIN s2c[c]
  BY DEF Vals, Sent
<1>10. result_list'[c] = result_list[c]
  BY <1>3 DEF resultvars
<1>11. Parts(c)' = Parts(c)
  BY <1>8, <1>9, <1>10, PartsKept
<1>12. ASSUME NEW i \in Due(c)'
       PROVE  /\ c2s'[c][i].op = f.op /\ c2s'[c][i].key = f.key
              /\ Len(answer'[c]) + i = f.id
              /\ Vals(c)' = {} /\ (f.op = "subt" => result_list'[c] = {})
  <2>1. PICK q \in Seq(RequestType) : q = c2s[c]
    BY OwnFacts
  <2>2. /\ i \in DOMAIN Tail(q) /\ Tail(q)[i].op \in Replying /\ q # <<>>
    BY <1>2, <1>12, <2>1 DEF Due
  <2> DEFINE l == Len(q)
  <2>3. /\ l \in Nat \ {0} /\ DOMAIN q = 1 .. l /\ DOMAIN Tail(q) = 1 .. l - 1
        /\ \A j \in 1 .. l - 1 : Tail(q)[j] = q[j + 1]
    BY <2>2, TailFacts
  <2> HIDE DEF l
  <2>4. i \in Nat /\ i + 1 \in 1 .. l /\ Tail(q)[i] = q[i + 1]
    BY <2>2, <2>3
  <2>5. i + 1 \in Due(c)
    BY <2>1, <2>2, <2>3, <2>4 DEF Due
  <2>6. /\ c2s[c][i + 1].op = f.op /\ c2s[c][i + 1].key = f.key
        /\ Len(answer[c]) + (i + 1) = f.id
        /\ Vals(c) = {} /\ (f.op = "subt" => result_list[c] = {})
    BY <1>2, <2>5 DEF Pending
  <2>7. (n + 1) + i = n + (i + 1)
    BY <1>6, <2>4 DEF n
  <2> QED
    BY <1>2, <1>7, <1>8, <1>10, <2>1, <2>4, <2>6, <2>7
<1>13. ~Listing(c)'
  BY <1>1 DEF NotListing, Listing
<1>14. ASSUME NEW j \in Sent(c)'
       PROVE  /\ \A i \in Vals(c)' : i < j
              /\ f.id \in DOMAIN answer'[c]
              /\ Matches(c, f, s2c[c][j])'
  <2>1. /\ j \in Sent(c) /\ \A i \in Vals(c) : i < j
        /\ f.id \in DOMAIN answer[c] /\ Matches(c, f, s2c[c][j])
    BY <1>8, <1>14 DEF Pending
  <2>2. s2c'[c][j] = s2c[c][j]
    BY <1>8, <1>9, <2>1
  <2>3. f.id \in DOMAIN answer'[c] /\ answer'[c][f.id] = answer[c][f.id]
    BY <1>7, <2>1
  <2>4. Matches(c, f, s2c[c][j])'
    BY <1>11, <2>1, <2>2, <2>3 DEF Matches
  <2> QED
    BY <1>8, <2>1, <2>3, <2>4
<1> QED
  BY <1>12, <1>13, <1>14 DEF Pending

(* The daemon's answers stay what they are.                                *)
LEMMA AnswersStay ==
  ASSUME TypeInv, NEW c \in Client, DaemonStep(c) \/ detach(c)
  PROVE  \A i \in DOMAIN answer[c] : i \in DOMAIN answer'[c] /\ answer'[c][i] = answer[c][i]
<1>0. TypeOK
  BY DEF TypeInv
<1>1. ASSUME NEW op, Reading(c, op), NEW a, Answer(c, a)
      PROVE  \A i \in DOMAIN answer[c] : i \in DOMAIN answer'[c] /\ answer'[c][i] = answer[c][i]
  <2>1. answer'[c] = Append(answer[c], a) /\ IsSeq(answer[c])
    BY <1>1, ReadAnswered, OwnFacts
  <2>2. PICK b : b = answer[c]
    OBVIOUS
  <2>3. /\ Len(b) \in Nat /\ DOMAIN b = 1 .. Len(b) /\ DOMAIN Append(b, a) = 1 .. Len(b) + 1
        /\ \A i \in 1 .. Len(b) : Append(b, a)[i] = b[i]
    BY <2>1, <2>2, IsSeqAppend
  <2> DEFINE n == Len(b)
  <2>4. n \in Nat => 1 .. n \subseteq 1 .. n + 1
    OBVIOUS
  <2> QED
    BY <2>1, <2>2, <2>3, <2>4
<1>2. CASE ListsOn(c) \/ GoesOn(c) \/ detach(c)
  BY <1>0, <1>2, DetachDetaches DEF ListsOn, GoesOn, Detaches
<1>3. CASE \E op \in Replying, m \in Message : \E a : Answers(c, op, m, a)
  BY <1>1, <1>3 DEF Answers
<1>4. CASE \E L \in SUBSET Pair : \E e \in L : Lists(c, L, e)
  BY <1>1, <1>4 DEF Lists
<1>5. CASE \E op \in {"set", "del"} : Changes(c, op)
  BY <1>1, <1>5 DEF Changes
<1>6. CASE \E op \in {"quit", "setv"} : Refuses(c, op)
  BY <1>1, <1>6 DEF Refuses
<1> QED
  BY <1>0, <1>2, <1>3, <1>4, <1>5, <1>6, DaemonCases

(* Only a client that waits is sent parts of a listing.                    *)
LEMMA ServedVals ==
  ASSUME TypeInv, TypeInv', NEW c \in Client, c \in up, Stage(c), ~Waiting(c),
         DaemonStep(c) \/ detach(c)
  PROVE  Vals(c)' = Vals(c)
<1>0. TypeOK
  BY DEF TypeInv
<1>1. CASE Announces(Online) \/ Announces(Online \ {c}) \/ UNCHANGED <<tree, s2c>>
  <2>1. Hears(c)
    BY <1>0, <1>1, AnnounceSends, NothingHeard
  <2> QED
    BY <2>1, HearsPlaces
<1>2. ASSUME NEW op, NEW m \in Message, NEW a, Answers(c, op, m, a) PROVE FALSE
  BY <1>2, ReadingStage DEF Answers
<1>3. ASSUME NEW L \in SUBSET Pair, NEW e \in L, Lists(c, L, e) PROVE FALSE
  BY <1>3, ReadingStage DEF Lists, Replying
<1>4. ASSUME ListsOn(c) PROVE FALSE
  BY <1>4 DEF ListsOn, Stage, Quiet, Listing
<1>5. ASSUME NEW op, Refuses(c, op) PROVE FALSE
  <2>1. /\ Reading(c, op) /\ op \in {"quit", "setv"} /\ \E a : Answer(c, a)
    BY <1>5 DEF Refuses
  <2> QED
    BY <2>1, ReadingStage
<1>6. CASE \E op \in {"set", "del"} : Changes(c, op)
  BY <1>1, <1>6 DEF Changes
<1>7. CASE GoesOn(c)
  BY <1>1, <1>7 DEF GoesOn
<1>8. CASE detach(c)
  BY <1>0, <1>1, <1>8, DetachDetaches DEF Detaches
<1> QED
  BY <1>0, <1>2, <1>3, <1>4, <1>5, <1>6, <1>7, <1>8, DaemonCases

(* All of the daemon's steps for c.                                        *)
LEMMA ServedOrder ==
  ASSUME TypeInv, TypeInv', NEW c \in Client, c \in up, Stage(c), InOrder(c),
         DaemonStep(c) \/ detach(c)
  PROVE  InOrder(c)'
<1>0. TypeOK
  BY DEF TypeInv
<1>1. UNCHANGED <<resultvars, clientvars>>
  BY Serving DEF Served
<1>2. /\ stack'[c] = stack[c] /\ cmdinprogress'[c] = cmdinprogress[c]
      /\ cmdsuccess'[c] = cmdsuccess[c] /\ result_key'[c] = result_key[c]
      /\ result'[c] = result[c] /\ result_list'[c] = result_list[c]
  BY <1>1 DEF resultvars, clientvars
<1>3. Waiting(c)' <=> Waiting(c)
  BY <1>2, WaitsOn
<1>4. Shallow(c)' /\ Caller(c)' = Caller(c)
  BY <1>2 DEF InOrder, Shallow, Caller
<1>5. ASSUME NEW f, Done(c, f) PROVE Done(c, f)'
  BY <1>2, <1>5, AnswersStay, DoneKept
<1>6. ASSUME NEW f, f.id \in Nat, Pending(c, f) PROVE Pending(c, f)'
  <2>1. ASSUME Announces(Online) \/ Announces(Online \ {c}) \/ UNCHANGED <<tree, s2c>>
        PROVE  /\ Sent(c)' = Sent(c) /\ Vals(c)' = Vals(c)
               /\ \A i \in DOMAIN s2c[c] : s2c'[c][i] = s2c[c][i]
    <3>1. Hears(c)
      BY <1>0, <2>1, AnnounceSends, NothingHeard
    <3> QED
      BY <3>1, HearsPlaces
  <2>2. CASE \E op \in Replying, m \in Message : \E a : Answers(c, op, m, a)
    BY <1>6, <2>2, AnsweredOrder
  <2>3. CASE \E L \in SUBSET Pair : \E e \in L : Lists(c, L, e)
    BY <1>6, <2>3, ListedOrder
  <2>4. CASE ListsOn(c)
    BY <1>6, <2>4, ListsOnOrder
  <2>5. CASE \E op \in {"set", "del"} : Changes(c, op)
    BY <1>6, <2>5, ChangedOrder
  <2>6. CASE GoesOn(c)
    <3>1. /\ Announces(Online) \/ UNCHANGED <<tree, s2c>>
          /\ ~Listing(c)' /\ UNCHANGED <<attached, c2s, answer>>
      BY <2>6 DEF GoesOn, NotListing, Listing
    <3>2. answer'[c] = answer[c] /\ c2s'[c] = c2s[c] /\ (c \in attached' => c \in attached)
      BY <3>1
    <3> QED
      BY <1>2, <1>6, <2>1, <3>1, <3>2, PendingKept
  <2>7. ASSUME NEW op, Refuses(c, op) PROVE FALSE
    <3>1. /\ Reading(c, op) /\ op \in {"quit", "setv"} /\ \E a : Answer(c, a)
      BY <2>7 DEF Refuses
    <3> QED
      BY <3>1, ReadingStage
  <2>8. CASE detach(c)
    <3>1. /\ Announces(Online \ {c}) /\ attached' = attached \ {c} /\ UNCHANGED answer
          /\ task' = [task EXCEPT ![c] = Idle]
      BY <1>0, <2>8, DetachDetaches DEF Detaches
    <3>2. ~Listing(c)' /\ c \notin attached' /\ answer'[c] = answer[c]
      BY <1>0, <3>1, IdleTask DEF Listing, Idle
    <3> QED
      BY <1>2, <1>6, <2>1, <3>1, <3>2, PendingKept
  <2> QED
    BY <1>0, <2>2, <2>3, <2>4, <2>5, <2>6, <2>7, <2>8, DaemonCases
<1>7. ASSUME stack[c] # <<>>, Caller(c).op \in Replying
      PROVE  IF Waiting(c) THEN Pending(c, Caller(c))' ELSE Done(c, Caller(c))'
  <2>1. PICK f : f = Caller(c)
    OBVIOUS
  <2>2. f = Caller(c)'
    BY <1>4, <2>1
  <2>3. f.id \in Nat
    <3>1. stack[c] \in Seq(FrameType)
      BY <1>0 DEF TypeOK
    <3>2. f \in FrameType
      BY <1>7, <2>1, <3>1 DEF Caller
    <3> QED
      BY <3>2 DEF FrameType
  <2>4. IF Waiting(c) THEN Pending(c, f) ELSE Done(c, f)
    BY <1>7, <2>1 DEF InOrder
  <2>5. IF Waiting(c) THEN Pending(c, f)' ELSE Done(c, f)'
    BY <1>5, <1>6, <2>3, <2>4
  <2>6. (Pending(c, f)' => Pending(c, Caller(c))') /\ (Done(c, f)' => Done(c, Caller(c))')
    BY <2>2
  <2> QED
    BY <2>5, <2>6
<1>8. ~Waiting(c) => Vals(c)' = {}
  BY ServedVals DEF InOrder
<1> QED
  BY <1>2, <1>3, <1>4, <1>7, <1>8 DEF InOrder

(* A call begins that waits for its reply.                                 *)
LEMMA CalledOrder ==
  ASSUME TypeInv, TypeInv', NEW c \in Client, NEW op, NEW k, Calls(c, op, k), Stage(c),
         InOrder(c), Orderly(c)
  PROVE  InOrder(c)'
<1>0. TypeOK
  BY DEF TypeInv
<1>1. /\ CanCall(c, op) /\ op \in Replying /\ k \in Key
      /\ Write(c, <<Request(op, k, Null)>>) /\ do_select(c, Frame(op, k, nreq'[c], <<>>))
      /\ result_list' = [result_list EXCEPT ![c] = IF op = "subt" THEN {} ELSE @]
      /\ UNCHANGED <<attached, task, s2c, answer>>
  BY DEF Calls, daemonvars
<1>2. stack[c] = <<>>
  BY <1>1 DEF CanCall, Orderly
<1> DEFINE r == Request(op, k, Null)
<1>3. r \in RequestType /\ r.op = op /\ r.key = k /\ <<r>> \in Seq(RequestType) /\ Len(<<r>>) = 1
  BY <1>1, RequestMade
<1>4. op \notin {"setv", "quit"}
  BY <1>1 DEF Replying
<1>5. /\ c2s'[c] = c2s[c] \o <<r>> /\ nreq'[c] = nreq[c] + Len(<<r>>)
      /\ c \in attached => Len(answer[c]) + Len(c2s'[c]) = nreq'[c]
  <2>1. Write(c, <<r>>)
    BY <1>1
  <2> HIDE DEF r
  <2> QED
    BY <1>3, <2>1, WriteFacts
<1> HIDE DEF r
<1>6. /\ Due(c)' = Due(c) \union {Len(c2s[c]) + 1}
      /\ c2s'[c][Len(c2s[c]) + 1] = r /\ Len(c2s[c]) \in Nat
  BY <1>1, <1>3, <1>4, <1>5, WrittenDue DEF Stage
<1>7. ~Waiting(c) /\ Sent(c)' = Sent(c) /\ Vals(c)' = Vals(c) /\ (Listing(c)' <=> Listing(c))
  BY <1>1, CallersWaitNot DEF Sent, Vals, Listing
<1>8. Waiting(c)'
  BY CalledStage
<1> DEFINE f == Frame(op, k, nreq'[c], <<>>)
<1>9. /\ stack' = [stack EXCEPT ![c] = Append(@, f)] /\ f.op = op /\ f.key = k /\ f.id = nreq'[c]
  BY <1>1 DEF do_select, Push, Frame
<1> HIDE DEF f
<1>10. stack'[c] = <<f>>
  BY <1>0, <1>2, <1>9 DEF TypeOK
<1>11. Shallow(c)' /\ Caller(c)' = f
  BY <1>10 DEF Shallow, Caller
<1>12. Vals(c)' = {} /\ Sent(c)' = {} /\ ~Listing(c)'
  BY <1>7 DEF Stage, Quiet, InOrder
<1>13. f.op = "subt" => result_list'[c] = {}
  BY <1>0, <1>1, <1>9 DEF TypeOK
<1>14. c \in attached => /\ Due(c)' = {Len(c2s[c]) + 1}
                         /\ Len(answer[c]) + (Len(c2s[c]) + 1) = nreq'[c]
  <2>1. c \in attached => Due(c) = {}
    BY <1>7 DEF Stage, Quiet
  <2>2. c \in attached => Len(answer[c]) + Len(c2s[c]) = nreq[c]
    BY OwnFacts
  <2>3. Len(answer[c]) \in Nat /\ nreq[c] \in Nat
    <3>1. IsSeq(answer[c]) /\ nreq[c] \in Nat
      BY OwnFacts
    <3> QED
      BY <3>1, IsSeqAppend
  <2> DEFINE x == Len(answer[c])
             y == Len(c2s[c])
             z == nreq[c]
  <2>4. c \in attached => x + y = z
    BY <2>2
  <2>5. x \in Nat /\ y \in Nat /\ z \in Nat
    BY <1>6, <2>3
  <2>6. nreq'[c] = z + 1
    BY <1>3, <1>5
  <2> HIDE DEF x, y, z
  <2>7. c \in attached => x + (y + 1) = nreq'[c]
    BY <2>4, <2>5, <2>6
  <2> QED
    BY <1>6, <2>1, <2>7 DEF x, y
<1>15. c \in attached' =>
         \A i \in Due(c)' :
           /\ c2s'[c][i].op = f.op /\ c2s'[c][i].key = f.key
           /\ Len(answer'[c]) + i = f.id
           /\ Vals(c)' = {} /\ (f.op = "subt" => result_list'[c] = {})
  BY <1>1, <1>3, <1>6, <1>9, <1>12, <1>13, <1>14
<1>16. Pending(c, Caller(c))'
  BY <1>11, <1>12, <1>15 DEF Pending
<1> QED
  BY <1>8, <1>11, <1>16 DEF InOrder

(* A step of a client that does not wait, nor begins to: if its outermost  *)
(* call goes on, the reply it has got stays.                               *)
LEMMA DoneStays ==
  ASSUME TypeInv, NEW c \in Client, InOrder(c), ~Waiting(c), ~Waiting(c)', Shallow(c)',
         s2c'[c] = s2c[c], answer'[c] = answer[c],
         cmdsuccess'[c] = cmdsuccess[c], result_key'[c] = result_key[c], result'[c] = result[c],
         stack'[c] # <<>> /\ Caller(c)'.op \in Replying =>
           /\ stack[c] # <<>> /\ result_list'[c] = result_list[c]
           /\ Caller(c).op = Caller(c)'.op /\ Caller(c).key = Caller(c)'.key
           /\ Caller(c).id = Caller(c)'.id
  PROVE  InOrder(c)'
<1>1. Vals(c)' = {}
  BY DEF Vals, InOrder
<1>2. ASSUME stack'[c] # <<>>, Caller(c)'.op \in Replying
      PROVE  Done(c, Caller(c))'
  <2>1. PICK f, g : f = Caller(c) /\ g = Caller(c)'
    OBVIOUS
  <2>2. f.op \in Replying /\ f.op = g.op /\ f.key = g.key /\ f.id = g.id
    BY <1>2, <2>1
  <2>3. Done(c, f)
    BY <1>2, <2>1, <2>2 DEF InOrder
  <2>4. Done(c, f)'
    BY <1>2, <2>3, DoneKept
  <2>5. Done(c, g)'
    BY <2>2, <2>4 DEF Done, ValueOf
  <2> QED
    BY <2>1, <2>5
<1> QED
  BY <1>1, <1>2 DEF InOrder

LEMMA SetOrder ==
  ASSUME TypeInv, TypeInv', NEW c \in Client, NEW op, NEW p, Sets(c, op, p), Stage(c),
         InOrder(c)
  PROVE  InOrder(c)'
<1>1. ~Waiting(c) /\ ~Waiting(c)'
  BY SetStage
<1>2. UNCHANGED <<s2c, answer, resultvars>>
  BY DEF Sets, set, daemonvars
<1>3. PICK q \in Seq(FrameType) : q = stack[c]
  BY SetStage
<1>4. PICK f \in FrameType : f.op = "set" /\ stack'[c] = Append(q, f)
  BY <1>3, SetStage
<1> DEFINE n == Len(q)
<1>5. /\ n \in Nat /\ DOMAIN q = 1 .. n /\ DOMAIN Append(q, f) = 1 .. n + 1
      /\ \A i \in 1 .. n : Append(q, f)[i] = q[i]
      /\ Append(q, f)[n + 1] = f
  BY AppendFacts
<1>6. n = 0 => q = <<>>
  OBVIOUS
<1> HIDE DEF n
<1>7. Shallow(c)'
  <2>1. \A i \in 1 .. n : i # 1 => q[i].op \notin Replying
    BY <1>3, <1>5 DEF InOrder, Shallow
  <2>2. f.op \notin Replying
    BY <1>4 DEF Replying
  <2>3. 1 .. n + 1 = (1 .. n) \union {n + 1}
    BY <1>5
  <2>4. \A i \in 1 .. n + 1 : i # 1 => Append(q, f)[i].op \notin Replying
    BY <1>5, <2>1, <2>2, <2>3
  <2> QED
    BY <1>4, <1>5, <2>4 DEF Shallow
<1>8. Caller(c)'.op \in Replying => stack[c] # <<>> /\ Caller(c) = Caller(c)'
  <2>1. CASE q = <<>>
    <3>1. Append(q, f)[1] = f
      BY <2>1
    <3> QED
      BY <1>4, <3>1 DEF Caller, Replying
  <2>2. CASE q # <<>>
    <3>1. 1 \in 1 .. n
      BY <1>5, <1>6, <2>2
    <3>2. Append(q, f)[1] = q[1]
      BY <1>5, <3>1
    <3> QED
      BY <1>3, <1>4, <2>2, <3>2 DEF Caller
  <2> QED
    BY <2>1, <2>2
<1> QED
  BY <1>1, <1>2, <1>7, <1>8, DoneStays DEF resultvars

LEMMA SetNextOrder ==
  ASSUME TypeInv, TypeInv', NEW c \in Client, set_next(c), Stage(c), InOrder(c)
  PROVE  InOrder(c)'
<1>1. ~Waiting(c) /\ ~Waiting(c)'
  BY SetNextStage
<1>2. UNCHANGED <<s2c, answer, resultvars>> /\ stack[c] # <<>>
  BY DEF set_next, daemonvars
<1> DEFINE n == Len(stack[c])
<1>3. /\ Len(stack'[c]) = n
      /\ \A i \in 1 .. n : i # n => stack'[c][i] = stack[c][i]
      /\ stack'[c][n].op = "set" /\ n \in {1, 2}
  BY <1>2, SetNextKeeps, TopFacts
<1>4. DOMAIN stack[c] = 1 .. n /\ DOMAIN stack'[c] = 1 .. n
  <2>1. stack[c] \in Seq(FrameType) /\ stack'[c] \in Seq(FrameType)
    BY DEF TypeInv, TypeOK
  <2> QED
    BY <1>3, <2>1
<1> HIDE DEF n
<1>5. "set" \notin Replying
  BY DEF Replying
<1>6. Shallow(c)'
  BY <1>3, <1>4, <1>5 DEF InOrder, Shallow
<1>7. Caller(c)'.op \in Replying => Caller(c) = Caller(c)'
  <2>1. n = 1 => Caller(c)'.op \notin Replying
    BY <1>3, <1>5 DEF Caller
  <2>2. n = 2 => stack'[c][1] = stack[c][1]
    BY <1>3
  <2> QED
    BY <1>3, <2>1, <2>2 DEF Caller
<1> QED
  BY <1>1, <1>2, <1>6, <1>7, DoneStays DEF resultvars

LEMMA FlushOrder ==
  ASSUME TypeInv, TypeInv', NEW c \in Client, flush_delta(c), c \in up, Stage(c), InOrder(c)
  PROVE  InOrder(c)'
<1>1. ~Waiting(c) /\ ~Waiting(c)'
  BY OverStage
<1>2. UNCHANGED <<s2c, answer, resultvars>> /\ stack[c] # <<>>
  BY DEF flush_delta, daemonvars, Unholding
<1>3. /\ Len(stack'[c]) = 1 /\ stack'[c][1] = [Top(c) EXCEPT !.phase = "callback"]
      /\ Top(c) = stack[c][1] /\ Top(c) \in FrameType
  BY FlushKeeps
<1>4. /\ Caller(c)'.op = Caller(c).op /\ Caller(c)'.key = Caller(c).key
      /\ Caller(c)'.id = Caller(c).id
  BY <1>3 DEF Caller, FrameType
<1>5. Shallow(c)'
  <2>1. stack'[c] \in Seq(FrameType)
    BY DEF TypeInv, TypeOK
  <2>2. DOMAIN stack'[c] = {1}
    BY <1>3, <2>1
  <2> QED
    BY <2>2 DEF Shallow
<1> QED
  BY <1>1, <1>2, <1>4, <1>5, DoneStays DEF resultvars

LEMMA ReturnOrder ==
  ASSUME TypeInv, TypeInv', NEW c \in Client, return(c), c \in up, Stage(c), InOrder(c)
  PROVE  InOrder(c)'
<1>1. ~Waiting(c) /\ ~Waiting(c)'
  BY OverStage
<1>2. /\ UNCHANGED <<s2c, answer, cmdsuccess, result_key, result>> /\ stack[c] # <<>>
      /\ result_list' = [result_list EXCEPT ![c] = IF Top(c).op = "subt" THEN NoList ELSE @]
  BY DEF return, daemonvars, Unholding
<1>3. \/ stack'[c] = <<>>
      \/ /\ Len(stack[c]) = 2 /\ Len(stack'[c]) = 1 /\ stack'[c] # <<>>
         /\ stack'[c][1] = stack[c][1]
  BY ReturnKeeps
<1>4. CASE stack'[c] = <<>>
  <2>1. Shallow(c)'
    BY <1>4 DEF Shallow
  <2> QED
    BY <1>1, <1>2, <1>4, <2>1, DoneStays
<1>5. CASE /\ Len(stack[c]) = 2 /\ Len(stack'[c]) = 1 /\ stack'[c] # <<>>
           /\ stack'[c][1] = stack[c][1]
  <2>1. stack[c] \in Seq(FrameType) /\ stack'[c] \in Seq(FrameType)
    BY DEF TypeInv, TypeOK
  <2>2. DOMAIN stack'[c] = {1} /\ 2 \in DOMAIN stack[c] /\ Top(c) = stack[c][2]
    BY <1>5, <2>1 DEF Top
  <2>3. Shallow(c)' /\ Caller(c)' = Caller(c)
    BY <1>5, <2>2 DEF Shallow, Caller
  <2>4. Top(c).op # "subt"
    BY <2>2 DEF InOrder, Shallow, Replying
  <2>5. result_list'[c] = result_list[c]
    BY <1>2, <2>4 DEF TypeInv, TypeOK
  <2> QED
    BY <1>1, <1>2, <2>3, <2>5, DoneStays
<1> QED
  BY <1>3, <1>4, <1>5

(* What the places of the messages become when the first one is read.      *)
LEMMA ReadPlaces ==
  ASSUME TypeInv, TypeInv', NEW c \in Client, conncallback(c)
  PROVE  /\ \A i \in Sent(c)' : i \in Nat /\ i + 1 \in Sent(c) /\ s2c'[c][i] = s2c[c][i + 1]
         /\ \A i \in Vals(c)' : i \in Nat /\ i + 1 \in Vals(c) /\ s2c'[c][i] = s2c[c][i + 1]
         /\ \A j \in Vals(c) : j # 1 => j - 1 \in Vals(c)' /\ s2c'[c][j - 1] = s2c[c][j]
         /\ Vals(c) \subseteq Nat \ {0} /\ Sent(c) \subseteq Nat \ {0}
         /\ 1 \in Vals(c) <=> Head(s2c[c]).type = "VAL"
         /\ 1 \in Sent(c) <=> Head(s2c[c]).type \in Completion
         /\ s2c[c] # <<>> /\ Head(s2c[c]) = s2c[c][1] /\ s2c[c][1] \in Message
<1>1. /\ s2c[c] # <<>> /\ s2c'[c] = Tail(s2c[c])
  BY ReadKeeps
<1>2. PICK q \in Seq(Message) : q = s2c[c]
  BY OwnFacts
<1> DEFINE n == Len(q)
           r == Tail(q)
<1>3. /\ n \in Nat \ {0} /\ DOMAIN q = 1 .. n /\ DOMAIN r = 1 .. n - 1
      /\ \A i \in 1 .. n - 1 : r[i] = q[i + 1]
      /\ Head(q) = q[1] /\ Head(q) \in Message
  BY <1>1, <1>2, TailFacts
<1> HIDE DEF n, r
<1>4. s2c'[c] = r
  BY <1>1, <1>2 DEF r
<1>5. ASSUME NEW i \in 1 .. n - 1 PROVE i \in Nat /\ i + 1 \in 1 .. n /\ r[i] = q[i + 1]
  BY <1>3, <1>5
<1>6. ASSUME NEW j \in 1 .. n, j # 1 PROVE j - 1 \in 1 .. n - 1 /\ r[j - 1] = q[j]
  <2>1. j - 1 \in 1 .. n - 1 /\ (j - 1) + 1 = j
    BY <1>3, <1>6
  <2> QED
    BY <1>3, <2>1
<1>7. /\ \A i \in Sent(c)' : i \in 1 .. n - 1 /\ r[i].type \in Completion
      /\ \A i \in Vals(c)' : i \in 1 .. n - 1 /\ r[i].type = "VAL"
  BY <1>3, <1>4 DEF Sent, Vals
<1>8. /\ \A i \in 1 .. n : q[i].type \in Completion => i \in Sent(c)
      /\ \A i \in 1 .. n : q[i].type = "VAL" => i \in Vals(c)
      /\ \A i \in Vals(c) : i \in 1 .. n /\ q[i].type = "VAL"
      /\ \A i \in Sent(c) : i \in 1 .. n /\ q[i].type \in Completion
      /\ \A i \in 1 .. n - 1 : r[i].type = "VAL" => i \in Vals(c)'
  BY <1>2, <1>3, <1>4 DEF Sent, Vals
<1>9. \A i \in Sent(c)' : i \in Nat /\ i + 1 \in Sent(c) /\ r[i] = q[i + 1]
  BY <1>5, <1>7, <1>8
<1>10. \A i \in Vals(c)' : i \in Nat /\ i + 1 \in Vals(c) /\ r[i] = q[i + 1]
  BY <1>5, <1>7, <1>8
<1>11. \A j \in Vals(c) : j # 1 => j - 1 \in Vals(c)' /\ r[j - 1] = q[j]
  BY <1>6, <1>8
<1>12. Vals(c) \subseteq Nat \ {0} /\ Sent(c) \subseteq Nat \ {0}
  BY <1>3, <1>8
<1>13. 1 \in 1 .. n
  BY <1>3
<1>14. /\ 1 \in Vals(c) <=> Head(q).type = "VAL"
       /\ 1 \in Sent(c) <=> Head(q).type \in Completion
  BY <1>3, <1>8, <1>13
<1> QED
  BY <1>1, <1>2, <1>3, <1>4, <1>9, <1>10, <1>11, <1>12, <1>14

(* The entries of a listing move from the stream to the result list.       *)
LEMMA ReadParts ==
  ASSUME TypeInv, TypeInv', NEW c \in Client, conncallback(c),
         Head(s2c[c]).type = "VAL" => result_list[c] # NoList
  PROVE  Parts(c)' = Parts(c)
<1> DEFINE m == s2c[c][1]
           P == {<<s2c[c][i].key, s2c[c][i].value>> : i \in Vals(c)}
           Q == {<<s2c'[c][i].key, s2c'[c][i].value>> : i \in Vals(c)'}
           e == <<m.key, m.value>>
<1>1. /\ \A i \in Vals(c)' : i \in Nat /\ i + 1 \in Vals(c) /\ s2c'[c][i] = s2c[c][i + 1]
      /\ \A j \in Vals(c) : j # 1 => j - 1 \in Vals(c)' /\ s2c'[c][j - 1] = s2c[c][j]
      /\ Vals(c) \subseteq Nat \ {0}
      /\ 1 \in Vals(c) <=> m.type = "VAL"
      /\ Head(s2c[c]) = m
  BY ReadPlaces
<1>2. ASSUME NEW x \in Q PROVE x \in P
  <2>1. PICK i \in Vals(c)' : x = <<s2c'[c][i].key, s2c'[c][i].value>>
    BY <1>2
  <2>2. i + 1 \in Vals(c) /\ x = <<s2c[c][i + 1].key, s2c[c][i + 1].value>>
    BY <1>1, <2>1
  <2> QED
    BY <2>2
<1>3. ASSUME NEW x \in P PROVE x \in Q \/ (1 \in Vals(c) /\ x = e)
  <2>1. PICK j \in Vals(c) : x = <<s2c[c][j].key, s2c[c][j].value>>
    BY <1>3
  <2>2. CASE j = 1
    BY <2>1, <2>2
  <2>3. CASE j # 1
    <3>1. j - 1 \in Vals(c)' /\ x = <<s2c'[c][j - 1].key, s2c'[c][j - 1].value>>
      BY <1>1, <2>1, <2>3
    <3> QED
      BY <3>1
  <2> QED
    BY <2>2, <2>3
<1>4. 1 \in Vals(c) => e \in P
  OBVIOUS
<1>5. Parts(c) = result_list[c] \union P /\ Parts(c)' = result_list'[c] \union Q
  BY DEF Parts
<1>6. \/ on_hello(c, m) \/ on_ok(c, m) \/ on_fail(c, m) \/ on_value(c, m)
      \/ on_part(c, m) \/ on_notice(c, m)
  BY <1>1 DEF conncallback
<1>7. DOMAIN result_list = Client
  BY DEF TypeInv, TypeOK
<1> HIDE DEF m, P, Q
<1>8. CASE m.type = "VAL"
  <2>1. on_part(c, m)
    BY <1>6, <1>8 DEF on_hello, on_ok, on_fail, on_value, on_notice
  <2>2. result_list' = [result_list EXCEPT ![c] = IF @ = NoList THEN @ ELSE @ \union {e}]
    BY <2>1 DEF on_part
  <2>3. result_list[c] # NoList
    BY <1>1, <1>8
  <2> HIDE DEF e
  <2>4. result_list'[c] = result_list[c] \union {e}
    BY <1>7, <2>2, <2>3
  <2>5. 1 \in Vals(c)
    BY <1>1, <1>8
  <2> QED
    BY <1>2, <1>3, <1>4, <1>5, <2>4, <2>5
<1>9. CASE m.type # "VAL"
  <2>1. UNCHANGED result_list
    BY <1>6, <1>9 DEF on_hello, on_ok, on_fail, on_value, on_part, on_notice, resultvars
  <2>2. 1 \notin Vals(c)
    BY <1>1, <1>9
  <2> HIDE DEF e
  <2> QED
    BY <1>2, <1>3, <1>5, <2>1, <2>2
<1> QED
  BY <1>8, <1>9

(* Something else than the completion reply is read.                       *)
LEMMA ReadPending ==
  ASSUME TypeInv, TypeInv', NEW c \in Client, conncallback(c),
         Head(s2c[c]).type \notin Completion, NEW f, Pending(c, f)
  PROVE  Pending(c, f)'
<1>1. /\ \A i \in Sent(c)' : i \in Nat /\ i + 1 \in Sent(c) /\ s2c'[c][i] = s2c[c][i + 1]
      /\ \A i \in Vals(c)' : i \in Nat /\ i + 1 \in Vals(c)
      /\ 1 \in Vals(c) <=> Head(s2c[c]).type = "VAL"
  BY ReadPlaces
<1>2. UNCHANGED <<attached, task, c2s, answer>>
  BY ReadKeeps DEF daemonvars
<1>3. Due(c)' = Due(c) /\ (Listing(c)' <=> Listing(c))
  BY <1>2 DEF Due, Listing
<1>4. ASSUME Head(s2c[c]).type # "VAL"
      PROVE  Parts(c)' = Parts(c) /\ result_list'[c] = result_list[c]
  <2>1. Parts(c)' = Parts(c)
    BY <1>4, ReadParts
  <2>2. UNCHANGED result_list
    BY <1>4 DEF conncallback, on_hello, on_ok, on_fail, on_value, on_part, on_notice, resultvars
  <2> QED
    BY <2>1, <2>2
<1>5. ASSUME NEW a, IsList(a), Parts(c) \subseteq a
      PROVE  Parts(c)' = Parts(c)
  <2>1. result_list[c] \subseteq a
    BY <1>5 DEF Parts
  <2>2. result_list[c] # NoList
    <3>1. <<Null, Null>>[2] = Null
      OBVIOUS
    <3>2. <<Null, Null>> \notin a
      BY <1>5, <3>1 DEF IsList
    <3> QED
      BY <2>1, <3>2 DEF NoList
  <2> QED
    BY <2>2, ReadParts
<1>6. c \in attached' =>
        \A i \in Due(c)' :
          /\ c2s'[c][i].op = f.op /\ c2s'[c][i].key = f.key
          /\ Len(answer'[c]) + i = f.id
          /\ Vals(c)' = {} /\ (f.op = "subt" => result_list'[c] = {})
  <2> SUFFICES ASSUME c \in attached, NEW i \in Due(c)
               PROVE  /\ c2s[c][i].op = f.op /\ c2s[c][i].key = f.key
                      /\ Len(answer[c]) + i = f.id
                      /\ Vals(c)' = {} /\ (f.op = "subt" => result_list'[c] = {})
    BY <1>2, <1>3
  <2>1. /\ c2s[c][i].op = f.op /\ c2s[c][i].key = f.key
        /\ Len(answer[c]) + i = f.id
        /\ Vals(c) = {} /\ (f.op = "subt" => result_list[c] = {})
    BY DEF Pending
  <2>2. Vals(c)' = {} /\ Head(s2c[c]).type # "VAL"
    BY <1>1, <2>1
  <2>3. result_list'[c] = result_list[c]
    BY <1>4, <2>2
  <2> QED
    BY <2>1, <2>2, <2>3
<1>7. Listing(c)' =>
        /\ f.op = "subt" /\ f.id \in DOMAIN answer'[c]
        /\ IsList(answer'[c][f.id])
        /\ Parts(c)' \union task'[c].todo = answer'[c][f.id]
  <2> SUFFICES ASSUME Listing(c)
               PROVE  /\ f.op = "subt" /\ f.id \in DOMAIN answer[c]
                      /\ IsList(answer[c][f.id])
                      /\ Parts(c)' \union task[c].todo = answer[c][f.id]
    BY <1>2, <1>3
  <2>1. /\ f.op = "subt" /\ f.id \in DOMAIN answer[c]
        /\ IsList(answer[c][f.id])
        /\ Parts(c) \union task[c].todo = answer[c][f.id]
    BY DEF Pending
  <2>2. PICK a : a = answer[c][f.id]
    OBVIOUS
  <2>3. Parts(c)' = Parts(c)
    BY <1>5, <2>1, <2>2
  <2> QED
    BY <2>1, <2>3
<1>8. ASSUME NEW j \in Sent(c)'
      PROVE  /\ \A i \in Vals(c)' : i < j
             /\ f.id \in DOMAIN answer'[c]
             /\ Matches(c, f, s2c[c][j])'
  <2>1. /\ j \in Nat /\ j + 1 \in Sent(c) /\ s2c'[c][j] = s2c[c][j + 1]
    BY <1>1, <1>8
  <2>2. /\ \A i \in Vals(c) : i < j + 1
        /\ f.id \in DOMAIN answer[c] /\ Matches(c, f, s2c[c][j + 1])
    BY <2>1 DEF Pending
  <2>3. ASSUME NEW i \in Vals(c)' PROVE i < j
    <3>1. i \in Nat /\ i + 1 < j + 1
      BY <1>1, <2>2, <2>3
    <3> QED
      BY <2>1, <3>1
  <2>4. PICK m : m = s2c[c][j + 1]
    OBVIOUS
  <2>5. Matches(c, f, m)'
    <3>1. Matches(c, f, m)
      BY <2>2, <2>4
    <3>2. CASE f.op = "subt"
      <4>1. PICK a : a = answer[c][f.id]
        OBVIOUS
      <4>2. \/ m.type = "OK" /\ IsList(a) /\ Parts(c) = a
            \/ m.type = "FAIL" /\ a = NoList
        BY <3>1, <3>2, <4>1 DEF Matches
      <4>3. IsList(a) /\ Parts(c) = a => Parts(c)' = a
        BY <1>5
      <4> QED
        BY <1>2, <3>2, <4>1, <4>2, <4>3 DEF Matches
    <3>3. CASE f.op # "subt"
      BY <1>2, <3>1, <3>3 DEF Matches
    <3> QED
      BY <3>2, <3>3
  <2>6. Matches(c, f, s2c[c][j])'
    BY <2>1, <2>4, <2>5 DEF Matches
  <2> QED
    BY <1>2, <2>2, <2>3, <2>6
<1> QED
  BY <1>6, <1>7, <1>8 DEF Pending

(* The completion reply is read, and the call has its answer.              *)
LEMMA ReadDone ==
  ASSUME TypeInv, TypeInv', NEW c \in Client, conncallback(c),
         Head(s2c[c]).type \in Completion, NEW f, f.op \in Replying, Pending(c, f)
  PROVE  Done(c, f)' /\ Vals(c)' = {}
<1> DEFINE m == s2c[c][1]
<1>1. /\ \A i \in Vals(c)' : i \in Nat /\ i + 1 \in Vals(c)
      /\ Vals(c) \subseteq Nat \ {0} /\ 1 \in Sent(c) /\ Head(s2c[c]) = m
  BY ReadPlaces
<1>2. Vals(c) = {} /\ f.id \in DOMAIN answer[c] /\ Matches(c, f, m)
  <2>1. /\ \A i \in Vals(c) : i < 1
        /\ f.id \in DOMAIN answer[c] /\ Matches(c, f, m)
    BY <1>1 DEF Pending
  <2>2. Vals(c) = {}
    BY <1>1, <2>1
  <2> QED
    BY <2>1, <2>2
<1>3. Vals(c)' = {}
  BY <1>1, <1>2
<1>4. UNCHANGED answer
  BY ReadKeeps
<1>5. \/ on_hello(c, m) \/ on_ok(c, m) \/ on_fail(c, m) \/ on_value(c, m)
      \/ on_part(c, m) \/ on_notice(c, m)
  BY <1>1 DEF conncallback
<1>6. m.type \in Completion
  BY <1>1
<1>7. PICK a : a = answer[c][f.id]
  OBVIOUS
<1>8. /\ DOMAIN cmdsuccess = Client /\ DOMAIN result_key = Client /\ DOMAIN result = Client
  BY DEF TypeInv, TypeOK
<1>9. CASE f.op = "subt"
  <2>1. Parts(c) = result_list[c]
    BY <1>2 DEF Parts
  <2>2. (m.type = "OK" /\ result_list[c] = a) \/ (m.type = "FAIL" /\ a = NoList)
    BY <1>2, <1>7, <1>9, <2>1 DEF Matches
  <2>3. on_ok(c, m) \/ on_fail(c, m)
    BY <1>5, <2>2 DEF on_hello, on_value, on_part, on_notice
  <2>4. UNCHANGED result_list /\ cmdsuccess'[c] = (m.type = "OK")
    BY <1>8, <2>2, <2>3 DEF on_ok, on_fail, Complete
  <2>5. ValueOf(c, f)' = a
    BY <1>9, <2>2, <2>4 DEF ValueOf
  <2> QED
    BY <1>2, <1>3, <1>4, <1>7, <2>5 DEF Done
<1>10. CASE f.op = "commit"
  <2>1. m.type = "OK" /\ a = "OK"
    BY <1>2, <1>7, <1>10 DEF Matches, Fits
  <2>2. on_ok(c, m)
    BY <1>5, <2>1 DEF on_hello, on_fail, on_value, on_part, on_notice
  <2>3. cmdsuccess'[c] = TRUE
    BY <1>8, <2>2 DEF on_ok, Complete
  <2>4. ValueOf(c, f)' = a
    BY <1>10, <2>1, <2>3 DEF ValueOf
  <2> QED
    BY <1>2, <1>3, <1>4, <1>7, <2>4 DEF Done
<1>11. CASE f.op = "hchild"
  <2>1. m.type = "CHILD" /\ m.key = f.key /\ m.value = a /\ a \in {"TRUE", "FALSE"}
    BY <1>2, <1>7, <1>11 DEF Matches, Fits
  <2>2. on_value(c, m)
    BY <1>5, <2>1 DEF on_hello, on_ok, on_fail, on_part, on_notice
  <2>3. cmdsuccess'[c] = TRUE /\ result_key'[c] = f.key /\ result'[c] = a
    BY <1>8, <2>1, <2>2 DEF on_value, Complete
  <2>4. ValueOf(c, f)' = a
    BY <1>11, <2>1, <2>3 DEF ValueOf
  <2> QED
    BY <1>2, <1>3, <1>4, <1>7, <2>4 DEF Done
<1>12. CASE f.op = "get"
  <2>1. (m.type = "ONEVAL" /\ m.key = f.key /\ m.value = a) \/ (m.type = "FAIL" /\ a = Null)
    BY <1>2, <1>7, <1>12 DEF Matches, Fits
  <2>2. CASE m.type = "ONEVAL" /\ m.key = f.key /\ m.value = a
    <3>1. on_value(c, m)
      BY <1>5, <2>2 DEF on_hello, on_ok, on_fail, on_part, on_notice
    <3>2. cmdsuccess'[c] = TRUE /\ result_key'[c] = f.key /\ result'[c] = a
      BY <1>8, <2>2, <3>1 DEF on_value, Complete
    <3>3. ValueOf(c, f)' = a
      BY <1>12, <3>2 DEF ValueOf
    <3> QED
      BY <1>2, <1>3, <1>4, <1>7, <3>3 DEF Done
  <2>3. CASE m.type = "FAIL" /\ a = Null
    <3>1. on_fail(c, m)
      BY <1>5, <2>3 DEF on_hello, on_ok, on_value, on_part, on_notice
    <3>2. cmdsuccess'[c] = FALSE
      BY <1>8, <3>1 DEF on_fail, Complete
    <3>3. ValueOf(c, f)' = a
      BY <1>12, <2>3, <3>2 DEF ValueOf
    <3> QED
      BY <1>2, <1>3, <1>4, <1>7, <3>3 DEF Done
  <2> QED
    BY <2>1, <2>2, <2>3
<1> QED
  BY <1>9, <1>10, <1>11, <1>12 DEF Replying

LEMMA ReadOrder ==
  ASSUME TypeInv, TypeInv', NEW c \in Client, conncallback(c), Stage(c), InOrder(c)
  PROVE  InOrder(c)'
<1> DEFINE m == Head(s2c[c])
<1>1. stack'[c] = stack[c] /\ UNCHANGED answer
  BY ReadKeeps
<1>2. Shallow(c)' /\ Caller(c)' = Caller(c)
  BY <1>1 DEF InOrder, Shallow, Caller
<1>3. IF m.type \in Completion THEN Waiting(c) /\ ~Waiting(c)' ELSE Waiting(c)' <=> Waiting(c)
  BY ReadStage
<1>4. PICK f : f = Caller(c)
  OBVIOUS
<1>5. /\ f = Caller(c)'
      /\ Pending(c, f)' => Pending(c, Caller(c))'
      /\ Done(c, f)' => Done(c, Caller(c))'
  BY <1>2, <1>4
<1>6. CASE Waiting(c)
  <2>1. f.op \in Replying /\ Pending(c, f)
    BY <1>4, <1>6, WaitingCalls DEF InOrder
  <2>2. CASE m.type \in Completion
    <3>1. Done(c, f)' /\ Vals(c)' = {}
      BY <2>1, <2>2, ReadDone
    <3> QED
      BY <1>2, <1>3, <1>5, <2>2, <3>1 DEF InOrder
  <2>3. CASE m.type \notin Completion
    <3>1. Pending(c, f)'
      BY <2>1, <2>3, ReadPending
    <3> QED
      BY <1>2, <1>3, <1>5, <1>6, <2>3, <3>1 DEF InOrder
  <2> QED
    BY <2>2, <2>3
<1>7. CASE ~Waiting(c)
  <2>1. m.type \notin Completion /\ ~Waiting(c)' /\ Vals(c) = {}
    BY <1>3, <1>7 DEF InOrder
  <2>2. Vals(c)' = {} /\ m.type # "VAL"
    BY <2>1, ReadPlaces
  <2>3. UNCHANGED resultvars
    BY <2>1, <2>2 DEF conncallback, on_hello, on_ok, on_fail, on_value, on_part, on_notice, Completion
  <2>4. Done(c, f) => Done(c, f)'
    BY <1>1, <2>3, DoneKept DEF resultvars
  <2>5. stack[c] # <<>> /\ f.op \in Replying => Done(c, f)
    BY <1>4, <1>7 DEF InOrder
  <2> QED
    BY <1>1, <1>2, <1>4, <1>5, <2>1, <2>2, <2>4, <2>5 DEF InOrder
<1> QED
  BY <1>6, <1>7

LEMMA OwnOrder ==
  ASSUME TypeInv, TypeInv', NEW c \in Client, c \in up, c \in up', Orderly(c), Stage(c),
         InOrder(c),
         DaemonStep(c) \/ CallStep(c) \/ ClientStep(c) \/ timeout(c) \/ detach(c)
  PROVE  InOrder(c)'
<1>1. CASE DaemonStep(c) \/ detach(c)
  BY <1>1, ServedOrder
<1>2. CASE CallStep(c)
  <2>1. ASSUME NEW p, NEW q, setv(c, p, q) PROVE FALSE
    <3>1. CanCall(c, "setv")
      BY <2>1 DEF setv
    <3>2. "setv" \in Op[c]
      BY <3>1, ProtocolAssumption DEF CanCall
    <3> QED
      BY <3>2 DEF Orderly
  <2>2. ~quit(c)
    BY DEF quit
  <2> QED
    BY <1>2, <2>1, <2>2, CallCases, CalledOrder, SetOrder
<1>3. CASE ClientStep(c) \/ timeout(c)
  <2>1. ~eof(c) /\ ~timeout(c)
    BY LostKeeps
  <2> QED
    BY <1>3, <2>1, ReadOrder, FlushOrder, ReturnOrder, SetNextOrder DEF ClientStep
<1> QED
  BY <1>1, <1>2, <1>3

LEMMA OrderStep == TypeInv /\ StageInv /\ OrderInv /\ [Next]_vars => OrderInv'
<1> SUFFICES ASSUME TypeInv, StageInv, OrderInv, [Next]_vars, NEW x \in up', Orderly(x)
             PROVE  InOrder(x)'
  BY DEF OrderInv, Orderly
<1>1. CASE UNCHANGED vars
  <2>1. /\ UNCHANGED <<attached, task, c2s, s2c, stack, cmdinprogress, cmdsuccess, result_key,
                       result, result_list, answer, nreq, deltas, told>>
        /\ up' = up /\ x \in Client
    BY <1>1 DEF vars, daemonvars, clientvars, resultvars, TypeInv, TypeOK
  <2>2. InOrder(x)
    BY <2>1 DEF OrderInv
  <2>3. Untouched(x)
    BY <2>1, NothingHeard DEF Untouched, TypeInv
  <2>4. TypeInv'
    BY <1>1, StutterKeeps
  <2> QED
    BY <2>1, <2>2, <2>3, <2>4, UntouchedOrder
<1>2. CASE Next
  <2>1. PICK c \in Client :
          /\ Keeps(c)
          /\ DaemonStep(c) \/ CallStep(c) \/ ClientStep(c) \/ timeout(c) \/ detach(c)
    BY <1>2, StepKeeps
  <2>2. TypeInv' /\ x \in Client
    BY <2>1 DEF Keeps, TypeInv, TypeOK
  <2>3. CASE x # c
    <3>1. Untouched(x)
      BY <2>1, <2>2, <2>3 DEF Keeps
    <3>2. InOrder(x)
      BY <3>1 DEF Untouched, OrderInv
    <3> QED
      BY <2>2, <3>1, <3>2, UntouchedOrder
  <2>4. CASE x = c
    <3>1. x \in up
      BY <2>1, UpShrinks
    <3>2. InOrder(x) /\ Stage(x)
      BY <3>1 DEF OrderInv, StageInv, Orderly
    <3> QED
      BY <2>1, <2>2, <2>4, <3>1, <3>2, OwnOrder
  <2> QED
    BY <2>3, <2>4
<1> QED
  BY <1>1, <1>2

LEMMA InitOrder == Init => OrderInv
<1> SUFFICES ASSUME Init, NEW c \in up PROVE InOrder(c)
  BY DEF OrderInv
<1>1. c \in Client /\ stack[c] = <<>> /\ s2c[c] = <<Msg("HELLO", Root, Null)>>
  BY DEF Init
<1>2. Vals(c) = {}
  <2>1. \A i \in DOMAIN s2c[c] : s2c[c][i].type = "HELLO"
    BY <1>1 DEF Msg
  <2> QED
    BY <2>1 DEF Vals
<1> QED
  BY <1>1, <1>2 DEF InOrder, Shallow

(* A call goes on top of the stack.                                        *)
LEMMA CallPushes ==
  ASSUME TypeInv, TypeInv', NEW c \in Client, NEW op, NEW k, Calls(c, op, k)
  PROVE  \E f \in FrameType : stack'[c] = Append(stack[c], f)
<1> DEFINE f == Frame(op, k, nreq'[c], <<>>)
<1>1. op \in Replying /\ k \in Key /\ stack' = [stack EXCEPT ![c] = Append(@, f)]
  BY DEF Calls, do_select, Push
<1>2. f \in FrameType
  <2>1. PICK n \in Nat : n = nreq'[c]
    BY DEF TypeInv, TypeOK
  <2> QED
    BY <1>1, <2>1 DEF Frame, FrameType
<1> HIDE DEF f
<1> QED
  BY <1>1, <1>2 DEF TypeInv, TypeOK

LEMMA SetPushes ==
  ASSUME TypeInv, TypeInv', NEW c \in Client, NEW op, NEW p, Sets(c, op, p)
  PROVE  \E f \in FrameType : stack'[c] = Append(stack[c], f)
<1> DEFINE k == p[1][1]
           f == Frame("set", k, nreq'[c], Tail(p))
<1>1. p \in Seq(Pair) /\ p # <<>> /\ stack' = [stack EXCEPT ![c] = Append(@, f)]
  BY DEF Sets, set, Push
<1>2. k \in Key /\ Tail(p) \in Seq(Pair)
  <2>1. p[1] \in Pair /\ Tail(p) \in Seq(Pair)
    BY <1>1, TailFacts
  <2> QED
    BY <2>1 DEF Pair
<1>3. f \in FrameType
  <2>1. PICK n \in Nat : n = nreq'[c]
    BY DEF TypeInv, TypeOK
  <2> HIDE DEF k
  <2> QED
    BY <1>2, <2>1 DEF Frame, FrameType
<1> HIDE DEF f
<1> QED
  BY <1>1, <1>3 DEF TypeInv, TypeOK

(* Only the end of a call shortens the stack.                              *)
LEMMA OnlyReturnReturns ==
  ASSUME TypeInv, TypeInv', NEW c \in Client, Returns(c),
         DaemonStep(c) \/ CallStep(c) \/ ClientStep(c) \/ timeout(c) \/ detach(c)
  PROVE  return(c)
<1>1. ASSUME stack'[c] = stack[c] PROVE FALSE
  <2>1. stack[c] \in Seq(FrameType)
    BY DEF TypeInv, TypeOK
  <2>2. Len(stack[c]) \in Nat
    BY <2>1
  <2> DEFINE n == Len(stack[c])
  <2>3. n \in Nat /\ n < n
    BY <1>1, <2>2 DEF Returns
  <2> HIDE DEF n
  <2> QED
    BY <2>3
<1>2. ASSUME NEW f \in FrameType, stack'[c] = Append(stack[c], f) PROVE FALSE
  <2>1. PICK q \in Seq(FrameType) : q = stack[c]
    BY DEF TypeInv, TypeOK
  <2>2. Len(q) \in Nat /\ Len(Append(q, f)) = Len(q) + 1
    BY AppendFacts
  <2>3. Len(Append(q, f)) < Len(q)
    BY <1>2, <2>1 DEF Returns
  <2> DEFINE n == Len(q)
             m == Len(Append(q, f))
  <2>4. n \in Nat /\ m = n + 1 /\ m < n
    BY <2>2, <2>3
  <2> HIDE DEF n, m
  <2> QED
    BY <2>4
<1>3. ASSUME Len(stack'[c]) = Len(stack[c]) PROVE FALSE
  <2>1. stack[c] \in Seq(FrameType)
    BY DEF TypeInv, TypeOK
  <2>2. Len(stack[c]) \in Nat
    BY <2>1
  <2> DEFINE n == Len(stack[c])
  <2>3. n \in Nat /\ n < n
    BY <1>3, <2>2 DEF Returns
  <2> HIDE DEF n
  <2> QED
    BY <2>3
<1>4. CASE DaemonStep(c) \/ detach(c)
  BY <1>1, <1>4, Serving DEF Served, clientvars
<1>5. CASE CallStep(c)
  <2>1. ASSUME NEW op, NEW k, Calls(c, op, k) PROVE FALSE
    <3>1. \E f \in FrameType : stack'[c] = Append(stack[c], f)
      BY <2>1, CallPushes
    <3> QED
      BY <1>2, <3>1
  <2>2. ASSUME NEW op, NEW p, Sets(c, op, p) PROVE FALSE
    <3>1. \E f \in FrameType : stack'[c] = Append(stack[c], f)
      BY <2>2, SetPushes
    <3> QED
      BY <1>2, <3>1
  <2>3. ASSUME NEW p, NEW q, setv(c, p, q) PROVE FALSE
    BY <1>1, <2>3 DEF setv
  <2>4. ~quit(c)
    BY <1>1 DEF quit
  <2> QED
    BY <1>5, <2>1, <2>2, <2>3, <2>4, CallCases
<1>6. CASE ClientStep(c) \/ timeout(c)
  <2>1. ~conncallback(c)
    BY <1>1, ReadKeeps
  <2>2. ~flush_delta(c)
    BY <1>3, FlushKeeps
  <2>3. ~set_next(c)
    BY <1>3, SetNextKeeps
  <2>4. ~eof(c) /\ ~timeout(c)
    BY <1>1 DEF eof, timeout
  <2> QED
    BY <1>6, <2>1, <2>2, <2>3, <2>4 DEF ClientStep
<1> QED
  BY <1>4, <1>5, <1>6

LEMMA ReturnsInOrder == TypeInv /\ StageInv /\ OrderInv /\ [Next]_vars => [RepliesMatch]_vars
<1> SUFFICES ASSUME TypeInv, OrderInv, Next, NEW x \in Client,
                    Returns(x), Top(x).op \in Replying, x \in up, Orderly(x)
             PROVE  Answered(x) /\ ReturnValue(x) = answer[x][Top(x).id]
  BY DEF RepliesMatch
<1>1. PICK c \in Client :
        /\ Keeps(c)
        /\ DaemonStep(c) \/ CallStep(c) \/ ClientStep(c) \/ timeout(c) \/ detach(c)
  BY StepKeeps
<1>2. x = c
  <2>1. ASSUME x # c PROVE FALSE
    <3>1. stack'[x] = stack[x]
      BY <1>1, <2>1 DEF Keeps, Untouched
    <3>2. stack[x] \in Seq(FrameType)
      BY DEF TypeInv, TypeOK
    <3>3. Len(stack[x]) \in Nat
      BY <3>2
    <3> DEFINE n == Len(stack[x])
    <3>4. n \in Nat /\ n < n
      BY <3>1, <3>3 DEF Returns
    <3> HIDE DEF n
    <3> QED
      BY <3>4
  <2> QED
    BY <2>1
<1>3. return(x)
  BY <1>1, <1>2, OnlyReturnReturns DEF Keeps
<1>4. Unholding(x) /\ stack[x] # <<>> /\ ~Waiting(x)
  BY <1>3, CallersWaitNot DEF return, Unholding
<1>5. InOrder(x)
  BY DEF OrderInv
<1>6. Top(x) = Caller(x)
  <2> DEFINE n == Len(stack[x])
  <2>1. n \in DOMAIN stack[x] /\ Top(x) = stack[x][n]
    BY <1>4, TopFacts
  <2> HIDE DEF n
  <2>2. n = 1
    BY <1>5, <2>1 DEF InOrder, Shallow
  <2> QED
    BY <2>1, <2>2 DEF Caller
<1>7. Done(x, Top(x))
  BY <1>4, <1>5, <1>6 DEF InOrder
<1>8. ReturnValue(x) = ValueOf(x, Top(x))
  BY DEF ReturnValue, ValueOf
<1> QED
  BY <1>7, <1>8 DEF Done, Answered

(* A call returns to its caller what the daemon answered to the request of *)
(* that very call, though messages carry no request ids: whatever notices  *)
(* come between, whatever other clients change meanwhile, and whatever     *)
(* entries a listing is made of (do_select, conncallback, do_subtree).     *)
THEOREM RepliesAreMatched == Spec => ReplyMatches
BY Types, InitStage, StageStep, InitOrder, OrderStep, ReturnsInOrder, PTL DEF Spec, ReplyMatches

----------------------------------------------------------------------------
(* What a client has been told when a get returns is what get returns.     *)

(* The messages up to the jth.                                             *)
Upto(q, j) == [i \in 1 .. j |-> q[i]]

LEMMA UptoType ==
  ASSUME NEW D, NEW q \in Seq(D), NEW j \in DOMAIN q
  PROVE  /\ Upto(q, j) \in Seq(D) /\ Upto(q, j) # <<>> /\ Head(Upto(q, j)) = Head(q)
         /\ j \in Nat \ {0} /\ Len(q) \in Nat /\ j <= Len(q) /\ DOMAIN q = 1 .. Len(q)
<1>1. Len(q) \in Nat /\ j \in 1 .. Len(q) /\ \A i \in 1 .. Len(q) : q[i] \in D
  OBVIOUS
<1>2. Upto(q, j) \in [1 .. j -> D] /\ j \in Nat
  BY <1>1 DEF Upto
<1>3. Upto(q, j) \in Seq(D)
  BY <1>2
<1>4. Len(Upto(q, j)) = j /\ j # 0
  BY <1>1, <1>2, <1>3
<1>5. Upto(q, j)[1] = q[1]
  BY <1>1 DEF Upto
<1>6. Upto(q, j) # <<>>
  BY <1>3, <1>4
<1>7. q # <<>>
  BY <1>1
<1> QED
  BY <1>1, <1>3, <1>5, <1>6, <1>7, TailFacts

LEMMA UptoAll ==
  ASSUME NEW D, NEW q \in Seq(D)
  PROVE  Upto(q, Len(q)) = q
<1>1. q = [i \in 1 .. Len(q) |-> q[i]]
  OBVIOUS
<1> QED
  BY <1>1 DEF Upto

LEMMA UptoTail ==
  ASSUME NEW D, NEW q \in Seq(D), NEW j \in Nat, j + 1 \in DOMAIN q
  PROVE  Tail(Upto(q, j + 1)) = Upto(Tail(q), j)
<1> DEFINE p == Upto(q, j + 1)
           n == Len(q)
<1>1. p \in Seq(D) /\ p # <<>> /\ DOMAIN q = 1 .. n /\ n \in Nat /\ j + 1 <= n
  BY UptoType
<1>2. q # <<>> /\ \A i \in 1 .. n - 1 : Tail(q)[i] = q[i + 1]
  BY <1>1, TailFacts
<1>3. DOMAIN p = 1 .. j + 1 /\ \A i \in 1 .. j + 1 : p[i] = q[i]
  BY DEF Upto
<1> HIDE DEF p, n
<1>4. /\ DOMAIN p = 1 .. Len(p) /\ Len(p) \in Nat /\ DOMAIN Tail(p) = 1 .. Len(p) - 1
      /\ Tail(p) \in Seq(D)
      /\ \A i \in 1 .. Len(p) - 1 : Tail(p)[i] = p[i + 1]
  BY <1>1, TailFacts
<1>5. Len(p) = j + 1
  BY <1>3, <1>4
<1>6. \A i \in 1 .. j : i \in 1 .. n - 1 /\ i + 1 \in 1 .. j + 1
  BY <1>1
<1>7. \A i \in 1 .. j : Tail(p)[i] = Tail(q)[i]
  BY <1>2, <1>3, <1>4, <1>5, <1>6
<1>8. DOMAIN Tail(p) = 1 .. j
  BY <1>4, <1>5
<1>9. Tail(p) = [i \in 1 .. j |-> Tail(p)[i]]
  <2>1. PICK r \in Seq(D) : r = Tail(p)
    BY <1>4
  <2>2. r = Upto(r, Len(r)) /\ DOMAIN r = 1 .. Len(r)
    BY UptoAll
  <2>3. r = [i \in DOMAIN r |-> r[i]]
    BY <2>2 DEF Upto
  <2> QED
    BY <1>8, <2>1, <2>3
<1> QED
  BY <1>7, <1>9 DEF Upto, p

LEMMA UptoKept ==
  ASSUME NEW q, NEW r, NEW j, \A i \in 1 .. j : r[i] = q[i]
  PROVE  Upto(r, j) = Upto(q, j)
BY DEF Upto

(* What c has been told of the key of its get, and holds back, and will    *)
(* have read when the reply comes, is the answer.                          *)
Hearing(c, f, j) ==
  \E d : /\ Leads(deltas[c], f.key, told[c][f.key], d)
         /\ Leads(Upto(s2c[c], j), f.key, d, answer[c][f.id])

Heard(c, f) == Leads(deltas[c], f.key, told[c][f.key], answer[c][f.id])

(* The outermost call is a get, and nothing was requested since.           *)
Latest(c) == stack[c] # <<>> /\ Caller(c).op = "get" /\ nreq[c] = Caller(c).id

(* A callback's request is younger than the call it was called from.       *)
Younger(c) ==
  stack[c] # <<>> => /\ Caller(c).id <= nreq[c]
                     /\ Len(stack[c]) = 2 => Caller(c).id < nreq[c]

Agrees(c) ==
  /\ Younger(c)
  /\ Latest(c) => IF Waiting(c) THEN \A j \in Sent(c) : Hearing(c, Caller(c), j)
                                ELSE Heard(c, Caller(c))

AgreeInv == \A c \in up : Orderly(c) => Agrees(c)

LEMMA LatestFacts ==
  ASSUME TypeInv, NEW c \in Client, Latest(c), Younger(c)
  PROVE  /\ Len(stack[c]) = 1 /\ Top(c) = Caller(c) /\ Caller(c) \in FrameType
         /\ Caller(c).key \in Key /\ Caller(c).id \in Nat
<1>1. stack[c] # <<>> /\ nreq[c] = Caller(c).id /\ nreq[c] \in Nat
  BY OwnFacts DEF Latest
<1>2. Len(stack[c]) \in {1, 2} /\ Top(c) = stack[c][Len(stack[c])] /\ Top(c) \in FrameType
  BY <1>1, TopFacts
<1>3. Len(stack[c]) # 2
  BY <1>1 DEF Younger
<1>4. Len(stack[c]) = 1
  BY <1>2, <1>3
<1>5. Top(c) = Caller(c)
  BY <1>2, <1>4 DEF Caller
<1> QED
  BY <1>2, <1>4, <1>5 DEF FrameType

(* Nothing happens to what the client has read, and what comes to it comes *)
(* behind the reply.                                                       *)
LEMMA AgreesKept ==
  ASSUME TypeInv, NEW c \in Client, Agrees(c),
         stack'[c] = stack[c], nreq'[c] = nreq[c], deltas'[c] = deltas[c], told'[c] = told[c],
         Waiting(c)' <=> Waiting(c),
         \A i \in DOMAIN s2c[c] : s2c'[c][i] = s2c[c][i],
         Latest(c) /\ ~Waiting(c) => answer'[c][Caller(c).id] = answer[c][Caller(c).id],
         Latest(c) /\ Waiting(c) =>
           \A j \in Sent(c)' :
             \/ j \in Sent(c) /\ answer'[c][Caller(c).id] = answer[c][Caller(c).id]
             \/ Hearing(c, Caller(c), j)'
  PROVE  Agrees(c)'
<1>1. Caller(c)' = Caller(c)
  BY DEF Caller
<1>2. Younger(c)' /\ (Latest(c)' <=> Latest(c))
  BY <1>1 DEF Agrees, Younger, Latest
<1>3. PICK f : f = Caller(c)
  OBVIOUS
<1>4. ASSUME Latest(c), ~Waiting(c) PROVE Heard(c, Caller(c))'
  BY <1>1, <1>4 DEF Agrees, Heard
<1>5. ASSUME Latest(c), Waiting(c), NEW j \in Sent(c)' PROVE Hearing(c, Caller(c), j)'
  <2>1. CASE j \in Sent(c) /\ answer'[c][Caller(c).id] = answer[c][Caller(c).id]
    <3>1. Hearing(c, Caller(c), j)
      BY <1>5, <2>1 DEF Agrees
    <3>2. j \in DOMAIN s2c[c] /\ s2c[c] \in Seq(Message)
      BY <2>1, OwnFacts DEF Sent
    <3>3. \A i \in 1 .. j : i \in DOMAIN s2c[c]
      <4> DEFINE n == Len(s2c[c])
      <4>1. DOMAIN s2c[c] = 1 .. n /\ n \in Nat /\ j \in Nat /\ j <= n
        BY <3>2, UptoType
      <4> HIDE DEF n
      <4> QED
        BY <4>1
    <3>4. Upto(s2c'[c], j) = Upto(s2c[c], j)
      BY <3>3, UptoKept
    <3> QED
      BY <1>1, <2>1, <3>1, <3>4 DEF Hearing
  <2> QED
    BY <1>5, <2>1
<1> QED
  BY <1>2, <1>4, <1>5 DEF Agrees

LEMMA UntouchedAgrees ==
  ASSUME TypeInv, TypeInv', NEW c \in Client, Untouched(c), Agrees(c)
  PROVE  Agrees(c)'
<1>1. /\ Hears(c) /\ answer'[c] = answer[c] /\ stack'[c] = stack[c] /\ nreq'[c] = nreq[c]
      /\ cmdinprogress'[c] = cmdinprogress[c] /\ deltas'[c] = deltas[c] /\ told'[c] = told[c]
  BY DEF Untouched
<1>2. Sent(c)' = Sent(c) /\ \A i \in DOMAIN s2c[c] : s2c'[c][i] = s2c[c][i]
  BY <1>1, HearsPlaces
<1>3. Waiting(c)' <=> Waiting(c)
  BY <1>1, WaitsOn
<1> QED
  BY <1>1, <1>2, <1>3, AgreesKept

(* What is on its way to the client stays so.                              *)
LEMMA TellsMore ==
  ASSUME TypeInv, TypeInv', NEW c \in Client, Tells(c)
  PROVE  /\ \A i \in DOMAIN s2c[c] : i \in DOMAIN s2c'[c] /\ s2c'[c][i] = s2c[c][i]
         /\ Sent(c) \subseteq Sent(c)'
<1>0. TypeOK /\ s2c[c] \in Seq(Message) /\ s2c'[c] \in Seq(Message)
  BY DEF TypeInv, TypeOK
<1>1. CASE Announces(Online) \/ Announces(Online \ {c}) \/ UNCHANGED <<tree, s2c>>
  <2>1. Hears(c)
    BY <1>0, <1>1, AnnounceSends, NothingHeard
  <2>2. PICK N \in Seq(Notice) : s2c'[c] = s2c[c] \o N
    BY <2>1 DEF Hears
  <2>3. \A i \in DOMAIN s2c[c] : i \in DOMAIN s2c'[c]
    <3> DEFINE m == Len(s2c[c])
               n == Len(N)
    <3>1. m \in Nat /\ n \in Nat /\ DOMAIN s2c[c] = 1 .. m /\ DOMAIN s2c'[c] = 1 .. m + n
      BY <1>0, <2>2
    <3> HIDE DEF m, n
    <3> QED
      BY <3>1
  <2> QED
    BY <2>1, <2>3, HearsPlaces
<1>2. CASE \E m \in Message : m.type # "NOTICE" /\ Replies(c, m)
  <2>1. PICK m \in Message : Replies(c, m)
    BY <1>2
  <2>2. CASE s2c'[c] = s2c[c]
    BY <2>2 DEF Sent
  <2>3. CASE s2c'[c] = Append(s2c[c], m)
    <3>1. PICK q \in Seq(Message) : q = s2c[c]
      BY <1>0
    <3> DEFINE n == Len(q)
    <3>2. /\ n \in Nat /\ DOMAIN q = 1 .. n /\ DOMAIN Append(q, m) = 1 .. n + 1
          /\ \A i \in 1 .. n : Append(q, m)[i] = q[i]
      BY AppendFacts
    <3> HIDE DEF n
    <3>3. \A i \in DOMAIN q : i \in DOMAIN Append(q, m) /\ Append(q, m)[i] = q[i]
      BY <3>2
    <3> QED
      BY <2>3, <3>1, <3>3 DEF Sent
  <2> QED
    BY <2>1, <2>2, <2>3 DEF Replies
<1> QED
  BY <1>1, <1>2 DEF Tells

(* The daemon takes the get off the queue.                                 *)
LEMMA TakesGet ==
  ASSUME TypeInv, NEW c \in Client, NEW op \in Replying, Reading(c, op), NEW f, Pending(c, f)
  PROVE  op = f.op /\ Arg(c).key = f.key /\ Len(answer[c]) + 1 = f.id
<1>1. /\ c \in attached /\ c2s[c] # <<>> /\ Arg(c) = c2s[c][1] /\ Arg(c).op = op
  BY ReadingFacts DEF TypeInv
<1>2. c2s[c] \in Seq(RequestType)
  BY OwnFacts
<1>3. DOMAIN c2s[c] = 1 .. Len(c2s[c]) /\ Len(c2s[c]) \in Nat \ {0}
  BY <1>1, <1>2, TailFacts
<1> DEFINE n == Len(c2s[c])
<1>4. 1 \in DOMAIN c2s[c]
  <2>1. DOMAIN c2s[c] = 1 .. n /\ n \in Nat \ {0}
    BY <1>3
  <2> HIDE DEF n
  <2> QED
    BY <2>1
<1>5. 1 \in Due(c)
  BY <1>1, <1>4 DEF Due
<1> QED
  BY <1>1, <1>5 DEF Pending

(* Its answer is the value of the key in the tree of which the client will *)
(* have been told by the messages that are in front of the reply.          *)
LEMMA AnsweredAgrees ==
  ASSUME TypeInv, TypeInv', ToldInv', NEW c \in up, NEW op \in Replying, NEW m \in Message, NEW a,
         Answers(c, op, m, a), NEW f \in FrameType, f.op = "get", Pending(c, f), Sent(c) = {},
         NEW j \in Sent(c)'
  PROVE  Hearing(c, f, j)'
<1>0. c \in Client /\ TypeOK
  BY DEF TypeInv, TypeOK
<1>1. /\ Reading(c, op) /\ Replies(c, m) /\ Answer(c, a) /\ m.type \in Completion
      /\ op = "get" => a = tree[Arg(c).key]
      /\ UNCHANGED attached
  BY DEF Answers
<1>2. op = "get" /\ Arg(c).key = f.key /\ Len(answer[c]) + 1 = f.id
  BY <1>0, <1>1, TakesGet
<1>3. c \in attached /\ UNCHANGED clientvars
  BY <1>1 DEF Reading
<1>4. c \in Online /\ c \in (up \intersect attached)'
  BY <1>1, <1>3 DEF Online, clientvars
<1>5. Sent(c)' = {Len(s2c[c]) + 1}
  BY <1>1, <1>4, ReplyPlaces
<1>6. s2c'[c] = Append(s2c[c], m) /\ tree' = tree
  BY <1>0, <1>1, <1>4 DEF Replies, Online
<1>7. Upto(s2c'[c], j) = s2c'[c]
  <2>1. s2c[c] \in Seq(Message)
    BY <1>0, OwnFacts
  <2>2. Append(s2c[c], m) \in Seq(Message) /\ Len(Append(s2c[c], m)) = Len(s2c[c]) + 1
    BY <2>1, AppendFacts
  <2>3. j = Len(Append(s2c[c], m))
    BY <1>5, <2>2
  <2> QED
    BY <1>6, <2>2, <2>3, UptoAll
<1>8. answer'[c][f.id] = tree[f.key]
  <2>1. answer'[c] = Append(answer[c], a) /\ IsSeq(answer[c])
    BY <1>0, <1>1, ReadAnswered, OwnFacts
  <2>2. Append(answer[c], a)[Len(answer[c]) + 1] = a
    BY <2>1, IsSeqAppend
  <2> QED
    BY <1>1, <1>2, <2>1, <2>2
<1>9. f.key \in Key
  BY DEF FrameType
<1>10. PICK d : Leads(deltas'[c], f.key, told'[c][f.key], d) /\ Leads(s2c'[c], f.key, d, tree'[f.key])
  BY <1>4, <1>9 DEF ToldInv, Knows
<1> QED
  BY <1>6, <1>7, <1>8, <1>10 DEF Hearing

LEMMA ServedAgrees ==
  ASSUME TypeInv, TypeInv', ToldInv', NEW c \in up, Stage(c), Stage(c)', InOrder(c), Agrees(c),
         DaemonStep(c) \/ detach(c)
  PROVE  Agrees(c)'
<1>0. c \in Client /\ TypeOK
  BY DEF TypeInv, TypeOK
<1>1. UNCHANGED <<resultvars, clientvars>>
  BY <1>0, Serving DEF Served
<1>2. /\ stack'[c] = stack[c] /\ nreq'[c] = nreq[c] /\ deltas'[c] = deltas[c]
      /\ told'[c] = told[c] /\ cmdinprogress'[c] = cmdinprogress[c]
  BY <1>1 DEF resultvars, clientvars
<1>3. Waiting(c)' <=> Waiting(c)
  BY <1>2, WaitsOn
<1>4. Tells(c)
  BY <1>0, DaemonTells
<1>5. /\ \A i \in DOMAIN s2c[c] : s2c'[c][i] = s2c[c][i]
      /\ Sent(c) \subseteq Sent(c)'
  BY <1>0, <1>4, TellsMore
<1>6. \A i \in DOMAIN answer[c] : i \in DOMAIN answer'[c] /\ answer'[c][i] = answer[c][i]
  BY <1>0, AnswersStay
<1>7. PICK f : f = Caller(c)
  OBVIOUS
<1>8. ASSUME Latest(c), ~Waiting(c)
      PROVE  answer'[c][Caller(c).id] = answer[c][Caller(c).id]
  <2>1. Done(c, f)
    BY <1>7, <1>8 DEF Latest, InOrder, Replying
  <2> QED
    BY <1>6, <1>7, <2>1 DEF Done
<1>9. ASSUME Latest(c), Waiting(c), NEW j \in Sent(c)'
      PROVE  \/ j \in Sent(c) /\ answer'[c][f.id] = answer[c][f.id]
             \/ Hearing(c, f, j)'
  <2>1. f.op = "get" /\ f \in FrameType /\ Pending(c, f)
    BY <1>0, <1>7, <1>9, LatestFacts DEF Latest, Agrees, InOrder, Replying
  <2>2. CASE Sent(c) # {}
    <3>1. PICK i \in Sent(c) : f.id \in DOMAIN answer[c]
      BY <2>1, <2>2 DEF Pending
    <3>2. Alone(Sent(c)')
      BY <1>3, <1>9 DEF Stage, Asked, Listed, Replied
    <3>3. i = j
      BY <1>5, <1>9, <3>1, <3>2 DEF Alone
    <3> QED
      BY <1>6, <3>1, <3>3
  <2>3. CASE Sent(c) = {}
    <3>0. ~Listing(c)
      BY <2>1 DEF Pending
    <3>1. CASE Announces(Online) \/ Announces(Online \ {c}) \/ UNCHANGED <<tree, s2c>>
      <4>1. Hears(c)
        BY <1>0, <3>1, AnnounceSends, NothingHeard
      <4>2. Sent(c)' = {}
        BY <1>0, <2>3, <4>1, HearsPlaces
      <4> QED
        BY <1>9, <4>2
    <3>2. CASE \E op \in Replying, m \in Message : \E a : Answers(c, op, m, a)
      <4>1. PICK op \in Replying, m \in Message : \E a : Answers(c, op, m, a)
        BY <3>2
      <4>2. PICK a : Answers(c, op, m, a)
        BY <4>1
      <4> QED
        BY <1>9, <2>1, <2>3, <4>2, AnsweredAgrees
    <3>3. ASSUME NEW L \in SUBSET Pair, NEW e \in L, Lists(c, L, e) PROVE FALSE
      <4>1. Reading(c, "subt") /\ "subt" \in Replying
        BY <3>3 DEF Lists, Replying
      <4> QED
        BY <1>0, <2>1, <4>1, TakesGet
    <3>4. ASSUME ListsOn(c) PROVE FALSE
      BY <3>0, <3>4 DEF ListsOn, Listing
    <3>5. ASSUME NEW op, Refuses(c, op) PROVE FALSE
      <4>1. Reading(c, op) /\ op \in {"quit", "setv"} /\ \E a : Answer(c, a)
        BY <3>5 DEF Refuses
      <4> QED
        BY <1>0, <4>1, ReadingStage
    <3>6. CASE \E op \in {"set", "del"} : Changes(c, op)
      BY <3>1, <3>6 DEF Changes
    <3>7. CASE GoesOn(c)
      BY <3>1, <3>7 DEF GoesOn
    <3>8. CASE detach(c)
      BY <1>0, <3>1, <3>8, DetachDetaches DEF Detaches
    <3> QED
      BY <1>0, <3>2, <3>3, <3>4, <3>5, <3>6, <3>7, <3>8, DaemonCases
  <2> QED
    BY <2>2, <2>3
<1>10. Caller(c)' = Caller(c)
  BY <1>2 DEF Caller
<1>11. ASSUME Latest(c), Waiting(c), NEW j \in Sent(c)'
       PROVE  \/ j \in Sent(c) /\ answer'[c][Caller(c).id] = answer[c][Caller(c).id]
              \/ Hearing(c, Caller(c), j)'
  <2>1. \/ j \in Sent(c) /\ answer'[c][f.id] = answer[c][f.id]
        \/ Hearing(c, f, j)'
    BY <1>9, <1>11
  <2>2. Hearing(c, f, j)' => Hearing(c, Caller(c), j)'
    BY <1>7, <1>10 DEF Hearing
  <2> QED
    BY <1>7, <2>1, <2>2
<1> QED
  BY <1>0, <1>2, <1>3, <1>5, <1>8, <1>11, AgreesKept

(* A call that waits for a reply begins from the main loop.                *)
LEMMA CalledAgrees ==
  ASSUME TypeInv, TypeInv', NEW c \in Client, NEW op, NEW k, Calls(c, op, k), Stage(c),
         Orderly(c)
  PROVE  Agrees(c)'
<1> DEFINE f == Frame(op, k, nreq'[c], <<>>)
<1>1. /\ CanCall(c, op) /\ op \in Replying /\ s2c' = s2c
      /\ stack' = [stack EXCEPT ![c] = Append(@, f)]
  BY DEF Calls, do_select, Push
<1>2. stack[c] = <<>>
  BY <1>1 DEF CanCall, Orderly
<1>3. f.id = nreq'[c] /\ nreq'[c] \in Nat
  BY DEF Frame, TypeInv, TypeOK
<1> HIDE DEF f
<1>4. stack'[c] = <<f>>
  BY <1>1, <1>2 DEF TypeInv, TypeOK
<1>5. Caller(c)' = f /\ Len(stack'[c]) = 1
  BY <1>4 DEF Caller
<1>6. Younger(c)'
  BY <1>3, <1>5 DEF Younger
<1>7. Waiting(c)' /\ ~Waiting(c)
  BY <1>1, CalledStage, CallersWaitNot
<1>8. Sent(c)' = {}
  BY <1>1, <1>7 DEF Stage, Quiet, Sent
<1> QED
  BY <1>6, <1>7, <1>8 DEF Agrees

(* A request is written; the call was there before, or is no get.          *)
LEMMA WroteAgrees ==
  ASSUME TypeInv, TypeInv', NEW c \in Client, Agrees(c), nreq'[c] = nreq[c] + 1,
         \/ stack'[c] # <<>> /\ stack[c] # <<>> /\ Caller(c)'.id = Caller(c).id
         \/ /\ stack[c] = <<>> /\ Caller(c)'.id = nreq'[c] /\ Len(stack'[c]) = 1
            /\ Caller(c)'.op # "get"
  PROVE  Agrees(c)'
<1>1. nreq[c] \in Nat
  BY OwnFacts
<1>2. CASE stack'[c] # <<>> /\ stack[c] # <<>> /\ Caller(c)'.id = Caller(c).id
  <2>1. Caller(c).id \in Nat /\ Caller(c).id <= nreq[c]
    <3>1. Len(stack[c]) \in {1, 2} /\ stack[c] \in Seq(FrameType)
      BY <1>2, TopFacts, OwnFacts
    <3>2. Caller(c) \in FrameType
      BY <3>1 DEF Caller
    <3> QED
      BY <1>2, <3>2 DEF FrameType, Agrees, Younger
  <2>2. Caller(c)'.id < nreq'[c] /\ Caller(c)'.id <= nreq'[c] /\ nreq'[c] # Caller(c)'.id
    BY <1>1, <1>2, <2>1
  <2> QED
    BY <2>2 DEF Agrees, Younger, Latest
<1>3. CASE /\ stack[c] = <<>> /\ Caller(c)'.id = nreq'[c] /\ Len(stack'[c]) = 1
           /\ Caller(c)'.op # "get"
  BY <1>1, <1>3 DEF Agrees, Younger, Latest
<1> QED
  BY <1>2, <1>3

LEMMA SetAgrees ==
  ASSUME TypeInv, TypeInv', NEW c \in Client, NEW op, NEW p, Sets(c, op, p), Agrees(c)
  PROVE  Agrees(c)'
<1> DEFINE r == SetRequest(p[1][1], p[1][2])
           f == Frame("set", p[1][1], nreq'[c], Tail(p))
<1>1. /\ Write(c, <<r>>) /\ stack' = [stack EXCEPT ![c] = Append(@, f)]
      /\ p \in Seq(Pair) /\ p # <<>>
  BY DEF Sets, set, Push
<1>2. p[1][1] \in Key /\ p[1][2] \in Value \union {Null}
  <2>1. p[1] \in Pair
    BY <1>1, TailFacts
  <2> QED
    BY <2>1 DEF Pair
<1>3. <<r>> \in Seq(RequestType) /\ Len(<<r>>) = 1
  BY <1>2, SetRequestMade
<1>4. f.id = nreq'[c] /\ f.op = "set"
  BY DEF Frame
<1> HIDE DEF r, f
<1>5. nreq'[c] = nreq[c] + 1
  BY <1>1, <1>3, WriteFacts
<1>6. PICK q \in Seq(FrameType) : q = stack[c]
  BY OwnFacts
<1>7. stack'[c] = Append(q, f)
  BY <1>1, <1>6 DEF TypeInv, TypeOK
<1>8. CASE q = <<>>
  <2>1. Append(q, f)[1] = f /\ Len(Append(q, f)) = 1
    BY <1>8
  <2> QED
    BY <1>4, <1>5, <1>6, <1>7, <1>8, <2>1, WroteAgrees DEF Caller
<1>9. CASE q # <<>>
  <2>1. Append(q, f)[1] = q[1] /\ Append(q, f) # <<>>
    <3> DEFINE n == Len(q)
    <3>1. n \in Nat /\ n # 0 /\ \A i \in 1 .. n : Append(q, f)[i] = q[i]
      BY <1>9
    <3>2. Append(q, f) # <<>>
      BY <1>9
    <3> HIDE DEF n
    <3>3. 1 \in 1 .. n
      BY <3>1
    <3> QED
      BY <3>1, <3>2, <3>3
  <2> QED
    BY <1>5, <1>6, <1>7, <1>9, <2>1, WroteAgrees DEF Caller
<1> QED
  BY <1>8, <1>9

LEMMA SetNextAgrees ==
  ASSUME TypeInv, TypeInv', NEW c \in Client, set_next(c), Agrees(c)
  PROVE  Agrees(c)'
<1> DEFINE p == Head(Top(c).rest)
           r == SetRequest(p[1], p[2])
           g == [Top(c) EXCEPT !.rest = Tail(@)]
<1>1. /\ stack[c] # <<>> /\ Top(c).rest # <<>> /\ Write(c, <<r>>) /\ SetTop(c, g)
  BY DEF set_next
<1>2. Top(c).rest \in Seq(Pair) /\ Top(c) \in FrameType
  BY <1>1, TopFacts
<1>3. p \in Pair
  BY <1>1, <1>2, TailFacts
<1>4. <<r>> \in Seq(RequestType) /\ Len(<<r>>) = 1
  BY <1>3, SetRequestMade DEF Pair
<1>5. g.id = Top(c).id
  BY <1>2 DEF FrameType
<1> HIDE DEF p, r
<1>6. nreq'[c] = nreq[c] + 1
  BY <1>1, <1>4, WriteFacts
<1> DEFINE n == Len(stack[c])
<1>7. /\ Len(stack'[c]) = n /\ n \in {1, 2} /\ Top(c) = stack[c][n]
      /\ \A i \in 1 .. n : i # n => stack'[c][i] = stack[c][i]
  BY <1>1, SetNextKeeps, TopFacts
<1>8. stack'[c] # <<>>
  BY <1>7
<1>9. stack'[c] = [stack[c] EXCEPT ![n] = g]
  BY <1>1 DEF SetTop, TypeInv, TypeOK
<1>10. n \in DOMAIN stack[c]
  BY <1>1, TopFacts
<1> HIDE DEF g, n
<1>11. stack'[c][n] = g
  BY <1>9, <1>10
<1>12. Caller(c)'.id = Caller(c).id
  <2>1. CASE n = 1
    BY <1>5, <1>7, <1>11, <2>1 DEF Caller
  <2>2. CASE n = 2
    BY <1>7, <2>2 DEF Caller
  <2> QED
    BY <1>7, <2>1, <2>2
<1> QED
  BY <1>1, <1>6, <1>8, <1>12, WroteAgrees

(* A message is read by a client that waits for the reply.                 *)
LEMMA ReadAgrees ==
  ASSUME TypeInv, TypeInv', NEW c \in Client, conncallback(c), Stage(c), Agrees(c)
  PROVE  Agrees(c)'
<1> DEFINE m == Head(s2c[c])
<1>1. /\ s2c[c] # <<>> /\ s2c'[c] = Tail(s2c[c]) /\ stack' = stack /\ nreq' = nreq
      /\ answer' = answer
  BY ReadKeeps
<1>2. Caller(c)' = Caller(c)
  BY <1>1 DEF Caller
<1>3. Younger(c)' /\ (Latest(c)' <=> Latest(c))
  BY <1>1, <1>2 DEF Agrees, Younger, Latest
<1>4. PICK f : f = Caller(c)
  OBVIOUS
<1>5. s2c[c] \in Seq(Message)
  BY OwnFacts
<1> SUFFICES ASSUME Latest(c)
             PROVE  IF Waiting(c)' THEN \A j \in Sent(c)' : Hearing(c, f, j)'
                                   ELSE Heard(c, f)'
  BY <1>2, <1>3, <1>4 DEF Agrees, Hearing, Heard
<1>6. stack[c] # <<>> /\ Top(c) = f /\ f.key \in Key /\ f.op = "get"
  BY <1>4, LatestFacts DEF Latest, Agrees
<1>7. Waiting(c)
  BY <1>6 DEF conncallback, Reads, Waiting, Replying
<1>8. \A j \in Sent(c) : Hearing(c, f, j)
  BY <1>4, <1>7 DEF Agrees
<1>9. IF m.type \in Completion THEN Waiting(c) /\ ~Waiting(c)' ELSE Waiting(c)' <=> Waiting(c)
  BY ReadStage
<1>10. CASE m.type \in Completion
  <2>1. 1 \in Sent(c) /\ m = s2c[c][1]
    BY <1>10, ReadPlaces
  <2>2. PICK d : /\ Leads(deltas[c], f.key, told[c][f.key], d)
                 /\ Leads(Upto(s2c[c], 1), f.key, d, answer[c][f.id])
    BY <1>8, <2>1 DEF Hearing
  <2>3. \A i \in DOMAIN Upto(s2c[c], 1) : Upto(s2c[c], 1)[i].type # "NOTICE"
    BY <1>10, <2>1 DEF Upto, Completion
  <2>4. d = answer[c][f.id]
    BY <2>2, <2>3, LeadsNowhere
  <2>5. UNCHANGED <<deltas, told>>
    BY <1>10 DEF conncallback, on_hello, on_ok, on_fail, on_value, on_part, on_notice, Completion
  <2> QED
    BY <1>1, <1>9, <1>10, <2>2, <2>4, <2>5 DEF Heard
<1>11. CASE m.type \notin Completion
  <2>1. Waiting(c)'
    BY <1>7, <1>9, <1>11
  <2>2. ASSUME NEW j \in Sent(c)' PROVE Hearing(c, f, j)'
    <3>1. j \in Nat /\ j + 1 \in Sent(c)
      BY <2>2, ReadPlaces
    <3>2. PICK d : /\ Leads(deltas[c], f.key, told[c][f.key], d)
                   /\ Leads(Upto(s2c[c], j + 1), f.key, d, answer[c][f.id])
      BY <1>8, <3>1 DEF Hearing
    <3>3. PICK e : e = Learnt(m, f.key, d)
      OBVIOUS
    <3>4. Leads(deltas'[c], f.key, told'[c][f.key], e)
      BY <1>6, <3>2, <3>3, ReadLeads
    <3>5. j + 1 \in DOMAIN s2c[c]
      BY <3>1 DEF Sent
    <3>6. /\ Upto(s2c[c], j + 1) \in Seq(Message) /\ Upto(s2c[c], j + 1) # <<>>
          /\ Head(Upto(s2c[c], j + 1)) = m
      BY <1>5, <3>5, UptoType
    <3>7. Tail(Upto(s2c[c], j + 1)) = Upto(s2c'[c], j)
      BY <1>1, <1>5, <3>1, <3>5, UptoTail
    <3>8. PICK q \in Seq(Message) : q = Upto(s2c[c], j + 1)
      BY <3>6
    <3>9. IF Head(q).type = "NOTICE" /\ Head(q).key = f.key THEN e = Head(q).value ELSE e = d
      BY <3>3, <3>6, <3>8 DEF Learnt
    <3>10. Leads(Tail(q), f.key, e, answer[c][f.id])
      BY <3>2, <3>6, <3>8, <3>9, LeadsTail
    <3>11. Leads(Upto(s2c'[c], j), f.key, e, answer'[c][f.id])
      BY <1>1, <3>7, <3>8, <3>10
    <3> QED
      BY <3>4, <3>11 DEF Hearing
  <2> QED
    BY <2>1, <2>2
<1> QED
  BY <1>10, <1>11

(* A delta is dispatched, once the reply has come.                         *)
LEMMA FlushAgrees ==
  ASSUME TypeInv, TypeInv', NEW c \in Client, flush_delta(c), c \in up, Stage(c), Agrees(c)
  PROVE  Agrees(c)'
<1>1. ~Waiting(c) /\ ~Waiting(c)'
  BY OverStage
<1>2. UNCHANGED <<answer, nreq>> /\ stack[c] # <<>>
  BY DEF flush_delta, Unholding
<1>3. /\ Len(stack[c]) = 1 /\ Len(stack'[c]) = 1 /\ stack'[c] # <<>>
      /\ stack'[c][1] = [Top(c) EXCEPT !.phase = "callback"]
      /\ Top(c) = stack[c][1] /\ Top(c) \in FrameType
  BY FlushKeeps
<1>4. /\ Caller(c)'.op = Caller(c).op /\ Caller(c)'.key = Caller(c).key
      /\ Caller(c)'.id = Caller(c).id
  BY <1>3 DEF Caller, FrameType
<1>5. Younger(c)' /\ (Latest(c)' => Latest(c))
  BY <1>2, <1>3, <1>4 DEF Agrees, Younger, Latest
<1>6. ASSUME Latest(c) PROVE Heard(c, Caller(c))'
  <2>1. PICK f, g : f = Caller(c) /\ g = Caller(c)'
    OBVIOUS
  <2>2. Heard(c, f) /\ f.key \in Key /\ f.key = g.key /\ f.id = g.id
    BY <1>1, <1>4, <1>6, <2>1, LatestFacts DEF Agrees
  <2>3. Leads(deltas'[c], f.key, told'[c][f.key], answer[c][f.id])
    BY <2>2, FlushLeads DEF Heard
  <2>4. Leads(deltas'[c], g.key, told'[c][g.key], answer'[c][g.id])
    BY <1>2, <2>2, <2>3
  <2> QED
    BY <2>1, <2>4 DEF Heard
<1> QED
  BY <1>1, <1>5, <1>6 DEF Agrees

(* A call returns: the outermost one, or one that was younger.             *)
LEMMA ReturnAgrees ==
  ASSUME TypeInv, TypeInv', NEW c \in Client, return(c), Agrees(c)
  PROVE  Agrees(c)'
<1>1. nreq' = nreq /\ stack[c] # <<>>
  BY DEF return, Unholding
<1>2. \/ stack'[c] = <<>>
      \/ /\ Len(stack[c]) = 2 /\ Len(stack'[c]) = 1 /\ stack'[c][1] = stack[c][1]
  BY ReturnKeeps
<1>3. CASE stack'[c] = <<>>
  BY <1>3 DEF Agrees, Younger, Latest
<1>4. CASE /\ Len(stack[c]) = 2 /\ Len(stack'[c]) = 1 /\ stack'[c][1] = stack[c][1]
  <2>1. Caller(c).id < nreq[c] /\ Caller(c).id <= nreq[c] /\ nreq[c] \in Nat
    BY <1>1, <1>4, OwnFacts DEF Agrees, Younger
  <2>2. Caller(c)' = Caller(c) /\ nreq'[c] = nreq[c]
    BY <1>1, <1>4 DEF Caller
  <2>3. nreq[c] # Caller(c).id
    BY <2>1
  <2> QED
    BY <1>4, <2>1, <2>2, <2>3 DEF Agrees, Younger, Latest
<1> QED
  BY <1>2, <1>3, <1>4

LEMMA OwnAgrees ==
  ASSUME TypeInv, TypeInv', ToldInv', NEW c \in up, c \in up', Orderly(c), Stage(c), Stage(c)',
         InOrder(c), Agrees(c),
         DaemonStep(c) \/ CallStep(c) \/ ClientStep(c) \/ timeout(c) \/ detach(c)
  PROVE  Agrees(c)'
<1>0. c \in Client
  BY DEF TypeInv, TypeOK
<1>1. CASE DaemonStep(c) \/ detach(c)
  BY <1>1, ServedAgrees
<1>2. CASE CallStep(c)
  <2>1. ASSUME NEW p, NEW q, setv(c, p, q) PROVE FALSE
    <3>1. CanCall(c, "setv")
      BY <2>1 DEF setv
    <3>2. "setv" \in Op[c]
      BY <1>0, <3>1, ProtocolAssumption DEF CanCall
    <3> QED
      BY <3>2 DEF Orderly
  <2>2. ~quit(c)
    BY DEF quit
  <2> QED
    BY <1>0, <1>2, <2>1, <2>2, CallCases, CalledAgrees, SetAgrees
<1>3. CASE ClientStep(c) \/ timeout(c)
  <2>1. ~eof(c) /\ ~timeout(c)
    BY <1>0, LostKeeps
  <2> QED
    BY <1>0, <1>3, <2>1, ReadAgrees, FlushAgrees, ReturnAgrees, SetNextAgrees DEF ClientStep
<1> QED
  BY <1>1, <1>2, <1>3

LEMMA AgreeStep ==
  TypeInv /\ ToldInv /\ StageInv /\ OrderInv /\ AgreeInv /\ [Next]_vars => AgreeInv'
<1> SUFFICES ASSUME TypeInv, ToldInv, StageInv, OrderInv, AgreeInv, [Next]_vars,
                    NEW x \in up', Orderly(x)
             PROVE  Agrees(x)'
  BY DEF AgreeInv, Orderly
<1>0. ToldInv' /\ StageInv'
  BY ToldStep, StageStep
<1>1. CASE UNCHANGED vars
  <2>1. /\ UNCHANGED <<attached, task, c2s, s2c, stack, cmdinprogress, cmdsuccess, result_key,
                       result, result_list, answer, nreq, deltas, told>>
        /\ up' = up /\ x \in Client
    BY <1>1 DEF vars, daemonvars, clientvars, resultvars, TypeInv, TypeOK
  <2>2. Agrees(x)
    BY <2>1 DEF AgreeInv
  <2>3. Untouched(x)
    BY <2>1, NothingHeard DEF Untouched, TypeInv
  <2>4. TypeInv'
    BY <1>1, StutterKeeps
  <2> QED
    BY <2>1, <2>2, <2>3, <2>4, UntouchedAgrees
<1>2. CASE Next
  <2>1. PICK c \in Client :
          /\ Keeps(c)
          /\ DaemonStep(c) \/ CallStep(c) \/ ClientStep(c) \/ timeout(c) \/ detach(c)
    BY <1>2, StepKeeps
  <2>2. TypeInv' /\ x \in Client
    BY <2>1 DEF Keeps, TypeInv, TypeOK
  <2>3. CASE x # c
    <3>1. Untouched(x)
      BY <2>1, <2>2, <2>3 DEF Keeps
    <3>2. Agrees(x)
      BY <3>1 DEF Untouched, AgreeInv
    <3> QED
      BY <2>2, <3>1, <3>2, UntouchedAgrees
  <2>4. CASE x = c
    <3>1. x \in up
      BY <2>1, UpShrinks
    <3>2. Agrees(x) /\ InOrder(x) /\ Stage(x) /\ Stage(x)'
      BY <1>0, <3>1 DEF AgreeInv, OrderInv, StageInv, Orderly
    <3> QED
      BY <1>0, <2>1, <2>2, <2>4, <3>1, <3>2, OwnAgrees
  <2> QED
    BY <2>3, <2>4
<1> QED
  BY <1>1, <1>2

LEMMA InitAgrees == Init => AgreeInv
BY DEF Init, AgreeInv, Agrees, Younger, Latest

LEMMA GetsAgree ==
  TypeInv /\ StageInv /\ OrderInv /\ AgreeInv /\ [Next]_vars => [GetAgrees]_vars
<1> SUFFICES ASSUME TypeInv, StageInv, OrderInv, AgreeInv, Next, NEW x \in Client,
                    Returns(x), Len(stack[x]) = 1, Top(x).op = "get", x \in up,
                    Orderly(x), nreq[x] = Top(x).id
             PROVE  told[x][Top(x).key] = ReturnValue(x)
  BY DEF GetAgrees
<1>1. [RepliesMatch]_vars
  BY ReturnsInOrder
<1>2. stack'[x] # stack[x]
  <2>1. ASSUME stack'[x] = stack[x] PROVE FALSE
    BY <2>1 DEF Returns
  <2> QED
    BY <2>1
<1>3. ReturnValue(x) = answer[x][Top(x).id]
  BY <1>1, <1>2 DEF RepliesMatch, Replying, vars, clientvars
<1>4. PICK c \in Client :
        /\ Keeps(c)
        /\ DaemonStep(c) \/ CallStep(c) \/ ClientStep(c) \/ timeout(c) \/ detach(c)
  BY StepKeeps
<1>5. x = c
  BY <1>2, <1>4 DEF Keeps, Untouched
<1>6. return(x)
  BY <1>4, <1>5, OnlyReturnReturns DEF Keeps
<1>7. deltas[x] = <<>> /\ stack[x] # <<>> /\ ~Waiting(x)
  BY <1>6, CallersWaitNot DEF return, Unholding
<1>8. PICK f : f = Caller(x)
  OBVIOUS
<1>9. Top(x) = f
  BY <1>8 DEF Top, Caller
<1>10. Latest(x)
  BY <1>7, <1>8, <1>9 DEF Latest
<1>11. Heard(x, f)
  BY <1>7, <1>8, <1>10 DEF AgreeInv, Agrees
<1>12. told[x][f.key] = answer[x][f.id]
  BY <1>7, <1>11, LeadsNowhere DEF Heard
<1> QED
  BY <1>3, <1>9, <1>12

(* When an outermost get returns, and no callback made a request meanwhile, *)
(* callbacks have been told of that key's value just what get returns:      *)
(* notices that were sent before the reply are dispatched before the call   *)
(* returns, later ones after it (do_select, flush_delta, deltacallback).    *)
THEOREM GetsAreTold == Spec => ToldAgreesWithGet
<1>1. TypeInv /\ StageInv /\ OrderInv /\ AgreeInv /\ [Next]_vars => [GetAgrees]_vars
  BY GetsAgree
<1> QED
  BY <1>1, Types, InitTold, ToldStep, InitStage, StageStep, InitOrder, OrderStep, InitAgrees,
     AgreeStep, PTL DEF Spec, ToldAgreesWithGet
----------------------------------------------------------------------------
(* What a client is told is a tree at any time, and what a removal has to  *)
(* do is done.                                                             *)

(* The picture f of one who learns of m.                                   *)
Learning(f, m) == IF m.type = "NOTICE" THEN [f EXCEPT ![m.key] = m.value] ELSE f

(* Reading the messages q makes picture g of f, and a tree on the way of   *)
(* every message.                                                          *)
Pictures(q, P) ==
  /\ \A i \in 0 .. Len(q) : P[i] \in Tree /\ PrefixClosed(P[i])
  /\ \A i \in 1 .. Len(q) : P[i] = Learning(P[i - 1], q[i])

Shows(q, f, g) == \E P : Pictures(q, P) /\ P[0] = f /\ P[Len(q)] = g

LEMMA ShowsTrees ==
  ASSUME NEW D, NEW q \in Seq(D), NEW f, NEW g, Shows(q, f, g)
  PROVE  f \in Tree /\ PrefixClosed(f) /\ g \in Tree /\ PrefixClosed(g)
<1>1. PICK P : Pictures(q, P) /\ P[0] = f /\ P[Len(q)] = g
  BY DEF Shows
<1>2. 0 \in 0 .. Len(q) /\ Len(q) \in 0 .. Len(q)
  OBVIOUS
<1> QED
  BY <1>1, <1>2 DEF Pictures

LEMMA ShowsNothing ==
  ASSUME NEW D, NEW q \in Seq(D), q = <<>>, NEW f
  PROVE  /\ f \in Tree /\ PrefixClosed(f) => Shows(q, f, f)
         /\ \A g : Shows(q, f, g) => f = g
<1>1. Len(q) = 0
  OBVIOUS
<1>2. ASSUME f \in Tree, PrefixClosed(f)
      PROVE  Shows(q, f, f)
  <2> DEFINE P == [i \in 0 .. 0 |-> f]
  <2>1. P[0] = f /\ 0 .. 0 = {0} /\ 1 .. 0 = {}
    OBVIOUS
  <2> HIDE DEF P
  <2>2. Pictures(q, P)
    BY <1>1, <1>2, <2>1 DEF Pictures
  <2> QED
    BY <1>1, <2>1, <2>2 DEF Shows
<1>3. ASSUME NEW g, Shows(q, f, g)
      PROVE  f = g
  BY <1>1, <1>3 DEF Shows
<1> QED
  BY <1>2, <1>3

(* One message more at the end.                                            *)
LEMMA ShowsMore ==
  ASSUME NEW D, NEW q \in Seq(D), NEW m \in D, NEW f, NEW g, Shows(q, f, g),
         Learning(g, m) \in Tree, PrefixClosed(Learning(g, m))
  PROVE  Shows(Append(q, m), f, Learning(g, m))
<1> DEFINE n == Len(q)
           r == Append(q, m)
<1>1. PICK P : Pictures(q, P) /\ P[0] = f /\ P[n] = g
  BY DEF Shows
<1>2. /\ n \in Nat /\ Len(r) = n + 1 /\ r[n + 1] = m
      /\ \A i \in 1 .. n : r[i] = q[i]
  BY AppendFacts
<1> DEFINE h == Learning(g, m)
           R == [i \in 0 .. n + 1 |-> IF i = n + 1 THEN h ELSE P[i]]
<1> HIDE DEF n, r, h
<1>3. /\ \A i \in 0 .. n : P[i] \in Tree /\ PrefixClosed(P[i])
      /\ \A i \in 1 .. n : P[i] = Learning(P[i - 1], q[i])
  BY <1>1 DEF Pictures, n
<1>4. /\ R[n + 1] = h /\ R[n] = g /\ R[0] = f
      /\ \A i \in 0 .. n : R[i] = P[i]
  BY <1>1, <1>2
<1>5. \A i \in 0 .. n + 1 : i = n + 1 \/ i \in 0 .. n
  BY <1>2
<1>6. \A i \in 1 .. n + 1 : i = n + 1 \/ (i \in 1 .. n /\ i \in 0 .. n /\ i - 1 \in 0 .. n)
  BY <1>2
<1>7. n + 1 - 1 = n
  BY <1>2
<1> HIDE DEF R
<1>8. \A i \in 0 .. n + 1 : R[i] \in Tree /\ PrefixClosed(R[i])
  BY <1>3, <1>4, <1>5 DEF h
<1>9. \A i \in 1 .. n + 1 : R[i] = Learning(R[i - 1], r[i])
  BY <1>2, <1>3, <1>4, <1>6, <1>7 DEF h
<1>10. Pictures(r, R)
  BY <1>2, <1>8, <1>9 DEF Pictures
<1> QED
  BY <1>2, <1>4, <1>10 DEF Shows, r, h

(* One message less at the beginning.                                      *)
LEMMA ShowsLess ==
  ASSUME NEW D, NEW q \in Seq(D), q # <<>>, NEW f, NEW g, Shows(q, f, g)
  PROVE  /\ Learning(f, Head(q)) \in Tree /\ PrefixClosed(Learning(f, Head(q)))
         /\ Shows(Tail(q), Learning(f, Head(q)), g)
<1> DEFINE n == Len(q)
           r == Tail(q)
           m == Head(q)
<1>1. PICK P : Pictures(q, P) /\ P[0] = f /\ P[n] = g
  BY DEF Shows
<1>2. /\ n \in Nat \ {0} /\ Len(r) = n - 1 /\ m = q[1]
      /\ \A i \in 1 .. n - 1 : r[i] = q[i + 1]
  BY TailFacts
<1> DEFINE R == [i \in 0 .. n - 1 |-> P[i + 1]]
<1> HIDE DEF n, r, m
<1>3. /\ \A i \in 0 .. n : P[i] \in Tree /\ PrefixClosed(P[i])
      /\ \A i \in 1 .. n : P[i] = Learning(P[i - 1], q[i])
  BY <1>1 DEF Pictures, n
<1>4. /\ \A i \in 0 .. n - 1 : R[i] = P[i + 1] /\ i + 1 \in 0 .. n
      /\ R[0] = P[1] /\ R[n - 1] = g
  BY <1>1, <1>2
<1>5. \A i \in 1 .. n - 1 : i \in 0 .. n - 1 /\ i - 1 \in 0 .. n - 1 /\ i + 1 \in 1 .. n
                            /\ i + 1 - 1 = i /\ i - 1 + 1 = i
  BY <1>2
<1>6. 1 \in 1 .. n /\ 1 \in 0 .. n /\ 1 - 1 = 0
  BY <1>2
<1> HIDE DEF R
<1>7. \A i \in 0 .. n - 1 : R[i] \in Tree /\ PrefixClosed(R[i])
  BY <1>3, <1>4
<1>8. \A i \in 1 .. n - 1 : R[i] = Learning(R[i - 1], r[i])
  <2> SUFFICES ASSUME NEW i \in 1 .. n - 1
               PROVE  R[i] = Learning(R[i - 1], r[i])
    OBVIOUS
  <2>1. R[i] = P[i + 1] /\ R[i - 1] = P[i] /\ r[i] = q[i + 1]
    BY <1>2, <1>4, <1>5
  <2>2. P[i + 1] = Learning(P[i + 1 - 1], q[i + 1])
    BY <1>3, <1>5
  <2> QED
    BY <1>5, <2>1, <2>2
<1>9. Pictures(r, R)
  BY <1>2, <1>7, <1>8 DEF Pictures
<1>10. P[1] = Learning(f, m) /\ P[1] \in Tree /\ PrefixClosed(P[1])
  BY <1>1, <1>2, <1>3, <1>6
<1> QED
  BY <1>2, <1>4, <1>9, <1>10 DEF Shows, r, m

(* One sequence of messages after another.                                 *)
LEMMA ShowsOn ==
  ASSUME NEW D, NEW q \in Seq(D), NEW r \in Seq(D), NEW f, NEW g, NEW h,
         Shows(q, f, g), Shows(r, g, h)
  PROVE  Shows(q \o r, f, h)
<1> DEFINE n == Len(q)
           k == Len(r)
           s == q \o r
<1>1. PICK P : Pictures(q, P) /\ P[0] = f /\ P[n] = g
  BY DEF Shows
<1>2. PICK Q : Pictures(r, Q) /\ Q[0] = g /\ Q[k] = h
  BY DEF Shows
<1>3. n \in Nat /\ k \in Nat /\ Len(s) = n + k
      /\ (\A i \in 1 .. n : s[i] = q[i]) /\ (\A i \in 1 .. k : s[n + i] = r[i])
  OBVIOUS
<1> DEFINE R == [i \in 0 .. n + k |-> IF i <= n THEN P[i] ELSE Q[i - n]]
<1> HIDE DEF n, k, s
<1>4. /\ \A i \in 0 .. n : P[i] \in Tree /\ PrefixClosed(P[i])
      /\ \A i \in 1 .. n : P[i] = Learning(P[i - 1], q[i])
  BY <1>1 DEF Pictures, n
<1>5. /\ \A i \in 0 .. k : Q[i] \in Tree /\ PrefixClosed(Q[i])
      /\ \A i \in 1 .. k : Q[i] = Learning(Q[i - 1], r[i])
  BY <1>2 DEF Pictures, k
<1>6. /\ \A i \in 0 .. n : R[i] = P[i]
      /\ \A i \in 1 .. k : R[n + i] = Q[i]
  BY <1>3
<1>7. \A i \in 0 .. k : R[n + i] = Q[i]
  <2>1. R[n] = g /\ n + 0 = n
    BY <1>1, <1>3, <1>6
  <2>2. \A i \in 0 .. k : i = 0 \/ i \in 1 .. k
    BY <1>3
  <2> QED
    BY <1>2, <1>6, <2>1, <2>2
<1>8. R[0] = f /\ R[n + k] = h
  <2>1. 0 \in 0 .. n /\ k \in 0 .. k
    BY <1>3
  <2> QED
    BY <1>1, <1>2, <1>6, <1>7, <2>1
<1> HIDE DEF R
<1>9. \A i \in 0 .. n + k : R[i] \in Tree /\ PrefixClosed(R[i])
  <2>1. \A i \in 0 .. n + k : i \in 0 .. n \/ \E j \in 0 .. k : i = n + j
    <3> SUFFICES ASSUME NEW i \in 0 .. n + k, ~(i \in 0 .. n)
                 PROVE  \E j \in 0 .. k : i = n + j
      OBVIOUS
    <3>1. i - n \in 0 .. k /\ i = n + (i - n)
      BY <1>3
    <3> QED
      BY <3>1
  <2> QED
    BY <1>4, <1>5, <1>6, <1>7, <2>1
<1>10. \A i \in 1 .. n + k : R[i] = Learning(R[i - 1], s[i])
  <2>1. ASSUME NEW i \in 1 .. n
        PROVE  R[i] = Learning(R[i - 1], s[i])
    <3>1. i \in 0 .. n /\ i - 1 \in 0 .. n
      BY <1>3
    <3> QED
      BY <1>3, <1>4, <1>6, <3>1
  <2>2. ASSUME NEW i \in 1 .. n + k, NEW j \in 1 .. k, i = n + j
        PROVE  R[i] = Learning(R[i - 1], s[i])
    <3>1. j \in 0 .. k /\ j - 1 \in 0 .. k /\ i - 1 = n + (j - 1)
      BY <1>3, <2>2
    <3>2. R[i] = Q[j] /\ s[i] = r[j]
      BY <1>3, <1>7, <2>2, <3>1
    <3>3. R[i - 1] = Q[j - 1]
      BY <1>7, <3>1
    <3> QED
      BY <1>5, <3>2, <3>3
  <2>3. ASSUME NEW i \in 1 .. n + k, i \notin 1 .. n
        PROVE  \E j \in 1 .. k : i = n + j
    <3>1. i - n \in 1 .. k /\ i = n + (i - n)
      BY <1>3, <2>3
    <3> QED
      BY <3>1
  <2> QED
    BY <2>1, <2>2, <2>3
<1>11. Pictures(s, R)
  BY <1>3, <1>9, <1>10 DEF Pictures
<1> QED
  BY <1>3, <1>8, <1>11 DEF Shows, s

(* What a step of the daemon announces shows a tree all along.             *)
LEMMA NoticesShow ==
  ASSUME NEW t \in Tree, NEW u \in Tree, PrefixClosed(t), NEW s \in Announced(t, u),
         Neatly(t, u, s)
  PROVE  Shows(Notices(s, u), t, u)
<1> DEFINE n == Len(s)
           q == Notices(s, u)
           Told(i) == {s[j] : j \in 1 .. i}
           P == [i \in 0 .. n |-> [k \in Key |-> IF k \in Told(i) THEN u[k] ELSE t[k]]]
<1>1. s \in Seq(Key) /\ \A k \in Key : t[k] # u[k] <=> \E i \in DOMAIN s : s[i] = k
  BY ListingFacts
<1>2. n \in Nat /\ DOMAIN s = 1 .. n /\ \A i \in 1 .. n : s[i] \in Key
  BY <1>1
<1>3. /\ q \in Seq(Notice) /\ Len(q) = n
      /\ \A i \in 1 .. n : q[i].type = "NOTICE" /\ q[i].key = s[i] /\ q[i].value = u[s[i]]
  <2>1. /\ q \in Seq(Notice) /\ DOMAIN q = 1 .. n
        /\ \A i \in 1 .. n : q[i].type = "NOTICE" /\ q[i].key = s[i] /\ q[i].value = u[s[i]]
    BY <1>1, <1>2, NoticesType
  <2>2. Len(q) = n
    <3> HIDE DEF q, n
    <3> QED
      BY <1>2, <2>1
  <2> QED
    BY <2>1, <2>2
<1> HIDE DEF n, q
<1>4. PrefixClosed(u)
  BY DEF Neatly
<1>5. Told(0) = {} /\ \A i \in 1 .. n : Told(i) = Told(i - 1) \union {s[i]}
  <2>1. \A i \in 1 .. n : 1 .. i = (1 .. i - 1) \union {i}
    BY <1>2
  <2> QED
    BY <2>1
<1>6. \A i \in 0 .. n : P[i] \in Tree
  BY DEF Tree
<1>7. P[0] = t
  <2>1. P[0] = [k \in Key |-> t[k]]
    BY <1>2, <1>5
  <2> QED
    BY <2>1 DEF Tree
<1>8. P[n] = u
  <2>1. \A k \in Key : k \in Told(n) \/ t[k] = u[k]
    BY <1>1, <1>2
  <2>2. P[n] = [k \in Key |-> u[k]]
    BY <1>2, <2>1
  <2> QED
    BY <2>2 DEF Tree
<1>9. \A i \in 1 .. n : P[i] = Learning(P[i - 1], q[i])
  <2> SUFFICES ASSUME NEW i \in 1 .. n
               PROVE  P[i] = Learning(P[i - 1], q[i])
    OBVIOUS
  <2>1. i \in 0 .. n /\ i - 1 \in 0 .. n /\ Told(i) = Told(i - 1) \union {s[i]} /\ s[i] \in Key
    BY <1>2, <1>5
  <2>2. Learning(P[i - 1], q[i]) = [P[i - 1] EXCEPT ![s[i]] = u[s[i]]]
    BY <1>3 DEF Learning
  <2> HIDE DEF Told
  <2>3. /\ P[i] = [k \in Key |-> IF k \in Told(i) THEN u[k] ELSE t[k]]
        /\ P[i - 1] = [k \in Key |-> IF k \in Told(i - 1) THEN u[k] ELSE t[k]]
    BY <2>1
  <2> HIDE DEF P
  <2> QED
    BY <2>1, <2>2, <2>3
<1>10. ASSUME NEW i \in 0 .. n
       PROVE  PrefixClosed(P[i])
  <2> SUFFICES ASSUME NEW k \in Key, P[i][k] # Null, NEW p \in PathTo(k)
               PROVE  P[i][p] # Null
    BY DEF PrefixClosed, Exists
  <2>1. p \in Key /\ <<p, k>> \in Prefix
    BY DEF PathTo
  <2>2. /\ P[i][k] = IF k \in Told(i) THEN u[k] ELSE t[k]
        /\ P[i][p] = IF p \in Told(i) THEN u[p] ELSE t[p]
    BY <2>1
  <2>3. (t[k] # Null => t[p] # Null) /\ (u[k] # Null => u[p] # Null)
    BY <1>4 DEF PrefixClosed, Exists
  <2>4. \A j \in Key : t[j] # u[j] => \E l \in 1 .. n : s[l] = j
    BY <1>1, <1>2
  <2>5. CASE s \in TopDown(Changed(t, u)) /\ Grows(t, u)
    <3>1. t[p] # Null => u[p] # Null
      BY <2>1, <2>5 DEF Grows, Exists
    <3>2. CASE k \in Told(i) /\ p \notin Told(i) /\ t[p] = Null
      <4>1. PICK l \in 1 .. i : s[l] = k
        BY <3>2
      <4>2. u[p] # Null
        BY <2>2, <2>3, <3>2
      <4>3. PICK j \in 1 .. n : s[j] = p
        BY <2>1, <2>4, <3>2, <4>2
      <4>4. j <= l
        <5>1. \A a, b \in 1 .. n : <<s[a], s[b]>> \in Prefix => a <= b
          BY <1>2, <2>5 DEF TopDown
        <5>2. l \in 1 .. n
          BY <1>2, <4>1
        <5> QED
          BY <2>1, <4>1, <4>3, <5>1, <5>2
      <4>5. j \in 1 .. i
        BY <1>2, <4>1, <4>3, <4>4
      <4> QED
        BY <3>2, <4>3, <4>5
    <3> QED
      BY <2>2, <2>3, <3>1, <3>2
  <2>6. CASE s \in BottomUp(Changed(t, u)) /\ Shrinks(t, u)
    <3>1. (u[p] = t[p] \/ u[p] = Null) /\ (u[k] = t[k] \/ u[k] = Null)
      BY <2>1, <2>6 DEF Shrinks
    <3>2. CASE p \in Told(i) /\ k \notin Told(i) /\ u[p] = Null
      <4>1. PICK l \in 1 .. i : s[l] = p
        BY <3>2
      <4>2. u[k] = Null /\ t[k] # Null
        BY <2>2, <2>3, <3>2
      <4>3. PICK j \in 1 .. n : s[j] = k
        BY <2>4, <4>2
      <4>4. j <= l
        <5>1. \A a, b \in 1 .. n : <<s[a], s[b]>> \in Prefix => b <= a
          BY <1>2, <2>6 DEF BottomUp
        <5>2. l \in 1 .. n
          BY <1>2, <4>1
        <5> QED
          BY <2>1, <4>1, <4>3, <5>1, <5>2
      <4>5. j \in 1 .. i
        BY <1>2, <4>1, <4>3, <4>4
      <4> QED
        BY <3>2, <4>3, <4>5
    <3> QED
      BY <2>2, <2>3, <3>1, <3>2
  <2> QED
    BY <2>5, <2>6 DEF Neatly
<1> HIDE DEF P
<1>11. Pictures(q, P)
  BY <1>3, <1>6, <1>9, <1>10 DEF Pictures
<1> QED
  BY <1>3, <1>7, <1>8, <1>11 DEF Shows, q

(* What a client has been told, what it holds back, and what is on its way *)
(* to it: trees at any time, in the end the daemon's.                      *)
Sees(c) ==
  \E g, h : /\ Shows(deltas[c], told[c], g)
            /\ Shows(s2c[c], g, h)
            /\ c \in Online => h = tree

SeesInv == PrefixClosed(tree) /\ \A c \in Client : Sees(c)

LEMMA SeesTold ==
  ASSUME TypeInv, SeesInv
  PROVE  ToldPrefixClosed
<1> SUFFICES ASSUME NEW c \in Client
             PROVE  PrefixClosed(told[c])
  BY DEF ToldPrefixClosed
<1>1. PICK g : Shows(deltas[c], told[c], g)
  BY DEF SeesInv, Sees
<1>2. deltas[c] \in Seq(Notice)
  BY OwnFacts
<1> QED
  BY <1>1, <1>2, ShowsTrees

LEMMA TellsSeen ==
  ASSUME TypeInv, SeesInv, NEW c \in Client, Tells(c)
  PROVE  SeesInv'
<1>1. /\ UNCHANGED <<up, deltas, told>> /\ attached' \subseteq attached
      /\ TypeOK /\ tree \in Tree /\ PrefixClosed(tree)
  <2>1. TypeOK
    BY DEF TypeInv
  <2>2. tree \in Tree
    BY <2>1 DEF TypeOK
  <2> QED
    BY <2>1, <2>2 DEF Tells, clientvars, SeesInv
<1>2. CASE \E m \in Message : m.type # "NOTICE" /\ Replies(c, m)
  <2>1. PICK m \in Message : m.type # "NOTICE" /\ Replies(c, m)
    BY <1>2
  <2>2. tree' = tree
    BY <2>1 DEF Replies
  <2>3. ASSUME NEW x \in Client
        PROVE  Sees(x)'
    <3>1. PICK g, h : /\ Shows(deltas[x], told[x], g) /\ Shows(s2c[x], g, h)
                      /\ x \in Online => h = tree
      BY DEF SeesInv, Sees
    <3>2. s2c[x] \in Seq(Message)
      BY <1>1 DEF TypeOK
    <3>3. Shows(s2c'[x], g, h)
      <4>1. CASE s2c'[x] = s2c[x]
        BY <3>1, <4>1
      <4>2. CASE s2c'[x] = Append(s2c[x], m)
        <5>1. Learning(h, m) = h /\ h \in Tree /\ PrefixClosed(h)
          BY <2>1, <3>1, <3>2, ShowsTrees DEF Learning
        <5>2. Shows(Append(s2c[x], m), g, Learning(h, m))
          BY <3>1, <3>2, <5>1, ShowsMore
        <5> QED
          BY <4>2, <5>1, <5>2
      <4> QED
        BY <2>1, <4>1, <4>2 DEF Replies
    <3> QED
      BY <1>1, <2>2, <3>1, <3>3 DEF Sees, Online
  <2> QED
    BY <1>1, <2>2, <2>3 DEF SeesInv
<1>3. ASSUME NEW D \in SUBSET Online, Announces(D), Online' \subseteq D
      PROVE  SeesInv'
  <2>0. PICK t \in Tree : \E s \in Announced(tree, t) : Neatly(tree, t, s) /\ Publishes(D, t, s)
    BY <1>3 DEF Announces
  <2>1. PICK s \in Announced(tree, t) : Neatly(tree, t, s) /\ Publishes(D, t, s)
    BY <2>0
  <2>2. tree' = t /\ PrefixClosed(t) /\ Shows(Notices(s, t), tree, t)
    BY <1>1, <2>1, NoticesShow DEF Publishes, Neatly
  <2>3. Notices(s, t) \in Seq(Message)
    BY <2>1, ListingFacts, NoticesType, NoticeIsMessage
  <2>4. ASSUME NEW x \in Client
        PROVE  Sees(x)'
    <3>1. PICK g, h : /\ Shows(deltas[x], told[x], g) /\ Shows(s2c[x], g, h)
                      /\ x \in Online => h = tree
      BY DEF SeesInv, Sees
    <3>2. s2c[x] \in Seq(Message)
      BY <1>1 DEF TypeOK
    <3>3. CASE x \in D
      <4>1. Shows(s2c[x] \o Notices(s, t), g, t)
        BY <1>3, <2>2, <2>3, <3>1, <3>2, <3>3, ShowsOn
      <4>2. s2c'[x] = s2c[x] \o Notices(s, t)
        BY <2>1, <3>3 DEF Publishes
      <4> QED
        BY <1>1, <2>2, <3>1, <4>1, <4>2 DEF Sees
    <3>4. CASE x \notin D
      <4>1. s2c'[x] = s2c[x] /\ x \notin Online'
        BY <1>3, <2>1, <3>4 DEF Publishes
      <4> QED
        BY <1>1, <3>1, <4>1 DEF Sees
    <3> QED
      BY <3>3, <3>4
  <2> QED
    BY <2>2, <2>4 DEF SeesInv
<1>4. CASE Announces(Online)
  <2>1. Online' \subseteq Online
    BY <1>1 DEF Online
  <2> QED
    BY <1>3, <1>4, <2>1
<1>5. CASE Announces(Online \ {c}) /\ c \notin attached'
  <2>1. Online' \subseteq Online \ {c}
    BY <1>1, <1>5 DEF Online
  <2> QED
    BY <1>3, <1>5, <2>1
<1>6. CASE UNCHANGED <<tree, s2c>>
  BY <1>1, <1>6 DEF SeesInv, Sees, Online
<1> QED
  BY <1>2, <1>4, <1>5, <1>6 DEF Tells

(* A notice is read, and held back or dispatched at once.                  *)
LEMMA ReadSeen ==
  ASSUME TypeInv, SeesInv, NEW c \in Client, conncallback(c)
  PROVE  SeesInv'
<1> DEFINE m == Head(s2c[c])
<1>1. /\ UNCHANGED <<tree, attached, up>> /\ Keeps(c) /\ s2c[c] # <<>>
      /\ s2c' = [s2c EXCEPT ![c] = Tail(@)]
  BY ReadKeeps DEF daemonvars, conncallback
<1>2. /\ s2c[c] \in Seq(Message) /\ deltas[c] \in Seq(Notice)
      /\ s2c \in [Client -> Seq(Message)] /\ deltas \in [Client -> Seq(Notice)]
      /\ told \in [Client -> Tree] /\ (stack[c] = <<>> => deltas[c] = <<>>)
  BY OwnFacts DEF TypeOK, TypeInv
<1>3. \/ on_notice(c, m)
      \/ m.type # "NOTICE" /\ UNCHANGED <<deltas, told>>
  BY DEF conncallback, on_hello, on_ok, on_fail, on_value, on_part
<1> SUFFICES ASSUME NEW x \in Client
             PROVE  Sees(x)'
  BY <1>1 DEF SeesInv
<1>4. PICK g, h : /\ Shows(deltas[x], told[x], g) /\ Shows(s2c[x], g, h)
                  /\ x \in Online => h = tree
  BY DEF SeesInv, Sees
<1>5. CASE x # c
  <2>1. s2c'[x] = s2c[x] /\ deltas'[x] = deltas[x] /\ told'[x] = told[x]
    BY <1>1, <1>2, <1>5 DEF Keeps, Untouched
  <2> QED
    BY <1>1, <1>4, <2>1 DEF Sees, Online
<1>6. CASE x = c
  <2> DEFINE e == Learning(g, m)
  <2>1. e \in Tree /\ PrefixClosed(e) /\ Shows(Tail(s2c[c]), e, h)
    BY <1>1, <1>2, <1>4, <1>6, ShowsLess
  <2>2. s2c'[c] = Tail(s2c[c])
    BY <1>1, <1>2
  <2> HIDE DEF m
  <2>3. Shows(deltas'[c], told'[c], e)
    <3>1. CASE m.type # "NOTICE" /\ UNCHANGED <<deltas, told>>
      BY <1>4, <1>6, <3>1 DEF Learning
    <3>2. CASE on_notice(c, m) /\ stack[c] # <<>>
      <4>1. deltas'[c] = Append(deltas[c], m) /\ told' = told
        BY <1>2, <3>2 DEF on_notice
      <4>2. deltas[c] \in Seq(Message) /\ m \in Message
        <5>1. m \in Message
          BY <1>1, <1>2, TailFacts DEF m
        <5>2. deltas[c] \in Seq(Message)
          BY <1>2, NoticeIsMessage
        <5> QED
          BY <5>1, <5>2
      <4>3. Shows(Append(deltas[c], m), told[c], e)
        BY <1>4, <1>6, <2>1, <4>2, ShowsMore
      <4> QED
        BY <4>1, <4>3
    <3>3. CASE on_notice(c, m) /\ stack[c] = <<>>
      <4>1. /\ told' = [told EXCEPT ![c][m.key] = m.value] /\ deltas' = deltas
            /\ deltas[c] = <<>> /\ m.type = "NOTICE"
        BY <1>2, <3>3 DEF on_notice
      <4>2. told[c] = g
        BY <1>2, <1>4, <1>6, <4>1, ShowsNothing
      <4>3. told'[c] = [told[c] EXCEPT ![m.key] = m.value]
        BY <1>2, <4>1
      <4>4. told'[c] = e
        BY <4>1, <4>2, <4>3 DEF Learning
      <4>5. Shows(deltas[c], e, e)
        BY <1>2, <2>1, <4>1, ShowsNothing
      <4> QED
        BY <4>1, <4>4, <4>5
    <3> QED
      BY <1>3, <3>1, <3>2, <3>3
  <2> HIDE DEF e
  <2> QED
    BY <1>1, <1>4, <1>6, <2>1, <2>2, <2>3 DEF Sees, Online
<1> QED
  BY <1>5, <1>6

LEMMA FlushSeen ==
  ASSUME TypeInv, SeesInv, NEW c \in Client, flush_delta(c)
  PROVE  SeesInv'
<1> DEFINE n == Head(deltas[c])
<1>1. /\ UNCHANGED <<tree, attached, up, s2c>> /\ Keeps(c) /\ deltas[c] # <<>>
      /\ deltas' = [deltas EXCEPT ![c] = Tail(@)]
      /\ told' = [told EXCEPT ![c][n.key] = n.value]
  BY FlushKeeps DEF daemonvars, flush_delta
<1>2. deltas[c] \in Seq(Notice) /\ deltas \in [Client -> Seq(Notice)] /\ told \in [Client -> Tree]
  BY OwnFacts DEF TypeOK, TypeInv
<1>3. n.type = "NOTICE"
  <2>1. n \in Notice
    BY <1>1, <1>2, TailFacts
  <2> QED
    BY <2>1 DEF Notice
<1> SUFFICES ASSUME NEW x \in Client
             PROVE  Sees(x)'
  BY <1>1 DEF SeesInv
<1>4. PICK g, h : /\ Shows(deltas[x], told[x], g) /\ Shows(s2c[x], g, h)
                  /\ x \in Online => h = tree
  BY DEF SeesInv, Sees
<1>5. CASE x # c
  <2>1. deltas'[x] = deltas[x] /\ told'[x] = told[x]
    BY <1>1, <1>5 DEF Keeps, Untouched
  <2> QED
    BY <1>1, <1>4, <2>1 DEF Sees, Online
<1>6. CASE x = c
  <2>1. Shows(Tail(deltas[c]), Learning(told[c], n), g)
    BY <1>1, <1>2, <1>4, <1>6, ShowsLess
  <2> HIDE DEF n
  <2>2. told'[c] = Learning(told[c], n) /\ deltas'[c] = Tail(deltas[c])
    BY <1>1, <1>2, <1>3 DEF Learning
  <2> QED
    BY <1>1, <1>4, <1>6, <2>1, <2>2 DEF Sees, Online
<1> QED
  BY <1>5, <1>6

LEMMA ElseSeen ==
  ASSUME SeesInv, UNCHANGED <<tree, attached, s2c, deltas, told>>, up' \subseteq up
  PROVE  SeesInv'
BY DEF SeesInv, Sees, Online

LEMMA SeesStep == TypeInv /\ SeesInv /\ [Next]_vars => SeesInv'
<1> SUFFICES ASSUME TypeInv, SeesInv, [Next]_vars PROVE SeesInv'
  OBVIOUS
<1>1. CASE UNCHANGED vars
  BY <1>1, ElseSeen DEF vars, daemonvars, clientvars
<1>2. ASSUME NEW c \in Client,
             DaemonStep(c) \/ CallStep(c) \/ ClientStep(c) \/ timeout(c) \/ detach(c)
      PROVE  SeesInv'
  <2>1. CASE DaemonStep(c) \/ detach(c)
    BY <2>1, DaemonTells, TellsSeen
  <2>2. CASE CallStep(c)
    <3>1. UNCHANGED <<tree, attached, s2c, deltas, told>> /\ up' \subseteq up
      BY <2>2, CallChanges
    <3> QED
      BY <3>1, ElseSeen
  <2>3. CASE conncallback(c)
    BY <2>3, ReadSeen
  <2>4. CASE flush_delta(c)
    BY <2>4, FlushSeen
  <2>5. CASE return(c) \/ set_next(c) \/ eof(c) \/ timeout(c)
    <3>1. UNCHANGED <<tree, attached, s2c, deltas, told>> /\ up' \subseteq up
      BY <2>5 DEF return, set_next, eof, timeout, daemonvars
    <3> QED
      BY <3>1, ElseSeen
  <2> QED
    BY <1>2, <2>1, <2>2, <2>3, <2>4, <2>5 DEF ClientStep
<1> QED
  BY <1>1, <1>2 DEF Next

LEMMA InitSees == Init => SeesInv
<1> SUFFICES ASSUME Init PROVE SeesInv
  OBVIOUS
<1>1. tree \in Tree /\ PrefixClosed(tree)
  BY ProtocolAssumption DEF Init
<1>2. ASSUME NEW c \in Client
      PROVE  Sees(c)
  <2> DEFINE m == Msg("HELLO", Root, Null)
             q == <<>>
  <2>1. deltas[c] = q /\ told[c] = tree /\ s2c[c] = Append(q, m)
    BY <1>2 DEF Init
  <2>2. q \in Seq(Message) /\ m \in Message /\ m.type = "HELLO"
    BY MsgType, KeyAssumption
  <2>3. Shows(q, tree, tree)
    BY <1>1, <2>2, ShowsNothing
  <2> HIDE DEF q, m
  <2>4. Learning(tree, m) = tree
    BY <2>2 DEF Learning
  <2>5. Shows(Append(q, m), tree, Learning(tree, m))
    BY <1>1, <2>2, <2>3, <2>4, ShowsMore
  <2> QED
    BY <2>1, <2>3, <2>4, <2>5 DEF Sees
<1> QED
  BY <1>1, <1>2 DEF SeesInv

(* A client is told of all changes, and what it has been told is a tree    *)
(* after every notice, in the middle of a change of many keys as well:     *)
(* nodes are announced below their parents, and removed ones before them   *)
(* (UniConfDaemonConn::deltacallback; do_set, do_remove and ~WvCont).      *)
THEOREM ToldTopDown == Spec => []ToldInOrder
<1>1. TypeInv /\ ToldInv /\ SeesInv => ToldInOrder
  BY KnowsConverges, SeesTold DEF ToldInOrder, TypeInv
<1> QED
  BY <1>1, InitTold, ToldStep, InitSees, SeesStep, Types, PTL DEF Spec

(* A removal that ends has nothing left to do: either the iterator found   *)
(* no more entries, or ~WvCont had the rest removed in one go.             *)
LEMMA RemovalsComplete ==
  TypeInv /\ [Next]_vars =>
    [\A c \in Client :
       task[c].kind = "del" /\ task'[c] = Idle
         => \A i \in DOMAIN task[c].levels :
              \A e \in task[c].levels[i] : ~Exists(tree', e)]_vars
<1> SUFFICES ASSUME TypeInv, Next, NEW x \in Client, task[x].kind = "del", task'[x] = Idle,
                    NEW i \in DOMAIN task[x].levels, NEW e \in task[x].levels[i]
             PROVE  ~Exists(tree', e)
  OBVIOUS
<1> DEFINE levels == task[x].levels
           entered == task[x].entered
           below == IF entered # Null /\ Exists(tree, entered)
                      THEN Append(levels, Existing(tree, entered)) ELSE levels
           open == {j \in DOMAIN below : below[j] # {}}
           n == CHOOSE n \in open \union {0} : \A j \in open : j <= n
<1>1. levels \in Seq(SUBSET Key) /\ Walk(x) \in Levels
  <2>1. task[x] \in TaskType /\ Walk(x) \in Levels
    BY TaskFacts DEF TypeInv
  <2> QED
    BY <2>1 DEF TaskType, Idle
<1>2. Walk(x) = SubSeq(below, 1, n)
  BY DEF Walk, WalkOn
<1>3. below \in Seq(SUBSET Key) /\ i \in DOMAIN below /\ below[i] = levels[i]
  <2>1. Existing(tree, entered) \in SUBSET Key
    BY DEF Existing, Children, Subtree
  <2> HIDE DEF levels, entered
  <2>2. i \in 1 .. Len(levels) /\ DOMAIN levels = 1 .. Len(levels) /\ Len(levels) \in Nat
    BY <1>1 DEF levels
  <2>3. LET b == Append(levels, Existing(tree, entered))
        IN b \in Seq(SUBSET Key) /\ i \in DOMAIN b /\ b[i] = levels[i]
    BY <1>1, <2>1, <2>2, AppendFacts
  <2> QED
    BY <1>1, <2>2, <2>3
<1> HIDE DEF below
<1>4. n \in open \union {0} /\ \A j \in open : j <= n
  <2>1. Len(below) \in Nat /\ open \in SUBSET (1 .. Len(below))
    BY <1>3
  <2>2. \E m \in open \union {0} : \A j \in open : j <= m
    <3> HIDE DEF open
    <3> QED
      BY <2>1, Largest
  <2> HIDE DEF open
  <2> QED
    BY <2>2, Zenon
<1>5. i \in open
  BY <1>3
<1>6. i \in DOMAIN Walk(x) /\ e \in Walk(x)[i]
  <2>1. /\ Len(below) \in Nat /\ n \in 0 .. Len(below) /\ i \in 1 .. Len(below) /\ i <= n
    <3>1. Len(below) \in Nat /\ DOMAIN below = 1 .. Len(below)
      BY <1>3
    <3>2. open \subseteq 1 .. Len(below)
      BY <3>1
    <3> HIDE DEF open, n
    <3> QED
      BY <1>4, <1>5, <3>1, <3>2
  <2> HIDE DEF n
  <2>2. /\ DOMAIN SubSeq(below, 1, n) = 1 .. n
        /\ \A j \in 1 .. n : SubSeq(below, 1, n)[j] = below[j]
    BY <1>3, <2>1, SubSeqFacts
  <2> QED
    BY <1>2, <1>3, <2>1, <2>2
<1>7. CASE detach(x)
  <2>1. RemoveRest(x)[e] = Null
    BY <1>1, <1>6, RemoveRestShrinks DEF TypeInv, TypeOK, Exists
  <2>2. tree' = RemoveRest(x)
    BY <1>7 DEF detach, FinishTask
  <2> QED
    BY <2>1, <2>2 DEF Exists
<1>8. CASE continue_remove(x)
  <2>1. Walk(x) # <<>>
    BY <1>6
  <2>2. PICK d : task' = [task EXCEPT ![x] = Removing(WalkPast(Walk(x), d), d)]
    BY <1>8, <2>1 DEF continue_remove, RemoveTurn
  <2>3. task'[x].kind = "del"
    BY <2>2 DEF TypeInv, TypeOK, Removing
  <2> QED
    BY <2>3 DEF Idle
<1>9. task'[x] # task[x]
  BY DEF Idle
<1>10. PICK c \in Client :
         /\ Keeps(c)
         /\ DaemonStep(c) \/ CallStep(c) \/ ClientStep(c) \/ timeout(c) \/ detach(c)
  BY StepKeeps
<1>11. x = c
  BY <1>9, <1>10 DEF Keeps, Untouched
<1>12. ~CallStep(x) /\ ~ClientStep(x) /\ ~timeout(x)
  <2>1. ~CallStep(x)
    BY <1>9, CallChanges
  <2>2. ~ClientStep(x) /\ ~timeout(x)
    BY <1>9 DEF ClientStep, conncallback, flush_delta, return, set_next, eof, timeout, daemonvars
  <2> QED
    BY <2>1, <2>2
<1>13. CASE DaemonStep(x)
  <2>1. task[x] # Idle /\ task[x].kind # "subt"
    BY DEF Idle
  <2>2. \A op : ~Reading(x, op)
    BY <2>1 DEF Reading
  <2>3. continue_remove(x)
    BY <1>13, <2>1, <2>2 DEF DaemonStep, do_get, do_haschildren, do_commit, do_set, do_invalid,
                            do_quit, do_remove, do_subtree, continue_subtree
  <2> QED
    BY <1>8, <2>3
<1> QED
  BY <1>7, <1>10, <1>11, <1>12, <1>13

(* A removal that was begun is completed, whatever ends it: when the       *)
(* client's connection breaks between two entries, the entries it had yet  *)
(* to remove go with all below them (~WvCont, do_remove).                  *)
THEOREM RemovalsAreCompleted == Spec => RemovalCompleted
BY Types, RemovalsComplete, PTL DEF Spec, RemovalCompleted
============================================================================
