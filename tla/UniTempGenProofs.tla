-------------------------- MODULE UniTempGenProofs --------------------------
(***************************************************************************)
(* UniTempGen, for every key set, value set, set of cookies and bound.     *)
(*                                                                         *)
(* UniIniGen, for all keys, values, inodes and clocks: a file that is not  *)
(* whole is marked and never read, no change of a later second is          *)
(* overlooked unless reading the file has failed before, and callbacks     *)
(* know what a refresh() brought.  Two facts carry that proof: what        *)
(* commit() has written is the saved tree without the keys left to do      *)
(* (WrittenSoFar), and a file that looks as it did holds what was read, if *)
(* it was read (SeenIsLoaded), for which the order of times (InTime) is    *)
(* needed.                                                                 *)
(***************************************************************************)
EXTENDS UniTempGen, UniIniGen, FiniteSetTheorems, TLAPS

(* Notification orders are sequences over the changed keys, and name each  *)
(* of them.                                                                *)
LEMMA ListingType ==
  ASSUME NEW S \in SUBSET Key, NEW s \in Listings(S)
  PROVE  /\ s \in Seq(S)
         /\ {s[i] : i \in DOMAIN s} = S
  <1>1. Cardinality(S) \in Nat
    BY KeyAssumption, FS_Subset, FS_CardinalityType
  <1>2. s \in [1 .. Cardinality(S) -> S]
    BY DEF Listings
  <1>3. s \in Seq(S)
    BY <1>1, <1>2
  <1>4. \A x \in S : \E i \in DOMAIN s : s[i] = x
    BY DEF Listings
  <1>5. \A i \in DOMAIN s : s[i] \in S
    BY <1>2
  <1> QED
    BY <1>3, <1>4, <1>5

(* The deltas queued for a sequence of keys (notify_deleted, delta) have   *)
(* their type, one for each key in order.                                  *)
LEMMA DeltasType ==
  ASSUME NEW s \in Seq(Key), NEW t \in Tree
  PROVE  /\ Deltas(s, t) \in Seq(DeltaType)
         /\ Len(Deltas(s, t)) = Len(s)
         /\ DOMAIN Deltas(s, t) = DOMAIN s
         /\ \A i \in DOMAIN s : /\ Deltas(s, t)[i].key = s[i]
                                /\ Deltas(s, t)[i].value = t[s[i]]
  <1>1. \A i \in DOMAIN s : s[i] \in Key /\ t[s[i]] \in Value \union {Null}
    BY DEF Tree
  <1>2. \A i \in DOMAIN s : [key |-> s[i], value |-> t[s[i]]] \in DeltaType
    BY <1>1 DEF DeltaType
  <1>3. DOMAIN s = 1 .. Len(s) /\ Len(s) \in Nat
    OBVIOUS
  <1>4. Deltas(s, t) \in [1 .. Len(s) -> DeltaType]
    BY <1>2, <1>3 DEF Deltas
  <1>5. Deltas(s, t) \in Seq(DeltaType) /\ Len(Deltas(s, t)) = Len(s)
    BY <1>3, <1>4
  <1> QED
    BY <1>3, <1>5 DEF Deltas

(* Taking the first delta off the queue (flush_delta) shifts the others.   *)
LEMMA TailFacts ==
  ASSUME NEW D, NEW a \in Seq(D), a # <<>>
  PROVE  /\ Tail(a) \in Seq(D)
         /\ Head(a) = a[1] /\ Head(a) \in D
         /\ Len(a) \in Nat /\ Len(a) >= 1
         /\ DOMAIN a = 1 .. Len(a)
         /\ DOMAIN Tail(a) = 1 .. Len(a) - 1
         /\ \A i \in 1 .. Len(a) - 1 : Tail(a)[i] = a[i + 1]
  OBVIOUS

(* The two ways set() changes the tree keep it a tree.                     *)
LEMMA StoredType ==
  ASSUME NEW t \in Tree, NEW k \in Key, NEW v \in Value
  PROVE  Stored(t, k, v) \in Tree
  BY ValueAssumption DEF Stored, Tree

(* Removing a key with all below it (set to null) leaves a tree.           *)
LEMMA RemovedType ==
  ASSUME NEW t \in Tree, NEW k \in Key
  PROVE  Removed(t, k) \in Tree
  BY DEF Removed, Tree

(* set() creates the missing nodes above the key it sets, so that no node  *)
(* is left without its parent.                                             *)
LEMMA StoredClosed ==
  ASSUME NEW t \in Tree, NEW k \in Key, NEW v \in Value, PrefixClosed(t)
  PROVE  PrefixClosed(Stored(t, k, v))
  <1> SUFFICES ASSUME NEW q \in Key, Stored(t, k, v)[q] # Null,
                      NEW p \in Key, <<p, q>> \in Prefix
               PROVE  Stored(t, k, v)[p] # Null
    BY DEF PrefixClosed, Exists, PathTo
  <1>1. CASE q \in PathTo(k)
    <2>1. <<p, k>> \in Prefix
      BY <1>1, PrefixAssumption DEF PathTo
    <2> QED
      BY <2>1, ValueAssumption DEF Stored, PathTo
  <1>2. CASE q \notin PathTo(k)
    <2>1. q # k
      BY <1>2, PrefixAssumption DEF PathTo
    <2>2. t[q] # Null
      BY <1>2, <2>1 DEF Stored
    <2>3. t[p] # Null
      BY <2>2 DEF PrefixClosed, Exists, PathTo
    <2> QED
      BY <2>3, ValueAssumption DEF Stored
  <1> QED
    BY <1>1, <1>2

(* Removing a node removes everything below it, so that no node is left    *)
(* without its parent.                                                     *)
LEMMA RemovedClosed ==
  ASSUME NEW t \in Tree, NEW k \in Key, PrefixClosed(t)
  PROVE  PrefixClosed(Removed(t, k))
  <1> SUFFICES ASSUME NEW q \in Key, Removed(t, k)[q] # Null,
                      NEW p \in Key, <<p, q>> \in Prefix
               PROVE  Removed(t, k)[p] # Null
    BY DEF PrefixClosed, Exists, PathTo
  <1>1. <<k, q>> \notin Prefix /\ t[q] # Null
    BY DEF Removed, Subtree
  <1>2. <<k, p>> \notin Prefix
    BY <1>1, PrefixAssumption
  <1>3. t[p] # Null
    BY <1>1 DEF PrefixClosed, Exists, PathTo
  <1> QED
    BY <1>2, <1>3 DEF Removed, Subtree

(* Every set() is a Change by a listing of exactly the changed keys.       *)
LEMMA SetIsChange ==
  ASSUME tree \in Tree,
         \/ \E k \in Key, v \in Value : set(k, v)
         \/ \E k \in Key : remove(k)
         \/ set_trailing_slash
  PROVE  \E t \in Tree, s \in Seq(Key) :
           /\ Change(t, s)
           /\ {s[i] : i \in DOMAIN s} = Changed(tree, t)
           /\ PrefixClosed(tree) => PrefixClosed(t)
  <1>1. CASE \E k \in Key, v \in Value : set(k, v)
    <2> PICK k \in Key, v \in Value : set(k, v)
      BY <1>1
    <2> DEFINE t == Stored(tree, k, v)
    <2>1. t \in Tree
      BY StoredType
    <2>2. Changed(tree, t) \in SUBSET Key
      BY DEF Changed
    <2>3. PICK s \in TopDown(Changed(tree, t)) : Change(t, s)
      BY DEF set
    <2>4. s \in Seq(Changed(tree, t)) /\ {s[i] : i \in DOMAIN s} = Changed(tree, t)
      BY <2>2, ListingType DEF TopDown
    <2>5. s \in Seq(Key)
      BY <2>2, <2>4
    <2>6. PrefixClosed(tree) => PrefixClosed(t)
      BY StoredClosed
    <2> HIDE DEF t
    <2> QED
      BY <2>1, <2>3, <2>4, <2>5, <2>6
  <1>2. CASE \E k \in Key : remove(k)
    <2> PICK k \in Key : remove(k)
      BY <1>2
    <2> DEFINE t == Removed(tree, k)
    <2>1. t \in Tree
      BY RemovedType
    <2>2. Changed(tree, t) \in SUBSET Key
      BY DEF Changed
    <2>3. PICK s \in BottomUp(Changed(tree, t)) : Change(t, s)
      BY DEF remove
    <2>4. s \in Seq(Changed(tree, t)) /\ {s[i] : i \in DOMAIN s} = Changed(tree, t)
      BY <2>2, ListingType DEF BottomUp
    <2>5. s \in Seq(Key)
      BY <2>2, <2>4
    <2>6. PrefixClosed(tree) => PrefixClosed(t)
      BY RemovedClosed
    <2> HIDE DEF t
    <2> QED
      BY <2>1, <2>3, <2>4, <2>5, <2>6
  <1>3. CASE set_trailing_slash
    <2>1. Change(tree, <<>>)
      BY <1>3 DEF set_trailing_slash
    <2>2. <<>> \in Seq(Key) /\ {<<>>[i] : i \in DOMAIN <<>>} = {}
      OBVIOUS
    <2>3. Changed(tree, tree) = {}
      BY DEF Changed
    <2> QED
      BY <2>1, <2>2, <2>3
  <1> QED
    BY <1>1, <1>2, <1>3

----------------------------------------------------------------------------
(* A set() keeps the invariant: the changed keys become pending with their *)
(* new values, the others keep what they had.                              *)
LEMMA ChangeStep ==
  ASSUME DeltaInv, NEW t \in Tree, NEW s \in Seq(Key), Change(t, s),
         {s[i] : i \in DOMAIN s} = Changed(tree, t)
  PROVE  DeltaInv'
  <1> DEFINE new == Deltas(s, t)
  <1> DEFINE n == Len(deltas)
  <1>1. TypeOK /\ LoopOK /\ LastPendingRight /\ CurrentRight /\ NoLostDelta
    BY DEF DeltaInv
  <1>2. /\ new \in Seq(DeltaType)
        /\ DOMAIN new = 1 .. Len(s)
        /\ Len(new) = Len(s)
        /\ \A i \in DOMAIN s : new[i].key = s[i] /\ new[i].value = t[s[i]]
    BY DeltasType
  <1>3. deltas \in Seq(DeltaType) /\ n \in Nat /\ DOMAIN deltas = 1 .. n
    BY <1>1 DEF TypeOK, GenTypeOK
  <1>4. /\ deltas' = deltas \o new
        /\ tree' = t
        /\ dropped' = dropped \ Changed(tree, t)
        /\ UNCHANGED <<current, running, cblist, told, synced>>
    BY DEF Change, delta, watchvars
  <1> HIDE DEF new
  <1>5. /\ deltas' \in Seq(DeltaType)
        /\ DOMAIN deltas' = 1 .. n + Len(s)
        /\ \A i \in 1 .. n : deltas'[i] = deltas[i]
        /\ \A i \in 1 .. Len(s) : deltas'[n + i] = new[i]
    <2>1. /\ deltas \o new \in Seq(DeltaType)
          /\ DOMAIN (deltas \o new) = 1 .. Len(deltas) + Len(new)
          /\ \A i \in 1 .. Len(deltas) : (deltas \o new)[i] = deltas[i]
          /\ \A i \in 1 .. Len(new) : (deltas \o new)[Len(deltas) + i] = new[i]
      <3>1. new \in Seq(DeltaType) /\ deltas \in Seq(DeltaType)
        BY <1>2, <1>3
      <3> QED
        BY <3>1, SMTT(20)
    <2>2. Len(new) = Len(s) /\ deltas' = deltas \o new
      BY <1>2, <1>4
    <2> QED
      BY <2>1, <2>2, Zenon
  <1>6. ASSUME NEW k \in Changed(tree, t)
        PROVE  \E i \in 1 .. Len(s) : deltas'[n + i].key = k
    <2>1. PICK i \in DOMAIN s : s[i] = k
      OBVIOUS
    <2> QED
      BY <2>1, <1>2, <1>5
  <1>7. \A k \in Key : k \notin Changed(tree, t) => tree'[k] = tree[k]
    BY <1>4 DEF Changed
  <1>8. \A k \in Changed(tree, t) : Pending(k)'
    BY <1>3, <1>5, <1>6, SMTT(20) DEF Pending
  <1>9. \A k : Pending(k) => Pending(k)'
    BY <1>3, <1>5 DEF Pending
  <1>10. LoopOK'
    <2>1. hold_nesting = 0 => flushing = "no"
      BY <1>1 DEF LoopOK, Change, CanCall, TypeOK, GenTypeOK
    <2>2. CASE hold_nesting = 0
      <3>1. hold_nesting' = 1 /\ flushing' = "unhold" /\ base' = 1
        BY <2>2 DEF Change, Unhold
      <3>2. running' = 0
        BY <1>1, <1>4, <2>1, <2>2 DEF LoopOK, TypeOK, GenTypeOK
      <3> QED
        BY <3>1, <3>2 DEF LoopOK
    <2>3. CASE hold_nesting # 0
      <3>1. hold_nesting' = hold_nesting /\ UNCHANGED <<flushing, base>>
        BY <1>1, <2>3 DEF Change, Unhold, TypeOK, GenTypeOK
      <3> QED
        BY <1>1, <1>4, <2>3, <3>1 DEF LoopOK
    <2> QED
      BY <2>2, <2>3
  <1>11. TypeOK'
    <2>1. hold_nesting' \in Nat /\ base' \in Nat /\ flushing' \in {"no", "unhold", "call"}
      BY <1>1 DEF Change, Unhold, TypeOK, GenTypeOK
    <2>2. nsets' \in Nat
      BY <1>1 DEF Change, TypeOK
    <2> QED
      BY <1>1, <1>4, <1>5, <2>1, <2>2 DEF TypeOK, GenTypeOK, DeltaType
  <1>12. LastPendingRight'
    <2> SUFFICES ASSUME NEW i \in DOMAIN deltas',
                        \A j \in DOMAIN deltas' :
                           j > i => deltas'[j].key # deltas'[i].key
                 PROVE  deltas'[i].value = tree'[deltas'[i].key]
      BY DEF LastPendingRight
    <2>1. CASE i \in 1 .. n
      <3>0. deltas'[i] = deltas[i] /\ deltas[i] \in DeltaType
        BY <2>1, <1>3, <1>5
      <3>1. deltas'[i] = deltas[i] /\ deltas[i].key \in Key
        BY <3>0 DEF DeltaType
      <3>2. ASSUME deltas[i].key \in Changed(tree, t) PROVE FALSE
        <4>1. PICK j \in 1 .. Len(s) : deltas'[n + j].key = deltas[i].key
          BY <3>2, <1>6
        <4>2. n + j \in DOMAIN deltas' /\ n + j > i
          BY <2>1, <1>3, <1>5
        <4> QED
          BY <3>1, <4>1, <4>2
      <3>3. \A j \in DOMAIN deltas : j > i => deltas[j].key # deltas[i].key
        BY <2>1, <3>1, <1>3, <1>5
      <3>4. deltas[i].value = tree[deltas[i].key]
        BY <1>1, <1>3, <2>1, <3>3 DEF LastPendingRight
      <3> QED
        BY <3>1, <3>2, <3>4, <1>7
    <2>2. CASE i \notin 1 .. n
      <3>1. i - n \in 1 .. Len(s) /\ i = n + (i - n)
        BY <2>2, <1>3, <1>5
      <3>2. deltas'[i] = new[i - n]
        BY <3>1, <1>5
      <3>3. i - n \in DOMAIN s
        BY <3>1
      <3> QED
        BY <3>2, <3>3, <1>2, <1>4
    <2> QED
      BY <2>1, <2>2
  <1>13. CurrentRight'
    <2> SUFFICES ASSUME running' # 0, ~Pending(current.key)',
                        current'.key \notin dropped'
                 PROVE  current'.value = tree'[current'.key]
      BY DEF CurrentRight
    <2>1. current.key \in Key /\ running # 0
      BY <1>1, <1>4 DEF TypeOK, GenTypeOK, DeltaType
    <2>2. ~Pending(current.key) /\ current.key \notin Changed(tree, t)
      BY <1>4, <1>8, <1>9
    <2>3. current.value = tree[current.key]
      BY <1>1, <1>4, <2>1, <2>2 DEF CurrentRight
    <2> QED
      BY <1>4, <1>7, <2>1, <2>2, <2>3
  <1>14. NoLostDelta'
    <2> SUFFICES ASSUME NEW w \in cblist, NEW k \in Key, k \notin dropped',
                        told[w][k] # tree'[k]
                 PROVE  Pending(k)' \/ (running # 0 /\ current.key = k /\ w > running)
      BY <1>4 DEF NoLostDelta
    <2>1. CASE k \in Changed(tree, t)
      BY <1>8, <2>1
    <2>2. CASE k \notin Changed(tree, t)
      <3>1. told[w][k] # tree[k] /\ k \notin dropped
        BY <1>4, <1>7, <2>2
      <3> QED
        BY <1>1, <1>9, <3>1 DEF NoLostDelta
    <2> QED
      BY <2>1, <2>2
  <1> QED
    BY <1>10, <1>11, <1>12, <1>13, <1>14 DEF DeltaInv

(* The flush loop takes a delta off the queue: what it separated callbacks *)
(* from the tree becomes the delta being dispatched.                       *)
LEMMA NextDeltaStep ==
  ASSUME DeltaInv, next_delta, UNCHANGED <<tree, nsets>>
  PROVE  DeltaInv'
  <1> DEFINE d == Head(deltas)
  <1> DEFINE StillPending(k) == \E j \in DOMAIN deltas' : deltas'[j].key = k
  <1>1. TypeOK /\ LoopOK /\ LastPendingRight /\ CurrentRight /\ NoLostDelta
    BY DEF DeltaInv
  <1>2. deltas \in Seq(DeltaType) /\ deltas # <<>>
    BY <1>1 DEF TypeOK, GenTypeOK, next_delta
  <1>3. /\ d = deltas[1] /\ d \in DeltaType
        /\ Len(deltas) \in Nat /\ Len(deltas) >= 1
        /\ DOMAIN deltas = 1 .. Len(deltas)
        /\ deltas' \in Seq(DeltaType)
        /\ DOMAIN deltas' = 1 .. Len(deltas) - 1
        /\ \A i \in 1 .. Len(deltas) - 1 : deltas'[i] = deltas[i + 1]
    BY <1>2, TailFacts DEF next_delta
  <1>4. /\ UNCHANGED <<hold_nesting, flushing, base, cblist, synced, dropped, tree, nsets>>
        /\ running = 0 /\ flushing # "no" /\ hold_nesting = base
    BY DEF next_delta, InLoop
  <1>5. d.key \in Key /\ d.value \in Value \union {Null}
    BY <1>3 DEF DeltaType
  <1> HIDE DEF d
  <1>6. \A k \in Key : Pending(k) => Pending(k)' \/ k = d.key
    <2> SUFFICES ASSUME NEW k \in Key, NEW i \in DOMAIN deltas,
                        deltas[i].key = k, k # d.key
                 PROVE  \E j \in DOMAIN deltas' : deltas'[j].key = k
      BY DEF Pending
    <2>1. i - 1 \in DOMAIN deltas' /\ deltas'[i - 1] = deltas[i]
      BY <1>3
    <2> QED
      BY <2>1
  <1>7. ~StillPending(d.key) => d.value = tree[d.key]
    <2> SUFFICES ASSUME ~StillPending(d.key) PROVE d.value = tree[d.key]
      OBVIOUS
    <2>1. \A j \in DOMAIN deltas : j > 1 => deltas[j].key # deltas[1].key
      <3> SUFFICES ASSUME NEW j \in DOMAIN deltas, j > 1, deltas[j].key = d.key
                   PROVE  FALSE
        BY <1>3
      <3>1. j - 1 \in DOMAIN deltas' /\ deltas'[j - 1] = deltas[j]
        BY <1>3
      <3> QED
        BY <3>1
    <2> QED
      BY <1>1, <1>3, <2>1 DEF LastPendingRight
  <1>8. LastPendingRight'
    <2> SUFFICES ASSUME NEW i \in DOMAIN deltas',
                        \A j \in DOMAIN deltas' :
                           j > i => deltas'[j].key # deltas'[i].key
                 PROVE  deltas'[i].value = tree[deltas'[i].key]
      BY <1>4 DEF LastPendingRight
    <2>1. i + 1 \in DOMAIN deltas /\ deltas'[i] = deltas[i + 1]
      BY <1>3
    <2>2. ASSUME NEW j \in DOMAIN deltas, j > i + 1
          PROVE  deltas[j].key # deltas[i + 1].key
      <3>1. j - 1 \in DOMAIN deltas' /\ deltas'[j - 1] = deltas[j] /\ j - 1 > i
        BY <1>3, <2>2
      <3> QED
        BY <2>1, <3>1
    <2> QED
      BY <1>1, <2>1, <2>2 DEF LastPendingRight
  <1>9. base > 0
    BY <1>1, <1>2, <1>4 DEF LoopOK, TypeOK, GenTypeOK
  <1>10. LoopOK'
    BY <1>1, <1>2, <1>4, <1>9 DEF LoopOK
  <1>11. CASE cblist = {} /\ UNCHANGED <<running, current, told>>
    <2>1. TypeOK'
      BY <1>1, <1>3, <1>4, <1>11 DEF TypeOK, GenTypeOK, DeltaType
    <2>2. CurrentRight' /\ NoLostDelta'
      BY <1>4, <1>11 DEF CurrentRight, NoLostDelta
    <2> QED
      BY <1>8, <1>10, <2>1, <2>2 DEF DeltaInv
  <1>12. CASE \E w \in Cookie : NextCallback(0, w) /\ Call(w, d)
    <2> PICK w \in Cookie : NextCallback(0, w) /\ Call(w, d)
      BY <1>12
    <2>1. w # 0 /\ w \in cblist /\ (\A x \in cblist : w <= x)
      BY <1>1, CookieAssumption DEF NextCallback, TypeOK, GenTypeOK
    <2>2. running' = w /\ current' = d /\ told' = [told EXCEPT ![w][d.key] = d.value]
      BY DEF Call
    <2>3. told' \in [Cookie -> Tree]
      BY <1>1, <1>5, <2>2 DEF TypeOK, GenTypeOK, Tree
    <2>4. TypeOK'
      BY <1>1, <1>3, <1>4, <2>1, <2>2, <2>3 DEF TypeOK, GenTypeOK
    <2>5. CurrentRight'
      BY <1>4, <1>7, <2>2 DEF CurrentRight, Pending
    <2>6. NoLostDelta'
      <3> SUFFICES ASSUME NEW x \in cblist, NEW k \in Key, k \notin dropped,
                          told'[x][k] # tree[k]
                   PROVE  Pending(k)' \/ (w # 0 /\ d.key = k /\ x > w)
        BY <1>4, <2>2 DEF NoLostDelta
      <3>1. x \in Cookie /\ x \in Nat /\ w \in Nat /\ w <= x
        BY <1>1, <2>1, CookieAssumption DEF TypeOK, GenTypeOK
      <3>2. CASE k = d.key
        <4>1. CASE x = w
          <5>1. told'[w][k] = d.value
            BY <1>1, <1>5, <2>2, <3>2 DEF TypeOK, GenTypeOK, Tree
          <5> QED
            BY <1>7, <3>2, <4>1, <5>1 DEF Pending
        <4>2. CASE x # w
          BY <2>1, <3>1, <3>2, <4>2
        <4> QED
          BY <4>1, <4>2
      <3>3. CASE k # d.key
        <4>1. told'[x][k] = told[x][k]
          BY <1>1, <2>2, <3>1, <3>3 DEF TypeOK, GenTypeOK, Tree
        <4>2. Pending(k)
          BY <1>1, <1>4, <4>1 DEF NoLostDelta
        <4> QED
          BY <1>6, <3>3, <4>2
      <3> QED
        BY <3>2, <3>3
    <2> QED
      BY <1>8, <1>10, <2>4, <2>5, <2>6 DEF DeltaInv
  <1> QED
    BY <1>11, <1>12 DEF next_delta, d

(* The current delta goes to the next callback, or has been given to all.  *)
LEMMA DispatchStep ==
  ASSUME DeltaInv, dispatch_delta, UNCHANGED <<tree, nsets>>
  PROVE  DeltaInv'
  <1>1. TypeOK /\ LoopOK /\ LastPendingRight /\ CurrentRight /\ NoLostDelta
    BY DEF DeltaInv
  <1>2. /\ UNCHANGED <<hold_nesting, deltas, flushing, base, cblist, synced, dropped, tree, nsets>>
        /\ running # 0 /\ running \in Cookie
    BY <1>1 DEF dispatch_delta, TypeOK, GenTypeOK
  <1>3. current \in DeltaType /\ current.key \in Key /\ current.value \in Value \union {Null}
    BY <1>1, <1>2 DEF TypeOK, GenTypeOK, DeltaType
  <1>4. \A k : Pending(k)' <=> Pending(k)
    BY <1>2 DEF Pending
  <1>5. LastPendingRight'
    BY <1>1, <1>2 DEF LastPendingRight
  <1>6. \A x \in cblist : x \in Cookie /\ x \in Nat /\ running \in Nat
    BY <1>1, <1>2, CookieAssumption DEF TypeOK, GenTypeOK
  <1>7. LoopOK'
    BY <1>1, <1>2 DEF LoopOK
  <1>8. CASE \E w \in Cookie : NextCallback(running, w) /\ Call(w, current)
    <2> PICK w \in Cookie : NextCallback(running, w) /\ Call(w, current)
      BY <1>8
    <2>1. w # 0 /\ w \in cblist /\ w > running /\ (\A x \in cblist : x > running => w <= x)
      BY CookieAssumption DEF NextCallback
    <2>2. running' = w /\ current' = current
          /\ told' = [told EXCEPT ![w][current.key] = current.value]
      BY DEF Call
    <2>3. told' \in [Cookie -> Tree]
      BY <1>1, <1>3, <2>2 DEF TypeOK, GenTypeOK, Tree
    <2>4. TypeOK'
      BY <1>1, <1>2, <1>3, <2>1, <2>2, <2>3 DEF TypeOK, GenTypeOK
    <2>5. CurrentRight'
      BY <1>1, <1>2, <1>4, <2>2 DEF CurrentRight
    <2>6. NoLostDelta'
      <3> SUFFICES ASSUME NEW x \in cblist, NEW k \in Key, k \notin dropped,
                          told'[x][k] # tree[k], ~Pending(k)
                   PROVE  current.key = k /\ x > w
        BY <1>2, <1>4, <2>1, <2>2 DEF NoLostDelta
      <3>1. CASE x = w /\ k = current.key
        <4>1. told'[w][k] = current.value
          BY <1>1, <1>3, <2>2, <3>1 DEF TypeOK, GenTypeOK, Tree
        <4> QED
          BY <1>1, <1>2, <3>1, <4>1 DEF CurrentRight
      <3>2. CASE ~(x = w /\ k = current.key)
        <4>1. told'[x][k] = told[x][k]
          BY <1>1, <1>6, <2>2, <3>2 DEF TypeOK, GenTypeOK, Tree
        <4>2. current.key = k /\ x > running
          BY <1>1, <4>1 DEF NoLostDelta
        <4>3. w \in Nat /\ x \in Nat /\ w <= x /\ x # w
          BY <1>6, <2>1, <3>2, <4>2
        <4> QED
          BY <4>2, <4>3
      <3> QED
        BY <3>1, <3>2
    <2> QED
      BY <1>5, <1>7, <2>4, <2>5, <2>6 DEF DeltaInv
  <1>9. CASE /\ \A x \in cblist : x <= running
             /\ running' = 0 /\ current' = NoDelta /\ UNCHANGED told
    <2>1. TypeOK'
      BY <1>1, <1>2, <1>9 DEF TypeOK, GenTypeOK
    <2>2. CurrentRight'
      BY <1>9 DEF CurrentRight
    <2>3. NoLostDelta'
      BY <1>1, <1>2, <1>4, <1>6, <1>9 DEF NoLostDelta
    <2> QED
      BY <1>5, <1>7, <2>1, <2>2, <2>3 DEF DeltaInv
  <1> QED
    BY <1>8, <1>9 DEF dispatch_delta

(* Steps that neither change the tree nor dispatch.                        *)
LEMMA ControlStep ==
  ASSUME DeltaInv, hold_delta \/ unhold_delta \/ flush_delta \/ flush_done,
         UNCHANGED <<tree, nsets>>
  PROVE  DeltaInv'
  <1>1. TypeOK /\ LoopOK /\ LastPendingRight /\ CurrentRight /\ NoLostDelta
    BY DEF DeltaInv
  <1>2. UNCHANGED <<deltas, current, running, cblist, told, synced, dropped, tree, nsets>>
    BY DEF hold_delta, unhold_delta, flush_delta, flush_done, loopvars, watchvars
  <1>3. LastPendingRight' /\ CurrentRight' /\ NoLostDelta'
    BY <1>1, <1>2 DEF LastPendingRight, CurrentRight, NoLostDelta, Pending
  <1>4. LoopOK' /\ hold_nesting' \in Nat /\ base' \in Nat
        /\ flushing' \in {"no", "unhold", "call"}
    <2>1. CASE hold_delta
      BY <1>1, <1>2, <2>1 DEF hold_delta, loopvars, LoopOK, TypeOK, GenTypeOK
    <2>2. CASE unhold_delta
      <3>1. hold_nesting \in Nat /\ base \in Nat /\ hold_nesting > base /\ Unhold(hold_nesting)
        BY <1>1, <2>2 DEF unhold_delta, TypeOK, GenTypeOK
      <3>2. CASE hold_nesting = 1
        <4>1. base = 0 /\ running = 0
          BY <1>1, <3>1, <3>2 DEF LoopOK
        <4> QED
          BY <1>1, <1>2, <3>1, <3>2, <4>1 DEF Unhold, LoopOK
      <3>3. CASE hold_nesting # 1
        BY <1>1, <1>2, <3>1, <3>3 DEF Unhold, LoopOK, TypeOK, GenTypeOK
      <3> QED
        BY <3>2, <3>3
    <2>3. CASE flush_delta
      BY <1>1, <1>2, <2>3 DEF flush_delta, LoopOK, TypeOK, GenTypeOK
    <2>4. CASE flush_done
      BY <1>1, <1>2, <2>4 DEF flush_done, InLoop, LoopOK, TypeOK, GenTypeOK
    <2> QED
      BY <2>1, <2>2, <2>3, <2>4
  <1>5. TypeOK'
    BY <1>1, <1>2, <1>4 DEF TypeOK, GenTypeOK
  <1> QED
    BY <1>3, <1>4, <1>5 DEF DeltaInv

(* clear_delta keeps the invariant: what it throws away is remembered as   *)
(* dropped, and the invariant speaks of the other keys.                    *)
LEMMA ClearStep ==
  ASSUME DeltaInv, clear_delta, UNCHANGED <<tree, nsets>>
  PROVE  DeltaInv'
  <1>1. TypeOK /\ LoopOK /\ LastPendingRight /\ CurrentRight /\ NoLostDelta
    BY DEF DeltaInv
  <1>2. /\ UNCHANGED <<hold_nesting, flushing, base, current, running, cblist, told, tree, nsets>>
        /\ deltas' = <<>> /\ synced' = {}
        /\ dropped' = dropped \union {deltas[i].key : i \in DOMAIN deltas}
    BY DEF clear_delta, loopvars
  <1>3. deltas' \in Seq(DeltaType) /\ DOMAIN deltas' = {}
    BY <1>2
  <1>4. \A i \in DOMAIN deltas : deltas[i] \in DeltaType
    BY <1>1 DEF TypeOK, GenTypeOK
  <1>5. dropped' \subseteq Key
    BY <1>1, <1>2, <1>4 DEF TypeOK, GenTypeOK, DeltaType
  <1>6. TypeOK'
    BY <1>1, <1>2, <1>3, <1>5 DEF TypeOK, GenTypeOK
  <1>7. \A k : Pending(k) => k \in dropped'
    BY <1>2 DEF Pending
  <1>8. LoopOK' /\ LastPendingRight'
    BY <1>1, <1>2, <1>3 DEF LoopOK, LastPendingRight
  <1>9. CurrentRight'
    BY <1>1, <1>2, <1>7 DEF CurrentRight
  <1>10. NoLostDelta'
    BY <1>1, <1>2, <1>7 DEF NoLostDelta
  <1> QED
    BY <1>6, <1>8, <1>9, <1>10 DEF DeltaInv

(* add_callback and del_callback keep the invariant: a new callback has    *)
(* just looked at the tree, and one that left is owed nothing.             *)
LEMMA RegisterStep ==
  ASSUME DeltaInv, NEW w \in Cookie, add_callback(w, tree) \/ del_callback(w),
         UNCHANGED <<tree, nsets>>
  PROVE  DeltaInv'
  <1>1. TypeOK /\ LoopOK /\ LastPendingRight /\ CurrentRight /\ NoLostDelta
    BY DEF DeltaInv
  <1>2. UNCHANGED <<hold_nesting, deltas, flushing, base, current, running, dropped, tree, nsets>>
    BY DEF add_callback, del_callback, loopvars
  <1>3. LoopOK' /\ LastPendingRight' /\ CurrentRight'
    BY <1>1, <1>2 DEF LoopOK, LastPendingRight, CurrentRight, Pending
  <1>4. CASE add_callback(w, tree)
    <2>1. told' = [told EXCEPT ![w] = tree] /\ cblist' = cblist \union {w}
          /\ synced' \subseteq cblist'
      BY <1>1, <1>4 DEF add_callback, TypeOK, GenTypeOK
    <2>2. TypeOK'
      BY <1>1, <1>2, <2>1 DEF TypeOK, GenTypeOK
    <2>3. \A x \in cblist' : \A k \in Key :
             told'[x][k] = tree[k] \/ (x \in cblist /\ told'[x][k] = told[x][k])
      BY <1>1, <2>1 DEF TypeOK, GenTypeOK
    <2>4. NoLostDelta'
      BY <1>1, <1>2, <2>3 DEF NoLostDelta, Pending
    <2> QED
      BY <1>3, <2>2, <2>4 DEF DeltaInv
  <1>5. CASE del_callback(w)
    <2>1. told' = [told EXCEPT ![w] = EmptyTree] /\ cblist' = cblist \ {w}
          /\ synced' = synced \ {w}
      BY <1>5 DEF del_callback
    <2>2. EmptyTree \in Tree
      BY DEF EmptyTree, Tree
    <2>3. TypeOK'
      BY <1>1, <1>2, <2>1, <2>2 DEF TypeOK, GenTypeOK
    <2>4. \A x \in cblist' : x \in cblist /\ told'[x] = told[x]
      BY <1>1, <2>1 DEF TypeOK, GenTypeOK
    <2>5. NoLostDelta'
      BY <1>1, <1>2, <2>4 DEF NoLostDelta, Pending
    <2> QED
      BY <1>3, <2>3, <2>5 DEF DeltaInv
  <1> QED
    BY <1>4, <1>5

(* Steps outside the generator leave the invariant alone.                  *)
LEMMA StutterStep ==
  ASSUME DeltaInv, UNCHANGED vars
  PROVE  DeltaInv'
  BY DEF DeltaInv, vars, genvars, loopvars, watchvars, TypeOK, GenTypeOK, LoopOK,
         LastPendingRight, CurrentRight, NoLostDelta, Pending

----------------------------------------------------------------------------
(* The inductive invariant holds in every reachable state.                 *)
THEOREM Invariance == Spec => []DeltaInv
  <1>1. Init => DeltaInv
    BY CookieAssumption DEF Init, InitGen, DeltaInv, TypeOK, GenTypeOK, LoopOK,
         LastPendingRight, CurrentRight, NoLostDelta, EmptyTree, Tree
  <1>2. ASSUME DeltaInv, [Next]_vars
        PROVE  DeltaInv'
    <2>1. CASE \/ \E k \in Key, v \in Value : set(k, v)
               \/ \E k \in Key : remove(k)
               \/ set_trailing_slash
      <3>1. tree \in Tree
        BY <1>2 DEF DeltaInv, TypeOK
      <3>2. PICK t \in Tree, s \in Seq(Key) :
              Change(t, s) /\ {s[i] : i \in DOMAIN s} = Changed(tree, t)
        BY <2>1, <3>1, SetIsChange
      <3> QED
        BY <1>2, <3>2, ChangeStep
    <2>2. CASE NotifyNext(tree) /\ UNCHANGED <<tree, nsets>>
      BY <1>2, <2>2, NextDeltaStep, DispatchStep, ControlStep, ClearStep,
         RegisterStep DEF NotifyNext
    <2>3. CASE UNCHANGED vars
      BY <1>2, <2>3, StutterStep
    <2> QED
      BY <1>2, <2>1, <2>2, <2>3 DEF Next
  <1> QED
    BY <1>1, <1>2, PTL DEF Spec

(* The variables always have their types.                                  *)
THEOREM TypeCorrect == Spec => []TypeOK
  <1>1. DeltaInv => TypeOK
    BY DEF DeltaInv
  <1> QED
    BY <1>1, Invariance, PTL

(* What a callback still has wrong is always on its way to it: no flush,   *)
(* nested set(), registration or removal of a callback loses a delta.      *)
THEOREM DeltasNotLost == Spec => []NoLostDelta
  <1>1. DeltaInv => NoLostDelta
    BY DEF DeltaInv
  <1> QED
    BY <1>1, Invariance, PTL

(* When the last hold is released and its flush is over, every callback    *)
(* agrees with the tree.                                                   *)
THEOREM Convergence == Spec => []Converged
  <1>1. ASSUME DeltaInv PROVE Converged
    <2> SUFFICES ASSUME flushing = "no", hold_nesting = 0
                 PROVE  /\ deltas = <<>>
                        /\ \A w \in cblist : \A k \in Key \ dropped :
                              told[w][k] = tree[k]
      BY DEF Converged
    <2>1. LoopOK /\ NoLostDelta
      BY <1>1 DEF DeltaInv
    <2>2. deltas = <<>> /\ running = 0
      BY <2>1 DEF LoopOK
    <2>3. \A k : ~Pending(k)
      BY <2>2 DEF Pending
    <2> QED
      BY <2>1, <2>2, <2>3 DEF NoLostDelta
  <1> QED
    BY <1>1, Invariance, PTL

(* No sequence of sets and removals, nested in callbacks or not, leaves a  *)
(* node without its parents.                                               *)
THEOREM TreeStaysClosed == Spec => []TreePrefixClosed
  <1>1. Init => TreePrefixClosed
    BY DEF Init, TreePrefixClosed, PrefixClosed, Exists, EmptyTree
  <1>2. ASSUME TypeOK, TreePrefixClosed, [Next]_vars
        PROVE  TreePrefixClosed'
    <2>1. CASE \/ \E k \in Key, v \in Value : set(k, v)
               \/ \E k \in Key : remove(k)
               \/ set_trailing_slash
      <3>1. tree \in Tree
        BY <1>2 DEF TypeOK
      <3>2. PICK t \in Tree, s \in Seq(Key) :
              Change(t, s) /\ (PrefixClosed(tree) => PrefixClosed(t))
        BY <2>1, <3>1, SetIsChange
      <3> QED
        BY <1>2, <3>2 DEF TreePrefixClosed, Change
    <2>2. CASE UNCHANGED tree
      BY <1>2, <2>2 DEF TreePrefixClosed, PrefixClosed, Exists
    <2> QED
      BY <1>2, <2>1, <2>2 DEF Next, vars
  <1> QED
    BY <1>1, <1>2, TypeCorrect, PTL DEF Spec

----------------------------------------------------------------------------
(* UniIniGen.                                                              *)

(* The trees of a generator and its file.                                  *)
LEMMA TreeFacts ==
  ASSUME NEW t \in Tree
  PROVE  /\ Loaded(t) \in Tree /\ Loaded(t)[Root] # Null
         /\ Saved(t) \in Tree
         /\ NoLines \in Tree
         /\ Lined(t) \subseteq Key
         /\ \A k \in Key : Removed(t, k) \in Tree
         /\ \A k \in Key, v \in Value :
              Stored(t, k, v) \in Tree /\ (t[Root] # Null => Stored(t, k, v)[Root] # Null)
         /\ Stored(t, Root, Empty)[Root] # Null
<1>1. Empty \in Value /\ Null \notin Value /\ Root \in Key
  BY ValueAssumption, KeyAssumption
<1>2. Loaded(t) \in Tree /\ Loaded(t)[Root] # Null
  BY <1>1 DEF Loaded, Tree
<1>3. Saved(t) \in Tree /\ NoLines \in Tree
  BY <1>1 DEF Saved, NoLines, EmptyTree, Tree
<1>4. Lined(t) \subseteq Key
  BY DEF Lined
<1>5. \A k \in Key : Removed(t, k) \in Tree
  BY DEF Removed, Tree
<1>6. ASSUME NEW k \in Key, NEW v \in Value
      PROVE  Stored(t, k, v) \in Tree /\ (t[Root] # Null => Stored(t, k, v)[Root] # Null)
  BY <1>1 DEF Stored, Tree
<1>7. Stored(t, Root, Empty)[Root] # Null
  BY <1>1 DEF Stored
<1> QED
  BY <1>2, <1>3, <1>4, <1>5, <1>6, <1>7

(* No tree but that of a commit is half written.                           *)
LEMMA InitIni == IniInit => IniInv
<1> SUFFICES ASSUME IniInit PROVE IniInv
  OBVIOUS
<1>1. NoLines \in Tree
  BY ValueAssumption DEF NoLines, EmptyTree, Tree
<1>2. Loaded(NoLines) \in Tree /\ Loaded(NoLines)[Root] # Null
  BY <1>1, TreeFacts
<1>3. PICK b \in BOOLEAN :
        file = [there |-> b, ino |-> IF b THEN 1 ELSE 0, ctime |-> 0, sticky |-> FALSE,
                lines |-> NoLines]
  BY DEF IniInit
<1>4. /\ file = [there |-> file.there, ino |-> file.ino, ctime |-> file.ctime,
                 sticky |-> file.sticky, lines |-> file.lines]
      /\ file.there \in BOOLEAN /\ file.sticky \in BOOLEAN
      /\ file.ctime = 0 /\ file.lines = NoLines
      /\ file.there => file.ino # 0
  BY <1>3
<1>5. IniTypeOK
  <2>1. /\ temp = [ino |-> temp.ino, lines |-> temp.lines] /\ temp.lines \in Tree
        /\ old_st.ctime \in Nat
    BY <1>1 DEF IniInit, NoTemp, NoStat
  <2>2. /\ clock \in Nat /\ looked \in Nat /\ todo = {} /\ at = "idle"
        /\ root = Loaded(NoLines) /\ ini_told = Loaded(NoLines)
        /\ dirty = TRUE /\ half = FALSE /\ blanked = FALSE /\ unread = FALSE /\ stale = FALSE
    BY DEF IniInit
  <2>3. /\ root \in Tree /\ root[Root] # Null /\ ini_told \in Tree
        /\ file.lines \in Tree /\ file.ctime \in Nat
        /\ at \in {"idle", "tmp", "truncated", "marked"} /\ (at = "tmp" => temp.ino # 0)
        /\ todo \subseteq Key
    BY <1>1, <1>2, <1>4, <2>2
  <2>4. /\ dirty \in BOOLEAN /\ half \in BOOLEAN /\ blanked \in BOOLEAN
        /\ unread \in BOOLEAN /\ stale \in BOOLEAN
    BY <2>2
  <2> QED
    BY <1>4, <2>1, <2>2, <2>3, <2>4 DEF IniTypeOK
<1>6. WrittenSoFar /\ InTime /\ SeenIsLoaded
  BY <1>4 DEF IniInit, WrittenSoFar, InTime, SeenIsLoaded, NoStat
<1>7. Trusted
  BY <1>4 DEF IniInit, Trusted, HalfIsMarked, LoadsWhole, NotStale, ToldOfFile
<1> QED
  BY <1>5, <1>6, <1>7 DEF IniInv

(* set() makes the generator dirty if it changes anything.                 *)
LEMMA SetKeeps ==
  ASSUME IniInv, NEW k \in Key, NEW v \in Value \union {Null}, ini_set(k, v)
  PROVE  IniInv'
<1> DEFINE t == IF v = Null THEN Removed(root, k) ELSE Stored(root, k, v)
           u == IF t[Root] = Null THEN Stored(t, Root, Empty) ELSE t
<1>1. /\ at = "idle" /\ root' = u /\ ini_told' = u
      /\ dirty' = (dirty \/ t # root)
      /\ UNCHANGED <<old_st, file, at, temp, todo, clock, saved, half, looked, blanked,
                     unread, stale>>
  BY DEF ini_set
<1>2. IniTypeOK /\ root \in Tree /\ root[Root] # Null
  BY DEF IniInv, IniTypeOK
<1>3. t \in Tree
  BY <1>2, TreeFacts
<1>4. u \in Tree /\ u[Root] # Null
  <2> HIDE DEF t
  <2> QED
    BY <1>3, TreeFacts, ValueAssumption, KeyAssumption
<1>5. t = root => u = root
  BY <1>2
<1> HIDE DEF t, u
<1>6. IniTypeOK'
  BY <1>1, <1>2, <1>4 DEF IniTypeOK
<1>7. WrittenSoFar' /\ InTime'
  BY <1>1 DEF IniInv, WrittenSoFar, InTime
<1>8. SeenIsLoaded'
  BY <1>1, <1>5 DEF IniInv, SeenIsLoaded, Readable, unchanged, Stat
<1>9. Trusted'
  BY <1>1 DEF IniInv, Trusted, HalfIsMarked, LoadsWhole, NotStale, ToldOfFile
<1> QED
  BY <1>6, <1>7, <1>8, <1>9 DEF IniInv

(* refresh() reads whole files only, and leaves out what it has read, or   *)
(* tried to.                                                               *)
LEMMA RefreshKeeps ==
  ASSUME IniInv, refresh
  PROVE  IniInv'
<1>1. at = "idle" /\ UNCHANGED <<file, at, temp, todo, clock, saved, blanked>>
  BY DEF refresh
<1>2. /\ IniTypeOK /\ InTime /\ SeenIsLoaded /\ Trusted
      /\ root \in Tree /\ ini_told = root /\ file.lines \in Tree
  BY DEF IniInv, IniTypeOK, Trusted, ToldOfFile
<1>3. ASSUME UNCHANGED <<root, ini_told, dirty, half>>, stale' = FALSE, unread' \in BOOLEAN,
             looked' \in Nat, old_st'.ctime \in Nat, old_st'.ctime <= looked', looked' <= clock,
             SeenIsLoaded'
      PROVE  IniInv'
  <2>1. IniTypeOK'
    BY <1>1, <1>2, <1>3 DEF IniTypeOK
  <2>2. WrittenSoFar' /\ InTime'
    BY <1>1, <1>2, <1>3 DEF WrittenSoFar, InTime
  <2>3. Trusted'
    BY <1>1, <1>2, <1>3 DEF Trusted, HalfIsMarked, LoadsWhole, NotStale, ToldOfFile
  <2> QED
    BY <1>3, <2>1, <2>2, <2>3 DEF IniInv
<1>4. /\ stale = FALSE /\ Stat(file).ctime \in Nat /\ Stat(file).ctime <= clock
      /\ looked \in Nat /\ clock \in Nat
  BY <1>2 DEF Trusted, NotStale, IniTypeOK, InTime, Stat
<1>5. CASE not_opened
  <2>1. UNCHANGED <<root, ini_told, dirty, half, stale>> /\ old_st' \in {NoStat, old_st}
    BY <1>5 DEF not_opened, Leftover
  <2>2. CASE old_st' = old_st
    <3>1. looked' = looked /\ unread' = unread
      BY <1>2, <1>5, <2>2 DEF not_opened, IniTypeOK
    <3>2. SeenIsLoaded'
      BY <1>1, <1>2, <2>1, <2>2, <3>1 DEF SeenIsLoaded, Readable, unchanged, Stat
    <3> QED
      BY <1>2, <1>3, <1>4, <2>1, <2>2, <3>1, <3>2 DEF IniTypeOK, InTime
  <2>3. CASE old_st' # old_st
    <3>1. looked' = clock /\ unread' = FALSE /\ old_st' = NoStat
      BY <1>5, <2>1, <2>3 DEF not_opened
    <3>2. SeenIsLoaded'
      BY <1>1, <1>2, <3>1 DEF SeenIsLoaded, Readable, unchanged, Stat, NoStat, IniTypeOK
    <3>3. /\ old_st'.ctime \in Nat /\ old_st'.ctime <= looked'
          /\ looked' <= clock /\ looked' \in Nat
      BY <1>4, <3>1 DEF NoStat
    <3> QED
      BY <1>3, <1>4, <2>1, <3>1, <3>2, <3>3
  <2> QED
    BY <2>2, <2>3
<1>6. CASE not_whole
  <2>1. /\ UNCHANGED <<root, ini_told, dirty, half, stale>> /\ file.sticky
        /\ looked' = clock /\ old_st' = Stat(file) /\ unread' \in BOOLEAN
    BY <1>2, <1>6 DEF not_whole, stat_taken, IniTypeOK
  <2>2. SeenIsLoaded'
    BY <1>1, <2>1 DEF SeenIsLoaded, Readable
  <2>3. old_st'.ctime \in Nat /\ old_st'.ctime <= looked' /\ looked' <= clock /\ looked' \in Nat
    BY <1>4, <2>1
  <2> QED
    BY <1>3, <1>4, <2>1, <2>2, <2>3
<1>7. CASE do_nothing
  <2>1. UNCHANGED <<old_st, looked, unread, root, ini_told, dirty, half>>
    BY <1>7 DEF do_nothing
  <2>2. stale' = FALSE
    BY <1>2, <1>4, <1>7 DEF do_nothing, SeenIsLoaded
  <2>3. SeenIsLoaded'
    BY <1>1, <1>2, <2>1 DEF SeenIsLoaded, Readable, unchanged, Stat
  <2> QED
    BY <1>2, <1>3, <1>4, <2>1, <2>2, <2>3 DEF IniTypeOK, InTime
<1>8. CASE not_read
  <2>1. /\ UNCHANGED <<root, ini_told, dirty, half, stale>>
        /\ looked' = clock /\ old_st' = Stat(file) /\ unread' = TRUE
    BY <1>8 DEF not_read, stat_taken
  <2>2. SeenIsLoaded'
    BY <2>1 DEF SeenIsLoaded
  <2>3. old_st'.ctime \in Nat /\ old_st'.ctime <= looked' /\ looked' <= clock /\ looked' \in Nat
    BY <1>4, <2>1
  <2> QED
    BY <1>3, <1>4, <2>1, <2>2, <2>3
<1>9. CASE switch
  <2> DEFINE t == Loaded(file.lines)
  <2>1. /\ root' = t /\ dirty' = FALSE /\ half' = (half \/ file.lines # saved)
        /\ ini_told' = [k \in Key |-> IF k \in Changed(root, t) THEN t[k] ELSE ini_told[k]]
        /\ UNCHANGED stale
        /\ file.there /\ ~file.sticky /\ old_st' = Stat(file) /\ looked' = clock /\ unread' = FALSE
    BY <1>9 DEF switch, stat_taken, refreshcomparator, Readable
  <2>2. t \in Tree /\ t[Root] # Null
    BY <1>2, TreeFacts
  <2>3. SeenIsLoaded'
    BY <1>1, <2>1 DEF SeenIsLoaded
  <2> HIDE DEF t
  <2>4. ini_told' = t
    BY <1>2, <2>1, <2>2 DEF Changed, Tree
  <2>5. IniTypeOK'
    BY <1>1, <1>2, <1>4, <2>1, <2>2, <2>4 DEF IniTypeOK
  <2>6. WrittenSoFar' /\ InTime'
    BY <1>1, <1>2, <1>4, <2>1 DEF WrittenSoFar, InTime
  <2>7. Trusted'
    BY <1>1, <1>2, <2>1, <2>4 DEF IniInv, Trusted, HalfIsMarked, LoadsWhole, NotStale, ToldOfFile
  <2> QED
    BY <2>3, <2>5, <2>6, <2>7 DEF IniInv
<1> QED
  BY <1>5, <1>6, <1>7, <1>8, <1>9 DEF refresh

(* The steps of commit(): what is written is what is no longer to do, and  *)
(* only the second in which it is written can hide it from refresh().      *)
LEMMA CommitKeeps ==
  ASSUME IniInv,
         \/ commit \/ commit_fallback \/ commit_fails \/ mark \/ rename \/ finish
         \/ \E k \in Key : printkey(k)
  PROVE  IniInv'
<1> USE DEF IniInv
<1>1. UNCHANGED <<root, ini_told, old_st, clock, half, looked, blanked, unread, stale>>
  BY DEF commit, commit_fallback, commit_fails, mark, rename, finish, printkey
<1>2. /\ root \in Tree /\ Saved(root) \in Tree /\ NoLines \in Tree
      /\ Lined(Saved(root)) \subseteq Key
  BY TreeFacts DEF IniTypeOK
<1>3. Saved(root)' = Saved(root)
  BY <1>1 DEF Saved
<1>4. LoadsWhole' /\ NotStale' /\ ToldOfFile'
  BY <1>1 DEF Trusted, LoadsWhole, NotStale, ToldOfFile
<1>5. ASSUME UNCHANGED <<file, dirty>>
      PROVE  InTime' /\ SeenIsLoaded'
  BY <1>1, <1>5 DEF InTime, SeenIsLoaded, Readable, unchanged, Stat
<1>6. ASSUME file'.ctime = clock
      PROVE  InTime' /\ SeenIsLoaded'
  <2>1. InTime'
    BY <1>1, <1>6 DEF IniTypeOK, InTime
  <2>2. Stat(file)' = old_st' => file'.ctime = looked'
    BY <1>1, <1>6, <2>1 DEF IniTypeOK, InTime, Stat
  <2> QED
    BY <2>1, <2>2 DEF SeenIsLoaded, unchanged
<1>7. CASE commit
  <2>1. /\ at' = "tmp" /\ todo' = Lined(Saved(root)) /\ UNCHANGED <<file, dirty, saved>>
        /\ at = "idle"
    BY <1>7 DEF commit
  <2>2. PICK i \in Unused : i # 0 /\ temp' = [ino |-> i, lines |-> NoLines]
    BY <1>7, InodeAssumption DEF commit, Unused
  <2>3. IniTypeOK'
    BY <1>1, <1>2, <2>1, <2>2 DEF IniTypeOK
  <2>4. NoLines = SoFar'
    BY <1>2, <1>3, <2>1 DEF SoFar, Lined, NoLines, EmptyTree, Tree
  <2>5. WrittenSoFar'
    BY <1>3, <2>1, <2>2, <2>4 DEF WrittenSoFar
  <2>6. HalfIsMarked'
    BY <1>1, <2>1 DEF Trusted, HalfIsMarked
  <2> QED
    BY <1>4, <1>5, <2>1, <2>3, <2>5, <2>6 DEF Trusted
<1>8. CASE commit_fallback
  <2>1. at' = "truncated" /\ temp' = NoTemp /\ UNCHANGED <<dirty, todo, saved>>
    BY <1>8 DEF commit_fallback
  <2>2. PICK i \in IF file.there THEN {file.ino} ELSE {temp.ino} :
          file' = [file EXCEPT !.there = TRUE, !.ino = i, !.ctime = clock, !.lines = NoLines]
    BY <1>8 DEF commit_fallback
  <2>3. file' = [there |-> TRUE, ino |-> i, ctime |-> clock, sticky |-> file.sticky,
                 lines |-> NoLines]
    BY <2>2 DEF IniTypeOK
  <2>4. i # 0 /\ file.sticky \in BOOLEAN /\ clock \in Nat
    BY <1>8, <2>2 DEF commit_fallback, IniTypeOK
  <2>5. IniTypeOK'
    <3>1. /\ file'.there = TRUE /\ file'.sticky \in BOOLEAN /\ file'.ino # 0
          /\ file'.ctime = clock /\ file'.lines = NoLines
          /\ file' = [there |-> file'.there, ino |-> file'.ino, ctime |-> file'.ctime,
                      sticky |-> file'.sticky, lines |-> file'.lines]
      BY <2>3, <2>4
    <3> QED
      BY <1>1, <1>2, <2>1, <3>1 DEF IniTypeOK, NoTemp
  <2>6. WrittenSoFar' /\ HalfIsMarked'
    BY <2>1, <2>3 DEF WrittenSoFar, HalfIsMarked
  <2> QED
    BY <1>4, <1>6, <2>3, <2>5, <2>6 DEF Trusted
<1>9. CASE commit_fails
  <2>1. /\ at = "tmp" /\ at' = "idle" /\ temp' = NoTemp /\ todo' = {}
        /\ UNCHANGED <<file, dirty, saved>>
    BY <1>9 DEF commit_fails
  <2>2. IniTypeOK'
    BY <1>1, <1>2, <2>1 DEF IniTypeOK, NoTemp
  <2>3. WrittenSoFar' /\ HalfIsMarked'
    BY <1>1, <2>1 DEF WrittenSoFar, HalfIsMarked, Trusted
  <2> QED
    BY <1>4, <1>5, <2>1, <2>2, <2>3 DEF Trusted
<1>10. CASE mark
  <2>1. /\ at = "truncated" /\ at' = "marked" /\ todo' = Lined(Saved(root))
        /\ file' = [file EXCEPT !.sticky = TRUE, !.ctime = clock]
        /\ UNCHANGED <<dirty, temp, saved>>
    BY <1>10 DEF mark
  <2>2. file' = [there |-> file.there, ino |-> file.ino, ctime |-> clock, sticky |-> TRUE,
                 lines |-> NoLines]
    BY <2>1 DEF IniTypeOK, WrittenSoFar
  <2>3. IniTypeOK'
    BY <1>1, <1>2, <2>1, <2>2 DEF IniTypeOK
  <2>4. NoLines = SoFar'
    BY <1>2, <1>3, <2>1 DEF SoFar, Lined, NoLines, EmptyTree, Tree
  <2>5. WrittenSoFar' /\ HalfIsMarked'
    BY <1>3, <2>1, <2>2, <2>4 DEF WrittenSoFar, HalfIsMarked
  <2> QED
    BY <1>4, <1>6, <2>2, <2>3, <2>5 DEF Trusted
<1>11. CASE rename
  <2>1. /\ at = "tmp" /\ todo = {} /\ at' = "idle" /\ dirty' = FALSE
        /\ saved' = Saved(root) /\ temp' = NoTemp /\ UNCHANGED todo
        /\ file' = [there |-> TRUE, ino |-> temp.ino, ctime |-> clock, sticky |-> FALSE,
                    lines |-> temp.lines]
    BY <1>11 DEF rename
  <2>2. IniTypeOK'
    BY <1>1, <1>2, <2>1 DEF IniTypeOK, NoTemp
  <2>3. temp.lines = Saved(root)
    BY <1>2, <2>1 DEF WrittenSoFar, SoFar, Tree
  <2>4. WrittenSoFar' /\ HalfIsMarked'
    BY <2>1, <2>3 DEF WrittenSoFar, HalfIsMarked
  <2> QED
    BY <1>4, <1>6, <2>1, <2>2, <2>4 DEF Trusted
<1>12. CASE finish
  <2>1. /\ at = "marked" /\ at' = "idle" /\ dirty' = FALSE /\ todo' = {} /\ UNCHANGED temp
        /\ file' = unmark(todo = {})
        /\ saved' = IF todo = {} THEN Saved(root) ELSE saved
    BY <1>12 DEF finish
  <2>2. file.sticky /\ file.lines = SoFar
    BY <2>1 DEF WrittenSoFar
  <2>3. CASE todo = {}
    <3>1. file' = [there |-> file.there, ino |-> file.ino, ctime |-> clock, sticky |-> FALSE,
                   lines |-> file.lines]
      BY <2>1, <2>3 DEF unmark, IniTypeOK
    <3>2. IniTypeOK'
      <4>1. /\ file'.there \in BOOLEAN /\ file'.sticky \in BOOLEAN
            /\ file'.ctime = clock /\ file'.lines = file.lines
            /\ file'.there = file.there /\ file'.ino = file.ino
            /\ file' = [there |-> file'.there, ino |-> file'.ino, ctime |-> file'.ctime,
                        sticky |-> file'.sticky, lines |-> file'.lines]
        BY <3>1 DEF IniTypeOK
      <4> QED
        BY <1>1, <2>1, <4>1 DEF IniTypeOK
    <3>3. file.lines = Saved(root)
      BY <1>2, <2>2, <2>3 DEF SoFar, Tree
    <3>4. WrittenSoFar' /\ HalfIsMarked'
      BY <2>1, <2>3, <3>1, <3>3 DEF WrittenSoFar, HalfIsMarked
    <3> QED
      BY <1>4, <1>6, <3>1, <3>2, <3>4 DEF Trusted
  <2>4. CASE todo # {}
    <3>1. UNCHANGED <<file, saved>>
      BY <2>1, <2>4 DEF unmark
    <3>2. IniTypeOK'
      BY <1>1, <1>2, <2>1, <3>1 DEF IniTypeOK
    <3>3. WrittenSoFar' /\ HalfIsMarked' /\ InTime' /\ SeenIsLoaded'
      BY <1>1, <2>1, <2>2, <3>1 DEF WrittenSoFar, HalfIsMarked, InTime, SeenIsLoaded, Readable
    <3> QED
      BY <1>4, <3>2, <3>3 DEF Trusted
  <2> QED
    BY <2>3, <2>4
<1>13. ASSUME NEW k \in Key, printkey(k)
       PROVE  IniInv'
  <2>1. k \in todo /\ todo' = todo \ {k} /\ UNCHANGED <<dirty, at, saved>>
    BY <1>13 DEF printkey
  <2>2. ASSUME at \in {"tmp", "marked"}
        PROVE  /\ Saved(root)[k] = root[k]
               /\ todo' \subseteq Lined(Saved(root))
               /\ [SoFar EXCEPT ![k] = root[k]] = SoFar'
    <3>1. k \in Lined(Saved(root)) /\ todo' \subseteq Lined(Saved(root))
      BY <2>1, <2>2 DEF WrittenSoFar
    <3>2. Saved(root)[k] = root[k]
      BY <3>1 DEF Lined, Saved
    <3>3. [SoFar EXCEPT ![k] = root[k]] = SoFar'
      BY <1>3, <2>1, <3>2 DEF SoFar
    <3> QED
      BY <3>1, <3>2, <3>3
  <2>3. root[k] \in Value \union {Null}
    BY <1>2 DEF Tree
  <2>4. CASE at = "tmp" /\ temp' = [temp EXCEPT !.lines[k] = root[k]] /\ UNCHANGED file
    <3>1. temp' = [ino |-> temp.ino, lines |-> [temp.lines EXCEPT ![k] = root[k]]]
      BY <2>4 DEF IniTypeOK
    <3>2. [temp.lines EXCEPT ![k] = root[k]] \in Tree
      BY <2>3 DEF IniTypeOK, Tree
    <3>3. IniTypeOK'
      BY <1>1, <2>1, <2>4, <3>1, <3>2 DEF IniTypeOK
    <3>4. WrittenSoFar'
      BY <1>3, <2>1, <2>2, <2>4, <3>1 DEF WrittenSoFar
    <3>5. HalfIsMarked'
      BY <1>1, <2>1, <2>4 DEF Trusted, HalfIsMarked
    <3> QED
      BY <1>4, <1>5, <2>1, <2>4, <3>3, <3>4, <3>5 DEF Trusted
  <2>5. CASE /\ at = "marked" /\ UNCHANGED temp
             /\ file' = [file EXCEPT !.lines[k] = root[k], !.ctime = clock]
    <3>1. file' = [there |-> file.there, ino |-> file.ino, ctime |-> clock,
                   sticky |-> file.sticky, lines |-> [file.lines EXCEPT ![k] = root[k]]]
      BY <2>5 DEF IniTypeOK
    <3>2. [file.lines EXCEPT ![k] = root[k]] \in Tree
      BY <2>3 DEF IniTypeOK, Tree
    <3>3. IniTypeOK'
      BY <1>1, <2>1, <2>5, <3>1, <3>2 DEF IniTypeOK
    <3>4. WrittenSoFar' /\ HalfIsMarked'
      BY <1>3, <2>1, <2>2, <2>5, <3>1 DEF WrittenSoFar, HalfIsMarked
    <3> QED
      BY <1>4, <1>6, <3>1, <3>3, <3>4 DEF Trusted
  <2> QED
    BY <1>13, <2>4, <2>5 DEF printkey
<1> QED
  BY <1>7, <1>8, <1>9, <1>10, <1>11, <1>12, <1>13

(* A crash between two steps of commit(), the changes of other programs,   *)
(* and time.                                                               *)
LEMMA OutsideKeeps ==
  ASSUME IniInv, \/ crash \/ tick
                 \/ \E t \in Others : other(Saved(t)) /\ t \in Tree
  PROVE  IniInv'
<1> USE DEF IniInv
<1>1. CASE crash
  <2>1. /\ root' = Loaded(NoLines) /\ ini_told' = root' /\ dirty' = TRUE /\ old_st' = NoStat
        /\ at' = "idle" /\ todo' = {} /\ temp' = NoTemp /\ looked' = 0
        /\ unread' = FALSE /\ blanked' = (blanked \/ at = "truncated")
        /\ UNCHANGED <<file, clock, saved, half, stale>>
    BY <1>1 DEF crash, Start
  <2>2. NoLines \in Tree /\ Loaded(NoLines) \in Tree /\ Loaded(NoLines)[Root] # Null
    <3>1. NoLines \in Tree
      BY TreeFacts DEF IniTypeOK
    <3> QED
      BY <3>1, TreeFacts
  <2>3. IniTypeOK'
    BY <2>1, <2>2 DEF IniTypeOK, NoStat, NoTemp
  <2>4. WrittenSoFar' /\ InTime' /\ SeenIsLoaded'
    BY <2>1 DEF IniTypeOK, WrittenSoFar, InTime, SeenIsLoaded, NoStat
  <2>5. Trusted'
    BY <2>1 DEF Trusted, HalfIsMarked, LoadsWhole, NotStale, ToldOfFile
  <2> QED
    BY <2>3, <2>4, <2>5
<1>2. CASE tick
  <2>1. /\ clock' = clock + 1
        /\ UNCHANGED <<root, dirty, ini_told, old_st, file, at, temp, todo,
                       saved, half, looked, blanked, unread, stale>>
    BY <1>2 DEF tick
  <2>2. IniTypeOK' /\ InTime'
    BY <2>1 DEF IniTypeOK, InTime
  <2>3. WrittenSoFar' /\ SeenIsLoaded'
    BY <2>1 DEF WrittenSoFar, SoFar, Saved, SeenIsLoaded, Readable, unchanged, Stat
  <2>4. Trusted'
    BY <2>1 DEF Trusted, HalfIsMarked, LoadsWhole, NotStale, ToldOfFile
  <2> QED
    BY <2>2, <2>3, <2>4
<1>3. ASSUME NEW t \in Tree, other(Saved(t))
      PROVE  IniInv'
  <2>1. at = "idle" /\ saved' = Saved(t)
        /\ UNCHANGED <<root, dirty, ini_told, old_st, at, temp, todo, clock, half, looked,
                       blanked, unread, stale>>
    BY <1>3 DEF other
  <2>2. PICK i \in Inode :
          /\ i # 0
          /\ file' = [there |-> TRUE, ino |-> i, ctime |-> clock, sticky |-> FALSE,
                      lines |-> Saved(t)]
    BY <1>3, InodeAssumption DEF other
  <2>3. Saved(t) \in Tree
    BY <1>3, TreeFacts
  <2>4. IniTypeOK'
    BY <2>1, <2>2, <2>3 DEF IniTypeOK
  <2>5. WrittenSoFar' /\ InTime'
    BY <2>1, <2>2 DEF IniTypeOK, WrittenSoFar, InTime
  <2>6. Stat(file)' = old_st' => file'.ctime = looked'
    BY <2>1, <2>2, <2>5 DEF IniTypeOK, InTime, Stat
  <2>7. SeenIsLoaded'
    BY <2>6 DEF SeenIsLoaded, unchanged
  <2>8. Trusted'
    BY <2>1, <2>2 DEF Trusted, HalfIsMarked, LoadsWhole, NotStale, ToldOfFile
  <2> QED
    BY <2>4, <2>5, <2>7, <2>8
<1> QED
  BY <1>1, <1>2, <1>3

(* The inductive invariant holds, of a generator whose file other programs *)
(* save trees in.                                                          *)
THEOREM IniInvariance == IniSpec => []IniInv
<1>1. ASSUME IniInv, [IniNext]_inivars
      PROVE  IniInv'
  <2>1. ASSUME NEW k \in Key, NEW v \in Value \union {Null}, ini_set(k, v)
        PROVE  IniInv'
    BY <1>1, <2>1, SetKeeps
  <2>2. CASE refresh
    BY <1>1, <2>2, RefreshKeeps
  <2>3. CASE \/ commit \/ commit_fallback \/ commit_fails \/ mark \/ rename \/ finish
             \/ \E k \in Key : printkey(k)
    BY <1>1, <2>3, CommitKeeps
  <2>4. CASE crash \/ tick \/ \E t \in Others : other(Saved(t))
    BY <1>1, <2>4, OutsideKeeps, OthersAssumption
  <2>5. CASE UNCHANGED inivars
    BY <1>1, <2>5
       DEF inivars, IniInv, IniTypeOK, WrittenSoFar, SoFar, InTime, SeenIsLoaded, Readable,
           unchanged, Stat, Trusted, HalfIsMarked, LoadsWhole, NotStale, ToldOfFile
  <2> QED
    BY <1>1, <2>1, <2>2, <2>3, <2>4, <2>5 DEF IniNext
<1> QED
  BY <1>1, InitIni, PTL DEF IniSpec

(* A file that is not whole is marked and not read, but for the moment     *)
(* between its truncation and its mark; refresh() takes no file it has not *)
(* tried to read for the one it has read, unless it changed in the second  *)
(* of its look; and callbacks know what it brought.                        *)
THEOREM FileIsTrusted == IniSpec => []FileTrusted
<1>1. IniInv => FileTrusted
  BY DEF IniInv, FileTrusted
<1> QED
  BY <1>1, IniInvariance, PTL
============================================================================
