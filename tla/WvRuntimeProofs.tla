-------------------------- MODULE WvRuntimeProofs --------------------------
(***************************************************************************)
(* WvIStreamList.  For any number of streams and any nesting of runonce(): *)
(* every stream that is listed, in sure_thing or being called exists, each *)
(* of them has its reference, and what was unlinked is not called any      *)
(* more.  References are counted, so the invariant has to be: no stream is *)
(* listed twice in list or sure_thing, only the innermost runonce() is     *)
(* outside the callbacks, and sure_thing is empty while it waits.          *)
(*                                                                         *)
(* WvSubProcQueue.  For every set of cookies, number of processes that may *)
(* run and number of add() calls.                                          *)
(*                                                                         *)
(* WvAlarm.  For every clock, and whatever is done to it: how late and how *)
(* early an alarm may be.                                                  *)
(***************************************************************************)
EXTENDS WvIStreamList, WvSubProcQueue, WvAlarm, SublistLemmas

FrameType == [at : {"call", "select", "next"}, s : Stream \union {List}, now : BOOLEAN]

----------------------------------------------------------------------------
(* The elements of what is left of a list.                                 *)
LEMMA SublistElements ==
  ASSUME NEW D, NEW q \in Seq(D), NEW I \in SUBSET DOMAIN q
  PROVE  /\ Sublist(q, I) \in Seq(D)
         /\ \A x : In(x, Sublist(q, I)) <=> \E i \in I : q[i] = x
         /\ Once(q) => Once(Sublist(q, I))
<1> DEFINE r == Sublist(q, I)
<1>1. /\ r \in Seq(D)
      /\ \A k \in DOMAIN r : Nth(I, k) \in I /\ r[k] = q[Nth(I, k)]
      /\ \A i \in I : \E k \in DOMAIN r : Nth(I, k) = i
  BY SublistFacts
<1>2. \A k, l \in DOMAIN r : k < l => Nth(I, k) < Nth(I, l)
  BY SublistOrder
<1>3. DOMAIN r \subseteq Nat /\ I \subseteq Nat
  <2>1. DOMAIN r = 1 .. Len(r) /\ Len(r) \in Nat /\ DOMAIN q = 1 .. Len(q) /\ Len(q) \in Nat
    BY <1>1
  <2> QED
    BY <2>1
<1> HIDE DEF r
<1>4. \A x : In(x, r) <=> \E i \in I : q[i] = x
  BY <1>1 DEF In
<1>5. ASSUME Once(q), NEW k \in DOMAIN r, NEW l \in DOMAIN r, r[k] = r[l]
      PROVE  k = l
  <2>1. Nth(I, k) = Nth(I, l)
    BY <1>1, <1>5 DEF Once
  <2>2. Nth(I, k) \in Nat /\ k \in Nat /\ l \in Nat
    BY <1>1, <1>3
  <2> QED
    BY <1>2, <2>1, <2>2
<1>6. Once(q) => Once(r)
  BY <1>5 DEF Once
<1> QED
  BY <1>1, <1>4, <1>6 DEF r

(* unlink(): the element is gone, the others are left.                     *)
LEMMA WithoutFacts ==
  ASSUME NEW D, NEW q \in Seq(D), NEW s
  PROVE  /\ Without(q, s) \in Seq(D)
         /\ \A x : In(x, Without(q, s)) <=> In(x, q) /\ x # s
         /\ Once(q) => Once(Without(q, s))
<1> DEFINE I == {i \in DOMAIN q : q[i] # s}
<1>1. /\ Sublist(q, I) \in Seq(D)
      /\ \A x : In(x, Sublist(q, I)) <=> \E i \in I : q[i] = x
      /\ Once(q) => Once(Sublist(q, I))
  BY SublistElements
<1> QED
  BY <1>1 DEF Without, In

LEMMA WhereFacts ==
  ASSUME NEW D, NEW q \in Seq(D), NEW S
  PROVE  /\ Sublist(q, Where(q, S)) \in Seq(D)
         /\ \A x : In(x, Sublist(q, Where(q, S))) <=> In(x, q) /\ x \in S
         /\ Once(q) => Once(Sublist(q, Where(q, S)))
<1> DEFINE I == {i \in DOMAIN q : q[i] \in S}
<1>1. /\ Sublist(q, I) \in Seq(D)
      /\ \A x : In(x, Sublist(q, I)) <=> \E i \in I : q[i] = x
      /\ Once(q) => Once(Sublist(q, I))
  BY SublistElements
<1> QED
  BY <1>1 DEF Where, In

(* Reading and appending.                                                  *)
LEMMA EndFacts ==
  ASSUME NEW D, NEW q \in Seq(D), NEW d \in D
  PROVE  /\ Append(q, d) \in Seq(D) /\ Len(Append(q, d)) = Len(q) + 1
         /\ \A x : In(x, Append(q, d)) <=> In(x, q) \/ x = d
         /\ Once(q) /\ ~In(d, q) => Once(Append(q, d))
<1>1. /\ Append(q, d) \in Seq(D) /\ Len(Append(q, d)) = Len(q) + 1
      /\ DOMAIN q = 1 .. Len(q) /\ Len(q) \in Nat
      /\ DOMAIN Append(q, d) = 1 .. Len(q) + 1
      /\ \A i \in 1 .. Len(q) : Append(q, d)[i] = q[i]
      /\ Append(q, d)[Len(q) + 1] = d
  OBVIOUS
<1>2. \A i \in 1 .. Len(q) + 1 : i \in 1 .. Len(q) \/ i = Len(q) + 1
  BY <1>1
<1>3. Len(q) + 1 \in 1 .. Len(q) + 1 /\ 1 .. Len(q) \subseteq 1 .. Len(q) + 1
  BY <1>1
<1>4. \A x : In(x, Append(q, d)) <=> In(x, q) \/ x = d
  BY <1>1, <1>2, <1>3 DEF In
<1>5. ASSUME Once(q), ~In(d, q)
      PROVE  Once(Append(q, d))
  BY <1>1, <1>2, <1>5 DEF Once, In
<1> QED
  BY <1>1, <1>4, <1>5

LEMMA TailFacts ==
  ASSUME NEW D, NEW q \in Seq(D), q # <<>>, Once(q)
  PROVE  /\ Head(q) \in D /\ Tail(q) \in Seq(D)
         /\ \A x : In(x, Tail(q)) <=> In(x, q) /\ x # Head(q)
         /\ In(Head(q), q)
         /\ Once(Tail(q))
<1>1. /\ Tail(q) \in Seq(D) /\ Len(q) \in Nat /\ Len(q) > 0 /\ DOMAIN q = 1 .. Len(q)
      /\ DOMAIN Tail(q) = 1 .. Len(q) - 1
      /\ \A i \in 1 .. Len(q) - 1 : Tail(q)[i] = q[i + 1]
      /\ Head(q) = q[1] /\ Head(q) \in D
  OBVIOUS
<1>2. \A i \in 1 .. Len(q) - 1 : i + 1 \in 1 .. Len(q) /\ i + 1 # 1
  BY <1>1
<1>3. \A i \in 1 .. Len(q) : i = 1 \/ (i - 1 \in 1 .. Len(q) - 1 /\ (i - 1) + 1 = i)
  BY <1>1
<1>4. 1 \in 1 .. Len(q)
  BY <1>1
<1>5. \A x : In(x, Tail(q)) => In(x, q) /\ x # Head(q)
  BY <1>1, <1>2, <1>4 DEF In, Once
<1>6. ASSUME NEW x, In(x, q), x # Head(q)
      PROVE  In(x, Tail(q))
  <2>1. PICK i \in 1 .. Len(q) : q[i] = x
    BY <1>1, <1>6 DEF In
  <2>2. i - 1 \in 1 .. Len(q) - 1 /\ Tail(q)[i - 1] = q[(i - 1) + 1] /\ (i - 1) + 1 = i
    BY <1>1, <1>3, <1>6, <2>1
  <2> QED
    BY <1>1, <2>1, <2>2 DEF In
<1>7. Once(Tail(q))
  <2> SUFFICES ASSUME NEW i \in 1 .. Len(q) - 1, NEW j \in 1 .. Len(q) - 1, Tail(q)[i] = Tail(q)[j]
               PROVE  i = j
    BY <1>1 DEF Once
  <2>1. i + 1 = j + 1
    BY <1>1, <1>2 DEF Once
  <2> QED
    BY <2>1
<1> QED
  BY <1>1, <1>4, <1>5, <1>6, <1>7 DEF In

----------------------------------------------------------------------------
(* A nested runonce() is begun, or its place changes.                      *)
LEMMA CallsPush ==
  ASSUME NEW fs \in Seq(FrameType), NEW f \in FrameType, NEW s
  PROVE  /\ Calls(fs, s) \in Nat
         /\ Calls(Append(fs, f), s) = Calls(fs, s) + One(f.s = s)
<1> DEFINE gs == Append(fs, f)
           N == Len(fs)
           A == {i \in DOMAIN fs : fs[i].s = s}
           B == {i \in DOMAIN gs : gs[i].s = s}
<1>1. /\ N \in Nat /\ DOMAIN fs = 1 .. N /\ DOMAIN gs = 1 .. N + 1
      /\ \A i \in 1 .. N : gs[i] = fs[i]
      /\ gs[N + 1] = f
  OBVIOUS
<1> HIDE DEF gs, N
<1>2. IsFiniteSet(A)
  <2>1. IsFiniteSet(1 .. N)
    BY <1>1, FS_Interval
  <2> QED
    BY <1>1, <2>1, FS_Subset
<1>3. N + 1 \notin A /\ B = IF f.s = s THEN A \union {N + 1} ELSE A
  BY <1>1
<1> HIDE DEF A, B
<1>4. Cardinality(A) \in Nat /\ Cardinality(A \union {N + 1}) = Cardinality(A) + 1
  BY <1>2, <1>3, FS_CardinalityType, FS_AddElement
<1>5. Cardinality(B) = Cardinality(A) + One(f.s = s)
  BY <1>3, <1>4 DEF One
<1> QED
  BY <1>4, <1>5 DEF Calls, A, B, gs

(* It returns.                                                             *)
LEMMA CallsPop ==
  ASSUME NEW fs \in Seq(FrameType), fs # <<>>, NEW s
  PROVE  /\ SubSeq(fs, 1, Len(fs) - 1) \in Seq(FrameType)
         /\ Len(SubSeq(fs, 1, Len(fs) - 1)) = Len(fs) - 1
         /\ \A i \in 1 .. Len(fs) - 1 : SubSeq(fs, 1, Len(fs) - 1)[i] = fs[i]
         /\ fs[Len(fs)] \in FrameType
         /\ Calls(fs, s) = Calls(SubSeq(fs, 1, Len(fs) - 1), s) + One(fs[Len(fs)].s = s)
<1> DEFINE N == Len(fs)
           gs == SubSeq(fs, 1, N - 1)
<1>1. N \in Nat /\ N > 0 /\ N - 1 \in 0 .. N
  OBVIOUS
<1>2. gs \in Seq(FrameType) /\ Len(gs) = N - 1 /\ \A i \in 1 .. N - 1 : gs[i] = fs[i]
  BY <1>1, SubSeqFacts, ZenonT(30)
<1>3. fs[N] \in FrameType
  BY <1>1
<1>4. fs = Append(gs, fs[N])
  <2> DEFINE hs == Append(gs, fs[N])
  <2>1. hs \in Seq(FrameType) /\ Len(hs) = N /\ \A i \in 1 .. N : hs[i] = fs[i]
    <3> HIDE DEF gs
    <3> QED
      BY <1>1, <1>2, <1>3
  <2> HIDE DEF hs, gs
  <2> QED
    BY <2>1 DEF hs
<1>5. Calls(Append(gs, fs[N]), s) = Calls(gs, s) + One(fs[N].s = s)
  <2> HIDE DEF gs, N
  <2> QED
    BY <1>2, <1>3, CallsPush
<1> QED
  BY <1>2, <1>3, <1>4, <1>5

----------------------------------------------------------------------------
(* What the parts of the invariant say about one stream.                   *)
LEMMA Accounts ==
  ASSUME ListInv
  PROVE  /\ \A t \in Stream :
              /\ refs[t] = One(t \in held) + One(t \in autofree) + One(In(t, sure)) + Calls(frames, t)
              /\ refs[t] \in Nat /\ Calls(frames, t) \in Nat
              /\ One(t \in held) \in {0, 1} /\ One(t \in autofree) \in {0, 1}
              /\ One(In(t, sure)) \in {0, 1}
         /\ frames \in Seq(FrameType)
<1>1. frames \in Seq(FrameType)
  BY DEF ListInv, TypeOK, FrameType
<1>2. \A t \in Stream : Calls(frames, t) \in Nat
  <2>1. Frame("call", List, FALSE) \in FrameType
    BY DEF Frame, FrameType
  <2> QED
    BY <1>1, <2>1, CallsPush
<1>3. \A t \in Stream :
        /\ refs[t] = One(t \in held) + One(t \in autofree) + One(In(t, sure)) + Calls(frames, t)
        /\ refs[t] \in Nat
  BY DEF ListInv, RefsAccounted, TypeOK
<1>4. \A t \in Stream : /\ One(t \in held) \in {0, 1} /\ One(t \in autofree) \in {0, 1}
                       /\ One(In(t, sure)) \in {0, 1}
  BY DEF One
<1> QED
  BY <1>1, <1>2, <1>3, <1>4

(* User code, as far as sure_thing and the runonce() calls stay as they    *)
(* are.                                                                    *)
LEMMA UserKeeps ==
  ASSUME ListInv, NEW s \in Stream,
         \/ create(s) \/ append(s, TRUE) \/ append(s, FALSE) \/ addRef(s) \/ release(s)
         \/ close(s) \/ read(s) \/ arrive(s)
  PROVE  ListInv'
<1>1. UNCHANGED <<sure, frames>>
  BY DEF create, append, addRef, release, close, read, arrive
<1>2. /\ TypeOK /\ Once(list) /\ Once(sure) /\ FramesInStep /\ UnlinkedNotCalled
      /\ \A t \in Stream :
              /\ refs[t] = One(t \in held) + One(t \in autofree) + One(In(t, sure)) + Calls(frames, t)
              /\ refs[t] \in Nat /\ Calls(frames, t) \in Nat
              /\ One(t \in held) \in {0, 1} /\ One(t \in autofree) \in {0, 1}
              /\ One(In(t, sure)) \in {0, 1}
  BY Accounts DEF ListInv
<1>3. Once(sure)' /\ FramesInStep'
  BY <1>1, <1>2 DEF Once, FramesInStep, This
<1>4. SUFFICES TypeOK' /\ Once(list)' /\ RefsAccounted' /\ UnlinkedNotCalled'
  BY <1>3 DEF ListInv
<1>5. ASSUME UNCHANGED list
      PROVE  Once(list)'
  BY <1>2, <1>5 DEF Once
<1>6. ASSUME UNCHANGED list, ok' \subseteq ok
      PROVE  UnlinkedNotCalled'
  BY <1>1, <1>2, <1>6 DEF UnlinkedNotCalled, In
<1>7. ASSUME UNCHANGED <<refs, held, autofree>>
      PROVE  RefsAccounted'
  BY <1>1, <1>2, <1>7 DEF RefsAccounted
<1>8. CASE create(s)
  <2>1. /\ refs[s] = 0 /\ refs' = [refs EXCEPT ![s] = 1] /\ held' = held \union {s}
        /\ ok' = ok \union {s} /\ UNCHANGED <<list, autofree, ready>>
    BY <1>8 DEF create
  <2>2. s \notin held /\ s \notin autofree /\ ~In(s, sure) /\ Calls(frames, s) = 0
    BY <1>2, <2>1 DEF One
  <2>3. TypeOK'
    BY <1>1, <1>2, <2>1 DEF TypeOK, In
  <2>4. RefsAccounted'
    <3> SUFFICES ASSUME NEW t \in Stream
                 PROVE  refs'[t] = One(t \in held') + One(t \in autofree) + One(In(t, sure))
                                     + Calls(frames, t)
      BY <1>1, <2>1 DEF RefsAccounted
    <3>1. CASE t = s
      BY <1>2, <2>1, <2>2, <3>1 DEF One, TypeOK
    <3>2. CASE t # s
      BY <1>2, <2>1, <3>2 DEF One, TypeOK
    <3> QED
      BY <3>1, <3>2
  <2>5. UnlinkedNotCalled'
    BY <1>1, <1>2, <2>1, <2>2 DEF UnlinkedNotCalled, In
  <2> QED
    BY <1>5, <2>1, <2>3, <2>4, <2>5
<1>9. ASSUME NEW free \in BOOLEAN, append(s, free)
      PROVE  TypeOK' /\ Once(list)' /\ RefsAccounted' /\ UnlinkedNotCalled'
  <2>1. /\ s \in held /\ ~In(s, list) /\ list' = Append(list, s)
        /\ autofree' = IF free THEN autofree \union {s} ELSE autofree
        /\ held' = IF free THEN held \ {s} ELSE held
        /\ UNCHANGED <<refs, ok, ready>>
    BY <1>9 DEF append
  <2>2. s \notin autofree
    BY <1>2, <2>1 DEF TypeOK
  <2>3. list' \in Seq(Stream) /\ (\A x : In(x, list') <=> In(x, list) \/ x = s) /\ Once(list')
    BY <1>2, <2>1, EndFacts DEF TypeOK
  <2>4. TypeOK'
    BY <1>1, <1>2, <2>1, <2>3 DEF TypeOK
  <2>5. RefsAccounted'
    <3> SUFFICES ASSUME NEW t \in Stream
                 PROVE  refs[t] = One(t \in held') + One(t \in autofree') + One(In(t, sure))
                                    + Calls(frames, t)
      BY <1>1, <2>1 DEF RefsAccounted
    <3>1. CASE t = s
      BY <1>2, <2>1, <2>2, <3>1 DEF One
    <3>2. CASE t # s
      BY <1>2, <2>1, <3>2 DEF One
    <3> QED
      BY <3>1, <3>2
  <2>6. UnlinkedNotCalled'
    BY <1>1, <1>2, <2>1, <2>3 DEF UnlinkedNotCalled
  <2>7. Once(list)'
    BY <2>3 DEF Once
  <2> QED
    BY <2>4, <2>5, <2>6, <2>7
<1>10. CASE addRef(s)
  <2>1. /\ s \notin held /\ refs' = [refs EXCEPT ![s] = @ + 1] /\ held' = held \union {s}
        /\ UNCHANGED <<list, autofree, ok, ready>>
    BY <1>10 DEF addRef
  <2>2. TypeOK'
    BY <1>1, <1>2, <2>1 DEF TypeOK, In
  <2>3. RefsAccounted'
    <3> SUFFICES ASSUME NEW t \in Stream
                 PROVE  refs'[t] = One(t \in held') + One(t \in autofree) + One(In(t, sure))
                                     + Calls(frames, t)
      BY <1>1, <2>1 DEF RefsAccounted
    <3>1. CASE t = s
      BY <1>2, <2>1, <3>1 DEF One, TypeOK
    <3>2. CASE t # s
      BY <1>2, <2>1, <3>2 DEF One, TypeOK
    <3> QED
      BY <3>1, <3>2
  <2> QED
    BY <1>5, <1>6, <2>1, <2>2, <2>3
<1>11. CASE release(s)
  <2>1. /\ s \in held /\ held' = held \ {s} /\ UNCHANGED <<list, autofree>>
        /\ refs' = [t \in Stream |-> refs[t] - One(t = s)]
        /\ ok' \subseteq ok /\ ready' \subseteq ready
    BY <1>11 DEF release, Release, Less
  <2>2. ASSUME NEW t \in Stream
        PROVE  /\ refs'[t] \in Nat
               /\ refs'[t] = One(t \in held') + One(t \in autofree) + One(In(t, sure))
                               + Calls(frames, t)
    <3>1. CASE t = s
      BY <1>2, <2>1, <3>1 DEF One
    <3>2. CASE t # s
      BY <1>2, <2>1, <3>2 DEF One
    <3> QED
      BY <3>1, <3>2
  <2>3. TypeOK'
    BY <1>1, <1>2, <2>1, <2>2, ZenonT(30) DEF TypeOK, In
  <2>4. RefsAccounted'
    BY <1>1, <2>1, <2>2 DEF RefsAccounted
  <2> QED
    BY <1>5, <1>6, <2>1, <2>3, <2>4
<1>12. CASE close(s) \/ read(s) \/ arrive(s)
  <2>1. /\ UNCHANGED <<list, refs, held, autofree>>
        /\ ok' \subseteq ok /\ ready' \subseteq ready \union {s}
    BY <1>12 DEF close, read, arrive
  <2>2. TypeOK'
    BY <1>1, <1>2, <2>1 DEF TypeOK, In
  <2> QED
    BY <1>5, <1>6, <1>7, <2>1, <2>2
<1> QED
  BY <1>8, <1>9, <1>10, <1>11, <1>12

(* unlink() takes a stream off both lists, with its references.            *)
LEMMA UnlinkKeeps ==
  ASSUME ListInv, NEW s \in Stream, unlink(s)
  PROVE  ListInv'
<1>1. /\ sure' = Without(sure, s) /\ list' = Without(list, s) /\ autofree' = autofree \ {s}
      /\ UNCHANGED <<held, frames>> /\ ok' \subseteq ok /\ ready' \subseteq ready
      /\ refs' = [t \in Stream |->
                    refs[t] - (IF t = s THEN One(In(s, sure)) + One(s \in autofree) ELSE 0)]
  BY DEF unlink, Release, Less
<1>2. /\ TypeOK /\ Once(list) /\ Once(sure) /\ FramesInStep /\ UnlinkedNotCalled
      /\ \A t \in Stream :
              /\ refs[t] = One(t \in held) + One(t \in autofree) + One(In(t, sure)) + Calls(frames, t)
              /\ refs[t] \in Nat /\ Calls(frames, t) \in Nat
              /\ One(t \in held) \in {0, 1} /\ One(t \in autofree) \in {0, 1}
              /\ One(In(t, sure)) \in {0, 1}
  BY Accounts DEF ListInv
<1>3. list \in Seq(Stream) /\ sure \in Seq(Stream)
  BY <1>2 DEF TypeOK
<1>4. /\ list' \in Seq(Stream) /\ Once(list') /\ \A x : In(x, list') <=> In(x, list) /\ x # s
  BY <1>1, <1>2, <1>3, WithoutFacts
<1>5. /\ sure' \in Seq(Stream) /\ Once(sure') /\ \A x : In(x, sure') <=> In(x, sure) /\ x # s
  BY <1>1, <1>2, <1>3, WithoutFacts
<1>6. ASSUME NEW t \in Stream
      PROVE  /\ refs'[t] \in Nat
             /\ refs'[t] = One(t \in held) + One(t \in autofree') + One(In(t, sure'))
                             + Calls(frames, t)
  <2>1. CASE t = s
    <3>1. t \notin autofree' /\ ~In(t, sure')
      BY <1>1, <1>5, <2>1
    <3>2. One(t \in autofree') = 0 /\ One(In(t, sure')) = 0
      BY <3>1 DEF One
    <3>3. refs'[t] = refs[t] - (One(In(t, sure)) + One(t \in autofree))
      BY <1>1, <2>1
    <3> QED
      BY <1>2, <3>2, <3>3
  <2>2. CASE t # s
    <3>1. (t \in autofree' <=> t \in autofree) /\ (In(t, sure') <=> In(t, sure))
      BY <1>1, <1>5, <2>2
    <3>2. One(t \in autofree') = One(t \in autofree) /\ One(In(t, sure')) = One(In(t, sure))
      BY <3>1 DEF One
    <3>3. refs'[t] = refs[t]
      BY <1>1, <1>2, <2>2
    <3> QED
      BY <1>2, <3>2, <3>3
  <2> QED
    BY <2>1, <2>2
<1>7. TypeOK'
  BY <1>1, <1>2, <1>4, <1>5, <1>6 DEF TypeOK
<1>8. RefsAccounted'
  BY <1>1, <1>6 DEF RefsAccounted
<1>9. FramesInStep'
  <2>1. sure = <<>> => sure' = <<>>
    <3>1. ASSUME sure = <<>>, sure' # <<>>
          PROVE  FALSE
      <4>1. 1 \in DOMAIN sure' /\ DOMAIN sure = {}
        BY <1>5, <3>1
      <4> QED
        BY <1>5, <4>1 DEF In
    <3> QED
      BY <3>1
  <2> QED
    BY <1>1, <1>2, <2>1 DEF FramesInStep, This
<1>10. UnlinkedNotCalled'
  <2> SUFFICES ASSUME NEW i \in DOMAIN sure'
               PROVE  In(sure'[i], list') \/ sure'[i] \notin ok'
    BY DEF UnlinkedNotCalled
  <2>1. In(sure'[i], sure')
    BY DEF In
  <2>2. In(sure'[i], sure) /\ sure'[i] # s
    BY <1>5, <2>1
  <2>3. PICK j \in DOMAIN sure : sure[j] = sure'[i]
    BY <2>2 DEF In
  <2> QED
    BY <1>1, <1>2, <1>4, <2>2, <2>3 DEF UnlinkedNotCalled
<1> QED
  BY <1>4, <1>5, <1>7, <1>8, <1>9, <1>10 DEF ListInv, Once

(* What a stream of the list's own says of the runonce() calls.            *)
LEMMA FrameFacts ==
  ASSUME ListInv, frames # <<>>,
         NEW f \in FrameType, f.at # "call" => f.s = List
  PROVE  /\ This = frames[Len(frames)] /\ This \in FrameType
         /\ Outer \in Seq(FrameType) /\ Len(Outer) = Len(frames) - 1
         /\ \A i \in DOMAIN Outer : Outer[i] = frames[i] /\ Outer[i].at = "call"
         /\ Append(Outer, f) \in Seq(FrameType) /\ Len(Append(Outer, f)) = Len(frames)
         /\ Append(Outer, f)[Len(frames)] = f /\ Append(Outer, f) # <<>>
         /\ \A i \in DOMAIN Append(Outer, f) :
              Append(Outer, f)[i].at # "call" => Append(Outer, f)[i].s = List /\ i = Len(frames)
         /\ \A t \in Stream :
              /\ Calls(frames, t) = Calls(Outer, t) + One(This.s = t)
              /\ Calls(Append(Outer, f), t) = Calls(Outer, t) + One(f.s = t)
              /\ Calls(Outer, t) \in Nat
<1>1. frames \in Seq(FrameType) /\ FramesInStep
  BY Accounts DEF ListInv
<1>2. This = frames[Len(frames)]
  BY DEF This
<1>3. /\ Outer \in Seq(FrameType) /\ Len(Outer) = Len(frames) - 1
      /\ \A i \in 1 .. Len(frames) - 1 : Outer[i] = frames[i]
      /\ frames[Len(frames)] \in FrameType
      /\ \A t : Calls(frames, t) = Calls(Outer, t) + One(frames[Len(frames)].s = t)
  BY <1>1, CallsPop DEF Outer
<1>4. Len(frames) \in Nat /\ Len(frames) > 0 /\ DOMAIN frames = 1 .. Len(frames)
  BY <1>1
<1>5. DOMAIN Outer = 1 .. Len(frames) - 1
  BY <1>3, <1>4
<1>6. \A i \in DOMAIN Outer : Outer[i] = frames[i] /\ Outer[i].at = "call"
  BY <1>1, <1>3, <1>4, <1>5 DEF FramesInStep
<1> DEFINE gs == Append(Outer, f)
<1>7. /\ gs \in Seq(FrameType) /\ Len(gs) = Len(frames) /\ gs[Len(frames)] = f
      /\ \A i \in 1 .. Len(frames) - 1 : gs[i] = Outer[i]
  BY <1>3, <1>4
<1>8. \A t : Calls(gs, t) = Calls(Outer, t) + One(f.s = t) /\ Calls(Outer, t) \in Nat
  BY <1>3, CallsPush
<1> HIDE DEF gs
<1>9. DOMAIN gs = 1 .. Len(frames) /\ gs # <<>>
  BY <1>4, <1>7
<1>10. \A i \in DOMAIN gs : gs[i].at # "call" => gs[i].s = List /\ i = Len(frames)
  <2> SUFFICES ASSUME NEW i \in 1 .. Len(frames), gs[i].at # "call"
               PROVE  gs[i].s = List /\ i = Len(frames)
    BY <1>9
  <2>1. i = Len(frames) \/ i \in 1 .. Len(frames) - 1
    <3>1. Len(frames) \in Nat
      BY <1>4
    <3> QED
      BY <3>1
  <2> QED
    BY <1>5, <1>6, <1>7, <2>1
<1> QED
  BY <1>2, <1>3, <1>6, <1>7, <1>8, <1>9, <1>10 DEF gs

(* runonce() begins: what is left in sure_thing is released.               *)
LEMMA RunonceKeeps ==
  ASSUME ListInv, runonce
  PROVE  ListInv'
<1> DEFINE f == Frame("select", List, sure_already)
<1>1. /\ This.at = "call" /\ Len(frames) < MaxNest /\ sure' = <<>>
      /\ refs' = [t \in Stream |-> refs[t] - One(In(t, sure))]
      /\ ok' \subseteq ok /\ ready' \subseteq ready
      /\ frames' = Append(frames, f) /\ UNCHANGED <<list, autofree, held>>
  BY DEF runonce, Callback, Release, Less
<1>2. /\ TypeOK /\ Once(list) /\ FramesInStep
      /\ \A t \in Stream :
              /\ refs[t] = One(t \in held) + One(t \in autofree) + One(In(t, sure)) + Calls(frames, t)
              /\ refs[t] \in Nat /\ Calls(frames, t) \in Nat
              /\ One(t \in held) \in {0, 1} /\ One(t \in autofree) \in {0, 1}
              /\ One(In(t, sure)) \in {0, 1}
      /\ frames \in Seq(FrameType)
  BY Accounts DEF ListInv
<1>3. f \in FrameType /\ f.at = "select" /\ f.s = List
  BY DEF Frame, FrameType, sure_already
<1> HIDE DEF f
<1>4. \A t \in Stream : Calls(frames', t) = Calls(frames, t)
  <2> SUFFICES ASSUME NEW t \in Stream PROVE Calls(frames', t) = Calls(frames, t)
    OBVIOUS
  <2>1. Calls(frames', t) = Calls(frames, t) + One(f.s = t)
    BY <1>1, <1>2, <1>3, CallsPush
  <2>2. One(f.s = t) = 0
    BY <1>3, ListAssumption DEF One
  <2> QED
    BY <1>2, <2>1, <2>2
<1>5. /\ frames' \in Seq(FrameType) /\ Len(frames') = Len(frames) + 1 /\ Len(frames) \in Nat
      /\ frames'[Len(frames')] = f /\ frames' # <<>> /\ DOMAIN frames = 1 .. Len(frames)
      /\ \A i \in 1 .. Len(frames) : frames'[i] = frames[i]
      /\ DOMAIN frames' = 1 .. Len(frames) + 1
  <2>1. /\ Append(frames, f) \in Seq(FrameType) /\ Len(Append(frames, f)) = Len(frames) + 1
        /\ Len(frames) \in Nat /\ DOMAIN frames = 1 .. Len(frames)
        /\ Append(frames, f)[Len(frames) + 1] = f
        /\ \A i \in 1 .. Len(frames) : Append(frames, f)[i] = frames[i]
        /\ DOMAIN Append(frames, f) = 1 .. Len(frames) + 1
    BY <1>2, <1>3
  <2>2. Append(frames, f) # <<>>
    BY <2>1
  <2> QED
    BY <1>1, <2>1, <2>2
<1>6. FramesInStep'
  <2> SUFFICES ASSUME NEW i \in DOMAIN frames', frames'[i].at # "call"
               PROVE  frames'[i].s = List /\ i = Len(frames')
    BY <1>1 DEF FramesInStep
  <2>1. CASE i = Len(frames) + 1
    BY <1>3, <1>5, <2>1
  <2>2. CASE i # Len(frames) + 1
    <3>1. i \in 1 .. Len(frames) /\ frames[i].at # "call" /\ frames # <<>>
      BY <1>5, <2>2
    <3>2. i = Len(frames)
      BY <1>2, <1>5, <3>1 DEF FramesInStep
    <3> QED
      BY <1>1, <3>1, <3>2 DEF This
  <2> QED
    BY <2>1, <2>2
<1>7. ASSUME NEW t \in Stream
      PROVE  /\ refs'[t] \in Nat
             /\ refs'[t] = One(t \in held) + One(t \in autofree) + One(In(t, sure'))
                             + Calls(frames', t)
  <2>1. One(In(t, sure')) = 0
    BY <1>1 DEF In, One
  <2>2. refs'[t] = refs[t] - One(In(t, sure))
    BY <1>1
  <2> QED
    BY <1>2, <1>4, <2>1, <2>2
<1>8. TypeOK'
  <2>1. sure' \in Seq(Stream) /\ Len(frames') <= MaxNest /\ refs' \in [Stream -> Nat]
    BY <1>1, <1>5, <1>7, ListAssumption
  <2> QED
    BY <1>1, <1>2, <1>5, <2>1 DEF TypeOK, FrameType
<1>9. RefsAccounted'
  BY <1>1, <1>7 DEF RefsAccounted
<1>10. Once(sure') /\ Once(list') /\ UnlinkedNotCalled'
  BY <1>1, <1>2 DEF Once, UnlinkedNotCalled
<1> QED
  BY <1>6, <1>8, <1>9, <1>10 DEF ListInv, Once

(* select() returns to execute().                                          *)
LEMMA SelectKeeps ==
  ASSUME ListInv, select
  PROVE  ListInv'
<1> DEFINE f == Frame("next", List, FALSE)
           hit == Sublist(list, Where(list, ready))
<1>1. /\ This.at = "select" /\ sure' = hit /\ list' = Sublist(list, Where(list, ok))
      /\ autofree' = autofree \ Bad
      /\ refs' = [s \in Stream |-> refs[s] + One(In(s, hit)) - One(s \in Bad \intersect autofree)]
      /\ ok' \subseteq ok /\ ready' \subseteq ready
      /\ frames' = Append(Outer, f) /\ UNCHANGED held
  BY DEF select, post_select, Sorted, Goto
<1>2. /\ TypeOK /\ Once(list) /\ FramesInStep
      /\ \A t \in Stream :
              /\ refs[t] = One(t \in held) + One(t \in autofree) + One(In(t, sure)) + Calls(frames, t)
              /\ refs[t] \in Nat /\ Calls(frames, t) \in Nat
              /\ One(t \in held) \in {0, 1} /\ One(t \in autofree) \in {0, 1}
              /\ One(In(t, sure)) \in {0, 1}
      /\ frames \in Seq(FrameType)
  BY Accounts DEF ListInv
<1>3. f \in FrameType /\ f.at = "next" /\ f.s = List
  BY DEF Frame, FrameType
<1> HIDE DEF f, hit
<1>4. frames # <<>> /\ sure = <<>>
  BY <1>1, <1>2 DEF This, Frame, FramesInStep
<1>5. This.s = List
  BY <1>1, <1>2, <1>4 DEF FramesInStep, This
<1>6. /\ frames' \in Seq(FrameType) /\ Len(frames') = Len(frames)
      /\ frames'[Len(frames)] = f /\ frames' # <<>>
      /\ \A i \in DOMAIN frames' : frames'[i].at # "call" => frames'[i].s = List /\ i = Len(frames)
      /\ \A t \in Stream : /\ Calls(frames, t) = Calls(Outer, t) + One(This.s = t)
                           /\ Calls(frames', t) = Calls(Outer, t) + One(f.s = t)
                           /\ Calls(Outer, t) \in Nat
  BY <1>1, <1>3, <1>4, FrameFacts
<1>7. FramesInStep'
  BY <1>3, <1>6 DEF FramesInStep, This
<1>8. \A t \in Stream : Calls(frames', t) = Calls(frames, t)
  BY <1>3, <1>5, <1>6
<1>9. list \in Seq(Stream)
  BY <1>2 DEF TypeOK
<1>10. /\ hit \in Seq(Stream) /\ Once(hit) /\ \A x : In(x, hit) <=> In(x, list) /\ x \in ready
  BY <1>2, <1>9, WhereFacts DEF hit
<1>11. /\ list' \in Seq(Stream) /\ Once(list') /\ \A x : In(x, list') <=> In(x, list) /\ x \in ok
  BY <1>1, <1>2, <1>9, WhereFacts
<1>12. ASSUME NEW t \in Stream
       PROVE  /\ refs'[t] \in Nat
              /\ refs'[t] = One(t \in held) + One(t \in autofree') + One(In(t, sure'))
                              + Calls(frames', t)
  <2>1. One(In(t, sure)) = 0
    BY <1>4 DEF In, One
  <2>2. refs'[t] = refs[t] + One(In(t, sure')) - One(t \in Bad \intersect autofree)
    BY <1>1
  <2>3. One(t \in autofree') = One(t \in autofree) - One(t \in Bad \intersect autofree)
    BY <1>1 DEF One
  <2>4. One(In(t, sure')) \in {0, 1} /\ One(t \in autofree') \in {0, 1}
        /\ One(t \in Bad \intersect autofree) \in {0, 1}
    BY DEF One
  <2> QED
    BY <1>2, <1>8, <2>1, <2>2, <2>3, <2>4
<1>13. TypeOK'
  <2>1. autofree' \subseteq {s \in Stream : In(s, list')}
    BY <1>1, <1>2, <1>11 DEF TypeOK, Bad
  <2>2. refs' \in [Stream -> Nat]
    BY <1>1, <1>12
  <2> QED
    BY <1>1, <1>2, <1>6, <1>10, <1>11, <2>1, <2>2 DEF TypeOK, FrameType
<1>14. RefsAccounted'
  BY <1>1, <1>12 DEF RefsAccounted
<1>15. UnlinkedNotCalled'
  <2> SUFFICES ASSUME NEW i \in DOMAIN sure'
               PROVE  In(sure'[i], list') \/ sure'[i] \notin ok'
    BY DEF UnlinkedNotCalled
  <2>1. In(sure'[i], hit)
    BY <1>1 DEF In
  <2> QED
    BY <1>1, <1>10, <1>11, <2>1
<1> QED
  BY <1>1, <1>7, <1>10, <1>11, <1>13, <1>14, <1>15 DEF ListInv, Once

(* runonce() returns, having waited in vain or called everybody.           *)
LEMMA ReturnKeeps ==
  ASSUME ListInv, timeout \/ ends
  PROVE  ListInv'
<1> DEFINE f == Frame("call", List, FALSE)
<1>1. /\ This.at # "call" \/ (frames # <<>> /\ This.s = List)
      /\ frames' = Outer
      /\ UNCHANGED <<list, autofree, sure, refs, held, ok, ready>>
  BY DEF timeout, ends
<1>2. TypeOK /\ Once(list) /\ Once(sure) /\ FramesInStep /\ RefsAccounted /\ UnlinkedNotCalled
  BY DEF ListInv
<1>3. f \in FrameType /\ f.at = "call"
  BY DEF Frame, FrameType
<1>4. frames # <<>>
  BY <1>1 DEF This, Frame
<1>5. This.s = List
  BY <1>1, <1>2, <1>4 DEF FramesInStep, This
<1> HIDE DEF f
<1>6. /\ Outer \in Seq(FrameType) /\ Len(Outer) = Len(frames) - 1
      /\ \A i \in DOMAIN Outer : Outer[i].at = "call"
      /\ \A t \in Stream : /\ Calls(frames, t) = Calls(Outer, t) + One(This.s = t)
                           /\ Calls(Outer, t) \in Nat
  BY <1>3, <1>4, FrameFacts
<1>7. \A t \in Stream : Calls(frames', t) = Calls(frames, t)
  <2>1. \A t \in Stream : One(This.s = t) = 0
    BY <1>5, ListAssumption DEF One
  <2> QED
    BY <1>1, <1>6, <2>1
<1>8. FramesInStep'
  <2>1. ASSUME Outer # <<>>
        PROVE  Outer[Len(Outer)].at = "call"
    <3>1. Len(Outer) \in DOMAIN Outer
      BY <1>6, <2>1
    <3> QED
      BY <1>6, <3>1
  <2>2. This'.at = "call"
    BY <1>1, <2>1 DEF This, Frame
  <2> QED
    BY <1>1, <1>6, <2>2 DEF FramesInStep
<1>9. TypeOK'
  <2>1. Len(frames') <= MaxNest
    <3>1. Len(frames) <= MaxNest /\ Len(frames) \in Nat
      BY <1>2 DEF TypeOK
    <3> QED
      BY <1>1, <1>6, <3>1, ListAssumption
  <2> QED
    BY <1>1, <1>2, <1>6, <2>1 DEF TypeOK, FrameType, In
<1>10. RefsAccounted'
  BY <1>1, <1>2, <1>7 DEF RefsAccounted
<1>11. Once(list)' /\ Once(sure)' /\ UnlinkedNotCalled'
  BY <1>1, <1>2 DEF Once, UnlinkedNotCalled, In
<1> QED
  BY <1>8, <1>9, <1>10, <1>11 DEF ListInv

(* A callback returns, and the stream that was called is released; or all  *)
(* have been called, and the list's own callback is next.                  *)
LEMMA CallbackReturns ==
  ASSUME ListInv, returns \/ done
  PROVE  ListInv'
<1>1. /\ TypeOK /\ Once(list) /\ Once(sure) /\ FramesInStep /\ UnlinkedNotCalled
      /\ \A t \in Stream :
              /\ refs[t] = One(t \in held) + One(t \in autofree) + One(In(t, sure)) + Calls(frames, t)
              /\ refs[t] \in Nat /\ Calls(frames, t) \in Nat
              /\ One(t \in held) \in {0, 1} /\ One(t \in autofree) \in {0, 1}
              /\ One(In(t, sure)) \in {0, 1}
  BY Accounts DEF ListInv
<1>2. PICK f \in {Frame("next", List, FALSE), Frame("call", List, FALSE)} :
      /\ frames # <<>> /\ frames' = Append(Outer, f)
      /\ ok' \subseteq ok /\ ready' \subseteq ready
      /\ IF This.s = List THEN UNCHANGED refs
         ELSE refs' = [t \in Stream |-> refs[t] - One(t = This.s)]
      /\ UNCHANGED <<list, autofree, sure, held>>
  <2>1. CASE returns
    BY <2>1 DEF returns, Goto, Release, Less, This, Frame
  <2>2. CASE done
    <3>1. frames # <<>> /\ This.at = "next"
      BY <2>2 DEF done, This, Frame
    <3>2. This.s = List
      BY <1>1, <3>1 DEF FramesInStep, This
    <3> QED
      BY <2>2, <3>1, <3>2 DEF done, Goto
  <2> QED
    BY <2>1, <2>2
<1>3. f \in FrameType /\ f.at \in {"next", "call"} /\ f.s = List
  <2>1. CASE f = Frame("next", List, FALSE)
    BY <2>1 DEF Frame, FrameType
  <2>2. CASE f = Frame("call", List, FALSE)
    BY <2>2 DEF Frame, FrameType
  <2> QED
    BY <1>2, <2>1, <2>2
<1>4. /\ frames' \in Seq(FrameType) /\ Len(frames') = Len(frames)
      /\ frames'[Len(frames)] = f /\ frames' # <<>>
      /\ \A i \in DOMAIN frames' : frames'[i].at # "call" => frames'[i].s = List /\ i = Len(frames)
      /\ \A t \in Stream : /\ Calls(frames, t) = Calls(Outer, t) + One(This.s = t)
                           /\ Calls(frames', t) = Calls(Outer, t) + One(f.s = t)
                           /\ Calls(Outer, t) \in Nat
  BY <1>2, <1>3, FrameFacts
<1>5. FramesInStep'
  BY <1>3, <1>4 DEF FramesInStep, This
<1>6. ASSUME NEW t \in Stream
      PROVE  /\ refs'[t] = refs[t] - One(This.s = t)
             /\ Calls(frames', t) = Calls(frames, t) - One(This.s = t)
             /\ One(This.s = t) \in {0, 1}
  <2>1. One(f.s = t) = 0
    BY <1>3, ListAssumption DEF One
  <2>2. CASE This.s = t
    BY <1>1, <1>2, <1>4, <2>1, <2>2, ListAssumption DEF One
  <2>3. CASE This.s # t
    BY <1>1, <1>2, <1>4, <2>1, <2>3 DEF One
  <2> QED
    BY <2>2, <2>3
<1>7. ASSUME NEW t \in Stream
      PROVE  /\ refs'[t] \in Nat
             /\ refs'[t] = One(t \in held) + One(t \in autofree) + One(In(t, sure))
                             + Calls(frames', t)
  <2>1. Calls(frames', t) \in Nat
    <3>1. One(f.s = t) \in Nat
      BY DEF One
    <3> QED
      BY <1>4, <3>1
  <2> QED
    BY <1>1, <1>6, <2>1
<1>8. TypeOK'
  <2>1. refs' \in [Stream -> Nat]
    <3>1. refs' = [t \in Stream |-> refs'[t]]
      BY <1>1, <1>2 DEF TypeOK
    <3> QED
      BY <1>7, <3>1
  <2> QED
    BY <1>1, <1>2, <1>4, <2>1 DEF TypeOK, FrameType, In
<1>9. RefsAccounted'
  BY <1>2, <1>7 DEF RefsAccounted
<1>10. Once(list)' /\ Once(sure)' /\ UnlinkedNotCalled'
  BY <1>1, <1>2 DEF Once, UnlinkedNotCalled, In
<1> QED
  BY <1>5, <1>8, <1>9, <1>10 DEF ListInv

(* execute() takes the next sure thing: its reference is kept for the call.*)
LEMMA NextKeeps ==
  ASSUME ListInv, next
  PROVE  ListInv'
<1> DEFINE f == Frame("call", Head(sure), FALSE)
<1>1. /\ This.at = "next" /\ sure # <<>> /\ sure' = Tail(sure) /\ frames' = Append(Outer, f)
      /\ UNCHANGED <<list, autofree, held, refs, ok, ready>>
  BY DEF next, callback, Goto
<1>2. /\ TypeOK /\ Once(list) /\ Once(sure) /\ FramesInStep /\ UnlinkedNotCalled
      /\ \A t \in Stream :
              /\ refs[t] = One(t \in held) + One(t \in autofree) + One(In(t, sure)) + Calls(frames, t)
              /\ refs[t] \in Nat /\ Calls(frames, t) \in Nat
              /\ One(t \in held) \in {0, 1} /\ One(t \in autofree) \in {0, 1}
              /\ One(In(t, sure)) \in {0, 1}
  BY Accounts DEF ListInv
<1>3. /\ Head(sure) \in Stream /\ sure' \in Seq(Stream) /\ Once(sure')
      /\ \A x : In(x, sure') <=> In(x, sure) /\ x # Head(sure)
      /\ In(Head(sure), sure)
  BY <1>1, <1>2, TailFacts DEF TypeOK
<1>4. f \in FrameType /\ f.at = "call" /\ f.s = Head(sure)
  BY <1>3 DEF Frame, FrameType
<1>5. frames # <<>>
  BY <1>1 DEF This, Frame
<1>6. This.s = List
  BY <1>1, <1>2, <1>5 DEF FramesInStep, This
<1> HIDE DEF f
<1>7. /\ frames' \in Seq(FrameType) /\ Len(frames') = Len(frames)
      /\ frames'[Len(frames)] = f /\ frames' # <<>>
      /\ \A i \in DOMAIN frames' : frames'[i].at # "call" => frames'[i].s = List /\ i = Len(frames)
      /\ \A t \in Stream : /\ Calls(frames, t) = Calls(Outer, t) + One(This.s = t)
                           /\ Calls(frames', t) = Calls(Outer, t) + One(f.s = t)
                           /\ Calls(Outer, t) \in Nat
  BY <1>1, <1>4, <1>5, FrameFacts
<1>8. FramesInStep'
  BY <1>4, <1>7 DEF FramesInStep, This
<1>9. ASSUME NEW t \in Stream
      PROVE  refs[t] = One(t \in held) + One(t \in autofree) + One(In(t, sure')) + Calls(frames', t)
  <2>1. One(This.s = t) = 0
    BY <1>6, ListAssumption DEF One
  <2>2. One(In(t, sure')) + One(f.s = t) = One(In(t, sure))
    BY <1>3, <1>4 DEF One
  <2>3. One(In(t, sure')) \in {0, 1} /\ One(f.s = t) \in {0, 1}
    BY DEF One
  <2> QED
    BY <1>2, <1>7, <2>1, <2>2, <2>3
<1>10. TypeOK'
  <2>1. autofree' \subseteq {t \in Stream : In(t, list')}
    BY <1>1, <1>2 DEF TypeOK, In
  <2>2. frames' \in Seq([at : {"call", "select", "next"}, s : Stream \union {List}, now : BOOLEAN])
        /\ Len(frames') <= MaxNest
    BY <1>1, <1>2, <1>7 DEF TypeOK, FrameType
  <2> QED
    BY <1>1, <1>2, <1>3, <2>1, <2>2 DEF TypeOK
<1>11. RefsAccounted'
  BY <1>1, <1>9 DEF RefsAccounted
<1>12. UnlinkedNotCalled'
  <2> SUFFICES ASSUME NEW i \in DOMAIN sure'
               PROVE  In(sure'[i], list) \/ sure'[i] \notin ok
    BY <1>1 DEF UnlinkedNotCalled, In
  <2>1. In(sure'[i], sure')
    BY DEF In
  <2>2. PICK j \in DOMAIN sure : sure[j] = sure'[i]
    BY <1>3, <2>1 DEF In
  <2> QED
    BY <1>2, <2>2 DEF UnlinkedNotCalled
<1> QED
  BY <1>1, <1>2, <1>3, <1>8, <1>10, <1>11, <1>12 DEF ListInv, Once

----------------------------------------------------------------------------
(* Nothing is listed at the start.                                         *)
LEMMA InitList ==
  ASSUME Init
  PROVE  ListInv
<1>1. <<>> \in Seq(Stream) /\ <<>> \in Seq(FrameType) /\ Len(<<>>) = 0 /\ DOMAIN <<>> = {}
  OBVIOUS
<1>2. TypeOK
  BY <1>1, ListAssumption DEF Init, TypeOK, FrameType
<1>3. \A s \in Stream : Calls(frames, s) = 0
  <2> SUFFICES ASSUME NEW s \in Stream PROVE Calls(frames, s) = 0
    OBVIOUS
  <2>1. {i \in DOMAIN frames : frames[i].s = s} = {}
    BY <1>1 DEF Init
  <2> QED
    BY <2>1, FS_EmptySet DEF Calls
<1>4. RefsAccounted
  BY <1>1, <1>3 DEF Init, RefsAccounted, One, In
<1>5. Once(list) /\ Once(sure) /\ FramesInStep /\ UnlinkedNotCalled
  BY <1>1 DEF Init, Once, FramesInStep, This, Frame, UnlinkedNotCalled
<1> QED
  BY <1>2, <1>4, <1>5 DEF ListInv

(* The inductive invariant holds.                                          *)
THEOREM ListInvariance == Spec => []ListInv
<1>1. ASSUME ListInv, [Next]_listvars
      PROVE  ListInv'
  <2>1. ASSUME NEW s \in Stream, UserStep(s)
        PROVE  ListInv'
    <3>1. CASE unlink(s)
      BY <1>1, <3>1, UnlinkKeeps
    <3>2. CASE ~unlink(s)
      BY <1>1, <2>1, <3>2, UserKeeps DEF UserStep
    <3> QED
      BY <3>1, <3>2
  <2>2. CASE runonce
    BY <1>1, <2>2, RunonceKeeps
  <2>3. CASE select
    BY <1>1, <2>3, SelectKeeps
  <2>4. CASE timeout \/ ends
    BY <1>1, <2>4, ReturnKeeps
  <2>5. CASE returns \/ done
    BY <1>1, <2>5, CallbackReturns
  <2>6. CASE next
    BY <1>1, <2>6, NextKeeps
  <2>7. CASE UNCHANGED listvars
    <3>1. UNCHANGED <<list, autofree, sure, refs, held, ok, ready, frames>>
      BY <2>7 DEF listvars
    <3>2. TypeOK' /\ Once(list)' /\ Once(sure)' /\ UnlinkedNotCalled'
      BY <1>1, <3>1 DEF ListInv, TypeOK, Once, UnlinkedNotCalled, In
    <3>3. FramesInStep'
      BY <1>1, <3>1 DEF ListInv, FramesInStep, This
    <3>4. RefsAccounted'
      BY <1>1, <3>1 DEF ListInv, RefsAccounted
    <3> QED
      BY <3>2, <3>3, <3>4 DEF ListInv
  <2> QED
    BY <1>1, <2>1, <2>2, <2>3, <2>4, <2>5, <2>6, <2>7 DEF Next
<1> QED
  BY <1>1, InitList, PTL DEF Spec

(* Every reference to a stream is accounted for, so that the streams on    *)
(* the list, in sure_thing and in a callback exist, and one that was       *)
(* unlinked gets no callback any more.                                     *)
THEOREM ListIsAccounted == Spec => []ListAccounted
<1>1. ListInv => ListAccounted
  BY DEF ListInv, ListAccounted
<1> QED
  BY <1>1, ListInvariance, PTL

----------------------------------------------------------------------------
(* What go() makes of the queues when it has looked for processes that     *)
(* have ended: no entry is lost or changed but those that have finished.   *)
LEMMA ReapedFacts ==
  ASSUME QueueTypeOK
  PROVE  /\ Reaped.waitq \in Seq(Entry) /\ Reaped.runq \in Seq(Entry)
         /\ Len(Reaped.runq) <= Len(runq) /\ Len(Reaped.waitq) >= Len(waitq)
         /\ \A i \in DOMAIN waitq : Reaped.waitq[i] = waitq[i]
         /\ \A i \in DOMAIN Reaped.runq : \E j \in DOMAIN runq : Reaped.runq[i] = runq[j]
         /\ \A j \in DOMAIN runq \ Finished : \E i \in DOMAIN Reaped.runq : Reaped.runq[i] = runq[j]
         /\ \A j \in Finished : runq[j].redo =>
              \E i \in DOMAIN Reaped.waitq : /\ i > Len(waitq)
                                             /\ Reaped.waitq[i].cookie = runq[j].cookie
  <1> DEFINE I == {i \in Finished : runq[i].redo}
             J == DOMAIN runq \ Finished
             again == Sublist(runq, I)
             redone == [i \in DOMAIN again |-> Redone(again[i])]
  <1>1. waitq \in Seq(Entry) /\ runq \in Seq(Entry)
    BY DEF QueueTypeOK
  <1>2. I \in SUBSET DOMAIN runq /\ J \in SUBSET DOMAIN runq
    BY DEF Finished
  <1>3. /\ again \in Seq(Entry)
        /\ \A k \in DOMAIN again : Nth(I, k) \in I /\ again[k] = runq[Nth(I, k)]
        /\ \A i \in I : \E k \in DOMAIN again : Nth(I, k) = i
    <2> HIDE DEF I
    <2> QED
      BY <1>1, <1>2, SublistFacts
  <1>4. /\ Sublist(runq, J) \in Seq(Entry)
        /\ Len(Sublist(runq, J)) <= Len(runq)
        /\ \A k \in DOMAIN Sublist(runq, J) : Nth(J, k) \in J /\ Sublist(runq, J)[k] = runq[Nth(J, k)]
        /\ \A i \in J : \E k \in DOMAIN Sublist(runq, J) : Nth(J, k) = i
    <2> HIDE DEF J
    <2> QED
      BY <1>1, <1>2, SublistFacts
  <1>5. \A e \in Entry : Redone(e) \in Entry /\ Redone(e).cookie = e.cookie
    BY DEF Redone, Entry
  <1>6. /\ redone \in Seq(Entry) /\ Len(redone) = Len(again)
        /\ \A k \in DOMAIN again : redone[k] = Redone(again[k]) /\ again[k] \in Entry
    <2> HIDE DEF again
    <2> QED
      BY <1>3, <1>5
  <1>7. Reaped.waitq = waitq \o redone /\ Reaped.runq = Sublist(runq, J)
    BY DEF Reaped
  <1>8. /\ Reaped.waitq \in Seq(Entry) /\ Len(Reaped.waitq) = Len(waitq) + Len(redone)
        /\ \A i \in DOMAIN waitq : Reaped.waitq[i] = waitq[i]
        /\ \A k \in DOMAIN redone : /\ Len(waitq) + k \in DOMAIN Reaped.waitq
                                    /\ Reaped.waitq[Len(waitq) + k] = redone[k]
    <2> HIDE DEF redone
    <2>1. redone \in Seq(Entry)
      BY <1>6
    <2>2. /\ waitq \o redone \in Seq(Entry) /\ Len(waitq \o redone) = Len(waitq) + Len(redone)
          /\ \A i \in DOMAIN waitq : (waitq \o redone)[i] = waitq[i]
          /\ \A k \in DOMAIN redone : /\ Len(waitq) + k \in DOMAIN (waitq \o redone)
                                      /\ (waitq \o redone)[Len(waitq) + k] = redone[k]
      BY <1>1, <2>1, ConcatFacts
    <2> QED
      BY <1>7, <2>2
  <1>9. \A j \in Finished : runq[j].redo =>
          \E i \in DOMAIN Reaped.waitq : /\ i > Len(waitq)
                                         /\ Reaped.waitq[i].cookie = runq[j].cookie
    <2> SUFFICES ASSUME NEW j \in Finished, runq[j].redo
                 PROVE  \E i \in DOMAIN Reaped.waitq : /\ i > Len(waitq)
                                                       /\ Reaped.waitq[i].cookie = runq[j].cookie
      OBVIOUS
    <2>1. PICK k \in DOMAIN again : Nth(I, k) = j
      BY <1>3
    <2>2. k \in DOMAIN redone /\ redone[k].cookie = runq[j].cookie
      BY <1>3, <1>5, <1>6, <2>1
    <2>3. Len(waitq) + k > Len(waitq)
      <3>1. k \in Nat \ {0} /\ Len(waitq) \in Nat
        <4> HIDE DEF again
        <4> QED
          BY <1>1, <1>3
      <3> QED
        BY <3>1
    <2> QED
      BY <1>8, <2>2, <2>3
  <1> QED
    <2> HIDE DEF again, redone, I
    <2>1. Len(Reaped.waitq) >= Len(waitq)
      BY <1>1, <1>6, <1>8
    <2>2. \A i \in DOMAIN Reaped.runq : \E j \in DOMAIN runq : Reaped.runq[i] = runq[j]
      BY <1>4, <1>7
    <2>3. \A j \in J : \E i \in DOMAIN Reaped.runq : Reaped.runq[i] = runq[j]
      BY <1>4, <1>7
    <2> QED
      BY <1>4, <1>7, <1>8, <1>9, <2>1, <2>2, <2>3

(* What cookie c still has to wait for when go() has looked.               *)
Left(c) == due[c] \ {runq[i].id : i \in Finished}

(* Ended processes are not waited for any more; what has to be done again  *)
(* comes behind all the others.                                            *)
LEMMA ReapedPayable ==
  ASSUME QueueInv
  PROVE  /\ \A c \in Cookie : Left(c) \subseteq Ids(Reaped.waitq) \union Ids(Reaped.runq)
         /\ \A c \in owed : Payable(c, Reaped.waitq, Reaped.runq, Left(c))
  <1> DEFINE wait == Reaped.waitq
             run == Reaped.runq
  <1>1. QueueTypeOK
    BY DEF QueueInv
  <1>2. /\ wait \in Seq(Entry) /\ run \in Seq(Entry) /\ waitq \in Seq(Entry) /\ runq \in Seq(Entry)
        /\ Len(wait) >= Len(waitq)
        /\ \A i \in DOMAIN waitq : wait[i] = waitq[i]
        /\ \A j \in DOMAIN runq \ Finished : \E i \in DOMAIN run : run[i] = runq[j]
        /\ \A j \in Finished : runq[j].redo =>
             \E i \in DOMAIN wait : i > Len(waitq) /\ wait[i].cookie = runq[j].cookie
    BY <1>1, ReapedFacts DEF QueueTypeOK
  <1> HIDE DEF wait, run
  <1>3. DOMAIN waitq \subseteq DOMAIN wait
    BY <1>2
  <1>4. Ids(waitq) \subseteq Ids(wait)
    BY <1>2, <1>3 DEF Ids
  <1>5. \A c \in Cookie : (Left(c) \intersect Ids(runq)) \subseteq Ids(run)
    BY <1>2 DEF Left, Ids
  <1>6. \A c \in Cookie : Left(c) \subseteq Ids(waitq) \union Ids(run)
    BY <1>5 DEF QueueInv, Left
  <1>7. ASSUME NEW c \in owed
        PROVE  Payable(c, wait, run, Left(c))
    <2>0. c \in Cookie /\ Payable(c, waitq, runq, due[c])
      BY <1>1 DEF QueueInv, QueueTypeOK
    <2>1. CASE \E i \in DOMAIN waitq :
                 /\ waitq[i].cookie = c
                 /\ waitq[i].redo \/ due[c] \subseteq Ahead(waitq, i) \union Ids(runq)
      <3>1. PICK i \in DOMAIN waitq :
                 /\ waitq[i].cookie = c
                 /\ waitq[i].redo \/ due[c] \subseteq Ahead(waitq, i) \union Ids(runq)
        BY <2>1
      <3>2. i \in DOMAIN wait /\ wait[i] = waitq[i] /\ \A j \in 1 .. i - 1 : wait[j] = waitq[j]
        BY <1>2, <1>3
      <3>3. Ahead(wait, i) = Ahead(waitq, i)
        BY <3>2 DEF Ahead
      <3>4. wait[i].redo \/ Left(c) \subseteq Ahead(wait, i) \union Ids(run)
        BY <1>5, <2>0, <3>1, <3>2, <3>3 DEF Left
      <3> QED
        BY <3>1, <3>2, <3>4 DEF Payable
    <2>2. CASE \E i \in DOMAIN runq : runq[i].cookie = c /\ runq[i].redo
      <3>1. PICK j \in DOMAIN runq : runq[j].cookie = c /\ runq[j].redo
        BY <2>2
      <3>2. CASE j \notin Finished
        BY <1>2, <3>1, <3>2 DEF Payable
      <3>3. CASE j \in Finished
        <4>1. PICK i \in DOMAIN wait : i > Len(waitq) /\ wait[i].cookie = c
          BY <1>2, <3>1, <3>3
        <4>2. \A k \in DOMAIN waitq : k \in 1 .. i - 1 /\ wait[k] = waitq[k]
          BY <1>2, <4>1
        <4>3. Ids(waitq) \subseteq Ahead(wait, i)
          BY <4>2 DEF Ids, Ahead
        <4>4. Left(c) \subseteq Ahead(wait, i) \union Ids(run)
          BY <1>6, <2>0, <4>3
        <4> QED
          BY <4>1, <4>4 DEF Payable
      <3> QED
        BY <3>2, <3>3
    <2> QED
      BY <2>0, <2>1, <2>2 DEF Payable
  <1>8. \A c \in Cookie : Left(c) \subseteq Ids(wait) \union Ids(run)
    BY <1>4, <1>6
  <1> QED
    BY <1>7, <1>8 DEF wait, run

(* The entries go() starts: there are so many, not too many may run; and   *)
(* one with a cookie is the only one, and starts when nothing runs.        *)
LEMMA StartsFacts ==
  ASSUME QueueTypeOK, NEW n \in 1 .. MaxRunning, Starts(n)
  PROVE  /\ n <= Len(Reaped.waitq)
         /\ Len(Reaped.runq) + n <= MaxRunning
         /\ \A i \in 1 .. n : Reaped.waitq[i].cookie # NoCookie => n = 1 /\ Reaped.runq = <<>>
         /\ \A i \in DOMAIN Reaped.runq : Reaped.runq[i].cookie = NoCookie
  <1> DEFINE wait == Reaped.waitq
             run == Reaped.runq
  <1>1. wait \in Seq(Entry) /\ run \in Seq(Entry) /\ Len(wait) \in Nat /\ Len(run) \in Nat
    BY ReapedFacts
  <1>2. \A m \in 0 .. n - 1 :
          /\ SubSeq(wait, m + 1, Len(wait)) # <<>>
          /\ Len(run \o SubSeq(wait, 1, m)) < MaxRunning
          /\ Head(SubSeq(wait, m + 1, Len(wait))).cookie # NoCookie => run \o SubSeq(wait, 1, m) = <<>>
          /\ \A i \in DOMAIN (run \o SubSeq(wait, 1, m)) : (run \o SubSeq(wait, 1, m))[i].cookie = NoCookie
    BY DEF Starts, MayStart, Started, cookie_running
  <1> HIDE DEF wait, run
  <1>3. n <= Len(wait)
    <2>1. SubSeq(wait, n, Len(wait)) # <<>>
      BY <1>2
    <2> QED
      BY <1>1, <2>1
  <1>4. \A m \in 0 .. n - 1 :
          /\ SubSeq(wait, 1, m) \in Seq(Entry) /\ Len(SubSeq(wait, 1, m)) = m
          /\ \A i \in 1 .. m : SubSeq(wait, 1, m)[i] = wait[i]
          /\ Head(SubSeq(wait, m + 1, Len(wait))) = wait[m + 1]
    <2> SUFFICES ASSUME NEW m \in 0 .. n - 1
                 PROVE  /\ SubSeq(wait, 1, m) \in Seq(Entry) /\ Len(SubSeq(wait, 1, m)) = m
                        /\ \A i \in 1 .. m : SubSeq(wait, 1, m)[i] = wait[i]
                        /\ Head(SubSeq(wait, m + 1, Len(wait))) = wait[m + 1]
      OBVIOUS
    <2>1. m \in 0 .. Len(wait) /\ 1 \in 1 .. Len(wait) - m
      BY <1>1, <1>3
    <2>2. /\ SubSeq(wait, 1, m) \in Seq(Entry) /\ Len(SubSeq(wait, 1, m)) = m
          /\ \A i \in 1 .. m : SubSeq(wait, 1, m)[i] = wait[i]
      BY <1>1, <2>1, SubSeqFacts
    <2>3. /\ SubSeq(wait, m + 1, Len(wait)) \in Seq(Entry)
          /\ Len(SubSeq(wait, m + 1, Len(wait))) = Len(wait) - m
          /\ SubSeq(wait, m + 1, Len(wait))[1] = wait[m + 1]
      BY <1>1, <2>1, SubSeqFacts
    <2>4. Head(SubSeq(wait, m + 1, Len(wait))) = wait[m + 1]
      <3> DEFINE q == SubSeq(wait, m + 1, Len(wait))
      <3>1. q \in Seq(Entry) /\ Len(q) # 0 /\ q[1] = wait[m + 1]
        BY <1>1, <2>1, <2>3
      <3> HIDE DEF q
      <3>2. Head(q) = wait[m + 1]
        BY <3>1
      <3> QED
        BY <3>2 DEF q
    <2> QED
      BY <2>2, <2>4
  <1>5. \A m \in 0 .. n - 1 :
          /\ Len(run \o SubSeq(wait, 1, m)) = Len(run) + m
          /\ \A i \in DOMAIN run : i \in DOMAIN (run \o SubSeq(wait, 1, m)) /\ (run \o SubSeq(wait, 1, m))[i] = run[i]
          /\ \A i \in 1 .. m : /\ Len(run) + i \in DOMAIN (run \o SubSeq(wait, 1, m))
                              /\ (run \o SubSeq(wait, 1, m))[Len(run) + i] = wait[i]
    BY <1>1, <1>4, ConcatFacts
  <1>6. Len(run) + n <= MaxRunning
    <2>1. n - 1 \in 0 .. n - 1
      OBVIOUS
    <2>2. Len(run) + (n - 1) < MaxRunning
      BY <1>2, <1>5, <2>1
    <2> QED
      BY <1>1, <2>2, QueueAssumption
  <1>7. \A i \in DOMAIN run : run[i].cookie = NoCookie
    BY <1>2, <1>5
  <1>8. ASSUME NEW i \in 1 .. n, wait[i].cookie # NoCookie
        PROVE  n = 1 /\ run = <<>>
    <2>1. PICK m \in 0 .. n - 1 : i = m + 1
      BY <1>1
    <2>2. run \o SubSeq(wait, 1, m) = <<>>
      BY <1>2, <1>4, <1>8, <2>1
    <2>3. i = 1 /\ Len(run) = 0
      <3>1. Len(run \o SubSeq(wait, 1, m)) = Len(run) + m
        BY <1>5
      <3>2. Len(run) + m = 0
        BY <2>2, <3>1
      <3> QED
        BY <1>1, <2>1, <3>2
    <2>4. ASSUME 1 \in 0 .. n - 1
          PROVE  FALSE
      <3>1. 1 \in 1 .. 1 /\ Len(run) + 1 = 1
        BY <2>3
      <3>2. /\ 1 \in DOMAIN (run \o SubSeq(wait, 1, 1))
            /\ (run \o SubSeq(wait, 1, 1))[1] = wait[1]
        BY <1>5, <2>4, <3>1
      <3>3. \A j \in DOMAIN (run \o SubSeq(wait, 1, 1)) : (run \o SubSeq(wait, 1, 1))[j].cookie = NoCookie
        BY <1>2, <2>4
      <3>4. wait[1].cookie = NoCookie
        BY <3>2, <3>3, Zenon
      <3> QED
        BY <1>8, <2>3, <3>4
    <2> QED
      BY <1>1, <2>3, <2>4
  <1> QED
    BY <1>3, <1>6, <1>7, <1>8 DEF wait, run

(* The queues go() leaves behind, by the entries it starts.                *)
LEMMA GoQueues ==
  ASSUME QueueTypeOK, NEW n \in 0 .. MaxRunning, Starts(n),
         waitq' = Started(Reaped, n).waitq, runq' = Started(Reaped, n).runq
  PROVE  /\ n <= Len(Reaped.waitq)
         /\ waitq' \in Seq(Entry) /\ runq' \in Seq(Entry)
         /\ Len(waitq') = Len(Reaped.waitq) - n /\ Len(runq') = Len(Reaped.runq) + n
         /\ \A i \in 1 .. Len(Reaped.waitq) - n : waitq'[i] = Reaped.waitq[n + i]
         /\ \A i \in 1 .. Len(Reaped.runq) : runq'[i] = Reaped.runq[i]
         /\ \A i \in 1 .. n : runq'[Len(Reaped.runq) + i] = Reaped.waitq[i]
         /\ \A i \in 1 .. n : SubSeq(Reaped.waitq, 1, n)[i] = Reaped.waitq[i]
         /\ SubSeq(Reaped.waitq, 1, n) \in Seq(Entry) /\ Len(SubSeq(Reaped.waitq, 1, n)) = n
  <1> DEFINE wait == Reaped.waitq
             run == Reaped.runq
  <1>1. wait \in Seq(Entry) /\ run \in Seq(Entry) /\ Len(wait) \in Nat /\ Len(run) \in Nat
    BY ReapedFacts
  <1>2. n \in 0 .. Len(wait)
    <2>1. n # 0 => n <= Len(wait)
      BY StartsFacts
    <2> QED
      BY <1>1, <2>1
  <1>3. waitq' = SubSeq(wait, n + 1, Len(wait)) /\ runq' = run \o SubSeq(wait, 1, n)
    BY DEF Started
  <1> HIDE DEF wait, run
  <1>4. /\ SubSeq(wait, 1, n) \in Seq(Entry) /\ Len(SubSeq(wait, 1, n)) = n
        /\ \A i \in 1 .. n : SubSeq(wait, 1, n)[i] = wait[i]
        /\ waitq' \in Seq(Entry) /\ Len(waitq') = Len(wait) - n
        /\ \A i \in 1 .. Len(wait) - n : waitq'[i] = wait[n + i]
    BY <1>1, <1>2, <1>3, SubSeqFacts
  <1>5. /\ runq' \in Seq(Entry) /\ Len(runq') = Len(run) + n
        /\ \A i \in 1 .. Len(run) : runq'[i] = run[i]
        /\ \A i \in 1 .. n : runq'[Len(run) + i] = wait[i]
    <2> DEFINE now == SubSeq(wait, 1, n)
    <2>0. now \in Seq(Entry) /\ DOMAIN now = 1 .. n /\ Len(now) = n /\ \A i \in 1 .. n : now[i] = wait[i]
      BY <1>2, <1>4
    <2>1. runq' = run \o now
      BY <1>3
    <2> HIDE DEF now
    <2>3. now \in Seq(Entry) /\ run \in Seq(Entry)
      BY <1>1, <2>0
    <2>2. /\ run \o now \in Seq(Entry)
          /\ Len(run \o now) = Len(run) + Len(now)
          /\ \A i \in DOMAIN run : (run \o now)[i] = run[i]
          /\ \A i \in DOMAIN now : (run \o now)[Len(run) + i] = now[i]
      BY <2>3, ConcatFacts
    <2> QED
      BY <1>1, <2>0, <2>1, <2>2
  <1> QED
    BY <1>2, <1>4, <1>5 DEF wait, run

(* go() keeps the invariant: an entry with a cookie starts alone, and if   *)
(* it is not to be done again then nothing it had to wait for is left.     *)
LEMMA GoPreserves ==
  ASSUME QueueInv, go
  PROVE  QueueInv'
  <1> DEFINE wait == Reaped.waitq
             run == Reaped.runq
  <1>1. QueueTypeOK
    BY DEF QueueInv
  <1> DEFINE Cookies(n) ==
               {SubSeq(wait, 1, n)[i].cookie : i \in DOMAIN SubSeq(wait, 1, n)} \ {NoCookie}
  <1>2. PICK n \in 0 .. MaxRunning :
          /\ Starts(n)
          /\ waitq' = Started(Reaped, n).waitq /\ runq' = Started(Reaped, n).runq
          /\ alive' = alive \union Ids(SubSeq(wait, 1, n))
          /\ due' = [c \in Cookie |-> Left(c)]
          /\ owed' = owed \ {c \in Cookies(n) : [d \in Cookie |-> Left(d)][c] = {}}
          /\ nadds' = nadds
    BY Zenon DEF go, Left
  <1>3. /\ wait \in Seq(Entry) /\ run \in Seq(Entry) /\ Len(run) <= Len(runq)
        /\ \A i \in DOMAIN run : \E j \in DOMAIN runq : run[i] = runq[j]
    BY <1>1, ReapedFacts
  <1>4. /\ \A c \in Cookie : Left(c) \subseteq Ids(wait) \union Ids(run)
        /\ \A c \in owed : Payable(c, wait, run, Left(c))
    BY ReapedPayable
  <1>5. n # 0 => /\ Len(run) + n <= MaxRunning
                 /\ \A i \in 1 .. n : wait[i].cookie # NoCookie => n = 1 /\ run = <<>>
                 /\ \A i \in DOMAIN run : run[i].cookie = NoCookie
    BY <1>1, <1>2, StartsFacts
  <1>6. /\ n <= Len(wait)
        /\ waitq' \in Seq(Entry) /\ runq' \in Seq(Entry)
        /\ Len(waitq') = Len(wait) - n /\ Len(runq') = Len(run) + n
        /\ \A i \in 1 .. Len(wait) - n : waitq'[i] = wait[n + i]
        /\ \A i \in 1 .. Len(run) : runq'[i] = run[i]
        /\ \A i \in 1 .. n : runq'[Len(run) + i] = wait[i]
        /\ \A i \in 1 .. n : SubSeq(wait, 1, n)[i] = wait[i]
        /\ SubSeq(wait, 1, n) \in Seq(Entry) /\ Len(SubSeq(wait, 1, n)) = n
    BY <1>1, <1>2, GoQueues
  <1> HIDE DEF wait, run
  <1>7. QueueTypeOK'
    <2>1. Ids(SubSeq(wait, 1, n)) \subseteq Nat
      <3> DEFINE w == SubSeq(wait, 1, n)
      <3>1. w \in Seq(Entry)
        BY <1>6
      <3> HIDE DEF w
      <3>2. \A i \in DOMAIN w : w[i] \in Entry
        BY <3>1
      <3>3. \A e \in Entry : e.id \in Nat
        BY DEF Entry
      <3>4. Ids(w) \subseteq Nat
        BY <3>2, <3>3 DEF Ids
      <3> QED
        BY <3>4 DEF w
    <2>2. \A c \in Cookie : Left(c) \in SUBSET Nat
      BY <1>1 DEF Left, QueueTypeOK
    <2>4. due' \in [Cookie -> SUBSET Nat] /\ owed' \subseteq Cookie /\ alive' \subseteq Nat
      BY <1>1, <1>2, <2>1, <2>2 DEF QueueTypeOK
    <2> QED
      BY <1>1, <1>2, <1>6, <2>4 DEF QueueTypeOK
  <1>8. SyncAlone' /\ RunningLimited'
    <2>0. Len(run) \in Nat /\ Len(runq) \in Nat /\ MaxRunning \in Nat /\ DOMAIN runq' = 1 .. Len(run) + n
      BY <1>1, <1>3, <1>6, QueueAssumption DEF QueueTypeOK
    <2>1. RunningLimited'
      BY <1>3, <1>5, <1>6, <2>0 DEF QueueInv, RunningLimited
    <2>2. ASSUME NEW i \in DOMAIN runq', runq'[i].cookie # NoCookie
          PROVE  Len(runq') = 1
      <3>1. CASE i <= Len(run)
        <4>1. i \in DOMAIN run /\ run[i].cookie # NoCookie
          BY <1>3, <1>6, <2>0, <2>2, <3>1
        <4>2. n = 0 /\ Len(runq) = 1
          BY <1>3, <1>5, <4>1 DEF QueueInv, SyncAlone
        <4> QED
          BY <1>3, <1>6, <2>0, <3>1, <4>2
      <3>2. CASE i > Len(run)
        <4>1. PICK k \in 1 .. n : i = Len(run) + k
          BY <2>0, <3>2
        <4>2. wait[k].cookie # NoCookie
          BY <1>6, <2>2, <4>1
        <4> QED
          BY <1>5, <1>6, <2>0, <4>2
      <3> QED
        BY <2>0, <3>1, <3>2
    <2> QED
      BY <2>1, <2>2 DEF SyncAlone
  <1>9. Ids(run) \subseteq Ids(runq')
    <2>1. DOMAIN run = 1 .. Len(run) /\ DOMAIN run \subseteq DOMAIN runq'
      BY <1>3, <1>6
    <2> QED
      BY <1>6, <2>1 DEF Ids
  <1>10. \A i \in DOMAIN wait : i <= n => wait[i].id \in Ids(runq')
    <2> SUFFICES ASSUME NEW i \in DOMAIN wait, i <= n
                 PROVE  wait[i].id \in Ids(runq')
      OBVIOUS
    <2>1. Len(run) + i \in DOMAIN runq' /\ runq'[Len(run) + i] = wait[i]
      BY <1>3, <1>6
    <2> QED
      BY <2>1 DEF Ids
  <1>11. \A i \in DOMAIN wait : i > n => i - n \in DOMAIN waitq' /\ waitq'[i - n] = wait[i]
    <2> SUFFICES ASSUME NEW i \in DOMAIN wait, i > n
                 PROVE  i - n \in DOMAIN waitq' /\ waitq'[i - n] = wait[i]
      OBVIOUS
    <2>1. i - n \in 1 .. Len(wait) - n /\ n + (i - n) = i
      BY <1>3, <1>6
    <2>2. DOMAIN waitq' = 1 .. Len(wait) - n
      BY <1>6
    <2> QED
      BY <1>6, <2>1, <2>2
  <1>12. \A c \in Cookie : due'[c] \subseteq Ids(waitq') \union Ids(runq')
    <2>1. Ids(wait) \subseteq Ids(waitq') \union Ids(runq')
      <3> SUFFICES ASSUME NEW i \in DOMAIN wait
                   PROVE  wait[i].id \in Ids(waitq') \union Ids(runq')
        BY DEF Ids
      <3>1. i <= n \/ i > n
        BY <1>3
      <3> QED
        BY <1>10, <1>11, <3>1 DEF Ids
    <2> QED
      BY <1>2, <1>4, <1>9, <2>1
  <1>13. ASSUME NEW c \in owed'
         PROVE  Payable(c, waitq', runq', due'[c])
    <2>1. c \in owed /\ c \in Cookie /\ c # NoCookie /\ due'[c] = Left(c)
      BY <1>1, <1>2, QueueAssumption DEF QueueTypeOK
    <2>2. CASE \E i \in DOMAIN wait :
                 /\ wait[i].cookie = c
                 /\ wait[i].redo \/ Left(c) \subseteq Ahead(wait, i) \union Ids(run)
      <3>1. PICK i \in DOMAIN wait :
                 /\ wait[i].cookie = c
                 /\ wait[i].redo \/ Left(c) \subseteq Ahead(wait, i) \union Ids(run)
        BY <2>2
      <3>2. CASE i > n
        <4>1. i - n \in DOMAIN waitq' /\ waitq'[i - n] = wait[i]
          BY <1>11, <3>2
        <4>2. Ahead(wait, i) \subseteq Ahead(waitq', i - n) \union Ids(runq')
          <5> SUFFICES ASSUME NEW j \in 1 .. i - 1
                       PROVE  wait[j].id \in Ahead(waitq', i - n) \union Ids(runq')
            BY DEF Ahead
          <5>1. /\ j \in DOMAIN wait
                /\ \/ j <= n
                   \/ j > n /\ j - n \in 1 .. (i - n) - 1
            BY <1>3
          <5> QED
            BY <1>10, <1>11, <5>1 DEF Ahead
        <4>3. waitq'[i - n].redo \/ due'[c] \subseteq Ahead(waitq', i - n) \union Ids(runq')
          BY <1>9, <2>1, <3>1, <4>1, <4>2
        <4> QED
          BY <3>1, <4>1, <4>3 DEF Payable
      <3>3. CASE i <= n
        <4>1. i = 1 /\ n = 1 /\ run = <<>>
          BY <1>3, <1>5, <2>1, <3>1, <3>3
        <4>2. 1 \in DOMAIN runq' /\ runq'[1] = wait[1]
          BY <1>6, <4>1
        <4>3. Ahead(wait, i) = {} /\ Ids(run) = {}
          BY <4>1 DEF Ahead, Ids
        <4>4. Left(c) # {}
          <5>1. 1 \in DOMAIN SubSeq(wait, 1, n) /\ SubSeq(wait, 1, n)[1].cookie = c
            BY <1>6, <3>1, <4>1
          <5>2. c \in {SubSeq(wait, 1, n)[k].cookie : k \in DOMAIN SubSeq(wait, 1, n)} \ {NoCookie}
            BY <2>1, <5>1
          <5> QED
            BY <1>2, <2>1, <5>2
        <4> QED
          BY <3>1, <4>1, <4>2, <4>3, <4>4 DEF Payable
      <3> QED
        BY <1>3, <3>2, <3>3
    <2>3. CASE \E i \in DOMAIN run : run[i].cookie = c /\ run[i].redo
      <3>1. DOMAIN run = 1 .. Len(run) /\ DOMAIN run \subseteq DOMAIN runq'
        BY <1>3, <1>6
      <3> QED
        BY <1>6, <2>3, <3>1 DEF Payable
    <2> QED
      BY <1>4, <2>1, <2>2, <2>3 DEF Payable
  <1> QED
    BY <1>7, <1>8, <1>12, <1>13 DEF QueueInv

(* add() keeps the invariant: the entry that is queued, or marked, or is   *)
(* the last one already, comes after all the others.                       *)
LEMMA AddPreserves ==
  ASSUME QueueInv, NEW c \in Cookie \union {NoCookie}, add(c)
  PROVE  QueueInv'
  <1> DEFINE same == {i \in DOMAIN waitq : waitq[i].cookie = c}
             first == CHOOSE i \in same : \A j \in same : i <= j
             new == [id |-> nadds + 1, cookie |-> c, redo |-> FALSE]
  <1>1. QueueTypeOK /\ waitq \in Seq(Entry) /\ Len(waitq) \in Nat /\ DOMAIN waitq = 1 .. Len(waitq)
    BY DEF QueueInv, QueueTypeOK
  <1>2. new \in Entry
    BY <1>1 DEF QueueTypeOK, Entry
  <1>3. same # {} => first \in same
    <2>1. same \in SUBSET Nat
      BY <1>1
    <2>2. ASSUME same # {}
          PROVE  \E i \in same : \A j \in same : i <= j
      <3> HIDE DEF same
      <3> QED
        BY <2>1, <2>2, LeastNat
    <2> QED
      BY <2>2
  (* The three outcomes.                                                   *)
  <1>4. \/ waitq' = Append(waitq, new)
        \/ c \in Cookie /\ first \in same /\ first < Len(waitq) /\ waitq' = [waitq EXCEPT ![first].redo = TRUE]
        \/ c \in Cookie /\ first \in same /\ first = Len(waitq) /\ waitq' = waitq
    <2>1. CASE c = NoCookie \/ same = {}
      BY <2>1 DEF add, Enqueued
    <2>2. CASE c # NoCookie /\ same # {} /\ first < Len(waitq)
      BY <1>3, <2>2 DEF add, Enqueued
    <2>3. CASE c # NoCookie /\ same # {} /\ ~(first < Len(waitq))
      <3>1. first = Len(waitq)
        BY <1>1, <1>3, <2>3
      <3> QED
        BY <1>3, <2>3, <3>1 DEF add, Enqueued
    <2> QED
      BY <2>1, <2>2, <2>3
  <1> HIDE DEF first, new
  (* Entries stay where they are, one may be marked, one may be added.     *)
  <1>5. /\ waitq' \in Seq(Entry) /\ DOMAIN waitq \subseteq DOMAIN waitq'
        /\ \A i \in DOMAIN waitq :
             /\ waitq'[i].id = waitq[i].id
             /\ waitq'[i].cookie = waitq[i].cookie
             /\ waitq[i].redo => waitq'[i].redo
    <2>1. CASE waitq' = Append(waitq, new)
      BY <1>1, <1>2, <2>1
    <2>2. CASE first \in same /\ waitq' = [waitq EXCEPT ![first].redo = TRUE]
      <3>1. \A e \in Entry : /\ [e EXCEPT !.redo = TRUE] \in Entry
                             /\ [e EXCEPT !.redo = TRUE].id = e.id
                             /\ [e EXCEPT !.redo = TRUE].cookie = e.cookie
                             /\ [e EXCEPT !.redo = TRUE].redo = TRUE
        BY DEF Entry
      <3>2. first \in DOMAIN waitq /\ waitq[first] \in Entry
        BY <1>1, <2>2
      <3>3. waitq' = [waitq EXCEPT ![first] = [waitq[first] EXCEPT !.redo = TRUE]]
        BY <2>2
      <3> QED
        BY <1>1, <3>1, <3>2, <3>3
    <2> QED
      BY <1>1, <1>4, <2>1, <2>2
  <1>6. /\ Ids(waitq) \subseteq Ids(waitq')
        /\ \A i \in DOMAIN waitq : Ahead(waitq', i) = Ahead(waitq, i)
    <2>1. \A i \in DOMAIN waitq : \A j \in 1 .. i - 1 : j \in DOMAIN waitq
      BY <1>1
    <2>2. \A i \in DOMAIN waitq : i \in DOMAIN waitq' /\ waitq'[i].id = waitq[i].id
      <3> SUFFICES ASSUME NEW i \in DOMAIN waitq
                   PROVE  i \in DOMAIN waitq' /\ waitq'[i].id = waitq[i].id
        OBVIOUS
      <3> QED
        BY <1>5
    <2>3. Ids(waitq) \subseteq Ids(waitq')
      BY <2>2 DEF Ids
    <2> QED
      BY <2>1, <2>2, <2>3 DEF Ahead
  <1>7. runq' = runq /\ alive' = alive /\ nadds' = nadds + 1
    BY DEF add
  <1>8. /\ due' \in [Cookie -> SUBSET Nat] /\ owed' \subseteq Cookie
        /\ \A d \in Cookie \ {c} : due'[d] = due[d] /\ (d \in owed' => d \in owed)
        /\ c \in Cookie => due'[c] = (Ids(waitq) \ {waitq[i].id : i \in same}) \union Ids(runq)
    <2>1. Ids(waitq) \subseteq Nat /\ Ids(runq) \subseteq Nat
      <3>1. \A e \in Entry : e.id \in Nat
        BY DEF Entry
      <3>2. /\ \A i \in DOMAIN waitq : waitq[i] \in Entry
            /\ \A i \in DOMAIN runq : runq[i] \in Entry
        BY <1>1 DEF QueueTypeOK
      <3> QED
        BY <3>1, <3>2 DEF Ids
    <2>2. CASE c = NoCookie
      BY <1>1, <2>2, QueueAssumption DEF add, QueueTypeOK
    <2>3. CASE c # NoCookie
      <3>1. /\ due' = [due EXCEPT ![c] = (Ids(waitq) \ {waitq[i].id : i \in same}) \union Ids(runq)]
            /\ owed' = owed \union {c}
        BY <2>3 DEF add
      <3> QED
        BY <1>1, <2>1, <2>3, <3>1 DEF QueueTypeOK
    <2> QED
      BY <2>2, <2>3
  <1>9. QueueTypeOK'
    BY <1>1, <1>5, <1>7, <1>8 DEF QueueTypeOK
  <1>10. SyncAlone' /\ RunningLimited'
    BY <1>7 DEF QueueInv, SyncAlone, RunningLimited
  <1>11. \A d \in Cookie : due'[d] \subseteq Ids(waitq') \union Ids(runq')
    BY <1>6, <1>7, <1>8 DEF QueueInv
  <1>12. ASSUME NEW d \in owed'
         PROVE  Payable(d, waitq', runq', due'[d])
    <2>1. CASE d # c
      <3>1. Payable(d, waitq, runq, due'[d])
        BY <1>8, <2>1 DEF QueueInv
      <3> QED
        <4>1. CASE \E i \in DOMAIN waitq :
                     /\ waitq[i].cookie = d
                     /\ waitq[i].redo \/ due'[d] \subseteq Ahead(waitq, i) \union Ids(runq)
          <5>1. PICK i \in DOMAIN waitq :
                     /\ waitq[i].cookie = d
                     /\ waitq[i].redo \/ due'[d] \subseteq Ahead(waitq, i) \union Ids(runq)
            BY <4>1
          <5>2. i \in DOMAIN waitq' /\ waitq'[i].cookie = d /\ (waitq[i].redo => waitq'[i].redo)
            BY <1>5, <5>1
          <5>3. waitq'[i].redo \/ due'[d] \subseteq Ahead(waitq', i) \union Ids(runq')
            BY <1>6, <1>7, <5>1, <5>2
          <5> QED
            BY <5>2, <5>3 DEF Payable
        <4>2. CASE \E i \in DOMAIN runq : runq[i].cookie = d /\ runq[i].redo
          BY <1>7, <4>2 DEF Payable
        <4> QED
          BY <3>1, <4>1, <4>2 DEF Payable
    <2>2. CASE d = c
      <3>0. c \in Cookie /\ due'[c] = (Ids(waitq) \ {waitq[i].id : i \in same}) \union Ids(runq)
        BY <1>8, <2>2
      <3>1. CASE waitq' = Append(waitq, new)
        <4>1. /\ Len(waitq) + 1 \in DOMAIN waitq' /\ waitq'[Len(waitq) + 1] = new
              /\ \A i \in DOMAIN waitq : waitq'[i] = waitq[i]
          BY <1>1, <1>2, <3>1
        <4>2. Ids(waitq) \subseteq Ahead(waitq', Len(waitq) + 1)
          BY <1>1, <4>1 DEF Ids, Ahead
        <4>3. new.cookie = c
          BY DEF new
        <4>4. due'[c] \subseteq Ahead(waitq', Len(waitq) + 1) \union Ids(runq')
          BY <1>7, <3>0, <4>2
        <4> QED
          BY <2>2, <4>1, <4>3, <4>4, Zenon DEF Payable
      <3>2. CASE first \in same /\ waitq' = [waitq EXCEPT ![first].redo = TRUE]
        <4>1. first \in DOMAIN waitq' /\ waitq'[first].cookie = c /\ waitq'[first].redo
          BY <1>1, <1>5, <3>2 DEF Entry
        <4> QED
          BY <2>2, <4>1 DEF Payable
      <3>3. CASE first \in same /\ first = Len(waitq) /\ waitq' = waitq
        <4>1. Ids(waitq) \ {waitq[i].id : i \in same} \subseteq Ahead(waitq, first)
          <5> SUFFICES ASSUME NEW i \in DOMAIN waitq, i \notin same
                       PROVE  waitq[i].id \in Ahead(waitq, first)
            BY DEF Ids
          <5>1. i \in 1 .. first - 1
            BY <1>1, <3>3
          <5> QED
            BY <5>1 DEF Ahead
        <4> QED
          BY <1>7, <2>2, <3>0, <3>3, <4>1 DEF Payable
      <3> QED
        BY <1>4, <3>1, <3>2, <3>3
    <2> QED
      BY <2>1, <2>2
  <1> QED
    BY <1>9, <1>10, <1>11, <1>12 DEF QueueInv

(* The inductive invariant, in every state a program can bring the queue   *)
(* to: add() at any time, also while the cookie's entry waits or runs.     *)
THEOREM QueueInvariance == QueueSpec => []QueueInv
  <1>1. QueueInit => QueueInv
    <2> SUFFICES ASSUME QueueInit
                 PROVE  QueueInv
      OBVIOUS
    <2>1. QueueTypeOK
      BY DEF QueueInit, QueueTypeOK
    <2> QED
      BY <2>1, QueueAssumption DEF QueueInit, QueueInv, SyncAlone, RunningLimited
  <1>2. QueueInv /\ [QueueNext]_queuevars => QueueInv'
    <2> SUFFICES ASSUME QueueInv, [QueueNext]_queuevars
                 PROVE  QueueInv'
      OBVIOUS
    <2>1. ASSUME NEW c \in Cookie \union {NoCookie}, add(c)
          PROVE  QueueInv'
      BY <2>1, AddPreserves
    <2>2. ASSUME NEW e \in 1 .. MaxAdds, exit(e)
          PROVE  QueueInv'
      <3>1. UNCHANGED <<waitq, runq, nadds, due, owed>> /\ alive' \subseteq alive
        BY <2>2 DEF exit
      <3>2. QueueTypeOK'
        BY <3>1 DEF QueueInv, QueueTypeOK
      <3> QED
        BY <3>1, <3>2 DEF QueueInv, SyncAlone, RunningLimited
    <2>3. CASE go
      BY <2>3, GoPreserves
    <2>4. CASE UNCHANGED queuevars
      <3>1. QueueTypeOK'
        BY <2>4 DEF queuevars, QueueInv, QueueTypeOK
      <3> QED
        BY <2>4, <3>1 DEF queuevars, QueueInv, SyncAlone, RunningLimited
    <2> QED
      BY <2>1, <2>2, <2>3, <2>4 DEF QueueNext
  <1> QED
    BY <1>1, <1>2, PTL DEF QueueSpec

(* Sync points run alone and after all that was queued before they were    *)
(* last added, and no more processes run than may.                         *)
THEOREM SyncPointsKept == QueueSpec => []SyncPoints
  <1>1. QueueInv => SyncPoints
    BY DEF QueueInv, SyncPoints, SyncPaid, Payable
  <1> QED
    BY <1>1, QueueInvariance, PTL

----------------------------------------------------------------------------
(* WvAlarm.  The ghosts and the times are numbers.                         *)
AlarmNumbers ==
  /\ clock \in Clock /\ wvstime_cur \in Nat
  /\ alarm_time \in Int /\ last_alarm_check \in Nat
  /\ want \in Int /\ age \in Nat /\ span \in Nat /\ lost \in Nat
  /\ blind \in Nat /\ ahead \in Nat

AlarmFlags == waiting \in BOOLEAN /\ back \in BOOLEAN

(* What is left of an alarm at the last sync; while the last look is older *)
(* than that, all that was set back is still to be found, and counted.     *)
NotLateYet ==
  /\ alarm_time - wvstime_cur <= want + span + lost + blind
  /\ Behind => /\ alarm_time - wvstime_cur <= want + span + lost
               /\ wvstime_cur - clock + span <= blind

(* What is left at the last sync, at the last look and on the clock, and   *)
(* on the clock after the correction for a last look ahead of wvstime().   *)
NotEarlyYet ==
  /\ alarm_time - wvstime_cur >= want + span - age - ahead
  /\ alarm_time - last_alarm_check >= want + span - age - ahead
  /\ alarm_time - clock >= want - age - ahead
  /\ last_alarm_check > wvstime_cur =>
       alarm_time - clock - (last_alarm_check - wvstime_cur) >= want - age - ahead

Timely ==
  /\ NotLateYet /\ NotEarlyYet
  /\ ~back => span <= clock - wvstime_cur

AlarmInv ==
  /\ AlarmNumbers /\ AlarmFlags
  /\ ~back => wvstime_cur <= clock
  /\ alarm_time # 0 => Timely

LEMMA MaxOfTwo ==
  ASSUME NEW m \in Int, NEW n \in Int
  PROVE  Max({m, n}) = IF m < n THEN n ELSE m
<1> DEFINE x == IF m < n THEN n ELSE m
<1>1. x \in {m, n} /\ \A y \in {m, n} : x >= y
  OBVIOUS
<1>2. \A z \in {m, n} : (\A y \in {m, n} : z >= y) => z = x
  OBVIOUS
<1> HIDE DEF x
<1>3. Max({m, n}) = x
  BY <1>1, <1>2 DEF Max
<1> QED
  BY <1>3 DEF x

LEMMA ClockStarts == Min(Clock) \in Clock
<1>1. PICK n \in Clock : \A m \in Clock : n <= m
  BY AlarmAssumption, LeastNat
<1>2. \E x \in Clock : \A y \in Clock : x <= y
  BY <1>1
<1> QED
  BY <1>2 DEF Min

LEMMA LooksTell ==
  ASSUME NEW now \in Int, clock \in Int, Looked(now)
  PROVE  /\ span' = 0 /\ UNCHANGED <<want, age, blind, ahead>>
         /\ back => lost' = lost + span
         /\ ~back => lost' = lost
         /\ back' \in BOOLEAN /\ (back' <=> now > clock)
<1>1. span' = 0 /\ UNCHANGED <<want, age, blind, ahead>>
  BY DEF Looked
<1>2. (back => lost' = lost + span) /\ (~back => lost' = lost)
  BY DEF Looked
<1>3. back' \in BOOLEAN
  BY DEF Looked
<1>4. back' <=> now > clock
  BY DEF Looked
<1> QED
  BY <1>1, <1>2, <1>3, <1>4

(* A look at the alarm, by pre_select() or post_select(), at time now, to  *)
(* which wvstime() is set; the clock shows an earlier one only if that has *)
(* been set back.                                                          *)
LEMMA LookKeeps ==
  ASSUME AlarmInv, NEW now \in Nat, now = clock \/ (now = wvstime_cur /\ clock < now),
         wvstime_cur' = now, clock' = clock, Looked(now), waiting' \in BOOLEAN,
         alarm_remaining(now)
  PROVE  AlarmInv'
<1>1. clock \in Nat /\ AlarmNumbers
  BY AlarmAssumption DEF AlarmInv, AlarmNumbers
<1>2. /\ span' = 0 /\ UNCHANGED <<want, age, blind, ahead>>
      /\ back => lost' = lost + span
      /\ ~back => lost' = lost
      /\ back' \in BOOLEAN /\ (back' <=> now > clock)
  BY <1>1, LooksTell
<1>3. /\ alarm_time' = (IF alarm_time # 0 /\ now < last_alarm_check
                          THEN alarm_time - (last_alarm_check - now) ELSE alarm_time)
      /\ last_alarm_check' = (IF alarm_time # 0 THEN now ELSE last_alarm_check)
  BY DEF alarm_remaining
<1>4. AlarmNumbers' /\ AlarmFlags'
  <2>1. lost' \in Nat /\ span' \in Nat
    BY <1>1, <1>2 DEF AlarmNumbers
  <2>2. alarm_time' \in Int /\ last_alarm_check' \in Nat
    BY <1>1, <1>3 DEF AlarmNumbers
  <2>3. AlarmNumbers'
    BY <1>1, <1>2, <2>1, <2>2 DEF AlarmNumbers
  <2>4. AlarmFlags'
    BY <1>2, Zenon DEF AlarmInv, AlarmFlags
  <2> QED
    BY <2>3, <2>4
<1>5. ~back' => wvstime_cur' <= clock'
  BY <1>1, <1>2
<1>6. ASSUME alarm_time' # 0
      PROVE  Timely'
  <2>1. alarm_time # 0
    BY <1>3, <1>6
  <2>2. /\ NotLateYet /\ NotEarlyYet
        /\ ~back => wvstime_cur <= clock /\ span <= clock - wvstime_cur
    BY <2>1 DEF AlarmInv, Timely
  <2>3. last_alarm_check' = now
    BY <1>3, <2>1
  <2>0. /\ alarm_time' \in Int /\ alarm_time \in Int /\ want \in Int /\ lost' \in Nat
        /\ lost \in Nat /\ span \in Nat /\ blind \in Nat /\ age \in Nat /\ ahead \in Nat
        /\ clock \in Nat /\ now \in Nat /\ wvstime_cur \in Nat /\ clock <= now
    BY <1>1, <1>4 DEF AlarmNumbers
  <2>4. /\ alarm_time' - now <= want + lost' + blind
        /\ alarm_time' - now >= want - age - ahead
        /\ alarm_time' - clock >= want - age - ahead
    <3>1. CASE now < last_alarm_check
      <4>1. alarm_time' - now = alarm_time - last_alarm_check
        BY <1>1, <1>3, <2>1, <3>1 DEF AlarmNumbers
      <4>2. alarm_time' - now >= want - age - ahead
        BY <1>1, <2>2, <4>1 DEF NotEarlyYet, AlarmNumbers
      <4>3. alarm_time' - clock >= alarm_time' - now
        <5>1. PICK a \in Int : a = alarm_time'
          BY <2>0
        <5>2. a - clock >= a - now
          BY <2>0
        <5> QED
          BY <5>1, <5>2
      <4>4. alarm_time' - now <= want + lost' + blind
        <5>1. CASE Behind
          <6>1. now = clock /\ clock < wvstime_cur /\ back
            BY <1>1, <2>2, <3>1, <5>1 DEF Behind, AlarmNumbers
          <6>2. /\ alarm_time - wvstime_cur <= want + span + lost
                /\ wvstime_cur - clock + span <= blind /\ lost' = lost + span
            BY <1>2, <2>2, <5>1, <6>1 DEF NotLateYet
          <6> QED
            BY <1>1, <3>1, <4>1, <6>1, <6>2 DEF AlarmNumbers
        <5>2. CASE ~Behind /\ back
          <6>1. alarm_time - wvstime_cur <= want + span + lost + blind /\ lost' = lost + span
            BY <1>2, <2>2, <5>2 DEF NotLateYet
          <6> QED
            BY <1>1, <4>1, <5>2, <6>1 DEF Behind, AlarmNumbers
        <5>3. CASE ~Behind /\ ~back
          <6>1. /\ alarm_time - wvstime_cur <= want + span + lost + blind /\ lost' = lost
                /\ wvstime_cur <= clock /\ span <= clock - wvstime_cur
            BY <1>2, <2>2, <5>3 DEF NotLateYet
          <6>2. now = clock
            BY <1>1, <6>1 DEF AlarmNumbers
          <6> QED
            BY <1>1, <3>1, <4>1, <6>1, <6>2 DEF AlarmNumbers
        <5> QED
          BY <5>1, <5>2, <5>3
      <4> QED
        <5>1. want - age - ahead \in Int /\ alarm_time' - now \in Int /\ alarm_time' - clock \in Int
          BY <2>0
        <5>2. alarm_time' - clock >= want - age - ahead
          BY <4>2, <4>3, <5>1
        <5> QED
          BY <4>2, <4>4, <5>2
    <3>2. CASE ~(now < last_alarm_check)
      <4>1. alarm_time' = alarm_time
        BY <1>3, <3>2
      <4>2. /\ alarm_time' - now >= want - age - ahead
            /\ alarm_time' - clock >= want - age - ahead
        BY <1>1, <2>2, <4>1 DEF NotEarlyYet, AlarmNumbers
      <4>3. CASE Behind
        <5>1. /\ alarm_time - wvstime_cur <= want + span + lost
              /\ wvstime_cur - clock + span <= blind
          BY <2>2, <4>3 DEF NotLateYet
        <5>2. CASE now = clock
          <6>1. lost' >= lost /\ lost' \in Nat
            BY <1>1, <1>2, <1>4 DEF AlarmNumbers
          <6>2. alarm_time' - now <= want + lost' + blind
            <7>1. alarm_time - clock <= want + lost' + blind
              <8>1. PICK m \in Nat : m = lost'
                BY <2>0
              <8>2. m >= lost
                BY <6>1, <8>1
              <8>3. /\ alarm_time \in Int /\ want \in Int /\ lost \in Nat /\ span \in Nat
                    /\ blind \in Nat /\ clock \in Nat /\ wvstime_cur \in Nat
                BY <2>0
              <8>4. alarm_time - clock <= want + m + blind
                BY <5>1, <8>2, <8>3
              <8> QED
                BY <8>1, <8>4
            <7> QED
              BY <4>1, <5>2, <7>1
          <6> QED
            BY <4>2, <6>2
        <5>3. CASE now = wvstime_cur /\ clock < now
          <6>1. lost' = lost + span
            BY <1>1, <1>2, <2>2, <5>3 DEF AlarmNumbers
          <6>2. alarm_time' - now <= want + lost' + blind
            BY <1>1, <4>1, <5>1, <5>3, <6>1 DEF AlarmNumbers
          <6> QED
            BY <4>2, <6>2
        <5> QED
          BY <5>2, <5>3
      <4>4. CASE ~Behind /\ back
        <5>1. alarm_time - wvstime_cur <= want + span + lost + blind /\ lost' = lost + span
          BY <1>2, <2>2, <4>4 DEF NotLateYet
        <5>2. alarm_time' - now <= want + lost' + blind
          BY <1>1, <3>2, <4>1, <4>4, <5>1 DEF Behind, AlarmNumbers
        <5> QED
          BY <4>2, <5>2
      <4>5. CASE ~Behind /\ ~back
        <5>1. /\ alarm_time - wvstime_cur <= want + span + lost + blind /\ lost' = lost
              /\ wvstime_cur <= clock /\ span <= clock - wvstime_cur
          BY <1>2, <2>2, <4>5 DEF NotLateYet
        <5>2. now = clock
          BY <1>1, <5>1 DEF AlarmNumbers
        <5>3. alarm_time' - now <= want + lost' + blind
          BY <1>1, <4>1, <5>1, <5>2 DEF AlarmNumbers
        <5> QED
          BY <4>2, <5>3
      <4> QED
        BY <4>3, <4>4, <4>5
    <3> QED
      BY <3>1, <3>2
  <2>5. /\ span' = 0 /\ want' = want /\ age' = age /\ blind' = blind /\ ahead' = ahead
        /\ wvstime_cur' = now /\ last_alarm_check' = now /\ clock' = clock
    BY <1>2, <2>3
  <2>6. /\ alarm_time' \in Int /\ lost' \in Nat /\ want \in Int /\ age \in Nat
        /\ blind \in Nat /\ ahead \in Nat /\ clock \in Nat
    BY <1>1, <1>4 DEF AlarmNumbers
  <2>7. NotLateYet' /\ NotEarlyYet'
    <3>1. /\ want + 0 + lost' + blind = want + lost' + blind
          /\ want + 0 - age - ahead = want - age - ahead /\ ~(now < now) /\ ~(now > now)
      BY <2>0
    <3>2. NotLateYet'
      BY <2>4, <2>5, <3>1 DEF NotLateYet, Behind
    <3>3. NotEarlyYet'
      BY <2>4, <2>5, <3>1 DEF NotEarlyYet
    <3> QED
      BY <3>2, <3>3
  <2>8. ~back' => span' <= clock' - wvstime_cur'
    BY <1>2, <2>5, <2>6
  <2> QED
    BY <2>7, <2>8 DEF Timely
<1> QED
  BY <1>4, <1>5, <1>6 DEF AlarmInv

(* What is left of an alarm, and how late it is, are bounded whatever is   *)
(* done to the clock.                                                      *)
THEOREM AlarmInvariance == AlarmSpec => []AlarmInv
<1>1. AlarmInit => AlarmInv
  <2> SUFFICES ASSUME AlarmInit
               PROVE  AlarmInv
    OBVIOUS
  <2>1. clock \in Clock /\ clock \in Nat
    BY ClockStarts, AlarmAssumption DEF AlarmInit
  <2>2. AlarmNumbers
    BY <2>1 DEF AlarmInit, AlarmNumbers
  <2>3. AlarmFlags
    BY Zenon DEF AlarmInit, AlarmFlags
  <2> QED
    BY <2>1, <2>2, <2>3 DEF AlarmInit, AlarmInv
<1>2. AlarmInv /\ [AlarmNext]_alarmvars => AlarmInv'
  <2> SUFFICES ASSUME AlarmInv, [AlarmNext]_alarmvars
               PROVE  AlarmInv'
    OBVIOUS
  <2>0. AlarmNumbers /\ clock \in Nat /\ Clock \subseteq Nat /\ Timeout \subseteq Nat
    BY AlarmAssumption DEF AlarmInv, AlarmNumbers
  <2>1. CASE tick
    <3>1. /\ clock' = clock + 1 /\ clock' \in Clock
          /\ UNCHANGED <<wvstime_cur, alarm_time, last_alarm_check, waiting, age, back, lost,
                         blind, ahead>>
          /\ alarm_time # 0 => want' = want - 1 /\ span' = span + 1
          /\ alarm_time = 0 => want' = want /\ span' = span
      BY <2>1 DEF tick, stored
    <3>2. AlarmNumbers'
      BY <2>0, <3>1 DEF AlarmNumbers
    <3>3. AlarmFlags' /\ (back' <=> back)
      BY <3>1, Zenon DEF AlarmInv, AlarmFlags
    <3>4. ASSUME alarm_time' # 0
          PROVE  Timely'
      <4>1. Timely /\ want' = want - 1 /\ span' = span + 1 /\ want \in Int /\ span \in Nat
        BY <2>0, <3>1, <3>3, <3>4 DEF AlarmInv, AlarmNumbers
      <4>2. want' + span' = want + span
        BY <4>1
      <4>3. (Behind' <=> Behind) /\ clock' = clock + 1
        BY <3>1 DEF Behind
      <4>4. NotLateYet'
        BY <2>0, <3>1, <4>1, <4>2, <4>3 DEF AlarmNumbers, Timely, NotLateYet
      <4>5. NotEarlyYet'
        BY <2>0, <3>1, <4>1, <4>2, <4>3 DEF AlarmNumbers, Timely, NotEarlyYet
      <4>6. ~back' => span' <= clock' - wvstime_cur'
        BY <2>0, <3>1, <3>3, <4>1 DEF AlarmNumbers, Timely
      <4> QED
        BY <4>4, <4>5, <4>6 DEF Timely
    <3> QED
      BY <2>0, <3>1, <3>2, <3>3, <3>4 DEF AlarmInv, AlarmNumbers
  <2>2. CASE set_back
    <3>1. PICK t \in Clock :
            /\ t < clock /\ clock' = t
            /\ blind' = IF alarm_time # 0 /\ Behind THEN blind + (clock - t) ELSE blind
      BY <2>2 DEF set_back
    <3>2. /\ back' = TRUE
          /\ UNCHANGED <<wvstime_cur, alarm_time, last_alarm_check, waiting, want, age, span,
                         lost, ahead>>
      BY <2>2 DEF set_back, stored
    <3>3. PICK b \in Nat : b = IF alarm_time # 0 /\ Behind THEN blind + (clock - t) ELSE blind
      BY <2>0, <3>1 DEF AlarmNumbers
    <3>4. AlarmFlags'
      BY <3>2, Zenon DEF AlarmInv, AlarmFlags
    <3>5. AlarmNumbers' /\ blind' = b /\ t \in Nat
      BY <2>0, <3>1, <3>2, <3>3 DEF AlarmNumbers
    <3>6. ASSUME alarm_time' # 0
          PROVE  Timely'
      <4>1. Timely /\ alarm_time # 0 /\ (Behind' <=> Behind)
        BY <3>2, <3>6 DEF AlarmInv, Behind
      <4>2. /\ alarm_time - wvstime_cur <= want + span + lost + b
            /\ Behind => /\ alarm_time - wvstime_cur <= want + span + lost
                         /\ wvstime_cur - t + span <= b
        BY <2>0, <3>1, <3>3, <3>5, <4>1 DEF AlarmNumbers, Timely, NotLateYet
      <4>3. NotLateYet'
        BY <3>1, <3>2, <3>5, <4>1, <4>2 DEF NotLateYet
      <4>4. /\ alarm_time - t >= want - age - ahead
            /\ last_alarm_check > wvstime_cur =>
                 alarm_time - t - (last_alarm_check - wvstime_cur) >= want - age - ahead
        BY <2>0, <3>1, <3>5, <4>1 DEF AlarmNumbers, Timely, NotEarlyYet
      <4>5. NotEarlyYet'
        BY <3>1, <3>2, <4>1, <4>4 DEF Timely, NotEarlyYet
      <4> QED
        BY <3>2, <4>3, <4>5 DEF Timely
    <3> QED
      BY <3>2, <3>4, <3>5, <3>6 DEF AlarmInv
  <2>3. CASE _build_selectinfo
    BY <2>0, <2>3, LookKeeps DEF _build_selectinfo
  <2>4. CASE _process_selectinfo
    <3> DEFINE now == IF wvstime_cur < clock THEN clock ELSE wvstime_cur
    <3>1. Max({wvstime_cur, clock}) = now
      BY <2>0, MaxOfTwo DEF AlarmNumbers
    <3>2. now \in Nat /\ (now = clock \/ (now = wvstime_cur /\ clock < now))
      BY <2>0 DEF AlarmNumbers
    <3> HIDE DEF now
    <3>3. /\ wvstime_cur' = now /\ waiting' = FALSE /\ Looked(now) /\ clock' = clock
          /\ IF Rings(now) THEN alarm_time' = 0 /\ last_alarm_check' = now
             ELSE alarm_remaining(now)
      BY <2>4, <3>1 DEF _process_selectinfo
    <3>4. CASE Rings(now)
      <4>1. alarm_time' = 0 /\ last_alarm_check' = now
        BY <3>3, <3>4
      <4>2. /\ span' = 0 /\ UNCHANGED <<want, age, blind, ahead>>
            /\ back => lost' = lost + span
            /\ ~back => lost' = lost
            /\ back' \in BOOLEAN /\ (back' <=> now > clock)
        BY <2>0, <3>2, <3>3, LooksTell
      <4>3. lost' \in Nat /\ (~back' => wvstime_cur' <= clock')
        BY <2>0, <3>2, <3>3, <4>2 DEF AlarmNumbers
      <4>4. AlarmNumbers'
        BY <2>0, <3>2, <3>3, <4>1, <4>2, <4>3 DEF AlarmNumbers
      <4>5. AlarmFlags'
        BY <3>3, <4>2, Zenon DEF AlarmInv, AlarmFlags
      <4> QED
        BY <4>1, <4>3, <4>4, <4>5 DEF AlarmInv
    <3>5. CASE ~Rings(now)
      BY <3>2, <3>3, <3>5, LookKeeps
    <3> QED
      BY <3>4, <3>5
  <2>5. CASE no_alarm
    <3>1. /\ alarm_time' = 0
          /\ UNCHANGED <<clock, wvstime_cur, last_alarm_check, waiting, want, age, span, back, lost,
                         blind, ahead>>
      BY <2>5 DEF no_alarm, ghost
    <3>2. AlarmFlags' /\ (back' <=> back)
      BY <3>1, Zenon DEF AlarmInv, AlarmFlags
    <3> QED
      BY <2>0, <3>1, <3>2 DEF AlarmInv, AlarmNumbers
  <2>6. ASSUME NEW msec \in Timeout, alarm(msec)
        PROVE  AlarmInv'
    <3> DEFINE old == IF clock - wvstime_cur < 0 THEN 0 ELSE clock - wvstime_cur
               pending == IF wvstime_cur - clock < 0 THEN 0 ELSE wvstime_cur - clock
               over == IF last_alarm_check - wvstime_cur < 0 THEN 0
                       ELSE last_alarm_check - wvstime_cur
    <3>1. /\ Max({clock - wvstime_cur, 0}) = old /\ Max({wvstime_cur - clock, 0}) = pending
          /\ Max({last_alarm_check - wvstime_cur, 0}) = over
      BY <2>0, MaxOfTwo DEF AlarmNumbers
    <3>2. /\ old \in Nat /\ old >= clock - wvstime_cur
          /\ pending \in Nat /\ pending >= wvstime_cur - clock
          /\ over \in Nat /\ over >= last_alarm_check - wvstime_cur
      BY <2>0 DEF AlarmNumbers
    <3> HIDE DEF old, pending, over
    <3>3. /\ alarm_time' = wvstime_cur + msec /\ want' = msec /\ age' = old
          /\ span' = 0 /\ lost' = 0 /\ ahead' = over
          /\ blind' = (IF Behind THEN pending ELSE 0)
          /\ UNCHANGED <<clock, wvstime_cur, last_alarm_check, waiting, back>>
      BY <2>6, <3>1 DEF alarm
    <3>4. AlarmFlags' /\ (back' <=> back) /\ (Behind' <=> Behind)
      BY <3>3, Zenon DEF AlarmInv, AlarmFlags, Behind
    <3>5. msec \in Nat
      BY <2>0
    <3>6. blind' \in Nat /\ (Behind => blind' = pending)
      BY <3>2, <3>3
    <3>7. AlarmNumbers'
      BY <2>0, <3>2, <3>3, <3>5, <3>6 DEF AlarmNumbers
    <3>8. NotLateYet'
      BY <2>0, <3>2, <3>3, <3>4, <3>5, <3>6 DEF AlarmNumbers, NotLateYet
    <3>9. NotEarlyYet'
      BY <2>0, <3>2, <3>3, <3>5 DEF AlarmNumbers, NotEarlyYet
    <3>10. ~back' => span' <= clock' - wvstime_cur' /\ wvstime_cur' <= clock'
      BY <2>0, <3>3, <3>4 DEF AlarmInv, AlarmNumbers
    <3> QED
      BY <3>4, <3>7, <3>8, <3>9, <3>10 DEF AlarmInv, Timely
  <2>7. CASE look
    <3>1. /\ alarm_time' = (IF alarm_time # 0 /\ wvstime_cur < last_alarm_check
                              THEN alarm_time - (last_alarm_check - wvstime_cur) ELSE alarm_time)
          /\ last_alarm_check' = (IF alarm_time # 0 THEN wvstime_cur ELSE last_alarm_check)
          /\ UNCHANGED <<clock, wvstime_cur, waiting, want, age, span, back, lost, blind, ahead>>
      BY <2>7 DEF look, alarm_remaining, ghost
    <3>2. AlarmFlags' /\ (back' <=> back)
      BY <3>1, Zenon DEF AlarmInv, AlarmFlags
    <3>3. AlarmNumbers'
      BY <2>0, <3>1 DEF AlarmNumbers
    <3>4. ASSUME alarm_time' # 0
          PROVE  Timely'
      <4>1. alarm_time # 0
        BY <3>1, <3>4
      <4>2. Timely /\ last_alarm_check' = wvstime_cur
        BY <3>1, <4>1 DEF AlarmInv
      <4>3. alarm_time' <= alarm_time
        BY <2>0, <3>1 DEF AlarmNumbers
      <4>4. NotLateYet'
        BY <2>0, <3>1, <3>3, <4>2, <4>3 DEF AlarmNumbers, Timely, NotLateYet, Behind
      <4>5. NotEarlyYet'
        BY <2>0, <3>1, <4>1, <4>2 DEF AlarmNumbers, Timely, NotEarlyYet
      <4>6. ~back' => span' <= clock' - wvstime_cur'
        BY <3>1, <3>2, <4>2 DEF Timely
      <4> QED
        BY <4>4, <4>5, <4>6 DEF Timely
    <3> QED
      BY <3>1, <3>2, <3>3, <3>4 DEF AlarmInv
  <2>8. CASE UNCHANGED alarmvars
    BY <2>8 DEF alarmvars, stored, ghost, AlarmInv, AlarmNumbers, AlarmFlags, Timely,
                NotLateYet, NotEarlyYet, Behind
  <2> QED
    BY <2>1, <2>2, <2>3, <2>4, <2>5, <2>6, <2>7, <2>8 DEF AlarmNext
<1> QED
  BY <1>1, <1>2, PTL DEF AlarmSpec

(* No alarm rings later than the real time between the looks between which *)
(* the clock was set back, and what it was set back by unseen, explain,    *)
(* nor earlier than by the age of wvstime() and the lead of the last look  *)
(* when it was set, whatever the clock shows (WvStream::alarm_remaining).  *)
THEOREM AlarmIsTimely == AlarmSpec => []AlarmInTime
<1>1. AlarmInv => AlarmInTime
  BY DEF AlarmInv, Timely, NotLateYet, NotEarlyYet, AlarmInTime, AlarmNotLate, AlarmNotEarly
<1> QED
  BY <1>1, AlarmInvariance, PTL
============================================================================
