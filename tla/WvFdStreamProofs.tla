-------------------------- MODULE WvFdStreamProofs --------------------------
(***************************************************************************)
(* Proofs about WvFdStream, for every pair of fds, every limit and every   *)
(* number of bytes: the invariant holds at every call of one of its        *)
(* functions from within another, and so after every call from outside.    *)
(***************************************************************************)
EXTENDS WvFdStream, TLAPS

(* Consecutive bytes, cut in two and put together again.                   *)
LEMMA NumberedType ==
  ASSUME NEW a \in Nat, NEW n \in Nat
  PROVE  /\ Numbered(a, n) \in Seq(Nat)
         /\ Len(Numbered(a, n)) = n
         /\ \A i \in 1 .. n : Numbered(a, n)[i] = a + i
         /\ Numbered(a, 0) = <<>>
  <1>1. \A m \in Nat : Numbered(a, m) \in Seq(Nat) /\ Len(Numbered(a, m)) = m
    <2> TAKE m \in Nat
    <2>1. Numbered(a, m) \in [1 .. m -> Nat]
      BY DEF Numbered
    <2> QED
      BY <2>1
  <1>2. Len(Numbered(a, 0)) = 0
    BY <1>1
  <1> QED
    BY <1>1, <1>2 DEF Numbered

LEMMA NumberedCut ==
  ASSUME NEW a \in Nat, NEW n \in Nat, NEW r \in 0 .. n
  PROVE  /\ SubSeq(Numbered(a, n), 1, r) = Numbered(a, r)
         /\ SubSeq(Numbered(a, n), r + 1, n) = Numbered(a + r, n - r)
         /\ \A k \in 0 .. n - r : SubSeq(Numbered(a, n), r + 1, r + k) = Numbered(a + r, k)
  <1>1. \A k \in 0 .. n - r : SubSeq(Numbered(a, n), r + 1, r + k) = Numbered(a + r, k)
    <2> SUFFICES ASSUME NEW k \in 0 .. n - r
                 PROVE  SubSeq(Numbered(a, n), r + 1, r + k) = Numbered(a + r, k)
      OBVIOUS
    <2> DEFINE s == SubSeq(Numbered(a, n), r + 1, r + k)
               t == Numbered(a + r, k)
    <2>1. /\ Numbered(a, n) \in Seq(Nat) /\ Len(Numbered(a, n)) = n
          /\ \A i \in 1 .. n : Numbered(a, n)[i] = a + i
      BY NumberedType
    <2>2. t \in Seq(Nat) /\ Len(t) = k /\ \A i \in 1 .. k : t[i] = (a + r) + i
      <3>1. a + r \in Nat /\ k \in Nat
        OBVIOUS
      <3> QED
        BY <3>1, NumberedType
    <2>3. s \in Seq(Nat) /\ Len(s) = k /\ \A i \in 1 .. k : s[i] = Numbered(a, n)[r + i]
      BY <2>1
    <2>4. \A i \in 1 .. k : s[i] = t[i]
      BY <2>1, <2>2, <2>3
    <2> QED
      BY <2>2, <2>3, <2>4
  <1>2. SubSeq(Numbered(a, n), r + 1, n) = Numbered(a + r, n - r)
    BY <1>1
  <1>3. SubSeq(Numbered(a, n), 1, r) = Numbered(a, r)
    <2> DEFINE s == SubSeq(Numbered(a, n), 1, r)
               t == Numbered(a, r)
    <2>1. /\ Numbered(a, n) \in Seq(Nat) /\ Len(Numbered(a, n)) = n
          /\ \A i \in 1 .. n : Numbered(a, n)[i] = a + i
      BY NumberedType
    <2>2. t \in Seq(Nat) /\ Len(t) = r /\ \A i \in 1 .. r : t[i] = a + i
      BY NumberedType
    <2>3. s \in Seq(Nat) /\ Len(s) = r /\ \A i \in 1 .. r : s[i] = Numbered(a, n)[i]
      BY <2>1
    <2> QED
      BY <2>1, <2>2, <2>3
  <1> QED
    BY <1>1, <1>2, <1>3

LEMMA BytesJoined ==
  ASSUME NEW p \in Seq(Nat), NEW q \in Seq(Nat)
  PROVE  /\ p \o q \in Seq(Nat) /\ Len(p \o q) = Len(p) + Len(q)
         /\ \A i \in 1 .. Len(p) : (p \o q)[i] = p[i]
         /\ \A i \in 1 .. Len(q) : (p \o q)[Len(p) + i] = q[i]
  OBVIOUS

LEMMA NumberedJoin ==
  ASSUME NEW a \in Nat, NEW m \in Nat, NEW n \in Nat
  PROVE  Numbered(a, m) \o Numbered(a + m, n) = Numbered(a, m + n)
  <1> DEFINE s == Numbered(a, m) \o Numbered(a + m, n)
             t == Numbered(a, m + n)
  <1>1. /\ Numbered(a, m) \in Seq(Nat) /\ Len(Numbered(a, m)) = m
        /\ \A i \in 1 .. m : Numbered(a, m)[i] = a + i
    BY NumberedType
  <1>0. a + m \in Nat /\ m + n \in Nat
    OBVIOUS
  <1>2. /\ Numbered(a + m, n) \in Seq(Nat) /\ Len(Numbered(a + m, n)) = n
        /\ \A i \in 1 .. n : Numbered(a + m, n)[i] = (a + m) + i
    BY <1>0, NumberedType
  <1>3. t \in Seq(Nat) /\ Len(t) = m + n /\ \A i \in 1 .. m + n : t[i] = a + i
    BY <1>0, NumberedType
  <1>4. /\ s \in Seq(Nat) /\ Len(s) = m + n
        /\ \A i \in 1 .. m : s[i] = a + i
        /\ \A i \in 1 .. n : s[m + i] = a + (m + i)
    <2> DEFINE p == Numbered(a, m)
               q == Numbered(a + m, n)
    <2>1. p \in Seq(Nat) /\ Len(p) = m /\ q \in Seq(Nat) /\ Len(q) = n
      BY <1>1, <1>2
    <2>2. /\ p \o q \in Seq(Nat) /\ Len(p \o q) = Len(p) + Len(q)
          /\ \A i \in 1 .. Len(p) : (p \o q)[i] = p[i]
          /\ \A i \in 1 .. Len(q) : (p \o q)[Len(p) + i] = q[i]
      <3> HIDE DEF p, q
      <3> QED
        BY <2>1, BytesJoined
    <2>4. s = p \o q
      OBVIOUS
    <2>3. /\ \A i \in 1 .. m : p[i] = a + i
          /\ \A i \in 1 .. n : q[i] = a + (m + i)
      BY <1>1, <1>2
    <2> HIDE DEF p, q, s
    <2> QED
      BY <2>1, <2>2, <2>3, <2>4
  <1>5. \A i \in 1 .. m + n : s[i] = t[i]
    <2> HIDE DEF s, t
    <2> SUFFICES ASSUME NEW i \in 1 .. m + n
                 PROVE  s[i] = a + i
      BY <1>3
    <2>1. CASE i <= m
      BY <1>4, <2>1
    <2>2. CASE i > m
      <3>1. i - m \in 1 .. n /\ m + (i - m) = i
        BY <2>2
      <3> QED
        BY <1>4, <3>1
    <2> QED
      BY <2>1, <2>2
  <1> QED
    <2> HIDE DEF s, t
    <2>1. s = t
      BY <1>0, <1>3, <1>4, <1>5
    <2> QED
      BY <2>1 DEF s, t

----------------------------------------------------------------------------
(* From s, a function of the stream may only have left t behind.           *)
Later(s, t) ==
  /\ t.is_flushing = s.is_flushing /\ t.max_outbuf_size = s.max_outbuf_size
  /\ t.accepted = s.accepted /\ t.inbuf = s.inbuf /\ t.cbset = s.cbset
  /\ Len(t.outbuf) <= Len(s.outbuf)
  /\ s.closed => t.closed
  /\ isok(t) => isok(s)

LEMMA MemberTypes ==
  ASSUME NEW s \in Members
  PROVE  /\ s.wire \in Seq(Nat) /\ Len(s.wire) \in Nat
         /\ s.outbuf \in Seq(Nat) /\ Len(s.outbuf) \in Nat
         /\ s.accepted \in Nat /\ s.inbuf \in Nat /\ s.max_outbuf_size \in Nat
  <1>1. /\ s.wire \in Seq(Nat) /\ s.outbuf \in Seq(Nat)
        /\ s.accepted \in 0 .. MaxBytes /\ s.inbuf \in 0 .. MaxIn
        /\ s.max_outbuf_size \in Limits \union {0}
    BY DEF Members
  <1>2. Limits \subseteq Nat /\ MaxBytes \in Nat /\ MaxIn \in Nat
    BY StreamAssumption
  <1>3. s.max_outbuf_size \in Nat
    <2>1. \A x \in Limits \union {0} : x \in Nat
      BY <1>2
    <2>2. s.max_outbuf_size \in Limits \union {0}
      BY <1>1
    <2> QED
      BY <2>1, <2>2, Zenon
  <1> QED
    BY <1>1, <1>2, <1>3

LEMMA LaterTrans ==
  ASSUME NEW s \in Members, NEW t \in Members, NEW u \in Members,
         Later(s, t), Later(t, u)
  PROVE  Later(s, u)
  <1>1. Len(s.outbuf) \in Nat /\ Len(t.outbuf) \in Nat /\ Len(u.outbuf) \in Nat
    BY DEF Members
  <1> QED
    BY <1>1 DEF Later

LEMMA LaterSame ==
  ASSUME NEW s \in Members
  PROVE  Later(s, s)
  <1>1. Len(s.outbuf) \in Nat
    BY DEF Members
  <1> QED
    BY <1>1 DEF Later

(* ::close of an fd that is open.                                          *)
Open(s, f) == f = None \/ (f \in DOMAIN s.closes /\ s.closes[f] = 0)

LEMMA CloseFdFacts ==
  ASSUME NEW s \in Members, NEW f, Open(s, f)
  PROVE  /\ CloseFd(s, f) \in Members
         /\ CloseFd(s, f) = [s EXCEPT !.closes = CloseFd(s, f).closes]
         /\ DOMAIN CloseFd(s, f).closes = DOMAIN s.closes
         /\ \A g \in DOMAIN s.closes :
              CloseFd(s, f).closes[g] = IF g = f THEN 1 ELSE s.closes[g]
         /\ None \notin DOMAIN s.closes
  <1>0. PICK p \in FdPairs : s.closes \in [{p[1], p[2]} -> {0, 1}]
    BY DEF Members
  <1>1. p[1] \in Nat /\ p[2] \in Nat
    BY FdAssumption
  <1>2. None \notin DOMAIN s.closes
    BY <1>0, <1>1 DEF None
  <1>3. CASE f = None
    <2>1. CloseFd(s, f) = s
      BY <1>3 DEF CloseFd
    <2>2. s = [s EXCEPT !.closes = s.closes]
      BY DEF Members
    <2> QED
      BY <1>2, <1>3, <2>1, <2>2
  <1>4. CASE f # None
    <2> DEFINE c == [s.closes EXCEPT ![f] = @ + 1]
    <2>1. f \in DOMAIN s.closes /\ s.closes[f] = 0
      BY <1>4 DEF Open
    <2>2. c \in [{p[1], p[2]} -> {0, 1}] /\ DOMAIN c = DOMAIN s.closes
      BY <1>0, <2>1
    <2>3. \A g \in DOMAIN s.closes : c[g] = IF g = f THEN 1 ELSE s.closes[g]
      BY <2>1
    <2>4. CloseFd(s, f) = [s EXCEPT !.closes = c]
      BY <1>4 DEF CloseFd, Members
    <2> HIDE DEF c
    <2>5. [s EXCEPT !.closes = c] \in Members /\ [s EXCEPT !.closes = c].closes = c
      BY <2>2 DEF Members
    <2>6. CloseFd(s, f).closes = c
      BY <2>4, <2>5
    <2>7. CloseFd(s, f) = [s EXCEPT !.closes = CloseFd(s, f).closes]
      BY <2>4, <2>6
    <2> QED
      BY <1>2, <2>2, <2>3, <2>4, <2>5, <2>6, <2>7
  <1> QED
    BY <1>3, <1>4

(* What a step that lets go of fds has to see to, the rest of the stream   *)
(* being as it was.                                                        *)
Same(s, t) ==
  /\ t.err = s.err /\ t.outbuf = s.outbuf /\ t.wire = s.wire
  /\ t.accepted = s.accepted /\ t.inbuf = s.inbuf /\ t.cbset = s.cbset
  /\ t.is_flushing = s.is_flushing /\ t.max_outbuf_size = s.max_outbuf_size

LEMMA OpenFds ==
  ASSUME NEW s \in Members, FdsHeld(s)
  PROVE  Open(s, s.rfd) /\ Open(s, s.wfd)
  BY DEF FdsHeld, Held, Open

LEMMA ShutWriteGood ==
  ASSUME NEW s, Good(s)
  PROVE  /\ Good(ShutWrite(s)) /\ Later(s, ShutWrite(s)) /\ Same(s, ShutWrite(s))
         /\ Held(ShutWrite(s)) \subseteq Held(s) /\ ShutWrite(s).closed = s.closed
  <1>0. s \in Members /\ FdsHeld(s) /\ CallbackDue(s) /\ BytesKept(s) /\ Open(s, s.wfd)
    BY OpenFds DEF Good
  <1>1. CASE ~StopsWriting(s)
    <2>1. ShutWrite(s) = s
      BY <1>1 DEF ShutWrite
    <2> QED
      BY <1>0, <2>1, LaterSame DEF Same
  <1>2. CASE StopsWriting(s)
    <2> DEFINE r == IF s.rfd = s.wfd THEN s ELSE CloseFd(s, s.wfd)
               c == r.closes
               t == [s EXCEPT !.closes = c, !.shutdown_write = TRUE, !.wfd = None]
    <2>1. /\ r \in Members /\ r = [s EXCEPT !.closes = c]
          /\ DOMAIN c = DOMAIN s.closes /\ None \notin DOMAIN s.closes
          /\ \A g \in DOMAIN s.closes :
               c[g] = IF s.rfd # s.wfd /\ g = s.wfd THEN 1 ELSE s.closes[g]
      <3>1. CASE s.rfd = s.wfd
        <4>1. s = [s EXCEPT !.closes = s.closes]
          BY <1>0 DEF Members
        <4> QED
          BY <1>0, <3>1, <4>1, CloseFdFacts
      <3>2. CASE s.rfd # s.wfd
        BY <1>0, <3>2, CloseFdFacts
      <3> QED
        BY <3>1, <3>2
    <2>2. ShutWrite(s) = [r EXCEPT !.shutdown_write = TRUE, !.wfd = None]
      BY <1>2 DEF ShutWrite
    <2>3. c \in UNION {[{p[1], p[2]} -> {0, 1}] : p \in FdPairs}
      BY <2>1 DEF Members
    <2> HIDE DEF r, c
    <2>4. ShutWrite(s) = t
      BY <1>0, <2>1, <2>2 DEF Members
    <2>5. /\ t \in Members /\ t.closes = c /\ t.wfd = None /\ t.rfd = s.rfd
          /\ t.shutdown_write = TRUE /\ t.stop_write = s.stop_write
          /\ t.closed = s.closed /\ t.closecb = s.closecb /\ t.cbcalls = s.cbcalls
          /\ Same(s, t)
      BY <1>0, <2>3 DEF Members, Same
    <2>6. s.stop_write /\ s.outbuf = <<>>
      BY <1>2 DEF StopsWriting
    <2> HIDE DEF t
    <2>7. Held(t) = {s.rfd} \ {None}
      BY <2>5 DEF Held
    <2>8. Held(t) \subseteq Held(s)
      BY <2>7 DEF Held
    <2>9. FdsHeld(t)
      BY <1>0, <2>1, <2>5, <2>7 DEF FdsHeld, Held
    <2>10. CallbackDue(t)
      BY <1>0, <2>5 DEF CallbackDue, Same
    <2>11. isok(t) => isok(s)
      BY <2>5 DEF isok, Same
    <2>12. BytesKept(t)
      BY <1>0, <2>5, <2>6, <2>11 DEF BytesKept, Same
    <2>13. Later(s, t)
      <3>1. Len(s.outbuf) \in Nat
        BY <1>0 DEF Members
      <3> QED
        BY <2>5, <2>11, <3>1 DEF Later, Same
    <2> QED
      BY <2>4, <2>5, <2>8, <2>9, <2>10, <2>12, <2>13 DEF Good
  <1> QED
    BY <1>1, <1>2

LEMMA ShutReadGood ==
  ASSUME NEW s, Good(s)
  PROVE  /\ Good(ShutRead(s)) /\ Later(s, ShutRead(s)) /\ Same(s, ShutRead(s))
         /\ Held(ShutRead(s)) \subseteq Held(s) /\ ShutRead(s).closed = s.closed
  <1>0. s \in Members /\ FdsHeld(s) /\ CallbackDue(s) /\ BytesKept(s) /\ Open(s, s.rfd)
    BY OpenFds DEF Good
  <1>1. CASE ~(s.stop_read /\ ~s.shutdown_read /\ s.inbuf = 0)
    <2>1. ShutRead(s) = s
      BY <1>1 DEF ShutRead
    <2> QED
      BY <1>0, <2>1, LaterSame DEF Same
  <1>2. CASE s.stop_read /\ ~s.shutdown_read /\ s.inbuf = 0
    <2> DEFINE r == IF s.rfd = s.wfd THEN s ELSE CloseFd(s, s.rfd)
               c == r.closes
               t == [s EXCEPT !.closes = c, !.shutdown_read = TRUE, !.rfd = None]
    <2>1. /\ r \in Members /\ r = [s EXCEPT !.closes = c]
          /\ DOMAIN c = DOMAIN s.closes /\ None \notin DOMAIN s.closes
          /\ \A g \in DOMAIN s.closes :
               c[g] = IF s.rfd # s.wfd /\ g = s.rfd THEN 1 ELSE s.closes[g]
      <3>1. CASE s.rfd = s.wfd
        <4>1. s = [s EXCEPT !.closes = s.closes]
          BY <1>0 DEF Members
        <4> QED
          BY <1>0, <3>1, <4>1, CloseFdFacts
      <3>2. CASE s.rfd # s.wfd
        BY <1>0, <3>2, CloseFdFacts
      <3> QED
        BY <3>1, <3>2
    <2>2. ShutRead(s) = [r EXCEPT !.shutdown_read = TRUE, !.rfd = None]
      BY <1>2 DEF ShutRead
    <2>3. c \in UNION {[{p[1], p[2]} -> {0, 1}] : p \in FdPairs}
      BY <2>1 DEF Members
    <2> HIDE DEF r, c
    <2>4. ShutRead(s) = t
      BY <1>0, <2>1, <2>2 DEF Members
    <2>5. /\ t \in Members /\ t.closes = c /\ t.rfd = None /\ t.wfd = s.wfd
          /\ t.shutdown_write = s.shutdown_write /\ t.stop_write = s.stop_write
          /\ t.closed = s.closed /\ t.closecb = s.closecb /\ t.cbcalls = s.cbcalls
          /\ Same(s, t)
      BY <1>0, <2>3 DEF Members, Same
    <2> HIDE DEF t
    <2>7. Held(t) = {s.wfd} \ {None}
      BY <2>5 DEF Held
    <2>8. Held(t) \subseteq Held(s)
      BY <2>7 DEF Held
    <2>9. FdsHeld(t)
      BY <1>0, <2>1, <2>5, <2>7 DEF FdsHeld, Held
    <2>10. CallbackDue(t)
      BY <1>0, <2>5 DEF CallbackDue, Same
    <2>11. isok(t) => isok(s)
      BY <2>5 DEF isok, Same
    <2>12. BytesKept(t)
      BY <1>0, <2>5, <2>11 DEF BytesKept, Same
    <2>13. Later(s, t)
      <3>1. Len(s.outbuf) \in Nat
        BY <1>0 DEF Members
      <3> QED
        BY <2>5, <2>11, <3>1 DEF Later, Same
    <2> QED
      BY <2>4, <2>5, <2>8, <2>9, <2>10, <2>12, <2>13 DEF Good
  <1> QED
    BY <1>1, <1>2

(* noread() and nowrite() in any order, on a stream that is being closed   *)
(* or not.                                                                 *)
LEMMA ShutDownGood ==
  ASSUME NEW s, Good(s)
  PROVE  /\ Good(ShutDown(s)) /\ Later(s, ShutDown(s)) /\ Same(s, ShutDown(s))
         /\ Held(ShutDown(s)) \subseteq Held(s) /\ ShutDown(s).closed = s.closed
  <1> DEFINE t == ShutWrite(s)
             u == ShutRead(t)
  <1>1. /\ Good(t) /\ Later(s, t) /\ Same(s, t)
        /\ Held(t) \subseteq Held(s) /\ t.closed = s.closed
    BY ShutWriteGood
  <1>2. ShutDown(s) = IF StopsEarly(s) THEN t ELSE u
    BY DEF ShutDown
  <1> HIDE DEF t
  <1>3. /\ Good(u) /\ Later(t, u) /\ Same(t, u)
        /\ Held(u) \subseteq Held(t) /\ u.closed = t.closed
    BY <1>1, ShutReadGood
  <1> HIDE DEF u
  <1>4. Later(s, u)
    BY <1>1, <1>3, LaterTrans DEF Good
  <1> QED
    BY <1>1, <1>2, <1>3, <1>4 DEF Same

----------------------------------------------------------------------------
(* The close callback, which may call noread() and nowrite().              *)
LEMMA CallbackGood ==
  ASSUME NEW s, Good(s), NEW t \in CloseCallback(s)
  PROVE  /\ Good(t) /\ Later(s, t) /\ Same(s, t)
         /\ Held(t) \subseteq Held(s) /\ t.closed = s.closed
  <1>0. s \in Members
    BY DEF Good
  <1>1. CASE t = s
    BY <1>0, <1>1, LaterSame DEF Same
  <1>2. ASSUME NEW v, v \in {[s EXCEPT !.stop_read = TRUE], [s EXCEPT !.stop_write = TRUE]}
        PROVE  /\ Good(v) /\ Later(s, v) /\ Same(s, v)
               /\ Held(v) = Held(s) /\ v.closed = s.closed
    <2>1. /\ v \in Members /\ v.rfd = s.rfd /\ v.wfd = s.wfd /\ v.closes = s.closes
          /\ v.closed = s.closed /\ v.closecb = s.closecb /\ v.cbcalls = s.cbcalls
          /\ v.shutdown_write = s.shutdown_write /\ (s.stop_write => v.stop_write)
          /\ Same(s, v)
      BY <1>0, <1>2, ZenonT(30) DEF Members, Same
    <2>2. Held(v) = Held(s) /\ isok(v) = isok(s)
      BY <2>1 DEF Held, isok, Same
    <2>3. FdsHeld(v) /\ CallbackDue(v) /\ BytesKept(v)
      BY <2>1, <2>2 DEF Good, FdsHeld, CallbackDue, BytesKept, Same
    <2>4. Len(s.outbuf) \in Nat
      BY <1>0 DEF Members
    <2>5. Later(s, v)
      BY <2>1, <2>2, <2>4 DEF Later, Same
    <2> QED
      BY <2>1, <2>2, <2>3, <2>5 DEF Good
  <1>3. ASSUME NEW v, v \in {[s EXCEPT !.stop_read = TRUE], [s EXCEPT !.stop_write = TRUE]},
               t = ShutDown(v)
        PROVE  /\ Good(t) /\ Later(s, t) /\ Same(s, t)
               /\ Held(t) \subseteq Held(s) /\ t.closed = s.closed
    <2>1. /\ Good(v) /\ Later(s, v) /\ Same(s, v)
          /\ Held(v) = Held(s) /\ v.closed = s.closed
      BY <1>2, <1>3
    <2>2. /\ Good(t) /\ Later(v, t) /\ Same(v, t)
          /\ Held(t) \subseteq Held(v) /\ t.closed = v.closed
      BY <1>3, <2>1, ShutDownGood
    <2>3. Later(s, t)
      BY <2>1, <2>2, LaterTrans DEF Good
    <2> QED
      BY <2>1, <2>2, <2>3 DEF Same
  <1> QED
    BY <1>1, <1>3 DEF CloseCallback

(* The end of close(): whatever the callback has shut down, each fd that   *)
(* is left is closed.                                                      *)
LEMMA FdsReleased ==
  ASSUME NEW u, Good(u), u.closed,
         NEW t, t = [CloseFd(IF u.wfd = u.rfd THEN u ELSE CloseFd(u, u.wfd), u.rfd)
                       EXCEPT !.rfd = None, !.wfd = None]
  PROVE  Sound(t) /\ Later(u, t) /\ t.closed
  <1>0. /\ u \in Members /\ FdsHeld(u) /\ CallbackDue(u) /\ BytesKept(u)
        /\ Open(u, u.wfd) /\ Open(u, u.rfd)
    BY OpenFds DEF Good
  <1> DEFINE r == IF u.wfd = u.rfd THEN u ELSE CloseFd(u, u.wfd)
             x == CloseFd(r, u.rfd)
             c == x.closes
  <1>1. /\ r \in Members /\ r = [u EXCEPT !.closes = r.closes] /\ None \notin DOMAIN u.closes
        /\ DOMAIN r.closes = DOMAIN u.closes
        /\ \A g \in DOMAIN u.closes :
             r.closes[g] = IF u.wfd # u.rfd /\ g = u.wfd THEN 1 ELSE u.closes[g]
    <2>1. CASE u.wfd = u.rfd
      <3>1. u = [u EXCEPT !.closes = u.closes]
        BY <1>0 DEF Members
      <3> QED
        BY <1>0, <2>1, <3>1, CloseFdFacts
    <2>2. CASE u.wfd # u.rfd
      BY <1>0, <2>2, CloseFdFacts
    <2> QED
      BY <2>1, <2>2
  <1>2. t = [x EXCEPT !.rfd = None, !.wfd = None]
    OBVIOUS
  <1> HIDE DEF r
  <1>3. Open(r, u.rfd)
    BY <1>0, <1>1 DEF Open
  <1>4. /\ x \in Members /\ x = [r EXCEPT !.closes = c]
        /\ DOMAIN c = DOMAIN r.closes
        /\ \A g \in DOMAIN r.closes : c[g] = IF g = u.rfd THEN 1 ELSE r.closes[g]
    BY <1>1, <1>3, CloseFdFacts
  <1>5. c \in UNION {[{p[1], p[2]} -> {0, 1}] : p \in FdPairs}
    BY <1>4 DEF Members
  <1> HIDE DEF x, c
  <1>6. t = [u EXCEPT !.closes = c, !.rfd = None, !.wfd = None]
    <2>1. x = [u EXCEPT !.closes = c]
      BY <1>0, <1>1, <1>4 DEF Members
    <2> QED
      BY <1>0, <1>2, <2>1 DEF Members
  <1>7. /\ t \in Members /\ t.closes = c /\ t.rfd = None /\ t.wfd = None
        /\ t.shutdown_write = u.shutdown_write /\ t.stop_write = u.stop_write
        /\ t.closed = u.closed /\ t.closecb = u.closecb /\ t.cbcalls = u.cbcalls
        /\ Same(u, t)
    <2> DEFINE w == [u EXCEPT !.closes = c, !.rfd = None, !.wfd = None]
    <2>1. /\ w \in Members /\ w.closes = c /\ w.rfd = None /\ w.wfd = None
          /\ w.shutdown_write = u.shutdown_write /\ w.stop_write = u.stop_write
          /\ w.closed = u.closed /\ w.closecb = u.closecb /\ w.cbcalls = u.cbcalls
          /\ Same(u, w)
      BY <1>0, <1>5 DEF Members, Same
    <2> HIDE DEF w
    <2>2. t = w
      BY <1>6 DEF w
    <2> QED
      BY <2>1, <2>2
  <1>8. Held(t) = {}
    BY <1>7 DEF Held
  <1>9. \A g \in DOMAIN u.closes : c[g] = 1
    <2> SUFFICES ASSUME NEW g \in DOMAIN u.closes
                 PROVE  c[g] = 1
      OBVIOUS
    <2>1. g \notin Held(u) => u.closes[g] = 1
      BY <1>0 DEF FdsHeld
    <2>2. g \in Held(u) => g = u.rfd \/ g = u.wfd
      BY DEF Held
    <2> QED
      BY <1>1, <1>4, <2>1, <2>2
  <1>10. FdsHeld(t)
    BY <1>1, <1>4, <1>7, <1>8, <1>9 DEF FdsHeld
  <1>11. CallbackDue(t)
    BY <1>0, <1>7 DEF CallbackDue, Same
  <1>12. ~isok(t)
    BY <1>7 DEF isok
  <1>13. BytesKept(t)
    BY <1>0, <1>7, <1>12 DEF BytesKept, Same
  <1>14. Len(u.outbuf) \in Nat /\ t.closed
    <2>1. Len(u.outbuf) \in Nat
      BY <1>0 DEF Members
    <2>2. t.closed
      BY <1>7, Zenon
    <2> QED
      BY <2>1, <2>2
  <1>15. Later(u, t)
    BY <1>7, <1>12, <1>14 DEF Later, Same
  <1> QED
    BY <1>7, <1>8, <1>10, <1>11, <1>13, <1>14, <1>15 DEF Good, Sound

LEMMA ClosingSound ==
  ASSUME NEW s, Good(s), NEW t \in Closing(s)
  PROVE  Sound(t) /\ Later(s, t) /\ t.closed
  <1> DEFINE c == [s EXCEPT !.closed = TRUE, !.closecb = FALSE,
                            !.cbcalls = IF s.closecb THEN @ + 1 ELSE @]
  <1>0. s \in Members /\ FdsHeld(s) /\ CallbackDue(s) /\ BytesKept(s)
    BY DEF Good
  <1>1. PICK u \in IF s.closecb THEN CloseCallback(c) ELSE {c} :
          t = [CloseFd(IF u.wfd = u.rfd THEN u ELSE CloseFd(u, u.wfd), u.rfd)
                 EXCEPT !.rfd = None, !.wfd = None]
    BY DEF Closing
  <1>2. /\ c \in Members /\ c.rfd = s.rfd /\ c.wfd = s.wfd /\ c.closes = s.closes
        /\ c.closed = TRUE /\ c.closecb = FALSE /\ c.cbcalls = IF s.cbset THEN 1 ELSE 0
        /\ c.shutdown_write = s.shutdown_write /\ c.stop_write = s.stop_write
        /\ Same(s, c)
    <2> DEFINE n == IF s.closecb THEN s.cbcalls + 1 ELSE s.cbcalls
    <2>1. n \in {0, 1} /\ n = IF s.cbset THEN 1 ELSE 0
      BY <1>0 DEF CallbackDue, Members
    <2>2. c = [s EXCEPT !.closed = TRUE, !.closecb = FALSE, !.cbcalls = n]
      BY DEF Members
    <2> HIDE DEF n, c
    <2>3. c.cbcalls = n
      BY <1>0, <2>2 DEF Members
    <2> QED
      BY <1>0, <2>1, <2>2, <2>3, ZenonT(30) DEF Members, Same
  <1> HIDE DEF c
  <1>3. Held(c) = Held(s) /\ ~isok(c)
    BY <1>2 DEF Held, isok
  <1>4. FdsHeld(c) /\ CallbackDue(c) /\ BytesKept(c)
    BY <1>0, <1>2, <1>3 DEF FdsHeld, CallbackDue, BytesKept, Same
  <1>5. Good(c) /\ Later(s, c)
    <2>1. Len(s.outbuf) \in Nat
      BY <1>0 DEF Members
    <2> QED
      BY <1>2, <1>3, <1>4, <2>1 DEF Good, Later, Same
  <1>6. Good(u) /\ Later(c, u) /\ u.closed
    <2>1. CASE u = c
      BY <1>2, <1>5, <2>1, LaterSame
    <2>2. CASE u \in CloseCallback(c)
      BY <1>2, <1>5, <2>2, CallbackGood
    <2> QED
      BY <2>1, <2>2
  <1>7. Sound(t) /\ Later(u, t) /\ t.closed
    BY <1>1, <1>6, FdsReleased
  <1>8. Later(s, t)
    <2>1. Later(s, u)
      BY <1>0, <1>2, <1>5, <1>6, LaterTrans DEF Good
    <2> QED
      BY <1>0, <1>6, <1>7, <2>1, LaterTrans DEF Good, Sound
  <1> QED
    BY <1>7, <1>8

(* close() within a flush.                                                 *)
LEMMA CloseInFlushSound ==
  ASSUME NEW s, Good(s), s.closed => Held(s) = {}, NEW t \in CloseInFlush(s)
  PROVE  Sound(t) /\ Later(s, t) /\ t.closed
  <1>1. CASE s.closed
    <2>1. t = s
      BY <1>1 DEF CloseInFlush
    <2> QED
      BY <1>1, <2>1, LaterSame DEF Sound, Good
  <1>2. CASE ~s.closed
    BY <1>2, ClosingSound DEF CloseInFlush
  <1> QED
    BY <1>1, <1>2

----------------------------------------------------------------------------
(* Steps that change none of the members the invariant is about, except    *)
(* for an error, or for the output buffer of a stream that is not ok.      *)
Kept(s, t) ==
  /\ t.rfd = s.rfd /\ t.wfd = s.wfd /\ t.closes = s.closes
  /\ t.closed = s.closed /\ (s.err => t.err)
  /\ t.cbset = s.cbset /\ t.closecb = s.closecb /\ t.cbcalls = s.cbcalls
  /\ (s.stop_write => t.stop_write) /\ t.shutdown_write = s.shutdown_write
  /\ t.wire = s.wire /\ t.accepted = s.accepted
  /\ t.outbuf = s.outbuf \/ ~isok(t)

LEMMA KeptSound ==
  ASSUME NEW s, Sound(s), NEW t \in Members, Kept(s, t)
  PROVE  Sound(t) /\ (isok(t) => isok(s))
  <1>1. Held(t) = Held(s) /\ (isok(t) => isok(s))
    BY DEF Kept, Held, isok
  <1>2. FdsHeld(t)
    BY <1>1 DEF Sound, Good, FdsHeld, Kept
  <1>3. CallbackDue(t)
    BY DEF Sound, Good, CallbackDue, Kept
  <1>4. BytesKept(t)
    BY <1>1 DEF Sound, Good, BytesKept, Kept
  <1>5. t.closed => Held(t) = {}
    BY <1>1 DEF Sound, Kept
  <1> QED
    BY <1>1, <1>2, <1>3, <1>4, <1>5 DEF Sound, Good

(* The buffer of a working stream, and what a uwrite of r bytes from it    *)
(* leaves.                                                                 *)
LEMMA WrittenFacts ==
  ASSUME NEW s, Good(s), isok(s), NEW r \in 0 .. Len(s.outbuf)
  PROVE  /\ Len(s.wire) \in Nat /\ Len(s.outbuf) \in Nat
         /\ Len(s.wire) + Len(s.outbuf) = s.accepted
         /\ Len(s.wire) + r \in Nat /\ Len(s.wire) + r <= s.accepted
         /\ s.accepted - (Len(s.wire) + r) \in 0 .. Len(s.outbuf)
         /\ s.accepted - (Len(s.wire) + r) \in Nat
         /\ s.wire \o SubSeq(s.outbuf, 1, r) = Numbered(0, Len(s.wire) + r)
         /\ SubSeq(s.outbuf, r + 1, Len(s.outbuf))
              = Numbered(Len(s.wire) + r, s.accepted - (Len(s.wire) + r))
  <1> DEFINE w == Len(s.wire)
             n == s.accepted - w
  <1>1. /\ s \in Members /\ w <= s.accepted
        /\ s.wire = Numbered(0, w) /\ s.outbuf = Numbered(w, n)
    BY DEF Good, BytesKept
  <1>2. w \in Nat /\ s.accepted \in Nat
    BY <1>1, StreamAssumption DEF Members
  <1> HIDE DEF w
  <1>3. n \in Nat /\ w + n = s.accepted
    BY <1>1, <1>2
  <1> HIDE DEF n
  <1>4. Len(s.outbuf) = n
    BY <1>1, <1>2, <1>3, NumberedType
  <1>5. r \in 0 .. n /\ r \in Nat
    BY <1>3, <1>4
  <1>6. SubSeq(s.outbuf, 1, r) = Numbered(w, r)
    BY <1>1, <1>2, <1>3, <1>5, NumberedCut
  <1>7. SubSeq(s.outbuf, r + 1, n) = Numbered(w + r, n - r)
    BY <1>1, <1>2, <1>3, <1>5, NumberedCut
  <1>8. Numbered(0, w) \o Numbered(0 + w, r) = Numbered(0, w + r)
    BY <1>2, <1>5, NumberedJoin
  <1>9. 0 + w = w /\ n - r = s.accepted - (w + r)
    BY <1>2, <1>3, <1>5
  <1>10. s.wire \o SubSeq(s.outbuf, 1, r) = Numbered(0, w + r)
    BY <1>1, <1>6, <1>8, <1>9
  <1>11. SubSeq(s.outbuf, r + 1, Len(s.outbuf)) = Numbered(w + r, s.accepted - (w + r))
    BY <1>4, <1>7, <1>9
  <1>12. w + r \in Nat /\ w + r <= s.accepted /\ s.accepted - (w + r) \in 0 .. n
         /\ s.accepted - (w + r) \in Nat
    BY <1>2, <1>3, <1>5
  <1> QED
    BY <1>2, <1>3, <1>4, <1>10, <1>11, <1>12 DEF w

(* A uwrite of which the kernel takes r bytes, the rest being put back.    *)
LEMMA TakenSound ==
  ASSUME NEW s, Sound(s), isok(s), NEW r \in 0 .. Len(s.outbuf),
         NEW t, t = [Written(s, s.outbuf, r) EXCEPT !.outbuf = SubSeq(@, r + 1, Len(@))]
  PROVE  Sound(t) /\ Later(s, t)
  <1> DEFINE w == Len(s.wire) + r
             a == s.wire \o SubSeq(s.outbuf, 1, r)
             b == SubSeq(s.outbuf, r + 1, Len(s.outbuf))
             x == [s EXCEPT !.wire = a, !.outbuf = b]
  <1>0. s \in Members /\ Good(s)
    BY DEF Sound, Good
  <1>00. Len(s.outbuf) \in Nat /\ s.accepted \in Nat /\ r \in Nat /\ r <= Len(s.outbuf)
    BY <1>0, MemberTypes
  <1>1. /\ Len(s.wire) \in Nat /\ Len(s.outbuf) \in Nat
        /\ Len(s.wire) + Len(s.outbuf) = s.accepted
        /\ w \in Nat /\ w <= s.accepted
        /\ s.accepted - w \in 0 .. Len(s.outbuf) /\ s.accepted - w \in Nat
        /\ a = Numbered(0, w) /\ b = Numbered(w, s.accepted - w)
    BY <1>0, WrittenFacts
  <1>3. t = x
    BY <1>0 DEF Written, Members
  <1> HIDE DEF a, b, w
  <1>4. a \in Seq(Nat) /\ Len(a) = w /\ b \in Seq(Nat) /\ Len(b) = s.accepted - w
    BY <1>1, NumberedType
  <1>5. /\ x \in Members /\ x.wire = a /\ x.outbuf = b
        /\ x.rfd = s.rfd /\ x.wfd = s.wfd /\ x.closes = s.closes
        /\ x.closed = s.closed /\ x.err = s.err
        /\ x.cbset = s.cbset /\ x.closecb = s.closecb /\ x.cbcalls = s.cbcalls
        /\ x.stop_write = s.stop_write /\ x.shutdown_write = s.shutdown_write
        /\ x.accepted = s.accepted /\ x.inbuf = s.inbuf
        /\ x.is_flushing = s.is_flushing /\ x.max_outbuf_size = s.max_outbuf_size
    BY <1>0, <1>4 DEF Members
  <1> HIDE DEF x
  <1>6. Held(x) = Held(s) /\ isok(x) = isok(s)
    BY <1>5 DEF Held, isok
  <1>7. FdsHeld(x) /\ CallbackDue(x)
    BY <1>0, <1>5, <1>6 DEF Good, FdsHeld, CallbackDue
  <1>8. s.outbuf = <<>> => b = <<>>
    <2> SUFFICES ASSUME s.outbuf = <<>>
                 PROVE  b = <<>>
      OBVIOUS
    <2>1. Len(s.outbuf) = 0
      OBVIOUS
    <2>2. s.accepted - w = 0
      BY <1>1, <2>1 DEF w
    <2> QED
      BY <1>1, <2>2, NumberedType
  <1>9. BytesKept(x)
    BY <1>0, <1>1, <1>4, <1>5, <1>6, <1>8 DEF Good, BytesKept
  <1>10. x.closed => Held(x) = {}
    BY <1>5, <1>6 DEF Sound
  <1>11. Len(b) <= Len(s.outbuf)
    <2> DEFINE n == s.accepted - w
    <2>1. n \in 0 .. Len(s.outbuf) /\ Len(b) = n
      BY <1>1, <1>4
    <2> HIDE DEF n
    <2> QED
      BY <1>00, <2>1
  <1>12. Later(s, x)
    BY <1>5, <1>6, <1>11 DEF Later
  <1> QED
    BY <1>3, <1>5, <1>7, <1>9, <1>10, <1>12 DEF Sound, Good

(* A uwrite that fails after r bytes: nothing is put back.                 *)
LEMMA LostGood ==
  ASSUME NEW s, Sound(s), isok(s), NEW r \in 0 .. Len(s.outbuf),
         NEW t, t = [[Written(s, s.outbuf, r) EXCEPT !.outbuf = <<>>] EXCEPT !.err = TRUE]
  PROVE  Sound(t) /\ Later(s, t) /\ t.outbuf = <<>>
  <1> DEFINE w == Len(s.wire) + r
             a == s.wire \o SubSeq(s.outbuf, 1, r)
             x == [s EXCEPT !.wire = a, !.outbuf = <<>>, !.err = TRUE]
  <1>0. s \in Members /\ Good(s)
    BY DEF Sound, Good
  <1>00. Len(s.outbuf) \in Nat /\ s.accepted \in Nat /\ r \in Nat /\ r <= Len(s.outbuf)
    BY <1>0, MemberTypes
  <1>1. /\ Len(s.wire) \in Nat /\ Len(s.outbuf) \in Nat
        /\ Len(s.wire) + Len(s.outbuf) = s.accepted
        /\ w \in Nat /\ w <= s.accepted
        /\ a = Numbered(0, w)
    BY <1>0, WrittenFacts
  <1>3. t = x
    BY <1>0 DEF Written, Members
  <1> HIDE DEF a, w
  <1>4. a \in Seq(Nat) /\ Len(a) = w
    BY <1>1, NumberedType
  <1>5. /\ x \in Members /\ x.wire = a /\ x.outbuf = <<>> /\ x.err = TRUE
        /\ x.rfd = s.rfd /\ x.wfd = s.wfd /\ x.closes = s.closes
        /\ x.closed = s.closed
        /\ x.cbset = s.cbset /\ x.closecb = s.closecb /\ x.cbcalls = s.cbcalls
        /\ x.stop_write = s.stop_write /\ x.shutdown_write = s.shutdown_write
        /\ x.accepted = s.accepted /\ x.inbuf = s.inbuf
        /\ x.is_flushing = s.is_flushing /\ x.max_outbuf_size = s.max_outbuf_size
    <2>1. <<>> \in Seq(Nat)
      OBVIOUS
    <2> DEFINE e == <<>>
    <2>2. e \in Seq(Nat)
      BY <2>1
    <2> HIDE DEF e
    <2>3. x = [s EXCEPT !.wire = a, !.outbuf = e, !.err = TRUE]
      BY DEF e
    <2>4. e = <<>>
      BY DEF e
    <2> QED
      BY <1>0, <1>4, <2>2, <2>3, <2>4 DEF Members
  <1> HIDE DEF x
  <1>6. Held(x) = Held(s) /\ ~isok(x)
    BY <1>5 DEF Held, isok
  <1>7. FdsHeld(x) /\ CallbackDue(x)
    BY <1>0, <1>5, <1>6 DEF Good, FdsHeld, CallbackDue
  <1>8. BytesKept(x)
    BY <1>0, <1>1, <1>4, <1>5, <1>6 DEF Good, BytesKept
  <1>9. x.closed => Held(x) = {}
    BY <1>5, <1>6 DEF Sound
  <1>10. Later(s, x)
    BY <1>1, <1>5, <1>6 DEF Later
  <1> QED
    BY <1>3, <1>5, <1>7, <1>8, <1>9, <1>10 DEF Sound, Good

(* Changes of members the invariant is not about.                          *)
LEMMA FlagsSound ==
  ASSUME NEW s, Sound(s), NEW t \in Members, Kept(s, t), Same(s, t)
  PROVE  Sound(t) /\ Later(s, t) /\ isok(t) = isok(s)
  <1>1. Len(s.outbuf) \in Nat
    BY MemberTypes DEF Sound, Good
  <1>2. isok(t) = isok(s)
    BY DEF isok, Kept, Same
  <1>3. Later(s, t)
    BY <1>1, <1>2 DEF Kept, Same, Later
  <1> QED
    BY <1>2, <1>3, KeptSound

LEMMA ErrSound ==
  ASSUME NEW s, Sound(s)
  PROVE  Sound([s EXCEPT !.err = TRUE]) /\ Later(s, [s EXCEPT !.err = TRUE])
  <1> DEFINE t == [s EXCEPT !.err = TRUE]
  <1>0. s \in Members /\ Len(s.outbuf) \in Nat
    BY MemberTypes DEF Sound, Good
  <1>1. /\ t \in Members /\ t.outbuf = s.outbuf
        /\ t.rfd = s.rfd /\ t.wfd = s.wfd /\ t.closes = s.closes
        /\ t.closed = s.closed /\ t.err = TRUE
        /\ t.cbset = s.cbset /\ t.closecb = s.closecb /\ t.cbcalls = s.cbcalls
        /\ t.stop_write = s.stop_write /\ t.shutdown_write = s.shutdown_write
        /\ t.wire = s.wire /\ t.accepted = s.accepted /\ t.inbuf = s.inbuf
        /\ t.is_flushing = s.is_flushing /\ t.max_outbuf_size = s.max_outbuf_size
    BY <1>0 DEF Members
  <1> HIDE DEF t
  <1>2. ~isok(t)
    BY <1>1 DEF isok
  <1>3. Kept(s, t) /\ Later(s, t)
    BY <1>0, <1>1, <1>2 DEF Kept, Later
  <1>4. Sound(t)
    BY <1>1, <1>3, KeptSound
  <1> QED
    BY <1>3, <1>4 DEF t

LEMMA SettledSound ==
  ASSUME NEW s, Sound(s), NEW used \in BOOLEAN,
         NEW t, t = [s EXCEPT !.want_to_flush = @ /\ ~(s.outbuf_delayed_flush /\ ~used),
                              !.outbuf = IF used /\ ~isok(s) THEN <<>> ELSE @]
  PROVE  Sound(t) /\ Later(s, t)
  <1> DEFINE b == IF used /\ ~isok(s) THEN <<>> ELSE s.outbuf
             w == s.want_to_flush /\ ~(s.outbuf_delayed_flush /\ ~used)
             x == [s EXCEPT !.want_to_flush = w, !.outbuf = b]
  <1>0. s \in Members
    BY DEF Sound, Good
  <1>1. t = x
    BY <1>0 DEF Members
  <1>2. b \in Seq(Nat) /\ Len(b) <= Len(s.outbuf) /\ (b = s.outbuf \/ ~isok(s))
    BY <1>0, MemberTypes
  <1>3. w \in BOOLEAN
    OBVIOUS
  <1> HIDE DEF b, w
  <1>4. /\ x \in Members /\ x.outbuf = b
        /\ x.rfd = s.rfd /\ x.wfd = s.wfd /\ x.closes = s.closes
        /\ x.closed = s.closed /\ x.err = s.err
        /\ x.cbset = s.cbset /\ x.closecb = s.closecb /\ x.cbcalls = s.cbcalls
        /\ x.stop_write = s.stop_write /\ x.shutdown_write = s.shutdown_write
        /\ x.wire = s.wire /\ x.accepted = s.accepted /\ x.inbuf = s.inbuf
        /\ x.is_flushing = s.is_flushing /\ x.max_outbuf_size = s.max_outbuf_size
    BY <1>0, <1>2, <1>3 DEF Members
  <1> HIDE DEF x
  <1>5. isok(x) = isok(s)
    BY <1>4 DEF isok
  <1>6. Kept(s, x)
    BY <1>2, <1>4, <1>5 DEF Kept
  <1>7. Later(s, x)
    BY <1>2, <1>4, <1>5 DEF Later
  <1> QED
    BY <1>1, <1>4, <1>6, <1>7, KeptSound

(* A buffer that is empty stays so until something is written.             *)
LEMMA StaysEmpty ==
  ASSUME NEW s \in Members, NEW t \in Members, Later(s, t), s.outbuf = <<>>
  PROVE  t.outbuf = <<>>
  <1>1. Len(s.outbuf) = 0 /\ Len(t.outbuf) <= Len(s.outbuf)
    BY DEF Later
  <1>2. t.outbuf \in Seq(Nat) /\ Len(t.outbuf) \in Nat
    BY MemberTypes
  <1> QED
    BY <1>1, <1>2

----------------------------------------------------------------------------
(* The functions of WvFlush, called within a flush.                        *)
LEMMA SharedInside ==
  ASSUME NEW s
  PROVE  /\ Inside!ShutDown(s) = ShutDown(s)
         /\ Inside!StopsEarly(s) = StopsEarly(s)
         /\ Inside!isok(s) = isok(s)
         /\ \A b, r : Inside!Written(s, b, r) = Written(s, b, r)
         /\ Inside!None = None
  BY DEF Inside!ShutDown, ShutDown, Inside!StopsEarly, StopsEarly, Inside!isok, isok,
         Inside!ShutRead, ShutRead, Inside!ShutWrite, ShutWrite, Inside!CloseFd, CloseFd,
         Inside!StopsWriting, StopsWriting, Inside!Written, Written, Inside!None, None

LEMMA MaybeAutocloseInside ==
  ASSUME NEW s, Sound(s), NEW t \in Inside!maybe_autoclose(s)
  PROVE  Sound(t) /\ Later(s, t)
  <1> DEFINE u == ShutDown(s)
  <1>1. Good(u) /\ Later(s, u) /\ (u.closed => Held(u) = {})
    BY ShutDownGood DEF Sound
  <1>2. t = u \/ t \in CloseInFlush(u)
    BY SharedInside DEF Inside!maybe_autoclose
  <1> HIDE DEF u
  <1>3. Sound(u)
    BY <1>1 DEF Sound
  <1>4. CASE t = u
    BY <1>1, <1>3, <1>4
  <1>5. CASE t \in CloseInFlush(u)
    <2>1. Sound(t) /\ Later(u, t)
      BY <1>1, <1>3, <1>5, CloseInFlushSound
    <2> QED
      BY <1>1, <1>3, <2>1, LaterTrans DEF Sound, Good
  <1> QED
    BY <1>2, <1>4, <1>5

LEMMA SeterrInside ==
  ASSUME NEW s, Sound(s), NEW t \in Inside!seterr(s)
  PROVE  Sound(t) /\ Later(s, t)
  <1>0. s \in Members
    BY DEF Sound, Good
  <1>1. CASE s.err
    <2>1. t = s
      BY <1>1 DEF Inside!seterr
    <2> QED
      BY <1>0, <2>1, LaterSame
  <1>2. CASE ~s.err
    <2> DEFINE u == [s EXCEPT !.err = TRUE]
    <2>1. t \in CloseInFlush(u)
      BY <1>2 DEF Inside!seterr
    <2>2. Sound(u) /\ Later(s, u)
      BY ErrSound
    <2> HIDE DEF u
    <2>3. Sound(t) /\ Later(u, t)
      BY <2>1, <2>2, CloseInFlushSound DEF Sound
    <2> QED
      BY <1>0, <2>2, <2>3, LaterTrans DEF Sound, Good
  <1> QED
    BY <1>1, <1>2

LEMMA UwritesInside ==
  ASSUME NEW s, Sound(s), isok(s), NEW wait \in BOOLEAN, NEW t \in Inside!Uwrites(s, wait)
  PROVE  Sound(t) /\ Later(s, t)
  <1>0. s \in Members /\ Len(s.outbuf) \in Nat
    BY MemberTypes DEF Sound, Good
  <1>1. CASE \E r \in 0 .. Len(s.outbuf) :
               t = [Written(s, s.outbuf, r) EXCEPT !.outbuf = SubSeq(@, r + 1, Len(@))]
    BY <1>1, TakenSound
  <1>2. CASE \E r \in 0 .. Len(s.outbuf) :
               t \in Inside!seterr([Written(s, s.outbuf, r) EXCEPT !.outbuf = <<>>])
    <2>1. PICK r \in 0 .. Len(s.outbuf) :
                 t \in Inside!seterr([Written(s, s.outbuf, r) EXCEPT !.outbuf = <<>>])
      BY <1>2
    <2> DEFINE v == [Written(s, s.outbuf, r) EXCEPT !.outbuf = <<>>]
               u == [v EXCEPT !.err = TRUE]
    <2>2. Sound(u) /\ Later(s, u)
      BY LostGood
    <2>3. ~v.err
      BY <1>0 DEF Written, Members, isok
    <2> HIDE DEF v
    <2>4. t \in CloseInFlush(u)
      BY <2>1, <2>3 DEF Inside!seterr, v
    <2> HIDE DEF u
    <2>5. Sound(t) /\ Later(u, t)
      BY <2>2, <2>4, CloseInFlushSound DEF Sound
    <2> QED
      BY <1>0, <2>2, <2>5, LaterTrans DEF Sound, Good
  <1> QED
    <2>1. 0 \in 0 .. Len(s.outbuf)
      BY <1>0
    <2>2. 0 .. Len(s.outbuf) - 1 \subseteq 0 .. Len(s.outbuf)
      BY <1>0
    <2> QED
      BY <1>1, <1>2, <2>1, <2>2, SharedInside DEF Inside!Uwrites, Inside!Then

(* What the loop of flush_outbuf leaves, and that an unused buffer is one  *)
(* that is empty.                                                          *)
LEMMA DrainInside ==
  ASSUME NEW s, Sound(s), NEW wait \in BOOLEAN, NEW d \in Inside!Drain(s, wait)
  PROVE  /\ Sound(d[1]) /\ Later(s, d[1])
         /\ d[2] \in BOOLEAN /\ (~d[2] => d[1].outbuf = <<>>)
  <1>1. CASE s.outbuf = <<>> \/ ~isok(s)
    <2>1. d = <<s, s.outbuf # <<>> >>
      BY <1>1, SharedInside DEF Inside!Drain
    <2>2. d[1] = s /\ d[2] = (s.outbuf # <<>>)
      BY <2>1
    <2>3. d[2] \in BOOLEAN /\ (~d[2] => s.outbuf = <<>>)
      BY <2>2
    <2> QED
      BY <2>2, <2>3, LaterSame DEF Sound, Good
  <1>2. CASE ~(s.outbuf = <<>> \/ ~isok(s))
    <2>1. PICK t \in Inside!Uwrites(s, wait) :
            d = <<t, TRUE>> \/ (d = <<t, FALSE>> /\ t.outbuf = <<>>)
      BY <1>2, SharedInside DEF Inside!Drain
    <2>2. Sound(t) /\ Later(s, t)
      BY <1>2, UwritesInside
    <2>3. d[1] = t /\ d[2] \in BOOLEAN /\ (~d[2] => t.outbuf = <<>>)
      <3>1. CASE d = <<t, TRUE>>
        BY <3>1
      <3>2. CASE d = <<t, FALSE>> /\ t.outbuf = <<>>
        BY <3>2
      <3> QED
        BY <2>1, <3>1, <3>2
    <2> QED
      BY <2>2, <2>3
  <1> QED
    BY <1>1, <1>2

LEMMA AutocloseInside ==
  ASSUME NEW s, Sound(s), NEW t \in Inside!Autoclose(s)
  PROVE  Sound(t) /\ Later(s, t)
  <1>0. s \in Members
    BY DEF Sound, Good
  <1>1. CASE t = s
    BY <1>0, <1>1, LaterSame
  <1>2. CASE t \in CloseInFlush([s EXCEPT !.autoclose = FALSE])
    <2> DEFINE u == [s EXCEPT !.autoclose = FALSE]
    <2>1. Sound(u) /\ Later(s, u)
      <3>1. u \in Members /\ Kept(s, u) /\ Same(s, u)
        BY <1>0, ZenonT(30) DEF Members, Kept, Same
      <3> HIDE DEF u
      <3> QED
        BY <3>1, FlagsSound
    <2> HIDE DEF u
    <2>2. Sound(t) /\ Later(u, t)
      BY <1>2, <2>1, CloseInFlushSound DEF Sound, u
    <2> QED
      BY <1>0, <2>1, <2>2, LaterTrans DEF Sound, Good
  <1> QED
    BY <1>1, <1>2 DEF Inside!Autoclose

LEMMA SettleInside ==
  ASSUME NEW s, Sound(s), NEW used \in BOOLEAN, NEW t \in Inside!Settle(s, used)
  PROVE  Sound(t) /\ Later(s, t)
  <1> DEFINE u == [s EXCEPT !.want_to_flush = @ /\ ~(s.outbuf_delayed_flush /\ ~used),
                            !.outbuf = IF used /\ ~isok(s) THEN <<>> ELSE @]
  <1>1. t \in Inside!maybe_autoclose(u)
    BY SharedInside DEF Inside!Settle
  <1>2. Sound(u) /\ Later(s, u)
    BY SettledSound
  <1> HIDE DEF u
  <1>3. Sound(t) /\ Later(u, t)
    BY <1>1, <1>2, MaybeAutocloseInside
  <1> QED
    BY <1>2, <1>3, LaterTrans DEF Sound, Good

(* flush_outbuf says that it is done only if the buffer is empty.          *)
LEMMA FlushOutbufInside ==
  ASSUME NEW s, Sound(s), NEW wait \in BOOLEAN, NEW f \in Inside!flush_outbuf(s, wait)
  PROVE  /\ Sound(f[1]) /\ Later(s, f[1])
         /\ f[2] \in BOOLEAN /\ (f[2] => f[1].outbuf = <<>>)
  <1>0. s \in Members
    BY DEF Sound, Good
  <1>1. CASE \E t \in Inside!maybe_autoclose(s) : s.outbuf = <<>> /\ f = <<t, TRUE>>
    <2>1. PICK t \in Inside!maybe_autoclose(s) : s.outbuf = <<>> /\ f = <<t, TRUE>>
      BY <1>1
    <2>2. Sound(t) /\ Later(s, t)
      BY MaybeAutocloseInside
    <2>3. t.outbuf = <<>>
      BY <1>0, <2>1, <2>2, StaysEmpty DEF Sound, Good
    <2>4. f[1] = t /\ f[2] = TRUE
      BY <2>1
    <2>5. f[2] \in BOOLEAN /\ (f[2] => t.outbuf = <<>>)
      BY <2>3, <2>4
    <2> QED
      BY <2>2, <2>4, <2>5, Zenon
  <1>2. CASE \E d \in Inside!Drain(s, wait) : \E u \in Inside!Autoclose(d[1]) :
               \E t \in Inside!Settle(u, d[2]) : f = <<t, ~d[2]>>
    <2>1. PICK d \in Inside!Drain(s, wait) : \E u \in Inside!Autoclose(d[1]) :
                 \E t \in Inside!Settle(u, d[2]) : f = <<t, ~d[2]>>
      BY <1>2
    <2>2. PICK u \in Inside!Autoclose(d[1]) : \E t \in Inside!Settle(u, d[2]) : f = <<t, ~d[2]>>
      BY <2>1
    <2>3. PICK t \in Inside!Settle(u, d[2]) : f = <<t, ~d[2]>>
      BY <2>2
    <2>4. /\ Sound(d[1]) /\ Later(s, d[1])
          /\ d[2] \in BOOLEAN /\ (~d[2] => d[1].outbuf = <<>>)
      BY DrainInside
    <2>5. Sound(u) /\ Later(d[1], u)
      BY <2>4, AutocloseInside
    <2>6. Sound(t) /\ Later(u, t)
      BY <2>4, <2>5, SettleInside
    <2>7. Later(d[1], t) /\ Later(s, t)
      <3>1. d[1] \in Members /\ u \in Members /\ t \in Members
        BY <2>4, <2>5, <2>6 DEF Sound, Good
      <3>2. Later(d[1], t)
        BY <2>5, <2>6, <3>1, LaterTrans
      <3> QED
        BY <1>0, <2>4, <3>1, <3>2, LaterTrans
    <2>8. ~d[2] => t.outbuf = <<>>
      BY <2>4, <2>6, <2>7, StaysEmpty DEF Sound, Good
    <2>9. f[1] = t /\ f[2] = ~d[2]
      BY <2>3
    <2>10. f[2] \in BOOLEAN /\ (f[2] => t.outbuf = <<>>)
      BY <2>4, <2>8, <2>9, Zenon
    <2> QED
      BY <2>6, <2>7, <2>9, <2>10, Zenon
  <1>3. CASE s.outbuf = <<>> /\ ~s.autoclose /\ ~s.outbuf_delayed_flush
    <2>1. f \in {<<t, TRUE>> : t \in Inside!maybe_autoclose(s)}
      BY <1>3 DEF Inside!flush_outbuf
    <2> QED
      BY <1>1, <1>3, <2>1
  <1>4. CASE ~(s.outbuf = <<>> /\ ~s.autoclose /\ ~s.outbuf_delayed_flush)
    <2>1. \E d \in Inside!Drain(s, wait) : \E u \in Inside!Autoclose(d[1]) :
            \E t \in Inside!Settle(u, d[2]) : f = <<t, ~d[2]>>
      BY <1>4 DEF Inside!flush_outbuf, Inside!Then
    <2> QED
      BY <1>2, <2>1
  <1> QED
    BY <1>3, <1>4

----------------------------------------------------------------------------
(* flush() sets is_flushing while it runs.                                 *)
LEMMA FlushingSound ==
  ASSUME NEW s, Sound(s), NEW b \in BOOLEAN, NEW t, t = [s EXCEPT !.is_flushing = b]
  PROVE  /\ Sound(t) /\ t.is_flushing = b /\ t.max_outbuf_size = s.max_outbuf_size
         /\ t.accepted = s.accepted /\ t.inbuf = s.inbuf /\ t.cbset = s.cbset
         /\ t.outbuf = s.outbuf /\ t.closed = s.closed /\ isok(t) = isok(s)
  <1>0. s \in Members
    BY DEF Sound, Good
  <1>1. /\ t \in Members /\ t.outbuf = s.outbuf
        /\ t.rfd = s.rfd /\ t.wfd = s.wfd /\ t.closes = s.closes
        /\ t.closed = s.closed /\ t.err = s.err
        /\ t.cbset = s.cbset /\ t.closecb = s.closecb /\ t.cbcalls = s.cbcalls
        /\ t.stop_write = s.stop_write /\ t.shutdown_write = s.shutdown_write
        /\ t.wire = s.wire /\ t.accepted = s.accepted /\ t.inbuf = s.inbuf
        /\ t.is_flushing = b /\ t.max_outbuf_size = s.max_outbuf_size
    BY <1>0 DEF Members
  <1>2. isok(t) = isok(s)
    BY <1>1 DEF isok
  <1>3. Kept(s, t)
    BY <1>1 DEF Kept
  <1> QED
    BY <1>1, <1>2, <1>3, KeptSound

LEMMA FlushSound ==
  ASSUME NEW s, Sound(s), NEW wait \in BOOLEAN, NEW f \in flush(s, wait)
  PROVE  /\ Sound(f[1]) /\ Later(s, f[1])
         /\ f[2] \in BOOLEAN /\ (f[2] => f[1].outbuf = <<>>)
  <1>0. s \in Members
    BY DEF Sound, Good
  <1>1. CASE s.is_flushing
    <2>1. f = <<s, FALSE>>
      BY <1>1 DEF flush
    <2>2. f[1] = s /\ f[2] = FALSE
      BY <2>1
    <2> QED
      BY <1>0, <2>2, LaterSame
  <1>2. CASE ~s.is_flushing
    <2> DEFINE v == [s EXCEPT !.is_flushing = TRUE]
               u == [s EXCEPT !.is_flushing = TRUE, !.want_to_flush = TRUE]
    <2>1. PICK g \in Inside!flush_outbuf(u, wait) :
            f = <<[g[1] EXCEPT !.is_flushing = FALSE], g[2]>>
      BY <1>2 DEF flush
    <2>2. /\ Sound(v) /\ v.is_flushing = TRUE /\ v.max_outbuf_size = s.max_outbuf_size
          /\ v.accepted = s.accepted /\ v.inbuf = s.inbuf /\ v.cbset = s.cbset
          /\ v.outbuf = s.outbuf /\ v.closed = s.closed /\ isok(v) = isok(s)
      BY FlushingSound
    <2>3. Sound(u) /\ Later(v, u)
      <3>1. u \in Members /\ Kept(v, u) /\ Same(v, u)
        BY <1>0 DEF Members, Kept, Same
      <3> HIDE DEF v, u
      <3> QED
        BY <2>2, <3>1, FlagsSound
    <2> HIDE DEF u, v
    <2>4. /\ Sound(g[1]) /\ Later(u, g[1])
          /\ g[2] \in BOOLEAN /\ (g[2] => g[1].outbuf = <<>>)
      BY <2>3, FlushOutbufInside
    <2> DEFINE h == g[1]
               t == [h EXCEPT !.is_flushing = FALSE]
    <2>5. f[1] = t /\ f[2] = g[2]
      BY <2>1
    <2>6. Sound(h) /\ Later(v, h)
      BY <2>2, <2>3, <2>4, LaterTrans DEF Sound, Good
    <2> HIDE DEF h
    <2>7. /\ Sound(t) /\ t.is_flushing = FALSE /\ t.max_outbuf_size = h.max_outbuf_size
          /\ t.accepted = h.accepted /\ t.inbuf = h.inbuf /\ t.cbset = h.cbset
          /\ t.outbuf = h.outbuf /\ t.closed = h.closed /\ isok(t) = isok(h)
      BY <2>6, FlushingSound
    <2> HIDE DEF t
    <2>8. Later(s, t)
      <3>1. s.is_flushing = FALSE
        BY <1>0, <1>2 DEF Members
      <3> QED
        BY <2>2, <2>6, <2>7, <3>1 DEF Later
    <2>9. f[2] \in BOOLEAN /\ (f[2] => t.outbuf = <<>>)
      BY <2>4, <2>5, <2>7 DEF h
    <2> QED
      BY <2>5, <2>7, <2>8, <2>9, Zenon
  <1> QED
    BY <1>1, <1>2

(* close() from outside.                                                   *)
LEMMA CloseSound ==
  ASSUME NEW s, Sound(s), NEW t \in close(s)
  PROVE  Sound(t) /\ Later(s, t) /\ t.closed
  <1>0. s \in Members
    BY DEF Sound, Good
  <1>1. CASE s.closed
    <2>1. t = s
      BY <1>1 DEF close
    <2> QED
      BY <1>0, <1>1, <2>1, LaterSame
  <1>2. CASE ~s.closed
    <2>1. PICK f \in flush(s, TRUE) : t \in Closing(f[1])
      BY <1>2 DEF close, Flush, Then
    <2>2. Sound(f[1]) /\ Later(s, f[1])
      BY FlushSound
    <2>3. Sound(t) /\ Later(f[1], t) /\ t.closed
      BY <2>1, <2>2, ClosingSound DEF Sound
    <2> QED
      BY <1>0, <2>2, <2>3, LaterTrans DEF Sound, Good
  <1> QED
    BY <1>1, <1>2

----------------------------------------------------------------------------
(* The functions of WvFlush, called outside a flush.                       *)
LEMMA SharedOutside ==
  ASSUME NEW s
  PROVE  /\ Outside!ShutDown(s) = ShutDown(s)
         /\ Outside!StopsEarly(s) = StopsEarly(s)
         /\ Outside!isok(s) = isok(s)
         /\ \A b, r : Outside!Written(s, b, r) = Written(s, b, r)
         /\ Outside!None = None
  BY DEF Outside!ShutDown, ShutDown, Outside!StopsEarly, StopsEarly, Outside!isok, isok,
         Outside!ShutRead, ShutRead, Outside!ShutWrite, ShutWrite, Outside!CloseFd, CloseFd,
         Outside!StopsWriting, StopsWriting, Outside!Written, Written, Outside!None, None

LEMMA MaybeAutocloseOutside ==
  ASSUME NEW s, Sound(s), NEW t \in Outside!maybe_autoclose(s)
  PROVE  Sound(t) /\ Later(s, t)
  <1> DEFINE u == ShutDown(s)
  <1>1. Good(u) /\ Later(s, u) /\ (u.closed => Held(u) = {})
    BY ShutDownGood DEF Sound
  <1>2. t = u \/ t \in close(u)
    BY SharedOutside DEF Outside!maybe_autoclose
  <1> HIDE DEF u
  <1>3. Sound(u)
    BY <1>1 DEF Sound
  <1>4. CASE t = u
    BY <1>1, <1>3, <1>4
  <1>5. CASE t \in close(u)
    <2>1. Sound(t) /\ Later(u, t)
      BY <1>1, <1>3, <1>5, CloseSound
    <2> QED
      BY <1>1, <1>3, <2>1, LaterTrans DEF Sound, Good
  <1> QED
    BY <1>2, <1>4, <1>5

LEMMA SeterrOutside ==
  ASSUME NEW s, Sound(s), NEW t \in Outside!seterr(s)
  PROVE  Sound(t) /\ Later(s, t)
  <1>0. s \in Members
    BY DEF Sound, Good
  <1>1. CASE s.err
    <2>1. t = s
      BY <1>1 DEF Outside!seterr
    <2> QED
      BY <1>0, <2>1, LaterSame
  <1>2. CASE ~s.err
    <2> DEFINE u == [s EXCEPT !.err = TRUE]
    <2>1. t \in close(u)
      BY <1>2 DEF Outside!seterr
    <2>2. Sound(u) /\ Later(s, u)
      BY ErrSound
    <2> HIDE DEF u
    <2>3. Sound(t) /\ Later(u, t)
      BY <2>1, <2>2, CloseSound DEF Sound
    <2> QED
      BY <1>0, <2>2, <2>3, LaterTrans DEF Sound, Good
  <1> QED
    BY <1>1, <1>2

LEMMA UwritesOutside ==
  ASSUME NEW s, Sound(s), isok(s), NEW wait \in BOOLEAN, NEW t \in Outside!Uwrites(s, wait)
  PROVE  Sound(t) /\ Later(s, t)
  <1>0. s \in Members /\ Len(s.outbuf) \in Nat
    BY MemberTypes DEF Sound, Good
  <1>1. CASE \E r \in 0 .. Len(s.outbuf) :
               t = [Written(s, s.outbuf, r) EXCEPT !.outbuf = SubSeq(@, r + 1, Len(@))]
    BY <1>1, TakenSound
  <1>2. CASE \E r \in 0 .. Len(s.outbuf) :
               t \in Outside!seterr([Written(s, s.outbuf, r) EXCEPT !.outbuf = <<>>])
    <2>1. PICK r \in 0 .. Len(s.outbuf) :
                 t \in Outside!seterr([Written(s, s.outbuf, r) EXCEPT !.outbuf = <<>>])
      BY <1>2
    <2> DEFINE v == [Written(s, s.outbuf, r) EXCEPT !.outbuf = <<>>]
               u == [v EXCEPT !.err = TRUE]
    <2>2. Sound(u) /\ Later(s, u)
      BY LostGood
    <2>3. ~v.err
      BY <1>0 DEF Written, Members, isok
    <2> HIDE DEF v
    <2>4. t \in close(u)
      BY <2>1, <2>3 DEF Outside!seterr, v
    <2> HIDE DEF u
    <2>5. Sound(t) /\ Later(u, t)
      BY <2>2, <2>4, CloseSound DEF Sound
    <2> QED
      BY <1>0, <2>2, <2>5, LaterTrans DEF Sound, Good
  <1> QED
    <2>1. 0 \in 0 .. Len(s.outbuf)
      BY <1>0
    <2>2. 0 .. Len(s.outbuf) - 1 \subseteq 0 .. Len(s.outbuf)
      BY <1>0
    <2> QED
      BY <1>1, <1>2, <2>1, <2>2, SharedOutside DEF Outside!Uwrites, Outside!Then

(* What the loop of flush_outbuf leaves, and that an unused buffer is one  *)
(* that is empty.                                                          *)
LEMMA DrainOutside ==
  ASSUME NEW s, Sound(s), NEW wait \in BOOLEAN, NEW d \in Outside!Drain(s, wait)
  PROVE  /\ Sound(d[1]) /\ Later(s, d[1])
         /\ d[2] \in BOOLEAN /\ (~d[2] => d[1].outbuf = <<>>)
  <1>1. CASE s.outbuf = <<>> \/ ~isok(s)
    <2>1. d = <<s, s.outbuf # <<>> >>
      BY <1>1, SharedOutside DEF Outside!Drain
    <2>2. d[1] = s /\ d[2] = (s.outbuf # <<>>)
      BY <2>1
    <2>3. d[2] \in BOOLEAN /\ (~d[2] => s.outbuf = <<>>)
      BY <2>2
    <2> QED
      BY <2>2, <2>3, LaterSame DEF Sound, Good
  <1>2. CASE ~(s.outbuf = <<>> \/ ~isok(s))
    <2>1. PICK t \in Outside!Uwrites(s, wait) :
            d = <<t, TRUE>> \/ (d = <<t, FALSE>> /\ t.outbuf = <<>>)
      BY <1>2, SharedOutside DEF Outside!Drain
    <2>2. Sound(t) /\ Later(s, t)
      BY <1>2, UwritesOutside
    <2>3. d[1] = t /\ d[2] \in BOOLEAN /\ (~d[2] => t.outbuf = <<>>)
      <3>1. CASE d = <<t, TRUE>>
        BY <3>1
      <3>2. CASE d = <<t, FALSE>> /\ t.outbuf = <<>>
        BY <3>2
      <3> QED
        BY <2>1, <3>1, <3>2
    <2> QED
      BY <2>2, <2>3
  <1> QED
    BY <1>1, <1>2

LEMMA AutocloseOutside ==
  ASSUME NEW s, Sound(s), NEW t \in Outside!Autoclose(s)
  PROVE  Sound(t) /\ Later(s, t)
  <1>0. s \in Members
    BY DEF Sound, Good
  <1>1. CASE t = s
    BY <1>0, <1>1, LaterSame
  <1>2. CASE t \in close([s EXCEPT !.autoclose = FALSE])
    <2> DEFINE u == [s EXCEPT !.autoclose = FALSE]
    <2>1. Sound(u) /\ Later(s, u)
      <3>1. u \in Members /\ Kept(s, u) /\ Same(s, u)
        BY <1>0, ZenonT(30) DEF Members, Kept, Same
      <3> HIDE DEF u
      <3> QED
        BY <3>1, FlagsSound
    <2> HIDE DEF u
    <2>2. Sound(t) /\ Later(u, t)
      BY <1>2, <2>1, CloseSound DEF Sound, u
    <2> QED
      BY <1>0, <2>1, <2>2, LaterTrans DEF Sound, Good
  <1> QED
    BY <1>1, <1>2 DEF Outside!Autoclose

LEMMA SettleOutside ==
  ASSUME NEW s, Sound(s), NEW used \in BOOLEAN, NEW t \in Outside!Settle(s, used)
  PROVE  Sound(t) /\ Later(s, t)
  <1> DEFINE u == [s EXCEPT !.want_to_flush = @ /\ ~(s.outbuf_delayed_flush /\ ~used),
                            !.outbuf = IF used /\ ~isok(s) THEN <<>> ELSE @]
  <1>1. t \in Outside!maybe_autoclose(u)
    BY SharedOutside DEF Outside!Settle
  <1>2. Sound(u) /\ Later(s, u)
    BY SettledSound
  <1> HIDE DEF u
  <1>3. Sound(t) /\ Later(u, t)
    BY <1>1, <1>2, MaybeAutocloseOutside
  <1> QED
    BY <1>2, <1>3, LaterTrans DEF Sound, Good

(* flush_outbuf says that it is done only if the buffer is empty.          *)
LEMMA FlushOutbufOutside ==
  ASSUME NEW s, Sound(s), NEW wait \in BOOLEAN, NEW f \in Outside!flush_outbuf(s, wait)
  PROVE  /\ Sound(f[1]) /\ Later(s, f[1])
         /\ f[2] \in BOOLEAN /\ (f[2] => f[1].outbuf = <<>>)
  <1>0. s \in Members
    BY DEF Sound, Good
  <1>1. CASE \E t \in Outside!maybe_autoclose(s) : s.outbuf = <<>> /\ f = <<t, TRUE>>
    <2>1. PICK t \in Outside!maybe_autoclose(s) : s.outbuf = <<>> /\ f = <<t, TRUE>>
      BY <1>1
    <2>2. Sound(t) /\ Later(s, t)
      BY MaybeAutocloseOutside
    <2>3. t.outbuf = <<>>
      BY <1>0, <2>1, <2>2, StaysEmpty DEF Sound, Good
    <2>4. f[1] = t /\ f[2] = TRUE
      BY <2>1
    <2>5. f[2] \in BOOLEAN /\ (f[2] => t.outbuf = <<>>)
      BY <2>3, <2>4
    <2> QED
      BY <2>2, <2>4, <2>5, Zenon
  <1>2. CASE \E d \in Outside!Drain(s, wait) : \E u \in Outside!Autoclose(d[1]) :
               \E t \in Outside!Settle(u, d[2]) : f = <<t, ~d[2]>>
    <2>1. PICK d \in Outside!Drain(s, wait) : \E u \in Outside!Autoclose(d[1]) :
                 \E t \in Outside!Settle(u, d[2]) : f = <<t, ~d[2]>>
      BY <1>2
    <2>2. PICK u \in Outside!Autoclose(d[1]) : \E t \in Outside!Settle(u, d[2]) : f = <<t, ~d[2]>>
      BY <2>1
    <2>3. PICK t \in Outside!Settle(u, d[2]) : f = <<t, ~d[2]>>
      BY <2>2
    <2>4. /\ Sound(d[1]) /\ Later(s, d[1])
          /\ d[2] \in BOOLEAN /\ (~d[2] => d[1].outbuf = <<>>)
      BY DrainOutside
    <2>5. Sound(u) /\ Later(d[1], u)
      BY <2>4, AutocloseOutside
    <2>6. Sound(t) /\ Later(u, t)
      BY <2>4, <2>5, SettleOutside
    <2>7. Later(d[1], t) /\ Later(s, t)
      <3>1. d[1] \in Members /\ u \in Members /\ t \in Members
        BY <2>4, <2>5, <2>6 DEF Sound, Good
      <3>2. Later(d[1], t)
        BY <2>5, <2>6, <3>1, LaterTrans
      <3> QED
        BY <1>0, <2>4, <3>1, <3>2, LaterTrans
    <2>8. ~d[2] => t.outbuf = <<>>
      BY <2>4, <2>6, <2>7, StaysEmpty DEF Sound, Good
    <2>9. f[1] = t /\ f[2] = ~d[2]
      BY <2>3
    <2>10. f[2] \in BOOLEAN /\ (f[2] => t.outbuf = <<>>)
      BY <2>4, <2>8, <2>9, Zenon
    <2> QED
      BY <2>6, <2>7, <2>9, <2>10, Zenon
  <1>3. CASE s.outbuf = <<>> /\ ~s.autoclose /\ ~s.outbuf_delayed_flush
    <2>1. f \in {<<t, TRUE>> : t \in Outside!maybe_autoclose(s)}
      BY <1>3 DEF Outside!flush_outbuf
    <2> QED
      BY <1>1, <1>3, <2>1
  <1>4. CASE ~(s.outbuf = <<>> /\ ~s.autoclose /\ ~s.outbuf_delayed_flush)
    <2>1. \E d \in Outside!Drain(s, wait) : \E u \in Outside!Autoclose(d[1]) :
            \E t \in Outside!Settle(u, d[2]) : f = <<t, ~d[2]>>
      BY <1>4 DEF Outside!flush_outbuf, Outside!Then
    <2> QED
      BY <1>2, <2>1
  <1> QED
    BY <1>3, <1>4

----------------------------------------------------------------------------
(* What a whole call leaves behind: the limit of the buffer is kept to.    *)
Reached(s, t) ==
  /\ t.is_flushing = s.is_flushing /\ t.max_outbuf_size = s.max_outbuf_size
  /\ WithinLimit(s) => WithinLimit(t)

LEMMA LaterReached ==
  ASSUME NEW s \in Members, NEW t \in Members, Later(s, t)
  PROVE  Reached(s, t)
  <1>1. /\ Len(s.outbuf) \in Nat /\ Len(t.outbuf) \in Nat
        /\ Len(t.outbuf) <= Len(s.outbuf) /\ t.max_outbuf_size = s.max_outbuf_size
        /\ t.is_flushing = s.is_flushing
    BY MemberTypes DEF Later
  <1>2. s.max_outbuf_size \in Nat
    BY MemberTypes
  <1> QED
    BY <1>1, <1>2 DEF Reached, WithinLimit

LEMMA ReachedTrans ==
  ASSUME NEW s, NEW t, NEW u, Reached(s, t), Reached(t, u)
  PROVE  Reached(s, u)
  BY DEF Reached

LEMMA ModAtMost ==
  ASSUME NEW a \in Nat, NEW m \in Nat \ {0}
  PROVE  a % m \in Nat /\ a % m <= a
  <1>1. a % m \in 0 .. m - 1
    OBVIOUS
  <1>2. a < m => a % m = a
    OBVIOUS
  <1> QED
    BY <1>1, <1>2

(* The unsigned subtraction in write() only gives too much room when the   *)
(* buffer is over its limit already.                                       *)
LEMMA CanBufferFacts ==
  ASSUME NEW s \in Members, NEW n \in Nat
  PROVE  /\ CanBuffer(s, n) \in 0 .. n
         /\ WithinLimit(s) => \/ s.max_outbuf_size = 0
                              \/ Len(s.outbuf) + CanBuffer(s, n) <= s.max_outbuf_size
  <1> DEFINE l == Len(s.outbuf)
             x == s.max_outbuf_size
             room == (x - l) % SizeMod
  <1>1. l \in Nat /\ x \in Nat
    BY MemberTypes
  <1>2. SizeMod \in Nat \ {0}
    BY StreamAssumption
  <1>3. CanBuffer(s, n) = IF x # 0 /\ n > room THEN room ELSE n
    BY DEF CanBuffer
  <1>4. WithinLimit(s) <=> x = 0 \/ l <= x
    BY DEF WithinLimit
  <1> HIDE DEF l, x
  <1>5. room \in Nat
    BY <1>1, <1>2
  <1>6. l <= x => room <= x - l
    BY <1>1, <1>2, ModAtMost
  <1> HIDE DEF room
  <1>7. CanBuffer(s, n) \in 0 .. n
    BY <1>3, <1>5
  <1>8. x # 0 /\ l <= x => l + CanBuffer(s, n) <= x
    BY <1>1, <1>3, <1>5, <1>6
  <1> QED
    BY <1>4, <1>7, <1>8 DEF l, x

(* write() puts k more bytes in the buffer, after the kernel took r of     *)
(* them, if the buffer was empty; a stream that met an error takes them in *)
(* as well.                                                                *)
Added(s, n, r, k) ==
  [s EXCEPT !.wire = @ \o SubSeq(Numbered(s.accepted, n), 1, r),
            !.outbuf = @ \o SubSeq(Numbered(s.accepted, n), r + 1, r + k),
            !.accepted = @ + r + k]

(* The bytes, before the record is put together.                           *)
LEMMA AddedBytes ==
  ASSUME NEW s, Sound(s), NEW n \in Nat, NEW r \in 0 .. n, NEW k \in 0 .. n - r,
         isok(s) => r = 0 \/ s.outbuf = <<>>,
         ~isok(s) => r = 0
  PROVE  /\ Len(s.wire) + r \in Nat /\ Len(s.wire) + r <= s.accepted + r + k
         /\ s.wire \o SubSeq(Numbered(s.accepted, n), 1, r) = Numbered(0, Len(s.wire) + r)
         /\ s.outbuf \o SubSeq(Numbered(s.accepted, n), r + 1, r + k) \in Seq(Nat)
         /\ Len(s.outbuf \o SubSeq(Numbered(s.accepted, n), r + 1, r + k)) = Len(s.outbuf) + k
         /\ isok(s) => s.outbuf \o SubSeq(Numbered(s.accepted, n), r + 1, r + k)
                         = Numbered(Len(s.wire) + r, (s.accepted + r + k) - (Len(s.wire) + r))
  <1> DEFINE w == Len(s.wire)
             a == s.accepted
             l == Len(s.outbuf)
             b == Numbered(a, n)
  <1>1. /\ w \in Nat /\ a \in Nat /\ l \in Nat /\ s.outbuf \in Seq(Nat)
        /\ w <= a /\ s.wire = Numbered(0, w)
        /\ isok(s) => s.outbuf = Numbered(w, a - w)
    BY MemberTypes DEF Sound, Good, BytesKept
  <1>2. s.outbuf = <<>> => l = 0
    OBVIOUS
  <1>3. isok(s) => l = a - w
    <2>1. a - w \in Nat
      <3> HIDE DEF w, a
      <3> QED
        BY <1>1
    <2>2. Len(Numbered(w, a - w)) = a - w
      <3> HIDE DEF w, a
      <3> QED
        BY <1>1, <2>1, NumberedType
    <2> QED
      BY <1>1, <2>2
  <1>4. r > 0 => isok(s) /\ w = a
    <2> HIDE DEF w, a, l
    <2> QED
      BY <1>1, <1>2, <1>3
  <1>5. SubSeq(b, 1, r) = Numbered(a, r) /\ SubSeq(b, r + 1, r + k) = Numbered(a + r, k)
    <2> HIDE DEF w, a, l
    <2> QED
      BY <1>1, NumberedCut DEF b
  <1> HIDE DEF w, a, l, b
  <1>6. r \in Nat /\ k \in Nat /\ a + r \in Nat /\ w + r \in Nat /\ a - w \in Nat
    BY <1>1
  <1>7. Numbered(a, r) = Numbered(w, r)
    <2>1. CASE r = 0
      BY <1>1, <2>1, NumberedType
    <2>2. CASE r > 0
      BY <1>4, <2>2
    <2> QED
      BY <1>6, <2>1, <2>2
  <1>8. s.wire \o SubSeq(b, 1, r) = Numbered(0, w + r)
    <2>1. Numbered(0, w) \o Numbered(0 + w, r) = Numbered(0, w + r)
      <3>1. 0 \in Nat /\ w \in Nat /\ r \in Nat
        BY <1>1, <1>6
      <3> QED
        BY <3>1, NumberedJoin
    <2>2. 0 + w = w
      BY <1>1
    <2> QED
      BY <1>1, <1>5, <1>7, <2>1, <2>2
  <1>9. Numbered(a + r, k) \in Seq(Nat) /\ Len(Numbered(a + r, k)) = k
    BY <1>6, NumberedType
  <1>10. /\ s.outbuf \o SubSeq(b, r + 1, r + k) \in Seq(Nat)
         /\ Len(s.outbuf \o SubSeq(b, r + 1, r + k)) = l + k
    <2> DEFINE q == Numbered(a + r, k)
    <2>1. s.outbuf \in Seq(Nat) /\ q \in Seq(Nat) /\ Len(q) = k
      BY <1>1, <1>9
    <2> HIDE DEF q
    <2>2. s.outbuf \o q \in Seq(Nat) /\ Len(s.outbuf \o q) = Len(s.outbuf) + Len(q)
      BY <2>1, BytesJoined
    <2> QED
      BY <1>5, <2>1, <2>2 DEF q, l
  <1>11. ASSUME isok(s)
         PROVE  s.outbuf \o SubSeq(b, r + 1, r + k) = Numbered(w + r, (a + r + k) - (w + r))
    <2>1. s.outbuf = Numbered(w + r, a - w)
      <3>1. CASE r = 0
        <4>1. w + r = w
          BY <1>1, <3>1
        <4> QED
          BY <1>1, <1>11, <4>1
      <3>2. CASE r > 0
        <4>1. a - w = 0 /\ s.outbuf = Numbered(w, a - w)
          BY <1>1, <1>4, <1>11, <3>2
        <4> QED
          BY <1>1, <1>6, <4>1, NumberedType
      <3> QED
        BY <1>6, <3>1, <3>2
    <2>2. Numbered(w + r, a - w) \o Numbered((w + r) + (a - w), k)
            = Numbered(w + r, (a - w) + k)
      BY <1>6, NumberedJoin
    <2>3. (w + r) + (a - w) = a + r /\ (a - w) + k = (a + r + k) - (w + r)
      BY <1>1, <1>6
    <2> QED
      BY <1>5, <2>1, <2>2, <2>3
  <1>12. w + r <= a + r + k
    BY <1>1, <1>6
  <1> QED
    BY <1>6, <1>8, <1>10, <1>11, <1>12 DEF w, a, l, b

LEMMA AddedSound ==
  ASSUME NEW s, Sound(s), NEW n \in Nat, s.accepted + n <= MaxBytes,
         NEW r \in 0 .. n, NEW k \in 0 .. n - r,
         isok(s) => ~s.stop_write /\ (r = 0 \/ s.outbuf = <<>>),
         ~isok(s) => r = 0
  PROVE  /\ Sound(Added(s, n, r, k))
         /\ Added(s, n, r, k).is_flushing = s.is_flushing
         /\ Added(s, n, r, k).max_outbuf_size = s.max_outbuf_size
         /\ Len(Added(s, n, r, k).outbuf) = Len(s.outbuf) + k
  <1> DEFINE a == s.wire \o SubSeq(Numbered(s.accepted, n), 1, r)
             b == s.outbuf \o SubSeq(Numbered(s.accepted, n), r + 1, r + k)
             c == s.accepted + r + k
             w == Len(s.wire) + r
             x == [s EXCEPT !.wire = a, !.outbuf = b, !.accepted = c]
  <1>0. s \in Members /\ Good(s)
    BY DEF Sound, Good
  <1>1. /\ w \in Nat /\ w <= c /\ a = Numbered(0, w)
        /\ b \in Seq(Nat) /\ Len(b) = Len(s.outbuf) + k
        /\ isok(s) => b = Numbered(w, c - w)
    <2>1. (isok(s) => r = 0 \/ s.outbuf = <<>>) /\ (~isok(s) => r = 0)
      OBVIOUS
    <2> HIDE DEF x
    <2> QED
      BY <2>1, AddedBytes, Zenon
  <1>2. Added(s, n, r, k) = x
    BY DEF Added
  <1>3. c \in 0 .. MaxBytes
    <2>1. s.accepted \in Nat /\ MaxBytes \in Nat
      BY <1>0, MemberTypes, StreamAssumption
    <2> QED
      BY <2>1
  <1> HIDE DEF a, b, c, w
  <1>4. a \in Seq(Nat) /\ Len(a) = w
    BY <1>1, NumberedType
  <1>5. /\ x \in Members /\ x.wire = a /\ x.outbuf = b /\ x.accepted = c
        /\ x.rfd = s.rfd /\ x.wfd = s.wfd /\ x.closes = s.closes
        /\ x.closed = s.closed /\ x.err = s.err
        /\ x.cbset = s.cbset /\ x.closecb = s.closecb /\ x.cbcalls = s.cbcalls
        /\ x.stop_write = s.stop_write /\ x.shutdown_write = s.shutdown_write
        /\ x.is_flushing = s.is_flushing /\ x.max_outbuf_size = s.max_outbuf_size
    BY <1>0, <1>1, <1>3, <1>4 DEF Members
  <1> HIDE DEF x
  <1>6. Held(x) = Held(s) /\ isok(x) = isok(s)
    BY <1>5 DEF Held, isok
  <1>7. FdsHeld(x) /\ CallbackDue(x)
    BY <1>0, <1>5, <1>6 DEF Good, FdsHeld, CallbackDue
  <1>8. isok(s) => ~s.shutdown_write
    BY <1>0 DEF Good, BytesKept
  <1>9. BytesKept(x)
    BY <1>0, <1>1, <1>4, <1>5, <1>6, <1>8 DEF Good, BytesKept
  <1>10. x.closed => Held(x) = {}
    BY <1>5, <1>6 DEF Sound
  <1> QED
    BY <1>1, <1>2, <1>5, <1>7, <1>9, <1>10 DEF Sound, Good

LEMMA BufferedIsAdded ==
  ASSUME NEW s, Sound(s), NEW n \in Nat, NEW r \in 0 .. n
  PROVE  /\ Buffered(Written(s, Numbered(s.accepted, n), r), Numbered(s.accepted, n), r)
              = Added(s, n, r, CanBuffer(s, n - r))
         /\ Buffered(s, Numbered(s.accepted, n), 0) = Added(s, n, 0, CanBuffer(s, n))
  <1> DEFINE b == Numbered(s.accepted, n)
             v == Written(s, b, r)
             a == s.wire \o SubSeq(b, 1, r)
  <1>0. s \in Members /\ s.accepted \in Nat /\ s.wire \in Seq(Nat) /\ n - r \in Nat
    BY MemberTypes DEF Sound, Good
  <1>1. Len(b) = n /\ SubSeq(b, 1, 0) = <<>>
    <2>1. 0 \in 0 .. n
      OBVIOUS
    <2>2. Len(b) = n
      BY <1>0, NumberedType
    <2>3. SubSeq(b, 1, 0) = Numbered(s.accepted, 0)
      BY <1>0, <2>1, NumberedCut
    <2>4. Numbered(s.accepted, 0) = <<>>
      BY <1>0, <2>1, NumberedType
    <2> QED
      BY <2>2, <2>3, <2>4
  <1>2. v = [s EXCEPT !.wire = a]
    BY DEF Written
  <1> HIDE DEF a, b
  <1>3. /\ v.wire = a /\ v.outbuf = s.outbuf /\ v.accepted = s.accepted
        /\ v.max_outbuf_size = s.max_outbuf_size
    BY <1>0, <1>2 DEF Members
  <1>4. CanBuffer(v, n - r) = CanBuffer(s, n - r)
    BY <1>3 DEF CanBuffer
  <1> DEFINE k == CanBuffer(s, n - r)
             k0 == CanBuffer(s, n)
  <1> HIDE DEF v, k, k0
  <1>5. Buffered(v, b, r) = [s EXCEPT !.wire = a, !.outbuf = @ \o SubSeq(b, r + 1, r + k),
                                      !.accepted = @ + r + k]
    <2>1. Buffered(v, b, r) = [v EXCEPT !.outbuf = @ \o SubSeq(b, r + 1, r + k),
                                        !.accepted = @ + r + k]
      BY <1>1, <1>4 DEF Buffered, k
    <2> QED
      BY <1>0, <1>2, <2>1 DEF Members
  <1>6. Buffered(v, b, r) = Added(s, n, r, k)
    BY <1>5 DEF Added, a, b
  <1>7. Buffered(s, b, 0) = Added(s, n, 0, k0)
    <2>1. Buffered(s, b, 0) = [s EXCEPT !.outbuf = @ \o SubSeq(b, 0 + 1, 0 + k0),
                                        !.accepted = @ + 0 + k0]
      <3>1. Len(b) - 0 = n
        BY <1>1
      <3> QED
        BY <3>1 DEF Buffered, k0
    <2>2. s.wire \o SubSeq(b, 1, 0) = s.wire
      BY <1>0, <1>1
    <2> DEFINE p == s.wire \o SubSeq(b, 1, 0)
               q == s.outbuf \o SubSeq(b, 0 + 1, 0 + k0)
               c == s.accepted + 0 + k0
    <2>3. Added(s, n, 0, k0) = [s EXCEPT !.wire = p, !.outbuf = q, !.accepted = c]
      BY DEF Added, b
    <2>4. Buffered(s, b, 0) = [s EXCEPT !.outbuf = q, !.accepted = c]
      BY <2>1
    <2>5. p = s.wire
      BY <2>2
    <2> HIDE DEF p, q, c
    <2>6. [s EXCEPT !.wire = p, !.outbuf = q, !.accepted = c]
            = [s EXCEPT !.outbuf = q, !.accepted = c]
      BY <1>0, <2>5 DEF Members
    <2> QED
      BY <2>3, <2>4, <2>6
  <1> QED
    BY <1>6, <1>7 DEF v, b, k, k0

(* Bytes that the limit leaves room for.                                   *)
LEMMA AddedReached ==
  ASSUME NEW s, Sound(s), NEW n \in Nat, s.accepted + n <= MaxBytes,
         NEW r \in 0 .. n,
         isok(s) => ~s.stop_write /\ (r = 0 \/ s.outbuf = <<>>),
         ~isok(s) => r = 0
  PROVE  LET t == Added(s, n, r, CanBuffer(s, n - r)) IN Sound(t) /\ Reached(s, t)
  <1> DEFINE k == CanBuffer(s, n - r)
             t == Added(s, n, r, k)
  <1>0. /\ s \in Members /\ n - r \in Nat /\ Len(s.outbuf) \in Nat
        /\ s.max_outbuf_size \in Nat
    BY MemberTypes DEF Sound, Good
  <1>1. /\ k \in 0 .. n - r
        /\ WithinLimit(s) => s.max_outbuf_size = 0 \/ Len(s.outbuf) + k <= s.max_outbuf_size
    BY <1>0, CanBufferFacts
  <1> HIDE DEF k
  <1>2. /\ Sound(t) /\ t.is_flushing = s.is_flushing
        /\ t.max_outbuf_size = s.max_outbuf_size
        /\ Len(t.outbuf) = Len(s.outbuf) + k
    BY <1>1, AddedSound
  <1> HIDE DEF t
  <1>3. Reached(s, t)
    BY <1>0, <1>1, <1>2 DEF Reached, WithinLimit
  <1> QED
    BY <1>2, <1>3 DEF t, k

LEMMA WriteDirectSound ==
  ASSUME NEW s, Sound(s), isok(s), ~s.stop_write, NEW n \in Nat, s.accepted + n <= MaxBytes,
         NEW t \in WriteDirect(s, Numbered(s.accepted, n))
  PROVE  Sound(t) /\ Reached(s, t)
  <1> DEFINE b == Numbered(s.accepted, n)
  <1>0. s \in Members /\ s.accepted \in Nat /\ Len(b) = n /\ n - 0 = n /\ 0 \in 0 .. n
    <2>1. s \in Members /\ s.accepted \in Nat
      BY MemberTypes DEF Sound, Good
    <2>2. Len(b) = n
      BY <2>1, NumberedType
    <2> QED
      BY <2>1, <2>2
  <1>1. CASE t = Buffered(s, b, 0)
    <2>1. t = Added(s, n, 0, CanBuffer(s, n - 0))
      BY <1>0, <1>1, BufferedIsAdded
    <2> QED
      BY <1>0, <2>1, AddedReached
  <1>2. CASE s.outbuf = <<>> /\ \E r \in 0 .. n : t = Buffered(Written(s, b, r), b, r)
    <2>1. PICK r \in 0 .. n : t = Buffered(Written(s, b, r), b, r)
      BY <1>2
    <2>2. t = Added(s, n, r, CanBuffer(s, n - r))
      BY <2>1, BufferedIsAdded
    <2> QED
      BY <1>2, <2>2, AddedReached
  <1>3. CASE \E u \in Outside!seterr(s) : t = Buffered(u, b, 0)
    <2>1. PICK u \in Outside!seterr(s) : t = Buffered(u, b, 0)
      BY <1>3
    <2>2. Sound(u) /\ Later(s, u)
      BY SeterrOutside
    <2>3. u.closed
      <3> DEFINE v == [s EXCEPT !.err = TRUE]
      <3>1. u \in close(v)
        BY DEF Outside!seterr, isok
      <3>2. Sound(v)
        BY ErrSound
      <3> HIDE DEF v
      <3> QED
        BY <3>1, <3>2, CloseSound
    <2>4. ~isok(u) /\ u.accepted = s.accepted
      BY <2>2, <2>3 DEF isok, Later
    <2>5. t = Added(u, n, 0, CanBuffer(u, n - 0))
      BY <1>0, <2>1, <2>2, <2>4, BufferedIsAdded
    <2>6. Sound(t) /\ Reached(u, t)
      BY <1>0, <2>2, <2>4, <2>5, AddedReached
    <2>7. Reached(s, u)
      BY <1>0, <2>2, LaterReached DEF Sound, Good
    <2> QED
      BY <2>6, <2>7, ReachedTrans
  <1> QED
    BY <1>0, <1>1, <1>2, <1>3 DEF WriteDirect

LEMMA AfterWriteSound ==
  ASSUME NEW s, Sound(s), NEW t \in AfterWrite(s)
  PROVE  Sound(t) /\ Reached(s, t)
  <1>0. s \in Members
    BY DEF Sound, Good
  <1>1. CASE t = s
    BY <1>1 DEF Reached
  <1>2. CASE t \in Flush(s, FALSE)
    BY <1>0, <1>2, FlushSound, LaterReached DEF Flush, Sound, Good
  <1>3. CASE \E f \in Outside!flush_outbuf(s, FALSE) : t = f[1]
    BY <1>0, <1>3, FlushOutbufOutside, LaterReached DEF Sound, Good
  <1> QED
    BY <1>1, <1>2, <1>3 DEF AfterWrite

LEMMA WriteSound ==
  ASSUME NEW s, Sound(s), NEW n \in Nat, s.accepted + n <= MaxBytes, NEW t \in write(s, n)
  PROVE  Sound(t) /\ Reached(s, t)
  <1>1. CASE ~isok(s) \/ s.stop_write
    BY <1>1 DEF write, Reached
  <1>2. CASE ~(~isok(s) \/ s.stop_write)
    <2>1. PICK u \in WriteDirect(s, Numbered(s.accepted, n)) : t \in AfterWrite(u)
      BY <1>2 DEF write, Then
    <2>2. Sound(u) /\ Reached(s, u)
      BY <1>2, WriteDirectSound
    <2> QED
      BY <2>1, <2>2, AfterWriteSound, ReachedTrans
  <1> QED
    BY <1>1, <1>2

(* uread: up to n bytes come in.                                           *)
LEMMA UreadSound ==
  ASSUME NEW s, Sound(s), NEW n \in Nat, NEW u \in uread(s, n)
  PROVE  Sound(u[1]) /\ Later(s, u[1]) /\ u[2] \in 0 .. n
  <1>0. s \in Members /\ 0 \in 0 .. n
    BY DEF Sound, Good
  <1>1. CASE \E r \in 0 .. n : u = <<s, r>>
    BY <1>0, <1>1, LaterSame
  <1>2. CASE \E t \in close(s) : u = <<t, 0>>
    BY <1>0, <1>2, CloseSound
  <1>3. CASE \E t \in Outside!seterr(s) : u = <<t, 0>>
    BY <1>0, <1>3, SeterrOutside
  <1> QED
    BY <1>0, <1>1, <1>2, <1>3 DEF uread

(* Changes of the input buffer, and of the limits of the output buffer.    *)
LEMMA InbufSound ==
  ASSUME NEW s, Sound(s), NEW i \in 0 .. MaxIn
  PROVE  /\ Sound([s EXCEPT !.inbuf = i])
         /\ Reached(s, [s EXCEPT !.inbuf = i])
         /\ [s EXCEPT !.inbuf = i].inbuf = i
  <1> DEFINE t == [s EXCEPT !.inbuf = i]
  <1>0. s \in Members
    BY DEF Sound, Good
  <1>1. t \in Members /\ t.inbuf = i /\ Kept(s, t)
    BY <1>0 DEF Members, Kept
  <1>2. Reached(s, t)
    BY <1>0 DEF Members, Reached, WithinLimit
  <1> HIDE DEF t
  <1>3. Sound(t)
    BY <1>1, KeptSound
  <1> QED
    BY <1>1, <1>2, <1>3 DEF t

LEMMA ReadSound ==
  ASSUME NEW s, Sound(s), NEW t \in read(s)
  PROVE  Sound(t) /\ Reached(s, t)
  <1>0. s \in Members /\ s.inbuf \in 0 .. MaxIn
    BY DEF Sound, Good, Members
  <1>1. PICK g \in IF s.inbuf > 0 THEN {[s EXCEPT !.inbuf = i] : i \in 0 .. s.inbuf - 1}
                                  ELSE {u[1] : u \in uread(s, 1)} :
          t \in Outside!maybe_autoclose(g)
    BY DEF read, Then
  <1>2. Sound(g) /\ Reached(s, g)
    <2>1. CASE s.inbuf > 0
      <3>1. 0 .. s.inbuf - 1 \subseteq 0 .. MaxIn
        BY <1>0, StreamAssumption
      <3> QED
        BY <1>1, <2>1, <3>1, InbufSound
    <2>2. CASE ~(s.inbuf > 0)
      <3>1. PICK u \in uread(s, 1) : g = u[1]
        BY <1>1, <2>2
      <3>2. Sound(u[1]) /\ Later(s, u[1])
        BY UreadSound
      <3> QED
        BY <1>0, <3>1, <3>2, LaterReached DEF Sound, Good
    <2> QED
      BY <2>1, <2>2
  <1>3. Sound(t) /\ Later(g, t)
    BY <1>1, <1>2, MaybeAutocloseOutside
  <1> QED
    BY <1>2, <1>3, LaterReached, ReachedTrans DEF Sound, Good

LEMMA PostSelectSound ==
  ASSUME NEW s, Sound(s), NEW t \in post_select(s)
  PROVE  Sound(t) /\ Later(s, t)
  <1>0. s \in Members
    BY DEF Sound, Good
  <1>1. PICK u \in IF s.want_to_flush THEN Flush(s, FALSE) ELSE {s} :
          t = u \/ \E f \in Outside!flush_outbuf(u, FALSE) : t = f[1]
    BY DEF post_select, Then
  <1>2. Sound(u) /\ Later(s, u)
    <2>1. CASE u = s
      BY <1>0, <2>1, LaterSame
    <2>2. CASE u \in Flush(s, FALSE)
      BY <2>2, FlushSound DEF Flush
    <2> QED
      BY <1>1, <2>1, <2>2
  <1>3. Sound(t) /\ Later(u, t)
    <2>1. CASE t = u
      BY <1>2, <2>1, LaterSame DEF Sound, Good
    <2>2. CASE \E f \in Outside!flush_outbuf(u, FALSE) : t = f[1]
      BY <1>2, <2>2, FlushOutbufOutside
    <2> QED
      BY <1>1, <2>1, <2>2
  <1> QED
    BY <1>0, <1>2, <1>3, LaterTrans DEF Sound, Good

LEMMA SelectSound ==
  ASSUME NEW s, Sound(s), NEW t \in select(s)
  PROVE  Sound(t) /\ Later(s, t)
  <1>1. PICK u \in Outside!maybe_autoclose(s) : t \in post_select(u)
    BY DEF select, Then
  <1>2. Sound(u) /\ Later(s, u)
    BY MaybeAutocloseOutside
  <1>3. Sound(t) /\ Later(u, t)
    BY <1>1, <1>2, PostSelectSound
  <1> QED
    BY <1>2, <1>3, LaterTrans DEF Sound, Good

(* What select() found to read fits in the input buffer.                   *)
LEMMA FillSound ==
  ASSUME NEW s, Sound(s), NEW u \in uread(s, MaxIn - s.inbuf)
  PROVE  LET t == [u[1] EXCEPT !.inbuf = @ + u[2]] IN Sound(t) /\ Reached(s, t)
  <1>0. s \in Members /\ s.inbuf \in 0 .. MaxIn
    BY DEF Sound, Good, Members
  <1>1. MaxIn - s.inbuf \in Nat
    BY <1>0, StreamAssumption
  <1> DEFINE v == u[1]
             i == v.inbuf + u[2]
  <1>2. Sound(v) /\ Later(s, v) /\ u[2] \in 0 .. MaxIn - s.inbuf
    BY <1>1, UreadSound
  <1>3. v.inbuf = s.inbuf /\ v \in Members
    BY <1>2 DEF Later, Sound, Good
  <1>4. i \in 0 .. MaxIn
    BY <1>0, <1>2, <1>3, StreamAssumption
  <1> HIDE DEF v, i
  <1>5. Sound([v EXCEPT !.inbuf = i]) /\ Reached(v, [v EXCEPT !.inbuf = i])
    BY <1>2, <1>4, InbufSound
  <1>6. Reached(s, v)
    BY <1>0, <1>2, <1>3, LaterReached
  <1>7. Reached(s, [v EXCEPT !.inbuf = i])
    BY <1>5, <1>6, ReachedTrans
  <1> QED
    BY <1>5, <1>7 DEF v, i

LEMMA GetlineSound ==
  ASSUME NEW s, Sound(s), NEW t \in getline(s)
  PROVE  Sound(t) /\ Reached(s, t)
  <1> DEFINE Fill(x) == IF ~isok(x) THEN {x}
                        ELSE {[u[1] EXCEPT !.inbuf = @ + u[2]] : u \in uread(x, MaxIn - x.inbuf)}
  <1>1. PICK a \in Outside!maybe_autoclose(s) :
          \E c : /\ c = a \/ \E b \in select(a) : c \in Fill(b)
                 /\ \E i \in 0 .. c.inbuf : t = [c EXCEPT !.inbuf = i]
    BY DEF getline, Then
  <1>2. PICK c : /\ c = a \/ \E b \in select(a) : c \in Fill(b)
                 /\ \E i \in 0 .. c.inbuf : t = [c EXCEPT !.inbuf = i]
    BY <1>1
  <1>3. Sound(a) /\ Reached(s, a)
    BY MaybeAutocloseOutside, LaterReached DEF Sound, Good
  <1>4. Sound(c) /\ Reached(a, c)
    <2>1. CASE c = a
      BY <1>3, <2>1 DEF Reached
    <2>2. CASE \E b \in select(a) : c \in Fill(b)
      <3>1. PICK b \in select(a) : c \in Fill(b)
        BY <2>2
      <3>2. Sound(b) /\ Reached(a, b)
        BY <1>3, SelectSound, LaterReached DEF Sound, Good
      <3>3. CASE c = b
        BY <3>2, <3>3
      <3>4. CASE \E u \in uread(b, MaxIn - b.inbuf) : c = [u[1] EXCEPT !.inbuf = @ + u[2]]
        <4>1. Sound(c) /\ Reached(b, c)
          BY <3>2, <3>4, FillSound
        <4> QED
          BY <3>2, <4>1, ReachedTrans
      <3> QED
        BY <3>1, <3>3, <3>4
    <2> QED
      BY <1>2, <2>1, <2>2
  <1>5. Sound(t) /\ Reached(c, t)
    <2>1. PICK i \in 0 .. c.inbuf : t = [c EXCEPT !.inbuf = i]
      BY <1>2
    <2>2. c.inbuf \in 0 .. MaxIn
      BY <1>4 DEF Sound, Good, Members
    <2>3. i \in 0 .. MaxIn
      BY <2>2, StreamAssumption
    <2> QED
      BY <1>4, <2>1, <2>3, InbufSound
  <1> QED
    BY <1>3, <1>4, <1>5, ReachedTrans

----------------------------------------------------------------------------
(* The calls of the application.                                           *)
LEMMA LaterCall ==
  ASSUME NEW s, Sound(s), NEW t, Sound(t), Later(s, t)
  PROVE  Reached(s, t)
  BY LaterReached DEF Sound, Good

(* noread(), nowrite(), flush_then_close(), delay_output() and auto_flush()*)
(* set a flag first.                                                       *)
LEMMA FlagSet ==
  ASSUME NEW s, Sound(s), NEW b \in BOOLEAN,
         NEW t \in {[s EXCEPT !.stop_read = TRUE], [s EXCEPT !.stop_write = TRUE],
                    [s EXCEPT !.autoclose = TRUE], [s EXCEPT !.is_auto_flush = FALSE],
                    [s EXCEPT !.outbuf_delayed_flush = b, !.want_to_flush = ~b]}
  PROVE  Sound(t) /\ Reached(s, t)
  <1>0. s \in Members
    BY DEF Sound, Good
  <1>1. ASSUME NEW v \in Members, Kept(s, v), Same(s, v)
        PROVE  Sound(v) /\ Reached(s, v)
    BY <1>1, FlagsSound, LaterCall
  <1>2. t \in Members /\ Kept(s, t) /\ Same(s, t)
    <2>1. CASE t = [s EXCEPT !.stop_read = TRUE]
      BY <1>0, <2>1 DEF Members, Kept, Same
    <2>2. CASE t = [s EXCEPT !.stop_write = TRUE]
      BY <1>0, <2>2 DEF Members, Kept, Same
    <2>3. CASE t = [s EXCEPT !.autoclose = TRUE]
      BY <1>0, <2>3 DEF Members, Kept, Same
    <2>4. CASE t = [s EXCEPT !.is_auto_flush = FALSE]
      BY <1>0, <2>4 DEF Members, Kept, Same
    <2>5. CASE t = [s EXCEPT !.outbuf_delayed_flush = b, !.want_to_flush = ~b]
      <3> DEFINE n == ~b
      <3>1. n \in BOOLEAN /\ t = [s EXCEPT !.outbuf_delayed_flush = b, !.want_to_flush = n]
        BY <2>5
      <3> HIDE DEF n
      <3> QED
        BY <1>0, <3>1, ZenonT(30) DEF Members, Kept, Same
    <2> QED
      BY <2>1, <2>2, <2>3, <2>4, <2>5
  <1> QED
    BY <1>1, <1>2

LEMMA LimitSet ==
  ASSUME NEW s, Sound(s), NEW n \in Limits, NEW t, t = [s EXCEPT !.max_outbuf_size = n]
  PROVE  /\ Sound(t) /\ t.is_flushing = s.is_flushing
         /\ t.max_outbuf_size = s.max_outbuf_size /\ WithinLimit(s) => WithinLimit(t)
  <1>0. s \in Members
    BY DEF Sound, Good
  <1>1. /\ t \in Members /\ Kept(s, t) /\ t.is_flushing = s.is_flushing
        /\ t.outbuf = s.outbuf
    BY <1>0 DEF Members, Kept
  <1> QED
    BY <1>1, KeptSound DEF WithinLimit

LEMMA CallbackSet ==
  ASSUME NEW s, Sound(s), ~s.cbset,
         NEW t, t = [s EXCEPT !.cbset = TRUE, !.closecb = isok(s),
                              !.cbcalls = IF isok(s) THEN 0 ELSE 1]
  PROVE  Sound(t) /\ Reached(s, t)
  <1> DEFINE b == isok(s)
             n == IF isok(s) THEN 0 ELSE 1
             x == [s EXCEPT !.cbset = TRUE, !.closecb = b, !.cbcalls = n]
  <1>0. s \in Members /\ Good(s)
    BY DEF Sound, Good
  <1>1. b \in BOOLEAN /\ n \in {0, 1} /\ n = (IF b THEN 0 ELSE 1) /\ (b => ~s.closed)
    BY DEF isok
  <1>2. t = x
    OBVIOUS
  <1> HIDE DEF b, n
  <1>3. /\ x \in Members /\ x.cbset = TRUE /\ x.closecb = b /\ x.cbcalls = n
        /\ x.rfd = s.rfd /\ x.wfd = s.wfd /\ x.closes = s.closes
        /\ x.closed = s.closed /\ x.err = s.err
        /\ x.stop_write = s.stop_write /\ x.shutdown_write = s.shutdown_write
        /\ x.wire = s.wire /\ x.outbuf = s.outbuf /\ x.accepted = s.accepted
        /\ x.is_flushing = s.is_flushing /\ x.max_outbuf_size = s.max_outbuf_size
    BY <1>0, <1>1, ZenonT(30) DEF Members
  <1> HIDE DEF x
  <1>4. Held(x) = Held(s) /\ isok(x) = isok(s)
    BY <1>3 DEF Held, isok
  <1>5. FdsHeld(x) /\ BytesKept(x)
    BY <1>0, <1>3, <1>4 DEF Good, FdsHeld, BytesKept
  <1>6. CallbackDue(x)
    BY <1>1, <1>3 DEF CallbackDue
  <1>7. x.closed => Held(x) = {}
    BY <1>3, <1>4 DEF Sound
  <1>8. Reached(s, x)
    BY <1>3 DEF Reached, WithinLimit
  <1> QED
    BY <1>2, <1>3, <1>5, <1>6, <1>7, <1>8 DEF Sound, Good

(* What every step does to a stream that is sound.                         *)
Steps ==
  /\ Sound(stream') /\ stream'.is_flushing = stream.is_flushing
  /\ stream'.max_outbuf_size = stream.max_outbuf_size /\ WithinLimit(stream)
       => WithinLimit(stream')
  /\ flushed' \in {"none", "true", "false"}
  /\ flushed' = "true" => stream'.outbuf = <<>>

LEMMA CallSteps ==
  ASSUME Sound(stream'), Reached(stream, stream'), flushed' = "none"
  PROVE  Steps
  BY DEF Steps, Reached

LEMMA NextSteps ==
  ASSUME Sound(stream), Next
  PROVE  Steps
  <1>0. stream \in Members /\ stream.accepted \in 0 .. MaxBytes
    BY DEF Sound, Good, Members
  <1>1. CASE do_write
    <2>1. PICK n \in 1 .. MaxBytes - stream.accepted :
            stream' \in write(stream, n) /\ flushed' = "none"
      BY <1>1 DEF do_write, Call
    <2>2. n \in Nat /\ stream.accepted + n <= MaxBytes
      BY <1>0, StreamAssumption
    <2> QED
      BY <2>1, <2>2, WriteSound, CallSteps
  <1>2. CASE do_flush
    <2>0. PICK wait \in BOOLEAN : \E f \in flush(stream, wait) :
            stream' = f[1] /\ flushed' = IF f[2] THEN "true" ELSE "false"
      BY <1>2 DEF do_flush
    <2>1. PICK f \in flush(stream, wait) :
            stream' = f[1] /\ flushed' = IF f[2] THEN "true" ELSE "false"
      BY <2>0
    <2>2. /\ Sound(f[1]) /\ Later(stream, f[1])
          /\ f[2] \in BOOLEAN /\ (f[2] => f[1].outbuf = <<>>)
      BY FlushSound
    <2>3. Sound(stream') /\ Reached(stream, stream')
      BY <2>1, <2>2, LaterCall
    <2> QED
      BY <2>1, <2>2, <2>3 DEF Steps, Reached
  <1>3. CASE do_close
    BY <1>3, CloseSound, LaterCall, CallSteps DEF do_close, Call
  <1>4. CASE do_read
    BY <1>4, ReadSound, CallSteps DEF do_read, Call
  <1>5. CASE do_getline
    BY <1>5, GetlineSound, CallSteps DEF do_getline, Call
  <1>6. CASE noread
    <2> DEFINE v == [stream EXCEPT !.stop_read = TRUE]
    <2>1. stream' \in Outside!maybe_autoclose(v) /\ flushed' = "none"
      BY <1>6 DEF noread, Call
    <2>2. Sound(v) /\ Reached(stream, v)
      BY FlagSet
    <2> HIDE DEF v
    <2>3. Sound(stream') /\ Reached(v, stream')
      BY <2>1, <2>2, MaybeAutocloseOutside, LaterCall
    <2> QED
      BY <2>1, <2>2, <2>3, ReachedTrans, CallSteps
  <1>7. CASE nowrite
    <2> DEFINE v == [stream EXCEPT !.stop_write = TRUE]
    <2>1. stream' \in Outside!maybe_autoclose(v) /\ flushed' = "none"
      BY <1>7 DEF nowrite, Call
    <2>2. Sound(v) /\ Reached(stream, v)
      BY FlagSet
    <2> HIDE DEF v
    <2>3. Sound(stream') /\ Reached(v, stream')
      BY <2>1, <2>2, MaybeAutocloseOutside, LaterCall
    <2> QED
      BY <2>1, <2>2, <2>3, ReachedTrans, CallSteps
  <1>8. CASE flush_then_close
    <2> DEFINE v == [stream EXCEPT !.autoclose = TRUE]
    <2>1. stream' \in Flush(v, FALSE) /\ flushed' = "none"
      BY <1>8 DEF flush_then_close, Call
    <2>2. Sound(v) /\ Reached(stream, v)
      BY FlagSet
    <2> HIDE DEF v
    <2>3. Sound(stream') /\ Reached(v, stream')
      BY <2>1, <2>2, FlushSound, LaterCall DEF Flush
    <2> QED
      BY <2>1, <2>2, <2>3, ReachedTrans, CallSteps
  <1>9. CASE \E b \in BOOLEAN : delay_output(b)
    <2>1. PICK b \in BOOLEAN : delay_output(b)
      BY <1>9
    <2> DEFINE v == [stream EXCEPT !.outbuf_delayed_flush = b, !.want_to_flush = ~b]
    <2>2. stream' = v /\ flushed' = "none"
      BY <2>1 DEF delay_output, Call
    <2>3. Sound(v) /\ Reached(stream, v)
      BY FlagSet
    <2> QED
      BY <2>2, <2>3, CallSteps
  <1>10. CASE auto_flush
    BY <1>10, FlagSet, CallSteps DEF auto_flush, Call
  <1>11. CASE \E n \in Limits : outbuf_limit(n)
    <2>1. PICK n \in Limits :
            stream' = [stream EXCEPT !.max_outbuf_size = n] /\ flushed' = "none"
      BY <1>11 DEF outbuf_limit, Call
    <2> QED
      BY <2>1, LimitSet DEF Steps
  <1>12. CASE setclosecallback
    BY <1>12, CallbackSet, CallSteps DEF setclosecallback, Call
  <1>13. CASE do_select
    BY <1>13, SelectSound, LaterCall, CallSteps DEF do_select
  <1> QED
    BY <1>1, <1>2, <1>3, <1>4, <1>5, <1>6, <1>7, <1>8, <1>9, <1>10, <1>11, <1>12, <1>13
       DEF Next

(* The initial state, with nothing written.                                *)
LEMMA InitInv ==
  ASSUME Init
  PROVE  StreamInv
  <1>1. PICK p \in FdPairs : stream =
       [rfd |-> p[1], wfd |-> p[2],
        closed |-> FALSE, err |-> FALSE,
        stop_read |-> FALSE, stop_write |-> FALSE,
        shutdown_read |-> FALSE, shutdown_write |-> FALSE,
        outbuf |-> <<>>, inbuf |-> 0,
        max_outbuf_size |-> 0, outbuf_delayed_flush |-> FALSE,
        is_auto_flush |-> TRUE,
        want_to_flush |-> TRUE, is_flushing |-> FALSE, autoclose |-> FALSE,
        closecb |-> FALSE,
        wire |-> <<>>,
        accepted |-> 0,
        closes |-> [f \in {p[1], p[2]} |-> 0],
        cbset |-> FALSE, cbcalls |-> 0]
    BY DEF Init
  <1> DEFINE c == [f \in {p[1], p[2]} |-> 0]
             e == <<>>
  <1>2. /\ p[1] \in AllFds /\ p[2] \in AllFds
        /\ p[1] \in Nat /\ p[2] \in Nat
    BY FdAssumption DEF AllFds
  <1>3. /\ c \in UNION {[{q[1], q[2]} -> {0, 1}] : q \in FdPairs}
        /\ DOMAIN c = {p[1], p[2]}
        /\ \A f \in DOMAIN c : c[f] = 0
    <2>1. c \in [{p[1], p[2]} -> {0, 1}]
      OBVIOUS
    <2> QED
      BY <2>1
  <1>4. e \in Seq(Nat) /\ Len(e) = 0 /\ e = Numbered(0, 0)
    BY NumberedType
  <1>5. 0 \in 0 .. MaxIn /\ 0 \in 0 .. MaxBytes
    BY StreamAssumption
  <1>6. stream =
       [rfd |-> p[1], wfd |-> p[2],
        closed |-> FALSE, err |-> FALSE,
        stop_read |-> FALSE, stop_write |-> FALSE,
        shutdown_read |-> FALSE, shutdown_write |-> FALSE,
        outbuf |-> e, inbuf |-> 0,
        max_outbuf_size |-> 0, outbuf_delayed_flush |-> FALSE,
        is_auto_flush |-> TRUE,
        want_to_flush |-> TRUE, is_flushing |-> FALSE, autoclose |-> FALSE,
        closecb |-> FALSE,
        wire |-> e,
        accepted |-> 0,
        closes |-> c,
        cbset |-> FALSE, cbcalls |-> 0]
    BY <1>1
  <1> HIDE DEF c, e
  <1>7. /\ stream \in Members
        /\ stream.rfd = p[1] /\ stream.wfd = p[2] /\ stream.closes = c
        /\ stream.closed = FALSE /\ stream.is_flushing = FALSE
        /\ stream.cbset = FALSE /\ stream.closecb = FALSE /\ stream.cbcalls = 0
        /\ stream.wire = e /\ stream.outbuf = e /\ stream.accepted = 0
        /\ stream.shutdown_write = FALSE
    BY <1>2, <1>3, <1>4, <1>5, <1>6 DEF Members
  <1>8. Held(stream) = {p[1], p[2]}
    BY <1>2, <1>7 DEF Held, None
  <1>9. FdsHeld(stream)
    BY <1>3, <1>7, <1>8 DEF FdsHeld
  <1>10. CallbackDue(stream)
    BY <1>7 DEF CallbackDue
  <1>11. BytesKept(stream)
    BY <1>4, <1>7 DEF BytesKept
  <1>12. flushed = "none"
    BY DEF Init
  <1> QED
    BY <1>7, <1>9, <1>10, <1>11, <1>12
       DEF StreamInv, TypeOK, FlushedMeansEmpty, Sound, Good

(* The invariant: every step keeps it.                                     *)
LEMMA StepInv ==
  ASSUME StreamInv, [Next]_vars
  PROVE  StreamInv'
  <1>1. CASE Next
    <2>1. Steps
      BY <1>1, NextSteps DEF StreamInv
    <2>2. Sound(stream)'
      BY <2>1 DEF Steps
    <2>3. TypeOK'
      BY <2>1 DEF Steps, TypeOK, StreamInv, Sound, Good
    <2> QED
      BY <2>1, <2>2, <2>3 DEF StreamInv, Steps, FlushedMeansEmpty
  <1>2. CASE UNCHANGED vars
    BY <1>2 DEF vars, StreamInv, TypeOK, FlushedMeansEmpty, Sound, Good, Held, FdsHeld,
                CallbackDue, BytesKept, isok
  <1> QED
    BY <1>1, <1>2

(* The members have their types, the stream is sound between calls, and    *)
(* flush() is true only of an empty buffer.                                *)
THEOREM StreamInvariance == Spec => []StreamInv
  <1>1. Init => StreamInv
    BY InitInv
  <1>2. StreamInv /\ [Next]_vars => StreamInv'
    BY StepInv
  <1> QED
    BY <1>1, <1>2, PTL DEF Spec

(* What the kernel was given is what write() accepted, in order and each   *)
(* byte once, and a working stream still has the rest in its buffer.       *)
LEMMA BytesFollow ==
  ASSUME StreamInv
  PROVE  BytesInOrder
  <1> DEFINE w == Len(stream.wire)
             n == stream.accepted
  <1>1. /\ w \in Nat /\ n \in Nat /\ w <= n
        /\ stream.wire = Numbered(0, w)
        /\ isok(stream) => stream.outbuf = Numbered(w, n - w)
    BY MemberTypes DEF StreamInv, Sound, Good, BytesKept
  <1>2. w \in 0 .. n /\ n - w \in Nat /\ 0 + w = w /\ w + (n - w) = n
    BY <1>1
  <1>3. Len(Numbered(0, n)) = n /\ SubSeq(Numbered(0, n), 1, w) = Numbered(0, w)
    BY <1>1, <1>2, NumberedType, NumberedCut
  <1>4. /\ SubSeq(Numbered(0, w), 1, w) = Numbered(0, w)
        /\ Len(Numbered(0, w)) = w
    <2>1. w \in 0 .. w
      BY <1>1
    <2> QED
      BY <1>1, <2>1, NumberedType, NumberedCut
  <1>5. IsPrefix(stream.wire, Numbered(0, n))
    BY <1>1, <1>3, <1>4 DEF IsPrefix
  <1>6. Numbered(0, w) \o Numbered(w, n - w) = Numbered(0, n)
    <2> DEFINE k == n - w
    <2>1. w \in Nat /\ k \in Nat /\ 0 + w = w /\ w + k = n
      BY <1>1, <1>2
    <2> HIDE DEF w, n, k
    <2>2. Numbered(0, w) \o Numbered(0 + w, k) = Numbered(0, w + k)
      BY <2>1, NumberedJoin
    <2>3. Numbered(0, w) \o Numbered(w, k) = Numbered(0, n)
      BY <2>1, <2>2, Zenon
    <2> QED
      BY <2>3 DEF k
  <1>7. isok(stream) => stream.wire \o stream.outbuf = Numbered(0, n)
    <2> HIDE DEF w
    <2> QED
      BY <1>1, <1>6
  <1> QED
    BY <1>5, <1>7 DEF BytesInOrder

THEOREM BytesStayInOrder == Spec => []BytesInOrder
  <1>1. StreamInv => BytesInOrder
    BY BytesFollow
  <1> QED
    BY <1>1, StreamInvariance, PTL

(* Whatever calls close() and from wherever, the close callback is called  *)
(* once and each fd closed once.                                           *)
LEMMA ClosedOnce ==
  ASSUME StreamInv
  PROVE  ClosesOnce
  <1>1. /\ stream \in Members /\ FdsHeld(stream) /\ CallbackDue(stream)
        /\ stream.closed => Held(stream) = {}
    BY DEF StreamInv, Sound, Good
  <1>2. CloseCallbackOnce
    BY <1>1 DEF CallbackDue, CloseCallbackOnce
  <1>3. FdsClosedOnce
    <2>1. \A f \in DOMAIN stream.closes : stream.closes[f] = IF f \in Held(stream) THEN 0 ELSE 1
      BY <1>1 DEF FdsHeld
    <2>2. \A f \in {stream.rfd, stream.wfd} \ {None} : stream.closes[f] = 0
      BY <1>1 DEF FdsHeld, Held
    <2> QED
      BY <1>1, <2>1, <2>2 DEF FdsClosedOnce
  <1> QED
    BY <1>2, <1>3 DEF ClosesOnce

THEOREM ClosesJustOnce == Spec => []ClosesOnce
  <1>1. StreamInv => ClosesOnce
    BY ClosedOnce
  <1> QED
    BY <1>1, StreamInvariance, PTL

(* The writing half of a working stream is shut down only after every byte *)
(* went out, and flush() is true only of an empty buffer.                  *)
LEMMA DrainedBefore ==
  ASSUME StreamInv
  PROVE  DrainedFirst
  <1>1. /\ BytesInOrder /\ stream \in Members /\ BytesKept(stream) /\ FlushedMeansEmpty
    BY BytesFollow DEF StreamInv, Sound, Good
  <1>2. ASSUME isok(stream), stream.shutdown_write
        PROVE  stream.wire = Numbered(0, stream.accepted)
    <2>1. stream.outbuf = <<>> /\ stream.wire \o stream.outbuf = Numbered(0, stream.accepted)
      BY <1>1, <1>2 DEF BytesKept, BytesInOrder
    <2>2. stream.wire \in Seq(Nat)
      BY <1>1 DEF Members
    <2>3. stream.wire \o <<>> = stream.wire
      BY <2>2
    <2> QED
      BY <2>1, <2>3
  <1> QED
    BY <1>1, <1>2 DEF DrainedFirst, DrainedBeforeShutdown

THEOREM DrainsFirst == Spec => []DrainedFirst
  <1>1. StreamInv => DrainedFirst
    BY DrainedBefore
  <1> QED
    BY <1>1, StreamInvariance, PTL

(* No call takes an output buffer that is within its limit past it.        *)
THEOREM LimitIsKept == Spec => LimitKept
  <1>1. StreamInv /\ [Next]_vars
          => [WithinLimit(stream) /\ stream'.max_outbuf_size = stream.max_outbuf_size
                => WithinLimit(stream')]_vars
    <2> SUFFICES ASSUME StreamInv, Next
                 PROVE  WithinLimit(stream) /\ stream'.max_outbuf_size = stream.max_outbuf_size
                          => WithinLimit(stream')
      OBVIOUS
    <2>1. Steps
      BY NextSteps DEF StreamInv
    <2> QED
      BY <2>1 DEF Steps
  <1> QED
    BY <1>1, StreamInvariance, PTL DEF Spec, LimitKept

============================================================================
