------------------------------ MODULE WvDynBuf ------------------------------
(***************************************************************************)
(* WvDynBufStore, the store behind WvDynBuf: a list of circular buffers    *)
(* that grows at its end (WvLinkedBufferStore), with the calls that move   *)
(* bytes between them: get and peek coalesce, merge steals whole buffers.  *)
(*                                                                         *)
(* A store is a record: list, a sequence of WvCircularBuf; used, for       *)
(* totalused; maxungettable.  A byte is the store it was written to and a  *)
(* serial number.                                                          *)
(***************************************************************************)
EXTENDS WvCircularBuf

CONSTANTS
  Store,      \* the dynamic buffers
  Merges,     \* the pairs <<s, t>> such that s.merge(t, n) is called
  MinAlloc,   \* minalloc and maxalloc of the constructor
  MaxAlloc,
  MaxPut      \* bound: MaxPut[s], the bytes written to s or merged into it

VARIABLES
  store,      \* store[s]: the records above
  content,    \* history: content[s], the bytes written to s and not read
  gone,       \* history: gone[s], the bytes read from s, the latest last,
              \* as far as they may still be ungotten
  fresh,      \* history: fresh[s], the bytes the last call, get(), gave
  written     \* written[s]: the bytes written to s so far

bufvars == <<store, content, gone, fresh, written>>

Init ==
  /\ store = [s \in Store |-> [list |-> <<>>, used |-> 0, maxungettable |-> 0]]
  /\ content = [s \in Store |-> <<>>]
  /\ gone = [s \in Store |-> <<>>]
  /\ fresh = [s \in Store |-> 0]
  /\ written = [s \in Store |-> 0]

Take(q, n) == SubSeq(q, 1, n)
Drop(q, n) == SubSeq(q, n + 1, Len(q))
Suffix(q, n) == SubSeq(q, Len(q) - n + 1, Len(q))

(* The bytes to be read in a list of buffers.                              *)
Amount(list) == FoldLeft(LAMBDA n, b : n + b.used, 0, list)

----------------------------------------------------------------------------
(* Mutant of linked_ungettable: only the count of the list is used.        *)
UngettableCounted(d) == d.maxungettable

linked_ungettable(d) ==
  IF d.list = <<>> THEN 0 ELSE Min({circ_ungettable(Head(d.list)), d.maxungettable})

(* newbuffer(): the size of a new buffer for at least minsize bytes.       *)
newbuffer(d, minsize) ==
  LET grow == Max({d.used, 2 * minsize})
      within == IF grow < MinAlloc THEN MinAlloc ELSE Min({grow, MaxAlloc})
  IN Circular(Max({within, minsize}))

linked_free(d) == IF d.list = <<>> THEN 0 ELSE circ_free(Last(d.list))
linked_optallocable(d) == IF d.list = <<>> THEN 0 ELSE circ_optallocable(Last(d.list))

(* alloc() and the caller's writing bytes there.                           *)
alloc(d, bytes) ==
  LET n == Len(bytes)
      list == IF n > linked_free(d) THEN Append(d.list, newbuffer(d, n)) ELSE d.list
  IN IF n = 0 THEN d
     ELSE [d EXCEPT !.list = [list EXCEPT ![Len(list)] = circ_alloc(@, bytes)], !.used = @ + n]

(* WvBufStore::put(): as much as optallocable() says at a time; a dynamic  *)
(* buffer without room says any amount.                                    *)
put(d, bytes) ==
  FoldLeft(LAMBDA a, i :
             LET n == IF linked_optallocable(a.d) = 0 THEN Len(a.rest)
                      ELSE Min({linked_optallocable(a.d), Len(a.rest)})
             IN [d |-> alloc(a.d, Take(a.rest, n)), rest |-> Drop(a.rest, n)],
           [d |-> d, rest |-> bytes], bytes).d

(* basicmerge() between two circular buffers: in pieces that are           *)
(* contiguous in both, so that neither is compacted.                       *)
circ_put(b, bytes) ==
  FoldLeft(LAMBDA a, i :
             LET n == Min({circ_optallocable(a.b), Len(a.rest)})
             IN IF n = 0 THEN a
                ELSE [b |-> circ_alloc(a.b, Take(a.rest, n)), rest |-> Drop(a.rest, n)],
           [b |-> b, rest |-> bytes], bytes).b
circ_drain(b, n) ==
  FoldLeft(LAMBDA a, i :
             LET k == Min({circ_optgettable(a.b), a.n})
             IN [b |-> circ_get(a.b, k), n |-> a.n - k],
           [b |-> b, n |-> n], <<1, 2>>).b

(* The merging of the bytes that a.buf still needs from b.                 *)
MergeBuf(a, b) ==
  LET chunk == Min({b.used, a.needed})
  IN IF a.needed = 0 THEN [a EXCEPT !.rest = Append(@, b)]
     ELSE [buf    |-> circ_put(a.buf, Take(Unread(b), chunk)),
           needed |-> a.needed - chunk,
           rest   |-> IF chunk = a.needed THEN Append(a.rest, circ_drain(b, chunk)) ELSE a.rest]

(* The merged buffer, less the bytes it got to be ungotten, takes the      *)
(* place of the i-th one.                                                  *)
Relinked(d, i, mustskip, end) ==
  [ok |-> end.needed = 0,
   d  |-> [d EXCEPT !.list = Take(@, i - 1) \o <<circ_get(end.buf, Min({mustskip, end.buf.used}))>>
                               \o end.rest]]

(* The bytes that may be ungotten move to a new buffer with the rest.      *)
(* Nothing is done about them when the call takes all there is.            *)
coalesce(d, i, count) ==
  LET old      == d.list[i]
      grows    == circ_free(old) < count - old.used
      mustskip == IF grows /\ i = 1 /\ d.used # 0 THEN linked_ungettable(d) ELSE 0
      into     == IF grows THEN newbuffer(d, count + mustskip) ELSE old
      from     == IF grows THEN <<circ_unget(old, mustskip)>> \o Drop(d.list, i)
                  ELSE Drop(d.list, i)
      start    == [buf |-> into, rest |-> <<>>,
                   needed |-> IF grows THEN count + mustskip ELSE count - old.used]
  IN IF count <= old.used THEN [ok |-> TRUE, d |-> d]
     ELSE Relinked(d, i, mustskip, FoldLeft(MergeBuf, start, from))

(* The n bytes of the first buffer, in one piece.                          *)
GetFirst(first, n, c) ==
  [ok |-> c.ok, data |-> Cells(first, 0, n),
   d |-> [c.d EXCEPT !.list[1] = Advanced(first, n), !.maxungettable = @ + n]]

GetCoalesced(c, n) == GetFirst(ensurecontiguous(Head(c.d.list), 0, n, FALSE), n, c)

(* get() for 0 < n <= used: leading empty buffers are unlinked, the first  *)
(* buffer is filled up with what is missing.                               *)
get(d, n) ==
  LET empty == {i \in 1 .. Len(d.list) : \A j \in 1 .. i : d.list[j].used = 0}
      taken == [d EXCEPT !.list = Drop(@, Cardinality(empty)), !.used = @ - n,
                         !.maxungettable = IF empty = {} THEN @ ELSE 0]
  IN GetCoalesced(coalesce(taken, 1, n), n)

unget(d, n) ==
  [d EXCEPT !.list[1] = circ_unget(@, n), !.used = @ + n, !.maxungettable = @ - n]

(* unalloc() gives up whole buffers from the end, then part of one.        *)
unalloc(d, n) ==
  LET Back(a, b) ==
        IF a.n = 0 THEN [a EXCEPT !.list = <<b>> \o @]
        ELSE IF a.n < b.used THEN [n |-> 0, list |-> <<circ_unalloc(b, a.n)>>]
        ELSE [n |-> a.n - b.used, list |-> <<>>]
      end == FoldLeft(Back, [n |-> n, list |-> <<>>], Reverse(d.list))
  IN [d EXCEPT !.list = end.list, !.used = @ - n,
               !.maxungettable = IF end.list = <<>> THEN 0 ELSE @]

(* search(): the buffer with the byte at offset, and its offset there.     *)
search(d, offset) ==
  LET Before(i) == Amount(Take(d.list, i - 1))
      hit == {i \in 1 .. Len(d.list) :
                IF offset < 0 THEN i = 1 /\ -offset <= circ_ungettable(d.list[1])
                ELSE Before(i) <= offset /\ offset < Before(i) + d.list[i].used}
  IN IF hit = {} THEN [at |-> 0, offset |-> 0]
     ELSE LET i == Min(hit)
          IN [at |-> i, offset |-> IF offset < 0 THEN offset ELSE offset - Before(i)]

peekable(b, offset) == IF offset < 0 /\ -offset > circ_ungettable(b) THEN 0 ELSE b.used - offset

(* The n bytes at place p of d, in b, which is in one piece there.         *)
PeekIn(b, d, p, n) ==
  [ok |-> TRUE, d |-> [d EXCEPT !.list[p.at] = b], data |-> Cells(b, p.offset, n)]

PeekCoalesced(c, p, n) ==
  IF ~c.ok THEN [ok |-> FALSE, d |-> c.d, data |-> <<>>]
  ELSE PeekIn(ensurecontiguous(c.d.list[p.at], p.offset, n, TRUE), c.d, p, n)

PeekAt(d, p, n) ==
  PeekCoalesced(IF p.at = 0 THEN [ok |-> FALSE, d |-> d]
                ELSE IF peekable(d.list[p.at], p.offset) < n THEN coalesce(d, p.at, n)
                ELSE [ok |-> TRUE, d |-> d], p, n)

(* mutablepeek() for n > 0, which makes room for n bytes in the buffer     *)
(* whatever the offset.                                                    *)
mutablepeek(d, offset, n) == PeekAt(d, search(d, offset), n)

(* poke() over bytes that are there, one buffer after the other.           *)
overwrite(d, offset, bytes) ==
  LET Part(a, b) ==
        LET lo == Max({a.from, 0})
            n  == Max({0, Min({b.used - lo, Len(a.rest)})})
        IN [from |-> a.from - b.used,
            rest |-> Drop(a.rest, n),
            list |-> Append(a.list,
              IF n = 0 THEN b
              ELSE Written(ensurecontiguous(b, lo, n, TRUE), lo, Take(a.rest, n)))]
  IN [d EXCEPT !.list = FoldLeft(Part, [from |-> offset, rest |-> bytes, list |-> <<>>], @).list]

(* merge() takes whole buffers as long as they hold no more than is asked  *)
(* for, and stops when it has that: their number.                          *)
Stolen(from, n) ==
  LET U(i) == Amount(Take(from.list, i))
  IN Max({k \in 0 .. Len(from.list) : U(k) <= n /\ \A j \in 1 .. k - 1 : U(j) < n})

----------------------------------------------------------------------------
(* What may not be ungotten any more is forgotten.                         *)
Keep(q, d) == Suffix(q, Min({Len(q), linked_ungettable(d)}))

(* store[s] becomes d, unread what waits in it, and read are the bytes     *)
(* that were read from it.                                                 *)
Become(s, d, unread, read) ==
  /\ store' = [store EXCEPT ![s] = d]
  /\ content' = [content EXCEPT ![s] = unread]
  /\ gone' = [gone EXCEPT ![s] = Keep(read, d)]

(* The next bytes to write to s.                                           *)
Bytes(s, n) == [i \in 1 .. n |-> <<s, written[s] + i>>]

(* put(), and fastput() and alloc(), which ask for one piece.              *)
Put(s, n, fast) ==
  /\ written[s] + n <= MaxPut[s]
  /\ Become(s, IF fast THEN alloc(store[s], Bytes(s, n)) ELSE put(store[s], Bytes(s, n)),
            content[s] \o Bytes(s, n), gone[s])
  /\ written' = [written EXCEPT ![s] = @ + n]
  /\ fresh' = [fresh EXCEPT ![s] = 0]

Get(s, n) ==
  /\ n <= store[s].used
  /\ \E g \in {get(store[s], n)} :
       Become(s, g.d, Drop(content[s], n), gone[s] \o g.data)
  /\ fresh' = [fresh EXCEPT ![s] = n]
  /\ UNCHANGED written

Unget(s, n) ==
  /\ n <= linked_ungettable(store[s])
  /\ Become(s, unget(store[s], n), Suffix(gone[s], n) \o content[s],
            Take(gone[s], Len(gone[s]) - n))
  /\ fresh' = [fresh EXCEPT ![s] = 0]
  /\ UNCHANGED written

Unalloc(s, n) ==
  /\ n <= store[s].used
  /\ Become(s, unalloc(store[s], n), Take(content[s], Len(content[s]) - n), gone[s])
  /\ fresh' = [fresh EXCEPT ![s] = 0]
  /\ UNCHANGED written

(* A peek that returns; it may coalesce buffers.                           *)
Peek(s, offset, n) ==
  /\ offset >= -linked_ungettable(store[s]) /\ n <= store[s].used - offset
  /\ \E p \in {mutablepeek(store[s], offset, n)} :
       p.ok /\ Become(s, p.d, content[s], gone[s])
  /\ fresh' = [fresh EXCEPT ![s] = 0]
  /\ UNCHANGED written

(* poke(): what goes past the end is put, and the rest overwritten.        *)
Poke(s, offset, n) ==
  LET over == Min({n, store[s].used - offset})
  IN /\ offset \in 0 .. store[s].used /\ written[s] + n <= MaxPut[s]
     /\ Become(s, overwrite(put(store[s], Drop(Bytes(s, n), over)), offset, Take(Bytes(s, n), over)),
               Take(content[s], offset) \o Bytes(s, n) \o Drop(content[s], offset + n), gone[s])
     /\ written' = [written EXCEPT ![s] = @ + n]
     /\ fresh' = [fresh EXCEPT ![s] = 0]

Zap(s) ==
  /\ Become(s, [list |-> <<>>, used |-> 0, maxungettable |-> 0], <<>>, <<>>)
  /\ fresh' = [fresh EXCEPT ![s] = 0]
  /\ UNCHANGED written

(* A piece is taken out of a.d and added to a.data.                        *)
Moved(a, m, g) == [d |-> g.d, n |-> a.n - m, data |-> a.data \o g.data]

Piece(a, i) ==
  LET filled == SelectSeq(a.d.list, LAMBDA b : b.used > 0)
      m == Min({a.n, circ_optgettable(Head(filled))})
  IN IF a.n = 0 THEN a ELSE Moved(a, m, get(a.d, m))

(* s.merge(t, n): whole buffers of t, then bytes, in pieces that are       *)
(* contiguous in t.                                                        *)
Merge(s, t, n) ==
  LET k     == Stolen(store[t], n)
      moved == Take(store[t].list, k)
      bytes == Amount(moved)
      left  == [store[t] EXCEPT !.list = Drop(@, k), !.used = @ - bytes,
                                !.maxungettable = IF k = 0 THEN @ ELSE 0]
      taken == [store[s] EXCEPT !.list = @ \o moved, !.used = @ + bytes]
  IN /\ <<s, t>> \in Merges /\ n <= store[t].used /\ written[s] + n <= MaxPut[s]
     /\ \E out \in {FoldLeftDomain(Piece, [d |-> left, n |-> n - bytes, data |-> <<>>], Bytes(s, n))} :
          \E into \in {put(taken, out.data)} :
            /\ store' = [store EXCEPT ![s] = into, ![t] = out.d]
            /\ gone' = [gone EXCEPT ![s] = Keep(@, into),
                                    ![t] = Keep(@ \o Take(content[t], n), out.d)]
     /\ content' = [content EXCEPT ![s] = @ \o Take(content[t], n), ![t] = Drop(@, n)]
     /\ fresh' = [fresh EXCEPT ![s] = 0, ![t] = 0]
     /\ written' = [written EXCEPT ![s] = @ + n]

(* No store ever holds more bytes.                                         *)
MostBytes == FoldFunction(+, 0, MaxPut)

Next ==
  \E s \in Store :
    \/ \E n \in 1 .. MostBytes :
         \/ \E fast \in BOOLEAN : Put(s, n, fast)
         \/ Get(s, n) \/ Unget(s, n) \/ Unalloc(s, n)
         \/ \E offset \in -MostBytes .. MostBytes : Peek(s, offset, n) \/ Poke(s, offset, n)
         \/ \E t \in Store : Merge(s, t, n)
    \/ Zap(s)

Spec == Init /\ [][Next]_bufvars

----------------------------------------------------------------------------
(* The bytes that wait to be read are those written and not read, in       *)
(* order, wherever coalescing, compaction and merging have moved them.     *)
ContentKept ==
  \A s \in Store :
    /\ FlattenSeq([i \in DOMAIN store[s].list |-> Unread(store[s].list[i])]) = content[s]
    /\ store[s].used = Len(content[s])

(* What may be ungotten are the bytes last read, and not stale ones that   *)
(* an inner buffer still has after its bytes were moved elsewhere.         *)
HistoryTrue ==
  \A s \in Store :
    LET n == linked_ungettable(store[s])
    IN n <= Len(gone[s]) /\ (n > 0 => History(Head(store[s].list), n) = Suffix(gone[s], n))

(* "After this operation, at least count elements may be ungotten."        *)
GetMayBeUngotten == \A s \in Store : fresh[s] <= linked_ungettable(store[s])

(* peek() of bytes that are there returns them: "It is an error for count  *)
(* to be greater than peekable(offset)", and no other.                     *)
PeekReturns ==
  \A s \in Store : \A offset \in -linked_ungettable(store[s]) .. store[s].used - 1 :
    \A n \in 1 .. store[s].used - offset :
      LET all == History(Head(store[s].list), linked_ungettable(store[s])) \o content[s]
          p == mutablepeek(store[s], offset, n)
      IN p.ok /\ p.data = Take(Drop(all, linked_ungettable(store[s]) + offset), n)
============================================================================
