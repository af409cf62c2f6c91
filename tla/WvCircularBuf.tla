--------------------------- MODULE WvCircularBuf ---------------------------
(***************************************************************************)
(* WvCircularBufStore as a value: an array, the place where reading goes   *)
(* on, the bytes to be read and, before them, the bytes that were read and *)
(* may be ungotten.                                                        *)
(*                                                                         *)
(* A buffer b is a record: data, an array indexed from 0; size; head;      *)
(* used, the bytes still to be read; init, those and the history.          *)
(***************************************************************************)
EXTENDS Integers, Sequences, FiniteSetsExt, SequencesExt

CONSTANT NoByte    \* what an uninitialised cell holds

(* A new, empty buffer of the given size.                                  *)
Circular(size) ==
  [data |-> [i \in 0 .. size - 1 |-> NoByte], size |-> size, head |-> 0, used |-> 0, init |-> 0]

circ_ungettable(b) == b.init - b.used
circ_free(b) == b.size - b.used
circ_optgettable(b) == Min({b.size - b.head, b.used})
circ_optallocable(b) ==
  IF b.head + b.used >= b.size THEN b.size - b.used ELSE b.size - (b.head + b.used)

(* memops.uninit_move and memops.swap on n cells of an array.              *)
Move(d, to, from, n) ==
  [i \in DOMAIN d |-> IF i \in to .. to + n - 1 THEN d[i - to + from] ELSE d[i]]
Swap(d, x, y, n) ==
  [i \in DOMAIN d |-> IF i \in x .. x + n - 1 THEN d[i - x + y]
                      ELSE IF i \in y .. y + n - 1 THEN d[i - y + x] ELSE d[i]]

(* Brings the count cells from head on, around the end of the array, to    *)
(* its beginning, without a second array.                                  *)
compact(d, size, head, count) ==
  LET headcount == size - head
      tailcount == count - headcount
      rounds    == tailcount \div headcount
      swapped   == FoldLeftDomain(LAMBDA e, j : Swap(e, (j - 1) * headcount, head, headcount),
                                  d, [j \in 1 .. rounds |-> j])
      start     == rounds * headcount
      moved     == Move(swapped, start, head, headcount)
      rest      == start + headcount
  IN IF count = 0 THEN d
     ELSE IF head + count <= size THEN Move(d, 0, head, count)
     ELSE IF size - count >= headcount
       THEN Move(Move(d, headcount, 0, tailcount), 0, head, headcount)
     ELSE [i \in DOMAIN d |-> IF i \in rest .. count - 1
                                THEN swapped[i - headcount] ELSE moved[i]]

CellAt(b, offset) == (b.head + offset + b.size) % b.size

(* Makes the count cells at offset one piece.                              *)
ensurecontiguous(b, offset, count, keephistory) ==
  LET init == IF keephistory THEN b.init ELSE b.used
      keepstart == (b.head + b.used - init + b.size) % b.size
  IN IF count = 0 \/ CellAt(b, offset) + count <= b.size THEN b
     ELSE [b EXCEPT !.data = compact(b.data, b.size, keepstart, init),
                    !.init = init, !.head = init - b.used]

(* What a caller reads through a pointer to n cells at offset of b: cells  *)
(* past the end of the array are not the buffer's.                         *)
Cells(b, offset, n) ==
  [i \in 1 .. n |-> LET c == CellAt(b, offset) + i - 1 IN IF c < b.size THEN b.data[c] ELSE NoByte]

(* get(): the buffer after it; what it returns is Cells of the contiguous  *)
(* buffer.                                                                 *)
Advanced(c, n) == [c EXCEPT !.head = (@ + n) % c.size, !.used = @ - n]

circ_get(b, n) == Advanced(ensurecontiguous(b, 0, n, FALSE), n)

circ_unget(b, n) == [b EXCEPT !.head = (@ + b.size - n) % b.size, !.used = @ + n]

(* A caller writes bytes through a pointer to the cells at offset.         *)
Written(b, offset, bytes) ==
  LET at == CellAt(b, offset)
  IN [b EXCEPT !.data = [i \in DOMAIN @ |-> IF i \in at .. at + Len(bytes) - 1
                                             THEN bytes[i - at + 1] ELSE @[i]]]

(* alloc() and the caller's writing bytes there.                           *)
Extended(c, bytes) ==
  [Written(c, c.used, bytes) EXCEPT !.used = @ + Len(bytes), !.init = @ + Len(bytes)]

circ_alloc(b, bytes) ==
  Extended(ensurecontiguous([b EXCEPT !.init = b.used], b.used, Len(bytes), FALSE), bytes)

circ_unalloc(b, n) == [b EXCEPT !.used = @ - n, !.init = @ - n]

(* The bytes to be read, and the history before them.                      *)
Unread(b) == [i \in 1 .. b.used |-> b.data[CellAt(b, i - 1)]]
History(b, n) == [i \in 1 .. n |-> b.data[CellAt(b, i - 1 - n)]]
============================================================================
