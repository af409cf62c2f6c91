------------------------------ MODULE WvFlush ------------------------------
(***************************************************************************)
(* Flushing the output buffer of a stream, and what may close the stream   *)
(* on the way: a failed write, the end of a flush_then_close, both sides   *)
(* being stopped and drained.  Each function is an operator from a stream  *)
(* to the set of streams it may leave behind, for whatever the kernel      *)
(* answers.                                                                *)
(*                                                                         *)
(* Close is the close() these functions call: one that flushes first, or,  *)
(* when they are called inside flush(), one that does not (is_flushing).   *)
(***************************************************************************)
EXTENDS WvFdMembers

CONSTANT Close(_)

maybe_autoclose(s) ==
  LET t == ShutDown(s)
  IN IF /\ ~StopsEarly(s)
        /\ t.stop_read /\ t.stop_write /\ t.outbuf = <<>> /\ t.inbuf = 0
        /\ ~t.closed
       THEN Close(t) ELSE {t}

(* seterr() with an error number; end of file is reported as number zero,  *)
(* which leaves no error behind.                                           *)
seterr(s) == IF s.err THEN {s} ELSE Close([s EXCEPT !.err = TRUE])

(* The uwrites from the output buffer: some of it is taken by the kernel   *)
(* (none, when it is full) and the rest put back; on an error, which the   *)
(* first or, with time to wait, a later uwrite meets, the stream closes    *)
(* and nothing is put back.                                                *)
Uwrites(s, wait) ==
  LET taken == IF s.wfd = None THEN {} ELSE 0 .. Len(s.outbuf)
      before == IF wait THEN 0 .. Len(s.outbuf) - 1 ELSE {0}
  IN {[Written(s, s.outbuf, r) EXCEPT !.outbuf = SubSeq(@, r + 1, Len(@))] : r \in taken}
     \union (IF WriteFails(s)
               THEN Then({[Written(s, s.outbuf, r) EXCEPT !.outbuf = <<>>] : r \in before},
                         seterr)
               ELSE {})

(* The loop of flush_outbuf, as pairs of a state and outbuf_was_used.      *)
(* With no time to wait it is left after one uwrite.  With time, it goes   *)
(* on until a select() in it fails, or the buffer is found empty after     *)
(* one; post_select's flush_outbuf(0) in that select() only does some of   *)
(* the same.                                                               *)
Drain(s, wait) ==
  IF s.outbuf = <<>> \/ ~isok(s) THEN {<<s, s.outbuf # <<>>>>}
  ELSE {<<t, TRUE>> : t \in Uwrites(s, wait)}
       \union {<<t, FALSE>> : t \in {u \in Uwrites(s, wait) :
                                        wait /\ isok(u) /\ u.outbuf = <<>>}}

(* Mutant of Autoclose: it is over when the buffer is empty, without close.*)
AutocloseForgets(s) ==
  {IF s.outbuf = <<>> THEN [s EXCEPT !.autoclose = FALSE] ELSE s}

(* The autoclose chunk: the buffer is empty or the time is over.           *)
Autoclose(s) ==
  IF ~s.autoclose \/ ~isok(s) THEN {s}
  ELSE Close([s EXCEPT !.autoclose = FALSE])
       \union (IF s.outbuf = <<>> THEN {} ELSE {s})

(* What flush_outbuf does after the loop and the autoclose chunk.          *)
Settle(s, used) ==
  LET t == [s EXCEPT !.want_to_flush = @ /\ ~(s.outbuf_delayed_flush /\ ~used),
                     !.outbuf = IF used /\ ~isok(s) THEN <<>> ELSE @]
  IN maybe_autoclose(t)

flush_outbuf(s, wait) ==
  IF s.outbuf = <<>> /\ ~s.autoclose /\ ~s.outbuf_delayed_flush
    THEN {<<t, TRUE>> : t \in maybe_autoclose(s)}
    ELSE UNION {{<<t, ~d[2]>> : t \in Then(Autoclose(d[1]),
                                           LAMBDA u : Settle(u, d[2]))} :
                  d \in Drain(s, wait)}
============================================================================
