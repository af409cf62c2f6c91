----------------------------- MODULE WvFdStream -----------------------------
(***************************************************************************)
(* WvFdStream over WvStream: a stream with an output buffer over one or    *)
(* two file descriptors, its flushing and the many ways it closes: close() *)
(* itself, an error or end of file met deep inside a flush, half-closes    *)
(* (noread, nowrite) that take effect once buffers drain, and              *)
(* flush_then_close.                                                       *)
(*                                                                         *)
(* Everything is sequential, but calls nest: close() flushes, flushing     *)
(* writes, a failed write closes, an emptied buffer closes, closing calls  *)
(* the close callback, which may half-close.  WvFlush has the functions    *)
(* that close on the way; it is used twice, for calls inside flush() and   *)
(* for calls outside.                                                      *)
(***************************************************************************)
EXTENDS WvFdMembers

VARIABLES
  stream,    \* the members of the object
  flushed    \* what the flush() called last returned, "none" otherwise

vars == <<stream, flushed>>

Init ==
  /\ \E p \in FdPairs : stream =
       [rfd |-> p[1], wfd |-> p[2],
        closed |-> FALSE, err |-> FALSE,
        stop_read |-> FALSE, stop_write |-> FALSE,
        shutdown_read |-> FALSE, shutdown_write |-> FALSE,
        outbuf |-> <<>>, inbuf |-> 0,
        max_outbuf_size |-> 0, outbuf_delayed_flush |-> FALSE,
        is_auto_flush |-> TRUE,
        want_to_flush |-> TRUE, is_flushing |-> FALSE, autoclose |-> FALSE,
        closecb |-> FALSE,
        wire |-> <<>>,                           \* what the kernel was given
        accepted |-> 0,                          \* bytes write() accepted
        closes |-> [f \in {p[1], p[2]} |-> 0],   \* ::close calls
        cbset |-> FALSE, cbcalls |-> 0]          \* close callback
  /\ flushed = "none"

(* The close callback may do nothing, or call noread() or nowrite() on the *)
(* stream, which is closed already but for its fds.                        *)
CloseCallback(s) ==
  {s, ShutDown([s EXCEPT !.stop_read = TRUE]), ShutDown([s EXCEPT !.stop_write = TRUE])}

(* Mutant of Closing: the callback stays set.                              *)
ClosingKeepsCallback(s) ==
  LET c == [s EXCEPT !.closed = TRUE, !.cbcalls = IF s.closecb THEN @ + 1 ELSE @]
  IN {[CloseFd(IF u.wfd = u.rfd THEN u ELSE CloseFd(u, u.wfd), u.rfd)
         EXCEPT !.rfd = None, !.wfd = None] : u \in CloseCallback(c)}

(* close() after its flush.                                                *)
Closing(s) ==
  LET c == [s EXCEPT !.closed = TRUE, !.closecb = FALSE,
                     !.cbcalls = IF s.closecb THEN @ + 1 ELSE @]
  IN {[CloseFd(IF u.wfd = u.rfd THEN u ELSE CloseFd(u, u.wfd), u.rfd)
         EXCEPT !.rfd = None, !.wfd = None] :
        u \in IF s.closecb THEN CloseCallback(c) ELSE {c}}

(* close() called from within a flush.                                     *)
CloseInFlush(s) == IF s.closed THEN {s} ELSE Closing(s)

Inside == INSTANCE WvFlush WITH Close <- CloseInFlush

(* flush(), as pairs of a state and the value returned.                    *)
flush(s, wait) ==
  IF s.is_flushing THEN {<<s, FALSE>>}
  ELSE {<<[f[1] EXCEPT !.is_flushing = FALSE], f[2]>> :
          f \in Inside!flush_outbuf([s EXCEPT !.is_flushing = TRUE, !.want_to_flush = TRUE],
                                    wait)}

Flush(s, wait) == {f[1] : f \in flush(s, wait)}

(* close(), which flushes for up to two seconds first.                     *)
close(s) == IF s.closed THEN {s} ELSE Then(Flush(s, TRUE), Closing)

Outside == INSTANCE WvFlush WITH Close <- close

----------------------------------------------------------------------------
Numbered(a, n) == [i \in 1 .. n |-> a + i]

(* Mutant of CanBuffer: the limit is not looked at.                        *)
CanBufferAll(s, n) == n

(* How much of n more bytes the output buffer takes; unsigned arithmetic.  *)
CanBuffer(s, n) ==
  LET room == (s.max_outbuf_size - Len(s.outbuf)) % SizeMod
  IN IF s.max_outbuf_size # 0 /\ n > room THEN room ELSE n

(* write() puts in the buffer what is left of bytes b after r of them were *)
(* written directly.                                                       *)
Buffered(s, b, r) ==
  LET n == CanBuffer(s, Len(b) - r)
  IN [s EXCEPT !.outbuf = @ \o SubSeq(b, r + 1, r + n), !.accepted = @ + r + n]

(* Mutant of WriteDirect: new bytes overtake those in the buffer.          *)
WriteOvertakes(s, b) ==
  {Buffered(Written(s, b, r), b, r) : r \in IF s.wfd = None THEN {} ELSE 0 .. Len(b)}

(* The uwrite of write(), when nothing is buffered or to be buffered.      *)
WriteDirect(s, b) ==
  IF s.outbuf_delayed_flush \/ s.outbuf # <<>> THEN {Buffered(s, b, 0)}
  ELSE {Buffered(Written(s, b, r), b, r) : r \in IF s.wfd = None THEN {} ELSE 0 .. Len(b)}
       \union {Buffered(t, b, 0) : t \in IF WriteFails(s) THEN Outside!seterr(s) ELSE {}}

AfterWrite(s) ==
  IF ~s.want_to_flush THEN {s}
  ELSE IF s.is_auto_flush THEN Flush(s, FALSE)
  ELSE {f[1] : f \in Outside!flush_outbuf(s, FALSE)}

write(s, n) ==
  IF ~isok(s) \/ s.stop_write THEN {s}
  ELSE Then(WriteDirect(s, Numbered(s.accepted, n)), AfterWrite)

(* uread, as pairs of a state and the number of bytes read: nothing now,   *)
(* up to n bytes, end of file, an error; an error from a closed fd.        *)
uread(s, n) ==
  IF ~isok(s) \/ n = 0 THEN {<<s, 0>>}
  ELSE (IF s.rfd = None THEN {} ELSE {<<s, r>> : r \in 0 .. n})
       \union {<<t, 0>> : t \in IF s.rfd = None THEN {} ELSE close(s)}
       \union {<<t, 0>> : t \in IF Errors \/ s.rfd = None THEN Outside!seterr(s) ELSE {}}

(* read() gives out what is buffered, or reads.  Nobody has called         *)
(* queuemin(): for a queue_min above 0 it reads into the buffer before.    *)
read(s) ==
  LET got == IF s.inbuf > 0 THEN {[s EXCEPT !.inbuf = i] : i \in 0 .. s.inbuf - 1}
                            ELSE {u[1] : u \in uread(s, 1)}
  IN Then(got, Outside!maybe_autoclose)

(* select(): pre_select, then post_select with the fd writable or not.     *)
post_select(s) ==
  LET Again(t) == IF t.wfd # None /\ (t.outbuf # <<>> \/ t.autoclose) /\ t.want_to_flush
                    THEN {t} \union {f[1] : f \in Outside!flush_outbuf(t, FALSE)}
                    ELSE {t}
  IN Then(IF s.want_to_flush THEN Flush(s, FALSE) ELSE {s}, Again)

select(s) == Then(Outside!maybe_autoclose(s), post_select)

(* getline: a line in the buffer is given out; else, if select() reports   *)
(* data, more is read into the buffer.  What is left when reading stopped  *)
(* is a line, too.                                                         *)
getline(s) ==
  LET Line(t) == {[t EXCEPT !.inbuf = i] : i \in 0 .. t.inbuf}
      Fill(t) == IF ~isok(t) THEN {t}
                 ELSE {[u[1] EXCEPT !.inbuf = @ + u[2]] : u \in uread(t, MaxIn - t.inbuf)}
      Wait(t) == {t} \union Then(select(t), Fill)
      Try(t) == Then(IF isok(t) /\ ~t.stop_read THEN {t} \union Wait(t) ELSE {t}, Line)
  IN Then(Outside!maybe_autoclose(s), Try)

----------------------------------------------------------------------------
(* The application calls a member function.                                *)
Call(op, S) == op \in Calls /\ stream' \in S /\ flushed' = "none"

do_write ==
  \E n \in 1 .. MaxBytes - stream.accepted : Call("write", write(stream, n))

do_flush ==
  /\ "flush" \in Calls
  /\ \E wait \in BOOLEAN : \E f \in flush(stream, wait) :
       stream' = f[1] /\ flushed' = IF f[2] THEN "true" ELSE "false"

do_close == Call("close", close(stream))

do_read == Call("read", read(stream))

do_getline == Call("getline", getline(stream))

noread ==
  Call("noread", Outside!maybe_autoclose([stream EXCEPT !.stop_read = TRUE]))

nowrite ==
  Call("nowrite", Outside!maybe_autoclose([stream EXCEPT !.stop_write = TRUE]))

flush_then_close ==
  Call("flush_then_close", Flush([stream EXCEPT !.autoclose = TRUE], FALSE))

delay_output(b) ==
  Call("delay_output",
       {[stream EXCEPT !.outbuf_delayed_flush = b, !.want_to_flush = ~b]})

auto_flush == Call("auto_flush", {[stream EXCEPT !.is_auto_flush = FALSE]})

outbuf_limit(n) == Call("outbuf_limit", {[stream EXCEPT !.max_outbuf_size = n]})

(* A callback set on a stream that is not ok is called at once.            *)
setclosecallback ==
  /\ ~stream.cbset
  /\ Call("setclosecallback",
          {[stream EXCEPT !.cbset = TRUE, !.closecb = isok(stream),
                          !.cbcalls = IF isok(stream) THEN 0 ELSE 1]})

(* The main loop selects on streams that are ok.                           *)
do_select ==
  /\ isok(stream)
  /\ stream' \in select(stream)
  /\ flushed' = "none"

Next ==
  \/ do_write \/ do_flush \/ do_close \/ do_read \/ do_getline
  \/ noread \/ nowrite \/ flush_then_close
  \/ \E b \in BOOLEAN : delay_output(b)
  \/ auto_flush
  \/ \E n \in Limits : outbuf_limit(n)
  \/ setclosecallback
  \/ do_select

Spec == Init /\ [][Next]_vars

(* The main loop keeps selecting, and the peer keeps taking bytes, so that *)
(* the kernel accepts some of what a flush offers again and again.         *)
Progress == do_select /\ (Len(stream'.wire) > Len(stream.wire) \/ stream.outbuf = <<>>)

FairSpec == Spec /\ SF_vars(Progress)

----------------------------------------------------------------------------
(* Every member has its type, and is_flushing is set only inside a flush.  *)
TypeOK ==
  /\ stream \in Members
  /\ ~stream.is_flushing
  /\ flushed \in {"none", "true", "false"}

(* Bytes reach the kernel in the order write() accepted them, each once,   *)
(* and until the stream closes none is missing: those not written yet are  *)
(* in the output buffer, whatever was put back after partial writes.       *)
BytesInOrder ==
  /\ IsPrefix(stream.wire, Numbered(0, stream.accepted))
  /\ isok(stream) =>
       stream.wire \o stream.outbuf = Numbered(0, stream.accepted)

(* The close callback is called when the stream closes, and once only,     *)
(* although close() may be reached again from within its own flush, from   *)
(* errors in it, and from the destructor ("ensure callback is only called  *)
(* once").                                                                 *)
CloseCallbackOnce ==
  /\ stream.cbcalls <= 1
  /\ stream.closed /\ stream.cbset => stream.cbcalls = 1

(* No fd is closed twice, used after it was closed, or left open when the  *)
(* stream is closed, in whatever order the halves are shut down: the       *)
(* number may belong to another file by then.                              *)
FdsClosedOnce ==
  /\ \A f \in DOMAIN stream.closes : stream.closes[f] <= 1
  /\ \A f \in {stream.rfd, stream.wfd} \ {None} : stream.closes[f] = 0
  /\ stream.closed => \A f \in DOMAIN stream.closes : stream.closes[f] = 1

(* nowrite(): "if there's data in the output buffer, it will still be      *)
(* flushed": the writing side is shut down on a working stream only after  *)
(* every accepted byte went out.                                           *)
DrainedBeforeShutdown ==
  isok(stream) /\ stream.shutdown_write
    => stream.wire = Numbered(0, stream.accepted)

(* flush() returns true only if the output buffer is empty.                *)
FlushedMeansEmpty == flushed = "true" => stream.outbuf = <<>>

(* The fds not closed yet are those the stream holds.                      *)
FdsHeld(s) ==
  /\ Held(s) \subseteq DOMAIN s.closes
  /\ \A f \in DOMAIN s.closes : s.closes[f] = IF f \in Held(s) THEN 0 ELSE 1

(* A close callback that was set is still to be called, or was called.     *)
CallbackDue(s) ==
  /\ s.cbcalls = IF s.cbset /\ ~s.closecb THEN 1 ELSE 0
  /\ s.closecb => s.cbset /\ ~s.closed

(* The output buffer of a working stream goes on where the kernel's bytes  *)
(* end, to the last byte accepted, and is empty once the writing half is   *)
(* shut down.                                                              *)
BytesKept(s) ==
  /\ Len(s.wire) <= s.accepted
  /\ s.wire = Numbered(0, Len(s.wire))
  /\ isok(s) => s.outbuf = Numbered(Len(s.wire), s.accepted - Len(s.wire))
  /\ s.shutdown_write => s.stop_write /\ (isok(s) => s.outbuf = <<>>)

(* What every function of the stream can count on when it is called, in    *)
(* the middle of other calls, and what is true between calls.              *)
Good(s) == s \in Members /\ FdsHeld(s) /\ CallbackDue(s) /\ BytesKept(s)

Sound(s) == Good(s) /\ (s.closed => Held(s) = {})

StreamInv == TypeOK /\ Sound(stream) /\ FlushedMeansEmpty

(* The close callback runs once and every descriptor is closed once.       *)
ClosesOnce == StreamInv /\ CloseCallbackOnce /\ FdsClosedOnce

(* Nothing is left in the buffer when the writing half is shut down, and   *)
(* when a flush says so.                                                   *)
DrainedFirst == DrainedBeforeShutdown /\ FlushedMeansEmpty

(* "Returns true if the flushing finished (the output buffer is empty)."   *)
FlushTellsTruth ==
  flushed # "none" /\ isok(stream) => (flushed = "true") = (stream.outbuf = <<>>)

WithinLimit(s) == s.max_outbuf_size = 0 \/ Len(s.outbuf) <= s.max_outbuf_size

(* An output buffer that is within its limit never grows past it, whatever *)
(* is written directly, buffered and put back.                             *)
LimitKept ==
  [][WithinLimit(stream) /\ stream'.max_outbuf_size = stream.max_outbuf_size
       => WithinLimit(stream')]_vars

(* "If you call both noread() and nowrite(), then the stream does close()  *)
(* automatically once all buffers are empty", and the output buffer is     *)
(* flushed by the main loop, unless output is delayed: then nothing is     *)
(* flushed until delay_output(false), flush() or another write.            *)
BothStoppedCloses ==
  stream.stop_read /\ stream.stop_write /\ stream.inbuf = 0
    ~> stream.closed \/ ~stream.want_to_flush

(* flush_then_close(): "If the buffer empties, close the stream."          *)
AutocloseCloses == stream.autoclose ~> stream.closed \/ ~stream.want_to_flush
============================================================================
