---------------------------- MODULE WvFdMembers ----------------------------
(***************************************************************************)
(* The members of a WvFdStream as a record s, and what its functions do to *)
(* them without calling close(): rfd, wfd, closed, stop_read, stop_write,  *)
(* shutdown_read, shutdown_write, the flush flags and the rest have their  *)
(* names from the code.  err is geterr(), inbuf the number of bytes in the *)
(* input buffer, autoclose a nonzero autoclose_time.  Bytes are numbered   *)
(* in the order write() accepts them; outbuf and wire are sequences of     *)
(* them, wire being what the kernel was given.                             *)
(***************************************************************************)
EXTENDS Integers, Sequences, SequencesExt, FiniteSets

CONSTANTS
  FdPairs,    \* what rfd and wfd may be, equal for a socket
  Calls,      \* the member functions the application uses in this instance
  Limits,     \* arguments of outbuf_limit, 0 for no limit
  SizeMod,    \* size_t is modulo this
  Errors,     \* whether reads and writes may fail
  MaxBytes,   \* bound: bytes written to the stream
  MaxIn       \* bound: bytes in the input buffer

ASSUME FdAssumption == FdPairs \subseteq Nat \X Nat

ASSUME StreamAssumption ==
  /\ Limits \subseteq Nat
  /\ SizeMod \in Nat \ {0}
  /\ Errors \in BOOLEAN
  /\ MaxBytes \in Nat /\ MaxIn \in Nat /\ MaxBytes < SizeMod

None == -1
AllFds == UNION {{p[1], p[2]} : p \in FdPairs}

(* The types of the members; closes counts the ::close calls of the fds.   *)
Members ==
  [rfd : AllFds \union {None}, wfd : AllFds \union {None},
   closed : BOOLEAN, err : BOOLEAN,
   stop_read : BOOLEAN, stop_write : BOOLEAN,
   shutdown_read : BOOLEAN, shutdown_write : BOOLEAN,
   outbuf : Seq(Nat), inbuf : 0 .. MaxIn,
   max_outbuf_size : Limits \union {0}, outbuf_delayed_flush : BOOLEAN,
   is_auto_flush : BOOLEAN,
   want_to_flush : BOOLEAN, is_flushing : BOOLEAN, autoclose : BOOLEAN,
   closecb : BOOLEAN,
   wire : Seq(Nat), accepted : 0 .. MaxBytes,
   closes : UNION {[{p[1], p[2]} -> {0, 1}] : p \in FdPairs},
   cbset : BOOLEAN, cbcalls : {0, 1}]

(* The fds the stream still has.                                           *)
Held(s) == {s.rfd, s.wfd} \ {None}

isok(s) == ~s.closed /\ ~s.err /\ (s.rfd # None \/ s.wfd # None)

(* The states one more step away from the states S.                        *)
Then(S, Step(_)) == UNION {Step(s) : s \in S}

(* ::close(fd), which is harmless for None.                                *)
CloseFd(s, fd) == IF fd = None THEN s ELSE [s EXCEPT !.closes[fd] = @ + 1]

(* uwrite of the first r of the bytes b, or an error.                      *)
Written(s, b, r) == [s EXCEPT !.wire = @ \o SubSeq(b, 1, r)]

WriteFails(s) == Errors \/ s.wfd = None

----------------------------------------------------------------------------
(* maybe_autoclose shuts down a side that was stopped once its buffer is   *)
(* empty.  A socket's one fd is shut down by the first side to stop and    *)
(* closed by the second.                                                   *)
StopsWriting(s) == s.stop_write /\ ~s.shutdown_write /\ s.outbuf = <<>>

(* Mutant of ShutWrite: the output buffer need not be empty.               *)
ShutWriteEarly(s) ==
  IF s.stop_write /\ ~s.shutdown_write
    THEN [(IF s.rfd = s.wfd THEN s ELSE CloseFd(s, s.wfd))
            EXCEPT !.shutdown_write = TRUE, !.wfd = None]
    ELSE s

ShutWrite(s) ==
  IF StopsWriting(s)
    THEN [(IF s.rfd = s.wfd THEN s ELSE CloseFd(s, s.wfd))
            EXCEPT !.shutdown_write = TRUE, !.wfd = None]
    ELSE s

ShutRead(s) ==
  IF s.stop_read /\ ~s.shutdown_read /\ s.inbuf = 0
    THEN [(IF s.rfd = s.wfd THEN s ELSE CloseFd(s, s.rfd))
            EXCEPT !.shutdown_read = TRUE, !.rfd = None]
    ELSE s

(* maybe_autoclose returns here.                                           *)
StopsEarly(s) == StopsWriting(s) /\ s.wfd = None

ShutDown(s) == IF StopsEarly(s) THEN ShutWrite(s) ELSE ShutRead(ShutWrite(s))
============================================================================
