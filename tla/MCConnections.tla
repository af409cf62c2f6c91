--------------------------- MODULE MCConnections ---------------------------
(***************************************************************************)
(* What connections have to come to, side by side: a WvFdStream over a     *)
(* socket or a pair of pipes, WvHttpPool with three requests, and D-Bus    *)
(* with two clients, one of which is connected at the start.  Every        *)
(* behaviour belongs to one of the parts and leaves the variables of the   *)
(* others alone.                                                           *)
(***************************************************************************)
EXTENDS WvDBus

CONSTANTS FdPairs, Calls, Limits, SizeMod, Errors, MaxBytes, MaxIn

VARIABLES
  part,
  stream, flushed,
  pool, conn, got, failed, errors, aborted, closes

fdvars == <<stream, flushed>>
httpvars == <<pool, conn, got, failed, errors, aborted, closes>>

SocketsAndPipes == {<<3, 3>>, <<3, 4>>}

Http == INSTANCE WvHttpPool WITH
  Url <- 1 .. 3, MaxRequests <- 3, Pipelining <- TRUE, MaxCloses <- 1

Fd == INSTANCE WvFdStream

SuiteInit ==
  /\ part \in {"fd", "http", "dbus"}
  /\ Fd!Init /\ (part # "fd" => stream.rfd = stream.wfd)
  /\ Http!Init
  /\ Init

SuiteNext ==
  /\ UNCHANGED part
  /\ \/ part = "fd" /\ Fd!Next /\ UNCHANGED <<httpvars, vars>>
     \/ part = "http" /\ Http!Next /\ UNCHANGED <<vars, fdvars>>
     \/ part = "dbus" /\ Next /\ UNCHANGED <<fdvars, httpvars>>

(* The fairness of each part.                                              *)
SuiteFairness ==
  /\ SF_fdvars(part = "fd" /\ Fd!Progress)
  /\ []<>(part = "http" => ~Http!May) \/ []<><<part = "http" /\ Http!runs>>_httpvars
  /\ WF_httpvars(part = "http" /\ Http!server)
  /\ \A c \in Client :
       WF_vars(/\ part = "dbus"
               /\ client_auth(c) \/ filter_func(c) \/ server_auth(c) \/ server_filter(c))

SuiteSpec ==
  SuiteInit /\ [][SuiteNext]_<<part, vars, fdvars, httpvars>> /\ SuiteFairness

----------------------------------------------------------------------------
(* WvFdStream: with both halves stopped, or after flush_then_close(), the  *)
(* stream closes unless output is held back.                               *)
StreamCloses == part = "fd" => Fd!BothStoppedCloses /\ Fd!AutocloseCloses

(* WvHttpPool: every outstream gets the answer to its own request, once; a *)
(* request given to a connection is known there until that has ended; and  *)
(* without pipelining there is one request at a time.                      *)
OneAnswerEach ==
  part = "http" => Http!OwnAnswer /\ Http!NoneForgotten /\ Http!OneAtATime

(* WvHttpPool: every request is done in the end, answered or given up.     *)
AllDone == part = "http" => Http!AllDone

(* D-Bus: calls are answered unless a connection is lost under them.       *)
AnswersCome == part = "dbus" => CallsAnswered
============================================================================
