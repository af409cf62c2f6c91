---------------------------- MODULE UniRetryGen ----------------------------
(***************************************************************************)
(* UniRetryGen: a filter that throws its inner generator away when it is   *)
(* no longer ok and creates a new one when a retry is due.  Every call     *)
(* first maybe connects, then is passed on if the inner generator is ok,   *)
(* and then maybe disconnects; nothing happens between calls.              *)
(*                                                                         *)
(* Time is kept as the distance to next_reconnect_attempt, which may lie   *)
(* in the past, where it is not told apart beyond MaxLate.                 *)
(***************************************************************************)
EXTENDS Integers

CONSTANTS
  Interval,  \* retry_interval_ms, in ticks
  MaxLate    \* bound: lateness told apart, in ticks

ASSUME RetryAssumption == Interval \in Nat /\ MaxLate \in Nat

VARIABLES
  server,   \* what the moniker names can be reached
  inner,    \* UniFilterGen::xinner: "none", "ok", "broken" (not found out) or "failed"
  due,      \* next_reconnect_attempt - wvtime()
  left      \* history: ticks since the disconnect, up to Interval

retryvars == <<server, inner, due, left>>

RetryInit ==
  /\ server \in BOOLEAN
  /\ inner = "none"
  /\ due = 0
  /\ left = Interval

Attempts == inner = "none" /\ due <= 0

(* A generator that is not ok is released again, and the next attempt is   *)
(* due an interval after this one was.                                     *)
maybe_reconnect ==
  [inner |-> IF Attempts /\ server THEN "ok" ELSE inner,
   due   |-> IF Attempts /\ ~server THEN due + Interval ELSE due]

(* Mutant of maybe_disconnect: the next attempt is due when it was.        *)
DisconnectKeepsDue(m) ==
  IF m.inner = "failed" THEN [inner |-> "none", due |-> m.due] ELSE m

(* Mutant of maybe_disconnect: a failed generator is kept.                 *)
KeepsFailed(m) == m

maybe_disconnect(m) ==
  IF m.inner = "failed" THEN [inner |-> "none", due |-> Interval] ELSE m

(* The call itself finds a broken connection.                              *)
Passed(m) == IF m.inner = "broken" THEN [m EXCEPT !.inner = "failed"] ELSE m

(* get, set, exists, haschildren, isok, iterator, commit, refresh...; some *)
(* do not touch the connection.                                            *)
call ==
  \E waits \in BOOLEAN :
    LET m == maybe_disconnect(IF waits THEN Passed(maybe_reconnect) ELSE maybe_reconnect)
    IN /\ inner' = m.inner
       /\ due' = m.due
       /\ left' = IF inner # "none" /\ m.inner = "none" THEN 0 ELSE left
       /\ UNCHANGED server

tick ==
  /\ due' = IF due > -MaxLate THEN due - 1 ELSE due
  /\ left' = IF left < Interval THEN left + 1 ELSE left
  /\ UNCHANGED <<server, inner>>

server_up == ~server /\ server' = TRUE /\ UNCHANGED <<inner, due, left>>

server_down ==
  /\ server /\ server' = FALSE
  /\ inner' = IF inner = "ok" THEN "broken" ELSE inner
  /\ UNCHANGED <<due, left>>

(* The event loop finds a broken connection.                               *)
found_broken == inner = "broken" /\ inner' = "failed" /\ UNCHANGED <<server, due, left>>

RetryNext == call \/ tick \/ server_up \/ server_down \/ found_broken

(* Time passes, the program goes on making calls, and selects.             *)
RetrySpec ==
  /\ RetryInit /\ [][RetryNext]_retryvars
  /\ WF_retryvars(call) /\ WF_retryvars(tick) /\ WF_retryvars(found_broken)

----------------------------------------------------------------------------
(* The inductive invariant: the next attempt is not due before the rest of *)
(* the interval has passed.                                                *)
RetryInv ==
  /\ inner \in {"none", "ok", "broken", "failed"}
  /\ due \in Int /\ left \in 0 .. Interval
  /\ inner = "none" /\ left < Interval => due >= Interval - left

(* Reconnection is attempted only when "at least 5000ms have passed since  *)
(* the disconnect", whatever the backlog of missed attempts.               *)
WaitsAfterDisconnect == RetryInv /\ (Attempts => left = Interval)

(* "It will try to periodically recreate the inner generator until the     *)
(* resulting object returns isok()": once the server stays up, the         *)
(* generator is connected for good, however often the server went away     *)
(* before and whatever the backlog of missed attempts.                     *)
Reconnects == <>[]server => <>[](inner = "ok")
============================================================================
