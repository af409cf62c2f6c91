------------------------------ MODULE WvAlarm ------------------------------
(***************************************************************************)
(* WvStream::alarm() and alarm_remaining() over the cached clock of        *)
(* wvtimeutils.                                                            *)
(*                                                                         *)
(* wvstime() is the time of the last sync: select() takes it over as it is *)
(* before it waits and only forward after it has waited.  The computer's   *)
(* clock may be set back at any time; alarm_remaining() notices that when  *)
(* it finds an earlier time than at the last look, and moves the alarm.    *)
(* The last look may have been at another alarm, long ago or before the    *)
(* clock was set back: alarm() leaves last_alarm_check as it is.           *)
(***************************************************************************)
EXTENDS Integers, FiniteSetsExt

CONSTANTS
  Clock,     \* the times the computer's clock shows
  Timeout,   \* the arguments of alarm()
  MaxLate    \* bound: how long an alarm that is due is left alone

(* Times are counted from some moment on, so that 0 is none that is met.   *)
ASSUME AlarmAssumption ==
  Clock \subseteq Nat \ {0} /\ Clock # {} /\ Timeout \subseteq Nat

VARIABLES
  clock,             \* wvtime()
  wvstime_cur,
  alarm_time,        \* 0: no alarm
  last_alarm_check,
  waiting,           \* select() is between pre_select and post_select
  want,              \* ghost: real time until the alarm should go off
  age,               \* ghost: how old wvstime() was when the alarm was set
  span,              \* ghost: real time since the last look
  back,              \* ghost: the clock was set back and nobody has seen it
  lost,              \* ghost: real time of looks the clock was set back between
  blind,             \* ghost: by how much the clock was set back where the
                     \* last look was older than wvstime()
  ahead              \* ghost: how far the last look was ahead of wvstime() when
                     \* the alarm was set

stored == <<wvstime_cur, alarm_time, last_alarm_check, waiting>>
ghost == <<want, age, span, back, lost, blind, ahead>>
alarmvars == <<clock, stored, ghost>>

AlarmInit ==
  /\ clock = Min(Clock) /\ wvstime_cur = clock
  /\ alarm_time = 0 /\ last_alarm_check = 0 /\ waiting = FALSE
  /\ want = 0 /\ age = 0 /\ span = 0 /\ back = FALSE /\ lost = 0
  /\ blind = 0 /\ ahead = 0

(* Time passes.                                                            *)
tick ==
  /\ clock + 1 \in Clock
  /\ alarm_time # 0 => want > -MaxLate
  /\ clock' = clock + 1
  /\ IF alarm_time = 0 THEN UNCHANGED <<want, span>>
     ELSE want' = want - 1 /\ span' = span + 1
  /\ UNCHANGED <<stored, age, back, lost, blind, ahead>>

(* The clock is set back.                                                  *)
Behind == last_alarm_check < wvstime_cur

set_back ==
  /\ \E t \in Clock :
       /\ t < clock /\ clock' = t
       /\ blind' = IF alarm_time # 0 /\ Behind THEN blind + (clock - t) ELSE blind
  /\ back' = TRUE
  /\ UNCHANGED <<stored, want, age, span, lost, ahead>>

(* Mutant of alarm_remaining: no correction.                               *)
RemainingPlain(now) ==
  /\ last_alarm_check' = IF alarm_time # 0 THEN now ELSE last_alarm_check
  /\ UNCHANGED alarm_time

alarm_remaining(now) ==
  /\ alarm_time' = IF alarm_time # 0 /\ now < last_alarm_check
                     THEN alarm_time - (last_alarm_check - now) ELSE alarm_time
  /\ last_alarm_check' = IF alarm_time # 0 THEN now ELSE last_alarm_check

(* What a look at time now does to the ghosts.                             *)
Looked(now) ==
  /\ lost' = IF back THEN lost + span ELSE lost
  /\ span' = 0
  /\ back' = (now > clock)
  /\ UNCHANGED <<want, age, blind, ahead>>

(* _build_selectinfo(): wvstime_sync() and pre_select().                   *)
_build_selectinfo ==
  /\ ~waiting
  /\ waiting' = TRUE
  /\ wvstime_cur' = clock
  /\ alarm_remaining(clock)
  /\ Looked(clock)
  /\ UNCHANGED clock

(* _process_selectinfo(): wvstime_sync_forward() and post_select(), which  *)
(* is followed by callback() if the alarm has rung.                        *)
Rings(now) == alarm_time # 0 /\ alarm_time <= now

_process_selectinfo ==
  LET now == Max({wvstime_cur, clock})
  IN /\ waiting
     /\ waiting' = FALSE
     /\ wvstime_cur' = now
     /\ IF Rings(now) THEN alarm_time' = 0 /\ last_alarm_check' = now
        ELSE alarm_remaining(now)
     /\ Looked(now)
     /\ UNCHANGED clock

(* alarm(), by user code outside select().                                 *)
alarm(msec) ==
  /\ ~waiting
  /\ alarm_time' = wvstime_cur + msec
  /\ want' = msec
  /\ age' = Max({clock - wvstime_cur, 0})
  /\ span' = 0 /\ lost' = 0
  /\ blind' = IF Behind THEN Max({wvstime_cur - clock, 0}) ELSE 0
  /\ ahead' = Max({last_alarm_check - wvstime_cur, 0})
  /\ UNCHANGED <<clock, wvstime_cur, last_alarm_check, waiting, back>>

(* callback(), or user code, asks for what is left, which is told from     *)
(* wvstime() as it is.                                                     *)
look ==
  /\ ~waiting
  /\ alarm_remaining(wvstime_cur)
  /\ UNCHANGED <<clock, wvstime_cur, waiting, ghost>>

(* alarm(-1), or callback() that finds the alarm due.                      *)
no_alarm ==
  /\ ~waiting /\ alarm_time # 0
  /\ alarm_time' = 0
  /\ UNCHANGED <<clock, wvstime_cur, last_alarm_check, waiting, ghost>>

AlarmNext ==
  \/ tick \/ set_back \/ _build_selectinfo \/ _process_selectinfo \/ look \/ no_alarm
  \/ \E msec \in Timeout : alarm(msec)

AlarmSpec == AlarmInit /\ [][AlarmNext]_alarmvars

----------------------------------------------------------------------------
(* An alarm rings late at most by the real time between those looks at the *)
(* alarm between which the clock was set back, however far back that was;  *)
(* but by the whole of what it was set back by before the first look at    *)
(* this alarm, if the last look at one before it was too long ago to tell. *)
AlarmNotLate ==
  alarm_time # 0 /\ last_alarm_check = wvstime_cur =>
    alarm_time - wvstime_cur <= want + span + lost + blind

(* Nor does it ring early, by more than wvstime() was old when it was set, *)
(* and had been set back since the last look at an alarm before it.        *)
AlarmNotEarly ==
  alarm_time # 0 /\ last_alarm_check = wvstime_cur =>
    alarm_time - wvstime_cur >= want + span - age - ahead

(* Whenever an alarm was set, it rings in time, but for what the clock and *)
(* its copies explain (WvStream::alarm, alarm_remaining).                  *)
AlarmInTime == AlarmNotLate /\ AlarmNotEarly
============================================================================
