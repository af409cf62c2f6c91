----------------------------- MODULE MCStreams -----------------------------
(***************************************************************************)
(* WvFdStream over a socket or a pair of pipes, WvStream's alarm over a    *)
(* clock with a few times, the dynamic buffer and the hash table, side by  *)
(* side: every behaviour belongs to one of the parts and leaves the        *)
(* variables of the others alone.                                          *)
(***************************************************************************)
EXTENDS WvFdStream, WvAlarm

VARIABLES
  part,
  store, unread, gone, fresh, written,
  xslots, xstatus, prime_index, used, num, content, owned

bufvars == <<store, unread, gone, fresh, written>>
hashvars == <<xslots, xstatus, prime_index, used, num, content, owned>>

SocketsAndPipes == {<<3, 3>>, <<3, 4>>}

MCClock == 10 .. 13

(* Two buffers with a few bytes that are merged into each other: in        *)
(* sub-buffers of two to four bytes, and in smaller ones, where a get() or *)
(* peek() may need three of them, and bytes to unget from the first.       *)
Buf == INSTANCE WvDynBuf WITH
  content <- unread, NoByte <- <<>>, Store <- {1, 2}, Merges <- {<<1, 2>>, <<2, 1>>},
  MinAlloc <- 2, MaxAlloc <- 4, MaxPut <- <<3, 2>>

Small == INSTANCE WvDynBuf WITH
  content <- unread, NoByte <- <<>>, Store <- {1, 2}, Merges <- {<<1, 2>>, <<2, 1>>},
  MinAlloc <- 1, MaxAlloc <- 2, MaxPut <- <<4, 1>>

(* Two elements with the same key, keys that collide, and a hash near the  *)
(* largest number, where the probe sequence overflows.                     *)
Hash == INSTANCE WvScatterHash WITH
  Elem <- 1 .. 5, KeyOf <- <<1, 1, 2, 3, 4>>, Hash <- <<0, 10, 999, 5>>, HashMod <- 1000

SuiteInit ==
  /\ part \in {"fd", "alarm", "buf", "small", "hash"}
  /\ Init /\ (part # "fd" => stream.rfd = stream.wfd)
  /\ AlarmInit
  /\ Buf!Init
  /\ Hash!Init

SuiteNext ==
  /\ UNCHANGED part
  /\ \/ part = "fd" /\ Next /\ UNCHANGED <<alarmvars, bufvars, hashvars>>
     \/ part = "alarm" /\ AlarmNext /\ UNCHANGED <<vars, bufvars, hashvars>>
     \/ part = "buf" /\ Buf!Next /\ UNCHANGED <<vars, alarmvars, hashvars>>
     \/ part = "small" /\ Small!Next /\ UNCHANGED <<vars, alarmvars, hashvars>>
     \/ part = "hash" /\ Hash!Next /\ UNCHANGED <<vars, alarmvars, bufvars>>

SuiteSpec == SuiteInit /\ [][SuiteNext]_<<part, vars, alarmvars, bufvars, hashvars>>

----------------------------------------------------------------------------
(* WvDynBuf: the bytes that wait to be read are those written and not      *)
(* read, in order; what may be ungotten are the bytes last read, and what  *)
(* the last get() gave is among them.                                      *)
BufferTrue ==
  /\ part = "buf" => Buf!ContentKept /\ Buf!HistoryTrue /\ Buf!GetMayBeUngotten
  /\ part = "small" => Small!ContentKept /\ Small!HistoryTrue /\ Small!GetMayBeUngotten

(* WvScatterHash: every search ends and finds a key exactly if it is there *)
(* however the table was rebuilt; each element is there once, with its     *)
(* autofree flag, and the load is counted.                                 *)
TableTrue ==
  part = "hash" => Hash!SearchEnds /\ Hash!Finds /\ Hash!Counted /\ Hash!OwnershipKept
============================================================================
