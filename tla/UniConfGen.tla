----------------------------- MODULE UniConfGen -----------------------------
(***************************************************************************)
(* The notification machinery that every UniConf generator inherits from   *)
(* UniConfGen: changes are queued as deltas; hold_delta/unhold_delta       *)
(* bracket code during which nothing may be dispatched; the last           *)
(* unhold_delta dispatches the queue to every registered callback.         *)
(*                                                                         *)
(* Everything runs on one thread, but callbacks re-enter the generator:    *)
(* a callback may set keys, hold and unhold, register and unregister.  A   *)
(* flush is therefore a sequence of steps here, one per callback           *)
(* invocation, and the calls a callback makes are steps between them.      *)
(*                                                                         *)
(* A cookie stands for a watcher: told[w] is the tree as its callback      *)
(* pictures it, from a first look at the generator and from the deltas it  *)
(* was given since.                                                        *)
(***************************************************************************)
EXTENDS UniConfTree

CONSTANTS
  Cookie,    \* cookies of the callbacks that may be registered, as addresses
  MaxHold    \* bound: nesting depth of hold_delta calls

ASSUME CookieAssumption == Cookie \subseteq Nat \ {0} /\ MaxHold \in Nat

VARIABLES
  hold_nesting,  \* depth of hold_delta calls
  deltas,        \* notifications waiting for the last unhold_delta
  flushing,      \* "no", or who runs the flush_delta loop: "unhold", "call"
  base,          \* hold_nesting when that loop was entered
  current,       \* the delta being dispatched, NoDelta if none
  running,       \* the cookie whose callback is executing, 0 if none
  cblist,        \* the registered callbacks
  told,          \* what each watcher pictures the tree to be
  synced,        \* watchers that registered when no delta was on its way
  dropped        \* keys whose last notification clear_delta threw away

loopvars == <<flushing, base, current, running>>
watchvars == <<cblist, told, synced>>
genvars == <<hold_nesting, deltas, loopvars, watchvars, dropped>>

NoDelta == [key |-> Root, value |-> Null, none |-> TRUE]

InitGen ==
  /\ hold_nesting = 0
  /\ deltas = <<>>
  /\ flushing = "no"
  /\ base = 0
  /\ current = NoDelta
  /\ running = 0
  /\ cblist = {}
  /\ told = [w \in Cookie |-> EmptyTree]
  /\ synced = {}
  /\ dropped = {}

(* Code other than the flush loop runs: an ordinary caller or a callback.  *)
CanCall == flushing = "no" \/ running # 0

(* The flush loop has control: no callback runs, or the one that does is   *)
(* about to return, having released the holds it made.                     *)
InLoop == flushing # "no" /\ hold_nesting = base

----------------------------------------------------------------------------
(* Mutant of delta: a key that is queued already is not queued again.      *)
DeltaKeepsFirst(s, t) ==
  LET new == SelectSeq(Deltas(s, t),
               LAMBDA d : \A i \in DOMAIN deltas : deltas[i].key # d.key)
  IN /\ deltas' = deltas \o new
     /\ dropped' = dropped \ {s[i] : i \in DOMAIN s}

(* delta() for every key of s, called while a hold is in force: each is    *)
(* appended, and the unhold inside delta() is never the last one.          *)
delta(s, t) ==
  /\ deltas' = deltas \o Deltas(s, t)
  /\ dropped' = dropped \ {s[i] : i \in DOMAIN s}

hold_delta ==
  /\ CanCall
  /\ hold_nesting < MaxHold
  /\ hold_nesting' = hold_nesting + 1
  /\ UNCHANGED <<deltas, loopvars, watchvars, dropped>>

(* Mutant of Unhold: the last one lets go first and flushes nothing.       *)
UnholdNoFlush(n) == hold_nesting' = n - 1 /\ UNCHANGED <<flushing, base>>

(* unhold_delta at nesting n: the last one flushes before it lets go.      *)
Unhold(n) ==
  IF n = 1
    THEN /\ hold_nesting' = 1
         /\ flushing' = "unhold"
         /\ base' = 1
    ELSE /\ hold_nesting' = n - 1
         /\ UNCHANGED <<flushing, base>>

(* Callers release only the holds they made, so a callback never releases  *)
(* the one the flush loop runs under.                                      *)
unhold_delta ==
  /\ CanCall
  /\ hold_nesting > base
  /\ Unhold(hold_nesting)
  /\ UNCHANGED <<deltas, current, running, watchvars, dropped>>

(* flush_delta() called directly, from outside every callback.             *)
flush_delta ==
  /\ flushing = "no"
  /\ flushing' = "call"
  /\ base' = hold_nesting
  /\ UNCHANGED <<hold_nesting, deltas, current, running, watchvars, dropped>>

clear_delta ==
  /\ CanCall
  /\ deltas # <<>>
  /\ dropped' = dropped \union {deltas[i].key : i \in DOMAIN deltas}
  /\ deltas' = <<>>
  /\ synced' = {}
  /\ UNCHANGED <<hold_nesting, loopvars, cblist, told>>

----------------------------------------------------------------------------
(* cblist is a map ordered by cookie, and its iterator survives insertions *)
(* and deletions of other entries: w is the next entry after cookie c.     *)
NextCallback(c, w) ==
  /\ w \in cblist
  /\ w > c
  /\ \A x \in cblist : x > c => w <= x

(* The callback of w is entered with delta d.                              *)
Call(w, d) ==
  /\ running' = w
  /\ current' = d
  /\ told' = [told EXCEPT ![w][d.key] = d.value]

(* One turn of the flush loop: unlink the first delta and dispatch it.     *)
next_delta ==
  /\ InLoop
  /\ running = 0
  /\ deltas # <<>>
  /\ deltas' = Tail(deltas)
  /\ \/ \E w \in Cookie : NextCallback(0, w) /\ Call(w, Head(deltas))
     \/ cblist = {} /\ UNCHANGED <<running, current, told>>
  /\ UNCHANGED <<hold_nesting, flushing, base, cblist, synced, dropped>>

(* Mutant of dispatch_delta: only the first callback is called.            *)
DispatchFirstOnly ==
  /\ InLoop
  /\ running # 0
  /\ running' = 0
  /\ current' = NoDelta
  /\ UNCHANGED <<hold_nesting, deltas, flushing, base, watchvars, dropped>>

(* A callback returns and dispatch_delta moves on to the next one, if any. *)
dispatch_delta ==
  /\ InLoop
  /\ running # 0
  /\ \/ \E w \in Cookie : NextCallback(running, w) /\ Call(w, current)
     \/ /\ \A x \in cblist : x <= running
        /\ running' = 0
        /\ current' = NoDelta
        /\ UNCHANGED told
  /\ UNCHANGED <<hold_nesting, deltas, flushing, base, cblist, synced, dropped>>

(* Mutant of flush_done: a direct flush_delta drops a hold, too.           *)
FlushDoneDropsHold ==
  /\ InLoop
  /\ running = 0
  /\ deltas = <<>>
  /\ hold_nesting' = hold_nesting - 1
  /\ flushing' = "no"
  /\ base' = 0
  /\ UNCHANGED <<deltas, current, running, watchvars, dropped>>

(* The queue is empty: leave the loop; unhold_delta drops its hold last.   *)
flush_done ==
  /\ InLoop
  /\ running = 0
  /\ deltas = <<>>
  /\ hold_nesting' = IF flushing = "unhold" THEN hold_nesting - 1 ELSE hold_nesting
  /\ flushing' = "no"
  /\ base' = 0
  /\ UNCHANGED <<deltas, current, running, watchvars, dropped>>

----------------------------------------------------------------------------
(* A watcher reads the whole generator, whose tree is t, and registers.    *)
add_callback(w, t) ==
  /\ CanCall
  /\ w \notin cblist
  /\ cblist' = cblist \union {w}
  /\ told' = [told EXCEPT ![w] = t]
  /\ synced' = IF deltas = <<>> /\ running = 0 THEN synced \union {w} ELSE synced
  /\ UNCHANGED <<hold_nesting, deltas, loopvars, dropped>>

(* A callback does not unregister itself: the dispatch would go on from an *)
(* erased map entry.                                                       *)
del_callback(w) ==
  /\ CanCall
  /\ w \in cblist
  /\ w # running
  /\ cblist' = cblist \ {w}
  /\ synced' = synced \ {w}
  /\ told' = [told EXCEPT ![w] = EmptyTree]
  /\ UNCHANGED <<hold_nesting, deltas, loopvars, dropped>>

(* The steps of the machinery that leave the generator's data alone.       *)
NotifyNext(t) ==
  \/ hold_delta
  \/ unhold_delta
  \/ flush_delta
  \/ clear_delta
  \/ next_delta
  \/ dispatch_delta
  \/ flush_done
  \/ \E w \in Cookie : add_callback(w, t) \/ del_callback(w)

GenTypeOK ==
  /\ hold_nesting \in Nat
  /\ deltas \in Seq(DeltaType)
  /\ flushing \in {"no", "unhold", "call"}
  /\ base \in Nat
  /\ running \in Cookie \union {0}
  /\ current \in IF running = 0 THEN {NoDelta} ELSE DeltaType
  /\ cblist \subseteq Cookie
  /\ told \in [Cookie -> Tree]
  /\ synced \subseteq cblist
  /\ dropped \subseteq Key
============================================================================
