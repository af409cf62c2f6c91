--------------------------- MODULE WvIStreamList ---------------------------
(***************************************************************************)
(* WvIStreamList: the list of streams a program selects on and whose ready *)
(* streams get their callback.                                             *)
(*                                                                         *)
(* select() fills sure_thing with the streams that are ready and takes     *)
(* closed ones off the list; execute() calls the streams of sure_thing one *)
(* by one.  The callbacks are user code, which may close, release, unlink  *)
(* and append any stream, the one being called included, and may run the   *)
(* list again while it is being run.  The objects are reference counted.   *)
(***************************************************************************)
EXTENDS Sublists

CONSTANTS
  Stream,    \* the stream objects there may be
  List,      \* stands for the list itself, whose own callback comes last
  MaxNest    \* bound: runonce() within callbacks of runonce()

ASSUME ListAssumption == List \notin Stream /\ MaxNest \in Nat

VARIABLES
  list,      \* WvIStreamListBase: the streams selected on
  autofree,  \* the streams whose link in the list owns a reference
  sure,      \* sure_thing
  refs,      \* reference counts, 0 when there is no such object
  held,      \* the streams of which user code keeps a reference
  ok,        \* IWvStream::isok()
  ready,     \* the streams with something to read
  frames     \* the nested runonce() calls: where each one is

listvars == <<list, autofree, sure, refs, held, ok, ready, frames>>

Init ==
  /\ list = <<>> /\ autofree = {} /\ sure = <<>>
  /\ refs = [s \in Stream |-> 0]
  /\ held = {} /\ ok = {} /\ ready = {}
  /\ frames = <<>>

Frame(at, s, now) == [at |-> at, s |-> s, now |-> now]

(* The innermost runonce(); outside of all of them user code has the       *)
(* processor, as it has in a callback.                                     *)
This == IF frames = <<>> THEN Frame("call", List, FALSE) ELSE frames[Len(frames)]
Callback == This.at = "call"

(* Those it was called in.                                                 *)
Outer == SubSeq(frames, 1, Len(frames) - 1)

Goto(frame) == frames' = Append(Outer, frame)

In(s, seq) == \E i \in DOMAIN seq : seq[i] = s

Without(seq, s) == Sublist(seq, {i \in DOMAIN seq : seq[i] # s})

(* release(), n times; the last one destroys the object, which closes it.  *)
Less(n) == [s \in Stream |-> refs[s] - n[s]]
One(b) == IF b THEN 1 ELSE 0

Release(n) ==
  /\ refs' = Less(n)
  /\ ok' = {s \in ok : Less(n)[s] > 0}
  /\ ready' = {s \in ready : Less(n)[s] > 0}

----------------------------------------------------------------------------
(* User code.                                                              *)
create(s) ==
  /\ Callback /\ refs[s] = 0
  /\ refs' = [refs EXCEPT ![s] = 1]
  /\ held' = held \union {s}
  /\ ok' = ok \union {s}
  /\ UNCHANGED <<list, autofree, sure, ready, frames>>

(* append(s, auto_free, id): with auto_free the caller's reference is      *)
(* handed over to the list.                                                *)
append(s, free) ==
  /\ Callback /\ s \in held /\ ~In(s, list)
  /\ list' = Append(list, s)
  /\ autofree' = IF free THEN autofree \union {s} ELSE autofree
  /\ held' = IF free THEN held \ {s} ELSE held
  /\ UNCHANGED <<sure, refs, ok, ready, frames>>

addRef(s) ==
  /\ Callback /\ refs[s] > 0 /\ s \notin held
  /\ In(s, list) \/ This.s = s
  /\ refs' = [refs EXCEPT ![s] = @ + 1]
  /\ held' = held \union {s}
  /\ UNCHANGED <<list, autofree, sure, ok, ready, frames>>

(* A stream the list does not own has to be unlinked first.                *)
release(s) ==
  /\ Callback /\ s \in held
  /\ In(s, list) => s \in autofree
  /\ held' = held \ {s}
  /\ Release([t \in Stream |-> One(t = s)])
  /\ UNCHANGED <<list, autofree, sure, frames>>

(* Mutant of unlink: the base class's.                                     *)
UnlinkListOnly(s) ==
  /\ Callback /\ In(s, list)
  /\ list' = Without(list, s)
  /\ autofree' = autofree \ {s}
  /\ Release([t \in Stream |-> One(t = s /\ s \in autofree)])
  /\ UNCHANGED <<sure, held, frames>>

unlink(s) ==
  /\ Callback /\ In(s, list)
  /\ sure' = Without(sure, s)
  /\ list' = Without(list, s)
  /\ autofree' = autofree \ {s}
  /\ Release([t \in Stream |-> IF t = s THEN One(In(s, sure)) + One(s \in autofree) ELSE 0])
  /\ UNCHANGED <<held, frames>>

close(s) ==
  /\ Callback /\ s \in ok
  /\ ok' = ok \ {s}
  /\ UNCHANGED <<list, autofree, sure, refs, held, ready, frames>>

(* The callback of s reads what has come in.                               *)
read(s) ==
  /\ Callback /\ s \in ready
  /\ ready' = ready \ {s}
  /\ UNCHANGED <<list, autofree, sure, refs, held, ok, frames>>

(* Something comes in, at any time.                                        *)
arrive(s) ==
  /\ s \in ok /\ s \notin ready
  /\ ready' = ready \union {s}
  /\ UNCHANGED <<list, autofree, sure, refs, held, ok, frames>>

----------------------------------------------------------------------------
(* pre_select() finds out that there is no reason to wait.                 *)
sure_already == \E i \in DOMAIN list : list[i] \notin ok

(* runonce(): pre_select() zaps sure_thing before the wait.                *)
runonce ==
  /\ Callback /\ Len(frames) < MaxNest
  /\ sure' = <<>>
  /\ Release([t \in Stream |-> One(In(t, sure))])
  /\ frames' = Append(frames, Frame("select", List, sure_already))
  /\ UNCHANGED <<list, autofree, held>>

Bad == {s \in Stream : In(s, list) /\ s \notin ok}

(* sure_thing is filled, and what is bad is taken off the list.            *)
Sorted(hit) ==
  LET count == [s \in Stream |-> refs[s] + One(In(s, hit)) - One(s \in Bad \intersect autofree)]
  IN /\ sure' = hit
     /\ list' = Sublist(list, Where(list, ok))
     /\ autofree' = autofree \ Bad
     /\ refs' = count
     /\ ok' = {s \in ok : count[s] > 0}
     /\ ready' = {s \in ready : count[s] > 0}

(* Mutant of post_select: only the first ready stream is found.            *)
PostSelectFirst ==
  LET all == Sublist(list, Where(list, ready))
  IN Sorted(SubSeq(all, 1, One(all # <<>>)))

(* post_select(): the ready streams are sure things, closed ones are       *)
(* pruned after they had their chance (auto_prune).                        *)
post_select == Sorted(Sublist(list, Where(list, ready)))

(* select() returns; if there is something to do execute() begins.         *)
select ==
  /\ This.at = "select"
  /\ This.now \/ \E i \in DOMAIN list : list[i] \in ready
  /\ post_select
  /\ Goto(Frame("next", List, FALSE))
  /\ UNCHANGED held

(* select() returns because runonce()'s time is over.                      *)
timeout ==
  /\ This.at = "select" /\ ~This.now
  /\ \A i \in DOMAIN list : list[i] \notin ready
  /\ frames' = Outer
  /\ UNCHANGED <<list, autofree, sure, refs, held, ok, ready>>

(* execute() takes the next sure thing s; its reference is kept.           *)
callback(s) ==
  /\ sure' = Tail(sure)
  /\ UNCHANGED <<refs, ok, ready>>

(* A callback returns: the stream is released.                             *)
returns ==
  /\ This.at = "call" /\ This.s # List
  /\ Goto(Frame("next", List, FALSE))
  /\ Release([t \in Stream |-> One(t = This.s)])
  /\ UNCHANGED <<list, autofree, sure, held>>

next ==
  /\ This.at = "next" /\ sure # <<>>
  /\ callback(Head(sure))
  /\ Goto(Frame("call", Head(sure), FALSE))
  /\ UNCHANGED <<list, autofree, held>>

(* execute() is over: _callback() calls the list's own callback, and with  *)
(* that runonce() ends.                                                    *)
done ==
  /\ This.at = "next" /\ sure = <<>>
  /\ Goto(Frame("call", List, FALSE))
  /\ UNCHANGED <<list, autofree, sure, refs, held, ok, ready>>

ends ==
  /\ frames # <<>> /\ This.at = "call" /\ This.s = List
  /\ frames' = Outer
  /\ UNCHANGED <<list, autofree, sure, refs, held, ok, ready>>

UserStep(s) ==
  \/ create(s) \/ append(s, TRUE) \/ append(s, FALSE) \/ addRef(s) \/ release(s)
  \/ unlink(s) \/ close(s) \/ read(s) \/ arrive(s)

Next ==
  \/ \E s \in Stream : UserStep(s)
  \/ runonce \/ select \/ timeout \/ next \/ returns \/ done \/ ends

(* The program runs the list over and over, and callbacks return: those of *)
(* the main loop, however often they run the list themselves.              *)
Fairness ==
  /\ WF_listvars(frames = <<>> /\ runonce)
  /\ WF_listvars(select) /\ WF_listvars(next \/ done)
  /\ \A n \in 1 .. MaxNest : SF_listvars(Len(frames) = n /\ (returns \/ ends))

Spec == Init /\ [][Next]_listvars /\ Fairness

----------------------------------------------------------------------------
(* Every variable has its type.                                            *)
TypeOK ==
  /\ list \in Seq(Stream) /\ sure \in Seq(Stream)
  /\ autofree \subseteq {s \in Stream : In(s, list)}
  /\ refs \in [Stream -> Nat]
  /\ held \subseteq Stream /\ ok \subseteq Stream /\ ready \subseteq Stream
  /\ frames \in Seq([at : {"call", "select", "next"}, s : Stream \union {List}, now : BOOLEAN])
  /\ Len(frames) <= MaxNest

(* The runonce() calls that are in the callback of s.                      *)
Calls(fs, s) == Cardinality({i \in DOMAIN fs : fs[i].s = s})

(* Whatever callbacks do, the streams on the list, in sure_thing and those *)
(* being called by any of the nested execute() calls exist, and one that   *)
(* nobody has any more is destroyed.                                       *)
RefsAccounted ==
  \A s \in Stream :
    refs[s] = One(s \in held) + One(s \in autofree) + One(In(s, sure)) + Calls(frames, s)

(* A stream that was unlinked gets no callback any more: sure_thing, of    *)
(* any nesting, holds only streams on the list, or closed ones that the    *)
(* list itself has just pruned.                                            *)
UnlinkedNotCalled ==
  \A i \in DOMAIN sure : In(sure[i], list) \/ sure[i] \notin ok

(* The inductive invariant: no stream is listed twice; only the innermost  *)
(* runonce() is not in a callback, and sure_thing is empty while it waits. *)
Once(seq) == \A i, j \in DOMAIN seq : seq[i] = seq[j] => i = j

FramesInStep ==
  /\ \A i \in DOMAIN frames : frames[i].at # "call" => frames[i].s = List /\ i = Len(frames)
  /\ This.at = "select" => sure = <<>>

ListInv ==
  TypeOK /\ Once(list) /\ Once(sure) /\ FramesInStep /\ RefsAccounted /\ UnlinkedNotCalled

(* What exists is accounted for, and what was unlinked is not called.      *)
ListAccounted == ListInv /\ RefsAccounted /\ UnlinkedNotCalled

(* A stream with something to read is called in the end, unless it is      *)
(* taken off the list or read by someone else before.                      *)
ReadyCalled ==
  \A s \in Stream :
    (In(s, list) /\ s \in ready) ~>
      (~In(s, list) \/ s \notin ready
         \/ \E i \in DOMAIN frames : frames[i].at = "call" /\ frames[i].s = s)

(* A closed stream leaves the list, even if nothing else ever happens.     *)
ClosedPruned == \A s \in Stream : (In(s, list) /\ s \notin ok) ~> ~In(s, list)
============================================================================
