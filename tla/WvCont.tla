------------------------------- MODULE WvCont -------------------------------
(***************************************************************************)
(* WvCont over WvTask: semi-coroutines made of setjmp and longjmp.         *)
(*                                                                         *)
(* run() saves where the current task is and jumps to another; yield()     *)
(* always jumps to the top level, however deep the calls are nested, so    *)
(* WvCont::_call runs its task again and again until control has come back *)
(* to the caller of the continuation that yielded.  Continuations are      *)
(* called, copied, dropped and created by user code anywhere, including    *)
(* from within one another; a continuation whose last handle is dropped is *)
(* run until its function returns.                                         *)
(***************************************************************************)
EXTENDS Naturals, FiniteSets, FiniteSetsExt

CONSTANTS
  Cont,      \* the continuations (WvCont::Data)
  NoCont,    \* null
  MaxLinks   \* bound: handles on a continuation

ASSUME ContAssumption ==
  IsFiniteSet(Cont) /\ NoCont \notin Cont /\ MaxLinks \in Nat

Task == 1 .. Cardinality(Cont)
Top == 0                \* the top level, where there is no task
Place == Task \union {Top}

VARIABLES
  exec,       \* the task the processor is in
  jumping,    \* it has just been jumped to
  current,    \* WvTaskMan::current_task
  saved,      \* where a task was left: in "run", in "yield", or "idle" in do_task
  running,    \* WvTask::running
  made,       \* the tasks there are
  free,       \* WvTaskMan::free_tasks
  links,      \* WvCont::Data::links, 0 when there is no such object
  task,       \* WvCont::Data::task, Top when it has none
  finishing,  \* WvCont::Data::finishing
  mydepth,    \* WvCont::Data::mydepth
  taskdepth, curdata,
  calling,    \* calling[p]: the continuation whose _call is on p's stack
  olddata,    \* olddata[p]: the local variable of that _call
  dropping    \* dropping[p]: that _call was made by ~WvCont

taskvars == <<exec, jumping, current, saved, running, made, free>>
datavars == <<links, task, finishing, mydepth, taskdepth, curdata>>
contvars == <<taskvars, datavars, calling, olddata, dropping>>

ContInit ==
  /\ exec = Top /\ jumping = FALSE /\ current = Top
  /\ saved = [p \in Place |-> "idle"]
  /\ running = [t \in Task |-> FALSE]
  /\ made = {} /\ free = {}
  /\ links = [c \in Cont |-> 0]
  /\ task = [c \in Cont |-> Top]
  /\ finishing = [c \in Cont |-> FALSE]
  /\ mydepth = [c \in Cont |-> 0]
  /\ taskdepth = 0 /\ curdata = NoCont
  /\ calling = [p \in Place |-> NoCont]
  /\ olddata = [p \in Place |-> NoCont]
  /\ dropping = [p \in Place |-> FALSE]

(* User code has the processor.                                            *)
User == ~jumping

Depth == IF curdata = NoCont THEN 0 ELSE mydepth[curdata]

----------------------------------------------------------------------------
(* WvTaskMan::run(): save where we are and jump to task t.                 *)
run(t) ==
  /\ saved' = [saved EXCEPT ![current] = "run"]
  /\ current' = t
  /\ exec' = t
  /\ jumping' = TRUE

(* WvTaskMan::yield(): jump to the top level.                              *)
YieldTo(how) ==
  /\ saved' = [saved EXCEPT ![current] = how]
  /\ exec' = Top
  /\ jumping' = TRUE
  /\ UNCHANGED current

(* The beginning of _call(c), with task t.                                 *)
_call(c, t, drop) ==
  /\ olddata' = [olddata EXCEPT ![exec] = curdata]
  /\ calling' = [calling EXCEPT ![exec] = c]
  /\ dropping' = [dropping EXCEPT ![exec] = drop]
  /\ curdata' = c
  /\ links' = [links EXCEPT ![c] = @ + 1]
  /\ taskdepth' = taskdepth + 1
  /\ mydepth' = [mydepth EXCEPT ![c] = taskdepth + 1]
  /\ run(t)

(* WvTaskMan::start() takes a free task, or makes one.                     *)
start == IF free # {} THEN Min(free) ELSE Min(Task \ made)

(* operator(): a continuation that is not being called already is called.  *)
call(c) ==
  /\ User /\ links[c] > 0 /\ mydepth[c] = 0 /\ ~finishing[c]
  /\ LET t == IF task[c] = Top THEN start ELSE task[c]
     IN /\ task' = [task EXCEPT ![c] = t]
        /\ made' = made \union {t}
        /\ free' = IF task[c] = Top THEN free \ {t} ELSE free
        /\ running' = [running EXCEPT ![t] = TRUE]
        /\ _call(c, t, FALSE)
  /\ UNCHANGED finishing

construct(c) ==
  /\ User /\ links[c] = 0
  /\ links' = [links EXCEPT ![c] = 1]
  /\ UNCHANGED <<taskvars, task, finishing, mydepth, taskdepth, curdata>>
  /\ UNCHANGED <<calling, olddata, dropping>>

(* The links of handles that are not being destroyed.                      *)
Handles(c) ==
  links[c] - Cardinality({p \in Place : calling[p] = c})
           - Cardinality({p \in Place : calling[p] = c /\ dropping[p]})

(* The copy constructor and current().                                     *)
copy(c) ==
  /\ User /\ ~finishing[c] /\ links[c] < MaxLinks
  /\ Handles(c) > 0 \/ c = curdata
  /\ links' = [links EXCEPT ![c] = @ + 1]
  /\ UNCHANGED <<taskvars, task, finishing, mydepth, taskdepth, curdata>>
  /\ UNCHANGED <<calling, olddata, dropping>>

(* ~Data, of c, whose last link has gone: its task is recycled, and with   *)
(* the last Data go the WvTaskMan and all free tasks.                      *)
Deleted(c, n) ==
  LET idle == IF task[c] = Top THEN free ELSE free \union {task[c]}
      last == \A d \in Cont \ {c} : links[d] = 0
  IN IF n > 0 THEN UNCHANGED <<task, made, free, finishing, running>>
     ELSE /\ task' = [task EXCEPT ![c] = Top]
          /\ free' = IF last THEN {} ELSE idle
          /\ made' = IF last THEN made \ idle ELSE made
          /\ finishing' = [finishing EXCEPT ![c] = FALSE]
          /\ UNCHANGED running

(* Mutant of drop: the function is not run to its end.                     *)
DropNow(c) ==
  /\ User /\ Handles(c) > 0
  /\ links' = [links EXCEPT ![c] = @ - 1]
  /\ Deleted(c, links[c] - 1)
  /\ UNCHANGED <<exec, jumping, current, saved, mydepth, taskdepth, curdata>>
  /\ UNCHANGED <<calling, olddata, dropping>>

(* ~WvCont.                                                                *)
drop(c) ==
  /\ User /\ Handles(c) > 0
  /\ IF links[c] = 1 /\ task[c] # Top /\ running[task[c]]
       THEN /\ finishing' = [finishing EXCEPT ![c] = TRUE]
            /\ _call(c, task[c], TRUE)
            /\ UNCHANGED <<task, running, made, free>>
       ELSE /\ links' = [links EXCEPT ![c] = @ - 1]
            /\ Deleted(c, links[c] - 1)
            /\ UNCHANGED <<exec, jumping, current, saved, mydepth, taskdepth, curdata>>
            /\ UNCHANGED <<calling, olddata, dropping>>

(* WvCont::yield() and the function's return.  A function that is told to  *)
(* finish has to return.                                                   *)
yield ==
  /\ User /\ exec # Top /\ ~finishing[curdata]
  /\ YieldTo("yield")
  /\ UNCHANGED <<running, made, free, datavars, calling, olddata, dropping>>

return ==
  /\ User /\ exec # Top
  /\ running' = [running EXCEPT ![exec] = FALSE]
  /\ YieldTo("idle")
  /\ UNCHANGED <<made, free, datavars, calling, olddata, dropping>>

----------------------------------------------------------------------------
(* A task is jumped to that was left in yield(), or is to begin.           *)
resume ==
  /\ jumping /\ saved[exec] # "run"
  /\ jumping' = FALSE
  /\ UNCHANGED <<exec, current, saved, running, made, free>>
  /\ UNCHANGED <<datavars, calling, olddata, dropping>>

(* Mutant of again: a continuation that yields is run again at once.       *)
AgainAtOnce(c, fin) == (fin /\ running[task[c]]) \/ taskdepth >= mydepth[c]

(* The loops of _call go on.                                               *)
again(c, fin) == (fin /\ running[task[c]]) \/ taskdepth > mydepth[c]

(* A task is jumped to that was left in run(), in its _call.               *)
Ends(c) == finishing[c] \/ links[c] = 1

loop ==
  /\ jumping /\ saved[exec] = "run"
  /\ LET c == calling[exec]
     IN /\ again(c, Ends(c))
        /\ finishing' = [finishing EXCEPT ![c] = Ends(c)]
        /\ saved' = saved
        /\ current' = task[c]
        /\ exec' = task[c]
  /\ UNCHANGED <<jumping, running, made, free, links, task, mydepth, taskdepth, curdata>>
  /\ UNCHANGED <<calling, olddata, dropping>>

(* The end of _call, and of ~WvCont if that made the call.                 *)
call_returns ==
  /\ jumping /\ saved[exec] = "run"
  /\ LET c == calling[exec]
         left == links[c] - (IF dropping[exec] THEN 2 ELSE 1)
     IN /\ ~again(c, Ends(c))
        /\ links' = [links EXCEPT ![c] = left]
        /\ IF left = 0 THEN Deleted(c, 0)
           ELSE /\ finishing' = [finishing EXCEPT ![c] = Ends(c)]
                /\ UNCHANGED <<task, made, free, running>>
        /\ mydepth' = [mydepth EXCEPT ![c] = 0]
  /\ taskdepth' = taskdepth - 1
  /\ curdata' = olddata[exec]
  /\ current' = exec
  /\ jumping' = FALSE
  /\ calling' = [calling EXCEPT ![exec] = NoCont]
  /\ olddata' = [olddata EXCEPT ![exec] = NoCont]
  /\ dropping' = [dropping EXCEPT ![exec] = FALSE]
  /\ UNCHANGED <<exec, saved>>

ContNext ==
  \/ \E c \in Cont : construct(c) \/ copy(c) \/ call(c) \/ drop(c)
  \/ yield \/ return
  \/ resume \/ loop \/ call_returns

(* The processor goes on, and a function that keeps getting control gives  *)
(* it up in the end.                                                       *)
ContFairness ==
  /\ WF_contvars(resume \/ loop \/ call_returns)
  /\ \A c \in Cont : SF_contvars(curdata = c /\ (yield \/ return))

ContSpec == ContInit /\ [][ContNext]_contvars /\ ContFairness

----------------------------------------------------------------------------
(* Every variable has its type.                                            *)
ContTypeOK ==
  /\ exec \in Place /\ current \in Place /\ jumping \in BOOLEAN
  /\ saved \in [Place -> {"run", "yield", "idle"}]
  /\ running \in [Task -> BOOLEAN]
  /\ free \subseteq made /\ made \subseteq Task
  /\ links \in [Cont -> Nat] /\ task \in [Cont -> Place]
  /\ mydepth \in [Cont -> Nat]

(* Semi-coroutines: user code runs only in the innermost continuation that *)
(* is being called, so yield() and return give control back to whoever     *)
(* called it last, "rather than to the very top"; whoami() and curdata     *)
(* agree with that, as the assertions in current(), yield() and isok() say.*)
Innermost ==
  User => /\ current = exec
          /\ IF exec = Top THEN curdata = NoCont
             ELSE curdata # NoCont /\ task[curdata] = exec /\ running[exec]
          /\ taskdepth = Depth

(* No two continuations share a task, and recycled tasks are not in use    *)
(* (the assertions in recycle() and run()).                                *)
TasksApart ==
  /\ \A c, d \in Cont : c # d /\ task[c] # Top => task[c] # task[d]
  /\ \A t \in free : ~running[t] /\ \A c \in Cont : task[c] # t

(* "Don't delete this context while it's running!": a function that has    *)
(* been started and has not call_returns belongs to a continuation that is     *)
(* still there.                                                            *)
NoOrphans ==
  \A t \in Task : running[t] => \E c \in Cont : task[c] = t /\ links[c] > 0

(* ~WvCont runs a function that was left in the middle to its end before   *)
(* it returns, so that none is left unfinished when control is back at the *)
(* top level, and deletes no continuation that is being called.            *)
DropFinishes ==
  User /\ exec = Top => \A c \in Cont : ~finishing[c] /\ mydepth[c] = 0

(* WvCont: the continuation that runs is the one called last, tasks are    *)
(* neither shared nor leaked, and one whose last handle is dropped is run  *)
(* to its end.                                                             *)
ContsInStep ==
  ContTypeOK /\ Innermost /\ TasksApart /\ NoOrphans /\ DropFinishes

(* Whatever is called, yields and is dropped within what, control comes    *)
(* back to the top level.                                                  *)
ControlReturns == []<>(User /\ exec = Top)
============================================================================
