--------------------------- MODULE WvSubProcQueue ---------------------------
(***************************************************************************)
(* WvSubProcQueue: processes that wait for their turn, a few at a time.    *)
(* One that is added with a cookie is a sync point: it runs alone, and is  *)
(* not queued again while it waits, but marked to be done once more.       *)
(*                                                                         *)
(* An entry is known by the number of the add() that made it.              *)
(***************************************************************************)
EXTENDS Sublists

CONSTANTS
  Cookie,      \* the cookies
  NoCookie,    \* NULL
  MaxRunning,  \* maxrunning
  MaxAdds      \* bound: add() calls

VARIABLES
  waitq, runq, \* entries [id, cookie, redo]
  alive,       \* the entries whose processes have not ended
  nadds,
  due,         \* history: due[c]: the entries that have to end before a start
               \* of c will do for its last add()
  owed         \* history: the cookies of which such a start is missing

queuevars == <<waitq, runq, alive, nadds, due, owed>>

(* What the code takes for granted of its parameters.                      *)
ASSUME QueueAssumption == MaxRunning \in Nat /\ MaxAdds \in Nat /\ NoCookie \notin Cookie

QueueInit ==
  /\ waitq = <<>> /\ runq = <<>> /\ alive = {}
  /\ nadds = 0
  /\ due = [c \in Cookie |-> {}] /\ owed = {}

Ids(q) == {q[i].id : i \in DOMAIN q}

isempty == waitq = <<>> /\ runq = <<>>

----------------------------------------------------------------------------
(* Mutant of Enqueued: that it waits already is enough.                    *)
EnqueuedOnce(c) ==
  IF c # NoCookie /\ \E i \in DOMAIN waitq : waitq[i].cookie = c THEN waitq
  ELSE Append(waitq, [id |-> nadds + 1, cookie |-> c, redo |-> FALSE])

(* The waiting list after add(c): the first entry with the cookie is to be *)
(* done again, unless it is the last one.                                  *)
Enqueued(c) ==
  LET same == {i \in DOMAIN waitq : waitq[i].cookie = c}
      first == CHOOSE i \in same : \A j \in same : i <= j
  IN IF c = NoCookie \/ same = {}
       THEN Append(waitq, [id |-> nadds + 1, cookie |-> c, redo |-> FALSE])
     ELSE IF first < Len(waitq) THEN [waitq EXCEPT ![first].redo = TRUE]
     ELSE waitq

add(c) ==
  /\ nadds < MaxAdds
  /\ nadds' = nadds + 1
  /\ waitq' = Enqueued(c)
  /\ IF c = NoCookie THEN UNCHANGED <<due, owed>>
     ELSE /\ due' = [due EXCEPT ![c] = (Ids(waitq) \ {waitq[i].id : i \in {i \in DOMAIN waitq : waitq[i].cookie = c}})
                                         \union Ids(runq)]
          /\ owed' = owed \union {c}
  /\ UNCHANGED <<runq, alive>>

(* A process ends.                                                         *)
exit(e) ==
  /\ e \in alive
  /\ alive' = alive \ {e}
  /\ UNCHANGED <<waitq, runq, nadds, due, owed>>

----------------------------------------------------------------------------
(* go().                                                                   *)

(* Mutant of Redone: the mark stays.                                       *)
RedoneForever(e) == e

Redone(e) == [e EXCEPT !.redo = FALSE]

(* Finished entries leave runq; those that are to be done again wait.      *)
Finished == {i \in DOMAIN runq : runq[i].id \notin alive}

Reaped ==
  LET again == Sublist(runq, {i \in Finished : runq[i].redo})
  IN [waitq |-> waitq \o [i \in DOMAIN again |-> Redone(again[i])],
      runq |-> Sublist(runq, DOMAIN runq \ Finished)]

(* The queues s after n entries more were started.                         *)
Started(s, n) ==
  [waitq |-> SubSeq(s.waitq, n + 1, Len(s.waitq)),
   runq |-> s.runq \o SubSeq(s.waitq, 1, n)]

cookie_running(s) == \E i \in DOMAIN s.runq : s.runq[i].cookie # NoCookie

MayStart(s) ==
  /\ s.waitq # <<>> /\ Len(s.runq) < MaxRunning
  /\ Head(s.waitq).cookie # NoCookie => s.runq = <<>>
  /\ ~cookie_running(s)

(* The loop starts n entries: as long as one may start.                    *)
Starts(n) ==
  /\ \A m \in 0 .. n - 1 : MayStart(Started(Reaped, m))
  /\ ~MayStart(Started(Reaped, n))

go ==
  \E n \in 0 .. MaxRunning :
    LET now == SubSeq(Reaped.waitq, 1, n)
        cookies == {now[i].cookie : i \in DOMAIN now} \ {NoCookie}
        left == [c \in Cookie |-> due[c] \ {runq[i].id : i \in Finished}]
    IN /\ Starts(n)
       /\ waitq' = Started(Reaped, n).waitq
       /\ runq' = Started(Reaped, n).runq
       /\ alive' = alive \union Ids(now)
       /\ due' = left
       /\ owed' = owed \ {c \in cookies : left[c] = {}}
       /\ UNCHANGED nadds

QueueNext ==
  \/ \E c \in Cookie \union {NoCookie} : add(c)
  \/ \E e \in 1 .. MaxAdds : exit(e)
  \/ go

(* go() is called "rather often", and processes end.                       *)
QueueFairness == WF_queuevars(go) /\ WF_queuevars(\E e \in alive : exit(e))

QueueSpec == QueueInit /\ [][QueueNext]_queuevars /\ QueueFairness

----------------------------------------------------------------------------
(* "A sync point is guaranteed to be started alone, not in parallel with   *)
(* anything else", also on its second time.                                *)
SyncAlone == \A i \in DOMAIN runq : runq[i].cookie # NoCookie => Len(runq) = 1

(* "at least once after you enqueue it" and "at least once after every     *)
(* already-enqueued process has finished": no queue is empty, or without   *)
(* the cookie, that owes its cookie such a start.                          *)
SyncPaid ==
  \A c \in owed : \/ \E i \in DOMAIN waitq : waitq[i].cookie = c
                  \/ \E i \in DOMAIN runq : runq[i].cookie = c /\ runq[i].redo

(* "assert(runq.count() <= maxrunning)".                                   *)
RunningLimited == Len(runq) <= MaxRunning

(* The inductive invariant.  What a cookie has to wait for is queued or    *)
(* runs; and the start a cookie is owed will be that of an entry behind    *)
(* all it has to wait for, or comes after that of an entry to be done      *)
(* again, which will be queued behind it.                                  *)
Entry == [id : Nat, cookie : Cookie \union {NoCookie}, redo : BOOLEAN]

QueueTypeOK ==
  /\ waitq \in Seq(Entry) /\ runq \in Seq(Entry)
  /\ alive \subseteq Nat /\ nadds \in Nat
  /\ due \in [Cookie -> SUBSET Nat] /\ owed \subseteq Cookie

Ahead(wait, i) == {wait[j].id : j \in 1 .. i - 1}

Payable(c, wait, run, left) ==
  \/ \E i \in DOMAIN wait :
       /\ wait[i].cookie = c
       /\ wait[i].redo \/ left \subseteq Ahead(wait, i) \union Ids(run)
  \/ \E i \in DOMAIN run : run[i].cookie = c /\ run[i].redo

QueueInv ==
  /\ QueueTypeOK /\ SyncAlone /\ RunningLimited
  /\ \A c \in Cookie : due[c] \subseteq Ids(waitq) \union Ids(runq)
  /\ \A c \in owed : Payable(c, waitq, runq, due[c])

(* What WvSubProcQueue promises of its sync points.                        *)
SyncPoints == QueueInv /\ SyncAlone /\ SyncPaid /\ RunningLimited

(* finish() comes to its end: once nothing is added any more, the queue    *)
(* becomes empty, whatever was marked to be done again.                    *)
QueueEmpties == <>[]isempty
============================================================================
