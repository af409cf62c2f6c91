----------------------------- MODULE MCRuntime -----------------------------
(***************************************************************************)
(* What a program on streams, continuations and processes waits for, side  *)
(* by side: WvCont with three continuations, WvIStreamList with two        *)
(* streams, and WvSubProcQueue with two cookies.  Every behaviour belongs  *)
(* to one of the parts and leaves the variables of the others alone.       *)
(***************************************************************************)
EXTENDS WvIStreamList, WvSubProcQueue, WvCont

VARIABLE part

suitevars == <<part, listvars, queuevars, contvars>>

SuiteInit ==
  /\ part \in {"cont", "list", "queue"}
  /\ ContInit /\ Init /\ QueueInit

SuiteNext ==
  /\ UNCHANGED part
  /\ \/ part = "cont" /\ ContNext /\ UNCHANGED <<listvars, queuevars>>
     \/ part = "list" /\ Next /\ UNCHANGED <<contvars, queuevars>>
     \/ part = "queue" /\ QueueNext /\ UNCHANGED <<contvars, listvars>>

(* The fairness of each part.                                              *)
SuiteFairness ==
  /\ WF_contvars(part = "cont" /\ (resume \/ loop \/ call_returns))
  /\ \A c \in Cont :
       SF_contvars(part = "cont" /\ curdata = c /\ (yield \/ return))
  /\ WF_listvars(part = "list" /\ frames = <<>> /\ runonce)
  /\ WF_listvars(part = "list" /\ select)
  /\ WF_listvars(part = "list" /\ (next \/ done))
  /\ \A n \in 1 .. MaxNest :
       SF_listvars(part = "list" /\ Len(frames) = n /\ (returns \/ ends))
  /\ WF_queuevars(part = "queue" /\ go)
  /\ WF_queuevars(part = "queue" /\ \E e \in alive : exit(e))

SuiteSpec == SuiteInit /\ [][SuiteNext]_suitevars /\ SuiteFairness

----------------------------------------------------------------------------
(* WvCont: control comes back to the top level again and again.            *)
ControlComesBack == part = "cont" => ControlReturns

(* WvIStreamList: a stream with something to read is called in the end,    *)
(* and a closed one leaves the list.                                       *)
StreamsServed == part = "list" => ReadyCalled /\ ClosedPruned
============================================================================
