---------------------------- MODULE WvContProofs ----------------------------
(***************************************************************************)
(* WvCont, for any number of continuations and handles.                    *)
(*                                                                         *)
(* The C stack is not there to be looked at: that calls are nested has to  *)
(* follow from what is kept of it, mydepth, olddata and the places calls   *)
(* were made from (Stacked, Called).  It decides where a jump may land     *)
(* (Processor): in a task that is in a call of its own the loops go on, so *)
(* only the innermost one gets to run.  Links tell a handle from the link  *)
(* of a call and from that of ~WvCont (Counted), and there are as many     *)
(* tasks as continuations, as none is made while one is free (Pooled).     *)
(***************************************************************************)
EXTENDS WvCont, SublistLemmas, FiniteSetTheorems

----------------------------------------------------------------------------
(* WvCont.  Every variable has its type, those of the calls included.      *)
ContTypes ==
  /\ exec \in Place /\ current \in Place /\ jumping \in BOOLEAN
  /\ saved \in [Place -> {"run", "yield", "idle"}]
  /\ running \in [Task -> BOOLEAN]
  /\ free \in SUBSET Task /\ made \in SUBSET Task
  /\ links \in [Cont -> Nat] /\ task \in [Cont -> Place]
  /\ finishing \in [Cont -> BOOLEAN]
  /\ mydepth \in [Cont -> Nat] /\ taskdepth \in Nat
  /\ curdata \in Cont \union {NoCont}
  /\ calling \in [Place -> Cont \union {NoCont}]
  /\ olddata \in [Place -> Cont \union {NoCont}]
  /\ dropping \in [Place -> BOOLEAN]

(* The continuations that are being called are a stack, of which curdata   *)
(* is the top: each was called from the task of the one below it, which is *)
(* the local variable olddata of that call.                                *)
Caller(p) ==
  LET c == calling[p]
      d == olddata[p]
  IN /\ saved[p] = "run"
     /\ IF p = Top THEN d = NoCont /\ mydepth[c] = 1
        ELSE /\ d # NoCont /\ task[d] = p
             /\ mydepth[d] > 0 /\ mydepth[c] = mydepth[d] + 1

Stacked ==
  /\ IF curdata = NoCont THEN taskdepth = 0
     ELSE mydepth[curdata] > 0 /\ mydepth[curdata] = taskdepth
  /\ \A c \in Cont : mydepth[c] <= taskdepth
  /\ \A c, d \in Cont : mydepth[c] > 0 /\ mydepth[c] = mydepth[d] => c = d

Called ==
  /\ \A p \in Place : calling[p] # NoCont => Caller(p)
  /\ \A c \in Cont : mydepth[c] > 0 => \E p \in Place : calling[p] = c
  /\ \A p, q \in Place : calling[p] # NoCont /\ calling[p] = calling[q] => p = q
  /\ \A c \in Cont : mydepth[c] > 0 => task[c] # Top
  /\ \A c \in Cont : mydepth[c] > 0 /\ c # curdata =>
       running[task[c]] /\ calling[task[c]] # NoCont
  /\ curdata # NoCont => calling[Top] # NoCont

(* Where the processor is, and where it may be jumping.                    *)
Processor ==
  /\ User => /\ current = exec
             /\ exec = Top <=> curdata = NoCont
             /\ curdata # NoCont => task[curdata] = exec /\ running[exec]
  /\ jumping => /\ taskdepth > 0
                /\ exec # Top =>
                     /\ current = exec
                     /\ \E c \in Cont : mydepth[c] > 0 /\ task[c] = exec
                     /\ exec = task[curdata] => running[exec]
  /\ \A t \in Task :
       saved[t] = "run" => calling[t] # NoCont \/ (User /\ exec = t)

(* Every call keeps a link of the continuation it calls, and ~WvCont its   *)
(* own; a continuation that is to finish has no other.                     *)
Counted ==
  /\ \A p \in Place : calling[p] # NoCont =>
       /\ links[calling[p]] >= IF dropping[p] THEN 2 ELSE 1
       /\ dropping[p] => finishing[calling[p]]
       /\ finishing[calling[p]] => links[calling[p]] = IF dropping[p] THEN 2 ELSE 1
  /\ \A p \in Place : dropping[p] => calling[p] # NoCont
  /\ \A c \in Cont : finishing[c] => mydepth[c] > 0
  /\ \A c \in Cont : links[c] = 0 => task[c] = Top /\ mydepth[c] = 0

(* Each task belongs to one continuation or is free.                       *)
Pooled ==
  /\ \A c, d \in Cont : c # d /\ task[c] # Top => task[c] # task[d]
  /\ \A c \in Cont : task[c] \notin free
  /\ \A t \in Task : running[t] => \E c \in Cont : task[c] = t
  /\ \A c \in Cont : task[c] # Top => task[c] \in made
  /\ \A t \in made : t \in free \/ \E c \in Cont : task[c] = t
  /\ free \subseteq made

ContInv ==
  ContTypes /\ Stacked /\ Called /\ Processor /\ Counted /\ Pooled

LEMMA TaskNumbers ==
  /\ Cardinality(Cont) \in Nat
  /\ Task \in SUBSET Nat /\ Top \notin Task /\ Top \in Place /\ Task \subseteq Place
<1>1. Cardinality(Cont) \in Nat
  BY ContAssumption, FS_CardinalityType
<1> QED
  BY <1>1 DEF Task, Top, Place

(* Nobody is being called from where user code runs.                       *)
LEMMA UserIsOnTop ==
  ASSUME ContInv, User
  PROVE  /\ calling[exec] = NoCont /\ exec \in Place /\ current = exec
         /\ \A p \in Place : calling[p] # NoCont => calling[p] \in Cont /\ mydepth[calling[p]] > 0
         /\ exec # Top => curdata \in Cont /\ task[curdata] = exec /\ running[exec]
         /\ exec = Top => curdata = NoCont
<1>1. \A p \in Place : calling[p] # NoCont =>
        /\ calling[p] \in Cont /\ mydepth[calling[p]] > 0
        /\ mydepth[calling[p]] <= taskdepth
  BY DEF ContInv, ContTypes, Called, Caller, Stacked
<1>2. CASE exec = Top
  <2>1. curdata = NoCont /\ taskdepth = 0
    BY <1>2 DEF ContInv, Processor, Stacked
  <2>2. calling[exec] = NoCont
    BY <1>1, <1>2, <2>1, TaskNumbers DEF ContInv, ContTypes
  <2> QED
    BY <1>1, <1>2, <2>1, <2>2 DEF ContInv, Processor, ContTypes
<1>3. CASE exec # Top
  <2>1. curdata \in Cont /\ task[curdata] = exec /\ running[exec]
    BY <1>3 DEF ContInv, Processor, ContTypes
  <2>2. SUFFICES ASSUME calling[exec] # NoCont PROVE FALSE
    BY <1>1, <1>3, <2>1 DEF ContInv, Processor, ContTypes
  <2>3. olddata[exec] \in Cont /\ task[olddata[exec]] = exec
        /\ mydepth[calling[exec]] = mydepth[olddata[exec]] + 1
    BY <1>3, <2>2 DEF ContInv, ContTypes, Called, Caller
  <2>4. olddata[exec] = curdata
    BY <2>1, <2>3, <1>3 DEF ContInv, Pooled
  <2>5. mydepth[curdata] = taskdepth /\ taskdepth \in Nat
    BY <2>1, ContAssumption DEF ContInv, Stacked, ContTypes
  <2> QED
    BY <1>1, <2>2, <2>3, <2>4, <2>5 DEF ContInv, ContTypes
<1> QED
  BY <1>2, <1>3

(* A continuation has handles beyond the links of its call.                *)
LEMMA HandlesAreLinks ==
  ASSUME ContInv, NEW c \in Cont, Handles(c) > 0
  PROVE  /\ links[c] > 0
         /\ links[c] = 1 => mydepth[c] = 0
         /\ \A p \in Place : calling[p] = c => links[c] > IF dropping[p] THEN 2 ELSE 1
         /\ ~finishing[c]
<1> DEFINE C == {p \in Place : calling[p] = c}
           D == {p \in Place : calling[p] = c /\ dropping[p]}
<1>1. IsFiniteSet(Place)
  <2>1. IsFiniteSet(Task)
    BY TaskNumbers, FS_Interval DEF Task
  <2> QED
    BY <2>1, FS_AddElement DEF Place
<1>2. IsFiniteSet(C) /\ IsFiniteSet(D)
  BY <1>1, FS_Subset
<1>3. Cardinality(C) \in Nat /\ Cardinality(D) \in Nat
  BY <1>2, FS_CardinalityType
<1>4. links[c] - Cardinality(C) - Cardinality(D) > 0
  BY DEF Handles
<1>5. links[c] \in Nat /\ mydepth[c] \in Nat
  BY DEF ContInv, ContTypes
<1>6. links[c] > 0
  BY <1>3, <1>4, <1>5
<1>7. \A p \in Place : calling[p] = c => links[c] > IF dropping[p] THEN 2 ELSE 1
  <2> SUFFICES ASSUME NEW p \in Place, calling[p] = c
               PROVE  links[c] > IF dropping[p] THEN 2 ELSE 1
    OBVIOUS
  <2>1. C = {p}
    BY ContAssumption DEF ContInv, Called
  <2>2. Cardinality(C) = 1
    BY <2>1, FS_Singleton
  <2>3. dropping[p] => D = {p}
    BY <2>1
  <2>4. dropping[p] => Cardinality(D) = 1
    BY <2>3, FS_Singleton
  <2> QED
    BY <1>3, <1>4, <1>5, <2>2, <2>4
<1>8. links[c] = 1 => mydepth[c] = 0
  <2> SUFFICES ASSUME links[c] = 1, mydepth[c] > 0 PROVE FALSE
    BY <1>5
  <2>1. PICK p \in Place : calling[p] = c
    BY DEF ContInv, Called
  <2> QED
    BY <2>1, <1>7
<1>9. ~finishing[c]
  <2> SUFFICES ASSUME finishing[c] PROVE FALSE
    OBVIOUS
  <2>1. PICK p \in Place : calling[p] = c
    BY DEF ContInv, Called, Counted
  <2>2. links[c] = IF dropping[p] THEN 2 ELSE 1
    BY <2>1, ContAssumption DEF ContInv, Counted
  <2> QED
    BY <1>7, <2>1, <2>2
<1> QED
  BY <1>6, <1>7, <1>8, <1>9

LEMMA LeastOf ==
  ASSUME NEW S \in SUBSET Nat, S # {}
  PROVE  Min(S) \in S
<1>1. PICK n \in S : \A m \in S : n <= m
  BY LeastNat
<1>2. \E x \in S : \A y \in S : x <= y
  BY <1>1
<1> QED
  BY <1>2 DEF Min

(* There is a task for a continuation that has none.                       *)
LEMMA StartsUnowned ==
  ASSUME ContInv, NEW c \in Cont, task[c] = Top
  PROVE  /\ start \in Task
         /\ \A d \in Cont : task[d] # start
         /\ start \in free \/ free = {}
<1>1. CASE free # {}
  <2>1. start \in free
    BY <1>1, LeastOf, TaskNumbers DEF start, ContInv, ContTypes
  <2> QED
    BY <2>1 DEF ContInv, ContTypes, Pooled
<1>2. CASE free = {}
  <2>1. Task \ made # {}
    <3> SUFFICES ASSUME Task \subseteq made PROVE FALSE
      OBVIOUS
    <3>1. \A t \in Task : \E d \in Cont : task[d] = t
      BY <1>2 DEF ContInv, Pooled
    <3> DEFINE f == [t \in Task |-> CHOOSE d \in Cont : task[d] = t]
    <3>2. \A t \in Task : f[t] \in Cont /\ task[f[t]] = t
      BY <3>1
    <3> HIDE DEF f
    <3>3. f \in [Task -> Cont \ {c}]
      <4>1. \A t \in Task : f[t] # c
        BY <3>2, TaskNumbers
      <4>2. f = [t \in Task |-> f[t]]
        BY DEF f
      <4> QED
        BY <4>1, <4>2, <3>2
    <3>4. IsFiniteSet(Task) /\ Cardinality(Task) = Cardinality(Cont)
      BY TaskNumbers, FS_Interval DEF Task
    <3>5. IsFiniteSet(Cont \ {c}) /\ Cardinality(Cont \ {c}) = Cardinality(Cont) - 1
      BY ContAssumption, FS_RemoveElement
    <3>6. Cardinality(Cont \ {c}) < Cardinality(Task)
      BY <3>4, <3>5, TaskNumbers
    <3>7. PICK x, y \in Task : x # y /\ f[x] = f[y]
      BY <3>3, <3>4, <3>5, <3>6, FS_PigeonHole
    <3> QED
      BY <3>2, <3>7
  <2>2. start \in Task \ made
    BY <1>2, <2>1, LeastOf, TaskNumbers DEF start
  <2> QED
    BY <1>2, <2>2, TaskNumbers DEF ContInv, Pooled
<1> QED
  BY <1>1, <1>2

----------------------------------------------------------------------------
LEMMA ConstructKeeps ==
  ASSUME ContInv, NEW c \in Cont, construct(c)
  PROVE  ContInv'
<1> USE DEF construct, taskvars
<1>1. links' = [links EXCEPT ![c] = 1] /\ links[c] = 0
  OBVIOUS
<1>2. \A d \in Cont : d # c => links'[d] = links[d]
  BY <1>1 DEF ContInv, ContTypes
<1>3. \A p \in Place : calling[p] # c
  BY <1>1, ContAssumption DEF ContInv, Counted, ContTypes
<1>4. ContTypes'
  BY <1>1 DEF ContInv, ContTypes
<1>5. Stacked'
  BY DEF ContInv, Stacked
<1>6. Called'
  BY DEF ContInv, Called, Caller
<1>7. Processor'
  BY DEF ContInv, Processor, User
<1>8. Counted'
  <2>1. \A p \in Place : calling[p] # NoCont => links'[calling[p]] = links[calling[p]]
    BY <1>2, <1>3 DEF ContInv, ContTypes
  <2>2. links'[c] = 1
    BY <1>1 DEF ContInv, ContTypes
  <2> QED
    BY <1>2, <2>1, <2>2 DEF ContInv, Counted
<1>9. Pooled'
  BY DEF ContInv, Pooled
<1> QED
  BY <1>4, <1>5, <1>6, <1>7, <1>8, <1>9 DEF ContInv

LEMMA CopyKeeps ==
  ASSUME ContInv, NEW c \in Cont, copy(c)
  PROVE  ContInv'
<1> USE DEF copy, taskvars
<1>1. links' = [links EXCEPT ![c] = @ + 1] /\ ~finishing[c] /\ links[c] \in Nat
  BY DEF ContInv, ContTypes
<1>2. \A d \in Cont : d # c => links'[d] = links[d]
  BY <1>1 DEF ContInv, ContTypes
<1>3. links'[c] = links[c] + 1
  BY <1>1 DEF ContInv, ContTypes
<1>4. ContTypes'
  BY <1>1, <1>3 DEF ContInv, ContTypes
<1>5. Stacked'
  BY DEF ContInv, Stacked
<1>6. Called'
  BY DEF ContInv, Called, Caller
<1>7. Processor'
  BY DEF ContInv, Processor, User
<1>8. Counted'
  <2>1. ASSUME NEW p \in Place, calling[p] # NoCont
        PROVE  /\ links'[calling[p]] >= IF dropping[p] THEN 2 ELSE 1
               /\ dropping[p] => finishing[calling[p]]
               /\ finishing[calling[p]] =>
                    links'[calling[p]] = IF dropping[p] THEN 2 ELSE 1
    <3>1. calling[p] \in Cont
      BY <2>1 DEF ContInv, ContTypes
    <3>2. CASE calling[p] = c
      BY <1>1, <1>3, <2>1, <3>2 DEF ContInv, Counted
    <3>3. CASE calling[p] # c
      BY <1>2, <2>1, <3>1, <3>3 DEF ContInv, Counted
    <3> QED
      BY <3>2, <3>3
  <2>2. links'[c] # 0
    BY <1>1, <1>3
  <2> QED
    BY <1>2, <2>1, <2>2 DEF ContInv, Counted
<1>9. Pooled'
  BY DEF ContInv, Pooled
<1> QED
  BY <1>4, <1>5, <1>6, <1>7, <1>8, <1>9 DEF ContInv

(* User code gives the processor up.                                       *)
LEMMA YieldKeeps ==
  ASSUME ContInv, User, exec # Top, NEW how \in {"yield", "idle"}, YieldTo(how),
         running' = running \/ running' = [running EXCEPT ![exec] = FALSE],
         UNCHANGED <<made, free, datavars, calling, olddata, dropping>>
  PROVE  ContInv'
<1> USE DEF YieldTo, datavars
<1>1. /\ calling[exec] = NoCont /\ exec \in Place /\ current = exec
      /\ curdata \in Cont /\ task[curdata] = exec /\ running[exec]
  BY UserIsOnTop
<1>2. exec \in Task
  BY <1>1 DEF Place
<1>3. /\ saved' = [saved EXCEPT ![exec] = how] /\ exec' = Top /\ jumping' = TRUE
      /\ current' = current
  BY <1>1
<1>4. \A t \in Task : t # exec => running'[t] = running[t]
  BY <1>2 DEF ContInv, ContTypes
<1>5. \A t \in Task : running'[t] => running[t]
  BY <1>1, <1>2, <1>4
<1>6. ContTypes'
  <2>1. running' \in [Task -> BOOLEAN]
    BY DEF ContInv, ContTypes
  <2>2. saved' \in [Place -> {"run", "yield", "idle"}]
    BY <1>1, <1>3 DEF ContInv, ContTypes
  <2> QED
    BY <1>1, <1>3, <2>1, <2>2, TaskNumbers DEF ContInv, ContTypes
<1>7. Stacked'
  BY DEF ContInv, Stacked
<1>8. Called'
  <2>1. \A p \in Place : p # exec => saved'[p] = saved[p]
    BY <1>3 DEF ContInv, ContTypes
  <2>2. \A p \in Place : calling[p] # NoCont => Caller(p)'
    BY <1>1, <2>1 DEF ContInv, Called, Caller
  <2>3. ASSUME NEW c \in Cont, mydepth[c] > 0, c # curdata
        PROVE  running'[task[c]]
    <3>1. task[c] \in Task /\ running[task[c]]
      BY <2>3 DEF ContInv, Called, ContTypes, Place
    <3>2. task[c] # exec
      BY <1>1, <2>3, <3>1, TaskNumbers DEF ContInv, Pooled
    <3> QED
      BY <1>4, <3>1, <3>2
  <2> QED
    BY <2>2, <2>3 DEF ContInv, Called
<1>9. Processor'
  <2>1. taskdepth > 0
    BY <1>1, ContAssumption DEF ContInv, Stacked
  <2>2. \A t \in Task : saved'[t] = "run" => calling[t] # NoCont
    BY <1>2, <1>3 DEF ContInv, ContTypes, Processor
  <2> QED
    BY <1>3, <2>1, <2>2 DEF Processor, User
<1>10. Counted'
  BY DEF ContInv, Counted
<1>11. Pooled'
  BY <1>5 DEF ContInv, Pooled
<1> QED
  BY <1>6, <1>7, <1>8, <1>9, <1>10, <1>11 DEF ContInv

(* A call of c, whose task is to be t, out of user code.                   *)
Pushes(c, t, dying) ==
  /\ User /\ mydepth[c] = 0 /\ _call(c, t, dying)
  /\ task' = [task EXCEPT ![c] = t]
  /\ running' = [running EXCEPT ![t] = TRUE]

LEMMA CallPushes ==
  ASSUME ContInv, NEW c \in Cont, NEW t \in Task, NEW dying \in BOOLEAN,
         \A d \in Cont : d # c => task[d] # t, Pushes(c, t, dying)
  PROVE  Stacked' /\ Called' /\ Processor'
<1> USE DEF Pushes, _call, run
<1>1. /\ calling[exec] = NoCont /\ exec \in Place /\ current = exec
      /\ \A p \in Place : calling[p] # NoCont => calling[p] \in Cont /\ mydepth[calling[p]] > 0
      /\ exec # Top => curdata \in Cont /\ task[curdata] = exec /\ running[exec]
      /\ exec = Top => curdata = NoCont
  BY UserIsOnTop
<1>2. /\ mydepth \in [Cont -> Nat] /\ taskdepth \in Nat /\ c # NoCont
      /\ mydepth' = [mydepth EXCEPT ![c] = taskdepth + 1]
      /\ taskdepth' = taskdepth + 1 /\ curdata' = c
  BY ContAssumption DEF ContInv, ContTypes
<1>3. mydepth'[c] = taskdepth + 1 /\ \A d \in Cont : d # c => mydepth'[d] = mydepth[d]
  BY <1>2
<1>4. \A d \in Cont : mydepth[d] <= taskdepth
  BY DEF ContInv, Stacked
<1>5. /\ task'[c] = t /\ \A d \in Cont : d # c => task'[d] = task[d]
  BY DEF ContInv, ContTypes
<1>6. running'[t] /\ \A u \in Task : running[u] => running'[u]
  BY DEF ContInv, ContTypes
<1>7. /\ calling'[exec] = c /\ \A p \in Place : p # exec => calling'[p] = calling[p]
      /\ olddata'[exec] = curdata /\ \A p \in Place : p # exec => olddata'[p] = olddata[p]
  BY <1>1 DEF ContInv, ContTypes
<1>8. saved'[exec] = "run" /\ \A p \in Place : p # exec => saved'[p] = saved[p]
  BY <1>1 DEF ContInv, ContTypes
<1>9. curdata # c
  BY <1>2, ContAssumption DEF ContInv, Stacked
<1>10. taskdepth = IF exec = Top THEN 0 ELSE mydepth[curdata]
  BY <1>1, ContAssumption DEF ContInv, Stacked
<1>11. exec # Top => mydepth[curdata] > 0
  BY <1>1, ContAssumption DEF ContInv, Stacked
<1>12. Stacked'
  BY <1>2, <1>3, <1>4 DEF ContInv, Stacked
<1>13. Called'
  <2>1. ASSUME NEW p \in Place, calling'[p] # NoCont PROVE Caller(p)'
    <3>1. CASE p = exec
      <4>1. CASE exec = Top
        BY <1>1, <1>2, <1>3, <1>7, <1>8, <1>10, <3>1, <4>1 DEF Caller
      <4>2. CASE exec # Top
        <5>1. mydepth'[curdata] = mydepth[curdata] /\ task'[curdata] = exec
          BY <1>1, <1>3, <1>5, <1>9, <4>2
        <5> QED
          BY <1>1, <1>3, <1>7, <1>8, <1>10, <1>11, <3>1, <4>2, <5>1, ContAssumption DEF Caller
      <4> QED
        BY <4>1, <4>2
    <3>2. CASE p # exec
      <4>1. calling'[p] = calling[p] /\ olddata'[p] = olddata[p] /\ saved'[p] = saved[p]
        BY <1>7, <1>8, <3>2
      <4>2. Caller(p) /\ calling[p] \in Cont /\ mydepth[calling[p]] > 0
        BY <1>1, <2>1, <4>1 DEF ContInv, Called
      <4>3. mydepth'[calling[p]] = mydepth[calling[p]]
        BY <1>3, <4>2
      <4>4. CASE p = Top
        BY <4>1, <4>2, <4>3, <4>4 DEF Caller
      <4>5. CASE p # Top
        <5>1. olddata[p] \in Cont /\ mydepth[olddata[p]] > 0 /\ olddata[p] # c
          BY <4>2, <4>5 DEF Caller, ContInv, ContTypes
        <5>2. mydepth'[olddata[p]] = mydepth[olddata[p]] /\ task'[olddata[p]] = task[olddata[p]]
          BY <1>3, <1>5, <5>1
        <5> QED
          BY <4>1, <4>2, <4>3, <4>5, <5>1, <5>2 DEF Caller
      <4> QED
        BY <4>4, <4>5
    <3> QED
      BY <3>1, <3>2
  <2>2. ASSUME NEW d \in Cont, mydepth'[d] > 0
        PROVE  \E p \in Place : calling'[p] = d
    <3>1. CASE d = c
      BY <1>1, <1>7, <3>1
    <3>2. CASE d # c
      <4>1. PICK p \in Place : calling[p] = d
        BY <1>3, <2>2, <3>2 DEF ContInv, Called
      <4>2. p # exec
        BY <1>1, <4>1, ContAssumption
      <4> QED
        BY <1>7, <4>1, <4>2
    <3> QED
      BY <3>1, <3>2
  <2>3. \A p, q \in Place : calling'[p] # NoCont /\ calling'[p] = calling'[q] => p = q
    <3>1. \A p \in Place : calling[p] # c
      BY <1>1, <1>2
    <3> QED
      BY <1>7, <3>1 DEF ContInv, Called
  <2>4. \A d \in Cont : mydepth'[d] > 0 => task'[d] # Top
    BY <1>3, <1>5, TaskNumbers DEF ContInv, Called
  <2>5. ASSUME NEW d \in Cont, mydepth'[d] > 0, d # c
        PROVE  running'[task'[d]] /\ calling'[task'[d]] # NoCont
    <3>1. task'[d] = task[d] /\ mydepth[d] > 0
      BY <1>3, <1>5, <2>5
    <3>2. CASE d = curdata
      BY <1>1, <1>2, <1>6, <1>7, <3>1, <3>2, ContAssumption DEF Place
    <3>3. CASE d # curdata
      <4>1. running[task[d]] /\ calling[task[d]] # NoCont /\ task[d] \in Task
        BY <3>1, <3>3 DEF ContInv, Called, ContTypes, Place
      <4>2. task[d] # exec /\ task[d] \in Place
        BY <1>1, <4>1 DEF Place
      <4> QED
        BY <1>6, <1>7, <3>1, <4>1, <4>2
    <3> QED
      BY <3>2, <3>3
  <2>6. calling'[Top] # NoCont
    <3>1. CASE exec = Top
      BY <1>2, <1>7, <3>1
    <3>2. CASE exec # Top
      BY <1>1, <1>7, <3>2, TaskNumbers, ContAssumption DEF ContInv, Called
    <3> QED
      BY <3>1, <3>2
  <2> QED
    BY <1>2, <2>1, <2>2, <2>3, <2>4, <2>5, <2>6 DEF Called
<1>14. Processor'
  <2>1. current' = t /\ exec' = t /\ jumping' = TRUE
    OBVIOUS
  <2>2. taskdepth' > 0
    BY <1>2
  <2>3. mydepth'[c] > 0 /\ task'[c] = t
    BY <1>2, <1>3, <1>5
  <2>4. ASSUME NEW u \in Task, saved'[u] = "run" PROVE calling'[u] # NoCont
    <3>1. CASE u = exec
      BY <1>2, <1>7, <3>1
    <3>2. CASE u # exec
      <4>1. u \in Place
        BY DEF Place
      <4> QED
        BY <1>7, <1>8, <2>4, <3>2, <4>1 DEF ContInv, Processor
    <3> QED
      BY <3>1, <3>2
  <2> QED
    BY <1>6, <2>1, <2>2, <2>3, <2>4 DEF Processor, User
<1> QED
  BY <1>12, <1>13, <1>14

(* The links, when a call of c takes one and c has handles besides.        *)
LEMMA CallLinks ==
  ASSUME ContInv, NEW c \in Cont, NEW t \in Task, NEW dying \in BOOLEAN,
         Pushes(c, t, dying), links[c] > 0,
         IF dying THEN links[c] = 1 /\ finishing' = [finishing EXCEPT ![c] = TRUE]
         ELSE ~finishing[c] /\ finishing' = finishing
  PROVE  Counted'
<1> USE DEF Pushes, _call, run
<1>1. /\ calling[exec] = NoCont /\ exec \in Place /\ c # NoCont
      /\ \A p \in Place : calling[p] # NoCont =>
           calling[p] \in Cont /\ mydepth[calling[p]] > 0 /\ calling[p] # c
  BY UserIsOnTop, ContAssumption
<1>2. /\ calling'[exec] = c /\ \A p \in Place : p # exec => calling'[p] = calling[p]
      /\ dropping'[exec] = dying
      /\ \A p \in Place : p # exec => dropping'[p] = dropping[p]
  BY <1>1 DEF ContInv, ContTypes
<1>3. /\ links'[c] = links[c] + 1 /\ links[c] \in Nat
      /\ \A d \in Cont : d # c => links'[d] = links[d]
  BY DEF ContInv, ContTypes
<1>4. /\ finishing'[c] = dying
      /\ \A d \in Cont : d # c => finishing'[d] = finishing[d]
  BY DEF ContInv, ContTypes
<1>5. ASSUME NEW p \in Place, calling'[p] # NoCont
      PROVE  /\ links'[calling'[p]] >= IF dropping'[p] THEN 2 ELSE 1
             /\ dropping'[p] => finishing'[calling'[p]]
             /\ finishing'[calling'[p]] =>
                  links'[calling'[p]] = IF dropping'[p] THEN 2 ELSE 1
  <2>1. CASE p = exec
    BY <1>2, <1>3, <1>4, <2>1
  <2>2. CASE p # exec
    BY <1>1, <1>2, <1>3, <1>4, <1>5, <2>2 DEF ContInv, Counted
  <2> QED
    BY <2>1, <2>2
<1>6. \A p \in Place : dropping'[p] => calling'[p] # NoCont
  BY <1>1, <1>2 DEF ContInv, Counted
<1>7. mydepth'[c] > 0 /\ \A d \in Cont : d # c => mydepth'[d] = mydepth[d]
  BY DEF ContInv, ContTypes
<1>8. \A d \in Cont : finishing'[d] => mydepth'[d] > 0
  BY <1>4, <1>7 DEF ContInv, Counted
<1>9. \A d \in Cont : links'[d] = 0 => task'[d] = Top /\ mydepth'[d] = 0
  BY <1>3, <1>7 DEF ContInv, Counted, ContTypes
<1> QED
  BY <1>5, <1>6, <1>8, <1>9 DEF Counted

LEMMA CallTypes ==
  ASSUME ContInv, NEW c \in Cont, NEW t \in Task, NEW dying \in BOOLEAN,
         Pushes(c, t, dying), finishing' \in [Cont -> BOOLEAN],
         made' \in SUBSET Task, free' \in SUBSET Task
  PROVE  ContTypes'
<1> USE DEF Pushes, _call, run
<1>1. current = exec /\ exec \in Place /\ t \in Place
  BY UserIsOnTop DEF Place
<1>2. exec' \in Place /\ current' \in Place /\ jumping' \in BOOLEAN
  BY <1>1
<1>3. saved' \in [Place -> {"run", "yield", "idle"}]
  BY <1>1 DEF ContInv, ContTypes
<1>4. running' \in [Task -> BOOLEAN] /\ dropping' \in [Place -> BOOLEAN]
  BY <1>1 DEF ContInv, ContTypes
<1>5. links' \in [Cont -> Nat] /\ mydepth' \in [Cont -> Nat] /\ taskdepth' \in Nat
  BY DEF ContInv, ContTypes
<1>6. task' \in [Cont -> Place]
  BY <1>1 DEF ContInv, ContTypes
<1>7. /\ curdata' \in Cont \union {NoCont}
      /\ calling' \in [Place -> Cont \union {NoCont}]
      /\ olddata' \in [Place -> Cont \union {NoCont}]
  BY <1>1 DEF ContInv, ContTypes
<1> QED
  BY <1>2, <1>3, <1>4, <1>5, <1>6, <1>7 DEF ContTypes

LEMMA CallKeeps ==
  ASSUME ContInv, NEW c \in Cont, call(c)
  PROVE  ContInv'
<1> DEFINE t == IF task[c] = Top THEN start ELSE task[c]
<1>1. /\ t \in Task /\ \A d \in Cont : d # c => task[d] # t
      /\ task[c] # Top => t = task[c] /\ t \in made
      /\ task[c] = Top => \A d \in Cont : task[d] # t
  <2>1. CASE task[c] = Top
    BY <2>1, StartsUnowned
  <2>2. CASE task[c] # Top
    BY <2>2 DEF ContInv, ContTypes, Pooled, Place
  <2> QED
    BY <2>1, <2>2
<1>2. /\ Pushes(c, t, FALSE) /\ links[c] > 0 /\ ~finishing[c] /\ finishing' = finishing
      /\ task' = [task EXCEPT ![c] = t]
      /\ running' = [running EXCEPT ![t] = TRUE]
      /\ made' = made \union {t}
      /\ free' = IF task[c] = Top THEN free \ {t} ELSE free
  BY DEF call, Pushes
<1> HIDE DEF t
<1>3. Stacked' /\ Called' /\ Processor'
  BY <1>1, <1>2, CallPushes
<1>4. Counted'
  BY <1>1, <1>2, CallLinks
<1>5. finishing' \in [Cont -> BOOLEAN] /\ made' \in SUBSET Task /\ free' \in SUBSET Task
  BY <1>1, <1>2 DEF ContInv, ContTypes
<1>6. ContTypes'
  BY <1>1, <1>2, <1>5, CallTypes
<1>7. /\ task'[c] = t /\ \A d \in Cont : d # c => task'[d] = task[d]
      /\ \A u \in Task : u # t => running'[u] = running[u]
  BY <1>1, <1>2 DEF ContInv, ContTypes
<1>8. Pooled'
  <2>1. \A d, e \in Cont : d # e /\ task'[d] # Top => task'[d] # task'[e]
    BY <1>1, <1>7 DEF ContInv, Pooled
  <2>2. \A d \in Cont : task'[d] \notin free'
    BY <1>1, <1>2, <1>7 DEF ContInv, Pooled
  <2>3. \A u \in Task : running'[u] => \E d \in Cont : task'[d] = u
    <3> SUFFICES ASSUME NEW u \in Task, running'[u], u # t
                 PROVE  \E d \in Cont : task'[d] = u
      BY <1>7
    <3>1. PICK d \in Cont : task[d] = u
      BY <1>7 DEF ContInv, Pooled
    <3>2. d # c
      BY <1>1, <3>1, TaskNumbers
    <3> QED
      BY <1>7, <3>1, <3>2
  <2>4. \A d \in Cont : task'[d] # Top => task'[d] \in made'
    BY <1>2, <1>7 DEF ContInv, Pooled
  <2>5. \A u \in made' : u \in free' \/ \E d \in Cont : task'[d] = u
    <3> SUFFICES ASSUME NEW u \in made, u # t, u \notin free
                 PROVE  \E d \in Cont : task'[d] = u
      BY <1>2, <1>7
    <3>1. PICK d \in Cont : task[d] = u
      BY DEF ContInv, Pooled
    <3>2. u \in Task /\ d # c
      BY <1>1, <3>1, TaskNumbers DEF ContInv, ContTypes
    <3> QED
      BY <1>7, <3>1, <3>2
  <2>6. free' \subseteq made'
    BY <1>2 DEF ContInv, Pooled
  <2> QED
    BY <2>1, <2>2, <2>3, <2>4, <2>5, <2>6 DEF Pooled
<1> QED
  BY <1>3, <1>4, <1>6, <1>8 DEF ContInv

----------------------------------------------------------------------------
(* A continuation goes whose task is not running.                          *)
LEMMA DeletedRecycles ==
  ASSUME ContInv, NEW c \in Cont, Deleted(c, 0), links[c] > 0,
         task[c] # Top => ~running[task[c]]
  PROVE  /\ Pooled' /\ running' = running
         /\ free' \in SUBSET Task /\ made' \in SUBSET Task
         /\ task' = [task EXCEPT ![c] = Top]
         /\ finishing' = [finishing EXCEPT ![c] = FALSE]
<1> DEFINE idle == IF task[c] = Top THEN free ELSE free \union {task[c]}
           last == \A d \in Cont \ {c} : links[d] = 0
<1>1. /\ task' = [task EXCEPT ![c] = Top]
      /\ free' = IF last THEN {} ELSE idle
      /\ made' = IF last THEN made \ idle ELSE made
      /\ finishing' = [finishing EXCEPT ![c] = FALSE]
      /\ running' = running
  BY DEF Deleted
<1>2. /\ task'[c] = Top /\ \A d \in Cont : d # c => task'[d] = task[d]
      /\ \A d \in Cont : task[d] \in Task \union {Top}
  BY <1>1 DEF ContInv, ContTypes, Place
<1>3. free' \in SUBSET Task /\ made' \in SUBSET Task /\ idle \subseteq made
  BY <1>1, <1>2 DEF ContInv, ContTypes, Pooled
<1>4. last => \A d \in Cont : d # c => task[d] = Top
  BY DEF ContInv, Counted
<1>5. last => made' = {}
  <2> SUFFICES ASSUME last, NEW u \in made PROVE u \in idle
    BY <1>1
  <2>1. u \in free \/ \E d \in Cont : task[d] = u
    BY DEF ContInv, Pooled
  <2>2. u # Top
    BY TaskNumbers DEF ContInv, ContTypes
  <2> QED
    BY <1>4, <2>1, <2>2
<1>6. \A d, e \in Cont : d # e /\ task'[d] # Top => task'[d] # task'[e]
  BY <1>2 DEF ContInv, Pooled
<1>7. \A d \in Cont : task'[d] \notin free'
  <2>1. task'[c] \notin free'
    BY <1>2, <1>3, TaskNumbers
  <2>2. ASSUME NEW d \in Cont, d # c PROVE task[d] \notin idle
    <3>1. task[d] \notin free
      BY DEF ContInv, Pooled
    <3>2. task[c] # Top => task[d] # task[c]
      BY <2>2 DEF ContInv, Pooled
    <3> QED
      BY <3>1, <3>2
  <2> QED
    BY <1>1, <1>2, <2>1, <2>2
<1>8. ASSUME NEW u \in Task, running'[u] PROVE \E d \in Cont : task'[d] = u
  <2>1. PICK d \in Cont : task[d] = u
    BY <1>1, <1>8 DEF ContInv, Pooled
  <2>2. d # c
    BY <1>1, <1>8, <2>1, TaskNumbers
  <2> QED
    BY <1>2, <2>1, <2>2
<1>9. \A d \in Cont : task'[d] # Top => task'[d] \in made'
  BY <1>1, <1>2, <1>4 DEF ContInv, Pooled
<1>10. ASSUME NEW u \in made', u \notin free' PROVE \E d \in Cont : task'[d] = u
  <2>1. u \in made /\ ~last
    BY <1>1, <1>5, <1>10
  <2>2. u \notin free /\ u # task[c]
    <3>1. u \notin idle /\ u # Top
      BY <1>1, <1>3, <1>10, <2>1, TaskNumbers
    <3> QED
      BY <3>1
  <2>3. PICK d \in Cont : task[d] = u
    BY <2>1, <2>2 DEF ContInv, Pooled
  <2> QED
    BY <1>2, <2>2, <2>3
<1>11. free' \subseteq made'
  BY <1>1, <1>3
<1> QED
  BY <1>1, <1>3, <1>6, <1>7, <1>8, <1>9, <1>10, <1>11 DEF Pooled

LEMMA DropKeeps ==
  ASSUME ContInv, NEW c \in Cont, drop(c)
  PROVE  ContInv'
<1>1. User /\ Handles(c) > 0
  BY DEF drop
<1>2. /\ links[c] > 0 /\ ~finishing[c]
      /\ links[c] = 1 => mydepth[c] = 0
      /\ \A p \in Place : calling[p] = c => links[c] > IF dropping[p] THEN 2 ELSE 1
  BY <1>1, HandlesAreLinks
<1>3. CASE links[c] = 1 /\ task[c] # Top /\ running[task[c]]
  <2> DEFINE t == task[c]
  <2>1. /\ finishing' = [finishing EXCEPT ![c] = TRUE]
        /\ _call(c, t, TRUE)
        /\ task' = task /\ running' = running /\ made' = made /\ free' = free
    BY <1>3 DEF drop
  <2>2. t \in Task /\ \A d \in Cont : d # c => task[d] # t
    BY <1>3 DEF ContInv, ContTypes, Pooled, Place
  <2>3. task' = [task EXCEPT ![c] = t] /\ running' = [running EXCEPT ![t] = TRUE]
    <3>1. task' = [task EXCEPT ![c] = t]
      BY <2>1 DEF ContInv, ContTypes
    <3>2. running[t] = TRUE
      BY <1>3, <2>2 DEF ContInv, ContTypes
    <3>3. running' = [running EXCEPT ![t] = TRUE]
      BY <2>1, <2>2, <3>2 DEF ContInv, ContTypes
    <3> QED
      BY <3>1, <3>3
  <2>4. Pushes(c, t, TRUE)
    BY <1>1, <1>2, <1>3, <2>1, <2>3 DEF Pushes
  <2>5. Pooled'
    BY <2>1 DEF ContInv, Pooled
  <2>6. finishing' \in [Cont -> BOOLEAN] /\ made' \in SUBSET Task /\ free' \in SUBSET Task
    BY <2>1 DEF ContInv, ContTypes
  <2> HIDE DEF t
  <2>7. Stacked' /\ Called' /\ Processor'
    BY <2>2, <2>4, CallPushes
  <2>8. Counted'
    BY <1>2, <1>3, <2>1, <2>2, <2>4, CallLinks
  <2>9. ContTypes'
    BY <2>2, <2>4, <2>6, CallTypes
  <2> QED
    BY <2>5, <2>7, <2>8, <2>9 DEF ContInv
<1>4. CASE ~(links[c] = 1 /\ task[c] # Top /\ running[task[c]])
  <2>1. /\ links' = [links EXCEPT ![c] = @ - 1]
        /\ Deleted(c, links[c] - 1)
        /\ UNCHANGED <<exec, jumping, current, saved, mydepth, taskdepth, curdata>>
        /\ UNCHANGED <<calling, olddata, dropping>>
    BY <1>4 DEF drop
  <2>2. links[c] \in Nat /\ links'[c] = links[c] - 1
        /\ \A d \in Cont : d # c => links'[d] = links[d]
    BY <2>1 DEF ContInv, ContTypes
  <2>3. /\ Pooled' /\ running' = running
        /\ free' \in SUBSET Task /\ made' \in SUBSET Task
        /\ task' \in [Cont -> Place] /\ finishing' \in [Cont -> BOOLEAN]
        /\ \A d \in Cont : d # c => task'[d] = task[d]
        /\ \A d \in Cont : finishing'[d] = finishing[d]
        /\ links[c] # 1 => task'[c] = task[c]
        /\ links[c] = 1 => task'[c] = Top
    <3>1. CASE links[c] = 1
      <4>1. Deleted(c, 0)
        BY <2>1, <3>1
      <4>2. /\ Pooled' /\ running' = running
            /\ free' \in SUBSET Task /\ made' \in SUBSET Task
            /\ task' = [task EXCEPT ![c] = Top]
            /\ finishing' = [finishing EXCEPT ![c] = FALSE]
        BY <1>2, <1>4, <3>1, <4>1, DeletedRecycles
      <4>3. task' \in [Cont -> Place] /\ task'[c] = Top
            /\ \A d \in Cont : d # c => task'[d] = task[d]
        BY <4>2, TaskNumbers DEF ContInv, ContTypes
      <4>4. finishing' \in [Cont -> BOOLEAN] /\ \A d \in Cont : finishing'[d] = finishing[d]
        BY <1>2, <4>2 DEF ContInv, ContTypes
      <4> QED
        BY <3>1, <4>2, <4>3, <4>4
    <3>2. CASE links[c] # 1
      <4>1. UNCHANGED <<task, made, free, finishing, running>>
        BY <1>2, <2>1, <2>2, <3>2 DEF Deleted
      <4>2. Pooled'
        BY <4>1 DEF ContInv, Pooled
      <4> QED
        BY <3>2, <4>1, <4>2 DEF ContInv, ContTypes
    <3> QED
      BY <3>1, <3>2
  <2>4. ContTypes'
    <3>1. links' \in [Cont -> Nat]
      BY <1>2, <2>1, <2>2 DEF ContInv, ContTypes
    <3> QED
      BY <2>1, <2>3, <3>1 DEF ContInv, ContTypes
  <2>5. \A d \in Cont : mydepth[d] > 0 => task'[d] = task[d]
    BY <1>2, <2>3
  <2>6. Stacked'
    BY <2>1 DEF ContInv, Stacked
  <2>7. Called'
    <3>1. ASSUME NEW p \in Place, calling[p] # NoCont PROVE Caller(p)'
      <4>1. Caller(p)
        BY <3>1 DEF ContInv, Called
      <4>2. p # Top => olddata[p] \in Cont /\ mydepth[olddata[p]] > 0
        BY <4>1 DEF Caller, ContInv, ContTypes
      <4>3. p # Top => task'[olddata[p]] = task[olddata[p]]
        BY <2>5, <4>2
      <4> QED
        BY <2>1, <4>1, <4>3 DEF Caller
    <3> QED
      BY <2>1, <2>3, <2>5, <3>1 DEF ContInv, Called
  <2>8. Processor'
    <3>1. curdata # NoCont => curdata \in Cont /\ task'[curdata] = task[curdata]
      BY <2>5 DEF ContInv, ContTypes, Stacked
    <3> QED
      BY <1>1, <2>1, <2>3, <3>1 DEF ContInv, Processor, User
  <2>9. Counted'
    <3>1. ASSUME NEW p \in Place, calling[p] # NoCont
          PROVE  /\ links'[calling[p]] >= IF dropping[p] THEN 2 ELSE 1
                 /\ finishing[calling[p]] =>
                      links'[calling[p]] = IF dropping[p] THEN 2 ELSE 1
      <4>1. calling[p] \in Cont
        BY <3>1 DEF ContInv, ContTypes
      <4>2. CASE calling[p] = c
        BY <1>2, <2>2, <4>2
      <4>3. CASE calling[p] # c
        BY <2>2, <3>1, <4>1, <4>3 DEF ContInv, Counted
      <4> QED
        BY <4>2, <4>3
    <3>2. \A d \in Cont : links'[d] = 0 => task'[d] = Top /\ mydepth[d] = 0
      BY <1>2, <2>2, <2>3 DEF ContInv, Counted
    <3>3. \A p \in Place : calling[p] # NoCont => finishing'[calling[p]] = finishing[calling[p]]
      BY <2>3 DEF ContInv, ContTypes
    <3> QED
      BY <2>1, <2>3, <3>1, <3>2, <3>3 DEF ContInv, Counted
  <2> QED
    BY <2>3, <2>4, <2>6, <2>7, <2>8, <2>9 DEF ContInv
<1> QED
  BY <1>3, <1>4

----------------------------------------------------------------------------
(* A task that is jumped to and is not in a call is the innermost one.     *)
LEMMA ResumeKeeps ==
  ASSUME ContInv, resume
  PROVE  ContInv'
<1> USE DEF resume, datavars
<1>1. /\ jumping /\ saved[exec] # "run" /\ jumping' = FALSE
      /\ UNCHANGED <<exec, current, saved, running, made, free, datavars,
                     calling, olddata, dropping>>
  OBVIOUS
<1>2. /\ exec \in Place /\ taskdepth > 0 /\ taskdepth \in Nat
      /\ \A p \in Place : calling[p] # NoCont => saved[p] = "run"
  BY <1>1 DEF ContInv, ContTypes, Processor, Called, Caller
<1>3. curdata \in Cont
  BY <1>2 DEF ContInv, Stacked, ContTypes
<1>4. exec # Top
  BY <1>1, <1>2, <1>3, TaskNumbers, ContAssumption DEF ContInv, Called
<1>5. PICK c \in Cont : mydepth[c] > 0 /\ task[c] = exec
  BY <1>1, <1>4 DEF ContInv, Processor
<1>6. c = curdata
  BY <1>1, <1>2, <1>5 DEF ContInv, Called
<1>7. current = exec /\ task[curdata] = exec /\ running[exec]
  BY <1>1, <1>4, <1>5, <1>6 DEF ContInv, Processor
<1>8. ContTypes'
  BY <1>1 DEF ContInv, ContTypes
<1>9. Processor'
  BY <1>1, <1>3, <1>4, <1>7, ContAssumption DEF ContInv, Processor, User
<1>10. Stacked' /\ Counted' /\ Pooled'
  BY <1>1 DEF ContInv, Stacked, Counted, Pooled
<1>11. Called'
  BY <1>1 DEF ContInv, Called, Caller
<1> QED
  BY <1>8, <1>9, <1>10, <1>11 DEF ContInv

(* A task that is jumped to and was left in run() is in a call of a        *)
(* continuation; when its loops are over, of the innermost one.            *)
LEMMA LoopsInCall ==
  ASSUME ContInv, jumping, saved[exec] = "run"
  PROVE  /\ exec \in Place /\ calling[exec] \in Cont
         /\ mydepth[calling[exec]] > 0 /\ task[calling[exec]] \in Task
         /\ curdata \in Cont /\ mydepth[curdata] = taskdepth
         /\ taskdepth > mydepth[calling[exec]] \/ calling[exec] = curdata
<1> DEFINE c == calling[exec]
<1>1. exec \in Place /\ taskdepth > 0 /\ taskdepth \in Nat
  BY DEF ContInv, ContTypes, Processor
<1>2. curdata \in Cont /\ curdata # NoCont /\ mydepth[curdata] = taskdepth
  BY <1>1, ContAssumption DEF ContInv, Stacked, ContTypes
<1>3. c \in Cont
  <2>1. CASE exec = Top
    BY <1>1, <1>2, <2>1, TaskNumbers DEF ContInv, Called, ContTypes
  <2>2. CASE exec # Top
    <3>1. c # NoCont
      BY <1>1, <2>2 DEF ContInv, Processor, User, Place
    <3> QED
      BY <1>1, <3>1 DEF ContInv, ContTypes
  <2> QED
    BY <2>1, <2>2
<1>4. mydepth[c] > 0
  BY <1>1, <1>3, ContAssumption DEF ContInv, Called, Caller, ContTypes
<1>5. task[c] \in Task
  BY <1>3, <1>4 DEF ContInv, Called, ContTypes, Place
<1>6. mydepth[c] <= taskdepth
  BY <1>3 DEF ContInv, Stacked
<1>7. mydepth[c] \in Nat
  BY <1>3 DEF ContInv, ContTypes
<1>8. taskdepth > mydepth[c] \/ mydepth[c] = mydepth[curdata]
  BY <1>1, <1>2, <1>6, <1>7
<1>9. taskdepth > mydepth[c] \/ c = curdata
  BY <1>2, <1>3, <1>4, <1>8 DEF ContInv, Stacked
<1> QED
  BY <1>1, <1>2, <1>3, <1>4, <1>5, <1>9

LEMMA LoopKeeps ==
  ASSUME ContInv, loop
  PROVE  ContInv'
<1> DEFINE c == calling[exec]
<1>1. jumping /\ saved[exec] = "run"
  BY DEF loop
<1>2. /\ exec \in Place /\ c \in Cont
      /\ mydepth[c] > 0 /\ task[c] \in Task
      /\ curdata \in Cont /\ mydepth[curdata] = taskdepth
  BY <1>1, LoopsInCall
<1>3. /\ again(c, Ends(c))
      /\ finishing' = [finishing EXCEPT ![c] = Ends(c)]
      /\ saved' = saved /\ current' = task[c] /\ exec' = task[c]
      /\ UNCHANGED <<jumping, running, made, free, links, task, mydepth, taskdepth, curdata>>
      /\ UNCHANGED <<calling, olddata, dropping>>
  BY DEF loop
<1>4. finishing'[c] = Ends(c) /\ \A d \in Cont : d # c => finishing'[d] = finishing[d]
  BY <1>2, <1>3 DEF ContInv, ContTypes
<1>5. ContTypes'
  <2>1. finishing' \in [Cont -> BOOLEAN]
    BY <1>3 DEF ContInv, ContTypes, Ends
  <2> QED
    BY <1>2, <1>3, <2>1 DEF ContInv, ContTypes, Place
<1>6. Stacked' /\ Pooled'
  BY <1>3 DEF ContInv, Stacked, Pooled
<1>7. Called'
  BY <1>3 DEF ContInv, Called, Caller
<1>8. Processor'
  <2>1. task[c] = task[curdata] => running[task[c]]
    <3> SUFFICES ASSUME task[c] = task[curdata] PROVE running[task[c]]
      OBVIOUS
    <3>1. c = curdata
      BY <1>2, TaskNumbers DEF ContInv, Pooled
    <3>2. ~(taskdepth > mydepth[c])
      BY <1>2, <3>1 DEF ContInv, ContTypes
    <3> QED
      BY <1>3, <3>2 DEF again
  <2>2. \A t \in Task : saved[t] = "run" => calling[t] # NoCont
    BY <1>1 DEF ContInv, Processor, User
  <2>3. taskdepth > 0
    BY <1>1 DEF ContInv, Processor
  <2> QED
    BY <1>1, <1>2, <1>3, <2>1, <2>2, <2>3 DEF Processor, User
<1>9. Counted'
  <2>1. ASSUME NEW p \in Place, calling[p] # NoCont
        PROVE  /\ links[calling[p]] >= IF dropping[p] THEN 2 ELSE 1
               /\ dropping[p] => finishing'[calling[p]]
               /\ finishing'[calling[p]] =>
                    links[calling[p]] = IF dropping[p] THEN 2 ELSE 1
    <3>1. /\ calling[p] \in Cont /\ links[calling[p]] >= IF dropping[p] THEN 2 ELSE 1
          /\ dropping[p] => finishing[calling[p]]
          /\ finishing[calling[p]] => links[calling[p]] = IF dropping[p] THEN 2 ELSE 1
          /\ dropping[p] \in BOOLEAN
      BY <2>1 DEF ContInv, Counted, ContTypes
    <3>2. CASE calling[p] = c
      BY <1>4, <3>1, <3>2 DEF Ends
    <3>3. CASE calling[p] # c
      BY <1>4, <3>1, <3>3
    <3> QED
      BY <3>2, <3>3
  <2>2. \A d \in Cont : finishing'[d] => mydepth[d] > 0
    BY <1>2, <1>4 DEF ContInv, Counted
  <2> QED
    BY <1>3, <2>1, <2>2 DEF ContInv, Counted
<1> QED
  BY <1>5, <1>6, <1>7, <1>8, <1>9 DEF ContInv

LEMMA CallReturnsKeeps ==
  ASSUME ContInv, call_returns
  PROVE  ContInv'
<1> DEFINE c == calling[exec]
           d0 == olddata[exec]
           left == links[c] - (IF dropping[exec] THEN 2 ELSE 1)
<1>1. jumping /\ saved[exec] = "run"
  BY DEF call_returns
<1>2. /\ ~again(c, Ends(c))
      /\ links' = [links EXCEPT ![c] = left]
      /\ IF left = 0 THEN Deleted(c, 0)
         ELSE /\ finishing' = [finishing EXCEPT ![c] = Ends(c)]
              /\ UNCHANGED <<task, made, free, running>>
      /\ mydepth' = [mydepth EXCEPT ![c] = 0]
      /\ taskdepth' = taskdepth - 1
      /\ curdata' = d0
      /\ current' = exec
      /\ jumping' = FALSE
      /\ calling' = [calling EXCEPT ![exec] = NoCont]
      /\ olddata' = [olddata EXCEPT ![exec] = NoCont]
      /\ dropping' = [dropping EXCEPT ![exec] = FALSE]
      /\ exec' = exec /\ saved' = saved
  BY DEF call_returns
<1>3. /\ exec \in Place /\ c \in Cont /\ c # NoCont /\ c = curdata
      /\ mydepth[c] = taskdepth /\ taskdepth \in Nat /\ taskdepth > 0
      /\ task[c] \in Task
  <2>1. /\ exec \in Place /\ c \in Cont /\ mydepth[c] > 0 /\ task[c] \in Task
        /\ curdata \in Cont /\ mydepth[curdata] = taskdepth
        /\ taskdepth > mydepth[c] \/ c = curdata
    BY <1>1, LoopsInCall
  <2>2. c = curdata
    BY <1>2, <2>1 DEF again
  <2>3. c # NoCont /\ taskdepth \in Nat
    BY <2>1, ContAssumption DEF ContInv, ContTypes
  <2> QED
    BY <2>1, <2>2, <2>3
<1>4. /\ links[c] \in Nat /\ links[c] >= IF dropping[exec] THEN 2 ELSE 1
      /\ dropping[exec] \in BOOLEAN
      /\ dropping[exec] => finishing[c]
      /\ finishing[c] => left = 0
  BY <1>3 DEF ContInv, ContTypes, Counted
<1>5. left \in Nat /\ left <= links[c]
  BY <1>4
<1>6. left = 0 => ~running[task[c]]
  <2>1. left = 0 => Ends(c)
    BY <1>4 DEF Ends
  <2> QED
    BY <1>2, <2>1 DEF again
<1>7. left # 0 => ~Ends(c)
  BY <1>4, <1>5 DEF Ends
<1> HIDE DEF left, c, d0
<1>8. /\ Pooled' /\ running' = running
      /\ free' \in SUBSET Task /\ made' \in SUBSET Task
      /\ task' \in [Cont -> Place] /\ finishing' \in [Cont -> BOOLEAN]
      /\ \A d \in Cont : d # c => task'[d] = task[d] /\ finishing'[d] = finishing[d]
      /\ ~finishing'[c]
      /\ left = 0 => task'[c] = Top
  <2>1. CASE left = 0
    <3>1. /\ Pooled' /\ running' = running
          /\ free' \in SUBSET Task /\ made' \in SUBSET Task
          /\ task' = [task EXCEPT ![c] = Top]
          /\ finishing' = [finishing EXCEPT ![c] = FALSE]
      <4>1. links[c] > 0
        BY <1>4
      <4> QED
        BY <1>2, <1>3, <1>6, <2>1, <4>1, DeletedRecycles
    <3>2. task' \in [Cont -> Place] /\ task'[c] = Top
          /\ \A d \in Cont : d # c => task'[d] = task[d]
      BY <1>3, <3>1, TaskNumbers DEF ContInv, ContTypes
    <3>3. finishing' \in [Cont -> BOOLEAN] /\ ~finishing'[c]
          /\ \A d \in Cont : d # c => finishing'[d] = finishing[d]
      BY <1>3, <3>1 DEF ContInv, ContTypes
    <3> QED
      BY <2>1, <3>1, <3>2, <3>3
  <2>2. CASE left # 0
    <3>1. finishing' = [finishing EXCEPT ![c] = FALSE]
      BY <1>2, <1>7, <2>2 DEF Ends
    <3>2. UNCHANGED <<task, made, free, running>>
      BY <1>2, <2>2
    <3>3. Pooled'
      BY <3>2 DEF ContInv, Pooled
    <3>4. finishing' \in [Cont -> BOOLEAN] /\ ~finishing'[c]
          /\ \A d \in Cont : d # c => finishing'[d] = finishing[d]
      BY <1>3, <3>1 DEF ContInv, ContTypes
    <3> QED
      BY <2>2, <3>2, <3>3, <3>4 DEF ContInv, ContTypes
  <2> QED
    BY <2>1, <2>2
<1>9. /\ links'[c] = left /\ \A d \in Cont : d # c => links'[d] = links[d]
      /\ mydepth'[c] = 0 /\ \A d \in Cont : d # c => mydepth'[d] = mydepth[d]
  BY <1>2, <1>3 DEF ContInv, ContTypes
<1>10. /\ calling'[exec] = NoCont /\ \A p \in Place : p # exec => calling'[p] = calling[p]
       /\ olddata'[exec] = NoCont /\ \A p \in Place : p # exec => olddata'[p] = olddata[p]
       /\ ~dropping'[exec] /\ \A p \in Place : p # exec => dropping'[p] = dropping[p]
  BY <1>2, <1>3 DEF ContInv, ContTypes
<1>11. d0 \in Cont \union {NoCont} /\ d0 # c
  <2>1. d0 \in Cont \union {NoCont}
    BY <1>3 DEF ContInv, ContTypes, d0
  <2>2. Caller(exec)
    BY <1>3 DEF ContInv, Called, c
  <2> QED
    BY <1>3, <2>1, <2>2 DEF Caller, c, d0, ContInv, ContTypes
<1>12. IF exec = Top THEN d0 = NoCont /\ taskdepth = 1
       ELSE /\ d0 \in Cont /\ d0 # NoCont /\ task[d0] = exec
            /\ mydepth[d0] > 0 /\ mydepth[d0] = taskdepth - 1
  <2>1. Caller(exec)
    BY <1>3 DEF ContInv, Called, c
  <2> QED
    BY <1>3, <1>11, <2>1 DEF Caller, c, d0, ContInv, ContTypes
<1>13. ASSUME NEW p \in Place, calling'[p] # NoCont
       PROVE  p # exec /\ calling'[p] = calling[p] /\ calling[p] \in Cont /\ calling[p] # c
  <2>1. p # exec /\ calling'[p] = calling[p]
    BY <1>10, <1>13
  <2> QED
    BY <1>3, <1>13, <2>1 DEF ContInv, Called, ContTypes, c
<1>14. ContTypes'
  <2>1. links' \in [Cont -> Nat] /\ mydepth' \in [Cont -> Nat]
    BY <1>2, <1>5 DEF ContInv, ContTypes
  <2>2. taskdepth' \in Nat
    BY <1>2, <1>3
  <2>3. /\ calling' \in [Place -> Cont \union {NoCont}]
        /\ olddata' \in [Place -> Cont \union {NoCont}]
        /\ dropping' \in [Place -> BOOLEAN]
    BY <1>2 DEF ContInv, ContTypes
  <2> QED
    BY <1>2, <1>3, <1>8, <1>11, <2>1, <2>2, <2>3 DEF ContInv, ContTypes
<1>15. Stacked'
  <2>1. IF curdata' = NoCont THEN taskdepth' = 0
        ELSE mydepth'[curdata'] > 0 /\ mydepth'[curdata'] = taskdepth'
    BY <1>2, <1>3, <1>9, <1>11, <1>12
  <2>2. ASSUME NEW d \in Cont PROVE mydepth'[d] <= taskdepth'
    <3>1. CASE d = c
      BY <1>2, <1>3, <1>9, <3>1
    <3>2. CASE d # c
      <4>1. mydepth[d] \in Nat /\ mydepth[d] <= taskdepth
        BY DEF ContInv, ContTypes, Stacked
      <4>2. mydepth[d] # taskdepth
        BY <1>3, <3>2, <4>1 DEF ContInv, Stacked
      <4> QED
        BY <1>2, <1>3, <1>9, <3>2, <4>1, <4>2
    <3> QED
      BY <3>1, <3>2
  <2>3. \A d, e \in Cont : mydepth'[d] > 0 /\ mydepth'[d] = mydepth'[e] => d = e
    BY <1>9 DEF ContInv, Stacked
  <2> QED
    BY <2>1, <2>2, <2>3 DEF Stacked
<1>16. Called'
  <2>1. ASSUME NEW p \in Place, calling'[p] # NoCont PROVE Caller(p)'
    <3>1. p # exec /\ calling'[p] = calling[p] /\ calling[p] \in Cont /\ calling[p] # c
      BY <1>13, <2>1
    <3>2. Caller(p) /\ olddata'[p] = olddata[p] /\ mydepth'[calling[p]] = mydepth[calling[p]]
      BY <1>9, <1>10, <2>1, <3>1 DEF ContInv, Called
    <3>3. CASE p = Top
      BY <1>2, <3>1, <3>2, <3>3 DEF Caller
    <3>4. CASE p # Top
      <4>1. /\ olddata[p] \in Cont /\ task[olddata[p]] = p
            /\ mydepth[olddata[p]] > 0 /\ mydepth[calling[p]] = mydepth[olddata[p]] + 1
        BY <3>2, <3>4 DEF Caller, ContInv, ContTypes
      <4>2. mydepth[calling[p]] <= taskdepth /\ mydepth[olddata[p]] \in Nat
        BY <3>1, <4>1 DEF ContInv, Stacked, ContTypes
      <4>3. olddata[p] # c
        BY <1>3, <4>1, <4>2
      <4>4. task'[olddata[p]] = task[olddata[p]] /\ mydepth'[olddata[p]] = mydepth[olddata[p]]
        BY <1>8, <1>9, <4>1, <4>3
      <4> QED
        BY <1>2, <3>1, <3>2, <3>4, <4>1, <4>4 DEF Caller
    <3> QED
      BY <3>3, <3>4
  <2>2. ASSUME NEW d \in Cont, mydepth'[d] > 0
        PROVE  /\ d # c /\ mydepth[d] > 0 /\ task'[d] = task[d]
               /\ \E p \in Place : calling'[p] = d
    <3>1. d # c
      BY <1>9, <2>2
    <3>2. mydepth[d] > 0 /\ task'[d] = task[d]
      BY <1>8, <1>9, <2>2, <3>1
    <3>3. PICK p \in Place : calling[p] = d
      BY <3>2 DEF ContInv, Called
    <3>4. p # exec
      BY <3>1, <3>3 DEF c
    <3> QED
      BY <1>10, <3>1, <3>2, <3>3, <3>4
  <2>3. \A p, q \in Place : calling'[p] # NoCont /\ calling'[p] = calling'[q] => p = q
    <3> SUFFICES ASSUME NEW p \in Place, NEW q \in Place,
                        calling'[p] # NoCont, calling'[p] = calling'[q]
                 PROVE  p = q
      OBVIOUS
    <3>1. calling'[p] = calling[p] /\ calling'[q] = calling[q]
      BY <1>13
    <3> QED
      BY <3>1 DEF ContInv, Called
  <2>4. \A d \in Cont : mydepth'[d] > 0 => task'[d] # Top
    BY <2>2 DEF ContInv, Called
  <2>5. ASSUME NEW d \in Cont, mydepth'[d] > 0, d # curdata'
        PROVE  running'[task'[d]] /\ calling'[task'[d]] # NoCont
    <3>1. d # c /\ mydepth[d] > 0 /\ task'[d] = task[d]
      BY <2>2, <2>5
    <3>2. running[task[d]] /\ calling[task[d]] # NoCont /\ task[d] \in Place /\ task[d] # Top
      BY <1>3, <3>1 DEF ContInv, Called, ContTypes
    <3>3. task[d] # exec
      <4>1. CASE exec = Top
        BY <3>2, <4>1
      <4>2. CASE exec # Top
        <5>1. d # d0 /\ d0 \in Cont /\ task[d0] = exec
          BY <1>2, <1>12, <2>5, <4>2
        <5> QED
          BY <3>2, <5>1 DEF ContInv, Pooled
      <4> QED
        BY <4>1, <4>2
    <3> QED
      BY <1>8, <1>10, <3>1, <3>2, <3>3
  <2>6. curdata' # NoCont => calling'[Top] # NoCont
    BY <1>2, <1>3, <1>10, <1>12, TaskNumbers DEF ContInv, Called
  <2> QED
    BY <2>1, <2>2, <2>3, <2>4, <2>5, <2>6 DEF Called
<1>17. Processor'
  <2>1. exec = Top <=> d0 = NoCont
    BY <1>12
  <2>2. exec # Top => task'[d0] = exec /\ running'[exec]
    <3> SUFFICES ASSUME exec # Top PROVE task'[d0] = exec /\ running'[exec]
      OBVIOUS
    <3>1. d0 \in Cont /\ task[d0] = exec /\ mydepth[d0] > 0
      BY <1>12
    <3>2. running[exec]
      BY <1>3, <1>11, <3>1 DEF ContInv, Called
    <3> QED
      BY <1>8, <1>11, <3>1, <3>2
  <2>3. ASSUME NEW t \in Task, saved'[t] = "run"
        PROVE  calling'[t] # NoCont \/ exec' = t
    <3>1. calling[t] # NoCont
      BY <1>1, <1>2, <2>3 DEF ContInv, Processor, User
    <3> QED
      BY <1>2, <1>10, <3>1 DEF Place
  <2> QED
    BY <1>2, <2>1, <2>2, <2>3 DEF Processor, User
<1>18. Counted'
  <2>1. ASSUME NEW p \in Place, calling'[p] # NoCont
        PROVE  /\ links'[calling'[p]] >= IF dropping'[p] THEN 2 ELSE 1
               /\ dropping'[p] => finishing'[calling'[p]]
               /\ finishing'[calling'[p]] =>
                    links'[calling'[p]] = IF dropping'[p] THEN 2 ELSE 1
    <3>1. p # exec /\ calling'[p] = calling[p] /\ calling[p] \in Cont /\ calling[p] # c
      BY <1>13, <2>1
    <3>2. /\ links'[calling[p]] = links[calling[p]] /\ dropping'[p] = dropping[p]
          /\ finishing'[calling[p]] = finishing[calling[p]]
      BY <1>8, <1>9, <1>10, <3>1
    <3> QED
      BY <2>1, <3>1, <3>2 DEF ContInv, Counted
  <2>2. \A p \in Place : dropping'[p] => calling'[p] # NoCont
    BY <1>10 DEF ContInv, Counted
  <2>3. \A d \in Cont : finishing'[d] => mydepth'[d] > 0
    BY <1>8, <1>9 DEF ContInv, Counted
  <2>4. \A d \in Cont : links'[d] = 0 => task'[d] = Top /\ mydepth'[d] = 0
    BY <1>8, <1>9 DEF ContInv, Counted
  <2> QED
    BY <2>1, <2>2, <2>3, <2>4 DEF Counted
<1> QED
  BY <1>8, <1>14, <1>15, <1>16, <1>17, <1>18 DEF ContInv

----------------------------------------------------------------------------
LEMMA ContStarts ==
  ContInit => ContInv
<1> SUFFICES ASSUME ContInit PROVE ContInv
  OBVIOUS
<1> USE DEF ContInit
<1>1. ContTypes
  BY TaskNumbers DEF ContTypes
<1>2. Stacked /\ Counted /\ Pooled
  BY DEF Stacked, Counted, Pooled
<1>3. Called
  BY ContAssumption DEF Called
<1>4. Processor
  BY TaskNumbers DEF Processor, User
<1> QED
  BY <1>1, <1>2, <1>3, <1>4 DEF ContInv

LEMMA ContStands ==
  ASSUME ContInv, UNCHANGED contvars
  PROVE  ContInv'
<1> USE DEF contvars, taskvars, datavars
<1>1. ContTypes'
  BY DEF ContInv, ContTypes
<1>2. Stacked' /\ Counted' /\ Pooled'
  BY DEF ContInv, Stacked, Counted, Pooled
<1>3. Called'
  BY DEF ContInv, Called, Caller
<1>4. Processor'
  BY DEF ContInv, Processor, User
<1> QED
  BY <1>1, <1>2, <1>3, <1>4 DEF ContInv

(* The calls are a stack, the processor is in it where it should be, and   *)
(* links and tasks are accounted for.                                      *)
THEOREM ContInvariance == ContSpec => []ContInv
<1>1. ContInv /\ [ContNext]_contvars => ContInv'
  <2> SUFFICES ASSUME ContInv, [ContNext]_contvars
               PROVE  ContInv'
    OBVIOUS
  <2>1. ASSUME NEW c \in Cont, construct(c) PROVE ContInv'
    BY <2>1, ConstructKeeps
  <2>2. ASSUME NEW c \in Cont, copy(c) PROVE ContInv'
    BY <2>2, CopyKeeps
  <2>3. ASSUME NEW c \in Cont, call(c) PROVE ContInv'
    BY <2>3, CallKeeps
  <2>4. ASSUME NEW c \in Cont, drop(c) PROVE ContInv'
    BY <2>4, DropKeeps
  <2>5. CASE yield
    <3>1. /\ User /\ exec # Top /\ YieldTo("yield") /\ running' = running
          /\ UNCHANGED <<made, free, datavars, calling, olddata, dropping>>
      BY <2>5 DEF yield
    <3> QED
      BY <3>1, YieldKeeps
  <2>6. CASE return
    <3>1. /\ User /\ exec # Top /\ YieldTo("idle")
          /\ running' = [running EXCEPT ![exec] = FALSE]
          /\ UNCHANGED <<made, free, datavars, calling, olddata, dropping>>
      BY <2>6 DEF return
    <3> QED
      BY <3>1, YieldKeeps
  <2>7. CASE resume
    BY <2>7, ResumeKeeps
  <2>8. CASE loop
    BY <2>8, LoopKeeps
  <2>9. CASE call_returns
    BY <2>9, CallReturnsKeeps
  <2>10. CASE UNCHANGED contvars
    BY <2>10, ContStands
  <2> QED
    BY <2>1, <2>2, <2>3, <2>4, <2>5, <2>6, <2>7, <2>8, <2>9, <2>10 DEF ContNext
<1> QED
  BY <1>1, ContStarts, PTL DEF ContSpec

(* Semi-coroutines: the continuation that runs is the one called last, so  *)
(* that yield() and return give control back to its caller; no two share a *)
(* task, and none that is free is in use; a function that was started      *)
(* belongs to a continuation, and one whose last handle is dropped is run  *)
(* to its end before control is back at the top level.                     *)
THEOREM ContsAreInStep == ContSpec => []ContsInStep
<1>1. ContInv => ContsInStep
  <2> SUFFICES ASSUME ContInv PROVE ContsInStep
    OBVIOUS
  <2>1. ContTypeOK
    BY DEF ContInv, ContTypes, Pooled, ContTypeOK
  <2>2. Innermost
    BY ContAssumption DEF ContInv, Processor, Stacked, Innermost, Depth
  <2>3. TasksApart
    <3>1. \A t \in free : t \in Task
      BY DEF ContInv, ContTypes
    <3> QED
      BY <3>1 DEF ContInv, Pooled, TasksApart
  <2>4. NoOrphans
    <3> SUFFICES ASSUME NEW t \in Task, running[t]
                 PROVE  \E c \in Cont : task[c] = t /\ links[c] > 0
      BY DEF NoOrphans
    <3>1. PICK c \in Cont : task[c] = t
      BY DEF ContInv, Pooled
    <3>2. links[c] \in Nat /\ links[c] # 0
      BY <3>1, TaskNumbers DEF ContInv, ContTypes, Counted
    <3> QED
      BY <3>1, <3>2
  <2>5. DropFinishes
    <3> SUFFICES ASSUME User, exec = Top, NEW c \in Cont
                 PROVE  ~finishing[c] /\ mydepth[c] = 0
      BY DEF DropFinishes
    <3>1. taskdepth = 0
      BY DEF ContInv, Processor, Stacked
    <3>2. mydepth[c] \in Nat /\ mydepth[c] <= 0
      BY <3>1 DEF ContInv, ContTypes, Stacked
    <3> QED
      BY <3>2 DEF ContInv, Counted
  <2> QED
    BY <2>1, <2>2, <2>3, <2>4, <2>5 DEF ContsInStep
<1> QED
  BY <1>1, ContInvariance, PTL
=============================================================================
