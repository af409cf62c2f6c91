-------------------------- MODULE UniConfProtocol --------------------------
(***************************************************************************)
(* The UniConf wire protocol: UniClientGen and UniClientConn on the client *)
(* side, one UniConfDaemonConn per client on the daemon side, a FIFO byte  *)
(* stream each way between them, and the daemon's one tree.                *)
(*                                                                         *)
(* Messages carry no request ids.  A client that issued a request waits in *)
(* do_select() for "the" completion reply (OK, FAIL, CHILD, ONEVAL), while *)
(* NOTICE events about anybody's changes arrive on the same stream and are *)
(* held until the wait is over.  Callbacks run when the last hold is       *)
(* released, inside do_select(), and may issue requests of their own.      *)
(*                                                                         *)
(* A client is one thread: stack[c] is its stack of UniClientGen calls,    *)
(* one hold_delta each.  The daemon is one thread, too; do_subtree and     *)
(* do_remove give up their timeslice (continue_select) between entries, so *)
(* commands of other connections run in between.                           *)
(***************************************************************************)
EXTENDS UniConfTree

CONSTANTS
  Client,       \* the client processes
  Op,           \* the generator operations each client uses in this instance
  CallbackOp,   \* those of them callbacks use as well
  InitTree,     \* what the daemon has loaded when the clients connect
  MaxReq,       \* bound: requests each client issues
  Failures      \* clients whose connections may time out or break

ASSUME ProtocolAssumption ==
  /\ Op \in [Client -> SUBSET {"get", "hchild", "subt", "commit", "set", "setv", "quit"}]
  /\ \A c \in Client : CallbackOp \subseteq Op[c]
  /\ InitTree \in Tree /\ PrefixClosed(InitTree)
  /\ MaxReq \in [Client -> Nat]
  /\ Failures \subseteq Client

VARIABLES
  tree,           \* the daemon's configuration tree
  attached,       \* clients the daemon has a connection object for
  task,           \* what the coroutine of each connection object is doing
  c2s,            \* requests on their way to the daemon
  s2c,            \* replies and events on their way to the client
  up,             \* clients whose conn->isok()
  stack,          \* calls in progress in each client, innermost last
  cmdinprogress,  \* UniClientGen::cmdinprogress
  cmdsuccess,     \* UniClientGen::cmdsuccess
  result_key,     \* UniClientGen::result_key, Null if none
  result,         \* UniClientGen::result
  result_list,    \* UniClientGen::result_list, NoList if NULL
  version,        \* UniClientGen::version
  deltas,         \* notifications the client holds back
  told,           \* what the client's callback was told of the tree
  nreq,           \* requests each client has issued
  answer          \* history: what the daemon made of each request, in order

daemonvars == <<tree, attached, task>>
resultvars == <<cmdinprogress, cmdsuccess, result_key, result, result_list>>
clientvars == <<up, stack, version, deltas, told, nreq>>
vars == <<daemonvars, c2s, s2c, resultvars, clientvars, answer>>

PROTOCOL_VERSION == 19
NoList == {<<Null, Null>>}
Idle == [kind |-> "idle"]

Msg(type, key, value) == [type |-> type, key |-> key, value |-> value]
Request(op, key, value) == [op |-> op, key |-> key, value |-> value]

(* The requests a client waits for; the others have no reply.              *)
Replying == {"get", "hchild", "subt", "commit"}

Init ==
  /\ tree = InitTree
  /\ attached = Client
  /\ task = [c \in Client |-> Idle]
  /\ c2s = [c \in Client |-> <<>>]
  /\ s2c = [c \in Client |-> <<Msg("HELLO", Root, Null)>>]
  /\ up = Client
  /\ stack = [c \in Client |-> <<>>]
  /\ cmdinprogress = [c \in Client |-> FALSE]
  /\ cmdsuccess = [c \in Client |-> FALSE]
  /\ result_key = [c \in Client |-> Null]
  /\ result = [c \in Client |-> Null]
  /\ result_list = [c \in Client |-> NoList]
  /\ version = [c \in Client |-> 0]
  /\ deltas = [c \in Client |-> <<>>]
  /\ told = [c \in Client |-> InitTree]
  /\ nreq = [c \in Client |-> 0]
  /\ answer = [c \in Client |-> <<>>]

----------------------------------------------------------------------------
(* The client.                                                             *)

Top(c) == stack[c][Len(stack[c])]

SetTop(c, f) == stack' = [stack EXCEPT ![c] = [@ EXCEPT ![Len(@)] = f]]

(* The phases of a call: "wait", reading the connection under a hold;      *)
(* "callback", in a callback called from the flush_delta loop of the last  *)
(* unhold_delta.  rest: pairs setv has yet to set.                         *)
Frame(op, key, id, rest) ==
  [op |-> op, key |-> key, id |-> id, rest |-> rest, phase |-> "wait"]

(* A client calls its generator from its main loop or from a callback.     *)
CanCall(c, op) ==
  /\ c \in up
  /\ IF stack[c] = <<>> THEN op \in Op[c]
                        ELSE Top(c).phase = "callback" /\ op \in CallbackOp

Write(c, reqs) ==
  /\ nreq[c] + Len(reqs) <= MaxReq[c]
  /\ nreq' = [nreq EXCEPT ![c] = @ + Len(reqs)]
  /\ c2s' = [c2s EXCEPT ![c] = @ \o reqs]

Push(c, f) == stack' = [stack EXCEPT ![c] = Append(@, f)]

(* do_select() begins: hold_delta, and the flags are reset.                *)
do_select(c, f) ==
  /\ Push(c, f)
  /\ cmdinprogress' = [cmdinprogress EXCEPT ![c] = TRUE]
  /\ cmdsuccess' = [cmdsuccess EXCEPT ![c] = FALSE]

(* get, haschildren, commit and refresh: write the request, then wait.     *)
request(c, op, k) ==
  /\ CanCall(c, op)
  /\ Write(c, <<Request(op, k, Null)>>)
  /\ do_select(c, Frame(op, k, nreq'[c], <<>>))
  /\ UNCHANGED <<daemonvars, s2c, result_key, result, result_list, up, version,
                 deltas, told, answer>>

(* do_iterator, which asserts that no other result list is being filled.   *)
iterator(c, k) ==
  /\ CanCall(c, "subt")
  /\ result_list[c] = NoList
  /\ result_list' = [result_list EXCEPT ![c] = {}]
  /\ Write(c, <<Request("subt", k, Null)>>)
  /\ do_select(c, Frame("subt", k, nreq'[c], <<>>))
  /\ UNCHANGED <<daemonvars, s2c, result_key, result, up, version, deltas, told,
                 answer>>

SetRequest(k, v) == Request(IF v = Null THEN "del" ELSE "set", k, v)

(* set: the request has no reply; flush_buffers reads what has come in.    *)
(* setv towards a daemon without SETV sets the pairs p one by one.         *)
set(c, op, p) ==
  /\ CanCall(c, op)
  /\ op = "setv" => version[c] < PROTOCOL_VERSION
  /\ nreq[c] + Len(p) <= MaxReq[c]
  /\ Write(c, <<SetRequest(p[1][1], p[1][2])>>)
  /\ Push(c, Frame("set", p[1][1], nreq'[c], Tail(p)))
  /\ UNCHANGED <<daemonvars, s2c, resultvars, up, version, deltas, told, answer>>

set_next(c) ==
  /\ c \in up
  /\ stack[c] # <<>>
  /\ Top(c).phase = "wait"
  /\ Top(c).rest # <<>>
  /\ LET p == Head(Top(c).rest)
     IN Write(c, <<SetRequest(p[1], p[2])>>)
  /\ SetTop(c, [Top(c) EXCEPT !.rest = Tail(@)])
  /\ UNCHANGED <<daemonvars, s2c, resultvars, up, version, deltas, told, answer>>

(* setv towards a daemon that announced SETV: one SETV per pair, one more  *)
(* to end the list, and nothing is read.                                   *)
setv(c, p, q) ==
  /\ CanCall(c, "setv")
  /\ version[c] >= PROTOCOL_VERSION
  /\ Write(c, <<Request("setv", p[1], p[2]), Request("setv", q[1], q[2]),
                Request("setv", Root, Null)>>)
  /\ UNCHANGED <<daemonvars, s2c, resultvars, up, stack, version, deltas, told,
                 answer>>

(* ~UniClientGen, from the main loop.                                      *)
quit(c) ==
  /\ CanCall(c, "quit")
  /\ stack[c] = <<>>
  /\ Write(c, <<Request("quit", Root, Null)>>)
  /\ up' = up \ {c}
  /\ UNCHANGED <<daemonvars, s2c, resultvars, stack, version, deltas, told,
                 answer>>

(* The connection is read by the main loop, by do_select while a command   *)
(* is in progress, and by flush_buffers.                                   *)
Reads(c) ==
  /\ c \in up
  /\ stack[c] # <<>> =>
       /\ Top(c).phase = "wait"
       /\ Top(c).op \in Replying => cmdinprogress[c]

Complete(c, ok) ==
  /\ cmdinprogress' = [cmdinprogress EXCEPT ![c] = FALSE]
  /\ cmdsuccess' = [cmdsuccess EXCEPT ![c] = ok]

(* conncallback on message m.                                              *)
on_hello(c, m) ==
  /\ m.type = "HELLO"
  /\ version' = [version EXCEPT ![c] = PROTOCOL_VERSION]
  /\ UNCHANGED <<resultvars, deltas, told>>

on_ok(c, m) ==
  /\ m.type = "OK"
  /\ Complete(c, TRUE)
  /\ UNCHANGED <<result_key, result, result_list, version, deltas, told>>

on_fail(c, m) ==
  /\ m.type = "FAIL"
  /\ Complete(c, FALSE)
  /\ result_key' = [result_key EXCEPT ![c] = Null]
  /\ UNCHANGED <<result, result_list, version, deltas, told>>

on_value(c, m) ==
  /\ m.type \in {"CHILD", "ONEVAL"}
  /\ Complete(c, TRUE)
  /\ result_key' = [result_key EXCEPT ![c] = m.key]
  /\ result' = [result EXCEPT ![c] = m.value]
  /\ UNCHANGED <<result_list, version, deltas, told>>

on_part(c, m) ==
  /\ m.type = "VAL"
  /\ result_list' = [result_list EXCEPT ![c] =
                       IF @ = NoList THEN @ ELSE @ \union {<<m.key, m.value>>}]
  /\ UNCHANGED <<cmdinprogress, cmdsuccess, result_key, result, version, deltas, told>>

(* delta(): queued under a hold, dispatched at once otherwise.             *)
on_notice(c, m) ==
  /\ m.type = "NOTICE"
  /\ IF stack[c] = <<>>
       THEN /\ told' = [told EXCEPT ![c][m.key] = m.value]
            /\ UNCHANGED deltas
       ELSE /\ deltas' = [deltas EXCEPT ![c] = Append(@, m)]
            /\ UNCHANGED told
  /\ UNCHANGED <<resultvars, version>>

conncallback(c) ==
  /\ Reads(c)
  /\ s2c[c] # <<>>
  /\ LET m == Head(s2c[c])
     IN \/ on_hello(c, m)
        \/ on_ok(c, m)
        \/ on_fail(c, m)
        \/ on_value(c, m)
        \/ on_part(c, m)
        \/ on_notice(c, m)
  /\ s2c' = [s2c EXCEPT ![c] = Tail(@)]
  /\ UNCHANGED <<daemonvars, c2s, up, stack, nreq, answer>>

(* The loop of do_select or flush_buffers is over, and unhold_delta is     *)
(* called; or it has called a callback, which returns.                     *)
Unholding(c) ==
  /\ stack[c] # <<>>
  /\ \/ Top(c).phase = "callback"
     \/ c \notin up
     \/ Top(c).op \in Replying /\ ~cmdinprogress[c]
     \/ Top(c).op \notin Replying /\ Top(c).rest = <<>>

(* The last unhold_delta dispatches the first delta it finds.              *)
flush_delta(c) ==
  /\ Unholding(c)
  /\ Len(stack[c]) = 1
  /\ deltas[c] # <<>>
  /\ LET d == Head(deltas[c]) IN told' = [told EXCEPT ![c][d.key] = d.value]
  /\ deltas' = [deltas EXCEPT ![c] = Tail(@)]
  /\ SetTop(c, [Top(c) EXCEPT !.phase = "callback"])
  /\ UNCHANGED <<daemonvars, c2s, s2c, resultvars, up, version, nreq, answer>>

(* What the call returns to its caller, read from the result fields now.   *)
ReturnValue(c) ==
  LET f == Top(c)
      mine == cmdsuccess[c] /\ result_key[c] = f.key
  IN CASE f.op = "get"    -> IF mine THEN result[c] ELSE Null
       [] f.op = "hchild" -> IF mine /\ result[c] = "TRUE" THEN "TRUE" ELSE "FALSE"
       [] f.op = "commit" -> IF cmdsuccess[c] THEN "OK" ELSE "FAIL"
       [] f.op = "subt"   -> IF cmdsuccess[c] THEN result_list[c] ELSE NoList

(* Mutant of return: the call returns with deltas still queued.            *)
ReturnUnflushed(c) ==
  /\ Unholding(c)
  /\ stack' = [stack EXCEPT ![c] = SubSeq(@, 1, Len(@) - 1)]
  /\ result_list' = [result_list EXCEPT ![c] = IF Top(c).op = "subt" THEN NoList ELSE @]
  /\ UNCHANGED <<daemonvars, c2s, s2c, cmdinprogress, cmdsuccess, result_key, result,
                 up, version, deltas, told, nreq, answer>>

(* The call returns; the hold of a nested call is not the last one.        *)
return(c) ==
  /\ Unholding(c)
  /\ Len(stack[c]) > 1 \/ deltas[c] = <<>>
  /\ stack' = [stack EXCEPT ![c] = SubSeq(@, 1, Len(@) - 1)]
  /\ result_list' = [result_list EXCEPT ![c] = IF Top(c).op = "subt" THEN NoList ELSE @]
  /\ UNCHANGED <<daemonvars, c2s, s2c, cmdinprogress, cmdsuccess, result_key, result,
                 up, version, deltas, told, nreq, answer>>

(* do_select gives up: the connection is closed, so that a late reply      *)
(* cannot be taken for the reply to a later command.                       *)
timeout(c) ==
  /\ c \in Failures
  /\ c \in up
  /\ stack[c] # <<>>
  /\ Top(c).phase = "wait"
  /\ Top(c).op \in Replying
  /\ cmdinprogress[c]
  /\ Complete(c, FALSE)
  /\ up' = up \ {c}
  /\ UNCHANGED <<daemonvars, c2s, s2c, result_key, result, result_list, stack, version,
                 deltas, told, nreq, answer>>

(* The daemon closed its end and everything it sent has been read.         *)
eof(c) ==
  /\ c \in up \ attached
  /\ s2c[c] = <<>>
  /\ up' = up \ {c}
  /\ UNCHANGED <<daemonvars, c2s, s2c, resultvars, stack, version, deltas, told, nreq,
                 answer>>

----------------------------------------------------------------------------
(* The daemon.                                                             *)

(* deltacallback of every connection object: one NOTICE per changed key,   *)
(* carrying the key's value in the tree as it is now.                      *)
Notices(s, t) == [i \in DOMAIN s |-> Msg("NOTICE", s[i], t[s[i]])]

(* Mutant of Publish: the client that made the change is not notified.     *)
PublishToOthers(c, t, s, replies) ==
  /\ tree' = t
  /\ s2c' = [d \in Client |->
               IF d \notin attached \intersect up THEN s2c[d]
               ELSE IF d = c THEN s2c[d] \o replies ELSE s2c[d] \o Notices(s, t)]

(* The tree becomes t with notices in the order s; then connection c sends *)
(* its replies.  What is written to a client that is gone is lost.         *)
Publish(c, t, s, replies) ==
  /\ tree' = t
  /\ s2c' = [d \in Client |->
               IF d \in attached \intersect up
                 THEN s2c[d] \o Notices(s, t) \o (IF d = c THEN replies ELSE <<>>)
                 ELSE s2c[d]]

Reply(c, msg) == Publish(c, tree, <<>>, <<msg>>)

Answer(c, a) == answer' = [answer EXCEPT ![c] = Append(@, a)]

(* execute() reads the next command of connection c, its coroutine being   *)
(* at the top of execute().                                                *)
Reading(c, op) ==
  /\ c \in attached
  /\ task[c] = Idle
  /\ c2s[c] # <<>>
  /\ Head(c2s[c]).op = op
  /\ c2s' = [c2s EXCEPT ![c] = Tail(@)]
  /\ UNCHANGED <<resultvars, clientvars>>

Arg(c) == Head(c2s[c])

do_get(c) ==
  /\ Reading(c, "get")
  /\ LET k == Arg(c).key
     IN /\ Reply(c, IF Exists(tree, k) THEN Msg("ONEVAL", k, tree[k])
                                       ELSE Msg("FAIL", Root, Null))
        /\ Answer(c, tree[k])
  /\ UNCHANGED <<attached, task>>

do_haschildren(c) ==
  /\ Reading(c, "hchild")
  /\ LET k == Arg(c).key
         has == IF HasChildren(tree, k) THEN "TRUE" ELSE "FALSE"
     IN Reply(c, Msg("CHILD", k, has)) /\ Answer(c, has)
  /\ UNCHANGED <<attached, task>>

(* do_commit, and do_refresh of a generator whose refresh succeeds.        *)
do_commit(c) ==
  /\ Reading(c, "commit")
  /\ Reply(c, Msg("OK", Root, Null))
  /\ Answer(c, "OK")
  /\ UNCHANGED <<attached, task>>

(* Mutant of do_set: an OK is sent, as the table of commands has it.       *)
DoSetReplies(c) ==
  /\ Reading(c, "set")
  /\ LET t == Stored(tree, Arg(c).key, Arg(c).value)
     IN \E s \in TopDown(Changed(tree, t)) :
          Publish(c, t, s, <<Msg("OK", Root, Null)>>)
  /\ Answer(c, "none")
  /\ UNCHANGED <<attached, task>>

do_set(c) ==
  /\ Reading(c, "set")
  /\ LET t == Stored(tree, Arg(c).key, Arg(c).value)
     IN \E s \in TopDown(Changed(tree, t)) : Publish(c, t, s, <<>>)
  /\ Answer(c, "none")
  /\ UNCHANGED <<attached, task>>

(* execute() has no case for SETV.                                         *)
do_invalid(c) ==
  /\ Reading(c, "setv")
  /\ Reply(c, Msg("FAIL", Root, Null))
  /\ Answer(c, "FAIL")
  /\ UNCHANGED <<attached, task>>

do_quit(c) ==
  /\ Reading(c, "quit")
  /\ Reply(c, Msg("OK", Root, Null))
  /\ Answer(c, "none")
  /\ attached' = attached \ {c}
  /\ UNCHANGED task

Removing(levels, e) == [kind |-> "del", levels |-> levels, entered |-> e]

(* Mutant of RemoveEntry: the emptied section goes unannounced.            *)
RemoveSectionUnannounced(c, e) ==
  LET t == Removed(tree, e)
      u == IF HasChildren(t, Parent(e)) THEN t ELSE Removed(t, Parent(e))
  IN \E s \in BottomUp(Changed(tree, t)) : Publish(c, u, s, <<>>)

(* One turn of the loop of do_remove: remove an entry with all below it,   *)
(* and the section it was in once that has no children.                    *)
RemoveEntry(c, e) ==
  LET t == Removed(tree, e)
      u == IF HasChildren(t, Parent(e)) THEN t ELSE Removed(t, Parent(e))
  IN \E s \in BottomUp(Changed(tree, u)) : Publish(c, u, s, <<>>)

(* The turns of one loop are not atomic: the coroutine gives up its        *)
(* timeslice after every CONTINUE_SELECT_AT of them, any of them here.     *)
RemoveTurn(c, walk) ==
  \E e \in walk[Len(walk)] :
    /\ RemoveEntry(c, e)
    /\ task' = [task EXCEPT ![c] = Removing(WalkPast(walk, e), e)]

do_remove(c) ==
  /\ Reading(c, "del")
  /\ LET k == Arg(c).key
     IN IF HasChildren(tree, k)
          THEN RemoveTurn(c, <<Existing(tree, k)>>)
          ELSE /\ \E s \in BottomUp(Changed(tree, Removed(tree, k))) :
                    Publish(c, Removed(tree, k), s, <<>>)
               /\ UNCHANGED task
  /\ Answer(c, "none")
  /\ UNCHANGED attached

Walk(c) == WalkOn(tree, task[c].levels, task[c].entered)

continue_remove(c) ==
  /\ c \in attached
  /\ task[c].kind = "del"
  /\ IF Walk(c) = <<>>
       THEN /\ task' = [task EXCEPT ![c] = Idle]
            /\ UNCHANGED <<tree, s2c>>
       ELSE RemoveTurn(c, Walk(c))
  /\ UNCHANGED <<attached, c2s, resultvars, clientvars, answer>>

(* The rest of the loop in one go, deepest level first.                    *)
RemoveLevel(L, t) ==
  LET u == [k \in Key |-> IF \E e \in L : k \in Subtree(e) THEN Null ELSE t[k]]
      sections == {Parent(e) : e \in L}
  IN [k \in Key |-> IF \E p \in sections : k \in Subtree(p) /\ ~HasChildren(u, p)
                      THEN Null ELSE u[k]]

RemoveRest(c) ==
  LET levels == Walk(c)
      after[n \in 0 .. Len(levels)] ==
        IF n = 0 THEN tree ELSE RemoveLevel(levels[Len(levels) + 1 - n], after[n - 1])
  IN after[Len(levels)]

(* Mutant of SendValue: the value is fetched when the timeslice comes.     *)
SendLiveValue(c, e, todo) ==
  /\ Reply(c, Msg("VAL", e[1], tree[e[1]]))
  /\ task' = [task EXCEPT ![c] = [kind |-> "subt", todo |-> todo]]

(* do_subtree lists the children k had when the command was read, one VAL  *)
(* per timeslice, and then sends its OK.                                   *)
SendValue(c, e, todo) ==
  /\ Reply(c, Msg("VAL", e[1], e[2]))
  /\ task' = [task EXCEPT ![c] = [kind |-> "subt", todo |-> todo]]

do_subtree(c) ==
  /\ Reading(c, "subt")
  /\ LET k == Arg(c).key
         list == {<<e, tree[e]>> : e \in Existing(tree, k)}
     IN IF Exists(tree, k)
          THEN /\ Answer(c, list)
               /\ IF list = {}
                    THEN Reply(c, Msg("OK", Root, Null)) /\ UNCHANGED task
                    ELSE \E e \in list : SendValue(c, e, list \ {e})
          ELSE /\ Answer(c, NoList)
               /\ Reply(c, Msg("FAIL", Root, Null))
               /\ UNCHANGED task
  /\ UNCHANGED attached

(* Mutant of continue_subtree: the listing ends without an OK.             *)
SubtreeEndsSilently(c) ==
  /\ c \in attached
  /\ task[c].kind = "subt"
  /\ IF task[c].todo = {}
       THEN /\ task' = [task EXCEPT ![c] = Idle]
            /\ UNCHANGED <<tree, s2c>>
       ELSE \E e \in task[c].todo : SendValue(c, e, task[c].todo \ {e})
  /\ UNCHANGED <<attached, c2s, resultvars, clientvars, answer>>

continue_subtree(c) ==
  /\ c \in attached
  /\ task[c].kind = "subt"
  /\ IF task[c].todo = {}
       THEN /\ Reply(c, Msg("OK", Root, Null))
            /\ task' = [task EXCEPT ![c] = Idle]
       ELSE \E e \in task[c].todo : SendValue(c, e, task[c].todo \ {e})
  /\ UNCHANGED <<attached, c2s, resultvars, clientvars, answer>>

(* Mutant of FinishTask: the coroutine is thrown away with its object.     *)
DropTask(c) == UNCHANGED <<tree, s2c>>

(* ~WvCont resumes the coroutine until it returns.  The connection being   *)
(* closed, do_subtree breaks off and do_remove runs to its end; the other  *)
(* connections are notified.                                               *)
FinishTask(c) ==
  LET t == IF task[c].kind = "del" THEN RemoveRest(c) ELSE tree
  IN \E s \in BottomUp(Changed(tree, t)) :
       /\ tree' = t
       /\ s2c' = [d \in Client |-> IF d \in (attached \intersect up) \ {c}
                                     THEN s2c[d] \o Notices(s, t) ELSE s2c[d]]

(* The daemon finds the connection closed, with requests unread perhaps,   *)
(* or the connection breaks: the connection object is destroyed.           *)
detach(c) ==
  /\ c \in attached
  /\ c \notin up \/ c \in Failures
  /\ FinishTask(c)
  /\ attached' = attached \ {c}
  /\ task' = [task EXCEPT ![c] = Idle]
  /\ c2s' = [c2s EXCEPT ![c] = <<>>]
  /\ UNCHANGED <<resultvars, clientvars, answer>>

DaemonStep(c) ==
  \/ do_get(c) \/ do_haschildren(c) \/ do_commit(c) \/ do_set(c)
  \/ do_invalid(c) \/ do_quit(c) \/ do_remove(c) \/ do_subtree(c)
  \/ continue_remove(c) \/ continue_subtree(c)

CallStep(c) ==
  \/ \E k \in Key : request(c, "get", k) \/ request(c, "hchild", k) \/ iterator(c, k)
  \/ request(c, "commit", Root)
  \/ \E k \in Key, v \in Value \union {Null} : set(c, "set", <<<<k, v>>>>)
  \/ \E k, l \in Key, v, w \in Value :
        \/ set(c, "setv", <<<<k, v>>, <<l, w>>>>)
        \/ setv(c, <<k, v>>, <<l, w>>)
  \/ quit(c)

(* What the client does without its caller's will.                         *)
ClientStep(c) ==
  conncallback(c) \/ flush_delta(c) \/ return(c) \/ set_next(c)
  \/ eof(c)

Next ==
  \E c \in Client :
    DaemonStep(c) \/ CallStep(c) \/ ClientStep(c) \/ timeout(c) \/ detach(c)

Spec == Init /\ [][Next]_vars

(* The daemon's select loop serves every readable connection and resumes   *)
(* every coroutine; a client that waits reads what comes; a callback that  *)
(* is called returns.                                                      *)
FairSpec ==
  /\ Spec
  /\ \A c \in Client : WF_vars(DaemonStep(c)) /\ WF_vars(ClientStep(c))

----------------------------------------------------------------------------
Notice == [type : {"NOTICE"}, key : Key, value : Value \union {Null}]

Message ==
  Notice \union [type : {"HELLO", "OK", "FAIL", "CHILD", "ONEVAL", "VAL"}, key : Key,
                 value : Value \union {Null, "TRUE", "FALSE"}]

Pair == Key \X (Value \union {Null})

RequestType ==
  [op : Replying \union {"del", "setv", "quit"}, key : Key, value : Value \union {Null}]
    \union [op : {"set"}, key : Key, value : Value]

FrameType ==
  [op : Replying \union {"set"}, key : Key, id : Nat, rest : Seq(Pair),
   phase : {"wait", "callback"}]

TaskType ==
  {Idle} \union [kind : {"subt"}, todo : SUBSET Pair]
         \union [kind : {"del"}, levels : Seq(SUBSET Key), entered : Key]

(* A callback's call is the innermost one, and a call that waits for a     *)
(* reply sets nothing.                                                     *)
Nested(c) ==
  /\ Len(stack[c]) <= 2
  /\ Len(stack[c]) = 2 => stack[c][1].phase = "callback" /\ stack[c][2].phase = "wait"
  /\ \A i \in DOMAIN stack[c] : stack[c][i].op \in Replying => stack[c][i].rest = <<>>

(* Every variable has its type.                                            *)
TypeOK ==
  /\ tree \in Tree
  /\ attached \subseteq Client /\ up \subseteq Client
  /\ task \in [Client -> TaskType]
  /\ c2s \in [Client -> Seq(RequestType)]
  /\ s2c \in [Client -> Seq(Message)]
  /\ stack \in [Client -> Seq(FrameType)]
  /\ cmdinprogress \in [Client -> BOOLEAN]
  /\ cmdsuccess \in [Client -> BOOLEAN]
  /\ result_key \in [Client -> Key \union {Null}]
  /\ result \in [Client -> Value \union {Null, "TRUE", "FALSE"}]
  /\ result_list \in [Client -> SUBSET ((Key \union {Null}) \X (Value \union {Null, "TRUE", "FALSE"}))]
  /\ version \in [Client -> {0, PROTOCOL_VERSION}]
  /\ deltas \in [Client -> Seq(Notice)]
  /\ told \in [Client -> Tree]
  /\ nreq \in [Client -> Nat]
  /\ DOMAIN answer = Client
  /\ \A c \in Client :
       /\ nreq[c] <= MaxReq[c]
       /\ Len(answer[c]) <= nreq[c]
       /\ Nested(c)

Returns(c) == Len(stack'[c]) < Len(stack[c])

Answered(c) == Top(c).id \in DOMAIN answer[c]

(* The client neither sends SETV, which the daemon answers with a FAIL     *)
(* nobody waits for, nor do its callbacks wait for replies of their own.   *)
Orderly(c) == "setv" \notin Op[c] /\ CallbackOp \intersect Replying = {}

(* A call that waits for a reply returns to its caller what the daemon     *)
(* answered to that very request, unless the connection was lost: replies  *)
(* are matched to requests by order alone (do_select, conncallback).       *)
RepliesMatch ==
  \A c \in Client :
    Returns(c) /\ Top(c).op \in Replying /\ c \in up /\ Orderly(c)
      => Answered(c) /\ ReturnValue(c) = answer[c][Top(c).id]

(* In every step (do_select returns in one of them).                       *)
ReplyMatches == [][RepliesMatch]_vars

(* The same of get, whoever calls it: "Fetches a string value for a key    *)
(* from the registry.  If the key doesn't exist, the return value has      *)
(* .isnull()".                                                             *)
GetReturnsValue ==
  [][\A c \in Client :
       Returns(c) /\ Top(c).op = "get" /\ c \in up
         => Answered(c) /\ ReturnValue(c) = answer[c][Top(c).id]]_vars

Completion == {"OK", "FAIL", "CHILD", "ONEVAL"}

(* Requests whose completion replies are due to the client, and completion *)
(* replies on their way to it.                                             *)
Due(c) == {i \in DOMAIN c2s[c] : c2s[c][i].op \in Replying}

Sent(c) == {i \in DOMAIN s2c[c] : s2c[c][i].type \in Completion}

Outstanding(c) ==
  Cardinality(Due(c)) + Cardinality(Sent(c)) + (IF task[c].kind = "subt" THEN 1 ELSE 0)

Waiting(c) ==
  stack[c] # <<>> /\ Top(c).op \in Replying /\ Top(c).phase = "wait" /\ cmdinprogress[c]

(* Exactly one completion reply is under way to a client that waits for    *)
(* one, and none to a client that does not: a stray reply would be taken   *)
(* for the answer to the next request (SETV, which gets one, apart).       *)
NoStrayReply ==
  \A c \in up \intersect attached :
    "setv" \notin Op[c] => Outstanding(c) = IF Waiting(c) THEN 1 ELSE 0

(* A client whose connection works and which has no NOTICE to read and no  *)
(* delta to dispatch has been told of every change by every client.        *)
ToldConverges ==
  \A c \in up \intersect attached :
    deltas[c] = <<>> /\ (\A i \in DOMAIN s2c[c] : s2c[c][i].type # "NOTICE")
      => told[c] = tree

(* A client is never told of a child without its parent, nor left with one *)
(* by a removal it watches key by key while others set keys below.         *)
ToldPrefixClosed == \A c \in Client : PrefixClosed(told[c])

(* A client that has read its notices was told of every change, and never  *)
(* of a child without its parent.                                          *)
ToldInOrder == TypeOK /\ ToldConverges /\ ToldPrefixClosed

(* A removal that was begun is not left half done: whatever ends it, the   *)
(* client's connection breaking between two entries included, nothing is   *)
(* left of the entries it had yet to remove (~WvCont, do_remove).          *)
RemovalCompleted ==
  [][\A c \in Client :
       task[c].kind = "del" /\ task'[c] = Idle
         => \A i \in DOMAIN task[c].levels :
              \A e \in task[c].levels[i] : ~Exists(tree', e)]_vars

(* When an outermost get returns, callbacks have been told neither more    *)
(* nor less of that key than the value it returns: notices that were sent  *)
(* before the reply are dispatched before the call returns, later ones     *)
(* after it (unless a callback issued requests of its own meanwhile; for   *)
(* replies that stray, see Orderly).                                       *)
GetAgrees ==
  \A c \in Client :
    Returns(c) /\ Len(stack[c]) = 1 /\ Top(c).op = "get" /\ c \in up
       /\ Orderly(c) /\ nreq[c] = Top(c).id
      => told[c][Top(c).key] = ReturnValue(c)

(* In every step (a step of do_select's return is where it could fail).    *)
ToldAgreesWithGet == [][GetAgrees]_vars

(* Every call returns.                                                     *)
CallsReturn == \A c \in Client : stack[c] # <<>> ~> stack[c] = <<>>
============================================================================
