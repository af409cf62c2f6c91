----------------------------- MODULE UniTempGen -----------------------------
(***************************************************************************)
(* UniTempGen, the in-memory generator: a tree of values, changed by set() *)
(* with one delta per changed key, over the notification machinery of      *)
(* UniConfGen.                                                             *)
(***************************************************************************)
EXTENDS UniConfGen

CONSTANT MaxSets   \* bound: number of set() calls in a behaviour

ASSUME BoundAssumption == MaxSets \in Nat

VARIABLES
  tree,   \* the stored tree
  nsets   \* set() calls so far

vars == <<tree, nsets, genvars>>

Init ==
  /\ InitGen
  /\ tree = EmptyTree
  /\ nsets = 0

----------------------------------------------------------------------------
(* set() runs between a hold_delta and an unhold_delta of its own; s lists *)
(* the changed keys in the order of their deltas.                          *)
Change(t, s) ==
  /\ CanCall
  /\ nsets < MaxSets
  /\ nsets' = nsets + 1
  /\ tree' = t
  /\ delta(s, t)
  /\ Unhold(hold_nesting + 1)
  /\ UNCHANGED <<current, running, watchvars>>

(* set(key, value) of a non-null value: the path is walked from the root,  *)
(* each created node announced on the way.                                 *)
set(k, v) ==
  LET t == Stored(tree, k, v)
  IN \E s \in TopDown(Changed(tree, t)) : Change(t, s)

(* set(key, null), with or without a trailing slash: notify_deleted is     *)
(* called for every node of the subtree, children first.                   *)
remove(k) ==
  LET t == Removed(tree, k)
  IN \E s \in BottomUp(Changed(tree, t)) : Change(t, s)

(* set(key/, value), value not null: nothing but the hold and the unhold.  *)
set_trailing_slash == Change(tree, <<>>)

Next ==
  \/ \E k \in Key, v \in Value : set(k, v)
  \/ \E k \in Key : remove(k)
  \/ set_trailing_slash
  \/ NotifyNext(tree) /\ UNCHANGED <<tree, nsets>>

Spec == Init /\ [][Next]_vars

----------------------------------------------------------------------------
(* Every variable has its type.                                            *)
TypeOK ==
  /\ GenTypeOK
  /\ tree \in Tree
  /\ nsets \in Nat

(* A node exists only below existing nodes, although set() and remove()    *)
(* are interleaved with callbacks that set and remove (UniTempGen::set     *)
(* walks down from the root and trusts every parent to be there).          *)
TreePrefixClosed == PrefixClosed(tree)

(* A delta for k waits in the queue.                                       *)
Pending(k) == \E i \in DOMAIN deltas : deltas[i].key = k

(* When no hold is in force and no flush runs, nothing is queued and every *)
(* registered callback knows the current value of every key whose          *)
(* notification was not cleared: unhold_delta "dispatches all pending      *)
(* notifications", however callbacks nested their own sets and holds.      *)
Converged ==
  flushing = "no" /\ hold_nesting = 0 =>
    /\ deltas = <<>>
    /\ \A w \in cblist : \A k \in Key \ dropped : told[w][k] = tree[k]

(* At any moment, in the middle of a flush too, what a callback still has  *)
(* wrong is on its way to it: the key is queued, or is the delta now being *)
(* dispatched and this callback's turn is yet to come.                     *)
NoLostDelta ==
  \A w \in cblist : \A k \in Key \ dropped :
    told[w][k] # tree[k] =>
      Pending(k) \/ (running # 0 /\ current.key = k /\ w > running)

(* A callback that watched from a quiet moment on never pictures a child   *)
(* without its parent: set() announces parents first, the removal of a     *)
(* subtree (postorder visit) announces them last, also when flushes are    *)
(* interrupted by callbacks that set and remove.                           *)
ToldPrefixClosed == \A w \in synced : PrefixClosed(told[w])

(* The last delta queued for a key carries the key's value.                *)
LastPendingRight ==
  \A i \in DOMAIN deltas :
    (\A j \in DOMAIN deltas : j > i => deltas[j].key # deltas[i].key)
      => deltas[i].value = tree[deltas[i].key]

(* The delta being dispatched is out of date only if a newer one waits or  *)
(* was cleared.                                                            *)
CurrentRight ==
  running # 0 /\ ~Pending(current.key) /\ current.key \notin dropped
    => current.value = tree[current.key]

(* The control state of hold_delta, unhold_delta and flush_delta.          *)
LoopOK ==
  /\ hold_nesting >= base
  /\ hold_nesting = 0 => deltas = <<>>
  /\ flushing = "no" => base = 0
  /\ flushing = "unhold" => base = 1
  /\ running # 0 => flushing # "no" /\ base > 0

(* The inductive invariant behind Converged: the queue, read per key, is   *)
(* exactly what separates every callback from the tree.                    *)
DeltaInv ==
  /\ TypeOK
  /\ LoopOK
  /\ LastPendingRight
  /\ CurrentRight
  /\ NoLostDelta
============================================================================
