------------------------- MODULE UniTransactionGen -------------------------
(***************************************************************************)
(* UniTransactionGen over a UniTempGen: set() calls are kept in a tree of  *)
(* changes (UniConfChangeTree) instead of being made, get() and iterator() *)
(* look through the changes at the underlying tree, commit() makes them    *)
(* and refresh() drops them, while others go on changing the underlying    *)
(* tree, also from the callbacks of the set() calls commit() makes there.  *)
(*                                                                         *)
(* mode[k] is the mode of the change node of k, "none" if there is none.   *)
(* new holds what the nodes point to: newvalue of a NEWVALUE node, and the *)
(* replacement tree of a NEWTREE node, which has no nodes below it, in the *)
(* keys of its subtree.  The callbacks a call makes are held until the end *)
(* of the call, each key being mentioned at most once; those of commit(),  *)
(* which takes several steps, count as made when they are held.  set() is  *)
(* tx_set or tx_remove here, other generators having operations of the     *)
(* same names.  The callbacks of the underlying generator do not call the  *)
(* transaction: while commit() walks its nodes they must not change.       *)
(***************************************************************************)
EXTENDS UniTransaction

VARIABLES
  mode,              \* UniConfChangeTree::mode
  new,               \* UniConfChangeTree::newvalue and newtree
  was_null_or_empty, \* UniConfChangeTree::was_null_or_empty
  tx_left,           \* what commit() has still to do with a key, or "no"
  calling,           \* callbacks of its last set() are being made
  idle,              \* history: a callback told what had been told before
  untold             \* history: keys given another value without a callback

changevars == <<mode, new, was_null_or_empty>>
history == <<idle, untold>>
transactionvars == <<absvars, changevars, tx_left, calling, history>>

NoChange == [k \in Key |-> "none"]
NothingLeft == [k \in Key |-> "no"]
Unset(v) == v \in {Null, Empty}

TransactionInit ==
  /\ AbsInit
  /\ mode = NoChange
  /\ new = EmptyTree
  /\ was_null_or_empty = [k \in Key |-> FALSE]
  /\ tx_left = NothingLeft /\ calling = FALSE
  /\ idle = FALSE
  /\ untold = {}

Above(k) == PathTo(k) \ {k}

(* A NEWTREE node at or above k.                                           *)
Replaced(k) == \E j \in PathTo(k) : mode[j] = "NEWTREE"

(* What get() answers when the underlying generator holds tree t.          *)
Seen(t, k) ==
  IF Replaced(k) \/ mode[k] = "NEWVALUE" THEN new[k]
  ELSE IF mode[k] = "NEWNODE" /\ Unset(t[k]) THEN Empty
  ELSE t[k]

get(k) == Seen(tx_base, k)

(* GenStyleChangeTreeIter lists first the nodes that are there after the   *)
(* change and then what else the underlying generator has.                 *)
iterator(k) ==
  LET changed == {c \in Children(k) : \/ mode[c] \in {"NEWVALUE", "NEWNODE"}
                                      \/ mode[c] = "NEWTREE" /\ new[c] # Null}
      others == {c \in Existing(tx_base, k) : mode[c] \in {"none", "BLANK"}}
  IN IF Replaced(k) THEN {<<c, new[c]>> : c \in Existing(new, k)}
     ELSE {<<c, get(c)>> : c \in changed} \union {<<c, tx_base[c]>> : c \in others}

(* The end of a call: its callbacks are made, for the keys D, with values  *)
(* from tree t; the call has changed the keys S and makes none for them.   *)
NotifyBut(D, t, S) ==
  /\ idle' = (idle \/ \E k \in D \ untold : tx_told[k] = t[k])
  /\ tx_told' = [k \in Key |-> IF k \in D THEN t[k] ELSE tx_told[k]]
  /\ untold' = (untold \ D) \union S

Notify(D, t) == NotifyBut(D, t, {})

----------------------------------------------------------------------------
(* set() of a value, on the replacement tree of a NEWTREE node at or above *)
(* k (set_value, create_value).  BLANK nodes above it become NEWNODEs.     *)
Vivified(k) == {j \in Above(k) : ~Replaced(j) /\ mode[j] \in {"none", "BLANK"}}

set_value(k, v) ==
  LET made == {j \in Above(k) : Replaced(j) /\ new[j] = Null}
  IN /\ new' = [j \in Key |-> IF j = k THEN v ELSE IF j \in made THEN Empty ELSE new[j]]
     /\ Notify({j \in Vivified(k) : tx_base[j] = Null} \union made
                 \union (IF new[k] = v THEN {} ELSE {k}),
               [j \in Key |-> IF j = k THEN v ELSE Empty])

(* Whether set_change or create_change announces the new value v of k.     *)
changes_value(k, v) ==
  CASE mode[k] = "NEWVALUE" -> new[k] # v
    [] mode[k] = "NEWNODE"  -> Unset(tx_base[k]) # Unset(v) /\ tx_base[k] # v
    [] OTHER                -> tx_base[k] # v

(* What it says nothing of: of a NEWNODE, one value in place of another.   *)
passes_over(k, v) ==
  mode[k] = "NEWNODE" /\ ~Unset(tx_base[k]) /\ ~Unset(v) /\ tx_base[k] # v

(* set() of a value with no NEWTREE node on the way (set_change,           *)
(* create_change).                                                         *)
change_value(k, v) ==
  /\ new' = [new EXCEPT ![k] = v]
  /\ NotifyBut({j \in Vivified(k) : tx_base[j] = Null}
                 \union (IF changes_value(k, v) THEN {k} ELSE {}),
               [j \in Key |-> IF j = k THEN v ELSE Empty],
               IF passes_over(k, v) THEN {k} ELSE {})

tx_set(k, v) ==
  /\ ~committing /\ Len(log) < MaxCalls
  /\ v # Null
  /\ IF Replaced(k) THEN set_value(k, v) ELSE change_value(k, v)
  /\ mode' = [j \in Key |-> IF j \in Vivified(k) THEN "NEWNODE"
                            ELSE IF j = k /\ ~Replaced(k) THEN "NEWVALUE"
                            ELSE mode[j]]
  /\ was_null_or_empty' = [j \in Key |-> IF j \in Vivified(k) THEN Unset(tx_base[j])
                                         ELSE j # k /\ was_null_or_empty[j]]
  /\ log' = Append(log, <<k, v>>)
  /\ UNCHANGED <<tx_base, nothers, committing, touched, tx_left, calling>>

(* set() of null: what is there is announced to be gone, child by child,   *)
(* and a NEWTREE node without a tree takes the place of the nodes below k, *)
(* unless k is part of a replacement tree already.  Missing nodes above it *)
(* are made BLANK.                                                         *)
tx_remove(k) ==
  /\ ~committing /\ Len(log) < MaxCalls
  /\ Notify({j \in Subtree(k) : get(j) # Null}, EmptyTree)
  /\ new' = Removed(new, k)
  /\ IF Replaced(k) THEN UNCHANGED <<mode, was_null_or_empty>>
     ELSE /\ mode' = [j \in Key |-> IF j = k THEN "NEWTREE"
                                    ELSE IF j \in Subtree(k) THEN "none"
                                    ELSE IF j \in Above(k) /\ mode[j] = "none" THEN "BLANK"
                                    ELSE mode[j]]
          /\ was_null_or_empty' = [j \in Key |-> j \notin Subtree(k) /\ was_null_or_empty[j]]
  /\ log' = Append(log, <<k, Null>>)
  /\ UNCHANGED <<tx_base, nothers, committing, touched, tx_left, calling>>

----------------------------------------------------------------------------
(* gencallback, for every key in which the underlying tree now differs     *)
(* from what it becomes, t: the keys announced.                            *)
gencallback(t) ==
  {k \in Changed(tx_base, t) :
     /\ ~Replaced(k)
     /\ mode[k] # "NEWVALUE"
     /\ mode[k] = "NEWNODE" => ~was_null_or_empty[k] \/ ~Unset(t[k])}

(* The underlying tree becomes t, and its callbacks are made.              *)
BaseBecomes(t) ==
  /\ tx_base' = t
  /\ Notify(gencallback(t),
            [k \in Key |-> IF mode[k] = "NEWNODE" /\ t[k] = Null THEN Empty ELSE t[k]])
  /\ was_null_or_empty' = [k \in Key |-> IF mode[k] = "NEWNODE" /\ k \in Changed(tx_base, t)
                                           THEN Unset(t[k]) ELSE was_null_or_empty[k]]
  /\ UNCHANGED <<mode, new, log>>

NoChanges ==
  /\ mode' = NoChange
  /\ new' = EmptyTree
  /\ was_null_or_empty' = [k \in Key |-> FALSE]

----------------------------------------------------------------------------
(* commit() walks the change tree, parents before children, and the        *)
(* replacement trees in it; each set() it makes calls those who watch the  *)
(* underlying generator.  tx_left[k] is "apply" if the walk has still to   *)
(* come to k, "list" if the children it has in the underlying tree are to  *)
(* be compared with those of the replacement tree, "delete" if it is one   *)
(* that is not there.                                                      *)
ToApply == {k \in Key : \/ mode[k] \in {"NEWVALUE", "NEWNODE", "NEWTREE"}
                        \/ Replaced(k) /\ new[k] # Null}

tx_commit ==
  /\ ~committing /\ mode # NoChange
  /\ committing' = TRUE /\ touched' = {}
  /\ tx_left' = [k \in Key |-> IF k \in ToApply THEN "apply" ELSE "no"]
  /\ UNCHANGED <<tx_base, log, tx_told, nothers, changevars, calling, history>>

(* What set() makes of the underlying tree t when the walk comes to k.     *)
apply_changes(t, k) ==
  IF mode[k] = "NEWNODE" THEN IF Exists(t, k) THEN t ELSE Stored(t, k, Empty)
  ELSE TempSet(t, k, new[k])

(* Nobody calls back if nothing changes.                                   *)
base_set(t) ==
  /\ BaseBecomes(t)
  /\ calling' = (t # tx_base)
  /\ UNCHANGED <<nothers, committing, touched>>

tx_apply(k) ==
  /\ tx_left[k] = "apply"
  /\ \A j \in Key : tx_left[j] \in {"no", "apply"}
  /\ \A p \in Above(k) : tx_left[p] = "no"
  /\ base_set(apply_changes(tx_base, k))
  /\ tx_left' = [tx_left EXCEPT ![k] = IF Replaced(k) /\ new[k] # Null THEN "list" ELSE "no"]

(* Mutant of extra: what the replacement tree does not have stays.         *)
ExtraStays(k) == {}

(* apply_values(): the children the replacement tree does not have.        *)
extra(k) == {c \in Existing(tx_base, k) : new[c] = Null}

tx_list(k) ==
  /\ tx_left[k] = "list"
  /\ tx_left' = [j \in Key |-> IF j = k THEN "no"
                               ELSE IF j \in extra(k) THEN "delete" ELSE tx_left[j]]
  /\ calling' = FALSE
  /\ UNCHANGED <<absvars, changevars, history>>

tx_delete(k) ==
  /\ tx_left[k] = "delete"
  /\ base_set(Removed(tx_base, k))
  /\ tx_left' = [tx_left EXCEPT ![k] = "no"]

(* The nodes are deleted when commit() is done with all of them.  What     *)
(* others have made of one it had applied was kept from the callbacks.     *)
tx_committed ==
  /\ committing /\ tx_left = NothingLeft
  /\ committing' = FALSE /\ touched' = {} /\ calling' = FALSE
  /\ NoChanges
  /\ log' = <<>>
  /\ untold' = untold \union {k \in touched : tx_base[k] # get(k)}
  /\ UNCHANGED <<tx_base, tx_told, nothers, tx_left, idle>>

(* cancel_changes and cancel_values: the keys in which the underlying tree *)
(* differs from what was to be.                                            *)

(* Mutant of cancel_changes: nodes that were to be created are forgotten.  *)
CancelValuesOnly ==
  {k \in Key : (Replaced(k) \/ mode[k] = "NEWVALUE") /\ new[k] # tx_base[k]}

cancel_changes ==
  {k \in Key : IF Replaced(k) \/ mode[k] = "NEWVALUE" THEN new[k] # tx_base[k]
               ELSE mode[k] = "NEWNODE" /\ tx_base[k] = Null}

tx_refresh ==
  /\ ~committing /\ mode # NoChange
  /\ Notify(cancel_changes, tx_base)
  /\ NoChanges
  /\ log' = <<>>
  /\ UNCHANGED <<tx_base, nothers, committing, touched, tx_left, calling>>

(* Somebody else changes the underlying generator, from a callback if      *)
(* commit() is on its way.                                                 *)
tx_other(k, v) ==
  /\ nothers < MaxOthers
  /\ nothers' = nothers + 1
  /\ committing => calling
  /\ BaseBecomes(TempSet(tx_base, k, v))
  /\ touched' = IF committing THEN touched \union Changed(tx_base, tx_base') ELSE touched
  /\ UNCHANGED <<committing, tx_left, calling>>

TransactionNext ==
  \/ \E k \in Key, v \in Value : tx_set(k, v)
  \/ \E k \in Key : tx_remove(k)
  \/ tx_commit \/ tx_committed
  \/ \E k \in Key : tx_apply(k) \/ tx_list(k) \/ tx_delete(k)
  \/ tx_refresh
  \/ \E k \in Key, v \in Value \union {Null} : tx_other(k, v)

TransactionSpec == TransactionInit /\ [][TransactionNext]_transactionvars

----------------------------------------------------------------------------
(* Every variable has its type; the change tree hangs together, and a      *)
(* NEWTREE node has no nodes below it.                                     *)
TransactionTypeOK ==
  /\ tx_base \in Tree /\ new \in Tree /\ tx_told \in Tree
  /\ mode \in [Key -> {"none", "NEWVALUE", "NEWTREE", "NEWNODE", "BLANK"}]
  /\ was_null_or_empty \in [Key -> BOOLEAN]
  /\ tx_left \in [Key -> {"no", "apply", "list", "delete"}]
  /\ committing \in BOOLEAN /\ (~committing => tx_left = NothingLeft)
  /\ touched \subseteq Key
  /\ \A k \in Key : mode[k] # "none" =>
       \A p \in Above(k) : mode[p] \notin {"none", "NEWTREE"}

(* "The results that you get are equivalent to the results that you would  *)
(* have gotten if you had called commit() and then used these methods on   *)
(* the underlying generator", that is, on the tree with all set() calls    *)
(* replayed, whatever others did to it since.                              *)
AsIfCommitted ==
  LET t == Replayed(tx_base, log)
  IN \A k \in Key : /\ get(k) = t[k]
                    /\ iterator(k) = {<<c, t[c]>> : c \in Existing(t, k)}

(* "If the underlying generator issues precisely the callbacks needed to   *)
(* indicate a change in state, then so will the UniTransactionGen": no     *)
(* callback is missing.  set() of a NEWNODE breaks this, and so does what  *)
(* others change from the callbacks of commit().                           *)
AllTold == \A k \in Key : tx_told[k] = get(k)

(* What holds of it: for every key but those that set() passed over and    *)
(* those that others changed back while they were committed, and for       *)
(* these, too, from the next callback on.                                  *)
ToldAll == \A k \in Key \ untold : tx_told[k] = get(k)

(* The same: no callback says what is known already.                       *)
NoIdleCallback == ~idle

(* The walk comes to a key before it comes to what lies below it.          *)
LeftInOrder ==
  \A k \in Key :
    /\ tx_left[k] = "apply" => k \in ToApply
    /\ tx_left[k] \in {"apply", "list"} =>
         \A j \in Subtree(k) \intersect ToApply : j # k => tx_left[j] = "apply"
    /\ tx_left[k] = "list" => Replaced(k) /\ new[k] # Null
    /\ tx_left[k] = "delete" => Replaced(k) /\ new[k] = Null

(* commit() has made the underlying tree what it looks like where it is    *)
(* done, but for the keys that others have changed since it was called.    *)
Done(k) == tx_left[k] \in {"no", "list"} /\ \A p \in Above(k) : tx_left[p] = "no"

DoneAsSeen ==
  committing => \A k \in Key \ touched : Done(k) => tx_base[k] = get(k)

(* get() and iterators answer as if the transaction had been committed,    *)
(* which commit() brings about; and callbacks tell of every change of that *)
(* picture, by the transaction, by its end or from below, and never what   *)
(* is known already.                                                       *)
TransactionSeen ==
  /\ TransactionTypeOK
  /\ AsIfCommitted /\ LeftInOrder /\ DoneAsSeen /\ ToldAll /\ NoIdleCallback

(* The inductive invariant.  Nodes that create what is above them have no  *)
(* BLANK node above; what a node puts in its place exists; and whatever    *)
(* tree lies below, it is seen with all the set() calls made.              *)
Creates(k) == mode[k] \in {"NEWVALUE", "NEWNODE"}

CreatedAbove ==
  \A k \in Key : Creates(k) \/ (mode[k] = "NEWTREE" /\ new[k] # Null)
                    => \A p \in Above(k) : Creates(p)

NewExists ==
  /\ \A k \in Key : mode[k] = "NEWVALUE" => new[k] # Null
  /\ \A k \in Key : Replaced(k) /\ new[k] # Null
                    => \A p \in PathTo(k) : Replaced(p) => new[p] # Null

SeenAsReplayed == \A t \in Tree : [k \in Key |-> Seen(t, k)] = Replayed(t, log)

TransactionInv ==
  /\ TransactionTypeOK /\ log \in Seq(Key \X (Value \union {Null}))
  /\ CreatedAbove /\ NewExists /\ SeenAsReplayed

(* The callbacks: was_null_or_empty is kept up to date, as gencallback,    *)
(* which is told only what a key becomes, has to know what it was.         *)
WasUnset == \A k \in Key : mode[k] = "NEWNODE" => was_null_or_empty[k] = Unset(tx_base[k])

CommitInv == LeftInOrder /\ DoneAsSeen /\ PrefixClosed(tx_base)

CallbackInv == ToldAll /\ NoIdleCallback /\ WasUnset /\ untold \subseteq Key

(* The change tree does what the class comment promises: commit() makes    *)
(* the underlying tree what the recorded calls would make of it, without a *)
(* change of the picture on the way, refresh() leaves it as if there had   *)
(* been none, and what a change by others makes of the picture is what     *)
(* the calls make of that change.  What callbacks tell of the picture is   *)
(* the matter of ToldAll.                                                  *)
Promised == INSTANCE UniTransaction WITH tx_told <- [k \in Key |-> get(k)]
ImplementsTransaction == Promised!AbsSpec
============================================================================
