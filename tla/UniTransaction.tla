--------------------------- MODULE UniTransaction ---------------------------
(***************************************************************************)
(* What the comment on class UniTransactionGen promises: set() calls are   *)
(* recorded; everything looks as if they had been made on the underlying   *)
(* generator just now; commit() makes them, refresh() forgets them; and    *)
(* callbacks tell precisely how the look of things changes.                *)
(*                                                                         *)
(* commit() takes several steps, as each set() it makes calls those who    *)
(* watch the underlying generator, and they may change it themselves.      *)
(* None of its steps changes how things look, and at its end things are    *)
(* what they look like, but for the keys others have changed meanwhile.    *)
(***************************************************************************)
EXTENDS UniConfTree

CONSTANTS
  InitTree,   \* what the underlying generator holds, a prefix-closed tree
  MaxCalls,   \* bound: set() calls in a transaction
  MaxOthers   \* bound: changes others make to the underlying generator

ASSUME InitTreeAssumption == InitTree \in Tree /\ PrefixClosed(InitTree)

VARIABLES
  tx_base,  \* the tree of the underlying generator
  log,      \* the set() calls since the last commit() or refresh()
  tx_told,  \* the tree as callbacks have described it
  nothers,  \* changes others have made
  committing,
  touched   \* the keys others have changed since commit() was called

absvars == <<tx_base, log, tx_told, nothers, committing, touched>>

(* The tree t of a generator after calls of set().                         *)
Replayed(t, sets) ==
  LET after[n \in 0 .. Len(sets)] ==
        IF n = 0 THEN t ELSE TempSet(after[n - 1], sets[n][1], sets[n][2])
  IN after[Len(sets)]

AbsInit ==
  /\ tx_base = InitTree
  /\ log = <<>>
  /\ tx_told = InitTree
  /\ nothers = 0
  /\ committing = FALSE /\ touched = {}

(* The tree a user of the transaction sees, after a step.                  *)
Tell == tx_told' = Replayed(tx_base', log')

AbsSet(k, v) ==
  /\ ~committing /\ Len(log) < MaxCalls
  /\ log' = Append(log, <<k, v>>)
  /\ Tell
  /\ UNCHANGED <<tx_base, nothers, committing, touched>>

AbsCommit ==
  /\ ~committing
  /\ committing' = TRUE /\ touched' = {}
  /\ UNCHANGED <<tx_base, log, tx_told, nothers>>

AbsApply ==
  /\ committing
  /\ Replayed(tx_base', log) = Replayed(tx_base, log)
  /\ UNCHANGED <<log, tx_told, nothers, committing, touched>>

AbsCommitted ==
  /\ committing
  /\ \A k \in Key \ touched : tx_base[k] = Replayed(tx_base, log)[k]
  /\ log' = <<>>
  /\ Tell
  /\ committing' = FALSE /\ touched' = {}
  /\ UNCHANGED <<tx_base, nothers>>

AbsRefresh ==
  /\ ~committing
  /\ log' = <<>>
  /\ Tell
  /\ UNCHANGED <<tx_base, nothers, committing, touched>>

AbsOther(k, v) ==
  /\ nothers < MaxOthers
  /\ nothers' = nothers + 1
  /\ tx_base' = TempSet(tx_base, k, v)
  /\ touched' = IF committing THEN touched \union Changed(tx_base, tx_base') ELSE touched
  /\ Tell
  /\ UNCHANGED <<log, committing>>

AbsNext ==
  \/ \E k \in Key, v \in Value \union {Null} : AbsSet(k, v) \/ AbsOther(k, v)
  \/ AbsCommit \/ AbsApply \/ AbsCommitted
  \/ AbsRefresh

AbsSpec == AbsInit /\ [][AbsNext]_absvars
============================================================================
