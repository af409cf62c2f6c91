---------------------------- MODULE UniConfTree ----------------------------
(***************************************************************************)
(* The key/value trees UniConf generators store (UniConfValueTree over     *)
(* UniHashTreeBase), as functions from keys to values.                     *)
(*                                                                         *)
(* A tree gives every key its value, or Null when there is no such node.   *)
(* The nodes of a tree hang together: a node exists only below existing    *)
(* nodes (PrefixClosed), because nodes are created top-down by set() and   *)
(* deleted with everything below them.                                     *)
(*                                                                         *)
(* How keys are spelled does not matter here, only which key lies above    *)
(* which: <<p, k>> \in Prefix is p.suborsame(k).                           *)
(***************************************************************************)
EXTENDS Naturals, FiniteSets, Sequences

CONSTANTS
  Key,     \* the keys in use
  Root,    \* UniConfKey::EMPTY, the key of the root node
  Prefix,  \* pairs <<p, k>>: p is k or one of its ancestors
  Value,   \* the strings a key can hold
  Empty,   \* WvString::empty, what auto-vivified nodes hold
  Null     \* WvString::null, "no such key"

ASSUME KeyAssumption ==
  /\ IsFiniteSet(Key)
  /\ Root \in Key
  /\ Prefix \subseteq Key \X Key

ASSUME PrefixAssumption ==
  /\ \A k \in Key : <<k, k>> \in Prefix /\ <<Root, k>> \in Prefix
  /\ \A j, k, l \in Key : <<j, k>> \in Prefix /\ <<k, l>> \in Prefix
                            => <<j, l>> \in Prefix
  /\ \A j, k \in Key : <<j, k>> \in Prefix /\ <<k, j>> \in Prefix => j = k

(* Of two keys that lie above a third, one lies above the other.           *)
ASSUME PathAssumption ==
  \A j, k, l \in Key : <<j, l>> \in Prefix /\ <<k, l>> \in Prefix
                         => <<j, k>> \in Prefix \/ <<k, j>> \in Prefix

ASSUME ValueAssumption == Empty \in Value /\ Null \notin Value

Tree == [Key -> Value \union {Null}]

EmptyTree == [k \in Key |-> Null]

PathTo(k) == {p \in Key : <<p, k>> \in Prefix}

Subtree(k) == {q \in Key : <<k, q>> \in Prefix}

Exists(t, k) == t[k] # Null

Children(k) ==
  {c \in Subtree(k) \ {k} : \A p \in PathTo(c) : p = c \/ <<p, k>> \in Prefix}

Parent(k) == CHOOSE p \in Key : k \in Children(p)

HasChildren(t, k) == \E c \in Children(k) : Exists(t, c)

(* Mutant of Stored: the nodes above k are not created.                    *)
StoredNoVivify(t, k, v) == [q \in Key |-> IF q = k THEN v ELSE t[q]]

(* The tree after set(k, v) of a non-null value: the missing nodes above k *)
(* are created with the empty string, then k gets its value.               *)
Stored(t, k, v) ==
  [q \in Key |-> IF q = k THEN v
                 ELSE IF q \in PathTo(k) /\ t[q] = Null THEN Empty
                 ELSE t[q]]

(* The tree after set(k, null): the node and all below it are deleted.     *)
Removed(t, k) == [q \in Key |-> IF q \in Subtree(k) THEN Null ELSE t[q]]

(* UniTempGen::set on tree t: what UniTempGen shows set() to do.           *)
TempSet(t, k, v) == IF v = Null THEN Removed(t, k) ELSE Stored(t, k, v)

(* The keys on which two trees differ.                                     *)
Changed(t, u) == {k \in Key : t[k] # u[k]}

(* The recursive iterator over a generator keeps the names left at each    *)
(* level, deepest last, and looks into the generator as it goes.  What is  *)
(* left in tree t once the entry given out last has been looked below and  *)
(* exhausted levels have been dropped; its next entry is one of the last   *)
(* level's.                                                                *)
Existing(t, k) == {c \in Children(k) : Exists(t, c)}

WalkOn(t, levels, entered) ==
  LET below == IF entered # Null /\ Exists(t, entered)
                 THEN Append(levels, Existing(t, entered)) ELSE levels
      open == {i \in DOMAIN below : below[i] # {}}
  IN SubSeq(below, 1, CHOOSE n \in open \union {0} : \A i \in open : i <= n)

(* One name is taken from the deepest level.                               *)
WalkPast(levels, e) == [levels EXCEPT ![Len(levels)] = @ \ {e}]

PrefixClosed(t) ==
  \A k \in Key : Exists(t, k) => \A p \in PathTo(k) : Exists(t, p)

----------------------------------------------------------------------------
(* Orders of notification.  The order among siblings is the hash order of  *)
(* the node's Container, so every order that respects the tree is allowed. *)

Listings(S) ==
  {s \in [1 .. Cardinality(S) -> S] : \A x \in S : \E i \in DOMAIN s : s[i] = x}

(* Parents before their children.                                          *)
TopDown(S) ==
  {s \in Listings(S) :
     \A i, j \in DOMAIN s : <<s[i], s[j]>> \in Prefix => i <= j}

(* Children before their parents.                                          *)
BottomUp(S) ==
  {s \in Listings(S) :
     \A i, j \in DOMAIN s : <<s[i], s[j]>> \in Prefix => j <= i}

(* One notification for each key of s, with its value in tree t.           *)
Deltas(s, t) == [i \in DOMAIN s |-> [key |-> s[i], value |-> t[s[i]]]]

DeltaType == [key : Key, value : Value \union {Null}]
============================================================================
