---------------------------- MODULE UniMountGen ----------------------------
(***************************************************************************)
(* UniMountGen, generators mounted at keys of one tree, and UniConfRoot,   *)
(* which looks after the watches on that tree.  The generators are         *)
(* UniTempGens; the newest mount comes first in the list, and the first    *)
(* one that covers a key serves it.                                        *)
(*                                                                         *)
(* Keys are sequences of segments, in the whole tree and, relative to      *)
(* their mount, in the generators.  A watcher is told of a key, not of a   *)
(* value: it then looks at that key and what is below it.                  *)
(***************************************************************************)
EXTENDS UniConfTree, SequencesExt

CONSTANTS
  MountGen,     \* the generators
  GenTree,      \* the trees they may hold when they are made
  Watch,        \* the watches that may be added: [key, recurse]
  MaxMountSteps \* bound: changes, mounts and unmounts

VARIABLES
  mounts,   \* the list of mounts: [gen, key]
  tree,     \* tree[g]: what generator g holds
  watches,  \* the watches in the tree below watchroot
  known,    \* known[w][k]: what the watcher saw when it last looked at k
  nsteps

vars == <<mounts, tree, watches, known, nsteps>>

Strings == Value \union {Null}

Under(m, j) == m \o j

(* trimkey(): k relative to mount key m.                                   *)
trimkey(m, k) == SubSeq(k, Len(m) + 1, Len(k))

Covered(w) == IF w.recurse THEN Subtree(w.key) ELSE {w.key}

----------------------------------------------------------------------------
(* The operations work on a state s = [mounts, tree, deltas], the deltas   *)
(* being the keys announced, each with whether its value is null.          *)

(* The number of the mount that serves k, 0 if there is none.              *)
findmount(s, k) ==
  LET on == {i \in DOMAIN s.mounts : IsPrefix(s.mounts[i].key, k)}
  IN IF on = {} THEN 0 ELSE CHOOSE i \in on : \A j \in on : i <= j

(* A mount at a key strictly below k comes before the one that serves k.   *)
has_subkey(s, k, found) ==
  \E i \in DOMAIN s.mounts :
    /\ found # 0 => i <= found
    /\ IsStrictPrefix(k, s.mounts[i].key)

(* What generator g holds for k, when mounted at m.                        *)
Held(s, i, k) == s.tree[s.mounts[i].gen][trimkey(s.mounts[i].key, k)]

get(s, k) ==
  LET i == findmount(s, k)
  IN IF i # 0 THEN Held(s, i, k)
     ELSE IF has_subkey(s, k, 0) THEN Empty ELSE Null

exists(s, k) ==
  LET i == findmount(s, k)
  IN (i # 0 /\ Held(s, i, k) # Null) \/ has_subkey(s, k, i)

Delta(s, k, v) == [s EXCEPT !.deltas = @ \union {<<k, v = Null>>}]

(* set() of j on generator g, and gencallback for each key that changes,   *)
(* from every place where g is mounted.                                    *)
SetGen(s, g, j, v) ==
  LET t == IF v = Null THEN Removed(s.tree[g], j) ELSE Stored(s.tree[g], j, v)
      at == {s.mounts[i].key : i \in {i \in DOMAIN s.mounts : s.mounts[i].gen = g}}
  IN [s EXCEPT !.tree[g] = t,
               !.deltas = @ \union {<<Under(m, c), t[c] = Null>> :
                                      m \in at, c \in Changed(s.tree[g], t)}]

set(s, k, v) ==
  LET i == findmount(s, k)
  IN IF i = 0 THEN s ELSE SetGen(s, s.mounts[i].gen, trimkey(s.mounts[i].key, k), v)

(* makemount(): the keys that lead to k, each in the generator that serves *)
(* it, and k itself in the one that serves its parent.                     *)
makemount(s, k) ==
  LET point(u, p) == IF get(u, p) = Null THEN set(u, p, Empty) ELSE u
      t == FoldLeft(point, s, [n \in 1 .. Len(k) |-> SubSeq(k, 1, n)])
      i == findmount(t, IF k = <<>> THEN k ELSE Front(k))
  IN IF i = 0 \/ Held(t, i, k) # Null THEN t
     ELSE SetGen(t, t.mounts[i].gen, trimkey(t.mounts[i].key, k), Empty)

mountgen(s, g, k) ==
  LET t == makemount(Delta(s, k, Null), k)
      u == [t EXCEPT !.mounts = <<[gen |-> g, key |-> k]>> \o @]
      w == Delta(u, k, get(u, k))
  IN IF w.tree[g][<<>>] = Null THEN SetGen(w, g, <<>>, Empty) ELSE w

(* Newer mounts below the key get their mount points again.                *)
unmount(s, i) ==
  LET k == s.mounts[i].key
      remount(u, j) == LET m == u.mounts[j].key
                           t == makemount(u, m)
                       IN IF ~IsStrictPrefix(k, m) THEN u ELSE Delta(t, m, get(t, m))
      t == [Delta(s, k, Null) EXCEPT !.mounts = RemoveAt(@, i)]
  IN FoldLeft(remount, t, [j \in 1 .. i - 1 |-> j])

----------------------------------------------------------------------------
(* UniConfRoot.                                                            *)

State == [mounts |-> mounts, tree |-> tree, deltas |-> {}]

(* Mutant of gen_callback: watches below a deleted key are not told.       *)
GenCallbackUpwards(k, null) ==
  {w \in watches : IsPrefix(w.key, k) /\ (w.recurse \/ w.key = k)}

(* The watches told of a change of k: those on it, recursive ones above    *)
(* it and, if k was deleted, all below it.                                 *)
gen_callback(k, null) ==
  {w \in watches : \/ IsPrefix(w.key, k) /\ (w.recurse \/ w.key = k)
                   \/ null /\ IsStrictPrefix(k, w.key)}

(* A call is over and its deltas are out: the watchers have looked.        *)
Become(s) ==
  LET looks(w, k) == /\ k \in Covered(w)
                     /\ \E d \in s.deltas : /\ w \in gen_callback(d[1], d[2])
                                            /\ IsPrefix(d[1], k)
  IN /\ nsteps < MaxMountSteps
     /\ nsteps' = nsteps + 1
     /\ mounts' = s.mounts
     /\ tree' = s.tree
     /\ known' = [w \in Watch |-> [k \in Key |-> IF looks(w, k) THEN get(s, k) ELSE known[w][k]]]
     /\ UNCHANGED watches

Init ==
  /\ mounts = <<>>
  /\ tree \in [MountGen -> GenTree]
  /\ watches = {}
  /\ known = [w \in Watch |-> EmptyTree]
  /\ nsteps = 0

(* add_callback() and del_callback(); whoever adds a watch looks first.    *)
add_callback(w) ==
  /\ w \notin watches
  /\ watches' = watches \union {w}
  /\ known' = [known EXCEPT ![w] = [k \in Key |-> IF k \in Covered(w) THEN get(State, k) ELSE Null]]
  /\ UNCHANGED <<mounts, tree, nsteps>>

del_callback(w) ==
  /\ w \in watches
  /\ watches' = watches \ {w}
  /\ known' = [known EXCEPT ![w] = EmptyTree]
  /\ UNCHANGED <<mounts, tree, nsteps>>

do_mount(g, k) ==
  /\ \A i \in DOMAIN mounts : mounts[i].gen # g
  /\ Become(mountgen(State, g, k))

do_unmount(i) == i \in DOMAIN mounts /\ Become(unmount(State, i))

do_set(k, v) == Become(set(State, k, v))

(* Somebody changes a mounted generator behind the root's back.            *)
other(i, j, v) ==
  /\ i \in DOMAIN mounts
  /\ Under(mounts[i].key, j) \in Key
  /\ Become(SetGen(State, mounts[i].gen, j, v))

Next ==
  \/ \E w \in Watch : add_callback(w) \/ del_callback(w)
  \/ \E g \in MountGen, k \in Key : do_mount(g, k)
  \/ \E i \in DOMAIN mounts : do_unmount(i)
  \/ \E k \in Key, v \in Strings : do_set(k, v) \/ \E i \in DOMAIN mounts : other(i, k, v)

Spec == Init /\ [][Next]_vars

----------------------------------------------------------------------------
(* Every variable has its type.                                            *)
TypeOK ==
  /\ mounts \in Seq([gen : MountGen, key : Key])
  /\ tree \in [MountGen -> Tree]
  /\ watches \subseteq Watch
  /\ known \in [Watch -> Tree]

(* UniConf::add_callback "requests notification when any of the keys       *)
(* covered by the recursive depth specification change": whatever is set,  *)
(* mounted over a key or uncovered by an unmount, a watcher that looks     *)
(* when told knows the values, of keys that some generator serves.         *)
WatchersCurrent ==
  \A w \in watches : \A k \in Covered(w) :
    findmount(State, k) # 0 => known[w][k] = get(State, k)

(* "If there's something mounted and set on a subkey, this key must exist  *)
(* along the way": the keys that lead to a mount that serves its own key   *)
(* exist, whatever was removed from the generators below it.               *)
MountPathExists ==
  \A i \in DOMAIN mounts :
    findmount(State, mounts[i].key) = i =>
      \A n \in 0 .. Len(mounts[i].key) - 1 : exists(State, SubSeq(mounts[i].key, 1, n))
============================================================================
