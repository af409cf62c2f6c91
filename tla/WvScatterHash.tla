--------------------------- MODULE WvScatterHash ---------------------------
(***************************************************************************)
(* WvScatterHash: a hash table with open addressing and double hashing.    *)
(*                                                                         *)
(* A removed entry leaves a mark behind so that searches go on past it;    *)
(* an entry added later may take the place of the mark.  When entries and  *)
(* marks fill the table it is rebuilt without the marks, in a larger array *)
(* if the entries alone fill half of it.                                   *)
(***************************************************************************)
EXTENDS Integers, FiniteSets, FiniteSetsExt, SequencesExt

CONSTANTS
  Elem,     \* the elements that may be added
  KeyOf,    \* KeyOf[e]: the key of element e
  Hash,     \* Hash[k]: WvHash of key k
  HashMod   \* unsigned arithmetic is modulo this

VARIABLES
  xslots,       \* xslots[i]: the element last put in slot i
  xstatus,      \* 0 free, 1 deleted, 2 occupied, 3 occupied and auto_free
  prime_index,
  used, num,
  content,      \* history: the elements added and not removed
  owned         \* history: those of them the table has to delete

hashvars == <<xslots, xstatus, prime_index, used, num, content, owned>>

prime_numbers == <<2, 5, 11, 17, 31>>

IsOccupied(s) == s >= 2
IsAutoFree(s) == s = 3

(* An array of n free slots.                                               *)
Blank(n) == [i \in 0 .. n - 1 |-> 0]

Init ==
  /\ prime_index = 1
  /\ xslots = Blank(2) /\ xstatus = Blank(2)
  /\ used = 0 /\ num = 0
  /\ content = {} /\ owned = {}

(* A table as a value.                                                     *)
Table == [slots |-> xslots, status |-> xstatus, index |-> prime_index, used |-> used, num |-> num]
numslots(t) == prime_numbers[t.index]

(* Mutant of curhash: the step is not coprime to the size.                 *)
CurhashDoubles(t, h, attempt) == (h + attempt * numslots(t)) % numslots(t)

(* The slot tried at the given attempt.                                    *)
curhash(t, h, attempt) ==
  ((h + attempt * ((h % (numslots(t) - 1)) + 1)) % HashMod) % numslots(t)

(* The attempts a search makes at most: each slot once, or a few twice     *)
(* when the sum overflows.                                                 *)
Attempts(t) == 0 .. 2 * numslots(t)

(* The first attempt at a slot that satisfies Stop, -1 if there is none    *)
(* and the search goes on forever.                                         *)
FirstWhere(t, h, stop) ==
  LET A == {a \in Attempts(t) : curhash(t, h, a) \in stop} IN IF A = {} THEN -1 ELSE Min(A)

Slots(t) == 0 .. numslots(t) - 1

(* _add() past rebuild(): the first slot that is not occupied.             *)
AddTo(t, e, free) ==
  LET a == FirstWhere(t, Hash[KeyOf[e]], {i \in Slots(t) : ~IsOccupied(t.status[i])})
      s == curhash(t, Hash[KeyOf[e]], a)
  IN [t EXCEPT !.num = @ + 1,
               !.used = IF t.status[s] = 1 THEN @ ELSE @ + 1,
               !.slots[s] = e, !.status[s] = IF free THEN 3 ELSE 2]

(* The load factors 0.45 and 0.4.                                          *)
NeedsRebuild(t) == 45 * numslots(t) <= 100 * (t.used + 1)
NeedsResize(t) == 40 * numslots(t) <= 100 * (t.num + 1)

(* rebuild(); the calls of _add in it find enough room.                    *)
rebuild(t) ==
  LET p == IF NeedsResize(t) THEN t.index + 1 ELSE t.index
      n == prime_numbers[p]
      empty == [slots |-> Blank(n), status |-> Blank(n), index |-> p, used |-> 0, num |-> 0]
      kept == SelectSeq([i \in 1 .. numslots(t) |-> i - 1], LAMBDA i : IsOccupied(t.status[i]))
  IN IF ~NeedsRebuild(t) THEN t
     ELSE FoldLeft(LAMBDA u, i : AddTo(u, t.slots[i], IsAutoFree(t.status[i])), empty, kept)

(* genfind(): the slot of an element with key k, -1 for null_idx.          *)
genfind(t, k) ==
  LET a == FirstWhere(t, Hash[k],
             {i \in Slots(t) : t.status[i] = 0
                                 \/ (IsOccupied(t.status[i]) /\ KeyOf[t.slots[i]] = k)})
      s == curhash(t, Hash[k], a)
  IN IF a >= 0 /\ IsOccupied(t.status[s]) THEN s ELSE -1

----------------------------------------------------------------------------
Become(t) ==
  /\ xslots' = t.slots /\ xstatus' = t.status /\ prime_index' = t.index
  /\ used' = t.used /\ num' = t.num

(* add() does not look for an element with the same key.                   *)
add(e, free) ==
  /\ e \notin content
  /\ Become(AddTo(rebuild(Table), e, free))
  /\ content' = content \union {e}
  /\ owned' = IF free THEN owned \union {e} ELSE owned

(* remove(): of the elements with the key of e, the first found.           *)
remove(e) ==
  LET s == genfind(Table, KeyOf[e])
  IN /\ s # -1
     /\ Become([Table EXCEPT !.status[s] = 1, !.num = @ - 1])
     /\ content' = content \ {xslots[s]}
     /\ owned' = owned \ {xslots[s]}

set_autofree(e, free) ==
  LET s == genfind(Table, KeyOf[e])
  IN /\ s # -1
     /\ Become([Table EXCEPT !.status[s] = IF free THEN 3 ELSE 2])
     /\ owned' = IF free THEN owned \union {xslots[s]} ELSE owned \ {xslots[s]}
     /\ UNCHANGED content

zap ==
  /\ Become([Table EXCEPT !.status = Blank(numslots(Table)), !.used = 0, !.num = 0])
  /\ content' = {}
  /\ owned' = {}

Next ==
  \/ \E e \in Elem, free \in BOOLEAN : add(e, free) \/ set_autofree(e, free)
  \/ \E e \in Elem : remove(e)
  \/ zap

Spec == Init /\ [][Next]_hashvars

----------------------------------------------------------------------------
(* Whatever was added, removed and rebuilt, a key is found exactly if an   *)
(* element with it is there, and what is found is one of them.             *)
Finds ==
  \A k \in DOMAIN Hash :
    LET s == genfind(Table, k)
    IN IF \E e \in content : KeyOf[e] = k
         THEN s # -1 /\ xslots[s] \in content /\ KeyOf[xslots[s]] = k
         ELSE s = -1

(* count() is right, every element is in the table once, and used covers   *)
(* entries and marks: the rebuild depends on it.                           *)
Counted ==
  /\ num = Cardinality(content)
  /\ used = Cardinality({i \in DOMAIN xstatus : xstatus[i] # 0})
  /\ \A e \in content : Cardinality({i \in DOMAIN xslots : IsOccupied(xstatus[i]) /\ xslots[i] = e}) = 1

(* The table deletes what it owns: the flag follows the element through    *)
(* every rebuild.                                                          *)
OwnershipKept ==
  \A i \in DOMAIN xstatus : IsOccupied(xstatus[i]) =>
    (IsAutoFree(xstatus[i]) <=> xslots[i] \in owned)

(* Searches end: every probe sequence meets a free slot.                   *)
SearchEnds ==
  \A k \in DOMAIN Hash :
    FirstWhere(Table, Hash[k], {i \in DOMAIN xstatus : xstatus[i] = 0}) # -1
============================================================================
