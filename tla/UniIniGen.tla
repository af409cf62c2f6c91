----------------------------- MODULE UniIniGen -----------------------------
(***************************************************************************)
(* UniIniGen, a UniTempGen that commit() writes to a file and refresh()    *)
(* reads from it, in a program that may crash and start again anywhere.    *)
(*                                                                         *)
(* commit() writes a new file and renames it.  Where that cannot be done   *)
(* it writes the old file in place, and marks it with the sticky bit until *)
(* it is whole: refresh() does not touch such a file.  refresh() does not  *)
(* read a file again that has the same inode, size and time of change, in  *)
(* seconds, as before.                                                     *)
(*                                                                         *)
(* A file is its lines, one for each key with a value; as there is none    *)
(* for an empty string, a key that is empty and leads to no value is gone  *)
(* after a refresh().  A read may fail, and so may open() and fstat() of a *)
(* file that is there; that refresh() then returns false is left out.      *)
(***************************************************************************)
EXTENDS UniConfTree

CONSTANTS
  Inode,     \* the inodes of the file system
  MaxClock,  \* bound: seconds
  Others,    \* the trees other programs save
  MaxChanges \* bound: set() calls, changes by other programs and crashes

ASSUME OthersAssumption == Others \subseteq Tree

(* No file has inode 0.                                                    *)
ASSUME InodeAssumption == 0 \notin Inode

VARIABLES
  root,      \* UniTempGen::root
  dirty,     \* UniTempGen::dirty
  ini_told,  \* the tree as callbacks have described it
  old_st,    \* UniIniGen::old_st, what is known of the file that was read
  file,      \* the file: [there, ino, ctime, sticky, lines]
  at,        \* where commit() is: "idle", writing "tmp", "truncated", "marked"
  temp,      \* the temporary file: [ino, lines]
  todo,      \* the keys whose lines are still to be written
  clock,
  saved,     \* history: the lines last saved as a whole
  half,      \* history: refresh() read other lines than those
  looked,    \* history: when old_st was taken
  blanked,   \* history: a crash between the truncation of a file and its mark
  unread,    \* history: reading the file old_st was taken of has failed
  stale,     \* history: refresh() left out a change of a later second
  nchanges

inivars == <<root, dirty, ini_told, old_st, file, at, temp, todo, clock,
            saved, half, looked, blanked, unread, stale, nchanges>>

NoLines == EmptyTree
NoTemp == [ino |-> 0, lines |-> NoLines]
NoStat == [ino |-> 0, ctime |-> 0, size |-> 0]

(* save(): the lines for a tree, and the tree refresh() makes of them.     *)
Saved(t) == [k \in Key |-> IF t[k] = Empty THEN Null ELSE t[k]]

Loaded(l) ==
  [k \in Key |-> IF l[k] # Null THEN l[k]
                 ELSE IF k = Root \/ \E c \in Subtree(k) : l[c] # Null THEN Empty
                 ELSE Null]

Lined(l) == {k \in Key : l[k] # Null}

Stat(f) == [ino |-> f.ino, ctime |-> f.ctime, size |-> Cardinality(Lined(f.lines))]

Unused == Inode \ {file.ino}

Changes == nchanges < MaxChanges /\ nchanges' = nchanges + 1

(* The constructor; set() of the root makes the generator dirty.           *)
Start ==
  /\ root' = Loaded(NoLines) /\ ini_told' = Loaded(NoLines)
  /\ dirty' = TRUE
  /\ old_st' = NoStat
  /\ at' = "idle" /\ todo' = {} /\ temp' = NoTemp
  /\ looked' = 0 /\ unread' = FALSE

IniInit ==
  /\ root = Loaded(NoLines) /\ ini_told = Loaded(NoLines)
  /\ dirty = TRUE
  /\ old_st = NoStat
  /\ at = "idle" /\ todo = {} /\ temp = NoTemp
  /\ file \in {[there |-> b, ino |-> IF b THEN 1 ELSE 0, ctime |-> 0, sticky |-> FALSE,
                lines |-> NoLines] : b \in BOOLEAN}
  /\ clock = 1
  /\ saved = NoLines /\ looked = 0
  /\ blanked = FALSE /\ unread = FALSE /\ stale = FALSE /\ half = FALSE /\ nchanges = 0

(* set(), which UniTempGen has as well; the root is created again at once. *)
ini_set(k, v) ==
  LET t == IF v = Null THEN Removed(root, k) ELSE Stored(root, k, v)
      u == IF t[Root] = Null THEN Stored(t, Root, Empty) ELSE t
  IN /\ at = "idle" /\ Changes
     /\ root' = u /\ ini_told' = u
     /\ dirty' = (dirty \/ t # root)
     /\ UNCHANGED <<old_st, file, at, temp, todo, clock, saved, half, looked, blanked,
                    unread, stale>>

----------------------------------------------------------------------------
unchanged(st) == st = old_st

Readable == file.there /\ ~file.sticky

(* The keys announced when tree u takes the place of t.                    *)
refreshcomparator(t, u) == Changed(t, u)

(* fstat(), with whose result old_st is overwritten at once, before the    *)
(* file is read.                                                           *)
stat_taken == old_st' = Stat(file) /\ looked' = clock

(* The file cannot be opened, or fstat() fails: statbuf is not             *)
(* initialised, so nothing is on the stack, or what the last call left.    *)
Leftover == {NoStat, old_st}

not_opened ==
  /\ old_st' \in Leftover
  /\ looked' = IF old_st' = old_st THEN looked ELSE clock
  /\ unread' = (unread /\ old_st' = old_st)
  /\ UNCHANGED <<root, ini_told, dirty, half, stale>>

not_whole ==
  /\ file.there /\ file.sticky
  /\ stat_taken
  /\ unread' = (unread /\ old_st' = old_st)
  /\ UNCHANGED <<root, ini_told, dirty, half, stale>>

do_nothing ==
  /\ Readable /\ unchanged(Stat(file))
  /\ stale' = \/ stale
              \/ ~dirty /\ ~unread /\ root # Loaded(file.lines) /\ file.ctime # looked
  /\ UNCHANGED <<old_st, looked, unread, root, ini_told, dirty, half>>

(* The error is found when all has been read; the old tree stays.          *)
not_read ==
  /\ Readable /\ ~unchanged(Stat(file))
  /\ stat_taken
  /\ unread' = TRUE
  /\ UNCHANGED <<root, ini_told, dirty, half, stale>>

switch ==
  /\ Readable /\ ~unchanged(Stat(file))
  /\ stat_taken
  /\ unread' = FALSE
  /\ LET t == Loaded(file.lines)
     IN /\ root' = t
        /\ ini_told' = [k \in Key |->
                        IF k \in refreshcomparator(root, t) THEN t[k] ELSE ini_told[k]]
  /\ dirty' = FALSE
  /\ half' = (half \/ file.lines # saved)
  /\ UNCHANGED stale

refresh ==
  /\ at = "idle"
  /\ not_opened \/ not_whole \/ do_nothing \/ not_read \/ switch
  /\ UNCHANGED <<file, at, temp, todo, clock, saved, blanked, nchanges>>

----------------------------------------------------------------------------
(* commit(), and commit_atomic(): the temporary file is opened.            *)
commit ==
  /\ at = "idle" /\ dirty
  /\ at' = "tmp"
  /\ \E i \in Unused : temp' = [ino |-> i, lines |-> NoLines]
  /\ todo' = Lined(Saved(root))
  /\ UNCHANGED <<root, dirty, ini_told, old_st, file, clock, saved, half, looked, blanked,
                 unread, stale, nchanges>>

(* commit_atomic() cannot make, write or rename its file: the old one is   *)
(* opened and truncated, if it exists or a new one can be made.            *)
commit_fallback ==
  /\ (at = "idle" /\ dirty /\ file.there) \/ at = "tmp"
  /\ at' = "truncated" /\ temp' = NoTemp
  /\ \E i \in IF file.there THEN {file.ino} ELSE {temp.ino} :
       file' = [file EXCEPT !.there = TRUE, !.ino = i, !.ctime = clock, !.lines = NoLines]
  /\ UNCHANGED <<root, dirty, ini_told, old_st, todo, clock, saved, half, looked, blanked,
                 unread, stale, nchanges>>

(* The old one cannot be opened either: the generator stays dirty.         *)
commit_fails ==
  /\ at = "tmp"
  /\ at' = "idle" /\ temp' = NoTemp /\ todo' = {}
  /\ UNCHANGED <<root, dirty, ini_told, old_st, file, clock, saved, half, looked, blanked,
                 unread, stale, nchanges>>

mark ==
  /\ at = "truncated"
  /\ at' = "marked"
  /\ file' = [file EXCEPT !.sticky = TRUE, !.ctime = clock]
  /\ todo' = Lined(Saved(root))
  /\ UNCHANGED <<root, dirty, ini_told, old_st, temp, clock, saved, half, looked, blanked,
                 unread, stale, nchanges>>

(* printkey().                                                             *)
printkey(k) ==
  /\ k \in todo
  /\ todo' = todo \ {k}
  /\ \/ at = "tmp" /\ temp' = [temp EXCEPT !.lines[k] = root[k]] /\ UNCHANGED file
     \/ /\ at = "marked" /\ UNCHANGED temp
        /\ file' = [file EXCEPT !.lines[k] = root[k], !.ctime = clock]
  /\ UNCHANGED <<root, dirty, ini_told, old_st, at, clock, saved, half, looked, blanked,
                 unread, stale, nchanges>>

rename ==
  /\ at = "tmp" /\ todo = {}
  /\ file' = [there |-> TRUE, ino |-> temp.ino, ctime |-> clock, sticky |-> FALSE,
              lines |-> temp.lines]
  /\ saved' = Saved(root)
  /\ at' = "idle" /\ dirty' = FALSE /\ temp' = NoTemp
  /\ UNCHANGED <<root, ini_told, old_st, todo, clock, half, looked, blanked,
                 unread, stale, nchanges>>

(* Mutant of unmark: whatever was written, the mark is taken off.          *)
UnmarkAlways(ok) == [file EXCEPT !.sticky = FALSE, !.ctime = clock]

(* "We only reset the sticky bit if all went well".                        *)
unmark(ok) == IF ok THEN [file EXCEPT !.sticky = FALSE, !.ctime = clock] ELSE file

(* The end of commit() in place; a write may have failed.                  *)
finish ==
  /\ at = "marked"
  /\ file' = unmark(todo = {})
  /\ saved' = IF todo = {} THEN Saved(root) ELSE saved
  /\ at' = "idle" /\ todo' = {} /\ dirty' = FALSE
  /\ UNCHANGED <<root, ini_told, old_st, temp, clock, half, looked, blanked,
                 unread, stale, nchanges>>

----------------------------------------------------------------------------
crash ==
  /\ Changes
  /\ Start
  /\ blanked' = (blanked \/ at = "truncated")
  /\ UNCHANGED <<file, clock, saved, half, stale>>

(* Another program saves the file, in a new inode or in place.             *)
other(l) ==
  /\ at = "idle" /\ Changes
  /\ \E i \in Inode :
       file' = [there |-> TRUE, ino |-> i, ctime |-> clock, sticky |-> FALSE, lines |-> l]
  /\ saved' = l
  /\ UNCHANGED <<root, dirty, ini_told, old_st, at, temp, todo, clock, half, looked,
                 blanked, unread, stale>>

tick ==
  /\ clock < MaxClock
  /\ clock' = clock + 1
  /\ UNCHANGED <<root, dirty, ini_told, old_st, file, at, temp, todo,
                 saved, half, looked, blanked, unread, stale, nchanges>>

IniNext ==
  \/ \E k \in Key, v \in Value \union {Null} : ini_set(k, v)
  \/ refresh \/ commit \/ commit_fallback \/ commit_fails \/ mark \/ rename \/ finish
  \/ \E k \in Key : printkey(k)
  \/ crash \/ tick
  \/ \E t \in Others : other(Saved(t))

IniSpec == IniInit /\ [][IniNext]_inivars

----------------------------------------------------------------------------
(* Wherever the program crashes or a write fails, a file that does not     *)
(* hold the lines last saved as a whole has the sticky bit, but for the    *)
(* moment between its truncation and its mark.                             *)
HalfIsMarked == file.lines = saved \/ file.sticky \/ at = "truncated" \/ blanked

(* refresh() reads no other lines than those.                              *)
LoadsWhole == half => blanked

(* refresh() takes a file for the one that was read only if it is, or was  *)
(* changed in the second in which the file was looked at.  A file whose    *)
(* reading failed is taken for one that was read, too: unread leaves it    *)
(* out, whatever was in it, until another one is read.                     *)
NotStale == ~stale

(* Callbacks tell what becomes of every key when a file is read, also of   *)
(* those below a key that changes itself.                                  *)
ToldOfFile == ini_told = root

----------------------------------------------------------------------------
(* The inductive invariant.                                                *)
IniTypeOK ==
  /\ root \in Tree /\ root[Root] # Null
  /\ ini_told \in Tree
  /\ dirty \in BOOLEAN /\ half \in BOOLEAN /\ blanked \in BOOLEAN
  /\ unread \in BOOLEAN /\ stale \in BOOLEAN
  /\ at \in {"idle", "tmp", "truncated", "marked"}
  /\ file.there \in BOOLEAN /\ file.sticky \in BOOLEAN
  /\ file = [there |-> file.there, ino |-> file.ino, ctime |-> file.ctime,
             sticky |-> file.sticky, lines |-> file.lines]
  /\ file.lines \in Tree /\ temp = [ino |-> temp.ino, lines |-> temp.lines]
  /\ temp.lines \in Tree
  /\ todo \subseteq Key
  /\ file.there => file.ino # 0
  /\ at = "tmp" => temp.ino # 0
  /\ clock \in Nat /\ looked \in Nat /\ file.ctime \in Nat /\ old_st.ctime \in Nat

(* commit() writes its lines into the temporary file, or into the marked   *)
(* one: those of the keys that are not left to do, and no others.          *)
SoFar == [k \in Key |-> IF k \in todo THEN Null ELSE Saved(root)[k]]

WrittenSoFar ==
  /\ at \in {"tmp", "marked"} => todo \subseteq Lined(Saved(root))
  /\ at = "tmp" => temp.lines = SoFar
  /\ at = "truncated" => file.lines = NoLines
  /\ at = "marked" => file.lines = SoFar /\ file.sticky

(* Nothing is looked at or written at a later time than it is.             *)
InTime == old_st.ctime <= looked /\ looked <= clock /\ file.ctime <= clock

(* What refresh() would not read again is what it has read, unless it has  *)
(* changed in the second it was looked at, or by set(), or was not read.   *)
SeenIsLoaded ==
  Readable /\ unchanged(Stat(file)) /\ file.ctime # looked /\ ~dirty /\ ~unread
    => root = Loaded(file.lines)

Trusted == HalfIsMarked /\ LoadsWhole /\ NotStale /\ ToldOfFile

IniInv == IniTypeOK /\ WrittenSoFar /\ InTime /\ SeenIsLoaded /\ Trusted

(* A file that is trusted is whole, and known as it is.                    *)
FileTrusted == IniInv /\ Trusted
============================================================================
