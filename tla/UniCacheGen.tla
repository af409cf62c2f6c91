---------------------------- MODULE UniCacheGen ----------------------------
(***************************************************************************)
(* UniCacheGen in front of a UniClientGen: the first refresh() asks the    *)
(* daemon for a recursive listing and stores it, and from its construction *)
(* on the cache applies the notifications it is given.                     *)
(*                                                                         *)
(* The listing is produced by do_subtree from the recursive iterator of    *)
(* the daemon's generator, which looks into the tree as it goes while the  *)
(* daemon serves other clients in between; entries and notices travel on   *)
(* one stream.  The client holds notices back until the listing is         *)
(* complete, dispatches them, and only then returns the listing to the     *)
(* cache, which stores it.                                                 *)
(***************************************************************************)
EXTENDS UniConfTree

CONSTANTS
  Loaded,     \* what the daemon has loaded
  MaxSets     \* bound: number of changes to the daemon's tree

ASSUME CacheAssumption ==
  /\ Loaded \in Tree /\ PrefixClosed(Loaded)
  /\ MaxSets \in Nat
  /\ Null \notin Key

VARIABLES
  tree,     \* the daemon's tree
  levels,   \* the recursive iterator: names left at each level, deepest last
  entered,  \* the entry it looks below next, Null if none
  stream,   \* messages from the daemon to the client
  load,     \* "before", "asked" or "done" with the first refresh()
  listed,   \* entries received, in order
  held,     \* notices received while the listing is awaited
  cache,    \* the tree of the cache itself
  racing,   \* history: keys changed while the listing was produced
  nsets     \* changes so far

vars == <<tree, levels, entered, stream, load, listed, held, cache, racing, nsets>>

Message ==
  [type : {"VAL", "NOTICE", "OK", "FAIL"}, key : Key, value : Value \union {Null}]

Msg(type, key, value) == [type |-> type, key |-> key, value |-> value]

Init ==
  /\ tree = Loaded
  /\ levels = <<>>
  /\ entered = Null
  /\ stream = <<>>
  /\ load = "before"
  /\ listed = <<>>
  /\ held = <<>>
  /\ cache = EmptyTree
  /\ racing = {}
  /\ nsets = 0

----------------------------------------------------------------------------
(* The daemon.                                                             *)

Walking == levels # <<>>

(* Some client, this one perhaps, sets or removes a key.                   *)
Change(t, s) ==
  /\ nsets < MaxSets
  /\ nsets' = nsets + 1
  /\ tree' = t
  /\ stream' = stream \o [i \in DOMAIN s |-> Msg("NOTICE", s[i], t[s[i]])]
  /\ racing' = IF Walking THEN racing \union Changed(tree, t) ELSE racing
  /\ UNCHANGED <<levels, entered, load, listed, held, cache>>

set(k, v) ==
  LET t == Stored(tree, k, v) IN \E s \in TopDown(Changed(tree, t)) : Change(t, s)

remove(k) ==
  LET t == Removed(tree, k) IN \E s \in BottomUp(Changed(tree, t)) : Change(t, s)

Advanced == WalkOn(tree, levels, entered)
Deepest == Advanced[Len(Advanced)]

(* Mutant of do_subtree: the listing ends without an OK.                   *)
SubtreeEndsSilently ==
  /\ Walking
  /\ IF Advanced = <<>>
       THEN /\ levels' = <<>>
            /\ entered' = Null
            /\ UNCHANGED stream
       ELSE \E e \in Deepest :
              /\ stream' = Append(stream, Msg("VAL", e, tree[e]))
              /\ levels' = WalkPast(Advanced, e)
              /\ entered' = e
  /\ UNCHANGED <<tree, load, listed, held, cache, racing, nsets>>

(* do_subtree writes the next entry, with its value of this moment (an     *)
(* entry that is gone is ignored by the client), or the final OK.          *)
do_subtree ==
  /\ Walking
  /\ IF Advanced = <<>>
       THEN /\ stream' = Append(stream, Msg("OK", Root, Null))
            /\ levels' = <<>>
            /\ entered' = Null
       ELSE \E e \in Deepest :
              /\ stream' = Append(stream, Msg("VAL", e, tree[e]))
              /\ levels' = WalkPast(Advanced, e)
              /\ entered' = e
  /\ UNCHANGED <<tree, load, listed, held, cache, racing, nsets>>

----------------------------------------------------------------------------
(* The client and the cache.                                               *)

(* refresh(), the first time: the request reaches the daemon, which takes  *)
(* the first level's names (or answers FAIL if there is no root node).     *)
refresh ==
  /\ load = "before"
  /\ load' = "asked"
  /\ IF Exists(tree, Root)
       THEN levels' = <<Existing(tree, Root)>> /\ UNCHANGED stream
       ELSE stream' = Append(stream, Msg("FAIL", Root, Null)) /\ UNCHANGED levels
  /\ UNCHANGED <<tree, entered, listed, held, cache, racing, nsets>>

(* A notice is applied.                                                    *)
deltacallback(t, m) == TempSet(t, m.key, m.value)

(* Mutant of loadtree: entries are stored under the root only.             *)
LoadFirstLevel(t, m) ==
  IF m.value \in {Null, Empty} \/ m.key \notin Children(Root) THEN t
  ELSE TempSet(t, m.key, m.value)

(* loadtree stores an entry of the listing, unless its value is empty.     *)
loadtree(t, m) ==
  IF m.value \in {Null, Empty} THEN t ELSE TempSet(t, m.key, m.value)

Taken(t, m) == IF m.type = "VAL" THEN loadtree(t, m) ELSE deltacallback(t, m)

(* The cache after the messages ms, in order.                              *)
Filled(t, ms) ==
  LET after[n \in 0 .. Len(ms)] == IF n = 0 THEN t ELSE Taken(after[n - 1], ms[n])
  IN after[Len(ms)]

(* The client and the cache, and what a message does to them.              *)
Local == [load |-> load, listed |-> listed, held |-> held, cache |-> cache]

Received(r, m) ==
  CASE m.type = "VAL" -> [r EXCEPT !.listed = Append(@, m)]
    [] m.type = "NOTICE" /\ r.load = "asked" -> [r EXCEPT !.held = Append(@, m)]
    [] m.type = "NOTICE" /\ r.load # "asked" -> [r EXCEPT !.cache = deltacallback(@, m)]
    [] m.type \in {"OK", "FAIL"} ->
         [load |-> "done", held |-> <<>>, listed |-> <<>>,
          cache |-> Filled(Filled(r.cache, r.held), r.listed)]

(* One message is read: by do_select while the listing is awaited, by the  *)
(* main loop or by flush_buffers in get() otherwise.                       *)
conncallback ==
  /\ stream # <<>>
  /\ stream' = Tail(stream)
  /\ \E r \in {Received(Local, Head(stream))} :
       load' = r.load /\ listed' = r.listed /\ held' = r.held /\ cache' = r.cache
  /\ UNCHANGED <<tree, levels, entered, racing, nsets>>

Next ==
  \/ \E k \in Key, v \in Value : set(k, v)
  \/ \E k \in Key : remove(k)
  \/ do_subtree
  \/ refresh
  \/ conncallback

Spec == Init /\ [][Next]_vars

(* The daemon goes on with a listing it has begun, and the client's select *)
(* loop runs (the class comment warns that the cache depends on it).       *)
FairSpec == Spec /\ WF_vars(do_subtree) /\ WF_vars(conncallback)

----------------------------------------------------------------------------
(* Every variable has its type, and both trees have a node for every       *)
(* parent of a node, in whatever order entries and notices are stored.     *)
TypeOK ==
  /\ tree \in Tree /\ PrefixClosed(tree)
  /\ cache \in Tree /\ PrefixClosed(cache)
  /\ load \in {"before", "asked", "done"}
  /\ levels \in Seq(SUBSET Key)
  /\ entered \in Key \union {Null}
  /\ stream \in Seq(Message) /\ listed \in Seq(Message) /\ held \in Seq(Message)
  /\ racing \subseteq Key
  /\ nsets \in 0 .. MaxSets

(* The cache has been loaded and has read everything the daemon sent.      *)
CaughtUp == load = "done" /\ stream = <<>>

(* Tree c has the values of t but in the keys D and for empty values.      *)
Agrees(c, t, D) ==
  \A k \in Key \ D : c[k] = t[k] \/ (t[k] = Empty /\ c[k] = Null)

(* A cache that caught up has the value of every key that did not change   *)
(* while the listing was produced, but for empty values and the value of   *)
(* the root itself, which loadtree leaves out.                             *)
CacheAgrees == CaughtUp => Agrees(cache, tree, racing \union {Root})

(* Both trees hang together, whatever entries and notices are stored when, *)
(* and of a key that did not change while it was listed the cache holds    *)
(* what the daemon has.                                                    *)
CacheCurrent == TypeOK /\ CacheAgrees

(* The inductive invariant says what the client and the cache come to when *)
(* the stream is read, and the cache with the notices held back.           *)
Read(r, ms) ==
  LET after[n \in 0 .. Len(ms)] == IF n = 0 THEN r ELSE Received(after[n - 1], ms[n])
  IN after[Len(ms)]

End == Read(Local, stream)
AtEnd == Filled(End.cache, End.held)

(* Tree c has keys of tree t, some of them only as parents of others.      *)
PartOf(c, t) == \A k \in Key : Exists(c, k) => Exists(t, k) /\ c[k] \in {t[k], Empty}

(* Of keys that did not change the listing ms has the value they have, and *)
(* it has what is below a key only if that exists.                         *)
ListedTrue(ms) ==
  \A i \in DOMAIN ms : ms[i].type = "VAL" /\ \A k \in PathTo(ms[i].key) \ racing :
    /\ k = ms[i].key => ms[i].value = tree[k]
    /\ ms[i].value # Null => Exists(tree, k)

(* The listing has come to them, or will.                                  *)
ToCome(k) ==
  \/ \E i \in DOMAIN levels : \E p \in levels[i] : <<p, k>> \in Prefix
  \/ entered # Null /\ entered # k /\ <<entered, k>> \in Prefix

AllListed(ms) ==
  \A k \in Key \ (racing \union {Root}) :
    Exists(tree, k) => ToCome(k) \/ \E i \in DOMAIN ms : ms[i].key = k

CacheInv ==
  /\ TypeOK
  /\ load = "before" => /\ held = <<>> /\ listed = <<>> /\ racing = {}
                        /\ \A i \in DOMAIN stream : stream[i].type = "NOTICE"
  /\ Walking <=> End.load = "asked"
  /\ Walking => ListedTrue(End.listed) /\ AllListed(End.listed)
  /\ ~Walking => entered = Null /\ End.held = <<>>
  /\ End.load # "done" => PartOf(AtEnd, tree)
  /\ End.load = "done" => Agrees(AtEnd, tree, racing \union {Root})

(* The first refresh() ends, and the cache keeps catching up.              *)
RefreshEnds == load = "asked" ~> CaughtUp
============================================================================
