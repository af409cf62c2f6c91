-------------------------- MODULE UniReplicateGen --------------------------
(***************************************************************************)
(* UniReplicateGen: a list of generators kept equal to one another.  Each  *)
(* is a UniTempGen, which makes its callbacks before set() returns, or a   *)
(* client of a remote UniConf (through UniRetryGen), whose notices arrive  *)
(* later and whose connection breaks and comes back.                       *)
(*                                                                         *)
(* Keys are those below the root, one level.  A generator's position in    *)
(* the list is its number, generators not added yet being "absent".  A     *)
(* call works on the whole state, so the helpers below take the state as a *)
(* record s and return the next one.                                       *)
(***************************************************************************)
EXTENDS Naturals, Sequences, SequencesExt, FiniteSetsExt

CONSTANTS
  RepKey, RepValue, RepNull,
  Remote,      \* Remote[r]: generator r is a client of a remote UniConf
  Given,       \* the generators given to the constructor
  MaxChanges,  \* bound: set() calls, of the replicator and of others
  MaxFails     \* bound: connections lost

VARIABLES
  tree,     \* tree[r]: what generator r holds, where it really is
  queue,    \* queue[r]: notices on their way from r
  link,     \* link[r]: "absent", "ok", "broken" (nobody noticed) or "down"
  was_ok,   \* Gen::was_ok
  told,     \* the tree as the replicator's callbacks have described it
  synced,   \* history: replicate() has included r since it was last ok
  missed,   \* history: keys whose last notice was lost with its connection
  asking,   \* the key get() is looking for, in its loop
  ret,      \* the key and value of a get() that has just returned
  nchanges, nfails

genvars == <<tree, queue, link, was_ok, told, synced, missed>>
vars == <<genvars, asking, ret, nchanges, nfails>>

Gen == DOMAIN Remote
Nobody == 0
RepTree == [RepKey -> RepValue \union {RepNull}]

State == [tree |-> tree, queue |-> queue, link |-> link, was_ok |-> was_ok,
          told |-> told, synced |-> synced, missed |-> missed]

Become(after) ==
  \E s \in {after} :
    /\ tree' = s.tree /\ queue' = s.queue /\ link' = s.link
    /\ was_ok' = s.was_ok /\ told' = s.told
    /\ synced' = s.synced /\ missed' = s.missed

Isok(s, r) == s.link[r] \in {"ok", "broken"}

First(s) == Min({r \in Gen : Isok(s, r)} \union {Len(Remote) + 1})

None(s) == First(s) > Len(Remote)

(* first_ok() looks at the generators up to the first that is ok, and      *)
(* every look is remembered in was_ok.                                     *)
first_ok(s) ==
  [s EXCEPT !.was_ok = [r \in Gen |-> IF r <= First(s) THEN Isok(s, r) ELSE @[r]]]

----------------------------------------------------------------------------
(* Mutant of deltacallback: the change is passed to later generators only. *)
DeltaDownwards(s, src, k, v) ==
  LET sent == {r \in Gen \ {src} : r > src /\ s.link[r] = "ok" /\ s.tree[r][k] # v}
  IN [s EXCEPT !.tree = [r \in Gen |-> IF r \in sent THEN [@[r] EXCEPT ![k] = v] ELSE @[r]],
               !.queue = [r \in Gen |-> IF r \in sent /\ Remote[r]
                                          THEN Append(@[r], <<k, v>>) ELSE @[r]],
               !.was_ok = [r \in Gen |-> Isok(s, r)],
               !.told[k] = v, !.missed = @ \ {k}]

(* A change in src is made in all others that are ok (what is sent over a  *)
(* broken connection is lost) and announced.  The callbacks the others     *)
(* make meanwhile are ignored, but notices come later.                     *)
deltacallback(s, src, k, v) ==
  LET sent == {r \in Gen \ {src} : s.link[r] = "ok" /\ s.tree[r][k] # v}
  IN [s EXCEPT !.tree = [r \in Gen |-> IF r \in sent THEN [@[r] EXCEPT ![k] = v] ELSE @[r]],
               !.queue = [r \in Gen |-> IF r \in sent /\ Remote[r]
                                          THEN Append(@[r], <<k, v>>) ELSE @[r]],
               !.was_ok = [r \in Gen |-> Isok(s, r)],
               !.told[k] = v, !.missed = @ \ {k}]

(* set() on generator r, outside of any callback.                          *)
SetOn(s, r, k, v) ==
  IF s.link[r] # "ok" \/ s.tree[r][k] = v THEN s
  ELSE LET t == [s EXCEPT !.tree[r][k] = v]
       IN IF Remote[r] THEN [t EXCEPT !.queue[r] = Append(@, <<k, v>>)]
          ELSE deltacallback(t, r, k, v)

(* A call to generator r that waits for the answer: the notices that come  *)
(* first are dispatched, and a broken connection is found out.             *)
Ask(s, r) ==
  IF s.link[r] = "broken" THEN [s EXCEPT !.link[r] = "down"]
  ELSE FoldLeft(LAMBDA u, n : deltacallback(u, r, n[1], n[2]),
                [s EXCEPT !.queue[r] = <<>>], s.queue[r])

Keys(s, r) == SetToSeq({k \in RepKey : s.link[r] = "ok" /\ s.tree[r][k] # RepNull})

(* replicate(): what first has goes to all, and what first lacks to first. *)
Spread(a, first) ==
  FoldLeft(LAMBDA u, k : deltacallback(u, first, k, u.tree[first][k]), a, Keys(a, first))

AddMissing(e, first, k, v) ==
  IF e.link[first] = "ok" /\ e.tree[first][k] # RepNull THEN e ELSE SetOn(e, first, k, v)

Collect(a, first, r) ==
  FoldLeft(LAMBDA u, k : AddMissing(Ask(u, first), first, k, a.tree[r][k]), a, Keys(a, r))

Replicated(s, first, t) ==
  [t EXCEPT !.synced = [r \in Gen |-> @[r] \/
                                 (~None(s) /\ t.link[r] = "ok" /\ t.link[first] = "ok")]]

replicate(s) ==
  LET first == First(s)
      visit(u, r) == IF ~Isok(u, r) THEN [u EXCEPT !.was_ok[r] = FALSE]
                     ELSE IF r = first THEN Spread(Ask([u EXCEPT !.was_ok[r] = TRUE], first), first)
                     ELSE Collect(Ask([u EXCEPT !.was_ok[r] = TRUE], r), first, r)
  IN Replicated(s, first, FoldLeft(visit, s, [r \in Gen |-> r]))

replicate_if_any_have_become_ok(s) ==
  LET back == {r \in Gen : ~s.was_ok[r] /\ Isok(s, r)}
  IN IF back = {} THEN s
     ELSE replicate([s EXCEPT !.was_ok = [r \in Gen |-> @[r] \/ r \in back]])

----------------------------------------------------------------------------
NoAnswer == [key |-> RepNull, value |-> RepNull]

(* The constructor, given a list of generators.                            *)
Constructed(t) ==
  replicate([tree |-> t, told |-> [k \in RepKey |-> RepNull],
             queue |-> [r \in Gen |-> <<>>],
             link |-> [r \in Gen |-> IF r \in Given THEN "ok" ELSE "absent"],
             was_ok |-> [r \in Gen |-> r \in Given],
             synced |-> [r \in Gen |-> FALSE], missed |-> {}])

Init ==
  /\ \E s \in {Constructed(t) : t \in [Gen -> RepTree]} :
       /\ tree = s.tree /\ queue = s.queue /\ link = s.link
       /\ was_ok = s.was_ok /\ told = s.told
       /\ synced = s.synced /\ missed = s.missed
  /\ asking = RepNull /\ ret = NoAnswer
  /\ nchanges = 0 /\ nfails = 0

(* A call of the user's, while none is in progress.                        *)
Call(s) ==
  /\ asking = RepNull
  /\ Become(s)
  /\ ret' = NoAnswer
  /\ UNCHANGED <<asking, nfails>>

(* append() and prepend() of generator r.                                  *)
add(r) ==
  /\ link[r] = "absent"
  /\ LET there == {q \in Gen : link[q] # "absent"}
     IN (\A q \in there : q < r) \/ (\A q \in there : q > r)
  /\ Call(replicate([State EXCEPT !.link[r] = "ok", !.was_ok[r] = TRUE]))
  /\ UNCHANGED nchanges

(* What a call first does.                                                 *)
Ready == first_ok(replicate_if_any_have_become_ok(State))

set(k, v) ==
  /\ nchanges < MaxChanges
  /\ nchanges' = nchanges + 1
  /\ \E s \in {Ready} : Call(IF None(s) THEN s ELSE SetOn(s, First(s), k, v))

(* get(): one round of its loop each time, as connections may break while  *)
(* it waits.                                                               *)
get(k) ==
  /\ asking = RepNull
  /\ asking' = k
  /\ ret' = NoAnswer
  /\ UNCHANGED <<genvars, nchanges, nfails>>

(* Mutant of get_loop: what a broken connection yields is the answer.      *)
GetOnce ==
  /\ asking # RepNull
  /\ \E s \in {Ready} :
     LET a == Ask(s, First(s))
         answer == IF ~None(s) /\ a.link[First(s)] = "ok" THEN a.tree[First(s)][asking]
                   ELSE RepNull
     IN /\ asking' = RepNull
        /\ ret' = [key |-> asking, value |-> answer]
        /\ Become(IF None(s) THEN s ELSE a)
  /\ UNCHANGED <<nchanges, nfails>>

get_loop ==
  /\ asking # RepNull
  /\ \E s \in {Ready} :
       \/ /\ None(s)
          /\ asking' = RepNull
          /\ ret' = [key |-> asking, value |-> RepNull]
          /\ Become(s)
       \/ /\ ~None(s)
          /\ \E a \in {Ask(s, First(s))} :
               IF a.link[First(s)] = "ok"
                 THEN /\ asking' = RepNull
                      /\ ret' = [key |-> asking, value |-> a.tree[First(s)][asking]]
                      /\ Become(a)
               ELSE /\ Become(first_ok(a))
                    /\ UNCHANGED <<asking, ret>>
  /\ UNCHANGED <<nchanges, nfails>>

iterator ==
  /\ \E s \in {Ready} : Call(IF None(s) THEN s ELSE Ask(s, First(s)))
  /\ UNCHANGED nchanges

isok ==
  /\ Call(first_ok(State))
  /\ UNCHANGED nchanges

(* commit() and refresh() go to all generators, and wait for each.         *)
refresh ==
  /\ Call(FoldLeft(Ask, replicate_if_any_have_become_ok(State),
                   SetToSeq({r \in Gen : link[r] # "absent"})))
  /\ UNCHANGED nchanges

----------------------------------------------------------------------------
(* A notice arrives in the event loop.                                     *)
notice(r) ==
  /\ link[r] = "ok" /\ queue[r] # <<>>
  /\ Call(LET n == Head(queue[r])
          IN deltacallback([State EXCEPT !.queue[r] = Tail(@)], r, n[1], n[2]))
  /\ UNCHANGED nchanges

(* The event loop finds a broken connection.                               *)
lost(r) ==
  /\ link[r] = "broken"
  /\ Call([State EXCEPT !.link[r] = "down"])
  /\ UNCHANGED nchanges

fail(r) ==
  /\ Remote[r] /\ link[r] = "ok" /\ nfails < MaxFails
  /\ nfails' = nfails + 1
  /\ Become([State EXCEPT !.link[r] = "broken", !.queue[r] = <<>>, !.synced[r] = FALSE,
                          !.missed = @ \union {n[1] : n \in ToSet(queue[r])}])
  /\ ret' = NoAnswer
  /\ UNCHANGED <<asking, nchanges>>

(* UniRetryGen has connected again.                                        *)
restore(r) ==
  /\ link[r] = "down"
  /\ Call([State EXCEPT !.link[r] = "ok"])
  /\ UNCHANGED nchanges

(* Somebody else changes what generator r holds.                           *)
other(r, k, v) ==
  /\ nchanges < MaxChanges
  /\ nchanges' = nchanges + 1
  /\ Remote[r] \/ asking = RepNull
  /\ tree[r][k] # v
  /\ Become(IF link[r] = "ok" THEN SetOn(State, r, k, v) ELSE [State EXCEPT !.tree[r][k] = v])
  /\ ret' = NoAnswer
  /\ UNCHANGED <<asking, nfails>>

Next ==
  \/ \E r \in Gen : add(r) \/ notice(r) \/ lost(r) \/ fail(r) \/ restore(r)
  \/ \E k \in RepKey : get(k)
  \/ get_loop
  \/ iterator \/ isok \/ refresh
  \/ \E k \in RepKey, v \in RepValue \union {RepNull} :
       set(k, v) \/ \E r \in Gen : other(r, k, v)

Spec == Init /\ [][Next]_vars

----------------------------------------------------------------------------
(* Every variable has its type.                                            *)
TypeOK ==
  /\ tree \in [Gen -> RepTree] /\ told \in RepTree
  /\ \A r \in Gen : \A n \in ToSet(queue[r]) : n \in RepKey \X (RepValue \union {RepNull})
  /\ link \in [Gen -> {"absent", "ok", "broken", "down"}]
  /\ was_ok \in [Gen -> BOOLEAN] /\ synced \in [Gen -> BOOLEAN]
  /\ asking \in RepKey \union {RepNull} /\ missed \subseteq RepKey

Synced == {r \in Gen : link[r] = "ok" /\ synced[r]}

Quiet == \A r \in Gen : link[r] = "ok" => queue[r] = <<>>

(* "They will both have the value of the earlier generator" and "the new   *)
(* value will be set in all generators irrespective of priority": with no  *)
(* notice on its way, all generators replicated since they were last ok    *)
(* hold the same, and callbacks know it, whoever changed what and whatever *)
(* failed in between, except for keys whose notice was lost with its       *)
(* connection.                                                             *)
ReplicasAgree ==
  Quiet => \A r \in Synced, k \in RepKey \ missed : tree[r][k] = told[k]

GetAnswers ==
  asking # RepNull /\ asking' = RepNull /\ Quiet' /\ ret'.key \notin missed'
    /\ Synced' # {} /\ Synced' = {r \in Gen : link'[r] = "ok"}
  => ret'.value = told'[ret'.key]

(* "It's possible that first has become !isok(); we must take care of this *)
(* case carefully": as long as the generators that are ok are replicated   *)
(* ones, get() returns what callbacks were told, even if the connections   *)
(* it tries first are found to be broken.                                  *)
GetSurvivesFailure == [][GetAnswers]_vars
============================================================================
