------------------------------ MODULE MCRemote ------------------------------
(***************************************************************************)
(* What stands between a program and generators that come and go, side by  *)
(* side as in MCGenerators: UniCacheGen over the root, two sections and a  *)
(* key in one of them, which the daemon all has loaded; UniRetryGen;       *)
(* UniMountGen and UniConfRoot over two generators whose keys may cover    *)
(* one another, with three watches.                                        *)
(***************************************************************************)
EXTENDS UniCacheGen, UniRetryGen, SequencesExt

VARIABLES
  part,
  mounts, mounted, watches, known, nsteps

mountvars == <<mounts, mounted, watches, known, nsteps>>
suitevars == <<part, vars, retryvars, mountvars>>

MCKey == {<<>>, <<"a">>, <<"b">>, <<"a", "b">>}

MCPrefix == {<<p, k>> \in Key \X Key : IsPrefix(p, k)}

MCRoot == <<>>

MCTree == [k \in Key |-> IF k = <<>> THEN "" ELSE "v"]

MCTreeWithEmpty == [k \in Key |-> IF k \in {<<>>, <<"b">>} THEN "" ELSE "v"]

Watches ==
  {[key |-> <<>>, recurse |-> TRUE],
   [key |-> <<"a">>, recurse |-> FALSE],
   [key |-> <<"a", "b">>, recurse |-> FALSE]}

Mount == INSTANCE UniMountGen WITH
  Value <- {"", "v"},
  MountGen <- {"g", "h"}, GenTree <- {EmptyTree, MCTree}, Watch <- Watches,
  MaxMountSteps <- 4,
  tree <- mounted

SuiteInit ==
  /\ part \in {"cache", "retry", "mount"}
  /\ Init
  /\ RetryInit /\ (part # "retry" => server)
  /\ Mount!Init /\ (part # "mount" => \A g \in DOMAIN mounted : mounted[g] = EmptyTree)

SuiteNext ==
  /\ UNCHANGED part
  /\ \/ part = "cache" /\ Next /\ UNCHANGED <<retryvars, mountvars>>
     \/ part = "retry" /\ RetryNext /\ UNCHANGED <<vars, mountvars>>
     \/ part = "mount" /\ Mount!Next /\ UNCHANGED <<vars, retryvars>>

(* The fairness of UniCacheGen and of UniRetryGen.                         *)
SuiteFairness ==
  /\ WF_vars(part = "cache" /\ do_subtree) /\ WF_vars(part = "cache" /\ conncallback)
  /\ WF_retryvars(part = "retry" /\ call)
  /\ WF_retryvars(part = "retry" /\ tick)
  /\ WF_retryvars(part = "retry" /\ found_broken)

SuiteSpec == SuiteInit /\ [][SuiteNext]_suitevars /\ SuiteFairness

----------------------------------------------------------------------------
(* UniRetryGen: once the server stays up, the generator is connected.      *)
ConnectsAgain == part = "retry" => Reconnects

(* UniConfRoot: a watcher that looks when told knows the values, whatever  *)
(* is set, mounted over its keys or uncovered by an unmount; and the keys  *)
(* that lead to a mount exist.                                             *)
WatchersCurrent ==
  part = "mount" => Mount!TypeOK /\ Mount!WatchersCurrent /\ Mount!MountPathExists
============================================================================
