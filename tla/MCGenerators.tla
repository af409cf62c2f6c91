---------------------------- MODULE MCGenerators ----------------------------
(***************************************************************************)
(* UniTempGen, and the generators built on other generators, side by side: *)
(* every behaviour belongs to one of the parts and leaves the variables of *)
(* the others alone, so that the instance is as large as the sum of the    *)
(* parts.                                                                  *)
(*                                                                         *)
(* UniTempGen and UniTransactionGen have the root, a section and a key in  *)
(* it; UniReplicateGen a remote and a local generator with two keys, or a  *)
(* local and two remote ones with one key, the remote ones being added     *)
(* later.  UniIniGen has the same keys as UniTempGen.                      *)
(***************************************************************************)
EXTENDS UniTempGen, UniIniGen, UniTransactionGen, SequencesExt

VARIABLES
  part,
  replica, notices, link, was_ok, rtold, replicated, missed, asking, ret, nrepchanges,
  nfails

repvars ==
  <<replica, notices, link, was_ok, rtold, replicated, missed, asking, ret, nrepchanges, nfails>>

MCKey == {<<>>, <<"a">>, <<"a", "c">>}

MCPrefix == {<<p, k>> \in Key \X Key : IsPrefix(p, k)}

MCRoot == <<>>

MCTree == [k \in Key |-> IF k = <<>> THEN "" ELSE "v"]

Pair == INSTANCE UniReplicateGen WITH
  RepKey <- {"k1", "k2"}, RepValue <- {"v", "w"}, RepNull <- "null",
  Remote <- <<TRUE, FALSE>>, Given <- {1, 2}, MaxChanges <- 2, MaxFails <- 1,
  tree <- replica, queue <- notices, told <- rtold, synced <- replicated, nchanges <- nrepchanges

Three == INSTANCE UniReplicateGen WITH
  RepKey <- {"k1"}, RepValue <- {"v", "w"}, RepNull <- "null",
  Remote <- <<TRUE, FALSE, TRUE>>, Given <- {2}, MaxChanges <- 2, MaxFails <- 2,
  tree <- replica, queue <- notices, told <- rtold, synced <- replicated, nchanges <- nrepchanges

(* Trees with a value on the upper or on the lower level.                  *)
SavedByOthers ==
  {[k \in Key |-> CASE k = <<>> -> "" [] k = <<"a">> -> v[1] [] OTHER -> v[2]] :
     v \in {<<"v", Null>>, <<"", "v">>}}

SuiteInit ==
  /\ part \in {"temp", "transaction", "pair", "three", "ini"}
  /\ Init
  /\ TransactionInit
  /\ IF part = "three" THEN Three!Init ELSE Pair!Init
  /\ part \notin {"pair", "three"} =>
       replica = [r \in 1 .. 2 |-> [k \in {"k1", "k2"} |-> "null"]]
  /\ IniInit /\ (part # "ini" => file.there)

(* Bounds: the third value is only for the transaction, whose callbacks    *)
(* have to tell two values that are not empty apart: its calls set keys to *)
(* one of them, others to the other one, where that makes a difference.    *)
(* The root is removed and created again, but not set, as in UniTempGen.   *)
OfTwo(t) == \A k \in Key : t[k] \in {"", "v", Null}

OwnValues ==
  /\ \A i \in DOMAIN log' : log'[i][2] # "v" /\ log'[i] # <<Root, "w">>
  /\ nothers' # nothers => /\ tx_base' # tx_base
                           /\ \A k \in Key : tx_base'[k] = "w" => tx_base[k] = "w"
                           /\ tx_base'[Root] # "v"

(* Bound: the last of the changes is not a set(), unless it leaves what a  *)
(* crash does.                                                             *)
SetsFirst ==
  nchanges' = MaxChanges /\ nchanges # nchanges' =>
    root' = root \/ (root' = Loaded(NoLines) /\ old_st' = NoStat)

SuiteNext ==
  /\ UNCHANGED part
  /\ \/ /\ part = "temp" /\ Next /\ OfTwo(tree') /\ tree'[Root] # "v"
        /\ UNCHANGED <<transactionvars, repvars, inivars>>
     \/ /\ part = "transaction" /\ TransactionNext /\ OwnValues
        /\ UNCHANGED <<vars, repvars, inivars>>
     \/ part = "pair" /\ Pair!Next /\ UNCHANGED <<vars, transactionvars, inivars>>
     \/ part = "three" /\ Three!Next /\ UNCHANGED <<vars, transactionvars, inivars>>
     \/ /\ part = "ini" /\ IniNext /\ OfTwo(root') /\ SetsFirst
        /\ UNCHANGED <<vars, transactionvars, repvars>>

SuiteSpec == SuiteInit /\ [][SuiteNext]_<<part, vars, transactionvars, repvars, inivars>>

----------------------------------------------------------------------------
(* UniReplicateGen: with no notice on its way, all generators replicated   *)
(* since they were last ok hold the same, and callbacks know it.           *)
ReplicasAgree ==
  /\ part = "pair" => Pair!TypeOK /\ Pair!ReplicasAgree
  /\ part = "three" => Three!TypeOK /\ Three!ReplicasAgree

(* UniReplicateGen: get() returns what callbacks were told, even if the    *)
(* connections it tries first are found to be broken.                      *)
GetSurvivesFailure ==
  [][/\ part = "pair" => Pair!GetAnswers
     /\ part = "three" => Three!GetAnswers]_repvars
============================================================================
