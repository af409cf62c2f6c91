------------------------- MODULE MCUniConfProtocol -------------------------
(***************************************************************************)
(* UniConfProtocol over a few small sets of keys.                          *)
(***************************************************************************)
EXTENDS UniConfProtocol, SequencesExt

MCTwoKey == {<<>>, <<"a">>}

MCFourKey == {<<>>, <<"a">>, <<"a", "c">>, <<"b">>}

MCPrefix == {<<p, k>> \in Key \X Key : IsPrefix(p, k)}

(* The first client issues two requests, every other one a single one.     *)
MCTwoAndOne == [c \in Client |-> IF c = 1 THEN 2 ELSE 1]

MCFourAndOne == [c \in Client |-> IF c = 1 THEN 4 ELSE 1]

MCGetSet == [c \in Client |-> {"get", "set"}]

MCRemovals == [c \in Client |-> {"set", "quit", "commit"}]

MCAskAndSetv ==
  [c \in Client |-> IF c = 1 THEN {"get", "commit", "subt", "setv"} ELSE {"get", "hchild"}]

FullTree == [k \in Key |-> Empty]

MCOne == [c \in Client |-> 1]

(* Clients that may issue equally many requests are interchangeable.       *)
MCSymmetry == Permutations(Client)

MCRoot == <<>>
============================================================================
