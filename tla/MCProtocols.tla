---------------------------- MODULE MCProtocols ----------------------------
(***************************************************************************)
(* UniConfProtocol in two small instances: short calls by clients whose    *)
(* callbacks call as well and whose connections fail, and a client that    *)
(* lists, in pieces, what another one changes.  Every behaviour belongs to *)
(* one of them.                                                            *)
(***************************************************************************)
EXTENDS UniConfProtocol, SequencesExt

VARIABLE part

MCKey == {<<>>, <<"a">>, <<"b">>}

MCPrefix == {<<p, k>> \in Key \X Key : IsPrefix(p, k)}

MCRoot == <<>>

MCOp == <<{"get", "set", "subt"}, {"hchild", "set"}>>

(* Each part bounds the requests by itself.                                *)
MCReq == <<2, 2>>

MCTree == [k \in Key |-> IF k = <<"b">> THEN Null ELSE Empty]

(* Client 1 issues two requests, client 2 one; neither uses the key b.     *)
Short ==
  /\ nreq'[2] <= 1
  /\ \A c \in Client : \A i \in DOMAIN c2s'[c] :
       c2s'[c][i].op # "subt" /\ c2s'[c][i].key # <<"b">>

(* Client 1 lists what client 2 changes.                                   *)
Listing ==
  /\ \A i \in DOMAIN c2s'[1] : c2s'[1][i].op = "subt"
  /\ \A i \in DOMAIN c2s'[2] : c2s'[2][i].op \in {"set", "del"}
  /\ \A c \in Client : Len(stack'[c]) <= 1
  /\ up' = Client /\ attached' = Client

SuiteInit == Init /\ part \in {"short", "listing"}

SuiteNext ==
  /\ UNCHANGED part
  /\ Next
  /\ part = "short" => Short
  /\ part = "listing" => Listing

SuiteSpec == SuiteInit /\ [][SuiteNext]_<<part, vars>>
============================================================================
