------------------------------- MODULE WvDBus -------------------------------
(***************************************************************************)
(* WvDBusConn, in its clients, and WvDBusServer, which passes messages     *)
(* from one connection to another by name.  Every client has a connection  *)
(* of its own; its unique name on the bus is the client itself.            *)
(*                                                                         *)
(* A message keeps the serial number its sender gave it; the numbers of    *)
(* two clients collide, since each counts from the same value.  A reply    *)
(* carries the number of what it answers, and callbacks wait for it by     *)
(* that number.                                                            *)
(***************************************************************************)
EXTENDS Naturals, Sequences, FiniteSets

CONSTANTS
  Client,      \* the clients
  Early,       \* those that are connected at the start
  Name,        \* names they may ask for
  Nobody,      \* NULL, and a blank destination
  Bus,         \* the destination org.freedesktop.DBus
  MaxSends,    \* bound: messages clients send of their own accord
  MaxCloses,   \* bound: connections that are lost
  MaxExpiries  \* bound: calls that time out

(* Unique names and names one may ask for are not mixed up.                *)
ASSUME DBusAssumption ==
  /\ Early \subseteq Client
  /\ Nobody \notin Client \union Name
  /\ Bus \notin Client \union Name \union {Nobody}
  /\ Client \intersect Name = {}

VARIABLES
  link,     \* "open"; "closed" by its client; "dead", which the server knows;
            \* "gone", after conn_closed()
  cauth,    \* WvDBusConn::authorized of the client
  sauth,    \* WvDBusServerAuth::state, "done" when authorized
  cqueue,   \* out_queue of the client
  squeue,   \* out_queue of the server's end
  up, down, \* what is on its way to the server, and to the client
  owner,    \* WvDBusServer::name_to_conn
  pending,  \* WvDBusConn::pending, serial numbers
  serial,   \* the last serial number of a client
  answers,  \* history: the callbacks made: [call, of], a call being <<client, serial>>
  lost,     \* history: the calls that were lost with a connection, or whose replies were
  nsends, nexpiries

authvars == <<cauth, sauth, cqueue, squeue>>
vars == <<link, authvars, up, down, owner, pending, serial, answers, lost, nsends, nexpiries>>

Line(word) == [type |-> word]

(* A message of type t from c, about name n; of is the call it belongs to. *)
Msg(t, dest, n, s, rserial, of) ==
  [type |-> t, dest |-> dest, name |-> n, sender |-> Nobody, serial |-> s,
   rserial |-> rserial, of |-> of]

(* WvDBusMsg::reply() and WvDBusError: back to the sender, if it is known. *)
ReplyTo(m, t, s) == Msg(t, m.sender, Nobody, s, m.serial, m.of)

Lines == {"AUTH", "OK", "BEGIN"}
CallsIn(q) == {q[i].of : i \in {i \in DOMAIN q : q[i].type \notin Lines}}

----------------------------------------------------------------------------
(* The client's end.                                                       *)

(* send(): messages wait in out_queue until the client is authorized.      *)
send(c, m) ==
  IF cauth[c] THEN up' = [up EXCEPT ![c] = Append(@, m)] /\ UNCHANGED cqueue
  ELSE cqueue' = [cqueue EXCEPT ![c] = Append(@, m)] /\ UNCHANGED up

(* What send_hello() queues.  No callback waits for AddMatch's reply.      *)
Hello(c) == <<Msg("Hello", Bus, Nobody, 1, 0, <<c, 1>>), Msg("AddMatch", Bus, Nobody, 2, 0, <<c, 2>>)>>

(* init(): Hello is queued first, then the authorization begins; the       *)
(* clients in Early have gone through it.                                  *)
Init ==
  /\ link = [c \in Client |-> "open"]
  /\ cauth = [c \in Client |-> c \in Early]
  /\ sauth = [c \in Client |-> IF c \in Early THEN "done" ELSE "AuthWait"]
  /\ cqueue = [c \in Client |-> IF c \in Early THEN <<>> ELSE Hello(c)]
  /\ squeue = [c \in Client |-> <<>>]
  /\ up = [c \in Client |-> IF c \in Early THEN <<>> ELSE <<Line("AUTH")>>]
  /\ down = [c \in Client |-> <<>>]
  /\ owner = [n \in Name |-> Nobody]
  /\ pending = [c \in Client |-> IF c \in Early THEN {} ELSE {1}]
  /\ serial = [c \in Client |-> 2]
  /\ answers = {} /\ lost = {}
  /\ nsends = 0 /\ nexpiries = 0

(* send() of something new; with a callback it is pending.                 *)
Sends(c, t, dest, n, wait) ==
  /\ link[c] = "open" /\ nsends < MaxSends
  /\ nsends' = nsends + 1
  /\ serial' = [serial EXCEPT ![c] = @ + 1]
  /\ send(c, Msg(t, dest, n, serial'[c], 0, <<c, serial'[c]>>))
  /\ pending' = IF wait THEN [pending EXCEPT ![c] = @ \union {serial'[c]}] ELSE pending
  /\ UNCHANGED <<link, cauth, sauth, squeue, down, owner, answers, lost, nexpiries>>

InFlight(n, types) ==
  \E c \in Client : \E q \in {up[c], cqueue[c]} : \E i \in DOMAIN q :
    q[i].type \in types /\ q[i].name = n

call(c, dest) == Sends(c, "call", dest, Nobody, TRUE)

signal(c) == Sends(c, "signal", Nobody, Nobody, FALSE)

(* No client asks for a name that is just being released, nor releases one *)
(* that somebody else may have got: the server asserts that the name is    *)
(* still the connection's.                                                 *)
request_name(c, n) == ~InFlight(n, {"ReleaseName"}) /\ Sends(c, "RequestName", Bus, n, TRUE)

release_name(c, n) ==
  /\ owner[n] = c
  /\ ~InFlight(n, {"RequestName", "ReleaseName"})
  /\ Sends(c, "ReleaseName", Bus, n, TRUE)

Answer(c, s, of) == answers' = answers \union {[call |-> <<c, s>>, of |-> of]}

(* The timeout of a call: its callback gets an error.                      *)
expire_pending(c, s) ==
  /\ link[c] = "open" /\ s \in pending[c] /\ nexpiries < MaxExpiries
  /\ nexpiries' = nexpiries + 1
  /\ pending' = [pending EXCEPT ![c] = @ \ {s}]
  /\ Answer(c, s, <<c, s>>)
  /\ UNCHANGED <<link, authvars, up, down, owner, serial, lost, nsends>>

(* try_auth() at the client: on the server's OK, BEGIN and all that waits. *)
client_auth(c) ==
  /\ link[c] = "open" /\ down[c] # <<>> /\ ~cauth[c]
  /\ down' = [down EXCEPT ![c] = Tail(@)]
  /\ up' = [up EXCEPT ![c] = Append(@, Line("BEGIN")) \o cqueue[c]]
  /\ cqueue' = [cqueue EXCEPT ![c] = <<>>]
  /\ cauth' = [cauth EXCEPT ![c] = TRUE]
  /\ UNCHANGED <<link, sauth, squeue, owner, pending, serial, answers, lost, nsends, nexpiries>>

(* filter_func() at the client: a reply that is waited for goes to its     *)
(* callback, a call is answered, and nobody wants the rest.                *)
filter_func(c) ==
  /\ link[c] = "open" /\ down[c] # <<>> /\ cauth[c]
  /\ LET m == Head(down[c]) IN
     /\ IF m.rserial # 0 /\ m.rserial \in pending[c]
          THEN /\ Answer(c, m.rserial, m.of)
               /\ pending' = [pending EXCEPT ![c] = @ \ {m.rserial}]
          ELSE UNCHANGED <<answers, pending>>
     /\ IF m.type = "call"
          THEN /\ serial' = [serial EXCEPT ![c] = @ + 1]
               /\ send(c, ReplyTo(m, "reply", serial'[c]))
          ELSE UNCHANGED <<serial, up, cqueue>>
  /\ down' = [down EXCEPT ![c] = Tail(@)]
  /\ UNCHANGED <<link, cauth, sauth, squeue, owner, lost, nsends, nexpiries>>

----------------------------------------------------------------------------
(* The server.                                                             *)

(* WvDBusServerAuth::authorize().                                          *)
server_auth(c) ==
  /\ link[c] \in {"open", "closed"} /\ up[c] # <<>> /\ sauth[c] # "done"
  /\ up' = [up EXCEPT ![c] = Tail(@)]
  /\ IF sauth[c] = "AuthWait"
       THEN /\ sauth' = [sauth EXCEPT ![c] = "BeginWait"]
            /\ down' = [down EXCEPT ![c] = Append(@, Line("OK"))]
            /\ UNCHANGED squeue
       ELSE /\ sauth' = [sauth EXCEPT ![c] = "done"]
            /\ down' = [down EXCEPT ![c] = @ \o squeue[c]]
            /\ squeue' = [squeue EXCEPT ![c] = <<>>]
  /\ UNCHANGED <<link, cauth, cqueue, owner, pending, serial, answers, lost, nsends, nexpiries>>

(* send() of m at the server's ends of the connections in D.               *)
SendTo(D, m) ==
  LET on(d) == d \in D /\ link[d] = "open"
  IN /\ down' = [d \in Client |-> IF on(d) /\ sauth[d] = "done" THEN Append(down[d], m) ELSE down[d]]
     /\ squeue' = [d \in Client |-> IF on(d) /\ sauth[d] # "done" THEN Append(squeue[d], m) ELSE squeue[d]]
     /\ lost' = IF m.type # "signal" /\ \E d \in D : link[d] \in {"closed", "dead"}
                  THEN lost \union {m.of} ELSE lost

(* do_server_msg(): a request to the bus itself.                           *)
do_server_msg(c, m) ==
  /\ m.dest = Bus
  /\ owner' = CASE m.type = "RequestName" -> [owner EXCEPT ![m.name] = c]
                [] m.type = "ReleaseName" -> [owner EXCEPT ![m.name] = Nobody]
                [] OTHER -> owner
  /\ SendTo({c}, ReplyTo(m, "reply", 0))

(* name_to_conn.find(): unique names are registered with the connection.   *)
FindConn(dest) ==
  IF dest \in Name THEN owner[dest]
  ELSE IF link[dest] # "gone" THEN dest ELSE Nobody

(* Mutant of do_bridge_msg: the sender is not filled in.                   *)
BridgeAnonymous(c, m) ==
  /\ m.dest \notin {Bus, Nobody} /\ FindConn(m.dest) # Nobody
  /\ SendTo({FindConn(m.dest)}, m)
  /\ UNCHANGED owner

do_bridge_msg(c, m) ==
  /\ m.dest \notin {Bus, Nobody} /\ FindConn(m.dest) # Nobody
  /\ SendTo({FindConn(m.dest)}, [m EXCEPT !.sender = c])
  /\ UNCHANGED owner

do_broadcast_msg(m) ==
  /\ m.dest = Nobody
  /\ SendTo({d \in Client : link[d] # "gone"}, m)
  /\ UNCHANGED owner

(* Mutant of do_gaveup_msg: nobody is told.                                *)
GaveupSilently(c, m) ==
  /\ m.dest \notin {Bus, Nobody} /\ FindConn(m.dest) = Nobody
  /\ UNCHANGED <<owner, down, squeue, lost>>

do_gaveup_msg(c, m) ==
  /\ m.dest \notin {Bus, Nobody} /\ FindConn(m.dest) = Nobody
  /\ SendTo({c}, ReplyTo(m, "error", 0))
  /\ UNCHANGED owner

server_filter(c) ==
  /\ link[c] \in {"open", "closed"} /\ up[c] # <<>> /\ sauth[c] = "done"
  /\ LET m == Head(up[c])
     IN do_server_msg(c, m) \/ do_bridge_msg(c, m) \/ do_broadcast_msg(m) \/ do_gaveup_msg(c, m)
  /\ up' = [up EXCEPT ![c] = Tail(@)]
  /\ UNCHANGED <<link, cauth, sauth, cqueue, pending, serial, answers, nsends, nexpiries>>

----------------------------------------------------------------------------
(* The connection is lost at the client; the server may still read some of *)
(* what was sent, until it notices; conn_closed() runs some time later.    *)
close(c) ==
  /\ link[c] = "open"
  /\ Cardinality({d \in Client : link[d] # "open"}) < MaxCloses
  /\ link' = [link EXCEPT ![c] = "closed"]
  /\ lost' = lost \union CallsIn(down[c]) \union CallsIn(squeue[c])
  /\ down' = [down EXCEPT ![c] = <<>>]
  /\ squeue' = [squeue EXCEPT ![c] = <<>>]
  /\ UNCHANGED <<cauth, sauth, cqueue, up, owner, pending, serial, answers, nsends, nexpiries>>

server_close(c) ==
  /\ link[c] = "closed"
  /\ link' = [link EXCEPT ![c] = "dead"]
  /\ lost' = lost \union CallsIn(up[c])
  /\ up' = [up EXCEPT ![c] = <<>>]
  /\ UNCHANGED <<authvars, down, owner, pending, serial, answers, nsends, nexpiries>>

unregister_conn(c) == [n \in Name |-> IF owner[n] = c THEN Nobody ELSE owner[n]]

conn_closed(c) ==
  /\ link[c] = "dead"
  /\ link' = [link EXCEPT ![c] = "gone"]
  /\ owner' = unregister_conn(c)
  /\ UNCHANGED <<authvars, up, down, pending, serial, answers, lost, nsends, nexpiries>>

Next ==
  \E c \in Client :
    \/ \E d \in Client \union Name : call(c, d)
    \/ signal(c)
    \/ \E n \in Name : request_name(c, n) \/ release_name(c, n)
    \/ \E s \in pending[c] : expire_pending(c, s)
    \/ client_auth(c) \/ filter_func(c)
    \/ server_auth(c) \/ server_filter(c)
    \/ close(c) \/ server_close(c) \/ conn_closed(c)

(* Both ends read what has arrived; no call need ever time out.            *)
Fairness ==
  \A c \in Client : WF_vars(\/ client_auth(c) \/ filter_func(c)
                            \/ server_auth(c) \/ server_filter(c))

Spec == Init /\ [][Next]_vars /\ Fairness

----------------------------------------------------------------------------
(* Authorization and messages share the stream: each end gets the line its *)
(* state waits for, and no message before it or line after it, whatever    *)
(* the user sends, calls or broadcasts in the meantime.                    *)
AuthInStep ==
  \A c \in Client :
    /\ up[c] # <<>> =>
         CASE sauth[c] = "AuthWait"  -> Head(up[c]).type = "AUTH"
           [] sauth[c] = "BeginWait" -> Head(up[c]).type = "BEGIN"
           [] OTHER                  -> Head(up[c]).type \notin Lines
    /\ down[c] # <<>> => (Head(down[c]).type = "OK" <=> ~cauth[c])

(* A callback gets the reply to its own call, although the clients' serial *)
(* numbers collide, names change hands and replies come late.              *)
OwnReply == \A a \in answers : a.of = a.call

(* "calling onreply() when the reply comes in or the messages times out":  *)
(* never both.                                                             *)
AnsweredOnce == \A a \in answers : a.call[2] \notin pending[a.call[1]]

(* The server has no name for a connection that has been deleted.          *)
NoDanglingName == \A n \in Name : owner[n] # Nobody => link[owner[n]] # "gone"

(* Calls are answered without waiting for their timeouts, with a reply or  *)
(* an error, unless the connection of either side was lost under them:     *)
(* once nobody sends any more, nothing else stays pending.                 *)
CallsAnswered ==
  <>[](\A c \in Client : link[c] = "open" => \A s \in pending[c] : <<c, s>> \in lost)

----------------------------------------------------------------------------
(* The inductive invariant.                                                *)
Types ==
  {"Hello", "AddMatch", "call", "signal", "RequestName", "ReleaseName", "reply", "error"}

Message ==
  [type : Types, dest : Client \union Name \union {Bus, Nobody},
   name : Name \union {Nobody}, sender : Client \union {Nobody},
   serial : Nat, rserial : Nat, of : Client \X Nat]

OnWire == Message \union {Line(w) : w \in Lines}

TypeOK ==
  /\ link \in [Client -> {"open", "closed", "dead", "gone"}]
  /\ cauth \in [Client -> BOOLEAN]
  /\ sauth \in [Client -> {"AuthWait", "BeginWait", "done"}]
  /\ cqueue \in [Client -> Seq(Message)] /\ squeue \in [Client -> Seq(Message)]
  /\ up \in [Client -> Seq(OnWire)] /\ down \in [Client -> Seq(OnWire)]
  /\ owner \in [Name -> Client \union {Nobody}]
  /\ serial \in [Client -> Nat]
  /\ pending \in [Client -> SUBSET Nat]
  /\ answers \subseteq [call : Client \X Nat, of : Client \X Nat]

(* Numbers that wait for a reply, or have waited for one, have been used.  *)
Numbers ==
  /\ \A c \in Client : pending[c] \subseteq 1 .. serial[c]
  /\ \A a \in answers : a.call[2] <= serial[a.call[1]]

(* What a client sends is about itself, or it replies to the call of some  *)
(* client, under a number that waits for nothing.                          *)
Sent(c) ==
  {m \in Message :
     /\ m.serial \in 1 .. serial[c]
     /\ \/ /\ m.type \notin {"reply", "error"} /\ m.rserial = 0 /\ m.of = <<c, m.serial>>
           /\ m.dest = Nobody => m.type = "signal"
        \/ /\ m.type = "reply" /\ m.serial \notin pending[c]
           /\ m.dest \in Client /\ m.rserial \in 1 .. serial[m.dest]
           /\ m.of = <<m.dest, m.rserial>>}

(* What a client receives answers what it waits for, or nothing it waits   *)
(* for; and a call says whose call it is.                                  *)
Received(c) ==
  {m \in Message :
     /\ m.rserial <= serial[c]
     /\ m.rserial \in pending[c] => m.of = <<c, m.rserial>>
     /\ m.type = "call" =>
          m.sender \in Client /\ m.serial \in 1 .. serial[m.sender]
            /\ m.of = <<m.sender, m.serial>>}

Queued ==
  \A c \in Client : cqueue[c] \in Seq(Sent(c)) /\ squeue[c] \in Seq(Received(c))

(* The stages of the authorization, and what is on its way in each.        *)
Waiting(c) ==
  sauth[c] = "AuthWait" /\ ~cauth[c] /\ up[c] \in {<<>>, <<Line("AUTH")>>} /\ down[c] = <<>>

Told(c) ==
  sauth[c] = "BeginWait" /\ ~cauth[c] /\ up[c] = <<>> /\ down[c] \in {<<>>, <<Line("OK")>>}

Begun(c) ==
  /\ sauth[c] = "BeginWait" /\ cauth[c] /\ down[c] = <<>>
  /\ IF up[c] = <<>> THEN link[c] # "open"
     ELSE Head(up[c]) = Line("BEGIN") /\ Tail(up[c]) \in Seq(Sent(c))

Done(c) ==
  /\ sauth[c] = "done" /\ cauth[c]
  /\ up[c] \in Seq(Sent(c)) /\ down[c] \in Seq(Received(c))

Stage(c) == Waiting(c) \/ Told(c) \/ Begun(c) \/ Done(c)

DBusInv ==
  /\ TypeOK /\ Numbers /\ Queued /\ \A c \in Client : Stage(c)
  /\ OwnReply /\ AnsweredOnce /\ NoDanglingName

(* Replies get to their calls, once, over streams that authorization and   *)
(* messages share, and by names that lead to connections.                  *)
CallsRouted == DBusInv /\ OwnReply /\ AnsweredOnce /\ AuthInStep /\ NoDanglingName
============================================================================
