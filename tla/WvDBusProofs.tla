---------------------------- MODULE WvDBusProofs ----------------------------
(***************************************************************************)
(* For any number of clients and names: callbacks get the replies to their *)
(* own calls and once only, each end of a connection gets the lines and    *)
(* messages it is ready for, and no name leads to a deleted connection.    *)
(*                                                                         *)
(* The argument: serial numbers only grow, and a number that once waited   *)
(* for a reply never waits again; so a message that was rightly addressed  *)
(* when it was sent (Sent, Received) is so for as long as it is under way. *)
(***************************************************************************)
EXTENDS WvDBus, TLAPS

LEMMA SeqGrows ==
  ASSUME NEW A, NEW B, A \subseteq B, NEW s \in Seq(A)
  PROVE  s \in Seq(B)
OBVIOUS

(* Sequences of messages as they are read and written.                     *)
LEMMA TailFacts ==
  ASSUME NEW A, NEW s \in Seq(A), s # <<>>
  PROVE  Head(s) \in A /\ Tail(s) \in Seq(A)
OBVIOUS

LEMMA AppendFacts ==
  ASSUME NEW A, NEW s \in Seq(A), NEW m \in A
  PROVE  /\ Append(s, m) \in Seq(A) /\ Append(s, m) # <<>>
         /\ s # <<>> => /\ Head(Append(s, m)) = Head(s)
                        /\ Tail(Append(s, m)) = Append(Tail(s), m)
<1>1. Append(s, m) \in Seq(A) /\ Append(s, m) # <<>>
  <2>1. Append(s, m) \in Seq(A) /\ Len(Append(s, m)) = Len(s) + 1 /\ Len(s) \in Nat
    OBVIOUS
  <2> QED
    BY <2>1
<1>2. ASSUME s # <<>>
      PROVE  Head(Append(s, m)) = Head(s) /\ Tail(Append(s, m)) = Append(Tail(s), m)
  BY <1>2
<1> QED
  BY <1>1, <1>2

LEMMA ConcatFact ==
  ASSUME NEW A, NEW s \in Seq(A), NEW t \in Seq(A)
  PROVE  s \o t \in Seq(A)
OBVIOUS

(* A line and what follows it.                                             *)
LEMMA LineFacts ==
  ASSUME NEW A, NEW s \in Seq(A), NEW l \in A
  PROVE  /\ <<l>> \in Seq(A) /\ <<l>> # <<>> /\ Head(<<l>>) = l /\ Tail(<<l>>) = <<>>
         /\ Append(<<>>, l) = <<l>>
         /\ <<l>> \o s \in Seq(A) /\ <<l>> \o s # <<>>
         /\ Head(<<l>> \o s) = l /\ Tail(<<l>> \o s) = s
         /\ <<>> \o s = s
<1>1. <<l>> \in Seq(A) /\ <<l>> # <<>> /\ Head(<<l>>) = l /\ Tail(<<l>>) = <<>>
  OBVIOUS
<1>2. Append(<<>>, l) = <<l>> /\ <<>> \o s = s
  OBVIOUS
<1>3. <<l>> \o s \in Seq(A) /\ <<l>> \o s # <<>> /\ Head(<<l>> \o s) = l
  OBVIOUS
<1>4. Tail(<<l>> \o s) = s
  OBVIOUS
<1> QED
  BY <1>1, <1>2, <1>3, <1>4

(* The serial numbers of a step only grow, and only new ones are waited    *)
(* for.                                                                    *)
Growing ==
  /\ serial' \in [Client -> Nat] /\ pending' \in [Client -> SUBSET Nat]
  /\ \A c \in Client :
       serial[c] <= serial'[c] /\ \A s \in pending'[c] : s \in pending[c] \/ s > serial[c]

(* A number a client has used stays used.                                  *)
LEMMA UsedStays ==
  ASSUME TypeOK, serial' \in [Client -> Nat], NEW d \in Client, serial[d] <= serial'[d],
         NEW i \in 1 .. serial[d]
  PROVE  i \in 1 .. serial'[d]
<1>1. serial[d] \in Nat /\ serial'[d] \in Nat
  BY DEF TypeOK
<1> QED
  BY <1>1

(* What was rightly sent stays so.                                         *)
LEMMA MessagesStay ==
  ASSUME TypeOK, Growing, NEW c \in Client
  PROVE  Sent(c) \subseteq Sent(c)' /\ Received(c) \subseteq Received(c)'
<1>1. ASSUME NEW m \in Sent(c)
      PROVE  m \in Sent(c)'
  <2>1. m \in Message /\ m.serial \in 1 .. serial'[c]
    BY DEF Sent, Growing, TypeOK
  <2>2. m.serial \notin pending[c] => m.serial \notin pending'[c]
    BY DEF Sent, Growing, TypeOK
  <2>3. ASSUME m.dest \in Client, m.rserial \in 1 .. serial[m.dest]
        PROVE  m.rserial \in 1 .. serial'[m.dest]
    BY <2>3, UsedStays DEF Growing
  <2> QED
    BY <2>1, <2>2, <2>3 DEF Sent
<1>2. ASSUME NEW m \in Received(c)
      PROVE  m \in Received(c)'
  <2>1. m \in Message /\ m.rserial \in Nat /\ m.rserial <= serial[c]
    BY DEF Received, Message
  <2>2. m.rserial <= serial'[c] /\ (m.rserial \in pending'[c] => m.rserial \in pending[c])
    BY <2>1 DEF Growing, TypeOK
  <2>3. ASSUME m.sender \in Client, m.serial \in 1 .. serial[m.sender]
        PROVE  m.serial \in 1 .. serial'[m.sender]
    BY <2>3, UsedStays DEF Growing
  <2> QED
    BY <2>1, <2>2, <2>3 DEF Received
<1> QED
  BY <1>1, <1>2

(* A connection nothing is read from or written to stays where it is.      *)
LEMMA StageStays ==
  ASSUME NEW c \in Client, Sent(c) \subseteq Sent(c)', Received(c) \subseteq Received(c)',
         Stage(c), link'[c] = "open" => link[c] = "open",
         up'[c] = up[c], down'[c] = down[c], sauth'[c] = sauth[c], cauth'[c] = cauth[c]
  PROVE  Stage(c)'
<1>1. CASE Waiting(c)
  BY <1>1 DEF Waiting, Stage
<1>2. CASE Told(c)
  BY <1>2 DEF Told, Stage
<1>3. CASE Begun(c)
  <2>1. up[c] # <<>> => Tail(up[c]) \in Seq(Sent(c)')
    BY <1>3, SeqGrows DEF Begun
  <2> QED
    BY <1>3, <2>1 DEF Begun, Stage
<1>4. CASE Done(c)
  <2>1. up[c] \in Seq(Sent(c)') /\ down[c] \in Seq(Received(c)')
    BY <1>4, SeqGrows DEF Done
  <2> QED
    BY <1>4, <2>1 DEF Done, Stage
<1> QED
  BY <1>1, <1>2, <1>3, <1>4 DEF Stage

(* A client's send() of what it may send.                                  *)
LEMMA SendKeeps ==
  ASSUME DBusInv, NEW c \in Client, NEW m \in Sent(c)', send(c, m), Growing,
         link[c] = "open", UNCHANGED <<link, cauth, sauth, squeue>>,
         \A d \in Client : down'[d] = down[d]
                             \/ (sauth[d] = "done" /\ down'[d] \in Seq(Received(d)'))
  PROVE  Queued' /\ (\A d \in Client : Stage(d)')
         /\ up' \in [Client -> Seq(OnWire)] /\ cqueue' \in [Client -> Seq(Message)]
<1>1. \A d \in Client : Sent(d) \subseteq Sent(d)' /\ Received(d) \subseteq Received(d)'
  BY MessagesStay DEF DBusInv
<1>2. m \in Message /\ m \in OnWire
  BY DEF Sent, OnWire
<1>3. TypeOK /\ Queued /\ \A d \in Client : Stage(d)
  BY DEF DBusInv
<1>4. CASE cauth[c]
  <2>1. up' = [up EXCEPT ![c] = Append(up[c], m)] /\ UNCHANGED cqueue
    BY <1>4 DEF send
  <2>2. up'[c] = Append(up[c], m) /\ \A d \in Client \ {c} : up'[d] = up[d]
    BY <1>3, <2>1 DEF TypeOK
  <2>3. Append(up[c], m) \in Seq(OnWire)
    BY <1>2, <1>3, AppendFacts DEF TypeOK
  <2>4. up' \in [Client -> Seq(OnWire)] /\ cqueue' \in [Client -> Seq(Message)]
    BY <1>3, <2>1, <2>3 DEF TypeOK
  <2>5. Queued'
    BY <1>1, <1>3, <2>1, SeqGrows DEF Queued
  <2>6. ASSUME NEW d \in Client, down'[d] # down[d] \/ d = c
        PROVE  Stage(d)'
    <3>1. CASE Begun(d)
      <4>1. d = c /\ down'[d] = down[d] /\ up[c] # <<>>
        BY <2>6, <3>1 DEF Begun
      <4>2. Head(up[c]) = Line("BEGIN") /\ Tail(up[c]) \in Seq(Sent(c)')
        BY <1>1, <3>1, <4>1, SeqGrows DEF Begun
      <4>3. up[c] \in Seq(OnWire)
        BY <1>3 DEF TypeOK
      <4>4. Head(up'[c]) = Line("BEGIN") /\ Tail(up'[c]) = Append(Tail(up[c]), m) /\ up'[c] # <<>>
        BY <1>2, <2>2, <4>1, <4>2, <4>3, AppendFacts
      <4>5. Tail(up'[c]) \in Seq(Sent(c)')
        BY <4>2, <4>4, AppendFacts, ZenonT(30)
      <4> QED
        BY <3>1, <4>1, <4>4, <4>5 DEF Begun, Stage
    <3>2. CASE Done(d)
      <4>1. up[d] \in Seq(Sent(d)') /\ down[d] \in Seq(Received(d)')
        BY <1>1, <3>2, SeqGrows DEF Done
      <4>2. up'[d] \in Seq(Sent(d)')
        <5>1. CASE d = c
          <6>1. m \in Sent(d)'
            BY <5>1 DEF Sent
          <6>2. Append(up[d], m) \in Seq(Sent(d)')
            BY <4>1, <6>1, AppendFacts
          <6> QED
            BY <2>2, <5>1, <6>2
        <5>2. CASE d # c
          BY <2>2, <4>1, <5>2
        <5> QED
          BY <5>1, <5>2
      <4> QED
        BY <3>2, <4>1, <4>2 DEF Done, Stage
    <3> QED
      BY <1>3, <1>4, <2>6, <3>1, <3>2 DEF Stage, Waiting, Told
  <2>7. ASSUME NEW d \in Client, down'[d] = down[d], d # c
        PROVE  Stage(d)'
    BY <1>1, <1>3, <2>2, <2>7, StageStays
  <2> QED
    BY <2>4, <2>5, <2>6, <2>7
<1>5. CASE ~cauth[c]
  <2>1. cqueue' = [cqueue EXCEPT ![c] = Append(cqueue[c], m)] /\ UNCHANGED up
    BY <1>5 DEF send
  <2>2. cqueue'[c] = Append(cqueue[c], m) /\ \A d \in Client \ {c} : cqueue'[d] = cqueue[d]
    BY <1>3, <2>1 DEF TypeOK
  <2>3. Append(cqueue[c], m) \in Seq(Message)
    BY <1>2, <1>3, AppendFacts DEF TypeOK
  <2>4. up' \in [Client -> Seq(OnWire)] /\ cqueue' \in [Client -> Seq(Message)]
    BY <1>3, <2>1, <2>3 DEF TypeOK
  <2>5. \A d \in Client : cqueue[d] \in Seq(Sent(d)') /\ squeue[d] \in Seq(Received(d)')
    BY <1>1, <1>3, SeqGrows DEF Queued
  <2>6. Append(cqueue[c], m) \in Seq(Sent(c)')
    BY <2>5, AppendFacts
  <2>7. Queued'
    BY <2>2, <2>5, <2>6 DEF Queued
  <2>8. ASSUME NEW d \in Client, down'[d] # down[d]
        PROVE  Stage(d)'
    <3>1. Done(d)
      BY <1>3, <2>8 DEF Stage, Waiting, Told, Begun
    <3>2. up[d] \in Seq(Sent(d)')
      BY <1>1, <3>1, SeqGrows DEF Done
    <3> QED
      BY <2>1, <2>8, <3>1, <3>2 DEF Done, Stage
  <2>9. ASSUME NEW d \in Client, down'[d] = down[d]
        PROVE  Stage(d)'
    BY <1>1, <1>3, <2>1, <2>9, StageStays
  <2> QED
    BY <2>4, <2>7, <2>8, <2>9
<1> QED
  BY <1>4, <1>5

(* The server's send() of what the clients in D may receive, while it has  *)
(* read a message of c.                                                    *)
LEMMA SendToKeeps ==
  ASSUME DBusInv, NEW c \in Client, NEW D \in SUBSET Client, NEW m \in Message,
         \A d \in D : m \in Received(d),
         SendTo(D, m), sauth[c] = "done", up[c] # <<>>,
         up' = [up EXCEPT ![c] = Tail(@)],
         UNCHANGED <<link, cauth, sauth, cqueue, pending, serial>>
  PROVE  Queued' /\ (\A d \in Client : Stage(d)')
         /\ up' \in [Client -> Seq(OnWire)] /\ down' \in [Client -> Seq(OnWire)]
         /\ squeue' \in [Client -> Seq(Message)]
<1>1. TypeOK /\ Queued /\ \A d \in Client : Stage(d)
  BY DEF DBusInv
<1>2. Growing
  BY <1>1 DEF TypeOK, Growing
<1>3. \A d \in Client : Sent(d) \subseteq Sent(d)' /\ Received(d) \subseteq Received(d)'
  BY <1>1, <1>2, MessagesStay
<1>4. m \in OnWire
  BY DEF OnWire
<1>5. ASSUME NEW d \in Client
      PROVE  /\ down'[d] = down[d]
                \/ (down'[d] = Append(down[d], m) /\ d \in D /\ sauth[d] = "done")
             /\ squeue'[d] = squeue[d] \/ (squeue'[d] = Append(squeue[d], m) /\ d \in D)
             /\ up'[d] = IF d = c THEN Tail(up[c]) ELSE up[d]
  BY <1>1 DEF SendTo, TypeOK
<1>6. down' = [d \in Client |-> down'[d]] /\ squeue' = [d \in Client |-> squeue'[d]]
  BY DEF SendTo
<1>7. Tail(up[c]) \in Seq(OnWire)
  BY <1>1, TailFacts DEF TypeOK
<1>8. up' \in [Client -> Seq(OnWire)]
  BY <1>1, <1>7 DEF TypeOK
<1>9. \A d \in Client : Append(down[d], m) \in Seq(OnWire) /\ Append(squeue[d], m) \in Seq(Message)
  BY <1>1, <1>4, AppendFacts DEF TypeOK
<1>10. \A d \in Client : down'[d] \in Seq(OnWire) /\ squeue'[d] \in Seq(Message)
  BY <1>1, <1>5, <1>9 DEF TypeOK
<1>11. down' \in [Client -> Seq(OnWire)] /\ squeue' \in [Client -> Seq(Message)]
  BY <1>6, <1>10
<1>12. Queued'
  <2>1. ASSUME NEW d \in Client
        PROVE  cqueue'[d] \in Seq(Sent(d)') /\ squeue'[d] \in Seq(Received(d)')
    <3>1. cqueue[d] \in Seq(Sent(d)') /\ squeue[d] \in Seq(Received(d)')
      BY <1>1, <1>3, SeqGrows DEF Queued
    <3>2. ASSUME d \in D
          PROVE  Append(squeue[d], m) \in Seq(Received(d)')
      <4>1. m \in Received(d)'
        BY <1>3, <3>2
      <4> QED
        BY <3>1, <4>1, AppendFacts
    <3> QED
      BY <1>5, <3>1, <3>2
  <2> QED
    BY <2>1 DEF Queued
<1>13. ASSUME NEW d \in Client
       PROVE  Stage(d)'
  <2>1. CASE sauth[d] # "done"
    <3>1. down'[d] = down[d] /\ up'[d] = up[d]
      BY <1>5, <2>1
    <3> QED
      BY <1>1, <1>3, <3>1, StageStays
  <2>2. CASE sauth[d] = "done"
    <3>1. Done(d)
      BY <1>1, <2>2 DEF Stage, Waiting, Told, Begun
    <3>2. up[d] \in Seq(Sent(d)') /\ down[d] \in Seq(Received(d)')
      BY <1>3, <3>1, SeqGrows DEF Done
    <3>3. up'[d] \in Seq(Sent(d)')
      <4>1. d = c => Tail(up[d]) \in Seq(Sent(d)')
        BY <3>2, TailFacts
      <4> QED
        BY <1>5, <3>2, <4>1
    <3>4. ASSUME d \in D
          PROVE  Append(down[d], m) \in Seq(Received(d)')
      <4>1. m \in Received(d)'
        BY <1>3, <3>4
      <4> QED
        BY <3>2, <4>1, AppendFacts
    <3>5. down'[d] \in Seq(Received(d)')
      BY <1>5, <3>2, <3>4
    <3> QED
      BY <3>1, <3>3, <3>5 DEF Done, Stage
  <2> QED
    BY <2>1, <2>2
<1> QED
  BY <1>8, <1>11, <1>12, <1>13

(* What the server says to what a client has sent goes back to a number    *)
(* the client has given, and to the right one if it waits.                 *)
LEMMA RepliesFit ==
  ASSUME TypeOK, Numbers, NEW c \in Client, NEW m \in Sent(c),
         NEW t \in {"reply", "error"}
  PROVE  ReplyTo(m, t, 0) \in Received(c) /\ ReplyTo(m, t, 0) \in Message
<1> DEFINE r == ReplyTo(m, t, 0)
<1>1. /\ r.type = t /\ r.dest = m.sender /\ r.name = Nobody /\ r.sender = Nobody
      /\ r.serial = 0 /\ r.rserial = m.serial /\ r.of = m.of
      /\ r = [type |-> t, dest |-> m.sender, name |-> Nobody, sender |-> Nobody,
              serial |-> 0, rserial |-> m.serial, of |-> m.of]
  BY DEF ReplyTo, Msg
<1>2. m \in Message
  BY DEF Sent
<1>3. m.sender \in Client \union {Nobody} /\ m.serial \in Nat /\ m.of \in Client \X Nat
  BY <1>2 DEF Message
<1>4. r \in Message
  BY <1>1, <1>3 DEF Message, Types
<1>5. m.serial \in 1 .. serial[c]
  BY DEF Sent
<1>6. m.serial \in pending[c] => m.of = <<c, m.serial>>
  BY DEF Sent
<1> HIDE DEF r
<1>7. r.rserial <= serial[c] /\ (r.rserial \in pending[c] => r.of = <<c, r.rserial>>)
  BY <1>1, <1>5, <1>6 DEF TypeOK
<1>8. r.type # "call"
  BY <1>1
<1>9. r \in Received(c)
  BY <1>4, <1>7, <1>8 DEF Received
<1> QED
  BY <1>4, <1>9 DEF r

(* A message that is passed on, with its sender filled in.                 *)
LEMMA BridgeFits ==
  ASSUME TypeOK, Numbers, NEW c \in Client, NEW m \in Sent(c),
         m.dest \notin {Bus, Nobody}, FindConn(m.dest) # Nobody
  PROVE  /\ [m EXCEPT !.sender = c] \in Message
         /\ FindConn(m.dest) \in Client
         /\ [m EXCEPT !.sender = c] \in Received(FindConn(m.dest))
<1> DEFINE r == [m EXCEPT !.sender = c]
           d == FindConn(m.dest)
<1>1. m \in Message
  BY DEF Sent
<1>2. /\ r.type = m.type /\ r.sender = c /\ r.serial = m.serial /\ r.rserial = m.rserial
      /\ r.of = m.of /\ r \in Message
  BY <1>1 DEF Message
<1>3. m.dest \in Client \union Name
  BY <1>1 DEF Message
<1>4. d \in Client /\ (m.dest \in Client => d = m.dest)
  BY <1>3, DBusAssumption DEF FindConn, TypeOK
<1> HIDE DEF r, d
<1>5. r \in Received(d)
  <2>1. CASE m.type \notin {"reply", "error"} /\ m.rserial = 0 /\ m.of = <<c, m.serial>>
    <3>1. 0 \notin pending[d] /\ 0 <= serial[d]
      BY <1>4 DEF TypeOK, Numbers
    <3>2. m.serial \in 1 .. serial[c]
      BY DEF Sent
    <3> QED
      BY <1>2, <2>1, <3>1, <3>2 DEF Received
  <2>2. CASE /\ m.type = "reply" /\ m.dest \in Client /\ m.rserial \in 1 .. serial[m.dest]
             /\ m.of = <<m.dest, m.rserial>>
    <3>1. r.type # "call" /\ r.rserial <= serial[d] /\ r.of = <<d, r.rserial>>
      BY <1>2, <1>4, <2>2 DEF TypeOK
    <3> QED
      BY <1>2, <3>1 DEF Received
  <2> QED
    BY <2>1, <2>2 DEF Sent
<1> QED
  BY <1>2, <1>4, <1>5 DEF r, d

(* A signal is for everybody.                                              *)
LEMMA BroadcastFits ==
  ASSUME TypeOK, Numbers, NEW c \in Client, NEW m \in Sent(c), m.dest = Nobody,
         NEW d \in Client
  PROVE  m \in Received(d)
<1>1. m \in Message /\ m.rserial = 0 /\ m.type = "signal"
  BY DBusAssumption DEF Sent
<1>2. 0 \notin pending[d] /\ 0 <= serial[d]
  BY DEF TypeOK, Numbers
<1> QED
  BY <1>1, <1>2 DEF Received

(* What callbacks have answered stays so.                                  *)
LEMMA AnswersStay ==
  ASSUME DBusInv, Growing, answers' = answers, \A c \in Client : pending'[c] \subseteq 1 .. serial'[c]
  PROVE  Numbers' /\ OwnReply' /\ AnsweredOnce'
<1>1. TypeOK /\ Numbers /\ OwnReply /\ AnsweredOnce
  BY DEF DBusInv
<1>2. ASSUME NEW a \in answers
      PROVE  /\ a.call[2] <= serial'[a.call[1]]
             /\ a.call[2] \notin pending'[a.call[1]]
  <2>1. a.call[1] \in Client /\ a.call[2] \in Nat
    BY <1>1 DEF TypeOK
  <2>2. a.call[2] <= serial[a.call[1]] /\ a.call[2] \notin pending[a.call[1]]
    BY <1>1 DEF Numbers, AnsweredOnce
  <2>3. /\ serial[a.call[1]] \in Nat /\ serial'[a.call[1]] \in Nat
        /\ serial[a.call[1]] <= serial'[a.call[1]]
        /\ \A i \in pending'[a.call[1]] : i \in pending[a.call[1]] \/ i > serial[a.call[1]]
    BY <1>1, <2>1 DEF Growing, TypeOK
  <2> QED
    BY <2>1, <2>2, <2>3
<1> QED
  BY <1>1, <1>2 DEF Numbers, OwnReply, AnsweredOnce

(* A callback is made for a number that waited, and waits no more.         *)
LEMMA AnswerKeeps ==
  ASSUME DBusInv, NEW c \in Client, NEW s \in pending[c], Answer(c, s, <<c, s>>),
         pending' = [pending EXCEPT ![c] = @ \ {s}],
         serial' \in [Client -> Nat], \A d \in Client : serial[d] <= serial'[d]
  PROVE  /\ Growing /\ Numbers' /\ OwnReply' /\ AnsweredOnce'
         /\ answers' \subseteq [call : Client \X Nat, of : Client \X Nat]
<1>1. TypeOK /\ Numbers /\ OwnReply /\ AnsweredOnce
  BY DEF DBusInv
<1>2. s \in Nat /\ s <= serial[c]
  BY <1>1 DEF TypeOK, Numbers
<1>3. pending' \in [Client -> SUBSET Nat]
      /\ \A d \in Client : pending'[d] = IF d = c THEN pending[c] \ {s} ELSE pending[d]
  BY <1>1 DEF TypeOK
<1>4. Growing
  BY <1>3 DEF Growing
<1> DEFINE new == [call |-> <<c, s>>, of |-> <<c, s>>]
<1>5. answers' = answers \union {new}
  BY DEF Answer
<1>6. /\ new.call = <<c, s>> /\ new.of = <<c, s>> /\ new.call[1] = c /\ new.call[2] = s
      /\ new \in [call : Client \X Nat, of : Client \X Nat]
  BY <1>2
<1> HIDE DEF new
<1>7. ASSUME NEW a \in answers
      PROVE  a.call[2] <= serial'[a.call[1]] /\ a.call[2] \notin pending'[a.call[1]]
  <2>1. a.call[1] \in Client /\ a.call[2] \in Nat
    BY <1>1 DEF TypeOK
  <2>2. a.call[2] <= serial[a.call[1]] /\ a.call[2] \notin pending[a.call[1]]
    BY <1>1 DEF Numbers, AnsweredOnce
  <2>3. /\ serial[a.call[1]] \in Nat /\ serial'[a.call[1]] \in Nat
        /\ serial[a.call[1]] <= serial'[a.call[1]]
        /\ \A i \in pending'[a.call[1]] : i \in pending[a.call[1]] \/ i > serial[a.call[1]]
    BY <1>1, <1>4, <2>1 DEF Growing, TypeOK
  <2> QED
    BY <2>1, <2>2, <2>3
<1>8. new.call[2] <= serial'[new.call[1]] /\ new.call[2] \notin pending'[new.call[1]]
  BY <1>1, <1>2, <1>3, <1>6 DEF TypeOK
<1>9. \A d \in Client : pending'[d] \subseteq 1 .. serial'[d]
  BY <1>1, <1>3, SMTT(20) DEF TypeOK, Numbers
<1>10. Numbers' /\ OwnReply' /\ AnsweredOnce'
  BY <1>1, <1>5, <1>6, <1>7, <1>8, <1>9 DEF Numbers, OwnReply, AnsweredOnce
<1> QED
  BY <1>1, <1>4, <1>5, <1>6, <1>10 DEF TypeOK

(* Something new that a client sends has a number of its own.              *)
LEMMA SendsKeeps ==
  ASSUME DBusInv, NEW c \in Client,
         NEW t \in {"call", "signal", "RequestName", "ReleaseName"},
         NEW dest \in Client \union Name \union {Bus, Nobody}, NEW n \in Name \union {Nobody},
         dest = Nobody => t = "signal",
         NEW wait \in BOOLEAN, Sends(c, t, dest, n, wait)
  PROVE  DBusInv'
<1> DEFINE s == serial[c] + 1
           m == Msg(t, dest, n, s, 0, <<c, s>>)
<1>1. TypeOK /\ Numbers
  BY DEF DBusInv
<1>2. s \in Nat /\ serial'[c] = s /\ serial' = [serial EXCEPT ![c] = s]
  BY <1>1 DEF Sends, TypeOK
<1>3. /\ pending' = IF wait THEN [pending EXCEPT ![c] = @ \union {s}] ELSE pending
      /\ link[c] = "open" /\ send(c, m)
      /\ UNCHANGED <<link, cauth, sauth, squeue, down, owner, answers>>
  BY <1>2 DEF Sends
<1> HIDE DEF s
<1>4. Growing
  <2>1. serial' \in [Client -> Nat] /\ \A d \in Client : serial[d] <= serial'[d]
    BY <1>1, <1>2, SMTT(20) DEF TypeOK, s
  <2>2. pending' \in [Client -> SUBSET Nat]
        /\ \A d \in Client : \A i \in pending'[d] : i \in pending[d] \/ (d = c /\ i = s)
    BY <1>1, <1>2, <1>3 DEF TypeOK
  <2>3. s > serial[c]
    BY <1>1 DEF TypeOK, s
  <2> QED
    BY <2>1, <2>2, <2>3 DEF Growing
<1>5. \A d \in Client : pending'[d] \subseteq 1 .. serial'[d]
  <2>1. ASSUME NEW d \in Client, NEW i \in pending'[d]
        PROVE  i \in 1 .. serial'[d]
    <3>1. CASE i \in pending[d]
      BY <1>1, <1>4, <3>1 DEF TypeOK, Numbers, Growing
    <3>2. CASE i \notin pending[d]
      <4>1. d = c /\ i = s
        BY <1>1, <1>3, <2>1, <3>2 DEF TypeOK
      <4> QED
        BY <1>1, <1>2, <4>1 DEF TypeOK, s
    <3> QED
      BY <3>1, <3>2
  <2> QED
    BY <2>1
<1>6. Numbers' /\ OwnReply' /\ AnsweredOnce'
  BY <1>3, <1>4, <1>5, AnswersStay
<1>7. m \in Sent(c)'
  <2>1. /\ m = [type |-> t, dest |-> dest, name |-> n, sender |-> Nobody, serial |-> s,
                rserial |-> 0, of |-> <<c, s>>]
        /\ m \in Message
    BY <1>2 DEF Msg, Message, Types
  <2>2. s \in 1 .. serial'[c]
    BY <1>1, <1>2 DEF TypeOK, s
  <2>3. /\ m.type = t /\ m.dest = dest /\ m.serial = s /\ m.rserial = 0 /\ m.of = <<c, s>>
    BY <2>1
  <2> HIDE DEF m
  <2> QED
    BY <2>1, <2>2, <2>3 DEF Sent
<1> HIDE DEF m
<1>8. Queued' /\ (\A d \in Client : Stage(d)')
      /\ up' \in [Client -> Seq(OnWire)] /\ cqueue' \in [Client -> Seq(Message)]
  BY <1>3, <1>4, <1>7, SendKeeps
<1>9. TypeOK'
  BY <1>1, <1>3, <1>4, <1>8 DEF TypeOK, Growing
<1>10. NoDanglingName'
  BY <1>3 DEF DBusInv, NoDanglingName
<1> QED
  BY <1>6, <1>8, <1>9, <1>10 DEF DBusInv

LEMMA ExpireKeeps ==
  ASSUME DBusInv, NEW c \in Client, NEW s \in pending[c], expire_pending(c, s)
  PROVE  DBusInv'
<1>1. TypeOK /\ Queued /\ \A d \in Client : Stage(d)
  BY DEF DBusInv
<1>2. /\ Answer(c, s, <<c, s>>) /\ pending' = [pending EXCEPT ![c] = @ \ {s}]
      /\ UNCHANGED <<link, cauth, sauth, cqueue, squeue, up, down, owner, serial>>
  BY DEF expire_pending, authvars
<1>3. serial' \in [Client -> Nat] /\ \A d \in Client : serial[d] <= serial'[d]
  BY <1>1, <1>2 DEF TypeOK
<1>4. /\ Growing /\ Numbers' /\ OwnReply' /\ AnsweredOnce'
      /\ answers' \subseteq [call : Client \X Nat, of : Client \X Nat]
  BY <1>2, <1>3, AnswerKeeps
<1>5. TypeOK'
  BY <1>1, <1>2, <1>4 DEF TypeOK, Growing
<1>6. \A d \in Client : Sent(d) \subseteq Sent(d)' /\ Received(d) \subseteq Received(d)'
  BY <1>1, <1>4, MessagesStay
<1>7. \A d \in Client : Stage(d)'
  BY <1>1, <1>2, <1>6, StageStays
<1>8. Queued'
  BY <1>1, <1>2, <1>6, SeqGrows DEF Queued
<1>9. NoDanglingName'
  BY <1>2 DEF DBusInv, NoDanglingName
<1> QED
  BY <1>4, <1>5, <1>7, <1>8, <1>9 DEF DBusInv

(* The client reads OK: BEGIN, and then what has waited.                   *)
LEMMA ClientAuthKeeps ==
  ASSUME DBusInv, NEW c \in Client, client_auth(c)
  PROVE  DBusInv'
<1>1. TypeOK /\ Queued /\ \A d \in Client : Stage(d)
  BY DEF DBusInv
<1>2. /\ link[c] = "open" /\ down[c] # <<>> /\ ~cauth[c]
      /\ down' = [down EXCEPT ![c] = Tail(@)]
      /\ up' = [up EXCEPT ![c] = Append(@, Line("BEGIN")) \o cqueue[c]]
      /\ cqueue' = [cqueue EXCEPT ![c] = <<>>] /\ cauth' = [cauth EXCEPT ![c] = TRUE]
      /\ UNCHANGED <<link, sauth, squeue, owner, pending, serial, answers>>
  BY DEF client_auth
<1>3. Told(c) /\ up[c] = <<>> /\ down[c] = <<Line("OK")>>
  BY <1>1, <1>2 DEF Stage, Waiting, Told, Begun, Done
<1>4. Line("BEGIN") \in OnWire /\ Line("OK") \in OnWire
  BY DEF OnWire, Lines
<1>5. cqueue[c] \in Seq(Message) /\ cqueue[c] \in Seq(OnWire)
  <2>1. Message \subseteq OnWire
    BY DEF OnWire
  <2> QED
    BY <1>1, <2>1, SeqGrows DEF TypeOK
<1> DEFINE q == <<Line("BEGIN")>> \o cqueue[c]
<1>6. /\ q \in Seq(OnWire) /\ q # <<>> /\ Head(q) = Line("BEGIN") /\ Tail(q) = cqueue[c]
  BY <1>4, <1>5, LineFacts
<1>7. Append(<<>>, Line("BEGIN")) = <<Line("BEGIN")>> /\ Tail(<<Line("OK")>>) = <<>>
  OBVIOUS
<1> HIDE DEF q
<1>8. up'[c] = q /\ down'[c] = <<>> /\ cqueue'[c] = <<>> /\ cauth'[c] = TRUE
  BY <1>1, <1>2, <1>3, <1>7 DEF TypeOK, q
<1>9. \A d \in Client \ {c} :
        up'[d] = up[d] /\ down'[d] = down[d] /\ cqueue'[d] = cqueue[d] /\ cauth'[d] = cauth[d]
  BY <1>1, <1>2 DEF TypeOK
<1>10. Growing /\ \A d \in Client : pending'[d] \subseteq 1 .. serial'[d]
  BY <1>1, <1>2 DEF DBusInv, TypeOK, Numbers, Growing
<1>11. Numbers' /\ OwnReply' /\ AnsweredOnce'
  BY <1>2, <1>10, AnswersStay
<1>12. \A d \in Client : Sent(d) \subseteq Sent(d)' /\ Received(d) \subseteq Received(d)'
  BY <1>1, <1>10, MessagesStay
<1>13. \A d \in Client : cqueue[d] \in Seq(Sent(d)') /\ squeue[d] \in Seq(Received(d)')
  BY <1>1, <1>12, SeqGrows DEF Queued
<1>14. Queued'
  BY <1>2, <1>8, <1>9, <1>13 DEF Queued
<1>15. ASSUME NEW d \in Client, d # c
       PROVE  Stage(d)'
  BY <1>1, <1>2, <1>9, <1>12, <1>15, StageStays
<1>16. Stage(c)'
  BY <1>2, <1>3, <1>6, <1>8, <1>13 DEF Stage, Told, Begun
<1>17. TypeOK'
  <2>1. /\ up' \in [Client -> Seq(OnWire)] /\ down' \in [Client -> Seq(OnWire)]
        /\ cqueue' \in [Client -> Seq(Message)]
    <3>1. /\ up' = [up EXCEPT ![c] = q] /\ down' = [down EXCEPT ![c] = <<>>]
          /\ cqueue' = [cqueue EXCEPT ![c] = <<>>]
      BY <1>2, <1>3, <1>7 DEF q
    <3>2. <<>> \in Seq(OnWire) /\ <<>> \in Seq(Message)
      OBVIOUS
    <3> QED
      BY <1>1, <1>6, <3>1, <3>2 DEF TypeOK
  <2> QED
    BY <1>1, <1>2, <2>1 DEF TypeOK
<1>18. NoDanglingName'
  BY <1>2 DEF DBusInv, NoDanglingName
<1> QED
  BY <1>11, <1>14, <1>15, <1>16, <1>17, <1>18 DEF DBusInv

(* The server reads AUTH, and then BEGIN.                                  *)
LEMMA ServerAuthKeeps ==
  ASSUME DBusInv, NEW c \in Client, server_auth(c)
  PROVE  DBusInv'
<1>1. TypeOK /\ Queued /\ \A d \in Client : Stage(d)
  BY DEF DBusInv
<1>2. /\ up[c] # <<>> /\ sauth[c] # "done" /\ up' = [up EXCEPT ![c] = Tail(@)]
      /\ UNCHANGED <<link, cauth, cqueue, owner, pending, serial, answers>>
  BY DEF server_auth
<1>3. Growing /\ \A d \in Client : pending'[d] \subseteq 1 .. serial'[d]
  BY <1>1, <1>2 DEF DBusInv, TypeOK, Numbers, Growing
<1>4. Numbers' /\ OwnReply' /\ AnsweredOnce'
  BY <1>2, <1>3, AnswersStay
<1>5. \A d \in Client : Sent(d) \subseteq Sent(d)' /\ Received(d) \subseteq Received(d)'
  BY <1>1, <1>3, MessagesStay
<1>6. \A d \in Client : cqueue[d] \in Seq(Sent(d)') /\ squeue[d] \in Seq(Received(d)')
  BY <1>1, <1>5, SeqGrows DEF Queued
<1>7. NoDanglingName'
  BY <1>2 DEF DBusInv, NoDanglingName
<1>8. Tail(up[c]) \in Seq(OnWire)
  BY <1>1, <1>2, TailFacts DEF TypeOK
<1>9. CASE sauth[c] = "AuthWait"
  <2>1. /\ sauth' = [sauth EXCEPT ![c] = "BeginWait"] /\ UNCHANGED squeue
        /\ down' = [down EXCEPT ![c] = Append(@, Line("OK"))]
    BY <1>9 DEF server_auth
  <2>2. ~cauth[c] /\ up[c] = <<Line("AUTH")>> /\ down[c] = <<>>
    BY <1>1, <1>2, <1>9 DEF Stage, Waiting, Told, Begun, Done
  <2>3. Append(<<>>, Line("OK")) = <<Line("OK")>> /\ Tail(<<Line("AUTH")>>) = <<>>
    OBVIOUS
  <2>4. <<Line("OK")>> \in Seq(OnWire)
    BY DEF OnWire, Lines
  <2>5. up'[c] = <<>> /\ down'[c] = <<Line("OK")>> /\ sauth'[c] = "BeginWait"
    BY <1>1, <1>2, <2>1, <2>2, <2>3 DEF TypeOK
  <2>6. \A d \in Client \ {c} : up'[d] = up[d] /\ down'[d] = down[d] /\ sauth'[d] = sauth[d]
    BY <1>1, <1>2, <2>1 DEF TypeOK
  <2>7. up' \in [Client -> Seq(OnWire)] /\ down' \in [Client -> Seq(OnWire)]
    BY <1>1, <1>2, <1>8, <2>1, <2>2, <2>3, <2>4 DEF TypeOK
  <2>8. TypeOK'
    BY <1>1, <1>2, <2>1, <2>7 DEF TypeOK
  <2>9. ASSUME NEW d \in Client, d # c
        PROVE  Stage(d)'
    BY <1>1, <1>2, <1>5, <2>6, <2>9, StageStays
  <2>10. Stage(c)'
    BY <1>2, <2>2, <2>5 DEF Stage, Told
  <2>11. Queued'
    BY <1>2, <1>6, <2>1 DEF Queued
  <2> QED
    BY <1>4, <1>7, <2>8, <2>9, <2>10, <2>11 DEF DBusInv
<1>10. CASE sauth[c] # "AuthWait"
  <2>1. /\ sauth' = [sauth EXCEPT ![c] = "done"]
        /\ down' = [down EXCEPT ![c] = @ \o squeue[c]] /\ squeue' = [squeue EXCEPT ![c] = <<>>]
    BY <1>10 DEF server_auth
  <2>2. /\ cauth[c] /\ down[c] = <<>> /\ Tail(up[c]) \in Seq(Sent(c))
    BY <1>1, <1>2, <1>10 DEF Stage, Waiting, Told, Begun, Done
  <2>3. squeue[c] \in Seq(OnWire) /\ <<>> \o squeue[c] = squeue[c]
    <3>1. Message \subseteq OnWire
      BY DEF OnWire
    <3>2. squeue[c] \in Seq(OnWire)
      BY <1>1, <3>1, SeqGrows DEF TypeOK
    <3> QED
      BY <3>2
  <2>4. up'[c] = Tail(up[c]) /\ down'[c] = squeue[c] /\ sauth'[c] = "done" /\ squeue'[c] = <<>>
    BY <1>1, <1>2, <2>1, <2>2, <2>3 DEF TypeOK
  <2>5. \A d \in Client \ {c} : /\ up'[d] = up[d] /\ down'[d] = down[d]
                                /\ sauth'[d] = sauth[d] /\ squeue'[d] = squeue[d]
    BY <1>1, <1>2, <2>1 DEF TypeOK
  <2>6. /\ up' \in [Client -> Seq(OnWire)] /\ down' \in [Client -> Seq(OnWire)]
        /\ squeue' \in [Client -> Seq(Message)]
    BY <1>1, <1>2, <1>8, <2>1, <2>2, <2>3 DEF TypeOK
  <2>7. TypeOK'
    BY <1>1, <1>2, <2>1, <2>6 DEF TypeOK
  <2>8. ASSUME NEW d \in Client, d # c
        PROVE  Stage(d)'
    BY <1>1, <1>2, <1>5, <2>5, <2>8, StageStays
  <2>9. Tail(up[c]) \in Seq(Sent(c)')
    BY <1>5, <2>2, SeqGrows
  <2>10. Stage(c)'
    BY <1>2, <1>6, <2>2, <2>4, <2>9 DEF Stage, Done
  <2>11. Queued'
    <3>1. \A d \in Client : cqueue'[d] \in Seq(Sent(d)')
      BY <1>2, <1>6
    <3>2. \A d \in Client : squeue'[d] \in Seq(Received(d)')
      <4>1. \A d \in Client : <<>> \in Seq(Received(d)')
        OBVIOUS
      <4>2. ASSUME NEW d \in Client
            PROVE  squeue'[d] = <<>> \/ squeue'[d] = squeue[d]
        BY <2>4, <2>5
      <4> QED
        BY <1>6, <4>1, <4>2
    <3> QED
      BY <3>1, <3>2 DEF Queued
  <2> QED
    BY <1>4, <1>7, <2>7, <2>8, <2>10, <2>11 DEF DBusInv
<1> QED
  BY <1>9, <1>10

(* The client reads a message, and answers a call.                         *)
LEMMA FilterKeeps ==
  ASSUME DBusInv, NEW c \in Client, filter_func(c)
  PROVE  DBusInv'
<1> DEFINE m == Head(down[c])
           s == serial[c] + 1
           answering == m.rserial # 0 /\ m.rserial \in pending[c]
<1>1. TypeOK /\ Queued /\ Numbers /\ \A d \in Client : Stage(d)
  BY DEF DBusInv
<1>2. /\ link[c] = "open" /\ down[c] # <<>> /\ cauth[c]
      /\ down' = [down EXCEPT ![c] = Tail(@)]
      /\ UNCHANGED <<link, cauth, sauth, squeue, owner>>
      /\ IF answering
           THEN Answer(c, m.rserial, m.of) /\ pending' = [pending EXCEPT ![c] = @ \ {m.rserial}]
           ELSE UNCHANGED <<answers, pending>>
      /\ IF m.type = "call"
           THEN /\ serial' = [serial EXCEPT ![c] = s]
                /\ send(c, ReplyTo(m, "reply", serial'[c]))
           ELSE UNCHANGED <<serial, up, cqueue>>
  BY DEF filter_func
<1>3. Done(c)
  BY <1>1, <1>2 DEF Stage, Waiting, Told, Begun
<1>4. m \in Received(c) /\ Tail(down[c]) \in Seq(Received(c)) /\ Tail(down[c]) \in Seq(OnWire)
  BY <1>1, <1>2, <1>3, TailFacts DEF Done, TypeOK
<1>5. m \in Message
  BY <1>4 DEF Received
<1> HIDE DEF m
<1>6. serial' \in [Client -> Nat] /\ \A d \in Client : serial[d] <= serial'[d]
  <2>1. s \in Nat /\ serial[c] <= s
    BY <1>1 DEF TypeOK
  <2> HIDE DEF s
  <2>2. serial' = [serial EXCEPT ![c] = s] \/ serial' = serial
    BY <1>2
  <2>3. serial \in [Client -> Nat]
    BY <1>1 DEF TypeOK
  <2>4. CASE serial' = serial
    BY <2>3, <2>4
  <2>5. CASE serial' = [serial EXCEPT ![c] = s]
    BY <2>1, <2>3, <2>5
  <2> QED
    BY <2>2, <2>4, <2>5
<1>7. /\ Growing /\ Numbers' /\ OwnReply' /\ AnsweredOnce'
      /\ answers' \subseteq [call : Client \X Nat, of : Client \X Nat]
      /\ pending'[c] \subseteq pending[c]
  <2>1. CASE answering
    <3>1. m.of = <<c, m.rserial>>
      BY <1>4, <2>1 DEF Received
    <3>2. Answer(c, m.rserial, <<c, m.rserial>>)
          /\ pending' = [pending EXCEPT ![c] = @ \ {m.rserial}]
      BY <1>2, <2>1, <3>1
    <3>3. /\ Growing /\ Numbers' /\ OwnReply' /\ AnsweredOnce'
          /\ answers' \subseteq [call : Client \X Nat, of : Client \X Nat]
      BY <1>6, <2>1, <3>2, AnswerKeeps
    <3>4. pending'[c] \subseteq pending[c]
      BY <1>1, <3>2 DEF TypeOK
    <3> QED
      BY <3>3, <3>4
  <2>2. CASE ~answering
    <3>1. UNCHANGED <<answers, pending>>
      BY <1>2, <2>2
    <3>2. Growing
      BY <1>1, <1>6, <3>1 DEF Growing, TypeOK
    <3>3. \A d \in Client : pending'[d] \subseteq 1 .. serial'[d]
      BY <1>1, <1>6, <3>1 DEF Numbers, TypeOK
    <3> QED
      BY <1>1, <3>1, <3>2, <3>3, AnswersStay DEF TypeOK
  <2> QED
    BY <2>1, <2>2
<1>8. \A d \in Client : Sent(d) \subseteq Sent(d)' /\ Received(d) \subseteq Received(d)'
  BY <1>1, <1>7, MessagesStay
<1>9. down' \in [Client -> Seq(OnWire)]
  BY <1>1, <1>2, <1>4 DEF TypeOK
<1>10. Tail(down[c]) \in Seq(Received(c)')
  BY <1>4, <1>8, SeqGrows
<1>11. /\ down'[c] = Tail(down[c]) /\ sauth[c] = "done"
       /\ \A d \in Client \ {c} : down'[d] = down[d]
  BY <1>1, <1>2, <1>3 DEF TypeOK, Done
<1>12. ASSUME NEW d \in Client
       PROVE  down'[d] = down[d] \/ (sauth[d] = "done" /\ down'[d] \in Seq(Received(d)'))
  <2>1. CASE d = c
    <3>1. Tail(down[d]) \in Seq(Received(d)')
      <4>1. Tail(down[d]) \in Seq(Received(d))
        BY <1>4, <2>1
      <4> QED
        BY <1>8, <4>1, SeqGrows
    <3> QED
      BY <1>11, <2>1, <3>1
  <2> QED
    BY <1>11, <2>1
<1>13. /\ Queued' /\ (\A d \in Client : Stage(d)')
       /\ up' \in [Client -> Seq(OnWire)] /\ cqueue' \in [Client -> Seq(Message)]
  <2>1. CASE m.type = "call"
    <3> DEFINE r == ReplyTo(m, "reply", s)
    <3>1. serial' = [serial EXCEPT ![c] = s] /\ serial'[c] = s /\ s \in Nat /\ s > serial[c]
      BY <1>1, <1>2, <2>1 DEF TypeOK
    <3>2. send(c, r)
      BY <1>2, <2>1, <3>1
    <3>3. m.sender \in Client /\ m.serial \in 1 .. serial[m.sender] /\ m.of = <<m.sender, m.serial>>
      BY <1>4, <2>1 DEF Received
    <3>4. /\ r = [type |-> "reply", dest |-> m.sender, name |-> Nobody, sender |-> Nobody,
                  serial |-> s, rserial |-> m.serial, of |-> m.of]
      BY DEF ReplyTo, Msg
    <3>5. /\ r.type = "reply" /\ r.dest = m.sender /\ r.serial = s /\ r.rserial = m.serial
          /\ r.of = m.of
      BY <3>4
    <3> HIDE DEF s
    <3>6. r \in Message
      BY <1>5, <3>1, <3>4 DEF Message, Types
    <3> HIDE DEF r
    <3>7. s \notin pending'[c] /\ s \in 1 .. serial'[c]
      BY <1>1, <1>7, <3>1 DEF TypeOK, Numbers
    <3>8. m.serial \in 1 .. serial'[m.sender]
      BY <1>1, <1>6, <3>3, UsedStays
    <3>9. r \in Sent(c)'
      BY <3>3, <3>5, <3>6, <3>7, <3>8 DEF Sent
    <3> QED
      BY <1>2, <1>7, <1>12, <3>2, <3>9, SendKeeps
  <2>2. CASE m.type # "call"
    <3>1. UNCHANGED <<serial, up, cqueue>>
      BY <1>2, <2>2
    <3>2. Queued'
      BY <1>1, <1>2, <1>8, <3>1, SeqGrows DEF Queued
    <3>3. ASSUME NEW d \in Client, d # c
          PROVE  Stage(d)'
      BY <1>1, <1>2, <1>8, <1>11, <3>1, <3>3, StageStays
    <3>4. Stage(c)'
      <4>1. up[c] \in Seq(Sent(c)')
        BY <1>3, <1>8, SeqGrows DEF Done
      <4> QED
        BY <1>2, <1>3, <1>10, <1>11, <3>1, <4>1 DEF Stage, Done
    <3> QED
      BY <1>1, <3>1, <3>2, <3>3, <3>4 DEF TypeOK
  <2> QED
    BY <2>1, <2>2
<1>14. TypeOK'
  BY <1>1, <1>2, <1>7, <1>9, <1>13 DEF TypeOK, Growing
<1>15. NoDanglingName'
  BY <1>2 DEF DBusInv, NoDanglingName
<1> QED
  BY <1>7, <1>13, <1>14, <1>15 DEF DBusInv

(* The server reads a message, and answers it, or passes it on.            *)
LEMMA ServerFilterKeeps ==
  ASSUME DBusInv, NEW c \in Client, server_filter(c)
  PROVE  DBusInv'
<1> DEFINE m == Head(up[c])
<1>1. TypeOK /\ Queued /\ Numbers /\ NoDanglingName /\ \A d \in Client : Stage(d)
  BY DEF DBusInv
<1>2. /\ link[c] \in {"open", "closed"} /\ up[c] # <<>> /\ sauth[c] = "done"
      /\ up' = [up EXCEPT ![c] = Tail(@)]
      /\ do_server_msg(c, m) \/ do_bridge_msg(c, m) \/ do_broadcast_msg(m) \/ do_gaveup_msg(c, m)
      /\ UNCHANGED <<link, cauth, sauth, cqueue, pending, serial, answers>>
  BY DEF server_filter
<1>3. Done(c)
  BY <1>1, <1>2 DEF Stage, Waiting, Told, Begun
<1>4. m \in Sent(c) /\ m \in Message
  <2>1. m \in Sent(c)
    BY <1>2, <1>3, TailFacts DEF Done
  <2> HIDE DEF m
  <2> QED
    BY <2>1 DEF Sent
<1> HIDE DEF m
<1>5. Growing /\ \A d \in Client : pending'[d] \subseteq 1 .. serial'[d]
  BY <1>1, <1>2 DEF TypeOK, Numbers, Growing
<1>6. Numbers' /\ OwnReply' /\ AnsweredOnce'
  BY <1>2, <1>5, AnswersStay
<1>7. owner' \in [Name -> Client \union {Nobody}]
      /\ \A n \in Name : owner'[n] \in {owner[n], c, Nobody}
  <2>1. CASE UNCHANGED owner
    BY <1>1, <2>1 DEF TypeOK
  <2>2. CASE ~UNCHANGED owner
    <3>1. do_server_msg(c, m)
      BY <1>2, <2>2 DEF do_bridge_msg, do_broadcast_msg, do_gaveup_msg
    <3>2. owner' = [owner EXCEPT ![m.name] = c] \/ owner' = [owner EXCEPT ![m.name] = Nobody]
      BY <2>2, <3>1 DEF do_server_msg
    <3> QED
      BY <1>1, <3>2 DEF TypeOK
  <2> QED
    BY <2>1, <2>2
<1>8. NoDanglingName'
  BY <1>1, <1>2, <1>7 DEF NoDanglingName
<1>9. PICK D \in SUBSET Client, r \in Message : SendTo(D, r) /\ \A d \in D : r \in Received(d)
  <2>1. CASE do_server_msg(c, m)
    <3>1. SendTo({c}, ReplyTo(m, "reply", 0))
      BY <2>1 DEF do_server_msg
    <3>2. ReplyTo(m, "reply", 0) \in Received(c) /\ ReplyTo(m, "reply", 0) \in Message
      BY <1>1, <1>4, RepliesFit
    <3> QED
      BY <3>1, <3>2
  <2>2. CASE do_bridge_msg(c, m)
    <3>1. /\ m.dest \notin {Bus, Nobody} /\ FindConn(m.dest) # Nobody
          /\ SendTo({FindConn(m.dest)}, [m EXCEPT !.sender = c])
      BY <2>2 DEF do_bridge_msg
    <3>2. /\ [m EXCEPT !.sender = c] \in Message /\ FindConn(m.dest) \in Client
          /\ [m EXCEPT !.sender = c] \in Received(FindConn(m.dest))
      BY <1>1, <1>4, <3>1, BridgeFits
    <3> QED
      BY <3>1, <3>2
  <2>3. CASE do_broadcast_msg(m)
    <3>1. m.dest = Nobody /\ SendTo({d \in Client : link[d] # "gone"}, m)
      BY <2>3 DEF do_broadcast_msg
    <3>2. \A d \in Client : m \in Received(d)
      BY <1>1, <1>4, <3>1, BroadcastFits
    <3> QED
      BY <1>4, <3>1, <3>2
  <2>4. CASE do_gaveup_msg(c, m)
    <3>1. SendTo({c}, ReplyTo(m, "error", 0))
      BY <2>4 DEF do_gaveup_msg
    <3>2. ReplyTo(m, "error", 0) \in Received(c) /\ ReplyTo(m, "error", 0) \in Message
      BY <1>1, <1>4, RepliesFit
    <3> QED
      BY <3>1, <3>2
  <2> QED
    BY <1>2, <2>1, <2>2, <2>3, <2>4
<1>10. /\ Queued' /\ (\A d \in Client : Stage(d)')
       /\ up' \in [Client -> Seq(OnWire)] /\ down' \in [Client -> Seq(OnWire)]
       /\ squeue' \in [Client -> Seq(Message)]
  BY <1>2, <1>9, SendToKeeps
<1>11. TypeOK'
  BY <1>1, <1>2, <1>7, <1>10 DEF TypeOK
<1> QED
  BY <1>6, <1>8, <1>10, <1>11 DEF DBusInv

(* A connection is lost, noticed, and deleted.                             *)
LEMMA ClosesKeep ==
  ASSUME DBusInv, NEW c \in Client, close(c) \/ server_close(c) \/ conn_closed(c)
  PROVE  DBusInv'
<1>1. TypeOK /\ Queued /\ NoDanglingName /\ Numbers /\ \A d \in Client : Stage(d)
  BY DEF DBusInv
<1>2. UNCHANGED <<cauth, sauth, cqueue, pending, serial, answers>>
  BY DEF close, server_close, conn_closed, authvars
<1>3. Growing /\ \A d \in Client : pending'[d] \subseteq 1 .. serial'[d]
  BY <1>1, <1>2 DEF TypeOK, Numbers, Growing
<1>4. Numbers' /\ OwnReply' /\ AnsweredOnce'
  BY <1>2, <1>3, AnswersStay
<1>5. \A d \in Client : Sent(d) \subseteq Sent(d)' /\ Received(d) \subseteq Received(d)'
  BY <1>1, <1>3, MessagesStay
<1>6. \A d \in Client : cqueue[d] \in Seq(Sent(d)') /\ squeue[d] \in Seq(Received(d)')
  BY <1>1, <1>5, SeqGrows DEF Queued
<1>7. \A d \in Client : <<>> \in Seq(Sent(d)') /\ <<>> \in Seq(Received(d)')
  OBVIOUS
<1>8. <<>> \in Seq(OnWire) /\ <<>> \in Seq(Message)
  OBVIOUS
<1>9. CASE close(c)
  <2>1. /\ link[c] = "open" /\ link' = [link EXCEPT ![c] = "closed"]
        /\ down' = [down EXCEPT ![c] = <<>>] /\ squeue' = [squeue EXCEPT ![c] = <<>>]
        /\ UNCHANGED <<up, owner>>
    BY <1>9 DEF close
  <2>2. TypeOK'
    BY <1>1, <1>2, <1>8, <2>1 DEF TypeOK
  <2>3. /\ link'[c] = "closed" /\ down'[c] = <<>> /\ squeue'[c] = <<>>
        /\ \A d \in Client \ {c} :
             link'[d] = link[d] /\ down'[d] = down[d] /\ squeue'[d] = squeue[d]
    BY <1>1, <2>1 DEF TypeOK
  <2>4. Queued'
    <3>1. ASSUME NEW d \in Client
          PROVE  squeue'[d] = <<>> \/ squeue'[d] = squeue[d]
      BY <2>3
    <3> QED
      BY <1>2, <1>6, <1>7, <3>1 DEF Queued
  <2>5. ASSUME NEW d \in Client, d # c
        PROVE  Stage(d)'
    BY <1>1, <1>2, <1>5, <2>1, <2>3, <2>5, StageStays
  <2>6. Stage(c)'
    <3>1. CASE Done(c)
      <4>1. up[c] \in Seq(Sent(c)')
        BY <1>5, <3>1, SeqGrows DEF Done
      <4> QED
        BY <1>2, <1>7, <2>1, <2>3, <3>1, <4>1 DEF Done, Stage
    <3>2. CASE Begun(c)
      <4>1. up[c] # <<>> /\ Head(up[c]) = Line("BEGIN") /\ Tail(up[c]) \in Seq(Sent(c)')
        BY <1>5, <2>1, <3>2, SeqGrows DEF Begun
      <4> QED
        BY <1>2, <2>1, <2>3, <3>2, <4>1 DEF Begun, Stage
    <3> QED
      BY <1>1, <1>2, <2>1, <2>3, <3>1, <3>2 DEF Stage, Waiting, Told
  <2>7. NoDanglingName'
    BY <1>1, <2>1, <2>3 DEF NoDanglingName, TypeOK
  <2> QED
    BY <1>4, <2>2, <2>4, <2>5, <2>6, <2>7 DEF DBusInv
<1>10. CASE server_close(c)
  <2>1. /\ link[c] = "closed" /\ link' = [link EXCEPT ![c] = "dead"]
        /\ up' = [up EXCEPT ![c] = <<>>] /\ UNCHANGED <<squeue, down, owner>>
    BY <1>10 DEF server_close, authvars
  <2>2. TypeOK'
    BY <1>1, <1>2, <1>8, <2>1 DEF TypeOK
  <2>3. /\ link'[c] = "dead" /\ up'[c] = <<>>
        /\ \A d \in Client \ {c} : link'[d] = link[d] /\ up'[d] = up[d]
    BY <1>1, <2>1 DEF TypeOK
  <2>4. Queued'
    BY <1>2, <1>6, <2>1 DEF Queued
  <2>5. ASSUME NEW d \in Client, d # c
        PROVE  Stage(d)'
    BY <1>1, <1>2, <1>5, <2>1, <2>3, <2>5, StageStays
  <2>6. Stage(c)'
    <3>1. CASE Done(c)
      <4>1. down[c] \in Seq(Received(c)')
        BY <1>5, <3>1, SeqGrows DEF Done
      <4> QED
        BY <1>2, <1>7, <2>1, <2>3, <3>1, <4>1 DEF Done, Stage
    <3>2. CASE Begun(c)
      BY <1>2, <2>1, <2>3, <3>2 DEF Begun, Stage
    <3> QED
      BY <1>1, <1>2, <2>1, <2>3, <3>1, <3>2 DEF Stage, Waiting, Told
  <2>7. NoDanglingName'
    BY <1>1, <2>1, <2>3 DEF NoDanglingName, TypeOK
  <2> QED
    BY <1>4, <2>2, <2>4, <2>5, <2>6, <2>7 DEF DBusInv
<1>11. CASE conn_closed(c)
  <2>1. /\ link[c] = "dead" /\ link' = [link EXCEPT ![c] = "gone"]
        /\ owner' = [n \in Name |-> IF owner[n] = c THEN Nobody ELSE owner[n]]
        /\ UNCHANGED <<squeue, up, down>>
    BY <1>11 DEF conn_closed, authvars, unregister_conn
  <2>2. TypeOK'
    BY <1>1, <1>2, <2>1 DEF TypeOK
  <2>3. \A d \in Client : link'[d] = "open" => link[d] = "open"
    BY <1>1, <2>1 DEF TypeOK
  <2>4. Queued'
    BY <1>2, <1>6, <2>1 DEF Queued
  <2>5. \A d \in Client : Stage(d)'
    BY <1>1, <1>2, <1>5, <2>1, <2>3, StageStays
  <2>6. NoDanglingName'
    BY <1>1, <2>1 DEF NoDanglingName, TypeOK
  <2> QED
    BY <1>4, <2>2, <2>4, <2>5, <2>6 DEF DBusInv
<1> QED
  BY <1>9, <1>10, <1>11

(* Clients that are connected have nothing under way, others have queued   *)
(* their Hello.                                                            *)
LEMMA InitDBus ==
  ASSUME Init
  PROVE  DBusInv
<1>1. ASSUME NEW c \in Client
      PROVE  Hello(c) \in Seq(Sent(c)) /\ Hello(c) \in Seq(Message)
  <2> DEFINE m1 == Msg("Hello", Bus, Nobody, 1, 0, <<c, 1>>)
             m2 == Msg("AddMatch", Bus, Nobody, 2, 0, <<c, 2>>)
  <2>1. m1 \in Message /\ m2 \in Message
    BY DEF Msg, Message, Types
  <2>2. serial[c] = 2
    BY DEF Init
  <2>3. /\ m1.type = "Hello" /\ m1.serial = 1 /\ m1.rserial = 0 /\ m1.of = <<c, 1>> /\ m1.dest = Bus
        /\ m2.type = "AddMatch" /\ m2.serial = 2 /\ m2.rserial = 0 /\ m2.of = <<c, 2>> /\ m2.dest = Bus
    BY DEF Msg
  <2>4. Hello(c) = <<m1, m2>>
    BY DEF Hello
  <2> HIDE DEF m1, m2
  <2>5. m1 \in Sent(c) /\ m2 \in Sent(c)
    BY <2>1, <2>2, <2>3, DBusAssumption DEF Sent
  <2>6. ASSUME NEW S, m1 \in S, m2 \in S
        PROVE  <<m1, m2>> \in Seq(S)
    BY <2>6
  <2> QED
    BY <2>1, <2>4, <2>5, <2>6
<1>2. Line("AUTH") \in OnWire
  BY DEF OnWire, Lines
<1>3. <<Line("AUTH")>> \in Seq(OnWire) /\ <<>> \in Seq(OnWire) /\ <<>> \in Seq(Message)
  BY <1>2
<1>4. TypeOK
  <2>1. \A c \in Client : Hello(c) \in Seq(Message)
    BY <1>1
  <2>2. cqueue \in [Client -> Seq(Message)] /\ squeue \in [Client -> Seq(Message)]
    BY <1>3, <2>1 DEF Init
  <2>3. up \in [Client -> Seq(OnWire)] /\ down \in [Client -> Seq(OnWire)]
    BY <1>3 DEF Init
  <2> QED
    BY <2>2, <2>3 DEF Init, TypeOK
<1>5. Numbers /\ OwnReply /\ AnsweredOnce /\ NoDanglingName
  BY DEF Init, Numbers, OwnReply, AnsweredOnce, NoDanglingName
<1>6. \A c \in Client : <<>> \in Seq(Sent(c)) /\ <<>> \in Seq(Received(c))
  OBVIOUS
<1>7. Queued
  <2>1. ASSUME NEW c \in Client
        PROVE  (cqueue[c] = <<>> \/ cqueue[c] = Hello(c)) /\ squeue[c] = <<>>
    BY DEF Init
  <2> QED
    BY <1>1, <1>6, <2>1 DEF Queued
<1>8. ASSUME NEW c \in Client
      PROVE  Stage(c)
  <2>1. CASE c \in Early
    BY <1>6, <2>1 DEF Init, Stage, Done
  <2>2. CASE c \notin Early
    BY <2>2 DEF Init, Stage, Waiting
  <2> QED
    BY <2>1, <2>2
<1> QED
  BY <1>4, <1>5, <1>7, <1>8 DEF DBusInv

(* What each stage of the authorization lets each end read.                *)
LEMMA StagesInStep == DBusInv => AuthInStep
<1> SUFFICES ASSUME DBusInv, NEW c \in Client
             PROVE  /\ up[c] # <<>> =>
                         CASE sauth[c] = "AuthWait"  -> Head(up[c]).type = "AUTH"
                           [] sauth[c] = "BeginWait" -> Head(up[c]).type = "BEGIN"
                           [] OTHER                  -> Head(up[c]).type \notin Lines
                    /\ down[c] # <<>> => (Head(down[c]).type = "OK" <=> ~cauth[c])
  BY DEF AuthInStep
<1>1. /\ Head(<<Line("AUTH")>>).type = "AUTH" /\ Head(<<Line("OK")>>).type = "OK"
      /\ Line("BEGIN").type = "BEGIN"
  BY DEF Line
<1>2. Stage(c)
  BY DEF DBusInv
<1>3. CASE Waiting(c)
  BY <1>1, <1>3 DEF Waiting
<1>4. CASE Told(c)
  BY <1>1, <1>4 DEF Told
<1>5. CASE Begun(c)
  BY <1>1, <1>5 DEF Begun
<1>6. CASE Done(c)
  <2>1. \A m \in Message : m.type \notin Lines
    BY DEF Message, Types, Lines
  <2>2. up[c] # <<>> => Head(up[c]) \in Message
    <3>1. up[c] # <<>> => Head(up[c]) \in Sent(c)
      BY <1>6, TailFacts DEF Done
    <3> QED
      BY <3>1 DEF Sent
  <2>3. down[c] # <<>> => Head(down[c]) \in Message
    <3>1. down[c] # <<>> => Head(down[c]) \in Received(c)
      BY <1>6, TailFacts DEF Done
    <3> QED
      BY <3>1 DEF Received
  <2> QED
    BY <1>6, <2>1, <2>2, <2>3 DEF Done, Lines
<1> QED
  BY <1>2, <1>3, <1>4, <1>5, <1>6 DEF Stage

(* The inductive invariant holds.                                          *)
THEOREM DBusInvariance == Spec => []DBusInv
<1>1. ASSUME DBusInv, [Next]_vars
      PROVE  DBusInv'
  <2>1. ASSUME NEW c \in Client, NEW d \in Client \union Name, call(c, d)
        PROVE  DBusInv'
    <3>1. d # Nobody
      BY DBusAssumption
    <3> QED
      BY <1>1, <2>1, <3>1, SendsKeeps DEF call
  <2>2. ASSUME NEW c \in Client, signal(c)
        PROVE  DBusInv'
    BY <1>1, <2>2, SendsKeeps DEF signal
  <2>3. ASSUME NEW c \in Client, NEW n \in Name, request_name(c, n) \/ release_name(c, n)
        PROVE  DBusInv'
    <3>1. Bus # Nobody
      BY DBusAssumption
    <3>2. CASE request_name(c, n)
      BY <1>1, <3>1, <3>2, SendsKeeps DEF request_name
    <3>3. CASE release_name(c, n)
      BY <1>1, <3>1, <3>3, SendsKeeps DEF release_name
    <3> QED
      BY <2>3, <3>2, <3>3
  <2>4. ASSUME NEW c \in Client, NEW s \in pending[c], expire_pending(c, s)
        PROVE  DBusInv'
    BY <1>1, <2>4, ExpireKeeps
  <2>5. ASSUME NEW c \in Client, client_auth(c) \/ server_auth(c)
        PROVE  DBusInv'
    BY <1>1, <2>5, ClientAuthKeeps, ServerAuthKeeps
  <2>6. ASSUME NEW c \in Client, filter_func(c) \/ server_filter(c)
        PROVE  DBusInv'
    BY <1>1, <2>6, FilterKeeps, ServerFilterKeeps
  <2>7. ASSUME NEW c \in Client, close(c) \/ server_close(c) \/ conn_closed(c)
        PROVE  DBusInv'
    BY <1>1, <2>7, ClosesKeep
  <2>8. CASE UNCHANGED vars
    <3>1. UNCHANGED <<link, cauth, sauth, cqueue, squeue, up, down, owner, pending, serial, answers>>
      BY <2>8 DEF vars, authvars
    <3>2. TypeOK'
      BY <1>1, <3>1 DEF DBusInv, TypeOK
    <3>3. Growing /\ \A c \in Client : pending'[c] \subseteq 1 .. serial'[c]
      BY <1>1, <3>1 DEF DBusInv, TypeOK, Numbers, Growing
    <3>4. Numbers' /\ OwnReply' /\ AnsweredOnce'
      BY <1>1, <3>1, <3>3, AnswersStay
    <3>5. \A c \in Client : Sent(c) \subseteq Sent(c)' /\ Received(c) \subseteq Received(c)'
      BY <1>1, <3>3, MessagesStay DEF DBusInv
    <3>6. Queued'
      BY <1>1, <3>1, <3>5, SeqGrows DEF DBusInv, Queued
    <3>7. \A c \in Client : Stage(c)'
      BY <1>1, <3>1, <3>5, StageStays DEF DBusInv
    <3>8. NoDanglingName'
      BY <1>1, <3>1 DEF DBusInv, NoDanglingName
    <3> QED
      BY <3>2, <3>4, <3>6, <3>7, <3>8 DEF DBusInv
  <2> QED
    BY <1>1, <2>1, <2>2, <2>3, <2>4, <2>5, <2>6, <2>7, <2>8 DEF Next
<1> QED
  BY <1>1, InitDBus, PTL DEF Spec

(* A callback gets the reply to its own call, and no other after that or   *)
(* after its timeout, both ends get the lines and messages their state is  *)
(* ready for, and no name leads to a deleted connection.                   *)
THEOREM CallsAreRouted == Spec => []CallsRouted
<1>1. DBusInv => CallsRouted
  BY StagesInStep DEF DBusInv, CallsRouted
<1> QED
  BY <1>1, DBusInvariance, PTL
============================================================================
