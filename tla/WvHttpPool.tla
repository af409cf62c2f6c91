----------------------------- MODULE WvHttpPool -----------------------------
(***************************************************************************)
(* WvHttpPool and its WvHttpStream: requests for URLs of one server go     *)
(* over one connection at a time, several at once if the server passes the *)
(* pipelining test; when the connection ends the requests that were not    *)
(* answered are sent again over the next one.                              *)
(*                                                                         *)
(* The server speaks HTTP/1.1.  It answers in order, may refuse a request  *)
(* that it does not expect (status 400), may answer the two tests in       *)
(* different ways, and may close or reset the connection at any time.  An  *)
(* answer is a header and, except to HEAD, one piece of body, which comes  *)
(* whole or is cut off by a reset; its end is known from the length or     *)
(* from the end of the connection.                                         *)
(***************************************************************************)
EXTENDS Integers, Sequences, SequencesExt, FiniteSets

CONSTANTS
  Url,          \* the requests, numbers > 0
  MaxRequests,  \* max_requests: the requests of one connection
  Pipelining,   \* global_enable_pipelining
  MaxCloses     \* bound: the times the server closes the connection

VARIABLES
  pool,     \* WvHttpPool: known, the urls ever added; order, its urls; out, those with an outstream;
            \* instream, those given to the connection; broken, for
            \* pipeline_incompatible
  conn,     \* the WvHttpStream and its WvTCPConn, or NoConn
  got,      \* got[u]: the answers whose body was written to u's outstream
  failed,   \* history: the URLs that were given up on an error
  errors,   \* history: the connections that ended with an error
  aborted,  \* an assertion has failed
  closes    \* counts the closes, for the bound

httpvars == <<pool, conn, got, failed, errors, aborted, closes>>

Test == 0       \* the request of the pipelining test
None == -1

NoConn == [live |-> FALSE]

(* A new WvHttpStream: urls and waiting are its lists, curl the request    *)
(* whose body is read; wire and answers are the two directions of the      *)
(* connection.                                                             *)
NewConn(p) ==
  [live |-> TRUE, ok |-> TRUE, err |-> FALSE, reset |-> FALSE, eof |-> FALSE,
   pipelining |-> Pipelining /\ ~p.broken,
   urls |-> <<>>, waiting |-> <<>>, curl |-> None, untilclose |-> FALSE,
   count |-> 0, tests |-> 0, last_test |-> FALSE, in_doneurl |-> FALSE,
   response |-> "", test_response |-> "", wire |-> <<>>, answers |-> <<>>]

Init ==
  /\ pool = [known |-> {}, order |-> <<>>, out |-> {}, instream |-> {}, broken |-> FALSE]
  /\ conn = NoConn
  /\ got = [u \in Url |-> <<>>]
  /\ failed = {}
  /\ errors = 0
  /\ aborted = FALSE
  /\ closes = 0

----------------------------------------------------------------------------
(* What a call changes.                                                    *)
Now == [c |-> conn, p |-> pool, failed |-> failed, errors |-> errors, abort |-> FALSE]

pipelining_is_broken(x) == [x EXCEPT !.p.broken = TRUE]

(* A connection that ends before the test has shown that pipelining works  *)
(* counts against pipelining.                                              *)
TestFails(c) ==
  c.pipelining /\ MaxRequests > 1 /\ (c.tests < 1 \/ (c.tests = 1 /\ c.last_test))

(* Mutant of GivesUp: the request is tried again.                          *)
NeverGivesUp(c) == FALSE

(* Otherwise, after an error, the first request is given up.               *)
GivesUp(c) == c.err /\ ~TestFails(c)
FirstRequest(c) ==
  IF c.curl # None THEN c.curl
  ELSE IF c.urls # <<>> THEN Head(c.urls)
  ELSE IF c.waiting # <<>> THEN Head(c.waiting) ELSE None

(* close() up to its call of doneurl().                                    *)
closing(x) ==
  LET y == IF TestFails(x.c) THEN pipelining_is_broken(x) ELSE x
      first == FirstRequest(x.c)
  IN IF GivesUp(x.c)
       THEN [y EXCEPT !.c.ok = FALSE, !.c.curl = first,
                      !.failed = IF first > 0 THEN @ \union {first} ELSE @]
       ELSE [y EXCEPT !.c.ok = FALSE]

(* close() called from doneurl(): doneurl() does nothing then.             *)
close_within(x) == [closing(x) EXCEPT !.c.waiting = <<>>]

(* Errors are counted as far as it matters for OneGivenUp.                 *)
OneMore(n) == IF n < Cardinality(Url) THEN n + 1 ELSE n

(* send_request(), but for the close() that an error makes.                *)
Sent(x, r) ==
  LET c == x.c
  IN [x EXCEPT !.c.count = @ + 1,
               !.c.wire = IF c.ok /\ ~c.reset /\ ~c.eof THEN Append(@, r) ELSE @,
               !.c.err = @ \/ (c.ok /\ c.reset),
               !.errors = IF c.ok /\ c.reset THEN OneMore(@) ELSE @]

send_within(x, r) ==
  IF x.c.ok /\ x.c.reset THEN close_within(Sent(x, r)) ELSE Sent(x, r)

(* request_next() sends the first waiting request, after the test if it is *)
(* the first of the connection.                                            *)
MayRequest(c) ==
  /\ c.count < MaxRequests /\ c.waiting # <<>>
  /\ c.pipelining \/ c.urls = <<>>
TestFirst(c) == c.pipelining /\ c.count = 0 /\ MaxRequests > 1

request_next_within(x) ==
  LET u == Head(x.c.waiting)
      a == [x EXCEPT !.c.waiting = Tail(@)]
      t == IF TestFirst(x.c) THEN [send_within(a, Test) EXCEPT !.c.urls = Append(@, Test)] ELSE a
  IN IF ~MayRequest(x.c) THEN x
     ELSE [send_within(t, u) EXCEPT !.c.urls = Append(@, u)]

(* doneurl(): the request is done and, with the first test, the second one *)
(* is sent; a different answer to that one means pipelining does not work. *)
doneurl(x) ==
  LET c == x.c
      a == [x EXCEPT !.c.in_doneurl = TRUE, !.c.response = "", !.c.untilclose = FALSE,
                     !.c.last_test = c.curl = Test]
      t == [a EXCEPT !.c.tests = @ + 1, !.c.test_response = c.response]
      differs == c.curl = Test /\ c.tests # 0 /\ c.test_response # c.response
      b == IF c.curl # Test THEN a
           ELSE IF c.tests = 0 THEN [send_within(t, Test) EXCEPT !.c.urls = Append(@, Test)]
           ELSE IF differs THEN pipelining_is_broken(t)
           ELSE t
      d == [b EXCEPT !.p.out = @ \ {c.curl}, !.c.curl = None, !.c.urls = Tail(@)]
      e == IF differs THEN close_within(d) ELSE d
  IN IF c.in_doneurl THEN x
     ELSE IF c.urls = <<>> THEN [x EXCEPT !.abort = TRUE]
     ELSE IF c.curl # Head(c.urls) THEN [x EXCEPT !.abort = TRUE]
     ELSE [request_next_within(e) EXCEPT !.c.in_doneurl = FALSE]

(* close(): the request given up or cut off counts as done.                *)
close(x) ==
  LET a == closing(x)
      b == IF GivesUp(x.c) /\ a.c.curl # None THEN doneurl(a) ELSE a
      z == [b EXCEPT !.c.waiting = <<>>]
  IN IF z.c.curl # None /\ ~z.abort THEN doneurl(z) ELSE z

send(x, r) == IF x.c.ok /\ x.c.reset THEN close(Sent(x, r)) ELSE Sent(x, r)

(* WvUrlStream::addurl() and request_next().                               *)
stream_addurl(x, u) ==
  LET q == [x EXCEPT !.c.waiting = Append(@, u)]
      v == Head(q.c.waiting)
      a == [q EXCEPT !.c.waiting = Tail(@)]
      t == IF TestFirst(q.c) THEN [send(a, Test) EXCEPT !.c.urls = Append(@, Test)] ELSE a
  IN IF ~MayRequest(q.c) THEN q
     ELSE [send(t, v) EXCEPT !.c.urls = Append(@, v)]

(* unconnect(): the destructor of the stream calls close() once more.      *)
unconnect(x) == [close([x EXCEPT !.p.instream = {}]) EXCEPT !.c = NoConn]

----------------------------------------------------------------------------
Become(after) ==
  /\ ~aborted
  /\ \E x \in {after} :
       /\ conn' = x.c /\ pool' = x.p /\ failed' = x.failed /\ errors' = x.errors
       /\ aborted' = x.abort

(* The user's addurl().                                                    *)
addurl(u) ==
  /\ u \notin pool.known
  /\ ~aborted
  /\ pool' = [pool EXCEPT !.order = Append(@, u), !.out = @ \union {u}, !.known = @ \union {u}]
  /\ UNCHANGED <<conn, got, failed, errors, aborted, closes>>

DeadConn == conn.live /\ ~conn.ok

(* There is something to do for post_select(), for execute().              *)
ToDrop == ~aborted /\ (DeadConn \/ ~(Range(pool.order) \subseteq pool.out))
ToAssign == ~aborted /\ \E u \in Range(pool.order) \intersect pool.out : DeadConn \/ u \notin pool.instream

(* post_select(): a connection that ended is deleted, requests that are    *)
(* done are dropped.                                                       *)
post_select ==
  LET x == IF conn.live THEN IF conn.ok THEN Now ELSE unconnect(Now) ELSE Now
      done == SelectSeq(x.p.order, LAMBDA u : u \notin x.p.out)
      Delurl(y, u) ==
        LET z == IF y.c.live THEN IF y.c.curl = u THEN doneurl(y) ELSE y ELSE y
        IN IF z.c.live THEN [z EXCEPT !.c.urls = SelectSeq(@, LAMBDA v : v # u),
                                      !.c.waiting = SelectSeq(@, LAMBDA v : v # u)]
           ELSE z
      y == FoldLeft(Delurl, x, done)
  IN /\ ToDrop
     /\ Become([y EXCEPT !.p.order = SelectSeq(@, LAMBDA u : u \in x.p.out)])
     /\ UNCHANGED <<got, closes>>

(* Mutant of Assign: the request is not marked as given to the stream.     *)
AssignAgain(x, u) ==
  LET a == IF x.c.live THEN IF x.c.ok THEN x ELSE unconnect(x) ELSE x
      b == IF a.c.live THEN a ELSE [a EXCEPT !.c = NewConn(a.p)]
  IN IF u \notin x.p.out \/ x.abort THEN x
     ELSE IF u \notin a.p.out \/ a.abort THEN a
     ELSE IF u \in b.p.instream THEN b
     ELSE stream_addurl(b, u)

(* One round of the loop in execute().                                     *)
Assign(x, u) ==
  LET a == IF x.c.live THEN IF x.c.ok THEN x ELSE unconnect(x) ELSE x
      b == IF a.c.live THEN a ELSE [a EXCEPT !.c = NewConn(a.p)]
  IN IF u \notin x.p.out \/ x.abort THEN x
     ELSE IF u \notin a.p.out \/ a.abort THEN a
     ELSE IF u \in b.p.instream THEN b
     ELSE [stream_addurl(b, u) EXCEPT !.p.instream = @ \union {u}]

execute ==
  /\ ToAssign
  /\ Become(FoldLeft(Assign, Now, pool.order))
  /\ UNCHANGED <<got, closes>>

----------------------------------------------------------------------------
(* WvHttpStream::execute().                                                *)
Reading == conn.live /\ conn.ok /\ conn.answers # <<>>
Rest(x) == [x EXCEPT !.c.answers = Tail(@)]
WithError(x) == [x EXCEPT !.c.err = TRUE, !.errors = OneMore(@)]

(* The header of an answer.  The answer to the test, or a refusal, right   *)
(* after a test means that what was sent in between was lost.              *)
ReadHeader(p) ==
  LET x == [Rest(Now) EXCEPT !.c.response = p.status]
      y == [x EXCEPT !.c.curl = Head(x.c.urls), !.c.untilclose = p.untilclose]
  IN IF conn.last_test /\ (p.status = conn.test_response \/ p.status = "400")
       THEN close(pipelining_is_broken(x))
     ELSE IF x.c.urls = <<>> THEN close(WithError(x))
     ELSE IF y.c.curl = Test THEN doneurl(y) ELSE y

read_header ==
  /\ Reading /\ conn.curl = None /\ Head(conn.answers).part = "header"
  /\ Become(ReadHeader(Head(conn.answers)))
  /\ UNCHANGED <<got, closes>>

read_body ==
  /\ Reading /\ conn.curl # None /\ Head(conn.answers).part = "body"
  /\ got' = [got EXCEPT ![conn.curl] = Append(@, Head(conn.answers).of)]
  /\ Become(IF conn.untilclose THEN Rest(Now) ELSE doneurl(Rest(Now)))
  /\ UNCHANGED closes

(* The server has closed the connection, or reset it.                      *)
read_end ==
  /\ conn.live /\ conn.ok
  /\ \/ conn.eof /\ conn.answers = <<>> /\ Become(close(Now))
     \/ conn.reset /\ Become(close(WithError(Now)))
  /\ UNCHANGED <<got, closes>>

(* The alarm: no answer for a long time, or nothing to do.                 *)
alarm ==
  /\ conn.live /\ conn.ok /\ conn.answers = <<>>
  /\ \/ conn.urls # <<>> /\ Become(close(WithError(Now)))
     \/ conn.urls = <<>> /\ Become(close(Now))
  /\ UNCHANGED <<got, closes>>

----------------------------------------------------------------------------
(* The server.                                                             *)
Connected == conn.live /\ conn.ok /\ ~conn.reset /\ ~conn.eof

Answer(r, status, untilclose) ==
  LET head == [part |-> "header", of |-> r, status |-> status, untilclose |-> untilclose]
  IN IF r = Test THEN <<head>> ELSE <<head, [head EXCEPT !.part = "body"]>>

server_answers(status, untilclose) ==
  /\ Connected /\ conn.wire # <<>>
  /\ Head(conn.wire) = Test => status # "400" /\ ~untilclose
  /\ conn' = [conn EXCEPT !.wire = IF untilclose THEN <<>> ELSE Tail(@), !.eof = untilclose,
                          !.answers = @ \o Answer(Head(conn.wire), status, untilclose)]
  /\ UNCHANGED <<pool, got, failed, errors, aborted, closes>>

server_closes ==
  /\ Connected /\ closes < MaxCloses
  /\ closes' = closes + 1
  /\ conn' = [conn EXCEPT !.eof = TRUE, !.wire = <<>>]
  /\ UNCHANGED <<pool, got, failed, errors, aborted>>

server_resets ==
  /\ Connected
  /\ conn' = [conn EXCEPT !.reset = TRUE, !.wire = <<>>, !.answers = <<>>]
  /\ UNCHANGED <<pool, got, failed, errors, aborted, closes>>

server == \E status \in {"200", "400", "404"}, untilclose \in BOOLEAN : server_answers(status, untilclose)

Next ==
  \/ \E u \in Url : addurl(u)
  \/ post_select \/ execute
  \/ read_header \/ read_body \/ read_end \/ alarm
  \/ server \/ server_closes \/ server_resets

(* The steps of the program that it does not put off forever: the pool is  *)
(* selected on and called, what can be read is read, and the alarm of an   *)
(* idle connection rings.  May names the states in which there is one.     *)
May ==
  \/ ToDrop \/ ToAssign
  \/ /\ ~aborted /\ conn.live /\ conn.ok
     /\ conn.answers # <<>> \/ conn.eof \/ conn.reset \/ conn.urls = <<>>

runs ==
  \/ post_select \/ execute
  \/ read_header \/ read_body \/ read_end
  \/ conn.live /\ conn.urls = <<>> /\ alarm

(* Weak fairness of the program, written out, and of the server.           *)
Fairness == ([]<>~May \/ []<><<runs>>_httpvars) /\ WF_httpvars(server)

Spec == Init /\ [][Next]_httpvars
FairSpec == Spec /\ Fairness

----------------------------------------------------------------------------
(* No request is forgotten: what was given to a connection is known there  *)
(* until the connection has ended.                                         *)
NoneForgotten ==
  \A u \in pool.instream \intersect pool.out :
    conn.live /\ (conn.ok => u \in Range(conn.urls) \union Range(conn.waiting))

(* Every outstream gets the answer to its own request, and gets it once,   *)
(* however often the request was sent again.                               *)
OwnAnswer == \A u \in Url : got[u] \in {<<>>, <<u>>}

(* Without pipelining a request is only sent when the one before it was    *)
(* answered.                                                               *)
OneAtATime == conn.live /\ conn.ok /\ ~conn.pipelining => Len(conn.urls) <= 1

(* Every request is done in the end, with an answer or without: it is not  *)
(* retried forever after errors.                                           *)
AllDone == \A u \in Url : []<>(u \notin pool.out \/ aborted)

(* "if there was an error, count the first URL as done": an error costs    *)
(* one request.                                                            *)
OneGivenUp == Cardinality(failed) <= errors

(* assert(curl == urls.first())                                            *)
DoneIsFirst == ~aborted
============================================================================
