----------------------------- MODULE SharedClient -----------------------------
(***************************************************************************)
(* One request of the shared ApiClient on the wire (net/client.rs,         *)
(* net/http.rs): connect, TLS handshake, write, flush, read until the      *)
(* server closes, parse.  The tasks take turns behind an async mutex.      *)
(*                                                                         *)
(* resp_buf is allocated once and reused by every request; nothing clears  *)
(* it.  It is a function from cells to the answer that was last written    *)
(* there.  An answer is a number of cells, of which the first HEAD hold    *)
(* the status line and the headers up to the blank line.                   *)
(***************************************************************************)
EXTENDS Naturals

CONSTANTS
  Tasks,        \* the tasks that share the client
  BUF,          \* resp_buf.len()
  HEAD,         \* cells up to the blank line
  AnswerLens,   \* lengths of the server's answers
  HEAD_BUF,     \* capacity of the request head
  HeadLens,     \* lengths of request heads
  MaxLate       \* requests given up on that are still with the server

ASSUME SharedClientAssumption ==
  /\ "free" \notin Tasks
  /\ BUF \in Nat \ {0}
  /\ HEAD \in Nat \ {0}
  /\ AnswerLens \subseteq Nat /\ \A n \in AnswerLens : n >= HEAD
  /\ HEAD_BUF \in Nat
  /\ HeadLens \subseteq Nat
  /\ MaxLate \in Nat

VARIABLES
  lock,      \* who holds the client, or "free"
  step,      \* where request() is
  head,      \* length of the request's head
  server,    \* what the server has made of the request
  arriving,  \* cells of the answer that arrive before the connection closes
  resp_buf,  \* survives from one request to the next
  total,     \* cells read
  result,    \* what request() returned
  late,      \* requests given up on that the server may still handle
  fault      \* what the network has done to this request

vars == <<lock, step, head, server, arriving, resp_buf, total, result, late,
          fault>>

Answers == {"handled", "refused"}
ApiErrors == {"Tcp", "Tls", "Fmt", "Truncated", "BadResponse"}

Init ==
  /\ lock = "free" /\ step = "idle"
  /\ head \in HeadLens
  /\ server = "absent"
  /\ arriving = 0
  /\ resp_buf = [i \in 1 .. BUF |-> "zero"]
  /\ total = 0
  /\ result = "none"
  /\ late = 0
  /\ fault = "none"

-----------------------------------------------------------------------------
(* The client. *)

\* client.lock().await, then request() up to its first await
Acquire(t) ==
  /\ lock = "free"
  /\ lock' = t /\ step' = "connect"
  /\ head' \in HeadLens
  /\ server' = "absent"
  /\ arriving' = 0
  /\ total' = 0
  /\ result' = "none"
  /\ fault' = "none"
  /\ UNCHANGED <<resp_buf, late>>

Goto(s) ==
  /\ step' = s
  /\ UNCHANGED <<lock, head, resp_buf, total, result, late>>

\* The server does not learn that a request it has is given up on, and may
\* handle it later.
GiveUp ==
  late' \in IF step \in {"read", "close"} /\ server = "received" /\ late < MaxLate
            THEN {late, late + 1} ELSE {late}

\* request() returns, with an answer or without.
Return(r) ==
  /\ step' = "done" /\ result' = r
  /\ GiveUp
  /\ UNCHANGED <<lock, head, server, arriving, resp_buf, total>>

Connected ==
  /\ step = "connect" /\ Goto("open")
  /\ UNCHANGED <<server, arriving, fault>>

\* The handshake is done; the head is built only now.
Opened ==
  /\ step = "open" /\ head <= HEAD_BUF
  /\ Goto("write")
  /\ UNCHANGED <<server, arriving, fault>>

HeadTooLong ==
  /\ step = "open" /\ head > HEAD_BUF
  /\ Return("Fmt")
  /\ UNCHANGED fault

Written ==
  /\ step = "write" /\ Goto("flush")
  /\ UNCHANGED <<server, arriving, fault>>

Flushed ==
  /\ step = "flush" /\ Goto("read")
  /\ server' = "received"
  /\ UNCHANGED <<arriving, fault>>

eof == total = arriving /\ (fault = "cut" \/ server \in Answers)

\* Slip: a buffer with one cell left is taken for full.
Full_early == total + 1 >= BUF

\* The check before each read: an answer that fills the buffer exactly is
\* Truncated too, although nothing of it is missing.
Full == total = BUF

\* Slip: more cells are counted than the buffer has.
Read_past_end ==
  /\ step = "read" /\ ~Full /\ total < arriving
  /\ \E n \in 1 .. arriving - total : total' = total + n
  /\ resp_buf' = [i \in 1 .. BUF |-> IF i > total THEN server ELSE resp_buf[i]]
  /\ UNCHANGED <<lock, step, head, server, arriving, result, late, fault>>

Read ==
  /\ step = "read" /\ ~Full /\ total < arriving
  /\ \E n \in 1 .. arriving - total :
       /\ total + n <= BUF
       /\ total' = total + n
       /\ resp_buf' = [i \in 1 .. BUF |->
                         IF i \in total + 1 .. total + n THEN server
                                                         ELSE resp_buf[i]]
  /\ UNCHANGED <<lock, step, head, server, arriving, result, late, fault>>

\* Slip: only ConnectionClosed ends the loop, Ok(0) reads on.
ReadEnd_reads_on ==
  /\ step = "read" /\ ~Full /\ eof /\ fault = "cut"
  /\ Goto("close")
  /\ UNCHANGED <<server, arriving, fault>>

\* Ok(0) or ConnectionClosed: the answer is taken to be complete.
ReadEnd ==
  /\ step = "read" /\ ~Full /\ eof
  /\ Goto("close")
  /\ UNCHANGED <<server, arriving, fault>>

Truncated ==
  /\ step = "read" /\ Full
  /\ Return("Truncated")
  /\ UNCHANGED fault

\* Slip: the whole buffer is parsed, not what was read.
parse_response_whole_buffer(n) ==
  IF HEAD <= BUF /\ \A i \in 1 .. HEAD : resp_buf[i] \in Answers
  THEN resp_buf[1] ELSE "BadResponse"

\* parse_response(&resp_buf[..n]): the blank line has to be among the first n
\* cells; the status is in the first.
parse_response(n) ==
  IF HEAD <= n /\ \A i \in 1 .. HEAD : resp_buf[i] \in Answers
  THEN resp_buf[1] ELSE "BadResponse"

\* tls.close(), whose result is ignored, and the parse
Parse ==
  /\ step = "close"
  /\ Return(parse_response(total))
  /\ UNCHANGED fault

\* The caller drops the guard.
Release ==
  /\ step = "done"
  /\ lock' = "free" /\ step' = "idle"
  /\ UNCHANGED <<head, server, arriving, resp_buf, total, result, late, fault>>

-----------------------------------------------------------------------------
(* The server. *)

ServerAnswers ==
  /\ server = "received" /\ step = "read" /\ fault # "cut"
  /\ server' \in Answers
  /\ arriving' \in AnswerLens
  /\ UNCHANGED <<lock, step, head, resp_buf, total, result, late, fault>>

LateHandled ==
  /\ late > 0 /\ late' = late - 1
  /\ UNCHANGED <<lock, step, head, server, arriving, resp_buf, total, result, fault>>

-----------------------------------------------------------------------------
(* The network. *)

\* The error of the step that is under way
ErrorOf(s) == IF s = "connect" THEN "Tcp" ELSE "Tls"

\* Slip: a request that failed is sent again under the same lock.
NetworkFails_retries ==
  /\ step \in {"connect", "open", "write", "flush", "read"}
  /\ step' = "connect" /\ total' = 0
  /\ server' = "absent" /\ arriving' = 0
  /\ late' = IF server = "received" /\ late < MaxLate THEN late + 1 ELSE late
  /\ fault' = "failed"
  /\ UNCHANGED <<lock, head, resp_buf, result>>

\* A reset, an alert or an unreachable host.
NetworkFails ==
  /\ step \in {"connect", "open", "write", "flush", "read"}
  /\ Return(ErrorOf(step))
  /\ fault' = "failed"

\* The same after the last byte of the request has left and before flush or
\* write_all has returned.
FailsAfterRequest ==
  /\ step \in {"write", "flush"}
  /\ step' = "done" /\ result' = "Tls"
  /\ server' = "received"
  /\ late' \in IF late < MaxLate THEN {late, late + 1} ELSE {late}
  /\ fault' = "failed"
  /\ UNCHANGED <<lock, head, arriving, resp_buf, total>>

\* The peer closes before its answer is complete, or without one.
ClosedEarly ==
  /\ step = "read" /\ fault # "cut"
  /\ arriving' \in IF server \in Answers THEN total .. arriving ELSE {0}
  /\ fault' = "cut"
  /\ UNCHANGED <<lock, step, head, server, resp_buf, total, result, late>>

\* set_timeout(10 s): nothing has come from the peer.
Timeout ==
  /\ step \in {"connect", "open", "write", "flush"} \/ (step = "read" /\ ~eof)
  /\ Return(ErrorOf(step))
  /\ fault' = "failed"

\* Power is cut: resp_buf is a static and starts as zeros again.
PowerCycle ==
  /\ lock' = "free" /\ step' = "idle"
  /\ head' = head
  /\ server' = "absent"
  /\ arriving' = 0
  /\ resp_buf' = [i \in 1 .. BUF |-> "zero"]
  /\ total' = 0 /\ result' = "none"
  /\ fault' = "none"
  /\ GiveUp

-----------------------------------------------------------------------------

Client == Connected \/ Opened \/ HeadTooLong \/ Written \/ Flushed \/ Read
          \/ ReadEnd \/ Truncated \/ Parse \/ Release

Network == NetworkFails \/ FailsAfterRequest \/ ClosedEarly \/ PowerCycle

Next == (\E t \in Tasks : Acquire(t)) \/ Client \/ ServerAnswers \/ LateHandled
        \/ Network \/ Timeout

Spec == Init /\ [][Next]_vars

\* The task that holds the client is polled, and a silent peer trips the
\* socket's timeout.  The server need never answer.
FairSpec == Spec /\ WF_vars(Client) /\ WF_vars(Timeout)

-----------------------------------------------------------------------------
(* Correctness. *)

TypeOK ==
  /\ lock \in Tasks \cup {"free"}
  /\ step \in {"idle", "connect", "open", "write", "flush", "read", "close",
               "done"}
  /\ head \in HeadLens
  /\ server \in {"absent", "received"} \cup Answers
  /\ arriving \in Nat
  /\ resp_buf \in [1 .. BUF -> Answers \cup {"zero"}]
  /\ total \in 0 .. BUF
  /\ result \in Answers \cup ApiErrors \cup {"none"}
  /\ late \in 0 .. MaxLate
  /\ fault \in {"none", "cut", "failed"}

\* An answer that request() returns is the one the server gave to this
\* request, although the buffer still holds earlier answers and a connection
\* that closes early counts as the end of the answer.
AnswerIsTrue ==
  step = "done" /\ result \in Answers => server = result

\* A request that met no fault is answered, up to an answer that is one cell
\* shorter than the buffer.
FaultFreeSucceeds ==
  step = "done" /\ fault = "none" /\ head <= HEAD_BUF /\ arriving < BUF
    => result \in Answers

\* The lock comes free again, whatever the server does.
CallEnds == \A t \in Tasks : lock = t ~> lock # t

\* The refinement mapping: errors are lost calls, and a request is out until
\* the server has answered it.
stage ==
  IF lock = "free" THEN "idle"
  ELSE IF step = "done" THEN IF result \in Answers THEN result ELSE "lost"
  ELSE IF server \in Answers THEN server ELSE "out"

Abstract == INSTANCE ApiCall WITH holder <- lock, pending <- late

\* Every step of a request on the wire is a step of ApiCall or changes
\* nothing there.
ImplementsApiCall == Abstract!Spec
=============================================================================
