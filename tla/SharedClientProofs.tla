-------------------------- MODULE SharedClientProofs --------------------------
(***************************************************************************)
(* Proofs about SharedClient: an answer that request() returns is the      *)
(* server's answer to this request, a request that meets no fault is       *)
(* answered, and the steps on the wire implement ApiCall, for every set of *)
(* tasks, buffer size and length of answer.                                *)
(***************************************************************************)
EXTENDS SharedClient, TLAPS

\* What request() has read so far is the answer to this request, and there is
\* one once a cell has been read.
OwnCells ==
  /\ lock = "free" <=> step = "idle"
  /\ step \in {"connect", "open", "write", "flush"} =>
       total = 0 /\ arriving = 0 /\ server = "absent"
  /\ step \in {"read", "close"} =>
       /\ server # "absent"
       /\ server = "received" => arriving = 0
       /\ total <= arriving
       /\ \A i \in 1 .. total : resp_buf[i] = server
  /\ step = "done" => result # "none"

Inv == TypeOK /\ OwnCells /\ AnswerIsTrue

\* The client starts idle, without a connection.
LEMMA InvInit == Init => Inv
  BY SharedClientAssumption
  DEF Init, Inv, TypeOK, OwnCells, AnswerIsTrue, Answers

\* The status comes from the first cell, which is this request's if the blank
\* line is among the cells read.
LEMMA ParsedIsOwn ==
  ASSUME Inv, step = "close"
  PROVE  /\ parse_response(total) \in Answers \cup ApiErrors
         /\ parse_response(total) \in Answers => parse_response(total) = server
  BY SharedClientAssumption
  DEF Inv, TypeOK, OwnCells, parse_response, Answers, ApiErrors

\* Each step of the client, the server and the network keeps the invariant.
LEMMA InvStep == Inv /\ [Next]_vars => Inv'
<1> SUFFICES ASSUME Inv, [Next]_vars PROVE Inv'
  OBVIOUS
<1> USE SharedClientAssumption
    DEF Inv, TypeOK, OwnCells, AnswerIsTrue, Answers, ApiErrors
<1>1. CASE \E t \in Tasks : Acquire(t)
  BY <1>1 DEF Acquire
<1>2. CASE Connected \/ Opened \/ Written \/ Flushed
  BY <1>2 DEF Connected, Opened, Written, Flushed, Goto
<1>3. CASE Read
  BY <1>3 DEF Read
<1>4. CASE ReadEnd \/ HeadTooLong \/ Truncated \/ Release
  BY <1>4 DEF ReadEnd, HeadTooLong, Truncated, Release, Goto, Return, GiveUp
<1>5. CASE Parse
  <2>1. /\ parse_response(total) \in Answers \cup ApiErrors
        /\ parse_response(total) \in Answers => parse_response(total) = server
    BY <1>5, ParsedIsOwn DEF Parse
  <2> QED
    BY <1>5, <2>1 DEF Parse, Return, GiveUp
<1>6. CASE ServerAnswers
  <2>1. total = 0 /\ arriving' \in Nat
    BY <1>6 DEF ServerAnswers
  <2> QED
    BY <1>6, <2>1 DEF ServerAnswers
<1>7. CASE LateHandled
  BY <1>7 DEF LateHandled
<1>8. CASE NetworkFails \/ FailsAfterRequest \/ Timeout
  BY <1>8 DEF NetworkFails, FailsAfterRequest, Timeout, Return, GiveUp, ErrorOf
<1>9. CASE ClosedEarly
  BY <1>9 DEF ClosedEarly
<1>10. CASE PowerCycle
  BY <1>10 DEF PowerCycle, GiveUp
<1>11. CASE UNCHANGED vars
  BY <1>11 DEF vars
<1> QED
  BY <1>1, <1>2, <1>3, <1>4, <1>5, <1>6, <1>7, <1>8, <1>9, <1>10,
     <1>11
  DEF Next, Client, Network

\* Every reachable state of the client is well typed; in particular a read
\* never goes past the end of resp_buf.
THEOREM ClientTypeCorrect == Spec => []TypeOK
<1>1. Inv => TypeOK
  BY DEF Inv
<1> QED
  BY <1>1, InvInit, InvStep, PTL DEF Spec

\* Nothing that earlier requests left in resp_buf is ever taken for an answer,
\* wherever the connection is cut.
THEOREM AnswersAreTrue == Spec => []AnswerIsTrue
<1>1. Inv => AnswerIsTrue
  BY DEF Inv
<1> QED
  BY <1>1, InvInit, InvStep, PTL DEF Spec

-----------------------------------------------------------------------------
(* A request that meets no fault. *)

\* Once past the check of the head it fits; an answer has its whole head; and
\* the loop ends only where the answer does.
Unhurt ==
  /\ step \in {"write", "flush", "read", "close"} => head <= HEAD_BUF
  /\ step \in {"read", "close"} /\ fault = "none" /\ server \in Answers =>
       arriving >= HEAD
  /\ step = "close" /\ fault = "none" => total = arriving /\ server \in Answers

UnhurtInv == Unhurt /\ FaultFreeSucceeds

\* With all of the answer read, the blank line is found and the status is one
\* of the server's answers.
LEMMA WholeAnswerParses ==
  ASSUME Inv, Unhurt, step = "close", fault = "none"
  PROVE  parse_response(total) \in Answers
<1>1. /\ total \in Nat /\ HEAD \in Nat \ {0} /\ HEAD <= total
      /\ server \in Answers
  BY SharedClientAssumption DEF Inv, TypeOK, Unhurt
<1>2. \A i \in 1 .. HEAD : i \in 1 .. total
  BY <1>1
<1>3. \A i \in 1 .. HEAD : resp_buf[i] = server
  BY <1>2 DEF Inv, OwnCells
<1> QED
  BY <1>1, <1>3 DEF parse_response

\* A request that no fault has touched stays on its way to an answer.
LEMMA UnhurtStep == Inv /\ UnhurtInv /\ [Next]_vars => UnhurtInv'
<1> SUFFICES ASSUME Inv, UnhurtInv, [Next]_vars PROVE UnhurtInv'
  OBVIOUS
<1> USE SharedClientAssumption
    DEF Inv, TypeOK, OwnCells, UnhurtInv, Unhurt, FaultFreeSucceeds, Answers
<1>1. CASE \E t \in Tasks : Acquire(t)
  BY <1>1 DEF Acquire
<1>2. CASE Connected \/ Opened \/ Written \/ Flushed
  BY <1>2 DEF Connected, Opened, Written, Flushed, Goto
<1>3. CASE Read
  BY <1>3 DEF Read
<1>4. CASE ReadEnd
  BY <1>4 DEF ReadEnd, Goto, eof
<1>5. CASE HeadTooLong \/ Release
  BY <1>5 DEF HeadTooLong, Release, Return
<1>6. CASE Truncated
  BY <1>6 DEF Truncated, Full, Return
<1>7. CASE Parse
  <2>1. fault = "none" => parse_response(total) \in Answers
    BY <1>7, WholeAnswerParses DEF Parse
  <2> QED
    BY <1>7, <2>1 DEF Parse, Return
<1>8. CASE ServerAnswers
  BY <1>8 DEF ServerAnswers
<1>9. CASE LateHandled
  BY <1>9 DEF LateHandled
<1>10. CASE NetworkFails \/ FailsAfterRequest \/ Timeout \/ ClosedEarly
            \/ PowerCycle
  BY <1>10 DEF NetworkFails, FailsAfterRequest, Timeout, ClosedEarly,
               PowerCycle, Return
<1>11. CASE UNCHANGED vars
  BY <1>11 DEF vars
<1> QED
  BY <1>1, <1>2, <1>3, <1>4, <1>5, <1>6, <1>7, <1>8, <1>9, <1>10, <1>11
  DEF Next, Client, Network

\* request() gives up on nothing by itself: without a fault of the network, a
\* head that fits and an answer shorter than resp_buf end in an answer.
THEOREM FaultFreeRequestsSucceed == Spec => []FaultFreeSucceeds
<1>1. Init => UnhurtInv
  BY DEF Init, UnhurtInv, Unhurt, FaultFreeSucceeds
<1>2. UnhurtInv => FaultFreeSucceeds
  BY DEF UnhurtInv
<1> QED
  BY <1>1, <1>2, InvInit, InvStep, UnhurtStep, PTL DEF Spec

-----------------------------------------------------------------------------
(* The refinement. *)

\* The client starts where ApiCall does.
LEMMA AbstractInit == Init => Abstract!Init
  BY DEF Init, Abstract!Init, stage

\* Each step is one of ApiCall, or leaves it as it is.
LEMMA AbstractStep ==
  ASSUME Inv, Inv', [Next]_vars PROVE [Abstract!Next]_(Abstract!vars)
<1> USE SharedClientAssumption
    DEF stage, Inv, TypeOK, OwnCells, Answers
<1>a. ASSUME NEW r \in ApiErrors \cup Answers, Return(r), step # "done",
             step # "idle", r \in Answers => server = r
      PROVE  [Abstract!Next]_(Abstract!vars)
  <2>1. CASE r \in ApiErrors
    <3>1. r \notin Answers
      BY <2>1 DEF ApiErrors
    <3>2. Abstract!Lose
      BY <1>a, <2>1, <3>1 DEF Return, GiveUp, Abstract!Lose
    <3> QED
      BY <3>2 DEF Abstract!Next
  <2>2. CASE r \in Answers
    BY <1>a, <2>2 DEF Return, GiveUp, Abstract!vars
  <2> QED
    BY <1>a, <2>1, <2>2
<1>1. CASE \E t \in Tasks : Acquire(t)
  <2>1. PICK t \in Tasks : Acquire(t)
    BY <1>1
  <2>2. Abstract!Take(t)
    BY <2>1 DEF Acquire, Abstract!Take
  <2> QED
    BY <2>2 DEF Abstract!Next
<1>2. CASE Connected \/ Opened \/ Written \/ Flushed \/ Read \/ ReadEnd
           \/ ClosedEarly
  BY <1>2 DEF Connected, Opened, Written, Flushed, Read, ReadEnd, ClosedEarly,
              Goto, Abstract!vars
<1>3. CASE HeadTooLong
  BY <1>a, <1>3 DEF HeadTooLong, ApiErrors
<1>4. CASE Truncated
  BY <1>a, <1>4 DEF Truncated, ApiErrors
<1>5. CASE Parse
  BY <1>a, <1>5, ParsedIsOwn DEF Parse
<1>6. CASE Release
  <2>1. Abstract!Release
    BY <1>6 DEF Release, Abstract!Release, Abstract!Finished
  <2> QED
    BY <2>1 DEF Abstract!Next
<1>7. CASE ServerAnswers
  <2>1. Abstract!Handle \/ Abstract!Refuse
    BY <1>7 DEF ServerAnswers, Abstract!Handle, Abstract!Refuse
  <2> QED
    BY <2>1 DEF Abstract!Next
<1>8. CASE LateHandled
  <2>1. Abstract!LateHandle
    BY <1>8 DEF LateHandled, Abstract!LateHandle
  <2> QED
    BY <2>1 DEF Abstract!Next
<1>9. CASE NetworkFails \/ Timeout
  BY <1>a, <1>9 DEF NetworkFails, Timeout, ErrorOf, ApiErrors
<1>10. CASE FailsAfterRequest
  <2>1. Abstract!Lose
    BY <1>10 DEF FailsAfterRequest, Abstract!Lose
  <2> QED
    BY <2>1 DEF Abstract!Next
<1>11. CASE PowerCycle
  <2>1. Abstract!PowerCycle
    BY <1>11 DEF PowerCycle, GiveUp, Abstract!PowerCycle
  <2> QED
    BY <2>1 DEF Abstract!Next
<1>12. CASE UNCHANGED vars
  BY <1>12 DEF vars, Abstract!vars
<1> QED
  BY <1>1, <1>2, <1>3, <1>4, <1>5, <1>6, <1>7, <1>8, <1>9, <1>10, <1>11, <1>12
  DEF Next, Client, Network

\* A request on the wire, with every error path and the reused buffer, is a
\* call as ApiCall describes it.
THEOREM ClientImplementsApiCall == Spec => ImplementsApiCall
<1>1. Spec => []Inv
  BY InvInit, InvStep, PTL DEF Spec
<1>2. Inv /\ Inv' /\ [Next]_vars => [Abstract!Next]_(Abstract!vars)
  BY AbstractStep
<1> QED
  BY <1>1, <1>2, AbstractInit, PTL DEF Spec, ImplementsApiCall, Abstract!Spec
=============================================================================
