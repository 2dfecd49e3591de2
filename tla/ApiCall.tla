------------------------------- MODULE ApiCall --------------------------------
(***************************************************************************)
(* What the shared API client promises its callers.  One task at a time    *)
(* has a request out.  An answer that it hears is the server's answer to   *)
(* this request, given once; an error says nothing about the server: the   *)
(* request may never have reached it, may have been answered, or may still *)
(* be handled while later requests are out.                                *)
(*                                                                         *)
(* SharedClient, the steps of a request on the wire, and Kubelet, the      *)
(* tasks that call it, both implement this specification.                  *)
(***************************************************************************)
EXTENDS Naturals

CONSTANT Tasks

VARIABLES
  holder,   \* the task that has the client, or "free"
  stage,    \* what has become of its request
  pending   \* requests given up on that the server may still handle

vars == <<holder, stage, pending>>

Init == holder = "free" /\ stage = "idle" /\ pending = 0

Take(t) ==
  /\ stage = "idle"
  /\ holder' = t /\ stage' = "out"
  /\ UNCHANGED pending

\* The server acts on the request, or turns it down and changes nothing.
Handle == stage = "out" /\ stage' = "handled" /\ UNCHANGED <<holder, pending>>
Refuse == stage = "out" /\ stage' = "refused" /\ UNCHANGED <<holder, pending>>

\* The caller gets an error.
Lose ==
  /\ stage \in {"out", "handled", "refused"}
  /\ stage' = "lost"
  /\ pending' \in IF stage = "out" THEN {pending, pending + 1} ELSE {pending}
  /\ UNCHANGED holder

LateHandle ==
  /\ pending > 0 /\ pending' = pending - 1
  /\ UNCHANGED <<holder, stage>>

Finished == stage \in {"handled", "refused", "lost"}

Release ==
  /\ Finished
  /\ holder' = "free" /\ stage' = "idle"
  /\ UNCHANGED pending

\* The same task sends its next request before another gets the lock.
Again == Finished /\ stage' = "out" /\ UNCHANGED <<holder, pending>>

PowerCycle ==
  /\ holder' = "free" /\ stage' = "idle"
  /\ pending' \in IF stage = "out" THEN {pending, pending + 1} ELSE {pending}

Next == (\E t \in Tasks : Take(t)) \/ Handle \/ Refuse \/ Lose \/ LateHandle
        \/ Release \/ Again \/ PowerCycle

Spec == Init /\ [][Next]_vars
=============================================================================
