------------------------------- MODULE Kubelet --------------------------------
(***************************************************************************)
(* The whole kubelet as three tasks around one API client: main, which     *)
(* runs bootstrap and then spawns the two reconcilers (main.rs,            *)
(* kubelet.rs), the lease task (reconcilers/lease.rs) and the status task  *)
(* (reconcilers/status.rs).  They share the client behind an async mutex   *)
(* that is held for a whole round trip (net/client.rs), so a slow status   *)
(* push holds up the lease renewal.                                        *)
(*                                                                         *)
(* The conditions are abstracted to a view, one value for the statuses of  *)
(* all conditions together (NodeStatus has them one by one), and time to   *)
(* timers that count down and ages that count up to MaxAge, in ticks of    *)
(* which a second has MS.  A body is stamped when it is built, before the  *)
(* lock is taken, with a clock that lags behind the server's; what the     *)
(* server stores is as old as that clock was behind, and older by the time *)
(* until the server handles the call.                                      *)
(*                                                                         *)
(* The API server, its node lifecycle controller and the faults are the    *)
(* environment; faults are bounded by a budget.                            *)
(***************************************************************************)
EXTENDS Integers

CONSTANTS
  MS,                         \* ticks of a second
  LEASE_DURATION_SECS,        \* 40
  LEASE_RENEW_PERIOD_SECS,    \* 10, the interval of both reconcilers
  STATUS_UPDATE_PERIOD_SECS,  \* 300
  MaxCall,                    \* ticks a round trip takes at most
  MaxAge,                     \* ages saturate at this many ticks
  Views,                      \* values of the condition vector
  Faults,                     \* the faults that may happen, see below
  MaxFaults                   \* how many of them may happen

\* The periods in ticks
LEASE_DURATION == MS * LEASE_DURATION_SECS
RENEW_PERIOD == MS * LEASE_RENEW_PERIOD_SECS
STATUS_PERIOD == MS * STATUS_UPDATE_PERIOD_SECS

\* How far an anchored clock can be behind: the Date header is a round trip
\* old at most, and it and the time since are each cut to whole seconds.
MaxBehind == MaxCall + 2 * (MS - 1)

ASSUME KubeletAssumption ==
  /\ MS \in Nat \ {0}
  /\ LEASE_DURATION_SECS \in Nat
  /\ LEASE_RENEW_PERIOD_SECS \in Nat \ {0}
  /\ STATUS_UPDATE_PERIOD_SECS \in Nat
  /\ MaxCall \in Nat
  /\ MaxAge \in Nat
  /\ LEASE_DURATION <= MaxAge /\ STATUS_PERIOD <= MaxAge
  /\ MaxBehind <= MaxAge
  /\ Views # {} /\ Views \cap {"bare", "absent"} = {}
  /\ Faults \subseteq {"drop", "reject", "unheard", "late", "delete_lease",
                       "delete_node", "reboot"}
  /\ MaxFaults \in Nat

VARIABLES
  at,        \* where each task is: the call it is in, or "sleep"
  timer,     \* ticks until the Timer of a sleeping reconciler fires
  lock,      \* who holds the SharedClient, or "free"
  call,      \* the round trip of the holder: "sent", or how it was answered
  elapsed,   \* how long the holder has been at it
  clock,     \* "unanchored" or "anchored": WALL_CLOCK_ANCHOR_UNIX
  lag,       \* how old the Date header was when the clock was set
  subsec,    \* ticks since the anchored clock last turned a second
  stamp,     \* age of the renewTime in the lease body being sent
  view,      \* the condition vector of the board now
  seen,      \* the vector in the condition slots
  sample,    \* age of the sample of the status push under way
  pushed,    \* age of last_status_update
  led,       \* the last pattern set on the LED
  lease,     \* age of the stored renewTime, or NoLease
  nodeView,  \* the stored vector, "bare" without custom conditions, "absent"
  ready,     \* the stored status of Ready
  late,      \* a request given up on that the server may still apply
  faults,    \* faults so far
  missed,    \* history: failed renewals since the last acknowledged one
  overtaken  \* history: the stored renewTime is that of a late request

wall   == <<clock, lag, subsec>>
board  == <<wall, stamp, seen, sample, pushed, led>>
client == <<lock, call, elapsed>>
server == <<lease, nodeView, ready, overtaken>>
vars == <<at, timer, client, board, view, server, late, faults, missed>>

Tasks == {"main", "lease", "status"}
Reconcilers == {"lease", "status"}
Bootstrap == {"anchor", "register", "create_lease", "init_status",
              "init_annotation"}
Calls == Bootstrap \cup {"renew", "recreate"}
                   \cup {"patch_status", "patch_annotation"}

LeaseCalls == {"create_lease", "renew", "recreate"}
StatusCalls == {"init_status", "patch_status"}

NoLease == -1
NoLate == [call |-> "none", view |-> "absent", age |-> 0]

PoweredOn == [t \in Tasks |-> IF t = "main" THEN "anchor" ELSE "unborn"]

\* LeaseReconciler::healthy is set together with the first LED pattern.
healthy == led # "Connecting"
Anchored == clock = "anchored"
Expired == lease = NoLease \/ lease >= LEASE_DURATION

\* The age of what unix_now_secs reads.  An unanchored clock reads 1970, as
\* old as an age can be.
Behind == IF Anchored THEN lag + subsec ELSE MaxAge

Older(age) == IF age < MaxAge THEN age + 1 ELSE age

Init ==
  /\ at = PoweredOn
  /\ timer = [t \in Reconcilers |-> 0]
  /\ lock = "free" /\ call = "none" /\ elapsed = 0
  /\ clock = "unanchored" /\ lag = 0 /\ subsec = 0
  /\ stamp = 0
  /\ view \in Views /\ seen = view
  /\ sample = 0 /\ pushed = 0
  /\ led = "Connecting"
  /\ lease = NoLease /\ nodeView = "absent" /\ ready = "True"
  /\ late = NoLate
  /\ faults = 0
  /\ missed = 0 /\ overtaken = FALSE

-----------------------------------------------------------------------------
(* The shared client: the mutex and the round trip. *)

\* client.lock().await and the request written out
Acquire(t) ==
  /\ at[t] \in Calls
  /\ lock = "free"
  /\ lock' = t /\ call' = "sent" /\ elapsed' = 0
  /\ UNCHANGED <<at, timer, board, view, server, late, faults, missed>>

\* The server handles a request: what it answers and what it stores.
Found(c) ==
  CASE c = "renew" -> lease # NoLease
    [] c \in {"init_status", "init_annotation", "patch_status",
              "patch_annotation"} -> nodeView # "absent"
    [] OTHER -> TRUE

WritesLease(c) ==
  \/ c = "renew" /\ lease # NoLease
  \/ c \in {"create_lease", "recreate"} /\ lease = NoLease

LeaseAfter(c, age) == IF WritesLease(c) THEN age ELSE lease

NodeAfter(c, v) ==
  CASE c = "register" /\ nodeView = "absent" -> "bare"
    [] c \in StatusCalls /\ nodeView # "absent" -> v
    [] OTHER -> nodeView

ReadyAfter(c) ==
  CASE c = "register" /\ nodeView = "absent" -> "True"
    [] c \in StatusCalls /\ nodeView # "absent" -> "True"
    [] OTHER -> ready

Serve(c, v, age) ==
  /\ lease' = LeaseAfter(c, age)
  /\ nodeView' = NodeAfter(c, v)
  /\ ready' = ReadyAfter(c)

ServerHandles ==
  /\ call = "sent"
  /\ Serve(at[lock], seen, stamp)
  /\ overtaken' = (overtaken /\ ~WritesLease(at[lock]))
  /\ call' = IF Found(at[lock]) THEN "ok" ELSE "missing"
  /\ UNCHANGED <<at, timer, lock, elapsed, board, view, late, faults, missed>>

\* The holder's task goes on when its round trip has been answered.  Going
\* from one call straight to the next it drops the guard and takes the lock
\* again in the same poll, before a waiting task runs.
Answered(t) == lock = t /\ call \in {"ok", "missing", "error", "failed"}
Release == lock' = "free" /\ call' = "none" /\ elapsed' = 0
Again == lock' = lock /\ call' = "sent" /\ elapsed' = 0

-----------------------------------------------------------------------------
(* main: bootstrap carries on whatever a call's outcome is. *)

\* Any answer to /version will do, a 5xx too, if its Date header parses.  The
\* server took the date when it handled the request, at some moment of this
\* call, and cut it to a second; the clock is set when the answer is read.
AnchorClock ==
  /\ Answered("main") /\ at["main"] = "anchor" /\ call # "failed"
  /\ clock' = "anchored" /\ subsec' = 0
  /\ lag' \in 0 .. elapsed + (MS - 1)
  /\ at' = [at EXCEPT !["main"] = "register"]
  /\ Release
  /\ UNCHANGED <<timer, stamp, seen, sample, pushed, led, view, server, late,
                 faults, missed>>

Unanchored ==
  /\ at' = [at EXCEPT !["main"] = "register"]
  /\ Release
  /\ UNCHANGED <<timer, board, view, server, late, faults, missed>>

\* An answer without a Date header, or with one that does not parse
AnchorUndated ==
  Answered("main") /\ at["main"] = "anchor" /\ call # "failed" /\ Unanchored

\* The call itself fails: a warning, nothing else.
AnchorFails ==
  Answered("main") /\ at["main"] = "anchor" /\ call = "failed" /\ Unanchored

\* register_node returns; create_lease builds its body.
RegisterNode ==
  /\ Answered("main") /\ at["main"] = "register"
  /\ stamp' = Behind
  /\ at' = [at EXCEPT !["main"] = "create_lease"]
  /\ Release
  /\ UNCHANGED <<timer, wall, seen, sample, pushed, led, view, server, late,
                 faults, missed>>

\* create_lease returns; push_initial_status samples the board.
CreateLease ==
  /\ Answered("main") /\ at["main"] = "create_lease"
  /\ seen' = view /\ sample' = 0
  /\ at' = [at EXCEPT !["main"] = "init_status"]
  /\ Release
  /\ UNCHANGED <<timer, wall, stamp, pushed, led, view, server, late, faults,
                 missed>>

InitialStatus ==
  /\ Answered("main") /\ at["main"] = "init_status"
  /\ at' = [at EXCEPT !["main"] = "init_annotation"]
  /\ Release
  /\ UNCHANGED <<timer, board, view, server, late, faults, missed>>

\* Bootstrap returns and main spawns both reconcilers, which start by
\* sleeping; last_status_update is now, whatever became of the push.
InitialAnnotation ==
  /\ Answered("main") /\ at["main"] = "init_annotation"
  /\ at' = [t \in Tasks |-> IF t = "main" THEN "parked" ELSE "sleep"]
  /\ timer' = [t \in Reconcilers |-> RENEW_PERIOD]
  /\ pushed' = 0
  /\ Release
  /\ UNCHANGED <<wall, stamp, seen, sample, led, view, server, late, faults,
                 missed>>

-----------------------------------------------------------------------------
(* The lease task. *)

\* Slip: the interval is one too long.
Sleep_long(t) ==
  /\ at' = [at EXCEPT ![t] = "sleep"]
  /\ timer' = [timer EXCEPT ![t] = RENEW_PERIOD + 1]

Sleep(t) ==
  /\ at' = [at EXCEPT ![t] = "sleep"]
  /\ timer' = [timer EXCEPT ![t] = RENEW_PERIOD]

\* Slip: the stamp of the last body is sent again.
BeginRenew_old_stamp ==
  /\ at["lease"] = "sleep" /\ timer["lease"] = 0
  /\ at' = [at EXCEPT !["lease"] = "renew"]
  /\ UNCHANGED <<timer, client, board, view, server, late, faults, missed>>

\* The timer fires: the body is stamped, then the lock is awaited.
BeginRenew ==
  /\ at["lease"] = "sleep" /\ timer["lease"] = 0
  /\ stamp' = Behind
  /\ at' = [at EXCEPT !["lease"] = "renew"]
  /\ UNCHANGED <<timer, client, wall, seen, sample, pushed, led, view, server,
                 late, faults, missed>>

\* LeaseRenewal::Renewed
Renewed ==
  /\ Answered("lease") /\ at["lease"] = "renew" /\ call = "ok"
  /\ led' = IF healthy THEN "Activity" ELSE "Healthy"
  /\ missed' = 0
  /\ Sleep("lease")
  /\ Release
  /\ UNCHANGED <<wall, stamp, seen, sample, pushed, view, server, late, faults>>

\* Slip: a 404 is taken for an error like any other.
RenewMissing_gives_up ==
  /\ Answered("lease") /\ at["lease"] = "renew" /\ call = "missing"
  /\ Sleep("lease")
  /\ Release
  /\ UNCHANGED <<board, view, server, late, faults, missed>>

\* LeaseRenewal::Missing: create_lease with a fresh stamp
RenewMissing ==
  /\ Answered("lease") /\ at["lease"] = "renew" /\ call = "missing"
  /\ stamp' = Behind
  /\ at' = [at EXCEPT !["lease"] = "recreate"]
  /\ Again
  /\ UNCHANGED <<timer, wall, seen, sample, pushed, led, view, server, late,
                 faults, missed>>

RenewFails ==
  /\ Answered("lease") /\ at["lease"] = "renew"
  /\ call \in {"error", "failed"}
  /\ missed' = missed + 1
  /\ Sleep("lease")
  /\ Release
  /\ UNCHANGED <<board, view, server, late, faults>>

Recreated ==
  /\ Answered("lease") /\ at["lease"] = "recreate"
  /\ Sleep("lease")
  /\ Release
  /\ UNCHANGED <<board, view, server, late, faults, missed>>

-----------------------------------------------------------------------------
(* The status task. *)

flipped == view # seen

\* Slip: the guard on an unanchored clock the wrong way round.
due_unanchored == ~Anchored /\ pushed >= STATUS_PERIOD

\* Both times are cut to seconds: what counts are the seconds the clock has
\* turned since, the last of them subsec ticks ago.  A clock that reads 0
\* never makes a heartbeat due.
due == Anchored /\ pushed + (MS - 1) - subsec >= STATUS_PERIOD

\* reconcile up to its first await: the slots take the sample in any case.
Reconcile ==
  /\ at["status"] = "sleep" /\ timer["status"] = 0
  /\ seen' = view /\ sample' = 0
  /\ IF flipped \/ due
     THEN at' = [at EXCEPT !["status"] = "patch_status"] /\ timer' = timer
     ELSE Sleep("status")
  /\ UNCHANGED <<client, wall, stamp, pushed, led, view, server, late, faults,
                 missed>>

\* patch_node_status has returned Ok: on to the annotation.
StatusPatched ==
  /\ Answered("status") /\ at["status"] = "patch_status" /\ call = "ok"
  /\ at' = [at EXCEPT !["status"] = "patch_annotation"]
  /\ Again
  /\ UNCHANGED <<timer, board, view, server, late, faults, missed>>

\* The `?` after either call ends the reconcile early.
PushFails ==
  /\ Answered("status") /\ call # "ok"
  /\ Sleep("status")
  /\ Release
  /\ UNCHANGED <<board, view, server, late, faults, missed>>

\* patch_heap_annotation has returned Ok: last_status_update is the time of
\* the sample.
AnnotationPatched ==
  /\ Answered("status") /\ at["status"] = "patch_annotation" /\ call = "ok"
  /\ pushed' = sample
  /\ Sleep("status")
  /\ Release
  /\ UNCHANGED <<wall, stamp, seen, sample, led, view, server, late, faults,
                 missed>>

-----------------------------------------------------------------------------
(* The environment. *)

\* A tick passes.  What can run does so first: the executor is idle, and
\* no round trip outlasts MaxCall.
Tick ==
  /\ \A t \in Reconcilers : at[t] = "sleep" => timer[t] > 0
  /\ lock = "free" => \A t \in Tasks : at[t] \notin Calls
  /\ lock # "free" => elapsed < MaxCall
  /\ timer' = [t \in Reconcilers |->
                 IF at[t] = "sleep" THEN timer[t] - 1 ELSE timer[t]]
  /\ elapsed' = IF lock = "free" THEN elapsed ELSE elapsed + 1
  /\ subsec' = IF Anchored /\ subsec + 1 < MS THEN subsec + 1 ELSE 0
  /\ stamp' = Older(stamp)
  /\ sample' = Older(sample)
  /\ pushed' = Older(pushed)
  /\ lease' = IF lease = NoLease THEN lease ELSE Older(lease)
  /\ late' = [late EXCEPT !.age = IF late.call \in LeaseCalls THEN Older(@)
                                                              ELSE @]
  /\ UNCHANGED <<at, lock, call, clock, lag, seen, led, view, nodeView, ready,
                 faults, missed, overtaken>>

\* The heap, Wi-Fi or the uptime change what the evaluators say.
ViewChanges ==
  /\ view' \in Views
  /\ UNCHANGED <<at, timer, client, board, server, late, faults, missed>>

\* The node lifecycle controller gives up on a node whose lease has expired.
MarkUnknown ==
  /\ nodeView # "absent" /\ Expired
  /\ ready' = "Unknown"
  /\ UNCHANGED <<at, timer, client, board, view, lease, nodeView, late, faults,
                 missed, overtaken>>

Fault(kind) ==
  /\ kind \in Faults
  /\ faults < MaxFaults
  /\ faults' = faults + 1

\* The server answers with an error and stores nothing.
Reject ==
  /\ Fault("reject")
  /\ call = "sent" /\ call' = "error"
  /\ UNCHANGED <<at, timer, lock, elapsed, board, view, server, late, missed>>

\* The connection, the handshake or the request fails.
Drop ==
  /\ Fault("drop")
  /\ call = "sent" /\ call' = "failed"
  /\ UNCHANGED <<at, timer, lock, elapsed, board, view, server, late, missed>>

\* The request was handled; the answer is lost, or Truncated.
Unheard ==
  /\ Fault("unheard")
  /\ call \in {"ok", "missing"} /\ call' = "failed"
  /\ UNCHANGED <<at, timer, lock, elapsed, board, view, server, late, missed>>

\* What the request under way carries
Request ==
  [call |-> at[lock],
   view |-> IF at[lock] \in StatusCalls THEN seen ELSE "absent",
   age |-> IF at[lock] \in LeaseCalls THEN stamp ELSE 0]

\* Slip: the client sends the request again without returning.
Late_sends_again ==
  /\ Fault("late")
  /\ call = "sent" /\ call' = call
  /\ late = NoLate
  /\ late' = Request
  /\ UNCHANGED <<at, timer, lock, elapsed, board, view, server, missed>>

\* The client times out on a request the server has yet to handle.
Late ==
  /\ Fault("late")
  /\ call = "sent" /\ call' = "failed"
  /\ late = NoLate
  /\ late' = Request
  /\ UNCHANGED <<at, timer, lock, elapsed, board, view, server, missed>>

LateHandled ==
  /\ late # NoLate
  /\ Serve(late.call, late.view, late.age)
  /\ overtaken' = (overtaken \/ WritesLease(late.call))
  /\ late' = NoLate
  /\ UNCHANGED <<at, timer, client, board, view, faults, missed>>

DeleteLease ==
  /\ Fault("delete_lease")
  /\ lease # NoLease /\ lease' = NoLease /\ overtaken' = FALSE
  /\ UNCHANGED <<at, timer, client, board, view, nodeView, ready, late, missed>>

DeleteNode ==
  /\ Fault("delete_node")
  /\ nodeView # "absent" /\ nodeView' = "absent"
  /\ UNCHANGED <<at, timer, client, board, view, lease, ready, late, missed,
                 overtaken>>

\* Power is cut and comes back: nothing on the board survives.
Reboot ==
  /\ Fault("reboot")
  /\ at' = PoweredOn
  /\ timer' = [t \in Reconcilers |-> 0]
  /\ Release
  /\ clock' = "unanchored" /\ lag' = 0 /\ subsec' = 0
  /\ stamp' = 0
  /\ seen' = view
  /\ sample' = 0 /\ pushed' = 0
  /\ led' = "Connecting"
  /\ missed' = 0
  /\ UNCHANGED <<view, server, late>>

-----------------------------------------------------------------------------

Main == AnchorClock \/ AnchorUndated \/ AnchorFails \/ RegisterNode
        \/ CreateLease \/ InitialStatus \/ InitialAnnotation
Lease == BeginRenew \/ Renewed \/ RenewMissing \/ RenewFails \/ Recreated
Status == Reconcile \/ StatusPatched \/ PushFails \/ AnnotationPatched
Environment == ViewChanges \/ MarkUnknown \/ Reject \/ Drop \/ Unheard \/ Late
               \/ LateHandled \/ DeleteLease \/ DeleteNode \/ Reboot

Next == Main \/ Lease \/ Status \/ (\E t \in Tasks : Acquire(t))
        \/ ServerHandles \/ Tick \/ Environment

Spec == Init /\ [][Next]_vars

\* The executor polls every task that can run, a request that meets no fault
\* is handled, and time passes.  Nothing is assumed of the faults, of
\* the board's conditions, or of the controller.
Fairness ==
  /\ WF_vars(Main) /\ WF_vars(Lease) /\ WF_vars(Status)
  /\ \A t \in Tasks : WF_vars(Acquire(t))
  /\ WF_vars(ServerHandles)
  /\ WF_vars(Tick)

FairSpec == Spec /\ Fairness

-----------------------------------------------------------------------------
(* Correctness. *)

\* Every task is in one of its own calls, timers and ages are in range.
TypeOK ==
  /\ at \in [Tasks -> Calls \cup {"sleep", "unborn", "parked"}]
  /\ at["main"] \in Bootstrap \cup {"parked"}
  /\ at["lease"] \in {"renew", "recreate", "sleep", "unborn"}
  /\ at["status"] \in {"patch_status", "patch_annotation", "sleep", "unborn"}
  /\ timer \in [Reconcilers -> 0 .. RENEW_PERIOD]
  /\ lock \in Tasks \cup {"free"}
  /\ call \in {"none", "sent", "ok", "missing", "error", "failed"}
  /\ elapsed \in 0 .. MaxCall
  /\ clock \in {"unanchored", "anchored"}
  /\ lag \in 0 .. MaxCall + (MS - 1) /\ subsec \in 0 .. MS - 1
  /\ stamp \in 0 .. MaxAge
  /\ view \in Views
  /\ seen \in Views
  /\ sample \in 0 .. MaxAge
  /\ pushed \in 0 .. MaxAge
  /\ led \in {"Connecting", "Healthy", "Activity"}
  /\ lease \in {NoLease} \cup 0 .. MaxAge
  /\ nodeView \in Views \cup {"bare", "absent"}
  /\ ready \in {"True", "Unknown"}
  /\ late \in [call : Calls \cup {"none"}, view : Views \cup {"absent"},
               age : 0 .. MaxAge]
  /\ faults \in 0 .. MaxFaults
  /\ missed \in Nat /\ overtaken \in BOOLEAN

\* The age of the stored renewTime, by the number of renewals that have
\* failed since one was acknowledged.  The clock that stamps it is behind.  A
\* stamp is taken before the lock is, so it may age by both calls of a status
\* push and then by its own round trip, and the next renewal may again wait
\* for a push.  While calls are shorter than the period, the wait puts the
\* status task out of phase and one round trip of each cycle is saved; calls
\* that time out are not that short.
AgeBound(m) ==
  MaxBehind + (m + 1) * RENEW_PERIOD
    + (IF MaxCall < RENEW_PERIOD THEN 2 * m + 5 ELSE 3 * m + 6) * MaxCall

\* Once the first renewal has been acknowledged, an anchored board keeps the
\* stored renewTime within AgeBound of the server's time, however the two
\* reconcilers and the failing calls interleave.  A request that the client
\* gave up on can put an older one in its place, until the next renewal is
\* handled.
LeaseAgeBounded ==
  healthy /\ Anchored /\ ~overtaken => lease <= AgeBound(missed)

\* Faults are finite in number.  After the last one an anchored board's lease
\* is fresh for ever, deleted leases and late overwrites included.
LeaseRecovers ==
  <>[]Anchored => <>[]~Expired

\* A node that the controller marked Unknown becomes Ready again without a
\* reboot, although the renewals alone do not bring that about.
ReadyRecovers ==
  <>[](Anchored /\ nodeView # "absent") => <>[](ready = "True")

\* When the board's conditions settle, the stored ones come to agree with
\* them, also if the push of the flip failed, was lost or was overtaken.
StatusConverges ==
  \A v \in Views :
    <>[](Anchored /\ nodeView # "absent" /\ view = v) => <>[](nodeView = v)

\* What the tasks see of a call, in the terms of ApiCall.
stage ==
  CASE call = "none" -> "idle"
    [] call = "sent" -> "out"
    [] call \in {"ok", "missing"} -> "handled"
    [] call = "error" -> "refused"
    [] call = "failed" -> "lost"

Client == INSTANCE ApiCall WITH
  holder <- lock, pending <- IF late = NoLate THEN 0 ELSE 1

\* The tasks use the client as ApiCall describes it, which is what the steps
\* on the wire in SharedClient provide: calls never overlap, and a call that
\* failed may still be handled behind the back of the next one.
ImplementsApiCall == Client!Spec
=============================================================================
