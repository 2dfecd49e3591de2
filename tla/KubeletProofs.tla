---------------------------- MODULE KubeletProofs -----------------------------
(***************************************************************************)
(* Proofs about Kubelet: its type invariant, and the bound on the age of   *)
(* the stored renewTime, for every period, call duration, condition vector *)
(* and number of faults.                                                   *)
(*                                                                         *)
(* The bound is not inductive.  What has to be known beside it is how much *)
(* time the status task may still take from the next renewal, which        *)
(* depends on where the two reconcilers are relative to each other.        *)
(***************************************************************************)
EXTENDS Kubelet, TLAPS

P == RENEW_PERIOD
D == MaxCall
B == MaxBehind

\* What the lease's age may be when a renewal gets the lock.
Budget == AgeBound(missed) - D

\* The lease's age matters once this boot has renewed it, and as long as no
\* late request has put an older stamp in its place.
LeaseWithin(bound) == healthy /\ Anchored /\ ~overtaken => lease <= bound

\* A stamp is no older than the clock was behind, and what has passed since.
StampWithin(age) == Anchored => stamp <= B + age

\* What is stored is the stamp of the call under way, or younger.
StampStored == Anchored /\ ~overtaken => lease <= stamp

\* Who is where: bootstrap before the reconcilers, and the LED with it.
Phases ==
  \/ /\ at["main"] \in Bootstrap
     /\ at["lease"] = "unborn" /\ at["status"] = "unborn"
     /\ led = "Connecting"
  \/ /\ at["main"] = "parked"
     /\ at["lease"] # "unborn" /\ at["status"] # "unborn"

\* The holder of the lock is in a call.
Holder ==
  /\ lock # "free" => at[lock] \in Calls /\ call # "none"
  /\ lock = "free" => call = "none"

\* The second call of a push, or of a renewal, never waits for the lock.
Holding ==
  /\ at["status"] = "patch_annotation" => lock = "status"
  /\ at["lease"] = "recreate" => lock = "lease"

StatusAsleep == at["status"] = "sleep" /\ timer["status"] > 0

\* How long the status task may still hold the lock when a lease task that
\* sleeps x more ticks wakes up.  Just after a renewal (x = P) a push that
\* is over at once may be followed by a whole one, and when calls outlast the
\* period the phases of the two tasks say nothing.
StatusWork(x) ==
  IF D >= P THEN 2 * D
  ELSE IF x = P /\ ~StatusAsleep THEN 2 * D
  ELSE IF at["status"] = "sleep"
       THEN IF timer["status"] > x THEN 0 ELSE 2 * D - (x - timer["status"])
  ELSE IF at["status"] = "patch_annotation" THEN D - elapsed - x
  ELSE IF lock = "status" THEN 2 * D - elapsed - x
  ELSE 2 * D - x

Sleeping ==
  at["lease"] = "sleep" =>
    /\ LeaseWithin(Budget - timer["lease"] - D)
    /\ LeaseWithin(Budget - timer["lease"] - StatusWork(timer["lease"]))

\* The renewal has its stamp and waits for the lock: unhindered, after a
\* push, before one, or during one.
Waiting ==
  at["lease"] = "renew" /\ lock # "lease" =>
    \/ /\ lock = "free" /\ StatusAsleep
       /\ LeaseWithin(Budget - D) /\ StampWithin(0)
    \/ /\ lock = "free" /\ StatusAsleep /\ timer["status"] = P
       /\ LeaseWithin(Budget) /\ StampWithin(2 * D)
    \/ /\ lock = "free" /\ ~StatusAsleep
       /\ LeaseWithin(Budget - 2 * D) /\ StampWithin(0)
    \/ /\ lock = "status" /\ at["status"] = "patch_status"
       /\ LeaseWithin(Budget - (2 * D - elapsed)) /\ StampWithin(elapsed)
    \/ /\ lock = "status" /\ at["status"] = "patch_annotation"
       /\ LeaseWithin(Budget - (D - elapsed)) /\ StampWithin(D + elapsed)

\* The renewal is under way, unhindered or right after a push.
Renewing ==
  at["lease"] = "renew" /\ lock = "lease" =>
    /\ \/ LeaseWithin(Budget - D + elapsed) /\ StampWithin(elapsed)
       \/ /\ LeaseWithin(Budget + elapsed) /\ StampWithin(2 * D + elapsed)
          /\ D >= P \/ (StatusAsleep /\ timer["status"] = P - elapsed)
    /\ call = "ok" => StampStored
    /\ call = "missing" => lease = NoLease \/ overtaken

Recreating ==
  at["lease"] = "recreate" => StampWithin(elapsed) /\ StampStored

LeaseAgeInv ==
  /\ Phases
  /\ Holding
  /\ Sleeping
  /\ Waiting
  /\ Renewing
  /\ Recreating

-----------------------------------------------------------------------------
(* Typing. *)

\* The products of the constants stay in this lemma.
LEMMA ConstantFacts ==
  /\ RENEW_PERIOD \in Nat /\ RENEW_PERIOD > 0
  /\ LEASE_DURATION \in Nat
  /\ MaxBehind \in Nat /\ MaxBehind <= MaxAge
<1>1. \A a, b \in Nat : a * b \in Nat /\ (a > 0 /\ b > 0 => a * b > 0)
  OBVIOUS
<1>2. /\ RENEW_PERIOD \in Nat /\ RENEW_PERIOD > 0
      /\ LEASE_DURATION \in Nat
  <2>1. /\ MS \in Nat /\ MS > 0
        /\ LEASE_RENEW_PERIOD_SECS \in Nat /\ LEASE_RENEW_PERIOD_SECS > 0
        /\ LEASE_DURATION_SECS \in Nat
    BY KubeletAssumption
  <2> QED
    BY <1>1, <2>1 DEF RENEW_PERIOD, LEASE_DURATION
<1>3. MaxBehind \in Nat /\ MaxBehind <= MaxAge
  BY KubeletAssumption DEF MaxBehind
<1> QED
  BY <1>2, <1>3

\* An anchored clock is at most MaxBehind behind.
LEMMA BehindFacts ==
  ASSUME TypeOK
  PROVE  Behind \in 0 .. MaxAge /\ (Anchored => Behind <= MaxBehind)
BY KubeletAssumption DEF TypeOK, Behind, Anchored, MaxBehind

\* A board that starts is well typed, and nobody holds the client.
LEMMA TypeInit == Init => TypeOK /\ Holder
<1> SUFFICES ASSUME Init PROVE TypeOK /\ Holder
  OBVIOUS
<1>1. /\ 0 \in 0 .. MS - 1 /\ 0 \in 0 .. MaxCall + (MS - 1)
      /\ 0 \in 0 .. MaxAge /\ 0 \in 0 .. RENEW_PERIOD
      /\ 0 \in 0 .. MaxCall /\ 0 \in 0 .. MaxFaults /\ 0 \in Nat
  BY KubeletAssumption, ConstantFacts
<1>2. NoLate \in [call : Calls \cup {"none"}, view : Views \cup {"absent"},
                 age : 0 .. MaxAge]
  BY <1>1 DEF NoLate
<1> QED
  BY <1>1, <1>2
  DEF Init, TypeOK, Holder, PoweredOn, Tasks, Reconcilers, Calls, Bootstrap,
      NoLease

\* Each step keeps the types, and the lock with its holder.
LEMMA TypeStep == TypeOK /\ Holder /\ [Next]_vars => (TypeOK /\ Holder)'
<1> SUFFICES ASSUME TypeOK, Holder, [Next]_vars PROVE (TypeOK /\ Holder)'
  OBVIOUS
<1>b. Behind \in 0 .. MaxAge
  BY BehindFacts
<1> USE KubeletAssumption, ConstantFacts, <1>b
    DEF TypeOK, Holder, Answered, Tasks, Reconcilers, Calls, Bootstrap, wall,
        board, client, server, NoLease, NoLate, Release
<1>1. CASE Main
  BY <1>1 DEF Main, AnchorClock, AnchorUndated, AnchorFails, Unanchored,
              RegisterNode, CreateLease, InitialStatus, InitialAnnotation
<1>2. CASE Lease
  BY <1>2 DEF Lease, BeginRenew, Renewed, RenewMissing, RenewFails, Recreated,
              Sleep, Again
<1>3. CASE Status
  BY <1>3 DEF Status, Reconcile, StatusPatched, PushFails, AnnotationPatched,
              Sleep, Again
<1>4. CASE \E t \in Tasks : Acquire(t)
  BY <1>4 DEF Acquire
<1>5. CASE ServerHandles
  BY <1>5 DEF ServerHandles, Serve, WritesLease, LeaseAfter, NodeAfter,
              ReadyAfter, Found, StatusCalls
<1>6. CASE Tick
  BY <1>6 DEF Tick, Older
<1>7. CASE Environment
  <2>1. CASE ViewChanges \/ MarkUnknown
    BY <2>1 DEF ViewChanges, MarkUnknown
  <2>2. CASE DeleteLease
    <3>1. /\ UNCHANGED <<at, timer, client, board, view, nodeView, ready, late,
                       missed>>
          /\ lease' = NoLease /\ overtaken' = FALSE
          /\ faults' \in 0 .. MaxFaults
      BY <2>2 DEF DeleteLease, Fault
    <3>2. overtaken' \in BOOLEAN
      BY <3>1
    <3> QED
      BY <3>1, <3>2
  <2>3. CASE DeleteNode
    BY <2>3 DEF DeleteNode, Fault
  <2>4. CASE Reject \/ Drop \/ Unheard
    BY <2>4 DEF Reject, Drop, Unheard, Fault
  <2>5. CASE Late
    <3>1. at[lock] \in Calls /\ seen \in Views /\ stamp \in 0 .. MaxAge
      BY <2>5 DEF Late
    <3>2. 0 \in 0 .. MaxAge
      OBVIOUS
    <3>3. Request \in [call : Calls \cup {"none"},
                      view : Views \cup {"absent"}, age : 0 .. MaxAge]
      BY <3>1, <3>2 DEF Request
    <3> QED
      BY <2>5, <3>3 DEF Late, Fault
  <2>6. CASE LateHandled
    BY <2>6 DEF LateHandled, Serve, WritesLease, LeaseAfter, NodeAfter,
                ReadyAfter, StatusCalls
  <2>7. CASE Reboot
    BY <2>7 DEF Reboot, Fault, PoweredOn
  <2> QED
    BY <1>7, <2>1, <2>2, <2>3, <2>4, <2>5, <2>6, <2>7 DEF Environment
<1>8. CASE UNCHANGED vars
  BY <1>8 DEF vars
<1> QED
  BY <1>1, <1>2, <1>3, <1>4, <1>5, <1>6, <1>7, <1>8 DEF Next

\* Every reachable state of the three tasks, the client and the server is
\* well typed.
THEOREM TypeCorrect == Spec => []TypeOK
<1>1. Spec => [](TypeOK /\ Holder)
  BY TypeInit, TypeStep, PTL DEF Spec
<1> QED
  BY <1>1, PTL

-----------------------------------------------------------------------------
(* The age of the lease. *)

\* The products stay in this lemma; what follows is linear.
LEMMA AgeBoundFacts ==
  /\ P \in Nat /\ P > 0 /\ D \in Nat /\ B \in Nat
  /\ AgeBound(0) = B + P + (IF D < P THEN 5 * D ELSE 6 * D)
  /\ \A m \in Nat : /\ AgeBound(m) \in Int
                     /\ AgeBound(m) >= AgeBound(0)
                     /\ AgeBound(m + 1) =
                          AgeBound(m) + P + (IF D < P THEN 2 * D ELSE 3 * D)
<1>1. P \in Nat /\ P > 0 /\ D \in Nat /\ B \in Nat
  BY KubeletAssumption, ConstantFacts DEF P, D, B
<1>2. AgeBound(0) = B + P + (IF D < P THEN 5 * D ELSE 6 * D)
  BY <1>1 DEF AgeBound, P, D, B
<1>3. ASSUME NEW m \in Nat
      PROVE  /\ AgeBound(m) \in Int
             /\ AgeBound(m) >= AgeBound(0)
             /\ AgeBound(m + 1) =
                  AgeBound(m) + P + (IF D < P THEN 2 * D ELSE 3 * D)
  <2>1. m * P \in Nat /\ m * D \in Nat
    BY <1>1
  <2>2. CASE D < P
    <3>1. AgeBound(m) = B + m * P + P + 2 * (m * D) + 5 * D
      BY <1>1, <2>1, <2>2 DEF AgeBound, P, D, B
    <3>2. AgeBound(m + 1) = B + m * P + 2 * P + 2 * (m * D) + 7 * D
      BY <1>1, <2>1, <2>2 DEF AgeBound, P, D, B
    <3> QED
      BY <1>1, <1>2, <2>1, <2>2, <3>1, <3>2
  <2>3. CASE ~(D < P)
    <3>1. AgeBound(m) = B + m * P + P + 3 * (m * D) + 6 * D
      BY <1>1, <2>1, <2>3 DEF AgeBound, P, D, B
    <3>2. AgeBound(m + 1) = B + m * P + 2 * P + 3 * (m * D) + 9 * D
      BY <1>1, <2>1, <2>3 DEF AgeBound, P, D, B
    <3> QED
      BY <1>1, <1>2, <2>1, <2>3, <3>1, <3>2
  <2> QED
    BY <2>2, <2>3
<1> QED
  BY <1>1, <1>2, <1>3

\* A board that starts is in its bootstrap, of which the invariant says nothing.
LEMMA AgeInit == Init => LeaseAgeInv
  BY DEF Init, LeaseAgeInv, Phases, Holding, Sleeping, Waiting, Renewing,
         Recreating, PoweredOn, Tasks, Bootstrap

\* Each step keeps the bound on the age of the lease.
LEMMA AgeStep ==
  ASSUME TypeOK, TypeOK', Holder, Holder', LeaseAgeInv,
         [Next]_vars
  PROVE  LeaseAgeInv'
<1>p. P \in Nat /\ P > 0 /\ D \in Nat /\ B \in Nat
  BY AgeBoundFacts
<1>t. /\ elapsed \in 0 .. D /\ stamp \in Nat
      /\ lease \in Int /\ lease >= NoLease
      /\ timer["lease"] \in 0 .. P /\ timer["status"] \in 0 .. P
      /\ elapsed' \in 0 .. D /\ stamp' \in Nat
      /\ lease' \in Int /\ lease' >= NoLease
      /\ timer'["lease"] \in 0 .. P /\ timer'["status"] \in 0 .. P
  BY KubeletAssumption, ConstantFacts DEF TypeOK, P, D, NoLease, Reconcilers
<1>s. Anchored => Behind <= B
  BY BehindFacts DEF B
<1>b. /\ Budget \in Int /\ Budget >= B + P + 4 * D
      /\ Budget' \in Int /\ Budget' >= B + P + 4 * D
      /\ missed' = missed => Budget' = Budget
      /\ missed' = missed + 1 =>
           Budget' = Budget + P + (IF D < P THEN 2 * D ELSE 3 * D)
      /\ missed' = 0 => Budget' = B + P + (IF D < P THEN 4 * D ELSE 5 * D)
  <2>1. missed \in Nat /\ missed' \in Nat
    BY DEF TypeOK
  <2>2. Budget = AgeBound(missed) - D /\ Budget' = AgeBound(missed') - D
    BY DEF Budget
  <2>3. /\ AgeBound(missed) \in Int /\ AgeBound(missed') \in Int
        /\ AgeBound(missed) >= B + P + 5 * D
        /\ AgeBound(missed') >= B + P + 5 * D
    BY <2>1, AgeBoundFacts
  <2>4. missed' = missed + 1 =>
          AgeBound(missed') =
            AgeBound(missed) + P + (IF D < P THEN 2 * D ELSE 3 * D)
    BY <2>1, AgeBoundFacts
  <2>5. missed' = 0 =>
          AgeBound(missed') = B + P + (IF D < P THEN 5 * D ELSE 6 * D)
    BY AgeBoundFacts
  <2>6. missed' = missed => AgeBound(missed') = AgeBound(missed)
    OBVIOUS
  <2> HIDE DEF D
  <2> QED
    BY <2>2, <2>3, <2>4, <2>5, <2>6, <1>p
<1> USE <1>p, <1>t, <1>s, <1>b
<1> USE DEF LeaseAgeInv, Phases, Holding, Holder, Answered, Release, Again,
      LeaseWithin, StampWithin, StampStored, healthy, Anchored, StatusAsleep,
      wall, board, client, server
<1>1. CASE Main
  BY <1>1
  DEF TypeOK, Tasks, Reconcilers, Bootstrap, Calls, P, D, Main, AnchorClock,
      AnchorUndated, AnchorFails, Unanchored, RegisterNode, CreateLease,
      InitialStatus, InitialAnnotation, Sleeping, Waiting, Renewing,
      Recreating, StatusWork
<1>2. CASE BeginRenew
  BY <1>2
  DEF TypeOK, Tasks, Reconcilers, Bootstrap, Calls, P, D, BeginRenew,
      Sleeping, Waiting, Renewing, Recreating, StatusWork
<1>3. CASE Renewed
  <2>1. CASE D < P
    BY <1>3, <2>1
    DEF TypeOK, Tasks, Reconcilers, Bootstrap, Calls, P, D, Renewed, Sleep,
        Sleeping, Waiting, Renewing, Recreating, StatusWork
  <2>2. CASE D >= P
    <3>1. Budget' = B + P + 5 * D
      BY <1>3, <2>2 DEF Renewed
    <3>2. Anchored /\ ~overtaken => lease <= B + 3 * D
      BY <1>3, <2>2 DEF Renewed, Renewing
    <3> QED
      BY <1>3, <2>2, <3>1, <3>2
      DEF TypeOK, Tasks, Reconcilers, Bootstrap, Calls, P, Renewed, Sleep,
          Sleeping, Waiting, Renewing, Recreating, StatusWork
  <2> QED
    BY <2>1, <2>2
<1>4. CASE RenewMissing
  BY <1>4
  DEF TypeOK, Tasks, Reconcilers, Bootstrap, Calls, P, D, NoLease,
      RenewMissing, Sleeping, Waiting, Renewing, Recreating, StatusWork
<1>5. CASE RenewFails
  BY <1>5
  DEF TypeOK, Tasks, Reconcilers, Bootstrap, Calls, P, D, RenewFails, Sleep,
      Sleeping, Waiting, Renewing, Recreating, StatusWork
<1>6. CASE Recreated
  BY <1>6
  DEF TypeOK, Tasks, Reconcilers, Bootstrap, Calls, P, D, Recreated, Sleep,
      Sleeping, Waiting, Renewing, Recreating, StatusWork
<1>7. CASE Reconcile
  BY <1>7
  DEF TypeOK, Tasks, Reconcilers, Bootstrap, Calls, P, D, Reconcile, Sleep,
      Sleeping, Waiting, Renewing, Recreating, StatusWork
<1>8. CASE StatusPatched
  BY <1>8
  DEF TypeOK, Tasks, Reconcilers, Bootstrap, Calls, P, D, StatusPatched,
      Sleeping, Waiting, Renewing, Recreating, StatusWork
<1>9. CASE PushFails
  BY <1>9
  DEF TypeOK, Tasks, Reconcilers, Bootstrap, Calls, P, D, PushFails, Sleep,
      Sleeping, Waiting, Renewing, Recreating, StatusWork
<1>10. CASE AnnotationPatched
  BY <1>10
  DEF TypeOK, Tasks, Reconcilers, Bootstrap, Calls, P, D, AnnotationPatched,
      Sleep, Sleeping, Waiting, Renewing, Recreating, StatusWork
<1>11. CASE \E t \in Tasks : Acquire(t)
  BY <1>11
  DEF TypeOK, Tasks, Reconcilers, Bootstrap, Calls, P, D, Acquire, Sleeping,
      Waiting, Renewing, Recreating, StatusWork
<1>12. CASE ServerHandles
  BY <1>12
  DEF TypeOK, Tasks, Reconcilers, Bootstrap, Calls, P, D, ServerHandles,
      Serve, WritesLease, LeaseAfter, Found, Sleeping, Waiting, Renewing,
      Recreating, StatusWork
<1>13. CASE Tick
  BY <1>13
  DEF TypeOK, Tasks, Reconcilers, Bootstrap, Calls, P, D, Tick, Older,
      Sleeping, Waiting, Renewing, Recreating, StatusWork
<1>14. CASE Environment
  <2>1. CASE ViewChanges \/ MarkUnknown \/ DeleteNode
    BY <2>1
    DEF ViewChanges, MarkUnknown, DeleteNode, Sleeping, Waiting, Renewing,
        Recreating, StatusWork
  <2>2. CASE Reject \/ Drop \/ Unheard \/ Late
    BY <2>2
    DEF Reject, Drop, Unheard, Late, Sleeping, Waiting, Renewing, Recreating,
        StatusWork
  <2>3. CASE DeleteLease
    BY <2>3
    DEF DeleteLease, NoLease, Sleeping, Waiting, Renewing, Recreating,
        StatusWork
  <2>4. CASE Reboot
    BY <2>4
    DEF Reboot, PoweredOn, Tasks, Bootstrap, Sleeping, Waiting, Renewing,
        Recreating, StatusWork
  <2>5. CASE LateHandled
    BY <2>5
    DEF LateHandled, Serve, WritesLease, LeaseAfter, NoLease, Sleeping,
        Waiting, Renewing, Recreating, StatusWork
  <2> QED
    BY <1>14, <2>1, <2>2, <2>3, <2>4, <2>5 DEF Environment
<1>15. CASE UNCHANGED vars
  BY <1>15 DEF vars, Sleeping, Waiting, Renewing, Recreating, StatusWork
<1> QED
  BY <1>1, <1>2, <1>3, <1>4, <1>5, <1>6, <1>7, <1>8, <1>9, <1>10, <1>11,
     <1>12, <1>13, <1>14, <1>15 DEF Next, Lease, Status

\* The bound on the age is what the invariant leaves in a healthy state.
LEMMA AgeInvImplies ==
  ASSUME TypeOK, LeaseAgeInv PROVE LeaseAgeBounded
<1>1. /\ AgeBound(missed) \in Int /\ AgeBound(missed) >= B + P + 5 * D
      /\ P \in Nat /\ D \in Nat /\ B \in Nat
  BY AgeBoundFacts DEF TypeOK
<1>2. /\ elapsed \in 0 .. D /\ stamp \in Nat /\ lease \in Int
      /\ timer["lease"] \in 0 .. P
  BY KubeletAssumption, ConstantFacts DEF TypeOK, P, D, NoLease, Reconcilers
<1> QED
  BY <1>1, <1>2
  DEF TypeOK, LeaseAgeInv, LeaseAgeBounded, Budget, Phases, Sleeping, Waiting,
      Renewing, Recreating, LeaseWithin, StampWithin, StampStored, healthy

\* An anchored board that has renewed its lease once keeps the stored
\* renewTime within AgeBound of the server's time, unless a request given up
\* on is handled in its place: for every period, every bound on a round trip,
\* shorter than the period or not, every age of the Date header and split of a
\* second, and any number of lost, refused, unheard or late calls, deletions
\* and reboots.
THEOREM LeaseAgeCorrect == Spec => []LeaseAgeBounded
<1>1. Init => TypeOK /\ Holder /\ LeaseAgeInv
  BY TypeInit, AgeInit
<1>2. TypeOK /\ Holder /\ LeaseAgeInv /\ [Next]_vars
        => (TypeOK /\ Holder /\ LeaseAgeInv)'
  BY TypeStep, AgeStep
<1>3. TypeOK /\ LeaseAgeInv => LeaseAgeBounded
  BY AgeInvImplies
<1> QED
  BY <1>1, <1>2, <1>3, PTL DEF Spec

\* Hence what LEASE_DURATION_SECS tolerates: as long as no more than m
\* renewals in a row fail, and AgeBound(m) is below the lease duration, the
\* lease is never seen expired, but for one that a late request wrote.
THEOREM LeaseStaysFresh ==
  ASSUME NEW m \in Nat, AgeBound(m) < LEASE_DURATION
  PROVE  Spec => [](healthy /\ Anchored /\ ~overtaken /\ missed <= m
                      /\ lease # NoLease => ~Expired)
<1>1. ASSUME TypeOK, LeaseAgeBounded, healthy, Anchored, ~overtaken,
             missed <= m, lease # NoLease
      PROVE  ~Expired
  <2>1. missed \in Nat /\ P \in Nat /\ D \in Nat /\ lease \in Int
    BY <1>1, KubeletAssumption, AgeBoundFacts DEF TypeOK, NoLease
  <2>2. (m - missed) * P >= 0 /\ (m - missed) * D >= 0
    <3>1. \A a, b \in Nat : a * b >= 0
      OBVIOUS
    <3> QED
      BY <1>1, <2>1, <3>1
  <2>3. AgeBound(m) = AgeBound(missed) + (m - missed) * P
          + (IF D < P THEN 2 * ((m - missed) * D) ELSE 3 * ((m - missed) * D))
    <3>1. CASE D < P
      BY <2>1, <3>1, ConstantFacts DEF AgeBound, P, D
    <3>2. CASE ~(D < P)
      BY <2>1, <3>2, ConstantFacts DEF AgeBound, P, D
    <3> QED
      BY <3>1, <3>2
  <2>4. lease <= AgeBound(missed)
    BY <1>1 DEF LeaseAgeBounded
  <2>5. /\ (m - missed) * P \in Int /\ (m - missed) * D \in Int
        /\ AgeBound(missed) \in Int /\ LEASE_DURATION \in Int /\ B \in Nat
    BY <2>1, AgeBoundFacts, ConstantFacts
  <2> QED
    BY <1>1, <2>1, <2>2, <2>3, <2>4, <2>5 DEF Expired
<1>2. TypeOK /\ LeaseAgeBounded
        => (healthy /\ Anchored /\ ~overtaken /\ missed <= m
              /\ lease # NoLease => ~Expired)
  BY <1>1
<1> QED
  BY <1>2, TypeCorrect, LeaseAgeCorrect, PTL

-----------------------------------------------------------------------------
(* The calls. *)

\* A request that is handled late is one that a task has sent.
LateIsACall == late = NoLate \/ late.call \in Calls

CallInv == TypeOK /\ Holder /\ LateIsACall

\* No request is pending at the start.
LEMMA CallInvInit == Init => CallInv
  BY TypeInit DEF Init, CallInv, LateIsACall

\* Each step keeps a call with the task that made it.
LEMMA CallInvStep == CallInv /\ [Next]_vars => CallInv'
<1> SUFFICES ASSUME CallInv, [Next]_vars PROVE CallInv'
  OBVIOUS
<1>1. TypeOK /\ Holder /\ TypeOK' /\ Holder'
  BY TypeStep DEF CallInv
<1>2. LateIsACall'
  <2> USE <1>1 DEF CallInv, LateIsACall
  <2>1. CASE Tick
    BY <2>1 DEF Tick, TypeOK, NoLate, LeaseCalls
  <2>2. CASE Late
    BY <2>2 DEF Late, Request, Holder, TypeOK
  <2>3. CASE LateHandled
    BY <2>3 DEF LateHandled
  <2>4. CASE late' = late
    BY <2>4
  <2>5. Tick \/ Late \/ LateHandled \/ late' = late
    BY DEF Next, Main, AnchorClock, AnchorUndated, AnchorFails, Unanchored,
           RegisterNode, CreateLease, InitialStatus, InitialAnnotation, Lease,
           BeginRenew, Renewed, RenewMissing, RenewFails, Recreated, Status,
           Reconcile, StatusPatched, PushFails, AnnotationPatched, Acquire, ServerHandles,
           Environment, ViewChanges, MarkUnknown, Reject, Drop, Unheard,
           DeleteLease, DeleteNode, Reboot, vars
  <2> QED
    BY <2>1, <2>2, <2>3, <2>4, <2>5
<1> QED
  BY <1>1, <1>2 DEF CallInv

\* The board starts with an idle client.
LEMMA ClientInit == Init => Client!Init
  BY DEF Init, Client!Init, stage

\* Each step of the board is one of the client, or none.
LEMMA ClientStep ==
  ASSUME CallInv, CallInv', [Next]_vars PROVE [Client!Next]_(Client!vars)
<1> USE DEF CallInv, Holder, client, stage
<1>r. ASSUME \E t \in Tasks : Answered(t), Release, late' = late
      PROVE  Client!Next
  <2>1. Client!Release
    BY <1>r DEF Answered, Release, Client!Release, Client!Finished
  <2> QED
    BY <2>1 DEF Client!Next
<1>a. ASSUME \E t \in Tasks : Answered(t), Again, late' = late
      PROVE  Client!Next
  <2>1. Client!Again
    BY <1>a DEF Answered, Again, Client!Again, Client!Finished
  <2> QED
    BY <2>1 DEF Client!Next
<1>u. ASSUME UNCHANGED client, late' = late
      PROVE  UNCHANGED Client!vars
  BY <1>u DEF Client!vars
<1>1. CASE Main
  BY <1>1, <1>r
  DEF Main, AnchorClock, AnchorUndated, AnchorFails, Unanchored, RegisterNode,
      CreateLease, InitialStatus, InitialAnnotation, Tasks
<1>2. CASE Lease
  BY <1>2, <1>r, <1>a, <1>u
  DEF Lease, BeginRenew, Renewed, RenewMissing, RenewFails, Recreated, Tasks
<1>3. CASE Status
  BY <1>3, <1>r, <1>a, <1>u
  DEF Status, Reconcile, StatusPatched, PushFails, AnnotationPatched, Tasks
<1>4. CASE \E t \in Tasks : Acquire(t)
  <2>1. PICK t \in Tasks : Acquire(t)
    BY <1>4
  <2>2. Client!Take(t)
    BY <2>1 DEF Acquire, Client!Take
  <2> QED
    BY <2>2 DEF Client!Next
<1>5. CASE ServerHandles
  <2>1. Client!Handle
    BY <1>5 DEF ServerHandles, Client!Handle
  <2> QED
    BY <2>1 DEF Client!Next
<1>6. CASE Tick
  <2>1. late = NoLate <=> late' = NoLate
    BY <1>6 DEF Tick, LateIsACall, TypeOK, NoLate, Calls, Bootstrap
  <2> QED
    BY <1>6, <2>1 DEF Tick, Client!vars
<1>7. CASE ViewChanges \/ MarkUnknown \/ DeleteLease \/ DeleteNode
  BY <1>7, <1>u DEF ViewChanges, MarkUnknown, DeleteLease, DeleteNode
<1>8. CASE Reject
  <2>1. Client!Refuse
    BY <1>8 DEF Reject, Client!Refuse
  <2> QED
    BY <2>1 DEF Client!Next
<1>9. CASE Drop \/ Unheard
  <2>1. Client!Lose
    BY <1>9 DEF Drop, Unheard, Client!Lose
  <2> QED
    BY <2>1 DEF Client!Next
<1>10. CASE Late
  <2>1. late' # NoLate
    BY <1>10 DEF Late, Request, NoLate, Calls, Bootstrap, TypeOK
  <2>2. Client!Lose
    BY <1>10, <2>1 DEF Late, Client!Lose
  <2> QED
    BY <2>2 DEF Client!Next
<1>11. CASE LateHandled
  <2>1. Client!LateHandle
    BY <1>11 DEF LateHandled, Client!LateHandle
  <2> QED
    BY <2>1 DEF Client!Next
<1>12. CASE Reboot
  <2>1. Client!PowerCycle
    BY <1>12 DEF Reboot, Release, Client!PowerCycle
  <2> QED
    BY <2>1 DEF Client!Next
<1>13. CASE UNCHANGED vars
  BY <1>13, <1>u DEF vars
<1> QED
  BY <1>1, <1>2, <1>3, <1>4, <1>5, <1>6, <1>7, <1>8, <1>9, <1>10, <1>11,
     <1>12, <1>13 DEF Next, Environment

\* Bootstrap and the two reconcilers use the client as ApiCall describes it,
\* through every fault and a reboot in the middle of a call.
THEOREM KubeletImplementsApiCall == Spec => ImplementsApiCall
<1>1. Spec => []CallInv
  BY CallInvInit, CallInvStep, PTL DEF Spec
<1>2. CallInv /\ CallInv' /\ [Next]_vars => [Client!Next]_(Client!vars)
  BY ClientStep
<1> QED
  BY <1>1, <1>2, ClientInit, PTL DEF Spec, ImplementsApiCall, Client!Spec
=============================================================================
