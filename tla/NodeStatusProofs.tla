--------------------------- MODULE NodeStatusProofs ---------------------------
(***************************************************************************)
(* Proofs about NodeStatus: its seven invariants hold for every heap size, *)
(* every set of access points, header ages and call outcomes, and any      *)
(* number of boots, pushes and associations.                               *)
(*                                                                         *)
(* None of the seven is inductive.  The inductive invariant IInv speaks of *)
(* what will reach the stored Node later: the body in flight and the late  *)
(* one (BodiesInv), the slots they are built from (SlotsInv), the clock    *)
(* that stamps them (ClockInv), the snapshots the next sample is compared  *)
(* with and the ones a push will turn into snapshots (SnapInv, AssocInv),  *)
(* and the agreement of slots, body and Node while a push is under way     *)
(* (DeliveryInv).                                                          *)
(***************************************************************************)
EXTENDS NodeStatus, TLAPS

-----------------------------------------------------------------------------
(* Whole seconds. *)

\* Cutting n ticks to whole units of m ticks loses less than one unit.
LEMMA DivBounds ==
  ASSUME NEW n \in Nat, NEW m \in Nat \ {0}
  PROVE  /\ n \div m \in Nat
         /\ (n \div m) * m <= n
         /\ n < (n \div m) * m + m
  OBVIOUS

\* Comparing multiples of m compares the numbers multiplied.
LEMMA QuotientBelow ==
  ASSUME NEW q \in Nat, NEW k \in Nat, NEW m \in Nat \ {0}, q * m < k * m
  PROVE  q < k
  OBVIOUS

\* Cutting to whole units keeps the order.
LEMMA DivMono ==
  ASSUME NEW n \in Nat, NEW k \in Nat, NEW m \in Nat \ {0}, n <= k
  PROVE  n \div m <= k \div m
  BY DivBounds

\* The difference of two cut times and the cut difference of the times: the
\* first is the second, or one more (the two clocks of reconcile).
LEMMA DivDiff ==
  ASSUME NEW n \in Nat, NEW k \in Nat, NEW m \in Nat \ {0}, n <= k
  PROVE  (k \div m) - (n \div m) - ((k - n) \div m) \in {0, 1}
<1> DEFINE q == k \div m
           r == n \div m
           s == (k - n) \div m
<1>1. k - n \in Nat
  OBVIOUS
<1>2. /\ q \in Nat /\ r \in Nat /\ s \in Nat
      /\ q * m <= k /\ k < q * m + m
      /\ r * m <= n /\ n < r * m + m
      /\ s * m <= k - n /\ k - n < s * m + m
  BY <1>1, DivBounds
<1> HIDE DEF q, r, s
<1>3. /\ (q - r - s) * m < 2 * m
      /\ (q - r - s) * m > -1 * m
  BY <1>2
<1>4. q - r - s < 2 /\ q - r - s > -1
  BY <1>2, <1>3
<1> QED
  BY <1>2, <1>4 DEF q, r, s

-----------------------------------------------------------------------------
(* The operators of Conditions. *)

Evaluation == [status : CondStatus, reason : CustomReasons]

\* Evaluate gives each custom type its own evaluator.
LEMMA EvaluateBy ==
  ASSUME NEW i
  PROVE  /\ Evaluate(i)["Vibes"] = eval_vibes(i)
         /\ Evaluate(i)["Caffeinated"] = eval_caffeinated(i)
         /\ Evaluate(i)["Existential"] = eval_existential(i)
         /\ Evaluate(i)["Peckish"] = eval_peckish(i)
         /\ Evaluate(i)["Haunted"] = eval_haunted(i)
         /\ Evaluate(i) = [t \in CustomTypes |-> Evaluate(i)[t]]
  BY DEF Evaluate, CustomTypes

\* Every evaluator returns one of the three statuses and a known reason.
LEMMA EvaluateType ==
  ASSUME NEW i
  PROVE  Evaluate(i) \in [CustomTypes -> Evaluation]
<1>1. /\ eval_vibes(i) \in Evaluation
      /\ eval_caffeinated(i) \in Evaluation
      /\ eval_existential(i) \in Evaluation
  BY DEF eval_vibes, eval_caffeinated, eval_existential, CustomCond,
         Evaluation, CondStatus, CustomReasons
<1>2. eval_peckish(i) \in Evaluation
  BY DEF eval_peckish, CustomCond, Evaluation, CondStatus, CustomReasons
<1>3. eval_haunted(i) \in Evaluation
  BY DEF eval_haunted, CustomCond, Evaluation, CondStatus, CustomReasons
<1> QED
  BY <1>1, <1>2, <1>3, EvaluateBy DEF CustomTypes

\* CondState::observe: the slot takes the status, and a transition time other
\* than its own only from now; with no flip it is the slot it was.
LEMMA Observe ==
  ASSUME NEW slot \in CondState, NEW current \in CondStatus, NEW now \in Nat
  PROVE  /\ observe(slot, current, now) \in CondState
         /\ observe(slot, current, now).status = current
         /\ observe(slot, current, now).transitioned_at
              \in {slot.transitioned_at, now}
         /\ ~Flipped(slot, current) => observe(slot, current, now) = slot
  BY DEF observe, Flipped, CondState

\* New trackers are well typed and have flipped at the time they were made.
LEMMA FreshTrackers ==
  ASSUME NEW now \in Nat
  PROVE  /\ NodeCondTracker(now) \in [BuiltinTypes -> CondState]
         /\ CustomCondTracker(now) \in [CustomTypes -> CondState]
         /\ \A t \in BuiltinTypes : NodeCondTracker(now)[t].transitioned_at = now
         /\ \A t \in CustomTypes : CustomCondTracker(now)[t].transitioned_at = now
  BY DEF NodeCondTracker, CustomCondTracker, NewCond, Bool, CondState, CondStatus

\* One sample changes the MemoryPressure slot only, which then tells whether
\* the free heap was below the threshold.
LEMMA ObservedBuiltin ==
  ASSUME NEW builtin \in [BuiltinTypes -> CondState], NEW free \in Nat,
         NEW now \in Nat
  PROVE  LET new == Observed(builtin, free, now)
         IN  /\ new \in [BuiltinTypes -> CondState]
             /\ new["MemoryPressure"].status
                  = Bool(free < MEMORY_PRESSURE_FREE_BYTES)
             /\ \A t \in BuiltinTypes :
                  new[t].transitioned_at \in {builtin[t].transitioned_at, now}
             /\ new["MemoryPressure"].status = builtin["MemoryPressure"].status
                  => new = builtin
<1> DEFINE old == builtin["MemoryPressure"]
           current == Bool(free < MEMORY_PRESSURE_FREE_BYTES)
           mp == observe(old, current, now)
<1>1. /\ mp \in CondState
      /\ mp.status = current
      /\ mp.transitioned_at \in {old.transitioned_at, now}
      /\ mp.status = old.status => mp = old
  <2>1. current \in CondStatus
    BY DEF Bool, CondStatus
  <2>2. old \in CondState
    BY DEF BuiltinTypes
  <2> HIDE DEF current, old
  <2> QED
    BY <2>1, <2>2, Observe DEF Flipped
<1>2. Observed(builtin, free, now) = [builtin EXCEPT !["MemoryPressure"] = mp]
  BY DEF Observed
<1> HIDE DEF mp
<1> QED
  BY <1>1, <1>2 DEF BuiltinTypes

\* One sample gives each custom slot its fresh status, and leaves the slots
\* as they were when none flipped.
LEMMA ObservedCustomSlots ==
  ASSUME NEW slots \in [CustomTypes -> CondState],
         NEW fresh \in [CustomTypes -> Evaluation], NEW now \in Nat
  PROVE  LET new == ObservedCustom(slots, fresh, now)
         IN  /\ new \in [CustomTypes -> CondState]
             /\ \A t \in CustomTypes :
                  /\ new[t].status = fresh[t].status
                  /\ new[t].transitioned_at \in {slots[t].transitioned_at, now}
             /\ (\A t \in CustomTypes : ~Flipped(slots[t], fresh[t].status))
                  => new = slots
<1>1. ASSUME NEW t \in CustomTypes
      PROVE  slots[t] \in CondState /\ fresh[t].status \in CondStatus
  BY <1>1 DEF Evaluation
<1>2. ASSUME NEW t \in CustomTypes
      PROVE  LET new == ObservedCustom(slots, fresh, now)[t]
             IN  /\ new \in CondState
                 /\ new.status = fresh[t].status
                 /\ new.transitioned_at \in {slots[t].transitioned_at, now}
                 /\ ~Flipped(slots[t], fresh[t].status) => new = slots[t]
  BY <1>1, Observe DEF ObservedCustom
<1>3. ObservedCustom(slots, fresh, now)
        = [t \in CustomTypes |-> ObservedCustom(slots, fresh, now)[t]]
  BY DEF ObservedCustom
<1> QED
  BY <1>2, <1>3

-----------------------------------------------------------------------------
(* The bodies. *)

\* A real condition has one of the kubelet's reasons.
LEMMA BuiltinReasonType ==
  ASSUME NEW t \in BuiltinTypes, NEW status
  PROVE  BuiltinReason(t, status) \in BuiltinReasons
  BY DEF BuiltinReason, BuiltinReasons, BuiltinTypes

\* A condition that is not there yet is well typed.
LEMMA NoCondType == NoCond \in Condition
  BY DEF NoCond, Condition

\* The body of register_node: the real conditions stamped now, no pressure, no
\* custom condition yet.
LEMMA RegistrationBody ==
  ASSUME NEW now \in Nat
  PROVE  /\ NodeRegistration(now) \in [CondTypes -> Condition]
         /\ \A t \in CondTypes : /\ NodeRegistration(now)[t].hb \in {0, now}
                                 /\ NodeRegistration(now)[t].tt
                                      = NodeRegistration(now)[t].hb
         /\ NodeRegistration(now)["MemoryPressure"].status = "False"
         /\ NodeRegistration(now)["Haunted"] = NoCond
<1> DEFINE b == NodeRegistration(now)
<1>1. ASSUME NEW t \in BuiltinTypes
      PROVE  b[t] = [status |-> Bool(t = "Ready"),
                     reason |-> BuiltinReason(t, Bool(t = "Ready")),
                     hb |-> now, tt |-> now]
  BY <1>1 DEF NodeRegistration, CondTypes
<1>2. ASSUME NEW t \in CustomTypes PROVE b[t] = NoCond
  BY <1>2 DEF NodeRegistration, CondTypes, BuiltinTypes, CustomTypes
<1>3. b = [t \in CondTypes |-> b[t]]
  BY DEF NodeRegistration
<1> HIDE DEF b
<1>4. ASSUME NEW t \in BuiltinTypes
      PROVE  b[t] \in Condition /\ b[t].hb = now /\ b[t].tt = now
  <2> DEFINE status == Bool(t = "Ready")
             reason == BuiltinReason(t, status)
  <2>1. status \in CondStatus /\ reason \in BuiltinReasons
    BY <1>4, BuiltinReasonType DEF Bool, CondStatus
  <2>2. b[t] = [status |-> status, reason |-> reason, hb |-> now, tt |-> now]
    BY <1>1, <1>4
  <2> HIDE DEF status, reason
  <2> QED
    BY <2>1, <2>2 DEF Condition
<1>5. ASSUME NEW t \in CustomTypes
      PROVE  b[t] \in Condition /\ b[t].hb = 0 /\ b[t].tt = 0
  BY <1>2, <1>5, NoCondType DEF NoCond
<1>6. b["MemoryPressure"].status = "False"
  BY <1>1 DEF BuiltinTypes, Bool
<1>7. b["Haunted"] = NoCond
  BY <1>2 DEF CustomTypes
<1> QED
  BY <1>3, <1>4, <1>5, <1>6, <1>7 DEF CondTypes, b

\* The body of a status PATCH, field by field: the real conditions from their
\* slots, the custom ones fresh, with the transition times of their slots.
LEMMA StatusBody ==
  ASSUME NEW builtin \in [BuiltinTypes -> CondState],
         NEW slots \in [CustomTypes -> CondState],
         NEW fresh \in [CustomTypes -> Evaluation], NEW now \in Nat
  PROVE  LET b == NodeStatusPatch(builtin, slots, fresh, now)
         IN  /\ b \in [CondTypes -> Condition]
             /\ \A t \in BuiltinTypes :
                  /\ b[t].status = builtin[t].status
                  /\ b[t].tt = builtin[t].transitioned_at
             /\ \A t \in CustomTypes :
                  /\ b[t].status = fresh[t].status
                  /\ b[t].reason = fresh[t].reason
                  /\ b[t].tt = slots[t].transitioned_at
             /\ \A t \in CondTypes : b[t].hb = now
<1> DEFINE b == NodeStatusPatch(builtin, slots, fresh, now)
<1>1. ASSUME NEW t \in BuiltinTypes
      PROVE  b[t] = [status |-> builtin[t].status,
                     reason |-> BuiltinReason(t, builtin[t].status),
                     hb |-> now, tt |-> builtin[t].transitioned_at]
  BY <1>1 DEF NodeStatusPatch, CondTypes
<1>2. ASSUME NEW t \in CustomTypes
      PROVE  b[t] = [status |-> fresh[t].status, reason |-> fresh[t].reason,
                     hb |-> now, tt |-> slots[t].transitioned_at]
  BY <1>2 DEF NodeStatusPatch, CondTypes, BuiltinTypes, CustomTypes
<1>3. b = [t \in CondTypes |-> b[t]]
  BY DEF NodeStatusPatch
<1> HIDE DEF b
<1>4. ASSUME NEW t \in BuiltinTypes
      PROVE  /\ b[t] \in Condition
             /\ b[t].status = builtin[t].status
             /\ b[t].tt = builtin[t].transitioned_at
             /\ b[t].hb = now
  <2> DEFINE reason == BuiltinReason(t, builtin[t].status)
  <2>1. reason \in BuiltinReasons
    BY <1>4, BuiltinReasonType
  <2>2. b[t] = [status |-> builtin[t].status, reason |-> reason,
                hb |-> now, tt |-> builtin[t].transitioned_at]
    BY <1>1, <1>4
  <2>3. builtin[t] \in CondState
    BY <1>4
  <2> HIDE DEF reason
  <2> QED
    BY <2>1, <2>2, <2>3 DEF Condition, CondState
<1>5. ASSUME NEW t \in CustomTypes
      PROVE  /\ b[t] \in Condition
             /\ b[t].status = fresh[t].status
             /\ b[t].reason = fresh[t].reason
             /\ b[t].tt = slots[t].transitioned_at
             /\ b[t].hb = now
  <2>1. slots[t] \in CondState /\ fresh[t] \in Evaluation
    BY <1>5
  <2>2. /\ fresh[t].status \in CondStatus
        /\ fresh[t].reason \in CustomReasons
        /\ slots[t].transitioned_at \in Nat
    BY <2>1 DEF CondState, Evaluation
  <2>3. b[t] = [status |-> fresh[t].status, reason |-> fresh[t].reason,
                hb |-> now, tt |-> slots[t].transitioned_at]
    BY <1>2, <1>5
  <2> QED
    BY <2>2, <2>3 DEF Condition
<1> QED
  BY <1>3, <1>4, <1>5 DEF CondTypes, b

\* Below the MemoryPressure threshold, hence below 30 % of the heap, Peckish
\* is True and Vibes is False whatever the other inputs are.
LEMMA PressureEvaluated ==
  ASSUME NEW i, i.heap_free_bytes \in Nat,
         i.heap_free_bytes < MEMORY_PRESSURE_FREE_BYTES
  PROVE  eval_peckish(i).status = "True" /\ eval_vibes(i).status = "False"
<1> DEFINE free == i.heap_free_bytes
           pct  == heap_pct_free(i)
<1>1. free <= HEAP_TOTAL_BYTES /\ 100 * free < 30 * HEAP_TOTAL_BYTES
  BY TunablesAssumption
<1>2. pct = (free * 100) \div HEAP_TOTAL_BYTES
  BY <1>1 DEF heap_pct_free
<1>3. pct \in Nat /\ pct * HEAP_TOTAL_BYTES <= free * 100
  BY <1>2, DivBounds, TunablesAssumption
<1>4. pct < 30
  BY <1>1, <1>3, TunablesAssumption, QuotientBelow
<1>5. eval_peckish(i).status = "True"
  BY DEF eval_peckish, CustomCond
<1>6. eval_vibes(i).status = "False"
  BY <1>4 DEF eval_vibes, CustomCond
<1> QED
  BY <1>5, <1>6

\* Only a sample whose clocks slipped makes Haunted TimeSlipped.
LEMMA SlipEvaluated ==
  ASSUME NEW i, ~i.time_slipped
  PROVE  eval_haunted(i).reason # "TimeSlipped"
  BY DEF eval_haunted, CustomCond

\* What one sample i, taken at `now`, makes of the slots and of the body.
PushFacts(old, oldCustom, i, now, fresh, builtin, slots, body) ==
  /\ builtin \in [BuiltinTypes -> CondState]
  /\ slots \in [CustomTypes -> CondState]
  /\ body \in [CondTypes -> Condition]
  /\ builtin["MemoryPressure"].status = "True"
       <=> i.heap_free_bytes < MEMORY_PRESSURE_FREE_BYTES
  /\ \A t \in BuiltinTypes :
       /\ builtin[t].transitioned_at \in {old[t].transitioned_at, now}
       /\ body[t].status = builtin[t].status
       /\ body[t].tt = builtin[t].transitioned_at
  /\ \A t \in CustomTypes :
       /\ slots[t].transitioned_at \in {oldCustom[t].transitioned_at, now}
       /\ body[t].status = slots[t].status
       /\ body[t].tt = slots[t].transitioned_at
  /\ \A t \in CondTypes : body[t].hb = now
  /\ body["MemoryPressure"].status = "True" =>
       /\ body["Peckish"].status = "True"
       /\ body["Vibes"].status = "False"
  /\ ~i.time_slipped => body["Haunted"].reason # "TimeSlipped"
  /\ builtin["MemoryPressure"].status = old["MemoryPressure"].status
       => builtin = old
  /\ (\A t \in CustomTypes : ~Flipped(oldCustom[t], fresh[t].status))
       => slots = oldCustom

\* The facts hold of the slots and the body that any sample produces.
LEMMA Push ==
  ASSUME NEW old \in [BuiltinTypes -> CondState],
         NEW oldCustom \in [CustomTypes -> CondState],
         NEW i, NEW now \in Nat, i.heap_free_bytes \in Nat
  PROVE  LET free    == i.heap_free_bytes
             fresh   == Evaluate(i)
             builtin == Observed(old, free, now)
             slots   == ObservedCustom(oldCustom, fresh, now)
             body    == NodeStatusPatch(builtin, slots, fresh, now)
         IN  PushFacts(old, oldCustom, i, now, fresh, builtin, slots, body)
<1> DEFINE free    == i.heap_free_bytes
           fresh   == Evaluate(i)
           builtin == Observed(old, free, now)
           slots   == ObservedCustom(oldCustom, fresh, now)
           body    == NodeStatusPatch(builtin, slots, fresh, now)
<1>1. fresh \in [CustomTypes -> Evaluation]
  BY EvaluateType
<1>2. /\ builtin \in [BuiltinTypes -> CondState]
      /\ builtin["MemoryPressure"].status
           = Bool(free < MEMORY_PRESSURE_FREE_BYTES)
      /\ \A t \in BuiltinTypes :
           builtin[t].transitioned_at \in {old[t].transitioned_at, now}
      /\ builtin["MemoryPressure"].status = old["MemoryPressure"].status
           => builtin = old
  BY ObservedBuiltin
<1>3. builtin["MemoryPressure"].status = "True"
        <=> free < MEMORY_PRESSURE_FREE_BYTES
  BY <1>2 DEF Bool
<1>4. /\ slots \in [CustomTypes -> CondState]
      /\ \A t \in CustomTypes :
           /\ slots[t].status = fresh[t].status
           /\ slots[t].transitioned_at \in {oldCustom[t].transitioned_at, now}
      /\ (\A t \in CustomTypes : ~Flipped(oldCustom[t], fresh[t].status))
           => slots = oldCustom
  <2> HIDE DEF fresh
  <2> QED
    BY <1>1, ObservedCustomSlots
<1>5. /\ body \in [CondTypes -> Condition]
      /\ \A t \in BuiltinTypes :
           /\ body[t].status = builtin[t].status
           /\ body[t].tt = builtin[t].transitioned_at
      /\ \A t \in CustomTypes :
           /\ body[t].status = fresh[t].status
           /\ body[t].reason = fresh[t].reason
           /\ body[t].tt = slots[t].transitioned_at
      /\ \A t \in CondTypes : body[t].hb = now
  <2> HIDE DEF fresh, builtin, slots
  <2> QED
    BY <1>1, <1>2, <1>4, StatusBody
<1>6. body["MemoryPressure"].status = "True" =>
        /\ body["Peckish"].status = "True"
        /\ body["Vibes"].status = "False"
  <2> SUFFICES ASSUME body["MemoryPressure"].status = "True"
               PROVE  /\ body["Peckish"].status = "True"
                      /\ body["Vibes"].status = "False"
    OBVIOUS
  <2>1. free < MEMORY_PRESSURE_FREE_BYTES
    BY <1>3, <1>5 DEF BuiltinTypes
  <2>2. fresh["Peckish"].status = "True" /\ fresh["Vibes"].status = "False"
    BY <2>1, PressureEvaluated, EvaluateBy
  <2> QED
    BY <2>2, <1>5 DEF CustomTypes
<1>7. ~i.time_slipped => body["Haunted"].reason # "TimeSlipped"
  <2>1. ~i.time_slipped => fresh["Haunted"].reason # "TimeSlipped"
    BY SlipEvaluated, EvaluateBy
  <2>2. body["Haunted"].reason = fresh["Haunted"].reason
    BY <1>5 DEF CustomTypes
  <2> QED
    BY <2>1, <2>2
<1>8. \A t \in CustomTypes : body[t].status = slots[t].status
  BY <1>4, <1>5
<1> HIDE DEF fresh, builtin, slots, body
<1> QED
  BY <1>2, <1>3, <1>4, <1>5, <1>6, <1>7, <1>8
     DEF fresh, builtin, slots, body, PushFacts

-----------------------------------------------------------------------------
(* The inductive invariant. *)

InLoop  == pc \in {"sleep", "patch_status", "patch_annotation"}
Pushing == pc \in {"patch_status", "patch_annotation"}

\* What unix_now_secs reads m ticks after the power-on, the clock anchored.
Seconds(m) == wall.anchor + (m - wall.anchor_at) \div MS

\* The anchor is no later than the instant it was stored at.
ClockInv ==
  /\ clock >= EPOCH
  /\ pc = "anchor" => wall = FreshWall
  /\ wall.anchor # 0 => /\ wall.anchor * MS <= boot.at + wall.anchor_at
                        /\ wall.anchor_at <= now_ms

\* No slot has flipped later than now.
SlotsInv ==
  /\ \A t \in BuiltinTypes : tracker[t].transitioned_at <= unix_now_secs
  /\ \A t \in CustomTypes : custom[t].transitioned_at <= unix_now_secs

\* What the three properties of the stored conditions ask, of any body.
Honest(conds, time) ==
  /\ \A t \in CondTypes : /\ conds[t].tt <= conds[t].hb
                          /\ conds[t].hb * MS <= time
  /\ conds["MemoryPressure"].status = "True" =>
       /\ conds["Peckish"].status = "True"
       /\ conds["Vibes"].status = "False"
  /\ conds["Haunted"].hb > 0 => conds["Haunted"].reason # "TimeSlipped"

\* A body built at `now`.
Fresh(conds, now) ==
  /\ \A t \in CondTypes : conds[t].tt <= now /\ conds[t].hb = now
  /\ conds["MemoryPressure"].status = "True" =>
       /\ conds["Peckish"].status = "True"
       /\ conds["Vibes"].status = "False"

BodiesInv ==
  /\ Honest(node.conds, clock)
  /\ Honest(late.conds, clock)
  /\ Honest(req.conds, clock)

\* The two clocks of a snapshot were read at the same instant.
SameInstant(unix, mono_ms) ==
  /\ wall.anchor_at <= mono_ms /\ mono_ms <= now_ms
  /\ unix = Seconds(mono_ms)

SnapInv ==
  wall.anchor # 0 =>
    /\ InLoop => SameInstant(snap.prev_unix, snap.prev_mono_ms)
    /\ Pushing => SameInstant(req.now, req.now_ms)

AssocInv ==
  /\ InLoop => wifi.total - snap.prev_assoc_total >= unsampled
  /\ Pushing => wifi.total - req.assoc_total >= unsampled

Carries(conds) ==
  \A t \in CondTypes : /\ conds[t].status = Slot(t).status
                       /\ conds[t].tt = Slot(t).transitioned_at

UnderPressure == tracker["MemoryPressure"].status = "True"

DeliveryInv ==
  /\ pc \in {"init_status", "init_annotation", "patch_status",
             "patch_annotation"} =>
       /\ Carries(req.conds)
       /\ req.free < MEMORY_PRESSURE_FREE_BYTES <=> UnderPressure
  /\ pc \in {"init_annotation", "patch_annotation", "sleep"} /\ ~owed =>
       Carries(node.conds)
  /\ pc = "sleep" /\ ~owed =>
       (node.heap < MEMORY_PRESSURE_FREE_BYTES <=> UnderPressure)

IInv ==
  /\ TypeOK /\ ClockInv /\ SlotsInv /\ BodiesInv
  /\ SnapInv /\ AssocInv /\ DeliveryInv

-----------------------------------------------------------------------------
(* The clocks and the calls. *)

\* The board's clocks read natural numbers.
LEMMA NowTypes ==
  TypeOK => now_ms \in Nat /\ uptime_secs \in Nat /\ unix_now_secs \in Nat
<1> SUFFICES ASSUME TypeOK
             PROVE  now_ms \in Nat /\ uptime_secs \in Nat /\ unix_now_secs \in Nat
  OBVIOUS
<1>1. now_ms \in Nat
  BY DEF TypeOK, now_ms
<1>2. uptime_secs \in Nat
  BY <1>1, DivBounds, StatusAssumption DEF uptime_secs
<1>3. ASSUME NEW m \in Nat PROVE m \div MS \in Nat
  BY <1>3, DivBounds, StatusAssumption
<1>4. wall.anchor \in Nat /\ wall.anchor_at \in Nat
  BY DEF TypeOK
<1>5. (IF now_ms >= wall.anchor_at THEN now_ms - wall.anchor_at ELSE 0) \in Nat
  BY <1>1, <1>4
<1>6. unix_now_secs \in Nat
  BY <1>3, <1>4, <1>5 DEF unix_now_secs
<1> QED
  BY <1>1, <1>2, <1>6

\* unix_now_secs is never ahead of the true time, and 0 until anchored.
LEMMA UnixNow ==
  ASSUME TypeOK, ClockInv
  PROVE  /\ unix_now_secs \in Nat
         /\ unix_now_secs * MS <= clock
         /\ wall.anchor = 0 => unix_now_secs = 0
         /\ wall.anchor # 0 => /\ unix_now_secs = Seconds(now_ms)
                               /\ wall.anchor_at <= now_ms
<1>1. /\ now_ms \in Nat /\ clock \in Nat /\ boot.at \in Nat /\ MS \in Nat \ {0}
      /\ now_ms = clock - boot.at
      /\ wall.anchor \in Nat /\ wall.anchor_at \in Nat
  BY NowTypes, StatusAssumption DEF TypeOK, now_ms
<1>2. CASE wall.anchor = 0
  BY <1>1, <1>2 DEF unix_now_secs
<1>3. CASE wall.anchor # 0
  <2> DEFINE since == now_ms - wall.anchor_at
             secs  == since \div MS
  <2>1. /\ wall.anchor * MS <= boot.at + wall.anchor_at
        /\ since \in Nat /\ wall.anchor_at <= now_ms
    BY <1>1, <1>3 DEF ClockInv
  <2>2. secs \in Nat /\ secs * MS <= since
    BY <1>1, <2>1, DivBounds
  <2>3. unix_now_secs = wall.anchor + secs /\ Seconds(now_ms) = wall.anchor + secs
    BY <1>1, <1>3, <2>1 DEF unix_now_secs, Seconds
  <2> HIDE DEF secs
  <2>4. (wall.anchor + secs) * MS = wall.anchor * MS + secs * MS
    BY <1>1, <2>2
  <2>5. (wall.anchor + secs) * MS <= clock
    BY <1>1, <2>1, <2>2, <2>4
  <2> QED
    BY <1>1, <1>3, <2>1, <2>2, <2>3, <2>5
<1> QED
  BY <1>2, <1>3

\* The empty Node, call and late request are well typed.
LEMMA NoBodies ==
  /\ NoNode \in [conds : [CondTypes -> Condition], heap : Nat \cup {NoHeap}]
  /\ NoReq \in [now : Nat, now_ms : Nat, free : Nat,
                conds : [CondTypes -> Condition], assoc_total : Nat, bssid : Nat]
  /\ NoLate \in [call : Calls \cup {"none"},
                 conds : [CondTypes -> Condition], free : Nat]
  /\ NoReq.conds = NoNode.conds /\ NoLate.conds = NoNode.conds
  /\ \A t \in CondTypes : NoNode.conds[t] = NoCond
<1>1. /\ NoNode.conds \in [CondTypes -> Condition]
      /\ \A t \in CondTypes : NoNode.conds[t] = NoCond
  BY NoCondType DEF NoNode
<1>2. NoNode = [conds |-> NoNode.conds, heap |-> NoHeap]
  BY DEF NoNode
<1> QED
  BY <1>1, <1>2 DEF NoReq, NoLate, NoHeap

\* The stored Node has the conditions it had or those of the request served.
LEMMA ServeType ==
  ASSUME TypeOK, NEW call, NEW conds \in [CondTypes -> Condition],
         NEW free \in Nat
  PROVE  /\ Serve(call, conds, free)
              \in [conds : [CondTypes -> Condition], heap : Nat \cup {NoHeap}]
         /\ Serve(call, conds, free).conds \in {node.conds, conds}
  BY DEF Serve, TypeOK

\* However a call ends, only its own body can reach the Node or be left behind.
LEMMA AnsweredType ==
  ASSUME TypeOK, pc \in Calls, NEW outcome \in Outcomes, Answered(outcome)
  PROVE  /\ node' \in [conds : [CondTypes -> Condition], heap : Nat \cup {NoHeap}]
         /\ late' \in [call : Calls \cup {"none"},
                       conds : [CondTypes -> Condition], free : Nat]
         /\ node'.conds \in {node.conds, req.conds}
         /\ late'.conds \in {late.conds, req.conds}
<1>1. req.conds \in [CondTypes -> Condition] /\ req.free \in Nat
  BY DEF TypeOK
<1>2. /\ Serve(pc, req.conds, req.free)
           \in [conds : [CondTypes -> Condition], heap : Nat \cup {NoHeap}]
      /\ Serve(pc, req.conds, req.free).conds \in {node.conds, req.conds}
  BY <1>1, ServeType
<1> QED
  BY <1>1, <1>2 DEF Answered, TypeOK

\* The Date header has arrived: its seconds are positive and not in the future.
LEMMA AnchorUnix ==
  ASSUME TypeOK, ClockInv, NEW lag \in Lags
  PROVE  LET unix == (clock - lag) \div MS
         IN  unix \in Nat \ {0} /\ unix * MS <= clock
<1>1. /\ clock \in Nat /\ lag \in Nat /\ MS \in Nat \ {0}
      /\ clock - lag \in Nat /\ clock - lag >= MS
  BY StatusAssumption DEF TypeOK, ClockInv
<1>2. /\ (clock - lag) \div MS \in Nat
      /\ ((clock - lag) \div MS) * MS <= clock - lag
      /\ clock - lag < ((clock - lag) \div MS) * MS + MS
  BY <1>1, DivBounds
<1> QED
  BY <1>1, <1>2

\* What the initial push of bootstrap carries.
LEMMA InitialPush ==
  ASSUME TypeOK, BeginInitialStatus
  PROVE  /\ tracker' \in [BuiltinTypes -> CondState]
         /\ custom' \in [CustomTypes -> CondState]
         /\ req' \in [now : Nat, now_ms : Nat, free : Nat,
                      conds : [CondTypes -> Condition], assoc_total : Nat,
                      bssid : Nat]
         /\ \A t \in BuiltinTypes : tracker'[t].transitioned_at = unix_now_secs
         /\ \A t \in CustomTypes : custom'[t].transitioned_at = unix_now_secs
         /\ Fresh(req'.conds, unix_now_secs)
         /\ req'.conds["Haunted"].reason # "TimeSlipped"
         /\ Carries(req.conds)'
         /\ req'.free < MEMORY_PRESSURE_FREE_BYTES
              <=> tracker'["MemoryPressure"].status = "True"
<1> DEFINE now == unix_now_secs
           old == NodeCondTracker(now)
           oldCustom == CustomCondTracker(now)
           i(free) == [heap_free_bytes |-> free, uptime_secs |-> uptime_secs,
                       wifi_reconnects_5min |-> 0, renewal_count |-> 0,
                       bssid_changed |-> FALSE, time_slipped |-> FALSE]
           builtin(free) == Observed(old, free, now)
           slots(free) == ObservedCustom(oldCustom, Evaluate(i(free)), now)
           body(free) ==
             NodeStatusPatch(builtin(free), slots(free), Evaluate(i(free)), now)
<1>1. PICK free \in HeapLevels :
        /\ tracker' = builtin(free)
        /\ custom' = slots(free)
        /\ req' = [NoReq EXCEPT !.now = now, !.free = free, !.conds = body(free)]
  BY DEF BeginInitialStatus
<1>2. now \in Nat /\ free \in Nat
  BY NowTypes, StatusAssumption
<1>3. /\ old \in [BuiltinTypes -> CondState]
      /\ oldCustom \in [CustomTypes -> CondState]
      /\ \A t \in BuiltinTypes : old[t].transitioned_at = now
      /\ \A t \in CustomTypes : oldCustom[t].transitioned_at = now
  BY <1>2, FreshTrackers
<1>4. i(free).heap_free_bytes = free /\ ~i(free).time_slipped
  OBVIOUS
<1> HIDE DEF now, old, oldCustom, i
<1>5. PushFacts(old, oldCustom, i(free), now, Evaluate(i(free)),
                builtin(free), slots(free), body(free))
  <2>1. PushFacts(old, oldCustom, i(free), now, Evaluate(i(free)),
                  Observed(old, i(free).heap_free_bytes, now), slots(free),
                  NodeStatusPatch(Observed(old, i(free).heap_free_bytes, now),
                                  slots(free), Evaluate(i(free)), now))
    BY <1>2, <1>3, <1>4, Push
  <2> QED
    BY <2>1, <1>4
<1> HIDE DEF builtin, slots, body
<1>6. /\ req' \in [now : Nat, now_ms : Nat, free : Nat,
                   conds : [CondTypes -> Condition], assoc_total : Nat,
                   bssid : Nat]
      /\ req'.conds = body(free) /\ req'.free = free
  BY <1>1, <1>2, <1>5, NoBodies DEF PushFacts
<1>7. /\ \A t \in BuiltinTypes : tracker'[t].transitioned_at = now
      /\ \A t \in CustomTypes : custom'[t].transitioned_at = now
  BY <1>1, <1>3, <1>5 DEF PushFacts
<1>8. Carries(req.conds)'
  BY <1>1, <1>5, <1>6 DEF PushFacts, Carries, Slot, CondTypes
<1>9. Fresh(req'.conds, now)
  <2>1. \A t \in CondTypes : body(free)[t].tt = now
    BY <1>1, <1>5, <1>7 DEF PushFacts, CondTypes
  <2> QED
    BY <1>2, <1>5, <1>6, <2>1 DEF PushFacts, Fresh
<1> QED
  BY <1>1, <1>4, <1>5, <1>6, <1>7, <1>8, <1>9 DEF PushFacts, now

\* What a round of the status loop does with its sample.
LEMMA ReconcilePush ==
  ASSUME TypeOK, SlotsInv, Reconcile
  PROVE  /\ tracker' \in [BuiltinTypes -> CondState]
         /\ custom' \in [CustomTypes -> CondState]
         /\ \A t \in BuiltinTypes : tracker'[t].transitioned_at <= unix_now_secs
         /\ \A t \in CustomTypes : custom'[t].transitioned_at <= unix_now_secs
         /\ \/ /\ Sleep
               /\ tracker' = tracker /\ custom' = custom
            \/ /\ pc' = "patch_status" /\ wake' = wake
               /\ req' \in [now : Nat, now_ms : Nat, free : Nat,
                            conds : [CondTypes -> Condition],
                            assoc_total : Nat, bssid : Nat]
               /\ req'.now = unix_now_secs /\ req'.now_ms = now_ms
               /\ req'.assoc_total = wifi.total
               /\ Fresh(req'.conds, unix_now_secs)
               /\ (\A f : ~Sampled(f).time_slipped)
                    => req'.conds["Haunted"].reason # "TimeSlipped"
               /\ Carries(req.conds)'
               /\ req'.free < MEMORY_PRESSURE_FREE_BYTES
                    <=> tracker'["MemoryPressure"].status = "True"
<1> DEFINE now == unix_now_secs
           fresh(free) == Evaluate(Sampled(free))
           builtin(free) == Observed(tracker, free, now)
           slots(free) == ObservedCustom(custom, fresh(free), now)
           body(free) == NodeStatusPatch(builtin(free), slots(free), fresh(free), now)
           mp_flipped(free) == builtin(free)["MemoryPressure"].status
                                 # tracker["MemoryPressure"].status
           any_custom_flipped(free) ==
             \E t \in CustomTypes : Flipped(custom[t], fresh(free)[t].status)
<1>1. PICK free \in HeapLevels :
        /\ tracker' = builtin(free)
        /\ custom' = slots(free)
        /\ IF push_wanted(mp_flipped(free), any_custom_flipped(free), now)
           THEN /\ pc' = "patch_status"
                /\ req' = [now |-> now, now_ms |-> now_ms, free |-> free,
                           conds |-> body(free),
                           assoc_total |-> wifi.total, bssid |-> wifi.bssid]
                /\ wake' = wake
           ELSE Sleep
  BY DEF Reconcile
<1>2. now \in Nat /\ free \in Nat /\ now_ms \in Nat
  BY NowTypes, StatusAssumption
<1>3. /\ tracker \in [BuiltinTypes -> CondState]
      /\ custom \in [CustomTypes -> CondState]
      /\ wifi.total \in Nat /\ wifi.bssid \in Nat
  BY DEF TypeOK
<1>4. /\ \A t \in BuiltinTypes : tracker[t].transitioned_at <= now
      /\ \A t \in CustomTypes : custom[t].transitioned_at <= now
  BY DEF SlotsInv
<1>5. Sampled(free).heap_free_bytes = free
  BY DEF Sampled
<1> HIDE DEF now
<1>6. PushFacts(tracker, custom, Sampled(free), now, fresh(free),
                builtin(free), slots(free), body(free))
  <2>1. PushFacts(tracker, custom, Sampled(free), now, fresh(free),
                  Observed(tracker, Sampled(free).heap_free_bytes, now),
                  slots(free),
                  NodeStatusPatch(
                    Observed(tracker, Sampled(free).heap_free_bytes, now),
                    slots(free), fresh(free), now))
    BY <1>2, <1>3, <1>5, Push
  <2> QED
    BY <2>1, <1>5
<1> HIDE DEF fresh, builtin, slots, body, mp_flipped, any_custom_flipped
<1>7. /\ \A t \in BuiltinTypes : builtin(free)[t].transitioned_at <= now
      /\ \A t \in CustomTypes : slots(free)[t].transitioned_at <= now
  BY <1>2, <1>4, <1>6 DEF PushFacts
<1>8. CASE push_wanted(mp_flipped(free), any_custom_flipped(free), now)
  <2>1. /\ req' \in [now : Nat, now_ms : Nat, free : Nat,
                     conds : [CondTypes -> Condition], assoc_total : Nat,
                     bssid : Nat]
        /\ req'.conds = body(free) /\ req'.free = free /\ req'.now = now
        /\ req'.now_ms = now_ms /\ req'.assoc_total = wifi.total
        /\ pc' = "patch_status" /\ wake' = wake
    BY <1>1, <1>2, <1>3, <1>6, <1>8 DEF PushFacts
  <2>2. Carries(req.conds)'
    BY <1>1, <1>6, <2>1 DEF PushFacts, Carries, Slot, CondTypes
  <2>3. \A t \in CondTypes : body(free)[t].tt <= now
    BY <1>6, <1>7 DEF PushFacts, CondTypes
  <2>4. Fresh(req'.conds, now)
    BY <1>6, <2>1, <2>3 DEF PushFacts, Fresh
  <2> QED
    BY <1>1, <1>5, <1>6, <1>7, <2>1, <2>2, <2>4 DEF PushFacts, now
<1>9. CASE ~push_wanted(mp_flipped(free), any_custom_flipped(free), now)
  <2>1. ~mp_flipped(free) /\ ~any_custom_flipped(free)
    BY <1>9 DEF push_wanted
  <2>2. tracker' = tracker /\ custom' = custom
    BY <1>1, <1>6, <2>1 DEF PushFacts, mp_flipped, any_custom_flipped
  <2>3. Sleep
    BY <1>1, <1>9
  <2> QED
    BY <1>3, <1>4, <2>2, <2>3 DEF now
<1> QED
  BY <1>8, <1>9

\* Every step keeps the types.
LEMMA TypeStep ==
  ASSUME TypeOK, ClockInv, SlotsInv, [Next]_vars
  PROVE  TypeOK'
<1>1. CASE AnchorClock
  <2>1. PICK lag \in Lags :
          LET unix == (clock - lag) \div MS
          IN  wall' = set_wall_clock(unix) /\ BeginRegister(unix)
    BY <1>1 DEF AnchorClock
  <2> DEFINE unix == (clock - lag) \div MS
  <2>2. unix \in Nat
    BY AnchorUnix
  <2>3. NodeRegistration(unix) \in [CondTypes -> Condition]
    BY <2>2, RegistrationBody
  <2>4. wall' \in [anchor : Nat, anchor_at : Nat]
    BY <2>1, <2>2, NowTypes DEF set_wall_clock
  <2>5. /\ pc' = "register"
        /\ req' = [NoReq EXCEPT !.now = unix, !.conds = NodeRegistration(unix)]
    BY <2>1 DEF BeginRegister
  <2>6. req' \in [now : Nat, now_ms : Nat, free : Nat,
                  conds : [CondTypes -> Condition], assoc_total : Nat, bssid : Nat]
    <3> HIDE DEF unix
    <3> QED
      BY <2>2, <2>3, <2>5, NoBodies
  <2> QED
    BY <1>1, <2>4, <2>5, <2>6 DEF AnchorClock, TypeOK, Calls
<1>2. CASE AnchorFails
  <2>1. NodeRegistration(0) \in [CondTypes -> Condition]
    BY RegistrationBody
  <2>2. req' \in [now : Nat, now_ms : Nat, free : Nat,
                  conds : [CondTypes -> Condition], assoc_total : Nat, bssid : Nat]
    BY <1>2, <2>1, NoBodies DEF AnchorFails, BeginRegister
  <2> QED
    BY <1>2, <2>2 DEF AnchorFails, BeginRegister, TypeOK, Calls
<1>3. CASE RegisterNode
  <2>1. PICK outcome \in Outcomes : Answered(outcome)
    BY <1>3 DEF RegisterNode
  <2>2. pc \in Calls
    BY <1>3 DEF RegisterNode, Calls
  <2> QED
    BY <1>3, <2>1, <2>2, AnsweredType, NoBodies DEF RegisterNode, TypeOK, Calls
<1>4. CASE BeginInitialStatus
  BY <1>4, InitialPush DEF BeginInitialStatus, TypeOK, Calls
<1>5. CASE InitialStatus
  <2>1. PICK outcome \in Outcomes :
          Answered(outcome) /\ owed' = ~Heard200(outcome)
    BY <1>5 DEF InitialStatus
  <2>2. pc \in Calls
    BY <1>5 DEF InitialStatus, Calls
  <2>3. owed' \in BOOLEAN
    BY <2>1
  <2> QED
    BY <1>5, <2>1, <2>2, <2>3, AnsweredType DEF InitialStatus, TypeOK, Calls
<1>6. ASSUME Sleep
      PROVE  /\ pc' = "sleep" /\ wake' \in Nat
             /\ req' \in [now : Nat, now_ms : Nat, free : Nat,
                          conds : [CondTypes -> Condition],
                          assoc_total : Nat, bssid : Nat]
  BY <1>6, NoBodies, NowTypes, StatusAssumption DEF Sleep
<1>7. CASE InitialAnnotation
  <2>1. PICK outcome \in Outcomes :
          Answered(outcome) /\ owed' = (owed \/ ~Heard200(outcome))
    BY <1>7 DEF InitialAnnotation
  <2>2. pc \in Calls
    BY <1>7 DEF InitialAnnotation, Calls
  <2>3. owed' \in BOOLEAN
    BY <2>1
  <2>4. snap' \in [last_status_update : Nat, prev_assoc_total : Nat,
                   prev_bssid : Nat, prev_unix : Nat, prev_mono_ms : Nat]
    BY <1>7, NowTypes DEF InitialAnnotation, TypeOK
  <2> QED
    BY <1>6, <1>7, <2>1, <2>2, <2>3, <2>4, AnsweredType
    DEF InitialAnnotation, TypeOK, Calls
<1>8. CASE Reconcile
  <2>1. /\ pc' \in Calls \cup {"sleep"} /\ wake' \in Nat
        /\ req' \in [now : Nat, now_ms : Nat, free : Nat,
                     conds : [CondTypes -> Condition],
                     assoc_total : Nat, bssid : Nat]
        /\ tracker' \in [BuiltinTypes -> CondState]
        /\ custom' \in [CustomTypes -> CondState]
    BY <1>6, <1>8, ReconcilePush DEF TypeOK, Calls
  <2> QED
    BY <1>8, <2>1 DEF Reconcile, TypeOK
<1>9. CASE PatchStatus
  <2>1. PICK outcome \in Outcomes :
          /\ Answered(outcome)
          /\ \/ pc' = "patch_annotation" /\ UNCHANGED <<req, wake>>
             \/ Sleep
          /\ owed' = ~Heard200(outcome)
    BY <1>9 DEF PatchStatus
  <2>2. pc \in Calls
    BY <1>9 DEF PatchStatus, Calls
  <2>3. owed' \in BOOLEAN
    BY <2>1
  <2>4. /\ pc' \in Calls \cup {"sleep"} /\ wake' \in Nat
        /\ req' \in [now : Nat, now_ms : Nat, free : Nat,
                     conds : [CondTypes -> Condition],
                     assoc_total : Nat, bssid : Nat]
    BY <1>6, <2>1 DEF TypeOK, Calls
  <2> QED
    BY <1>9, <2>1, <2>2, <2>3, <2>4, AnsweredType DEF PatchStatus, TypeOK
<1>10. CASE PatchAnnotation
  <2>1. PICK outcome \in Outcomes :
          /\ Answered(outcome)
          /\ owed' = (owed \/ ~Heard200(outcome))
          /\ snap' = IF Heard200(outcome) THEN NewSnap ELSE snap
    BY <1>10 DEF PatchAnnotation
  <2>2. pc \in Calls
    BY <1>10 DEF PatchAnnotation, Calls
  <2>3. owed' \in BOOLEAN
    BY <2>1
  <2>4. snap' \in [last_status_update : Nat, prev_assoc_total : Nat,
                   prev_bssid : Nat, prev_unix : Nat, prev_mono_ms : Nat]
    BY <2>1 DEF NewSnap, TypeOK
  <2> QED
    BY <1>6, <1>10, <2>1, <2>2, <2>3, <2>4, AnsweredType
    DEF PatchAnnotation, TypeOK, Calls
<1>11. CASE \E b \in Bssids : Associate(b)
  BY <1>11, StatusAssumption DEF Associate, TypeOK
<1>12. CASE LeaseRenewed
  BY <1>12 DEF LeaseRenewed, TypeOK
<1>13. CASE LateApplied
  <2>1. late.conds \in [CondTypes -> Condition] /\ late.free \in Nat
    BY DEF TypeOK
  <2> QED
    BY <1>13, <2>1, ServeType, NoBodies DEF LateApplied, TypeOK
<1>14. CASE Reboot
  <2>1. /\ FreshWall \in [anchor : Nat, anchor_at : Nat]
        /\ FreshSnap \in [last_status_update : Nat, prev_assoc_total : Nat,
                          prev_bssid : Nat, prev_unix : Nat, prev_mono_ms : Nat]
    BY DEF FreshWall, FreshSnap
  <2>2. ASSUME NEW w \in FreshWifi PROVE w \in [bssid : Nat, total : Nat]
    <3>1. \A n \in 1 .. MaxAssociations : n \in Nat
      BY StatusAssumption
    <3>2. \A b \in Bssids : b \in Nat
      BY StatusAssumption
    <3> QED
      BY <2>2, <3>1, <3>2 DEF FreshWifi
  <2>3. boot' \in [at : Nat, count : Nat] /\ boot'.at <= clock'
    BY <1>14 DEF Reboot, TypeOK
  <2> QED
    BY <1>14, <2>1, <2>2, <2>3, FreshTrackers, NoBodies
    DEF Reboot, TypeOK, Calls
<1>15. CASE Advance
  BY <1>15 DEF Advance, TypeOK
<1>16. CASE ObservationEnds \/ UNCHANGED vars
  BY <1>16 DEF ObservationEnds, vars, TypeOK
<1> QED
  BY <1>1, <1>2, <1>3, <1>4, <1>5, <1>7, <1>8, <1>9, <1>10, <1>11, <1>12,
     <1>13, <1>14, <1>15, <1>16 DEF Next

\* Every step keeps the anchor behind the instant it was stored at.
LEMMA ClockStep ==
  ASSUME TypeOK, ClockInv, [Next]_vars
  PROVE  ClockInv'
<1>1. CASE AnchorClock
  <2>1. PICK lag \in Lags : wall' = set_wall_clock((clock - lag) \div MS)
    BY <1>1 DEF AnchorClock
  <2> DEFINE unix == (clock - lag) \div MS
  <2>2. unix \in Nat \ {0} /\ unix * MS <= clock
    BY AnchorUnix
  <2>3. wall' = [anchor |-> unix, anchor_at |-> now_ms]
    BY <2>1 DEF set_wall_clock
  <2>4. clock' = clock /\ boot' = boot /\ pc' = "register"
    BY <1>1 DEF AnchorClock, BeginRegister
  <2> HIDE DEF unix
  <2>5. /\ wall'.anchor = unix /\ wall'.anchor_at = now_ms
        /\ now_ms = clock - boot.at /\ now_ms' = now_ms
        /\ clock \in Nat /\ boot.at \in Nat /\ MS \in Nat
    BY <2>3, <2>4, StatusAssumption DEF now_ms, TypeOK
  <2> QED
    BY <2>2, <2>4, <2>5 DEF ClockInv
<1>2. CASE Reboot
  BY <1>2 DEF Reboot, ClockInv, FreshWall
<1>3. CASE Advance
  <2>1. /\ clock \in Nat /\ clock' = clock + 1 /\ EPOCH \in Nat
        /\ boot.at \in Nat /\ boot' = boot
        /\ wall.anchor_at \in Nat /\ wall' = wall /\ pc' = pc
    BY <1>3, StatusAssumption DEF Advance, TypeOK
  <2>2. clock' >= EPOCH
    BY <2>1 DEF ClockInv
  <2>3. wall.anchor_at <= now_ms => wall.anchor_at <= now_ms'
    BY <2>1 DEF now_ms
  <2> QED
    BY <2>1, <2>2, <2>3 DEF ClockInv
<1>4. ASSUME UNCHANGED <<clock, boot, wall>>, pc' # "anchor" \/ pc' = pc
      PROVE  ClockInv'
  BY <1>4 DEF ClockInv, now_ms
<1>5. CASE AnchorFails \/ RegisterNode \/ BeginInitialStatus \/ InitialStatus
           \/ InitialAnnotation \/ PatchStatus \/ PatchAnnotation
  BY <1>4, <1>5 DEF AnchorFails, BeginRegister, RegisterNode,
     BeginInitialStatus, InitialStatus, InitialAnnotation, PatchStatus,
     PatchAnnotation, Sleep
<1>6. CASE Reconcile
  BY <1>4, <1>6 DEF Reconcile, Sleep
<1>7. CASE \/ \E b \in Bssids : Associate(b)
           \/ LeaseRenewed \/ LateApplied \/ ObservationEnds \/ UNCHANGED vars
  BY <1>4, <1>7 DEF Associate, LeaseRenewed, LateApplied, ObservationEnds, vars
<1> QED
  BY <1>1, <1>2, <1>3, <1>5, <1>6, <1>7 DEF Next

\* Within a boot the wall clock never goes back.
LEMMA UnixMonotone ==
  ASSUME TypeOK, ClockInv, Advance
  PROVE  unix_now_secs <= unix_now_secs'
<1> USE DEF Advance
<1>1. /\ now_ms \in Nat /\ now_ms' = now_ms + 1 /\ wall' = wall
      /\ wall.anchor \in Nat /\ wall.anchor_at \in Nat /\ MS \in Nat \ {0}
  BY NowTypes, StatusAssumption DEF now_ms, TypeOK
<1>2. CASE wall.anchor = 0
  BY <1>1, <1>2 DEF unix_now_secs
<1>3. CASE wall.anchor # 0
  <2> DEFINE before == now_ms - wall.anchor_at
             after  == now_ms + 1 - wall.anchor_at
  <2>1. wall.anchor_at <= now_ms
    BY <1>3 DEF ClockInv
  <2>2. before \in Nat /\ after \in Nat /\ before <= after
    BY <1>1, <2>1
  <2>3. /\ unix_now_secs = wall.anchor + before \div MS
        /\ unix_now_secs' = wall.anchor + after \div MS
    BY <1>1, <1>3, <2>1 DEF unix_now_secs
  <2>4. before \div MS <= after \div MS
    BY <1>1, <2>2, DivMono
  <2>5. before \div MS \in Nat /\ after \div MS \in Nat
    BY <1>1, <2>2, DivBounds
  <2> QED
    BY <1>1, <2>3, <2>4, <2>5
<1> QED
  BY <1>2, <1>3

\* Every step keeps the slots' transition times behind the wall clock.
LEMMA SlotsStep ==
  ASSUME TypeOK, ClockInv, SlotsInv, [Next]_vars
  PROVE  SlotsInv'
<1>t. TypeOK' /\ ClockInv'
  BY TypeStep, ClockStep
<1>n. unix_now_secs \in Nat /\ unix_now_secs' \in Nat
  <2>1. (TypeOK => unix_now_secs \in Nat)'
    BY NowTypes, PTL
  <2> QED
    BY <1>t, <2>1, NowTypes
<1>s. /\ \A t \in BuiltinTypes : tracker[t].transitioned_at \in Nat
      /\ \A t \in CustomTypes : custom[t].transitioned_at \in Nat
  BY DEF TypeOK, CondState
<1>1. ASSUME UNCHANGED <<tracker, custom>>, unix_now_secs <= unix_now_secs'
      PROVE  SlotsInv'
  BY <1>1, <1>n, <1>s DEF SlotsInv
<1>2. ASSUME UNCHANGED <<clock, boot, wall, tracker, custom>>
      PROVE  SlotsInv'
  BY <1>2 DEF SlotsInv, unix_now_secs, now_ms
<1>3. CASE AnchorClock
  <2>1. unix_now_secs = 0
    BY <1>3 DEF AnchorClock, ClockInv, FreshWall, unix_now_secs
  <2> QED
    BY <1>1, <1>3, <1>n, <2>1 DEF AnchorClock
<1>4. CASE BeginInitialStatus
  <2>1. unix_now_secs' = unix_now_secs
    BY <1>4 DEF BeginInitialStatus, unix_now_secs, now_ms
  <2> QED
    BY <1>4, <1>n, <2>1, InitialPush DEF SlotsInv
<1>5. CASE Reconcile
  <2>1. unix_now_secs' = unix_now_secs
    BY <1>5 DEF Reconcile, unix_now_secs, now_ms
  <2> QED
    BY <1>5, <1>n, <2>1, ReconcilePush DEF SlotsInv
<1>6. CASE Reboot
  <2>1. /\ \A t \in BuiltinTypes : tracker'[t].transitioned_at = 0
        /\ \A t \in CustomTypes : custom'[t].transitioned_at = 0
    BY <1>6, FreshTrackers DEF Reboot
  <2> QED
    BY <1>n, <2>1 DEF SlotsInv
<1>7. CASE Advance
  BY <1>1, <1>7, UnixMonotone DEF Advance
<1>8. CASE AnchorFails \/ RegisterNode \/ InitialStatus \/ InitialAnnotation
           \/ PatchStatus \/ PatchAnnotation
  BY <1>2, <1>8 DEF AnchorFails, RegisterNode, InitialStatus,
     InitialAnnotation, PatchStatus, PatchAnnotation
<1>9. CASE \/ \E b \in Bssids : Associate(b)
           \/ LeaseRenewed \/ LateApplied \/ ObservationEnds \/ UNCHANGED vars
  BY <1>2, <1>9 DEF Associate, LeaseRenewed, LateApplied, ObservationEnds, vars
<1> QED
  BY <1>3, <1>4, <1>5, <1>6, <1>7, <1>8, <1>9 DEF Next

\* With an anchored clock no sample finds the two clocks apart: over the same
\* two instants they differ by the cut to whole seconds, at most one.
LEMMA NoSlip ==
  ASSUME TypeOK, ClockInv, SnapInv, pc = "sleep", wall.anchor # 0, NEW free
  PROVE  ~Sampled(free).time_slipped
<1> DEFINE a == wall.anchor
           k == now_ms - wall.anchor_at
           n == snap.prev_mono_ms - wall.anchor_at
<1>1. /\ now_ms \in Nat /\ a \in Nat /\ wall.anchor_at \in Nat
      /\ snap.prev_mono_ms \in Nat /\ MS \in Nat \ {0}
      /\ HAUNTED_SLIP_SECS \in Nat \ {0}
  BY NowTypes, StatusAssumption DEF TypeOK
<1>2. /\ wall.anchor_at <= snap.prev_mono_ms /\ snap.prev_mono_ms <= now_ms
      /\ snap.prev_unix = a + n \div MS
  BY DEF SnapInv, InLoop, SameInstant, Seconds
<1>3. unix_now_secs = a + k \div MS
  BY UnixNow DEF Seconds
<1>4. k \in Nat /\ n \in Nat /\ n <= k /\ k - n = now_ms - snap.prev_mono_ms
  BY <1>1, <1>2
<1>5. k \div MS \in Nat /\ n \div MS \in Nat /\ (k - n) \div MS \in Nat
  BY <1>1, <1>4, DivBounds
<1>6. (k \div MS) - (n \div MS) - ((k - n) \div MS) \in {0, 1}
  BY <1>1, <1>4, DivDiff
<1> DEFINE wall_delta == unix_now_secs - snap.prev_unix
           mono_delta == (IF now_ms >= snap.prev_mono_ms
                          THEN now_ms - snap.prev_mono_ms ELSE 0) \div MS
<1>7. mono_delta = (k - n) \div MS
  BY <1>1, <1>2, <1>4
<1>8. wall_delta = (k \div MS) - (n \div MS)
  BY <1>1, <1>2, <1>3, <1>5
<1>9. Sampled(free).time_slipped
        = (Abs(wall_delta - mono_delta) > HAUNTED_SLIP_SECS)
  BY DEF Sampled
<1> HIDE DEF wall_delta, mono_delta, k, n
<1>10. wall_delta - mono_delta \in {0, 1}
  BY <1>6, <1>7, <1>8
<1>11. Abs(wall_delta - mono_delta) \in {0, 1}
  BY <1>10 DEF Abs
<1>12. ~(Abs(wall_delta - mono_delta) > HAUNTED_SLIP_SECS)
  BY <1>1, <1>11
<1> QED
  BY <1>9, <1>12

\* A Node without conditions claims nothing.
LEMMA HonestNoNode ==
  ASSUME NEW time \in Nat
  PROVE  Honest(NoNode.conds, time)
<1>1. \A t \in CondTypes : /\ NoNode.conds[t].tt = 0 /\ NoNode.conds[t].hb = 0
                          /\ NoNode.conds[t].status = "Absent"
  BY NoBodies DEF NoCond
<1>2. "MemoryPressure" \in CondTypes /\ "Haunted" \in CondTypes
  BY DEF CondTypes, BuiltinTypes, CustomTypes
<1>3. 0 * MS <= time
  BY StatusAssumption
<1> QED
  BY <1>1, <1>2, <1>3 DEF Honest

\* A body stamped with a clock that is not ahead is honest.
LEMMA HonestFresh ==
  ASSUME NEW conds, NEW now \in Nat, NEW time, now * MS <= time,
         Fresh(conds, now), now > 0 => conds["Haunted"].reason # "TimeSlipped"
  PROVE  Honest(conds, time)
<1>1. conds["Haunted"].hb = now
  BY DEF Fresh, CondTypes, CustomTypes
<1> QED
  BY <1>1 DEF Fresh, Honest

\* Every step keeps the stored Node, the late request and the call in flight
\* honest: a step moves bodies about, and the ones it builds are stamped now.
LEMMA BodiesStep ==
  ASSUME TypeOK, ClockInv, SlotsInv, SnapInv, BodiesInv, [Next]_vars
  PROVE  BodiesInv'
<1> DEFINE Kept == {node.conds, late.conds, req.conds, NoNode.conds}
<1>1. \A c \in Kept : Honest(c, clock)
  BY HonestNoNode DEF BodiesInv, TypeOK
<1>2. ASSUME NEW c \in Kept, NEW t \in CondTypes
      PROVE  c[t].hb \in Nat /\ c[t].hb * MS \in Nat
  <2>1. c \in [CondTypes -> Condition]
    BY NoBodies DEF TypeOK
  <2>2. c[t].hb \in Nat
    BY <1>2, <2>1 DEF Condition
  <2> QED
    BY <2>2, StatusAssumption
<1>3. ASSUME node'.conds \in Kept, late'.conds \in Kept, req'.conds \in Kept,
             clock' = clock
      PROVE  BodiesInv'
  BY <1>1, <1>3 DEF BodiesInv
<1>4. ASSUME UNCHANGED <<node, late, clock>>, Honest(req'.conds, clock)
      PROVE  BodiesInv'
  BY <1>4 DEF BodiesInv
<1>5. ASSUME NEW now \in Nat, now * MS <= clock
      PROVE  Honest(NodeRegistration(now), clock)
  <2>1. "MemoryPressure" \in CondTypes /\ "Haunted" \in CondTypes
    BY DEF CondTypes, BuiltinTypes, CustomTypes
  <2>2. ASSUME NEW t \in CondTypes
        PROVE  /\ NodeRegistration(now)[t].tt <= NodeRegistration(now)[t].hb
               /\ NodeRegistration(now)[t].hb * MS <= clock
    <3>1. 0 * MS <= clock
      BY StatusAssumption DEF TypeOK
    <3> QED
      BY <1>5, <3>1, RegistrationBody
  <2>3. NodeRegistration(now)["Haunted"].hb = 0
    BY <1>5, RegistrationBody DEF NoCond
  <2>4. NodeRegistration(now)["MemoryPressure"].status = "False"
    BY <1>5, RegistrationBody
  <2> QED
    BY <2>2, <2>3, <2>4 DEF Honest
<1>6. CASE AnchorClock
  <2>1. PICK lag \in Lags : BeginRegister((clock - lag) \div MS)
    BY <1>6 DEF AnchorClock
  <2> DEFINE unix == (clock - lag) \div MS
  <2>2. unix \in Nat /\ unix * MS <= clock
    BY AnchorUnix
  <2>3. req'.conds = NodeRegistration(unix)
    BY <2>1 DEF BeginRegister, NoReq
  <2> HIDE DEF unix
  <2> QED
    BY <1>4, <1>5, <1>6, <2>2, <2>3 DEF AnchorClock
<1>7. CASE AnchorFails
  <2>1. req'.conds = NodeRegistration(0)
    BY <1>7 DEF AnchorFails, BeginRegister, NoReq
  <2>2. 0 * MS <= clock
    BY StatusAssumption DEF TypeOK
  <2> QED
    BY <1>4, <1>5, <1>7, <2>1, <2>2 DEF AnchorFails
<1>8. CASE RegisterNode \/ InitialStatus \/ InitialAnnotation
           \/ PatchStatus \/ PatchAnnotation
  <2>1. pc \in Calls /\ clock' = clock
    BY <1>8 DEF RegisterNode, InitialStatus, InitialAnnotation, PatchStatus,
                PatchAnnotation, Calls
  <2>2. \E outcome \in Outcomes : Answered(outcome)
    BY <1>8 DEF RegisterNode, InitialStatus, InitialAnnotation, PatchStatus,
                PatchAnnotation
  <2>3. node'.conds \in Kept /\ late'.conds \in Kept
    BY <2>1, <2>2, AnsweredType
  <2>4. req' = req \/ req' = NoReq
    BY <1>8 DEF RegisterNode, InitialStatus, InitialAnnotation, PatchStatus,
                PatchAnnotation, Sleep
  <2>5. req'.conds \in Kept
    BY <2>4, NoBodies
  <2> QED
    BY <1>3, <2>1, <2>3, <2>5
<1>9. CASE BeginInitialStatus
  <2>1. Honest(req'.conds, clock)
    BY <1>9, InitialPush, UnixNow, HonestFresh
  <2> QED
    BY <1>4, <1>9, <2>1 DEF BeginInitialStatus
<1>10. CASE Reconcile
  <2>1. UNCHANGED <<node, late, clock>> /\ pc = "sleep"
    BY <1>10 DEF Reconcile
  <2>2. CASE Sleep
    <3>1. req'.conds \in Kept
      BY <2>2, NoBodies DEF Sleep
    <3> QED
      BY <1>1, <1>4, <2>1, <3>1
  <2>3. CASE ~Sleep
    <3> DEFINE now == unix_now_secs
    <3>1. /\ Fresh(req'.conds, now)
          /\ (\A f : ~Sampled(f).time_slipped)
               => req'.conds["Haunted"].reason # "TimeSlipped"
      BY <1>10, <2>3, ReconcilePush
    <3>2. now \in Nat /\ now * MS <= clock /\ (wall.anchor = 0 => now = 0)
      BY UnixNow
    <3>3. now > 0 => req'.conds["Haunted"].reason # "TimeSlipped"
      BY <2>1, <3>1, <3>2, NoSlip
    <3> HIDE DEF now
    <3>4. Honest(req'.conds, clock)
      BY <3>1, <3>2, <3>3, HonestFresh
    <3> QED
      BY <1>4, <2>1, <3>4
  <2> QED
    BY <2>2, <2>3
<1>11. CASE LateApplied
  <2>1. late.conds \in [CondTypes -> Condition] /\ late.free \in Nat
    BY DEF TypeOK
  <2>2. node'.conds \in Kept
    BY <1>11, <2>1, ServeType DEF LateApplied
  <2>3. late'.conds \in Kept
    BY <1>11, NoBodies DEF LateApplied
  <2> QED
    BY <1>3, <1>11, <2>2, <2>3 DEF LateApplied
<1>12. CASE Reboot
  BY <1>3, <1>12, NoBodies DEF Reboot
<1>13. CASE Advance
  <2>1. /\ clock \in Nat /\ clock' = clock + 1
        /\ UNCHANGED <<node, late, req>>
    BY <1>13 DEF Advance, TypeOK
  <2>2. ASSUME NEW c \in Kept PROVE Honest(c, clock + 1)
    <3>1. \A t \in CondTypes : c[t].hb * MS <= clock + 1
      BY <1>1, <1>2, <2>1, <2>2 DEF Honest
    <3> QED
      BY <1>1, <2>2, <3>1 DEF Honest
  <2> QED
    BY <2>1, <2>2 DEF BodiesInv
<1>14. CASE \/ \E b \in Bssids : Associate(b)
            \/ LeaseRenewed \/ ObservationEnds \/ UNCHANGED vars
  BY <1>3, <1>14 DEF Associate, LeaseRenewed, ObservationEnds, vars
<1> QED
  BY <1>6, <1>7, <1>8, <1>9, <1>10, <1>11, <1>12, <1>13, <1>14 DEF Next

\* Every step keeps the two clocks of a snapshot at one instant, across the
\* awaits of a push and the pushes that fail.
LEMMA SnapStep ==
  ASSUME TypeOK, ClockInv, SlotsInv, SnapInv, [Next]_vars
  PROVE  SnapInv'
<1>n. /\ now_ms \in Nat /\ clock \in Nat /\ boot.at \in Nat
      /\ wall.anchor_at \in Nat /\ snap.prev_mono_ms \in Nat
      /\ req.now_ms \in Nat
  BY NowTypes DEF TypeOK
<1>1. ASSUME pc' \notin {"sleep", "patch_status", "patch_annotation"}
      PROVE  SnapInv'
  BY <1>1 DEF SnapInv, InLoop, Pushing
<1>2. ASSUME UNCHANGED <<clock, boot, wall>>, InLoop' => InLoop, snap' = snap,
             Pushing' => Pushing /\ req' = req
      PROVE  SnapInv'
  BY <1>2 DEF SnapInv, SameInstant, Seconds, now_ms
<1>3. CASE AnchorClock \/ AnchorFails \/ RegisterNode \/ BeginInitialStatus
           \/ InitialStatus \/ Reboot
  BY <1>1, <1>3 DEF AnchorClock, AnchorFails, BeginRegister, RegisterNode,
     BeginInitialStatus, InitialStatus, Reboot
<1>4. CASE InitialAnnotation
  <2>1. /\ UNCHANGED <<clock, boot, wall>> /\ pc' = "sleep"
        /\ snap'.prev_unix = unix_now_secs /\ snap'.prev_mono_ms = now_ms
    BY <1>4 DEF InitialAnnotation, Sleep
  <2>2. now_ms' = now_ms
    BY <2>1 DEF now_ms
  <2> QED
    BY <1>n, <2>1, <2>2, UnixNow DEF SnapInv, InLoop, Pushing, SameInstant, Seconds
<1>5. CASE Reconcile
  <2>1. UNCHANGED <<clock, boot, wall, snap>> /\ pc = "sleep"
    BY <1>5 DEF Reconcile
  <2>2. CASE Sleep
    BY <1>2, <2>1, <2>2 DEF Sleep, InLoop, Pushing
  <2>3. CASE ~Sleep
    <3>1. /\ req'.now = unix_now_secs /\ req'.now_ms = now_ms
          /\ pc' = "patch_status"
      BY <1>5, <2>3, ReconcilePush
    <3>2. now_ms' = now_ms
      BY <2>1 DEF now_ms
    <3>3. wall.anchor # 0 => SameInstant(snap.prev_unix, snap.prev_mono_ms)'
      BY <2>1, <3>2 DEF SnapInv, InLoop, SameInstant, Seconds
    <3>4. wall.anchor # 0 => SameInstant(req.now, req.now_ms)'
      BY <1>n, <2>1, <3>1, <3>2, UnixNow DEF SameInstant, Seconds
    <3> QED
      BY <2>1, <3>3, <3>4 DEF SnapInv
  <2> QED
    BY <2>2, <2>3
<1>6. CASE PatchStatus
  <2>1. /\ UNCHANGED <<clock, boot, wall, snap>> /\ pc = "patch_status"
        /\ \/ pc' = "patch_annotation" /\ req' = req
           \/ pc' = "sleep"
    BY <1>6 DEF PatchStatus, Sleep
  <2> QED
    BY <1>2, <2>1 DEF InLoop, Pushing
<1>7. CASE PatchAnnotation
  <2>1. /\ UNCHANGED <<clock, boot, wall>> /\ pc = "patch_annotation"
        /\ pc' = "sleep"
        /\ \/ snap' = snap
           \/ snap'.prev_unix = req.now /\ snap'.prev_mono_ms = req.now_ms
    BY <1>7 DEF PatchAnnotation, Sleep, NewSnap
  <2> QED
    BY <2>1 DEF SnapInv, SameInstant, Seconds, now_ms, InLoop, Pushing
<1>8. CASE Advance
  <2>1. now_ms' = now_ms + 1 /\ UNCHANGED <<wall, pc, snap, req>>
    BY <1>8, <1>n DEF Advance, now_ms
  <2> QED
    BY <1>n, <2>1 DEF SnapInv, SameInstant, Seconds, InLoop, Pushing
<1>9. CASE \/ \E b \in Bssids : Associate(b)
           \/ LeaseRenewed \/ LateApplied \/ ObservationEnds \/ UNCHANGED vars
  BY <1>2, <1>9 DEF Associate, LeaseRenewed, LateApplied, ObservationEnds, vars,
     InLoop, Pushing
<1> QED
  BY <1>3, <1>4, <1>5, <1>6, <1>7, <1>8, <1>9 DEF Next

\* Every step keeps the associations since the last sample ahead of both the
\* snapshot and the value that is to become it.
LEMMA AssocStep ==
  ASSUME TypeOK, SlotsInv, AssocInv, [Next]_vars
  PROVE  AssocInv'
<1>n. /\ wifi.total \in Nat /\ unsampled \in Nat
      /\ snap.prev_assoc_total \in Nat /\ req.assoc_total \in Nat
  BY DEF TypeOK
<1>1. ASSUME pc' \notin {"sleep", "patch_status", "patch_annotation"}
      PROVE  AssocInv'
  BY <1>1 DEF AssocInv, InLoop, Pushing
<1>2. ASSUME UNCHANGED <<wifi, unsampled, snap>>, InLoop' => InLoop,
             Pushing' => Pushing /\ req' = req
      PROVE  AssocInv'
  BY <1>2 DEF AssocInv
<1>3. CASE AnchorClock \/ AnchorFails \/ RegisterNode \/ BeginInitialStatus
           \/ InitialStatus \/ Reboot
  BY <1>1, <1>3 DEF AnchorClock, AnchorFails, BeginRegister, RegisterNode,
     BeginInitialStatus, InitialStatus, Reboot
<1>4. CASE InitialAnnotation
  BY <1>4, <1>n DEF InitialAnnotation, Sleep, AssocInv, InLoop, Pushing
<1>5. CASE Reconcile
  <2>1. UNCHANGED <<wifi, snap>> /\ unsampled' = 0 /\ pc = "sleep"
    BY <1>5 DEF Reconcile
  <2>2. wifi'.total - snap'.prev_assoc_total >= unsampled'
    BY <1>n, <2>1 DEF AssocInv, InLoop
  <2>3. CASE Sleep
    BY <2>2, <2>3 DEF Sleep, AssocInv, Pushing
  <2>4. CASE ~Sleep
    <3>1. req'.assoc_total = wifi.total
      BY <1>5, <2>4, ReconcilePush
    <3> QED
      BY <1>n, <2>1, <2>2, <3>1 DEF AssocInv
  <2> QED
    BY <2>3, <2>4
<1>6. CASE PatchStatus
  <2>1. /\ UNCHANGED <<wifi, unsampled, snap>> /\ pc = "patch_status"
        /\ \/ pc' = "patch_annotation" /\ req' = req
           \/ pc' = "sleep"
    BY <1>6 DEF PatchStatus, Sleep
  <2> QED
    BY <1>2, <2>1 DEF InLoop, Pushing
<1>7. CASE PatchAnnotation
  <2>1. /\ UNCHANGED <<wifi, unsampled>> /\ pc = "patch_annotation"
        /\ pc' = "sleep"
        /\ snap' = snap \/ snap'.prev_assoc_total = req.assoc_total
    BY <1>7 DEF PatchAnnotation, Sleep, NewSnap
  <2> QED
    BY <2>1 DEF AssocInv, InLoop, Pushing
<1>8. CASE \E b \in Bssids : Associate(b)
  <2>1. /\ wifi'.total = wifi.total + 1 /\ unsampled' = unsampled + 1
        /\ UNCHANGED <<pc, snap, req>>
    BY <1>8 DEF Associate
  <2> QED
    BY <1>n, <2>1 DEF AssocInv, InLoop, Pushing
<1>9. CASE \/ LeaseRenewed \/ LateApplied \/ Advance
           \/ ObservationEnds \/ UNCHANGED vars
  BY <1>2, <1>9 DEF LeaseRenewed, LateApplied, Advance, ObservationEnds, vars,
     InLoop, Pushing
<1> QED
  BY <1>3, <1>4, <1>5, <1>6, <1>7, <1>8, <1>9 DEF Next

\* A PATCH the board reads a 200 for has reached the stored Node.
LEMMA HeardServed ==
  ASSUME TypeOK, NEW outcome, Answered(outcome), Heard200(outcome)
  PROVE  /\ pc \in {"init_status", "patch_status"} =>
              node'.conds = req.conds /\ node'.heap = node.heap
         /\ pc \in {"init_annotation", "patch_annotation"} =>
              node'.conds = node.conds /\ node'.heap = req.free
<1>1. outcome = "ok" /\ node # NoNode /\ node' = Serve(pc, req.conds, req.free)
  BY DEF Answered, Heard200
<1>2. node = [conds |-> node.conds, heap |-> node.heap]
  BY DEF TypeOK
<1>3. ASSUME pc \in {"init_status", "patch_status"}
      PROVE  node' = [node EXCEPT !.conds = req.conds]
  BY <1>1, <1>3 DEF Serve
<1>4. ASSUME pc \in {"init_annotation", "patch_annotation"}
      PROVE  node' = [node EXCEPT !.heap = req.free]
  BY <1>1, <1>4 DEF Serve
<1> QED
  BY <1>2, <1>3, <1>4

\* A Node that carries the slots exists: a slot is never "Absent".
LEMMA CarriesExists ==
  ASSUME TypeOK, Carries(node.conds)
  PROVE  node # NoNode
<1>1. "Ready" \in BuiltinTypes /\ "Ready" \in CondTypes
  BY DEF BuiltinTypes, CondTypes
<1>2. node.conds["Ready"].status = tracker["Ready"].status
  BY <1>1 DEF Carries, Slot
<1>3. tracker["Ready"].status \in CondStatus
  BY <1>1 DEF TypeOK, CondState
<1>4. NoNode.conds["Ready"].status = "Absent"
  BY <1>1, NoBodies DEF NoCond
<1> QED
  BY <1>2, <1>3, <1>4 DEF CondStatus

\* Every step keeps what a push carries, and what it has delivered, in
\* agreement with the slots.
LEMMA DeliveryStep ==
  ASSUME TypeOK, SlotsInv, DeliveryInv, [Next]_vars
  PROVE  DeliveryInv'
<1>1. ASSUME pc' \in {"anchor", "register", "create_lease"}
      PROVE  DeliveryInv'
  BY <1>1 DEF DeliveryInv
<1>2. ASSUME UNCHANGED <<pc, req, tracker, custom, node>>,
             UNCHANGED owed \/ owed'
      PROVE  DeliveryInv'
  BY <1>2 DEF DeliveryInv, Carries, UnderPressure, Slot
<1>3. CASE AnchorClock \/ AnchorFails \/ RegisterNode \/ Reboot
  BY <1>1, <1>3 DEF AnchorClock, AnchorFails, BeginRegister, RegisterNode, Reboot
<1>4. CASE BeginInitialStatus
  <2>1. /\ pc' = "init_status" /\ Carries(req.conds)'
        /\ req'.free < MEMORY_PRESSURE_FREE_BYTES <=> UnderPressure'
    BY <1>4, InitialPush DEF BeginInitialStatus, UnderPressure
  <2> QED
    BY <2>1 DEF DeliveryInv
<1>5. CASE InitialStatus
  <2>1. PICK outcome \in Outcomes :
          Answered(outcome) /\ owed' = ~Heard200(outcome)
    BY <1>5 DEF InitialStatus
  <2>2. /\ pc = "init_status" /\ pc' = "init_annotation"
        /\ UNCHANGED <<req, tracker, custom>>
    BY <1>5 DEF InitialStatus
  <2>3. ~owed' => Heard200(outcome)
    BY <2>1
  <2>4. /\ Carries(req.conds)'
        /\ req'.free < MEMORY_PRESSURE_FREE_BYTES <=> UnderPressure'
    BY <2>2 DEF DeliveryInv, Carries, UnderPressure, Slot
  <2>5. ~owed' => Carries(node.conds)'
    BY <2>1, <2>2, <2>3, <2>4, HeardServed DEF Carries, Slot
  <2> QED
    BY <2>2, <2>4, <2>5 DEF DeliveryInv
<1>6. CASE InitialAnnotation \/ PatchAnnotation
  <2>1. PICK outcome \in Outcomes :
          Answered(outcome) /\ owed' = (owed \/ ~Heard200(outcome))
    BY <1>6 DEF InitialAnnotation, PatchAnnotation
  <2>2. /\ pc \in {"init_annotation", "patch_annotation"} /\ pc' = "sleep"
        /\ UNCHANGED <<tracker, custom>>
    BY <1>6 DEF InitialAnnotation, PatchAnnotation, Sleep
  <2>3. ~owed' => Heard200(outcome) /\ ~owed
    BY <2>1
  <2>4. ~owed' => node'.conds = node.conds /\ node'.heap = req.free
    BY <2>1, <2>2, <2>3, HeardServed
  <2>5. ~owed' => Carries(node.conds)'
    BY <2>2, <2>3, <2>4 DEF DeliveryInv, Carries, Slot
  <2>6. ~owed' => (node'.heap < MEMORY_PRESSURE_FREE_BYTES <=> UnderPressure')
    BY <2>2, <2>3, <2>4 DEF DeliveryInv, UnderPressure
  <2> QED
    BY <2>2, <2>5, <2>6 DEF DeliveryInv
<1>7. CASE Reconcile
  <2>1. UNCHANGED <<node, owed>> /\ pc = "sleep"
    BY <1>7 DEF Reconcile
  <2>2. CASE Sleep /\ tracker' = tracker /\ custom' = custom
    <3>1. pc' = "sleep"
      BY <2>2 DEF Sleep
    <3> QED
      BY <2>1, <2>2, <3>1 DEF DeliveryInv, Carries, UnderPressure, Slot
  <2>3. CASE ~(Sleep /\ tracker' = tracker /\ custom' = custom)
    <3>1. /\ pc' = "patch_status" /\ Carries(req.conds)'
          /\ req'.free < MEMORY_PRESSURE_FREE_BYTES <=> UnderPressure'
      BY <1>7, <2>3, ReconcilePush DEF UnderPressure
    <3> QED
      BY <3>1 DEF DeliveryInv
  <2> QED
    BY <2>2, <2>3
<1>8. CASE PatchStatus
  <2>1. PICK outcome \in Outcomes :
          /\ Answered(outcome)
          /\ IF Heard200(outcome)
             THEN pc' = "patch_annotation" /\ UNCHANGED <<req, wake>>
             ELSE Sleep
          /\ owed' = ~Heard200(outcome)
    BY <1>8 DEF PatchStatus
  <2>2. pc = "patch_status" /\ UNCHANGED <<tracker, custom>>
    BY <1>8 DEF PatchStatus
  <2>3. CASE Heard200(outcome)
    <3>1. pc' = "patch_annotation" /\ req' = req
      BY <2>1, <2>3
    <3>2. /\ Carries(req.conds)'
          /\ req'.free < MEMORY_PRESSURE_FREE_BYTES <=> UnderPressure'
      BY <2>2, <3>1 DEF DeliveryInv, Carries, UnderPressure, Slot
    <3>3. Carries(node.conds)'
      BY <2>1, <2>2, <2>3, <3>1, <3>2, HeardServed DEF Carries, Slot
    <3> QED
      BY <3>1, <3>2, <3>3 DEF DeliveryInv
  <2>4. CASE ~Heard200(outcome)
    <3>1. pc' = "sleep"
      BY <2>1, <2>4 DEF Sleep
    <3>2. owed'
      BY <2>1, <2>4
    <3> QED
      BY <3>1, <3>2 DEF DeliveryInv
  <2> QED
    BY <2>3, <2>4
<1>9. CASE LateApplied
  <2>1. UNCHANGED <<pc, req, tracker, custom>> /\ owed'
    BY <1>9 DEF LateApplied
  <2> QED
    BY <2>1 DEF DeliveryInv, Carries, UnderPressure, Slot
<1>10. CASE \/ \E b \in Bssids : Associate(b)
            \/ LeaseRenewed \/ Advance \/ ObservationEnds \/ UNCHANGED vars
  BY <1>2, <1>10 DEF Associate, LeaseRenewed, Advance, ObservationEnds, vars
<1> QED
  BY <1>3, <1>4, <1>5, <1>6, <1>7, <1>8, <1>9, <1>10 DEF Next

-----------------------------------------------------------------------------
(* The theorems. *)

\* A board just powered on satisfies the invariant.
LEMMA InitInv == Init => IInv
<1> SUFFICES ASSUME Init PROVE IInv
  OBVIOUS
<1> USE DEF Init
<1>1. TypeOK
  <2>1. /\ wall \in [anchor : Nat, anchor_at : Nat]
        /\ snap \in [last_status_update : Nat, prev_assoc_total : Nat,
                     prev_bssid : Nat, prev_unix : Nat, prev_mono_ms : Nat]
    BY DEF FreshWall, FreshSnap
  <2>2. wifi \in [bssid : Nat, total : Nat]
    <3>1. \A n \in 1 .. MaxAssociations : n \in Nat
      BY StatusAssumption
    <3>2. \A b \in Bssids : b \in Nat
      BY StatusAssumption
    <3> QED
      BY <3>1, <3>2 DEF FreshWifi
  <2> QED
    BY <2>1, <2>2, StatusAssumption, FreshTrackers, NoBodies DEF TypeOK, Calls
<1>2. ClockInv
  BY StatusAssumption DEF ClockInv, FreshWall
<1>3. SlotsInv
  <2>1. /\ \A t \in BuiltinTypes : tracker[t].transitioned_at = 0
        /\ \A t \in CustomTypes : custom[t].transitioned_at = 0
    BY FreshTrackers
  <2> QED
    BY <1>1, <2>1, NowTypes DEF SlotsInv
<1>4. BodiesInv
  BY <1>1, HonestNoNode, NoBodies DEF BodiesInv, TypeOK
<1>5. SnapInv /\ AssocInv /\ DeliveryInv
  BY DEF SnapInv, AssocInv, DeliveryInv, InLoop, Pushing
<1> QED
  BY <1>1, <1>2, <1>3, <1>4, <1>5 DEF IInv

\* Every step of the board, the server and the world keeps the invariant.
LEMMA NextInv == IInv /\ [Next]_vars => IInv'
  BY TypeStep, ClockStep, SlotsStep, BodiesStep, SnapStep, AssocStep,
     DeliveryStep DEF IInv

\* The inductive invariant holds throughout.
THEOREM Invariance == Spec => []IInv
  BY InitInv, NextInv, PTL DEF Spec

\* Every variable keeps its type, whatever boots, outcomes and samples occur.
THEOREM StatusTypeCorrect == Spec => []TypeOK
<1>1. IInv => TypeOK
  BY DEF IInv
<1> QED
  BY <1>1, Invariance, PTL

\* No stored condition claims to have flipped after its own heartbeat, however
\* reboots, lost answers and late requests interleave.
THEOREM TransitionsPrecedeHeartbeats == Spec => []TransitionNotAfterHeartbeat
<1>1. IInv => TransitionNotAfterHeartbeat
  BY DEF IInv, BodiesInv, Honest, TransitionNotAfterHeartbeat
<1> QED
  BY <1>1, Invariance, PTL

\* No stored heartbeat lies in the future: neither the age of the Date header
\* nor the cut to seconds lets unix_now_secs run ahead.
THEOREM NoStampFromTheFuture == Spec => []StampsNotInFuture
<1>1. IInv => StampsNotInFuture
  BY DEF IInv, BodiesInv, Honest, StampsNotInFuture
<1> QED
  BY <1>1, Invariance, PTL

\* A stored Node under MemoryPressure is Peckish and has no good Vibes, for
\* every heap size and threshold of at most 30 % of it.
THEOREM PressureFelt == Spec => []PressureIsFelt
<1>1. IInv => PressureIsFelt
  BY DEF IInv, BodiesInv, Honest, PressureIsFelt
<1> QED
  BY <1>1, Invariance, PTL

\* With an anchored clock Haunted never reports TimeSlipped, for every number
\* of ticks in a second and every positive HAUNTED_SLIP_SECS.
THEOREM NeverSlips == Spec => []AnchoredNeverSlips
<1>1. IInv => AnchoredNeverSlips
  BY DEF IInv, BodiesInv, Honest, AnchoredNeverSlips
<1> QED
  BY <1>1, Invariance, PTL

\* No association between two samples is lost from the count of the next one,
\* though the snapshot is replaced after the awaits of a push.
THEOREM AssociationsCounted == Spec => []AssociationsStayCounted
<1>1. IInv => AssociationsStayCounted
  BY DEF IInv, AssocInv, InLoop, AssociationsStayCounted
<1> QED
  BY <1>1, Invariance, PTL

\* When the loop sleeps and its last push was acknowledged, the stored Node
\* agrees with the slots and the annotation with MemoryPressure.
THEOREM Delivered == Spec => []StatusDelivered
<1>1. IInv => StatusDelivered
  <2> SUFFICES ASSUME IInv, pc = "sleep", ~owed
               PROVE  /\ node # NoNode
                      /\ Carries(node.conds)
                      /\ node.heap < MEMORY_PRESSURE_FREE_BYTES <=> UnderPressure
    BY DEF StatusDelivered, Carries, UnderPressure
  <2>1. Carries(node.conds)
    BY DEF IInv, DeliveryInv
  <2>2. node.heap < MEMORY_PRESSURE_FREE_BYTES <=> UnderPressure
    BY DEF IInv, DeliveryInv
  <2>3. node # NoNode
    BY <2>1, CarriesExists DEF IInv
  <2> QED
    BY <2>1, <2>2, <2>3
<1> QED
  BY <1>1, Invariance, PTL

=============================================================================
