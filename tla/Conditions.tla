------------------------------ MODULE Conditions ------------------------------
(***************************************************************************)
(* The pure part of a Node's status: the condition slots that remember     *)
(* when they last flipped, and the evaluators that derive the five custom  *)
(* conditions from one sample of the board's state (k8s/conditions.rs).    *)
(*                                                                         *)
(* A status is one of the strings Kubernetes uses; the bool of a CondState *)
(* is written as "True" or "False" the way NodeStatusPatch serialises it.  *)
(* The message strings are wording and are left out, the reasons are kept: *)
(* they tell apart two evaluations with the same status.                   *)
(***************************************************************************)
EXTENDS Integers

CONSTANTS
  MEMORY_PRESSURE_FREE_BYTES,  \* 20 * 1024 in config.rs
  HEAP_TOTAL_BYTES,            \* (64 + 36) * 1024
  VIBES_CURSED_RECONNECTS,     \* 3
  CAFFEINATED_FRESH_SECS,      \* 600
  QUESTIONING_RENEWALS,        \* 100,    the literals of eval_existential
  ACCEPTING_RENEWALS,          \* 1 000
  TRANSCENDENT_RENEWALS        \* 10 000

\* What the proofs need of the tunables.  The last conjunct ties the
\* MemoryPressure threshold (20 %) to the 30 % below which Vibes is "Off".
ASSUME TunablesAssumption ==
  /\ MEMORY_PRESSURE_FREE_BYTES \in Nat
  /\ HEAP_TOTAL_BYTES \in Nat \ {0}
  /\ VIBES_CURSED_RECONNECTS \in Nat
  /\ CAFFEINATED_FRESH_SECS \in Nat
  /\ QUESTIONING_RENEWALS \in Nat
  /\ ACCEPTING_RENEWALS \in Nat
  /\ TRANSCENDENT_RENEWALS \in Nat
  /\ 100 * MEMORY_PRESSURE_FREE_BYTES <= 30 * HEAP_TOTAL_BYTES

CondStatus == {"True", "False", "Unknown"}

BuiltinTypes == {"Ready", "MemoryPressure", "DiskPressure", "PIDPressure"}

CustomTypes == {"Vibes", "Caffeinated", "Existential", "Peckish", "Haunted"}

CondTypes == BuiltinTypes \cup CustomTypes

-----------------------------------------------------------------------------
(* One slot of a tracker: its status and the time of its last flip. *)

CondState == [status : CondStatus, transitioned_at : Nat]

Bool(b) == IF b THEN "True" ELSE "False"

\* CondState::new and CustomCondState::new
NewCond(initial, now) == [status |-> initial, transitioned_at |-> now]

Flipped(slot, current) == current # slot.status

\* CondState::observe and CustomCondState::observe
observe(slot, current, now) ==
  IF Flipped(slot, current)
  THEN [status |-> current, transitioned_at |-> now]
  ELSE slot

NodeCondTracker(now) ==
  [t \in BuiltinTypes |-> NewCond(Bool(t = "Ready"), now)]

CustomCondTracker(now) ==
  [t \in CustomTypes |-> NewCond("Unknown", now)]

-----------------------------------------------------------------------------
(* The evaluators: pure functions of one sample of the board.  The order of *)
(* their branches matters.                                                  *)

CustomCondInputs ==
  [heap_free_bytes : Nat, uptime_secs : Nat, wifi_reconnects_5min : Nat,
   renewal_count : Nat, bssid_changed : BOOLEAN, time_slipped : BOOLEAN]

CustomReasons ==
  {"Cursed", "Off", "Immaculate", "Cromulent", "Dissociating",
   "FreshlyBrewed", "Decaf",
   "Transcendent", "Accepting", "Questioning", "Innocent",
   "Hungry", "CouldGoForASnack", "Sated",
   "NewGhost", "TimeSlipped", "Calm"}

CustomCond(status, reason) == [status |-> status, reason |-> reason]

heap_pct_free(i) ==
  LET free == IF i.heap_free_bytes <= HEAP_TOTAL_BYTES
              THEN i.heap_free_bytes ELSE HEAP_TOTAL_BYTES
  IN  (free * 100) \div HEAP_TOTAL_BYTES

eval_vibes(i) ==
  LET pct  == heap_pct_free(i)
      calm == i.wifi_reconnects_5min = 0
  IN  IF i.wifi_reconnects_5min >= VIBES_CURSED_RECONNECTS
      THEN CustomCond("False", "Cursed")
      ELSE IF pct < 30 THEN CustomCond("False", "Off")
      ELSE IF pct > 70 /\ calm /\ i.uptime_secs < CAFFEINATED_FRESH_SECS
      THEN CustomCond("True", "Immaculate")
      ELSE IF pct > 50 /\ calm THEN CustomCond("True", "Cromulent")
      ELSE CustomCond("Unknown", "Dissociating")

eval_caffeinated(i) ==
  IF i.uptime_secs < CAFFEINATED_FRESH_SECS
  THEN CustomCond("True", "FreshlyBrewed")
  ELSE CustomCond("False", "Decaf")

eval_existential(i) ==
  IF i.renewal_count >= TRANSCENDENT_RENEWALS
  THEN CustomCond("True", "Transcendent")
  ELSE IF i.renewal_count >= ACCEPTING_RENEWALS
  THEN CustomCond("True", "Accepting")
  ELSE IF i.renewal_count >= QUESTIONING_RENEWALS
  THEN CustomCond("True", "Questioning")
  ELSE CustomCond("False", "Innocent")

eval_peckish(i) ==
  IF i.heap_free_bytes < MEMORY_PRESSURE_FREE_BYTES
  THEN CustomCond("True", "Hungry")
  ELSE IF heap_pct_free(i) > 60 THEN CustomCond("False", "Sated")
  ELSE IF heap_pct_free(i) > 40 THEN CustomCond("True", "CouldGoForASnack")
  ELSE CustomCond("True", "Hungry")

eval_haunted(i) ==
  IF i.bssid_changed THEN CustomCond("True", "NewGhost")
  ELSE IF i.time_slipped THEN CustomCond("True", "TimeSlipped")
  ELSE CustomCond("False", "Calm")

\* The five evaluations of one sample, by condition type.
Evaluate(i) ==
  [t \in CustomTypes |->
     CASE t = "Vibes"       -> eval_vibes(i)
       [] t = "Caffeinated" -> eval_caffeinated(i)
       [] t = "Existential" -> eval_existential(i)
       [] t = "Peckish"     -> eval_peckish(i)
       [] t = "Haunted"     -> eval_haunted(i)]
=============================================================================
