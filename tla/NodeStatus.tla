------------------------------ MODULE NodeStatus ------------------------------
(***************************************************************************)
(* The status path of one board, from power-on to the Node object the API  *)
(* server stores: anchoring the wall clock, registering the Node, the      *)
(* initial status push of bootstrap (kubelet.rs), and the loop of the      *)
(* StatusReconciler that samples the board, updates the condition slots,   *)
(* decides whether to push, and pushes in two calls (reconcilers/status.rs,*)
(* k8s/api.rs, wallclock.rs).  Beside it run the Wi-Fi connection task and *)
(* the lease task, which change the atomics the loop samples.              *)
(*                                                                         *)
(* embassy runs the tasks on one cooperative executor, so what lies        *)
(* between two awaits is one step here.  Everything else - time, Wi-Fi,    *)
(* lease renewals, a late request reaching the server, a reboot - may      *)
(* happen between any two steps.                                           *)
(*                                                                         *)
(* Time is the true time, counted in ticks; MS of them make a second, the  *)
(* way 1000 milliseconds do for Instant::as_millis.                        *)
(***************************************************************************)
EXTENDS Conditions

CONSTANTS
  MS,                         \* ticks in a second (1000)
  EPOCH,                      \* the true time at the first power-on, in ticks
  LEASE_RENEW_PERIOD_SECS,    \* 10, the interval of both reconcilers
  STATUS_UPDATE_PERIOD_SECS,  \* 300
  HAUNTED_SLIP_SECS,          \* 5
  HeapLevels,                 \* values esp_alloc::HEAP.free() may return
  Bssids,                     \* access points, 0 excluded
  Lags,                       \* how old, in ticks, a Date header may be on arrival
  Outcomes,                   \* how an API call may end, see below
  MaxClock, MaxBoots, MaxAssociations, MaxRenewals   \* bounds of the exploration

ASSUME StatusAssumption ==
  /\ MS \in Nat \ {0}
  /\ EPOCH \in Nat
  /\ LEASE_RENEW_PERIOD_SECS \in Nat
  /\ STATUS_UPDATE_PERIOD_SECS \in Nat
  /\ HAUNTED_SLIP_SECS \in Nat \ {0}
  /\ HeapLevels \subseteq Nat
  /\ Bssids \subseteq Nat \ {0}
  /\ Lags \subseteq Nat
  /\ \A lag \in Lags : EPOCH - lag >= MS
  /\ Outcomes \subseteq {"ok", "refused", "unheard", "late"}
  /\ MaxClock \in Nat /\ MaxBoots \in Nat
  /\ MaxAssociations \in Nat /\ MaxRenewals \in Nat

VARIABLES
  clock,     \* true time, in ticks
  boot,      \* [at: true time of the last power-on, count: reboots so far]
  wall,      \* WALL_CLOCK_ANCHOR_UNIX and WALL_CLOCK_ANCHOR_BOOT_MS
  pc,        \* where the board's control is: the call in flight, or "sleep"
  wake,      \* when the Timer of the status loop fires, in ticks since boot
  req,       \* locals that live across the awaits of the call in flight
  tracker,   \* NodeCondTracker, the four real conditions
  custom,    \* CustomCondTracker, the five custom ones
  snap,      \* last_status_update and the snapshots of LoopState
  wifi,      \* WIFI_BSSID and WIFI_ASSOCIATIONS_TOTAL
  renewals,  \* RENEWAL_COUNT
  node,      \* the Node object in the API server, or NoNode
  late,      \* a request the board gave up on that the server may still apply
  owed,      \* history: the last push was not wholly acknowledged, or undone
  unsampled  \* history: associations since the loop last sampled Wi-Fi

vars == <<clock, boot, wall, pc, wake, req, tracker, custom, snap, wifi,
          renewals, node, late, owed, unsampled>>

NoHeap == -1
NoCond == [status |-> "Absent", reason |-> "Absent", hb |-> 0, tt |-> 0]
NoNode == [conds |-> [t \in CondTypes |-> NoCond], heap |-> NoHeap]
NoReq  == [now |-> 0, now_ms |-> 0, free |-> 0, conds |-> NoNode.conds,
           assoc_total |-> 0, bssid |-> 0]
NoLate == [call |-> "none", conds |-> NoNode.conds, free |-> 0]

Calls == {"anchor", "register", "create_lease", "init_status",
          "init_annotation", "patch_status", "patch_annotation"}

-----------------------------------------------------------------------------
(* The clocks of the board. *)

\* Instant::now().as_millis() and ::as_secs()
now_ms == clock - boot.at
uptime_secs == now_ms \div MS

\* unix_now_secs
unix_now_secs ==
  IF wall.anchor = 0 THEN 0
  ELSE wall.anchor + (IF now_ms >= wall.anchor_at
                      THEN now_ms - wall.anchor_at ELSE 0) \div MS

\* Slip: the instant of the anchor is not stored.
set_wall_clock_without_instant(unix_secs) ==
  [anchor |-> unix_secs, anchor_at |-> 0]

\* set_wall_clock, given the seconds of the Date header
set_wall_clock(unix_secs) == [anchor |-> unix_secs, anchor_at |-> now_ms]

-----------------------------------------------------------------------------
(* The bodies the board sends. *)

BuiltinReasons ==
  {"KubeletReady", "KubeletHasNoDiskPressure", "KubeletHasSufficientPID",
   "KubeletHasInsufficientMemory", "KubeletHasSufficientMemory"}

BuiltinReason(t, status) ==
  CASE t = "Ready"        -> "KubeletReady"
    [] t = "DiskPressure" -> "KubeletHasNoDiskPressure"
    [] t = "PIDPressure"  -> "KubeletHasSufficientPID"
    [] t = "MemoryPressure" ->
         IF status = "True" THEN "KubeletHasInsufficientMemory"
         ELSE "KubeletHasSufficientMemory"

\* NodeRegistration: the real conditions, freshly stamped, no custom ones.
NodeRegistration(now) ==
  [t \in CondTypes |->
     IF t \in BuiltinTypes
     THEN LET status == Bool(t = "Ready")
          IN  [status |-> status, reason |-> BuiltinReason(t, status),
               hb |-> now, tt |-> now]
     ELSE NoCond]

\* Slip: the heartbeat of the previous push is sent.
NodeStatusPatch_old_heartbeat(builtin, slots, fresh, now) ==
  [t \in CondTypes |->
     IF t \in BuiltinTypes
     THEN [status |-> builtin[t].status,
           reason |-> BuiltinReason(t, builtin[t].status),
           hb |-> snap.last_status_update, tt |-> builtin[t].transitioned_at]
     ELSE [status |-> fresh[t].status, reason |-> fresh[t].reason,
           hb |-> snap.last_status_update, tt |-> slots[t].transitioned_at]]

\* NodeStatusPatch: the slots of the trackers, and for the custom conditions
\* the fresh evaluation with the slot's transition time (CustomCondEntry).
NodeStatusPatch(builtin, slots, fresh, now) ==
  [t \in CondTypes |->
     IF t \in BuiltinTypes
     THEN [status |-> builtin[t].status,
           reason |-> BuiltinReason(t, builtin[t].status),
           hb |-> now, tt |-> builtin[t].transitioned_at]
     ELSE [status |-> fresh[t].status, reason |-> fresh[t].reason,
           hb |-> now, tt |-> slots[t].transitioned_at]]

-----------------------------------------------------------------------------
(* The API server (external): a POST of an existing Node is a 409 and       *)
(* changes nothing, a PATCH of a missing one is a 404.  The strategic merge *)
(* is keyed by the condition type, and a status PATCH carries every type.   *)

Serve(call, conds, free) ==
  CASE call = "register" /\ node = NoNode ->
         [conds |-> conds, heap |-> NoHeap]
    [] call \in {"init_status", "patch_status"} /\ node # NoNode ->
         [node EXCEPT !.conds = conds]
    [] call \in {"init_annotation", "patch_annotation"} /\ node # NoNode ->
         [node EXCEPT !.heap = free]
    [] OTHER -> node

\* How the call in flight ends.
\*   "ok"       the server applies it and the board reads the answer;
\*   "refused"  it never reaches the server, or is answered with an error;
\*   "unheard"  the server applies it, the answer is lost or Truncated;
\*   "late"     the board gives up on it, the server may apply it later.
\* A PATCH of a Node that does not exist is answered 404 whatever happens.
Answered(outcome) ==
  /\ outcome \in Outcomes
  /\ outcome = "late" => late = NoLate
  /\ node' = IF outcome \in {"ok", "unheard"}
             THEN Serve(pc, req.conds, req.free) ELSE node
  /\ late' = IF outcome = "late"
             THEN [call |-> pc, conds |-> req.conds, free |-> req.free]
             ELSE late

Heard200(outcome) == outcome = "ok" /\ node # NoNode

-----------------------------------------------------------------------------
(* Power-on: bootstrap, in the order kubelet.rs awaits its calls. *)

\* The statics and the locals of a board that has just been powered on.
FreshWall == [anchor |-> 0, anchor_at |-> 0]
FreshSnap == [last_status_update |-> 0, prev_assoc_total |-> 0,
              prev_bssid |-> 0, prev_unix |-> 0, prev_mono_ms |-> 0]
\* Bootstrap starts once DHCP is up (Boot!WifiHandedOver): over Ethernet the
\* Wi-Fi statics are still 0, over Wi-Fi there have been associations.
FreshWifi == {[bssid |-> 0, total |-> 0]}
             \cup [bssid : Bssids, total : 1 .. MaxAssociations]

Init ==
  /\ clock = EPOCH
  /\ boot = [at |-> EPOCH, count |-> 0]
  /\ wall = FreshWall
  /\ pc = "anchor"
  /\ wake = 0
  /\ req = NoReq
  /\ tracker = NodeCondTracker(0)
  /\ custom = CustomCondTracker(0)
  /\ snap = FreshSnap
  /\ wifi \in FreshWifi
  /\ renewals = 0
  /\ node = NoNode
  /\ late = NoLate
  /\ owed = TRUE
  /\ unsampled = 0

\* register_node builds its body as soon as anchor_clock returns.
BeginRegister(now) ==
  /\ pc' = "register"
  /\ req' = [NoReq EXCEPT !.now = now, !.conds = NodeRegistration(now)]

\* anchor_clock, the /version answer carries a Date that parses.  The header
\* has whole seconds and is some ticks old when it arrives.
AnchorClock ==
  /\ pc = "anchor"
  /\ \E lag \in Lags :
       LET unix == (clock - lag) \div MS
       IN  /\ wall' = set_wall_clock(unix)
           /\ BeginRegister(unix)
  /\ UNCHANGED <<clock, boot, wake, tracker, custom, snap, wifi, renewals,
                 node, late, owed, unsampled>>

\* anchor_clock, the call fails or the answer has no usable Date: a warning,
\* and bootstrap carries on with a clock that reads 0.
AnchorFails ==
  /\ pc = "anchor"
  /\ BeginRegister(0)
  /\ UNCHANGED <<clock, boot, wall, wake, tracker, custom, snap, wifi,
                 renewals, node, late, owed, unsampled>>

\* register_node returns whatever the answer was, and create_lease starts.
RegisterNode ==
  /\ pc = "register"
  /\ \E outcome \in Outcomes : Answered(outcome)
  /\ pc' = "create_lease"
  /\ req' = NoReq
  /\ UNCHANGED <<clock, boot, wall, wake, tracker, custom, snap, wifi,
                 renewals, owed, unsampled>>

-----------------------------------------------------------------------------
(* One sample of the board, and what it makes of the condition slots. *)

\* Slip: the pressure is raised and never cleared.
Observed_latched(builtin, free, now) ==
  [builtin EXCEPT !["MemoryPressure"] =
     IF free < MEMORY_PRESSURE_FREE_BYTES THEN observe(@, "True", now) ELSE @]

Observed(builtin, free, now) ==
  [builtin EXCEPT !["MemoryPressure"] =
     observe(@, Bool(free < MEMORY_PRESSURE_FREE_BYTES), now)]

ObservedCustom(slots, fresh, now) ==
  [t \in CustomTypes |-> observe(slots[t], fresh[t].status, now)]

\* push_initial_status up to its first await, once create_lease has returned:
\* new trackers, one sample with neutral inputs, the status body.
BeginInitialStatus ==
  /\ pc = "create_lease"
  /\ \E free \in HeapLevels :
       LET now   == unix_now_secs
           fresh == Evaluate([heap_free_bytes |-> free,
                              uptime_secs |-> uptime_secs,
                              wifi_reconnects_5min |-> 0, renewal_count |-> 0,
                              bssid_changed |-> FALSE, time_slipped |-> FALSE])
           builtin == Observed(NodeCondTracker(now), free, now)
           slots == ObservedCustom(CustomCondTracker(now), fresh, now)
       IN  /\ tracker' = builtin
           /\ custom' = slots
           /\ req' = [NoReq EXCEPT !.now = now, !.free = free,
                        !.conds = NodeStatusPatch(builtin, slots, fresh, now)]
  /\ pc' = "init_status"
  /\ UNCHANGED <<clock, boot, wall, wake, snap, wifi, renewals, node, late,
                 owed, unsampled>>

\* The initial status PATCH ends; the annotation is sent in any case.
InitialStatus ==
  /\ pc = "init_status"
  /\ \E outcome \in Outcomes :
       /\ Answered(outcome)
       /\ owed' = ~Heard200(outcome)
  /\ pc' = "init_annotation"
  /\ UNCHANGED <<clock, boot, wall, wake, req, tracker, custom, snap, wifi,
                 renewals, unsampled>>

\* Slip: the operands of the deadline swapped.
Sleep_swapped ==
  /\ pc' = "sleep"
  /\ req' = NoReq
  /\ wake' = LEASE_RENEW_PERIOD_SECS * MS - now_ms

\* Timer::after(interval) at the top of Reconciler::run
Sleep ==
  /\ pc' = "sleep"
  /\ req' = NoReq
  /\ wake' = now_ms + LEASE_RENEW_PERIOD_SECS * MS

\* The initial annotation PATCH ends, bootstrap returns the trackers, main
\* spawns the reconcilers: StatusReconciler::new takes its first snapshots.
InitialAnnotation ==
  /\ pc = "init_annotation"
  /\ \E outcome \in Outcomes :
       /\ Answered(outcome)
       /\ owed' = (owed \/ ~Heard200(outcome))
  /\ Sleep
  /\ snap' = [last_status_update |-> unix_now_secs,
              prev_assoc_total |-> wifi.total, prev_bssid |-> wifi.bssid,
              prev_unix |-> unix_now_secs, prev_mono_ms |-> now_ms]
  /\ unsampled' = 0
  /\ UNCHANGED <<clock, boot, wall, tracker, custom, wifi, renewals>>

-----------------------------------------------------------------------------
(* The status loop. *)

Abs(n) == IF n < 0 THEN -n ELSE n

\* The inputs reconcile derives from the atomics and its snapshots.
Sampled(free) ==
  LET wall_delta == unix_now_secs - snap.prev_unix
      mono_delta == (IF now_ms >= snap.prev_mono_ms
                     THEN now_ms - snap.prev_mono_ms ELSE 0) \div MS
  IN  [heap_free_bytes |-> free,
       uptime_secs |-> uptime_secs,
       wifi_reconnects_5min |-> IF wifi.total >= snap.prev_assoc_total
                                THEN wifi.total - snap.prev_assoc_total ELSE 0,
       renewal_count |-> renewals,
       bssid_changed |-> /\ snap.prev_bssid # 0
                         /\ wifi.bssid # 0
                         /\ wifi.bssid # snap.prev_bssid,
       time_slipped |-> Abs(wall_delta - mono_delta) > HAUNTED_SLIP_SECS]

\* now.saturating_sub(last_status_update) >= STATUS_UPDATE_PERIOD_SECS, and
\* never while the clock reads 0
due(now) ==
  /\ now # 0
  /\ (IF now >= snap.last_status_update
      THEN now - snap.last_status_update ELSE 0) >= STATUS_UPDATE_PERIOD_SECS

\* Slip: only the real condition and the heartbeat ask for a push.
push_wanted_real_only(mp_flipped, any_custom_flipped, now) ==
  mp_flipped \/ due(now)

push_wanted(mp_flipped, any_custom_flipped, now) ==
  mp_flipped \/ any_custom_flipped \/ due(now)

\* reconcile up to its first await: sample, observe, and either return
\* because nothing flipped and no heartbeat is due, or send the status body.
Reconcile ==
  /\ pc = "sleep"
  /\ now_ms >= wake
  /\ \E free \in HeapLevels :
       LET now     == unix_now_secs
           fresh   == Evaluate(Sampled(free))
           builtin == Observed(tracker, free, now)
           slots   == ObservedCustom(custom, fresh, now)
           mp_flipped == builtin["MemoryPressure"].status
                           # tracker["MemoryPressure"].status
           any_custom_flipped ==
             \E t \in CustomTypes : Flipped(custom[t], fresh[t].status)
       IN  /\ tracker' = builtin
           /\ custom' = slots
           /\ IF push_wanted(mp_flipped, any_custom_flipped, now)
              THEN /\ pc' = "patch_status"
                   /\ req' = [now |-> now, now_ms |-> now_ms, free |-> free,
                        conds |-> NodeStatusPatch(builtin, slots, fresh, now),
                        assoc_total |-> wifi.total, bssid |-> wifi.bssid]
                   /\ wake' = wake
              ELSE Sleep
  /\ unsampled' = 0
  /\ UNCHANGED <<clock, boot, wall, snap, wifi, renewals, node, late, owed>>

\* patch_node_status returns.  Its error ends the reconcile at the `?`: the
\* slots keep the flip, the snapshots stay as they were.
PatchStatus ==
  /\ pc = "patch_status"
  /\ \E outcome \in Outcomes :
       /\ Answered(outcome)
       /\ IF Heard200(outcome)
          THEN pc' = "patch_annotation" /\ UNCHANGED <<req, wake>>
          ELSE Sleep
       /\ owed' = ~Heard200(outcome)
  /\ UNCHANGED <<clock, boot, wall, tracker, custom, snap, wifi, renewals,
                 unsampled>>

\* Slips: a snapshot is read again after the awaits.
NewSnap_rereads_wifi ==
  [last_status_update |-> req.now, prev_assoc_total |-> wifi.total,
   prev_bssid |-> wifi.bssid, prev_unix |-> req.now,
   prev_mono_ms |-> req.now_ms]
NewSnap_rereads_mono ==
  [last_status_update |-> req.now, prev_assoc_total |-> req.assoc_total,
   prev_bssid |-> req.bssid, prev_unix |-> req.now, prev_mono_ms |-> now_ms]

\* The snapshots after a push, all of them the values sampled before it.
NewSnap ==
  [last_status_update |-> req.now, prev_assoc_total |-> req.assoc_total,
   prev_bssid |-> req.bssid, prev_unix |-> req.now,
   prev_mono_ms |-> req.now_ms]

\* patch_heap_annotation returns: only if it succeeded does the push count.
PatchAnnotation ==
  /\ pc = "patch_annotation"
  /\ \E outcome \in Outcomes :
       /\ Answered(outcome)
       /\ owed' = (owed \/ ~Heard200(outcome))
       /\ snap' = IF Heard200(outcome) THEN NewSnap ELSE snap
  /\ Sleep
  /\ UNCHANGED <<clock, boot, wall, tracker, custom, wifi, renewals, unsampled>>

-----------------------------------------------------------------------------
(* What goes on beside the status path. *)

\* connection_task, a re-association: the BSSID, then the counter, with no
\* await between the two stores.  It does not run on a board with Ethernet.
Associate(b) ==
  /\ wifi.bssid # 0
  /\ wifi.total < MaxAssociations
  /\ wifi' = [bssid |-> b, total |-> wifi.total + 1]
  /\ unsampled' = unsampled + 1
  /\ UNCHANGED <<clock, boot, wall, pc, wake, req, tracker, custom, snap,
                 renewals, node, late, owed>>

\* The lease task, spawned with the status task, stores its count.
LeaseRenewed ==
  /\ pc \in {"sleep", "patch_status", "patch_annotation"}
  /\ renewals < MaxRenewals
  /\ renewals' = renewals + 1
  /\ UNCHANGED <<clock, boot, wall, pc, wake, req, tracker, custom, snap, wifi,
                 node, late, owed, unsampled>>

\* The server gets round to a request the board has given up on.
LateApplied ==
  /\ late # NoLate
  /\ node' = Serve(late.call, late.conds, late.free)
  /\ late' = NoLate
  /\ owed' = TRUE
  /\ UNCHANGED <<clock, boot, wall, pc, wake, req, tracker, custom, snap, wifi,
                 renewals, unsampled>>

\* Power is cut and comes back.  The board persists nothing, the server does.
Reboot ==
  /\ boot.count < MaxBoots
  /\ boot' = [at |-> clock, count |-> boot.count + 1]
  /\ wall' = FreshWall
  /\ pc' = "anchor"
  /\ wake' = 0
  /\ req' = NoReq
  /\ tracker' = NodeCondTracker(0)
  /\ custom' = CustomCondTracker(0)
  /\ snap' = FreshSnap
  /\ wifi' \in FreshWifi
  /\ renewals' = 0
  /\ owed' = TRUE
  /\ unsampled' = 0
  /\ UNCHANGED <<clock, node, late>>

Advance ==
  /\ clock < MaxClock
  /\ clock' = clock + 1
  /\ UNCHANGED <<boot, wall, pc, wake, req, tracker, custom, snap, wifi,
                 renewals, node, late, owed, unsampled>>

\* The exploration stops at MaxClock; the board would sleep on.
ObservationEnds ==
  /\ clock = MaxClock
  /\ pc = "sleep"
  /\ UNCHANGED vars

Next ==
  \/ AnchorClock \/ AnchorFails \/ RegisterNode
  \/ BeginInitialStatus \/ InitialStatus \/ InitialAnnotation
  \/ Reconcile \/ PatchStatus \/ PatchAnnotation
  \/ \E b \in Bssids : Associate(b)
  \/ LeaseRenewed \/ LateApplied \/ Reboot \/ Advance \/ ObservationEnds

Spec == Init /\ [][Next]_vars

-----------------------------------------------------------------------------
(* Correctness. *)

Condition ==
  [status : CondStatus \cup {"Absent"},
   reason : BuiltinReasons \cup CustomReasons \cup {"Absent"},
   hb : Nat, tt : Nat]

\* Every variable has the type its Rust counterpart declares.
TypeOK ==
  /\ clock \in Nat
  /\ boot \in [at : Nat, count : Nat] /\ boot.at <= clock
  /\ wall \in [anchor : Nat, anchor_at : Nat]
  /\ pc \in Calls \cup {"sleep"}
  /\ wake \in Nat
  /\ req \in [now : Nat, now_ms : Nat, free : Nat,
              conds : [CondTypes -> Condition], assoc_total : Nat, bssid : Nat]
  /\ tracker \in [BuiltinTypes -> CondState]
  /\ custom \in [CustomTypes -> CondState]
  /\ snap \in [last_status_update : Nat, prev_assoc_total : Nat,
               prev_bssid : Nat, prev_unix : Nat, prev_mono_ms : Nat]
  /\ wifi \in [bssid : Nat, total : Nat]
  /\ renewals \in Nat
  /\ node \in [conds : [CondTypes -> Condition], heap : Nat \cup {NoHeap}]
  /\ late \in [call : Calls \cup {"none"}, conds : [CondTypes -> Condition],
               free : Nat]
  /\ owed \in BOOLEAN
  /\ unsampled \in Nat

\* No condition of the stored Node claims to have flipped after its own
\* heartbeat, whatever boots, failed pushes and late requests produced it.
TransitionNotAfterHeartbeat ==
  \A t \in CondTypes : node.conds[t].tt <= node.conds[t].hb

\* No stored heartbeat lies in the future: the wall clock, anchored from an
\* aged Date header and advanced by whole seconds, never runs ahead.
StampsNotInFuture ==
  \A t \in CondTypes : node.conds[t].hb * MS <= clock

Slot(t) == IF t \in BuiltinTypes THEN tracker[t] ELSE custom[t]

\* While the loop sleeps with its last push acknowledged, the stored Node
\* agrees with the slots on the status and the transition time of all nine
\* conditions, and the heap annotation with MemoryPressure: the rounds that
\* returned early had nothing to report, and none spoiled what was reported.
StatusDelivered ==
  pc = "sleep" /\ ~owed =>
    /\ node # NoNode
    /\ \A t \in CondTypes : /\ node.conds[t].status = Slot(t).status
                           /\ node.conds[t].tt = Slot(t).transitioned_at
    /\ node.heap < MEMORY_PRESSURE_FREE_BYTES
         <=> tracker["MemoryPressure"].status = "True"

\* MemoryPressure comes from a slot and the custom conditions from fresh
\* evaluations, and still a stored Node under pressure is never in good
\* spirits: Peckish is True and Vibes is False.
PressureIsFelt ==
  node.conds["MemoryPressure"].status = "True" =>
    /\ node.conds["Peckish"].status = "True"
    /\ node.conds["Vibes"].status = "False"

\* Associations during the two awaits of a push are still ahead of the
\* window: resetting the snapshot never loses one.
AssociationsStayCounted ==
  pc \in {"sleep", "patch_status", "patch_annotation"} =>
    wifi.total - snap.prev_assoc_total >= unsampled

\* With an anchored clock Haunted is never TimeSlipped: the wall clock and
\* the monotonic clock, both cut to whole seconds at different phases and
\* compared over any number of failed pushes, differ by at most a second.
AnchoredNeverSlips ==
  node.conds["Haunted"].hb > 0 => node.conds["Haunted"].reason # "TimeSlipped"
=============================================================================
