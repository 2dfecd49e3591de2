----------------------------- MODULE MCNodeStatus -----------------------------
(***************************************************************************)
(* NodeStatus for TLC, with the properties that documents of the           *)
(* repository state and the code does not keep.                            *)
(***************************************************************************)
EXTENDS NodeStatus

\* src/README.md: "`lastTransitionTime` semantics: only updated when a
\* condition's `status` field actually flips".  The trackers start afresh
\* after the registration, and after every reboot, so the stored transition
\* times move with no flip.
TransitionOnlyOnFlip ==
  [][\A t \in CondTypes :
       /\ node.conds[t].status # "Absent"
       /\ node'.conds[t].status = node.conds[t].status
       => node'.conds[t].tt = node.conds[t].tt]_vars

\* config.rs: "Vibes flips False/Cursed when wifi reassociates this many times
\* within the rolling window".  In the first STATUS_UPDATE_PERIOD_SECS of a
\* boot every re-association is inside any such window, so the sample after
\* that many of them should find the node cursed, or have it cursed already.
\* Each push restarts the count, and one re-association causes a push.
CursedByRollingWindow ==
  [][/\ pc = "sleep" /\ <<pc, wake>>' # <<pc, wake>> /\ boot' = boot
     /\ uptime_secs <= STATUS_UPDATE_PERIOD_SECS
     /\ wifi.total - 1 >= VIBES_CURSED_RECONNECTS
     /\ node.conds["Vibes"].status # "False"
     => custom'["Vibes"].status = "False"]_vars

\* The clock is anchored, and the access point stays put until the
\* reconcilers have been spawned.
QuietBootstrap ==
  pc \notin {"sleep", "patch_status", "patch_annotation"} =>
    /\ wifi'.total <= 1
    /\ pc' = "register" => wall'.anchor # 0

SpecQuietBootstrap ==
  Init /\ wifi.total <= 1 /\ [][Next /\ QuietBootstrap]_vars
=============================================================================
