------------------------------ MODULE MCKubelet -------------------------------
(***************************************************************************)
(* Kubelet for TLC, with the properties that comments of the repository    *)
(* state and the code does not keep.                                       *)
(***************************************************************************)
EXTENDS Kubelet, TLC

\* One vector of conditions is as good as another.
ViewSymmetry == Permutations(Views)

\* kubelet.rs, in the Err branch of anchor_clock: "failed to anchor clock,
\* will retry" and "Bail to the renewal loop anyway; we'll try again there."
\* Neither reconciler ever calls set_wall_clock.
AnchorRetried ==
  (at["main"] = "anchor" /\ call = "failed") ~> Anchored

\* net/http.rs: "HTTP 5xx, treat as transient and retry."  register_node is
\* called once per boot and only logs an unexpected status.
RegistrationRetried ==
  (at["main"] = "parked" /\ Anchored /\ nodeView = "absent")
    ~> nodeView # "absent"
=============================================================================
