----------------------------- MODULE WireBuffers ------------------------------
(***************************************************************************)
(* The fixed-capacity strings between the board and the wire, by length:   *)
(* the paths of NodeIdentity (kubelet.rs, k8s/path.rs), the bodies         *)
(* (k8s/models.rs) and the request head (net/client.rs).  A text that does *)
(* not fit panics in NodeIdentity::new, skips the step in bootstrap, is    *)
(* BuildJson in a reconciler and Fmt in the client.                        *)
(*                                                                         *)
(* The length of a template without its placeholders is a number here; the *)
(* conditions that fill the status body come from Conditions.              *)
(***************************************************************************)
EXTENDS Conditions

CONSTANTS
  NameLens,    \* lengths of NODE_NAME
  IpDigits,    \* digits of the DHCP address, 4 to 12
  TOKEN_LEN,   \* length of K3S_TOKEN
  Samples      \* samples of the board, a subset of CustomCondInputs

\* A heap is smaller than the half megabyte of RAM of the ESP32-S3.  The head
\* of a request has room for a token of 1700 bytes; net/client.rs reckons with
\* about a thousand.
ASSUME WireAssumption ==
  /\ NameLens \subseteq Nat
  /\ IpDigits \subseteq 4 .. 12
  /\ TOKEN_LEN \in 0 .. 1700
  /\ HEAP_TOTAL_BYTES < 524288
  /\ Samples \subseteq CustomCondInputs
  /\ \A i \in Samples : i.heap_free_bytes <= HEAP_TOTAL_BYTES

VARIABLES
  name_len, ip_digits,   \* chosen at build time and by DHCP
  sample,                \* what the next status body is built from
  step,                  \* where bootstrap is, "loop" when it has returned
  outcome                \* how the last attempt at each request ended

wireVars == <<name_len, ip_digits, sample, step, outcome>>

Requests == {"register", "create_lease", "renew_lease", "patch_status",
             "patch_annotation"}

\* A sample before the first window: nothing has reconnected or been renewed.
FirstSample(i) ==
  /\ i.wifi_reconnects_5min = 0 /\ i.renewal_count = 0
  /\ ~i.bssid_changed /\ ~i.time_slipped

WireInit ==
  /\ name_len \in NameLens
  /\ ip_digits \in IpDigits
  /\ sample \in {i \in Samples : FirstSample(i)}
  /\ step = "identity"
  /\ outcome = [r \in Requests |-> "untried"]

-----------------------------------------------------------------------------
(* Lengths. *)

TIMESTAMP == 27   \* fmt_rfc3339: 2026-05-02T15:47:17.000000Z

lease_path == 63 + name_len
status_path == 21 + name_len
node_path == 14 + name_len

NodeRegistration == 1563 + 4 * name_len + 12 + ip_digits + 8 * TIMESTAMP

LeaseBody == 175 + 2 * name_len + 2 + TIMESTAMP

\* status, reason and message of a custom condition
Wording(reason) ==
  CASE reason = "Cursed" -> 37       [] reason = "Off" -> 23
    [] reason = "Immaculate" -> 43   [] reason = "Cromulent" -> 32
    [] reason = "Dissociating" -> 38
    [] reason = "FreshlyBrewed" -> 44 [] reason = "Decaf" -> 41
    [] reason = "Transcendent" -> 37 [] reason = "Accepting" -> 33
    [] reason = "Questioning" -> 35  [] reason = "Innocent" -> 35
    [] reason = "Hungry" -> 36       [] reason = "Sated" -> 24
    [] reason = "CouldGoForASnack" -> 40
    [] reason = "NewGhost" -> 43     [] reason = "TimeSlipped" -> 50
    [] reason = "Calm" -> 32

TypeName == [Vibes |-> 5, Caffeinated |-> 11, Existential |-> 11,
             Peckish |-> 7, Haunted |-> 7]

\* One CustomCondEntry, with the comma before it
Entry(t) == 96 + TypeName[t] + Wording(Evaluate(sample)[t].reason) + 2 * TIMESTAMP

\* Ready is True; MemoryPressure has wording for either value.
NodeStatusPatch ==
  LET pressed == sample.heap_free_bytes < MEMORY_PRESSURE_FREE_BYTES
  IN  578 + 4 + (IF pressed THEN 4 + 28 + 25 ELSE 5 + 26 + 25) + 5 + 5
        + 8 * TIMESTAMP
        + Entry("Vibes") + Entry("Caffeinated") + Entry("Existential")
        + Entry("Peckish") + Entry("Haunted") + 3

Digits(n) == CHOOSE k \in 1 .. 9 : n < 10^k /\ (k = 1 \/ n >= 10^(k - 1))

HeapAnnotationPatch == 67 + Digits(sample.heap_free_bytes)

Body(r) ==
  CASE r = "register" -> NodeRegistration
    [] r \in {"create_lease", "renew_lease"} -> LeaseBody
    [] r = "patch_status" -> NodeStatusPatch
    [] r = "patch_annotation" -> HeapAnnotationPatch

\* Slip: the status body is given the buffer of an earlier version, before
\* there were custom conditions.
Capacity_old_status(r) ==
  CASE r = "register" -> 2048
    [] r \in {"create_lease", "renew_lease"} -> 512
    [] r = "patch_status" -> 1536
    [] r = "patch_annotation" -> 256

\* Slip: the Node body has room for names of up to 20 characters.
Capacity_short_names(r) ==
  CASE r = "register" -> 1920
    [] r \in {"create_lease", "renew_lease"} -> 512
    [] r = "patch_status" -> 3072
    [] r = "patch_annotation" -> 256

Capacity(r) ==
  CASE r = "register" -> 2048
    [] r \in {"create_lease", "renew_lease"} -> 512
    [] r = "patch_status" -> 3072
    [] r = "patch_annotation" -> 256

\* Method, path and content type
RequestLine(r) ==
  CASE r = "register" -> 4 + 13 + 16
    [] r = "create_lease" -> 4 + 62 + 16
    [] r = "renew_lease" -> 5 + lease_path + 28
    [] r = "patch_status" -> 5 + status_path + 38
    [] r = "patch_annotation" -> 5 + node_path + 28

\* The longest host and port are 15 and 5 characters.
RequestHead(r) == 155 + RequestLine(r) + 15 + 5 + TOKEN_LEN + Digits(Body(r))

\* What comes of an attempt: no body, no head, or a request on the wire.
Attempt(r) ==
  IF Body(r) > Capacity(r) THEN "BuildJson"
  ELSE IF RequestHead(r) > 2048 THEN "Fmt" ELSE "sent"

-----------------------------------------------------------------------------
(* Bootstrap. *)

\* ApiPath::<128>::new is Ok
ApiPathFits(len) == len <= 128

\* three of them, with unwrap
NewIdentity ==
  /\ step = "identity"
  /\ step' = IF \A p \in {lease_path, status_path, node_path} : ApiPathFits(p)
             THEN "register" ELSE "panicked"
  /\ UNCHANGED <<name_len, ip_digits, sample, outcome>>

Try(r, next) ==
  /\ outcome' = [outcome EXCEPT ![r] = Attempt(r)]
  /\ step' = next
  /\ UNCHANGED <<name_len, ip_digits, sample>>

RegisterNode == step = "register" /\ Try("register", "create_lease")
CreateLease == step = "create_lease" /\ Try("create_lease", "init_status")

\* Without a status body push_initial_status returns, annotation and all.
InitialStatus ==
  /\ step = "init_status"
  /\ Try("patch_status",
         IF Attempt("patch_status") = "BuildJson" THEN "loop"
         ELSE "init_annotation")

InitialAnnotation ==
  step = "init_annotation" /\ Try("patch_annotation", "loop")

-----------------------------------------------------------------------------
(* The reconcilers. *)

RenewLease == step = "loop" /\ Try("renew_lease", "loop")
RecreateLease == step = "loop" /\ Try("create_lease", "loop")
Resample ==
  /\ step = "loop"
  /\ sample' \in Samples
  /\ UNCHANGED <<name_len, ip_digits, step, outcome>>
PushStatus == step = "loop" /\ Try("patch_status", "annotate")

\* patch_node_status failed, or the annotation follows.
PushAnnotation ==
  /\ step = "annotate"
  /\ IF outcome["patch_status"] = "sent"
     THEN Try("patch_annotation", "loop")
     ELSE step' = "loop" /\ UNCHANGED <<name_len, ip_digits, sample, outcome>>

WireNext == NewIdentity \/ RegisterNode \/ CreateLease \/ InitialStatus
        \/ InitialAnnotation \/ RenewLease \/ RecreateLease \/ Resample
        \/ PushStatus \/ PushAnnotation

WireSpec == WireInit /\ [][WireNext]_wireVars

-----------------------------------------------------------------------------
(* Correctness. *)

\* A board that got past NodeIdentity::new can always build and send its
\* lease, status and annotation requests, whatever the conditions say.
ReconcilersCanSend ==
  \A r \in Requests \ {"register"} : outcome[r] \in {"untried", "sent"}

\* Names of up to 61 characters boot and register, with any address.
ShortNamesWork ==
  name_len <= 61 =>
    step # "panicked" /\ outcome["register"] \in {"untried", "sent"}
=============================================================================
