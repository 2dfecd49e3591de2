--------------------------- MODULE WireBuffersProofs ---------------------------
(***************************************************************************)
(* Proofs about WireBuffers: which bodies and heads fit their buffers, for *)
(* every sample of the board, every name that NodeIdentity::new lets pass, *)
(* every address and every token of up to 1700 bytes.                      *)
(***************************************************************************)
EXTENDS WireBuffers, TLAPS

-----------------------------------------------------------------------------
(* Lengths. *)

\* Six digits
Short(n) == n \in Nat /\ n < 1000000

\* A number below a million has a number of digits, and it is below ten.
LEMMA DigitsRange ==
  ASSUME NEW n, Short(n)
  PROVE  Digits(n) \in 1 .. 9
<1> USE DEF Short
<1> DEFINE Fits(k) == n < 10^k /\ (k = 1 \/ n >= 10^(k - 1))
<1>1. \E k \in 1 .. 9 : Fits(k)
  <2>1. CASE n < 10
    <3>1. Fits(1)
      BY <2>1, SMT
    <3> QED
      BY <3>1, SMT
  <2>2. CASE 10 <= n /\ n < 100
    <3>1. Fits(2)
      BY <2>2, SMT
    <3> QED
      BY <3>1, SMT
  <2>3. CASE 100 <= n /\ n < 1000
    <3>1. Fits(3)
      BY <2>3, SMT
    <3> QED
      BY <3>1, SMT
  <2>4. CASE 1000 <= n /\ n < 10000
    <3>1. Fits(4)
      BY <2>4, SMT
    <3> QED
      BY <3>1, SMT
  <2>5. CASE 10000 <= n /\ n < 100000
    <3>1. Fits(5)
      BY <2>5, SMT
    <3> QED
      BY <3>1, SMT
  <2>6. CASE 100000 <= n /\ n < 1000000
    <3>1. Fits(6)
      BY <2>6, SMT
    <3> QED
      BY <3>1, SMT
  <2> QED
    BY <2>1, <2>2, <2>3, <2>4, <2>5, <2>6, SMT
<1>2. Digits(n) = CHOOSE k \in 1 .. 9 : Fits(k)
  BY SMT DEF Digits
<1> HIDE DEF Fits
<1> QED
  BY <1>1, <1>2, SMT

\* No reason has more than 50 characters of wording.
LEMMA WordingRange ==
  ASSUME NEW reason \in CustomReasons
  PROVE  Wording(reason) \in 0 .. 50
BY DEF Wording, CustomReasons

\* Every evaluator gives one of the reasons that has wording.
LEMMA Reasons ==
  ASSUME NEW i, NEW t \in CustomTypes
  PROVE  Evaluate(i)[t].reason \in CustomReasons
<1>1. /\ eval_vibes(i).reason \in CustomReasons
      /\ eval_caffeinated(i).reason \in CustomReasons
      /\ eval_existential(i).reason \in CustomReasons
      /\ eval_haunted(i).reason \in CustomReasons
  BY DEF eval_vibes, eval_caffeinated, eval_existential, eval_haunted,
         CustomCond, CustomReasons
<1>2. eval_peckish(i).reason \in CustomReasons
  BY DEF eval_peckish, CustomCond, CustomReasons
<1> QED
  BY <1>1, <1>2 DEF Evaluate, CustomTypes

\* What an attempt needs to know of the state.
Sized == name_len \in Nat /\ ip_digits \in 4 .. 12 /\ sample \in Samples

\* One custom condition is at most 211 bytes of the status body.
LEMMA EntryRange ==
  ASSUME NEW t \in CustomTypes
  PROVE  Entry(t) \in 0 .. 211
<1>1. Wording(Evaluate(sample)[t].reason) \in 0 .. 50
  BY Reasons, WordingRange
<1>2. TypeName[t] \in 0 .. 11
  BY DEF TypeName, CustomTypes
<1> HIDE DEF Wording
<1> QED
  BY <1>1, <1>2 DEF Entry, TIMESTAMP

\* The bodies of the reconcilers fit, whatever the sample, when the name has
\* passed NodeIdentity::new.
LEMMA BodiesFit ==
  ASSUME Sized, name_len <= 65, NEW r \in Requests \ {"register"}
  PROVE  Short(Body(r)) /\ Body(r) <= Capacity(r)
<1>1. LeaseBody \in Nat /\ LeaseBody <= 512
  BY SMT DEF LeaseBody, TIMESTAMP, Sized
<1>2. NodeStatusPatch \in Nat /\ NodeStatusPatch <= 3072
  <2>1. /\ Entry("Vibes") \in 0 .. 211 /\ Entry("Caffeinated") \in 0 .. 211
        /\ Entry("Existential") \in 0 .. 211 /\ Entry("Peckish") \in 0 .. 211
        /\ Entry("Haunted") \in 0 .. 211
    BY EntryRange DEF CustomTypes
  <2> DEFINE pressed == sample.heap_free_bytes < MEMORY_PRESSURE_FREE_BYTES
             wording == IF pressed THEN 4 + 28 + 25 ELSE 5 + 26 + 25
  <2>2. wording \in 56 .. 57
    BY SMT
  <2>3. NodeStatusPatch
          = 578 + 4 + wording + 5 + 5 + 8 * TIMESTAMP
              + Entry("Vibes") + Entry("Caffeinated") + Entry("Existential")
              + Entry("Peckish") + Entry("Haunted") + 3
    BY SMT DEF NodeStatusPatch
  <2> DEFINE v == Entry("Vibes")
             c == Entry("Caffeinated")
             e == Entry("Existential")
             p == Entry("Peckish")
             h == Entry("Haunted")
             n == NodeStatusPatch
  <2>4. /\ v \in 0 .. 211 /\ c \in 0 .. 211 /\ e \in 0 .. 211
        /\ p \in 0 .. 211 /\ h \in 0 .. 211
        /\ n = 578 + 4 + wording + 5 + 5 + 8 * 27 + v + c + e + p + h + 3
    BY <2>1, <2>3 DEF TIMESTAMP
  <2> HIDE DEF wording, v, c, e, p, h, n
  <2>5. n \in Nat /\ n <= 3072
    BY <2>2, <2>4, SMT
  <2> QED
    BY <2>5, SMT DEF n
<1>3. HeapAnnotationPatch \in Nat /\ HeapAnnotationPatch <= 256
  <2>1. Short(sample.heap_free_bytes)
    BY WireAssumption, TunablesAssumption, SMT DEF Sized, CustomCondInputs, Short
  <2>2. Digits(sample.heap_free_bytes) \in 1 .. 9
    BY <2>1, DigitsRange, SMT
  <2> QED
    BY <2>2, SMT DEF HeapAnnotationPatch
<1> HIDE DEF LeaseBody, NodeStatusPatch, HeapAnnotationPatch
<1> QED
  BY <1>1, <1>2, <1>3, SMT DEF Body, Capacity, Requests, Short

\* The Node body of a name of up to 61 characters fits, with any address.
LEMMA NodeFits ==
  ASSUME Sized, name_len <= 61
  PROVE  Short(Body("register")) /\ Body("register") <= Capacity("register")
BY SMT DEF Body, Capacity, NodeRegistration, TIMESTAMP, Sized, Short

\* The head of every request fits.
LEMMA HeadsFit ==
  ASSUME Sized, name_len <= 65, NEW r \in Requests,
         Short(Body(r))
  PROVE  RequestHead(r) \in Nat /\ RequestHead(r) <= 2048
<1>1. Digits(Body(r)) \in 1 .. 9
  BY DigitsRange, SMT
<1>2. RequestLine(r) \in 0 .. 161
  <2>1. name_len \in 0 .. 65
    BY SMT DEF Sized
  <2>2. CASE r = "register" \/ r = "create_lease"
    BY <2>2 DEF RequestLine
  <2>3. CASE r = "renew_lease"
    BY <2>1, <2>3 DEF RequestLine, lease_path
  <2>4. CASE r = "patch_status"
    BY <2>1, <2>4 DEF RequestLine, status_path
  <2>5. CASE r = "patch_annotation"
    BY <2>1, <2>5 DEF RequestLine, node_path
  <2> QED
    BY <2>2, <2>3, <2>4, <2>5 DEF Requests
<1>3. TOKEN_LEN \in 0 .. 1700
  BY WireAssumption
<1>4. RequestHead(r)
        = 155 + RequestLine(r) + 15 + 5 + TOKEN_LEN + Digits(Body(r))
  BY DEF RequestHead
<1> DEFINE l == RequestLine(r)
           d == Digits(Body(r))
           n == RequestHead(r)
<1>5. l \in 0 .. 161 /\ d \in 1 .. 9 /\ n = 155 + l + 15 + 5 + TOKEN_LEN + d
  BY <1>1, <1>2, <1>4, Zenon
<1> HIDE DEF l, d, n
<1>6. n \in Nat /\ n <= 2048
  BY <1>3, <1>5, SMT
<1> QED
  BY <1>6, SMT DEF n

\* So an attempt of a reconciler reaches the wire.
LEMMA ReconcilerSends ==
  ASSUME Sized, name_len <= 65, NEW r \in Requests \ {"register"}
  PROVE  Attempt(r) = "sent"
<1>1. Short(Body(r)) /\ Body(r) <= Capacity(r)
  BY BodiesFit, SMT
<1>2. RequestHead(r) \in Nat /\ RequestHead(r) <= 2048
  BY <1>1, HeadsFit, SMT
<1>3. Capacity(r) \in Nat
  BY DEF Capacity, Requests
<1> QED
  BY <1>1, <1>2, <1>3, SMT DEF Attempt, Short

\* And so does the registration of a board with a short name.
LEMMA RegistrationSends ==
  ASSUME Sized, name_len <= 61
  PROVE  Attempt("register") = "sent"
<1>1. Short(Body("register")) /\ Body("register") <= Capacity("register")
  BY NodeFits, SMT
<1>2. RequestHead("register") \in Nat /\ RequestHead("register") <= 2048
  BY <1>1, HeadsFit, SMT DEF Sized, Requests
<1>3. Capacity("register") \in Nat
  BY DEF Capacity
<1> QED
  BY <1>1, <1>2, <1>3, SMT DEF Attempt, Short

-----------------------------------------------------------------------------
(* The invariant: past NodeIdentity::new the name is short enough for the   *)
(* 128 bytes of a path, and no attempt of a reconciler has failed.          *)

Steps == {"identity", "panicked", "register", "create_lease", "init_status",
          "init_annotation", "loop", "annotate"}
Outcomes == {"untried", "BuildJson", "Fmt", "sent"}

WireTypes ==
  /\ Sized
  /\ step \in Steps
  /\ outcome \in [Requests -> Outcomes]

\* Only a name of at most 65 characters gets past its paths.
NamePassed ==
  /\ step \notin {"identity", "panicked"} => name_len <= 65
  /\ step = "panicked" => name_len > 65

WireInv == WireTypes /\ NamePassed /\ ReconcilersCanSend /\ ShortNamesWork

\* One attempt keeps it, whichever step follows.
LEMMA TryKeeps ==
  ASSUME WireInv, step \notin {"identity", "panicked"},
         NEW r \in Requests, NEW next \in Steps \ {"identity", "panicked"},
         Try(r, next)
  PROVE  WireInv'
<1>1. Sized /\ name_len <= 65 /\ outcome \in [Requests -> Outcomes]
  BY DEF WireInv, WireTypes, NamePassed
<1>2. Attempt(r) \in Outcomes
  BY DEF Attempt, Outcomes
<1>3. r # "register" => Attempt(r) = "sent"
  BY <1>1, ReconcilerSends
<1>4. r = "register" /\ name_len <= 61 => Attempt(r) = "sent"
  BY <1>1, RegistrationSends
<1>5. /\ outcome' = [outcome EXCEPT ![r] = Attempt(r)] /\ step' = next
      /\ UNCHANGED <<name_len, ip_digits, sample>>
  BY DEF Try
<1> HIDE DEF Attempt
<1>6. WireTypes'
  BY <1>1, <1>2, <1>5 DEF WireTypes, Sized
<1>7. NamePassed'
  BY <1>1, <1>5 DEF NamePassed
<1>8. ReconcilersCanSend'
  BY <1>1, <1>3, <1>5 DEF WireInv, ReconcilersCanSend
<1>9. ShortNamesWork'
  <2>1. "register" \in Requests
    BY DEF Requests
  <2> QED
    BY <2>1, <1>1, <1>4, <1>5 DEF WireInv, ShortNamesWork
<1> QED
  BY <1>6, <1>7, <1>8, <1>9 DEF WireInv

\* Before NodeIdentity::new nothing has been tried.
LEMMA WireInvInit == WireInit => WireInv
<1> SUFFICES ASSUME WireInit
             PROVE  WireInv
  OBVIOUS
<1>1. Sized
  BY WireAssumption DEF WireInit, Sized
<1>2. outcome = [r \in Requests |-> "untried"] /\ step = "identity"
  BY DEF WireInit
<1>3. "register" \in Requests
  BY DEF Requests
<1> QED
  BY <1>1, <1>2, <1>3 DEF WireInv, WireTypes, NamePassed, ReconcilersCanSend,
                          ShortNamesWork, Steps, Outcomes

\* Every step of bootstrap and of the reconcilers keeps the invariant.
LEMMA WireInvStep == WireInv /\ [WireNext]_wireVars => WireInv'
<1> SUFFICES ASSUME WireInv, [WireNext]_wireVars
             PROVE  WireInv'
  OBVIOUS
<1> DEFINE past == Steps \ {"identity", "panicked"}
<1>0. /\ {"register", "create_lease", "renew_lease", "patch_status",
          "patch_annotation"} \subseteq Requests
      /\ {"register", "create_lease", "init_status", "init_annotation", "loop",
          "annotate"} \subseteq past
  BY DEF Requests, Steps
<1>1. CASE NewIdentity
  <2>1. name_len \in Nat
    BY DEF WireInv, WireTypes, Sized
  <2>2. (\A p \in {lease_path, status_path, node_path} : ApiPathFits(p))
          <=> name_len <= 65
    BY <2>1, SMT DEF lease_path, status_path, node_path, ApiPathFits
  <2>3. step' = IF name_len <= 65 THEN "register" ELSE "panicked"
    BY <1>1, <2>2 DEF NewIdentity
  <2>4. UNCHANGED <<name_len, ip_digits, sample, outcome>>
    BY <1>1 DEF NewIdentity
  <2>5. WireTypes' /\ NamePassed'
    BY <2>1, <2>3, <2>4 DEF WireInv, WireTypes, Sized, NamePassed, Steps
  <2>6. ReconcilersCanSend' /\ ShortNamesWork'
    BY <2>1, <2>3, <2>4 DEF WireInv, ReconcilersCanSend, ShortNamesWork
  <2> QED
    BY <2>5, <2>6 DEF WireInv
<1>2. CASE RegisterNode
  BY <1>0, <1>2, TryKeeps DEF RegisterNode
<1>3. CASE CreateLease
  BY <1>0, <1>3, TryKeeps DEF CreateLease
<1>4. CASE InitialStatus
  <2>1. PICK next \in {"loop", "init_annotation"} : Try("patch_status", next)
    BY <1>4 DEF InitialStatus
  <2> QED
    BY <1>0, <1>4, <2>1, TryKeeps DEF InitialStatus
<1>5. CASE InitialAnnotation
  BY <1>0, <1>5, TryKeeps DEF InitialAnnotation
<1>6. CASE RenewLease
  BY <1>0, <1>6, TryKeeps DEF RenewLease
<1>7. CASE RecreateLease
  BY <1>0, <1>7, TryKeeps DEF RecreateLease
<1>8. CASE Resample
  BY <1>8 DEF Resample, WireInv, WireTypes, Sized, NamePassed,
              ReconcilersCanSend, ShortNamesWork
<1>9. CASE PushStatus
  BY <1>0, <1>9, TryKeeps DEF PushStatus
<1>10. CASE PushAnnotation
  <2>1. CASE Try("patch_annotation", "loop")
    BY <1>0, <1>10, <2>1, TryKeeps DEF PushAnnotation
  <2>2. CASE step' = "loop" /\ UNCHANGED <<name_len, ip_digits, sample, outcome>>
    BY <1>10, <2>2 DEF PushAnnotation, WireInv, WireTypes, Sized, NamePassed,
                       ReconcilersCanSend, ShortNamesWork, Steps
  <2> QED
    BY <1>10, <2>1, <2>2 DEF PushAnnotation
<1>11. CASE UNCHANGED wireVars
  BY <1>11 DEF wireVars, WireInv, WireTypes, Sized, NamePassed,
               ReconcilersCanSend, ShortNamesWork
<1> QED
  BY <1>1, <1>2, <1>3, <1>4, <1>5, <1>6, <1>7, <1>8, <1>9, <1>10, <1>11
     DEF WireNext

\* The two properties and what they rest on, in every reachable state.
THEOREM WireInvariance == WireSpec => []WireInv
BY WireInvInit, WireInvStep, PTL DEF WireSpec

\* Past NodeIdentity::new no lease, status or annotation request of bootstrap or
\* of a reconciler ends in BuildJson or Fmt: ReconcilersCanSend, whatever the
\* evaluators say of the board and whatever its name, address and token.
THEOREM CanSend == WireSpec => []ReconcilersCanSend
<1>1. WireInv => ReconcilersCanSend
  BY DEF WireInv
<1> QED
  BY <1>1, WireInvariance, PTL

\* With a name of up to 61 characters NodeIdentity::new does not panic and
\* NodeRegistration fits its 2048 bytes: ShortNamesWork.
THEOREM ShortNames == WireSpec => []ShortNamesWork
<1>1. WireInv => ShortNamesWork
  BY DEF WireInv
<1> QED
  BY <1>1, WireInvariance, PTL
=============================================================================
