# picokubelet in TLA+

picokubelet is a kubelet without pods for an ESP32-S3: it registers a Node,
renews its Lease every 10 s, pushes the Node's status when a condition flips or
every 300 s, and talks to the API server through one TLS client that all tasks
share. This directory models that program and checks it with TLC. Every safety
property that a run finds to hold is also proved with TLAPS, for all values of
the constants: how old the Lease can get, what the stored Node may say of the
board, that the client returns no answer but the server's and implements the
abstract call the tasks rely on, that the calendar arithmetic, the hand-over
from boot to bootstrap, the buffers and the LED are right. Source paths below
are relative to the repository.

- [The system](#the-system)
- [The modules](#the-modules)
- [The runs](#the-runs)
- [The proofs](#the-proofs)
- [Where the code and its comments disagree](#where-the-code-and-its-comments-disagree)
- [What is not modelled](#what-is-not-modelled)
- [Plan](#plan)

## The system

### Parts, state, operations

| Part | State | Operations |
|---|---|---|
| Boot (`src/main.rs`) | none after start | choose Ethernet or Wi-Fi, wait for DHCP, build the client, run bootstrap, spawn the two reconcilers, park |
| Bootstrap (`src/kubelet.rs`) | the trackers it returns | `anchor_clock`, `register_node`, `create_lease`, `push_initial_status`, one after the other, each of them once; no failure stops it |
| Lease reconciler (`src/reconcilers/lease.rs`) | `healthy`, `renewal_count`, static `RENEWAL_COUNT` | sleep, renew, re-create on 404, LED pattern |
| Status reconciler (`src/reconcilers/status.rs`) | condition slots, `last_status_update`, snapshots of Wi-Fi and both clocks | sleep, sample, evaluate, observe, decide, PATCH status, PATCH annotation, take snapshots |
| Condition slots and evaluators (`src/k8s/conditions.rs`) | status and `transitioned_at` of nine conditions | `observe`, five `eval_*` functions |
| Wall clock (`src/wallclock.rs`) | an anchor: unix seconds and the instant they were set | `set_wall_clock`, `unix_now_secs`, calendar conversions |
| API and wire models (`src/k8s/api.rs`, `models.rs`, `path.rs`) | none | one method per call; each builds a body in a fixed buffer, takes the lock, interprets the status code |
| Shared client (`src/net/client.rs`, `http.rs`) | TLS and response buffers behind an async mutex | one round trip: TCP, TLS, request, read until close, parse |
| Wi-Fi task (`src/net/wifi.rs`) | statics `WIFI_BSSID`, `WIFI_ASSOCIATIONS_TOTAL` | associate, store, wait for the disconnect, repeat |
| Ethernet probe (`src/net/ethernet.rs`) | none | read two registers |
| LED task (`src/led.rs`) | a one-place signal | show a pattern until the next one |

The parts meet in four places: the mutex of the shared client, held for a
whole round trip; the statics that the Wi-Fi and the lease task write and the
status task samples; the API server, which outlives every boot; and time, which
the board reads from two clocks that start at different instants.

### What is hard here

The executor is cooperative and has one core, so nothing races between two
`await`s. What is hard lies across them.

- A body is stamped before the lock is awaited and reaches the server after
  other tasks' round trips. Slow status pushes age the Lease.
- A status push is two calls. The condition slots change before the first, the
  snapshots after the second. Each call can fail on its own, be applied
  unheard, or be applied late, over a newer one.
- A failed push is not repeated: what delivers a flip after a failure is only
  the next flip, or the heartbeat that is still due.
- The board keeps nothing over a reboot and the server keeps everything.
- The clock is anchored from a `Date` header that is already old, or not at all.
- Uptime, wall clock and snapshots are cut to whole seconds at different phases.
- The response buffer is never cleared, and a connection that closes early
  counts as the end of an answer.
- The LED signal holds one value, and the LED task is busy for 800 ms at boot.
- Cable, access point and address come and go while `main` waits for them.
- Bodies and paths are built in buffers of fixed size from a node name, an
  address and conditions of varying length.

### What makes each part correct

| Part | Property | Where |
|---|---|---|
| Lease reconciler and client | the stored `renewTime` has a bounded age, whatever the status task, the failures and the lag of the clock do | `LeaseAgeBounded`, `LeaseRecovers` |
| Status reconciler | an acknowledged push makes Node and slots agree, later rounds do not spoil that | `StatusDelivered` |
| | what a failed push did not deliver is delivered in the end | `StatusConverges`, `ReadyRecovers` |
| | restarting the re-association count loses none of them | `AssociationsStayCounted` |
| | the clocks of an anchored board never look slipped | `AnchoredNeverSlips` |
| Conditions | what the Node shows is consistent with itself | `PressureIsFelt` |
| Wall clock and trackers over reboots | no transition after its heartbeat, no heartbeat in the future | `TransitionNotAfterHeartbeat`, `StampsNotInFuture` |
| Calendar | a Date header becomes the server's time, a timestamp shows the time it was taken | `AnchorIsServerTime`, `TimestampIsDate` |
| Shared client | an answer belongs to this request, whatever is left in the buffer; without a fault there is one | `AnswerIsTrue`, `FaultFreeSucceeds` |
| | the lock comes free, although the server may stay silent | `CallEnds` |
| | callers and client agree on what a call is | `ImplementsApiCall` (of `Kubelet` and of `SharedClient`) |
| Boot and Wi-Fi task | the Wi-Fi statics are set before they are sampled | `WifiHandedOver` |
| | the board boots, and is back after each lost link, once the medium stays | `BootCompletes`, `NetworkReturns` |
| Buffers | every request of the reconcilers fits, and the registration of names up to 61 characters | `ReconcilersCanSend`, `ShortNamesWork` |
| LED | no steady pattern is lost; the LED is never wrong for long | `SteadyFollows`, `LedTruthful` |
| | breathing has no jumps, and the pulses carry the colour | `BreathIsSmooth`, `EaseIsExact`, `WireCarriesColor` |

## The modules

| Module | What it has |
|---|---|
| `Conditions` | the slots and evaluators, as operators |
| `NodeStatus` | what happens to the *contents* of the Node |
| `Kubelet` | the same reconcilers for *scheduling*: who holds the client, when timers fire, how old things are |
| `ApiCall` | what a call of the client promises; abstract |
| `SharedClient` | a request on the wire |
| `Boot` | probe, choice of interface, Wi-Fi task, DHCP, up to bootstrap |
| `Calendar` | dates to seconds and back |
| `WireBuffers` | lengths of paths, bodies and heads against their buffers |
| `Led`, `LedRender` | the LED task; what it puts on the wire |
| `MCNodeStatus`, `MCKubelet`, `MCBoard` | the modules of the runs; the first two add the properties of the violation runs, the last joins `Calendar`, `WireBuffers`, `Led` and `LedRender` |
| `KubeletProofs`, `NodeStatusProofs`, `SharedClientProofs`, `BootProofs`, `CalendarProofs`, `WireBuffersProofs`, `LedProofs`, `LedRenderProofs` | the theorems, each about the module it is named after |

`Kubelet` and `NodeStatus` are two views rather than one composition: the nine
conditions with their times and the ages and timers of the three tasks multiply
to a state space no bound makes interesting and checkable at once. What
connects them is small. `NodeStatus` lets every call take any time and the lease
task renew at any moment, so each schedule of `Kubelet` is one of its
behaviours; `Kubelet` replaces the condition vector by one value that changes at
will, so each vector of `NodeStatus` is one of its views.

`Kubelet` and `SharedClient` meet in `ApiCall`: the tasks use the client only as
`ApiCall` describes it, and a request on the wire does only what `ApiCall`
allows. Each is shown to implement it, with a refinement mapping, by TLC and by
a proof. `Boot` hands over to the initial states of `NodeStatus`:
`WifiHandedOver` says of the Wi-Fi statics what `FreshWifi` assumes.

`MCBoard` extends four modules at once, so three of them name their
specification after themselves: `WireSpec`, `LedSpec`, `RenderSpec`. For the
same reason `write` of `led.rs` is `write_await` in `Led`, which has its awaits,
and `write` in `LedRender`, which has its pulses.

Definitions named after another with a suffix and introduced by "Slip:"
(`Sleep_long`, `NewSnap_rereads_wifi`) are plausible mistakes in that code. No
specification uses them. Put in the original's place, each makes a property of
a run fail, which is how we know that the property looks at that code.

### Conditions

`CondState` is a slot, `observe` sets it, `NodeCondTracker` and
`CustomCondTracker` are the initial slots. The evaluators keep their branches in
order and their reasons; the messages are wording. A `bool` slot and a tri-state
slot differ only in the values they take, so one record serves both.
The constants are the tunables of `config.rs` and the three literals of
`eval_existential`. `conditions.rs:102` starts the custom slots
as Unknown "so the first real evaluation always counts as a transition"; on a
half-full heap Vibes first evaluates to Unknown, so there it does not. The
model reproduces that and no property depends on it.

### NodeStatus

Time is the true time in ticks, `MS` ticks to a second; the board only ever
sees it through `now_ms`, `uptime_secs` and `unix_now_secs`, each with the
truncation of the code. `pc` is the call in flight, or `sleep`. Each action is
the code between two awaits: for instance `Reconcile` is `reconcile` from its
first line to `patch_node_status(..).await`, with the early return when nothing
flipped and no heartbeat is due. `req` holds the locals that live across the
await. `snap` is `LoopState`.

A call ends in one of four ways: `ok`; `refused` (never arrived, or answered
with an error); `unheard` (applied, the answer lost or longer than the response
buffer); `late` (the client gives up, the server may apply it at any later
time, once; one such request at a time). The server is external: POST of an
existing Node changes nothing, PATCH of a missing one is a 404, and a merge by
condition type. `create_lease` is a step with no effect here.

`Reboot` may strike anywhere and resets everything but the true clock, the
server, and the late request. `Associate` is atomic, as the two stores have no
await between them. `owed` and `unsampled` are history variables for
`StatusDelivered` and `AssociationsStayCounted`.

### Kubelet

`at[t]` is the call task `t` is in, or `sleep`; `lock`, `call` and `elapsed`
are the client. A call is: build the body, `Acquire`, let
the server handle it, be `Answered`, release. A task that goes straight from one
call to the next (`RenewMissing`, `StatusPatched`) drops the guard and takes the
lock again within one poll, so no waiter gets in between: embassy's mutex only
wakes a waiter, it does not hand the lock over. `Acquire` lets any of the
waiting tasks go first.

Time passes in `Tick`, `MS` ticks to a second, and only when no task can run and
no round trip has reached `MaxCall`. Stored things have an age that saturates at
`MaxAge`. A stamp does not start at age 0: `Behind` is how old `unix_now_secs`
is when it is read. On an anchored clock that is `lag`, the age that the Date
header had when `set_wall_clock` ran, and `subsec`, the ticks since the clock
last turned a second. The server dates an answer at some moment of the
round trip and cuts the date to a second, and the clock is set only after the
answer has been read to its end, so `AnchorClock` takes any lag up to `elapsed`
and a second. `MaxBehind` is the largest sum. An unanchored clock reads 1970, as
old as an age can be. `due` compares two cut times, and counts the seconds the
clock has turned. `MarkUnknown` is the node
lifecycle controller, which the board cannot see: renewals do not make a node
Ready again, only the next status PATCH does.

Faults are drawn from `Faults`, at most `MaxFaults` of them: a lost call, an
error answer, a lost answer, a request handled late, a deleted Lease or Node, a
reboot. A `/version` answer with no usable Date (`AnchorUndated`) is not charged
to the budget; a call to `/version` that fails (`AnchorFails`) is. `overtaken` is
a history variable: what the server stores is the stamp of a request that the
client had given up on.

`MaxCall` stands for what the network does. The code's only limit is the socket
timeout of 10 s, which ends a connection that has been silent that long; it
bounds a round trip as long as the peer is either prompt or silent. 10 s is
also the period, so calls as long as the period are part of the picture, and
the theorems cover them.

### ApiCall and SharedClient

In `ApiCall` a task takes the client, its request is handled or refused once,
and the task hears so or gets an error, which says nothing of the server: a
request given up on may be `pending` and handled later. A task may go on to its
next call without releasing the client (`Again`), and power may be cut.

`SharedClient` has the steps of `ApiClient::request`: connect, handshake, build
the head, write, flush, read until the peer closes, parse. `resp_buf` is a
function from cells to the answer last written there and is not cleared between
requests, as in the code; an answer is a number of cells, the first `HEAD` of
which reach to the blank line. `Full` is checked before each read, so an answer
that fills the buffer exactly is `Truncated`. The network may fail at any step,
also after the request has left; it may cut an answer short or bring none, and
power may be cut. `fault` remembers for `FaultFreeSucceeds` what befell a request.

### Boot

`main` from the W5500 probe to the start of bootstrap; the medium is chosen once
per boot. The panics on the way are those over the hardware, before there is an
interface, and those over what the build was given: `K3S_API_PORT`,
`K3S_API_HOST` and the length of `NODE_NAME` are looked at only after DHCP
(`build`, `BuildPanics`). A panic halts the executor and with it every task. The
connection task associates, fails, pauses and is dropped by an access point that
moves in and out of reach. The DHCP client is embassy-net's and external: it
binds while the link is up and forgets the address when the link is gone.
`wait_config_up` and `config_v4` are one step, as there is no await between
them; so the expect on the address has no step of its own.

### Calendar

`days_from_ymd` is `unix_from_ymdhms`, `ymd_from_days` the inverse in
`fmt_rfc3339`. A time is kept as its day and its second of the day, the split
`fmt_rfc3339` begins with: unix seconds outgrow TLC's integers in 2038. The
reference is the Gregorian calendar walked a day at a time: `Leap`,
`MonthLength`, `Tomorrow`. A Date header is a record of its parts; a part that
does not parse is a month without a number.

### WireBuffers

Texts are lengths. A template without its placeholders is a number, and what
fills it has the length of the node name, of the address, of a timestamp (27)
or of the wording of a condition, which `Conditions` evaluates from a sample.
Bootstrap and the reconcilers try their requests in the order of the code; a
body that does not fit is `BuildJson`, a head `Fmt`, a path a panic.
`WireAssumption` says what the board and its build may be: a heap below half a
megabyte, an address of 4 to 12 digits, a token of up to 1700 bytes
(`src/net/client.rs:118` reckons with about 1 KB).

### Led and LedRender

`Led` has the one-place signal, `main` and the lease task that set it, and
`led_task`: self-test, frames, flashes. A task may be polled up to `MaxDelay`
late, and up to `MaxLost` transmissions fail. `wrong` is a history variable: how
long the LED has shown something else than what was asked for last.
`LedAssumption` asks of the periods that the self-test with a frame, a flash,
and the frames that repeat what was lost are over within a renewal period. In
the code the self-test takes 0.8 s and a flash 0.1 s of the 10 s.
`LedRender` has the easing in truncated integers and the pulses of a colour.

### Fairness

`FairSpec` of `Kubelet` assumes weak fairness of: each task's next step (the executor polls
every task that has been woken), each task's `Acquire` (a free mutex wakes a
waiter; a task that keeps finding it taken has no claim, and none is needed
because the other one goes to sleep), the server handling a request
that no fault befalls (faults, which stand for errors and timeouts, are finite
in number), and the passing of time. Nothing is assumed of faults,
conditions, the controller or a late request: any of them may happen or not.

`FairSpec` of `SharedClient` assumes that the task holding the client is polled
and that the socket's timeout fires when the peer stays silent. The server need
never answer.

`FairSpec` of `Boot` assumes that `main`, the connection task and the network
task are polled, that a timer fires, and that DHCP answers on a link that is up.
That an attempt to associate succeeds in the end is not assumed as such: it
either succeeds or fails, and failing within reach of the access point is a
fault, of which there are finitely many. The properties themselves ask the
chosen medium to stay available.

No strong fairness is used.

## The runs

Small constants keep the shape of the real ones: a second is two ticks, so that
phases differ; the status period is a few renewal periods; the heap levels are
on both sides of every threshold a property is about.

| Run | Specification | Checks | Result |
|---|---|---|---|
| `status_delivery` | one boot on Ethernet, all four outcomes, heap at 10, 45, 80 of 100 | `TypeOK`, `StatusDelivered`, `PressureIsFelt` | holds |
| `two_boots` | a reboot anywhere, Date headers of two ages or none, late requests across the reboot | `TransitionNotAfterHeartbeat`, `StampsNotInFuture` | holds |
| `roaming` | re-associations at any moment, to the same or another access point, failing pushes, odd phases | `AssociationsStayCounted`, `AnchoredNeverSlips` | holds |
| `lease_timing` | seconds and period of two ticks, calls of 0 or 1, headers of any age, two faults among lost calls, late requests and reboots | `TypeOK`, `LeaseAgeBounded` | holds |
| `recovery` | `FairSpec`, one fault of any kind at any moment, conditions changing at will | `LeaseRecovers`, `ReadyRecovers`, `StatusConverges`, `ImplementsApiCall` | holds |
| `shared_client` | `FairSpec`, two tasks, every fault at every step, any number of requests | `TypeOK`, `AnswerIsTrue`, `FaultFreeSucceeds`, `CallEnds`, `ImplementsApiCall` | holds |
| `boot` | `FairSpec`, two access points, three faults, both kinds of build | `TypeOK`, `WifiHandedOver`, `BootCompletes`, `NetworkReturns` | holds |
| `board` | the behaviours of `Calendar`, `WireBuffers`, `Led` and `LedRender` | `AnchorIsServerTime`, `TimestampIsDate`, `ReconcilersCanSend`, `ShortNamesWork`, `SteadyFollows`, `LedTruthful`, `BreathIsSmooth`, `EaseIsExact`, `WireCarriesColor` | holds |
| `transition_times` | every call succeeds | `TransitionOnlyOnFlip` | violated |
| `rolling_window` | every call succeeds, no re-association before the loop starts | `CursedByRollingWindow` | violated |
| `anchor_retried` | `FairSpec`, one lost call | `AnchorRetried` | violated |
| `registration_retried` | `FairSpec`, one error answer | `RegistrationRetried` | violated |

Why the bounds suffice:

- `MaxClock` of the `NodeStatus` runs leaves, after a bootstrap in no time,
  several status rounds: a failed push, a heartbeat that becomes due, and a
  round after it. `MaxAssociations` exceeds `VIBES_CURSED_RECONNECTS`, so the
  cursed branch is taken; `MaxRenewals` crosses the first milestone of
  Existential.
- `status_delivery` and `two_boots` leave Wi-Fi out and `roaming` the heap: each
  run varies what its properties read.
- In `lease_timing`, `MaxAge` is above `AgeBound(1)` = 14: the invariant is not
  met by saturation. With these constants `AgeBound` is tight; for no and for
  one failed renewal, the bound minus one is violated. The conditions matter only
  through flips, so one view is as good as another and the two are symmetric.
  The theorem removes the bounds, and is what covers calls as long as the
  period, lost answers, deleted leases and the other faults.
- `recovery` has one fault. The properties say what happens after the last
  fault, and one fault already reaches the situations to recover from: a lease
  missing, stale or overwritten, a Node bare, stale, absent or Unknown, with
  each task anywhere. Combinations of several faults are not covered. The clock
  is behind by the age of the header; a second is one tick, so nothing is cut
  here. `LEASE_DURATION_SECS` = 9 is just above `AgeBound(0)` = 8.
- `shared_client` has a buffer of four cells, a head of two, and answers of two
  to five: shorter than, as long as and longer than the buffer, cut before, at
  and after the blank line. Request heads fit or do not. Up to two requests may
  be given up on and still with the server.
- `boot` has three faults, so that the link can be lost during the probe, while
  `main` waits for DHCP, and afterwards; a board that panicked stops, which is why
  this run does not check for deadlock.
- `board` joins four parts that share no state; `subject` says whose behaviour
  it is. The calendar runs through a whole Gregorian cycle. The buffers
  have the real tunables, samples on both sides of every threshold, and the name
  lengths where something stops fitting: at 61 the Node body has 2047 of its
  2048 bytes, at 65 the lease path all 128. The LED's periods keep their order,
  frame < flash < self-test colour < renewal. The rendering takes every
  millisecond of a breath and a half. Three of the four come to an end, so this
  run does not check for deadlock either.

The premise `Anchored` of the recovery properties is not a convenience. Without
an anchor each `renewTime` is in 1970 and no heartbeat is ever due, and nothing
recovers (see `anchor_retried`). Likewise `nodeView # "absent"`: see
`registration_retried`.

### What the age bound means for the real constants

With a second of `MS` ticks, `MaxBehind` is a round trip and two seconds less two
ticks: the header may be a round trip old, and it and the time since it are each
cut to a second. In real time, where calls take at most `D`,
`AgeBound(m)` stays below `(m+1) P + (2m+6) D + 2 s` when `D < P`, and below
`(m+1) P + (3m+7) D + 2 s` when calls may take longer, with `m` renewals failed in
a row. With `P` = 10 s and a lease of 40 s:

| failed in a row | lease stays fresh if every call is shorter than |
|---|---|
| 0 | 4.6 s |
| 1 | 2.2 s |
| 2 | 0.8 s |

Every call opens a new TLS connection, so these are limits on a handshake and an
exchange together. If calls may run into the 10 s timeout, the age may reach
82 s although no renewal failed: slow status pushes alone can expire the lease.

The bound is about the stamps this boot has sent and still owns. A request that
the client gave up on may be handled after a newer one and put an older stamp in
its place (nothing in the lease's PATCH guards against that); from then until the
next renewal is handled the state is `overtaken`, and the bound says nothing.

## The proofs

`KubeletProofs` proves, from `KubeletAssumption` alone (the constants are
natural numbers, the period is not zero, the two durations and `MaxBehind` lie
within `MaxAge`):

- `TypeCorrect`: `Spec => []TypeOK`. It needs `Holder`: who holds the lock is in
  a call, or the server could not tell what to handle.
- `LeaseAgeCorrect`: `Spec => []LeaseAgeBounded`, for every period, every bound
  on a round trip, every age of the Date header, any conditions and any number
  of faults, late requests included.
- `LeaseStaysFresh`: if `AgeBound(m) < LEASE_DURATION` and no more than `m`
  renewals in a row have failed, a stored Lease that is not `overtaken` is never
  seen expired.
- `KubeletImplementsApiCall`: `Spec => ImplementsApiCall`. The invariant is
  `CallInv`: types, `Holder`, and `LateIsACall`, that a late request is one some
  task made.

The bound itself is not inductive: it says nothing of a lease task that is
asleep while the status task is about to take the lock. `LeaseAgeInv` adds that.
Write `Budget` for the age the lease may have when a renewal gets the lock.

- `Sleeping`: the age leaves room for the rest of the sleep and for
  `StatusWork`, the time the status task may still hold the lock when the sleep
  is over. It is two round trips at most; less if the push began earlier, and
  none if the status task will still be asleep.
- `Waiting`: with the stamp taken, one of five situations (unhindered, after a
  push, before one, in its first call, in its second), each with what the stamp
  may have aged and what the lease may.
- `Renewing`: the same while the renewal is under way, and that an acknowledged
  renewal has stored its own stamp (`StampStored`), unless it is overtaken.
- `StampWithin`: an anchored stamp is older by `MaxBehind` at most than the time
  since it was taken; `BehindFacts` has that of a fresh one.
- `Recreating`, `Holding`, `Phases`: the second calls never wait; bootstrap and
  the reconcilers do not overlap.

The delicate case is a renewal that waited for a push. Its stamp is old when it
is stored, but the push is then just over and the status task sleeps for a whole
period, so if calls are shorter than the period the *next* renewal loses at most
one call to it, not two. That saves one round trip in each cycle, and it is why
the bound has two forms.

Each action has its own step in `AgeStep`. The products of `AgeBound` are
confined to `AgeBoundFacts`, so that the steps are linear.

`SharedClientProofs` proves, from `SharedClientAssumption` (sizes are natural
numbers, an answer has at least its head), for any number of tasks, any buffer
and any set of answer lengths:

- `ClientTypeCorrect`: `Spec => []TypeOK`; no more is read than the buffer holds.
- `AnswersAreTrue`: `Spec => []AnswerIsTrue`. It needs `OwnCells`: the first
  `total` cells are from this request, whatever the others are from, and nothing
  has been read before the request has been flushed.
- `ClientImplementsApiCall`: `Spec => ImplementsApiCall`, one step per action.
  The mapping calls an error a lost call, and a request out until the
  server has answered it.

`CalendarProofs` proves, from `CalendarAssumption`, for every last year and every
set of times of day:

- `AnchorIsCorrect`: `Spec => []AnchorIsServerTime`.
- `TimestampIsCorrect`: `Spec => []TimestampIsDate`.

Both rest on the invariant `Counted`: the date is a date of the calendar, and
`day` is what `days_from_ymd` makes of it. `CountsOn` says that `days_from_ymd`
of tomorrow is one more, in the middle of a month, at its end and at the end of
a year. `ReadsBack` says that `ymd_from_days` inverts it; the hard part is
`YearOfEra`, that the corrections by 1460, 36524 and 146096 days find the year,
with the year of the era written as century, four-year cycle and rest.

`BootProofs` proves, from `BootAssumption` (0 is no access point's BSSID), for
any number of faults: `BootTypeCorrect` and `WifiIsHandedOver`. The invariant has
three parts. `Interface`: `main` is past the probe if and only if there is an
interface, unless it has panicked, and only then an address.
`Radio`: only the connection task writes the statics, and over Wi-Fi an
address comes after a counted association. `Losses`: each further association
needs a loss of the link first.

`NodeStatusProofs` proves, from `StatusAssumption` and `TunablesAssumption`
(natural numbers; a positive second and slip threshold; the server's clock at
least a second past 1970 less the age of a header; the MemoryPressure threshold
at most 30 % of the heap), for any heap levels, access points, header ages and
call outcomes and any number of boots, rounds and associations:

| Theorem | States |
|---|---|
| `StatusTypeCorrect` | `TypeOK` |
| `Delivered` | `StatusDelivered` |
| `PressureFelt` | `PressureIsFelt` |
| `TransitionsPrecedeHeartbeats` | `TransitionNotAfterHeartbeat` |
| `NoStampFromTheFuture` | `StampsNotInFuture` |
| `NeverSlips` | `AnchoredNeverSlips` |
| `AssociationsCounted` | `AssociationsStayCounted` |

None of the seven is inductive: they speak of the stored Node, and what it will
say is already in a body on the way. `IInv` adds that.

- `BodiesInv` asks of the body in flight and of the late one what `Honest` asks
  of the stored conditions. That is why a late request of an earlier boot, over
  the Node of this one, does no harm.
- `SlotsInv`: no slot has flipped later than `unix_now_secs`, which makes the
  transition times of the *next* body honest. `ClockInv`: the anchor is not ahead
  of the instant it was stored at, so `unix_now_secs` is never ahead either.
- `SnapInv`: both clocks of a snapshot were read at one instant, and so were the
  two in `req` that will replace them. Then `DivDiff` applies: differences of
  truncated times differ by at most one second from truncated differences,
  and the slip detector asks for more.
- `AssocInv`: the count in the snapshot, and the one in `req` that will replace
  it, leave every unsampled association ahead.
- `DeliveryInv`: while a push is under way its body carries the slots; after
  an acknowledged first call the Node does.

Four lemmas carry most of the work: `StatusBody` (a body, field by field), `Push`
(what one sample makes of the slots and of the body), `PressureEvaluated`
(below the threshold Peckish and Vibes have one value each, whatever else the
sample says) and `DivDiff`. Each part of `IInv` has a lemma of its own
(`TypeStep`, `ClockStep`, ...) with one step per action that can disturb it.

`SharedClientProofs` also proves `FaultFreeRequestsSucceed`:
`Spec => []FaultFreeSucceeds`. `Unhurt` follows such a request: its head fitted,
all of its answer is on the way, and when the client closes it has read all of
it, so that the blank line is among the cells read.

`LedProofs` proves from `LedAssumption` `NoPatternLost`
(`LedSpec => []SteadyFollows`) and `LedIsTruthful` (`LedSpec => []LedTruthful`).
The argument is a bound on time: `ToSettle` bounds, state by state, how long the
LED still needs until nothing is to be taken and the wanted pattern is on show. A
tick takes one from it, a lost transmission adds a frame. Since `gap + ToSettle`
stays below a renewal period (`Settling`), a renewal never finds a steady
pattern in the signal that it would overwrite; since `wrong + ToSettle` stays
below the bound of `LedTruthful` (`Truthful`), the LED is not wrong for longer.
The self-test is the only time a pattern waits in the signal for long, and then
no renewal has ended yet.

`LedRenderProofs` proves `Smooth` (`BreathIsSmooth`), `Exact` (`EaseIsExact`) and
`Carries` (`WireCarriesColor`). TLC walks through a breath and a half; the lemmas
hold of every millisecond that is a natural number. `LevelStep` has the triangle
and its scaling, with the odd period of Connecting, whose top is skipped;
`EasedStep` that a step of the level moves the curve by at most 12 of 255, from
the inequalities that define the two truncated quotients; `EaseError` the exact
error in the two remainders. `Carried` is for all 2^24 colours, by the bits.

`WireBuffersProofs` proves from `WireAssumption` `CanSend`
(`WireSpec => []ReconcilersCanSend`) and `ShortNames`
(`WireSpec => []ShortNamesWork`), for every name length, address and sample: any
combination of reasons, not only the ones a sample of the run makes. The
invariant adds that past `NodeIdentity::new` the name has at most 65 characters
(`NamePassed`), which is what the lease path of 128 bytes leaves.

Only model-checked are `LeaseRecovers`, `ReadyRecovers`, `StatusConverges`,
`CallEnds`, `BootCompletes` and `NetworkReturns`: liveness under fairness, which
this prover does not handle. The properties of the four violation runs are
refuted, so there is nothing to prove. `IInv`, `LedInv` and `WireInv` were
checked with TLC on the constants of the runs before they were proved.

## Where the code and its comments disagree

The first four have a run that TLC refutes.

1. `README.md:40`: `lastTransitionTime` is "only updated when a condition's
   `status` field actually flips". Bootstrap creates the trackers after the
   registration and stamps them with the time of their creation; the initial
   push then moves the transition times of conditions that did not flip
   (`transition_times`). Every reboot does the same to the Node of the last boot.
2. `src/config.rs:40`: Vibes is Cursed "when wifi reassociates this many times
   within the rolling window". One re-association already makes Vibes Unknown,
   a flip causes a push, and a push restarts the count: re-associations a status
   round apart never add up (`rolling_window`).
3. `src/kubelet.rs:91`: when the call to `/version` fails, "failed to anchor clock,
   will retry" and "we'll try again there". Nothing calls `set_wall_clock` again
   (`anchor_retried`).
4. `src/net/http.rs:15`: "HTTP 5xx, treat as transient and retry." The
   registration is not retried, and every later status PATCH is a 404
   (`registration_retried`).

The models show four more on the way, which no run is about:

5. `src/reconcilers/status.rs:111`: TimeSlipped "Hits if someone re-anchored the
   wall clock mid-flight (currently no one does". A clock that was never
   anchored stands at 0 while the monotonic clock runs, and slips. The other half
   is true: with an anchor it never hits (`AnchoredNeverSlips`).
6. `src/k8s/models.rs:4`: bodies go to "heapless buffers [...] pre-sized by the
   caller". A node name of 62 to 65 characters passes `NodeIdentity::new`, but its
   Node body may exceed the 2048 bytes of `src/kubelet.rs:98`; `register_node`
   logs that and the Node is never registered. Longer names panic at
   `src/kubelet.rs:43`. `ShortNamesWork` has the limit.
7. `README.md:101`: white is shown "after self-test, before network init". `main`
   does not wait for the self-test; when white is shown the network is being set
   up.
8. `README.md:34`: the code path for Ethernet "isn't there yet". It is:
   `src/main.rs:116`.

## What is not modelled

- Log lines and their rotation (`status_ok_idx`, milestones), labels and
  capacity of the Node, and its addresses: after a 409 the stored Node keeps
  those of an earlier boot.
- More than one request on the way to the server after its client gave up, in
  `Kubelet` and `NodeStatus`. `SharedClient` has several.
- The seeding of the TLS random generator, and TLS beyond how it may fail.
- Dates before 1970 or with fields out of range, which no server sends.
- The branch of `led_task` for a SelfTest signal, which nothing sends.
- Wrap-around of `u32` counters (lease renewals every 10 s: 1 361 years) and
  `i64` seconds.
- Build files, deployment manifests, module lists.

## Plan

In order of what they would tell us about the code:

1. For `Kubelet`: an abstract heartbeat source (a stamp that is never older than
   a bound while the owner is healthy) and a proof that `Kubelet` implements it.
2. For `Kubelet`: a bound on the age of `lastHeartbeatTime`, along the lines of
   `LeaseAgeInv`.
3. `NodeStatus` as an implementation of an abstract status store: what is
   stored is one of the bodies that some boot built, in an order in which only
   the late one may be overtaken.
