--------------------------------- MODULE Led ----------------------------------
(***************************************************************************)
(* The LED task (led.rs) between main and the lease reconciler, which ask  *)
(* for patterns through LED_SIGNAL, a Signal that holds one value: a       *)
(* pattern that is set before the last one was taken replaces it.          *)
(*                                                                         *)
(* Time is in ticks.  The executor is cooperative, so the LED task may be  *)
(* polled late: up to MaxDelay after it could have run.  Colours that only *)
(* the steady patterns show are named by the pattern; LedRender has them.  *)
(* No code sets SelfTest, Warning, Disconnected or Panic.                  *)
(***************************************************************************)
EXTENDS Naturals

CONSTANTS
  FRAME_PERIOD,    \* FRAME_PERIOD_MS, 33
  ACTIVITY_FLASH,  \* ACTIVITY_FLASH_MS, 100
  TEST_STEP,       \* 200 ms for each colour of the self-test
  RENEW,           \* LEASE_RENEW_PERIOD_SECS: renewals are at least this apart
  MaxDelay,        \* how late a task may be polled
  MaxLost,         \* RMT transmissions that may fail
  MaxWrong         \* the history variable wrong saturates here

\* How long the self-test may take, and the time from one frame to the next.
\* A poll may be late after a transmission and again after its timer.
TestTime == MaxDelay + 4 * (TEST_STEP + 2 * MaxDelay)
FrameTime == FRAME_PERIOD + 2 * MaxDelay

\* A renewal period (10 s) outlasts the self-test (0.8 s) with a frame, or a
\* flash (0.1 s), and the frames that make good what was lost.
ASSUME LedAssumption ==
  /\ FRAME_PERIOD \in Nat /\ ACTIVITY_FLASH \in Nat /\ TEST_STEP \in Nat
  /\ RENEW \in Nat
  /\ MaxDelay \in Nat /\ MaxLost \in Nat /\ MaxWrong \in Nat
  /\ TestTime + FrameTime + MaxLost * FrameTime < RENEW
  /\ ACTIVITY_FLASH + 4 * MaxDelay + MaxLost * FrameTime < RENEW

VARIABLES
  main,     \* "booting", then "network" from main's first poll on
  signal,   \* LED_SIGNAL, or "none"
  wanted,   \* the last steady pattern set; Healthy iff LeaseReconciler::healthy
  gap,      \* time since the lease reconciler last ended a renewal
  at,       \* where led_task is
  tx,       \* "busy" while it awaits a transmission: its timer is not set yet
  timer,    \* until the Timer that it waits for fires
  color,    \* of the self-test
  steady,   \* led_task's local
  shown,    \* what the WS2812 was last sent
  owed,     \* how long led_task could have run
  lost,     \* failed transmissions so far
  wrong     \* history: how long the LED has shown something else than wanted

clients == <<main, wanted, gap>>
task == <<at, tx, timer, color, steady>>
ledVars == <<clients, signal, task, shown, owed, lost, wrong>>

SelfTest == <<"RED", "GREEN", "BLUE", "OFF">>

LedInit ==
  /\ main = "booting"
  /\ signal = "none" /\ wanted = "none" /\ gap = 0
  /\ at = "unborn" /\ tx = "idle" /\ timer = 0 /\ color = 0 /\ steady = "Booting"
  /\ shown = "OFF"
  /\ owed = 0 /\ lost = 0 /\ wrong = 0

-----------------------------------------------------------------------------
(* The callers of led::set. *)

\* main spawns led_task, sets Connecting and goes on to the network without
\* an await in between, so led_task first runs with the signal set.
MainBoots ==
  /\ main = "booting" /\ main' = "network"
  /\ at' = "start"
  /\ signal' = "Connecting" /\ wanted' = "Connecting"
  /\ UNCHANGED <<gap, tx, timer, color, steady, shown, owed, lost, wrong>>

\* Slip: the first renewal sets Healthy and then Activity as well.
Renewed_flashes_at_once ==
  /\ main = "network" /\ gap >= RENEW
  /\ signal' = "Activity"
  /\ wanted' = "Healthy"
  /\ gap' = 0
  /\ UNCHANGED <<main, task, shown, owed, lost, wrong>>

\* LeaseRenewal::Renewed: Healthy the first time, then Activity.  A failed
\* renewal sets nothing, so the gap may be longer.
Renewed ==
  /\ main = "network" /\ gap >= RENEW
  /\ signal' = IF wanted = "Healthy" THEN "Activity" ELSE "Healthy"
  /\ wanted' = "Healthy"
  /\ gap' = 0
  /\ UNCHANGED <<main, task, shown, owed, lost, wrong>>

-----------------------------------------------------------------------------
(* led_task. *)

Runnable ==
  \/ at = "start"
  \/ at \in {"test", "listen", "flash"} /\ (tx = "busy" \/ timer = 0)
  \/ at = "listen" /\ signal # "none"

\* `let _ = write(..).await`: a transmission that fails leaves the LED as it
\* was.
write_await(c) ==
  /\ tx' = "busy"
  /\ \/ shown' = c /\ lost' = lost
     \/ lost < MaxLost /\ lost' = lost + 1 /\ shown' = shown

Poll == owed' = 0 /\ UNCHANGED <<clients, wrong>>

\* The RMT peripheral or its channel cannot be set up: the task returns.
InitFails ==
  /\ at = "start" /\ at' = "ended"
  /\ Poll
  /\ UNCHANGED <<signal, tx, timer, color, steady, shown, lost>>

\* The Timer that follows a transmission is created when the task is polled
\* again.  At the top of the loop select looks at the signal in the same poll.
Period == [test |-> TEST_STEP, flash |-> ACTIVITY_FLASH, listen |-> FRAME_PERIOD]

Transmitted ==
  /\ tx = "busy" /\ (at = "listen" => signal = "none")
  /\ tx' = "idle" /\ timer' = Period[at]
  /\ Poll
  /\ UNCHANGED <<signal, at, color, steady, shown, lost>>

Fired(s) == at = s /\ tx = "idle" /\ timer = 0

TestColor(n) ==
  /\ at' = "test" /\ color' = n
  /\ write_await(SelfTest[n])
  /\ Poll
  /\ UNCHANGED <<signal, timer, steady>>

StartTest == at = "start" /\ TestColor(1)
NextColor == Fired("test") /\ color < 4 /\ TestColor(color + 1)

\* led_task enters its loop with Booting.
TestDone ==
  /\ Fired("test") /\ color = 4
  /\ steady' = "Booting"
  /\ write_await("Booting")
  /\ at' = "listen"
  /\ Poll
  /\ UNCHANGED <<signal, timer, color>>

\* Either::First, also when a signal is there as well
Frame ==
  /\ Fired("listen")
  /\ write_await(steady)
  /\ Poll
  /\ UNCHANGED <<signal, at, timer, color, steady>>

Take ==
  /\ at = "listen" /\ (tx = "busy" \/ timer > 0)
  /\ signal' = "none"

TakeActivity ==
  /\ Take /\ signal = "Activity"
  /\ write_await("YELLOW")
  /\ at' = "flash"
  /\ Poll
  /\ UNCHANGED <<timer, color, steady>>

\* Nothing is written: the next frame shows the new pattern.
TakeSteady ==
  /\ Take /\ signal \in {"Connecting", "Healthy"}
  /\ steady' = signal
  /\ tx' = "idle" /\ timer' = FRAME_PERIOD
  /\ Poll
  /\ UNCHANGED <<at, color, shown, lost>>

\* Slip: the flash is left for the next frame to take back.
FlashOver_stays_yellow ==
  /\ Fired("flash")
  /\ at' = "listen" /\ timer' = FRAME_PERIOD
  /\ Poll
  /\ UNCHANGED <<signal, tx, color, steady, shown, lost>>

FlashOver ==
  /\ Fired("flash")
  /\ write_await(steady)
  /\ at' = "listen"
  /\ Poll
  /\ UNCHANGED <<signal, timer, color, steady>>

-----------------------------------------------------------------------------

Tick ==
  /\ main = "network"
  /\ Runnable => owed < MaxDelay
  /\ owed' = IF Runnable THEN owed + 1 ELSE 0
  /\ timer' = IF timer > 0 THEN timer - 1 ELSE 0
  /\ gap' = IF gap < RENEW THEN gap + 1 ELSE gap
  /\ wrong' = IF shown = wanted THEN 0
              ELSE IF wrong < MaxWrong THEN wrong + 1 ELSE wrong
  /\ UNCHANGED <<main, wanted, signal, at, tx, color, steady, shown, lost>>

LedTask == InitFails \/ Transmitted \/ StartTest \/ NextColor \/ TestDone \/ Frame
           \/ TakeActivity \/ TakeSteady \/ FlashOver

LedNext == MainBoots \/ Renewed \/ LedTask \/ Tick

LedSpec == LedInit /\ [][LedNext]_ledVars

-----------------------------------------------------------------------------
(* Correctness. *)

\* No steady pattern is lost in the one-place signal: a task that has nothing
\* to take follows the last one that was set.
SteadyFollows ==
  at = "listen" /\ signal = "none" => steady = wanted

\* The LED shows what was asked for, up to the time it takes to get to it:
\* the self-test at boot, then a signal and the frame after it, or a flash.
\* A failed transmission is made good by the next frame.
LedTruthful ==
  at # "ended" =>
    wrong <= lost * FrameTime +
               (IF wanted = "Connecting" THEN TestTime + FrameTime
                ELSE IF FrameTime > ACTIVITY_FLASH + MaxDelay
                THEN MaxDelay + FrameTime ELSE ACTIVITY_FLASH + 2 * MaxDelay)
=============================================================================
