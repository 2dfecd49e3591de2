------------------------------- MODULE LedProofs -------------------------------
(***************************************************************************)
(* Proofs about Led: no steady pattern is lost in the one-place LED_SIGNAL *)
(* and the LED is never wrong for longer than LedTruthful says, for every  *)
(* frame period, flash, self-test, delay and number of lost transmissions  *)
(* that LedAssumption admits.                                              *)
(*                                                                         *)
(* The argument is about time.  ToSettle bounds the time until the LED has *)
(* settled (nothing to take, the wanted pattern on show).  A tick takes    *)
(* one from it, a lost transmission gives it another frame, and so the LED *)
(* has settled before a renewal period is over: a renewal never finds a    *)
(* pattern in the signal that it could overwrite.                          *)
(***************************************************************************)
EXTENDS Led, Integers, TLAPS

-----------------------------------------------------------------------------
(* The inductive invariant. *)

\* led_task is alive.
Running == main = "network" /\ at # "ended"

\* Types, and the little that hangs together with them.
LedTypes ==
  /\ main \in {"booting", "network"}
  /\ at \in {"unborn", "start", "test", "listen", "flash", "ended"}
  /\ tx \in {"idle", "busy"}
  /\ timer \in Nat /\ gap \in Nat /\ wrong \in Nat
  /\ owed \in 0 .. MaxDelay
  /\ lost \in 0 .. MaxLost
  /\ at \in {"unborn", "start", "ended"} => tx = "idle"
  /\ at = "test" => color \in 1 .. 4
  /\ main = "booting" <=> at = "unborn"

\* Nothing happens before main's first poll.
Booting ==
  main = "booting" =>
    /\ signal = "none" /\ wanted = "none" /\ gap = 0
    /\ tx = "idle" /\ owed = 0 /\ wrong = 0 /\ shown = "OFF"

\* Who follows whom: a steady pattern is in the signal or has been taken.
Content ==
  Running =>
    /\ wanted \in {"Connecting", "Healthy"}
    /\ signal \in {"none", "Activity", "Connecting", "Healthy"}
    /\ at \in {"start", "test"} =>
         /\ signal = "Connecting" /\ wanted = "Connecting"
         /\ shown \in {"OFF", "RED", "GREEN", "BLUE"}
    /\ at = "flash" => signal = "none" /\ steady = wanted
    /\ at = "listen" /\ signal \in {"none", "Activity"} => steady = wanted
    /\ at = "listen" /\ signal \in {"Connecting", "Healthy"} =>
         signal = wanted /\ steady # wanted /\ shown # wanted
    /\ signal = "Activity" =>
         wanted = "Healthy" /\ shown = wanted /\ wrong = 0

\* Nothing is to be taken and the LED shows the wanted pattern.
Settled == at = "listen" /\ signal = "none" /\ shown = wanted

\* Time until led_task notices that the timer it waits for, or is about to set
\* to `period`, has fired.
Wait(period) ==
  IF tx = "busy" THEN MaxDelay - owed + period + MaxDelay
  ELSE IF timer > 0 THEN timer + MaxDelay
  ELSE MaxDelay - owed

\* Time until led_task takes the pending signal; a frame may come first.
ToSignal == MaxDelay - owed + (IF tx = "idle" THEN MaxDelay ELSE 0)

\* One colour of the self-test, with its two late polls, and those to come.
ColorTime == TEST_STEP + 2 * MaxDelay

ColorsLeft ==
  IF color = 1 THEN 3 * ColorTime
  ELSE IF color = 2 THEN 2 * ColorTime
  ELSE IF color = 3 THEN ColorTime ELSE 0

\* An upper bound of the time until the LED has settled, if nothing is lost.
ToSettle ==
  IF at = "start" THEN MaxDelay - owed + 4 * ColorTime + FrameTime
  ELSE IF at = "test" THEN Wait(TEST_STEP) + ColorsLeft + FrameTime
  ELSE IF at = "flash" THEN Wait(ACTIVITY_FLASH)
  ELSE IF signal = "Activity" THEN ToSignal + ACTIVITY_FLASH + 2 * MaxDelay
  ELSE IF signal # "none" THEN ToSignal + FRAME_PERIOD + MaxDelay
  ELSE IF shown # wanted THEN Wait(FRAME_PERIOD)
  ELSE 0

\* What the lost transmissions so far may have cost.
Slack == lost * FrameTime

\* The time from a signal to a settled LED.
SettleTime ==
  IF TestTime + FrameTime > ACTIVITY_FLASH + 4 * MaxDelay
  THEN TestTime + FrameTime ELSE ACTIVITY_FLASH + 4 * MaxDelay

\* The LED has settled well before the next renewal.
Settling ==
  Running /\ (~Settled \/ wrong > 0) => gap + ToSettle <= SettleTime + Slack

\* The bound of LedTruthful
Lateness ==
  IF wanted = "Connecting" THEN TestTime + FrameTime
  ELSE IF FrameTime > ACTIVITY_FLASH + MaxDelay
  THEN MaxDelay + FrameTime ELSE ACTIVITY_FLASH + 2 * MaxDelay

\* While the LED is wrong, the time it has been and the time it will be.
Truthful ==
  Running =>
    /\ shown # wanted => wrong + ToSettle <= Lateness + Slack
    /\ shown = wanted => wrong <= Lateness + Slack

LedInv == LedTypes /\ Booting /\ Content /\ Settling /\ Truthful

-----------------------------------------------------------------------------
(* The times. *)

\* The constants are natural numbers, and the settling time covers the self-test
\* and the flash.
LEMMA Constants ==
  /\ FRAME_PERIOD \in Nat /\ ACTIVITY_FLASH \in Nat /\ TEST_STEP \in Nat
  /\ RENEW \in Nat /\ MaxDelay \in Nat
  /\ FrameTime \in Nat /\ FrameTime = FRAME_PERIOD + 2 * MaxDelay
  /\ ColorTime \in Nat /\ ColorTime = TEST_STEP + 2 * MaxDelay
  /\ TestTime = MaxDelay + 4 * ColorTime
  /\ SettleTime \in Nat
  /\ SettleTime >= TestTime + FrameTime
  /\ SettleTime >= ACTIVITY_FLASH + 4 * MaxDelay
<1>1. /\ FRAME_PERIOD \in Nat /\ ACTIVITY_FLASH \in Nat /\ TEST_STEP \in Nat
      /\ RENEW \in Nat /\ MaxDelay \in Nat
  BY LedAssumption
<1> QED
  BY <1>1 DEF FrameTime, ColorTime, TestTime, SettleTime

\* Each lost transmission is worth one frame, and all of them together leave
\* the LED time to settle within a renewal period.
LEMMA SlackFacts ==
  ASSUME LedTypes
  PROVE  /\ Slack \in Nat
         /\ SettleTime + Slack < RENEW
         /\ lost' = lost => Slack' = Slack
         /\ lost' = lost + 1 => Slack' = Slack + FrameTime
<1>1. /\ lost \in Nat /\ MaxLost \in Nat /\ lost <= MaxLost
      /\ FrameTime \in Nat
  BY LedAssumption, Constants DEF LedTypes
<1>2. /\ lost * FrameTime \in Nat
      /\ lost * FrameTime <= MaxLost * FrameTime
      /\ (lost + 1) * FrameTime = lost * FrameTime + FrameTime
  BY <1>1
<1>3. SettleTime + MaxLost * FrameTime < RENEW
  <2>1. MaxLost * FrameTime \in Nat
    BY <1>1
  <2> QED
    BY <2>1, Constants, LedAssumption DEF SettleTime
<1>4. MaxLost * FrameTime \in Nat
  BY <1>1
<1>5. SettleTime + Slack < RENEW
  BY <1>2, <1>3, <1>4, Constants DEF Slack
<1>6. FrameTime' = FrameTime
  BY DEF FrameTime
<1> QED
  BY <1>2, <1>5, <1>6 DEF Slack

\* A transmission reaches the LED, or is lost.
LEMMA Written ==
  ASSUME LedTypes, NEW c, write_await(c)
  PROVE  /\ tx' = "busy" /\ lost' \in 0 .. MaxLost
         /\ \/ shown' = c /\ Slack' = Slack
            \/ shown' = shown /\ Slack' = Slack + FrameTime
  BY SlackFacts, LedAssumption DEF write_await, LedTypes

\* When a renewal may end, the LED has settled and its last error is forgotten.
LEMMA SettledForRenewal ==
  ASSUME LedInv, Running, gap >= RENEW
  PROVE  Settled /\ wrong = 0
<1>1. ToSettle >= 0 /\ ToSettle \in Int
  BY Constants DEF LedInv, LedTypes, ToSettle, Wait, ToSignal, ColorsLeft
<1>2. gap \in Nat /\ wrong \in Nat /\ Slack \in Nat
  BY SlackFacts DEF LedInv, LedTypes
<1> QED
  BY <1>1, <1>2, SlackFacts, Constants DEF LedInv, Settling

-----------------------------------------------------------------------------
(* The steps. *)

\* The board that has just been powered on satisfies the invariant.
LEMMA LedInitInv == LedInit => LedInv
  BY LedAssumption
  DEF LedInit, LedInv, LedTypes, Booting, Content, Settling, Truthful, Running

\* Every step of main, the lease reconciler, led_task and time keeps it.
LEMMA LedStepInv == LedInv /\ [LedNext]_ledVars => LedInv'
<1> SUFFICES ASSUME LedInv, [LedNext]_ledVars PROVE LedInv'
  OBVIOUS
<1>t. LedTypes /\ Booting /\ Content /\ Settling /\ Truthful
  BY DEF LedInv
<1>s. /\ Slack \in Nat
      /\ lost' = lost => Slack' = Slack
  BY <1>t, SlackFacts
<1> USE <1>t, <1>s, Constants
<1> USE DEF LedTypes, Running
<1>1. CASE MainBoots
  <2>1. Slack' = Slack
    BY <1>1 DEF MainBoots
  <2>2. LedTypes' /\ Booting' /\ Content'
    BY <1>1 DEF MainBoots, Booting, Content
  <2>3. Settling' /\ Truthful'
    BY <1>1, <2>1 DEF MainBoots, Booting, Settling, Truthful, ToSettle, Lateness,
      Settled
  <2> QED
    BY <2>2, <2>3 DEF LedInv
<1>2. CASE Renewed
  <2>0. CASE at = "ended"
    BY <1>2, <2>0 DEF Renewed, task, LedInv, Booting, Content, Settling, Truthful
  <2>1. CASE at # "ended"
    <3>1. Settled /\ wrong = 0
      BY <1>2, <2>1, SettledForRenewal DEF Renewed
    <3>2. Slack' = Slack /\ UNCHANGED <<main, task, shown, owed, lost, wrong>>
      BY <1>2 DEF Renewed
    <3>3. /\ gap' = 0 /\ main = "network" /\ wanted' = "Healthy"
          /\ signal' = IF wanted = "Healthy" THEN "Activity" ELSE "Healthy"
      BY <1>2 DEF Renewed
    <3>4. LedTypes' /\ Booting' /\ Content'
      BY <2>1, <3>1, <3>2, <3>3 DEF Booting, Content, Settled, task
    <3>5. Settling' /\ Truthful'
      BY <2>1, <3>1, <3>2, <3>3 DEF task, Content, Settling, Truthful, Settled,
         ToSettle, ToSignal, Lateness
    <3> QED
      BY <3>4, <3>5 DEF LedInv
  <2> QED
    BY <2>0, <2>1
<1>3. CASE InitFails
  BY <1>3 DEF InitFails, Poll, clients, LedInv, Booting, Content, Settling, Truthful
<1>4. CASE Transmitted
  <2>1. Slack' = Slack
    BY <1>4 DEF Transmitted
  <2>2. LedTypes' /\ Booting' /\ Content'
    BY <1>4 DEF Transmitted, Poll, clients, Period, Booting, Content
  <2>3. Settling' /\ Truthful'
    BY <1>4, <2>1 DEF Transmitted, Poll, clients, Period, Booting, Content,
       Settling, Truthful, Settled, ToSettle, Wait, ToSignal, ColorsLeft, Lateness
  <2> QED
    BY <2>2, <2>3 DEF LedInv
<1>5. CASE Tick
  <2>1. Slack' = Slack
    BY <1>5 DEF Tick
  <2>2. LedTypes' /\ Booting' /\ Content'
    BY <1>5 DEF Tick, Booting, Content
  <2>3. Settling'
    BY <1>5, <2>1 DEF Tick, Runnable, Content, Settling, Settled,
       ToSettle, Wait, ToSignal, ColorsLeft
  <2>4. Truthful'
    BY <1>5, <2>1 DEF Tick, Runnable, Content, Truthful, Settled,
       ToSettle, Wait, ToSignal, ColorsLeft, Lateness
  <2> QED
    BY <2>2, <2>3, <2>4 DEF LedInv
<1>6. CASE StartTest \/ NextColor
  <2>1. PICK n \in 1 .. 4 : /\ TestColor(n)
                            /\ \/ at = "start" /\ n = 1
                               \/ Fired("test") /\ n = color + 1
    <3>1. CASE StartTest
      BY <3>1 DEF StartTest
    <3>2. CASE NextColor
      <4>1. /\ Fired("test") /\ TestColor(color + 1)
            /\ color + 1 \in 1 .. 4
        BY <3>2 DEF NextColor, Fired
      <4> QED
        BY <4>1
    <3> QED
      BY <1>6, <3>1, <3>2
  <2>2. /\ tx' = "busy" /\ lost' \in 0 .. MaxLost
        /\ \/ shown' = SelfTest[n] /\ Slack' = Slack
           \/ shown' = shown /\ Slack' = Slack + FrameTime
    BY <2>1, Written DEF TestColor
  <2>3. SelfTest[n] \in {"OFF", "RED", "GREEN", "BLUE"}
    BY DEF SelfTest
  <2>4. /\ at' = "test" /\ color' = n /\ owed' = 0
        /\ UNCHANGED <<main, wanted, gap, wrong, signal, timer, steady>>
    BY <2>1 DEF TestColor, Poll, clients
  <2>5. at \in {"start", "test"}
    BY <2>1 DEF Fired
  <2>6. LedTypes' /\ Booting' /\ Content'
    BY <2>2, <2>3, <2>4, <2>5 DEF Booting, Content
  <2>7. Settling' /\ Truthful'
    BY <2>1, <2>2, <2>4, <2>5 DEF Fired, Content, Settling, Truthful, Settled,
       ToSettle, Wait, ColorsLeft, Lateness
  <2> QED
    BY <2>6, <2>7 DEF LedInv
<1>7. CASE TestDone
  <2>2. /\ tx' = "busy" /\ lost' \in 0 .. MaxLost
        /\ \/ shown' = "Booting" /\ Slack' = Slack
           \/ shown' = shown /\ Slack' = Slack + FrameTime
    BY <1>7, Written DEF TestDone
  <2>3. /\ at' = "listen" /\ owed' = 0 /\ steady' = "Booting"
        /\ UNCHANGED <<main, wanted, gap, wrong, signal, timer, color>>
        /\ at = "test" /\ tx = "idle" /\ timer = 0 /\ color = 4
    BY <1>7 DEF TestDone, Fired, Poll, clients
  <2>6. LedTypes' /\ Booting' /\ Content'
    BY <2>2, <2>3 DEF Booting, Content
  <2>7. Settling' /\ Truthful'
    BY <2>2, <2>3 DEF Content, Settling, Truthful, Settled,
       ToSettle, Wait, ToSignal, ColorsLeft, Lateness
  <2> QED
    BY <2>6, <2>7 DEF LedInv
<1>8. CASE Frame \/ FlashOver
  <2>2. /\ tx' = "busy" /\ lost' \in 0 .. MaxLost
        /\ \/ shown' = steady /\ Slack' = Slack
           \/ shown' = shown /\ Slack' = Slack + FrameTime
    BY <1>8, Written DEF Frame, FlashOver
  <2>3. /\ at' = "listen" /\ owed' = 0
        /\ UNCHANGED <<main, wanted, gap, wrong, signal, timer, color, steady>>
        /\ at \in {"listen", "flash"} /\ tx = "idle" /\ timer = 0
    BY <1>8 DEF Frame, FlashOver, Fired, Poll, clients
  <2>6. LedTypes' /\ Booting' /\ Content'
    BY <2>2, <2>3 DEF Booting, Content
  <2>7. Settling' /\ Truthful'
    BY <2>2, <2>3 DEF Content, Settling, Truthful, Settled,
       ToSettle, Wait, ToSignal, Lateness
  <2> QED
    BY <2>6, <2>7 DEF LedInv
<1>9. CASE TakeActivity
  <2>2. /\ tx' = "busy" /\ lost' \in 0 .. MaxLost
        /\ \/ shown' = "YELLOW" /\ Slack' = Slack
           \/ shown' = shown /\ Slack' = Slack + FrameTime
    BY <1>9, Written DEF TakeActivity
  <2>3. /\ at' = "flash" /\ owed' = 0 /\ signal' = "none"
        /\ UNCHANGED <<main, wanted, gap, wrong, timer, color, steady>>
        /\ at = "listen" /\ signal = "Activity"
    BY <1>9 DEF TakeActivity, Take, Poll, clients
  <2>6. LedTypes' /\ Booting' /\ Content'
    BY <2>2, <2>3 DEF Booting, Content
  <2>7. Settling' /\ Truthful'
    BY <2>2, <2>3 DEF Content, Settling, Truthful, Settled,
       ToSettle, Wait, ToSignal, Lateness
  <2> QED
    BY <2>6, <2>7 DEF LedInv
<1>10. CASE TakeSteady
  <2>1. Slack' = Slack
    BY <1>10 DEF TakeSteady
  <2>2. LedTypes' /\ Booting' /\ Content'
    BY <1>10 DEF TakeSteady, Take, Poll, clients, Booting, Content
  <2>3. Settling' /\ Truthful'
    BY <1>10, <2>1 DEF TakeSteady, Take, Poll, clients, Content,
       Settling, Truthful, Settled, ToSettle, Wait, ToSignal, Lateness
  <2> QED
    BY <2>2, <2>3 DEF LedInv
<1>11. CASE UNCHANGED ledVars
  <2>1. Slack' = Slack
    BY <1>11 DEF ledVars
  <2> QED
    BY <1>11, <2>1 DEF ledVars, clients, task, LedInv, Booting, Content, Settling,
       Truthful, Settled, ToSettle, Wait, ToSignal, ColorsLeft, Lateness
<1> QED
  BY <1>1, <1>2, <1>3, <1>4, <1>5, <1>6, <1>7, <1>8, <1>9, <1>10, <1>11
  DEF LedNext, LedTask

-----------------------------------------------------------------------------
(* The theorems. *)

\* No steady pattern is lost in LED_SIGNAL, however late led_task is polled:
\* a signal is always taken before the next renewal can replace it.
THEOREM NoPatternLost == LedSpec => []SteadyFollows
<1>1. LedInv => SteadyFollows
  BY DEF LedInv, LedTypes, Booting, Content, Running, SteadyFollows
<1> QED
  BY <1>1, LedInitInv, LedStepInv, PTL DEF LedSpec

\* The LED shows what was asked for up to the stated lateness, for every
\* period, delay and number of lost transmissions that a renewal period
\* leaves room for.
THEOREM LedIsTruthful == LedSpec => []LedTruthful
<1>1. LedInv => LedTruthful
  <2> SUFFICES ASSUME LedInv, at # "ended"
               PROVE  wrong <= lost * FrameTime + Lateness
    BY DEF LedTruthful, Lateness
  <2>1. LedTypes /\ Booting /\ Truthful /\ Slack \in Nat
    BY SlackFacts DEF LedInv
  <2>2. Lateness \in Nat
    BY Constants DEF Lateness
  <2>3. ToSettle \in Nat
    BY <2>1, Constants
    DEF LedTypes, ToSettle, Wait, ToSignal, ColorsLeft
  <2>4. wrong <= Lateness + Slack
    BY <2>1, <2>2, <2>3 DEF LedTypes, Booting, Truthful, Running
  <2> QED
    BY <2>1, <2>2, <2>4 DEF Slack, LedTypes
<1> QED
  BY <1>1, LedInitInv, LedStepInv, PTL DEF LedSpec

=============================================================================
