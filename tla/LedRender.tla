------------------------------ MODULE LedRender -------------------------------
(***************************************************************************)
(* What the LED task sends to the WS2812 (led.rs): render_steady in the    *)
(* integer arithmetic of the code, and the framing of a colour as pulses.  *)
(* The module walks through a breath of each steady pattern, one           *)
(* millisecond a step.                                                     *)
(***************************************************************************)
EXTENDS Integers, Sequences

VARIABLES pattern, elapsed_ms

renderVars == <<pattern, elapsed_ms>>

LED_BRIGHTNESS_CAP == 38

Color(r, g, b) == [r |-> r, g |-> g, b |-> b]

\* The period and the full colour of each pattern that breathes
PeriodMs == [Connecting |-> 667, Healthy |-> 3000]
Full == [Connecting |-> Color(0, 0, LED_BRIGHTNESS_CAP),
         Healthy |-> Color(0, LED_BRIGHTNESS_CAP, 0)]

Breathing == {"Connecting", "Healthy"}

AtMost(a, b) == IF a < b THEN a ELSE b

\* Slip: the falling half of the triangle is left out.
tri_sawtooth(elapsed, period) == elapsed % period

tri(elapsed, period) ==
  LET t == elapsed % period
  IN  IF t < period \div 2 THEN t ELSE period - t

level(elapsed, period) ==
  AtMost((tri(elapsed, period) * 255) \div (period \div 2), 255)

\* Slip: the cube is left at the square.
eased_squared(n) ==
  LET n_sq == (n * n) \div 255
  IN  AtMost(3 * n_sq - 2 * n_sq, 255)

\* smoothstep 3n^2 - 2n^3, scaled by 255 with each product truncated
eased(n) ==
  LET n_sq == (n * n) \div 255
      n_cu == (n_sq * n) \div 255
  IN  AtMost(3 * n_sq - 2 * n_cu, 255)

breathe_pct(elapsed, period) == 5 + (eased(level(elapsed, period)) * 20) \div 255

breathe(elapsed, p) ==
  LET pct == breathe_pct(elapsed, PeriodMs[p])
  IN  [ch \in {"r", "g", "b"} |-> (Full[p][ch] * pct) \div 100]

render_steady(p, elapsed) ==
  CASE p = "Booting" -> Color(LED_BRIGHTNESS_CAP, LED_BRIGHTNESS_CAP,
                              LED_BRIGHTNESS_CAP)
    [] p \in Breathing -> breathe(elapsed, p)
    [] OTHER -> Color(0, 0, 0)

\* PulseCode::new(High, h, Low, l) in ticks of 12.5 ns
Pulse(bit) == IF bit = 1 THEN [high |-> 64, low |-> 36]
                         ELSE [high |-> 32, low |-> 68]

\* Slip: red first.
write_rgb(c) ==
  LET rgb == c.r * 65536 + c.g * 256 + c.b
  IN  [i \in 1 .. 24 |-> Pulse((rgb \div 2^(24 - i)) % 2)]

\* The 24 pulses before the end marker: GRB, most significant bit first
write(c) ==
  LET grb == c.g * 65536 + c.r * 256 + c.b
  IN  [i \in 1 .. 24 |-> Pulse((grb \div 2^(24 - i)) % 2)]

-----------------------------------------------------------------------------

\* Warning stands for the patterns that nothing sets yet.
RenderInit == pattern \in {"Booting", "Warning"} \cup Breathing /\ elapsed_ms = 0

\* A breath and a half: the wrap of the period is inside.
RenderNext ==
  /\ pattern \in Breathing /\ 2 * elapsed_ms < 3 * PeriodMs[pattern]
  /\ elapsed_ms' = elapsed_ms + 1
  /\ UNCHANGED pattern

RenderSpec == RenderInit /\ [][RenderNext]_renderVars

-----------------------------------------------------------------------------
(* Correctness. *)

\* Smoothstep without rounding, scaled by 255^3
smoothstep(n) == 765 * n * n - 2 * n * n * n
Abs(a) == IF a < 0 THEN -a ELSE a

\* A breath stays between 5% and 25%, moves by at most 1% a millisecond, also
\* across the end of the period, is at its dimmest there and at its brightest
\* half way.
BreathIsSmooth ==
  pattern \in Breathing =>
    LET period == PeriodMs[pattern]
        pct == breathe_pct(elapsed_ms, period)
    IN  /\ pct \in 5 .. 25
        /\ Abs(pct - breathe_pct(elapsed_ms + 1, period)) <= 1
        /\ elapsed_ms % period = 0 => pct = 5
        /\ elapsed_ms % period = period \div 2 => pct = 25

\* The truncated products stay within 3 of the exact curve.
EaseIsExact ==
  pattern \in Breathing =>
    LET n == level(elapsed_ms, PeriodMs[pattern])
    IN  Abs(eased(n) * 65025 - smoothstep(n)) <= 3 * 65025

\* What a WS2812 makes of a frame: a high time above 600 ns is a 1.
Bit(p) == IF p.high > 48 THEN 1 ELSE 0
Byte(f, i) == LET b(k) == Bit(f[i + k]) * 2^(7 - k)
              IN  b(0) + b(1) + b(2) + b(3) + b(4) + b(5) + b(6) + b(7)
Decoded(f) == Color(Byte(f, 9), Byte(f, 1), Byte(f, 17))

\* The LED lights up in the colour that was rendered.
WireCarriesColor ==
  LET c == render_steady(pattern, elapsed_ms)
  IN  Decoded(write(c)) = c
=============================================================================
