---------------------------- MODULE LedRenderProofs ----------------------------
(***************************************************************************)
(* Proofs about LedRender: what its three properties say of the breath     *)
(* that TLC walks through holds of every millisecond of an endless one,    *)
(* and a frame carries every colour of eight bits a channel.               *)
(***************************************************************************)
EXTENDS LedRender, TLAPS

Periods == {667, 3000}

-----------------------------------------------------------------------------
(* The triangle. *)

\* From one millisecond to the next the triangle moves by one, but for the
\* odd period, whose top is skipped.
LEMMA TriStep ==
  ASSUME NEW e \in Nat, NEW period \in Periods
  PROVE  LET a == tri(e, period)
             b == tri(e + 1, period)
             h == period \div 2
         IN  /\ a \in 0 .. h + 1 /\ b \in 0 .. h + 1
             /\ \/ a - b \in -1 .. 1
                \/ a = h - 1 /\ b = h + 1
<1>1. CASE period = 667
  BY <1>1 DEF tri
<1>2. CASE period = 3000
  BY <1>2 DEF tri
<1> QED
  BY <1>1, <1>2 DEF Periods

\* The level moves by at most one of its 255 steps.
LEMMA LevelStep ==
  ASSUME NEW e \in Nat, NEW period \in Periods
  PROVE  /\ level(e, period) \in 0 .. 255
         /\ level(e + 1, period) \in 0 .. 255
         /\ level(e, period) - level(e + 1, period) \in -1 .. 1
<1> DEFINE a == tri(e, period)
           b == tri(e + 1, period)
           h == period \div 2
<1>t. /\ a \in 0 .. h + 1 /\ b \in 0 .. h + 1
      /\ \/ a - b \in -1 .. 1
         \/ a = h - 1 /\ b = h + 1
  BY TriStep
<1> HIDE DEF a, b
<1>1. CASE period = 667
  <2>1. /\ a \in 0 .. 334 /\ b \in 0 .. 334
        /\ a - b \in -1 .. 1 \/ (a = 332 /\ b = 334)
    BY <1>t, <1>1
  <2>2. level(e, period) = AtMost((a * 255) \div 333, 255)
    BY <1>1 DEF level, a
  <2>3. level(e + 1, period) = AtMost((b * 255) \div 333, 255)
    BY <1>1 DEF level, b
  <2> QED
    BY <2>1, <2>2, <2>3 DEF AtMost
<1>2. CASE period = 3000
  <2>1. /\ a \in 0 .. 1501 /\ b \in 0 .. 1501
        /\ a - b \in -1 .. 1 \/ (a = 1499 /\ b = 1501)
    BY <1>t, <1>2
  <2>2. level(e, period) = AtMost((a * 255) \div 1500, 255)
    BY <1>2 DEF level, a
  <2>3. level(e + 1, period) = AtMost((b * 255) \div 1500, 255)
    BY <1>2 DEF level, b
  <2> QED
    BY <2>1, <2>2, <2>3 DEF AtMost
<1> QED
  BY <1>1, <1>2 DEF Periods

-----------------------------------------------------------------------------
(* The curve. *)

\* The two truncated products of the curve, by their defining inequalities.
LEMMA Products ==
  ASSUME NEW n \in 0 .. 255
  PROVE  LET n_sq == (n * n) \div 255
             n_cu == (n_sq * n) \div 255
         IN  /\ n_sq \in 0 .. 255 /\ n_cu \in 0 .. 255 /\ n_cu <= n_sq
             /\ 255 * n_sq <= n * n /\ n * n < 255 * n_sq + 255
             /\ 255 * n_cu <= n_sq * n /\ n_sq * n < 255 * n_cu + 255
             /\ eased(n) = AtMost(3 * n_sq - 2 * n_cu, 255)
<1> DEFINE n_sq == (n * n) \div 255
           n_cu == (n_sq * n) \div 255
<1>1. n * n \in Nat /\ n * n <= 255 * n
  OBVIOUS
<1>2. n_sq \in Nat /\ 255 * n_sq <= n * n /\ n * n < 255 * n_sq + 255
  BY <1>1
<1>3. n_sq \in 0 .. 255
  BY <1>1, <1>2
<1>4. eased(n) = AtMost(3 * n_sq - 2 * n_cu, 255)
  BY DEF eased
<1> HIDE DEF n_sq
<1>5. n_sq * n \in Nat /\ n_sq * n <= 255 * n_sq
  BY <1>3
<1>6. n_cu \in Nat /\ 255 * n_cu <= n_sq * n /\ n_sq * n < 255 * n_cu + 255
  BY <1>5
<1>7. n_cu <= n_sq
  BY <1>3, <1>5, <1>6
<1> HIDE DEF n_cu
<1> QED
  BY <1>2, <1>3, <1>4, <1>6, <1>7 DEF n_sq, n_cu

\* The curve stays on the scale of the level.
LEMMA EasedRange ==
  ASSUME NEW n \in 0 .. 255
  PROVE  eased(n) \in 0 .. 255
<1> DEFINE n_sq == (n * n) \div 255
           n_cu == (n_sq * n) \div 255
<1>1. /\ n_sq \in 0 .. 255 /\ n_cu \in 0 .. 255 /\ n_cu <= n_sq
      /\ eased(n) = AtMost(3 * n_sq - 2 * n_cu, 255)
  BY Products
<1> HIDE DEF n_sq, n_cu
<1> QED
  BY <1>1 DEF AtMost

\* One step of the level moves the curve by at most 12.
LEMMA EasedStep ==
  ASSUME NEW n \in 0 .. 254
  PROVE  eased(n + 1) - eased(n) \in -12 .. 12
<1> DEFINE m == n + 1
           n_sq == (n * n) \div 255
           n_cu == (n_sq * n) \div 255
           m_sq == (m * m) \div 255
           m_cu == (m_sq * m) \div 255
<1>1. /\ n_sq \in 0 .. 255 /\ n_cu \in 0 .. 255 /\ n_cu <= n_sq
      /\ 255 * n_sq <= n * n /\ n * n < 255 * n_sq + 255
      /\ 255 * n_cu <= n_sq * n /\ n_sq * n < 255 * n_cu + 255
      /\ eased(n) = AtMost(3 * n_sq - 2 * n_cu, 255)
  BY Products
<1>2. /\ m_sq \in 0 .. 255 /\ m_cu \in 0 .. 255 /\ m_cu <= m_sq
      /\ 255 * m_sq <= m * m /\ m * m < 255 * m_sq + 255
      /\ 255 * m_cu <= m_sq * m /\ m_sq * m < 255 * m_cu + 255
      /\ eased(m) = AtMost(3 * m_sq - 2 * m_cu, 255)
  <2>1. m \in 0 .. 255
    OBVIOUS
  <2> HIDE DEF m
  <2> QED
    BY <2>1, Products
<1> HIDE DEF n_sq, n_cu, m_sq, m_cu
<1>3. m * m = n * n + 2 * n + 1
  OBVIOUS
<1>4. m_sq - n_sq \in 0 .. 3
  BY <1>1, <1>2, <1>3
<1>5. m_sq * m = n_sq * n + (m_sq - n_sq) * n + m_sq
  BY <1>1, <1>2
<1>6. (m_sq - n_sq) * n \in 0 .. 765
  BY <1>4
<1>7. m_cu - n_cu \in 0 .. 5
  BY <1>1, <1>2, <1>5, <1>6
<1> QED
  BY <1>1, <1>2, <1>4, <1>7 DEF AtMost

\* The whole brightness: 5% and up to twenty more, and one more or less a
\* millisecond later.
LEMMA PctStep ==
  ASSUME NEW e \in Nat, NEW period \in Periods
  PROVE  /\ breathe_pct(e, period) \in 5 .. 25
         /\ Abs(breathe_pct(e, period) - breathe_pct(e + 1, period)) <= 1
<1> DEFINE n == level(e, period)
           m == level(e + 1, period)
           x == eased(n)
           y == eased(m)
<1>1. n \in 0 .. 255 /\ m \in 0 .. 255 /\ n - m \in -1 .. 1
  BY LevelStep
<1>2. /\ breathe_pct(e, period) = 5 + (x * 20) \div 255
      /\ breathe_pct(e + 1, period) = 5 + (y * 20) \div 255
  BY DEF breathe_pct
<1> HIDE DEF n, m
<1>3. x \in 0 .. 255 /\ y \in 0 .. 255
  BY <1>1, EasedRange
<1>4. x - y \in -12 .. 12
  <2>1. CASE n = m
    BY <2>1, <1>3
  <2>2. CASE n = m + 1
    <3>1. m \in 0 .. 254
      BY <2>2, <1>1
    <3>2. eased(m + 1) - eased(m) \in -12 .. 12
      BY <3>1, EasedStep
    <3> QED
      BY <3>2, <2>2
  <2>3. CASE m = n + 1
    <3>1. n \in 0 .. 254
      BY <2>3, <1>1
    <3>2. eased(n + 1) - eased(n) \in -12 .. 12
      BY <3>1, EasedStep
    <3>3. y - x \in -12 .. 12
      BY <3>2, <2>3
    <3> HIDE DEF x, y
    <3> QED
      BY <3>3, <1>3
  <2> QED
    BY <1>1, <2>1, <2>2, <2>3
<1> HIDE DEF x, y
<1> QED
  BY <1>2, <1>3, <1>4 DEF Abs

\* The two ends of a breath.
LEMMA PctEnds ==
  ASSUME NEW e \in Nat, NEW period \in Periods
  PROVE  /\ e % period = 0 => breathe_pct(e, period) = 5
         /\ e % period = period \div 2 => breathe_pct(e, period) = 25
<1>1. ASSUME e % period = 0
      PROVE  breathe_pct(e, period) = 5
  <2>1. tri(e, period) = 0
    BY <1>1 DEF tri, Periods
  <2>2. level(e, period) = 0
    BY <2>1 DEF level, AtMost, Periods
  <2>3. eased(0) = 0
    BY DEF eased, AtMost
  <2> QED
    BY <2>2, <2>3 DEF breathe_pct
<1>2. ASSUME e % period = period \div 2
      PROVE  breathe_pct(e, period) = 25
  <2>1. tri(e, period) = period - period \div 2
    BY <1>2 DEF tri, Periods
  <2>2. level(e, period) = 255
    BY <2>1 DEF level, AtMost, Periods
  <2>3. eased(255) = 255
    BY DEF eased, AtMost
  <2> QED
    BY <2>2, <2>3 DEF breathe_pct
<1> QED
  BY <1>1, <1>2

\* The exact curve is at its top, 255^3, where the level is.
LEMMA SmoothstepTop ==
  ASSUME NEW n \in 0 .. 255
  PROVE  smoothstep(n) \in Int /\ smoothstep(n) <= 16581375
<1> DEFINE d == 255 - n
<1>1. d \in 0 .. 255 /\ n = 255 - d
  BY SMT
<1> HIDE DEF d
<1>2. smoothstep(n) = 16581375 - (765 * (d * d) - 2 * (d * d * d))
  BY <1>1, SMT DEF smoothstep
<1>3. d * d * d <= 255 * (d * d) /\ d * d \in Nat /\ d * d * d \in Int
  BY <1>1, SMT
<1> QED
  BY <1>2, <1>3, SMT

\* What truncating twice and clipping costs: less than 3 of 255.
LEMMA EaseError ==
  ASSUME NEW n \in 0 .. 255
  PROVE  Abs(eased(n) * 65025 - smoothstep(n)) <= 195075
<1> DEFINE n_sq == (n * n) \div 255
           n_cu == (n_sq * n) \div 255
           r1 == n * n - 255 * n_sq
           r2 == n_sq * n - 255 * n_cu
<1>1. /\ n_sq \in 0 .. 255 /\ n_cu \in 0 .. 255 /\ n_cu <= n_sq
      /\ 255 * n_sq <= n * n /\ n * n < 255 * n_sq + 255
      /\ 255 * n_cu <= n_sq * n /\ n_sq * n < 255 * n_cu + 255
      /\ eased(n) = AtMost(3 * n_sq - 2 * n_cu, 255)
  BY Products
<1> HIDE DEF n_sq, n_cu
<1>2. r1 \in 0 .. 254 /\ r2 \in 0 .. 254
  BY <1>1, SMT
<1>3. n * n = 255 * n_sq + r1 /\ n_sq * n = 255 * n_cu + r2
  BY <1>1, SMT
<1> HIDE DEF r1, r2
<1>4. r1 * n \in Int /\ 0 <= r1 * n /\ r1 * n <= 255 * r1
  BY <1>2, SMT
<1>5. n * n * n = 65025 * n_cu + 255 * r2 + r1 * n
  <2>1. n * n * n = (255 * n_sq + r1) * n
    BY <1>3, SMT
  <2>2. (255 * n_sq + r1) * n = 255 * (n_sq * n) + r1 * n
    BY <1>1, <1>2, SMT
  <2> QED
    BY <2>1, <2>2, <1>1, <1>2, <1>3, SMT
<1>6. smoothstep(n)
        = 195075 * n_sq + 765 * r1 - 130050 * n_cu - 510 * r2 - 2 * (r1 * n)
  <2>1. smoothstep(n) = 765 * (n * n) - 2 * (n * n * n)
    BY SMT DEF smoothstep
  <2> QED
    BY <2>1, <1>1, <1>2, <1>3, <1>4, <1>5, SMT
<1> DEFINE z == r1 * n
           s == smoothstep(n)
<1>7. /\ z \in Int /\ 0 <= z /\ z <= 255 * r1
      /\ s \in Int /\ s <= 16581375
      /\ s = 195075 * n_sq + 765 * r1 - 130050 * n_cu - 510 * r2 - 2 * z
  BY <1>4, <1>6, SmoothstepTop, SMT
<1> HIDE DEF z, s
<1> DEFINE raw == 3 * n_sq - 2 * n_cu
<1>8. raw \in Nat /\ 65025 * raw - s = 510 * r2 + 2 * z - 765 * r1
  BY <1>1, <1>2, <1>7, SMT
<1>10. eased(n) = AtMost(raw, 255)
  BY <1>1
<1> HIDE DEF raw
<1>9. Abs(eased(n) * 65025 - s) <= 195075
  <2>1. 65025 * raw - s <= 195075 /\ -195075 <= 65025 * raw - s
    BY <1>2, <1>7, <1>8, SMT
  <2>2. CASE raw < 255
    <3>1. eased(n) = raw
      BY <2>2, <1>10, <1>8, SMT DEF AtMost
    <3> QED
      BY <3>1, <2>1, <1>7, <1>8, SMT DEF Abs
  <2>3. CASE raw >= 255
    <3>1. eased(n) = 255
      BY <2>3, <1>10, <1>8, SMT DEF AtMost
    <3> QED
      BY <3>1, <2>1, <2>3, <1>7, <1>8, SMT DEF Abs
  <2> QED
    BY <2>2, <2>3, <1>8, SMT
<1> QED
  BY <1>9, SMT DEF s

-----------------------------------------------------------------------------
(* The frame. *)

\* The word in which green, red and blue travel, and its bits by their weight
\* in the byte of their colour.
Weights == {1, 2, 4, 8, 16, 32, 64, 128}
Word(r, g, b) == g * 65536 + r * 256 + b
BitOf(x, k) == (x \div k) % 2
GreenBit(v, k) == (v \div (65536 * k)) % 2
RedBit(v, k) == (v \div (256 * k)) % 2

\* A pulse is read back as the bit it was made from.
LEMMA PulseBit ==
  ASSUME NEW bit \in 0 .. 1
  PROVE  Bit(Pulse(bit)) = bit
BY DEF Bit, Pulse

\* A byte is the sum of its bits.
LEMMA ByteOfBits ==
  ASSUME NEW x \in 0 .. 255
  PROVE  x = BitOf(x, 128) * 128 + BitOf(x, 64) * 64 + BitOf(x, 32) * 32
               + BitOf(x, 16) * 16 + BitOf(x, 8) * 8 + BitOf(x, 4) * 4
               + BitOf(x, 2) * 2 + BitOf(x, 1) * 1
BY SMT DEF BitOf

\* The byte below is gone before the bits of a byte are looked at.
LEMMA ByteBelow ==
  ASSUME NEW v \in Nat, NEW k \in Weights
  PROVE  v \div (256 * k) = (v \div 256) \div k
<1>1. CASE k = 1
  BY <1>1, SMT
<1>2. CASE k = 2
  BY <1>2, SMT
<1>3. CASE k = 4
  BY <1>3, SMT
<1>4. CASE k = 8
  BY <1>4, SMT
<1>5. CASE k = 16
  BY <1>5, SMT
<1>6. CASE k = 32
  BY <1>6, SMT
<1>7. CASE k = 64
  BY <1>7, SMT
<1>8. CASE k = 128
  BY <1>8, SMT
<1> QED
  BY <1>1, <1>2, <1>3, <1>4, <1>5, <1>6, <1>7, <1>8, SMT DEF Weights

\* The same with two bytes below.
LEMMA BytesBelow ==
  ASSUME NEW v \in Nat, NEW k \in Weights
  PROVE  v \div (65536 * k) = (v \div 65536) \div k
<1>1. CASE k = 1
  BY <1>1, SMT
<1>2. CASE k = 2
  BY <1>2, SMT
<1>3. CASE k = 4
  BY <1>3, SMT
<1>4. CASE k = 8
  BY <1>4, SMT
<1>5. CASE k = 16
  BY <1>5, SMT
<1>6. CASE k = 32
  BY <1>6, SMT
<1>7. CASE k = 64
  BY <1>7, SMT
<1>8. CASE k = 128
  BY <1>8, SMT
<1> QED
  BY <1>1, <1>2, <1>3, <1>4, <1>5, <1>6, <1>7, <1>8, SMT DEF Weights

\* The three bytes do not run into each other.
LEMMA WordBits ==
  ASSUME NEW r \in 0 .. 255, NEW g \in 0 .. 255, NEW b \in 0 .. 255,
         NEW k \in Weights
  PROVE  /\ GreenBit(Word(r, g, b), k) = BitOf(g, k)
         /\ RedBit(Word(r, g, b), k) = BitOf(r, k)
         /\ BitOf(Word(r, g, b), k) = BitOf(b, k)
<1> DEFINE v == Word(r, g, b)
           gr == g * 256 + r
<1>1. v \in Nat /\ v \div 65536 = g /\ v \div 256 = gr /\ v = gr * 256 + b
  BY SMT DEF Word
<1>2. gr \in Nat /\ (gr \div k) % 2 = (r \div k) % 2
  BY SMT DEF Weights
<1> HIDE DEF v, gr
<1>3. ((gr * 256 + b) \div k) % 2 = (b \div k) % 2
  BY <1>2, SMT DEF Weights
<1>4. (v \div k) % 2 = (b \div k) % 2
  BY <1>1, <1>3, SMT
<1>5. v \div (65536 * k) = g \div k
  BY <1>1, BytesBelow, SMT
<1>6. v \div (256 * k) = gr \div k
  BY <1>1, ByteBelow, SMT
<1>7. GreenBit(v, k) = BitOf(g, k) /\ RedBit(v, k) = BitOf(r, k)
  BY <1>2, <1>5, <1>6, SMT DEF GreenBit, RedBit, BitOf
<1>8. BitOf(v, k) = BitOf(b, k)
  BY <1>4, SMT DEF BitOf
<1> QED
  BY <1>7, <1>8 DEF v

\* A frame is read back as the word it was made from, bit by bit.
LEMMA FrameBits ==
  ASSUME NEW c, c.r \in 0 .. 255, c.g \in 0 .. 255, c.b \in 0 .. 255
  PROVE  LET v == Word(c.r, c.g, c.b)
             f == write(c)
         IN  /\ Bit(f[1]) = GreenBit(v, 128)
             /\ Bit(f[2]) = GreenBit(v, 64)
             /\ Bit(f[3]) = GreenBit(v, 32)
             /\ Bit(f[4]) = GreenBit(v, 16)
             /\ Bit(f[5]) = GreenBit(v, 8)
             /\ Bit(f[6]) = GreenBit(v, 4)
             /\ Bit(f[7]) = GreenBit(v, 2)
             /\ Bit(f[8]) = GreenBit(v, 1)
             /\ Bit(f[9]) = RedBit(v, 128)
             /\ Bit(f[10]) = RedBit(v, 64)
             /\ Bit(f[11]) = RedBit(v, 32)
             /\ Bit(f[12]) = RedBit(v, 16)
             /\ Bit(f[13]) = RedBit(v, 8)
             /\ Bit(f[14]) = RedBit(v, 4)
             /\ Bit(f[15]) = RedBit(v, 2)
             /\ Bit(f[16]) = RedBit(v, 1)
             /\ Bit(f[17]) = BitOf(v, 128)
             /\ Bit(f[18]) = BitOf(v, 64)
             /\ Bit(f[19]) = BitOf(v, 32)
             /\ Bit(f[20]) = BitOf(v, 16)
             /\ Bit(f[21]) = BitOf(v, 8)
             /\ Bit(f[22]) = BitOf(v, 4)
             /\ Bit(f[23]) = BitOf(v, 2)
             /\ Bit(f[24]) = BitOf(v, 1)
<1> DEFINE v == Word(c.r, c.g, c.b)
           f == write(c)
<1>1. f = [i \in 1 .. 24 |-> Pulse((v \div 2^(24 - i)) % 2)] /\ v \in Nat
  <2>1. f = [i \in 1 .. 24 |-> Pulse((v \div 2^(24 - i)) % 2)]
    BY DEF write, Word
  <2>2. v \in Nat
    <3>1. ASSUME NEW r \in 0 .. 255, NEW g \in 0 .. 255, NEW b \in 0 .. 255
          PROVE  Word(r, g, b) \in Nat
      BY SMT DEF Word
    <3> QED
      BY <3>1
  <2> QED
    BY <2>1, <2>2
<1> HIDE DEF v, f
<1>2. ASSUME NEW w \in Nat \ {0}
      PROVE  Bit(Pulse((v \div w) % 2)) = (v \div w) % 2
  <2>1. (v \div w) % 2 \in 0 .. 1
    BY <1>1, SMT
  <2> QED
    BY <2>1, PulseBit, SMT
<1>3. /\ Bit(f[1]) = GreenBit(v, 128)
      /\ Bit(f[2]) = GreenBit(v, 64)
      /\ Bit(f[3]) = GreenBit(v, 32)
      /\ Bit(f[4]) = GreenBit(v, 16)
      /\ Bit(f[5]) = GreenBit(v, 8)
      /\ Bit(f[6]) = GreenBit(v, 4)
      /\ Bit(f[7]) = GreenBit(v, 2)
      /\ Bit(f[8]) = GreenBit(v, 1)
  <2>1. /\ f[1] = Pulse((v \div 8388608) % 2)
        /\ f[2] = Pulse((v \div 4194304) % 2)
        /\ f[3] = Pulse((v \div 2097152) % 2)
        /\ f[4] = Pulse((v \div 1048576) % 2)
        /\ f[5] = Pulse((v \div 524288) % 2)
        /\ f[6] = Pulse((v \div 262144) % 2)
        /\ f[7] = Pulse((v \div 131072) % 2)
        /\ f[8] = Pulse((v \div 65536) % 2)
    BY <1>1, SMT
  <2>2. /\ Bit(f[1]) = (v \div 8388608) % 2
        /\ Bit(f[2]) = (v \div 4194304) % 2
        /\ Bit(f[3]) = (v \div 2097152) % 2
        /\ Bit(f[4]) = (v \div 1048576) % 2
        /\ Bit(f[5]) = (v \div 524288) % 2
        /\ Bit(f[6]) = (v \div 262144) % 2
        /\ Bit(f[7]) = (v \div 131072) % 2
        /\ Bit(f[8]) = (v \div 65536) % 2
    BY <1>2, <2>1, SMT
  <2> QED
    BY <2>2, SMT DEF GreenBit, RedBit, BitOf
<1>4. /\ Bit(f[9]) = RedBit(v, 128)
      /\ Bit(f[10]) = RedBit(v, 64)
      /\ Bit(f[11]) = RedBit(v, 32)
      /\ Bit(f[12]) = RedBit(v, 16)
      /\ Bit(f[13]) = RedBit(v, 8)
      /\ Bit(f[14]) = RedBit(v, 4)
      /\ Bit(f[15]) = RedBit(v, 2)
      /\ Bit(f[16]) = RedBit(v, 1)
  <2>1. /\ f[9] = Pulse((v \div 32768) % 2)
        /\ f[10] = Pulse((v \div 16384) % 2)
        /\ f[11] = Pulse((v \div 8192) % 2)
        /\ f[12] = Pulse((v \div 4096) % 2)
        /\ f[13] = Pulse((v \div 2048) % 2)
        /\ f[14] = Pulse((v \div 1024) % 2)
        /\ f[15] = Pulse((v \div 512) % 2)
        /\ f[16] = Pulse((v \div 256) % 2)
    BY <1>1, SMT
  <2>2. /\ Bit(f[9]) = (v \div 32768) % 2
        /\ Bit(f[10]) = (v \div 16384) % 2
        /\ Bit(f[11]) = (v \div 8192) % 2
        /\ Bit(f[12]) = (v \div 4096) % 2
        /\ Bit(f[13]) = (v \div 2048) % 2
        /\ Bit(f[14]) = (v \div 1024) % 2
        /\ Bit(f[15]) = (v \div 512) % 2
        /\ Bit(f[16]) = (v \div 256) % 2
    BY <1>2, <2>1, SMT
  <2> QED
    BY <2>2, SMT DEF GreenBit, RedBit, BitOf
<1>5. /\ Bit(f[17]) = BitOf(v, 128)
      /\ Bit(f[18]) = BitOf(v, 64)
      /\ Bit(f[19]) = BitOf(v, 32)
      /\ Bit(f[20]) = BitOf(v, 16)
      /\ Bit(f[21]) = BitOf(v, 8)
      /\ Bit(f[22]) = BitOf(v, 4)
      /\ Bit(f[23]) = BitOf(v, 2)
      /\ Bit(f[24]) = BitOf(v, 1)
  <2>1. /\ f[17] = Pulse((v \div 128) % 2)
        /\ f[18] = Pulse((v \div 64) % 2)
        /\ f[19] = Pulse((v \div 32) % 2)
        /\ f[20] = Pulse((v \div 16) % 2)
        /\ f[21] = Pulse((v \div 8) % 2)
        /\ f[22] = Pulse((v \div 4) % 2)
        /\ f[23] = Pulse((v \div 2) % 2)
        /\ f[24] = Pulse((v \div 1) % 2)
    BY <1>1, SMT
  <2>2. /\ Bit(f[17]) = (v \div 128) % 2
        /\ Bit(f[18]) = (v \div 64) % 2
        /\ Bit(f[19]) = (v \div 32) % 2
        /\ Bit(f[20]) = (v \div 16) % 2
        /\ Bit(f[21]) = (v \div 8) % 2
        /\ Bit(f[22]) = (v \div 4) % 2
        /\ Bit(f[23]) = (v \div 2) % 2
        /\ Bit(f[24]) = (v \div 1) % 2
    BY <1>2, <2>1, SMT
  <2> QED
    BY <2>2, SMT DEF GreenBit, RedBit, BitOf
<1> QED
  BY <1>3, <1>4, <1>5 DEF v, f

\* What the LED makes of the frame of a colour: the colour.
LEMMA Carried ==
  ASSUME NEW c, c.r \in 0 .. 255, c.g \in 0 .. 255, c.b \in 0 .. 255
  PROVE  Decoded(write(c)) = Color(c.r, c.g, c.b)
<1> DEFINE v == Word(c.r, c.g, c.b)
           f == write(c)
<1>1. /\ Bit(f[1]) = GreenBit(v, 128)
      /\ Bit(f[2]) = GreenBit(v, 64)
      /\ Bit(f[3]) = GreenBit(v, 32)
      /\ Bit(f[4]) = GreenBit(v, 16)
      /\ Bit(f[5]) = GreenBit(v, 8)
      /\ Bit(f[6]) = GreenBit(v, 4)
      /\ Bit(f[7]) = GreenBit(v, 2)
      /\ Bit(f[8]) = GreenBit(v, 1)
      /\ Bit(f[9]) = RedBit(v, 128)
      /\ Bit(f[10]) = RedBit(v, 64)
      /\ Bit(f[11]) = RedBit(v, 32)
      /\ Bit(f[12]) = RedBit(v, 16)
      /\ Bit(f[13]) = RedBit(v, 8)
      /\ Bit(f[14]) = RedBit(v, 4)
      /\ Bit(f[15]) = RedBit(v, 2)
      /\ Bit(f[16]) = RedBit(v, 1)
      /\ Bit(f[17]) = BitOf(v, 128)
      /\ Bit(f[18]) = BitOf(v, 64)
      /\ Bit(f[19]) = BitOf(v, 32)
      /\ Bit(f[20]) = BitOf(v, 16)
      /\ Bit(f[21]) = BitOf(v, 8)
      /\ Bit(f[22]) = BitOf(v, 4)
      /\ Bit(f[23]) = BitOf(v, 2)
      /\ Bit(f[24]) = BitOf(v, 1)
  BY FrameBits
<1>2. \A k \in Weights :
        /\ GreenBit(v, k) = BitOf(c.g, k)
        /\ RedBit(v, k) = BitOf(c.r, k)
        /\ BitOf(v, k) = BitOf(c.b, k)
  BY WordBits
<1>3. /\ c.r = BitOf(c.r, 128) * 128 + BitOf(c.r, 64) * 64 + BitOf(c.r, 32) * 32
               + BitOf(c.r, 16) * 16 + BitOf(c.r, 8) * 8 + BitOf(c.r, 4) * 4
               + BitOf(c.r, 2) * 2 + BitOf(c.r, 1) * 1
      /\ c.g = BitOf(c.g, 128) * 128 + BitOf(c.g, 64) * 64 + BitOf(c.g, 32) * 32
               + BitOf(c.g, 16) * 16 + BitOf(c.g, 8) * 8 + BitOf(c.g, 4) * 4
               + BitOf(c.g, 2) * 2 + BitOf(c.g, 1) * 1
      /\ c.b = BitOf(c.b, 128) * 128 + BitOf(c.b, 64) * 64 + BitOf(c.b, 32) * 32
               + BitOf(c.b, 16) * 16 + BitOf(c.b, 8) * 8 + BitOf(c.b, 4) * 4
               + BitOf(c.b, 2) * 2 + BitOf(c.b, 1) * 1
  BY ByteOfBits
<1> HIDE DEF v, f
<1>4. Byte(f, 1) = c.g
  <2>1. Byte(f, 1) = Bit(f[1]) * 128 + Bit(f[2]) * 64 + Bit(f[3]) * 32 + Bit(f[4]) * 16
                  + Bit(f[5]) * 8 + Bit(f[6]) * 4 + Bit(f[7]) * 2 + Bit(f[8]) * 1
    BY SMT DEF Byte
  <2> QED
    BY <2>1, <1>1, <1>2, <1>3, SMT DEF Weights
<1>5. Byte(f, 9) = c.r
  <2>1. Byte(f, 9) = Bit(f[9]) * 128 + Bit(f[10]) * 64 + Bit(f[11]) * 32 + Bit(f[12]) * 16
                  + Bit(f[13]) * 8 + Bit(f[14]) * 4 + Bit(f[15]) * 2 + Bit(f[16]) * 1
    BY SMT DEF Byte
  <2> QED
    BY <2>1, <1>1, <1>2, <1>3, SMT DEF Weights
<1>6. Byte(f, 17) = c.b
  <2>1. Byte(f, 17) = Bit(f[17]) * 128 + Bit(f[18]) * 64 + Bit(f[19]) * 32 + Bit(f[20]) * 16
                  + Bit(f[21]) * 8 + Bit(f[22]) * 4 + Bit(f[23]) * 2 + Bit(f[24]) * 1
    BY SMT DEF Byte
  <2> QED
    BY <2>1, <1>1, <1>2, <1>3, SMT DEF Weights
<1> QED
  BY <1>4, <1>5, <1>6, SMT DEF Decoded, f

-----------------------------------------------------------------------------
(* The rendered colours. *)

Patterns == {"Booting", "Warning"} \cup Breathing

\* A breath dims a full colour to a quarter of it or less.
LEMMA BreatheColor ==
  ASSUME NEW p \in Breathing, NEW e \in Nat
  PROVE  LET c == breathe(e, p)
         IN  /\ c.r \in 0 .. 255 /\ c.g \in 0 .. 255 /\ c.b \in 0 .. 255
             /\ c = Color(c.r, c.g, c.b)
<1> DEFINE c == breathe(e, p)
           pct == breathe_pct(e, PeriodMs[p])
<1>1. PeriodMs[p] \in Periods
  BY DEF PeriodMs, Periods, Breathing
<1>2. pct \in 5 .. 25
  <2>1. \A q \in Periods : breathe_pct(e, q) \in 5 .. 25
    BY PctStep
  <2> QED
    BY <1>1, <2>1
<1>3. Full[p].r \in {0, 38} /\ Full[p].g \in {0, 38} /\ Full[p].b \in {0, 38}
  BY DEF Full, Breathing, Color, LED_BRIGHTNESS_CAP
<1>4. c = [ch \in {"r", "g", "b"} |-> (Full[p][ch] * pct) \div 100]
  BY DEF breathe
<1> HIDE DEF pct, c
<1>5. /\ c.r = (Full[p].r * pct) \div 100
      /\ c.g = (Full[p].g * pct) \div 100
      /\ c.b = (Full[p].b * pct) \div 100
  BY <1>4
<1>6. c.r \in 0 .. 255 /\ c.g \in 0 .. 255 /\ c.b \in 0 .. 255
  BY <1>2, <1>3, <1>5
<1>7. c = Color(c.r, c.g, c.b)
  BY <1>4 DEF Color
<1> QED
  BY <1>6, <1>7 DEF c

\* Every pattern renders to a colour of eight bits a channel.
LEMMA RenderColor ==
  ASSUME NEW p \in Patterns, NEW e \in Nat
  PROVE  LET c == render_steady(p, e)
         IN  /\ c.r \in 0 .. 255 /\ c.g \in 0 .. 255 /\ c.b \in 0 .. 255
             /\ c = Color(c.r, c.g, c.b)
<1>1. CASE p \in Breathing
  <2>1. render_steady(p, e) = breathe(e, p)
    BY <1>1 DEF render_steady, Breathing
  <2> QED
    BY <1>1, <2>1, BreatheColor
<1>2. CASE p = "Booting"
  BY <1>2 DEF render_steady, Color, Breathing, LED_BRIGHTNESS_CAP
<1>3. CASE p = "Warning"
  BY <1>3 DEF render_steady, Color, Breathing
<1> QED
  BY <1>1, <1>2, <1>3 DEF Patterns

-----------------------------------------------------------------------------

RenderInv == pattern \in Patterns /\ elapsed_ms \in Nat

\* The clock of a breath only counts up, and the pattern stays.
LEMMA RenderInvariance == RenderSpec => []RenderInv
<1>1. RenderInit => RenderInv
  BY DEF RenderInit, RenderInv, Patterns
<1>2. RenderInv /\ [RenderNext]_renderVars => RenderInv'
  BY DEF RenderInv, RenderNext, renderVars
<1> QED
  BY <1>1, <1>2, PTL DEF RenderSpec

\* The breath of render_steady stays between 5% and 25%, moves by at most 1% a
\* millisecond, also over the wrap of its period, and has its ends where it
\* should: BreathIsSmooth, at every millisecond that is a natural number.
THEOREM Smooth == RenderSpec => []BreathIsSmooth
<1>1. RenderInv => BreathIsSmooth
  <2> SUFFICES ASSUME RenderInv, pattern \in Breathing
               PROVE  LET period == PeriodMs[pattern]
                          pct == breathe_pct(elapsed_ms, period)
                      IN  /\ pct \in 5 .. 25
                          /\ Abs(pct - breathe_pct(elapsed_ms + 1, period)) <= 1
                          /\ elapsed_ms % period = 0 => pct = 5
                          /\ elapsed_ms % period = period \div 2 => pct = 25
    BY DEF BreathIsSmooth
  <2>1. elapsed_ms \in Nat /\ PeriodMs[pattern] \in Periods
    BY DEF RenderInv, PeriodMs, Periods, Breathing
  <2> QED
    BY <2>1, PctStep, PctEnds
<1> QED
  BY <1>1, RenderInvariance, PTL

\* The two truncated products of the easing curve and its clip cost less than
\* 3 of 255 at every level a breath goes through: EaseIsExact.
THEOREM Exact == RenderSpec => []EaseIsExact
<1>1. RenderInv => EaseIsExact
  <2> SUFFICES ASSUME RenderInv, pattern \in Breathing
               PROVE  LET n == level(elapsed_ms, PeriodMs[pattern])
                      IN  Abs(eased(n) * 65025 - smoothstep(n)) <= 195075
    BY SMT DEF EaseIsExact
  <2> DEFINE n == level(elapsed_ms, PeriodMs[pattern])
  <2>1. elapsed_ms \in Nat /\ PeriodMs[pattern] \in Periods
    BY DEF RenderInv, PeriodMs, Periods, Breathing
  <2>2. n \in 0 .. 255
    BY <2>1, LevelStep
  <2> HIDE DEF n
  <2>3. Abs(eased(n) * 65025 - smoothstep(n)) <= 195075
    BY <2>2, EaseError, SMT
  <2> QED
    BY <2>3, SMT DEF n
<1> QED
  BY <1>1, RenderInvariance, PTL

\* The 24 pulses of Led::write, green byte first, are decoded by the LED to the
\* colour that render_steady asked for: WireCarriesColor, whatever the pattern
\* and the time.
THEOREM Carries == RenderSpec => []WireCarriesColor
<1>1. RenderInv => WireCarriesColor
  <2> SUFFICES ASSUME RenderInv
               PROVE  LET c == render_steady(pattern, elapsed_ms)
                      IN  Decoded(write(c)) = c
    BY DEF WireCarriesColor
  <2> DEFINE c == render_steady(pattern, elapsed_ms)
  <2>1. /\ c.r \in 0 .. 255 /\ c.g \in 0 .. 255 /\ c.b \in 0 .. 255
        /\ c = Color(c.r, c.g, c.b)
    BY RenderColor DEF RenderInv
  <2> HIDE DEF c
  <2>2. Decoded(write(c)) = c
    BY <2>1, Carried
  <2> QED
    BY <2>2 DEF c
<1> QED
  BY <1>1, RenderInvariance, PTL
=============================================================================
