\* Calendar: every day of a whole cycle of the Gregorian calendar, with 2000
\* and 2400 as leap years and 2100, 2200 and 2300 as none.
\*
\* Buffers: the repository's tunables.  The Node body of a 61-character name
\* and a 12-digit address has 2047 of 2048 bytes, the lease path of a
\* 65-character name all 128.  The token is the ~1KB that net/client.rs
\* reckons with.
\*
\* LED: the periods in the order they have.  A frame is shorter than a flash, a
\* flash than a colour of the self-test, all of them than a renewal period.
\*
\* The calendar, the rendering and a board that panicked come to an end.
CHECK_DEADLOCK FALSE
CONSTANTS
  LastYear = 2400
  TimesOfDay = {0, 59, 60, 3599, 3600, 56837, 86399}
  MEMORY_PRESSURE_FREE_BYTES = 20480
  HEAP_TOTAL_BYTES = 102400
  VIBES_CURSED_RECONNECTS = 3
  CAFFEINATED_FRESH_SECS = 600
  QUESTIONING_RENEWALS = 100
  ACCEPTING_RENEWALS = 1000
  TRANSCENDENT_RENEWALS = 10000
  NameLens = {1, 61, 62, 65, 66}
  IpDigits = {4, 12}
  TOKEN_LEN = 1024
  Samples <- MCSamples
  FRAME_PERIOD = 2
  ACTIVITY_FLASH = 3
  TEST_STEP = 4
  RENEW = 70
  MaxDelay = 2
  MaxLost = 2
  MaxWrong = 70
SPECIFICATION SpecBoard
INVARIANTS
  AnchorIsServerTime
  TimestampIsDate
  ReconcilersCanSend
  ShortNamesWork
  SteadyFollows
  LedTruthful
  BreathIsSmooth
  EaseIsExact
  WireCarriesColor
