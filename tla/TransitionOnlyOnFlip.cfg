\* One boot, every call succeeds.
CONSTANTS
  MEMORY_PRESSURE_FREE_BYTES = 20
  HEAP_TOTAL_BYTES = 100
  VIBES_CURSED_RECONNECTS = 2
  CAFFEINATED_FRESH_SECS = 4
  QUESTIONING_RENEWALS = 1
  ACCEPTING_RENEWALS = 2
  TRANSCENDENT_RENEWALS = 3
  MS = 2
  EPOCH = 4
  LEASE_RENEW_PERIOD_SECS = 1
  STATUS_UPDATE_PERIOD_SECS = 3
  HAUNTED_SLIP_SECS = 1
  HeapLevels = {10, 80}
  Bssids = {}
  Lags = {0}
  Outcomes = {"ok"}
  MaxClock = 11
  MaxBoots = 0
  MaxAssociations = 2
  MaxRenewals = 0
SPECIFICATION Spec
PROPERTIES
  TransitionOnlyOnFlip
