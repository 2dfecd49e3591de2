\* One boot over Wi-Fi, every call succeeds; the window spans the whole run.
CONSTANTS
  MEMORY_PRESSURE_FREE_BYTES = 20
  HEAP_TOTAL_BYTES = 100
  VIBES_CURSED_RECONNECTS = 2
  CAFFEINATED_FRESH_SECS = 8
  QUESTIONING_RENEWALS = 1
  ACCEPTING_RENEWALS = 2
  TRANSCENDENT_RENEWALS = 3
  MS = 2
  EPOCH = 4
  LEASE_RENEW_PERIOD_SECS = 1
  STATUS_UPDATE_PERIOD_SECS = 8
  HAUNTED_SLIP_SECS = 1
  HeapLevels = {80}
  Bssids = {1}
  Lags = {0}
  Outcomes = {"ok"}
  MaxClock = 14
  MaxBoots = 0
  MaxAssociations = 3
  MaxRenewals = 0
SPECIFICATION SpecQuietBootstrap
PROPERTIES
  CursedByRollingWindow
