\* One call fails, then no fault at all.
CONSTANTS
  MS = 2
  LEASE_DURATION_SECS = 6
  LEASE_RENEW_PERIOD_SECS = 1
  STATUS_UPDATE_PERIOD_SECS = 2
  MaxCall = 1
  MaxAge = 12
  Views = {"calm"}
  Faults = {"drop"}
  MaxFaults = 1
SPECIFICATION FairSpec
PROPERTIES
  AnchorRetried
