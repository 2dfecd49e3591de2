\* Faults of every kind, then none.  A second is one tick: the Date header
\* ages, nothing is cut.  AgeBound(0) = 8 < 9, the lease duration.
CONSTANTS
  MS = 1
  LEASE_DURATION_SECS = 9
  LEASE_RENEW_PERIOD_SECS = 2
  STATUS_UPDATE_PERIOD_SECS = 5
  MaxCall = 1
  MaxAge = 9
  Views = {"calm", "pressed"}
  Faults = {"drop", "reject", "unheard", "late", "delete_lease", "delete_node", "reboot"}
  MaxFaults = 1
SPECIFICATION FairSpec
PROPERTIES
  ImplementsApiCall
  LeaseRecovers
  ReadyRecovers
  StatusConverges
