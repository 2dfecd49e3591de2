\* Every interleaving of the two reconcilers around slow and failing calls.
\* The period is two ticks, a call takes one or none, and a second has two, so
\* that cutting to seconds shows.  MaxAge exceeds AgeBound(1) = 14, so that
\* the bound is not met by saturation.
CONSTANTS
  MS = 2
  LEASE_DURATION_SECS = 7
  LEASE_RENEW_PERIOD_SECS = 1
  STATUS_UPDATE_PERIOD_SECS = 3
  MaxCall = 1
  MaxAge = 15
  Views = {calm, pressed}
  Faults = {"drop", "late", "reboot"}
  MaxFaults = 2
SYMMETRY ViewSymmetry
SPECIFICATION Spec
INVARIANTS
  TypeOK
  LeaseAgeBounded
