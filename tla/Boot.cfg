\* Two access points, three faults: the link can be lost during the probe,
\* while main waits for DHCP and afterwards.  Both kinds of build.  A board
\* that panicked stops.
CHECK_DEADLOCK FALSE
CONSTANTS
  Bssids = {1, 2}
  MaxFaults = 3
SPECIFICATION FairSpec
INVARIANTS
  TypeOK
  WifiHandedOver
PROPERTIES
  BootCompletes
  NetworkReturns
