------------------------------ MODULE BootProofs ------------------------------
(***************************************************************************)
(* Proofs about Boot, for every set of access points and any number of     *)
(* faults: associations are counted once each, and bootstrap finds the     *)
(* Wi-Fi statics as the conditions assume them.                            *)
(***************************************************************************)
EXTENDS Boot, TLAPS

\* Before there is an interface nothing has an address, and main is still
\* looking for one or has panicked over it.
Interface ==
  /\ main \in {"probe_version", "probe_phy", "w5500_init"} => medium = "none"
  /\ main \in {"dhcp", "bootstrap"} => medium # "none"
  /\ medium = "none" => config = "down"

\* Only the radio writes the statics.  Over Wi-Fi there is no address without
\* an association, which has been counted.
Radio ==
  /\ medium # "wifi" => conn = "unborn" /\ bssid = 0 /\ total = 0
  /\ medium = "wifi" /\ (conn = "associated" \/ config = "up"
                         \/ main = "bootstrap")
       => bssid # 0 /\ total > 0

\* A further association needs a loss of the link first, and that is a fault:
\* the access point went away or dropped the station.
Losses ==
  total <= faults + (IF conn = "associated" /\ ap = "up" THEN 1 ELSE 0)

Inv == TypeOK /\ Interface /\ Radio /\ Losses

\* Nothing is up and nothing has run before the first step.
LEMMA InvInit == Init => Inv
  BY BootAssumption DEF Init, Inv, TypeOK, Interface, Radio, Losses

\* Each step of main and of the network keeps the invariant.
LEMMA InvStep == Inv /\ [Next]_vars => Inv'
<1> SUFFICES ASSUME Inv, [Next]_vars PROVE Inv'
  OBVIOUS
<1> USE BootAssumption DEF Inv, TypeOK, Interface, Radio, Losses, wifi, world
<1>1. CASE VersionRead \/ PhyUp
  BY <1>1 DEF VersionRead, PhyUp, Goto
<1>2. CASE VersionWrong \/ PhyDown \/ PhyFails
  BY <1>2 DEF VersionWrong, PhyDown, PhyFails, FallBack, Fault
<1>3. CASE EthernetStarts
  BY <1>3 DEF EthernetStarts
<1>4. CASE InterfacePanics \/ EthernetPanics
  BY <1>4 DEF InterfacePanics, EthernetPanics, Goto, Fault
<1>5. CASE ConfigUp \/ BuildPanics
  BY <1>5 DEF ConfigUp, BuildPanics, Goto
<1>6. ASSUME NEW b \in Bssids, Associated(b) PROVE Inv'
  BY <1>6 DEF Associated
<1>7. CASE ConnectFails \/ PauseOver
  BY <1>7 DEF ConnectFails, PauseOver, Unreachable, Loop, Fault
<1>8. CASE Disconnected \/ Kicked
  BY <1>8 DEF Disconnected, Kicked, Loop, Fault
<1>9. CASE DhcpBinds
  BY <1>9 DEF DhcpBinds, link
<1>10. CASE DhcpResets \/ AddressLost
  BY <1>10 DEF DhcpResets, AddressLost, Fault
<1>11. CASE CableMoves \/ AccessPointMoves
  BY <1>11 DEF CableMoves, AccessPointMoves, Fault
<1>12. CASE UNCHANGED vars
  BY <1>12 DEF vars
<1> QED
  BY <1>1, <1>2, <1>3, <1>4, <1>5, <1>6, <1>7, <1>8, <1>9, <1>10, <1>11, <1>12
  DEF Next, Main, ConnectionTask, Net, World

\* So it holds in every reachable state.
LEMMA Invariant == Spec => []Inv
  BY InvInit, InvStep, PTL DEF Spec

\* WIFI_ASSOCIATIONS_TOTAL exceeds the losses of the link by at most one,
\* whatever connection_task goes through: failed attempts are not counted.
THEOREM BootTypeCorrect == Spec => []TypeOK
<1>1. Inv => TypeOK
  BY DEF Inv
<1> QED
  BY Invariant, <1>1, PTL

\* However link, access point and address come and go, bootstrap starts with
\* the statics of the medium that main chose: untouched over Ethernet, set and
\* counted over Wi-Fi.
THEOREM WifiIsHandedOver == Spec => []WifiHandedOver
<1>1. Inv => WifiHandedOver
  BY DEF Inv, TypeOK, Interface, Radio, WifiHandedOver
<1> QED
  BY Invariant, <1>1, PTL
=============================================================================
