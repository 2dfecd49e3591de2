--------------------------------- MODULE Boot ---------------------------------
(***************************************************************************)
(* main from the network probe to bootstrap (main.rs), the W5500 probe     *)
(* (net/ethernet.rs) and the Wi-Fi connection task (net/wifi.rs), over a   *)
(* cable, an access point and a DHCP client that come and go.  The choice  *)
(* of the medium is made once per boot.  After DHCP, main checks what the  *)
(* build was given: the endpoint of the API server and the name of the     *)
(* node.  A panic halts the executor, and every task with it.              *)
(*                                                                         *)
(* The DHCP client is embassy-net's, run by net_task: it configures the    *)
(* stack while the link is up and forgets the address when it notices that *)
(* the link is down, at any time between two polls of main.                *)
(***************************************************************************)
EXTENDS Naturals

CONSTANTS
  Bssids,     \* of the access points; 0 is "never associated yet"
  MaxFaults   \* link losses, failed calls and lost addresses

ASSUME BootAssumption == 0 \notin Bssids /\ MaxFaults \in Nat

VARIABLES
  build,    \* "sound": K3S_API_PORT, K3S_API_HOST and NODE_NAME are usable
  main,     \* where main is
  medium,   \* the interface under the stack: "none", "eth" or "wifi"
  conn,     \* where connection_task is
  bssid,    \* WIFI_BSSID
  total,    \* WIFI_ASSOCIATIONS_TOTAL
  cable,    \* "up" or "down": the W5500's PHY link
  ap,       \* "up" or "down": an access point can be heard
  config,   \* "up" or "down": Stack::config_v4() is there
  faults

wifi == <<conn, bssid, total>>
world == <<cable, ap>>
vars == <<build, main, medium, wifi, world, config, faults>>

Init ==
  /\ build \in {"sound", "unsound"}
  /\ main = "probe_version"
  /\ medium = "none"
  /\ conn = "unborn" /\ bssid = 0 /\ total = 0
  /\ cable \in {"up", "down"} /\ ap \in {"up", "down"}
  /\ config = "down"
  /\ faults = 0

Fault == faults < MaxFaults /\ faults' = faults + 1

Running == main # "panicked"

-----------------------------------------------------------------------------
(* main. *)

Goto(s) == main' = s /\ UNCHANGED <<build, medium, wifi, world, config>>

\* probe_w5500 returns false: the radio is set up, its tasks are spawned.
FallBack ==
  /\ main' = "dhcp" /\ medium' = "wifi" /\ conn' = "connect"
  /\ UNCHANGED <<build, bssid, total, world, config>>

VersionRead ==
  main = "probe_version" /\ Goto("probe_phy") /\ UNCHANGED faults

\* No answer on the bus, or the version of another chip
VersionWrong == main = "probe_version" /\ FallBack /\ UNCHANGED faults

PhyUp ==
  main = "probe_phy" /\ cable = "up" /\ Goto("w5500_init") /\ UNCHANGED faults

PhyDown == main = "probe_phy" /\ cable = "down" /\ FallBack /\ UNCHANGED faults

PhyFails == main = "probe_phy" /\ Fault /\ FallBack

\* Slip: the radio's task is spawned in either case.
EthernetStarts_with_radio ==
  /\ main = "w5500_init" /\ main' = "dhcp"
  /\ medium' = "eth" /\ conn' = "connect"
  /\ UNCHANGED <<build, bssid, total, world, config, faults>>

EthernetStarts ==
  /\ main = "w5500_init" /\ main' = "dhcp"
  /\ medium' = "eth"
  /\ UNCHANGED <<build, wifi, world, config, faults>>

\* .expect("W5500 SPI init failed") before the probe, or after a probe that
\* said no .expect("esp_radio::wifi::new failed")
InterfacePanics ==
  main \in {"probe_version", "probe_phy"} /\ Fault /\ Goto("panicked")

\* .expect("W5500 init failed after successful probe")
EthernetPanics == main = "w5500_init" /\ Fault /\ Goto("panicked")

link == IF medium = "eth" THEN cable = "up" ELSE conn = "associated"

\* wait_config_up returns; config_v4().expect(..) reads the address in the
\* same poll, so that it is there.  The endpoint parses and the paths fit:
\* bootstrap begins.
ConfigUp ==
  /\ main = "dhcp" /\ config = "up" /\ build = "sound"
  /\ Goto("bootstrap") /\ UNCHANGED faults

\* .expect("K3S_API_PORT must be u16"), .expect("K3S_API_HOST must be IPv4
\* dotted-quad"), or an unwrap in NodeIdentity::new: these texts come from the
\* build, and nothing looks at them before the board has an address.
BuildPanics ==
  /\ main = "dhcp" /\ config = "up" /\ build = "unsound"
  /\ Goto("panicked") /\ UNCHANGED faults

-----------------------------------------------------------------------------
(* connection_task. *)

\* connect_async returns Ok.  The statics are written before DHCP, which
\* takes several polls of net_task, can have an address.
Associated(b) ==
  /\ Running /\ conn = "connect" /\ ap = "up"
  /\ conn' = "associated"
  /\ bssid' = b /\ total' = total + 1
  /\ UNCHANGED <<build, main, medium, world, config, faults>>

\* The loop of the task goes on; the statics stay.
Loop(s) ==
  /\ Running
  /\ conn' = s /\ UNCHANGED <<build, main, medium, bssid, total, world, config>>

\* A connect that fails is the access point's fault, if there is one.
Unreachable ==
  /\ Running /\ conn = "connect"
  /\ IF ap = "up" THEN Fault ELSE faults' = faults

\* Slip: the task ends when the access point cannot be reached.
ConnectFails_gives_up == Unreachable /\ Loop("unborn")

\* Slip: attempts are counted, not associations.
ConnectFails_counts ==
  /\ Unreachable
  /\ conn' = "pause" /\ total' = total + 1
  /\ UNCHANGED <<build, main, medium, bssid, world, config>>

ConnectFails == Unreachable /\ Loop("pause")

\* Slip: the task waits for a disconnect once and returns.
Disconnected_returns ==
  conn = "associated" /\ ap = "down" /\ Loop("unborn") /\ UNCHANGED faults

\* wait_for_disconnect_async returns; its result does not matter.
Disconnected ==
  conn = "associated" /\ ap = "down" /\ Loop("pause") /\ UNCHANGED faults

\* The access point drops the station and stays within reach.
Kicked == conn = "associated" /\ ap = "up" /\ Fault /\ Loop("pause")

\* Timer::after(5 s)
PauseOver == conn = "pause" /\ Loop("connect") /\ UNCHANGED faults

-----------------------------------------------------------------------------
(* The network. *)

DhcpBinds ==
  /\ Running /\ medium # "none" /\ link /\ config = "down"
  /\ config' = "up"
  /\ UNCHANGED <<build, main, medium, wifi, world, faults>>

DhcpResets ==
  /\ Running /\ ~link /\ config = "up"
  /\ config' = "down"
  /\ UNCHANGED <<build, main, medium, wifi, world, faults>>

\* The DHCP lease is not renewed.
AddressLost ==
  /\ Running /\ config = "up" /\ Fault
  /\ config' = "down"
  /\ UNCHANGED <<build, main, medium, wifi, world>>

CableMoves ==
  /\ IF cable = "up" THEN cable' = "down" /\ Fault
                     ELSE cable' = "up" /\ faults' = faults
  /\ UNCHANGED <<build, main, medium, wifi, ap, config>>

AccessPointMoves ==
  /\ IF ap = "up" THEN ap' = "down" /\ Fault ELSE ap' = "up" /\ faults' = faults
  /\ UNCHANGED <<build, main, medium, wifi, cable, config>>

-----------------------------------------------------------------------------

Main == VersionRead \/ VersionWrong \/ PhyUp \/ PhyDown \/ EthernetStarts
        \/ ConfigUp \/ BuildPanics
ConnectionTask == (\E b \in Bssids : Associated(b)) \/ ConnectFails
                  \/ Disconnected \/ PauseOver
Net == DhcpBinds \/ DhcpResets
World == PhyFails \/ InterfacePanics \/ EthernetPanics \/ Kicked \/ AddressLost
         \/ CableMoves \/ AccessPointMoves

Next == Main \/ ConnectionTask \/ Net \/ World

Spec == Init /\ [][Next]_vars

\* The executor polls main, connection_task and net_task; a DHCP server
\* answers.  A connect that fails again and again is the access point's
\* doing and counts as faults while it is in reach.
FairSpec ==
  /\ Spec
  /\ WF_vars(Main)
  /\ WF_vars((\E b \in Bssids : Associated(b)) \/ ConnectFails)
  /\ WF_vars(Disconnected) /\ WF_vars(PauseOver)
  /\ WF_vars(Net)

-----------------------------------------------------------------------------
(* Correctness. *)

\* Every variable has its type; associations are bounded by the link losses.
TypeOK ==
  /\ build \in {"sound", "unsound"}
  /\ main \in {"probe_version", "probe_phy", "w5500_init", "dhcp", "bootstrap",
               "panicked"}
  /\ medium \in {"none", "eth", "wifi"}
  /\ conn \in {"unborn", "connect", "associated", "pause"}
  /\ bssid \in Bssids \cup {0}
  /\ total \in 0 .. MaxFaults + 1
  /\ cable \in {"up", "down"} /\ ap \in {"up", "down"}
  /\ config \in {"up", "down"}
  /\ faults \in 0 .. MaxFaults

\* What the conditions take as their first sample of Wi-Fi: over Ethernet the
\* radio stays off for good, over Wi-Fi bootstrap does not start before an
\* association has been counted.
WifiHandedOver ==
  main = "bootstrap" =>
    \/ medium = "eth" /\ bssid = 0 /\ total = 0
    \/ medium = "wifi" /\ bssid # 0 /\ total > 0

Available == (medium = "eth" /\ cable = "up") \/ (medium = "wifi" /\ ap = "up")

\* Once the chosen medium stays available, the main of a sound build gets past
\* DHCP and its own checks to bootstrap, however many attempts it took.
BootCompletes ==
  build = "sound" /\ <>[]Available => <>(main = "bootstrap")

\* README.md, What it survived: "Wi-Fi disconnect and re-association:
\* handled".  The board has an address again, for good, and did not panic for
\* it.
NetworkReturns ==
  build = "sound" /\ <>[]Available => <>[](config = "up" /\ Running)
=============================================================================
