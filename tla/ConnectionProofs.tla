---------------------------- MODULE ConnectionProofs ----------------------------
(***************************************************************************)
(* Proofs about Connection, for a fast and a slow network alike: types, a  *)
(* device that takes itself for online has its subscription, a boot with   *)
(* IP_FLAG strands it, and the rest of the firmware sees the link of       *)
(* module Link.                                                            *)
(***************************************************************************)
EXTENDS Connection, TLAPS

\* A request to reconnect is pending only while the client waits for it.
PendingWaits == reconReq => client = "waiting"

\* While comm_task is in step 2 the client never sets out for a new
\* connection: it is connected and subscribed, or it rests.
OnlineOrResting ==
    steps = "online" =>
      /\ client \in {"connected", "waiting"}
      /\ ~reconReq
      /\ client = "connected" => subscribed

\* There is no client before comm_task has made the first one.
FirstIsNew == first_in => client = "none"

SubInv == PendingWaits /\ OnlineOrResting /\ FirstIsNew

LEMMA SubInit == Init => SubInv
BY DEF Init, SubInv, PendingWaits, OnlineOrResting, FirstIsNew

\* Each step of the client keeps the invariant: it connects again only on a
\* request or when it may rest, and neither is the case in step 2.
LEMMA ClientKeeps == SubInv /\ ClientStep => SubInv'
<1> SUFFICES ASSUME SubInv, ClientStep PROVE SubInv'
  OBVIOUS
<1> USE DEF SubInv, PendingWaits, OnlineOrResting, FirstIsNew
<1>1. CASE Established
  BY <1>1 DEF Established, commVars
<1>2. CASE AttemptFails
  BY <1>2 DEF AttemptFails, commVars
<1>3. CASE Closed
  BY <1>3 DEF Closed, Lose, commVars
<1>4. CASE Connect
  BY <1>4 DEF Connect, Rested, commVars
<1> QED
  BY <1>1, <1>2, <1>3, <1>4 DEF ClientStep

\* So does each step of comm_task: it enters step 2 only with the
\* subscription just made on a connection that is up.
LEMMA CommKeeps == SubInv /\ CommStep => SubInv'
<1> SUFFICES ASSUME SubInv, CommStep PROVE SubInv'
  OBVIOUS
<1> USE DEF SubInv, PendingWaits, OnlineOrResting, FirstIsNew
<1>1. CASE Boot
  BY <1>1 DEF Boot, clientVars
<1>2. CASE StartClient
  <2>1. steps = "wifi" /\ steps' = "mqtt" /\ client' = "connecting" /\ reconReq' = reconReq
    BY <1>2 DEF StartClient
  <2>2. ~first_in'
    BY <1>2 DEF StartClient, FirstDone
  <2>3. ~reconReq
    BY <1>2 DEF StartClient
  <2> QED
    BY <2>1, <2>2, <2>3
<1>3. CASE Reconnect
  BY <1>3 DEF Reconnect
<1>4. CASE CheckMqtt
  BY <1>4 DEF CheckMqtt, AfterConnect, SeesConnected, clientVars
<1>5. CASE Subscribe
  BY <1>5 DEF Subscribe
<1>6. CASE CheckOnline
  BY <1>6 DEF CheckOnline, Back, clientVars, SeesConnected
<1> QED
  BY <1>1, <1>2, <1>3, <1>4, <1>5, <1>6 DEF CommStep

\* And the network, the commands and a reset.
LEMMA WorldKeeps == SubInv /\ (WifiStep \/ Trouble \/ Reboot) => SubInv'
<1> SUFFICES ASSUME SubInv, WifiStep \/ Trouble \/ Reboot PROVE SubInv'
  OBVIOUS
<1> USE DEF SubInv, PendingWaits, OnlineOrResting, FirstIsNew
<1>1. CASE StaConnected
  BY <1>1 DEF StaConnected, Restart, clientVars, commVars
<1>2. CASE GotIp
  BY <1>2 DEF GotIp, clientVars, commVars
<1>3. CASE Lost
  BY <1>3 DEF Lost, Lose, commVars
<1>4. CASE StaDisconnected \/ LateAddress
  BY <1>4 DEF StaDisconnected, LateAddress, clientVars, commVars
<1>5. CASE World
  BY <1>5 DEF World, clientVars, commVars
<1>6. CASE IpCommand
  BY <1>6 DEF IpCommand, commVars
<1>7. CASE Reboot
  BY <1>7 DEF Reboot, Restart
<1> QED
  BY <1>1, <1>2, <1>3, <1>4, <1>5, <1>6, <1>7 DEF WifiStep, Trouble

LEMMA SubStep == SubInv /\ [Next]_vars => SubInv'
<1>1. SubInv /\ UNCHANGED vars => SubInv'
  BY DEF SubInv, PendingWaits, OnlineOrResting, FirstIsNew, vars, clientVars, commVars
<1> QED
  BY <1>1, ClientKeeps, CommKeeps, WorldKeeps DEF Next

\* The subscription is kept: whenever comm_task is in step 2 and the client is
\* connected, the server has the subscription for this connection.
THEOREM OnlineIsSubscribed == Spec => []SubscriptionKept
<1>1. SubInv => SubscriptionKept
  BY DEF SubInv, OnlineOrResting, SubscriptionKept
<1> QED
  BY SubInit, SubStep, <1>1, PTL DEF Spec

-----------------------------------------------------------------------------
(* Types                                                                   *)

LEMMA TypeInit == Init => TypeOK
  BY DEF Init, Wifi!Init, TypeOK

LEMMA TypeStep == TypeOK /\ [Next]_vars => TypeOK'
<1> SUFFICES ASSUME TypeOK, [Next]_vars PROVE TypeOK'
  OBVIOUS
<1> USE DEF TypeOK, wifiVars, worldVars, clientVars, commVars
<1>1. CASE Established
  BY <1>1 DEF Established
<1>2. CASE AttemptFails
  BY <1>2 DEF AttemptFails
<1>3. CASE Closed \/ Lost
  <2>1. discReq' \in BOOLEAN /\ subscribed' \in BOOLEAN /\ client' = "waiting" /\ client = "connected"
    BY <1>3 DEF Closed, Lost, Lose
  <2>2. UNCHANGED <<reconReq, assoc, wifiBit, sntp, ap, server, fast, steps, first_in, ip_flag,
                    mqtt_flag, nvsIp>>
    BY <1>3 DEF Closed, Lost, Lose
  <2> QED
    BY <2>1, <2>2
<1>4. CASE Connect
  <2>1. discReq' \in BOOLEAN /\ reconReq' \in BOOLEAN /\ client' = "connecting" /\ client = "waiting"
    BY <1>4 DEF Connect
  <2>2. UNCHANGED <<subscribed, assoc, wifiBit, sntp, ap, server, fast, steps, first_in, ip_flag,
                    mqtt_flag, nvsIp>>
    BY <1>4 DEF Connect
  <2> QED
    BY <2>1, <2>2
<1>5. CASE Boot
  BY <1>5 DEF Boot
<1>6. CASE StartClient
  <2>1. first_in' \in BOOLEAN /\ ~first_in' /\ client' = "connecting" /\ steps' = "mqtt"
    BY <1>6 DEF StartClient, FirstDone
  <2>2. UNCHANGED <<discReq, reconReq, subscribed, ip_flag, mqtt_flag, assoc, wifiBit, sntp, ap,
                    server, fast, nvsIp>>
    BY <1>6 DEF StartClient
  <2> QED
    BY <2>1, <2>2
<1>7. CASE Reconnect
  <2>1. discReq' \in BOOLEAN
    BY <1>7, Zenon DEF Reconnect
  <2>3. reconReq' \in BOOLEAN
    BY <1>7, Zenon DEF Reconnect
  <2>2. UNCHANGED <<client, subscribed, first_in, ip_flag, mqtt_flag, assoc, wifiBit, sntp, ap,
                    server, fast, nvsIp>> /\ steps' = "mqtt"
    BY <1>7 DEF Reconnect
  <2> QED
    BY <2>1, <2>2, <2>3
<1>8. CASE CheckMqtt
  BY <1>8 DEF CheckMqtt, AfterConnect
<1>9. CASE Subscribe
  BY <1>9 DEF Subscribe
<1>10. CASE CheckOnline
  BY <1>10 DEF CheckOnline, Back, FlagDown
<1>11. CASE StaConnected
  <2>1. CASE Restart
    BY <2>1 DEF Restart, Wifi!Reset
  <2>2. CASE ~Restart
    <3>1. sntp' \in BOOLEAN /\ sntp' /\ assoc' \in BOOLEAN /\ wifiBit' = wifiBit
      BY <1>11, <2>2 DEF StaConnected, Wifi!Join
    <3>2. UNCHANGED <<ap, server, fast, client, discReq, reconReq, subscribed, steps, first_in,
                      ip_flag, mqtt_flag, nvsIp>>
      BY <1>11, <2>2 DEF StaConnected
    <3> QED
      BY <3>1, <3>2
  <2> QED
    BY <2>1, <2>2
<1>12. CASE GotIp \/ LateAddress
  <2>1. wifiBit' \in BOOLEAN /\ sntp /\ UNCHANGED <<assoc, sntp>>
    BY <1>12 DEF GotIp, LateAddress, Wifi!Address
  <2>2. UNCHANGED <<ap, server, fast, client, discReq, reconReq, subscribed, steps, first_in,
                    ip_flag, mqtt_flag, nvsIp>>
    BY <1>12 DEF GotIp, LateAddress
  <2> QED
    BY <2>1, <2>2
<1>13. CASE StaDisconnected
  <2>1. wifiBit' \in BOOLEAN /\ ~wifiBit' /\ assoc' \in BOOLEAN /\ ~assoc' /\ sntp' = sntp
    BY <1>13 DEF StaDisconnected, Wifi!Leave
  <2>2. UNCHANGED <<ap, server, fast, client, discReq, reconReq, subscribed, steps, first_in,
                    ip_flag, mqtt_flag, nvsIp>>
    BY <1>13 DEF StaDisconnected
  <2> QED
    BY <2>1, <2>2
<1>14. CASE World
  BY <1>14 DEF World
<1>15. CASE IpCommand
  BY <1>15 DEF IpCommand
<1>16. CASE Reboot
  BY <1>16 DEF Reboot, Restart, Wifi!Reset
<1>17. CASE UNCHANGED vars
  BY <1>17 DEF vars
<1> QED
  BY <1>1, <1>2, <1>3, <1>4, <1>5, <1>6, <1>7, <1>8, <1>9, <1>10, <1>11, <1>12, <1>13, <1>14,
     <1>15, <1>16, <1>17 DEF Next, ClientStep, CommStep, WifiStep, Trouble

\* Every variable of the connection keeps its type, nothing is reported of the
\* network before the SNTP client runs, and first_in says whether there is a
\* client.
THEOREM TypeCorrect == Spec => []TypeOK
  BY TypeInit, TypeStep, PTL DEF Spec

-----------------------------------------------------------------------------
(* The address command.  Nothing takes ip_flag back before the next boot,   *)
(* and with it no attempt of the client succeeds.                           *)

\* A boot with IP_FLAG has no server.
Stranded == ip_flag = 1 => client # "connected" /\ mqtt_flag = 0

\* The flag is read once per boot, before there is a client.
BootIsNew == steps = "boot" => client = "none" /\ mqtt_flag = 0

StrandInv == Stranded /\ BootIsNew

LEMMA StrandStep == StrandInv /\ [Next]_vars => StrandInv'
<1> SUFFICES ASSUME StrandInv, [Next]_vars PROVE StrandInv'
  OBVIOUS
<1> USE DEF StrandInv, Stranded, BootIsNew, clientVars, commVars
<1>1. CASE ClientStep
  <2>1. Established => ip_flag # 1
    BY DEF Established, Reachable, HostKnown
  <2> QED
    BY <1>1, <2>1 DEF ClientStep, Established, AttemptFails, Closed, Lose, Connect
<1>2. CASE CommStep
  <2>1. CASE Boot
    BY <2>1 DEF Boot
  <2>2. CASE CheckMqtt
    BY <2>2 DEF CheckMqtt, AfterConnect, SeesConnected
  <2>3. CASE StartClient \/ Reconnect \/ Subscribe \/ CheckOnline
    BY <2>3 DEF StartClient, Reconnect, Subscribe, CheckOnline, Back, FlagDown
  <2> QED
    BY <1>2, <2>1, <2>2, <2>3 DEF CommStep
<1>3. CASE WifiStep \/ Trouble \/ Reboot
  BY <1>3 DEF WifiStep, Trouble, StaConnected, GotIp, Lost, Lose, StaDisconnected, LateAddress, World,
     IpCommand, Reboot, Restart
<1>4. CASE UNCHANGED vars
  BY <1>4 DEF vars
<1> QED
  BY <1>1, <1>2, <1>3, <1>4 DEF Next

\* What the violation of AddressTakesEffect rests on: in a boot that read
\* IP_FLAG the client is never connected and every report is stored, whatever
\* Wi-Fi, server, client and comm_task do.
THEOREM AddressCommandStrands == Spec => []Stranded
<1>1. Init => StrandInv
  BY DEF Init, StrandInv, Stranded, BootIsNew
<1>2. StrandInv => Stranded
  BY DEF StrandInv
<1> QED
  BY <1>1, <1>2, StrandStep, PTL DEF Spec

-----------------------------------------------------------------------------
(* The link that the rest of the firmware sees                             *)

\* Every step is one of module Link's or leaves the link alone: what connects
\* and closes is the client, and comm_task writes the flag where it has just
\* looked at the client.
LEMMA LinkStep == TypeOK /\ [Next]_vars => [Net!Next]_(Net!vars)
<1> SUFFICES ASSUME TypeOK, [Next]_vars PROVE [Net!Next]_(Net!vars)
  OBVIOUS
<1> USE DEF Net!Next, Net!vars
<1>0. mqtt_flag \in {0, 1} /\ (first_in <=> client = "none")
  BY DEF TypeOK
<1>1. CASE Established
  BY <1>1 DEF Established, Net!Up, commVars
<1>2. CASE Closed \/ Lost
  BY <1>2 DEF Closed, Lost, Lose, Net!Down, commVars
<1>3. CASE AttemptFails \/ Connect
  BY <1>3 DEF AttemptFails, Connect, commVars
<1>4. CASE StartClient
  BY <1>0, <1>4 DEF StartClient, FirstDone, Net!Create
<1>5. CASE CheckMqtt \/ CheckOnline
  BY <1>0, <1>5 DEF CheckMqtt, CheckOnline, SeesConnected, FlagDown, Net!Notice, clientVars
<1>6. CASE Boot \/ Reconnect \/ Subscribe
  BY <1>6 DEF Boot, Reconnect, Subscribe, clientVars
<1>7. CASE StaConnected
  BY <1>7 DEF StaConnected, Restart, Net!Reset, clientVars, commVars
<1>8. CASE GotIp \/ StaDisconnected \/ LateAddress \/ World \/ IpCommand
  BY <1>8 DEF GotIp, StaDisconnected, LateAddress, World, IpCommand, clientVars, commVars
<1>9. CASE Reboot
  BY <1>9 DEF Reboot, Restart, Net!Reset
<1>10. CASE UNCHANGED vars
  BY <1>10 DEF vars, clientVars, commVars
<1> QED
  BY <1>1, <1>2, <1>3, <1>4, <1>5, <1>6, <1>7, <1>8, <1>9, <1>10
  DEF Next, ClientStep, CommStep, WifiStep, Trouble

\* Connection implements Link: what ReportStore assumes of its network is what
\* the Wi-Fi events, the client and comm_task provide.
THEOREM ConnectionImplementsLink == Spec => LinkAsAssumed
<1>1. Init => Net!Init
  BY DEF Init, Net!Init
<1> QED
  BY <1>1, LinkStep, TypeCorrect, PTL DEF Spec, LinkAsAssumed, Net!Spec
=============================================================================
