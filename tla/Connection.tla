------------------------------ MODULE Connection ------------------------------
(***************************************************************************)
(* How the socket gets online: the Wi-Fi events (app_blufi.c), the MQTT    *)
(* client and its events, and comm_task, which polls both, connects,       *)
(* reconnects and subscribes; the command that changes the server address. *)
(*                                                                         *)
(* The Wi-Fi driver and the MQTT client of ESP-IDF 4.4 are external.  The  *)
(* client connects by itself: at once after its start or after a request   *)
(* to reconnect, and otherwise ten seconds after a connection was lost.  A *)
(* request to disconnect made while it connects takes effect when it is    *)
(* connected.  comm_task polls at least every two seconds, so what takes   *)
(* ten does not happen between two of its polls (Rested).                  *)
(***************************************************************************)
EXTENDS Integers

VARIABLES
    assoc,      \* gl_sta_connected
    wifiBit,    \* CONNECTED_BIT of wifi_event_group
    sntp,       \* the SNTP client runs
    ap, server, \* the access point and the MQTT server can be reached
    fast,       \* a connection attempt ends before comm_task polls again
    client,     \* "none", "connecting", "connected", "waiting"
    discReq, reconReq,   \* requests the client has not taken yet
    subscribed, \* the server has a subscription for this connection
    steps,      \* comm_task: "boot", 0: "wifi", 1: "mqtt", "subscribe", 2: "online"
    first_in, ip_flag, mqtt_flag,
    nvsIp       \* NVS IP_FLAG

\* The Wi-Fi events as Provisioning provides them.
Wifi == INSTANCE WifiEvents WITH bit <- wifiBit

\* What the rest of the device sees of all this.
Net == INSTANCE Link WITH client <- (client # "none"), link <- (client = "connected"),
                          flag <- mqtt_flag

wifiVars   == <<assoc, wifiBit, sntp>>
worldVars  == <<ap, server, fast>>
clientVars == <<client, discReq, reconReq, subscribed>>
commVars   == <<steps, first_in, ip_flag, mqtt_flag>>
vars == <<wifiVars, worldVars, clientVars, commVars, nvsIp>>

Init ==
    /\ Wifi!Init
    /\ ap = TRUE /\ server = TRUE /\ fast \in BOOLEAN
    /\ client = "none" /\ discReq = FALSE /\ reconReq = FALSE /\ subscribed = FALSE
    /\ steps = "boot" /\ first_in = TRUE /\ ip_flag = 0 /\ mqtt_flag = 0
    /\ nvsIp = 0

-----------------------------------------------------------------------------
(* Wi-Fi: the driver associates again after each esp_wifi_connect          *)

\* A reset: everything but flash and the world starts anew.
Restart ==
    /\ Wifi!Reset
    /\ client' = "none" /\ discReq' = FALSE /\ reconReq' = FALSE /\ subscribed' = FALSE
    /\ steps' = "boot" /\ first_in' = TRUE /\ ip_flag' = 0 /\ mqtt_flag' = 0
    /\ UNCHANGED <<worldVars, nvsIp>>

\* WIFI_EVENT_STA_CONNECTED: esp_initialize_sntp.  lwIP asserts that the
\* operating mode is not set while the client runs.
Associates == ~assoc /\ ap /\ steps # "boot"
Asserts    == Associates /\ sntp

StaConnected ==
    \/ Asserts /\ Restart
    \/ /\ Associates /\ ~sntp
       /\ Wifi!Join
       /\ UNCHANGED <<worldVars, clientVars, commVars, nvsIp>>

\* IP_EVENT_STA_GOT_IP
GotIp ==
    /\ assoc
    /\ Wifi!Address
    /\ UNCHANGED <<worldVars, clientVars, commVars, nvsIp>>

\* The address arrives behind the loss of the network (see Provisioning).
LateAddress ==
    /\ ~assoc
    /\ Wifi!Address
    /\ UNCHANGED <<worldVars, clientVars, commVars, nvsIp>>

\* WIFI_EVENT_STA_DISCONNECTED, for a network lost or an attempt that failed
StaDisconnected ==
    /\ Wifi!Leave
    /\ UNCHANGED <<worldVars, clientVars, commVars, nvsIp>>

World ==
    /\ ap' \in BOOLEAN /\ server' \in BOOLEAN /\ fast' \in BOOLEAN
    /\ UNCHANGED <<wifiVars, clientVars, commVars, nvsIp>>

-----------------------------------------------------------------------------
(* The MQTT client and mqtt_event_handler (CONNECTED_BIT = connected)      *)

\* new_host and new_port are never assigned: with ip_flag there is no server.
HostKnown == ip_flag = 0

Reachable == assoc /\ wifiBit /\ server /\ HostKnown

Established ==
    /\ client = "connecting" /\ Reachable
    /\ client' = "connected"
    /\ UNCHANGED <<discReq, reconReq, subscribed, wifiVars, worldVars, commVars, nvsIp>>

AttemptFails ==
    /\ client = "connecting" /\ ~Reachable
    /\ client' = "waiting"
    /\ UNCHANGED <<discReq, reconReq, subscribed, wifiVars, worldVars, commVars, nvsIp>>

\* The connection is lost or closed on request; the session is a clean one.
Lose ==
    /\ client = "connected"
    /\ client' = "waiting"
    /\ discReq' = FALSE
    /\ subscribed' = FALSE
    /\ UNCHANGED <<reconReq, wifiVars, worldVars, commVars, nvsIp>>

Closed == discReq /\ Lose
Lost   == ~discReq /\ Lose

\* The ten seconds of the client are longer than what comm_task takes to poll,
\* unless it waits for the network or is in the loop that subscribes.
Rested == steps = "subscribe" \/ (steps = "wifi" /\ ~wifiBit)

Connect ==
    /\ client = "waiting"
    /\ reconReq \/ Rested
    /\ client' = "connecting"
    /\ discReq' = FALSE /\ reconReq' = FALSE
    /\ UNCHANGED <<subscribed, wifiVars, worldVars, commVars, nvsIp>>

-----------------------------------------------------------------------------
(* comm_task                                                               *)

\* Between two polls the client has done what was asked of it.
Polls == (fast => client # "connecting" /\ ~reconReq) /\ ~(discReq /\ client = "connected")

\* app_blufi_init, then IP_FLAG; -1 (not set) counts as 0, and a read that
\* fails gives 0
Boot ==
    /\ steps = "boot"
    /\ ip_flag' \in {nvsIp, 0}
    /\ steps' = "wifi"
    /\ UNCHANGED <<first_in, mqtt_flag, wifiVars, worldVars, clientVars, nvsIp>>

FirstAgain == TRUE                \* mutant: every outage makes another client
FirstDone  == FALSE

\* steps 0, first connection: app_mqtt_client_init
StartClient ==
    /\ steps = "wifi" /\ wifiBit /\ Polls
    /\ first_in
    /\ client' = "connecting"
    /\ first_in' = FirstDone
    /\ steps' = "mqtt"
    /\ UNCHANGED <<discReq, reconReq, subscribed, ip_flag, mqtt_flag, wifiVars, worldVars, nvsIp>>

\* steps 0, later: app_mqtt_client_reconnect.  esp_mqtt_client_reconnect is
\* refused unless the client waits.
Reconnect ==
    /\ steps = "wifi" /\ wifiBit /\ Polls
    /\ ~first_in
    /\ discReq' = (client = "connecting" \/ client = "connected")
    /\ reconReq' = (reconReq \/ client = "waiting")
    /\ steps' = "mqtt"
    /\ UNCHANGED <<client, subscribed, first_in, ip_flag, mqtt_flag, wifiVars, worldVars, nvsIp>>

\* if (app_mqtt_connected())
SeesClient    == client # "none"  \* mutant: the bit is set before the connection is made
SeesConnected == client = "connected"

\* steps 1
AfterConnectSkips == "online"     \* mutant: relies on the session the server keeps
AfterConnect == "subscribe"
CheckMqtt ==
    /\ steps = "mqtt" /\ Polls
    /\ IF SeesConnected
         THEN mqtt_flag' = 1 /\ steps' = AfterConnect
         ELSE mqtt_flag' = 0 /\ steps' = "wifi"
    /\ UNCHANGED <<first_in, ip_flag, wifiVars, worldVars, clientVars, nvsIp>>

\* app_mqtt_client_subscribe: esp_mqtt_client_subscribe returns a message id;
\* while it returns -1 the loop waits a second and tries again
Subscribe ==
    /\ steps = "subscribe" /\ client = "connected"
    /\ subscribed' = TRUE
    /\ steps' = "online"
    /\ UNCHANGED <<client, discReq, reconReq, first_in, ip_flag, mqtt_flag, wifiVars, worldVars, nvsIp>>

\* steps 2: back to 0 when the link is gone
BackStays == steps                \* mutant: only the flag is reset
FlagStays == mqtt_flag            \* mutant: only the step is reset
FlagDown  == 0
Back == "wifi"
CheckOnline ==
    /\ steps = "online" /\ Polls
    /\ ~SeesConnected
    /\ steps' = Back
    /\ mqtt_flag' = FlagDown
    /\ UNCHANGED <<first_in, ip_flag, wifiVars, worldVars, clientVars, nvsIp>>

-----------------------------------------------------------------------------
(* process_task                                                            *)

\* mqtt_cmd_ip: IP_FLAG is set, unless its write fails, the address is not
\* stored; then app_mqtt_client_disconnect
IpCommand ==
    /\ subscribed /\ client = "connected"
    /\ nvsIp' \in {nvsIp, 1}
    /\ discReq' = TRUE
    /\ UNCHANGED <<client, reconReq, subscribed, wifiVars, worldVars, commVars>>

Reboot == Restart

-----------------------------------------------------------------------------
ClientStep == Established \/ AttemptFails \/ Closed \/ Connect
CommStep   == Boot \/ StartClient \/ Reconnect \/ CheckMqtt \/ Subscribe \/ CheckOnline
WifiStep   == StaConnected \/ GotIp
Trouble    == Lost \/ StaDisconnected \/ LateAddress \/ World \/ IpCommand

Next == ClientStep \/ CommStep \/ WifiStep \/ Trouble \/ Reboot

Spec == Init /\ [][Next]_vars

\* The driver, the client and comm_task run; nothing is assumed of the world.
FairSpec == Spec /\ WF_vars(WifiStep) /\ WF_vars(ClientStep) /\ WF_vars(CommStep)

-----------------------------------------------------------------------------
(* Properties                                                              *)

\* Type invariant.
TypeOK ==
    /\ assoc \in BOOLEAN /\ wifiBit \in BOOLEAN
    /\ sntp \in BOOLEAN /\ (assoc \/ wifiBit => sntp)
    /\ ap \in BOOLEAN /\ server \in BOOLEAN /\ fast \in BOOLEAN
    /\ client \in {"none", "connecting", "connected", "waiting"}
    /\ discReq \in BOOLEAN /\ reconReq \in BOOLEAN /\ subscribed \in BOOLEAN
    /\ steps \in {"boot", "wifi", "mqtt", "subscribe", "online"}
    /\ first_in \in BOOLEAN /\ (first_in <=> client = "none")
    /\ ip_flag \in {0, 1} /\ mqtt_flag \in {0, 1} /\ nvsIp \in {0, 1}

\* While comm_task takes the device for online and the client is connected,
\* the server has the subscription: no connection that replaced a lost one is
\* left without it, whoever established it.
SubscriptionKept == steps = "online" /\ client = "connected" => subscribed

\* The network stays up and nobody interferes; the only reset that may still
\* come is that of the firmware's own assertion.
LeftAlone == <>[](ap /\ server /\ fast) /\ <>[][~Trouble /\ (Restart => Asserts)]_vars

Online == steps = "online" /\ client = "connected" /\ subscribed /\ mqtt_flag = 1

\* Once it is left alone, a device that booted without IP_FLAG is online for
\* good: comm_task, the reconnection of the client and the assertion at a
\* second association do not undo each other's work for ever.  (With attempts
\* that take longer than two seconds they do: the request to disconnect that
\* comm_task makes meanwhile closes each connection when it is made.)
StaysOnline == LeftAlone /\ <>[](ip_flag = 0) => <>[]Online

\* The promise of MQTT.h ("modify ip, port") and of MQTT_Subscribed.c ("enable
\* the new IP"): the address command gives the device another server, so that
\* after it, too, the device gets online when it is left alone.  It does not:
\* mqtt_cmd_ip sets IP_FLAG and stores no address, and with the next boot the
\* client has no server to connect to.
AddressTakesEffect == LeftAlone => <>[]Online

\* A lost link reaches the publisher: once the client stays disconnected,
\* mqtt_flag tells so and reports are stored, unless comm_task is caught in
\* the loop that subscribes.
LossNoticed == <>[](client # "connected") => <>[](mqtt_flag = 0 \/ steps = "subscribe")

\* The report pipeline sees exactly the link it is written for: mqtt_flag
\* changes only to what the link is at that moment, and there is one client
\* per boot, for all that Wi-Fi, both reconnections and resets do.
LinkAsAssumed == Net!Spec
=============================================================================
