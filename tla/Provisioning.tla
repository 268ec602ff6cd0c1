----------------------------- MODULE Provisioning -----------------------------
(***************************************************************************)
(* How the socket gets its network (app_blufi.c): the phone's messages,    *)
(* handled by the BTC task, and the Wi-Fi and IP events, handled one after *)
(* the other by the event task.  Both drive the same station: what the     *)
(* phone asks for produces events, and their handlers act on the station   *)
(* in their turn.  The event task has the higher priority, so it may run   *)
(* between any two calls of the BTC task and not the other way round.      *)
(*                                                                         *)
(* The station is external: esp_wifi_connect needs an idle station and a   *)
(* stored SSID, esp_wifi_disconnect ends an attempt or an association and  *)
(* tells so by an event, esp_wifi_set_config may be refused during an      *)
(* attempt and is without the station, and keeps what it takes in flash.   *)
(* Of a configuration it only matters whether it lets the station into the *)
(* network that is there.                                                  *)
(***************************************************************************)
EXTENDS BleSession

CONSTANT QueueLen     \* events that may wait (32); who posts one waits for room

ASSUME QueueAssumption == QueueLen \in Nat \ {0}

VARIABLES
    sta,        \* the station: "off", "idle", "connecting", "associated"
    ap,         \* the network "home" is there
    cfg,        \* the station's configuration: "none", "home", "other"
    net,        \* the one it had when the attempt began
    evq,        \* events that wait for the event task
    dhcp,       \* an address has been asked for
    sntp,       \* the SNTP client runs
    nossid,     \* history: the last call of esp_wifi_connect found no SSID
    sta_config, \* RAM: the configuration as received from the phone
    gl_sta_connected,
    bit         \* CONNECTED_BIT

\* What the connection sees of all this.
Wifi == INSTANCE WifiEvents WITH assoc <- gl_sta_connected

staVars == <<sta, ap, cfg, net, dhcp, sntp, nossid>>
appVars == <<sta_config, gl_sta_connected, bit>>
wifiVars == <<staVars, evq, appVars>>
vars == <<bleVars, wifiVars>>

Configs == {"none", "home", "other"}

\* esp_wifi_start posts STA_START.
Init ==
    /\ BleInit
    /\ sta = "idle" /\ ap = TRUE /\ cfg = "none" /\ net = "none" /\ evq = <<"start">>
    /\ dhcp = FALSE /\ sntp = FALSE /\ nossid = FALSE
    /\ sta_config = "none" /\ gl_sta_connected = FALSE /\ bit = FALSE

\* A reset: all but the network and the stored configuration starts anew.
Reset ==
    /\ BleReset
    /\ sta' = "idle" /\ net' = "none" /\ evq' = <<"start">>
    /\ dhcp' = FALSE /\ sntp' = FALSE /\ nossid' = FALSE
    /\ sta_config' = "none" /\ gl_sta_connected' = FALSE /\ bit' = FALSE
    /\ UNCHANGED <<ap, cfg>>

-----------------------------------------------------------------------------
(* The calls to the station                                                *)

HasRoom == Len(evq) < QueueLen

\* esp_wifi_connect
Connects ==
    IF sta = "idle" /\ cfg # "none"
      THEN sta' = "connecting" /\ net' = cfg /\ nossid' = FALSE
      ELSE UNCHANGED <<sta, net>> /\ nossid' = (sta = "idle")

\* esp_wifi_disconnect, and what a change of mode does to the station
Ends(s) ==
    /\ HasRoom
    /\ sta' = s
    /\ evq' = IF sta \in {"connecting", "associated"} THEN Append(evq, "disconnected") ELSE evq

\* esp_wifi_set_config with what has been received so far
SetConfig ==
    \/ sta # "off" /\ cfg' = sta_config'
    \/ sta \in {"off", "connecting"} /\ UNCHANGED cfg

-----------------------------------------------------------------------------
(* The station                                                             *)

Joins == net = "home" /\ ap

Associate ==
    /\ sta = "connecting" /\ Joins /\ HasRoom
    /\ sta' = "associated"
    /\ evq' = Append(evq, "connected")
    /\ UNCHANGED <<bleVars, ap, cfg, net, dhcp, sntp, nossid, appVars>>

AttemptFails ==
    /\ sta = "connecting" /\ ~Joins
    /\ Ends("idle")
    /\ UNCHANGED <<bleVars, ap, cfg, net, dhcp, sntp, nossid, appVars>>

Drops ==
    /\ sta = "associated"
    /\ Ends("idle")
    /\ UNCHANGED <<bleVars, ap, cfg, net, dhcp, sntp, nossid, appVars>>

Loses == ~ap /\ Drops

\* The network stack gets its address; the station may be lost by now.
GetsAddress ==
    /\ dhcp /\ HasRoom
    /\ dhcp' = FALSE
    /\ evq' = Append(evq, "gotip")
    /\ UNCHANGED <<bleVars, sta, ap, cfg, net, sntp, nossid, appVars>>

World ==
    /\ ap' = ~ap
    /\ UNCHANGED <<bleVars, sta, cfg, net, evq, dhcp, sntp, nossid, appVars>>

-----------------------------------------------------------------------------
(* Event task: wifi_event_handler, ip_event_handler, and before them the   *)
(* network stack's own handler, which starts and stops DHCP.               *)

Arrives(e) == evq # <<>> /\ Head(evq) = e /\ evq' = Tail(evq)

StaysOff == UNCHANGED <<sta, net, nossid>>    \* mutant: no attempt at start
AtStart  == Connects

\* WIFI_EVENT_STA_START
StaStart ==
    /\ Arrives("start")
    /\ AtStart
    /\ UNCHANGED <<bleVars, ap, cfg, dhcp, sntp, appVars>>

\* WIFI_EVENT_STA_CONNECTED: esp_initialize_sntp once more ends in an assertion
Asserts == evq # <<>> /\ Head(evq) = "connected" /\ sntp

StaConnected ==
    \/ Asserts /\ Reset
    \/ /\ Arrives("connected") /\ ~sntp
       /\ gl_sta_connected' = TRUE
       /\ sntp' = TRUE /\ dhcp' = TRUE
       /\ UNCHANGED <<bleVars, sta, ap, cfg, net, nossid, sta_config, bit>>

LeavesIt    == UNCHANGED <<sta, net, nossid>> \* mutant: the phone's request is not undone
Reconnects  == Connects
BitKept     == bit                            \* mutant: the bit is not cleared
BitCleared  == FALSE
FlagKept    == gl_sta_connected               \* mutant: gl_sta_connected is not cleared
FlagCleared == FALSE

\* WIFI_EVENT_STA_DISCONNECTED
StaDisconnected ==
    /\ Arrives("disconnected")
    /\ gl_sta_connected' = FlagCleared
    /\ Reconnects
    /\ bit' = BitCleared
    /\ dhcp' = FALSE
    /\ UNCHANGED <<bleVars, ap, cfg, sntp, sta_config>>

\* IP_EVENT_STA_GOT_IP
GotIp ==
    /\ Arrives("gotip")
    /\ bit' = TRUE
    /\ UNCHANGED <<bleVars, staVars, sta_config, gl_sta_connected>>

-----------------------------------------------------------------------------
(* BTC task: the phone's messages.  The scan, the status report and the    *)
(* SoftAP parameters change none of this state.                            *)

Serving == btc = "ready" /\ ble_is_connected

\* RECV_STA_SSID, RECV_STA_PASSWD, RECV_STA_BSSID: one part of sta_config is
\* replaced, an SSID by an empty one too, and all of it is given to the station,
\* whatever it answers.
ReceiveConfig ==
    /\ Serving
    /\ sta_config' \in Configs
    /\ SetConfig
    /\ UNCHANGED <<bleVars, sta, ap, net, evq, dhcp, sntp, nossid, gl_sta_connected, bit>>

\* REQ_CONNECT_TO_AP: esp_wifi_disconnect ...
RequestConnect ==
    /\ Serving
    /\ Ends(IF sta = "off" THEN "off" ELSE "idle")
    /\ btc' = "connect"
    /\ UNCHANGED <<linked, adv, todo, ble_is_connected, sessionVars,
                   ap, cfg, net, dhcp, sntp, nossid, appVars>>

\* ... then esp_wifi_connect
ThenConnect ==
    /\ btc = "connect"
    /\ Connects
    /\ btc' = "ready"
    /\ UNCHANGED <<linked, adv, todo, ble_is_connected, sessionVars,
                   ap, cfg, evq, dhcp, sntp, appVars>>

\* REQ_DISCONNECT_FROM_AP
RequestDisconnect ==
    /\ Serving
    /\ Ends(IF sta = "off" THEN "off" ELSE "idle")
    /\ UNCHANGED <<bleVars, ap, cfg, net, dhcp, sntp, nossid, appVars>>

\* GET_WIFI_LIST: esp_wifi_scan_start waits for the scan; it is refused during
\* an attempt
ScanStart ==
    /\ Serving /\ sta \notin {"off", "connecting"}
    /\ btc' = "scan"
    /\ UNCHANGED <<linked, adv, todo, ble_is_connected, sessionVars, wifiVars>>

ScanDone ==
    /\ btc = "scan"
    /\ btc' = "ready"
    /\ UNCHANGED <<linked, adv, todo, ble_is_connected, sessionVars, wifiVars>>

\* SET_WIFI_OPMODE: without the station, or with it again
StationOff ==
    /\ Serving /\ sta # "off"
    /\ Ends("off")
    /\ UNCHANGED <<bleVars, ap, cfg, net, dhcp, sntp, nossid, appVars>>

StationOn ==
    /\ Serving /\ sta = "off" /\ HasRoom
    /\ sta' = "idle"
    /\ evq' = Append(evq, "start")
    /\ UNCHANGED <<bleVars, ap, cfg, net, dhcp, sntp, nossid, appVars>>

\* A restart by hand, and the panic of a negotiation with a session that is not
\* cleared yet.
Reboot == Reset
Panic  == Panics /\ Reset

-----------------------------------------------------------------------------
Ble == BleStep /\ UNCHANGED wifiVars

Station   == Associate \/ AttemptFails \/ Loses \/ GetsAddress
EventTask == StaStart \/ StaConnected \/ StaDisconnected \/ GotIp
BtcTask   == (BtcStep /\ UNCHANGED wifiVars) \/ ThenConnect \/ ScanDone
Phone     == \/ ReceiveConfig \/ RequestConnect \/ RequestDisconnect \/ ScanStart
             \/ StationOff \/ StationOn
Trouble   == Drops \/ World \/ Reboot \/ Panic

Next == Ble \/ Station \/ EventTask \/ ThenConnect \/ ScanDone \/ Phone \/ Trouble

Spec == Init /\ [][Next]_vars

\* The station, both tasks and the scan go on; nothing is assumed of the
\* phone and of the network.
FairSpec == Spec /\ WF_vars(Station) /\ WF_vars(EventTask) /\ WF_vars(BtcTask)

-----------------------------------------------------------------------------
(* Properties                                                              *)

\* Type invariant.
TypeOK ==
    /\ BleTypeOK
    /\ sta \in {"off", "idle", "connecting", "associated"}
    /\ ap \in BOOLEAN /\ dhcp \in BOOLEAN /\ sntp \in BOOLEAN /\ nossid \in BOOLEAN
    /\ cfg \in Configs /\ net \in Configs /\ sta_config \in Configs
    /\ evq \in Seq({"start", "connected", "disconnected", "gotip"}) /\ Len(evq) <= QueueLen
    /\ gl_sta_connected \in BOOLEAN /\ bit \in BOOLEAN

Pending(e) == \E i \in 1 .. Len(evq) : evq[i] = e

\* The socket never gives up: a station is idle only while an event or the
\* BTC task is about to connect it, or because the last attempt to do so found
\* no SSID.  In particular a disconnection the phone asked for is undone by
\* the handler of its own event.
KeepsTrying ==
    sta = "idle" => Pending("start") \/ Pending("disconnected") \/ btc = "connect" \/ nossid

\* Whatever the phone and the network did meanwhile, once no event waits the
\* firmware's view of the station is the station.
EventsTell == evq = <<>> => (gl_sta_connected <=> sta = "associated")

\* CONNECTED_BIT may be set by an address that arrives behind the loss of the
\* network, but not for good: without the network it is finally clear, because
\* the station goes on trying and each attempt that fails clears it.  (With
\* the station off or without an SSID nothing does.)
BitSettles == <>[](~ap /\ sta # "off" /\ ~nossid) => <>[](~bit)

\* Once the phone is done and the network stays, a socket that has the right
\* configuration gets online for good, whatever was going on before.  The only
\* reset that is still to come may be that of the firmware's own assertion.
Settled == ap /\ cfg = "home" /\ sta # "off" /\ ~nossid

Recovers == <>[]Settled /\ <>[][~Phone /\ ~Drops /\ (Reset => Asserts)]_vars => <>[](bit /\ sta = "associated")

\* The connection sees exactly the Wi-Fi events it is written for: at most one
\* association per boot, no address before it, and nothing left of either
\* when the network is lost, whatever the phone, the network and the queue of
\* events do in between.
EventsAsAssumed == Wifi!Spec
=============================================================================
