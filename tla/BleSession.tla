------------------------------ MODULE BleSession ------------------------------
(***************************************************************************)
(* The phone's way in: BLE link, advertising and the key-negotiation       *)
(* session of Blufi (blufi_security.c, the BLE cases of app_blufi.c).      *)
(*                                                                         *)
(* Two tasks of the Bluetooth host share it.  The BTU task sees the link   *)
(* come and go, queues an event for the BTC task each time, and calls the  *)
(* negotiation handler itself; it has the higher priority on the same      *)
(* core, so a handler of the BTC task may be interrupted between any two   *)
(* of its calls and the negotiation handler is not.  Advertising ends when *)
(* a phone connects.  The host of ESP-IDF 4.4 is external.  The blocks     *)
(* that mbedtls takes for itself are not counted.                          *)
(***************************************************************************)
EXTENDS Integers, Sequences

CONSTANT MaxLeaks     \* bound: buffers that the memset of blufi_security_init forgets

ASSUME LeaksAssumption == MaxLeaks \in Nat

VARIABLES
    linked,    \* a phone is connected
    adv,       \* the device advertises
    todo,      \* events for the BTC task: "init", "connect", "disconnect"
    btc,       \* what the BTC task is in the middle of, "ready" if nothing
    ble_is_connected,
    blufi_sec, \* the session: "none", of the last link ("own"), of an earlier one ("stale")
    dh_param,  \* blufi_sec->dh_param: "null", an allocated "buffer", "garbage" of malloc
    heap,      \* history: blocks of sessions that are allocated
    leaked     \* history: buffers that the memset made unreachable

hostVars    == <<linked, adv, todo, btc, ble_is_connected>>
sessionVars == <<blufi_sec, dh_param, heap, leaked>>
bleVars     == <<hostVars, sessionVars>>

BleInit ==
    /\ linked = FALSE /\ adv = FALSE /\ todo = <<"init">> /\ btc = "ready"
    /\ ble_is_connected = FALSE
    /\ blufi_sec = "none" /\ dh_param = "null" /\ heap = 0 /\ leaked = 0

\* A reset.
BleReset ==
    /\ linked' = FALSE /\ adv' = FALSE /\ todo' = <<"init">> /\ btc' = "ready"
    /\ ble_is_connected' = FALSE
    /\ blufi_sec' = "none" /\ dh_param' = "null" /\ heap' = 0 /\ leaked' = 0

Blocks(p) == IF p THEN 1 ELSE 0

-----------------------------------------------------------------------------
(* BTU task: the link                                                      *)

PhoneConnects ==
    /\ adv
    /\ linked' = TRUE /\ adv' = FALSE
    /\ todo' = Append(todo, "connect")
    /\ blufi_sec' = IF blufi_sec = "none" THEN "none" ELSE "stale"
    /\ UNCHANGED <<btc, ble_is_connected, dh_param, heap, leaked>>

LinkEnds ==
    /\ linked
    /\ linked' = FALSE
    /\ todo' = Append(todo, "disconnect")

PhoneLeaves == LinkEnds /\ UNCHANGED <<adv, btc, ble_is_connected, sessionVars>>

-----------------------------------------------------------------------------
(* BTU task: blufi_dh_negotiate_data_handler.  Without a session, and for  *)
(* DATA without a buffer, it only reports an error.  Between malloc and    *)
(* memset of blufi_security_init it takes a session that is not there yet: *)
(* what it does with the garbage may end in a panic (Panics) or pass.      *)

Negotiates == linked /\ blufi_sec # "none" /\ UNCHANGED <<hostVars, blufi_sec, leaked>>

OldBufferKept == 0                  \* mutant: the buffer of an earlier length leaks
OldBufferAny  == 1                  \* mutant: freed whether there is one or not
OldBuffer == Blocks(dh_param = "buffer")

\* SEC_TYPE_DH_PARAM_LEN: the old buffer is freed; malloc may fail.
ParamLen ==
    /\ Negotiates
    /\ btc = "init" => leaked < MaxLeaks
    /\ dh_param' \in {"null", "buffer"}
    /\ heap' = heap - OldBuffer + Blocks(dh_param' = "buffer")

\* SEC_TYPE_DH_PARAM_DATA: mbedtls_dhm_read_params refuses the parameters and
\* the buffer stays, or it is freed and the public key is made.
ParamData ==
    /\ Negotiates
    /\ dh_param # "null"
    /\ dh_param' = "null"
    /\ heap' = heap - Blocks(dh_param = "buffer")

\* Garbage is freed or written to, or an uninitialised dhm is read into.
Panics == linked /\ btc = "init" /\ dh_param # "null"

-----------------------------------------------------------------------------
(* BTC task: example_event_callback                                        *)

Event(e) == btc = "ready" /\ todo # <<>> /\ Head(todo) = e

\* ESP_BLUFI_EVENT_INIT_FINISH: esp_blufi_adv_start
InitFinish ==
    /\ Event("init")
    /\ adv' = TRUE
    /\ todo' = Tail(todo)
    /\ UNCHANGED <<linked, btc, ble_is_connected, sessionVars>>

\* ESP_BLUFI_EVENT_BLE_CONNECT: esp_blufi_adv_stop, then the malloc of
\* blufi_security_init, which publishes the new session without a look at an
\* old one and before it is cleared, or fails.
BleConnect ==
    /\ Event("connect")
    /\ ble_is_connected' = TRUE
    /\ adv' = FALSE
    /\ \/ /\ blufi_sec' = "own" /\ heap' = heap + 1
          /\ dh_param' \in {"null", "garbage"}
          /\ btc' = "init" /\ UNCHANGED todo
       \/ /\ blufi_sec' = "none" /\ dh_param' = "null" /\ UNCHANGED heap
          /\ btc' = "ready" /\ todo' = Tail(todo)
    /\ UNCHANGED <<linked, leaked>>

\* The rest of blufi_security_init: memset
SecurityWipe ==
    /\ btc = "init"
    /\ dh_param' = "null"
    /\ leaked' = leaked + Blocks(dh_param = "buffer")
    /\ btc' = "ready"
    /\ todo' = Tail(todo)
    /\ UNCHANGED <<linked, adv, ble_is_connected, blufi_sec, heap>>

\* ESP_BLUFI_EVENT_BLE_DISCONNECT, up to blufi_security_deinit
AdvFirst == TRUE                    \* mutant: esp_blufi_adv_start before the session is freed
AdvYet   == adv
BleDisconnect ==
    /\ Event("disconnect")
    /\ ble_is_connected' = FALSE
    /\ adv' = AdvYet
    /\ btc' = "deinit"
    /\ UNCHANGED <<linked, todo, sessionVars>>

AdvForgotten == adv                 \* mutant: the device is not discoverable any more
AdvAgain     == TRUE

\* blufi_security_deinit, then esp_blufi_adv_start
Deinit ==
    /\ btc = "deinit"
    /\ heap' = heap - Blocks(dh_param = "buffer") - Blocks(blufi_sec # "none")
    /\ blufi_sec' = "none" /\ dh_param' = "null"
    /\ adv' = AdvAgain
    /\ btc' = "ready"
    /\ todo' = Tail(todo)
    /\ UNCHANGED <<linked, ble_is_connected, leaked>>

\* ESP_BLUFI_EVENT_RECV_SLAVE_DISCONNECT_BLE: esp_blufi_disconnect
SlaveDisconnect ==
    /\ btc = "ready" /\ ble_is_connected
    /\ LinkEnds
    /\ UNCHANGED <<adv, btc, ble_is_connected, sessionVars>>

BtuStep == PhoneConnects \/ PhoneLeaves \/ ParamLen \/ ParamData
BtcStep == InitFinish \/ BleConnect \/ SecurityWipe \/ BleDisconnect \/ Deinit
BleStep == BtuStep \/ BtcStep \/ SlaveDisconnect

-----------------------------------------------------------------------------
(* Properties                                                              *)

BleTypeOK ==
    /\ linked \in BOOLEAN /\ adv \in BOOLEAN /\ ble_is_connected \in BOOLEAN
    /\ todo \in Seq({"init", "connect", "disconnect"})
    /\ btc \in {"ready", "init", "deinit", "connect", "scan"}
    /\ blufi_sec \in {"none", "own", "stale"} /\ dh_param \in {"null", "buffer", "garbage"}
    /\ heap \in Nat /\ leaked \in 0 .. MaxLeaks

\* A phone never negotiates on the session of an earlier one: however late the
\* BTC task handles the events, blufi_security_deinit has freed the session
\* before the next phone can connect, so that it never frees the one in use.
SessionOwn == linked => blufi_sec # "stale"

\* Each block that is allocated is one the session refers to, or the buffer
\* that a phone negotiated for between the malloc and the memset of
\* blufi_security_init: no order of lengths, refused parameters, failing
\* mallocs and lost links leaks another one or frees one twice, and garbage is
\* met in that window only.
BuffersOwned ==
    /\ heap = Blocks(dh_param = "buffer") + Blocks(blufi_sec # "none") + leaked
    /\ dh_param = "garbage" => btc = "init"

\* The device can always be found again: without a phone it advertises, or
\* the event that makes it advertise is still to be handled.
Discoverable == linked \/ adv \/ todo # <<>>
=============================================================================
