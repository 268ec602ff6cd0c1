------------------------------ MODULE WifiEvents ------------------------------
(***************************************************************************)
(* What the connection may rely on of the Wi-Fi events: whatever the phone *)
(* and the network do, their handlers report an association at most once   *)
(* per boot, an address only after one, and clear all they have reported   *)
(* when the network is lost.  An address may come late: CONNECTED_BIT can  *)
(* be set without an association.                                          *)
(* Connection is built from these actions; Provisioning implements them.   *)
(***************************************************************************)

VARIABLES
    assoc,    \* gl_sta_connected
    bit,      \* CONNECTED_BIT of wifi_event_group
    sntp      \* the SNTP client runs

vars == <<assoc, bit, sntp>>

Init == assoc = FALSE /\ bit = FALSE /\ sntp = FALSE

\* The SNTP client is started with the association and cannot be started twice.
Join == ~sntp /\ sntp' = TRUE /\ assoc' = TRUE /\ UNCHANGED bit

Address == sntp /\ ~bit /\ bit' = TRUE /\ UNCHANGED <<assoc, sntp>>

\* Nothing stops the SNTP client.
Leave == (assoc \/ bit) /\ assoc' = FALSE /\ bit' = FALSE /\ UNCHANGED sntp

Reset == assoc' = FALSE /\ bit' = FALSE /\ sntp' = FALSE

Next == Join \/ Address \/ Leave \/ Reset

Spec == Init /\ [][Next]_vars
=============================================================================
