--------------------------------- MODULE Link ---------------------------------
(***************************************************************************)
(* What the report pipeline may rely on of the connection: a client that   *)
(* is created once per boot, a link that comes and goes, and mqtt_flag,    *)
(* which comm_task sets from the link some time later and never otherwise. *)
(* ReportStore is built from these actions; Connection implements them.    *)
(***************************************************************************)
EXTENDS Integers

VARIABLES
    client,   \* the esp-mqtt client exists
    link,     \* it is connected to the broker
    flag      \* mqtt_flag

vars == <<client, link, flag>>

Init == client = FALSE /\ link = FALSE /\ flag = 0

Create == ~client /\ client' = TRUE /\ UNCHANGED <<link, flag>>

Up   == client /\ ~link /\ link' = TRUE /\ UNCHANGED <<client, flag>>
Down == link /\ link' = FALSE /\ UNCHANGED <<client, flag>>

\* The flag only ever changes to what the link is at that moment.
Notice ==
    /\ flag # (IF link THEN 1 ELSE 0)
    /\ flag' = IF link THEN 1 ELSE 0
    /\ UNCHANGED <<client, link>>

Reset == client' = FALSE /\ link' = FALSE /\ flag' = 0

Next == Create \/ Up \/ Down \/ Notice \/ Reset

Spec == Init /\ [][Next]_vars
=============================================================================
