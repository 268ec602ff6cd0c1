----------------------------- MODULE ReportStore -----------------------------
(***************************************************************************)
(* The report pipeline of the smart socket: every measurement report is    *)
(* published by the timer task (mqtt_publish_data) and, when the MQTT link *)
(* is flagged down, also stored in flash; a second task (data_Upload_again)*)
(* replays what was stored when the link is flagged up again.              *)
(*                                                                         *)
(* The store is the NVS key "count" (int8) of namespace "storage" and the  *)
(* blobs "1", "2", ... of namespace "power".  The two tasks run on the     *)
(* same core with the same priority and share the store without a lock:    *)
(* one NVS call is atomic, a sequence of NVS calls is not.  So each NVS    *)
(* call and each read of mqtt_flag is a step of its own here, and the      *)
(* device may reboot between any two of them.                              *)
(***************************************************************************)
EXTENDS Integers

CONSTANTS
    Limit,       \* a report is stored only while count <= Limit (0x78)
    MaxReports,  \* bound on the reports produced in a behaviour
    FlashFaults  \* TRUE if an NVS call may fail: open, read or write

ASSUME LimitAssumption   == Limit \in 0 .. 126   \* count is an int8_t
ASSUME ReportsAssumption == MaxReports \in Nat
ASSUME FaultsAssumption  == FlashFaults \in BOOLEAN

Reports  == 1 .. MaxReports
NoReport == 0
Slots    == 1 .. (Limit + 1)

VARIABLES
    count,     \* NVS "count"; an absent key reads as -1, which both tasks treat as 0
    blob,      \* NVS blobs, by slot; never erased, only overwritten
    bad,       \* empty slots to which a write has failed
    client,    \* the esp-mqtt client exists
    link,      \* the client is connected to the broker
    mqttFlag,  \* mqtt_flag, comm_task's view of the link
    outbox,    \* reports queued in the client (QoS 1), not acknowledged yet
    made,      \* number of reports produced; report n is the n-th
    tpc, slot,     \* timer task: control point, local cnt (1 outside its use)
    upc, cursor,   \* upload task: control point, local cnt
    uploaded,  \* history: reports the upload task has published
    unread,    \* history: reports it has skipped because their blob could not be read
    exposed,   \* history: reports counted into the store during an upload
    misread    \* history: a failed read of count by the timer task still works on

flashVars   == <<count, blob, bad>>
netVars     == <<client, link, mqttFlag, outbox>>
timerVars   == <<made, tpc, slot>>
uploadVars  == <<upc, cursor>>
replayVars  == <<uploaded, unread>>
vars == <<flashVars, netVars, timerVars, uploadVars, replayVars, exposed, misread>>

Init ==
    /\ count = 0
    /\ blob = [s \in Slots |-> NoReport]
    /\ bad = {}
    /\ client = FALSE
    /\ link = FALSE
    /\ mqttFlag = 0
    /\ outbox = {}
    /\ made = 0
    /\ tpc = "idle"
    /\ slot = 1
    /\ upc = "idle"
    /\ cursor = 0
    /\ uploaded = {}
    /\ unread = {}
    /\ exposed = {}
    /\ misread = FALSE

\* The part of the state that comm_task and the client own: Connection implements it.
Net == INSTANCE Link WITH flag <- mqttFlag

\* Each task has read count and has not yet written it back.
TimerWindow  == tpc \in {"blob", "count"}
UploadWindow == upc \in {"load", "dec"}

\* NVS_READ_INT8("count"): 0 as well when the open or the read fails.
CountRead == {count} \union (IF FlashFaults THEN {0} ELSE {})

\* What a failed read of count has started is over when both tasks have
\* finished with the store.
MisreadOn == misread /\ (TimerWindow' \/ UploadWindow')
Note == misread' = MisreadOn /\ UNCHANGED exposed

\* app_mqtt_client_publish with QoS 1: the client queues the report whether or
\* not it is connected; without a client the call only returns -1.
Enqueue(r) == outbox' = IF client THEN outbox \union {r} ELSE outbox

-----------------------------------------------------------------------------
(* Timer task: mqtt_publish_data.                                          *)

\* The report is built and published, connected or not.
PublishData ==
    /\ tpc = "idle"
    /\ made < MaxReports
    /\ made' = made + 1
    /\ Enqueue(made + 1)
    /\ tpc' = "check"
    /\ UNCHANGED <<flashVars, client, link, mqttFlag, slot, uploadVars, replayVars>>
    /\ Note

\* if (mqtt_flag == 0)
CheckFlag ==
    /\ tpc = "check"
    /\ tpc' = IF mqttFlag = 0 THEN "read" ELSE "idle"
    /\ UNCHANGED <<flashVars, netVars, made, slot, uploadVars, replayVars>>
    /\ Note

\* if (cnt > 0x78) return
StoreFull(cnt) == cnt > Limit

\* cnt++
NextSlotSkips(cnt) == cnt + 2                        \* mutant: cnt += 2
NextSlotStays(cnt) == IF cnt = 0 THEN 1 ELSE cnt     \* mutant: cnt++ forgotten
NextSlot(cnt) == cnt + 1

\* cnt = NVS_READ_INT8("count"); a full store drops the report.
ReadCount ==
    /\ tpc = "read"
    /\ \E cnt \in CountRead :
          /\ \/ /\ StoreFull(cnt)
                /\ tpc' = "idle"
                /\ UNCHANGED slot
             \/ /\ ~StoreFull(cnt)
                /\ slot' = NextSlot(cnt)
                /\ tpc' = "blob"
          /\ UNCHANGED <<flashVars, netVars, made, uploadVars, replayVars, exposed>>
          /\ misread' = (MisreadOn \/ cnt # count)

\* NVS_WRITE_BLOB(key, data, offset); a failed write is only logged.
WriteBlob ==
    /\ tpc = "blob"
    /\ \/ /\ blob' = [blob EXCEPT ![slot] = made]
          /\ bad' = bad \ {slot}
       \/ /\ FlashFaults
          /\ bad' = IF blob[slot] = NoReport THEN bad \union {slot} ELSE bad
          /\ UNCHANGED blob
    /\ tpc' = "count"
    /\ UNCHANGED <<count, netVars, made, slot, uploadVars, replayVars>>
    /\ Note

WrittenAhead == slot + 1             \* mutant: cnt is incremented once more
Written == slot

\* NVS_WRITE_INT8("count", cnt); a failed write is only logged.
WriteCount ==
    /\ tpc = "count"
    /\ \/ /\ count' = Written
          /\ exposed' = IF UploadWindow THEN exposed \union ({blob[slot]} \ {NoReport})
                                        ELSE exposed
       \/ FlashFaults /\ UNCHANGED <<count, exposed>>
    /\ tpc' = "idle"
    /\ slot' = 1
    /\ UNCHANGED <<blob, bad, netVars, made, uploadVars, replayVars>>
    /\ misread' = MisreadOn

TimerStep == CheckFlag \/ ReadCount \/ WriteBlob \/ WriteCount

-----------------------------------------------------------------------------
(* Upload task: Upload_again_work.                                         *)

\* if (mqtt_flag == 1)
FlagUpIgnored == TRUE             \* mutant: mqtt_flag is not looked at
FlagUp == mqttFlag = 1

\* The flag is looked at once per wake-up and not again in the loop.
UploadWake ==
    /\ upc = "idle"
    /\ FlagUp
    /\ upc' = "read"
    /\ UNCHANGED <<flashVars, netVars, timerVars, cursor, replayVars>>
    /\ Note

\* cnt = NVS_READ_INT8("count"), once per wake-up
UploadRead ==
    /\ upc = "read"
    /\ \E cnt \in CountRead :
          /\ cursor' = cnt
          /\ upc' = IF cnt > 0 THEN "load" ELSE "idle"
    /\ UNCHANGED <<flashVars, netVars, timerVars, replayVars>>
    /\ Note

\* NVS_READ_BLOB(key): read the blob and publish it; an absent blob is
\* skipped, and so is one that cannot be read (the result is not looked at).
UploadBlob ==
    /\ upc = "load"
    /\ \/ /\ blob[cursor] = NoReport
          /\ UNCHANGED <<outbox, replayVars>>
       \/ /\ blob[cursor] # NoReport
          /\ Enqueue(blob[cursor])
          /\ uploaded' = uploaded \union {blob[cursor]}
          /\ UNCHANGED unread
       \/ /\ FlashFaults
          /\ blob[cursor] # NoReport
          /\ unread' = unread \union {blob[cursor]}
          /\ UNCHANGED <<outbox, uploaded>>
    /\ upc' = "dec"
    /\ UNCHANGED <<flashVars, client, link, mqttFlag, timerVars, cursor>>
    /\ Note

\* cnt--
RemainingTwoLess == cursor - 2   \* mutant: decremented twice
RemainingAll     == cursor       \* mutant: cnt-- forgotten
Remaining == cursor - 1

\* cnt--; NVS_WRITE_INT8("count", cnt); loop while cnt > 0
UploadDec ==
    /\ upc = "dec"
    /\ cursor' = Remaining
    /\ \/ count' = Remaining
       \/ FlashFaults /\ UNCHANGED count
    /\ upc' = IF Remaining > 0 THEN "load" ELSE "idle"
    /\ UNCHANGED <<blob, bad, netVars, timerVars, replayVars>>
    /\ Note

UploadStep == UploadWake \/ UploadRead \/ UploadBlob \/ UploadDec

-----------------------------------------------------------------------------
(* The link, its flag, and the device.                                     *)

\* What is not the link's.
Reporting == <<flashVars, outbox, timerVars, uploadVars, replayVars, exposed, misread>>

\* comm_task, step 0 with first_in: the client is created once per boot.
ClientInit == Net!Create /\ UNCHANGED Reporting

LinkUp   == Net!Up /\ UNCHANGED Reporting
LinkDown == Net!Down /\ UNCHANGED Reporting

\* comm_task, steps 1 and 2: mqtt_flag follows the link some time later.
CommPoll == Net!Notice /\ UNCHANGED Reporting

\* The client sends a queued report and gets it acknowledged, or drops one
\* that has waited through an outage of the link.
Transmit(r) ==
    /\ link
    /\ outbox' = outbox \ {r}
    /\ UNCHANGED <<flashVars, client, link, mqttFlag, timerVars, uploadVars, replayVars, exposed, misread>>

Expire(r) ==
    /\ ~link
    /\ outbox' = outbox \ {r}
    /\ UNCHANGED <<flashVars, client, link, mqttFlag, timerVars, uploadVars, replayVars, exposed, misread>>

\* Power loss or reset at any point: RAM is lost, flash is kept.
Reboot ==
    /\ Net!Reset
    /\ outbox' = {}
    /\ tpc' = "idle"
    /\ slot' = 1
    /\ upc' = "idle"
    /\ cursor' = 0
    /\ misread' = FALSE
    /\ UNCHANGED <<flashVars, made, replayVars, exposed>>

Network ==
    \/ ClientInit \/ LinkUp \/ LinkDown \/ CommPoll
    \/ \E r \in outbox : Transmit(r) \/ Expire(r)

Next == PublishData \/ TimerStep \/ UploadStep \/ Network \/ Reboot

\* Both tasks are scheduled for ever (equal priority, every loop blocks).
\* Nothing is assumed of the client, the link and comm_task, which may be
\* caught in its loop that subscribes.
Fairness ==
    /\ WF_vars(TimerStep)
    /\ WF_vars(UploadStep)

Spec     == Init /\ [][Next]_vars
FairSpec == Spec /\ Fairness

-----------------------------------------------------------------------------
(* Properties                                                              *)

\* Type invariant: the store, the network and both tasks' control states
\* (mqtt_publish_data, Upload_again_work) stay in their declared ranges.
TypeOK ==
    /\ count \in 0 .. 127
    /\ blob \in [Slots -> Reports \union {NoReport}]
    /\ bad \subseteq Slots
    /\ client \in BOOLEAN
    /\ link \in BOOLEAN
    /\ mqttFlag \in {0, 1}
    /\ outbox \subseteq Reports
    /\ made \in 0 .. MaxReports
    /\ tpc \in {"idle", "check", "read", "blob", "count"}
    /\ slot \in Slots
    /\ upc \in {"idle", "read", "load", "dec"}
    /\ cursor \in 0 .. (Limit + 1)
    /\ uploaded \subseteq Reports
    /\ unread \subseteq Reports
    /\ exposed \subseteq Reports
    /\ misread \in BOOLEAN

\* The counter never passes the last slot, whatever the interleaving of the
\* two tasks: count + 1 fits an int8_t, and its decimal form fits key[4].
CountBounded == count <= Limit + 1

Filled(s) == blob[s] # NoReport \/ s \in bad

\* Every slot the upload task will be told to read holds a report, unless
\* its write failed: interleavings and reboots leave no hole below count.
NoHoles == \A s \in Slots : s <= count => Filled(s)

\* A slot below count is never overwritten: what is stored can be dropped by
\* a stale count, but a report never replaces another one that is stored,
\* unless a failed read of count told the timer task that the store was empty.
StoredSlotsStable ==
    [][misread \/ \A s \in Slots : s <= count => blob'[s] = blob[s]]_vars

\* The reports in the store.
Contents == {blob[s] : s \in {x \in Slots : x <= count}} \ {NoReport}

\* The pipeline keeps the promise of module Delivery: whatever the tasks,
\* the client, resets and failing calls do, a report counted into the store
\* while no upload was under way leaves it only after it was handed over, and
\* what is handed over is queued again.
D == INSTANCE Delivery WITH
       stored <- Contents,
       queued <- outbox, handed <- uploaded, skipped <- unread,
       draining <- UploadWindow, misled <- misread, Faults <- FlashFaults

DeliveryKept == D!Spec

\* While the link stays flagged up and flash serves the upload task's reads
\* and writes of count, the store is emptied and stays empty, although new
\* reports and the other task's writes of count keep coming.
StoreDrains ==
    /\ <>[](mqttFlag = 1)
    /\ <>[][UploadRead => cursor' = count]_vars
    /\ <>[][UploadDec => count' = Remaining]_vars
    => <>[](count = 0)
=============================================================================
