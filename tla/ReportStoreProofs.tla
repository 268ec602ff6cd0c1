-------------------------- MODULE ReportStoreProofs --------------------------
(***************************************************************************)
(* Proofs about ReportStore, for every store size, number of reports and   *)
(* choice of failing flash calls.                                          *)
(*                                                                         *)
(* The argument: between its read and its write of count, each task has a  *)
(* bound on the other one.  The upload task never raises count above what  *)
(* it has read, and the timer task only ever raises it (Fresh), so the     *)
(* slot it is filling is always above count - as long as the timer task    *)
(* has read what count really was.  Whatever was read, every slot up to    *)
(* the one a task works on has been written (Prepared).                    *)
(***************************************************************************)
EXTENDS ReportStore, TLAPS

\* A report is being handled only after one was produced.
ReportMade == tpc # "idle" => made \in Reports

\* Every slot that a task may count into the store has been written.
Prepared ==
    /\ TimerWindow => \A s \in Slots : s < slot => Filled(s)
    /\ tpc = "count" => Filled(slot)
    /\ UploadWindow => \A s \in Slots : s <= cursor => Filled(s)

\* The upload task works on a slot.
CursorInside == UploadWindow => cursor \in Slots

\* The timer task fills a slot above everything stored; the upload task works
\* at or below count.
Fresh ==
    \/ misread
    \/ /\ TimerWindow => count < slot
       /\ UploadWindow => cursor <= count

StoreInv ==
    /\ TypeOK
    /\ CountBounded
    /\ NoHoles
    /\ ReportMade
    /\ Prepared
    /\ CursorInside
    /\ Fresh

LEMMA InitStore == Init => StoreInv
<1> SUFFICES ASSUME Init PROVE StoreInv
  OBVIOUS
<1> USE LimitAssumption, ReportsAssumption DEF Init, Slots, Reports, NoReport
<1>1. TypeOK
  <2>1. client \in BOOLEAN /\ link \in BOOLEAN /\ misread \in BOOLEAN
    OBVIOUS
  <2>2. QED
    BY <2>1 DEF TypeOK
<1>2. CountBounded /\ NoHoles /\ ReportMade
  BY DEF CountBounded, NoHoles, ReportMade
<1>3. Prepared /\ CursorInside /\ Fresh
  BY DEF Prepared, CursorInside, Fresh, TimerWindow, UploadWindow
<1>4. QED
  BY <1>1, <1>2, <1>3 DEF StoreInv

\* A step keeps the note of a failed read of count until both windows are
\* closed; only a read of the timer task that fails makes the note.
LEMMA MisreadTyped == ASSUME TypeOK, Note PROVE misread' \in BOOLEAN /\ exposed' = exposed
BY Zenon DEF Note, MisreadOn, TypeOK

LEMMA ReadNote ==
  ASSUME TypeOK, ReadCount
  PROVE  /\ misread' \in BOOLEAN
         /\ exposed' = exposed
         /\ misread' => FlashFaults \/ misread
         /\ ~misread' => \/ /\ ~misread
                            /\ tpc' = "blob" => slot' = count + 1
                         \/ ~TimerWindow' /\ ~UploadWindow'
<1>1. PICK cnt \in CountRead :
        /\ \/ tpc' = "idle"
           \/ tpc' = "blob" /\ slot' = cnt + 1
        /\ misread' = (MisreadOn \/ cnt # count)
  BY DEF ReadCount, NextSlot
<1>2. exposed' = exposed
  BY DEF ReadCount
<1>3. misread' \in BOOLEAN
  BY <1>1, Zenon
<1>4. cnt # count => FlashFaults
  BY DEF CountRead
<1>5. misread' => FlashFaults \/ misread
  BY <1>1, <1>4, Zenon DEF MisreadOn
<1>6. ~misread' => cnt = count /\ (~misread \/ (~TimerWindow' /\ ~UploadWindow'))
  BY <1>1, Zenon DEF MisreadOn
<1>7. ~misread' /\ tpc' = "blob" => slot' = count + 1
  BY <1>1, <1>6
<1> QED
  BY <1>2, <1>3, <1>5, <1>6, <1>7, Zenon

LEMMA StepNote ==
  ASSUME TypeOK, [Next]_vars, ~ReadCount
  PROVE  /\ misread' \in BOOLEAN
         /\ misread' => misread
         /\ ~misread' => ~misread \/ (~TimerWindow' /\ ~UploadWindow')
<1>1. CASE misread' = MisreadOn
  BY <1>1, Zenon DEF MisreadOn, TypeOK
<1>2. CASE misread' = misread
  BY <1>2, Zenon DEF TypeOK
<1>3. CASE Reboot
  BY <1>3 DEF Reboot, TimerWindow, UploadWindow
<1>4. CASE PublishData \/ CheckFlag \/ WriteBlob \/ WriteCount \/ UploadStep
  BY <1>1, <1>4 DEF PublishData, CheckFlag, WriteBlob, WriteCount, UploadStep, UploadWake, UploadRead,
     UploadBlob, UploadDec, Note
<1>5. CASE Network \/ UNCHANGED vars
  BY <1>2, <1>5 DEF Network, ClientInit, LinkUp, LinkDown, CommPoll, Transmit, Expire, Reporting, vars
<1> QED
  BY <1>3, <1>4, <1>5 DEF Next, TimerStep

\* Every step of the timer task, the upload task and the rest of the device
\* preserves the types; the bounds of StoreInv keep slot, cursor and count in range.
LEMMA StepTyped == StoreInv /\ [Next]_vars => TypeOK'
<1> SUFFICES ASSUME StoreInv, [Next]_vars PROVE TypeOK'
  OBVIOUS
<1> USE DEF TimerWindow, UploadWindow
<1>a. TypeOK /\ CountBounded /\ ReportMade /\ CursorInside
  BY DEF StoreInv
<1>b. misread' \in BOOLEAN
  BY <1>a, ReadNote, StepNote
<1>1. CASE PublishData
  BY <1>a, <1>b, <1>1, ReportsAssumption DEF Reports, PublishData, TypeOK, Enqueue, Note, flashVars, uploadVars, replayVars
<1>2. CASE CheckFlag
  BY <1>a, <1>b, <1>2 DEF CheckFlag, TypeOK, Note, flashVars, netVars, uploadVars, replayVars
<1>3. CASE ReadCount
  <2>1. PICK cnt \in CountRead :
          \/ ~(cnt > Limit) /\ slot' = cnt + 1 /\ tpc' = "blob"
          \/ slot' = slot /\ tpc' = "idle"
    BY <1>3 DEF ReadCount, StoreFull, NextSlot
  <2>2. cnt \in 0 .. 127
    BY <1>a DEF CountRead, TypeOK
  <2>3. slot' \in Slots /\ tpc' \in {"idle", "blob"}
    BY <1>a, <2>1, <2>2, LimitAssumption DEF Slots, TypeOK
  <2>4. UNCHANGED <<flashVars, netVars, made, uploadVars, replayVars, exposed>>
    BY <1>3 DEF ReadCount
  <2> QED
    BY <1>a, <1>b, <2>3, <2>4 DEF TypeOK, flashVars, netVars, uploadVars, replayVars
<1>4. CASE WriteBlob
  <2>1. made \in Reports
    BY <1>a, <1>4 DEF WriteBlob, ReportMade
  <2>2. blob' \in [Slots -> Reports \union {NoReport}]
    BY <1>a, <1>4, <2>1 DEF WriteBlob, TypeOK
  <2>3. bad' \subseteq Slots
    BY <1>a, <1>4 DEF WriteBlob, TypeOK
  <2>5. QED
    BY <1>a, <1>b, <1>4, <2>2, <2>3 DEF WriteBlob, TypeOK, Note, netVars, uploadVars, replayVars
<1>5. CASE WriteCount
  <2>1. exposed' \subseteq Reports
    <3>1. blob[slot] \in Reports \union {NoReport}
      BY <1>a DEF TypeOK
    <3>2. exposed' \in {exposed, exposed \union ({blob[slot]} \ {NoReport})}
      BY <1>5 DEF WriteCount
    <3> QED
      BY <1>a, <3>1, <3>2 DEF TypeOK
  <2>4. count' \in {count, slot}
    BY <1>5 DEF WriteCount, Written
  <2>5. count' \in 0 .. 127
    BY <1>a, <2>4, LimitAssumption DEF Slots, TypeOK
  <2>6. tpc' = "idle" /\ slot' = 1 /\ UNCHANGED <<blob, bad, netVars, made, uploadVars, replayVars>>
    BY <1>5 DEF WriteCount, Written
  <2>7. QED
    BY <1>a, <1>b, <2>1, <2>5, <2>6, LimitAssumption DEF TypeOK, Slots, netVars, uploadVars, replayVars
<1>6. CASE UploadWake
  BY <1>a, <1>b, <1>6 DEF UploadWake, TypeOK, Note, flashVars, netVars, timerVars, replayVars
<1>7. CASE UploadRead
  <2>1. cursor' \in {0, count} /\ upc' \in {"load", "idle"}
    BY <1>7 DEF UploadRead, CountRead
  <2>2. cursor' \in 0 .. (Limit + 1)
    BY <1>a, <2>1, LimitAssumption DEF TypeOK, CountBounded
  <2> QED
    BY <1>a, <1>b, <1>7, <2>1, <2>2 DEF UploadRead, TypeOK, Note, flashVars, netVars, timerVars, replayVars
<1>8. CASE UploadBlob
  <2>1. cursor \in Slots
    BY <1>a, <1>8 DEF UploadBlob, CursorInside
  <2>2. blob[cursor] \in Reports \union {NoReport}
    BY <1>a, <2>1 DEF TypeOK
  <2>3. /\ outbox' \subseteq Reports
        /\ uploaded' \subseteq Reports
        /\ unread' \subseteq Reports
    BY <1>a, <1>8, <2>2 DEF UploadBlob, Enqueue, TypeOK, replayVars
  <2>4. QED
    BY <1>a, <1>b, <1>8, <2>3 DEF UploadBlob, TypeOK, Note, flashVars, timerVars
<1>9. CASE UploadDec
  <2>1. cursor \in Slots
    BY <1>a, <1>9 DEF UploadDec, CursorInside
  <2>3. count' \in {count, cursor - 1} /\ cursor' = cursor - 1
    BY <1>9 DEF UploadDec, Remaining
  <2>4. count' \in 0 .. 127 /\ cursor' \in 0 .. (Limit + 1)
    BY <1>a, <2>1, <2>3, LimitAssumption DEF Slots, TypeOK
  <2>5. upc' \in {"load", "idle"} /\ UNCHANGED <<blob, bad, netVars, timerVars, replayVars, exposed>>
    BY <1>9 DEF UploadDec, Note
  <2>6. QED
    BY <1>a, <1>b, <2>4, <2>5 DEF TypeOK, netVars, timerVars, replayVars
<1>10. CASE Network
  <2>1. CASE ClientInit \/ LinkUp \/ LinkDown
    <3>1. client' \in BOOLEAN /\ link' \in BOOLEAN
      BY <1>a, <2>1 DEF ClientInit, LinkUp, LinkDown, Net!Create, Net!Up, Net!Down, TypeOK
    <3>2. UNCHANGED <<mqttFlag, Reporting>>
      BY <2>1 DEF ClientInit, LinkUp, LinkDown, Net!Create, Net!Up, Net!Down
    <3>3. QED
      BY <1>a, <3>1, <3>2 DEF TypeOK, Reporting, flashVars, timerVars, uploadVars, replayVars
  <2>2. CASE CommPoll
    <3>1. mqttFlag' \in {0, 1}
      BY <2>2 DEF CommPoll, Net!Notice
    <3>2. UNCHANGED <<client, link, Reporting>>
      BY <2>2 DEF CommPoll, Net!Notice
    <3>3. QED
      BY <1>a, <3>1, <3>2 DEF TypeOK, Reporting, flashVars, timerVars, uploadVars, replayVars
  <2>3. CASE \E r \in outbox : Transmit(r) \/ Expire(r)
    <3>1. outbox' \subseteq Reports
      BY <1>a, <2>3 DEF Transmit, Expire, TypeOK
    <3>2. QED
      BY <1>a, <2>3, <3>1 DEF Transmit, Expire, TypeOK, flashVars, timerVars, uploadVars, replayVars
  <2>4. QED
    BY <1>10, <2>1, <2>2, <2>3 DEF Network
<1>11. CASE Reboot
  <2>1. client' \in BOOLEAN /\ link' \in BOOLEAN
    BY <1>a, <1>11 DEF TypeOK, Reboot, Net!Reset
  <2>2. QED
    BY <1>a, <1>b, <2>1, <1>11, LimitAssumption DEF Slots, Reboot, Net!Reset, TypeOK, flashVars, replayVars
<1>12. CASE UNCHANGED vars
  BY <1>a, <1>12 DEF vars, TypeOK, flashVars, netVars, timerVars, uploadVars, replayVars
<1>13. QED
  BY <1>1, <1>2, <1>3, <1>4, <1>5, <1>6, <1>7, <1>8, <1>9, <1>10, <1>11, <1>12
  DEF Next, TimerStep, UploadStep

\* A written slot stays written.
LEMMA StepFilled == ASSUME StoreInv, [Next]_vars, NEW s \in Slots, Filled(s) PROVE Filled(s)'
<1>1. CASE WriteBlob
  BY <1>1, ReportsAssumption DEF WriteBlob, StoreInv, TypeOK, ReportMade, Reports, NoReport, Filled
<1>2. CASE ~WriteBlob
  <2>1. UNCHANGED <<blob, bad>>
    BY <1>2 DEF Next, TimerStep, UploadStep, PublishData, CheckFlag, ReadCount, WriteCount, UploadWake,
       UploadRead, UploadBlob, UploadDec, Network, ClientInit, LinkUp, LinkDown, CommPoll, Transmit,
       Expire, Reboot, Reporting, flashVars, vars
  <2> QED
    BY <2>1 DEF Filled
<1> QED
  BY <1>1, <1>2

\* Whatever was read for count, the store has no holes and no task leaves it.
LEMMA StepPrepared ==
  StoreInv /\ [Next]_vars =>
    (CountBounded /\ NoHoles /\ ReportMade /\ Prepared /\ CursorInside)'
<1> SUFFICES ASSUME StoreInv, [Next]_vars
             PROVE  (CountBounded /\ NoHoles /\ ReportMade /\ Prepared /\ CursorInside)'
  OBVIOUS
<1> USE LimitAssumption, ReportsAssumption
        DEF StoreInv, Slots, Reports, TimerWindow, UploadWindow,
            CountBounded, NoHoles, ReportMade, Prepared, CursorInside
<1>0. TypeOK' /\ \A s \in Slots : Filled(s) => Filled(s)'
  BY StepTyped, StepFilled
<1>1. CASE PublishData
  BY <1>0, <1>1 DEF PublishData, TypeOK, flashVars, uploadVars
<1>2. CASE CheckFlag
  BY <1>0, <1>2 DEF CheckFlag, TypeOK, flashVars, uploadVars
<1>3. CASE ReadCount
  <2>1. PICK cnt \in CountRead :
          \/ ~(cnt > Limit) /\ slot' = cnt + 1 /\ tpc' = "blob"
          \/ slot' = slot /\ tpc' = "idle"
    BY <1>3 DEF ReadCount, StoreFull, NextSlot
  <2>2. cnt \in {0, count}
    BY DEF CountRead
  <2>3. tpc = "read" /\ UNCHANGED <<count, made, upc, cursor>>
    BY <1>3 DEF ReadCount, flashVars, uploadVars
  <2>4. ASSUME tpc' = "blob", NEW s \in Slots, s < slot' PROVE Filled(s)'
    BY <1>0, <2>1, <2>2, <2>4 DEF TypeOK
  <2> QED
    BY <1>0, <2>1, <2>3, <2>4 DEF TypeOK
<1>4. CASE WriteBlob
  <2>1. Filled(slot)'
    BY <1>4 DEF WriteBlob, TypeOK, Filled, NoReport
  <2>2. QED
    BY <1>0, <1>4, <2>1 DEF WriteBlob, TypeOK, uploadVars
<1>5. CASE WriteCount
  BY <1>0, <1>5 DEF WriteCount, Written, TypeOK, uploadVars
<1>6. CASE UploadWake
  BY <1>0, <1>6 DEF UploadWake, TypeOK, flashVars, timerVars
<1>7. CASE UploadRead
  <2>1. cursor' \in {0, count} /\ upc' \in {"load", "idle"} /\ (upc' = "load" => cursor' > 0)
    BY <1>7 DEF UploadRead, CountRead
  <2>2. UNCHANGED <<count, tpc, slot, made>>
    BY <1>7 DEF UploadRead, flashVars, timerVars
  <2> QED
    BY <1>0, <2>1, <2>2 DEF TypeOK
<1>8. CASE UploadBlob
  BY <1>0, <1>8 DEF UploadBlob, TypeOK, flashVars, timerVars
<1>9. CASE UploadDec
  <2>1. /\ count' \in {count, cursor - 1}
        /\ cursor' = cursor - 1
        /\ upc' = "load" => cursor' > 0
        /\ upc' \in {"load", "idle"}
    BY <1>9 DEF UploadDec, Remaining
  <2>2. cursor \in 1 .. (Limit + 1) /\ \A s \in Slots : s <= cursor => Filled(s)'
    BY <1>0, <1>9 DEF UploadDec
  <2>3. UNCHANGED <<tpc, slot, made>>
    BY <1>9 DEF UploadDec, timerVars
  <2>4. (CountBounded /\ NoHoles)'
    BY <1>0, <2>1, <2>2 DEF TypeOK
  <2>5. (CursorInside /\ ReportMade)'
    BY <1>0, <2>1, <2>2, <2>3 DEF TypeOK
  <2>6. Prepared'
    BY <1>0, <2>1, <2>2, <2>3 DEF TypeOK
  <2> QED
    BY <2>4, <2>5, <2>6
<1>10. CASE Network \/ UNCHANGED vars
  <2>1. UNCHANGED <<count, blob, bad, made, tpc, slot, upc, cursor>>
    BY <1>10 DEF Network, ClientInit, LinkUp, LinkDown, CommPoll, Transmit, Expire, Reporting,
       vars, flashVars, timerVars, uploadVars
  <2>2. QED
    BY <1>0, <2>1 DEF TypeOK
<1>11. CASE Reboot
  BY <1>0, <1>11 DEF Reboot, flashVars
<1>12. QED
  BY <1>1, <1>2, <1>3, <1>4, <1>5, <1>6, <1>7, <1>8, <1>9, <1>10, <1>11
  DEF Next, TimerStep, UploadStep

\* Unless a read of count has failed, each task still knows where the other
\* one's writes can have moved count.
LEMMA StepFresh == StoreInv /\ [Next]_vars => Fresh'
<1> SUFFICES ASSUME StoreInv, [Next]_vars, ~misread', TimerWindow' \/ UploadWindow'
             PROVE  (TimerWindow => count < slot)' /\ (UploadWindow => cursor <= count)'
  BY DEF Fresh
<1>a. TypeOK /\ TypeOK' /\ CursorInside
  BY StepTyped DEF StoreInv
<1>b. ~misread
  BY <1>a, ReadNote, StepNote
<1>c. (TimerWindow => count < slot) /\ (UploadWindow => cursor <= count)
  BY <1>b DEF StoreInv, Fresh
<1> USE DEF TimerWindow, UploadWindow
<1>1. CASE ReadCount
  <2>1. (tpc' = "blob" => slot' = count + 1) /\ tpc' \in {"blob", "idle"}
    BY <1>a, <1>1, ReadNote DEF ReadCount
  <2> QED
    BY <1>a, <1>c, <1>1, <2>1 DEF ReadCount, flashVars, uploadVars, TypeOK, Slots
<1>2. CASE PublishData \/ CheckFlag \/ WriteBlob
  BY <1>c, <1>2 DEF PublishData, CheckFlag, WriteBlob, flashVars, uploadVars
<1>3. CASE WriteCount
  BY <1>a, <1>c, <1>3 DEF WriteCount, Written, uploadVars, TypeOK, Slots
<1>4. CASE UploadWake \/ UploadBlob
  BY <1>c, <1>4 DEF UploadWake, UploadBlob, flashVars, timerVars
<1>5. CASE UploadRead
  BY <1>a, <1>c, <1>5 DEF UploadRead, CountRead, flashVars, timerVars, TypeOK
<1>6. CASE UploadDec
  <2>1. count' \in {count, cursor - 1} /\ cursor' = cursor - 1 /\ UNCHANGED <<tpc, slot>>
    BY <1>6 DEF UploadDec, Remaining, timerVars
  <2>2. upc = "dec" /\ cursor \in Int /\ count \in Int /\ slot \in Int /\ cursor <= count
    BY <1>a, <1>c, <1>6 DEF UploadDec, TypeOK, Slots
  <2> QED
    BY <1>c, <2>1, <2>2
<1>7. CASE Network \/ UNCHANGED vars
  <2>1. UNCHANGED <<count, tpc, slot, upc, cursor>>
    BY <1>7 DEF Network, ClientInit, LinkUp, LinkDown, CommPoll, Transmit, Expire, Reporting, vars,
       flashVars, timerVars, uploadVars
  <2> QED
    BY <1>c, <2>1
<1>8. CASE Reboot
  BY <1>8 DEF Reboot
<1> QED
  BY <1>1, <1>2, <1>3, <1>4, <1>5, <1>6, <1>7, <1>8 DEF Next, TimerStep, UploadStep

LEMMA StoreAlways == Spec => []StoreInv
<1>1. StoreInv /\ [Next]_vars => StoreInv'
  BY StepTyped, StepPrepared, StepFresh DEF StoreInv
<1> QED
  BY <1>1, InitStore, PTL DEF Spec

\* Type correctness of the store, the network and both tasks
\* (mqtt_publish_data, Upload_again_work).
THEOREM TypeCorrect == Spec => []TypeOK
<1>1. StoreInv => TypeOK BY DEF StoreInv
<1>2. QED BY <1>1, StoreAlways, PTL

\* The counter never passes the last slot, however the two tasks interleave,
\* whatever reads and writes fail and wherever the device reboots.
THEOREM CounterBounded == Spec => []CountBounded
<1>1. StoreInv => CountBounded BY DEF StoreInv
<1>2. QED BY <1>1, StoreAlways, PTL

\* Every slot below count holds a report unless its write failed.
THEOREM StoreHasNoHoles == Spec => []NoHoles
<1>1. StoreInv => NoHoles BY DEF StoreInv
<1>2. QED BY <1>1, StoreAlways, PTL

\* No step overwrites a slot that count covers, unless it works from a read of
\* count that failed: the slot being filled lies above count, and count cannot
\* rise while it is being filled.
THEOREM StoredSlotsAreStable == Spec => StoredSlotsStable
<1> DEFINE Stable == misread \/ \A s \in Slots : s <= count => blob'[s] = blob[s]
<1>1. StoreInv /\ [Next]_vars => [Stable]_vars
  <2> SUFFICES ASSUME StoreInv, Next, ~misread PROVE Stable
    OBVIOUS
  <2>1. CASE WriteBlob
    <3>1. count < slot /\ slot \in Slots /\ count \in 0 .. 127
      BY <2>1 DEF StoreInv, TypeOK, Fresh, TimerWindow, WriteBlob
    <3>2. \A s \in Slots : s # slot => blob'[s] = blob[s]
      BY <2>1 DEF StoreInv, TypeOK, WriteBlob
    <3>3. QED
      BY <3>1, <3>2, LimitAssumption DEF Slots
  <2>2. CASE PublishData \/ CheckFlag \/ ReadCount \/ WriteCount \/ UploadStep \/ Network \/ Reboot
    <3>1. blob' = blob
      BY <2>2 DEF PublishData, CheckFlag, ReadCount, WriteCount, UploadStep, UploadWake, UploadRead,
         UploadBlob, UploadDec, Network, ClientInit, LinkUp, LinkDown, CommPoll, Transmit, Expire,
         Reboot, Reporting, flashVars
    <3>2. QED
      BY <3>1
  <2>3. QED
    BY <2>1, <2>2 DEF Next, TimerStep
<1>2. QED
  BY <1>1, StoreAlways, PTL DEF Spec, StoredSlotsStable

-----------------------------------------------------------------------------
(* ReportStore implements Delivery.  Between count and the slot that the    *)
(* timer task fills, and between cursor and count, the upload task has      *)
(* dealt with every slot, or a report was counted into it during that very  *)
(* upload (Accounted): so writing count adds the timer task's report and    *)
(* what was dealt with, and releases only what was dealt with.  This holds  *)
(* while the windows of the two tasks overlap; it fails only when a failed  *)
(* read of count was taken for an empty store.                              *)

\* The upload task has dealt with slot s, or never could rely on it.
Done(s) == blob[s] = NoReport \/ blob[s] \in uploaded \union unread \union exposed

TimerPast  == TimerWindow => \A s \in Slots : count < s /\ s < slot => Done(s)
UploadPast ==
    /\ upc = "load" => \A s \in Slots : cursor < s /\ s <= count => Done(s)
    /\ upc = "dec"  => \A s \in Slots : cursor <= s /\ s <= count => Done(s)

Accounted == misread \/ (TimerPast /\ UploadPast)

\* Slots hold what was made, and whoever sees a link has a client.
BlobMade  == \A s \in Slots : blob[s] <= made
HasClient == (link \/ mqttFlag = 1 \/ upc # "idle") => client

\* Between its two writes the timer task's slot holds its report, unless the
\* first write failed.
Kept == tpc = "count" => blob[slot] = made \/ FlashFaults

\* Only what was made is exposed, and only where flash fails is count misread.
ExposedMade == exposed \subseteq 1 .. made
MisreadFails == misread => FlashFaults
MisreadOpen  == misread => TimerWindow \/ UploadWindow

DeliveryInv ==
    /\ Accounted
    /\ BlobMade /\ HasClient /\ Kept
    /\ ExposedMade /\ MisreadFails /\ MisreadOpen

LEMMA InitDelivery == Init => DeliveryInv
<1> SUFFICES ASSUME Init PROVE DeliveryInv
  OBVIOUS
<1>1. Accounted
  BY DEF Init, Accounted, TimerPast, UploadPast, TimerWindow
<1>2. BlobMade
  BY DEF Init, BlobMade, NoReport
<1>3. HasClient
  BY DEF Init, HasClient
<1>4. Kept
  BY DEF Init, Kept
<1>5. ExposedMade /\ MisreadFails /\ MisreadOpen
  BY DEF Init, ExposedMade, MisreadFails, MisreadOpen
<1> QED
  BY <1>1, <1>2, <1>3, <1>4, <1>5 DEF DeliveryInv

\* Slots hold what was made: the timer task writes the report it has made.
LEMMA StepMade == StoreInv /\ BlobMade /\ [Next]_vars => BlobMade'
<1> SUFFICES ASSUME StoreInv, BlobMade, [Next]_vars PROVE BlobMade'
  OBVIOUS
<1>a. TypeOK
  BY DEF StoreInv
<1>b. \A s \in Slots : blob[s] \in Int
  BY <1>a, ReportsAssumption DEF TypeOK, Reports, NoReport
<1>c. made \in Int
  BY <1>a, ReportsAssumption DEF TypeOK
<1>1. CASE PublishData
  BY <1>b, <1>c, <1>1 DEF PublishData, BlobMade, flashVars
<1>2. CASE WriteBlob
  BY <1>a, <1>b, <1>c, <1>2 DEF WriteBlob, BlobMade, TypeOK
<1>3. CASE UNCHANGED <<blob, made>>
  BY <1>3 DEF BlobMade
<1>4. CASE CheckFlag \/ ReadCount \/ WriteCount \/ UploadStep \/ Network \/ Reboot \/ UNCHANGED vars
  <2>1. UNCHANGED <<blob, made>>
    BY <1>4 DEF CheckFlag, ReadCount, WriteCount, UploadStep, UploadWake, UploadRead, UploadBlob,
       UploadDec, Network, ClientInit, LinkUp, LinkDown, CommPoll, Transmit, Expire, Reboot,
       Reporting, flashVars, timerVars, vars
  <2> QED
    BY <1>3, <2>1
<1> QED
  BY <1>1, <1>2, <1>4 DEF Next, TimerStep

\* Whoever sees a link has a client: the flag is raised from the link only,
\* and a reset takes client, link, flag and task together.
LEMMA StepClient == TypeOK /\ HasClient /\ [Next]_vars => HasClient'
<1> SUFFICES ASSUME TypeOK, HasClient, [Next]_vars PROVE HasClient'
  OBVIOUS
<1> USE DEF HasClient
<1>1. CASE PublishData \/ TimerStep
  BY <1>1 DEF PublishData, TimerStep, CheckFlag, ReadCount, WriteBlob, WriteCount, netVars, uploadVars
<1>2. CASE UploadStep
  BY <1>2 DEF UploadStep, UploadWake, FlagUp, UploadRead, UploadBlob, UploadDec, netVars
<1>3. CASE ClientInit \/ LinkUp \/ LinkDown
  BY <1>3 DEF ClientInit, LinkUp, LinkDown, Net!Create, Net!Up, Net!Down, Reporting, uploadVars
<1>4. CASE CommPoll
  BY <1>4 DEF CommPoll, Net!Notice, Reporting, uploadVars
<1>5. CASE \E r \in outbox : Transmit(r) \/ Expire(r)
  BY <1>5 DEF Transmit, Expire, uploadVars
<1>6. CASE Reboot
  BY <1>6 DEF Reboot, Net!Reset
<1>7. CASE UNCHANGED vars
  BY <1>7 DEF vars, netVars, uploadVars
<1> QED
  BY <1>1, <1>2, <1>3, <1>4, <1>5, <1>6, <1>7 DEF Next, Network
LEMMA StepKept == StoreInv /\ Kept /\ [Next]_vars => Kept'
<1> SUFFICES ASSUME StoreInv, Kept, [Next]_vars PROVE Kept'
  OBVIOUS
<1> USE DEF Kept
<1>1. CASE PublishData \/ CheckFlag \/ ReadCount \/ WriteCount
  BY <1>1 DEF PublishData, CheckFlag, ReadCount, WriteCount
<1>2. CASE WriteBlob
  BY <1>2 DEF WriteBlob, StoreInv, TypeOK
<1>3. CASE UploadStep \/ Network \/ Reboot \/ UNCHANGED vars
  BY <1>3 DEF UploadStep, UploadWake, UploadRead, UploadBlob, UploadDec, Network, ClientInit,
     LinkUp, LinkDown, CommPoll, Transmit, Expire, Reboot, Reporting, flashVars, timerVars, vars
<1> QED
  BY <1>1, <1>2, <1>3 DEF Next, TimerStep

\* Only reports in slots are exposed.
LEMMA StepExposed == StoreInv /\ BlobMade /\ ExposedMade /\ [Next]_vars => ExposedMade'
<1> SUFFICES ASSUME StoreInv, BlobMade, ExposedMade, [Next]_vars PROVE ExposedMade'
  OBVIOUS
<1>a. TypeOK /\ made \in Int
  BY DEF StoreInv, TypeOK
<1>1. CASE WriteCount
  <2>1. blob[slot] \in Nat /\ blob[slot] <= made
    BY <1>a, ReportsAssumption DEF TypeOK, BlobMade, Reports, NoReport
  <2>2. blob[slot] # NoReport => blob[slot] \in 1 .. made
    BY <1>a, <2>1 DEF NoReport
  <2>3. exposed' \subseteq exposed \union ({blob[slot]} \ {NoReport}) /\ made' = made
    BY <1>1 DEF WriteCount
  <2> QED
    BY <2>2, <2>3 DEF ExposedMade
<1>2. CASE PublishData
  BY <1>a, <1>2 DEF PublishData, Note, ExposedMade
<1>3. CASE ~WriteCount /\ ~PublishData
  <2>1. UNCHANGED <<exposed, made>>
    BY <1>3 DEF Next, TimerStep, UploadStep, CheckFlag, ReadCount, WriteBlob, Note, UploadWake, UploadRead,
       UploadBlob, UploadDec, Network, ClientInit, LinkUp, LinkDown, CommPoll, Transmit, Expire, Reboot,
       Reporting, timerVars, vars
  <2> QED
    BY <2>1 DEF ExposedMade
<1> QED
  BY <1>1, <1>2, <1>3

LEMMA StepMisread == TypeOK /\ MisreadFails /\ [Next]_vars => MisreadFails'
BY ReadNote, StepNote DEF MisreadFails

\* A failed read of count opens the timer task's window: an empty store is not full.
LEMMA StepOpen == TypeOK /\ MisreadOpen /\ [Next]_vars => MisreadOpen'
<1> SUFFICES ASSUME TypeOK, MisreadOpen, [Next]_vars, misread' PROVE TimerWindow' \/ UploadWindow'
  BY DEF MisreadOpen
<1>1. CASE misread' = MisreadOn
  BY <1>1, Zenon DEF MisreadOn
<1>2. CASE ReadCount
  <2>1. PICK cnt \in CountRead :
          /\ ~(cnt > Limit) => tpc' = "blob"
          /\ misread' = (MisreadOn \/ cnt # count)
    BY <1>2 DEF ReadCount, StoreFull
  <2>2. CASE MisreadOn
    BY <2>2, Zenon DEF MisreadOn
  <2>3. CASE cnt # count
    BY <2>1, <2>3, LimitAssumption DEF CountRead, TimerWindow
  <2> QED
    BY <2>1, <2>2, <2>3
<1>3. CASE Network \/ UNCHANGED vars
  <2>1. UNCHANGED <<misread, tpc, upc>>
    BY <1>3 DEF Network, ClientInit, LinkUp, LinkDown, CommPoll, Transmit, Expire, Reporting, vars,
       timerVars, uploadVars
  <2> QED
    BY <2>1 DEF MisreadOpen, TimerWindow, UploadWindow
<1>4. CASE Reboot
  BY <1>4 DEF Reboot
<1>5. CASE PublishData \/ CheckFlag \/ WriteBlob \/ WriteCount \/ UploadStep
  BY <1>1, <1>5 DEF PublishData, CheckFlag, WriteBlob, WriteCount, UploadStep, UploadWake, UploadRead,
     UploadBlob, UploadDec, Note
<1> QED
  BY <1>2, <1>3, <1>4, <1>5 DEF Next, TimerStep

\* What lies beyond a task's own slot stays dealt with, although the other
\* task works at the store as well.
LEMMA StepAccounted == StoreInv /\ Accounted /\ [Next]_vars => Accounted'
<1> SUFFICES ASSUME StoreInv, Accounted, [Next]_vars, ~misread', TimerWindow' \/ UploadWindow'
             PROVE  (TimerPast /\ UploadPast)'
  BY DEF Accounted, TimerPast, UploadPast, TimerWindow, UploadWindow
<1>a. TypeOK /\ TypeOK' /\ CursorInside
  BY StepTyped DEF StoreInv
<1>b. ~misread
  BY <1>a, ReadNote, StepNote
<1>c. TimerPast /\ UploadPast
  BY <1>b DEF Accounted
<1>d. (TimerWindow => count < slot) /\ (UploadWindow => cursor <= count)
  BY <1>b DEF StoreInv, Fresh
<1>e. /\ count \in Int /\ slot \in Int /\ cursor \in Int
      /\ \A s \in Slots : s \in Int
  BY <1>a DEF TypeOK, Slots
<1> USE DEF TimerPast, UploadPast, TimerWindow, UploadWindow
<1>1. CASE PublishData \/ CheckFlag
  <2>1. UNCHANGED <<count, blob, upc, cursor, uploaded, unread, exposed, slot>> /\ ~TimerWindow'
    BY <1>1 DEF PublishData, CheckFlag, Note, flashVars, uploadVars, replayVars
  <2> QED
    BY <1>c, <2>1 DEF Done
<1>2. CASE ReadCount
  <2>1. UNCHANGED <<count, blob, upc, cursor, uploaded, unread, exposed>>
    BY <1>2 DEF ReadCount, flashVars, uploadVars, replayVars
  <2>2. tpc' = "blob" => slot' = count + 1
    BY <1>a, <1>2, ReadNote DEF ReadCount
  <2>3. tpc' # "count"
    BY <1>2 DEF ReadCount
  <2> QED
    BY <1>c, <1>e, <2>1, <2>2, <2>3 DEF Done
<1>3. CASE WriteBlob
  <2>1. UNCHANGED <<count, upc, cursor, slot, uploaded, unread, exposed>>
    BY <1>3 DEF WriteBlob, Note, uploadVars, replayVars
  <2>2. \A s \in Slots : s # slot => blob'[s] = blob[s]
    BY <1>a, <1>3 DEF WriteBlob, TypeOK
  <2>3. \A s \in Slots : s # slot /\ Done(s) => Done(s)'
    BY <2>1, <2>2 DEF Done
  <2>4. TimerWindow /\ count < slot
    BY <1>d, <1>3 DEF WriteBlob
  <2> QED
    BY <1>c, <1>e, <2>1, <2>3, <2>4
<1>4. CASE WriteCount
  <2>1. /\ UNCHANGED <<blob, upc, cursor, uploaded, unread>> /\ ~TimerWindow'
        /\ exposed \subseteq exposed' /\ count' \in {count, slot}
    BY <1>4 DEF WriteCount, Written, uploadVars, replayVars
  <2>2. \A s \in Slots : Done(s) => Done(s)'
    BY <2>1 DEF Done
  <2>3. ASSUME UploadWindow, count' # count, NEW s \in Slots, s = slot PROVE Done(s)'
    <3>1. exposed' = exposed \union ({blob[slot]} \ {NoReport})
      BY <1>4, <2>3 DEF WriteCount
    <3> QED
      BY <2>1, <2>3, <3>1 DEF Done
  <2>4. TimerWindow
    BY <1>4 DEF WriteCount
  <2> QED
    BY <1>c, <1>e, <2>1, <2>2, <2>3, <2>4
<1>5. CASE UploadWake \/ UploadRead
  <2>1. UNCHANGED <<count, blob, tpc, slot, uploaded, unread, exposed>>
    BY <1>5 DEF UploadWake, UploadRead, Note, flashVars, timerVars, replayVars
  <2>2. upc' # "dec" /\ (upc' = "load" => cursor' = count)
    BY <1>e, <1>5 DEF UploadWake, UploadRead, CountRead
  <2> QED
    BY <1>c, <1>e, <2>1, <2>2 DEF Done
<1>6. CASE UploadBlob
  <2>1. /\ upc = "load" /\ upc' = "dec"
        /\ UNCHANGED <<count, blob, cursor, tpc, slot, exposed>>
        /\ uploaded \subseteq uploaded' /\ unread \subseteq unread'
    BY <1>6 DEF UploadBlob, Note, flashVars, timerVars, replayVars
  <2>2. Done(cursor)'
    BY <1>6, <2>1 DEF UploadBlob, Done
  <2>3. \A s \in Slots : Done(s) => Done(s)'
    BY <2>1 DEF Done
  <2> QED
    BY <1>c, <1>e, <2>1, <2>2, <2>3
<1>7. CASE UploadDec
  <2>1. /\ upc = "dec" /\ upc' # "dec"
        /\ cursor' = cursor - 1 /\ count' \in {count, cursor - 1}
        /\ UNCHANGED <<blob, tpc, slot, uploaded, unread, exposed>>
    BY <1>7 DEF UploadDec, Remaining, Note, timerVars, replayVars
  <2>2. \A s \in Slots : Done(s)' <=> Done(s)
    BY <2>1 DEF Done
  <2>3. cursor <= count
    BY <1>d, <2>1
  <2> QED
    BY <1>c, <1>e, <2>1, <2>2, <2>3
<1>8. CASE Network \/ UNCHANGED vars
  <2>1. UNCHANGED <<count, blob, tpc, slot, upc, cursor, uploaded, unread, exposed>>
    BY <1>8 DEF Network, ClientInit, LinkUp, LinkDown, CommPoll, Transmit, Expire, Reporting, vars,
       flashVars, timerVars, uploadVars, replayVars
  <2> QED
    BY <1>c, <2>1 DEF Done
<1>9. CASE Reboot
  BY <1>9 DEF Reboot
<1> QED
  BY <1>1, <1>2, <1>3, <1>4, <1>5, <1>6, <1>7, <1>8, <1>9 DEF Next, TimerStep, UploadStep

LEMMA DeliveryAlways == Spec => []DeliveryInv
<1>1. StoreInv => TypeOK
  BY DEF StoreInv
<1>2. StoreInv /\ DeliveryInv /\ [Next]_vars => DeliveryInv'
  BY <1>1, StepAccounted, StepMade, StepClient, StepKept, StepExposed, StepMisread, StepOpen DEF DeliveryInv
<1> QED
  BY <1>2, StoreAlways, InitDelivery, PTL DEF Spec

-----------------------------------------------------------------------------
(* The steps of the pipeline are steps of Delivery.                         *)

LEMMA InContents ==
  \A r : r \in Contents <=> r # NoReport /\ \E s \in Slots : s <= count /\ blob[s] = r
BY DEF Contents

LEMMA InContentsNext ==
  \A r : r \in Contents' <=> r # NoReport /\ \E s \in Slots : s <= count' /\ blob'[s] = r
BY DEF Contents

\* What is in the store has been made.
LEMMA ContentsMade == ASSUME TypeOK, BlobMade PROVE Contents \subseteq 1 .. made
<1>1. \A s \in Slots : blob[s] \in Nat /\ blob[s] <= made
  BY ReportsAssumption DEF TypeOK, BlobMade, Reports, NoReport
<1> QED
  BY <1>1, InContents DEF NoReport, TypeOK

LEMMA ContentsMadeNext == ASSUME TypeOK', BlobMade' PROVE Contents' \subseteq 1 .. made'
<1>1. \A s \in Slots : blob'[s] \in Nat /\ blob'[s] <= made'
  BY ReportsAssumption DEF TypeOK, BlobMade, Reports, NoReport
<1> QED
  BY <1>1, InContentsNext DEF NoReport, TypeOK

\* A step that closes no window leaves the note of a failed read alone.
LEMMA NoteSame ==
  ASSUME TypeOK, MisreadOpen, Note,
         TimerWindow => TimerWindow', UploadWindow => UploadWindow'
  PROVE  misread' = misread
BY Zenon DEF TypeOK, MisreadOpen, Note, MisreadOn

\* While the timer task works from a failed read of count, anything that was
\* made may be stored.
LEMMA Misled ==
  ASSUME StoreInv', DeliveryInv, DeliveryInv', misread \/ misread',
         UNCHANGED <<made, outbox, uploaded, unread>>,
         exposed \subseteq exposed', (UploadWindow' = UploadWindow) \/ (UploadWindow' = FALSE)
  PROVE  D!Mislead
<1>1. misread \in BOOLEAN => FlashFaults
  BY DEF DeliveryInv, MisreadFails
<1>2. Contents' \subseteq 1 .. made
  BY ContentsMadeNext DEF StoreInv, DeliveryInv
<1>3. exposed' \subseteq 1 .. made
  BY DEF DeliveryInv, ExposedMade
<1>4. misread' \in BOOLEAN /\ FlashFaults
  BY Zenon DEF StoreInv, TypeOK, DeliveryInv, MisreadFails
<1> QED
  BY <1>2, <1>3, <1>4 DEF D!Mislead

\* The timer task publishes and reads, which changes no store, and adds its
\* report when it writes count.
LEMMA TimerDelivers ==
  ASSUME StoreInv, StoreInv', DeliveryInv, DeliveryInv', PublishData \/ TimerStep
  PROVE  [D!Next]_(D!vars)
<1> USE DEF D!vars, D!Next
<1>a. TypeOK /\ TypeOK' /\ BlobMade /\ BlobMade' /\ MisreadOpen
  BY DEF StoreInv, DeliveryInv
<1>b. UNCHANGED <<UploadWindow, uploaded, unread>>
  BY DEF PublishData, TimerStep, CheckFlag, ReadCount, WriteBlob, WriteCount, uploadVars, replayVars,
     UploadWindow
<1>1. CASE PublishData
  <2>1. UNCHANGED <<misread, exposed>>
    BY <1>a, <1>b, <1>1, NoteSame DEF PublishData, TimerWindow, Note
  <2>2. Contents' = Contents
    BY <1>1 DEF PublishData, Contents, flashVars
  <2>3. outbox' = outbox \/ outbox' = outbox \union {made + 1}
    BY <1>1 DEF PublishData, Enqueue
  <2>4. made' = made + 1
    BY <1>1 DEF PublishData
  <2>5. D!Make
    BY <1>b, <2>1, <2>2, <2>3, <2>4 DEF D!Make
  <2> QED
    BY <2>5
<1>2. CASE CheckFlag
  <2>1. UNCHANGED <<misread, exposed>>
    BY <1>a, <1>b, <1>2, NoteSame DEF CheckFlag, TimerWindow, Note
  <2>2. Contents' = Contents
    BY <1>2 DEF CheckFlag, Contents, flashVars
  <2> QED
    BY <1>b, <1>2, <2>1, <2>2 DEF CheckFlag, netVars
<1>3. CASE ReadCount
  <2>1. Contents' = Contents
    BY <1>3 DEF ReadCount, Contents, flashVars
  <2>2. UNCHANGED <<made, outbox, exposed>>
    BY <1>3 DEF ReadCount, netVars
  <2>3. CASE misread \/ misread'
    BY <1>b, <2>2, <2>3, Misled
  <2>4. CASE ~misread /\ ~misread'
    <3>1. misread' = misread
      BY <1>a, <2>4 DEF TypeOK
    <3> QED
      BY <1>b, <2>1, <2>2, <3>1
  <2> QED
    BY <2>3, <2>4
<1>4. CASE WriteBlob
  <2>1. UNCHANGED <<misread, exposed>>
    BY <1>a, <1>b, <1>4, NoteSame DEF WriteBlob, TimerWindow, Note
  <2>2. UNCHANGED <<made, count, outbox>>
    BY <1>4 DEF WriteBlob, netVars
  <2>3. CASE misread
    BY <1>b, <2>1, <2>2, <2>3, Misled
  <2>4. CASE ~misread
    <3>1. count < slot /\ slot \in Slots /\ count \in Int
      BY <1>4, <2>4 DEF StoreInv, TypeOK, Fresh, TimerWindow, WriteBlob
    <3>2. \A s \in Slots : s <= count => blob'[s] = blob[s]
      BY <1>a, <1>4, <3>1 DEF WriteBlob, TypeOK, Slots
    <3>3. Contents' = Contents
      BY <2>2, <3>2, InContents, InContentsNext
    <3> QED
      BY <1>b, <2>1, <2>2, <3>3
  <2> QED
    BY <2>3, <2>4
<1>5. CASE WriteCount
  <2>1. UNCHANGED <<made, blob, outbox>> /\ exposed \subseteq exposed'
    BY <1>5 DEF WriteCount, netVars
  <2>2. CASE misread
    BY <1>b, <2>1, <2>2, Misled
  <2>3. ASSUME ~misread PROVE UNCHANGED misread
    <3>1. ~misread'
      BY <1>5, <2>3, Zenon DEF WriteCount, MisreadOn
    <3> QED
      BY <1>a, <2>3, <3>1 DEF TypeOK
  <2>4. CASE ~misread /\ UNCHANGED <<count, exposed>>
    BY <1>b, <2>1, <2>3, <2>4 DEF Contents
  <2>5. CASE ~misread /\ count' = slot
                      /\ exposed' = IF UploadWindow THEN exposed \union ({blob[slot]} \ {NoReport}) ELSE exposed
    <3> DEFINE new == {blob[slot]} \ {NoReport}
    <3>1. slot \in Slots /\ count < slot /\ count \in Int
      BY <1>a, <1>5, <2>5 DEF WriteCount, StoreInv, Fresh, TimerWindow, TypeOK
    <3>2. \A s \in Slots : count < s /\ s < slot => Done(s)
      BY <1>5, <2>5 DEF WriteCount, DeliveryInv, Accounted, TimerPast, TimerWindow
    <3>3. \A s \in Slots : s <= count' => s <= count \/ s = slot \/ Done(s)
      BY <2>5, <3>1, <3>2 DEF Slots
    <3>4. \A s \in Slots : s <= count => s <= count'
      BY <2>5, <3>1 DEF Slots
    <3>5. Contents \subseteq Contents'
      BY <2>1, <3>4, InContents, InContentsNext
    <3>6. ASSUME NEW r \in Contents' PROVE r \in Contents \union new \union D!Free
      <4>1. PICK s \in Slots : s <= count' /\ blob[s] = r /\ r # NoReport
        BY <2>1, InContentsNext
      <4>2. CASE s <= count
        BY <4>1, <4>2, InContents
      <4>3. CASE s = slot
        BY <4>1, <4>3
      <4>4. CASE Done(s)
        BY <4>1, <4>4 DEF Done, D!Free
      <4> QED
        BY <3>3, <4>1, <4>2, <4>3, <4>4
    <3>7. new \subseteq {made} \/ FlashFaults
      BY <1>5 DEF DeliveryInv, Kept, WriteCount
    <3>8. D!Keep(new)
      BY <1>b, <2>1, <2>3, <2>5, <3>5, <3>6, <3>7 DEF D!Keep
    <3>9. CASE blob[slot] = NoReport
      <4>1. new = {}
        BY <3>9
      <4> QED
        BY <3>8, <4>1
    <3>10. CASE blob[slot] # NoReport
      <4>1. new = {blob[slot]}
        BY <3>10
      <4>2. blob[slot] \in 1 .. made
        BY <1>a, <3>1, <3>10, ReportsAssumption DEF TypeOK, BlobMade, Reports, NoReport
      <4> QED
        BY <3>8, <4>1, <4>2
    <3> QED
      BY <3>9, <3>10
  <2> QED
    BY <1>5, <2>2, <2>4, <2>5 DEF WriteCount, Written
<1> QED
  BY <1>1, <1>2, <1>3, <1>4, <1>5 DEF TimerStep

\* The upload task replays or skips what is stored, and releases what it has
\* dealt with.
LEMMA UploadDelivers ==
  ASSUME StoreInv, StoreInv', DeliveryInv, DeliveryInv', UploadStep
  PROVE  [D!Next]_(D!vars)
<1> USE DEF D!vars, D!Next
<1>a. TypeOK /\ TypeOK' /\ BlobMade /\ MisreadOpen /\ CursorInside
  BY DEF StoreInv, DeliveryInv
<1>b. UNCHANGED <<made, exposed>> /\ (TimerWindow => TimerWindow')
  BY DEF UploadStep, UploadWake, UploadRead, UploadBlob, UploadDec, timerVars, Note, TimerWindow
<1>1. CASE UploadWake
  <2>1. misread' = misread /\ UNCHANGED UploadWindow
    BY <1>a, <1>b, <1>1, NoteSame DEF UploadWake, UploadWindow
  <2>2. Contents' = Contents
    BY <1>1 DEF UploadWake, Contents, flashVars
  <2> QED
    BY <1>b, <1>1, <2>1, <2>2 DEF UploadWake, netVars, replayVars
<1>2. CASE UploadRead
  <2>1. Contents' = Contents
    BY <1>2 DEF UploadRead, Contents, flashVars
  <2>2. UNCHANGED <<outbox, uploaded, unread>> /\ ~UploadWindow
    BY <1>2 DEF UploadRead, netVars, replayVars, UploadWindow
  <2>3. misread' = misread
    BY <1>a, <1>b, <1>2, <2>2, NoteSame DEF UploadRead
  <2>4. CASE upc' = "load"
    <3>1. UploadWindow' = TRUE
      BY <2>4 DEF UploadWindow
    <3>2. D!Start
      BY <1>b, <2>1, <2>2, <2>3, <3>1 DEF D!Start
    <3> QED
      BY <3>2
  <2>5. CASE upc' = "idle"
    <3>1. UNCHANGED UploadWindow
      BY <2>2, <2>5 DEF UploadWindow
    <3> QED
      BY <1>b, <2>1, <2>2, <2>3, <3>1
  <2> QED
    BY <1>2, <2>4, <2>5 DEF UploadRead
<1>3. CASE UploadBlob
  <2>1. UploadWindow /\ UploadWindow' /\ UNCHANGED UploadWindow
    BY <1>3 DEF UploadBlob, UploadWindow
  <2>2. Contents' = Contents
    BY <1>3 DEF UploadBlob, Contents, flashVars
  <2>3. misread' = misread
    BY <1>a, <1>b, <1>3, <2>1, NoteSame DEF UploadBlob
  <2>4. cursor \in Slots /\ (misread \/ cursor <= count)
    BY <1>a, <2>1 DEF CursorInside, StoreInv, Fresh
  <2>5. blob[cursor] = NoReport \/ blob[cursor] \in Contents \/ misread
    BY <2>4, InContents
  <2>6. blob[cursor] # NoReport => blob[cursor] \in 1 .. made
    BY <1>a, <2>4, ReportsAssumption DEF TypeOK, BlobMade, Reports, NoReport
  <2>7. CASE blob[cursor] = NoReport
    BY <1>b, <1>3, <2>1, <2>2, <2>3, <2>7 DEF UploadBlob, replayVars
  <2>8. CASE blob[cursor] # NoReport /\ Enqueue(blob[cursor])
             /\ uploaded' = uploaded \union {blob[cursor]} /\ UNCHANGED unread
    <3>1. outbox' = outbox \union {blob[cursor]}
      BY <1>3, <2>8 DEF DeliveryInv, HasClient, Enqueue, UploadBlob
    <3>2. D!Replay(blob[cursor])
      BY <1>b, <2>1, <2>2, <2>3, <2>5, <2>8, <3>1 DEF D!Replay
    <3> QED
      BY <2>6, <2>8, <3>2
  <2>9. CASE FlashFaults /\ blob[cursor] # NoReport
             /\ unread' = unread \union {blob[cursor]} /\ UNCHANGED <<outbox, uploaded>>
    <3>1. D!Skip(blob[cursor])
      BY <1>b, <2>1, <2>2, <2>3, <2>5, <2>9 DEF D!Skip
    <3> QED
      BY <2>6, <2>9, <3>1
  <2> QED
    BY <1>3, <2>7, <2>8, <2>9 DEF UploadBlob
<1>4. CASE UploadDec
  <2>1. UNCHANGED <<blob, outbox, uploaded, unread>>
    BY <1>4 DEF UploadDec, netVars, replayVars
  <2>2. upc = "dec" /\ UploadWindow
    BY <1>4 DEF UploadDec, UploadWindow
  <2>3. UploadWindow' \in BOOLEAN
    BY DEF UploadWindow
  <2>4. CASE misread
    <3>1. (UploadWindow' = UploadWindow) \/ (UploadWindow' = FALSE)
      BY <2>2, <2>3
    <3> QED
      BY <1>b, <2>1, <2>4, <3>1, Misled
  <2>5. CASE ~misread
    <3>1. cursor \in Int /\ count \in Int /\ cursor <= count
      BY <1>a, <2>2, <2>5 DEF StoreInv, Fresh, TypeOK
    <3>2. count' \in {count, cursor - 1}
      BY <1>4 DEF UploadDec, Remaining
    <3>3. \A s \in Slots : s <= count => s <= count' \/ (cursor <= s /\ s <= count)
      BY <3>1, <3>2 DEF Slots
    <3>4. \A s \in Slots : s <= count' => s <= count
      BY <3>1, <3>2 DEF Slots
    <3>5. Contents' \subseteq Contents
      BY <2>1, <3>4, InContents, InContentsNext
    <3>6. Contents \ Contents' \subseteq D!Free
      <4> SUFFICES ASSUME NEW r \in Contents, r \notin Contents' PROVE r \in D!Free
        OBVIOUS
      <4>1. r # NoReport
        BY InContents
      <4>2. PICK s \in Slots : s <= count /\ blob[s] = r
        BY InContents
      <4>3. ~(s <= count')
        BY <2>1, <4>1, <4>2, InContentsNext
      <4>4. Done(s)
        BY <2>2, <2>5, <3>3, <4>2, <4>3 DEF DeliveryInv, Accounted, UploadPast
      <4> QED
        BY <4>1, <4>2, <4>4 DEF Done, D!Free
    <3>7. misread' = misread
      <4>1. ~misread'
        BY <1>4, <2>5, Zenon DEF UploadDec, Note, MisreadOn
      <4> QED
        BY <1>a, <2>5, <4>1 DEF TypeOK
    <3>8. D!Release
      BY <1>b, <2>1, <2>2, <2>3, <3>5, <3>6, <3>7 DEF D!Release
    <3> QED
      BY <3>8
  <2> QED
    BY <2>4, <2>5
<1> QED
  BY <1>1, <1>2, <1>3, <1>4 DEF UploadStep

\* The client sends or forgets, a reset forgets, and the link does neither.
LEMMA NetworkDelivers ==
  ASSUME Network \/ Reboot
  PROVE  [D!Next]_(D!vars)
<1> USE DEF D!vars, D!Next
<1>1. Contents' = Contents /\ UNCHANGED <<made, uploaded, unread, exposed>>
  BY DEF Network, ClientInit, LinkUp, LinkDown, CommPoll, Transmit, Expire, Reboot, Reporting,
     flashVars, timerVars, replayVars, Contents
<1>2. Network => UNCHANGED <<misread, UploadWindow>>
  BY DEF Network, ClientInit, LinkUp, LinkDown, CommPoll, Transmit, Expire, Reporting, uploadVars, UploadWindow
<1>3. CASE ClientInit \/ LinkUp \/ LinkDown \/ CommPoll
  BY <1>1, <1>2, <1>3 DEF Network, ClientInit, LinkUp, LinkDown, CommPoll, Reporting
<1>4. CASE \E r \in outbox : Transmit(r) \/ Expire(r)
  BY <1>1, <1>2, <1>4 DEF Network, Transmit, Expire, D!Leave
<1>5. CASE Reboot
  <2>1. UploadWindow' = FALSE /\ misread' = FALSE /\ outbox' = {}
    BY <1>5 DEF Reboot, UploadWindow
  <2>2. D!Leave
    BY <1>1, <2>1 DEF D!Leave
  <2> QED
    BY <2>2
<1> QED
  BY <1>3, <1>4, <1>5 DEF Network

LEMMA DeliveryStep ==
  StoreInv /\ StoreInv' /\ DeliveryInv /\ DeliveryInv' /\ [Next]_vars => [D!Next]_(D!vars)
<1>1. UNCHANGED vars => UNCHANGED D!vars
  BY DEF vars, D!vars, flashVars, netVars, timerVars, uploadVars, replayVars, Contents, UploadWindow
<1> QED
  BY <1>1, TimerDelivers, UploadDelivers, NetworkDelivers DEF Next

LEMMA DeliveryInit == Init => D!Init
<1> SUFFICES ASSUME Init PROVE D!Init
  OBVIOUS
<1>1. Contents = {}
  BY DEF Init, Contents, NoReport
<1>2. UploadWindow = FALSE
  BY DEF Init, UploadWindow
<1> QED
  BY <1>1, <1>2 DEF Init, D!Init

\* The report pipeline implements Delivery: between two tasks without a lock,
\* a client that forgets, resets and failing flash calls, no report leaves the
\* store without having been replayed (or found unreadable), and none is
\* replayed without being queued, except the reports that were stored during
\* an upload and the store that a failed read of count has hidden.
THEOREM PipelineDelivers == Spec => DeliveryKept
  BY StoreAlways, DeliveryAlways, DeliveryStep, DeliveryInit, PTL DEF Spec, DeliveryKept, D!Spec
=============================================================================
