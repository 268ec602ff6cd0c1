-------------------------- MODULE ProvisioningProofs --------------------------
(***************************************************************************)
(* Proofs about BleSession and Provisioning, for every length of the event *)
(* queue: the session belongs to the phone that is connected, its memory   *)
(* is owned, the device can be found, the station never gives up, and the  *)
(* firmware's view of it is right once the events are handled.             *)
(***************************************************************************)
EXTENDS Provisioning, SequenceTheorems, TLAPS

-----------------------------------------------------------------------------
(* BLE.  The events of the BTC task can only wait in five ways, because the *)
(* next phone finds the device only after the event of the last one.        *)

Booting    == todo = <<"init">> /\ ~linked /\ ~adv /\ blufi_sec = "none"
Quiet      == /\ todo = <<>>
              /\ linked => ~adv /\ blufi_sec # "stale"
              /\ ~linked => adv /\ blufi_sec = "none"
Opening    == blufi_sec = IF btc = "init" THEN "own" ELSE "none"
Entering   == todo = <<"connect">> /\ linked /\ ~adv /\ Opening
Passing    == todo = <<"connect", "disconnect">> /\ ~linked /\ ~adv /\ Opening
Leaving    == todo = <<"disconnect">> /\ ~linked /\ ~adv /\ blufi_sec # "stale"

Waiting ==
    \/ (Booting \/ Quiet) /\ btc \notin {"init", "deinit"}
    \/ (Entering \/ Passing) /\ btc # "deinit"
    \/ Leaving /\ btc # "init"

\* A buffer belongs to a session, and one that the memset will forget was
\* allowed by the bound.
Buffered ==
    /\ dh_param \in {"null", "buffer", "garbage"}
    /\ dh_param # "null" => blufi_sec # "none"
    /\ leaked \in 0 .. MaxLeaks
    /\ btc = "init" /\ dh_param = "buffer" => leaked < MaxLeaks

BleInv == Waiting /\ Buffered /\ BuffersOwned

\* A sequence of two, element by element.
LEMMA Pair == ASSUME NEW d, NEW e PROVE Append(<<d>>, e) = <<d, e>>
<1> DEFINE s == Append(<<d>>, e)
           t == <<d, e>>
<1>1. <<d>> \in Seq({d, e}) /\ Len(<<d>>) = 1 /\ <<d>>[1] = d
  OBVIOUS
<1>2. s \in Seq({d, e}) /\ Len(s) = 2 /\ s[1] = d /\ s[2] = e
  BY <1>1, AppendProperties
<1>3. t \in Seq({d, e}) /\ Len(t) = 2 /\ t[1] = d /\ t[2] = e
  OBVIOUS
<1> HIDE DEF s, t
<1>4. \A i \in 1 .. Len(s) : s[i] = t[i]
  BY <1>2, <1>3
<1>5. s = t
  BY <1>2, <1>3, <1>4, SeqEqual
<1> QED
  BY <1>5 DEF s, t

\* The queues that occur.
LEMMA Queues ==
  /\ Head(<<"init">>) = "init" /\ Tail(<<"init">>) = <<>>
  /\ Head(<<"connect">>) = "connect" /\ Tail(<<"connect">>) = <<>>
  /\ Head(<<"disconnect">>) = "disconnect" /\ Tail(<<"disconnect">>) = <<>>
  /\ Head(<<"connect", "disconnect">>) = "connect"
  /\ Tail(<<"connect", "disconnect">>) = <<"disconnect">>
  /\ Append(<<"connect">>, "disconnect") = <<"connect", "disconnect">>
<1>1. \A e : Head(<<e>>) = e
  OBVIOUS
<1>2. \A e : Tail(<<e>>) = <<>>
  OBVIOUS
<1>3. \A d, e : Head(<<d, e>>) = d
  OBVIOUS
<1>4. \A d, e : Tail(<<d, e>>) = <<e>>
  OBVIOUS
<1> QED
  BY <1>1, <1>2, <1>3, <1>4, Pair

LEMMA BleInvInit == Init => BleInv
<1> SUFFICES ASSUME Init PROVE BleInv
  OBVIOUS
<1> USE LeaksAssumption DEF Init, BleInit
<1>1. BuffersOwned
  BY DEF BuffersOwned, Blocks
<1>2. Buffered
  BY DEF Buffered
<1> QED
  BY <1>1, <1>2 DEF BleInv, Waiting, Booting

LEMMA BleInvReset == BleReset => BleInv'
<1> SUFFICES ASSUME BleReset PROVE BleInv'
  OBVIOUS
<1> USE LeaksAssumption DEF BleReset
<1>1. BuffersOwned'
  BY DEF BuffersOwned, Blocks
<1>2. Buffered'
  BY DEF Buffered
<1>3. todo' = <<"init">> /\ btc' = "ready" /\ blufi_sec' = "none" /\ ~linked' /\ ~adv'
  OBVIOUS
<1> QED
  BY <1>1, <1>2, <1>3 DEF BleInv, Waiting, Booting

\* The memory is left alone by whoever does not touch the session.
LEMMA MemoryStays ==
  ASSUME Buffered, BuffersOwned, UNCHANGED <<btc, dh_param, heap, leaked>>,
         blufi_sec' = "none" <=> blufi_sec = "none"
  PROVE  Buffered' /\ BuffersOwned'
<1>1. Buffered'
  BY DEF Buffered
<1>2. BuffersOwned'
  BY DEF BuffersOwned, Blocks
<1> QED
  BY <1>1, <1>2

\* The link comes and goes.
LEMMA LinkKeeps == BleInv /\ (PhoneConnects \/ PhoneLeaves \/ SlaveDisconnect) => BleInv'
<1> SUFFICES ASSUME BleInv, PhoneConnects \/ PhoneLeaves \/ SlaveDisconnect PROVE BleInv'
  OBVIOUS
<1> USE DEF Waiting, Booting, Quiet, Entering, Passing, Leaving, Opening
<1>1. Buffered' /\ BuffersOwned'
  BY MemoryStays DEF BleInv, PhoneConnects, PhoneLeaves, SlaveDisconnect, LinkEnds, sessionVars
<1>2. CASE PhoneConnects
  <2>1. Quiet /\ ~linked /\ btc \notin {"init", "deinit"}
    BY <1>2 DEF PhoneConnects, BleInv
  <2>2. todo' = <<"connect">>
    BY <1>2, <2>1 DEF PhoneConnects
  <2>3. blufi_sec' = "none" /\ linked' /\ ~adv' /\ btc' = btc
    BY <1>2, <2>1 DEF PhoneConnects
  <2> QED
    BY <1>1, <2>1, <2>2, <2>3 DEF BleInv
<1>3. CASE PhoneLeaves \/ SlaveDisconnect
  <2>1. linked /\ ~linked' /\ todo' = Append(todo, "disconnect")
        /\ UNCHANGED <<adv, btc, blufi_sec>>
    BY <1>3 DEF PhoneLeaves, SlaveDisconnect, LinkEnds, sessionVars
  <2>2. CASE Quiet
    <3>1. todo' = <<"disconnect">>
      BY <2>1, <2>2
    <3>2. btc \notin {"init", "deinit"}
      BY <2>2 DEF BleInv
    <3> QED
      BY <1>1, <2>1, <2>2, <3>1, <3>2 DEF BleInv
  <2>3. CASE Entering
    <3>1. todo' = <<"connect", "disconnect">>
      BY <2>1, <2>3, Queues
    <3>2. btc # "deinit"
      BY <2>3 DEF BleInv
    <3> QED
      BY <1>1, <2>1, <2>3, <3>1, <3>2 DEF BleInv
  <2> QED
    BY <2>1, <2>2, <2>3 DEF BleInv
<1> QED
  BY <1>2, <1>3

\* The negotiation only changes the buffer, and only of a session that is there.
LEMMA NegotiationKeeps == BleInv /\ (ParamLen \/ ParamData) => BleInv'
<1> SUFFICES ASSUME BleInv, ParamLen \/ ParamData PROVE BleInv'
  OBVIOUS
<1>1. blufi_sec # "none" /\ dh_param' \in {"null", "buffer"}
      /\ UNCHANGED <<linked, adv, todo, btc, blufi_sec, leaked>>
      /\ (btc = "init" /\ dh_param' = "buffer" => leaked < MaxLeaks)
  BY DEF ParamLen, ParamData, Negotiates, hostVars
<1>2. heap' = heap - Blocks(dh_param = "buffer") + Blocks(dh_param' = "buffer")
  BY DEF ParamLen, ParamData, OldBuffer, BleInv, BuffersOwned, Blocks, Buffered
<1>3. BuffersOwned'
  BY <1>1, <1>2 DEF BleInv, BuffersOwned, Buffered, Blocks
<1>4. Buffered'
  BY <1>1 DEF BleInv, Buffered
<1>5. Waiting'
  BY <1>1 DEF BleInv, Waiting, Booting, Quiet, Entering, Passing, Leaving, Opening
<1> QED
  BY <1>3, <1>4, <1>5 DEF BleInv

\* The BTC task handles one event after the other.
LEMMA BtcKeeps == BleInv /\ BtcStep => BleInv'
<1> SUFFICES ASSUME BleInv, BtcStep PROVE BleInv'
  OBVIOUS
<1> USE DEF Waiting, Booting, Quiet, Entering, Passing, Leaving, Opening, Event
<1>1. CASE InitFinish
  <2>1. todo = <<"init">> /\ todo' = <<>> /\ btc = "ready"
    BY <1>1, Queues DEF InitFinish, BleInv
  <2>2. Booting
    BY <2>1 DEF BleInv
  <2>3. Buffered' /\ BuffersOwned'
    BY <1>1, MemoryStays DEF InitFinish, sessionVars, BleInv
  <2>4. Waiting'
    BY <1>1, <2>1, <2>2 DEF InitFinish, sessionVars
  <2> QED
    BY <2>3, <2>4 DEF BleInv
<1>2. CASE BleConnect
  <2>1. /\ btc = "ready" /\ (Entering \/ Passing)
        /\ Tail(todo) = IF Entering THEN <<>> ELSE <<"disconnect">>
    BY <1>2, Queues DEF BleConnect, BleInv
  <2>2. blufi_sec = "none" /\ dh_param = "null" /\ heap = leaked /\ leaked \in 0 .. MaxLeaks
    BY <2>1 DEF BleInv, Buffered, BuffersOwned, Blocks
  <2>3. ~adv' /\ UNCHANGED <<linked, leaked>>
    BY <1>2 DEF BleConnect
  <2>4. CASE blufi_sec' = "own" /\ heap' = heap + 1 /\ dh_param' \in {"null", "garbage"}
             /\ btc' = "init" /\ UNCHANGED todo
    <3>1. Buffered'
      BY <2>2, <2>3, <2>4 DEF Buffered
    <3>2. BuffersOwned'
      BY <2>2, <2>3, <2>4 DEF BuffersOwned, Blocks
    <3>3. Waiting'
      BY <2>1, <2>3, <2>4
    <3> QED
      BY <3>1, <3>2, <3>3 DEF BleInv
  <2>5. CASE blufi_sec' = "none" /\ dh_param' = "null" /\ heap' = heap
             /\ btc' = "ready" /\ todo' = Tail(todo)
    <3>1. Buffered'
      BY <2>2, <2>3, <2>5 DEF Buffered
    <3>2. BuffersOwned'
      BY <2>2, <2>3, <2>5 DEF BuffersOwned, Blocks
    <3>3. Waiting'
      BY <2>1, <2>3, <2>5
    <3> QED
      BY <3>1, <3>2, <3>3 DEF BleInv
  <2> QED
    BY <1>2, <2>4, <2>5 DEF BleConnect
<1>3. CASE SecurityWipe
  <2>1. /\ btc = "init" /\ (Entering \/ Passing)
        /\ Tail(todo) = IF Entering THEN <<>> ELSE <<"disconnect">>
    BY <1>3, Queues DEF SecurityWipe, BleInv
  <2>2. blufi_sec' = "own" /\ btc' = "ready" /\ todo' = Tail(todo) /\ dh_param' = "null"
        /\ UNCHANGED <<linked, adv, heap>>
    BY <1>3, <2>1 DEF SecurityWipe
  <2>3. leaked' = leaked + Blocks(dh_param = "buffer")
    BY <1>3 DEF SecurityWipe
  <2>4. Buffered'
    BY LeaksAssumption, <2>1, <2>2, <2>3 DEF BleInv, Buffered, Blocks
  <2>5. BuffersOwned'
    BY <2>1, <2>2, <2>3 DEF BleInv, Buffered, BuffersOwned, Blocks
  <2>6. Waiting'
    BY <2>1, <2>2
  <2> QED
    BY <2>4, <2>5, <2>6 DEF BleInv
<1>4. CASE BleDisconnect
  <2>1. todo = <<"disconnect">> /\ Leaving /\ btc = "ready"
    BY <1>4, Queues DEF BleDisconnect, BleInv
  <2>2. btc' = "deinit" /\ UNCHANGED <<adv, linked, todo, blufi_sec, dh_param, heap, leaked>>
    BY <1>4 DEF BleDisconnect, AdvYet, sessionVars
  <2>3. Buffered' /\ BuffersOwned'
    BY <2>1, <2>2 DEF BleInv, Buffered, BuffersOwned, Blocks
  <2> QED
    BY <2>1, <2>2, <2>3 DEF BleInv
<1>5. CASE Deinit
  <2>1. Leaving /\ todo' = <<>>
    BY <1>5, Queues DEF Deinit, BleInv
  <2>2. dh_param' = "null" /\ adv' /\ blufi_sec' = "none" /\ btc' = "ready"
        /\ UNCHANGED <<linked, leaked>>
    BY <1>5 DEF Deinit, AdvAgain
  <2>3. heap' = leaked'
    BY <1>5, <2>2 DEF Deinit, BleInv, Buffered, BuffersOwned, Blocks
  <2>4. BuffersOwned' /\ Buffered'
    BY <2>2, <2>3 DEF BleInv, Buffered, BuffersOwned, Blocks
  <2> QED
    BY <2>1, <2>2, <2>4 DEF BleInv
<1> QED
  BY <1>1, <1>2, <1>3, <1>4, <1>5 DEF BtcStep

\* What the rest does with the BTC task does not concern the session.
LEMMA RestKeeps ==
  ASSUME BleInv, UNCHANGED <<linked, adv, todo, blufi_sec, dh_param, heap, leaked>>,
         btc' = btc \/ {btc, btc'} \subseteq {"ready", "connect", "scan"}
  PROVE  BleInv'
<1>1. Waiting'
  BY DEF BleInv, Waiting, Booting, Quiet, Entering, Passing, Leaving, Opening
<1>2. Buffered' /\ BuffersOwned'
  BY DEF BleInv, Buffered, BuffersOwned, Blocks
<1> QED
  BY <1>1, <1>2 DEF BleInv

LEMMA BleInvStep == BleInv /\ [Next]_vars => BleInv'
<1> SUFFICES ASSUME BleInv, [Next]_vars PROVE BleInv'
  OBVIOUS
<1>1. CASE Ble
  BY <1>1, LinkKeeps, NegotiationKeeps, BtcKeeps DEF Ble, BleStep, BtuStep
<1>2. CASE StaConnected \/ Reboot \/ Panic
  BY <1>2, BleInvReset, RestKeeps DEF StaConnected, Reboot, Panic, Reset, bleVars, hostVars, sessionVars
<1>3. CASE Station \/ StaStart \/ StaDisconnected \/ GotIp \/ Drops \/ World
  BY <1>3, RestKeeps DEF Station, Associate, AttemptFails, Loses, Drops, GetsAddress, StaStart,
     StaDisconnected, GotIp, World, bleVars, hostVars, sessionVars
<1>4. CASE Phone \/ ThenConnect \/ ScanDone
  <2>1. UNCHANGED <<linked, adv, todo, blufi_sec, dh_param, heap, leaked>>
    BY <1>4 DEF Phone, ReceiveConfig, RequestConnect, RequestDisconnect, ScanStart,
       StationOff, StationOn, ThenConnect, ScanDone, bleVars, hostVars, sessionVars
  <2>2. btc' = btc \/ {btc, btc'} \subseteq {"ready", "connect", "scan"}
    BY <1>4 DEF Phone, ReceiveConfig, RequestConnect, RequestDisconnect, ScanStart,
       StationOff, StationOn, ThenConnect, ScanDone, Serving, bleVars, hostVars
  <2> QED
    BY <2>1, <2>2, RestKeeps
<1>5. CASE UNCHANGED vars
  BY <1>5, RestKeeps DEF vars, bleVars, hostVars, sessionVars
<1> QED
  BY <1>1, <1>2, <1>3, <1>4, <1>5 DEF Next, EventTask, Trouble

LEMMA BleAlways == Spec => []BleInv
  BY BleInvInit, BleInvStep, PTL DEF Spec

\* A phone never negotiates on the session of an earlier one, and
\* blufi_security_deinit never frees the one in use.
THEOREM SessionIsOwn == Spec => []SessionOwn
<1>1. BleInv => SessionOwn
  BY DEF BleInv, Waiting, Booting, Quiet, Entering, Passing, Leaving, Opening, SessionOwn
<1> QED
  BY <1>1, BleAlways, PTL

\* No order of negotiation messages, failing mallocs and lost links leaks a
\* block of the session or frees one twice, but for the buffers counted in
\* leaked, which were negotiated for between malloc and memset of
\* blufi_security_init; and only there is dh_param the garbage of malloc.
THEOREM BuffersAreOwned == Spec => []BuffersOwned
<1>1. BleInv => BuffersOwned
  BY DEF BleInv
<1> QED
  BY <1>1, BleAlways, PTL

\* The device can always be found again.
THEOREM DeviceIsDiscoverable == Spec => []Discoverable
<1>1. BleInv => Discoverable
  BY DEF BleInv, Waiting, Booting, Quiet, Entering, Passing, Leaving, Discoverable
<1> QED
  BY <1>1, BleAlways, PTL
-----------------------------------------------------------------------------
(* The station.  Its type, with what BleInv says of the session.            *)

Events == {"start", "connected", "disconnected", "gotip"}

\* What happens to the waiting events: one more, one less, a fresh start.
EvqStays   == evq' = evq
EvqAdds(e) == e \in Events /\ evq' = Append(evq, e) /\ Len(evq) < QueueLen
EvqHandles == evq # <<>> /\ evq' = Tail(evq)
EvqStarts  == evq' = <<"start">>

LEMMA QueueType ==
  ASSUME evq \in Seq(Events), Len(evq) <= QueueLen,
         EvqStays \/ EvqStarts \/ EvqHandles \/ (\E e \in Events : EvqAdds(e))
  PROVE  evq' \in Seq(Events) /\ Len(evq') <= QueueLen
<1> USE QueueAssumption
<1>1. CASE EvqStays
  BY <1>1 DEF EvqStays
<1>2. CASE EvqStarts
  BY <1>2 DEF EvqStarts, Events
<1>3. CASE EvqHandles
  BY <1>3, HeadTailProperties DEF EvqHandles
<1>4. ASSUME NEW e \in Events, EvqAdds(e) PROVE evq' \in Seq(Events) /\ Len(evq') <= QueueLen
  BY <1>4, AppendProperties DEF EvqAdds
<1> QED
  BY <1>1, <1>2, <1>3, <1>4

LEMMA EndsQueue == ASSUME NEW s, Ends(s) PROVE EvqStays \/ EvqAdds("disconnected")
  BY DEF Ends, HasRoom, EvqStays, EvqAdds, Events

LEMMA HandlesQueue == ASSUME NEW e, Arrives(e) PROVE EvqHandles
  BY DEF Arrives, EvqHandles

\* Every step does one of the four.
LEMMA QueueStep == [Next]_vars => EvqStays \/ EvqStarts \/ EvqHandles \/ (\E e \in Events : EvqAdds(e))
<1> SUFFICES ASSUME [Next]_vars
             PROVE  EvqStays \/ EvqStarts \/ EvqHandles \/ (\E e \in Events : EvqAdds(e))
  OBVIOUS
<1>1. CASE Ble \/ UNCHANGED vars
  BY <1>1 DEF Ble, vars, wifiVars, EvqStays
<1>2. CASE AttemptFails \/ Drops \/ Loses \/ RequestConnect \/ RequestDisconnect \/ StationOff
  BY <1>2, EndsQueue DEF AttemptFails, Drops, Loses, RequestConnect, RequestDisconnect,
     StationOff, Events
<1>3. CASE Associate \/ GetsAddress \/ StationOn
  BY <1>3 DEF Associate, GetsAddress, StationOn, HasRoom, EvqAdds, Events
<1>4. CASE StaStart \/ StaDisconnected \/ GotIp
  BY <1>4, HandlesQueue DEF StaStart, StaDisconnected, GotIp
<1>5. CASE StaConnected \/ Reboot \/ Panic
  BY <1>5 DEF StaConnected, Arrives, Reboot, Panic, Reset, EvqHandles, EvqStarts
<1>6. CASE ReceiveConfig \/ ScanStart \/ ThenConnect \/ ScanDone \/ World
  BY <1>6 DEF ReceiveConfig, ScanStart, ThenConnect, ScanDone, World, wifiVars, EvqStays
<1> QED
  BY <1>1, <1>2, <1>3, <1>4, <1>5, <1>6 DEF Next, Station, EventTask, Phone, Trouble

\* The parts of the type that neither BleInv nor the queue gives.
HostType ==
    /\ linked \in BOOLEAN /\ adv \in BOOLEAN /\ ble_is_connected \in BOOLEAN
    /\ btc \in {"ready", "init", "deinit", "connect", "scan"}
    /\ blufi_sec \in {"none", "own", "stale"}
StaType ==
    /\ sta \in {"off", "idle", "connecting", "associated"}
    /\ ap \in BOOLEAN /\ dhcp \in BOOLEAN /\ sntp \in BOOLEAN /\ nossid \in BOOLEAN
    /\ cfg \in Configs /\ net \in Configs
AppType ==
    /\ sta_config \in Configs
    /\ gl_sta_connected \in BOOLEAN /\ bit \in BOOLEAN

Scalars == HostType /\ StaType /\ AppType

LEMMA HostStays == HostType /\ UNCHANGED <<linked, adv, ble_is_connected, blufi_sec>>
                   /\ (btc' = btc \/ btc' \in {"ready", "connect", "scan"}) => HostType'
  BY DEF HostType

LEMMA ResetType == StaType /\ Reset => HostType' /\ StaType' /\ AppType'
<1> SUFFICES ASSUME StaType, Reset PROVE HostType' /\ StaType' /\ AppType'
  OBVIOUS
<1>1. HostType'
  BY DEF Reset, BleReset, HostType
<1>2. sta' = "idle" /\ net' = "none" /\ dhcp' = FALSE /\ sntp' = FALSE /\ nossid' = FALSE
      /\ UNCHANGED <<ap, cfg>>
  BY DEF Reset
<1>3. StaType'
  BY <1>2 DEF StaType, Configs
<1>4. AppType'
  BY DEF Reset, AppType, Configs
<1> QED
  BY <1>1, <1>3, <1>4

LEMMA HostTypeStep == HostType /\ StaType /\ [Next]_vars => HostType'
<1> SUFFICES ASSUME HostType, StaType, [Next]_vars PROVE HostType'
  OBVIOUS
<1>1. CASE PhoneConnects
  BY <1>1 DEF PhoneConnects, HostType
<1>2. CASE PhoneLeaves \/ SlaveDisconnect
  <2>1. linked' = FALSE /\ UNCHANGED <<adv, ble_is_connected, btc, blufi_sec>>
    BY <1>2 DEF PhoneLeaves, SlaveDisconnect, LinkEnds, sessionVars
  <2> QED
    BY <2>1 DEF HostType
<1>3. CASE ParamLen \/ ParamData
  BY <1>3, HostStays DEF ParamLen, ParamData, Negotiates, hostVars
<1>4. CASE InitFinish
  BY <1>4 DEF InitFinish, sessionVars, HostType
<1>5. CASE BleConnect
  BY <1>5 DEF BleConnect, HostType
<1>6. CASE BleDisconnect
  <2>1. ble_is_connected' = FALSE /\ btc' = "deinit" /\ UNCHANGED <<adv, linked, blufi_sec>>
    BY <1>6 DEF BleDisconnect, AdvYet, sessionVars
  <2> QED
    BY <2>1 DEF HostType
<1>7. CASE Deinit \/ SecurityWipe
  BY <1>7 DEF Deinit, SecurityWipe, AdvAgain, HostType
<1>8. CASE StaConnected \/ Reboot \/ Panic
  BY <1>8, ResetType, HostStays DEF StaConnected, Reboot, Panic, bleVars, hostVars, sessionVars
<1>9. CASE Station \/ StaStart \/ StaDisconnected \/ GotIp \/ Drops \/ World \/ UNCHANGED vars
  BY <1>9, HostStays DEF Station, Associate, AttemptFails, Loses, Drops, GetsAddress, StaStart,
     StaDisconnected, GotIp, World, vars, bleVars, hostVars, sessionVars
<1>10. CASE Phone \/ ThenConnect \/ ScanDone
  BY <1>10, HostStays DEF Phone, ReceiveConfig, RequestConnect, RequestDisconnect, ScanStart,
     StationOff, StationOn, ThenConnect, ScanDone, bleVars, hostVars, sessionVars
<1> QED
  BY <1>1, <1>2, <1>3, <1>4, <1>5, <1>6, <1>7, <1>8, <1>9, <1>10
  DEF Next, Ble, BleStep, BtuStep, BtcStep, EventTask, Trouble

LEMMA ConnectsType ==
  ASSUME StaType, Connects, UNCHANGED <<ap, cfg, sntp>>, dhcp' \in BOOLEAN
  PROVE  StaType'
<1>1. sta' \in {"off", "idle", "connecting", "associated"} /\ net' \in Configs /\ nossid' \in BOOLEAN
  BY DEF StaType, Connects
<1> QED
  BY <1>1 DEF StaType

LEMMA EndsType ==
  ASSUME StaType, NEW s \in {"off", "idle"}, Ends(s), UNCHANGED <<ap, cfg, net, dhcp, sntp, nossid>>
  PROVE  StaType'
  BY DEF StaType, Ends

LEMMA StaTypeStep == StaType /\ AppType /\ [Next]_vars => StaType'
<1> SUFFICES ASSUME StaType, AppType, [Next]_vars PROVE StaType'
  OBVIOUS
<1>1. CASE AttemptFails \/ Drops \/ Loses \/ RequestConnect \/ RequestDisconnect \/ StationOff
  BY <1>1, EndsType DEF AttemptFails, Drops, Loses, RequestConnect, RequestDisconnect, StationOff
<1>2. CASE Associate
  <2>1. sta' = "associated" /\ UNCHANGED <<ap, cfg, net, dhcp, sntp, nossid>>
    BY <1>2 DEF Associate
  <2> QED
    BY <2>1 DEF StaType
<1>3. CASE GetsAddress
  <2>1. dhcp' = FALSE /\ UNCHANGED <<sta, ap, cfg, net, sntp, nossid>>
    BY <1>3 DEF GetsAddress
  <2> QED
    BY <2>1 DEF StaType
<1>4. CASE StationOn
  <2>1. sta' = "idle" /\ UNCHANGED <<ap, cfg, net, dhcp, sntp, nossid>>
    BY <1>4 DEF StationOn
  <2> QED
    BY <2>1 DEF StaType
<1>5. CASE World
  <2>1. ap' = ~ap /\ UNCHANGED <<sta, cfg, net, dhcp, sntp, nossid>>
    BY <1>5 DEF World
  <2> QED
    BY <2>1 DEF StaType
<1>6. CASE StaStart
  BY <1>6, ConnectsType DEF StaStart, AtStart, StaType
<1>7. CASE StaDisconnected
  BY <1>7, ConnectsType DEF StaDisconnected, Reconnects
<1>8. CASE ThenConnect
  BY <1>8, ConnectsType DEF ThenConnect, StaType
<1>9. CASE StaConnected \/ Reboot \/ Panic
  <2>1. CASE Reset
    BY <2>1, ResetType
  <2>2. CASE StaConnected /\ ~Reset
    <3>1. sntp' = TRUE /\ dhcp' = TRUE /\ UNCHANGED <<sta, ap, cfg, net, nossid>>
      BY <2>2 DEF StaConnected
    <3> QED
      BY <3>1 DEF StaType
  <2> QED
    BY <1>9, <2>1, <2>2 DEF Reboot, Panic
<1>10. CASE ReceiveConfig
  <2>1. cfg' \in Configs /\ UNCHANGED <<sta, ap, net, dhcp, sntp, nossid>>
    BY <1>10 DEF ReceiveConfig, SetConfig, StaType
  <2> QED
    BY <2>1 DEF StaType
<1>11. CASE Ble \/ ScanStart \/ ScanDone \/ GotIp \/ UNCHANGED vars
  <2>1. UNCHANGED <<sta, ap, cfg, net, dhcp, sntp, nossid>>
    BY <1>11 DEF Ble, ScanStart, ScanDone, GotIp, vars, wifiVars, staVars
  <2> QED
    BY <2>1 DEF StaType
<1> QED
  BY <1>1, <1>2, <1>3, <1>4, <1>5, <1>6, <1>7, <1>8, <1>9, <1>10, <1>11
  DEF Next, Station, EventTask, Phone, Trouble

LEMMA AppTypeStep == StaType /\ AppType /\ [Next]_vars => AppType'
<1> SUFFICES ASSUME StaType, AppType, [Next]_vars PROVE AppType'
  OBVIOUS
<1>1. CASE StaConnected \/ Reboot \/ Panic
  <2>1. CASE Reset
    BY <2>1, ResetType
  <2>2. CASE StaConnected /\ ~Reset
    BY <2>2 DEF StaConnected, AppType
  <2> QED
    BY <1>1, <2>1, <2>2 DEF Reboot, Panic
<1>2. CASE StaDisconnected
  BY <1>2 DEF StaDisconnected, FlagCleared, BitCleared, AppType
<1>3. CASE GotIp
  BY <1>3 DEF GotIp, AppType
<1>4. CASE ReceiveConfig
  <2>1. sta_config' \in Configs /\ UNCHANGED <<gl_sta_connected, bit>>
    BY <1>4 DEF ReceiveConfig
  <2> QED
    BY <2>1 DEF AppType
<1>5. CASE UNCHANGED appVars
  BY <1>5 DEF appVars, AppType
<1>6. CASE Ble \/ Station \/ StaStart \/ ThenConnect \/ ScanDone \/ Drops \/ World
           \/ RequestConnect \/ RequestDisconnect \/ ScanStart \/ StationOff \/ StationOn
           \/ UNCHANGED vars
  BY <1>5, <1>6 DEF Ble, Station, Associate, AttemptFails, Loses, GetsAddress, StaStart,
     ThenConnect, ScanDone, Drops, World, RequestConnect, RequestDisconnect, ScanStart,
     StationOff, StationOn, vars, wifiVars
<1> QED
  BY <1>1, <1>2, <1>3, <1>4, <1>6 DEF Next, EventTask, Phone, Trouble

WifiInv == Scalars /\ evq \in Seq(Events) /\ Len(evq) <= QueueLen

LEMMA WifiInvInit == Init => WifiInv
<1> SUFFICES ASSUME Init PROVE WifiInv
  OBVIOUS
<1>1. HostType
  BY DEF Init, BleInit, HostType
<1>2. StaType
  BY DEF Init, StaType, Configs
<1>3. AppType
  BY DEF Init, AppType, Configs
<1>4. evq \in Seq(Events) /\ Len(evq) <= QueueLen
  BY QueueAssumption DEF Init, Events
<1> QED
  BY <1>1, <1>2, <1>3, <1>4 DEF WifiInv, Scalars

LEMMA WifiInvStep == WifiInv /\ [Next]_vars => WifiInv'
  BY HostTypeStep, StaTypeStep, AppTypeStep, QueueStep, QueueType DEF WifiInv, Scalars

LEMMA WifiAlways == Spec => []WifiInv
  BY WifiInvInit, WifiInvStep, PTL DEF Spec

\* Every variable keeps to its type, whatever the length of the event queue.
THEOREM TypeCorrect == Spec => []TypeOK
<1>1. BleInv /\ WifiInv => TypeOK
  <2> SUFFICES ASSUME BleInv, WifiInv PROVE TypeOK
    OBVIOUS
  <2>1. heap \in Nat /\ leaked \in 0 .. MaxLeaks /\ dh_param \in {"null", "buffer", "garbage"}
    BY LeaksAssumption DEF BleInv, Buffered, BuffersOwned, Blocks
  <2>2. todo \in Seq({"init", "connect", "disconnect"})
    <3>1. todo \in {<<>>, <<"init">>, <<"connect">>, <<"connect", "disconnect">>, <<"disconnect">>}
      BY DEF BleInv, Waiting, Booting, Quiet, Entering, Passing, Leaving
    <3>2. <<>> \in Seq({"init", "connect", "disconnect"})
          /\ <<"init">> \in Seq({"init", "connect", "disconnect"})
          /\ <<"connect">> \in Seq({"init", "connect", "disconnect"})
      OBVIOUS
    <3>3. <<"connect", "disconnect">> \in Seq({"init", "connect", "disconnect"})
          /\ <<"disconnect">> \in Seq({"init", "connect", "disconnect"})
      OBVIOUS
    <3> QED
      BY <3>1, <3>2, <3>3
  <2>3. BleTypeOK
    BY <2>1, <2>2 DEF BleTypeOK, WifiInv, Scalars, HostType
  <2>4. evq \in Seq({"start", "connected", "disconnected", "gotip"}) /\ Len(evq) <= QueueLen
    BY DEF WifiInv, Events
  <2> QED
    BY <2>3, <2>4 DEF TypeOK, WifiInv, Scalars, StaType, AppType
<1> QED
  BY <1>1, BleAlways, WifiAlways, PTL

-----------------------------------------------------------------------------
(* The socket never gives up.                                               *)

\* An event that waits goes on waiting until it is handled.
LEMMA PendingAdds ==
  ASSUME evq \in Seq(Events), NEW e \in Events, EvqAdds(e)
  PROVE  Pending(e)' /\ (\A x : Pending(x) => Pending(x)')
<1>1. Len(evq') = Len(evq) + 1 /\ evq'[Len(evq) + 1] = e
      /\ \A i \in 1 .. Len(evq) : evq'[i] = evq[i]
  BY AppendProperties DEF EvqAdds
<1> QED
  BY <1>1 DEF Pending

LEMMA PendingHandles ==
  ASSUME evq \in Seq(Events), EvqHandles, NEW x, Pending(x), Head(evq) # x
  PROVE  Pending(x)'
<1>1. PICK i \in 1 .. Len(evq) : evq[i] = x
  BY DEF Pending
<1>2. i # 1
  BY <1>1, HeadTailProperties DEF EvqHandles
<1>3. i - 1 \in 1 .. Len(evq') /\ evq'[i - 1] = x
  BY <1>1, <1>2, HeadTailProperties DEF EvqHandles
<1> QED
  BY <1>3 DEF Pending

LEMMA ResetTries == Reset => KeepsTrying'
<1> SUFFICES ASSUME Reset PROVE Pending("start")'
  BY DEF KeepsTrying
<1>1. 1 \in 1 .. Len(evq') /\ evq'[1] = "start"
  BY DEF Reset
<1> QED
  BY <1>1 DEF Pending

\* A call of esp_wifi_connect leaves no station idle that has an SSID.
LEMMA ConnectTries == ASSUME Connects PROVE KeepsTrying'
  BY DEF Connects, KeepsTrying

\* Whatever ends an attempt tells so.
LEMMA EndTries ==
  ASSUME WifiInv, KeepsTrying, NEW s \in {"off", "idle"}, Ends(s),
         sta = "off" => s = "off", nossid' = nossid, btc' = btc \/ btc = "ready"
  PROVE  KeepsTrying'
<1>1. CASE sta \in {"connecting", "associated"}
  <2>1. EvqAdds("disconnected")
    BY <1>1 DEF Ends, HasRoom, EvqAdds, Events
  <2> QED
    BY <2>1, PendingAdds DEF WifiInv, KeepsTrying, EvqAdds
<1>2. CASE sta \in {"off", "idle"}
  BY <1>2 DEF Ends, KeepsTrying, Pending
<1> QED
  BY <1>1, <1>2 DEF WifiInv, Scalars, StaType

LEMMA KeepsTryingStep == WifiInv /\ KeepsTrying /\ [Next]_vars => KeepsTrying'
<1> SUFFICES ASSUME WifiInv, KeepsTrying, [Next]_vars PROVE KeepsTrying'
  OBVIOUS
<1>1. CASE Ble
  <2>1. UNCHANGED <<sta, evq, nossid>> /\ (btc = "connect" => btc' = "connect")
    BY <1>1 DEF Ble, BleStep, BtuStep, BtcStep, PhoneConnects, PhoneLeaves, LinkEnds, ParamLen,
       ParamData, Negotiates, InitFinish, BleConnect, SecurityWipe, BleDisconnect, Deinit, SlaveDisconnect, Event,
       hostVars, wifiVars, staVars
  <2> QED
    BY <2>1 DEF KeepsTrying, Pending
<1>2. CASE AttemptFails \/ Drops \/ Loses \/ RequestConnect \/ RequestDisconnect \/ StationOff
  <2>1. CASE AttemptFails \/ Drops \/ Loses
    BY <2>1, EndTries DEF AttemptFails, Drops, Loses, bleVars, hostVars
  <2>2. CASE RequestConnect \/ RequestDisconnect \/ StationOff
    BY <2>2, EndTries DEF RequestConnect, RequestDisconnect, StationOff, Serving, bleVars, hostVars
  <2> QED
    BY <1>2, <2>1, <2>2
<1>3. CASE StaStart \/ StaDisconnected \/ ThenConnect
  BY <1>3, ConnectTries DEF StaStart, StaDisconnected, ThenConnect, AtStart, Reconnects
<1>4. CASE StaConnected \/ Reboot \/ Panic
  <2>1. CASE Reset
    BY <2>1, ResetTries
  <2>2. CASE StaConnected /\ ~Reset
    <3>1. EvqHandles /\ Head(evq) = "connected" /\ UNCHANGED <<sta, nossid, btc>>
      BY <2>2 DEF StaConnected, Arrives, EvqHandles, bleVars, hostVars
    <3> QED
      BY <3>1, PendingHandles DEF KeepsTrying, WifiInv
  <2> QED
    BY <1>4, <2>1, <2>2 DEF Reboot, Panic
<1>5. CASE GotIp
  <2>1. EvqHandles /\ Head(evq) = "gotip" /\ UNCHANGED <<sta, nossid, btc>>
    BY <1>5 DEF GotIp, Arrives, EvqHandles, bleVars, hostVars, staVars
  <2> QED
    BY <2>1, PendingHandles DEF KeepsTrying, WifiInv
<1>6. CASE Associate
  BY <1>6 DEF Associate, KeepsTrying
<1>7. CASE GetsAddress
  <2>1. EvqAdds("gotip") /\ UNCHANGED <<sta, nossid, btc>>
    BY <1>7 DEF GetsAddress, HasRoom, EvqAdds, Events, bleVars, hostVars
  <2> QED
    BY <2>1, PendingAdds DEF KeepsTrying, WifiInv, EvqAdds
<1>8. CASE StationOn
  <2>1. EvqAdds("start")
    BY <1>8 DEF StationOn, HasRoom, EvqAdds, Events
  <2> QED
    BY <2>1, PendingAdds DEF KeepsTrying, WifiInv, EvqAdds
<1>9. CASE World \/ ReceiveConfig \/ ScanStart \/ ScanDone \/ UNCHANGED vars
  <2>1. UNCHANGED <<sta, evq, nossid>> /\ (btc = "connect" => btc' = "connect")
    BY <1>9 DEF World, ReceiveConfig, ScanStart, ScanDone, Serving, vars, bleVars, hostVars,
       wifiVars, staVars
  <2> QED
    BY <2>1 DEF KeepsTrying, Pending
<1> QED
  BY <1>1, <1>2, <1>3, <1>4, <1>5, <1>6, <1>7, <1>8, <1>9
  DEF Next, Station, EventTask, Phone, Trouble

\* However the phone's requests and the station's events interleave, an idle
\* station is about to be connected again or has no SSID.
THEOREM NeverGivesUp == Spec => []KeepsTrying
<1>1. Init => KeepsTrying
  BY DEF Init, KeepsTrying, Pending
<1> QED
  BY <1>1, KeepsTryingStep, WifiAlways, PTL DEF Spec

-----------------------------------------------------------------------------
(* The firmware's view.  The last waiting event that tells of the network   *)
(* agrees with the station; if none waits, gl_sta_connected does.           *)

Telling == {"connected", "disconnected"}
News    == IF sta = "associated" THEN "connected" ELSE "disconnected"
LastIs(i) == evq[i] = News /\ \A j \in 1 .. Len(evq) : j > i => evq[j] \notin Telling
Silent    == \A j \in 1 .. Len(evq) : evq[j] \notin Telling

TellInv ==
    \/ \E i \in 1 .. Len(evq) : LastIs(i)
    \/ Silent /\ (gl_sta_connected <=> sta = "associated")

\* The station tells of each change.
LEMMA TellAdds ==
  ASSUME evq \in Seq(Events), NEW e \in Telling, EvqAdds(e), e = News'
  PROVE  TellInv'
<1>1. Len(evq') = Len(evq) + 1 /\ Len(evq) \in Nat /\ evq'[Len(evq) + 1] = e
  BY AppendProperties DEF EvqAdds
<1>2. PICK n \in 1 .. Len(evq') : n = Len(evq')
  BY <1>1
<1>3. evq'[n] = News' /\ \A j \in 1 .. Len(evq') : j > n => evq'[j] \notin Telling
  BY <1>1, <1>2
<1> QED
  BY <1>3 DEF TellInv, LastIs

\* Nothing that tells changes, and the association does not.
LEMMA TellStays ==
  ASSUME TellInv, EvqStays, gl_sta_connected' = gl_sta_connected,
         sta' = "associated" <=> sta = "associated"
  PROVE  TellInv'
  BY DEF TellInv, EvqStays, LastIs, Silent, News

LEMMA TellQuiet ==
  ASSUME TellInv, evq \in Seq(Events), NEW e \in Events \ Telling, EvqAdds(e),
         gl_sta_connected' = gl_sta_connected, sta' = "associated" <=> sta = "associated"
  PROVE  TellInv'
<1>1. Len(evq') = Len(evq) + 1 /\ Len(evq) \in Nat /\ evq'[Len(evq) + 1] = e
      /\ \A i \in 1 .. Len(evq) : evq'[i] = evq[i]
  BY AppendProperties DEF EvqAdds
<1>2. ASSUME NEW i \in 1 .. Len(evq), LastIs(i) PROVE TellInv'
  <2>1. LastIs(i)' /\ i \in 1 .. Len(evq')
    BY <1>1, <1>2 DEF LastIs, News
  <2> QED
    BY <2>1 DEF TellInv
<1>3. CASE Silent /\ (gl_sta_connected <=> sta = "associated")
  <2>1. Silent'
    BY <1>1, <1>3 DEF Silent
  <2> QED
    BY <1>3, <2>1 DEF TellInv
<1> QED
  BY <1>2, <1>3 DEF TellInv

\* What the handler makes of the event it takes.
Heeds == \/ Head(evq) = "connected" /\ gl_sta_connected' = TRUE
         \/ Head(evq) = "disconnected" /\ gl_sta_connected' = FALSE
         \/ Head(evq) \notin Telling /\ gl_sta_connected' = gl_sta_connected

LEMMA TellHandles ==
  ASSUME TellInv, evq \in Seq(Events), EvqHandles, Heeds,
         sta' = "associated" <=> sta = "associated"
  PROVE  TellInv'
<1>1. Len(evq) \in Nat /\ Len(evq) > 0 /\ Len(evq') = Len(evq) - 1 /\ Head(evq) = evq[1]
      /\ \A j \in 1 .. Len(evq') : evq'[j] = evq[j + 1]
  BY HeadTailProperties DEF EvqHandles
<1>2. ASSUME NEW i \in 1 .. Len(evq), LastIs(i), i # 1 PROVE TellInv'
  <2>1. i - 1 \in 1 .. Len(evq') /\ LastIs(i - 1)'
    BY <1>1, <1>2 DEF LastIs, News
  <2> QED
    BY <2>1 DEF TellInv
<1>3. CASE LastIs(1)
  <2>1. Silent'
    BY <1>1, <1>3 DEF LastIs, Silent
  <2>2. gl_sta_connected' <=> sta' = "associated"
    BY <1>1, <1>3 DEF LastIs, News, Heeds, Telling
  <2> QED
    BY <2>1, <2>2 DEF TellInv
<1>4. CASE Silent /\ (gl_sta_connected <=> sta = "associated")
  <2>1. Silent'
    BY <1>1, <1>4 DEF Silent
  <2>2. Head(evq) \notin Telling
    BY <1>1, <1>4 DEF Silent
  <2>3. gl_sta_connected' = gl_sta_connected
    BY <2>2 DEF Heeds, Telling
  <2> QED
    BY <1>4, <2>1, <2>3 DEF TellInv
<1> QED
  BY <1>2, <1>3, <1>4 DEF TellInv

LEMMA ResetTells == Reset => TellInv'
<1> SUFFICES ASSUME Reset PROVE TellInv'
  OBVIOUS
<1>1. Len(evq') = 1 /\ evq'[1] = "start" /\ gl_sta_connected' = FALSE /\ sta' = "idle"
  BY DEF Reset
<1>2. Silent'
  BY <1>1 DEF Silent, Telling
<1> QED
  BY <1>1, <1>2 DEF TellInv

LEMMA EndTells ==
  ASSUME TellInv, WifiInv, NEW s \in {"off", "idle"}, Ends(s), gl_sta_connected' = gl_sta_connected
  PROVE  TellInv'
<1>1. CASE sta \in {"connecting", "associated"}
  <2>1. EvqAdds("disconnected") /\ sta' = s
    BY <1>1 DEF Ends, HasRoom, EvqAdds, Events
  <2> QED
    BY <2>1, TellAdds DEF WifiInv, News, Telling
<1>2. CASE sta \notin {"connecting", "associated"}
  <2>1. EvqStays /\ sta' = s
    BY <1>2 DEF Ends, EvqStays
  <2> QED
    BY <1>2, <2>1, TellStays
<1> QED
  BY <1>1, <1>2

LEMMA TellStep == WifiInv /\ TellInv /\ [Next]_vars => TellInv'
<1> SUFFICES ASSUME WifiInv, TellInv, [Next]_vars PROVE TellInv'
  OBVIOUS
<1> USE DEF WifiInv
<1>1. CASE Ble \/ ReceiveConfig \/ ScanStart \/ ScanDone \/ World \/ ThenConnect \/ UNCHANGED vars
  <2>1. EvqStays /\ gl_sta_connected' = gl_sta_connected
    BY <1>1 DEF Ble, ReceiveConfig, ScanStart, ScanDone, World, ThenConnect, vars, wifiVars,
       appVars, EvqStays
  <2>2. sta' = "associated" <=> sta = "associated"
    BY <1>1 DEF Ble, ReceiveConfig, ScanStart, ScanDone, World, ThenConnect, Connects, vars,
       wifiVars, staVars
  <2> QED
    BY <2>1, <2>2, TellStays
<1>2. CASE AttemptFails \/ Drops \/ Loses \/ RequestConnect \/ RequestDisconnect \/ StationOff
  BY <1>2, EndTells DEF AttemptFails, Drops, Loses, RequestConnect, RequestDisconnect,
     StationOff, appVars
<1>3. CASE Associate
  BY <1>3, TellAdds DEF Associate, HasRoom, EvqAdds, Events, News, Telling
<1>4. CASE GetsAddress
  <2>1. EvqAdds("gotip") /\ UNCHANGED <<sta, gl_sta_connected>>
    BY <1>4 DEF GetsAddress, HasRoom, EvqAdds, Events, appVars
  <2> QED
    BY <2>1, TellQuiet DEF Events, Telling
<1>5. CASE StationOn
  <2>1. EvqAdds("start") /\ gl_sta_connected' = gl_sta_connected /\ sta # "associated" /\ sta' # "associated"
    BY <1>5 DEF StationOn, HasRoom, EvqAdds, Events, appVars
  <2> QED
    BY <2>1, TellQuiet DEF Events, Telling
<1>6. CASE StaStart \/ GotIp
  <2>1. EvqHandles /\ Heeds
    BY <1>6 DEF StaStart, GotIp, Arrives, EvqHandles, Heeds, Telling, appVars
  <2>2. sta' = "associated" <=> sta = "associated"
    BY <1>6 DEF StaStart, GotIp, AtStart, Connects, staVars
  <2> QED
    BY <2>1, <2>2, TellHandles
<1>7. CASE StaDisconnected
  <2>1. EvqHandles /\ Heeds
    BY <1>7 DEF StaDisconnected, Arrives, EvqHandles, Heeds, Telling, FlagCleared
  <2>2. sta' = "associated" <=> sta = "associated"
    BY <1>7 DEF StaDisconnected, Reconnects, Connects
  <2> QED
    BY <2>1, <2>2, TellHandles
<1>8. CASE StaConnected \/ Reboot \/ Panic
  <2>1. CASE Reset
    BY <2>1, ResetTells
  <2>2. CASE StaConnected /\ ~Reset
    <3>1. EvqHandles /\ Heeds /\ sta' = sta
      BY <2>2 DEF StaConnected, Arrives, EvqHandles, Heeds
    <3> QED
      BY <3>1, TellHandles
  <2> QED
    BY <1>8, <2>1, <2>2 DEF Reboot, Panic
<1> QED
  BY <1>1, <1>2, <1>3, <1>4, <1>5, <1>6, <1>7, <1>8
  DEF Next, Station, EventTask, Phone, Trouble

\* Once no event waits, gl_sta_connected is what the station is, however long
\* the queue grew and whatever came between.
THEOREM ViewIsRight == Spec => []EventsTell
<1>1. Init => TellInv
  <2> SUFFICES ASSUME Init PROVE TellInv
    OBVIOUS
  <2>1. Len(evq) = 1 /\ evq[1] = "start"
    BY DEF Init
  <2>2. Silent
    BY <2>1 DEF Silent, Telling
  <2> QED
    BY <2>2 DEF TellInv, Init
<1>2. TellInv => EventsTell
  <2> SUFFICES ASSUME TellInv, evq = <<>> PROVE gl_sta_connected <=> sta = "associated"
    BY DEF EventsTell
  <2>1. Len(evq) = 0
    OBVIOUS
  <2> QED
    BY <2>1 DEF TellInv
<1> QED
  BY <1>1, <1>2, TellStep, WifiAlways, PTL DEF Spec


-----------------------------------------------------------------------------
(* The Wi-Fi events that the connection sees.                               *)

\* An address is asked for, and waits, only after the first association.
AddressAfterJoin == dhcp \/ Pending("gotip") => sntp

\* What waited may go on waiting or be handled, and another event may come.
LEMMA NoOtherPending ==
  ASSUME evq \in Seq(Events), NEW x, ~Pending(x),
         EvqStays \/ EvqHandles \/ (\E e \in Events \ {x} : EvqAdds(e))
  PROVE  ~Pending(x)'
<1> SUFFICES ASSUME NEW i \in 1 .. Len(evq'), evq'[i] = x PROVE FALSE
  BY DEF Pending
<1>1. CASE EvqStays
  BY <1>1 DEF EvqStays, Pending
<1>2. CASE EvqHandles
  <2>1. i + 1 \in 1 .. Len(evq) /\ evq'[i] = evq[i + 1]
    BY <1>2, HeadTailProperties DEF EvqHandles
  <2> QED
    BY <2>1 DEF Pending
<1>3. ASSUME NEW e \in Events \ {x}, EvqAdds(e) PROVE FALSE
  <2>1. Len(evq) \in Nat /\ Len(evq') = Len(evq) + 1 /\ evq'[Len(evq) + 1] = e
        /\ \A j \in 1 .. Len(evq) : evq'[j] = evq[j]
    BY <1>3, AppendProperties DEF EvqAdds
  <2> QED
    BY <2>1 DEF Pending
<1> QED
  BY <1>1, <1>2, <1>3

LEMMA JoinStep == WifiInv /\ AddressAfterJoin /\ [Next]_vars => AddressAfterJoin'
<1> SUFFICES ASSUME WifiInv, AddressAfterJoin, [Next]_vars PROVE AddressAfterJoin'
  OBVIOUS
<1> USE DEF WifiInv
<1>1. CASE Ble \/ ReceiveConfig \/ ScanStart \/ ScanDone \/ World \/ ThenConnect \/ UNCHANGED vars
  <2>1. EvqStays /\ UNCHANGED <<dhcp, sntp>>
    BY <1>1 DEF Ble, ReceiveConfig, ScanStart, ScanDone, World, ThenConnect, vars, wifiVars,
       staVars, EvqStays
  <2> QED
    BY <2>1, NoOtherPending DEF AddressAfterJoin
<1>2. CASE AttemptFails \/ Drops \/ Loses \/ RequestConnect \/ RequestDisconnect \/ StationOff
  <2>1. (EvqStays \/ EvqAdds("disconnected")) /\ UNCHANGED <<dhcp, sntp>>
    BY <1>2, EndsQueue DEF AttemptFails, Drops, Loses, RequestConnect, RequestDisconnect, StationOff
  <2> QED
    BY <2>1, NoOtherPending DEF AddressAfterJoin, Events
<1>3. CASE Associate \/ StationOn
  <2>1. (EvqAdds("connected") \/ EvqAdds("start")) /\ UNCHANGED <<dhcp, sntp>>
    BY <1>3 DEF Associate, StationOn, HasRoom, EvqAdds, Events
  <2> QED
    BY <2>1, NoOtherPending DEF AddressAfterJoin, Events
<1>4. CASE GetsAddress
  BY <1>4 DEF GetsAddress, AddressAfterJoin
<1>5. CASE StaStart \/ StaDisconnected \/ GotIp
  <2>1. EvqHandles /\ sntp' = sntp /\ (dhcp' => dhcp)
    BY <1>5 DEF StaStart, StaDisconnected, GotIp, Arrives, EvqHandles, staVars
  <2> QED
    BY <2>1, NoOtherPending DEF AddressAfterJoin
<1>6. CASE StaConnected \/ Reboot \/ Panic
  <2>1. CASE Reset
    <3>1. Len(evq') = 1 /\ evq'[1] = "start" /\ ~dhcp'
      BY <2>1 DEF Reset
    <3>2. ~Pending("gotip")'
      BY <3>1 DEF Pending
    <3> QED
      BY <3>1, <3>2 DEF AddressAfterJoin
  <2>2. CASE StaConnected /\ ~Reset
    BY <2>2 DEF StaConnected, AddressAfterJoin
  <2> QED
    BY <1>6, <2>1, <2>2 DEF Reboot, Panic
<1> QED
  BY <1>1, <1>2, <1>3, <1>4, <1>5, <1>6 DEF Next, Station, EventTask, Phone, Trouble

\* Every step is one of module WifiEvents' or leaves alone what it speaks of.
LEMMA WifiEventsStep ==
  WifiInv /\ AddressAfterJoin /\ [Next]_vars => [Wifi!Next]_(Wifi!vars)
<1> SUFFICES ASSUME WifiInv, AddressAfterJoin, [Next]_vars PROVE [Wifi!Next]_(Wifi!vars)
  OBVIOUS
<1>1. CASE \/ Ble \/ Station \/ Phone \/ StaStart \/ ThenConnect \/ ScanDone \/ Drops \/ World
           \/ UNCHANGED vars
  <2>1. UNCHANGED <<gl_sta_connected, bit, sntp>>
    BY <1>1 DEF Ble, Station, Associate, AttemptFails, Loses, Drops, GetsAddress, Phone,
       ReceiveConfig, RequestConnect, RequestDisconnect, ScanStart, StationOff, StationOn,
       StaStart, ThenConnect, ScanDone, World, vars, wifiVars, staVars, appVars
  <2> QED
    BY <2>1 DEF Wifi!vars
<1>2. CASE StaConnected \/ Reboot \/ Panic
  BY <1>2 DEF StaConnected, Reboot, Panic, Reset, Wifi!Next, Wifi!Join, Wifi!Reset
<1>3. CASE StaDisconnected
  <2>1. gl_sta_connected' = FALSE /\ bit' = FALSE /\ sntp' = sntp
    BY <1>3 DEF StaDisconnected, FlagCleared, BitCleared
  <2>2. gl_sta_connected \in BOOLEAN /\ bit \in BOOLEAN
    BY DEF WifiInv, Scalars, AppType
  <2>3. CASE gl_sta_connected \/ bit
    BY <2>1, <2>3 DEF Wifi!Next, Wifi!Leave
  <2>4. CASE gl_sta_connected = FALSE /\ bit = FALSE
    BY <2>1, <2>4 DEF Wifi!vars
  <2> QED
    BY <2>2, <2>3, <2>4
<1>4. CASE GotIp
  <2>1. Pending("gotip")
    <3>1. evq # <<>> /\ Head(evq) = "gotip"
      BY <1>4 DEF GotIp, Arrives
    <3>2. 1 \in 1 .. Len(evq) /\ evq[1] = "gotip"
      BY <3>1, HeadTailProperties DEF WifiInv
    <3> QED
      BY <3>2 DEF Pending
  <2>2. sntp /\ bit' = TRUE /\ UNCHANGED <<gl_sta_connected, sntp>>
    BY <1>4, <2>1 DEF AddressAfterJoin, GotIp, staVars
  <2>3. CASE bit = TRUE
    BY <2>2, <2>3 DEF Wifi!vars
  <2>4. CASE ~bit
    BY <2>2, <2>4 DEF Wifi!Next, Wifi!Address
  <2> QED
    BY <2>3, <2>4 DEF WifiInv, Scalars, AppType
<1> QED
  BY <1>1, <1>2, <1>3, <1>4 DEF Next, EventTask, Trouble

\* Provisioning implements WifiEvents: what Connection assumes of the Wi-Fi
\* events is what the station, the event task and the phone's messages leave
\* of them, for every length of the event queue.
THEOREM ProvisioningImplementsWifiEvents == Spec => EventsAsAssumed
<1>1. Init => Wifi!Init /\ AddressAfterJoin
  <2> SUFFICES ASSUME Init PROVE Wifi!Init /\ AddressAfterJoin
    OBVIOUS
  <2>1. Len(evq) = 1 /\ evq[1] = "start" /\ ~dhcp
    BY DEF Init
  <2>2. ~Pending("gotip")
    BY <2>1 DEF Pending
  <2> QED
    BY <2>1, <2>2 DEF Init, Wifi!Init, AddressAfterJoin
<1> QED
  BY <1>1, JoinStep, WifiEventsStep, WifiAlways, PTL DEF Spec, EventsAsAssumed, Wifi!Spec
=============================================================================
