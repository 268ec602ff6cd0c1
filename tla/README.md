# Verification of the smart-socket firmware

The program is the firmware of a Wi-Fi power socket on an ESP32 (ESP-IDF 4.4.1):
it meters an appliance, opens a relay on overload, reports over MQTT, stores
reports in flash while there is no network, obeys commands from a server, and is
given its network by a phone over BLE. Its own code is `src/main`, `src/APP` and
`src/components/blufi`; the rest of the tree is build output. This directory holds
TLA+ models of that code, the TLC runs that check them, and proofs checked by TLAPS.

## 1. Inventory

| Component | Code | State it keeps | Operations | Model |
|---|---|---|---|---|
| Report pipeline and store | `MQTT_Publish.c` (`mqtt_publish_data`), `D_open.c` (`Upload_again_work`), `NVS.c` | NVS `count`, blobs `"1"`…; each task's local `cnt` | publish, store, replay | `ReportStore`, implementing `Delivery` |
| Connection | `app_blufi.c` (event handlers), `MQTT.c` (`comm_task`) | `CONNECTED_BIT`, `steps`, `first_in`, `mqtt_flag`, `IP_FLAG` | associate, connect, reconnect, subscribe, change address | `Connection`, built from `WifiEvents`, implementing `Link` |
| Command mailbox | `MQTT.c` (`mqtt_event_handler`, `process_task`), `MQTT_Subscribed.c` (`mqtt_subscribed_process`) | `res_topic`, `res_message`, `msg_len`, `EVENT_DATA_BIT`, `frame_hex` | receive, process, wipe | `CommandMailbox` |
| Measuring and protecting task | `Timer.c`, `Pulse_CNT.c`, relay part of `GPIO.c` | `sod`, the timer's event bit, pulse counters, `nomral`, `KEY_OPEN`, relay | interrupt, sample, report, check, read the period | `PowerTask` |
| Provisioning over BLE | `app_blufi.c`, `blufi_init.c` | station configuration, `gl_sta_connected`, `CONNECTED_BIT`, event queue | the phone's messages, Wi-Fi and IP events | `Provisioning`, implementing `WifiEvents` |
| BLE session security | `blufi_security.c` | `blufi_sec`, `dh_param` | connect, negotiate, free | `BleSession`, part of `Provisioning` |
| Appointment | `D_open.c` (`esp_get_now_time`), `mqtt_cmd_sw` state 2 | NVS `time`, clock, time zone, relay | store, compare, switch on | `Appointment` |
| Frames | `mqtt_publish_*`, the responses in `MQTT_Subscribed.c`, `Pulse_count` | `upload`, `mark` | encode, frame, answer | `Frames` |
| Heartbeat task | `MQTT_Publish.c` (`pub_task`) | none | send a heartbeat each minute | its frame in `Frames` |
| Command decoding | `MQTT_Subscribed.c` | none of its own | `mqtt_cmd_sw`, `_ip`, `_frequence` | effects in `PowerTask`, `Appointment`, `Connection`; answers in `Frames` |
| Startup order | `main.c` | which task has initialised what | `app_main` | `Boot`, `Init` or `Reset` of each module |
| GPIO set-up, hex conversion | `GPIO.c`, `Character.c` | none | register set-up; a dump that is only logged | not modelled |

How they interact. There are no locks. The tasks share globals (`mqtt_flag`,
`sod`, the mailbox buffers, the relay, the BLE session), the keys of NVS, and event
groups used as polled flags:

* the timer interrupt wakes `timer_task`, which publishes (client outbox),
  stores (`count`, blobs), checks (relay, `KEY_OPEN`) and reads its period
  (`NOMRAL`);
* the upload task replays what `timer_task` stored, through the same `count`;
* the esp-mqtt task writes the mailbox; `process_task` polls it and changes the
  relay, `NOMRAL`, `time` and `IP_FLAG`;
* `comm_task` turns the client's events into `mqtt_flag`, which decides whether
  `timer_task` stores and whether the upload task replays;
* the delayed-opening task compares the clock SNTP sets with `time`;
* the event task handles Wi-Fi events one after the other and calls the station
  in its turn; the BTC task does the same for the phone; the BTU task of the
  Bluetooth host negotiates keys on the session that the BTC task makes and frees.

What is hard here: read-modify-write sequences on flash by two tasks, with a
reset possible between any two calls; a mailbox of several fields signalled by a
bit that is cleared late; an interrupt that counts seconds which the task
misses; int8/uint16 conversions; two independent reconnection mechanisms; frames
edited in place; requests that produce events whose handlers act on what was
requested; and a session object shared by two tasks. PROJECT.json lists each hazard
at its line.

## 2. Modules and their code

Every module states its conventions in its header; PROJECT.json maps each
definition to lines. Definitions marked `mutant` are faulty variants, used to
show that the properties can fail; nothing else uses them.

How the modules fit together:

```
ReportStore   -- implements -->  Delivery
ReportStore   -- built from the actions of -->  Link        <-- implemented by --  Connection
Connection    -- built from the actions of -->  WifiEvents  <-- implemented by --  Provisioning
Provisioning  -- extends -->     BleSession
```

Each arrow "implements" is a property of a run and a theorem. Read from the bottom, the
phone's messages and the station's events make the Wi-Fi events that the connection is
built on, the connection makes the link that the report pipeline is built on, and the
pipeline keeps the promise of `Delivery` on it.

**Link.** The part of the connection that the report pipeline depends on: a client
made once per boot, a link that comes and goes, and `mqtt_flag`, which follows the
link some time later. `ReportStore` takes its network steps from it (`Net!Up`,
`Net!Notice`, …) and adds the outbox; `Connection` implements it (`LinkAsAssumed`). So
what the pipeline is checked against is what the connection code does, without the
product of the two state spaces. `comm_task`'s poll and its write of the flag are one
step: a change of the link in between commutes with the write.

**WifiEvents.** The part of the Wi-Fi that `comm_task` and the client depend on:
`gl_sta_connected`, `CONNECTED_BIT` and the SNTP client, as the event handlers change
them. There is one association per boot (`Join`; the next one trips an assertion of
lwIP), an address only after it (`Address`), and a loss that clears both (`Leave`).
`Connection` takes its Wi-Fi steps from it (`Wifi!Join`, …) and adds when they happen;
`Provisioning` implements it (`EventsAsAssumed`), with the phone, the station and the
queue of events.

**ReportStore.** Two tasks of equal priority on one core share the store; one
NVS call is atomic, a sequence is not. So each NVS call and each look at
`mqtt_flag` is an action (`PublishData`, `CheckFlag`, `ReadCount`, `WriteBlob`,
`WriteCount`; `UploadWake`, `UploadRead`, `UploadBlob`, `UploadDec`), and
`Reboot` may come between any two. The client is external: a set of queued
reports that are sent while connected (`Transmit`), or dropped during an outage
(`Expire`) or by a reset. If `FlashFaults`, every NVS call may fail as the code lets
it: a write and a blob's read are only logged, a read of `count` gives 0
(`CountRead`), which both tasks take for the size of the store. An absent `count` reads
as -1, which both tasks treat like 0 (`cnt++` of the timer task starts from an
initialised 0), so 0 stands for both. `uploaded`, `unread`, `exposed` and `misread`
record history: what was replayed, what could not be read, what was counted into the
store while an upload was under way, and whether a failed read of `count` by the timer
task is still being worked on.

**Delivery.** The abstract promise, without tasks, slots or counters: a report is
queued when it is made; it may be stored; it leaves the store only after it was
handed over, which queues it again. Two things are outside the promise, and each has its
bounds in the module. A report that was stored while the store was being drained
(`exposed`) may be dropped or come back, that report and no other. And from a read of
`count` that failed until the work it started is over (`misled`) the store may become
any set of reports; after that work the promise holds again for what is there. The
queue never gets anything that was not made. `ReportStore` refines it with the store as
the set of the blobs at or below `count` (`Contents`).

**Connection.** The Wi-Fi events of `WifiEvents`, `comm_task` (`Boot`, `StartClient`, `Reconnect`,
`CheckMqtt`, `Subscribe`, `CheckOnline`) and the esp-mqtt client of IDF 4.4 as an
external automaton: it connects at once after its start or an accepted
`esp_mqtt_client_reconnect` (refused unless it waits), and by itself ten seconds
after a loss; a disconnect requested while it connects takes effect once it is
connected; the session is a clean one. Ten seconds exceed `comm_task`'s poll, so
the client's own attempt only happens while `comm_task` is stuck in the subscribe
loop or waits for Wi-Fi (`Rested`). `fast` says whether an attempt ends before the
next poll. `sntp` models lwIP's assertion in `sntp_setoperatingmode`: a second
association restarts the device. `LateAddress` is a `GOT_IP` that is handled after
the loss of its network. The read of `IP_FLAG` at boot may fail (and give 0), and so may
its write by the command.

**BleSession.** The BTU task sees the link come and go and queues an event for the
BTC task each time; the negotiation handler runs in the BTU task itself. `todo` is
that queue. The BTU task has the higher priority and may run between any two calls of a
BTC handler, so the handlers are split where that matters: freeing the session and
advertising again (`BleDisconnect`, `Deinit`), and the two halves of
`blufi_security_init`, which publishes the session (`BleConnect`, `malloc`,
`blufi_security.c:183`) before it clears it (`SecurityWipe`, `memset`, line 188). A
negotiation in between works on whatever `malloc` returned: `dh_param` may be `garbage`,
and what is done with it passes or ends in a panic (`Panics`, a reset of
`Provisioning`); a buffer taken in between is forgotten by the `memset` (`leaked`,
bounded by `MaxLeaks`). `blufi_sec` says whose session it is, `heap` counts the blocks of
the session; keys and ciphers are abstracted, and the blocks mbedtls takes for itself
are not counted.

**Provisioning.** Extends `BleSession` with the station. `evq` is the default event
loop's queue; each handler of the event task is one action, because it has the higher
priority; a BTC handler of two station calls is two (`RequestConnect`,
`ThenConnect`). The phone sends any message at any moment. A configuration is `none`,
`home` or `other`; it is replaced part by part, an empty SSID included. The station
refuses it when it is off, and may refuse it while it connects, which the code does not
look at. The station's own view of its events (`sta`) runs ahead of what the firmware
has handled.

**CommandMailbox.** One action per shared access of `mqtt_event_handler` and
`process_task`, which run on different cores. A message has a head, and if it is
long a tail, so that a copy can be torn; topic, length and bit are set one after
the other. `disturbed` records the commands that shared the mailbox with another
one or met a reset.

**PowerTask.** Time is the tick of the interrupt. All pulses of a second arrive
at one moment of it (`Pulses`); a sample may therefore cover no second, one, or
several. Each publish and each NVS call is an action and may take any number of
seconds. The interrupt needs no task to be blocked: it may also come between the sample
(`Sample`) and the test of `sod` (`Test`), between `sod = 0` (`ResetSod`, `Timer.c:68`)
and the next wait, and while the task is ready with its bit set. On that stretch the task
only computes, for far less than a second, so at most one tick falls into it (`spent`).
The pulse counter and the sample are `int16_t` and wrap (`ToInt16`, `-Wide .. Wide-1`).
`NOMRAL` has the width of the code's `int8_t` (`-Half .. Half-1`), and a commanded
`uint16_t` is converted as the call does (`ToInt8`). `sod` saturates at `Half`, above
every period. With `NvsFaults` every NVS call may fail: a read gives 0 (`PeriodRead`), a
write is lost, whether or not it has made the namespace (`WriteFails`).

**Appointment.** `ReadClock`, `ReadAppointment` and `TestAppointment` are the
steps of `delay_open`; between them the clock, the relay, the stored time and the
zone may change. A missing key leaves a handle open; when the heap holds no more
(`MaxOpen`), opens fail, reads give 0 and writes are lost.

**Frames.** The three published frames and the three responses as byte
sequences, with the checksum and `Length` computed in the order of the code. The
measurement arithmetic is exact; the code uses floating point, which may change
the last unit of a quantity. The device number and the time are opaque bytes.

Where modules meet without being composed, each one lets the other side do anything it
can do: `PowerTask` lets `process_task` switch the relay and write the period at any
moment (`CommandMailbox` says when a command gets there); the publish inside
`PowerTask` takes any time.

## 3. Runs

| Run | Checks | Bounds |
|---|---|---|
| `store_safety` | `TypeOK`, `CountBounded`, `NoHoles`, `StoredSlotsStable`, `StoreDrains`, `DeliveryKept` | `Limit` 1 (two slots), 3 reports, every NVS call may fail |
| `connection_safety` | `TypeOK`, `SubscriptionKept`, `StaysOnline`, `LossNoticed`, `LinkAsAssumed` | none: the state space is finite |
| `connection_address` | violates `AddressTakesEffect` | the same |
| `provisioning_safety` | `TypeOK`, `SessionOwn`, `BuffersOwned`, `Discoverable`, `KeepsTrying`, `EventsTell`, `BitSettles`, `Recovers`, `EventsAsAssumed` | three events may wait, one buffer may be forgotten |
| `mailbox_safety` | `TypeOK`, `AtMostOnce`, `TornOnlyIfDisturbed`, `UndisturbedKept`, `UndisturbedRuns` | one short, two long commands |
| `mailbox_qos1` | violates `AtLeastOnce` | one short, one long, no reset |
| `power_protect` | `TypeOK`, `ZeroPeriodTraced`, `OverloadGenuine`, `UnpluggedGenuine`, `PowerCutGenuine` | int8 and int16 of six values, loads under and over the limit, failing NVS calls, no commands |
| `power_period` | `CheckedInTime`, `ZeroPeriodTraced`, `PeriodKept`, `SustainedOverloadTrips` | the same widths and failures, an overload, commands 0 (fits) and 4 (wraps to -2), mains that fail only with the supply |
| `power_bit3` | violates `PowerCutMeansCut` | no commands, no failing calls |
| `appointment_safety` | `TypeOK`, `NeverSwitchesOn` | clock 0..3, offset 3, appointments 4 and 6, two handles |
| `frames_safety` | `TypeOK`, `LengthCorrect`, `ReportDecodes`, `SwitchResponseValid` | seven pulse counts on both sides of the byte-count boundaries |
| `frames_checksum` | violates `ChecksumAsDocumented` | the same |

Why the bounds are enough. *Store*: two slots and three reports fill the store,
overflow it, refill it while the other task drains it, and leave one report to be
lost; every hazard is a matter of two tasks and neighbouring slots, and any number of NVS
calls may fail. *Provisioning*: a connection produces two
events (`connected`, `gotip`) and its end a third; a queue of three holds a whole
association that has ended before its first event is handled, and is also full
often, so that a poster waits; a second forgotten buffer changes nothing but the count.
*Mailbox*: the properties concern a command, its
predecessor and its successor. *Power*: with `Half = 3` there is every class of
period in force: zero (commanded, or a failed read), one (before the first check) and two
(the default), and every class of stored one: absent, negative by a wrap, zero, positive;
a command that wraps to zero stores the same as zero. With `Wide = 3` and a limit of
one pulse, two seconds of the large load wrap the counter below the limit, and two of the
small one pass the limit without an overload. *Appointment*: the window compares differences of at most two seconds;
the proofs cover every value. *Frames*: the encoding changes at 256, 65536 and
16777216 only, and the chosen pulses give power and voltage values on both
sides of the first and the last; 5 pulses give the first three-byte power.

What the properties say, beyond types:

* `DeliveryKept` – the report pipeline keeps the promise of `Delivery`: what was stored
  while no upload was under way leaves the store only after it was queued again. Resets,
  failing writes and link changes lose nothing of it, and neither does the other task,
  which reads and writes `count` without a lock (`MQTT_Publish.c:308-322` against
  `D_open.c:48-54`). Only three things are lost: a report whose blob cannot be read is
  skipped, one that is counted into the store during an upload may be dropped by the stale
  `count` of the upload task, and a read of `count` that fails makes the timer task work on
  a store it takes for empty. A slot is
  released when its report is *queued*: a reset before the acknowledgement loses it
  (`Leave`).
* `StoredSlotsStable` – a live slot is never overwritten, by a task that reads a stale
  `count` either; the exception is the work a failed read of `count` has started, which
  writes blob 1 over a stored report.
* `StoreDrains` – while the link stays flagged up and the upload task's reads and writes
  of `count` succeed, the store is emptied, although reports keep coming and `count` is
  written by both.
* `LinkAsAssumed` – the link the pipeline is built on is the one the connection code
  makes: a client once per boot, a flag that changes only to what the link is.
* `EventsAsAssumed` – the Wi-Fi events the connection is built on are the ones the
  handlers make of the station's events: no phone, full queue or late address produces
  a second association, an address before the first, or leaves one of them behind.
* `ReportDecodes`, `SwitchResponseValid` – a server that follows the byte counts of a
  report reads the last measurement of each quantity, at every width; the response to a
  switch command, edited in place, keeps a checksum that fits.
* `StaysOnline` – `comm_task` and the client's own reconnection settle, provided
  an attempt ends before the next poll and the boot did not read `IP_FLAG`. The assertion
  at a second association may still reset the device: the property says that this does
  not go on for ever. If attempts always take longer than `comm_task`'s two seconds,
  each connection is closed as soon as it is made.
* `LossNoticed` – a lost link clears `mqtt_flag` in the end, unless `comm_task` sits
  in the subscribe loop (`MQTT.c:211`), which does not look at the link.
* `SessionOwn`, `BuffersOwned`, `Discoverable` – however late the BTC task handles the
  link events, a phone negotiates on its own session, no block but those the `memset`
  of `blufi_security_init` forgets (each of them counted) leaks and none is freed twice,
  garbage is met only before that `memset`, and the device advertises or is about to.
* `KeepsTrying`, `EventsTell`, `BitSettles`, `Recovers` – the station is never left
  idle with a configuration (a disconnection the phone asked for is undone by the
  handler of its own event); `gl_sta_connected` is right whenever no event waits;
  `CONNECTED_BIT`, which a late address may set without a network, is finally clear;
  and a socket left alone with a right configuration gets online for good, the reset of
  lwIP's assertion included.
* `AtMostOnce`, `TornOnlyIfDisturbed`, `UndisturbedKept`, `UndisturbedRuns` – the
  mailbox is right for commands that do not meet; for those that do, commands can
  be lost or mixed (never doubled).
* `CheckedInTime` – however many ticks are lost while the task publishes, or come
  between `sod = 0` and the test, at most `nomral` samples pass between two protection
  checks.
* `OverloadGenuine`, `UnpluggedGenuine` – with a period of two seconds or more, and at
  the first check of a boot, the sample that is checked covers one whole second, so that
  the alarm has its cause within that second, wherever the ticks come, whatever reads
  fail and however the counter wraps. With a period of one or zero it is false of the
  code: a tick between `sod = 0` and the test makes the sample of several seconds due that
  follows a slow report, and the relay opens without an overload.
* `PowerCutGenuine` – once the voltage has been measured, a reported power cut was one,
  or came from a sample that covers no second.
* `ZeroPeriodTraced` – period zero, with which every sample is checked, has one of two
  causes: a stored command that the conversion makes zero, or an NVS call of a check that
  failed since the boot. The 0 that `NVS_READ_INT8` returns for a missing namespace never
  becomes a period: the first check makes the namespace before the first read.
* `PeriodKept` – a commanded period that fits and whose write succeeded stays in flash,
  except when it is written between the task's read of "not set" and its write of the
  default.
* `SustainedOverloadTrips` – with a period of two seconds or more an overload that lasts
  opens the relay as often as it is closed: the samples whose count has wrapped are not
  the ones that are checked for ever.
* `NeverSwitchesOn` – the appointment feature is dead code.

### Disagreements between code and documentation

`mailbox_qos1`: QoS 1 is announced as "at least once" (`MQTT.h:60`), but
`process_task` clears the bit after processing (`MQTT.c:335`), so a command that
came meanwhile is lost. `power_bit3`: bit 3 is documented as power cut
(`MQTT_Publish.c:30`); the first check after each boot precedes the first voltage
measurement, reports a cut and sets `KEY_OPEN`, which closes the relay at the next
boot. `connection_address`: the address command is documented to change address and port
(`MQTT.h:89`) and to enable the new address (`MQTT_Subscribed.c:246`); it sets `IP_FLAG`
and stores no address, and from the next boot on the client has no server and never
connects (`AddressCommandStrands` proves that it cannot). `frames_checksum`: the
documented sum (`MQTT.h:73`) includes `Length` and all data; the code's leaves out
`Length` and the last two data bytes.

Seen while modelling, without a run of its own:

* The comment at the test of the appointment asks for a window of plus or minus two seconds
  (`D_open.c:34`); the test admits no integer, so the relay is never closed
  (`NeverSwitchesOn`).
* `NVS_READ_INT8` returns 0 for every open or read that fails (`NVS.c:31`, `NVS.c:47`).
  For `count` this means that the next report goes over the first stored one, where a
  comment says "the next space" (`MQTT_Publish.c:319`), and the others are forgotten; for
  `NOMRAL` it means period zero.
* A commanded period above 127 becomes another one, zero included
  (`MQTT_Subscribed.c:258`).
* With a period of one a false overload is possible (`Timer.c:68` and `Timer.c:56`); with a
  period below two and slow reports the count of a real one may wrap (`Timer.c:85`).
* `blufi_security_init` publishes the session before it clears it
  (`blufi_security.c:183`, `188`).
* `mktime` stores an appointment in UTC once a report has set the zone, and in local time
  before (`MQTT_Subscribed.c:149`); `NVS_READ_INT64` loses a handle for an absent key
  (`NVS.c:149`).
* The responses to the address and frequency commands raise the checksum by 2 for a type
  that is 1 higher (`MQTT_Subscribed.c:278`); a report before the first voltage sample
  carries multiple 0.
* A re-association trips lwIP's assertion (`app_blufi.c:113`).
* `bssid_set` is never reset (`app_blufi.c:281`); an SSID of 32 bytes puts its terminator
  into the password (`app_blufi.c:287`); a password alone, after a boot, replaces the
  stored SSID by none (`app_blufi.c:294`); the BSSID that is reported to the phone is
  copied without the event task being kept out (`app_blufi.c:258`); the result of
  `esp_wifi_set_config` is not looked at (`app_blufi.c:288`).

### Fairness

`ReportStore`: weak fairness of each task's next step (equal priorities, every loop
blocks); nothing of the client, the link or `comm_task`. `CommandMailbox`: a
dispatched event runs to its end; `process_task` polls for ever. `PowerTask`: the
hardware timer ticks, and `timer_task` is scheduled. `Connection`: the driver, the
client and `comm_task` run. `Provisioning`: the station finishes what it has begun,
the event task and the BTC task run. Nothing is assumed of the world, of the phone, of
commands or of the absence of resets; where a liveness property needs them quiet, the
premise says so (`<>[][~Reboot]_vars`, `LeftAlone`, `Settled`). The premises of
`StaysOnline` and `Recovers` leave the reset of the firmware's own assertion in
(`Restart => Asserts`, `Reset => Asserts`). `power_period` uses the fairness of
`FairSpec` with steps that keep the mains on (`SteadySpec`).

### Deadlock

Checked in every run except `mailbox_qos1`, whose specification has no resets and
finitely many commands, and so really stops waiting for the next event.

## 4. Proofs

All theorems hold for every value of the constants, from the named assumptions
of the modules only.

| Module | Theorem | Statement | Argument |
|---|---|---|---|
| `ReportStoreProofs` | `TypeCorrect`, `CounterBounded`, `StoreHasNoHoles` | `[]TypeOK`, `[]CountBounded`, `[]NoHoles` | inductive `StoreInv` |
| | `StoredSlotsAreStable` | `StoredSlotsStable` | `Fresh`: the slot being filled is above `count`, unless `count` was misread |
| | `PipelineDelivers` | `DeliveryKept` | step simulation under `DeliveryInv` |
| `ConnectionProofs` | `TypeCorrect`, `OnlineIsSubscribed` | `[]TypeOK`, `[]SubscriptionKept` | `TypeOK` is inductive; `SubInv` |
| | `AddressCommandStrands` | `[]Stranded`: in a boot that read `IP_FLAG` the client never connects | `StrandInv` |
| | `ConnectionImplementsLink` | `LinkAsAssumed` | step simulation under `TypeOK` |
| `ProvisioningProofs` | `TypeCorrect` | `[]TypeOK` | `BleInv`, `WifiInv` |
| | `SessionIsOwn`, `BuffersAreOwned`, `DeviceIsDiscoverable` | `[]SessionOwn`, … | `BleInv` |
| | `NeverGivesUp`, `ViewIsRight` | `[]KeepsTrying`, `[]EventsTell` | inductive itself; `TellInv` |
| | `ProvisioningImplementsWifiEvents` | `EventsAsAssumed` | step simulation under `WifiInv` and `AddressAfterJoin` |
| `CommandMailboxProofs` | `TypeCorrect`, `CarriedOutAtMostOnce` | `[]TypeOK`, `[]AtMostOnce` | `TypeInv`, `OnceInv` |
| | `OnlyMeetingsTear`, `LoneCommandKept` | `[]TornOnlyIfDisturbed`, `[]UndisturbedKept` | `AloneInv` |
| `PowerTaskProofs` | `TypeCorrect` | `[]TypeOK` | inductive, numbers and flags apart |
| | `ProtectionInTime`, `CommandedPeriodKept` | `[]CheckedInTime`, `[]PeriodKept` | `CheckInv`, `KeepInv` |
| | `ZeroHasItsCause`, `CutsAreGenuine` | `[]ZeroPeriodTraced`, `[]PowerCutGenuine` | `ZeroInv`, `CutInv` |
| | `OverloadsAreGenuine`, `UnpluggedIsGenuine` | `[]OverloadGenuine`, `[]UnpluggedGenuine` | `SampleInv` |
| `AppointmentProofs` | `TypeCorrect`, `AppointmentNeverFires` | `[]TypeOK`, `NeverSwitchesOn` | no integer is strictly between n-1 and n |
| `FramesProofs` | `TypeCorrect`, `LengthIsRight` | `[]TypeOK`, `[]LengthCorrect` | `FrameInv`: quantities are at most four bytes, frames are concatenations of known widths |
| | `ReportsDecode`, `SwitchResponsesValid` | `[]ReportDecodes`, `[]SwitchResponseValid` | `FrameInv`; the bytes at each position; the folds of `FrameFolds` |
| `FrameFolds` | (lemmas) | `SumRaised`, `BigEndianIs`, … | what the sum and the big-endian value of a sequence of any length are |

Why strengthenings are needed.

* `StoreInv`: `NoHoles` is not inductive, because a task that is about to write
  `count` must know that the slots below are filled, whatever it has read (`Prepared`). As
  long as no read of `count` has failed, the timer task's slot is above `count` and the
  upload task's cursor at or below it (`Fresh`): a stale `count` is never too small for
  the one nor too large for the other.
* `DeliveryInv`: what a write of `count` is about to add to or take from the store has been
  accounted for. The slots between `count` and the timer task's slot, and those between
  the upload task's cursor and `count`, hold nothing, or reports that were handed over,
  skipped or exposed (`Accounted`); only a misread `count` breaks this, only with failing
  calls, and only as long as that work lasts (`MisreadFails`, `MisreadOpen`). A blob holds
  a report that was made (`BlobMade`); a replay, a flag or a link implies a client
  (`HasClient`); between its two writes the timer task's slot holds its report (`Kept`).
* `SubInv`: in step 2 the client is connected and subscribed, or rests with no request
  pending.
* `StrandInv`: the flag is read once per boot, before there is a client; after that nothing
  takes it back, and with it no attempt of the client succeeds.
* `BleInv`: the queue and the BTC task are in one of five situations (booting, quiet, a
  phone entering, one passing through before its arrival was handled, one leaving), and
  each fixes whose session there is and whether the device advertises. The five are
  what the priorities leave of all interleavings; a phone that enters or passes through may
  find the session made and not yet cleared (`Opening`). A buffer belongs to a session
  (`Buffered`).
* `TellInv`: the last waiting event that tells about the association decides what
  `gl_sta_connected` will be, and it is what the station is.
* `OnceInv`: the one copy of a command's head is unwritten, in `res_message` or in the
  frame, and after its run it is only left on the way to the wipe.
* `AloneInv`: a command that is not disturbed is in exactly one place – in the handler
  while `process_task` polls an empty mailbox, in the mailbox and its frame while the
  handler does not touch them, or done – and its tail is with it.
* `CheckInv`: in its wait the task has left no more samples unchecked than the interrupt
  has counted seconds, plus one, and one less if a sample is already due; at the test, no
  more than it has counted; inside a check it starts from zero.
* `KeepInv`: a task about to write the default has seen no commanded period that fits,
  or the race, or the failed write, is marked.
* `ZeroInv`: a zero in flash was commanded. As long as there is no namespace and no call of
  a check has failed, the task is in its first round, with its first sample, which counts
  current and leaves `cf_u` zero; so the check of that round finds no voltage and makes
  the namespace.
* `CutInv`: `SEL` follows the mark, and while it selects the voltage a second with mains
  has been counted.
* `SampleInv` carries both alarms. A task that only computes sees one tick, so `sod` is at
  least one only after it (`ClockInv`); from that tick on each sample is one second's
  (`ContentInv`), so the sample of several seconds or of none, which follows a check,
  comes before `sod` is two and only a period of one or zero looks at it; and the first
  sample after a boot is one second's (`FirstInv`).
* `AddressAfterJoin`: an address that has been asked for, or whose event waits in the
  queue, belongs to a boot in which the station has associated. Without it `GotIp` could
  report an address before any association.
* `FrameInv`: what is decoded from a frame was encoded two steps earlier, so the invariant
  ties the three places together: `upload` holds the encoding of what was last measured
  (`Measures`), its bytes and widths are legal (`Uploads`), and a data report on the wire is
  built from the `upload` of now (`OnTheWire`), because the next sample forgets the frame.
  The pulse counts are bounded by the `int16_t` of the counter (`PulsesAssumption`); from
  this follows that no quantity needs more than four bytes.

The value of a fold (a checksum, a big-endian number) over a sequence of any length needs
an induction. The library's induction theorems take an operator as a parameter, which no
installed prover instantiates; `FrameFolds` states induction as a fact about sets instead
(`SetInduction`: a set of naturals with 0 and closed under successor is `Nat`) and applies
it to the set of the lengths for which the claim holds.

Only model-checked: liveness (`StoreDrains`, `UndisturbedRuns`, `SustainedOverloadTrips`,
`StaysOnline`, `LossNoticed`, `BitSettles`, `Recovers`), because liveness under fairness and
`ENABLED` are out of the prover's reach; and the four violations, which are counterexamples.
Every other property of every passing run is a theorem.

## 5. Assumptions of the models

* One NVS call is atomic, and a write that returns an error has not happened (except that
  it may have made the namespace). `ReportStore`, `PowerTask` and `Connection` let every
  call fail; `Appointment` assumes that calls do not fail except for a missing namespace, a
  missing key or exhausted handles.
* A counter of the metering chip wraps like a two's-complement `int16_t`. That a count of
  the voltage wraps to exactly zero, in a sample of some twenty seconds, is left out.
* From `sod = 0`, or from its wake-up, to its next blocking wait `timer_task` only computes,
  for less than a second; at most one interrupt of the timer falls into that stretch.
* In `Frames` the pulse counts are not negative: a sample whose count has wrapped has no
  meaning that a frame could carry.
* The supply lasts through no particular step: a reset may come anywhere.
* With the relay open the metering chip counts no CF pulses.
* Each enumerated server command is one the protocol allows.
* Of ESP-IDF 4.4: the tasks of the Bluetooth host and the event task run on core 0,
  with priorities 20 (event task, BTU) and 19 (BTC); the link events are queued by the
  BTU task, which calls the negotiation handler itself; events are handled one after
  the other and a full queue makes the poster wait; `esp_wifi_set_config` may be
  refused while the station connects; initialising SNTP twice trips an assertion of
  lwIP (`LWIP_ESP_LWIP_ASSERT` is set in `sdkconfig`).
* `create_timer_tast` reads `KEY_OPEN` right after `comm_task` was created; `comm_task`
  has the higher priority on that core and is inside `nvs_flash_init`, whose lock the
  read waits for, so the read sees an initialised flash.

## 6. Not modelled, and what could come next

* GPIO set-up has no state beyond the relay level, which `PowerTask` and `Appointment`
  model. `AsciiToHex` has no caller, `HexToAscii` fills a buffer that is logged.
* The reports to the phone, the SoftAP parameters and the scan's result list change no
  state that other code reads. A Bluetooth controller that does not start leaves the
  device without provisioning; the code logs it.
* The result of creating a task, a queue or an event group is never looked at by the
  code; running out of heap there is not modelled.
* The bytes of a malformed command: what the commands change is modelled, what a frame
  with a wrong `Length` would make the loops read is not.
* The zone `mktime` uses: nothing observable depends on it, because an appointment never
  fires.
* The heartbeat's period of one minute: no other component depends on it.
* Build output is generated.

A next step would be the premises of the liveness properties as safety theorems: which
action is enabled in which state of a wait, so that only the fairness argument itself is
left to TLC.
