------------------------------ MODULE PowerTask ------------------------------
(***************************************************************************)
(* The measuring and protecting task of the socket (timer_task): a timer   *)
(* interrupt once per second counts seconds and wakes the task, which      *)
(* reads the pulse counters of the metering chip and, every "nomral"       *)
(* seconds, reports and looks for an overload, an unplugged device and a   *)
(* power cut.  Other actors share its data: the interrupt (sod, the event  *)
(* bit), process_task (the relay, the period in flash), the mains, the     *)
(* appliance, and a reset at any moment.                                   *)
(*                                                                         *)
(* Time is the tick of the interrupt.  All pulses of a second come at one  *)
(* moment of it (Pulses), so that a sample may cover no second, one, or    *)
(* several.  Every publish and every NVS call may take any number of       *)
(* seconds.  From sod = 0 to the next wait that really blocks the task     *)
(* only computes: the interrupt may come at any point of that stretch, but *)
(* no second one (spent).                                                  *)
(*                                                                         *)
(* NVS calls may fail: a failed read is 0 (NVS_READ_INT8), a failed write  *)
(* is only logged and may leave the namespace created.                     *)
(***************************************************************************)
EXTENDS Integers

CONSTANTS
    Half,     \* an int8_t is -Half .. Half - 1 (128)
    Default,  \* the period written when none is set (60)
    Wide,     \* an int16_t is -Wide .. Wide - 1 (32768)
    Trip,     \* the overload threshold in pulses (6780)
    Loads,    \* what the appliance may draw, in pulses per second
    Values,   \* the periods a frequency command may carry (uint16_t)
    NvsFaults \* whether NVS calls may fail

ASSUME HalfAssumption    == Half \in Nat /\ Half >= 3
ASSUME DefaultAssumption == Default \in 2 .. (Half - 1)
ASSUME TripAssumption    == Trip \in Nat /\ Trip >= 1
ASSUME WideAssumption    == Wide \in Nat /\ Trip < Wide
ASSUME LoadsAssumption   == Loads \subseteq 0 .. (Wide - 1)
ASSUME ValuesAssumption  == Values \subseteq Nat
ASSUME FaultsAssumption  == NvsFaults \in BOOLEAN

Int8   == (-Half) .. (Half - 1)
Int16  == (-Wide) .. (Wide - 1)
Absent == -(Half + 1)      \* the NVS key is not there
None   == -1               \* no frequency command so far

VARIABLES
    mains, load,           \* the supply and the appliance
    relay,                 \* GPIO_CTRL
    sod, tickBit,          \* seconds counted by the interrupt, its event bit
    pulsed,                \* the pulses of this second have come
    spent,                 \* a tick since the task was last blocked
    cfCount, cf1Count,     \* pulse counters: CF, and whether CF1 has counted
    sel, mark,             \* GPIO_SEL (1: voltage), data_acquisition.mark
    cf, cfU,               \* last CF sample; whether cf_u is nonzero
    nomral, tpc,           \* period in force, control point of the task
    storage, period, keyOpen,   \* NVS: the namespace, NOMRAL, KEY_OPEN
    asked, spoiled,        \* history: last period commanded; its write failed or met the default's
    zeroStored,            \* history: a command that the conversion makes 0 was stored
    nvsFailed,             \* history: since the boot, an NVS call of a check failed
    window, sampled,       \* history: conditions seen since the last sample, and in the last one
    measured, cutSampled,  \* history: cf_u was measured; a cut in its window
    sinceCheck             \* history: samples since the last protection check

envVars    == <<mains, load>>
isrVars    == <<sod, tickBit, pulsed, spent>>
pulseVars  == <<cfCount, cf1Count, sel, mark, cf, cfU>>
flashVars  == <<storage, period, keyOpen>>
askedVars  == <<asked, spoiled, zeroStored>>
sampleVars == <<window, sampled, measured, cutSampled, sinceCheck>>
vars == <<envVars, relay, isrVars, pulseVars, nomral, tpc, flashVars, askedVars, nvsFailed, sampleVars>>

Conditions == {"overload", "idle", "powercut", "second"}   \* "second": any second at all

Least(a, b) == IF a <= b THEN a ELSE b

\* What the appliance draws through the relay.
Flow == IF mains /\ relay THEN load ELSE 0

Init ==
    /\ mains = TRUE
    /\ load \in Loads
    /\ relay = FALSE
    /\ sod = 0
    /\ tickBit = FALSE
    /\ pulsed = FALSE
    /\ spent = FALSE
    /\ cfCount = 0
    /\ cf1Count = FALSE
    /\ sel = 0
    /\ mark = 0
    /\ cf = 0
    /\ cfU = FALSE
    /\ nomral = 1
    /\ tpc = "boot"
    /\ window = {}
    /\ sampled = {}
    /\ measured = FALSE
    /\ cutSampled = FALSE
    /\ sinceCheck = 0
    /\ storage = FALSE
    /\ period = Absent
    /\ keyOpen = 0
    /\ asked = None
    /\ spoiled = FALSE
    /\ zeroStored = FALSE
    /\ nvsFailed = FALSE

-----------------------------------------------------------------------------
(* The interrupt and the pulses of one second                              *)

\* From sod = 0, or from its wake-up, to the next wait that blocks.
Computing == tpc \in {"test", "reset"} \/ (tpc = "wait" /\ tickBit)

\* The counter is an int16_t.
ToInt16(n) == ((n + Wide) % (2 * Wide)) - Wide

\* The pulses of one second reach the counters.
Pulses ==
    /\ ~pulsed
    /\ Computing => ~spent
    /\ tpc # "boot"
    /\ pulsed' = TRUE
    /\ cfCount' = ToInt16(cfCount + Flow)
    /\ cf1Count' = (cf1Count \/ (IF sel = 1 THEN mains ELSE Flow > 0))
    /\ window' = window \union {"second"}
         \union (IF Flow > Trip THEN {"overload"} ELSE {})
         \union (IF Flow <= 1 THEN {"idle"} ELSE {})
         \union (IF ~mains THEN {"powercut"} ELSE {})
    /\ UNCHANGED <<envVars, relay, sod, tickBit, spent, sel, mark, cf, cfU, nomral, tpc, flashVars, askedVars,
                   nvsFailed, sampled, measured, cutSampled, sinceCheck>>

\* timer_group_isr_callback: the interrupt needs no task to be blocked.
Tick ==
    /\ pulsed
    /\ Computing => ~spent
    /\ pulsed' = FALSE
    /\ sod' = Least(sod + 1, Half)
    /\ tickBit' = TRUE
    /\ spent' = (tpc \in {"wait", "test", "reset"})
    /\ UNCHANGED <<envVars, relay, pulseVars, nomral, tpc, flashVars, askedVars, nvsFailed, sampleVars>>

-----------------------------------------------------------------------------
(* create_timer_tast and timer_task                                        *)

\* NVS_WRITE_INT8 fails: nvs_open, which creates the namespace, or what follows.
WriteFails == NvsFaults /\ storage' \in {storage, TRUE}

\* After a power cut the relay is closed again: KEY_OPEN is consumed.
Boot ==
    /\ tpc = "boot"
    /\ \/ keyOpen = 1 /\ relay' = TRUE /\ keyOpen' = 0 /\ UNCHANGED storage
       \/ keyOpen = 1 /\ relay' = TRUE /\ WriteFails /\ UNCHANGED keyOpen
       \/ (keyOpen = 0 \/ NvsFaults) /\ UNCHANGED <<relay, keyOpen, storage>>
    /\ tpc' = "wait"
    /\ UNCHANGED <<envVars, isrVars, pulseVars, nomral, period, askedVars, nvsFailed, sampleVars>>

\* GPIO_SEL after the sample: the other quantity is counted next
NextSelStuck == 0                       \* mutant: always counts current
NextSel == 1 - mark

\* pcnt_counter_clear
CfKept    == cfCount                    \* mutant: the counter is not cleared
CfCleared == 0

\* xEventGroupWaitBits returns the bit, Pulse_count reads the counters
Sample ==
    /\ tpc = "wait"
    /\ tickBit
    /\ tickBit' = FALSE
    /\ cf' = cfCount
    /\ cfCount' = CfCleared
    /\ cfU' = IF mark = 1 THEN cf1Count ELSE cfU
    /\ cf1Count' = FALSE
    /\ sel' = NextSel
    /\ mark' = 1 - mark
    /\ sampled' = window
    /\ window' = {}
    /\ measured' = (measured \/ mark = 1)
    /\ cutSampled' = IF mark = 1 THEN "powercut" \in window \/ "second" \notin window ELSE cutSampled
    /\ tpc' = "test"
    /\ UNCHANGED <<envVars, relay, sod, pulsed, spent, nomral, flashVars, askedVars, nvsFailed, sinceCheck>>

\* if (sod >= nomral)
DueLate == sod > nomral                 \* mutant: one second late
Due == sod >= nomral

\* delay_upload: the check begins, or the task waits for the next second
Test ==
    /\ tpc = "test"
    /\ \/ Due /\ tpc' = "publish" /\ sinceCheck' = 0 /\ spent' = FALSE /\ UNCHANGED sampled
       \/ ~Due /\ tpc' = "wait" /\ sinceCheck' = sinceCheck + 1 /\ sampled' = {} /\ UNCHANGED spent
    /\ UNCHANGED <<envVars, relay, sod, tickBit, pulsed, pulseVars, nomral, flashVars, askedVars, nvsFailed,
                   window, measured, cutSampled>>

\* mqtt_publish_data; without a link it writes "count", which creates the
\* namespace "storage".
Publish ==
    /\ tpc = "publish"
    /\ storage' \in {storage, TRUE}
    /\ tpc' = "over"
    /\ UNCHANGED <<envVars, relay, isrVars, pulseVars, nomral, period, keyOpen, askedVars, nvsFailed, sampleVars>>

\* relay_off
RelayKept   == relay       \* mutant: the overload is reported, the relay stays
RelayOpened == FALSE

\* overcurrent_handle, overload: open the relay, alarm 0x01
CheckOverload ==
    /\ tpc = "over"
    /\ relay' = IF cf > Trip THEN RelayOpened ELSE relay
    /\ tpc' = "unplug"
    /\ UNCHANGED <<envVars, isrVars, pulseVars, nomral, flashVars, askedVars, nvsFailed, sampleVars>>

\* overcurrent_handle, no pulse: alarm 0x02 if cf is 0 or 1
CheckUnplugged ==
    /\ tpc = "unplug"
    /\ tpc' = "cut"
    /\ sampled' = {}
    /\ UNCHANGED <<envVars, relay, isrVars, pulseVars, nomral, flashVars, askedVars, nvsFailed,
                   window, measured, cutSampled, sinceCheck>>

\* if (tmp_v == 0)
NoVoltageMeasured == measured /\ ~cfU   \* mutant: waits for the first measurement
NoVoltage == ~cfU

\* overcurrent_handle, no voltage: KEY_OPEN is set, alarm 0x04
CheckPowerCut ==
    /\ tpc = "cut"
    /\ \/ NoVoltage /\ keyOpen' = 1 /\ storage' = TRUE /\ UNCHANGED nvsFailed
       \/ NoVoltage /\ WriteFails /\ nvsFailed' = TRUE /\ UNCHANGED keyOpen
       \/ ~NoVoltage /\ UNCHANGED <<keyOpen, storage, nvsFailed>>
    /\ tpc' = "read"
    /\ UNCHANGED <<envVars, relay, isrVars, pulseVars, nomral, period, askedVars, sampleVars>>

\* NVS_READ_INT8(NOMRAL): 0 without the namespace, -1 without the key
StoredPeriod == IF ~storage THEN 0 ELSE IF period = Absent THEN -1 ELSE period

\* what the call returns: 0 also when nvs_open or nvs_get_i8 fails
PeriodRead == {StoredPeriod} \union (IF NvsFaults THEN {0} ELSE {})

\* if (nomral < 0)
UnsetOrZero(p) == p <= 0                \* mutant: 0 counts as not set
UnsetNever(p)  == FALSE                 \* mutant: the test is missing
Unset(p) == p < 0

\* nomral = NVS_READ_INT8(NOMRAL); if (nomral < 0) nomral = 60
ReadPeriod ==
    /\ tpc = "read"
    /\ \E p \in PeriodRead :
         /\ IF Unset(p)
              THEN nomral' = Default /\ tpc' = "default"
              ELSE nomral' = p /\ tpc' = "reset"
         /\ nvsFailed' = (nvsFailed \/ p # StoredPeriod)
    /\ UNCHANGED <<envVars, relay, isrVars, pulseVars, flashVars, askedVars, sampleVars>>

\* NVS_WRITE_INT8(NOMRAL, 60)
WriteDefault ==
    /\ tpc = "default"
    /\ \/ period' = Default /\ storage' = TRUE
       \/ WriteFails /\ UNCHANGED period
    /\ tpc' = "reset"
    /\ UNCHANGED <<envVars, relay, isrVars, pulseVars, nomral, keyOpen, askedVars, nvsFailed, sampleVars>>

\* sod = 0
SodKept == sod                          \* mutant: sod is not reset
SodZero == 0

ResetSod ==
    /\ tpc = "reset"
    /\ sod' = SodZero
    /\ tpc' = "wait"
    /\ UNCHANGED <<envVars, relay, tickBit, pulsed, spent, pulseVars, nomral, flashVars, askedVars, nvsFailed, sampleVars>>

TimerStep ==
    \/ Boot \/ Sample \/ Test \/ Publish \/ CheckOverload \/ CheckUnplugged \/ CheckPowerCut
    \/ ReadPeriod \/ WriteDefault \/ ResetSod

-----------------------------------------------------------------------------
(* process_task, the world, resets                                         *)

\* mqtt_cmd_sw: the relay and SWITCH_FLAG
SwitchCommand(on) ==
    /\ relay' = on
    /\ storage' = TRUE \/ WriteFails
    /\ UNCHANGED <<envVars, isrVars, pulseVars, nomral, tpc, period, keyOpen, askedVars, nvsFailed, sampleVars>>

\* The conversion of the argument of NVS_WRITE_INT8
ToInt8(v) == ((v + Half) % (2 * Half)) - Half

\* mqtt_cmd_frequence: NVS_WRITE_INT8(NOMRAL, freq_t.nomral)
FrequencyCommand(v) ==
    /\ asked' = v
    /\ \/ /\ period' = ToInt8(v)
          /\ storage' = TRUE
          /\ spoiled' = (tpc = "default")
          /\ zeroStored' = (zeroStored \/ ToInt8(v) = 0)
       \/ /\ WriteFails
          /\ spoiled' = TRUE
          /\ UNCHANGED <<period, zeroStored>>
    /\ UNCHANGED <<envVars, relay, isrVars, pulseVars, nomral, tpc, keyOpen, nvsFailed, sampleVars>>

\* The appliance changes; the mains fail, and return before the supply is empty.
World ==
    /\ \/ load' \in Loads /\ UNCHANGED mains
       \/ mains' = ~mains /\ UNCHANGED load
    /\ UNCHANGED <<relay, isrVars, pulseVars, nomral, tpc, flashVars, askedVars, nvsFailed, sampleVars>>

\* A reset, or the mains returning after the supply was empty.
Reboot ==
    /\ mains' = TRUE
    /\ relay' = FALSE
    /\ sod' = 0
    /\ tickBit' = FALSE
    /\ pulsed' = FALSE
    /\ spent' = FALSE
    /\ cfCount' = 0
    /\ cf1Count' = FALSE
    /\ sel' = 0
    /\ mark' = 0
    /\ cf' = 0
    /\ cfU' = FALSE
    /\ nomral' = 1
    /\ tpc' = "boot"
    /\ window' = {}
    /\ sampled' = {}
    /\ measured' = FALSE
    /\ cutSampled' = FALSE
    /\ sinceCheck' = 0
    /\ nvsFailed' = FALSE
    /\ UNCHANGED <<load, flashVars, askedVars>>

Next ==
    \/ Pulses \/ Tick \/ TimerStep \/ World \/ Reboot
    \/ \E on \in BOOLEAN : SwitchCommand(on)
    \/ \E v \in Values : FrequencyCommand(v)

Spec == Init /\ [][Next]_vars

\* The hardware timer ticks, and the task has the highest priority in use.
FairSpec == Spec /\ WF_vars(Pulses) /\ WF_vars(Tick) /\ WF_vars(TimerStep)

-----------------------------------------------------------------------------
(* Properties                                                              *)

\* Type invariant; the period in force (nomral, delay_upload) is never negative.
TypeOK ==
    /\ mains \in BOOLEAN /\ load \in Loads /\ relay \in BOOLEAN
    /\ sod \in 0 .. Half /\ tickBit \in BOOLEAN /\ pulsed \in BOOLEAN /\ spent \in BOOLEAN
    /\ cfCount \in Int16 /\ cf \in Int16
    /\ cf1Count \in BOOLEAN /\ cfU \in BOOLEAN
    /\ sel \in {0, 1} /\ mark \in {0, 1}
    /\ nomral \in 0 .. (Half - 1)
    /\ tpc \in {"boot", "wait", "test", "publish", "over", "unplug", "cut", "read", "default", "reset"}
    /\ storage \in BOOLEAN /\ period \in Int8 \union {Absent} /\ keyOpen \in {0, 1}
    /\ asked \in Values \union {None} /\ spoiled \in BOOLEAN
    /\ zeroStored \in BOOLEAN /\ nvsFailed \in BOOLEAN
    /\ window \subseteq Conditions /\ sampled \subseteq Conditions
    /\ measured \in BOOLEAN /\ cutSampled \in BOOLEAN
    /\ sinceCheck \in Nat

\* Protection is never later than the period in force: between two checks of
\* the overload there are at most nomral samples that are not looked at,
\* whatever the ticks that are lost while the task publishes or that come
\* between sod = 0 and the test (delay_upload zeroes sod and leaves the event
\* bit of a missed tick set).
CheckedInTime == sinceCheck <= nomral

\* The sample that is checked covers one whole second if the period in force
\* is two seconds or more, and at the first check after a boot.  (With a period
\* of one, a tick between sod = 0 and the test makes the long sample due that
\* follows a slow report; with zero every sample is.)
WholeSecond == nomral >= 2 \/ ~measured

\* The relay is opened for an overload (overcurrent_handle, 0x01) only if the
\* appliance has drawn more than the limit within one second of the sample: a
\* sample that adds up several seconds is never the one that is checked, except
\* with a period of zero or one.
OverloadGenuine == tpc = "over" /\ cf > Trip /\ WholeSecond => "overload" \in sampled

\* Unplugged (0x02) is reported only after a second in which nothing was drawn:
\* a sample that covers no second (its tick was late), or one whose count has
\* wrapped, is never the one that is checked, except with a period of zero or one.
UnpluggedGenuine == tpc = "unplug" /\ cf \in {0, 1} /\ WholeSecond => "idle" \in sampled

\* Once the voltage has been measured, a power cut (0x04) is only reported after
\* a second without mains, or after a sample that covers no second at all: cf_u
\* always comes from a window in which SEL selected the voltage, whatever reset
\* or missed tick came before.
PowerCutGenuine == tpc = "cut" /\ ~cfU /\ measured => cutSampled

\* The task runs with period zero (delay_upload, nomral) only if a command that
\* the conversion to int8_t makes zero was stored, or an NVS call of a check
\* failed since the boot: the namespace that a new device lacks, which reads as
\* 0 and not as "not set", is always made before the period is read.
ZeroPeriodTraced == nomral = 0 => zeroStored \/ nvsFailed

\* A commanded period that fits and was written (mqtt_cmd_frequence) stays in
\* flash; the only write that can undo it is the default of a task that had
\* found no period just before.
PeriodKept == asked \in 0 .. (Half - 1) /\ ~spoiled => period = asked

\* An overload that lasts is switched off, again and again, as often as it is
\* switched on (overcurrent_handle), if the device stays up and the period is two
\* seconds or more.  (With a shorter one the sample that is checked may be the
\* empty one after a report, or one so long that its count has wrapped.)
SustainedOverloadTrips ==
    /\ <>[][~Reboot]_vars
    /\ <>[](mains /\ load > Trip /\ nomral >= 2)
    => []<>(~relay)

\* "Bit3" of the power alarm means power cut (mqtt_publish_warn): every 0x04
\* follows a cut.
PowerCutMeansCut == tpc = "cut" /\ ~cfU => cutSampled
=============================================================================
