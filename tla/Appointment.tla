----------------------------- MODULE Appointment -----------------------------
(***************************************************************************)
(* Switching on by appointment.  The switch command with state 2 stores a  *)
(* wall-clock time in flash; the task delay_open (core 0) reads the clock  *)
(* and the appointment every 1.5 s and compares them.  Shared with other   *)
(* tasks: the relay, the clock that SNTP sets, and the time zone of the C  *)
(* library, which the first report or warning sets (current_time) and      *)
(* which mktime uses.  Reading the appointment blocks on flash, so that    *)
(* the clock, the relay and the appointment may change between the steps.  *)
(***************************************************************************)
EXTENDS Integers

CONSTANTS
    Offset,     \* seconds between UTC and the local time (28800)
    Wishes,     \* local times, in seconds, that a command may ask for
    MaxClock,   \* bound: the clock stops here
    MaxOpen     \* NVS handles the heap has room for

ASSUME OffsetAssumption == Offset \in Nat
ASSUME WishesAssumption == Wishes \subseteq Nat
ASSUME ClockAssumption  == MaxClock \in Nat
ASSUME OpenAssumption   == MaxOpen \in Nat

NotSet == -1                  \* NVS_READ_INT64 of an absent key

VARIABLES
    clock,                    \* time(NULL): seconds since boot, then UTC
    zone,                     \* tzset has been called with CST-8
    relay,                    \* GPIO_CTRL
    storage, stored, open,    \* NVS: namespace, "time", handles never closed
    dpc, local_time, preset_time    \* delay_open

flashVars == <<storage, stored, open>>
taskVars  == <<dpc, local_time, preset_time>>
vars == <<clock, zone, relay, flashVars, taskVars>>

Init ==
    /\ clock = 0
    /\ zone = FALSE
    /\ relay = FALSE
    /\ storage = FALSE
    /\ stored = NotSet
    /\ open = 0
    /\ dpc = "now"
    /\ local_time = 0
    /\ preset_time = 0

-----------------------------------------------------------------------------
(* delay_open                                                              *)

\* Waits until the clock is not zero; local_time = now + 28800
ReadClock ==
    /\ dpc = "now"
    /\ clock # 0
    /\ local_time' = clock + Offset
    /\ dpc' = "read"
    /\ UNCHANGED <<clock, zone, relay, flashVars, preset_time>>

\* nvs_open("storage", NVS_READONLY) fails without the namespace or memory.
OpensAlways == storage              \* mutant: handles are never exhausted
Opens == storage /\ open < MaxOpen

\* preset_time = NVS_READ_INT64("time"): a handle whose key is not found is
\* not closed.
ReadAppointment ==
    /\ dpc = "read"
    /\ preset_time' = IF Opens THEN stored ELSE 0
    /\ open' = IF Opens /\ stored = NotSet THEN open + 1 ELSE open
    /\ dpc' = "test"
    /\ UNCHANGED <<clock, zone, relay, storage, stored, local_time>>

\* preset_time > local_time, then the window around the appointment
InWindowWide == preset_time > local_time /\ local_time > preset_time - 2
                                    \* mutant: the two seconds of the comment
InWindow ==
    /\ preset_time > local_time
    /\ local_time > preset_time - 1
    /\ local_time < preset_time + 1

TestAppointment ==
    /\ dpc = "test"
    /\ IF InWindow /\ ~relay
         THEN relay' = TRUE /\ preset_time' = 0
         ELSE UNCHANGED <<relay, preset_time>>
    /\ dpc' = "now"
    /\ UNCHANGED <<clock, zone, flashVars, local_time>>

-----------------------------------------------------------------------------
(* The other tasks and the world                                           *)

\* mktime: the fields are local; without a zone they are taken as UTC.
Mktime(t) == IF zone THEN t - Offset ELSE t

\* mqtt_cmd_sw, state 2: NVS_WRITE_INT64("time", mktime(...)).  The write is
\* lost when no handle is left.
AppointCommand(t) ==
    /\ open < MaxOpen
    /\ storage' = TRUE
    /\ stored' = Mktime(t)
    /\ UNCHANGED <<clock, zone, relay, open, taskVars>>

\* mqtt_cmd_sw, states 0 and 1; relay_off of an overload
SwitchCommand(on) ==
    /\ relay' = on
    /\ storage' = (storage \/ open < MaxOpen)
    /\ UNCHANGED <<clock, zone, stored, open, taskVars>>

\* current_time, called for every report and warning
SetZone ==
    /\ zone' = TRUE
    /\ UNCHANGED <<clock, relay, flashVars, taskVars>>

\* The clock runs; SNTP sets it.
RunClock ==
    /\ clock' \in 0 .. MaxClock
    /\ UNCHANGED <<zone, relay, flashVars, taskVars>>

Reboot ==
    /\ clock' = 0
    /\ zone' = FALSE
    /\ relay' = FALSE
    /\ open' = 0
    /\ dpc' = "now"
    /\ local_time' = 0
    /\ preset_time' = 0
    /\ UNCHANGED <<storage, stored>>

Next ==
    \/ ReadClock \/ ReadAppointment \/ TestAppointment
    \/ SetZone \/ RunClock \/ Reboot
    \/ \E t \in Wishes : AppointCommand(t)
    \/ \E on \in BOOLEAN : SwitchCommand(on)

Spec == Init /\ [][Next]_vars

-----------------------------------------------------------------------------
(* Properties                                                              *)

\* Type invariant; handles are only lost up to what the heap holds.
TypeOK ==
    /\ clock \in 0 .. MaxClock
    /\ zone \in BOOLEAN /\ relay \in BOOLEAN /\ storage \in BOOLEAN
    /\ stored \in Int /\ open \in 0 .. MaxOpen
    /\ dpc \in {"now", "read", "test"}
    /\ local_time \in Int /\ preset_time \in Int

\* The appointment is dead code, although the comment at its test asks for a
\* window of two seconds: whatever the clock, the zone and the commands do
\* between its steps, delay_open never closes the relay, because no integer
\* lies strictly between preset_time - 1 and preset_time.
NeverSwitchesOn == [][dpc = "test" /\ dpc' = "now" /\ ~relay => ~relay']_vars

=============================================================================
