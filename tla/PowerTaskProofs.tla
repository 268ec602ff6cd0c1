---------------------------- MODULE PowerTaskProofs ----------------------------
(***************************************************************************)
(* Proofs about PowerTask for every width of the period and of the pulse   *)
(* counter, every load, every command, and with or without failing NVS     *)
(* calls: protection is in time, a commanded period is kept, a period of   *)
(* zero has one of two causes, and the alarms are genuine.                 *)
(***************************************************************************)
EXTENDS PowerTask, TLAPS

\* The conversion to int8_t yields an int8_t, and keeps what fits.
LEMMA Int8Range ==
    ASSUME NEW v \in Nat
    PROVE  ToInt8(v) \in Int8
<1>1. ((v + Half) % (2 * Half)) \in 0 .. (2 * Half - 1)
  BY HalfAssumption
<1> QED
  BY <1>1, HalfAssumption DEF ToInt8, Int8

LEMMA Int8Fits ==
    ASSUME NEW v \in 0 .. (Half - 1)
    PROVE  ToInt8(v) = v
<1>1. (v + Half) % (2 * Half) = v + Half
  BY HalfAssumption
<1> QED
  BY <1>1, HalfAssumption DEF ToInt8

\* The conversion to int16_t likewise.
LEMMA Int16Range ==
    ASSUME NEW n \in Int
    PROVE  ToInt16(n) \in Int16
<1>1. ((n + Wide) % (2 * Wide)) \in 0 .. (2 * Wide - 1)
  BY WideAssumption, TripAssumption
<1> QED
  BY <1>1, WideAssumption DEF ToInt16, Int16

LEMMA Int16Fits ==
    ASSUME NEW n \in 0 .. (Wide - 1)
    PROVE  ToInt16(n) = n
<1>1. (n + Wide) % (2 * Wide) = n + Wide
  BY WideAssumption
<1> QED
  BY <1>1, WideAssumption DEF ToInt16

\* What a second can bring fits.
LEMMA FlowFits == load \in Loads => Flow \in 0 .. (Wide - 1)
BY LoadsAssumption, WideAssumption, TripAssumption DEF Flow

-----------------------------------------------------------------------------
(* Protection is in time                                                   *)

\* The widths that the argument rests on: the period in force is an int8_t
\* that is not negative, the one in flash an int8_t or absent.
Widths ==
    /\ nomral \in 0 .. (Half - 1)
    /\ sod \in 0 .. Half
    /\ period \in Int8 \union {Absent}
    /\ sinceCheck \in Nat

\* While it checks, the task has just taken the sample it checks.
FreshInside == tpc \notin {"wait", "test"} => sinceCheck = 0

\* In its wait it has left at most as many samples unchecked as the period
\* allows, and no more than the interrupt has counted seconds; one less if
\* the next sample is already due.
BoundedInWait ==
    tpc = "wait" =>
      /\ sinceCheck <= nomral
      /\ sinceCheck <= sod + 1
      /\ tickBit => sinceCheck <= sod

\* The sample under test is not counted yet.
BoundedInTest ==
    tpc = "test" =>
      /\ sinceCheck <= nomral
      /\ sinceCheck <= sod
      /\ tickBit => sinceCheck + 1 <= sod

CheckInv == Widths /\ FreshInside /\ BoundedInWait /\ BoundedInTest

LEMMA CheckInit == Init => CheckInv
BY HalfAssumption DEF Init, CheckInv, Widths, FreshInside, BoundedInWait, BoundedInTest

\* The steps of the task.
LEMMA TimerKeeps == CheckInv /\ TimerStep => CheckInv'
<1> SUFFICES ASSUME CheckInv, TimerStep PROVE CheckInv'
  OBVIOUS
<1> USE HalfAssumption DEF CheckInv, Widths, FreshInside, BoundedInWait, BoundedInTest
<1>1. CASE Boot
  BY <1>1 DEF Boot, isrVars, sampleVars
<1>2. CASE Sample
  BY <1>2 DEF Sample, flashVars
<1>10. CASE Test
  <2>1. tpc = "test" /\ UNCHANGED <<nomral, sod, period, tickBit>>
    BY <1>10 DEF Test, flashVars
  <2>2. CASE Due
    BY <1>10, <2>1, <2>2 DEF Test
  <2>3. CASE ~Due
    BY <1>10, <2>1, <2>3 DEF Test, Due
  <2> QED
    BY <2>2, <2>3
<1>3. CASE Publish
  BY <1>3 DEF Publish, isrVars, sampleVars
<1>4. CASE CheckOverload
  BY <1>4 DEF CheckOverload, isrVars, flashVars, sampleVars
<1>5. CASE CheckUnplugged
  BY <1>5 DEF CheckUnplugged, isrVars, flashVars
<1>6. CASE CheckPowerCut
  BY <1>6 DEF CheckPowerCut, isrVars, sampleVars
<1>7. CASE ReadPeriod
  <2>1. tpc' \in {"default", "reset"} /\ UNCHANGED <<sod, period, sinceCheck>> /\ tpc = "read"
    BY <1>7 DEF ReadPeriod, isrVars, flashVars, sampleVars
  <2>2. nomral' \in 0 .. (Half - 1)
    BY <1>7, DefaultAssumption DEF ReadPeriod, PeriodRead, StoredPeriod, Unset, Int8, Absent
  <2> QED
    BY <2>1, <2>2
<1>8. CASE WriteDefault
  BY <1>8, DefaultAssumption DEF WriteDefault, isrVars, sampleVars, Int8
<1>9. CASE ResetSod
  BY <1>9 DEF ResetSod, SodZero, flashVars, sampleVars
<1> QED
  BY <1>1, <1>2, <1>3, <1>4, <1>5, <1>6, <1>7, <1>8, <1>9, <1>10 DEF TimerStep

\* The interrupt, the other tasks, the world and a reset.
LEMMA OthersKeep ==
    ASSUME CheckInv,
           \/ Pulses \/ Tick \/ World \/ Reboot
           \/ \E on \in BOOLEAN : SwitchCommand(on)
           \/ \E v \in Values : FrequencyCommand(v)
    PROVE  CheckInv'
<1> USE HalfAssumption DEF CheckInv, Widths, FreshInside, BoundedInWait, BoundedInTest
<1>1. CASE Pulses
  BY <1>1 DEF Pulses, flashVars
<1>2. CASE Tick
  BY <1>2 DEF Tick, Least, flashVars, sampleVars
<1>3. CASE World
  BY <1>3 DEF World, isrVars, flashVars, sampleVars
<1>4. CASE Reboot
  BY <1>4 DEF Reboot, flashVars
<1>5. ASSUME NEW on \in BOOLEAN, SwitchCommand(on) PROVE CheckInv'
  BY <1>5 DEF SwitchCommand, isrVars, sampleVars
<1>6. ASSUME NEW v \in Values, FrequencyCommand(v) PROVE CheckInv'
  <2>1. period' \in Int8 \union {Absent}
    BY <1>6, ValuesAssumption, Int8Range DEF FrequencyCommand
  <2> QED
    BY <1>6, <2>1 DEF FrequencyCommand, isrVars, sampleVars
<1> QED
  BY <1>1, <1>2, <1>3, <1>4, <1>5, <1>6

LEMMA StutterKeeps == CheckInv /\ UNCHANGED vars => CheckInv'
BY DEF CheckInv, Widths, FreshInside, BoundedInWait, BoundedInTest, vars, isrVars, flashVars, sampleVars

\* Protection is never later than the period in force, whatever ticks are
\* missed during reports or come between sod = 0 and the test, for every period,
\* every command and every failing NVS call.
THEOREM ProtectionInTime == Spec => []CheckedInTime
<1>1. CheckInv /\ [Next]_vars => CheckInv'
  BY TimerKeeps, OthersKeep, StutterKeeps DEF Next
<1>2. CheckInv => CheckedInTime
  BY HalfAssumption DEF CheckInv, Widths, FreshInside, BoundedInWait, BoundedInTest, CheckedInTime
<1> QED
  BY CheckInit, <1>1, <1>2, PTL DEF Spec

-----------------------------------------------------------------------------
(* A commanded period is kept                                              *)

Fits == asked \in 0 .. (Half - 1)

\* A task that is about to write the default found no period: no command
\* that fits came before its read, and one that came after it is marked.
DefaultUnasked == tpc = "default" => spoiled \/ ~Fits

KeepInv == PeriodKept /\ DefaultUnasked

\* Only the task's own steps and the command touch the period.
LEMMA KeepStep == KeepInv /\ Next => KeepInv'
<1> SUFFICES ASSUME KeepInv, Next PROVE KeepInv'
  OBVIOUS
<1> USE DEF KeepInv, PeriodKept, DefaultUnasked, Fits
<1>1. ASSUME UNCHANGED <<asked, spoiled, period>>, tpc' = "default" => tpc = "default" PROVE KeepInv'
  BY <1>1
<1>2. CASE Pulses \/ Tick \/ World
  BY <1>1, <1>2 DEF Pulses, Tick, World, flashVars, askedVars
<1>3. CASE Boot \/ Sample \/ Test \/ Publish \/ ResetSod
  BY <1>1, <1>3 DEF Boot, Sample, Test, Publish, ResetSod, flashVars, askedVars
<1>4. CASE CheckOverload \/ CheckUnplugged \/ CheckPowerCut
  BY <1>1, <1>4 DEF CheckOverload, CheckUnplugged, CheckPowerCut, flashVars, askedVars
<1>5. CASE Reboot
  BY <1>1, <1>5 DEF Reboot, flashVars, askedVars
<1>6. ASSUME NEW on \in BOOLEAN, SwitchCommand(on) PROVE KeepInv'
  BY <1>1, <1>6 DEF SwitchCommand, askedVars
<1>7. CASE ReadPeriod
  <2>1. UNCHANGED <<asked, spoiled, period, storage>>
    BY <1>7 DEF ReadPeriod, flashVars, askedVars
  <2>2. PICK p \in PeriodRead : IF Unset(p) THEN tpc' = "default" ELSE tpc' = "reset"
    BY <1>7 DEF ReadPeriod
  <2>3. CASE ~Unset(p)
    <3>1. tpc' = "reset"
      BY <2>2, <2>3
    <3> QED
      BY <1>1, <2>1, <3>1
  <2>4. CASE Unset(p)
    <3>1. ~(period \in Nat)
      BY <2>4, HalfAssumption DEF PeriodRead, Unset, StoredPeriod, Absent
    <3>2. spoiled \/ ~Fits
      BY <3>1, HalfAssumption
    <3> QED
      BY <2>1, <3>2
  <2> QED
    BY <2>3, <2>4
<1>8. CASE WriteDefault
  BY <1>8 DEF WriteDefault, askedVars
<1>9. ASSUME NEW v \in Values, FrequencyCommand(v) PROVE KeepInv'
  <2>1. asked' = v /\ tpc' = tpc
    BY <1>9 DEF FrequencyCommand
  <2>2. CASE spoiled'
    BY <2>2
  <2>3. CASE ~spoiled'
    <3>1. period' = ToInt8(v) /\ tpc # "default"
      BY <1>9, <2>3 DEF FrequencyCommand
    <3>2. v \in 0 .. (Half - 1) => period' = v
      BY <3>1, Int8Fits
    <3> QED
      BY <2>1, <3>1, <3>2
  <2> QED
    BY <2>2, <2>3
<1> QED
  BY <1>2, <1>3, <1>4, <1>5, <1>6, <1>7, <1>8, <1>9 DEF Next, TimerStep

\* Whatever the interrupt, the resets, the commands and failing NVS calls do, a
\* period that fits and was written stays in flash until the next command, unless
\* its write fell between the task's read and the task's write of the default.
THEOREM CommandedPeriodKept == Spec => []PeriodKept
<1>1. Init => KeepInv
  BY HalfAssumption DEF Init, KeepInv, PeriodKept, DefaultUnasked, None
<1>2. KeepInv /\ UNCHANGED vars => KeepInv'
  BY DEF KeepInv, PeriodKept, DefaultUnasked, Fits, vars, flashVars, askedVars
<1>3. KeepInv /\ [Next]_vars => KeepInv'
  BY <1>2, KeepStep
<1>4. KeepInv => PeriodKept
  BY DEF KeepInv
<1> QED
  BY <1>1, <1>3, <1>4, PTL DEF Spec
-----------------------------------------------------------------------------
(* Types.  Numbers and truth values apart: the provers treat them apart.   *)

Flags ==
    /\ mains \in BOOLEAN /\ relay \in BOOLEAN
    /\ tickBit \in BOOLEAN /\ pulsed \in BOOLEAN /\ spent \in BOOLEAN
    /\ cf1Count \in BOOLEAN /\ cfU \in BOOLEAN
    /\ storage \in BOOLEAN
    /\ spoiled \in BOOLEAN /\ zeroStored \in BOOLEAN /\ nvsFailed \in BOOLEAN
    /\ measured \in BOOLEAN /\ cutSampled \in BOOLEAN

Counts ==
    /\ load \in Loads
    /\ sod \in 0 .. Half
    /\ cfCount \in Int16 /\ cf \in Int16
    /\ sel \in {0, 1} /\ mark \in {0, 1} /\ keyOpen \in {0, 1}
    /\ nomral \in 0 .. (Half - 1)
    /\ period \in Int8 \union {Absent}
    /\ asked \in Values \union {None}
    /\ sinceCheck \in Nat

Sets ==
    /\ tpc \in {"boot", "wait", "test", "publish", "over", "unplug", "cut", "read", "default", "reset"}
    /\ window \subseteq Conditions /\ sampled \subseteq Conditions

LEMMA TypeParts == TypeOK <=> Flags /\ Counts /\ Sets
BY DEF TypeOK, Flags, Counts, Sets

LEMMA FlagsStep == Flags /\ Next => Flags'
<1> SUFFICES ASSUME Flags, Next PROVE Flags'
  OBVIOUS
<1> USE DEF Flags
<1>1. CASE Pulses
  BY <1>1, Zenon DEF Pulses, envVars, flashVars, askedVars
<1>2. CASE Tick
  <2>1. spent' \in BOOLEAN
    BY <1>2 DEF Tick
  <2> QED
    BY <1>2, <2>1, Zenon DEF Tick, envVars, flashVars, askedVars, sampleVars, pulseVars
<1>3. CASE Boot
  <2>1. relay' \in BOOLEAN /\ storage' \in BOOLEAN
    BY <1>3, Zenon DEF Boot, WriteFails
  <2> QED
    BY <1>3, <2>1, Zenon DEF Boot, envVars, isrVars, pulseVars, askedVars, sampleVars
<1>4. CASE Sample
  BY <1>4, Zenon DEF Sample, envVars, flashVars, askedVars
<1>5. CASE Test
  <2>1. spent' \in BOOLEAN
    BY <1>5, Zenon DEF Test
  <2> QED
    BY <1>5, <2>1, Zenon DEF Test, envVars, pulseVars, flashVars, askedVars
<1>6. CASE Publish
  <2>1. storage' \in BOOLEAN
    BY <1>6, Zenon DEF Publish
  <2>2. UNCHANGED <<tickBit, pulsed, spent, cf1Count, cfU, spoiled, zeroStored, measured, cutSampled>>
    BY <1>6 DEF Publish, isrVars, pulseVars, askedVars, sampleVars
  <2> QED
    BY <1>6, <2>1, <2>2, Zenon DEF Publish, envVars
<1>7. CASE CheckOverload
  BY <1>7, Zenon DEF CheckOverload, RelayOpened, envVars, isrVars, pulseVars, flashVars, askedVars, sampleVars
<1>8. CASE CheckUnplugged
  BY <1>8, Zenon DEF CheckUnplugged, envVars, isrVars, pulseVars, flashVars, askedVars
<1>9. CASE CheckPowerCut
  <2>1. storage' \in BOOLEAN /\ nvsFailed' \in BOOLEAN
    BY <1>9, Zenon DEF CheckPowerCut, WriteFails
  <2> QED
    BY <1>9, <2>1, Zenon DEF CheckPowerCut, envVars, isrVars, pulseVars, askedVars, sampleVars
<1>10. CASE ReadPeriod
  <2>1. nvsFailed' \in BOOLEAN
    BY <1>10, Zenon DEF ReadPeriod
  <2> QED
    BY <1>10, <2>1, Zenon DEF ReadPeriod, envVars, isrVars, pulseVars, flashVars, askedVars, sampleVars
<1>11. CASE WriteDefault
  <2>1. storage' \in BOOLEAN
    BY <1>11, Zenon DEF WriteDefault, WriteFails
  <2> QED
    BY <1>11, <2>1, Zenon DEF WriteDefault, envVars, isrVars, pulseVars, askedVars, sampleVars
<1>12. CASE ResetSod
  <2>1. UNCHANGED <<cf1Count, cfU, storage, spoiled, zeroStored, measured, cutSampled>>
    BY <1>12 DEF ResetSod, pulseVars, flashVars, askedVars, sampleVars
  <2> QED
    BY <1>12, <2>1, Zenon DEF ResetSod, envVars
<1>13. CASE World
  <2>1. UNCHANGED <<tickBit, pulsed, spent, cf1Count, cfU, storage, spoiled, zeroStored, measured, cutSampled>>
    BY <1>13 DEF World, isrVars, pulseVars, flashVars, askedVars, sampleVars
  <2>2. mains' \in BOOLEAN /\ relay' \in BOOLEAN /\ nvsFailed' \in BOOLEAN
    BY <1>13, Zenon DEF World
  <2> QED
    BY <2>1, <2>2, Zenon
<1>14. CASE Reboot
  BY <1>14, Zenon DEF Reboot, flashVars, askedVars
<1>15. ASSUME NEW on \in BOOLEAN, SwitchCommand(on) PROVE Flags'
  <2>1. storage' \in BOOLEAN
    BY <1>15, Zenon DEF SwitchCommand, WriteFails
  <2> QED
    BY <1>15, <2>1, Zenon DEF SwitchCommand, envVars, isrVars, pulseVars, askedVars, sampleVars
<1>16. ASSUME NEW v \in Values, FrequencyCommand(v) PROVE Flags'
  <2>1. storage' \in BOOLEAN
    BY <1>16, Zenon DEF FrequencyCommand, WriteFails
  <2>2. spoiled' \in BOOLEAN /\ zeroStored' \in BOOLEAN
    BY <1>16, Zenon DEF FrequencyCommand
  <2> QED
    BY <1>16, <2>1, <2>2, Zenon DEF FrequencyCommand, envVars, isrVars, pulseVars, sampleVars
<1> QED
  BY <1>1, <1>2, <1>3, <1>4, <1>5, <1>6, <1>7, <1>8, <1>9, <1>10, <1>11, <1>12, <1>13, <1>14, <1>15, <1>16
  DEF Next, TimerStep

LEMMA CountsStep == Counts /\ Next => Counts'
<1> SUFFICES ASSUME Counts, Next PROVE Counts'
  OBVIOUS
<1> USE HalfAssumption, TripAssumption, WideAssumption DEF Counts
<1>1. CASE Pulses
  <2>1. Flow \in Int /\ cfCount \in Int
    BY FlowFits DEF Int16
  <2>2. cfCount' \in Int16
    BY <1>1, <2>1, Int16Range DEF Pulses
  <2> QED
    BY <1>1, <2>2 DEF Pulses, envVars, flashVars, askedVars
<1>2. CASE Tick
  BY <1>2 DEF Tick, Least, envVars, flashVars, askedVars, sampleVars, pulseVars
<1>3. CASE Boot
  BY <1>3 DEF Boot, envVars, isrVars, pulseVars, askedVars, sampleVars
<1>4. CASE Sample
  <2>1. cf' = cfCount /\ cfCount' = 0 /\ sel' = 1 - mark /\ mark' = 1 - mark
    BY <1>4 DEF Sample, CfCleared, NextSel
  <2> QED
    BY <1>4, <2>1 DEF Sample, Int16, envVars, flashVars, askedVars
<1>5. CASE Test
  <2>1. sinceCheck' \in Nat
    BY <1>5 DEF Test
  <2> QED
    BY <1>5, <2>1 DEF Test, envVars, pulseVars, flashVars, askedVars
<1>6. CASE Publish
  BY <1>6 DEF Publish, envVars, isrVars, pulseVars, askedVars, sampleVars
<1>7. CASE CheckOverload
  BY <1>7 DEF CheckOverload, envVars, isrVars, pulseVars, flashVars, askedVars, sampleVars
<1>8. CASE CheckUnplugged
  BY <1>8 DEF CheckUnplugged, envVars, isrVars, pulseVars, flashVars, askedVars
<1>9. CASE CheckPowerCut
  BY <1>9 DEF CheckPowerCut, envVars, isrVars, pulseVars, askedVars, sampleVars
<1>10. CASE ReadPeriod
  <2>1. nomral' \in 0 .. (Half - 1)
    BY <1>10, DefaultAssumption DEF ReadPeriod, PeriodRead, StoredPeriod, Unset, Int8, Absent
  <2> QED
    BY <1>10, <2>1 DEF ReadPeriod, envVars, isrVars, pulseVars, flashVars, askedVars, sampleVars
<1>11. CASE WriteDefault
  BY <1>11, DefaultAssumption DEF WriteDefault, Int8, envVars, isrVars, pulseVars, askedVars, sampleVars
<1>12. CASE ResetSod
  BY <1>12 DEF ResetSod, SodZero, envVars, pulseVars, flashVars, askedVars, sampleVars
<1>13. CASE World
  BY <1>13 DEF World, isrVars, pulseVars, flashVars, askedVars, sampleVars
<1>14. CASE Reboot
  BY <1>14 DEF Reboot, Int16, flashVars, askedVars
<1>15. ASSUME NEW on \in BOOLEAN, SwitchCommand(on) PROVE Counts'
  BY <1>15 DEF SwitchCommand, envVars, isrVars, pulseVars, askedVars, sampleVars
<1>16. ASSUME NEW v \in Values, FrequencyCommand(v) PROVE Counts'
  <2>1. ToInt8(v) \in Int8
    BY ValuesAssumption, Int8Range
  <2>2. period' \in Int8 \union {Absent}
    BY <1>16, <2>1 DEF FrequencyCommand
  <2> QED
    BY <1>16, <2>2 DEF FrequencyCommand, envVars, isrVars, pulseVars, sampleVars
<1> QED
  BY <1>1, <1>2, <1>3, <1>4, <1>5, <1>6, <1>7, <1>8, <1>9, <1>10, <1>11, <1>12, <1>13, <1>14, <1>15, <1>16
  DEF Next, TimerStep

LEMMA SetsStep == Sets /\ Next => Sets'
<1> SUFFICES ASSUME Sets, Next PROVE Sets'
  OBVIOUS
<1> USE DEF Sets
<1>1. CASE Pulses
  BY <1>1 DEF Pulses, Conditions
<1>2. CASE Sample \/ Test
  BY <1>2 DEF Sample, Test
<1>3. CASE CheckOverload \/ CheckUnplugged \/ CheckPowerCut
  BY <1>3 DEF CheckOverload, CheckUnplugged, CheckPowerCut, sampleVars
<1>4. CASE Tick \/ World \/ Boot \/ Publish
  BY <1>4 DEF Tick, World, Boot, Publish, sampleVars
<1>5. CASE ReadPeriod \/ WriteDefault \/ ResetSod
  BY <1>5 DEF ReadPeriod, WriteDefault, ResetSod, sampleVars
<1>6. CASE Reboot
  BY <1>6 DEF Reboot
<1>7. ASSUME NEW on \in BOOLEAN, SwitchCommand(on) PROVE Sets'
  BY <1>7 DEF SwitchCommand, sampleVars
<1>8. ASSUME NEW v \in Values, FrequencyCommand(v) PROVE Sets'
  BY <1>8 DEF FrequencyCommand, sampleVars
<1> QED
  BY <1>1, <1>2, <1>3, <1>4, <1>5, <1>6, <1>7, <1>8 DEF Next, TimerStep

LEMMA TypeInit == Init => TypeOK
<1> SUFFICES ASSUME Init PROVE Flags /\ Counts /\ Sets
  BY TypeParts
<1>1. Flags
  BY Zenon DEF Init, Flags
<1>2. Counts
  BY HalfAssumption, TripAssumption, WideAssumption DEF Init, Counts, Int8, Int16
<1>3. Sets
  BY DEF Init, Sets
<1> QED
  BY <1>1, <1>2, <1>3

\* Every variable keeps to its type; in particular the period in force is an
\* int8_t that is not negative, for every command and every content of flash.
THEOREM TypeCorrect == Spec => []TypeOK
<1>1. TypeOK /\ UNCHANGED vars => TypeOK'
  BY DEF TypeOK, vars, envVars, isrVars, pulseVars, flashVars, askedVars, sampleVars
<1>2. TypeOK /\ Next => TypeOK'
  <2> SUFFICES ASSUME TypeOK, Next PROVE Flags' /\ Counts' /\ Sets'
    BY DEF TypeOK, Flags, Counts, Sets
  <2> QED
    BY TypeParts, FlagsStep, CountsStep, SetsStep
<1>3. TypeOK /\ [Next]_vars => TypeOK'
  BY <1>1, <1>2
<1> QED
  BY TypeInit, <1>3, PTL DEF Spec
-----------------------------------------------------------------------------
(* A period of zero                                                        *)

\* A zero in flash has been commanded.
ZeroCommanded == period = 0 => zeroStored

\* The task reads its period only after its first check, which finds no
\* voltage, since the first sample counts current, and so makes the namespace
\* unless that write fails.
StoreMade ==
    ~storage /\ ~nvsFailed =>
      /\ tpc \in {"boot", "wait", "test", "publish", "over", "unplug", "cut"}
      /\ ~cfU
      /\ tpc \in {"boot", "wait"} => mark = 0 /\ nomral = 1 /\ (tickBit => sod >= 1)
      /\ tpc = "test" => sod >= nomral

ZeroInv == ZeroPeriodTraced /\ ZeroCommanded /\ StoreMade

LEMMA ZeroStep == TypeOK /\ ZeroInv /\ Next => ZeroInv'
<1> SUFFICES ASSUME TypeOK, ZeroInv, Next PROVE ZeroInv'
  OBVIOUS
<1>1. sod \in 0 .. Half /\ mark \in {0, 1} /\ nomral \in 0 .. (Half - 1) /\ storage \in BOOLEAN
  BY DEF TypeOK
<1> USE <1>1, HalfAssumption, DefaultAssumption DEF ZeroInv, ZeroPeriodTraced, ZeroCommanded, StoreMade
<1>2. CASE Pulses \/ World
  BY <1>2 DEF Pulses, World, isrVars, pulseVars, flashVars, askedVars
<1>3. CASE Tick
  BY <1>3 DEF Tick, Least, pulseVars, flashVars, askedVars
<1>4. CASE Boot
  <2>1. UNCHANGED <<nomral, period, zeroStored, nvsFailed, tickBit, sod, mark, cfU>>
    BY <1>4 DEF Boot, isrVars, pulseVars, askedVars
  <2>2. tpc = "boot" /\ tpc' = "wait"
    BY <1>4 DEF Boot
  <2>3. storage => storage'
    BY <1>1, <1>4, Zenon DEF Boot, WriteFails
  <2> QED
    BY <2>1, <2>2, <2>3
<1>5. CASE Sample
  BY <1>5 DEF Sample, flashVars, askedVars
<1>6. CASE Test
  BY <1>6 DEF Test, Due, pulseVars, flashVars, askedVars
<1>7. CASE Publish
  BY <1>7 DEF Publish, isrVars, pulseVars, askedVars
<1>8. CASE CheckOverload \/ CheckUnplugged
  BY <1>8 DEF CheckOverload, CheckUnplugged, isrVars, pulseVars, flashVars, askedVars
<1>9. CASE CheckPowerCut
  <2>1. tpc = "cut" /\ UNCHANGED <<nomral, period, zeroStored, cfU>>
    BY <1>9 DEF CheckPowerCut, pulseVars, askedVars
  <2>2. storage' \/ nvsFailed'
    BY <1>9 DEF CheckPowerCut, NoVoltage
  <2>3. nvsFailed => nvsFailed'
    BY <1>9 DEF CheckPowerCut
  <2> QED
    BY <2>1, <2>2, <2>3
<1>10. CASE ReadPeriod
  <2>1. tpc = "read" /\ UNCHANGED <<storage, period, zeroStored>>
    BY <1>10 DEF ReadPeriod, flashVars, askedVars
  <2>2. storage \/ nvsFailed
    BY <2>1
  <2>3. PICK p \in PeriodRead : /\ nomral' = 0 => p = 0
                                /\ nvsFailed' = (nvsFailed \/ p # StoredPeriod)
    BY <1>10 DEF ReadPeriod
  <2>4. nomral' = 0 => zeroStored \/ nvsFailed'
    <3>1. p = StoredPeriod /\ p = 0 => zeroStored \/ nvsFailed
      BY <2>2 DEF StoredPeriod
    <3> QED
      BY <2>3, <3>1, Zenon
  <2>5. storage' \/ nvsFailed'
    BY <2>1, <2>2, <2>3
  <2> QED
    BY <2>1, <2>4, <2>5
<1>11. CASE WriteDefault
  <2>1. tpc = "default" /\ UNCHANGED <<nomral, zeroStored, nvsFailed>>
    BY <1>11 DEF WriteDefault, askedVars
  <2>2. storage \/ nvsFailed
    BY <2>1
  <2>3. period' = Default \/ period' = period
    BY <1>11 DEF WriteDefault
  <2>4. storage => storage'
    BY <1>1, <1>11, Zenon DEF WriteDefault, WriteFails
  <2> QED
    BY <2>1, <2>2, <2>3, <2>4
<1>12. CASE ResetSod
  BY <1>12 DEF ResetSod, pulseVars, flashVars, askedVars
<1>13. CASE Reboot
  BY <1>13 DEF Reboot, flashVars, askedVars
<1>14. ASSUME NEW on \in BOOLEAN, SwitchCommand(on) PROVE ZeroInv'
  <2>1. storage => storage'
    BY <1>1, <1>14, Zenon DEF SwitchCommand, WriteFails
  <2> QED
    BY <1>14, <2>1 DEF SwitchCommand, isrVars, pulseVars, askedVars
<1>15. ASSUME NEW v \in Values, FrequencyCommand(v) PROVE ZeroInv'
  <2>1. storage => storage'
    BY <1>1, <1>15, Zenon DEF FrequencyCommand, WriteFails
  <2>2. UNCHANGED <<nomral, nvsFailed, tpc, tickBit, sod, mark, cfU>>
    BY <1>15 DEF FrequencyCommand, isrVars, pulseVars
  <2>3. (zeroStored => zeroStored') /\ (period' = 0 => zeroStored')
    BY <1>15 DEF FrequencyCommand
  <2> QED
    BY <2>1, <2>2, <2>3
<1> QED
  BY <1>2, <1>3, <1>4, <1>5, <1>6, <1>7, <1>8, <1>9, <1>10, <1>11, <1>12, <1>13, <1>14, <1>15
  DEF Next, TimerStep

\* The period in force is zero only if a command that the conversion makes zero
\* was stored or an NVS call of a check failed: the 0 that NVS_READ_INT8 returns
\* for a namespace that was never made is not read.
THEOREM ZeroHasItsCause == Spec => []ZeroPeriodTraced
<1>1. Init => ZeroInv
  BY HalfAssumption DEF Init, ZeroInv, ZeroPeriodTraced, ZeroCommanded, StoreMade, Absent
<1>2. ZeroInv /\ UNCHANGED vars => ZeroInv'
  BY DEF ZeroInv, ZeroPeriodTraced, ZeroCommanded, StoreMade, vars, isrVars, pulseVars, flashVars, askedVars
<1>3. TypeOK /\ ZeroInv /\ [Next]_vars => ZeroInv'
  BY <1>2, ZeroStep
<1>4. ZeroInv => ZeroPeriodTraced
  BY DEF ZeroInv
<1> QED
  BY <1>1, <1>3, <1>4, TypeCorrect, PTL DEF Spec

-----------------------------------------------------------------------------
(* Genuine power cuts                                                      *)

\* SEL follows the mark; while it selects the voltage, a second with mains
\* has been counted; and once the voltage was measured, a missing one is
\* that of a cut.
CutInv ==
    /\ sel = mark
    /\ sel = 1 /\ "second" \in window /\ "powercut" \notin window => cf1Count
    /\ measured /\ ~cfU => cutSampled

LEMMA CutStep == CutInv /\ Next => CutInv'
<1> SUFFICES ASSUME CutInv, Next PROVE CutInv'
  OBVIOUS
<1> USE DEF CutInv
<1>1. CASE Pulses
  <2>1. UNCHANGED <<sel, mark, measured, cfU, cutSampled>>
    BY <1>1 DEF Pulses
  <2>2. CASE ~mains
    <3>1. "powercut" \in window'
      BY <1>1, <2>2 DEF Pulses
    <3> QED
      BY <2>1, <3>1
  <2>3. CASE sel = 1 /\ mains
    <3>1. cf1Count'
      BY <1>1, <2>3 DEF Pulses
    <3> QED
      BY <2>1, <3>1
  <2>4. CASE sel # 1
    BY <2>1, <2>4
  <2> QED
    BY <2>2, <2>3, <2>4
<1>2. CASE Tick \/ World
  <2>1. UNCHANGED <<sel, mark, window, cf1Count, measured, cfU, cutSampled>>
    BY <1>2 DEF Tick, World, pulseVars, sampleVars
  <2> QED
    BY <2>1
<1>3. CASE Boot \/ Test \/ Publish
  <2>1. UNCHANGED <<sel, mark, window, cf1Count, measured, cfU, cutSampled>>
    BY <1>3 DEF Boot, Test, Publish, pulseVars, sampleVars
  <2> QED
    BY <2>1
<1>4. CASE Sample
  <2>1. sel' = mark' /\ window' = {}
    BY <1>4 DEF Sample, NextSel
  <2>2. CASE mark = 1
    <3>1. cfU' = cf1Count /\ (cutSampled' <=> ("powercut" \in window \/ "second" \notin window))
      BY <1>4, <2>2 DEF Sample
    <3> QED
      BY <2>1, <2>2, <3>1
  <2>3. CASE mark # 1
    BY <1>4, <2>1, <2>3 DEF Sample
  <2> QED
    BY <2>2, <2>3
<1>5. CASE CheckOverload \/ CheckUnplugged \/ CheckPowerCut
  <2>1. UNCHANGED <<sel, mark, window, cf1Count, measured, cfU, cutSampled>>
    BY <1>5 DEF CheckOverload, CheckUnplugged, CheckPowerCut, pulseVars, sampleVars
  <2> QED
    BY <2>1
<1>6. CASE ReadPeriod \/ WriteDefault \/ ResetSod
  <2>1. UNCHANGED <<sel, mark, window, cf1Count, measured, cfU, cutSampled>>
    BY <1>6 DEF ReadPeriod, WriteDefault, ResetSod, pulseVars, sampleVars
  <2> QED
    BY <2>1
<1>7. CASE Reboot
  BY <1>7 DEF Reboot
<1>8. ASSUME NEW on \in BOOLEAN, SwitchCommand(on) PROVE CutInv'
  BY <1>8 DEF SwitchCommand, pulseVars, sampleVars
<1>9. ASSUME NEW v \in Values, FrequencyCommand(v) PROVE CutInv'
  BY <1>9 DEF FrequencyCommand, pulseVars, sampleVars
<1> QED
  BY <1>1, <1>2, <1>3, <1>4, <1>5, <1>6, <1>7, <1>8, <1>9 DEF Next, TimerStep

\* Whatever ticks are missed, cf_u is always that of a window in which the
\* voltage was selected: a reported cut was one, once it has been measured.
THEOREM CutsAreGenuine == Spec => []PowerCutGenuine
<1>1. Init => CutInv
  BY DEF Init, CutInv
<1>2. CutInv /\ UNCHANGED vars => CutInv'
  BY DEF CutInv, vars, pulseVars, sampleVars
<1>3. CutInv /\ [Next]_vars => CutInv'
  BY <1>2, CutStep
<1>4. CutInv => PowerCutGenuine
  BY DEF CutInv, PowerCutGenuine
<1> QED
  BY <1>1, <1>3, <1>4, PTL DEF Spec
-----------------------------------------------------------------------------
(* Genuine alarms.  The sample that is checked with a period of two seconds *)
(* or more, and the first one after a boot, covers one whole second: the    *)
(* long or empty samples that follow a check come before sod is two.        *)

\* The counter holds what one whole second brought, or nothing at all.
Whole ==
    /\ cfCount > Trip => "overload" \in window
    /\ cfCount \in {0, 1} => "idle" \in window
Empty == window = {} /\ cfCount = 0

\* No tick since the last sample: the counter is filled by the pulses, at once.
Filled == IF pulsed THEN Whole ELSE Empty

\* What the alarms are raised from is what happened in the sample.
Genuine ==
    /\ cf > Trip => "overload" \in sampled
    /\ cf \in {0, 1} => "idle" \in sampled

\* A task that only computes sees one tick; so sod is at least one only after it.
ClockInv ==
    /\ tpc = "boot" => sod = 0 /\ ~tickBit /\ ~pulsed
    /\ tpc \notin {"wait", "test", "reset"} => ~spent
    /\ tpc \in {"wait", "test"} /\ sod >= 1 => spent
    /\ Computing /\ spent => ~pulsed
    /\ tpc = "test" /\ tickBit => sod <= 1

\* From the first tick after sod = 0 on, each sample is one second's.
ContentInv ==
    /\ tpc \in {"wait", "test"} /\ sod >= 1 /\ ~tickBit => Filled
    /\ tpc = "wait" /\ tickBit /\ sod >= 2 => Whole
    /\ tpc = "test" /\ sod >= 2 => Genuine
    /\ tpc \in {"publish", "over", "unplug"} /\ nomral >= 2 => Genuine

\* The first sample after a boot, which counts current, is one second's too.
FirstInv ==
    /\ ~measured /\ mark = 0 =>
         /\ tpc \in {"boot", "wait"}
         /\ IF tickBit THEN Whole /\ spent ELSE Filled
    /\ ~measured /\ tpc \in {"test", "publish", "over", "unplug"} => Genuine

SampleInv == ClockInv /\ ContentInv /\ FirstInv

\* The pulses of a second, into an empty counter.
LEMMA PulsesFill == TypeOK /\ Pulses /\ Empty => Whole'
<1> SUFFICES ASSUME TypeOK, Pulses, Empty PROVE Whole'
  OBVIOUS
<1>1. Flow \in 0 .. (Wide - 1)
  BY FlowFits DEF TypeOK
<1>2. cfCount' = ToInt16(Flow)
  <2>1. cfCount + Flow = Flow
    BY <1>1, WideAssumption, TripAssumption DEF Empty
  <2> QED
    BY <2>1 DEF Pulses
<1>3. cfCount' = Flow
  BY <1>1, <1>2, Int16Fits
<1>4. Flow > Trip => "overload" \in window'
  BY DEF Pulses
<1>5. Flow <= 1 => "idle" \in window'
  BY DEF Pulses
<1> QED
  BY <1>1, <1>3, <1>4, <1>5 DEF Whole

\* The steps that leave the sample, the counter and the clock alone.
LEMMA SampleFrame ==
    ASSUME SampleInv,
           UNCHANGED <<sod, tickBit, pulsed, spent, cfCount, cf, nomral, mark, measured, window, sampled>>,
           \/ tpc' = tpc
           \/ tpc = "boot" /\ tpc' = "wait"
           \/ tpc = "publish" /\ tpc' = "over"
           \/ tpc = "over" /\ tpc' = "unplug"
           \/ tpc = "cut" /\ tpc' = "read"
           \/ tpc = "default" /\ tpc' = "reset"
    PROVE  SampleInv'
<1>1. /\ Whole <=> Whole'
      /\ Filled <=> Filled'
      /\ Genuine <=> Genuine'
  BY DEF Whole, Filled, Empty, Genuine
<1>2. ClockInv'
  BY DEF SampleInv, ClockInv, Computing
<1>3. ContentInv'
  BY <1>1 DEF SampleInv, ClockInv, ContentInv
<1>4. FirstInv'
  BY <1>1 DEF SampleInv, FirstInv
<1> QED
  BY <1>2, <1>3, <1>4 DEF SampleInv

LEMMA SamplePulses == TypeOK /\ SampleInv /\ Pulses => SampleInv'
<1> SUFFICES ASSUME TypeOK, SampleInv, Pulses PROVE SampleInv'
  OBVIOUS
<1>1. /\ ~pulsed /\ pulsed' /\ tpc # "boot" /\ ~(Computing /\ spent)
      /\ UNCHANGED <<sod, tickBit, spent, cf, nomral, mark, measured, sampled, tpc>>
  BY DEF Pulses
<1>2. Filled => Filled'
  BY <1>1, PulsesFill DEF Filled
<1>7. sod \in Nat
  BY DEF TypeOK
<1>3. Genuine <=> Genuine'
  BY <1>1 DEF Genuine
<1>4. ClockInv'
  BY <1>1 DEF SampleInv, ClockInv, Computing
<1>5. ContentInv'
  BY <1>1, <1>2, <1>3, <1>7 DEF SampleInv, ClockInv, ContentInv, Computing
<1>6. FirstInv'
  BY <1>1, <1>2, <1>3 DEF SampleInv, FirstInv, Computing
<1> QED
  BY <1>4, <1>5, <1>6 DEF SampleInv

LEMMA SampleTick == TypeOK /\ SampleInv /\ Tick => SampleInv'
<1> SUFFICES ASSUME TypeOK, SampleInv, Tick PROVE SampleInv'
  OBVIOUS
<1>1. /\ pulsed /\ ~pulsed' /\ tickBit' /\ ~(Computing /\ spent)
      /\ spent' = (tpc \in {"wait", "test", "reset"})
      /\ UNCHANGED <<cfCount, cf, nomral, mark, measured, window, sampled, tpc>>
  BY DEF Tick, pulseVars, sampleVars
<1>2. sod \in 0 .. Half /\ sod' = Least(sod + 1, Half)
  BY DEF Tick, TypeOK
<1>3. (sod' >= 2 => sod >= 1) /\ (sod' <= 1 \/ sod >= 1)
  BY <1>2, HalfAssumption DEF Least
<1>4. (Whole <=> Whole') /\ (Genuine <=> Genuine')
  BY <1>1 DEF Whole, Genuine
<1>5. Filled => Whole'
  BY <1>1, <1>4 DEF Filled
<1>6. ClockInv'
  BY <1>1, <1>3 DEF SampleInv, ClockInv, Computing
<1>7. ContentInv'
  BY <1>1, <1>3, <1>4, <1>5 DEF SampleInv, ClockInv, ContentInv, Computing
<1>8. FirstInv'
  BY <1>1, <1>4, <1>5 DEF SampleInv, ClockInv, FirstInv, Computing
<1> QED
  BY <1>6, <1>7, <1>8 DEF SampleInv

LEMMA SampleSample == TypeOK /\ SampleInv /\ Sample => SampleInv'
<1> SUFFICES ASSUME TypeOK, SampleInv, Sample PROVE SampleInv'
  OBVIOUS
<1>1. /\ tpc = "wait" /\ tpc' = "test" /\ tickBit /\ ~tickBit'
      /\ cf' = cfCount /\ sampled' = window /\ cfCount' = 0 /\ window' = {}
      /\ UNCHANGED <<sod, pulsed, spent, nomral>>
  BY DEF Sample, CfCleared
<1>2. measured' <=> (measured \/ mark = 1)
  BY DEF Sample
<1>3. mark \in {0, 1} /\ sod \in Nat
  BY DEF TypeOK
<1>4. Whole => Genuine'
  BY <1>1 DEF Whole, Genuine
<1>5. ~pulsed => Filled'
  BY <1>1 DEF Filled, Empty
<1>6. ClockInv'
  BY <1>1 DEF SampleInv, ClockInv, Computing
<1>7. ContentInv'
  BY <1>1, <1>4, <1>5 DEF SampleInv, ClockInv, ContentInv, Computing
<1>8. FirstInv'
  <2>1. ~measured' => ~measured /\ mark = 0 /\ mark' = 1
    BY <1>2, <1>3 DEF Sample
  <2> QED
    BY <1>1, <1>4, <2>1 DEF SampleInv, FirstInv
<1> QED
  BY <1>6, <1>7, <1>8 DEF SampleInv

LEMMA SampleTest == TypeOK /\ SampleInv /\ Test => SampleInv'
<1> SUFFICES ASSUME TypeOK, SampleInv, Test PROVE SampleInv'
  OBVIOUS
<1>1. /\ tpc = "test"
      /\ UNCHANGED <<sod, tickBit, pulsed, cfCount, cf, nomral, mark, measured, window>>
  BY DEF Test, pulseVars
<1>2. sod \in Nat /\ nomral \in Nat /\ mark \in {0, 1}
  BY DEF TypeOK
<1>3. (Whole <=> Whole') /\ (Filled <=> Filled')
  BY <1>1 DEF Whole, Filled, Empty
<1>4. CASE Due
  <2>1. tpc' = "publish" /\ ~spent' /\ sampled' = sampled
    BY <1>4 DEF Test
  <2>2. sod >= nomral
    BY <1>4 DEF Due
  <2>3. Genuine <=> Genuine'
    BY <1>1, <2>1 DEF Genuine
  <2>4. ClockInv'
    BY <1>1, <2>1 DEF SampleInv, ClockInv, Computing
  <2>5. ContentInv'
    BY <1>1, <1>2, <2>1, <2>2, <2>3 DEF SampleInv, ContentInv
  <2>6. FirstInv'
    BY <1>1, <2>1, <2>3 DEF SampleInv, FirstInv
  <2> QED
    BY <2>4, <2>5, <2>6 DEF SampleInv
<1>5. CASE ~Due
  <2>1. tpc' = "wait" /\ spent' = spent
    BY <1>5 DEF Test
  <2>2. ClockInv'
    BY <1>1, <2>1 DEF SampleInv, ClockInv, Computing
  <2>3. ~(tickBit /\ sod >= 2)
    BY <1>1, <1>2 DEF SampleInv, ClockInv
  <2>4. ContentInv'
    BY <1>1, <1>3, <2>1, <2>3 DEF SampleInv, ContentInv
  <2>5. FirstInv'
    BY <1>1, <2>1 DEF SampleInv, FirstInv
  <2> QED
    BY <2>2, <2>4, <2>5 DEF SampleInv
<1> QED
  BY <1>4, <1>5

LEMMA SampleStep == TypeOK /\ SampleInv /\ Next => SampleInv'
<1> SUFFICES ASSUME TypeOK, SampleInv, Next PROVE SampleInv'
  OBVIOUS
<1>1. CASE Pulses
  BY <1>1, SamplePulses
<1>2. CASE Tick
  BY <1>2, SampleTick
<1>3. CASE Boot
  BY <1>3, SampleFrame DEF Boot, isrVars, pulseVars, sampleVars
<1>4. CASE Sample
  BY <1>4, SampleSample
<1>5. CASE Test
  BY <1>5, SampleTest
<1>6. CASE Publish
  BY <1>6, SampleFrame DEF Publish, isrVars, pulseVars, sampleVars
<1>7. CASE CheckOverload
  BY <1>7, SampleFrame DEF CheckOverload, isrVars, pulseVars, sampleVars
<1>8. CASE CheckUnplugged
  <2>1. /\ tpc = "unplug" /\ tpc' = "cut"
        /\ UNCHANGED <<spent, mark, measured>>
    BY <1>8 DEF CheckUnplugged, isrVars, pulseVars
  <2> QED
    BY <2>1 DEF SampleInv, ClockInv, ContentInv, FirstInv, Computing
<1>9. CASE CheckPowerCut
  BY <1>9, SampleFrame DEF CheckPowerCut, isrVars, pulseVars, sampleVars
<1>10. CASE ReadPeriod
  <2>1. /\ tpc = "read" /\ tpc' \in {"default", "reset"}
        /\ UNCHANGED <<spent, mark, measured>>
    BY <1>10 DEF ReadPeriod, isrVars, pulseVars, sampleVars
  <2> QED
    BY <2>1 DEF SampleInv, ClockInv, ContentInv, FirstInv, Computing
<1>11. CASE WriteDefault
  BY <1>11, SampleFrame DEF WriteDefault, isrVars, pulseVars, sampleVars
<1>12. CASE ResetSod
  <2>1. /\ tpc = "reset" /\ tpc' = "wait" /\ sod' = 0
        /\ UNCHANGED <<tickBit, pulsed, spent, mark, measured>>
    BY <1>12 DEF ResetSod, SodZero, pulseVars, sampleVars
  <2> QED
    BY <2>1 DEF SampleInv, ClockInv, ContentInv, FirstInv, Computing
<1>13. CASE World
  BY <1>13, SampleFrame DEF World, isrVars, pulseVars, sampleVars
<1>14. CASE Reboot
  <2>1. /\ tpc' = "boot" /\ sod' = 0 /\ ~tickBit' /\ ~pulsed' /\ ~spent'
        /\ window' = {} /\ cfCount' = 0
    BY <1>14 DEF Reboot
  <2> QED
    BY <2>1 DEF SampleInv, ClockInv, ContentInv, FirstInv, Computing, Filled, Empty
<1>15. ASSUME NEW on \in BOOLEAN, SwitchCommand(on) PROVE SampleInv'
  BY <1>15, SampleFrame DEF SwitchCommand, isrVars, pulseVars, sampleVars
<1>16. ASSUME NEW v \in Values, FrequencyCommand(v) PROVE SampleInv'
  BY <1>16, SampleFrame DEF FrequencyCommand, isrVars, pulseVars, sampleVars
<1> QED
  BY <1>1, <1>2, <1>3, <1>4, <1>5, <1>6, <1>7, <1>8, <1>9, <1>10, <1>11, <1>12, <1>13, <1>14, <1>15, <1>16
  DEF Next, TimerStep

LEMMA SampleAlways == Spec => []SampleInv
<1>1. Init => SampleInv
  BY DEF Init, SampleInv, ClockInv, ContentInv, FirstInv, Computing, Filled, Empty
<1>2. SampleInv /\ UNCHANGED vars => SampleInv'
  BY SampleFrame DEF vars, isrVars, pulseVars, sampleVars
<1>3. TypeOK /\ SampleInv /\ [Next]_vars => SampleInv'
  BY <1>2, SampleStep
<1> QED
  BY <1>1, <1>3, TypeCorrect, PTL DEF Spec

\* The relay is only opened for an overload that there was within one second,
\* for every load, every width of the counter, every delay of a report and every
\* tick between sod = 0 and the test, with periods of two seconds or more and at
\* the first check after a boot.
THEOREM OverloadsAreGenuine == Spec => []OverloadGenuine
<1>1. SampleInv => OverloadGenuine
  BY DEF SampleInv, ContentInv, FirstInv, Genuine, OverloadGenuine, WholeSecond
<1> QED
  BY <1>1, SampleAlways, PTL

\* "Unplugged" is only reported after a second in which nothing was drawn,
\* under the same conditions.
THEOREM UnpluggedIsGenuine == Spec => []UnpluggedGenuine
<1>1. SampleInv => UnpluggedGenuine
  BY DEF SampleInv, ContentInv, FirstInv, Genuine, UnpluggedGenuine, WholeSecond
<1> QED
  BY <1>1, SampleAlways, PTL
=============================================================================
