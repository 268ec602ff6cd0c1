--------------------------- MODULE AppointmentProofs ---------------------------
(***************************************************************************)
(* Proofs about Appointment for every offset, clock and command.           *)
(***************************************************************************)
EXTENDS Appointment, TLAPS

\* The window of delay_open holds no integer: the condition of its if can
\* never be true, whatever the clock and the appointment are.
LEMMA WindowEmpty ==
    ASSUME preset_time \in Int, local_time \in Int
    PROVE  ~InWindow
BY DEF InWindow

\* The variables of the model keep their types; the handles lost never exceed
\* what the heap holds.
THEOREM TypeCorrect == Spec => []TypeOK
<1>1. Init => TypeOK
  <2> SUFFICES ASSUME Init PROVE TypeOK
    OBVIOUS
  <2>1. zone \in BOOLEAN /\ relay \in BOOLEAN /\ storage \in BOOLEAN
    BY DEF Init
  <2>2. clock \in 0 .. MaxClock /\ open \in 0 .. MaxOpen
    BY ClockAssumption, OpenAssumption DEF Init
  <2>3. stored \in Int /\ local_time \in Int /\ preset_time \in Int
    BY DEF Init, NotSet
  <2>4. dpc \in {"now", "read", "test"}
    BY DEF Init
  <2> QED
    BY <2>1, <2>2, <2>3, <2>4 DEF TypeOK
<1>2. TypeOK /\ [Next]_vars => TypeOK'
  <2> SUFFICES ASSUME TypeOK, [Next]_vars PROVE TypeOK'
    OBVIOUS
  <2>1. CASE ReadClock
    <3>1. local_time' \in Int
      BY <2>1, OffsetAssumption DEF TypeOK, ReadClock
    <3> QED
      BY <2>1, <3>1 DEF TypeOK, ReadClock, flashVars
  <2>2. CASE ReadAppointment
    <3>1. preset_time' \in Int /\ open' \in 0 .. MaxOpen
      BY <2>2, OpenAssumption DEF TypeOK, ReadAppointment, Opens
    <3> QED
      BY <2>2, <3>1 DEF TypeOK, ReadAppointment
  <2>3. CASE TestAppointment
    <3>1. ~InWindow
      BY WindowEmpty DEF TypeOK
    <3>2. UNCHANGED <<clock, zone, relay, storage, stored, open, local_time, preset_time>> /\ dpc' = "now"
      BY <2>3, <3>1 DEF TestAppointment, flashVars
    <3> QED
      BY <3>2 DEF TypeOK
  <2>4. CASE SetZone
    BY <2>4 DEF TypeOK, SetZone, flashVars, taskVars
  <2>5. CASE RunClock
    BY <2>5 DEF TypeOK, RunClock, flashVars, taskVars
  <2>6. CASE Reboot
    <3>1. UNCHANGED <<storage, stored>> /\ zone' = FALSE /\ relay' = FALSE
      BY <2>6 DEF Reboot
    <3>2. clock' \in 0 .. MaxClock /\ open' \in 0 .. MaxOpen /\ dpc' = "now" /\ local_time' \in Int /\ preset_time' \in Int
      BY <2>6, ClockAssumption, OpenAssumption DEF Reboot
    <3> QED
      BY <3>1, <3>2 DEF TypeOK
  <2>7. ASSUME NEW t \in Wishes, AppointCommand(t) PROVE TypeOK'
    <3>1. stored' \in Int
      BY <2>7, OffsetAssumption, WishesAssumption DEF AppointCommand, Mktime
    <3> QED
      BY <2>7, <3>1 DEF TypeOK, AppointCommand, taskVars
  <2>8. ASSUME NEW on \in BOOLEAN, SwitchCommand(on) PROVE TypeOK'
    <3>1. relay' \in BOOLEAN /\ storage' \in BOOLEAN
      BY <2>8 DEF TypeOK, SwitchCommand
    <3>2. UNCHANGED <<clock, zone, stored, open, dpc, local_time, preset_time>>
      BY <2>8 DEF SwitchCommand, taskVars
    <3> QED
      BY <3>1, <3>2 DEF TypeOK
  <2>9. CASE UNCHANGED vars
    BY <2>9 DEF TypeOK, vars, flashVars, taskVars
  <2> QED
    BY <2>1, <2>2, <2>3, <2>4, <2>5, <2>6, <2>7, <2>8, <2>9 DEF Next
<1> QED
  BY <1>1, <1>2, PTL DEF Spec

\* The appointment is dead code: no test of delay_open ever closes the relay.
THEOREM AppointmentNeverFires == Spec => NeverSwitchesOn
<1>1. TypeOK /\ [Next]_vars => [dpc = "test" /\ dpc' = "now" /\ ~relay => ~relay']_vars
  <2> SUFFICES ASSUME TypeOK, Next, dpc = "test", dpc' = "now", ~relay PROVE ~relay'
    BY DEF vars
  <2>1. CASE TestAppointment
    <3>1. ~InWindow
      BY WindowEmpty DEF TypeOK
    <3> QED
      BY <2>1, <3>1 DEF TestAppointment
  <2>2. CASE Reboot
    BY <2>2 DEF Reboot
  <2>3. ~ReadClock /\ ~ReadAppointment
    BY DEF ReadClock, ReadAppointment
  <2>4. ~SetZone /\ ~RunClock
    BY DEF SetZone, RunClock, taskVars
  <2>5. ASSUME NEW t \in Wishes PROVE ~AppointCommand(t)
    BY DEF AppointCommand, taskVars
  <2>6. ASSUME NEW on \in BOOLEAN PROVE ~SwitchCommand(on)
    BY DEF SwitchCommand, taskVars
  <2> QED
    BY <2>1, <2>2, <2>3, <2>4, <2>5, <2>6 DEF Next
<1> QED
  BY <1>1, TypeCorrect, PTL DEF Spec, NeverSwitchesOn
=============================================================================
