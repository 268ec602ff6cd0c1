------------------------------ MODULE MCPowerTask ------------------------------
(* Model-checking instance of PowerTask: an int8_t of six values, a pulse      *)
(* counter that wraps after two or three seconds, an appliance under the limit *)
(* or over it, and commands that fit, zero among them, or wrap to a negative   *)
(* value.                                                                      *)
EXTENDS PowerTask

OnLoads    == {1, 2}
Overload   == {2}
NoValue    == {}
SomeValues == {0, 4}

\* The mains fail only together with the supply, in a reset.
SteadyNext == Next /\ UNCHANGED mains
SteadySpec == Init /\ [][SteadyNext]_vars /\ WF_vars(Pulses) /\ WF_vars(Tick) /\ WF_vars(TimerStep)
=============================================================================
