---------------------------- MODULE MCAppointment ----------------------------
(* Model-checking instance of Appointment: an offset of three seconds, a clock *)
(* of four values, and appointments in the past, in the window and ahead.      *)
EXTENDS Appointment

TwoWishes == {4, 6}
=============================================================================
