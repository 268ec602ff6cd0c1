--------------------------- MODULE MCProvisioning ---------------------------
(* Model-checking instance of Provisioning.  Two phones are one after the    *)
(* other by themselves; the configuration bounds the event queue and the     *)
(* buffers that are forgotten.                                               *)
EXTENDS Provisioning
=============================================================================
