------------------------------ MODULE MCFrames ------------------------------
(* Model-checking instance of Frames: no pulse; 5 pulses, the first power of   *)
(* three bytes; 1149 and 1150, the two sides of the four-byte boundary of the  *)
(* power; 1943 and 1944, a voltage of 255 and 256; and a full counter.         *)
EXTENDS Frames

SomePulses == {0, 5, 1149, 1150, 1943, 1944, 32767}
SomeTimes  == {<<26, 12, 31, 23, 59, 58>>}
Device     == <<48, 48, 48, 48, 48, 48, 48, 49>>
=============================================================================
