------------------------- MODULE MCPositionTracker -------------------------
(* The tracker with one axis, in units that make short motions visible, its *)
(* clock and its events as they are encoded and stored.  A second has four  *)
(* units, a minute three seconds, a byte three bits.                        *)
EXTENDS TimeStamps

MCReadings == {-3, 0, 3}
=============================================================================
