---------------------------- MODULE MCDoorCounters ----------------------------
(* DoorCounters for TLC: two doors, of which one can fall behind while the   *)
(* other does not, and three openings each, enough for two lift sessions     *)
(* and a third reading.                                                      *)
EXTENDS DoorCounters

CONSTANTS d1, d2

MCDoors == {d1, d2}
=============================================================================
