------------------------------- MODULE MCStartup -------------------------------
(* Startup with two hubs and the program's own back-off and attempts. *)
EXTENDS Startup

CONSTANTS hubA, hubB

MCHubs == {hubA, hubB}
=============================================================================
