----------------------------- MODULE MCLiftProxy -----------------------------
(* LiftProxy for TLC.  One direct method at a time is what listen_for_method *)
(* allows; two startup attempts are enough for create() to retry and to give *)
(* up.                                                                       *)
EXTENDS LiftProxy

CONSTANT m1
MCCallers == {m1}
=============================================================================
