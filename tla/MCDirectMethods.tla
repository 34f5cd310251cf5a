---------------------------- MODULE MCDirectMethods ----------------------------
(* DirectMethods for TLC: two downloads of a blob that changes between a     *)
(* version that fits the caps and one that does not, and one request of each *)
(* other kind.                                                               *)
EXTENDS DirectMethods, TLC

CONSTANTS d1, d2, w1, q1, small, large

MCDownloads == {d1, d2}
MCWrites    == {w1}
MCTwinWrites == {w1}
MCOthers    == {q1}
MCVersions  == {small, large}
MCSize      == (small :> 1) @@ (large :> 2)
MCCaps      == {1}
=============================================================================
