----------------------------- MODULE MCAhlPolling -----------------------------
(* AhlPolling for TLC: a group of two parameters, so that a flag names more *)
(* than what changed, and a group of one.  Only one of the pair is pushed   *)
(* on change; the daily list overlaps with it.                              *)
EXTENDS AhlPolling

CONSTANTS p1, p2, p3, g1, g2

MCParams   == {p1, p2, p3}
MCGroups   == {g1, g2}
MCGroupOf  == [p \in MCParams |-> IF p = p3 THEN g2 ELSE g1]
MCOnChange == {p1, p3}
MCDaily    == {p2, p3}
=============================================================================
