-------------------------- MODULE MCThousandPolling --------------------------
(* ThousandPolling for TLC: one package of its own command and two files    *)
(* that share theirs, with two slots each so that a write has a neighbour.  *)
EXTENDS ThousandPolling

CONSTANTS op, f1, f2

MCAlwaysPolled == <<op>>
MCFilePackages == <<f1, f2>>

(* Values are only compared with each other, slot by slot, so it does not   *)
(* matter which of them a slot has at first.                                *)
MCInit == lift = [q \in Packages |-> [s \in Slots |-> 0]] /\ Init
MCFairSpec == MCInit /\ [][Next]_vars /\ Fairness
=============================================================================
