----------------------------- MODULE LiftBinding -----------------------------
(***************************************************************************)
(* What LiftProxy promises its consumers about the bound pair (FR-002,     *)
(* FR-007 and FR-008 of the re-identification feature): they see no pair,  *)
(* with both serial ports open for probing, until in one step the whole    *)
(* pair of the attached lift appears; it then stays for good, and the      *)
(* other family's port is the only one ever released.                      *)
(***************************************************************************)
CONSTANTS
    NoPair,  \* nothing is bound
    Ports    \* the serial ports of the two families

VARIABLES
    fits,    \* the <<handler, lib>> pair that fits the attached lift
    pair,    \* the pair consumers see
    open     \* the ports that are open

Init == pair = NoPair /\ open = Ports

Bind ==
    /\ pair = NoPair
    /\ pair' = fits
    /\ UNCHANGED <<fits, open>>

Release ==
    /\ pair # NoPair
    /\ open' = {pair[1]}
    /\ UNCHANGED <<fits, pair>>

Next == Bind \/ Release

Spec == Init /\ [][Next]_<<fits, pair, open>>
=============================================================================
