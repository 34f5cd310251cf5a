--------------------------- MODULE MCWifiController ---------------------------
(* WifiController for TLC: two overlapping requests are what a race needs,   *)
(* two networks tell a stale answer from a fresh one.                        *)
EXTENDS WifiController

CONSTANTS r1, r2, s1, s2

MCRequests == {r1, r2}
MCSsids    == {s1, s2}
=============================================================================
