---------------------------- MODULE MCModbusHandler ----------------------------
(* ModbusHandler with registers of two bits: numbers from -8 to 7.  The texts *)
(* are on both sides of every limit, in both notations.                       *)
EXTENDS ModbusHandler

MCTexts ==
    [form : {"dec"}, v : {-9, -8, 3, 7}]
    \cup [form : {"hex"}, v : {2, 10, 16}]
    \cup {NoText}
MCLiftValues == {0, 1, 2, 4}
MCStored == {<<0, 1>>, <<2, 2>>}
=============================================================================
