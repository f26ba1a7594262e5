----------------------------- MODULE MCCanCommands -----------------------------
(* Ranges that a value exceeds with some of the scalings and not with others, *)
(* and a value whose fraction is cut off towards zero.                        *)
EXTENDS CanCommands

MCValues == {-1500000, 40000000}
MCLow  == [int8 |-> -30, int16 |-> -100, int32 |-> -30000]
MCHigh == [int8 |-> 30, int16 |-> 100, int32 |-> 30000]
=============================================================================
