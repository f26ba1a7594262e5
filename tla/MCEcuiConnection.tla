--------------------------- MODULE MCEcuiConnection ---------------------------
(***************************************************************************)
(* The sequence thread sends besides the listener.  A length of 1 fits, 2   *)
(* is one more than two bytes can count, 3 is too long to be sent.          *)
(***************************************************************************)
EXTENDS EcuiConnection

CONSTANTS listener, sequencer, none

MCSenders == {sequencer}
MCSizes   == {1, 2, 3}
=============================================================================
