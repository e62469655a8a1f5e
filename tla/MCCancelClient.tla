--------------------------- MODULE MCCancelClient ---------------------------
(* Instance of CancelClient for TLC. *)
EXTENDS CancelClient
CONSTANTS i1, i2, s1, b1, empty, none
const_Inserts == {i1, i2}
const_Selects == {s1}
const_Blocks == {b1}
=============================================================================
