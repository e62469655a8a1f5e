-------------------------- MODULE MCProtocolClient --------------------------
(* Instance of ProtocolClient for TLC. *)
EXTENDS ProtocolClient
CONSTANTS i1, i2, s1, b1, b2, empty, none
const_Inserts == {i1, i2}
const_Selects == {s1}
const_Blocks == {b1, b2}
=============================================================================
