---------------------------- MODULE MCAnyClient -----------------------------
(* Instance of AnyClient for TLC. *)
EXTENDS AnyClient
CONSTANTS i1, i2, s1, b1, b2, empty, none
const_Inserts == {i1, i2}
const_Selects == {s1}
const_Blocks == {b1, b2}
const_OneBlock == {b1}
=============================================================================
