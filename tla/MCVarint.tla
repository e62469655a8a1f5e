------------------------------ MODULE MCVarint ------------------------------
(* Instance of Varint for TLC. *)
EXTENDS Varint, Bitwise

BitOr(x, y) == x | y
=============================================================================
