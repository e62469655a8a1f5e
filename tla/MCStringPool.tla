---------------------------- MODULE MCStringPool ----------------------------
(* Instance of StringPool for TLC: a chunk holds four bytes, or one string of *)
(* five.                                                                      *)
EXTENDS StringPool

const_Sizes == 0..5
=============================================================================
