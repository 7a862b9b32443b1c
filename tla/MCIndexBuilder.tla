---------------------------- MODULE MCIndexBuilder ----------------------------
(* An instance of the index builder for TLC: one word is negative, and so     *)
(* before the zeros in the order of the titles.                               *)
EXTENDS IndexBuilder

MCWord == {-1, 1, 2}
=============================================================================
