----------------------------- MODULE MCQuickSort -----------------------------
(* An instance of the parallel sort for TLC. *)
EXTENDS QuickSort
=============================================================================
