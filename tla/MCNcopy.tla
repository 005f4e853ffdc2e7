------------------------------- MODULE MCNcopy -------------------------------
(* Ncopy on rows of two items, with arguments on both sides of every bound. *)
EXTENDS Ncopy

MCNtimes == -1..4
=============================================================================
