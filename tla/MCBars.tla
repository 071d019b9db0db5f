------------------------------- MODULE MCBars -------------------------------
(***************************************************************************)
(* Instances of Bars for TLC.                                              *)
(***************************************************************************)
EXTENDS Bars, TLC

Perms == Permutations(Requests) \cup Permutations(BarIds) \cup Permutations(Users)
             \cup Permutations(Days)
=============================================================================
