---------------------------- MODULE MCBootstrap -----------------------------
(***************************************************************************)
(* Instances of Bootstrap for TLC.                                         *)
(***************************************************************************)
EXTENDS Bootstrap, TLC

Perms == Permutations(Instances)
=============================================================================
