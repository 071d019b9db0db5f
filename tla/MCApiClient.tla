----------------------------- MODULE MCApiClient -----------------------------
(***************************************************************************)
(* Instances of ApiClient for TLC.                                         *)
(***************************************************************************)
EXTENDS ApiClient, TLC

Perms == Permutations(Tabs)
=============================================================================
