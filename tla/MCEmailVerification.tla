------------------------- MODULE MCEmailVerification ------------------------
(***************************************************************************)
(* Instances of EmailVerification for TLC.                                 *)
(***************************************************************************)
EXTENDS EmailVerification, TLC

Perms == Permutations(Requests) \cup Permutations(Emails) \cup Permutations(Forms)
=============================================================================
