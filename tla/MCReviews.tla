----------------------------- MODULE MCReviews -----------------------------
(***************************************************************************)
(* Instances of Reviews for TLC.                                           *)
(***************************************************************************)
EXTENDS Reviews, TLC

Perms == Permutations(Requests) \cup Permutations(Users) \cup Permutations(ReviewIds)
            \cup Permutations(PhotoIds)
=============================================================================
