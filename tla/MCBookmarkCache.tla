--------------------------- MODULE MCBookmarkCache ---------------------------
(***************************************************************************)
(* Instances of BookmarkCache for TLC.                                     *)
(***************************************************************************)
EXTENDS BookmarkCache, TLC

Perms == Permutations(Bars)
=============================================================================
