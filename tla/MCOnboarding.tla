---------------------------- MODULE MCOnboarding -----------------------------
(***************************************************************************)
(* Instances of Onboarding for TLC.                                        *)
(***************************************************************************)
EXTENDS Onboarding
=============================================================================
