------------------------------- MODULE MCBan -------------------------------
(***************************************************************************)
(* Instances of BanItem for TLC.                                           *)
(***************************************************************************)
EXTENDS BanItem, TLC

TargetSymmetry == Permutations(Target)
=============================================================================
