----------------------------- MODULE MCUpvalues -----------------------------
(* Upvalues with few objects and low stacks for TLC.                       *)
EXTENDS Upvalues, TLC

CONSTANTS co, MainLevels, CoLevels

MCMaxLevel == (Main :> MainLevels) @@ (co :> CoLevels)
MCSymmetry == Permutations(Closures)
=============================================================================
