---------------------------- MODULE MCLuaSweep ----------------------------
(***************************************************************************)
(* LuaSweep on a few objects.                                              *)
(***************************************************************************)
EXTENDS LuaSweep
=============================================================================
