------------------------------ MODULE MCShell ------------------------------
(***************************************************************************)
(* Shell on small constants; the constants themselves are in the .cfg.     *)
(***************************************************************************)
EXTENDS Shell
=============================================================================
