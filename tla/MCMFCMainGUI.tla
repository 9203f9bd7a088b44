---------------------------- MODULE MCMFCMainGUI ----------------------------
(***************************************************************************)
(* Instances of MFCMainGUI for TLC; all constants are numbers and sets of  *)
(* names, given in the configurations.                                     *)
(***************************************************************************)
EXTENDS MFCMainGUI
=============================================================================
