----------------------------- MODULE MCAMSServer -----------------------------
(***************************************************************************)
(* Instances of AMSServer for TLC: which packets the workers get and which *)
(* calls fail is given in the configurations.                              *)
(***************************************************************************)
EXTENDS AMSServer

AllRequests == JobNames

(* Both invariants of guifaults speak of the open dialogs; the closed ones *)
(* stay closed.                                                            *)
DialogsOpen == gui # "gone"
=============================================================================
