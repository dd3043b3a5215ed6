----------------------------- MODULE MCMkhSleep -----------------------------
(***************************************************************************)
(* MkhSleep on a small instance.                                            *)
(***************************************************************************)
EXTENDS MkhSleep

\* Every port of every device has a binding.
AllBound == Devices \X Ports
=============================================================================
