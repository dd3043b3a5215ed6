--------------------------- MODULE MCMkhBroadcast ---------------------------
(***************************************************************************)
(* MkhBroadcast on small instances.  Two channel bytes are told apart,      *)
(* neutral and driven; the .cfg files choose the devices, ports and grace.  *)
(***************************************************************************)
EXTENDS MkhBroadcast

\* Every port of every device has a binding.
AllBound == Devices \X Ports

\* Only the first port of the first hub has one: its events come between the
\* turns of both hubs.
FirstBound == {<<0, 0>>}
=============================================================================
