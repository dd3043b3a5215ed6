----------------------------- MODULE MCMkhEditor -----------------------------
(***************************************************************************)
(* MkhEditor for TLC: two ports of one hub and one of a parked hub, two     *)
(* bindings to a port.                                                      *)
(***************************************************************************)
EXTENDS MkhEditor

CONSTANTS x, y, plain, tuned

MCInputs == {x, y}
MCSettings == {plain, tuned}
MCBindings == [input : MCInputs, set : MCSettings]
AsIs == [b \in MCBindings |-> b]
MCHubOf == <<0, 0, 1>>
MCFallback == 1 :> [input |-> x, set |-> plain]

\* The first port has one binding, the second is full.
MCFiles == {FileOf(<<
    <<[input |-> x, set |-> plain]>>,
    <<[input |-> y, set |-> plain], [input |-> x, set |-> tuned]>>,
    <<>>>>)}
==============================================================================
