---------------------------- MODULE MCMkhProtocol ----------------------------
(***************************************************************************)
(* MkhProtocol for TLC: both hubs in the rotation, every byte on every      *)
(* channel with the others neutral, all combinations of the extremes, and   *)
(* orders that also have the form of a shorter telegram.  Staged beside a   *)
(* CONNECT: the neutral order of every slot, extremes, and orders that the  *)
(* checksum's polynomial separates from a CONNECT, so that a mixture of the *)
(* two is heard as a third telegram.                                        *)
(***************************************************************************)
EXTENDS MkhProtocol

Neutral == [c \in 1 .. 6 |-> 128]
OneChannel == {[Neutral EXCEPT ![c] = v] : c \in 1 .. 6, v \in Byte}
Extremes == [1 .. 6 -> {0, 128, 255}]
Ambiguous ==
    {[device |-> 0, values |-> <<128, 129, 128, 128, 128, 228>>],
     [device |-> 0, values |-> <<173, 128, 128, 128, 128, 186>>],
     [device |-> 1, values |-> <<128, 128, 128, 128, 1, 14>>]}
Colliding == {<<145, 136, 129, 128, 128, 128>>, <<128, 128, 145, 136, 147, 128>>}

MCStressed == [device : {2}, values : {Neutral}] \cup [device : {0, 1}, values : Colliding \cup {
    Neutral, <<129, 128, 128, 128, 128, 128>>, <<128, 128, 128, 128, 128, 1>>,
    <<255, 0, 255, 0, 255, 0>>, <<0, 255, 0, 255, 0, 255>>, <<255, 255, 255, 255, 255, 255>>}]

MCOrders ==
    [device : {0, 1}, values : OneChannel \cup Extremes] \cup Ambiguous \cup MCStressed
==============================================================================
