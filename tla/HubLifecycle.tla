---------------------------- MODULE HubLifecycle ----------------------------
(***************************************************************************)
(* What mkh_broadcast.h promises about one hub's place in the CONTROL       *)
(* rotation, with the tasks, flags and telegrams left out.  A hub is on,    *)
(* draining (an OFF request was accepted and a fixed number of services is  *)
(* still owed) or off.  It leaves the rotation only by serving the whole    *)
(* countdown, it is never revived half-way, and a parked hub is never on.   *)
(***************************************************************************)
EXTENDS Integers

CONSTANTS
    NumDevices,     \* MKH_MK6_NUM_DEVICES
    NumEligible,    \* MKH_TIME_SLICE_NUM_DEVICES
    OffGrace        \* MKH_OFF_GRACE_SERVICES

VARIABLES
    phase,          \* [Devices -> {"on", "draining", "off"}]
    owed            \* [Devices -> services still owed before the drop]

vars == <<phase, owed>>

Devices == 0 .. NumDevices - 1

TypeOK ==
    /\ phase \in [Devices -> {"on", "draining", "off"}]
    /\ owed \in [Devices -> 0 .. OffGrace]

Init ==
    /\ phase = [d \in Devices |-> IF d < NumEligible THEN "on" ELSE "off"]
    /\ owed = [d \in Devices |-> 0]

\* An OFF request is accepted: the hub stays in the rotation and owes
\* OffGrace services.
RequestOff(d) ==
    /\ phase[d] = "on"
    /\ phase' = [phase EXCEPT ![d] = "draining"]
    /\ owed' = [owed EXCEPT ![d] = OffGrace]

\* One service of a draining hub.
Service(d) ==
    /\ phase[d] = "draining"
    /\ owed[d] > 0
    /\ owed' = [owed EXCEPT ![d] = @ - 1]
    /\ UNCHANGED phase

\* The countdown is served: the hub leaves the rotation.
Drop(d) ==
    /\ phase[d] = "draining"
    /\ owed[d] = 0
    /\ phase' = [phase EXCEPT ![d] = "off"]
    /\ UNCHANGED owed

\* An eligible hub that is off rejoins the rotation.
TurnOn(d) ==
    /\ d < NumEligible
    /\ phase[d] = "off"
    /\ phase' = [phase EXCEPT ![d] = "on"]
    /\ UNCHANGED owed

Next ==
    \E d \in Devices : RequestOff(d) \/ Service(d) \/ Drop(d) \/ TurnOn(d)

Safety == Init /\ [][Next]_vars

\* An accepted OFF request is carried through.
Spec == Safety /\ \A d \in Devices : WF_vars(Service(d)) /\ WF_vars(Drop(d))

=============================================================================
