----------------------------- MODULE MCMkhDrive -----------------------------
(***************************************************************************)
(* Instances of MkhDrive for TLC: two hubs with one port each and one       *)
(* controller; one hub and two controllers.                                 *)
(***************************************************************************)
EXTENDS MkhDrive

Report(stick, a) == [t \in {"LSNS", "A"} |-> IF t = "LSNS" THEN stick ELSE a]
MCRest == Report(0, 0)
MCReports == {MCRest, Report(-512, 0), Report(0, 1)}

Binding(token, mode, max) ==
    [input |-> token, invert |-> FALSE, max_percent |-> max, mode |-> mode]
Stick == Binding("LSNS", "proportional", 50)
A(mode) == Binding("A", mode, 100)

On(first, second) == [p \in Ports |-> IF p[1] = 0 THEN first ELSE second]
MCTables == {
    Unassigned,
    On(<<Stick, A("thl")>>, <<A("latched")>>),
    On(<<A("pulse")>>, <<A("latched")>>),
    On(<<Stick, A("pulse")>>, <<>>),
    On(<<A("latched"), A("thl")>>, <<>>),
    On(<<A("thl"), A("thl")>>, <<>>)}
MCStored == {On(<<Stick, A("thl")>>, <<A("latched")>>)}

\* For two controllers: a button that latches.
SeatTables == {Unassigned, On(<<A("latched")>>, <<>>)}
SeatReports == {Report(0, 1), MCRest}

TwoHubs == {0, 1}
OneHub == {0}
OnePort == {0}
\* Ten degrees to either side of each other, across north.
MCHeadings == {0, 350}
AtRest == {0}
MCAxes == {"LSNS"}
==============================================================================
