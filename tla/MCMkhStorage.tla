---------------------------- MODULE MCMkhStorage ----------------------------
(***************************************************************************)
(* Instances of MkhStorage for TLC: two ports, one of them with a           *)
(* compiled-in binding, two bindings per port, three lines to the buffer.   *)
(***************************************************************************)
EXTENDS MkhStorage

CONSTANTS stick, stickWithMode, button, bad

MCBindings == {stick, stickWithMode, button}
MCAsWritten == [b \in MCBindings |-> IF b = stickWithMode THEN stick ELSE b]
MCFallback == 1 :> stick

OnPort(p, bindings) == [i \in DOMAIN bindings |-> [port |-> p, binding |-> bindings[i]]]

\* A fresh flash; a file older than the header; one that an earlier firmware inflated
\* beyond the cap; one whose migration exceeds the buffer; a current one with a
\* rejected line and an axis with a mode.
MCFactoryFiles == {
    NoFile,
    [version |-> 0, lines |-> OnPort(1, <<button, stickWithMode>>)],
    [version |-> 2, lines |-> OnPort(1, <<stick, stick, stick>>) \o OnPort(2, <<button>>)],
    [version |-> 2, lines |-> OnPort(1, <<stick, button>>) \o OnPort(2, <<button, stick>>)],
    [version |-> 3, lines |-> OnPort(2, <<bad, stickWithMode>>)]}

\* RESET ALL; a mapping of one port; one whose bindings are in an order of their own;
\* one that exceeds the buffer.
MCEdits == {
    Blank,
    <<<<>>, <<button>>>>,
    <<<<button, stick>>, <<stickWithMode>>>>,
    <<<<stick, button>>, <<button, stick>>>>}

PowerOnly == {"gap"}
AnyButShort == AllFaults \ {"short"}
==============================================================================
