----------------------------- MODULE EditSession -----------------------------
(***************************************************************************)
(* What the mapping editor is for: a draft of every port's bindings that    *)
(* changes by one binding at a time, reaches the live table only as a whole *)
(* (Test-ON, SAVE), reaches the flash only by a save, and is dropped only   *)
(* as a whole.                                                              *)
(***************************************************************************)
EXTENDS Integers, SequencesExt

CONSTANTS
    TablePorts,     \* the ports of a table
    Bindings,       \* the bindings told apart
    MaxBindings,    \* the cap on the bindings of a port
    File,           \* what the flash can hold
    Blank,          \* the table without any binding
    Defaults,       \* the table that a file that cannot be opened resolves to
    Load(_),        \* the table a file resolves to
    FileOf(_)       \* the file that is written for a table

VARIABLES
    draft,      \* per port, the bindings the editor shows
    table,      \* the live table
    file        \* /mk1config.txt

sessionVars == <<draft, table, file>>

\* What a boot or a reload may find: the file, or a file it cannot open.
Reloads == {Load(file), Defaults}

SessionInit ==
    /\ file \in File
    /\ table \in Reloads
    /\ draft = table

\* A list with one binding changed, one more at its end, or one less.
Revised(list) ==
    {[list EXCEPT ![i] = b] : i \in DOMAIN list, b \in Bindings}
        \cup {Append(list, b) : b \in IF Len(list) < MaxBindings THEN Bindings ELSE {}}
        \cup {RemoveAt(list, i) : i \in DOMAIN list}

\* At most one binding of one port is different.
OneEdit ==
    \E p \in TablePorts :
        /\ \A q \in TablePorts \ {p} : draft'[q] = draft[q]
        /\ draft'[p] \in {draft[p]} \cup Revised(draft[p])

\* The user edits one binding of one port.
Edit ==
    /\ OneEdit
    /\ UNCHANGED <<table, file>>

\* Test-ON: the draft goes live.
Push ==
    /\ table' = draft
    /\ UNCHANGED <<draft, file>>

\* SAVE, with what the page shows as a last edit: the draft goes live and, unless
\* the save fails, into the file.
Save ==
    /\ OneEdit
    /\ table' = draft'
    /\ file' \in {file, FileOf(draft')}

\* The session ends without a save: the draft is what is live.
Leave ==
    /\ draft' = table
    /\ UNCHANGED <<table, file>>

\* RESET, or a reboot: the file decides.
Reload ==
    /\ table' \in Reloads
    /\ draft' = table'
    /\ UNCHANGED file

\* RESET ALL: everything is unassigned, in the file too unless the save fails.
Wipe ==
    /\ draft' = Blank /\ table' = Blank
    /\ file' \in {file, FileOf(Blank)}

SessionNext == Edit \/ Push \/ Save \/ Leave \/ Reload \/ Wipe

SessionSpec == SessionInit /\ [][SessionNext]_sessionVars
==============================================================================
