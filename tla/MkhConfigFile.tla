---------------------------- MODULE MkhConfigFile ----------------------------
(***************************************************************************)
(* mkh_config.c: the table of port bindings, and what writing it to a file  *)
(* and parsing that file back does to it.  A binding (input token, invert,  *)
(* max, mode) is one value; a file is the version its first line declares   *)
(* and its binding lines.  The mode of an axis is not written, so an axis   *)
(* with an explicit mode comes back with the default one: AsWritten.        *)
(***************************************************************************)
EXTENDS Integers, SequencesExt

CONSTANTS
    NumPorts,       \* the <<device, port>> slots of s_table, in file order
    Bindings,       \* the bindings told apart
    AsWritten,      \* what the line that is written for a binding parses to
    Malformed,      \* a line the parser rejects
    MaxBindings,    \* MKH_MAX_BINDINGS_PER_PORT, 8 in the code
    Fallback,       \* compiled-in bindings: a function on the ports that have one
    Current,        \* CONFIG_SCHEMA_VERSION_CURRENT, 3 in the code
    BufferLines     \* binding lines that fit the 2048 byte buffer of a save

ASSUME TableAssumption ==
    /\ NumPorts \in Nat \ {0} /\ MaxBindings \in Nat \ {0}
    /\ DOMAIN Fallback \subseteq 1 .. NumPorts
    /\ \A p \in DOMAIN Fallback : Fallback[p] \in Bindings
    /\ Malformed \notin Bindings
    /\ AsWritten \in [Bindings -> Bindings]
    /\ \A b \in Bindings : AsWritten[AsWritten[b]] = AsWritten[b]
ASSUME FileAssumption == Current \in Nat \ {0} /\ BufferLines \in Nat

TablePorts == 1 .. NumPorts
Lists == BoundedSeq(Bindings, MaxBindings)
Tables == [TablePorts -> Lists]
Line == [port : TablePorts, binding : Bindings \cup {Malformed}]

\* What LittleFS.open finds: nothing, or a file.  Version 0 is a first line
\* without the header, version -1 an empty file, version -2 no file.
File == {f \in [version : -2 .. Current, lines : Seq(Line)] : f.version < 0 => f.lines = <<>>}
NoFile == [version |-> -2, lines |-> <<>>]
EmptyFile == [version |-> -1, lines |-> <<>>]

\* mkh_config_set_defaults.
Blank == [p \in TablePorts |-> <<>>]

\* Seeded bug: the cap is checked one too late.
ParseLineOverfills(parsed, line) ==
    IF line.binding = Malformed \/ Len(parsed.table[line.port]) > MaxBindings
      THEN [parsed EXCEPT !.skipped = TRUE]
      ELSE [parsed EXCEPT !.table[line.port] = Append(@, line.binding)]

\* mkh_config_parse_line: a valid line is appended to its port, up to the cap.
ParseLine(parsed, line) ==
    IF line.binding = Malformed \/ Len(parsed.table[line.port]) >= MaxBindings
      THEN [parsed EXCEPT !.skipped = TRUE]
      ELSE [parsed EXCEPT !.table[line.port] = Append(@, line.binding)]

\* mkh_config_set_defaults, then every line of the file.
Parse(file) == FoldLeft(ParseLine, [table |-> Blank, skipped |-> FALSE], file.lines)

\* mkh_config_apply_compiled_in_fallbacks.
WithFallbacks(table) ==
    [p \in TablePorts |->
        IF table[p] = <<>> /\ p \in DOMAIN Fallback THEN <<Fallback[p]>> ELSE table[p]]

\* The table a boot or a reload resolves from a file.
Load(file) == WithFallbacks(Parse(file).table)

\* Seeded bug: only the first binding of a port is written.
SerializeFirstOnly(table) ==
    FlattenSeq([p \in TablePorts |->
        IF table[p] = <<>> THEN <<>> ELSE <<[port |-> p, binding |-> AsWritten[Head(table[p])]]>>])

\* mkh_config_serialize: one line per binding, ports without any left out.
Serialize(table) ==
    FlattenSeq([p \in TablePorts |->
        [i \in DOMAIN table[p] |-> [port |-> p, binding |-> AsWritten[table[p][i]]]]])

Fits(table) == Len(Serialize(table)) <= BufferLines

\* The file a save writes.
FileOf(table) == [version |-> Current, lines |-> Serialize(table)]

\* The table that a save of this one stores.
Stored(table) == [p \in TablePorts |-> [i \in DOMAIN table[p] |-> AsWritten[table[p][i]]]]

\* DEFAULT_CONFIG_TEXT: the compiled-in bindings under the current header.
DefaultFile == FileOf(WithFallbacks(Blank))
==============================================================================
