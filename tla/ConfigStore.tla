----------------------------- MODULE ConfigStore -----------------------------
(***************************************************************************)
(* What mkh_storage.h promises: a stored configuration that a save replaces *)
(* in one step or leaves alone, that a boot loads, and that a crash or a    *)
(* failing filesystem never damages.                                        *)
(***************************************************************************)
EXTENDS MkhConfigFile

VARIABLES
    saved,      \* the stored configuration
    table,      \* the live table
    up          \* the firmware has finished booting

storeVars == <<saved, table, up>>

StoreInit ==
    /\ saved \in File
    /\ table = Blank
    /\ ~up

\* The first boot on a fresh flash image stores the compiled-in configuration.
Seed ==
    /\ ~up
    /\ saved \in {NoFile, EmptyFile}
    /\ saved' \in {EmptyFile, DefaultFile}
    /\ UNCHANGED <<table, up>>

\* A boot, or the editor's RESET, loads what is stored, or the compiled-in
\* bindings if the storage cannot be read.
LoadStored ==
    /\ up' = TRUE
    /\ table' \in {Load(saved), WithFallbacks(Blank)}
    /\ UNCHANGED saved

\* The editor changes the live table.
Edit(t) ==
    /\ up
    /\ table' = t
    /\ UNCHANGED <<saved, up>>

\* A save, or the migration of an old file, stores the live table.
Save ==
    /\ up
    /\ saved' = FileOf(table)
    /\ UNCHANGED <<table, up>>

\* Power loss or reset.
PowerLoss ==
    /\ up' = FALSE
    /\ table' = Blank
    /\ UNCHANGED saved

StoreNext == Seed \/ LoadStored \/ (\E t \in Tables : Edit(t)) \/ Save \/ PowerLoss

StoreSpec == StoreInit /\ [][StoreNext]_storeVars
==============================================================================
