----------------------------- MODULE MkhStorage -----------------------------
(***************************************************************************)
(* mkh_storage.cpp: reading /mk1config.txt at boot and on the editor's      *)
(* RESET, seeding it, migrating an old one, and saving the live table       *)
(* through a temporary file, with the power failing between any two         *)
(* filesystem calls and the calls themselves failing.                       *)
(*                                                                         *)
(* One task does all of this.  LittleFS is external: an open for writing    *)
(* creates an empty file, and what was written shows when the file is       *)
(* closed.                                                                  *)
(***************************************************************************)
EXTENDS MkhConfigFile

CONSTANTS
    FactoryFiles,   \* what the flash may hold when the firmware first runs
    Edits,          \* the tables the editor may push
    Faults          \* which of the following can happen

\* A filesystem call that fails, a mount that fails and formats the partition, a
\* write that is cut short without an error, and the power failing between the
\* remove and the rename of a save.  A power failure at any other time is always
\* possible.
AllFaults == {"mount", "format", "open", "read", "remove", "rename", "short", "gap"}

ASSUME FactoryAssumption == FactoryFiles \subseteq File
ASSUME EditsAssumption == Edits \subseteq Tables
ASSUME FaultsAssumption == Faults \subseteq AllFaults

VARIABLES
    config,         \* /mk1config.txt
    tmp,            \* /mk1config.txt.tmp
    mounted,        \* LittleFS.begin succeeded
    table,          \* s_table
    fromFile,       \* s_source_is_file
    skipped,        \* s_skipped_lines > 0
    at,             \* where the task is
    buf,            \* mkh_storage_save_config: the serialized lines
    result,         \* history: how the last save ended ("lost": its rename failed); that
                    \* it returned true is remembered across power failures
    saving          \* history: why the last save was made, what it found and was to store

flash == <<config, tmp>>
live == <<table, fromFile, skipped>>
vars == <<flash, mounted, live, at, buf, result, saving>>

\* A save is under way.
SaveSteps == {"openTmp", "write", "remove", "rename"}

TypeOK ==
    /\ {config, tmp} \subseteq File
    /\ table \in Tables
    /\ {mounted, fromFile, skipped} \subseteq BOOLEAN
    /\ at \in {"off", "boot", "seed", "read", "running"} \cup SaveSteps
    /\ buf \in Seq(Line)
    /\ result \in {"none", "failed", "lost", "done"}
    /\ saving \in [why : {"none", "edit", "migration"}, old : File, new : File, table : Tables]

NotSaved(file) == [why |-> "none", old |-> file, new |-> file, table |-> Blank]

Init ==
    /\ config \in FactoryFiles
    /\ tmp = NoFile
    /\ table = Blank /\ fromFile = FALSE /\ skipped = FALSE
    /\ at = "off" /\ mounted = FALSE
    /\ buf = <<>>
    /\ result = "none"
    /\ saving = NotSaved(config)

Fails(call) == call \in Faults

\* What a write leaves on flash: all of it or, cut short without anyone
\* looking, a prefix whose last line may be mangled.
Truncated(file) ==
    {EmptyFile, [version |-> 0, lines |-> <<>>]} \cup
    {[file EXCEPT !.lines = SubSeq(@, 1, n)] : n \in 0 .. Len(file.lines)} \cup
    UNION {{[file EXCEPT !.lines = Append(SubSeq(@, 1, n - 1), [@[n] EXCEPT !.binding = b])] :
        b \in Bindings \cup {Malformed}} : n \in DOMAIN file.lines}
Written(file) == {file} \cup IF Fails("short") THEN Truncated(file) ELSE {}

-----------------------------------------------------------------------------
\* mkh_storage_save_config

Return(r) == result' = r /\ at' = "running"

\* Seeded bug: the write goes to the config file itself.
WriteTmpInPlace ==
    /\ at = "write"
    /\ \E file \in Written([version |-> Current, lines |-> buf]) : config' = file
    /\ at' = "remove"
    /\ UNCHANGED <<mounted, tmp, live, buf, result, saving>>

\* The call, up to the size check: t is the live table it serializes.
BeginSave(t, why) ==
    /\ buf' = Serialize(t)
    /\ saving' = [why |-> why, old |-> config, new |-> FileOf(t), table |-> t]
    /\ IF Fits(t) THEN at' = "openTmp" /\ result' = "none" ELSE Return("failed")

OpenTmp ==
    /\ at = "openTmp"
    /\ \/ /\ mounted
          /\ tmp' = IF tmp = NoFile THEN EmptyFile ELSE tmp
          /\ at' = "write"
          /\ UNCHANGED result
       \/ /\ ~mounted \/ Fails("open")
          /\ Return("failed")
          /\ UNCHANGED tmp
    /\ UNCHANGED <<mounted, config, live, buf, saving>>

WriteTmp ==
    /\ at = "write"
    /\ \E file \in Written([version |-> Current, lines |-> buf]) : tmp' = file
    /\ at' = "remove"
    /\ UNCHANGED <<mounted, config, live, buf, result, saving>>

\* Seeded bug: the old file is gone when the failed remove is reported.
RemoveConfigLoses ==
    /\ at = "remove"
    /\ \/ /\ config' = NoFile
          /\ at' = "rename"
          /\ UNCHANGED result
       \/ /\ config # NoFile /\ Fails("remove")
          /\ Return("failed")
          /\ config' = NoFile
    /\ UNCHANGED <<mounted, tmp, live, buf, saving>>

RemoveConfig ==
    /\ at = "remove"
    /\ \/ /\ config' = NoFile
          /\ at' = "rename"
          /\ UNCHANGED result
       \/ /\ config # NoFile /\ Fails("remove")
          /\ Return("failed")
          /\ UNCHANGED config
    /\ UNCHANGED <<mounted, tmp, live, buf, saving>>

RenameTmp ==
    /\ at = "rename"
    /\ config' = tmp /\ tmp' = NoFile
    /\ fromFile' = TRUE
    /\ Return("done")
    /\ UNCHANGED <<mounted, table, skipped, buf, saving>>

RenameFails ==
    /\ at = "rename" /\ Fails("rename")
    /\ Return("lost")
    /\ UNCHANGED <<flash, mounted, live, buf, saving>>

-----------------------------------------------------------------------------
\* Reading the file

\* Seeded bug: a file of the version before the current one passes for current.
StaleOffByOne(file) == file.version \in 0 .. Current - 2

\* A file that declares an older version is written back after it is parsed.
Stale(file) == file.version \in 0 .. Current - 1

\* Neither readAndParseConfigFile nor the boot resolves anything from the file.
Unreadable ==
    /\ table' = WithFallbacks(Blank)
    /\ fromFile' = FALSE /\ skipped' = FALSE
    /\ at' = "running"
    /\ UNCHANGED <<buf, result, saving>>

\* Seeded bug: the fallbacks are there before the file is parsed.
ReadConfigPreseeded ==
    /\ config # NoFile
    /\ LET start == [table |-> WithFallbacks(Blank), skipped |-> FALSE]
           parsed == FoldLeft(ParseLine, start, config.lines)
       IN /\ table' = parsed.table /\ skipped' = parsed.skipped /\ fromFile' = TRUE
          /\ IF Stale(config) THEN BeginSave(parsed.table, "migration")
             ELSE at' = "running" /\ UNCHANGED <<buf, result, saving>>
    /\ UNCHANGED <<flash, mounted>>

\* mkh_config_set_defaults and readAndParseConfigFile, the migration's call of
\* the save included.
ReadConfig ==
    \/ /\ ~mounted \/ config = NoFile \/ Fails("read")
       /\ Unreadable
       /\ UNCHANGED <<flash, mounted>>
    \/ /\ mounted /\ config # NoFile
       /\ table' = Load(config) /\ skipped' = Parse(config).skipped /\ fromFile' = TRUE
       /\ IF Stale(config) THEN BeginSave(Load(config), "migration")
          ELSE at' = "running" /\ UNCHANGED <<buf, result, saving>>
       /\ UNCHANGED <<flash, mounted>>

-----------------------------------------------------------------------------
\* mkh_storage_boot_read

Mount ==
    /\ at = "off"
    /\ \/ /\ at' = IF config = NoFile THEN "boot" ELSE "read"
          /\ mounted' = TRUE
          /\ UNCHANGED <<flash, live, buf, result, saving>>
       \/ Fails("mount") /\ Unreadable /\ UNCHANGED <<flash, mounted>>

\* LittleFS.begin(true): a partition that does not mount is formatted.
MountFormats ==
    /\ at = "off" /\ Fails("format")
    /\ config' = NoFile /\ tmp' = NoFile
    /\ saving' = NotSaved(NoFile) /\ result' = "none"
    /\ at' = "boot" /\ mounted' = TRUE
    /\ UNCHANGED <<live, buf>>

\* The file is absent: it is created, and written when it is closed.
SeedOpen ==
    /\ at = "boot"
    /\ \/ config' = EmptyFile /\ at' = "seed" /\ UNCHANGED <<live, buf, result, saving>>
       \/ Fails("open") /\ Unreadable /\ UNCHANGED config
    /\ UNCHANGED <<tmp, mounted>>

SeedWrite ==
    /\ at = "seed"
    /\ config' \in Written(DefaultFile)
    /\ at' = "read"
    /\ UNCHANGED <<mounted, tmp, live, buf, result, saving>>

BootRead == at = "read" /\ ReadConfig

-----------------------------------------------------------------------------
\* The editor, and the power

\* RESET on the settings page: mkh_storage_reload_config.
Reload == at = "running" /\ ReadConfig

\* Test-ON pushes the session's bindings into the live table.
TestOn(t) ==
    /\ at = "running"
    /\ table' = t
    /\ UNCHANGED <<flash, mounted, fromFile, skipped, at, buf, result, saving>>

\* SAVE pushes them and saves; RESET ALL does the same with a blank table.
SaveEdits(t) ==
    /\ at = "running"
    /\ table' = t
    /\ BeginSave(t, "edit")
    /\ UNCHANGED <<flash, mounted, fromFile, skipped>>

\* The power fails: only the flash is left.
PowerLost ==
    /\ at # "off"
    /\ at' = "off" /\ mounted' = FALSE
    /\ table' = Blank /\ fromFile' = FALSE /\ skipped' = FALSE
    /\ buf' = <<>> /\ result' = IF result = "done" THEN "done" ELSE "none"
    /\ UNCHANGED <<flash, saving>>

Crash == at # "rename" /\ PowerLost
CrashInGap == at = "rename" /\ Fails("gap") /\ PowerLost

Next ==
    \/ Mount \/ MountFormats \/ SeedOpen \/ SeedWrite \/ BootRead
    \/ Reload \/ (\E t \in Edits : TestOn(t) \/ SaveEdits(t))
    \/ OpenTmp \/ WriteTmp \/ RemoveConfig \/ RenameTmp \/ RenameFails
    \/ Crash \/ CrashInGap

Spec == Init /\ [][Next]_vars

-----------------------------------------------------------------------------
(***************************************************************************)
(* Properties.                                                             *)
(***************************************************************************)

\* mkh_storage.h promises an atomic replacement.  The stored configuration is what
\* a boot would find; between the remove and the rename it is the temporary file,
\* which only a power failure there tells apart from a replaced one.
Saved == IF at = "rename" THEN tmp ELSE config
Store == INSTANCE ConfigStore WITH
    saved <- Saved, up <- at \notin {"off", "boot", "seed", "read"}

\* Boot, reload, migration and save, with calls failing and power failures, do what
\* a store with an atomic save does.  Three faults destroy the stored configuration
\* and have no counterpart there: a mount that formats, a rename that fails after the
\* remove, and the power failing between the two.  From what they leave, boot, reload
\* and save still do what the store does.
Destroys == MountFormats \/ RenameFails \/ CrashInGap
ImplementsStore == Store!StoreInit /\ [][Destroys \/ Store!StoreNext]_(Store!storeVars)

\* mkh_storage.h:32: a save that returns false left the config file as it was; the
\* failing rename, which finds the file already removed, is the exception.
FailedSaveLeavesConfig == result = "failed" => config = saving.old

\* A save that returned true survives every power failure and reboot, until the next save
\* or a mount that formats: a boot loads every binding that was saved, in its order.  A port
\* saved without any gets its compiled-in binding back, so a reset-all does not survive the
\* reboot (README.md:95).
SaveSurvivesReboot ==
    result = "done" => Load(config) = WithFallbacks(Stored(saving.table))

\* Rewriting a file of an older version keeps the mapping it stands for: the file the
\* migration leaves loads the table the old file loaded.
MigrationKeepsMapping ==
    saving.why = "migration" /\ result = "done" => Load(config) = Stored(Load(saving.old))

\* mkh_storage.cpp:164: a file of an older version is written back once; no boot or
\* reload that read it goes on without doing so, unless the write itself failed.
StaleFileIsMigrated ==
    at = "running" /\ fromFile /\ result \notin {"failed", "lost"} =>
        config.version \in {EmptyFile.version, Current}

\* Whatever fails, and whenever the power does, a save of an existing configuration
\* never destroys both the old one and the new one: one of them is a whole file on
\* flash until the next save.
OneCopyLeft ==
    saving.why # "none" /\ saving.old # NoFile =>
        config = saving.old \/ saving.new \in {config, tmp}

\* mkh_storage.h:30: a reboot or a failed write in the middle of a save finds the
\* whole old or the whole new configuration.
SaveIsAtomic ==
    at = "running" /\ saving.why # "none" /\ saving.old # NoFile =>
        config \in {saving.old, saving.new}
==============================================================================
