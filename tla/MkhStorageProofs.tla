-------------------------- MODULE MkhStorageProofs --------------------------
(***************************************************************************)
(* Proofs about MkhStorage, for every number of ports, set of bindings, cap,*)
(* buffer, set of files the flash may hold at first and of tables the       *)
(* editor may push: what boot, reload, migration and save leave on flash.   *)
(*                                                                         *)
(* SInv holds whatever fails.  WInv holds when no write is cut short: a     *)
(* short write goes unnoticed, and what it leaves is renamed over the file. *)
(***************************************************************************)
EXTENDS MkhStorage, MkhConfigFileProofs

\* The task's place says what the flash holds there.
Placed ==
    /\ result \in {"failed", "lost"} => at = "running"
    /\ at \in SaveSteps => result = "none"
    /\ at = "boot" => config = NoFile
    /\ at = "seed" => config = EmptyFile

\* A save under way holds what it was called with, and has not touched the file until it
\* removes it.
Underway ==
    /\ at \in SaveSteps => saving.why # "none" /\ buf = saving.new.lines /\ table = saving.table
    /\ at \in {"openTmp", "write", "remove"} => config = saving.old

\* What is remembered of the last save.
Recorded ==
    /\ saving.why # "none" => saving.new = FileOf(saving.table)
    /\ saving.why = "migration" => saving.table = Load(saving.old)
    /\ result # "none" => saving.why # "none"

SInv == TypeOK /\ Placed /\ Underway /\ Recorded /\ FailedSaveLeavesConfig

\* What a save leaves on flash when no write is cut short.
Whole ==
    /\ at \in {"remove", "rename"} => tmp = saving.new
    /\ result = "done" => config = saving.new
    /\ at \in {"boot", "seed"} /\ saving.why # "none" /\ saving.old # NoFile => tmp = saving.new

WInv == Whole /\ OneCopyLeft /\ StaleFileIsMigrated

-----------------------------------------------------------------------------
\* Files

LEMMA FileFacts ==
    /\ NoFile \in File /\ EmptyFile \in File /\ DefaultFile \in File
    /\ NoFile # EmptyFile
    /\ Blank \in Tables /\ WithFallbacks(Blank) \in Tables
    /\ \A f \in File : /\ Load(f) \in Tables /\ Parse(f).skipped \in BOOLEAN
                       /\ f.lines \in Seq(Line) /\ f.version \in -2 .. Current
                       /\ f.version = -2 <=> f = NoFile
    /\ DefaultFile.version = Current
    /\ \A t \in Tables : /\ FileOf(t) \in File /\ FileOf(t) \notin {NoFile, EmptyFile}
                         /\ FileOf(t).version = Current /\ FileOf(t).lines = Serialize(t)
                         /\ FileOf(t) = [version |-> Current, lines |-> Serialize(t)]
                         /\ Serialize(t) \in Seq(Line)
<1>1. Current \in Nat /\ Current # 0
  BY FileAssumption
<1>2. <<>> \in Seq(Line)
  BY EmptySeq
<1>3. NoFile \in File /\ EmptyFile \in File /\ NoFile # EmptyFile
  BY <1>1, <1>2 DEF NoFile, EmptyFile, File
<1>4. Blank \in Tables /\ WithFallbacks(Blank) \in Tables
  BY BlankType, WithFallbacksType
<1>5. ASSUME NEW f \in File
      PROVE  /\ Load(f) \in Tables /\ Parse(f).skipped \in BOOLEAN
             /\ f.lines \in Seq(Line) /\ f.version \in -2 .. Current
             /\ f.version = -2 <=> f = NoFile
  <2>1. Load(f) \in Tables /\ Parse(f).skipped \in BOOLEAN
    BY LoadIsATable DEF Resolved
  <2>2. /\ f.lines \in Seq(Line) /\ f.version \in -2 .. Current
        /\ f.version = -2 <=> f = NoFile
    BY <1>1 DEF File, NoFile
  <2> QED
    BY <2>1, <2>2
<1>6. ASSUME NEW t \in Tables
      PROVE  /\ FileOf(t) \in File /\ FileOf(t) \notin {NoFile, EmptyFile}
             /\ FileOf(t).version = Current /\ FileOf(t).lines = Serialize(t)
             /\ FileOf(t) = [version |-> Current, lines |-> Serialize(t)]
             /\ Serialize(t) \in Seq(Line)
  <2>1. FileOf(t) \in File /\ Serialize(t) \in Seq(Line)
    BY RoundTrip, SerializedParses
  <2>2. FileOf(t) = [version |-> Current, lines |-> Serialize(t)]
    BY DEF FileOf
  <2>3. FileOf(t).version = Current /\ NoFile.version = -2 /\ EmptyFile.version = -1
    BY <2>2 DEF NoFile, EmptyFile
  <2>4. FileOf(t) \notin {NoFile, EmptyFile}
    BY <1>1, <2>3
  <2> QED
    BY <2>1, <2>2, <2>3, <2>4
<1>7. DefaultFile \in File /\ DefaultFile.version = Current
  BY <1>4, <1>6 DEF DefaultFile
<1> QED
  BY <1>3, <1>4, <1>5, <1>6, <1>7

\* A write leaves a file, and all of it unless it is cut short.
LEMMA WrittenFacts ==
    ASSUME NEW f \in File, f.version = Current
    PROVE  Written(f) \subseteq File /\ (~Fails("short") => Written(f) = {f})
<1>1. /\ Current \in Nat /\ Current # 0 /\ f.lines \in Seq(Line) /\ Len(f.lines) \in Nat
      /\ f = [version |-> Current, lines |-> f.lines]
  BY FileAssumption, LenProperties DEF File
<1>2. <<>> \in Seq(Line)
  BY EmptySeq
<1>3. \A l \in Seq(Line) : [f EXCEPT !.lines = l] \in File
  BY <1>1 DEF File
<1>4. {EmptyFile, [version |-> 0, lines |-> <<>>]} \subseteq File
  BY <1>1, <1>2, FileFacts DEF File
<1>5. ASSUME NEW n \in 0 .. Len(f.lines) PROVE SubSeq(f.lines, 1, n) \in Seq(Line)
  <2>1. \A i \in 1 .. n : f.lines[i] \in Line
    BY <1>1, ElementOfSeq
  <2>2. 1 \in Int /\ n \in Int
    BY <1>1
  <2> QED
    BY <2>1, <2>2, SubSeqProperties
<1>6. ASSUME NEW n \in DOMAIN f.lines, NEW b \in Bindings \cup {Malformed}
      PROVE  Append(SubSeq(f.lines, 1, n - 1), [f.lines[n] EXCEPT !.binding = b]) \in Seq(Line)
  <2>1. n \in 1 .. Len(f.lines)
    BY <1>1, LenProperties
  <2>2. SubSeq(f.lines, 1, n - 1) \in Seq(Line)
    <3>1. n - 1 \in 0 .. Len(f.lines)
      BY <1>1, <2>1
    <3> QED
      BY <1>5, <3>1
  <2>3. [f.lines[n] EXCEPT !.binding = b] \in Line
    <3>1. f.lines[n] \in Line
      BY <1>1, <2>1, ElementOfSeq
    <3> QED
      BY <3>1 DEF Line
  <2> QED
    BY <2>2, <2>3, AppendProperties
<1>7. Truncated(f) \subseteq File
  <2> DEFINE cut(n) == [f EXCEPT !.lines = SubSeq(@, 1, n)]
             mangled(n, b) == [f EXCEPT !.lines = Append(SubSeq(@, 1, n - 1), [@[n] EXCEPT !.binding = b])]
  <2>1. \A n \in 0 .. Len(f.lines) : cut(n) \in File
    BY <1>3, <1>5
  <2>2. \A n \in DOMAIN f.lines, b \in Bindings \cup {Malformed} : mangled(n, b) \in File
    BY <1>3, <1>6
  <2>3. ASSUME NEW g \in Truncated(f)
        PROVE  \/ g \in {EmptyFile, [version |-> 0, lines |-> <<>>]}
               \/ \E n \in 0 .. Len(f.lines) : g = cut(n)
               \/ \E n \in DOMAIN f.lines, b \in Bindings \cup {Malformed} : g = mangled(n, b)
    BY DEF Truncated
  <2> HIDE DEF cut, mangled
  <2> QED
    BY <1>4, <2>1, <2>2, <2>3
<1>8. Written(f) \subseteq File
  BY <1>7 DEF Written
<1>9. ~Fails("short") => Written(f) = {f}
  BY DEF Written
<1> QED
  BY <1>8, <1>9

-----------------------------------------------------------------------------
\* Every step preserves the invariant, whatever fails

\* The call of a save, by the editor or after a stale file was parsed.
LEMMA BeginSaveKeeps ==
    ASSUME SInv, NEW t \in Tables, NEW why \in {"edit", "migration"}, BeginSave(t, why),
           table' = t, fromFile' \in BOOLEAN, skipped' \in BOOLEAN,
           why = "migration" => t = Load(config),
           UNCHANGED <<flash, mounted>>
    PROVE  SInv'
<1>1. /\ FileOf(t) \in File /\ Serialize(t) \in Seq(Line) /\ FileOf(t).lines = Serialize(t)
  BY FileFacts
<1>2. TypeOK'
  BY <1>1 DEF SInv, TypeOK, BeginSave, Return, SaveSteps, flash
<1>3. Placed' /\ Underway' /\ Recorded' /\ FailedSaveLeavesConfig'
  BY <1>1 DEF SInv, Placed, Underway, Recorded, FailedSaveLeavesConfig, BeginSave, Return,
              SaveSteps, flash
<1> QED
  BY <1>2, <1>3 DEF SInv

LEMMA UnreadableKeeps ==
    ASSUME SInv, Unreadable, UNCHANGED flash, mounted' \in BOOLEAN
    PROVE  SInv'
<1>1. TypeOK'
  BY FileFacts DEF SInv, TypeOK, Unreadable, flash
<1> QED
  BY <1>1 DEF SInv, Placed, Underway, Recorded, FailedSaveLeavesConfig, Unreadable, SaveSteps, flash

LEMMA ReadConfigKeeps ==
    ASSUME SInv, ReadConfig
    PROVE  SInv'
<1>1. CASE Unreadable /\ UNCHANGED <<flash, mounted>>
  BY <1>1, UnreadableKeeps DEF SInv, TypeOK
<1>2. CASE /\ table' = Load(config) /\ skipped' = Parse(config).skipped /\ fromFile' = TRUE
           /\ BeginSave(Load(config), "migration")
           /\ UNCHANGED <<flash, mounted>>
  <2>1. Load(config) \in Tables /\ Parse(config).skipped \in BOOLEAN
    BY FileFacts DEF SInv, TypeOK
  <2> QED
    BY <1>2, <2>1, BeginSaveKeeps
<1>3. CASE /\ table' = Load(config) /\ skipped' = Parse(config).skipped /\ fromFile' = TRUE
           /\ at' = "running" /\ UNCHANGED <<buf, result, saving>>
           /\ UNCHANGED <<flash, mounted>>
  <2>1. Load(config) \in Tables /\ Parse(config).skipped \in BOOLEAN
    BY FileFacts DEF SInv, TypeOK
  <2>2. TypeOK'
    BY <1>3, <2>1 DEF SInv, TypeOK, flash
  <2> QED
    BY <1>3, <2>2 DEF SInv, Placed, Underway, Recorded, FailedSaveLeavesConfig, SaveSteps, flash
<1> QED
  BY <1>1, <1>2, <1>3 DEF ReadConfig

LEMMA BootKeeps ==
    ASSUME SInv, Mount \/ MountFormats \/ SeedOpen \/ SeedWrite
    PROVE  SInv'
<1>1. CASE Mount
  <2>1. CASE Unreadable /\ UNCHANGED <<flash, mounted>>
    BY <2>1, UnreadableKeeps DEF SInv, TypeOK
  <2>2. CASE /\ at' = IF config = NoFile THEN "boot" ELSE "read"
             /\ mounted' = TRUE
             /\ UNCHANGED <<flash, live, buf, result, saving>>
    <3>1. TypeOK'
      BY <2>2 DEF SInv, TypeOK, flash, live
    <3> QED
      BY <1>1, <2>2, <3>1
      DEF Mount, SInv, Placed, Underway, Recorded, FailedSaveLeavesConfig, SaveSteps, flash, live
  <2> QED
    BY <1>1, <2>1, <2>2 DEF Mount
<1>2. CASE MountFormats
  <2>1. TypeOK'
    BY <1>2, FileFacts DEF MountFormats, NotSaved, SInv, TypeOK, live
  <2> QED
    BY <1>2, <2>1
    DEF MountFormats, NotSaved, SInv, Placed, Underway, Recorded, FailedSaveLeavesConfig, SaveSteps, live
<1>3. CASE SeedOpen
  <2>1. CASE Unreadable /\ UNCHANGED config
    BY <1>3, <2>1, UnreadableKeeps DEF SeedOpen, SInv, TypeOK, flash
  <2>2. CASE config' = EmptyFile /\ at' = "seed" /\ UNCHANGED <<live, buf, result, saving>>
    <3>1. TypeOK'
      BY <1>3, <2>2, FileFacts DEF SeedOpen, SInv, TypeOK, live
    <3> QED
      BY <1>3, <2>2, <3>1
      DEF SeedOpen, SInv, Placed, Underway, Recorded, FailedSaveLeavesConfig, SaveSteps, live
  <2> QED
    BY <1>3, <2>1, <2>2 DEF SeedOpen
<1>4. CASE SeedWrite
  <2>1. config' \in File
    BY <1>4, FileFacts, WrittenFacts DEF SeedWrite
  <2>2. TypeOK'
    BY <1>4, <2>1 DEF SeedWrite, SInv, TypeOK, live
  <2> QED
    BY <1>4, <2>2
    DEF SeedWrite, SInv, Placed, Underway, Recorded, FailedSaveLeavesConfig, SaveSteps, live
<1> QED
  BY <1>1, <1>2, <1>3, <1>4

LEMMA SaveStepsKeep ==
    ASSUME SInv, OpenTmp \/ WriteTmp \/ RemoveConfig \/ RenameTmp \/ RenameFails
    PROVE  SInv'
<1> USE DEF live, flash, Return, SaveSteps
<1>1. CASE OpenTmp
  <2>1. TypeOK'
    BY <1>1, FileFacts, ZenonT(40) DEF OpenTmp, SInv, TypeOK
  <2> QED
    BY <1>1, <2>1 DEF OpenTmp, SInv, Placed, Underway, Recorded, FailedSaveLeavesConfig
<1>2. CASE WriteTmp
  <2>1. [version |-> Current, lines |-> buf] = saving.new /\ saving.new \in File
        /\ saving.new.version = Current
    BY <1>2, FileFacts DEF WriteTmp, SInv, TypeOK, Underway, Recorded
  <2>2. tmp' \in File
    BY <1>2, <2>1, WrittenFacts DEF WriteTmp
  <2>3. TypeOK'
    BY <1>2, <2>2 DEF WriteTmp, SInv, TypeOK
  <2> QED
    BY <1>2, <2>3 DEF WriteTmp, SInv, Placed, Underway, Recorded, FailedSaveLeavesConfig
<1>3. CASE RemoveConfig
  <2>1. TypeOK'
    <3>1. TypeOK /\ NoFile \in File
      BY FileFacts DEF SInv
    <3>2. /\ config' \in File /\ at' \in {"rename", "running"}
          /\ result' \in {"none", "failed", "lost", "done"}
      BY <1>3, <3>1 DEF RemoveConfig, TypeOK
    <3>3. UNCHANGED <<mounted, tmp, table, fromFile, skipped, buf, saving>>
      BY <1>3 DEF RemoveConfig
    <3> QED
      BY <3>1, <3>2, <3>3 DEF TypeOK
  <2> QED
    BY <1>3, <2>1 DEF RemoveConfig, SInv, Placed, Underway, Recorded, FailedSaveLeavesConfig
<1>4. CASE RenameTmp
  <2>1. TypeOK'
    BY <1>4, FileFacts DEF RenameTmp, SInv, TypeOK
  <2> QED
    BY <1>4, <2>1 DEF RenameTmp, SInv, Placed, Underway, Recorded, FailedSaveLeavesConfig
<1>5. CASE RenameFails
  <2>1. TypeOK'
    BY <1>5 DEF RenameFails, SInv, TypeOK
  <2> QED
    BY <1>5, <2>1 DEF RenameFails, SInv, Placed, Underway, Recorded, FailedSaveLeavesConfig
<1> QED
  BY <1>1, <1>2, <1>3, <1>4, <1>5

LEMMA EditsKeep ==
    ASSUME SInv, NEW t \in Edits, TestOn(t) \/ SaveEdits(t)
    PROVE  SInv'
<1>1. t \in Tables
  BY EditsAssumption
<1>2. CASE TestOn(t)
  <2>1. TypeOK'
    BY <1>1, <1>2 DEF TestOn, SInv, TypeOK, flash
  <2> QED
    BY <1>2, <2>1 DEF TestOn, SInv, Placed, Underway, Recorded, FailedSaveLeavesConfig, SaveSteps, flash
<1>3. CASE SaveEdits(t)
  BY <1>1, <1>3, BeginSaveKeeps DEF SaveEdits, SInv, TypeOK
<1> QED
  BY <1>2, <1>3

LEMMA PowerLostKeeps ==
    ASSUME SInv, PowerLost
    PROVE  SInv'
<1>1. TypeOK'
  <2>1. Blank \in Tables /\ <<>> \in Seq(Line)
    BY FileFacts, EmptySeq
  <2> QED
    BY <2>1 DEF PowerLost, SInv, TypeOK, flash
<1> QED
  BY <1>1 DEF PowerLost, SInv, Placed, Underway, Recorded, FailedSaveLeavesConfig, SaveSteps, flash

LEMMA NextKeeps ==
    ASSUME SInv, [Next]_vars
    PROVE  SInv'
<1>1. CASE Mount \/ MountFormats \/ SeedOpen \/ SeedWrite
  BY <1>1, BootKeeps
<1>2. CASE BootRead \/ Reload
  BY <1>2, ReadConfigKeeps DEF BootRead, Reload
<1>3. CASE \E t \in Edits : TestOn(t) \/ SaveEdits(t)
  BY <1>3, EditsKeep
<1>4. CASE OpenTmp \/ WriteTmp \/ RemoveConfig \/ RenameTmp \/ RenameFails
  BY <1>4, SaveStepsKeep
<1>5. CASE Crash \/ CrashInGap
  BY <1>5, PowerLostKeeps DEF Crash, CrashInGap
<1>6. CASE UNCHANGED vars
  BY <1>6 DEF vars, flash, live, SInv, TypeOK, Placed, Underway, Recorded, FailedSaveLeavesConfig
<1> QED
  BY <1>1, <1>2, <1>3, <1>4, <1>5, <1>6 DEF Next

-----------------------------------------------------------------------------
\* Without short writes: what a save leaves is the old file or the new one, whole

\* The call of a save.
LEMMA BeginSaveWhole ==
    ASSUME SInv, WInv, NEW t \in Tables, NEW why \in {"edit", "migration"}, BeginSave(t, why),
           UNCHANGED <<flash, mounted>>
    PROVE  WInv'
BY DEF WInv, Whole, OneCopyLeft, StaleFileIsMigrated, BeginSave, Return, flash

LEMMA ReadConfigWhole ==
    ASSUME SInv, WInv, ReadConfig
    PROVE  WInv'
<1>1. CASE Unreadable /\ UNCHANGED <<flash, mounted>>
  BY <1>1 DEF WInv, Whole, OneCopyLeft, StaleFileIsMigrated, Unreadable, flash
<1>2. CASE BeginSave(Load(config), "migration") /\ UNCHANGED <<flash, mounted>>
  <2>1. Load(config) \in Tables
    BY FileFacts DEF SInv, TypeOK
  <2> QED
    BY <1>2, <2>1, BeginSaveWhole
<1>3. CASE /\ config # NoFile /\ ~Stale(config)
           /\ at' = "running" /\ UNCHANGED <<buf, result, saving>>
           /\ UNCHANGED <<flash, mounted>>
  <2>1. config.version \in {EmptyFile.version, Current}
    <3>1. config.version \in -2 .. Current /\ config.version # -2
      BY <1>3, FileFacts DEF SInv, TypeOK
    <3>2. EmptyFile.version = -1 /\ Current \in Nat
      BY FileAssumption DEF EmptyFile
    <3> QED
      BY <1>3, <3>1, <3>2 DEF Stale
  <2> QED
    BY <1>3, <2>1 DEF WInv, Whole, OneCopyLeft, StaleFileIsMigrated, flash
<1> QED
  BY <1>1, <1>2, <1>3 DEF ReadConfig

\* The new file of a save is a file of the current version.
LEMMA NewFacts ==
    ASSUME SInv, saving.why # "none"
    PROVE  /\ saving.new \in File /\ saving.new \notin {NoFile, EmptyFile} /\ saving.new.version = Current
           /\ saving.new = FileOf(saving.table)
           /\ saving.new = [version |-> Current, lines |-> saving.new.lines]
           /\ saving.table \in Tables /\ saving.old \in File
<1>1. saving.table \in Tables /\ saving.new = FileOf(saving.table) /\ saving.old \in File
  BY DEF SInv, TypeOK, Recorded
<1> QED
  BY <1>1, FileFacts

LEMMA BootWhole ==
    ASSUME SInv, WInv, ~Fails("short"), Mount \/ MountFormats \/ SeedOpen \/ SeedWrite
    PROVE  WInv'
<1> USE DEF live, flash
<1>1. CASE Mount
  <2>1. at' = "boot" /\ UNCHANGED <<flash, saving>> /\ saving.why # "none" /\ saving.old # NoFile
            => tmp = saving.new
    BY <1>1, NewFacts DEF Mount, WInv, OneCopyLeft, Unreadable
  <2> QED
    BY <1>1, <2>1 DEF Mount, Unreadable, WInv, Whole, OneCopyLeft, StaleFileIsMigrated
<1>2. CASE MountFormats
  BY <1>2 DEF MountFormats, NotSaved, SInv, Placed, WInv, Whole, OneCopyLeft, StaleFileIsMigrated
<1>3. CASE SeedOpen
  <2>1. result # "done"
    BY <1>3, NewFacts DEF SeedOpen, SInv, Placed, Recorded, WInv, Whole
  <2> QED
    BY <1>3, <2>1
    DEF SeedOpen, Unreadable, SInv, Placed, WInv, Whole, OneCopyLeft, StaleFileIsMigrated
<1>4. CASE SeedWrite
  <2>1. result # "done"
    BY <1>4, NewFacts DEF SeedWrite, SInv, Placed, Recorded, WInv, Whole
  <2> QED
    BY <1>4, <2>1 DEF SeedWrite, SInv, Placed, WInv, Whole, OneCopyLeft, StaleFileIsMigrated
<1> QED
  BY <1>1, <1>2, <1>3, <1>4

LEMMA SaveStepsWhole ==
    ASSUME SInv, WInv, ~Fails("short"),
           OpenTmp \/ WriteTmp \/ RemoveConfig \/ RenameTmp \/ RenameFails
    PROVE  WInv'
<1> USE DEF live, flash, Return, SaveSteps
<1>1. CASE OpenTmp
  BY <1>1 DEF OpenTmp, SInv, Placed, Underway, WInv, Whole, OneCopyLeft, StaleFileIsMigrated
<1>2. CASE WriteTmp
  <2>1. [version |-> Current, lines |-> buf] = saving.new /\ saving.new \in File
        /\ saving.new.version = Current
    BY <1>2, NewFacts DEF WriteTmp, SInv, Underway
  <2>2. tmp' = saving.new
    BY <1>2, <2>1, WrittenFacts DEF WriteTmp
  <2> QED
    BY <1>2, <2>2
    DEF WriteTmp, SInv, Placed, Underway, WInv, Whole, OneCopyLeft, StaleFileIsMigrated
<1>3. CASE RemoveConfig
  BY <1>3 DEF RemoveConfig, SInv, Placed, Underway, WInv, Whole, OneCopyLeft, StaleFileIsMigrated
<1>4. CASE RenameTmp
  <2>1. tmp = saving.new /\ saving.new.version = Current
    BY <1>4, NewFacts DEF RenameTmp, SInv, Underway, WInv, Whole
  <2> QED
    BY <1>4, <2>1 DEF RenameTmp, WInv, Whole, OneCopyLeft, StaleFileIsMigrated
<1>5. CASE RenameFails
  BY <1>5 DEF RenameFails, SInv, Placed, WInv, Whole, OneCopyLeft, StaleFileIsMigrated
<1> QED
  BY <1>1, <1>2, <1>3, <1>4, <1>5

LEMMA NextWhole ==
    ASSUME SInv, WInv, ~Fails("short"), [Next]_vars
    PROVE  WInv'
<1>1. CASE Mount \/ MountFormats \/ SeedOpen \/ SeedWrite
  BY <1>1, BootWhole
<1>2. CASE BootRead \/ Reload
  BY <1>2, ReadConfigWhole DEF BootRead, Reload
<1>3. ASSUME NEW t \in Edits, TestOn(t) PROVE WInv'
  BY <1>3 DEF TestOn, flash, WInv, Whole, OneCopyLeft, StaleFileIsMigrated
<1>4. ASSUME NEW t \in Edits, SaveEdits(t) PROVE WInv'
  <2>1. t \in Tables
    BY EditsAssumption
  <2> QED
    BY <1>4, <2>1, BeginSaveWhole DEF SaveEdits
<1>5. CASE OpenTmp \/ WriteTmp \/ RemoveConfig \/ RenameTmp \/ RenameFails
  BY <1>5, SaveStepsWhole
<1>6. CASE Crash \/ CrashInGap
  BY <1>6
  DEF Crash, CrashInGap, PowerLost, flash, WInv, Whole, OneCopyLeft, StaleFileIsMigrated
<1>7. CASE UNCHANGED vars
  BY <1>7 DEF vars, flash, live, WInv, Whole, OneCopyLeft, StaleFileIsMigrated
<1> QED
  BY <1>1, <1>2, <1>3, <1>4, <1>5, <1>6, <1>7 DEF Next

-----------------------------------------------------------------------------
\* The store that mkh_storage.h promises

LEMMA StoreTerms ==
    /\ Store!NoFile = NoFile /\ Store!EmptyFile = EmptyFile /\ Store!DefaultFile = DefaultFile
    /\ Store!Blank = Blank /\ Store!WithFallbacks(Blank) = WithFallbacks(Blank)
    /\ Store!Tables = Tables /\ Store!File = File
<1>1. Store!NoFile = NoFile /\ Store!EmptyFile = EmptyFile
  BY DEF Store!NoFile, NoFile, Store!EmptyFile, EmptyFile
<1>2. Store!DefaultFile = DefaultFile
  BY Zenon DEF Store!DefaultFile, DefaultFile, Store!FileOf, FileOf, Store!Serialize, Serialize,
               Store!FlattenSeq, FlattenSeq, Store!WithFallbacks, WithFallbacks,
               Store!TablePorts, TablePorts, Store!Blank, Blank
<1>3. Store!Blank = Blank /\ Store!WithFallbacks(Blank) = WithFallbacks(Blank)
  BY Zenon DEF Store!WithFallbacks, WithFallbacks, Store!TablePorts, TablePorts, Store!Blank, Blank
<1>4. Store!Tables = Tables
  BY Zenon DEF Store!Tables, Tables, Store!TablePorts, TablePorts, Store!Lists, Lists,
               Store!BoundedSeq, BoundedSeq, Store!SeqOf, SeqOf
<1>5. Store!File = File
  BY Zenon DEF Store!File, File, Store!Line, Line, Store!TablePorts, TablePorts
<1> QED
  BY <1>1, <1>2, <1>3, <1>4, <1>5

LEMMA StoreLoad ==
    ASSUME NEW f
    PROVE  Store!Load(f) = Load(f)
BY Zenon DEF Store!Load, Load, Store!WithFallbacks, WithFallbacks, Store!Parse, Parse,
             Store!TablePorts, TablePorts, Store!Blank, Blank, Store!ParseLine, ParseLine,
             Store!FoldLeft, FoldLeft, Store!MapThenFoldSet, MapThenFoldSet, Store!Max, Max

LEMMA StoreFileOf ==
    ASSUME NEW t
    PROVE  Store!FileOf(t) = FileOf(t)
BY Zenon DEF Store!FileOf, FileOf, Store!Serialize, Serialize, Store!TablePorts, TablePorts,
             Store!FlattenSeq, FlattenSeq

\* The steps of the store in the storage's own terms.
Up == at \notin {"off", "boot", "seed", "read"}

LEMMA StoreSteps ==
    /\ ~Up /\ Saved \in {NoFile, EmptyFile} /\ Saved' \in {EmptyFile, DefaultFile}
         /\ table' = table /\ Up' = Up => Store!Seed
    /\ Up' = TRUE /\ table' \in {Load(Saved), WithFallbacks(Blank)} /\ Saved' = Saved
         => Store!LoadStored
    /\ \A t \in Tables : Up /\ table' = t /\ Saved' = Saved /\ Up' = Up => Store!Edit(t)
    /\ Up /\ Saved' = FileOf(table) /\ table' = table /\ Up' = Up => Store!Save
    /\ Up' = FALSE /\ table' = Blank /\ Saved' = Saved => Store!PowerLoss
    /\ Saved' = Saved /\ table' = table /\ Up' = Up => UNCHANGED Store!storeVars
BY StoreTerms, StoreLoad, StoreFileOf
   DEF Store!Seed, Store!LoadStored, Store!Edit, Store!Save, Store!PowerLoss, Store!storeVars, Up

\* Every step is one of the store, leaves the store as it is, or destroys what it holds.
StoreStep == [Destroys \/ Store!StoreNext]_(Store!storeVars)

LEMMA UnreadableStep ==
    ASSUME Unreadable, UNCHANGED flash, at # "rename"
    PROVE  Store!LoadStored
BY StoreSteps DEF Unreadable, flash, Up, Saved

LEMMA ReadConfigStep ==
    ASSUME SInv, ReadConfig, at \in {"read", "running"}
    PROVE  Store!LoadStored
<1>1. CASE Unreadable /\ UNCHANGED <<flash, mounted>>
  BY <1>1, UnreadableStep
<1>2. CASE table' = Load(config) /\ at' \in {"openTmp", "running"} /\ UNCHANGED <<flash, mounted>>
  BY <1>2, StoreSteps DEF flash, Up, Saved
<1> QED
  BY <1>1, <1>2 DEF ReadConfig, BeginSave, Return

LEMMA NextStep ==
    ASSUME SInv, WInv, ~Fails("short"), [Next]_vars
    PROVE  StoreStep
<1> USE DEF StoreStep, flash, live
<1>1. CASE Mount
  <2>1. CASE Unreadable /\ UNCHANGED <<flash, mounted>>
    BY <1>1, <2>1, UnreadableStep DEF Mount, Store!StoreNext
  <2>2. CASE at' \in {"boot", "read"} /\ UNCHANGED <<flash, live>>
    <3>1. Saved' = Saved /\ table' = table /\ Up' = Up
      BY <1>1, <2>2 DEF Mount, Saved, Up
    <3> QED
      BY <3>1, StoreSteps
  <2> QED
    BY <1>1, <2>1, <2>2 DEF Mount
<1>2. CASE SeedOpen
  <2>1. CASE Unreadable /\ UNCHANGED config
    BY <1>2, <2>1, UnreadableStep DEF SeedOpen, Store!StoreNext
  <2>2. CASE config' = EmptyFile /\ at' = "seed" /\ UNCHANGED live
    <3>1. ~Up /\ Saved = NoFile /\ Saved' = EmptyFile /\ table' = table /\ Up' = Up
      BY <1>2, <2>2 DEF SeedOpen, SInv, Placed, Saved, Up
    <3> QED
      BY <3>1, StoreSteps DEF Store!StoreNext
  <2> QED
    BY <1>2, <2>1, <2>2 DEF SeedOpen
<1>3. CASE SeedWrite
  <2>1. Written(DefaultFile) = {DefaultFile}
    BY FileFacts, WrittenFacts
  <2>2. ~Up /\ Saved = EmptyFile /\ Saved' = DefaultFile /\ table' = table /\ Up' = Up
    BY <1>3, <2>1 DEF SeedWrite, SInv, Placed, Saved, Up
  <2> QED
    BY <2>2, StoreSteps DEF Store!StoreNext
<1>4. CASE BootRead \/ Reload
  BY <1>4, ReadConfigStep DEF BootRead, Reload, Store!StoreNext
<1>5. ASSUME NEW t \in Edits, TestOn(t) \/ SaveEdits(t) PROVE StoreStep
  <2>1. t \in Tables /\ t \in Store!Tables
    BY EditsAssumption, StoreTerms
  <2>2. Up /\ table' = t /\ Saved' = Saved /\ Up' = Up
    BY <1>5 DEF TestOn, SaveEdits, BeginSave, Return, Saved, Up
  <2>3. Store!Edit(t)
    BY <2>1, <2>2, StoreSteps
  <2> QED
    BY <2>1, <2>3 DEF Store!StoreNext
<1>6. CASE OpenTmp \/ WriteTmp \/ RenameTmp
  <2>1. Saved' = Saved /\ table' = table /\ Up' = Up
    BY <1>6 DEF OpenTmp, WriteTmp, RenameTmp, Return, Saved, Up
  <2> QED
    BY <2>1, StoreSteps
<1>7. CASE RemoveConfig
  <2>1. CASE at' = "rename" /\ UNCHANGED <<tmp, live>>
    <3>1. tmp = saving.new /\ saving.new = FileOf(table)
      BY <1>7, NewFacts DEF RemoveConfig, SInv, Underway, SaveSteps, WInv, Whole
    <3>2. Up /\ Saved' = FileOf(table) /\ table' = table /\ Up' = Up
      BY <1>7, <2>1, <3>1 DEF RemoveConfig, Saved, Up
    <3> QED
      BY <3>2, StoreSteps DEF Store!StoreNext
  <2>2. CASE at' = "running" /\ UNCHANGED <<config, live>>
    <3>1. Saved' = Saved /\ table' = table /\ Up' = Up
      BY <1>7, <2>2 DEF RemoveConfig, Saved, Up
    <3> QED
      BY <3>1, StoreSteps
  <2> QED
    BY <1>7, <2>1, <2>2 DEF RemoveConfig, Return
<1>8. CASE Crash
  BY <1>8, StoreSteps DEF Crash, PowerLost, Saved, Up, Store!StoreNext
<1>9. CASE MountFormats \/ RenameFails \/ CrashInGap
  BY <1>9 DEF Destroys
<1>10. CASE UNCHANGED vars
  <2>1. Saved' = Saved /\ table' = table /\ Up' = Up
    BY <1>10 DEF vars, Saved, Up
  <2> QED
    BY <2>1, StoreSteps
<1> QED
  BY <1>1, <1>2, <1>3, <1>4, <1>5, <1>6, <1>7, <1>8, <1>9, <1>10 DEF Next

-----------------------------------------------------------------------------
\* Theorems

LEMMA InitInvs == Init => SInv /\ WInv
<1> SUFFICES ASSUME Init PROVE SInv /\ WInv
  OBVIOUS
<1>1. config \in File /\ NoFile \in File /\ Blank \in Tables /\ <<>> \in Seq(Line)
  BY FactoryAssumption, FileFacts, EmptySeq DEF Init
<1>2. TypeOK
  BY <1>1 DEF Init, NotSaved, TypeOK
<1>3. Placed /\ Underway /\ Recorded /\ FailedSaveLeavesConfig
  BY DEF Init, NotSaved, Placed, Underway, Recorded, FailedSaveLeavesConfig, SaveSteps
<1>4. WInv
  BY DEF Init, NotSaved, WInv, Whole, OneCopyLeft, StaleFileIsMigrated
<1> QED
  BY <1>2, <1>3, <1>4 DEF SInv

\* The inductive invariant, whatever fails.
THEOREM StorageInvariantHolds == Spec => []SInv
<1>1. Init => SInv
  BY InitInvs
<1>2. SInv /\ [Next]_vars => SInv'
  BY NextKeeps
<1> QED
  BY <1>1, <1>2, PTL DEF Spec

\* Type correctness: every file the firmware reads, writes or leaves half-written is one
\* the parser takes, and every table it resolves is one.
THEOREM StorageTypeCorrect == Spec => []TypeOK
<1>1. SInv => TypeOK
  BY DEF SInv
<1> QED
  BY <1>1, StorageInvariantHolds, PTL

\* A save that returned false left the config file as it was (mkh_storage.h:32), but for
\* the failing rename.
THEOREM StorageFailedSaveLeavesConfig == Spec => []FailedSaveLeavesConfig
<1>1. SInv => FailedSaveLeavesConfig
  BY DEF SInv
<1> QED
  BY <1>1, StorageInvariantHolds, PTL

\* The invariant that no short write breaks.
THEOREM StorageWholeHolds ==
    ASSUME "short" \notin Faults
    PROVE  Spec => [](SInv /\ WInv)
<1>1. Init => SInv /\ WInv
  BY InitInvs
<1>2. ~Fails("short")
  BY DEF Fails
<1>3. SInv /\ WInv /\ [Next]_vars => (SInv /\ WInv)'
  BY <1>2, NextKeeps, NextWhole
<1> QED
  BY <1>1, <1>3, PTL DEF Spec

\* Unless a write is cut short, a save of an existing configuration never destroys both
\* the old one and the new one, whichever call fails and whenever the power does.
THEOREM StorageOneCopyLeft ==
    ASSUME "short" \notin Faults
    PROVE  Spec => []OneCopyLeft
<1>1. SInv /\ WInv => OneCopyLeft
  BY DEF WInv
<1> QED
  BY <1>1, StorageWholeHolds, PTL

\* No boot or reload goes on with a file of an older version, unless writing it back failed.
THEOREM StorageStaleFileIsMigrated ==
    ASSUME "short" \notin Faults
    PROVE  Spec => []StaleFileIsMigrated
<1>1. SInv /\ WInv => StaleFileIsMigrated
  BY DEF WInv
<1> QED
  BY <1>1, StorageWholeHolds, PTL

\* What a save returned true for is what the next boot loads: every binding, in its order.
THEOREM StorageSaveSurvivesReboot ==
    ASSUME "short" \notin Faults
    PROVE  Spec => []SaveSurvivesReboot
<1>1. SInv /\ WInv => SaveSurvivesReboot
  <2> SUFFICES ASSUME SInv, WInv, result = "done"
               PROVE  Load(config) = WithFallbacks(Stored(saving.table))
    BY DEF SaveSurvivesReboot
  <2>1. config = FileOf(saving.table) /\ saving.table \in Tables
    BY NewFacts DEF SInv, Recorded, WInv, Whole
  <2> QED
    BY <2>1, RoundTrip
<1> QED
  BY <1>1, StorageWholeHolds, PTL

\* The file a migration leaves loads the table that the old file loaded.
THEOREM StorageMigrationKeepsMapping ==
    ASSUME "short" \notin Faults
    PROVE  Spec => []MigrationKeepsMapping
<1>1. SInv /\ WInv => MigrationKeepsMapping
  <2> SUFFICES ASSUME SInv, WInv, saving.why = "migration", result = "done"
               PROVE  Load(config) = Stored(Load(saving.old))
    BY DEF MigrationKeepsMapping
  <2>1. saving.old \in File /\ saving.table = Load(saving.old) /\ config = FileOf(saving.table)
    BY NewFacts DEF SInv, Recorded, WInv, Whole
  <2> QED
    BY <2>1, LoadedComesBack
<1> QED
  BY <1>1, StorageWholeHolds, PTL

\* Boot, reload, migration and save implement a store whose save is one step.
THEOREM StorageImplementsStore ==
    ASSUME "short" \notin Faults
    PROVE  Spec => ImplementsStore
<1>1. Init => Store!StoreInit
  BY FactoryAssumption, StoreTerms DEF Init, Store!StoreInit, Saved
<1>2. ~Fails("short")
  BY DEF Fails
<1>3. SInv /\ WInv /\ [Next]_vars => [Destroys \/ Store!StoreNext]_(Store!storeVars)
  BY <1>2, NextStep DEF StoreStep
<1> QED
  BY <1>1, <1>3, StorageWholeHolds, PTL DEF Spec, ImplementsStore

===============================================================================
