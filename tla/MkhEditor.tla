------------------------------ MODULE MkhEditor ------------------------------
(***************************************************************************)
(* sketch.cpp: the on-device mapping editor.  Its pages (hub select, port   *)
(* select, capture, settings) share one selection, one binding index, one   *)
(* captured input and one set of working values; what is confirmed on them  *)
(* accumulates, port by port, in a pending session that Test-ON and SAVE    *)
(* push into the live table.                                                *)
(*                                                                         *)
(* Taps are handled one at a time by loop().  The three values of a binding *)
(* a page can change (invert, max, mode) are one value here.  selected_valid *)
(* and capture_valid are true exactly when a port is selected and an input  *)
(* is captured, so port and captured carry them.                            *)
(***************************************************************************)
EXTENDS MkhConfigFile

CONSTANTS
    Inputs,         \* the input tokens told apart
    None,           \* MKH_INPUT_NONE
    Settings,       \* the values of invert, max and mode told apart
    Default,        \* not inverted, 100 %, proportional
    HubOf,          \* the device of a port
    NumEditable,    \* MKH_EDIT_MAX_ACTIVE_DEVICE, 2 in the code
    Files,          \* what the flash may hold at first
    MaxEdits        \* bound: how many changes of the pending session are explored

ASSUME InputsAssumption == None \notin Inputs /\ Default \in Settings
ASSUME BindingsAssumption == Bindings = [input : Inputs, set : Settings]
ASSUME HubsAssumption == HubOf \in [TablePorts -> Nat] /\ NumEditable \in Nat \ {0}
ASSUME FilesAssumption == Files \subseteq File /\ MaxEdits \in Nat

VARIABLES
    page,           \* currentPage: the dashboard or an editor page
    prompt,         \* the in-page prompt that is up
    hub, port,      \* editCtx.selected_device, selected_port; -1 and 0 for none
    captured,       \* editCtx.captured_input
    index,          \* editCtx.editing_binding_index
    backToCapture,  \* settingsBackToCapture
    working,        \* settingsWorking*, meaningful on the settings page only
    baseline,       \* settingsBaseline*, likewise
    dirty,          \* the ports whose pendingEdits entry is dirty
    pending,        \* pendingEdits, <<>> for a port that is not dirty
    table,          \* the live table
    file,           \* /mk1config.txt
    overrun,        \* pendingEdits[..].bindings was written past its end
    edits           \* bound: changes of the pending session so far

context == <<hub, port, captured, index, backToCapture>>
values == <<working, baseline>>
session == <<dirty, pending>>
vars == <<page, prompt, context, values, session, table, file, overrun, edits>>

Hubs == {HubOf[p] : p \in TablePorts}

TypeOK ==
    /\ page \in {"dashboard", "hubs", "ports", "capture", "settings"}
    /\ prompt \in {"none", "exit", "resetAll", "keepCapture", "replaceOrAdd", "keepSettings"}
    /\ hub \in Hubs \cup {-1}
    /\ port \in TablePorts \cup {0}
    /\ captured \in Inputs \cup {None}
    /\ index \in 0 .. MaxBindings
    /\ backToCapture \in BOOLEAN
    /\ working \in Settings /\ baseline \in Settings
    /\ dirty \subseteq TablePorts
    /\ pending \in [TablePorts -> Lists]
    /\ table \in Tables
    /\ file \in File
    /\ overrun \in BOOLEAN
    /\ edits \in 0 .. MaxEdits

\* setup(): the first page is left for the dashboard before anything else.
Init ==
    /\ file \in Files
    /\ table = Load(file)
    /\ page = "dashboard" /\ prompt = "none"
    /\ hub = -1 /\ port = 0 /\ captured = None /\ index = 0 /\ backToCapture = FALSE
    /\ working = Default /\ baseline = Default
    /\ dirty = {} /\ pending = Blank
    /\ overrun = FALSE
    /\ edits = 0

-----------------------------------------------------------------------------
\* The pending session

\* Seeded bug: a clean port reads its stale pending entry.
EffectiveStale(p) == IF dirty = {} THEN table[p] ELSE pending[p]

\* effectiveBinding, effectiveBindingCount: the pending copy of a port the session has
\* touched, else its live bindings.  settingsSeedPendingIfNeeded makes the former of
\* the latter.
Effective(p) == IF p \in dirty THEN pending[p] ELSE table[p]
Count == Len(Effective(port))

\* A confirmed change: the port is dirty from now on.
Commit(p, list) ==
    /\ dirty' = dirty \cup {p}
    /\ pending' = [pending EXCEPT ![p] = list]
    /\ edits < MaxEdits /\ edits' = edits + 1

NoCommit == UNCHANGED <<session, edits>>

clearPendingSession == dirty' = {} /\ pending' = Blank /\ UNCHANGED edits
clearEditContext == hub' = -1 /\ port' = 0 /\ captured' = None

\* The table that pushPendingSessionToLiveTable leaves.
Pushed == [p \in TablePorts |-> Effective(p)]

\* mkh_storage_save_config of a table: the file is replaced, or it is left alone and
\* the call fails.
SaveTable(t) ==
    \/ Fits(t) /\ file' = FileOf(t)
    \/ UNCHANGED file

ToPage(to) == page' = to /\ prompt' = "none"

\* Every way to the settings page assigns the working values and the baseline, so what
\* they were when it was left is not kept.
LeaveSettings(to) == ToPage(to) /\ working' = Default /\ baseline' = Default

\* Seeded bug: every entry makes the port dirty (what WO11 fixed).
EnterSettingsAlwaysDirty(p, i, input, fromCapture) ==
    LET list == Effective(p)
        isNew == i >= Len(list)
        old == IF isNew THEN [input |-> None, set |-> Default] ELSE list[i + 1]
        shown == IF input = None THEN old ELSE [old EXCEPT !.input = input]
    IN /\ ToPage("settings")
       /\ captured' = shown.input /\ index' = i /\ backToCapture' = fromCapture
       /\ working' = shown.set /\ baseline' = shown.set
       /\ overrun' = (isNew /\ Len(list) >= MaxBindings)
       /\ IF isNew /\ Len(list) >= MaxBindings THEN NoCommit
          ELSE Commit(p, IF isNew THEN Append(list, shown) ELSE [list EXCEPT ![i + 1] = shown])

\* Seeded bug: a replaced binding also keeps its place at the end of the list.
EnterSettingsAppends(p, i, input, fromCapture) ==
    LET list == Effective(p)
        isNew == i >= Len(list)
        old == IF isNew THEN [input |-> None, set |-> Default] ELSE list[i + 1]
        shown == IF input = None THEN old ELSE [old EXCEPT !.input = input]
    IN /\ ToPage("settings")
       /\ captured' = shown.input /\ index' = i /\ backToCapture' = fromCapture
       /\ working' = shown.set /\ baseline' = shown.set
       /\ overrun' = (shown # old /\ isNew /\ Len(list) >= MaxBindings)
       /\ IF shown = old \/ overrun' THEN NoCommit ELSE Commit(p, Append(list, shown))

\* goToPage(PAGE_EDIT_SETTINGS) for binding i of port p, with what editCtx holds as
\* its input: the input is committed if it differs from the binding's, and an index
\* past the last binding appends one.  Nothing compares the count with the size of the
\* array here.
EnterSettings(p, i, input, fromCapture) ==
    LET list == Effective(p)
        isNew == i >= Len(list)
        old == IF isNew THEN [input |-> None, set |-> Default] ELSE list[i + 1]
        shown == IF input = None THEN old ELSE [old EXCEPT !.input = input]
    IN /\ ToPage("settings")
       /\ captured' = shown.input /\ index' = i /\ backToCapture' = fromCapture
       /\ working' = shown.set /\ baseline' = shown.set
       /\ overrun' = (shown # old /\ isNew /\ Len(list) >= MaxBindings)
       /\ IF shown = old \/ (isNew /\ Len(list) >= MaxBindings) THEN NoCommit
          ELSE Commit(p, IF isNew THEN Append(list, shown) ELSE [list EXCEPT ![i + 1] = shown])

\* settingsCommitWorkingIfDirty, for the binding that is shown.
CommitWorking(list) ==
    IF working # baseline /\ index < Len(list)
      THEN Commit(port, [list EXCEPT ![index + 1].set = working])
      ELSE NoCommit

\* The list with what the page shows in the place of the binding it shows.
WithShown(list) ==
    IF index < Len(list)
      THEN [list EXCEPT ![index + 1] = [input |-> captured, set |-> working]]
      ELSE list

\* settingsLoadBindingAt: show binding i of a list.
ShowBinding(list, i) ==
    /\ index' = i
    /\ captured' = list[i + 1].input
    /\ working' = list[i + 1].set /\ baseline' = list[i + 1].set

\* Where BACK, KEEP, DISCARD and the last REMOVE lead from the settings page.
BackTarget == IF backToCapture THEN "capture" ELSE "ports"

-----------------------------------------------------------------------------
\* The dashboard, and every editor page

\* The settings button: a fresh session.
OpenEditor ==
    /\ page = "dashboard"
    /\ clearEditContext /\ clearPendingSession
    /\ ToPage("hubs")
    /\ UNCHANGED <<index, backToCapture, values, table, file, overrun>>

\* Seeded bug: Test-ON pushes only the port that is selected.
TestOnOnePort ==
    /\ page # "dashboard" /\ prompt = "none"
    /\ table' = IF port = 0 THEN table ELSE [table EXCEPT ![port] = Effective(port)]
    /\ UNCHANGED <<page, prompt, context, values, session, file, overrun, edits>>

\* handleTestToggleTap: a tap that turns Test on pushes once.  One that turns it off
\* leaves everything as it is, and nothing else reads testActive.
TestOn ==
    /\ page # "dashboard" /\ prompt = "none"
    /\ table' = Pushed
    /\ UNCHANGED <<page, prompt, context, values, session, file, overrun, edits>>

\* clearEditorSession, and the dashboard.
EndSession ==
    /\ clearEditContext /\ clearPendingSession
    /\ LeaveSettings("dashboard")
    /\ UNCHANGED <<index, backToCapture, overrun>>

-----------------------------------------------------------------------------
\* dispatchHubSelectTouch

HubsBack ==
    /\ page = "hubs" /\ prompt = "none"
    /\ UNCHANGED <<table, file>>
    /\ \/ /\ dirty # {}
          /\ prompt' = "exit"
          /\ UNCHANGED <<page, context, values, session, overrun, edits>>
       \/ dirty = {} /\ EndSession

ExitSave ==
    /\ page = "hubs" /\ prompt = "exit"
    /\ table' = Pushed /\ SaveTable(Pushed)
    /\ EndSession

ExitDiscard ==
    /\ page = "hubs" /\ prompt = "exit"
    /\ EndSession
    /\ UNCHANGED <<table, file>>

ResetAll ==
    /\ page = "hubs" /\ prompt = "none"
    /\ prompt' = "resetAll"
    /\ UNCHANGED <<page, context, values, session, table, file, overrun, edits>>

ResetAllConfirm ==
    /\ page = "hubs" /\ prompt = "resetAll"
    /\ table' = Blank /\ SaveTable(Blank)
    /\ EndSession

ResetAllCancel ==
    /\ page = "hubs" /\ prompt = "resetAll"
    /\ prompt' = "none"
    /\ UNCHANGED <<page, context, values, session, table, file, overrun, edits>>

\* The parked hub's row is not editable.
SelectHub(h) ==
    /\ page = "hubs" /\ prompt = "none"
    /\ h < NumEditable
    /\ hub' = h /\ port' = 0
    /\ ToPage("ports")
    /\ UNCHANGED <<captured, index, backToCapture, values, session, table, file,
                   overrun, edits>>

-----------------------------------------------------------------------------
\* dispatchPortSelectTouch

PortsBack ==
    /\ page = "ports"
    /\ clearEditContext
    /\ ToPage("hubs")
    /\ UNCHANGED <<index, backToCapture, values, session, table, file, overrun, edits>>

\* An occupied port opens its first binding, an empty one is captured for.
SelectPort(p) ==
    /\ page = "ports" /\ HubOf[p] = hub
    /\ port' = p
    /\ \/ /\ Effective(p) # <<>>
          /\ EnterSettings(p, 0, Effective(p)[1].input, FALSE)
       \/ /\ Effective(p) = <<>>
          /\ captured' = IF port = p THEN captured ELSE None
          /\ index' = 0
          /\ ToPage("capture")
          /\ UNCHANGED <<backToCapture, values, session, overrun, edits>>
    /\ UNCHANGED <<hub, table, file>>

-----------------------------------------------------------------------------
\* checkCapture and dispatchCaptureTouch

\* loop() polls the controller on this page, but not under the KEEP prompt.
Capture(input) ==
    /\ page = "capture" /\ prompt # "keepCapture"
    /\ captured # input
    /\ captured' = input
    /\ UNCHANGED <<page, prompt, hub, port, index, backToCapture, values, session,
                   table, file, overrun, edits>>

CaptureBack ==
    /\ page = "capture" /\ prompt = "none"
    /\ IF captured # None THEN prompt' = "keepCapture" /\ UNCHANGED page ELSE ToPage("ports")
    /\ UNCHANGED <<context, values, session, table, file, overrun, edits>>

CaptureKeepOrDiscard ==
    /\ prompt = "keepCapture"
    /\ ToPage("ports")
    /\ captured' \in {captured, None}
    /\ UNCHANGED <<hub, port, index, backToCapture, values, session, table, file,
                   overrun, edits>>

\* NEXT: an occupied port asks what to do with the capture.
CaptureNext ==
    /\ page = "capture" /\ prompt = "none" /\ captured # None
    /\ \/ /\ Count > 0
          /\ prompt' = "replaceOrAdd"
          /\ UNCHANGED <<page, context, values, session, overrun, edits>>
       \/ /\ Count = 0
          /\ EnterSettings(port, 0, captured, TRUE)
          /\ UNCHANGED <<hub, port>>
    /\ UNCHANGED <<table, file>>

Replace ==
    /\ prompt = "replaceOrAdd"
    /\ EnterSettings(port, index, captured, TRUE)
    /\ UNCHANGED <<hub, port, table, file>>

Add ==
    /\ prompt = "replaceOrAdd"
    /\ EnterSettings(port, Count, captured, TRUE)
    /\ UNCHANGED <<hub, port, table, file>>

-----------------------------------------------------------------------------
\* dispatchSettingsTouch

OnSettings == page = "settings" /\ prompt = "none"

\* INVERT, MODE, the nudge buttons and the slider.
Adjust(s) ==
    /\ OnSettings
    /\ working' = s
    /\ UNCHANGED <<page, prompt, context, baseline, session, table, file, overrun,
                   edits>>

\* Seeded bug: paging forgets what was changed on the binding it leaves.
PageBindingForgets(step) ==
    /\ OnSettings
    /\ index + step \in 0 .. Count - 1
    /\ ShowBinding(Effective(port), index + step)
    /\ UNCHANGED <<page, prompt, hub, port, backToCapture, session, table, file,
                   overrun, edits>>

\* PREV and NEXT: what was changed on this binding is kept.
PageBinding(step) ==
    /\ OnSettings
    /\ index + step \in 0 .. Count - 1
    /\ CommitWorking(Effective(port))
    /\ ShowBinding(Effective(port), index + step)
    /\ UNCHANGED <<page, prompt, hub, port, backToCapture, table, file, overrun>>

\* Seeded bug: ADD already moves the index past the last binding.
AddBindingMovesIndex ==
    /\ OnSettings /\ Count < MaxBindings
    /\ captured' = None
    /\ index' = Count
    /\ backToCapture' = TRUE
    /\ LeaveSettings("capture")
    /\ UNCHANGED <<hub, port, session, table, file, overrun, edits>>

\* ADD: capture an input for a further binding, unless the port is full.
AddBinding ==
    /\ OnSettings /\ Count < MaxBindings
    /\ captured' = None
    /\ backToCapture' = TRUE
    /\ LeaveSettings("capture")
    /\ UNCHANGED <<hub, port, index, session, table, file, overrun, edits>>

\* Seeded bug: the page goes on showing the index of the binding that was removed.
RemoveBindingKeepsIndex ==
    /\ OnSettings
    /\ index < Count
    /\ LET left == RemoveAt(Effective(port), index + 1)
       IN /\ Commit(port, left)
          /\ IF left # <<>> THEN UNCHANGED <<page, captured, values>>
             ELSE LeaveSettings(BackTarget) /\ captured' = None
    /\ UNCHANGED <<prompt, hub, port, index, backToCapture, table, file, overrun>>

\* REMOVE: the page goes on to a neighbour, or leaves a port without any binding.
RemoveBinding ==
    /\ OnSettings
    /\ LET list == Effective(port)
           left == IF index < Count THEN RemoveAt(list, index + 1) ELSE list
       IN /\ IF index < Count THEN Commit(port, left) ELSE NoCommit
          /\ \/ /\ left = <<>>
                /\ captured' = None
                /\ LeaveSettings(BackTarget)
                /\ UNCHANGED index
             \/ /\ left # <<>>
                /\ ShowBinding(left, IF index < Len(left) THEN index ELSE Len(left) - 1)
                /\ UNCHANGED <<page, prompt>>
    /\ UNCHANGED <<hub, port, backToCapture, table, file, overrun>>

\* BACK asks only if something was changed and not committed.
SettingsBack ==
    /\ OnSettings
    /\ IF working # baseline THEN prompt' = "keepSettings" /\ UNCHANGED <<page, values>>
       ELSE LeaveSettings(BackTarget)
    /\ UNCHANGED <<context, session, table, file, overrun, edits>>

SettingsKeep ==
    /\ prompt = "keepSettings"
    /\ IF index < Count THEN Commit(port, WithShown(Effective(port))) ELSE NoCommit
    /\ LeaveSettings(BackTarget)
    /\ UNCHANGED <<context, table, file, overrun>>

SettingsDiscard ==
    /\ prompt = "keepSettings"
    /\ LeaveSettings(BackTarget)
    /\ UNCHANGED <<context, session, table, file, overrun, edits>>

\* mkh_storage_reload_config: the file is parsed again, or it cannot be opened.
ReloadTable == table' \in {Load(file), WithFallbacks(Blank)}

\* RESET: the session is dropped, the page stays and shows the reloaded port.
Reset ==
    /\ OnSettings
    /\ ReloadTable
    /\ clearPendingSession
    /\ \/ table'[port] # <<>> /\ ShowBinding(table'[port], 0)
       \/ /\ table'[port] = <<>>
          /\ index' = 0 /\ captured' = None
          /\ working' = Default /\ baseline' = Default
    /\ UNCHANGED <<page, prompt, hub, port, backToCapture, file, overrun>>

\* SAVE: what is shown is committed, everything pending is pushed and saved, and the
\* session ends whether or not the save succeeded.
SettingsSave ==
    /\ OnSettings
    /\ edits < MaxEdits
    /\ LET all == [Pushed EXCEPT ![port] = WithShown(@)]
       IN table' = all /\ SaveTable(all)
    /\ EndSession

-----------------------------------------------------------------------------
\* Power loss or reset: only the file is left, and the boot loads it.
Restart ==
    /\ ReloadTable
    /\ LeaveSettings("dashboard")
    /\ clearEditContext /\ index' = 0 /\ backToCapture' = FALSE
    /\ clearPendingSession
    /\ overrun' = FALSE
    /\ UNCHANGED file

\* What the program does after a write past the array is not defined.
Tap ==
    /\ ~overrun
    /\ \/ OpenEditor \/ TestOn
       \/ HubsBack \/ ExitSave \/ ExitDiscard \/ ResetAll \/ ResetAllConfirm \/ ResetAllCancel
       \/ \E h \in Hubs : SelectHub(h)
       \/ PortsBack \/ \E p \in TablePorts : SelectPort(p)
       \/ CaptureBack \/ CaptureKeepOrDiscard \/ CaptureNext \/ Replace \/ Add
       \/ \E s \in Settings : Adjust(s)
       \/ \E step \in {-1, 1} : PageBinding(step)
       \/ AddBinding \/ RemoveBinding
       \/ SettingsBack \/ SettingsKeep \/ SettingsDiscard \/ Reset \/ SettingsSave

Next == Tap \/ (~overrun /\ \E i \in Inputs : Capture(i)) \/ Restart

Spec == Init /\ [][Next]_vars

-----------------------------------------------------------------------------
(***************************************************************************)
(* Properties.                                                             *)
(***************************************************************************)

\* Whatever sequence of BACK, NEXT, ADD, REPLACE, REMOVE and RESET led here, the
\* settings page shows the binding that KEEP and SAVE will overwrite: its index is one
\* of the port's bindings, and its input and baseline are that binding's.  Only after
\* a RESET to a port without bindings does it show none.
ShownIsEdited ==
    page = "settings" /\ ~overrun =>
        LET list == Effective(port)
        IN IF list = <<>> THEN index = 0 /\ captured = None
           ELSE /\ index < Len(list)
                /\ list[index + 1] = [input |-> captured, set |-> baseline]

\* REPLACE names a binding the port has: the index that ADD left unchanged on the way
\* to the capture page is still one when the prompt is answered.
ReplaceHasTarget == prompt = "replaceOrAdd" => index < Count

\* sketch.cpp:2508 (WO11): walking through the pages never makes a session dirty; a
\* port becomes dirty only in a step that changes what it will be mapped to.
DirtyMeansChanged == [][\A p \in dirty' \ dirty : Effective(p)' # Effective(p)]_vars

\* While a session has pending edits, a step changes the bindings of no port but the
\* one that is selected after it.
EditsStayOnTheirPort ==
    [][dirty' # {} => \A p \in TablePorts \ {port'} : Effective(p)' = Effective(p)]_vars

\* sketch.cpp:2183 (WO13): paging away from a binding never drops an edit of it.
PagingKeepsEdit ==
    [][OnSettings /\ OnSettings' /\ Count' = Count /\ index' # index /\ dirty' # {} =>
        Effective(port)'[index + 1].set = working]_vars

\* The pages together are an editor of a draft of the table: each step changes one
\* binding of it, pushes it, saves it, drops it or reloads it as a whole.
Session == INSTANCE EditSession WITH
    draft <- [p \in TablePorts |-> Effective(p)],
    Defaults <- WithFallbacks(Blank)
ImplementsSession == Session!SessionSpec

\* The following says what a comment of sketch.cpp says; the code breaks it.

\* sketch.cpp:2060: the cap on the bindings of a port is enforced by the editor, so no
\* binding is ever written past the port's array.
AddFitsArray == ~overrun
==============================================================================
