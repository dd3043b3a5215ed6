--------------------------- MODULE MkhEditorProofs ---------------------------
(***************************************************************************)
(* Proofs about MkhEditor, for every number of hubs, ports, inputs and      *)
(* settings, every cap on the bindings of a port and every set of changes:  *)
(* the pages never lose track of what they edit.                            *)
(***************************************************************************)
EXTENDS MkhEditor, MkhConfigFileProofs

-----------------------------------------------------------------------------
\* Lists of bindings

LEMMA ReplaceList ==
    ASSUME NEW s \in Lists, NEW i \in Nat, i < Len(s), NEW b \in Bindings
    PROVE  /\ [s EXCEPT ![i + 1] = b] \in Lists /\ Len([s EXCEPT ![i + 1] = b]) = Len(s)
           /\ [s EXCEPT ![i + 1] = b][i + 1] = b
           /\ s[i + 1] \in Bindings
<1>1. s \in Seq(Bindings) /\ Len(s) \in Nat /\ Len(s) <= MaxBindings
  BY ListFacts, LenProperties
<1>2. i + 1 \in 1 .. Len(s)
  BY <1>1
<1>3. /\ [s EXCEPT ![i + 1] = b] \in Seq(Bindings)
      /\ Len([s EXCEPT ![i + 1] = b]) = Len(s)
      /\ [s EXCEPT ![i + 1] = b][i + 1] = b
  BY <1>1, <1>2, ExceptSeq
<1>4. s[i + 1] \in Bindings
  BY <1>1, <1>2, ElementOfSeq
<1> QED
  BY <1>1, <1>3, <1>4, ListFacts

LEMMA RemoveList ==
    ASSUME NEW s \in Lists, NEW k \in 1 .. Len(s)
    PROVE  RemoveAt(s, k) \in Lists /\ Len(RemoveAt(s, k)) = Len(s) - 1
<1>1. s \in Seq(Bindings) /\ Len(s) \in Nat /\ Len(s) <= MaxBindings
  BY ListFacts, LenProperties
<1> DEFINE front == SubSeq(s, 1, k - 1)
           back == SubSeq(s, k + 1, Len(s))
<1>3. front \in Seq(Bindings) /\ Len(front) = k - 1
  BY <1>1, SubSeqProperties
<1>4. back \in Seq(Bindings) /\ Len(back) = Len(s) - k
  BY <1>1, SubSeqProperties
<1>5. RemoveAt(s, k) = front \o back
  BY DEF RemoveAt
<1> HIDE DEF front, back
<1> DEFINE left == front \o back
<1>6. left \in Seq(Bindings)
  BY <1>3, <1>4, ConcatProperties
<1>7. Len(left) = Len(front) + Len(back)
  BY <1>3, <1>4, ConcatProperties
<1> HIDE DEF left
<1>8. left \in Lists /\ Len(left) = Len(s) - 1
  BY <1>1, <1>3, <1>4, <1>6, <1>7, ListFacts
<1> QED
  BY <1>5, <1>8 DEF left

\* A member of a list.
LEMMA ElementOfList ==
    ASSUME NEW s \in Lists
    PROVE  /\ Len(s) \in Nat
           /\ \A i \in Nat : i < Len(s) => s[i + 1] \in Bindings
           /\ s = <<>> <=> Len(s) = 0
BY ListFacts, EmptySeq

-----------------------------------------------------------------------------
\* The draft: what the session shows of every port

Draft == [p \in TablePorts |-> Effective(p)]

LEMMA DraftType == TypeOK => Draft \in Tables /\ Pushed = Draft
BY DEF TypeOK, Draft, Effective, Tables, Lists, Pushed

LEMMA DraftAt ==
    ASSUME NEW p \in TablePorts
    PROVE  Effective(p) = Draft[p]
BY DEF Draft

LEMMA DraftSame ==
    ASSUME UNCHANGED <<dirty, pending, table>>
    PROVE  Draft' = Draft
BY DEF Draft, Effective

LEMMA DraftCommit ==
    ASSUME TypeOK, UNCHANGED table, NEW p \in TablePorts, NEW list, Commit(p, list)
    PROVE  Draft' = [Draft EXCEPT ![p] = list]
BY DEF Draft, Effective, Commit, TypeOK

LEMMA DraftCleared ==
    ASSUME dirty' = {}, table' \in Tables
    PROVE  Draft' = table'
BY DEF Draft, Effective, Tables

LEMMA DraftPushed ==
    ASSUME TypeOK, table' = Pushed, UNCHANGED session
    PROVE  Draft' = Draft
BY DEF Draft, Effective, session, Pushed, TypeOK

-----------------------------------------------------------------------------
\* The way to the settings page

\* Bindings are records.
LEMMA BindingFacts ==
    /\ \A x \in Inputs, s \in Settings : [input |-> x, set |-> s] \in Bindings
    /\ \A b \in Bindings : /\ b.input \in Inputs /\ b.set \in Settings
                           /\ b = [input |-> b.input, set |-> b.set]
                           /\ \A x \in Inputs : [b EXCEPT !.input = x] = [input |-> x, set |-> b.set]
                           /\ \A s \in Settings : [b EXCEPT !.set = s] = [input |-> b.input, set |-> s]
    /\ None \notin Inputs /\ Default \in Settings
BY InputsAssumption, BindingsAssumption

\* Arriving at an existing binding, or at a new one with an input for it: unless it would
\* write past the array, the page shows the binding it edits, which is the one it was sent
\* to, and a port becomes dirty only if its bindings change.
LEMMA EnterCases ==
    ASSUME TypeOK, NEW p \in TablePorts, NEW i \in 0 .. MaxBindings,
           NEW input \in Inputs \cup {None}, NEW fromCapture \in BOOLEAN,
           EnterSettings(p, i, input, fromCapture), UNCHANGED table,
           i < Len(Draft[p]) \/ (i = Len(Draft[p]) /\ input # None)
    PROVE  /\ page' = "settings" /\ prompt' = "none" /\ index' = i
           /\ captured' \in Inputs /\ working' \in Settings /\ baseline' = working'
           /\ backToCapture' = fromCapture /\ overrun' \in BOOLEAN
           /\ pending' \in [TablePorts -> Lists] /\ dirty' \subseteq TablePorts
           /\ edits' \in 0 .. MaxEdits
           /\ \A q \in TablePorts \ {p} : Draft'[q] = Draft[q]
           /\ Draft'[p] \in {Draft[p]} \cup Session!Revised(Draft[p])
           /\ ~overrun' => /\ i < Len(Draft'[p])
                           /\ Draft'[p][i + 1] = [input |-> captured', set |-> baseline']
           /\ \A q \in dirty' \ dirty : Draft'[q] # Draft[q]
<1> DEFINE list == Draft[p]
           isNew == i >= Len(list)
           old == IF isNew THEN [input |-> None, set |-> Default] ELSE list[i + 1]
           shown == IF input = None THEN old ELSE [old EXCEPT !.input = input]
<1>1. /\ list \in Lists /\ Len(list) \in Nat /\ Len(list) <= MaxBindings
      /\ Draft \in Tables /\ DOMAIN Draft = TablePorts
      /\ MaxBindings \in Nat
  BY DraftType, ListFacts, ElementOfList DEF Tables, Lists
<1>2. /\ ToPage("settings")
      /\ captured' = shown.input /\ index' = i /\ backToCapture' = fromCapture
      /\ working' = shown.set /\ baseline' = shown.set
      /\ overrun' = (shown # old /\ isNew /\ Len(list) >= MaxBindings)
      /\ IF shown = old \/ (isNew /\ Len(list) >= MaxBindings) THEN NoCommit
         ELSE Commit(p, IF isNew THEN Append(list, shown) ELSE [list EXCEPT ![i + 1] = shown])
  BY DraftAt DEF EnterSettings
<1>3. ~isNew => old \in Bindings /\ old = list[i + 1]
  BY <1>1, ElementOfList
<1>4. shown \in Bindings /\ (isNew => shown # old)
  <2>1. CASE isNew
    <3>1. input \in Inputs /\ shown = [input |-> input, set |-> Default]
      BY <1>1, <2>1
    <3> QED
      BY <2>1, <3>1, BindingFacts
  <2>2. CASE ~isNew
    BY <1>3, <2>2, BindingFacts
  <2> QED
    BY <2>1, <2>2
<1> HIDE DEF shown, old
<1>5. /\ page' = "settings" /\ prompt' = "none" /\ index' = i
      /\ captured' \in Inputs /\ working' \in Settings /\ baseline' = working'
      /\ backToCapture' = fromCapture
      /\ shown = [input |-> captured', set |-> baseline']
  BY <1>2, <1>4, BindingFacts DEF ToPage
<1>6. overrun' \in BOOLEAN
  BY <1>2
<1>7. CASE shown = old \/ (isNew /\ Len(list) >= MaxBindings)
  <2>1. NoCommit
    BY <1>2, <1>7
  <2>2. Draft' = Draft
    BY <2>1, DraftSame DEF NoCommit, session
  <2>3. ~overrun' => ~isNew /\ shown = list[i + 1]
    BY <1>2, <1>3, <1>4, <1>7
  <2>4. /\ pending' \in [TablePorts -> Lists] /\ dirty' \subseteq TablePorts
        /\ edits' \in 0 .. MaxEdits /\ dirty' = dirty
    BY <2>1 DEF NoCommit, session, TypeOK
  <2> QED
    BY <1>1, <1>5, <1>6, <2>2, <2>3, <2>4
<1>8. CASE ~(shown = old \/ (isNew /\ Len(list) >= MaxBindings))
  <2> DEFINE new == IF isNew THEN Append(list, shown) ELSE [list EXCEPT ![i + 1] = shown]
  <2>1. Commit(p, new)
    BY <1>2, <1>8
  <2>2. /\ new \in Lists /\ i < Len(new) /\ new[i + 1] = shown /\ new # list
        /\ new \in Session!Revised(list)
    <3>1. CASE isNew
      <4>1. i = Len(list) /\ Len(list) < MaxBindings
        BY <1>1, <1>8, <3>1
      <4>2. Append(list, shown) \in Lists /\ Len(Append(list, shown)) = Len(list) + 1
            /\ Append(list, shown)[Len(list) + 1] = shown
        BY <1>1, <1>4, <4>1, AppendList
      <4>3. Append(list, shown) \in Session!Revised(list)
        BY <1>4, <4>1 DEF Session!Revised
      <4> QED
        BY <1>1, <3>1, <4>1, <4>2, <4>3
    <3>2. CASE ~isNew
      <4>1. i < Len(list) /\ i \in Nat /\ i + 1 \in DOMAIN list
        BY <1>1, <3>2, ListFacts, LenProperties
      <4>2. /\ [list EXCEPT ![i + 1] = shown] \in Lists
            /\ Len([list EXCEPT ![i + 1] = shown]) = Len(list)
            /\ [list EXCEPT ![i + 1] = shown][i + 1] = shown
        BY <1>1, <1>4, <4>1, ReplaceList
      <4>3. [list EXCEPT ![i + 1] = shown] \in Session!Revised(list)
        BY <1>4, <4>1 DEF Session!Revised
      <4>4. shown # list[i + 1]
        BY <1>3, <1>8, <3>2
      <4> QED
        BY <3>2, <4>1, <4>2, <4>3, <4>4
    <3> QED
      BY <3>1, <3>2
  <2> HIDE DEF new
  <2>3. Draft' = [Draft EXCEPT ![p] = new]
    BY <2>1, DraftCommit
  <2>4. /\ pending' \in [TablePorts -> Lists] /\ dirty' = dirty \cup {p}
        /\ edits' \in 0 .. MaxEdits
    BY <2>1, <2>2, FilesAssumption DEF Commit, TypeOK
  <2>5. dirty \subseteq TablePorts
    BY DEF TypeOK
  <2>6. Draft'[p] = new /\ \A q \in TablePorts \ {p} : Draft'[q] = Draft[q]
    BY <1>1, <2>3
  <2> QED
    BY <1>5, <1>6, <2>2, <2>4, <2>5, <2>6
<1> QED
  BY <1>7, <1>8

-----------------------------------------------------------------------------
\* The inductive invariant: types, which page a prompt belongs to and what is selected on
\* it, an index that REPLACE can use, and the binding the settings page shows.

Shape ==
    /\ page \in {"capture", "settings"} => port \in TablePorts
    /\ prompt \in {"keepCapture", "replaceOrAdd"} => page = "capture"
    /\ prompt = "keepSettings" => page = "settings" /\ working # baseline

Target ==
    page = "capture" =>
        /\ index = 0 \/ index < Len(Draft[port])
        /\ prompt = "replaceOrAdd" => captured # None /\ index < Len(Draft[port])

Shown ==
    page = "settings" /\ ~overrun =>
        IF Draft[port] = <<>> THEN index = 0 /\ captured = None
        ELSE /\ index < Len(Draft[port])
             /\ Draft[port][index + 1] = [input |-> captured, set |-> baseline]

EInv == TypeOK /\ Shape /\ Target /\ Shown

\* What every step does beside keeping the invariant.
DirtyChanged == \A q \in dirty' \ dirty : Draft'[q] # Draft[q]
OthersKept == dirty' # {} => \A q \in TablePorts \ {port'} : Draft'[q] = Draft[q]
SessionStep == [Session!SessionNext]_(Session!sessionVars)
GoodStep == EInv' /\ DirtyChanged /\ OthersKept /\ SessionStep

-----------------------------------------------------------------------------
\* The steps of a session

LEMMA SelectedList ==
    ASSUME EInv, port \in TablePorts
    PROVE  /\ Effective(port) = Draft[port] /\ Draft[port] \in Lists
           /\ Count = Len(Draft[port]) /\ Count \in 0 .. MaxBindings
BY DraftAt, DraftType, ListFacts, ElementOfList DEF EInv, Tables, Lists, Count

\* An edit of one binding of one port.
LEMMA EditIsSession ==
    ASSUME NEW p \in TablePorts, \A q \in TablePorts \ {p} : Draft'[q] = Draft[q],
           Draft'[p] \in {Draft[p]} \cup Session!Revised(Draft[p]), UNCHANGED <<table, file>>
    PROVE  SessionStep
BY DEF SessionStep, Session!SessionNext, Session!Edit, Session!OneEdit, Draft

\* A step that leaves the draft, the table and the file alone.
LEMMA QuietIsSession ==
    ASSUME Draft' = Draft, UNCHANGED <<table, file>>
    PROVE  SessionStep
BY DEF SessionStep, Session!sessionVars, Draft

LEMMA SaveIsSession ==
    ASSUME NEW p \in TablePorts, \A q \in TablePorts \ {p} : Draft'[q] = Draft[q],
           Draft'[p] \in {Draft[p]} \cup Session!Revised(Draft[p]),
           table' = Draft', file' \in {file, FileOf(Draft')}
    PROVE  SessionStep
BY DEF SessionStep, Session!SessionNext, Session!Save, Session!OneEdit, Draft

LEMMA LeaveIsSession ==
    ASSUME Draft' = table, UNCHANGED <<table, file>>
    PROVE  SessionStep
BY DEF SessionStep, Session!SessionNext, Session!Leave, Draft

LEMMA PushIsSession ==
    ASSUME table' = Draft, Draft' = Draft, UNCHANGED file
    PROVE  SessionStep
BY DEF SessionStep, Session!SessionNext, Session!Push, Draft

LEMMA ReloadIsSession ==
    ASSUME ReloadTable, Draft' = table', UNCHANGED file
    PROVE  SessionStep
BY DEF SessionStep, Session!SessionNext, Session!Reload, Session!Reloads, ReloadTable, Draft

LEMMA WipeIsSession ==
    ASSUME Draft' = Blank, table' = Blank, file' \in {file, FileOf(Blank)}
    PROVE  SessionStep
BY DEF SessionStep, Session!SessionNext, Session!Wipe, Draft

-----------------------------------------------------------------------------
\* Steps that leave the draft alone

LEMMA QuietKept ==
    ASSUME UNCHANGED <<dirty, pending, table, file>>
    PROVE  Draft' = Draft /\ DirtyChanged /\ OthersKept /\ SessionStep
<1>1. Draft' = Draft
  BY DraftSame
<1>2. SessionStep
  BY <1>1, QuietIsSession
<1> QED
  BY <1>1, <1>2 DEF DirtyChanged, OthersKept

\* A step to a page that selects no binding.
LEMMA AwayStep ==
    ASSUME EInv, UNCHANGED <<dirty, pending, table, file, edits, overrun, index, backToCapture>>,
           page' \in {"hubs", "ports"}, prompt' = "none",
           hub' \in Hubs \cup {-1}, port' \in TablePorts \cup {0},
           captured' \in Inputs \cup {None}, working' \in Settings, baseline' \in Settings
    PROVE  GoodStep
<1>1. DirtyChanged /\ OthersKept /\ SessionStep
  BY QuietKept
<1>2. TypeOK'
  BY DEF EInv, TypeOK
<1>3. Shape' /\ Target' /\ Shown'
  BY DEF Shape, Target, Shown
<1> QED
  BY <1>1, <1>2, <1>3 DEF GoodStep, EInv

\* A step that changes no more than the prompt, to one that fits the page.
LEMMA PromptStep ==
    ASSUME EInv,
           UNCHANGED <<page, context, values, dirty, pending, table, file, edits, overrun>>,
           \/ prompt' \in {"none", "exit", "resetAll"}
           \/ prompt' = "keepCapture" /\ page = "capture"
           \/ prompt' = "replaceOrAdd" /\ page = "capture" /\ captured # None
                 /\ index < Len(Draft[port])
           \/ prompt' = "keepSettings" /\ page = "settings" /\ working # baseline
    PROVE  GoodStep
<1>1. Draft' = Draft /\ DirtyChanged /\ OthersKept /\ SessionStep
  BY QuietKept
<1>2. TypeOK'
  BY DEF EInv, TypeOK, context, values
<1>3. Shape' /\ Target' /\ Shown'
  BY <1>1 DEF EInv, Shape, Target, Shown, context, values
<1> QED
  BY <1>1, <1>2, <1>3 DEF GoodStep, EInv

LEMMA BrowseSteps ==
    ASSUME EInv, \/ ResetAll \/ ResetAllCancel \/ PortsBack
                 \/ \E h \in Hubs : SelectHub(h)
                 \/ page = "hubs" /\ dirty # {} /\ HubsBack
    PROVE  GoodStep
<1>1. CASE ResetAll \/ ResetAllCancel \/ (page = "hubs" /\ dirty # {} /\ HubsBack)
  BY <1>1, PromptStep DEF ResetAll, ResetAllCancel, HubsBack, session
<1>2. CASE PortsBack
  BY <1>2, AwayStep DEF PortsBack, clearEditContext, ToPage, session, values, EInv, TypeOK
<1>3. ASSUME NEW h \in Hubs, SelectHub(h)
      PROVE  GoodStep
  BY <1>3, AwayStep DEF SelectHub, ToPage, session, values, EInv, TypeOK
<1> QED
  BY <1>1, <1>2, <1>3

LEMMA CaptureSteps ==
    ASSUME EInv, CaptureBack \/ CaptureKeepOrDiscard \/ (\E i \in Inputs : Capture(i))
    PROVE  GoodStep
<1>1. CASE CaptureBack
  <2>1. CASE captured # None
    BY <1>1, <2>1, PromptStep DEF CaptureBack, session
  <2>2. CASE captured = None
    BY <1>1, <2>2, AwayStep DEF CaptureBack, ToPage, session, context, values, EInv, TypeOK
  <2> QED
    BY <2>1, <2>2
<1>2. CASE CaptureKeepOrDiscard
  BY <1>2, AwayStep DEF CaptureKeepOrDiscard, ToPage, session, values, EInv, TypeOK
<1>3. ASSUME NEW i \in Inputs, Capture(i)
      PROVE  GoodStep
  <2>1. Draft' = Draft /\ DirtyChanged /\ OthersKept /\ SessionStep
    BY <1>3, QuietKept DEF Capture, session
  <2>2. TypeOK'
    BY <1>3 DEF EInv, TypeOK, Capture, session, values
  <2>3. Shape' /\ Target' /\ Shown'
    BY <1>3, <2>1, InputsAssumption DEF EInv, Shape, Target, Shown, Capture, values
  <2> QED
    BY <2>1, <2>2, <2>3 DEF GoodStep, EInv
<1> QED
  BY <1>1, <1>2, <1>3

-----------------------------------------------------------------------------
\* Steps that may edit a binding

LEMMA EnterStep ==
    ASSUME EInv, NEW p \in TablePorts, NEW i \in 0 .. MaxBindings,
           NEW input \in Inputs \cup {None}, NEW fromCapture \in BOOLEAN,
           EnterSettings(p, i, input, fromCapture), UNCHANGED <<table, file>>,
           port' = p, hub' \in Hubs \cup {-1},
           i < Len(Draft[p]) \/ (i = Len(Draft[p]) /\ input # None)
    PROVE  GoodStep
<1>1. /\ page' = "settings" /\ prompt' = "none" /\ index' = i
      /\ captured' \in Inputs /\ working' \in Settings /\ baseline' = working'
      /\ backToCapture' = fromCapture /\ overrun' \in BOOLEAN
      /\ pending' \in [TablePorts -> Lists] /\ dirty' \subseteq TablePorts
      /\ edits' \in 0 .. MaxEdits
  BY EnterCases, SMTT(20) DEF EInv
<1>2. /\ \A q \in TablePorts \ {p} : Draft'[q] = Draft[q]
      /\ Draft'[p] \in {Draft[p]} \cup Session!Revised(Draft[p])
      /\ ~overrun' => /\ i < Len(Draft'[p])
                      /\ Draft'[p][i + 1] = [input |-> captured', set |-> baseline']
      /\ \A q \in dirty' \ dirty : Draft'[q] # Draft[q]
  BY EnterCases DEF EInv
<1>3. TypeOK'
  BY <1>1 DEF EInv, TypeOK
<1>4. Shape' /\ Target'
  BY <1>1 DEF Shape, Target
<1>5. Shown'
  <2>1. ASSUME ~overrun' PROVE Draft'[p] # <<>>
    <3>1. i < Len(Draft'[p])
      BY <1>2, <2>1
    <3> QED
      BY <3>1, EmptySeq
  <2> QED
    BY <1>1, <1>2, <2>1 DEF Shown
<1>6. SessionStep
  BY <1>2, EditIsSession
<1> QED
  BY <1>2, <1>3, <1>4, <1>5, <1>6 DEF GoodStep, EInv, DirtyChanged, OthersKept

LEMMA SelectPortStep ==
    ASSUME EInv, NEW p \in TablePorts, SelectPort(p)
    PROVE  GoodStep
<1>1. Effective(p) = Draft[p] /\ Draft[p] \in Lists /\ Len(Draft[p]) \in Nat
  BY DraftAt, DraftType, ElementOfList DEF EInv, Tables, Lists
<1>2. MaxBindings \in Nat /\ 0 \in 0 .. MaxBindings /\ hub' = hub /\ hub \in Hubs \cup {-1}
  BY ListFacts DEF SelectPort, EInv, TypeOK
<1>3. CASE Draft[p] # <<>>
  <2>1. 0 < Len(Draft[p])
    BY <1>1, <1>3, ElementOfList
  <2>2. Draft[p][1] \in Bindings
    <3>1. Draft[p][0 + 1] \in Bindings
      BY <1>1, <2>1, ElementOfList
    <3> QED
      BY <3>1
  <2>3. Draft[p][1].input \in Inputs \cup {None}
    BY <2>2, BindingFacts
  <2>4. EnterSettings(p, 0, Draft[p][1].input, FALSE)
    BY <1>1, <1>3 DEF SelectPort
  <2>5. port' = p /\ UNCHANGED <<table, file>>
    BY DEF SelectPort
  <2> QED
    BY <1>2, <2>1, <2>3, <2>4, <2>5, EnterStep
<1>4. CASE Draft[p] = <<>>
  <2>1. /\ port' = p /\ captured' \in {captured, None} /\ index' = 0
        /\ page' = "capture" /\ prompt' = "none"
        /\ UNCHANGED <<backToCapture, values, session, overrun, edits, hub, table, file>>
    BY <1>1, <1>4 DEF SelectPort, ToPage
  <2>2. Draft' = Draft /\ DirtyChanged /\ OthersKept /\ SessionStep
    BY <2>1, QuietKept DEF session
  <2>3. TypeOK'
    BY <1>2, <2>1 DEF EInv, TypeOK, session, values
  <2>4. Shape' /\ Target' /\ Shown'
    BY <2>1 DEF Shape, Target, Shown
  <2> QED
    BY <2>2, <2>3, <2>4 DEF GoodStep, EInv
<1> QED
  BY <1>3, <1>4

LEMMA NextSteps ==
    ASSUME EInv, CaptureNext \/ Replace \/ Add
    PROVE  GoodStep
<1>1. /\ page = "capture" /\ port \in TablePorts
      /\ hub \in Hubs \cup {-1} /\ captured \in Inputs \cup {None}
      /\ index \in 0 .. MaxBindings
  BY DEF EInv, Shape, TypeOK, CaptureNext, Replace, Add
<1>2. /\ Effective(port) = Draft[port] /\ Draft[port] \in Lists
      /\ Count = Len(Draft[port]) /\ Count \in 0 .. MaxBindings
  BY <1>1, SelectedList
<1>3. MaxBindings \in Nat /\ 0 \in 0 .. MaxBindings
  BY ListFacts
<1>4. CASE CaptureNext
  <2>1. CASE Count > 0 /\ prompt' = "replaceOrAdd"
    <3>1. index < Len(Draft[port])
      BY <1>1, <1>2, <2>1 DEF EInv, Target
    <3>2. captured # None
      BY <1>4 DEF CaptureNext
    <3>3. UNCHANGED <<page, context, values, dirty, pending, table, file, edits, overrun>>
      BY <1>2, <1>3, <1>4, <2>1 DEF CaptureNext, session, EnterSettings, ToPage
    <3> QED
      BY <1>1, <2>1, <3>1, <3>2, <3>3, PromptStep
  <2>2. CASE ~(Count > 0 /\ prompt' = "replaceOrAdd")
    <3>1. /\ Count = 0 /\ EnterSettings(port, 0, captured, TRUE)
          /\ UNCHANGED <<hub, port, table, file>> /\ captured # None
      BY <1>4, <2>2 DEF CaptureNext
    <3> QED
      BY <1>1, <1>2, <1>3, <3>1, EnterStep
  <2> QED
    BY <2>1, <2>2
<1>5. CASE Replace
  <2>1. index < Len(Draft[port])
    BY <1>1, <1>5 DEF Replace, EInv, Target
  <2>2. EnterSettings(port, index, captured, TRUE) /\ UNCHANGED <<hub, port, table, file>>
    BY <1>5 DEF Replace
  <2> QED
    BY <1>1, <2>1, <2>2, EnterStep
<1>6. CASE Add
  <2>1. captured # None
    BY <1>1, <1>6 DEF Add, EInv, Target
  <2>2. EnterSettings(port, Count, captured, TRUE) /\ UNCHANGED <<hub, port, table, file>>
    BY <1>6 DEF Add
  <2> QED
    BY <1>1, <1>2, <2>1, <2>2, EnterStep
<1> QED
  BY <1>4, <1>5, <1>6

\* What the settings page shows, unless the array was overrun.
LEMMA OnPage ==
    ASSUME EInv, page = "settings", ~overrun
    PROVE  /\ port \in TablePorts /\ Effective(port) = Draft[port] /\ Draft[port] \in Lists
           /\ Count = Len(Draft[port]) /\ Count \in 0 .. MaxBindings
           /\ index \in Nat /\ working \in Settings /\ baseline \in Settings
           /\ index >= Count => Count = 0 /\ Draft[port] = <<>> /\ index = 0 /\ captured = None
           /\ index < Count => /\ Draft[port] # <<>> /\ captured \in Inputs
                               /\ Draft[port][index + 1] = [input |-> captured, set |-> baseline]
<1>1. port \in TablePorts
  BY DEF EInv, Shape
<1>2. /\ Effective(port) = Draft[port] /\ Draft[port] \in Lists
      /\ Count = Len(Draft[port]) /\ Count \in 0 .. MaxBindings
  BY <1>1, SelectedList
<1>3. index \in Nat /\ working \in Settings /\ baseline \in Settings /\ MaxBindings \in Nat
  BY ListFacts DEF EInv, TypeOK
<1>4. Draft[port] = <<>> <=> Count = 0
  BY <1>2, ElementOfList
<1>5. IF Draft[port] = <<>> THEN index = 0 /\ captured = None
      ELSE /\ index < Len(Draft[port])
           /\ Draft[port][index + 1] = [input |-> captured, set |-> baseline]
  BY DEF EInv, Shown
<1>6. index < Count => captured \in Inputs
  <2> SUFFICES ASSUME index < Count PROVE captured \in Inputs
    OBVIOUS
  <2>1. Draft[port][index + 1] \in Bindings
    BY <1>2, <1>3, ElementOfList
  <2>2. Draft[port][index + 1].input = captured
    BY <1>2, <1>3, <1>4, <1>5
  <2> QED
    BY <2>1, <2>2, BindingFacts
<1> QED
  BY <1>1, <1>2, <1>3, <1>4, <1>5, <1>6

\* A list with new settings for one of its bindings.
LEMMA ResetList ==
    ASSUME NEW s \in Lists, NEW i \in Nat, i < Len(s), NEW x \in Inputs,
           NEW old, s[i + 1] = [input |-> x, set |-> old], NEW new \in Settings
    PROVE  LET t == [s EXCEPT ![i + 1] = [input |-> x, set |-> new]]
           IN /\ [s EXCEPT ![i + 1].set = new] = t
              /\ t \in Lists /\ Len(t) = Len(s) /\ t[i + 1] = [input |-> x, set |-> new]
              /\ t \in Session!Revised(s)
              /\ new # old => t # s
<1>1. [input |-> x, set |-> new] \in Bindings
  BY BindingFacts
<1>2. i + 1 \in DOMAIN s
  BY ListFacts, LenProperties
<1>3. [s EXCEPT ![i + 1].set = new] = [s EXCEPT ![i + 1] = [input |-> x, set |-> new]]
  <2>1. [s[i + 1] EXCEPT !.set = new] = [input |-> x, set |-> new]
    OBVIOUS
  <2> QED
    BY <2>1
<1> DEFINE b == [input |-> x, set |-> new]
           t == [s EXCEPT ![i + 1] = b]
<1>4. t \in Lists /\ Len(t) = Len(s) /\ t[i + 1] = b
  BY <1>1, ReplaceList
<1>5. t \in Session!Revised(s)
  BY <1>1, <1>2 DEF Session!Revised
<1>6. new # old => b # s[i + 1]
  BY DEF b
<1> HIDE DEF b
<1>7. new # old => t # s
  BY <1>4, <1>6
<1> QED
  BY <1>3, <1>4, <1>5, <1>7 DEF b

\* A step that commits a changed list for the selected port.
LEMMA CommitKept ==
    ASSUME EInv, port \in TablePorts, NEW new \in Lists, Commit(port, new),
           UNCHANGED <<table, file, port>>,
           new \in Session!Revised(Draft[port]), new # Draft[port]
    PROVE  /\ Draft'[port'] = new
           /\ DirtyChanged /\ OthersKept /\ SessionStep
           /\ pending' \in [TablePorts -> Lists] /\ dirty' \subseteq TablePorts
           /\ edits' \in 0 .. MaxEdits
<1>1. Draft' = [Draft EXCEPT ![port] = new]
  BY DraftCommit DEF EInv
<1>2. DOMAIN Draft = TablePorts
  BY DEF Draft
<1>3. Draft'[port] = new /\ \A q \in TablePorts \ {port} : Draft'[q] = Draft[q]
  BY <1>1, <1>2
<1>4. SessionStep
  BY <1>3, EditIsSession
<1>5. /\ pending' \in [TablePorts -> Lists] /\ dirty' = dirty \cup {port}
      /\ edits' \in 0 .. MaxEdits /\ dirty \subseteq TablePorts
  BY FilesAssumption DEF Commit, EInv, TypeOK
<1>6. DirtyChanged /\ OthersKept
  BY <1>3, <1>5 DEF DirtyChanged, OthersKept
<1> QED
  BY <1>3, <1>4, <1>5, <1>6

\* A step from the settings page back to the port or to the capture page.
LEMMA LeaveKept ==
    ASSUME EInv, port \in TablePorts, NEW to \in {"capture", "ports"}, LeaveSettings(to),
           UNCHANGED <<hub, port, table, file, overrun>>,
           backToCapture' \in BOOLEAN, captured' \in Inputs \cup {None},
           index' \in 0 .. MaxBindings, index' = 0 \/ index' < Len(Draft'[port]),
           pending' \in [TablePorts -> Lists], dirty' \subseteq TablePorts,
           edits' \in 0 .. MaxEdits
    PROVE  EInv'
<1>1. page' = to /\ prompt' = "none" /\ working' = Default /\ baseline' = Default
  BY DEF LeaveSettings, ToPage
<1>2. TypeOK'
  BY <1>1, InputsAssumption DEF EInv, TypeOK
<1>3. Shape' /\ Target' /\ Shown'
  BY <1>1 DEF Shape, Target, Shown
<1> QED
  BY <1>2, <1>3 DEF EInv

\* A step that stays on the settings page and shows binding i of the selected port.
LEMMA ShowKept ==
    ASSUME EInv, port \in TablePorts, NEW i \in Nat, i < Len(Draft'[port]),
           Draft'[port] \in Lists, page' = "settings", prompt' = "none",
           ShowBinding(Draft'[port], i),
           UNCHANGED <<hub, port, backToCapture>>, overrun' \in BOOLEAN,
           table' \in Tables, file' \in File,
           pending' \in [TablePorts -> Lists], dirty' \subseteq TablePorts,
           edits' \in 0 .. MaxEdits
    PROVE  EInv'
<1> DEFINE list == Draft'[port]
<1>1. list[i + 1] \in Bindings /\ list # <<>> /\ Len(list) \in Nat /\ Len(list) <= MaxBindings
  BY ElementOfList, ListFacts, EmptySeq
<1>2. /\ index' = i /\ captured' = list[i + 1].input
      /\ working' = list[i + 1].set /\ baseline' = list[i + 1].set
  BY DEF ShowBinding
<1>3. /\ captured' \in Inputs /\ working' \in Settings /\ baseline' \in Settings
      /\ list[i + 1] = [input |-> captured', set |-> baseline']
  BY <1>1, <1>2, BindingFacts
<1>4. i \in 0 .. MaxBindings
  BY <1>1, ListFacts
<1>5. TypeOK'
  BY <1>2, <1>3, <1>4 DEF EInv, TypeOK
<1>6. Shape' /\ Target'
  BY DEF Shape, Target
<1>7. Shown'
  BY <1>1, <1>2, <1>3 DEF Shown
<1> QED
  BY <1>5, <1>6, <1>7 DEF EInv

LEMMA PlainSettingsSteps ==
    ASSUME EInv, ~overrun,
           (\E s \in Settings : Adjust(s)) \/ AddBinding \/ SettingsBack \/ SettingsDiscard
    PROVE  GoodStep
<1>1. page = "settings"
  BY DEF EInv, Shape, Adjust, AddBinding, SettingsBack, SettingsDiscard, OnSettings
<1>2. /\ port \in TablePorts /\ Draft[port] \in Lists
      /\ Count = Len(Draft[port]) /\ Count \in 0 .. MaxBindings
      /\ index = 0 \/ index < Count
      /\ index \in 0 .. MaxBindings /\ captured \in Inputs \cup {None}
      /\ backToCapture \in BOOLEAN /\ BackTarget \in {"capture", "ports"}
      /\ pending \in [TablePorts -> Lists] /\ dirty \subseteq TablePorts
      /\ edits \in 0 .. MaxEdits
  <2>1. index = 0 \/ index < Count
    BY <1>1, OnPage, ListFacts
  <2> QED
    BY <1>1, <2>1, OnPage DEF EInv, TypeOK, BackTarget
<1>3. UNCHANGED <<hub, port, dirty, pending, table, file, edits, overrun>>
  BY DEF Adjust, AddBinding, SettingsBack, SettingsDiscard, session, context
<1>4. Draft' = Draft /\ DirtyChanged /\ OthersKept /\ SessionStep
  BY <1>3, QuietKept
<1>9. /\ index = 0 \/ index < Len(Draft'[port])
      /\ pending' \in [TablePorts -> Lists] /\ dirty' \subseteq TablePorts
      /\ edits' \in 0 .. MaxEdits
  BY <1>2, <1>3, <1>4
<1>5. ASSUME NEW s \in Settings, Adjust(s) PROVE EInv'
  <2>1. TypeOK'
    BY <1>3, <1>5 DEF EInv, TypeOK, Adjust, context
  <2>2. Shape' /\ Target' /\ Shown'
    BY <1>1, <1>4, <1>5 DEF EInv, Shape, Target, Shown, Adjust, OnSettings, context
  <2> QED
    BY <2>1, <2>2 DEF EInv
<1>6. ASSUME AddBinding PROVE EInv'
  <2>1. /\ LeaveSettings("capture") /\ index' = index /\ captured' = None
        /\ backToCapture' = TRUE
    BY <1>6 DEF AddBinding
  <2> QED
    BY <1>2, <1>3, <1>9, <2>1, LeaveKept
<1>7. ASSUME SettingsBack PROVE EInv'
  <2>1. CASE working # baseline
    <3>1. GoodStep
      BY <1>1, <1>7, <2>1, PromptStep DEF SettingsBack, session
    <3> QED
      BY <3>1 DEF GoodStep
  <2>2. CASE working = baseline
    <3>1. LeaveSettings(BackTarget) /\ UNCHANGED <<index, captured, backToCapture>>
      BY <1>7, <2>2 DEF SettingsBack, context
    <3> QED
      BY <1>2, <1>3, <1>9, <3>1, LeaveKept
  <2> QED
    BY <2>1, <2>2
<1>8. ASSUME SettingsDiscard PROVE EInv'
  <2>1. LeaveSettings(BackTarget) /\ UNCHANGED <<index, captured, backToCapture>>
    BY <1>8 DEF SettingsDiscard, context
  <2> QED
    BY <1>2, <1>3, <1>9, <2>1, LeaveKept
<1> QED
  BY <1>4, <1>5, <1>6, <1>7, <1>8 DEF GoodStep

\* PREV and NEXT.  The binding that is left behind holds what was set on it.
LEMMA PageBindingStep ==
    ASSUME EInv, ~overrun, NEW step \in {-1, 1}, PageBinding(step)
    PROVE  GoodStep /\ Draft'[port][index + 1].set = working
<1> DEFINE list == Draft[port]
           i == index + step
           t == [list EXCEPT ![index + 1] = [input |-> captured, set |-> working]]
<1>1. /\ page = "settings" /\ i \in 0 .. Count - 1 /\ CommitWorking(Effective(port))
      /\ ShowBinding(Effective(port), i)
      /\ UNCHANGED <<page, prompt, hub, port, backToCapture, table, file, overrun>>
      /\ prompt = "none"
  BY DEF PageBinding, OnSettings
<1>2. /\ port \in TablePorts /\ Effective(port) = list /\ list \in Lists
      /\ Count = Len(list) /\ Count \in Nat
      /\ index \in Nat /\ working \in Settings
      /\ index >= Count => Count = 0
  BY <1>1, OnPage
<1>3. i \in Nat /\ i # index /\ i < Len(list) /\ index < Len(list)
  BY <1>1, <1>2
<1>4. captured \in Inputs /\ list[index + 1] = [input |-> captured, set |-> baseline]
  BY <1>1, <1>2, <1>3, OnPage
<1>5. table' \in Tables /\ file' \in File /\ overrun' \in BOOLEAN
  BY <1>1 DEF EInv, TypeOK
<1>6. CASE working # baseline
  <2>1. /\ [list EXCEPT ![index + 1].set = working] = t
        /\ t \in Lists /\ Len(t) = Len(list)
        /\ t[index + 1] = [input |-> captured, set |-> working]
        /\ t \in Session!Revised(list) /\ t # list
    <3>0. index < Len(list)
      BY <1>3
    <3>1. [list EXCEPT ![index + 1].set = working] = t
      BY <1>2, <1>4, <3>0, ResetList
    <3>2. /\ t \in Lists /\ Len(t) = Len(list)
          /\ t[index + 1] = [input |-> captured, set |-> working]
          /\ t \in Session!Revised(list) /\ t # list
      BY <1>2, <1>4, <1>6, <3>0, ResetList, SMTT(20)
    <3> QED
      BY <3>1, <3>2
  <2>2. Commit(port, t)
    BY <1>1, <1>2, <1>3, <1>6, <2>1 DEF CommitWorking
  <2>3. t[i + 1] = list[i + 1]
    <3>1. i + 1 \in DOMAIN list /\ i + 1 # index + 1
      BY <1>2, <1>3, ListFacts, LenProperties
    <3> QED
      BY <3>1
  <2> HIDE DEF t
  <2>4. /\ Draft'[port'] = t /\ DirtyChanged /\ OthersKept /\ SessionStep
        /\ pending' \in [TablePorts -> Lists] /\ dirty' \subseteq TablePorts
        /\ edits' \in 0 .. MaxEdits
    BY <1>1, <1>2, <2>1, <2>2, CommitKept
  <2>5. ShowBinding(t, i)
    BY <1>1, <1>2, <2>3 DEF ShowBinding
  <2>6. Draft'[port] = t
    BY <1>1, <2>4
  <2> HIDE DEF list, i
  <2>7. EInv'
    BY <1>1, <1>2, <1>3, <1>5, <2>1, <2>4, <2>5, <2>6, ShowKept
  <2> QED
    BY <2>1, <2>4, <2>6, <2>7 DEF GoodStep
<1>7. CASE working = baseline
  <2>1. NoCommit
    BY <1>1, <1>7 DEF CommitWorking
  <2>2. Draft' = Draft /\ DirtyChanged /\ OthersKept /\ SessionStep
    BY <1>1, <2>1, QuietKept DEF NoCommit, session
  <2>3. /\ pending' \in [TablePorts -> Lists] /\ dirty' \subseteq TablePorts
        /\ edits' \in 0 .. MaxEdits
    BY <2>1 DEF NoCommit, session, EInv, TypeOK
  <2>4. Draft'[port] = list /\ ShowBinding(Draft'[port], i)
    BY <1>1, <1>2, <2>2 DEF ShowBinding
  <2> HIDE DEF list, i
  <2>5. EInv'
    BY <1>1, <1>2, <1>3, <1>5, <2>3, <2>4, ShowKept
  <2>6. Draft'[port][index + 1].set = working
    BY <1>4, <1>7, <2>4
  <2> QED
    BY <2>2, <2>5, <2>6 DEF GoodStep
<1> QED
  BY <1>6, <1>7

LEMMA SettingsKeepStep ==
    ASSUME EInv, ~overrun, SettingsKeep
    PROVE  GoodStep
<1> DEFINE list == Draft[port]
           t == [list EXCEPT ![index + 1] = [input |-> captured, set |-> working]]
<1>1. /\ page = "settings" /\ working # baseline
      /\ IF index < Count THEN Commit(port, WithShown(Effective(port))) ELSE NoCommit
      /\ LeaveSettings(BackTarget) /\ BackTarget \in {"capture", "ports"}
      /\ UNCHANGED <<hub, port, captured, index, backToCapture, table, file, overrun>>
  BY DEF SettingsKeep, EInv, Shape, context, BackTarget
<1>2. /\ port \in TablePorts /\ Effective(port) = list /\ list \in Lists
      /\ Count = Len(list) /\ Count \in Nat
      /\ index \in Nat /\ working \in Settings
      /\ index >= Count => index = 0
  BY <1>1, OnPage
<1>3. /\ index' \in 0 .. MaxBindings /\ captured' \in Inputs \cup {None}
      /\ backToCapture' \in BOOLEAN
  BY <1>1 DEF EInv, TypeOK
<1>4. CASE index < Count
  <2>1. captured \in Inputs /\ list[index + 1] = [input |-> captured, set |-> baseline]
    BY <1>1, <1>4, OnPage
  <2>2. /\ t \in Lists /\ Len(t) = Len(list)
        /\ t \in Session!Revised(list) /\ t # list
    BY <1>1, <1>2, <1>4, <2>1, ResetList
  <2>3. Commit(port, t)
    BY <1>1, <1>2, <1>4 DEF WithShown
  <2> HIDE DEF t
  <2>4. /\ Draft'[port'] = t /\ DirtyChanged /\ OthersKept /\ SessionStep
        /\ pending' \in [TablePorts -> Lists] /\ dirty' \subseteq TablePorts
        /\ edits' \in 0 .. MaxEdits
    BY <1>1, <1>2, <2>2, <2>3, CommitKept
  <2>5. index' < Len(Draft'[port])
    BY <1>1, <1>2, <1>4, <2>2, <2>4
  <2>6. EInv'
    BY <1>1, <1>2, <1>3, <2>4, <2>5, LeaveKept
  <2> QED
    BY <2>4, <2>6 DEF GoodStep
<1>5. CASE ~(index < Count)
  <2>1. NoCommit
    BY <1>1, <1>5
  <2>2. Draft' = Draft /\ DirtyChanged /\ OthersKept /\ SessionStep
    BY <1>1, <2>1, QuietKept DEF NoCommit, session
  <2>3. /\ pending' \in [TablePorts -> Lists] /\ dirty' \subseteq TablePorts
        /\ edits' \in 0 .. MaxEdits
    BY <2>1 DEF NoCommit, session, EInv, TypeOK
  <2>4. index' = 0
    BY <1>1, <1>2, <1>5
  <2>5. EInv'
    BY <1>1, <1>2, <1>3, <2>3, <2>4, LeaveKept
  <2> QED
    BY <2>2, <2>5 DEF GoodStep
<1> QED
  BY <1>4, <1>5

\* REMOVE: the port has one binding less, or had none.
LEMMA RemoveBindingStep ==
    ASSUME EInv, ~overrun, RemoveBinding
    PROVE  /\ GoodStep
           /\ index < Count => Len(Draft'[port]) = Count - 1
           /\ index >= Count => index' = index
<1> DEFINE list == Draft[port]
           left == IF index < Count THEN RemoveAt(list, index + 1) ELSE list
           k == IF index < Len(left) THEN index ELSE Len(left) - 1
<1>1. page = "settings" /\ prompt = "none"
  BY DEF RemoveBinding, OnSettings
<1>2. /\ port \in TablePorts /\ Effective(port) = list /\ list \in Lists
      /\ Count = Len(list) /\ Count \in Nat /\ index \in Nat
      /\ index >= Count => Count = 0 /\ list = <<>> /\ index = 0
  BY <1>1, OnPage
<1>3. /\ IF index < Count THEN Commit(port, left) ELSE NoCommit
      /\ \/ /\ left = <<>>
            /\ captured' = None
            /\ LeaveSettings(BackTarget)
            /\ UNCHANGED index
         \/ /\ left # <<>>
            /\ ShowBinding(left, k)
            /\ UNCHANGED <<page, prompt>>
      /\ UNCHANGED <<hub, port, backToCapture, table, file, overrun>>
  BY <1>2 DEF RemoveBinding
<1>4. /\ table' \in Tables /\ file' \in File /\ overrun' \in BOOLEAN /\ backToCapture' \in BOOLEAN
      /\ BackTarget \in {"capture", "ports"} /\ index \in 0 .. MaxBindings
  BY <1>3 DEF EInv, TypeOK, BackTarget
<1>5. /\ left \in Lists
      /\ index < Count => Len(left) = Count - 1 /\ left \in Session!Revised(list) /\ left # list
      /\ left = <<>> => index = 0
  <2>1. CASE index < Count
    <3> DEFINE n == index + 1
    <3>1. n \in 1 .. Len(list) /\ n \in DOMAIN list
      BY <1>2, <2>1, ListFacts, LenProperties
    <3>2. left = RemoveAt(list, n)
      BY <2>1
    <3> HIDE DEF n, left
    <3>3. left \in Lists /\ Len(left) = Count - 1
      BY <1>2, <3>1, <3>2, RemoveList
    <3>4. left \in Session!Revised(list)
      <4>1. Session!RemoveAt(list, n) = RemoveAt(list, n)
        BY DEF RemoveAt, Session!RemoveAt
      <4>2. Session!RemoveAt(list, n) \in Session!Revised(list)
        BY <3>1 DEF Session!Revised
      <4> QED
        BY <3>2, <4>1, <4>2
    <3>5. left = <<>> => index = 0
      BY <1>2, <2>1, <3>3, ElementOfList
    <3>6. left # list
      BY <1>2, <3>3
    <3> QED
      BY <3>3, <3>4, <3>5, <3>6
  <2>2. CASE ~(index < Count)
    BY <1>2, <2>2
  <2> QED
    BY <2>1, <2>2
<1> HIDE DEF left
<1>6. /\ Draft'[port] = left /\ DirtyChanged /\ OthersKept /\ SessionStep
      /\ pending' \in [TablePorts -> Lists] /\ dirty' \subseteq TablePorts
      /\ edits' \in 0 .. MaxEdits
  <2>1. CASE index < Count
    <3>1. Commit(port, left) /\ UNCHANGED <<table, file, port>>
      BY <1>3, <2>1
    <3>2. /\ Draft'[port'] = left /\ DirtyChanged /\ OthersKept /\ SessionStep
          /\ pending' \in [TablePorts -> Lists] /\ dirty' \subseteq TablePorts
          /\ edits' \in 0 .. MaxEdits
      BY <1>2, <1>5, <2>1, <3>1, CommitKept
    <3> QED
      BY <3>1, <3>2
  <2>2. CASE ~(index < Count)
    <3>1. NoCommit /\ left = list
      BY <1>3, <2>2 DEF left
    <3>2. Draft' = Draft /\ DirtyChanged /\ OthersKept /\ SessionStep
      BY <1>3, <3>1, QuietKept DEF NoCommit, session
    <3>3. /\ pending' \in [TablePorts -> Lists] /\ dirty' \subseteq TablePorts
          /\ edits' \in 0 .. MaxEdits
      BY <3>1 DEF NoCommit, session, EInv, TypeOK
    <3> QED
      BY <3>1, <3>2, <3>3
  <2> QED
    BY <2>1, <2>2
<1>7. /\ index < Count => Len(Draft'[port]) = Count - 1
      /\ index >= Count => index' = index
  <2>1. index >= Count => left = <<>>
    BY <1>2 DEF left
  <2> QED
    BY <1>3, <1>5, <1>6, <2>1
<1>8. ASSUME left = <<>> PROVE GoodStep
  <2>1. /\ captured' = None /\ LeaveSettings(BackTarget) /\ index' = 0
    BY <1>3, <1>5, <1>8
  <2>2. index' \in 0 .. MaxBindings
    BY <2>1, ListFacts
  <2>3. EInv'
    BY <1>2, <1>3, <1>4, <1>6, <2>1, <2>2, LeaveKept
  <2> QED
    BY <1>6, <2>3 DEF GoodStep
<1>9. ASSUME left # <<>> PROVE GoodStep
  <2>1. Len(left) \in Nat /\ Len(left) > 0
    BY <1>5, <1>9, ElementOfList
  <2>2. k \in Nat /\ k < Len(left)
    BY <1>2, <2>1
  <2>3. ShowBinding(Draft'[port], k) /\ page' = "settings" /\ prompt' = "none"
    BY <1>1, <1>3, <1>6, <1>9
  <2> HIDE DEF k
  <2>4. EInv'
    BY <1>2, <1>3, <1>4, <1>5, <1>6, <2>2, <2>3, ShowKept
  <2> QED
    BY <1>6, <2>4 DEF GoodStep
<1> QED
  BY <1>7, <1>8, <1>9

-----------------------------------------------------------------------------
\* Steps that push, save, drop or reload the session as a whole

LEMMA TableFacts ==
    /\ Blank \in Tables /\ WithFallbacks(Blank) \in Tables
    /\ Blank \in [TablePorts -> Lists]
BY BlankType, WithFallbacksType DEF Tables

LEMMA ReloadType ==
    ASSUME EInv, ReloadTable
    PROVE  table' \in Tables
BY TableFacts, LoadIsATable DEF EInv, TypeOK, ReloadTable

LEMMA SaveType ==
    ASSUME EInv, NEW t \in Tables, SaveTable(t)
    PROVE  file' \in File /\ file' \in {file, FileOf(t)}
BY RoundTrip DEF EInv, TypeOK, SaveTable

\* The session is over: the draft is the live table.
LEMMA EndKept ==
    ASSUME EInv, page' \in {"dashboard", "hubs"}, prompt' = "none",
           clearEditContext, clearPendingSession, overrun' \in BOOLEAN,
           index' \in 0 .. MaxBindings, backToCapture' \in BOOLEAN,
           working' \in Settings, baseline' \in Settings, table' \in Tables, file' \in File
    PROVE  EInv' /\ Draft' = table' /\ DirtyChanged /\ OthersKept
<1>1. Draft' = table'
  BY DraftCleared DEF clearPendingSession
<1>2. TypeOK'
  BY TableFacts DEF EInv, TypeOK, clearEditContext, clearPendingSession
<1>3. Shape' /\ Target' /\ Shown'
  BY DEF Shape, Target, Shown
<1>4. DirtyChanged /\ OthersKept
  BY DEF DirtyChanged, OthersKept, clearPendingSession
<1> QED
  BY <1>1, <1>2, <1>3, <1>4 DEF EInv

LEMMA EndSessionKept ==
    ASSUME EInv, EndSession, table' \in Tables, file' \in File
    PROVE  EInv' /\ Draft' = table' /\ DirtyChanged /\ OthersKept
<1>1. /\ page' = "dashboard" /\ prompt' = "none" /\ working' = Default /\ baseline' = Default
      /\ clearEditContext /\ clearPendingSession
      /\ UNCHANGED <<index, backToCapture, overrun>>
  BY DEF EndSession, LeaveSettings, ToPage
<1>2. /\ overrun' \in BOOLEAN /\ index' \in 0 .. MaxBindings /\ backToCapture' \in BOOLEAN
      /\ working' \in Settings /\ baseline' \in Settings
  BY <1>1, InputsAssumption DEF EInv, TypeOK
<1> QED
  BY <1>1, <1>2, EndKept

LEMMA DropSteps ==
    ASSUME EInv, OpenEditor \/ ExitDiscard \/ (dirty = {} /\ HubsBack)
    PROVE  GoodStep
<1>1. UNCHANGED <<table, file>> /\ table' \in Tables /\ file' \in File
  BY DEF EInv, TypeOK, OpenEditor, ExitDiscard, HubsBack
<1>2. EInv' /\ Draft' = table' /\ DirtyChanged /\ OthersKept
  <2>1. CASE OpenEditor
    <3>1. /\ page' = "hubs" /\ prompt' = "none" /\ clearEditContext /\ clearPendingSession
          /\ UNCHANGED <<index, backToCapture, overrun, working, baseline>>
      BY <2>1 DEF OpenEditor, ToPage, values
    <3>2. /\ overrun' \in BOOLEAN /\ index' \in 0 .. MaxBindings /\ backToCapture' \in BOOLEAN
          /\ working' \in Settings /\ baseline' \in Settings
      BY <3>1 DEF EInv, TypeOK
    <3> QED
      BY <1>1, <3>1, <3>2, EndKept
  <2>2. CASE ExitDiscard \/ (dirty = {} /\ HubsBack)
    <3>1. EndSession
      BY <2>2 DEF ExitDiscard, HubsBack
    <3> QED
      BY <1>1, <3>1, EndSessionKept
  <2> QED
    BY <2>1, <2>2
<1>3. SessionStep
  BY <1>1, <1>2, LeaveIsSession
<1> QED
  BY <1>2, <1>3 DEF GoodStep

LEMMA TestOnStep ==
    ASSUME EInv, TestOn
    PROVE  GoodStep
<1>1. /\ table' = Pushed /\ UNCHANGED <<dirty, pending>>
      /\ UNCHANGED <<page, prompt, context, values, file, overrun, edits>>
  BY DEF TestOn, session
<1>2. Draft' = Draft /\ table' = Draft /\ table' \in Tables
  BY <1>1, DraftPushed, DraftType DEF EInv, session
<1>3. TypeOK'
  BY <1>1, <1>2 DEF EInv, TypeOK, context, values
<1>4. Shape' /\ Target' /\ Shown'
  BY <1>1, <1>2 DEF EInv, Shape, Target, Shown, context, values
<1>5. SessionStep
  BY <1>1, <1>2, PushIsSession
<1>6. DirtyChanged /\ OthersKept
  BY <1>1, <1>2 DEF DirtyChanged, OthersKept
<1> QED
  BY <1>3, <1>4, <1>5, <1>6 DEF GoodStep, EInv

LEMMA SaveSteps ==
    ASSUME EInv, ExitSave \/ ResetAllConfirm
    PROVE  GoodStep
<1>1. CASE ExitSave
  <2>1. Draft \in Tables /\ Pushed = Draft /\ table' = Draft /\ SaveTable(Draft) /\ EndSession
    BY <1>1, DraftType DEF EInv, ExitSave
  <2>2. file' \in File /\ file' \in {file, FileOf(Draft)}
    BY <2>1, SaveType
  <2>3. EInv' /\ Draft' = table' /\ DirtyChanged /\ OthersKept
    BY <2>1, <2>2, EndSessionKept
  <2>4. SessionStep
    <3>1. PICK p \in TablePorts : TRUE
      BY TableAssumption DEF TablePorts
    <3>2. Draft' = Draft
      BY <2>1, <2>3
    <3> QED
      BY <2>1, <2>2, <3>1, <3>2, SaveIsSession
  <2> QED
    BY <2>3, <2>4 DEF GoodStep
<1>2. CASE ResetAllConfirm
  <2>1. Blank \in Tables /\ table' = Blank /\ SaveTable(Blank) /\ EndSession
    BY <1>2, TableFacts DEF ResetAllConfirm
  <2>2. file' \in File /\ file' \in {file, FileOf(Blank)}
    BY <2>1, SaveType
  <2>3. EInv' /\ Draft' = table' /\ DirtyChanged /\ OthersKept
    BY <2>1, <2>2, EndSessionKept
  <2>4. SessionStep
    BY <2>1, <2>2, <2>3, WipeIsSession
  <2> QED
    BY <2>3, <2>4 DEF GoodStep
<1> QED
  BY <1>1, <1>2

\* SAVE on the settings page: at most the binding that is shown changes.
LEMMA SettingsSaveStep ==
    ASSUME EInv, ~overrun, SettingsSave
    PROVE  GoodStep
<1> DEFINE list == Draft[port]
           all == [Draft EXCEPT ![port] = WithShown(list)]
<1>1. page = "settings" /\ EndSession /\ Draft \in Tables /\ Pushed = Draft
  BY DraftType DEF SettingsSave, OnSettings, EInv
<1>2. /\ port \in TablePorts /\ list \in Lists /\ Count = Len(list)
      /\ index \in Nat /\ working \in Settings
  BY <1>1, OnPage
<1>3. table' = all /\ SaveTable(all)
  BY <1>1 DEF SettingsSave
<1>4. WithShown(list) \in Lists /\ WithShown(list) \in {list} \cup Session!Revised(list)
  <2>1. CASE index < Len(list)
    <3>1. captured \in Inputs /\ list[index + 1] = [input |-> captured, set |-> baseline]
      BY <1>1, <1>2, <2>1, OnPage
    <3>2. WithShown(list) = [list EXCEPT ![index + 1] = [input |-> captured, set |-> working]]
      BY <2>1 DEF WithShown
    <3>3. LET t == [list EXCEPT ![index + 1] = [input |-> captured, set |-> working]]
          IN t \in Lists /\ t \in Session!Revised(list)
      BY <1>2, <2>1, <3>1, ResetList
    <3> QED
      BY <3>2, <3>3
  <2>2. CASE ~(index < Len(list))
    BY <1>2, <2>2 DEF WithShown
  <2> QED
    BY <2>1, <2>2
<1>5. all \in Tables
  BY <1>1, <1>2, <1>4 DEF Tables, Lists
<1>6. all[port] = WithShown(list) /\ \A q \in TablePorts \ {port} : all[q] = Draft[q]
  BY <1>1, <1>2 DEF Tables
<1> HIDE DEF all, list
<1>7. file' \in File /\ file' \in {file, FileOf(all)}
  BY <1>3, <1>5, SaveType
<1>8. EInv' /\ Draft' = table' /\ DirtyChanged /\ OthersKept
  BY <1>1, <1>3, <1>5, <1>7, EndSessionKept
<1>9. Draft' = all
  BY <1>3, <1>8
<1>10. SessionStep
  <2>1. /\ \A q \in TablePorts \ {port} : Draft'[q] = Draft[q]
        /\ Draft'[port] \in {Draft[port]} \cup Session!Revised(Draft[port])
        /\ table' = Draft' /\ file' \in {file, FileOf(Draft')}
    BY <1>3, <1>4, <1>6, <1>7, <1>9 DEF list
  <2> QED
    BY <1>2, <2>1, SaveIsSession
<1> QED
  BY <1>8, <1>10 DEF GoodStep

\* RESET on the settings page.
LEMMA ResetStep ==
    ASSUME EInv, ~overrun, Reset
    PROVE  GoodStep
<1>1. /\ page = "settings" /\ prompt = "none" /\ ReloadTable /\ clearPendingSession
      /\ UNCHANGED <<page, prompt, hub, port, backToCapture, file, overrun>>
  BY DEF Reset, OnSettings
<1>2. /\ port \in TablePorts /\ table' \in Tables /\ file' \in File
      /\ overrun' \in BOOLEAN
  BY <1>1, OnPage, ReloadType DEF EInv, TypeOK
<1>3. Draft' = table' /\ Draft'[port] \in Lists
  BY <1>1, <1>2, DraftCleared DEF clearPendingSession, Tables, Lists
<1>4. /\ dirty' = {} /\ pending' \in [TablePorts -> Lists] /\ edits' \in 0 .. MaxEdits
  BY <1>1, TableFacts DEF clearPendingSession, EInv, TypeOK
<1>5. DirtyChanged /\ OthersKept
  BY <1>4 DEF DirtyChanged, OthersKept
<1>6. SessionStep
  BY <1>1, <1>3, ReloadIsSession
<1>7. EInv'
  <2>1. CASE Draft'[port] # <<>>
    <3>1. 0 \in Nat /\ 0 < Len(Draft'[port])
      BY <1>3, <2>1, ElementOfList
    <3>2. ShowBinding(Draft'[port], 0)
      BY <1>3, <2>1 DEF Reset
    <3> QED
      BY <1>1, <1>2, <1>3, <1>4, <3>1, <3>2, ShowKept
  <2>2. CASE Draft'[port] = <<>>
    <3>1. index' = 0 /\ captured' = None /\ working' = Default /\ baseline' = Default
      BY <1>3, <2>2 DEF Reset
    <3>2. TypeOK'
      BY <1>1, <1>2, <1>4, <3>1, InputsAssumption, ListFacts DEF EInv, TypeOK
    <3>3. Shape' /\ Target' /\ Shown'
      BY <1>1, <1>2, <2>2, <3>1 DEF Shape, Target, Shown
    <3> QED
      BY <3>2, <3>3 DEF EInv
  <2> QED
    BY <2>1, <2>2
<1> QED
  BY <1>5, <1>6, <1>7 DEF GoodStep

LEMMA RestartStep ==
    ASSUME EInv, Restart
    PROVE  GoodStep
<1>1. /\ page' = "dashboard" /\ prompt' = "none" /\ working' = Default /\ baseline' = Default
      /\ clearEditContext /\ clearPendingSession /\ ReloadTable /\ UNCHANGED file
      /\ index' = 0 /\ backToCapture' = FALSE /\ overrun' = FALSE
  BY DEF Restart, LeaveSettings, ToPage
<1>2. table' \in Tables /\ file' \in File
  BY <1>1, ReloadType DEF EInv, TypeOK
<1>3. EInv' /\ Draft' = table' /\ DirtyChanged /\ OthersKept
  <2>1. /\ overrun' \in BOOLEAN /\ index' \in 0 .. MaxBindings /\ backToCapture' \in BOOLEAN
        /\ working' \in Settings /\ baseline' \in Settings
    <3>1. 0 \in 0 .. MaxBindings
      BY ListFacts
    <3> QED
      BY <1>1, <3>1, InputsAssumption
  <2> QED
    BY <1>1, <1>2, <2>1, EndKept
<1>4. SessionStep
  BY <1>1, <1>3, ReloadIsSession
<1> QED
  BY <1>3, <1>4 DEF GoodStep

-----------------------------------------------------------------------------
\* The theorems

LEMMA InitEInv ==
    ASSUME Init
    PROVE  EInv /\ Session!SessionInit
<1>1. file \in File /\ table = Load(file) /\ table \in Tables
  BY FilesAssumption, LoadIsATable DEF Init
<1>2. TypeOK
  <2>1. 0 \in 0 .. MaxBindings /\ 0 \in 0 .. MaxEdits
    BY ListFacts, FilesAssumption
  <2>2. Blank \in [TablePorts -> Lists]
    BY TableFacts
  <2> QED
    BY <1>1, <2>1, <2>2, InputsAssumption DEF Init, TypeOK
<1>3. Shape /\ Target /\ Shown
  BY DEF Init, Shape, Target, Shown
<1>4. Draft = table
  BY <1>1 DEF Init, Draft, Effective, Tables
<1>5. Session!SessionInit
  BY <1>1, <1>4 DEF Session!SessionInit, Session!Reloads, Draft
<1> QED
  BY <1>2, <1>3, <1>5 DEF EInv

LEMMA NextGood ==
    ASSUME EInv, [Next]_vars
    PROVE  GoodStep
<1>1. CASE UNCHANGED vars
  <2>1. /\ UNCHANGED <<page, prompt, hub, port, captured, index, backToCapture>>
        /\ UNCHANGED <<working, baseline, dirty, pending, table, file, overrun, edits>>
    BY <1>1 DEF vars, context, values, session
  <2>2. Draft' = Draft /\ DirtyChanged /\ OthersKept /\ SessionStep
    BY <2>1, QuietKept
  <2>3. TypeOK'
    BY <2>1 DEF EInv, TypeOK
  <2>4. Shape' /\ Target' /\ Shown'
    BY <2>1, <2>2 DEF EInv, Shape, Target, Shown
  <2> QED
    BY <2>2, <2>3, <2>4 DEF GoodStep, EInv
<1>2. CASE Tap
  <2>1. ~overrun
    BY <1>2 DEF Tap
  <2>2. CASE OpenEditor \/ ExitDiscard \/ HubsBack
    BY <2>2, DropSteps, BrowseSteps DEF HubsBack
  <2>3. CASE TestOn
    BY <2>3, TestOnStep
  <2>4. CASE ExitSave \/ ResetAllConfirm
    BY <2>4, SaveSteps
  <2>5. CASE ResetAll \/ ResetAllCancel \/ PortsBack \/ \E h \in Hubs : SelectHub(h)
    BY <2>5, BrowseSteps
  <2>6. CASE \E p \in TablePorts : SelectPort(p)
    BY <2>6, SelectPortStep
  <2>7. CASE CaptureBack \/ CaptureKeepOrDiscard
    BY <2>7, CaptureSteps
  <2>8. CASE CaptureNext \/ Replace \/ Add
    BY <2>8, NextSteps
  <2>9. CASE (\E s \in Settings : Adjust(s)) \/ AddBinding \/ SettingsBack \/ SettingsDiscard
    BY <2>1, <2>9, PlainSettingsSteps
  <2>10. CASE \E step \in {-1, 1} : PageBinding(step)
    BY <2>1, <2>10, PageBindingStep
  <2>11. CASE RemoveBinding
    BY <2>1, <2>11, RemoveBindingStep
  <2>12. CASE SettingsKeep
    BY <2>1, <2>12, SettingsKeepStep
  <2>13. CASE Reset
    BY <2>1, <2>13, ResetStep
  <2>14. CASE SettingsSave
    BY <2>1, <2>14, SettingsSaveStep
  <2> QED
    BY <1>2, <2>2, <2>3, <2>4, <2>5, <2>6, <2>7, <2>8, <2>9, <2>10, <2>11, <2>12, <2>13,
       <2>14 DEF Tap
<1>3. CASE \E i \in Inputs : Capture(i)
  BY <1>3, CaptureSteps
<1>4. CASE Restart
  BY <1>4, RestartStep
<1> QED
  BY <1>1, <1>2, <1>3, <1>4 DEF Next

\* The inductive invariant holds in every behaviour of the editor.
THEOREM EditorInvariantHolds == Spec => []EInv
<1>1. Init => EInv
  BY InitEInv
<1>2. EInv /\ [Next]_vars => EInv'
  BY NextGood DEF GoodStep
<1> QED
  BY <1>1, <1>2, PTL DEF Spec

\* Type correctness.
THEOREM EditorTypeCorrect == Spec => []TypeOK
<1>1. EInv => TypeOK
  BY DEF EInv
<1> QED
  BY <1>1, EditorInvariantHolds, PTL

\* However the settings page was reached, what it shows is the binding that KEEP and SAVE
\* will overwrite.
THEOREM EditorShowsWhatItEdits == Spec => []ShownIsEdited
<1>1. EInv => ShownIsEdited
  <2> SUFFICES ASSUME EInv, page = "settings", ~overrun
               PROVE  LET list == Effective(port)
                      IN IF list = <<>> THEN index = 0 /\ captured = None
                         ELSE /\ index < Len(list)
                              /\ list[index + 1] = [input |-> captured, set |-> baseline]
    BY DEF ShownIsEdited
  <2>1. Effective(port) = Draft[port]
    BY OnPage
  <2> QED
    BY <2>1 DEF EInv, Shown
<1> QED
  BY <1>1, EditorInvariantHolds, PTL

\* REPLACE is never answered for a binding the port does not have.
THEOREM EditorReplaceHasTarget == Spec => []ReplaceHasTarget
<1>1. EInv => ReplaceHasTarget
  <2> SUFFICES ASSUME EInv, prompt = "replaceOrAdd"
               PROVE  index < Count
    BY DEF ReplaceHasTarget
  <2>1. page = "capture" /\ port \in TablePorts
    BY DEF EInv, Shape
  <2> QED
    BY <2>1, SelectedList DEF EInv, Target
<1> QED
  BY <1>1, EditorInvariantHolds, PTL

\* A port becomes dirty only in a step that changes its bindings (WO11).
THEOREM EditorDirtyMeansChanged == Spec => DirtyMeansChanged
<1>1. ASSUME EInv, [Next]_vars
      PROVE  [\A p \in dirty' \ dirty : Effective(p)' # Effective(p)]_vars
  <2>1. DirtyChanged /\ dirty' \subseteq TablePorts
    BY <1>1, NextGood DEF GoodStep, EInv, TypeOK
  <2> QED
    BY <2>1 DEF DirtyChanged, Draft
<1> QED
  BY <1>1, EditorInvariantHolds, PTL DEF Spec, DirtyMeansChanged

\* While the session is dirty a step edits no port but the selected one.
THEOREM EditorEditsStayOnTheirPort == Spec => EditsStayOnTheirPort
<1>1. ASSUME EInv, [Next]_vars
      PROVE  [dirty' # {} => \A p \in TablePorts \ {port'} : Effective(p)' = Effective(p)]_vars
  <2>1. OthersKept
    BY <1>1, NextGood DEF GoodStep
  <2> QED
    BY <2>1 DEF OthersKept, Draft
<1> QED
  BY <1>1, EditorInvariantHolds, PTL DEF Spec, EditsStayOnTheirPort

\* Paging away from a binding keeps what was set on it (WO13).
THEOREM EditorPagingKeepsEdit == Spec => PagingKeepsEdit
<1>1. ASSUME EInv, [Next]_vars, OnSettings, OnSettings', Count' = Count, index' # index,
             dirty' # {}
      PROVE  Effective(port)'[index + 1].set = working
  <2>1. Tap \/ \E i \in Inputs : Capture(i)
    BY <1>1 DEF Next, vars, context, Restart, clearPendingSession
  <2>2. ~overrun /\ page = "settings" /\ prompt = "none" /\ page' = "settings"
    BY <1>1, <2>1 DEF Tap, OnSettings, Capture
  <2>3. (\E step \in {-1, 1} : PageBinding(step)) \/ RemoveBinding
    BY <1>1, <2>1, <2>2
       DEF Tap, OnSettings, Capture, OpenEditor, TestOn, HubsBack, ExitSave, ExitDiscard,
           ResetAll, ResetAllConfirm, ResetAllCancel, SelectHub, PortsBack, SelectPort,
           CaptureBack, CaptureKeepOrDiscard, CaptureNext, Replace, Add, Adjust, AddBinding,
           SettingsBack, SettingsKeep, SettingsDiscard, Reset, SettingsSave,
           clearPendingSession, EndSession, context, EInv, Shape
  <2>4. CASE \E step \in {-1, 1} : PageBinding(step)
    <3>1. Draft'[port] = Effective(port)'
      <4>1. port' = port /\ port \in TablePorts
        BY <2>2, <2>4, OnPage, <1>1 DEF PageBinding
      <4> QED
        BY <4>1 DEF Draft
    <3> QED
      BY <1>1, <2>2, <2>4, <3>1, PageBindingStep
  <2>5. ~RemoveBinding
    <3> SUFFICES ASSUME RemoveBinding PROVE FALSE
      OBVIOUS
    <3>1. /\ index < Count => Len(Draft'[port]) = Count - 1
          /\ index >= Count => index' = index
      BY <1>1, <2>2, RemoveBindingStep
    <3>2. Count' = Len(Draft'[port]) /\ Count \in Nat /\ index \in Nat
      <4>1. port' = port /\ port \in TablePorts /\ Count \in Nat /\ index \in Nat
        BY <1>1, <2>2, OnPage DEF RemoveBinding
      <4> QED
        BY <4>1 DEF Draft, Count
    <3> QED
      BY <1>1, <3>1, <3>2
  <2> QED
    BY <2>3, <2>4, <2>5
<1> QED
  BY <1>1, EditorInvariantHolds, PTL DEF Spec, PagingKeepsEdit

\* The pages together implement the abstract editing session.
THEOREM EditorImplementsSession == Spec => ImplementsSession
<1>1. Init => Session!SessionInit
  BY InitEInv
<1>2. EInv /\ [Next]_vars => [Session!SessionNext]_(Session!sessionVars)
  BY NextGood DEF GoodStep, SessionStep
<1> QED
  BY <1>1, <1>2, EditorInvariantHolds, PTL DEF Spec, ImplementsSession, Session!SessionSpec
==============================================================================
