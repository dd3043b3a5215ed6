--------------------------- MODULE MkhSleepProofs ---------------------------
(***************************************************************************)
(* Proofs about MkhSleep: enterDeepSleep calls toggle_off without the guard *)
(* of a dashboard tap, and what the two tasks rely on about each other      *)
(* holds all the same, for every number of hubs and ports.                  *)
(***************************************************************************)
EXTENDS MkhSleep, MkhBroadcastProofs, FoldFacts

-----------------------------------------------------------------------------
(***************************************************************************)
(* The inductive invariant.                                                *)
(***************************************************************************)

\* A hub in the rotation is on its way out of it, or its toggle_off is about to be.
Leaving(d) == active[d] => transitioning[d] \/ (app.at \in {"enter", "mark"} /\ app.dev = d)

\* What each page knows of the calls that are under way and of the hubs.
PageInv ==
    /\ page = "idle" => app.op \in {"none", "sweep"} /\ \A d \in Devices : ~transitioning[d]
    /\ page = "toggle" =>
        /\ app.op \in {"none", "off"}
        /\ app.op = "off" => app.dev < next
        /\ \A d \in Devices : IF d < next THEN Leaving(d) ELSE ~transitioning[d]
    /\ page \in {"shown", "transition"} =>
        /\ app.op \in {"none", "off"}
        /\ \A d \in Devices : Leaving(d)
        /\ \A d \in Devices : d < next => ~active[d]
    /\ page = "transition" => app.at = "idle"
    /\ page = "asleep" /\ clean => \A d \in Devices : ~active[d]

SleepInv == IInv /\ SleepTypeOK /\ PageInv

LEMMA SleepInitInv == SleepInit => SleepInv
<1> SUFFICES ASSUME SleepInit PROVE SleepInv
  OBVIOUS
<1>1. IInv
  BY InitInv DEF SleepInit
<1>2. 0 \in 0 .. WaitServices
  BY WaitAssumption
<1> QED
  BY <1>1, <1>2, SetFacts DEF SleepInit, SleepInv, SleepTypeOK, IInv, PageInv

-----------------------------------------------------------------------------
\* The type invariant

LEMMA SleepTypeStep ==
    ASSUME SleepTypeOK, TypeOK', [SleepNext]_sleepVars
    PROVE  SleepTypeOK'
<1> USE DEF SleepTypeOK
<1>1. CASE Drive \/ TapRow \/ TaskStep
  BY <1>1 DEF Drive, TapRow, TaskStep, sleeping
<1>2. CASE TimerFires
  BY <1>2, WaitAssumption DEF TimerFires
<1>3. CASE EnterIdle \/ WakeFromIdle
  BY <1>3 DEF EnterIdle, WakeFromIdle
<1>4. CASE EnterDeepSleep
  BY <1>4, SetFacts DEF EnterDeepSleep
<1>5. CASE ToggleOff
  BY <1>5, SetFacts, DevicesAssumption DEF ToggleOff, Devices
<1>6. CASE PollShown
  BY <1>6, SetFacts DEF PollShown, NotClear
<1>7. CASE PollTransition
  <2>1. page' \in {"shown", "transition", "asleep"} /\ clean' \in BOOLEAN
        /\ UNCHANGED <<waited, stopped>>
    BY <1>7 DEF PollTransition, NotClear
  <2>2. next < NumDevices - 1 => next + 1 \in Devices
    BY DevicesAssumption DEF Devices
  <2>3. next' \in Devices
    BY <1>7, <2>2, SetFacts DEF PollTransition, NotClear
  <2> QED
    BY <2>1, <2>3
<1>8. CASE Halted \/ UNCHANGED sleepVars
  BY <1>8 DEF Halted, sleepVars, sleeping
<1> QED
  BY <1>1, <1>2, <1>3, <1>4, <1>5, <1>6, <1>7, <1>8 DEF SleepNext

-----------------------------------------------------------------------------
\* The invariant of the broadcast

\* A sleep step is a step of the broadcast, or the call of toggle_off by enterDeepSleep.
LEMMA BroadcastStep ==
    ASSUME [SleepNext]_sleepVars
    PROVE  [Next]_vars \/ ToggleOff
BY DEF SleepNext, sleepVars, Drive, TapRow, TaskStep, TimerFires, EnterIdle, WakeFromIdle,
       EnterDeepSleep, PollShown, PollTransition, Halted, Next, AppCall

\* That call finds nothing pending for its hub, although nobody looked.
LEMMA ToggleOffStep ==
    ASSUME SleepInv, ToggleOff
    PROVE  IInv'
<1> USE DEF SleepInv, IInv
<1>1. /\ app.at = "idle" /\ next \in Devices
      /\ app' = [at |-> "enter", op |-> "off", dev |-> next, port |-> 0]
      /\ ~transitioning[next]
  BY SetFacts DEF ToggleOff, PageInv, SleepTypeOK
<1>2. UNCHANGED <<channel, shared, callbacks, lastDevice, started, radio, bt, served, disturbed>>
  BY DEF ToggleOff
<1>3. TypeOK'
  BY <1>1, <1>2, SetFacts DEF TypeOK, AppState, AppSteps, shared, radio
<1>4. AppShape' /\ BtShape'
  BY <1>1, <1>2 DEF AppShape, BtShape
<1>5. OnlyEligible'
  BY <1>1, <1>2 DEF OnlyEligible, InToggle, shared
<1>6. LockoutInv'
  BY <1>1, <1>2 DEF LockoutInv, Toggling, Dropping, Locked, shared
<1>7. NeutralInv'
  BY <1>1, <1>2 DEF NeutralInv, InToggle
<1>8. GraceInv' /\ QuietInv'
  BY <1>1, <1>2 DEF GraceInv, QuietInv, ServingNow, BtStaging, shared, radio
<1> QED
  BY <1>3, <1>4, <1>5, <1>6, <1>7, <1>8

-----------------------------------------------------------------------------
\* The invariant of the pages

\* The steps of the two tasks, apart from a new call of the Arduino task.
TaskNext == AppStep \/ BtStep \/ HciWorking \/ EventCallback \/ ControlPick

\* They end calls and begin none; only a toggle that was not refused sets a lockout.
LEMMA TaskFrame ==
    ASSUME IInv, TaskNext
    PROVE  /\ app'.op \in {"none", app.op}
           /\ app.at = "idle" => app' = app
           /\ app'.op # "none" => app'.dev = app.dev
           /\ \A d \in Devices : transitioning'[d] =>
                  transitioning[d] \/ (app.op \in {"off", "on"} /\ app.dev = d)
<1> USE DEF IInv, AppShape
<1>1. CASE WriteNeutral \/ \E tooSoon \in BOOLEAN : Notify(tooSoon)
  BY <1>1, RecordTypes, AfterChannelCases DEF WriteNeutral, Notify, AppIdle, shared
<1>2. CASE ToggleEnter
  BY <1>2, RecordTypes DEF ToggleEnter, AppIdle, shared
<1>3. CASE ToggleMark
  BY <1>3, RecordTypes DEF ToggleMark, TypeOK
<1>4. CASE OnCancel \/ OffArm \/ OnConnect \/ OnStaged \/ OnActivate \/ OnShow
  BY <1>4, RecordTypes DEF OnCancel, OffArm, OnConnect, OnStaged, OnActivate, OnShow, AppIdle,
     shared
<1>5. CASE OnSettle
  BY <1>5, RecordTypes DEF OnSettle, AppIdle, TypeOK
<1>6. CASE HciWorking \/ EventCallback \/ ControlPick
  BY <1>6, RecordTypes DEF HciWorking, EventCallback, ControlPick, shared
<1>7. CASE ControlCopy \/ StagedConnect \/ StagedControl \/ Show \/ CountLoad \/ CountStore
             \/ DropActive \/ DropShow
  BY <1>7, RecordTypes DEF ControlCopy, StagedConnect, StagedControl, Show, CountLoad, CountStore,
     DropActive, DropShow, shared
<1>8. CASE DropSettle
  BY <1>8, RecordTypes DEF DropSettle, TypeOK
<1> QED
  BY <1>1, <1>2, <1>3, <1>4, <1>5, <1>6, <1>7, <1>8 DEF TaskNext, AppStep, BtStep

\* Only toggle_on can bring a hub into the rotation.
LEMMA TaskActive ==
    ASSUME IInv, TaskNext, app.op \in {"none", "off"}, NEW d \in Devices, active'[d]
    PROVE  active[d]
<1>1. [Next]_vars
  BY DEF TaskNext, Next
<1>2. ~OnActivate
  BY DEF OnActivate, IInv, AppShape
<1> QED
  BY <1>1, <1>2, OnlyToggleActivates DEF IInv

\* A refused toggle_off finds its hub out of the rotation or already on its way, a drop
\* unlocks only a hub that is out of it.
LEMMA TaskLeaving ==
    ASSUME IInv, TaskNext, app.op \in {"none", "off"}, NEW d \in Devices, Leaving(d)
    PROVE  Leaving(d)'
<1> SUFFICES ASSUME active'[d] PROVE transitioning'[d] \/ (app'.at \in {"enter", "mark"} /\ app'.dev = d)
  BY DEF Leaving
<1>1. active[d]
  BY TaskActive
<1> USE <1>1 DEF IInv, AppShape, Leaving
<1>2. CASE WriteNeutral \/ \E tooSoon \in BOOLEAN : Notify(tooSoon)
  BY <1>2 DEF WriteNeutral, Notify, shared
<1>3. CASE ToggleEnter
  <2>1. Refused /\ app.dev = d => transitioning[d]
    BY <1>3 DEF ToggleEnter, Refused, OffRefused, LockoutInv
  <2> QED
    BY <1>3, <2>1, RecordTypes DEF ToggleEnter, shared
<1>4. CASE ToggleMark
  BY <1>4, RecordTypes DEF ToggleMark, TypeOK
<1>5. CASE OnCancel \/ OnConnect \/ OnStaged \/ OnActivate \/ OnShow \/ OnSettle
  BY <1>5 DEF OnCancel, OnConnect, OnStaged, OnActivate, OnShow, OnSettle
<1>6. CASE OffArm
  BY <1>6 DEF OffArm
<1>7. CASE HciWorking \/ EventCallback \/ ControlPick
  BY <1>7 DEF HciWorking, EventCallback, ControlPick, shared
<1>8. CASE ControlCopy \/ StagedConnect \/ StagedControl \/ Show \/ CountLoad \/ CountStore
             \/ DropActive \/ DropShow
  BY <1>8 DEF ControlCopy, StagedConnect, StagedControl, Show, CountLoad, CountStore, DropActive,
     DropShow, shared
<1>9. CASE DropSettle
  <2>1. d # bt.dev
    BY <1>9 DEF DropSettle, LockoutInv
  <2> QED
    BY <1>9, <2>1, RecordTypes DEF DropSettle, TypeOK
<1> QED
  BY <1>2, <1>3, <1>4, <1>5, <1>6, <1>7, <1>8, <1>9 DEF TaskNext, AppStep, BtStep

\* What the pages know survives the steps of the two tasks.
LEMMA PageTaskStep ==
    ASSUME SleepInv, TaskNext, page # "asleep", UNCHANGED <<page, next>>
    PROVE  PageInv'
<1> USE DEF SleepInv
<1>1. CASE page = "idle"
  BY <1>1, TaskFrame DEF PageInv
<1>2. CASE page = "toggle"
  <2>1. app'.op \in {"none", "off"} /\ (app'.op = "off" => app'.dev < next)
    BY <1>2, TaskFrame DEF PageInv
  <2>2. \A d \in Devices : d < next => Leaving(d)'
    BY <1>2, TaskLeaving DEF PageInv
  <2>3. ASSUME NEW d \in Devices, ~(d < next) PROVE ~transitioning'[d]
    BY <1>2, <2>3, TaskFrame DEF PageInv
  <2> QED
    BY <1>2, <2>1, <2>2, <2>3 DEF PageInv
<1>3. CASE page \in {"shown", "transition"}
  <2>1. app'.op \in {"none", "off"}
    BY <1>3, TaskFrame DEF PageInv
  <2>2. \A d \in Devices : Leaving(d)'
    BY <1>3, TaskLeaving DEF PageInv
  <2>3. \A d \in Devices : d < next => ~active'[d]
    BY <1>3, TaskActive DEF PageInv
  <2>4. page = "transition" => app'.at = "idle"
    BY <1>3, TaskFrame DEF PageInv
  <2> QED
    BY <1>3, <2>1, <2>2, <2>3, <2>4 DEF PageInv
<1>4. CASE page = "dashboard"
  BY <1>4 DEF PageInv
<1> QED
  BY <1>1, <1>2, <1>3, <1>4 DEF SleepTypeOK

\* Every step keeps what the pages know.
LEMMA PageStep ==
    ASSUME SleepInv, [SleepNext]_sleepVars
    PROVE  PageInv'
<1>1. app.at = "idle" <=> app.op = "none"
  BY DEF SleepInv, IInv, AppShape
<1>2. CASE Drive
  <2>1. PICK dp \in Configured, v \in Levels : Sweep(dp[1], dp[2], v)
    BY <1>2 DEF Drive
  <2> QED
    BY <1>1, <1>2, <2>1 DEF Drive, Awake, sleeping, Sweep, shared, SleepInv, PageInv
<1>3. CASE TapRow
  BY <1>3 DEF TapRow, sleeping, PageInv
<1>4. CASE TaskStep \/ TimerFires
  BY <1>4, PageTaskStep DEF TaskStep, TimerFires, TaskNext, sleeping
<1>5. CASE EnterIdle \/ WakeFromIdle
  BY <1>1, <1>5 DEF EnterIdle, WakeFromIdle, vars, shared, PageInv
<1>6. CASE EnterDeepSleep
  BY <1>1, <1>6, SetFacts DEF EnterDeepSleep, vars, shared, SleepInv, PageInv, Devices
<1>7. CASE ToggleOff
  <2>1. /\ app' = [at |-> "enter", op |-> "off", dev |-> next, port |-> 0]
        /\ UNCHANGED <<active, transitioning>> /\ page = "toggle" /\ app.at = "idle"
    BY <1>7 DEF ToggleOff, shared
  <2>2. \A d \in Devices : d <= next => Leaving(d)'
    BY <2>1, SetFacts DEF SleepInv, SleepTypeOK, PageInv, Leaving
  <2>3. \A d \in Devices : d > next => ~transitioning'[d]
    BY <2>1, SetFacts DEF SleepInv, SleepTypeOK, PageInv
  <2>4. next \in Int /\ next >= 0
    BY DEF SleepInv, SleepTypeOK, Devices
  <2>5. CASE next < NumDevices - 1
    <3>1. page' = "toggle" /\ next' = next + 1
      BY <1>7, <2>1, <2>5 DEF ToggleOff
    <3>2. \A d \in Devices : (d < next + 1 <=> d <= next) /\ (~(d < next + 1) <=> d > next)
      BY <2>4 DEF Devices
    <3> QED
      BY <2>1, <2>2, <2>3, <2>4, <3>1, <3>2 DEF PageInv
  <2>6. CASE ~(next < NumDevices - 1)
    <3>1. page' = "shown" /\ next' = 0
      BY <1>7, <2>6 DEF ToggleOff
    <3>2. \A d \in Devices : d <= next /\ ~(d < 0)
      BY <2>4, <2>6, DevicesAssumption DEF Devices
    <3> QED
      BY <2>1, <2>2, <3>1, <3>2 DEF PageInv
  <2> QED
    BY <2>5, <2>6
<1>8. CASE PollShown
  <2>1. \A d \in Devices : ~(d < 0)
    BY DEF Devices
  <2> QED
    BY <1>8, <2>1 DEF PollShown, NotClear, Waiting, vars, shared, SleepInv, PageInv, Leaving
<1>9. CASE PollTransition
  <2>1. page = "transition" /\ app.at = "idle" /\ UNCHANGED <<active, transitioning, app>>
    BY <1>9 DEF PollTransition, vars, shared, SleepInv, PageInv
  <2>2. \A d \in Devices : Leaving(d)' /\ (d < next => ~active'[d])
    BY <2>1 DEF SleepInv, PageInv, Leaving
  <2>3. next \in Devices
    BY DEF SleepInv, SleepTypeOK
  <2>4. CASE NotClear
    <3>1. \A d \in Devices : ~(d < 0)
      BY DEF Devices
    <3> QED
      BY <1>1, <2>1, <2>2, <2>4, <3>1 DEF NotClear, SleepInv, PageInv
  <2>5. CASE /\ ~transitioning[next]
             /\ IF next < NumDevices - 1
                  THEN page' = "shown" /\ next' = next + 1 /\ UNCHANGED clean
                  ELSE page' = "asleep" /\ clean' = TRUE /\ UNCHANGED next
    <3>1. ~active'[next]
      BY <2>1, <2>2, <2>3, <2>5 DEF Leaving
    <3>2. \A d \in Devices : d < next + 1 => ~active'[d]
      BY <2>2, <2>3, <3>1 DEF Devices
    <3>3. ~(next < NumDevices - 1) => \A d \in Devices : d < next + 1
      BY <2>3, DevicesAssumption DEF Devices
    <3> QED
      BY <1>1, <2>1, <2>2, <2>5, <3>2, <3>3 DEF PageInv
  <2> QED
    BY <1>9, <2>4, <2>5 DEF PollTransition
<1>10. CASE Halted \/ UNCHANGED sleepVars
  BY <1>10 DEF Halted, sleepVars, vars, shared, sleeping, SleepInv, PageInv, Leaving
<1> QED
  BY <1>2, <1>3, <1>4, <1>5, <1>6, <1>7, <1>8, <1>9, <1>10 DEF SleepNext

-----------------------------------------------------------------------------
\* The invariant

\* Every step keeps the inductive invariant.
LEMMA SleepInvStep == SleepInv /\ [SleepNext]_sleepVars => SleepInv'
<1> SUFFICES ASSUME SleepInv, [SleepNext]_sleepVars PROVE SleepInv'
  OBVIOUS
<1>1. IInv'
  BY BroadcastStep, ToggleOffStep, InvStep DEF SleepInv
<1>2. SleepTypeOK'
  BY <1>1, SleepTypeStep DEF SleepInv, IInv
<1> QED
  BY <1>1, <1>2, PageStep DEF SleepInv

\* What the two tasks rely on holds with the idle screen and deep sleep as well, and the
\* calls of toggle_off by enterDeepSleep are never made for a hub that is locked out.
THEOREM SleepInvariantHolds == SleepSpec => []SleepInv
BY SleepInitInv, SleepInvStep, PTL DEF SleepSpec

\* The state always has its type.
THEOREM SleepTypeCorrect == SleepSpec => []SleepTypeOK
<1>1. SleepInv => SleepTypeOK
  BY DEF SleepInv
<1> QED
  BY <1>1, SleepInvariantHolds, PTL

\* enterDeepSleep does not write a countdown that the timer is counting down: the idle
\* screen is reached with no row in transition, and nothing can lock one there.
THEOREM SleepOneCountdownWriter == SleepSpec => []CountdownHasOneWriter
<1>1. SleepInv => CountdownHasOneWriter
  BY DEF SleepInv, IInv, LockoutInv, CountdownHasOneWriter
<1> QED
  BY <1>1, SleepInvariantHolds, PTL

\* A row that enterDeepSleep locked has a toggle, a countdown or a drop that unlocks it,
\* so what its wait looks at can become clear.
THEOREM SleepLockoutOwned == SleepSpec => []LockoutHasOwner
<1>1. SleepInv => LockoutHasOwner
  BY DEF SleepInv, IInv, LockoutInv, LockoutHasOwner
<1> QED
  BY <1>1, SleepInvariantHolds, PTL

\* The hubs whose flags were found clear have left the rotation, although the flags are
\* written by the other task in another order than they are read, one hub after the other.
CleanMeansOff == page = "asleep" /\ clean => \A d \in Devices : ~active[d]

\* When the log says that all hubs are off, every hub is out of the rotation.
THEOREM SleepCleanMeansOff == SleepSpec => []CleanMeansOff
<1>1. SleepInv => CleanMeansOff
  BY DEF SleepInv, PageInv, CleanMeansOff
<1> QED
  BY <1>1, SleepInvariantHolds, PTL

\* Before deep sleep, too, no hub is dropped without the services it is owed.
THEOREM SleepDropServed == SleepSpec => DropIsServed
<1>1. SleepInv /\ [SleepNext]_sleepVars =>
        [\A d \in Devices : active[d] /\ ~active'[d] => served[d] >= OffGrace - 1]_vars
  <2> SUFFICES ASSUME SleepInv, [SleepNext]_sleepVars,
                      NEW d \in Devices, active[d], ~active'[d]
               PROVE  served[d] >= OffGrace - 1
    OBVIOUS
  <2>1. [Next]_vars
    BY BroadcastStep DEF ToggleOff, shared
  <2>2. DropActive /\ d = bt.dev
    BY <2>1, OnlyDropDeactivates DEF SleepInv, IInv
  <2> QED
    BY <2>2 DEF SleepInv, IInv, GraceInv, DropActive
<1> QED
  BY <1>1, SleepInvariantHolds, PTL DEF SleepSpec, DropIsServed

\* A hub nobody re-drives in the meantime is told neutral last before deep sleep drops it.
THEOREM SleepQuietDropNeutral == SleepSpec => QuietDropIsNeutral
<1>1. SleepInv /\ [SleepNext]_sleepVars =>
        [\A d \in Devices : active[d] /\ ~active'[d] /\ ~disturbed[d] => sent[d] = Quiet]_vars
  <2> SUFFICES ASSUME SleepInv, [SleepNext]_sleepVars,
                      NEW d \in Devices, active[d], ~active'[d], ~disturbed[d]
               PROVE  sent[d] = Quiet
    OBVIOUS
  <2>1. [Next]_vars
    BY BroadcastStep DEF ToggleOff, shared
  <2>2. DropActive /\ d = bt.dev
    BY <2>1, OnlyDropDeactivates DEF SleepInv, IInv
  <2> QED
    BY <2>2 DEF SleepInv, IInv, QuietInv, DropActive
<1> QED
  BY <1>1, SleepInvariantHolds, PTL DEF SleepSpec, QuietDropIsNeutral

\* The idle screen between two taps changes nothing: a hub re-enters the rotation with
\* every channel neutral and no drop pending.
THEOREM SleepRejoinsNeutral == SleepSpec => RejoinsAtNeutral
<1>1. SleepInv /\ [SleepNext]_sleepVars =>
        [\A d \in Devices : ~active[d] /\ active'[d] => channel[d] = Quiet /\ pendingOff[d] = 0]_vars
  <2> SUFFICES ASSUME SleepInv, [SleepNext]_sleepVars,
                      NEW d \in Devices, ~active[d], active'[d]
               PROVE  channel[d] = Quiet /\ pendingOff[d] = 0
    OBVIOUS
  <2>1. [Next]_vars
    BY BroadcastStep DEF ToggleOff, shared
  <2>2. OnActivate /\ d = app.dev
    BY <2>1, OnlyToggleActivates DEF SleepInv, IInv
  <2>3. InToggle /\ app.at = "activate"
    BY <2>2 DEF OnActivate, SleepInv, IInv, AppShape, InToggle
  <2>4. channel[d] = Quiet
    BY <2>2, <2>3 DEF SleepInv, IInv, NeutralInv
  <2>5. pendingOff[d] \in 0 .. OffGrace /\ ~(pendingOff[d] > 0)
    BY DEF SleepInv, IInv, LockoutInv, TypeOK
  <2> QED
    BY <2>4, <2>5, SetFacts
<1> QED
  BY <1>1, SleepInvariantHolds, PTL DEF SleepSpec, RejoinsAtNeutral

\* A countdown that runs keeps its row locked and its hub in the rotation.
THEOREM SleepCountdownGuarded == SleepSpec => []CountdownIsGuarded
<1>1. SleepInv => CountdownIsGuarded
  BY DEF SleepInv, IInv, LockoutInv, CountdownIsGuarded
<1> QED
  BY <1>1, SleepInvariantHolds, PTL

-----------------------------------------------------------------------------
(***************************************************************************)
(* Two seconds are enough: every service of the timer takes one from the    *)
(* services that are owed, and no more are owed than the wait can hold.     *)
(***************************************************************************)

Eligible == 0 .. NumEligible - 1
Debt == NumEligible * OffGrace
\* The services that are still owed to all hubs.
Owed == SumFunctionOnSet(pendingOff, Eligible)
\* The timer has picked a hub, and not yet counted its service.
UnderWay == bt.job = "control" /\ bt.at \in {"copy", "staging", "show", "count", "store"}
Polling == page \in {"shown", "transition"}

BudgetInv ==
    /\ UnderWay => active[bt.dev]
    /\ page \in {"dashboard", "idle", "toggle"} => waited = 0
    /\ Polling /\ app.at # "idle" => waited = 0
    /\ Polling => waited + Owed <= Debt + IF UnderWay THEN 1 ELSE 0
    /\ page = "asleep" /\ ~clean =>
           (\A d \in Devices : ~active[d]) /\ \E d \in Devices : hubBroadcasting[d]

LEMMA OwedFacts ==
    ASSUME TypeOK
    PROVE  /\ Owed \in Nat /\ Debt \in Nat /\ Owed <= Debt
           /\ \A d \in Eligible : pendingOff[d] <= Owed /\ pendingOff[d] \in Nat
<1> USE DevicesAssumption, GraceAssumption
<1>1. IsFiniteSet(Eligible) /\ Cardinality(Eligible) = NumEligible
  <2>1. 0 \in Int /\ NumEligible - 1 \in Int /\ ~(0 > NumEligible - 1)
        /\ (NumEligible - 1) - 0 + 1 = NumEligible
    OBVIOUS
  <2> QED
    BY <2>1, FS_Interval DEF Eligible
<1>2. OffGrace \in Nat /\ \A d \in Eligible : pendingOff[d] \in 0 .. OffGrace
  BY DEF TypeOK, Devices, Eligible
<1>3. /\ Owed \in Nat /\ Owed <= Cardinality(Eligible) * OffGrace
      /\ \A d \in Eligible : pendingOff[d] <= Owed
  BY <1>1, <1>2, SumIsBounded DEF Owed
<1>4. NumEligible \in Nat
  OBVIOUS
<1>5. \A a \in Nat, b \in Nat : a * b \in Nat
  OBVIOUS
<1>6. Debt \in Nat
  BY <1>2, <1>4, <1>5 DEF Debt
<1> QED
  BY <1>1, <1>2, <1>3, <1>6 DEF Debt

\* With no toggle left, a hub in the rotation has services to come, until it is dropped.
LEMMA ActiveIsOwed ==
    ASSUME SleepInv, Polling, app.at = "idle", UnderWay, active[bt.dev]
    PROVE  pendingOff[bt.dev] > 0 /\ bt.dev \in Eligible
<1> USE DEF SleepInv
<1>1. bt.dev \in Devices
  BY RecordTypes DEF IInv
<1>2. transitioning[bt.dev]
  BY <1>1 DEF PageInv, Polling, Leaving
<1>3. ~Toggling(bt.dev) /\ ~Dropping(bt.dev)
  BY DEF Toggling, Dropping, UnderWay
<1>4. pendingOff[bt.dev] > 0
  BY <1>1, <1>2, <1>3 DEF IInv, LockoutInv
<1>5. bt.dev < NumEligible
  BY DEF IInv, OnlyEligible, UnderWay
<1> QED
  BY <1>1, <1>4, <1>5, DevicesAssumption DEF Devices, Eligible

\* So the time is never up while a hub is in the rotation.
LEMMA InTime ==
    ASSUME SleepInv, BudgetInv, Polling, app.at = "idle"
    PROVE  waited < WaitServices
<1>1. /\ Owed \in Nat /\ Debt \in Nat
      /\ \A d \in Eligible : pendingOff[d] <= Owed /\ pendingOff[d] \in Nat
  BY OwedFacts DEF SleepInv, IInv
<1>2. waited \in Nat /\ WaitServices \in Nat /\ WaitServices > Debt
  BY WaitAssumption, WaitSuffices DEF SleepInv, SleepTypeOK, Debt
<1>3. CASE UnderWay
  <2>1. pendingOff[bt.dev] > 0 /\ bt.dev \in Eligible
    BY <1>3, ActiveIsOwed DEF BudgetInv
  <2>2. Owed >= 1
    BY <1>1, <2>1
  <2>3. waited + Owed <= Debt + 1
    BY <1>3 DEF BudgetInv
  <2> HIDE DEF Debt, Owed
  <2> QED
    BY <1>1, <1>2, <2>2, <2>3
<1>4. CASE ~UnderWay
  <2>1. waited + Owed <= Debt + 0
    BY <1>4 DEF BudgetInv
  <2> HIDE DEF Debt, Owed
  <2> QED
    BY <1>1, <1>2, <2>1
<1> QED
  BY <1>3, <1>4

LEMMA BudgetInit == SleepInit => BudgetInv
  BY DEF SleepInit, Init, BudgetInv, UnderWay, Polling, BtIdle

\* A service of the timer from its pick to its count, step by step.
LEMMA UnderWaySteps ==
    ASSUME IInv, BtStep \/ HciWorking \/ EventCallback \/ ControlPick
    PROVE  /\ ControlPick => ~UnderWay /\ UnderWay'
           /\ CountStore => UnderWay /\ ~UnderWay'
           /\ CountLoad => UnderWay /\ (UnderWay' <=> pendingOff[bt.dev] > 0)
           /\ ~(ControlPick \/ CountStore \/ CountLoad) => (UnderWay <=> UnderWay')
           /\ UnderWay /\ UnderWay' => bt'.dev = bt.dev
<1>1. /\ bt = [at |-> bt.at, job |-> bt.job, dev |-> bt.dev, vals |-> bt.vals, count |-> bt.count]
      /\ bt.job \in {"none", "start", "event", "control"}
  BY RecordTypes DEF IInv
<1>2. /\ bt.at = "idle" <=> bt.job = "none"
      /\ bt.job = "start" => bt.at = "staging"
      /\ bt.job = "event" => bt.at \in {"staging", "show"}
  BY DEF IInv, BtShape
<1>3. CASE ControlPick
  <2>1. bt.at = "idle" /\ bt'.at = "copy" /\ bt'.job = "control"
    BY <1>3 DEF ControlPick, BtIdle
  <2> QED
    BY <1>3, <2>1 DEF UnderWay, CountStore, CountLoad
<1>4. CASE CountStore
  <2>1. bt.at = "store" /\ bt'.at \in {"dropActive", "idle"}
    BY <1>1, <1>4 DEF CountStore, BtIdle
  <2> QED
    BY <1>1, <1>2, <1>4, <2>1 DEF UnderWay, ControlPick, CountLoad
<1>5. CASE CountLoad
  <2>1. bt.at = "count" /\ bt.job = "control"
    BY <1>1, <1>2, <1>5 DEF CountLoad
  <2>2. CASE pendingOff[bt.dev] > 0
    <3>1. bt'.at = "store" /\ bt'.job = bt.job /\ bt'.dev = bt.dev
      BY <1>1, <1>5, <2>2 DEF CountLoad
    <3> QED
      BY <1>5, <2>1, <2>2, <3>1 DEF UnderWay, ControlPick, CountStore
  <2>3. CASE ~(pendingOff[bt.dev] > 0)
    <3>1. bt'.at = "idle"
      BY <1>5, <2>3 DEF CountLoad, BtIdle
    <3> QED
      BY <1>5, <2>1, <2>3, <3>1 DEF UnderWay, ControlPick, CountStore
  <2> QED
    BY <2>2, <2>3
<1>6. CASE ControlCopy \/ StagedControl
  <2>1. /\ bt.at \in {"copy", "staging"} /\ bt'.at \in {"staging", "show"}
        /\ bt'.job = bt.job /\ bt'.dev = bt.dev
    BY <1>1, <1>6 DEF ControlCopy, StagedControl, BtStaging
  <2> QED
    BY <2>1 DEF UnderWay, ControlPick, CountStore, CountLoad
<1>7. CASE Show
  <2>1. CASE bt.job = "event"
    <3>1. bt'.at = "idle"
      BY <1>7, <2>1 DEF Show, BtIdle
    <3> QED
      BY <1>7, <2>1, <3>1 DEF UnderWay, Show, ControlPick, CountStore, CountLoad
  <2>2. CASE bt.job # "event"
    <3>1. bt.at = "show" /\ bt'.at = "count" /\ bt'.job = bt.job /\ bt'.dev = bt.dev
      BY <1>1, <1>7, <2>2 DEF Show
    <3> QED
      BY <3>1 DEF UnderWay, ControlPick, CountStore, CountLoad
  <2> QED
    BY <2>1, <2>2
<1>8. CASE StagedConnect
  <2>1. bt.job = "start" /\ bt.at = "staging" /\ bt'.at = "idle"
    BY <1>8 DEF StagedConnect, BtStaging, BtIdle
  <2> QED
    BY <2>1 DEF UnderWay, ControlPick, CountStore, CountLoad
<1>9. CASE DropActive \/ DropShow \/ DropSettle
  <2>1. /\ bt.at \in {"dropActive", "dropShow", "dropSettle"}
        /\ bt'.at \in {"dropShow", "dropSettle", "idle"}
    BY <1>1, <1>9 DEF DropActive, DropShow, DropSettle, BtIdle
  <2> QED
    BY <2>1 DEF UnderWay, ControlPick, CountStore, CountLoad
<1>10. CASE HciWorking \/ EventCallback
  <2>1. bt.at = "idle" /\ bt'.job \in {"start", "event"}
    BY <1>10 DEF HciWorking, EventCallback, BtIdle
  <2> QED
    BY <2>1, <1>10 DEF UnderWay, ControlPick, CountStore, CountLoad, HciWorking, EventCallback, BtIdle
<1> QED
  BY <1>3, <1>4, <1>5, <1>6, <1>7, <1>8, <1>9, <1>10 DEF BtStep

\* The hub a service is for stays in the rotation until the service is counted.
LEMMA ServedStays ==
    ASSUME SleepInv, UnderWay => active[bt.dev], [SleepNext]_sleepVars
    PROVE  UnderWay' => active'[bt'.dev]
<1> SUFFICES ASSUME UnderWay' PROVE active'[bt'.dev]
  OBVIOUS
<1> USE DEF SleepInv
<1>1. bt.dev \in Devices /\ TypeOK
  BY RecordTypes DEF IInv
<1>2. ASSUME UnderWay, bt'.dev = bt.dev PROVE active'[bt'.dev]
  <2>1. active[bt.dev] /\ ~DropActive
    BY <1>2 DEF UnderWay, DropActive
  <2>2. [Next]_vars \/ UNCHANGED active
    BY BroadcastStep DEF ToggleOff, shared
  <2> QED
    BY <1>1, <1>2, <2>1, <2>2, OnlyDropDeactivates
<1>3. CASE bt' = bt
  BY <1>2, <1>3 DEF UnderWay
<1>4. CASE ControlPick
  <2>1. PICK d \in Devices :
            NextActive(d) /\ bt' = [BtIdle EXCEPT !.at = "copy", !.job = "control", !.dev = d]
    BY <1>4 DEF ControlPick
  <2> QED
    BY <1>4, <2>1 DEF ControlPick, NextActive, BtIdle, shared
<1>5. CASE BtStep \/ HciWorking \/ EventCallback
  <2>1. (UnderWay /\ bt'.dev = bt.dev) \/ ControlPick
    BY <1>5, UnderWaySteps DEF IInv
  <2> QED
    BY <1>2, <1>4, <2>1
<1>6. bt' = bt \/ ControlPick \/ BtStep \/ HciWorking \/ EventCallback
  BY DEF SleepNext, sleepVars, vars, Drive, Sweep, TapRow, Tap, TaskStep,
     TimerFires, AppStep, WriteNeutral, Notify, ToggleEnter, ToggleMark, OnCancel, OffArm,
     OnConnect, OnStaged, OnActivate, OnShow, OnSettle, EnterIdle, WakeFromIdle, EnterDeepSleep,
     ToggleOff, PollShown, PollTransition, Halted
<1> QED
  BY <1>3, <1>4, <1>5, <1>6

\* A store of the countdown pays one service; nothing else changes what is owed, once the
\* toggles have returned.
LEMMA OwedStep ==
    ASSUME SleepInv, TaskNext, Polling, app.at = "idle", UnderWay => active[bt.dev]
    PROVE  /\ app'.at = "idle"
           /\ \/ CountStore /\ Owed' = Owed - 1 /\ UnderWay /\ ~UnderWay'
              \/ ControlPick /\ Owed' = Owed /\ ~UnderWay /\ UnderWay'
              \/ ~ControlPick /\ Owed' = Owed /\ (UnderWay <=> UnderWay')
<1> USE DEF SleepInv
<1>1. app'.at = "idle"
  BY TaskFrame
<1>2. TypeOK /\ Owed \in Nat
  BY OwedFacts DEF IInv
<1>3. UNCHANGED pendingOff => Owed' = Owed
  BY DEF Owed
<1>4. BtStep \/ HciWorking \/ EventCallback \/ ControlPick
  BY DEF TaskNext, AppStep, WriteNeutral, Notify, ToggleEnter, ToggleMark, OnCancel, OffArm,
     OnConnect, OnStaged, OnActivate, OnShow, OnSettle
<1>5. CASE CountStore
  <2>1. UnderWay /\ ~UnderWay'
    BY <1>4, <1>5, UnderWaySteps
  <2>2. /\ pendingOff' = [pendingOff EXCEPT ![bt.dev] = bt.count]
        /\ pendingOff[bt.dev] = bt.count + 1
    BY <1>5 DEF CountStore, IInv, LockoutInv
  <2>3. bt.dev \in Eligible
    BY <2>1, ActiveIsOwed
  <2>4. IsFiniteSet(Eligible) /\ \A d \in Eligible : d \in Devices
    BY DevicesAssumption, FS_Interval DEF Eligible, Devices
  <2>5. /\ \A d \in Eligible : pendingOff[d] \in Int
        /\ DOMAIN pendingOff = Devices
    BY <1>2, <2>4, GraceAssumption DEF TypeOK
  <2>6. bt.count \in Nat
    BY <1>2, RecordTypes
  <2>7. \A d \in Eligible : pendingOff'[d] = IF d = bt.dev THEN pendingOff[d] - 1 ELSE pendingOff[d]
    BY <2>2, <2>3, <2>4, <2>5, <2>6
  <2>8. Owed' = Owed - 1
    BY <2>3, <2>4, <2>5, <2>7, SumOneLess DEF Owed
  <2> QED
    BY <1>1, <1>5, <2>1, <2>8
<1>6. CASE ControlPick
  BY <1>1, <1>3, <1>4, <1>6, UnderWaySteps DEF ControlPick, shared
<1>7. CASE CountLoad
  <2>1. UnderWay /\ (UnderWay' <=> pendingOff[bt.dev] > 0)
    BY <1>4, <1>7, UnderWaySteps
  <2>2. pendingOff[bt.dev] > 0
    BY <2>1, ActiveIsOwed
  <2>3. Owed' = Owed /\ ~ControlPick
    BY <1>3, <1>7 DEF CountLoad, ControlPick, shared
  <2> QED
    BY <1>1, <2>1, <2>2, <2>3
<1>8. CASE ~CountStore /\ ~ControlPick /\ ~CountLoad
  <2>1. Owed' = Owed
    BY <1>3, <1>4, <1>8 DEF BtStep, ControlCopy, StagedControl, Show, StagedConnect, DropActive,
       DropShow, DropSettle, HciWorking, EventCallback, shared
  <2> QED
    BY <1>1, <1>4, <1>8, <2>1, UnderWaySteps
<1> QED
  BY <1>5, <1>6, <1>7, <1>8

\* A sleep step is a step of the two tasks inside their calls, or it leaves the BTstack
\* task, what is owed and every hub's flags alone.
LEMMA SleepFrame ==
    ASSUME [SleepNext]_sleepVars
    PROVE  TaskNext \/ UNCHANGED <<bt, pendingOff, active, hubBroadcasting, sent, served>>
BY DEF SleepNext, sleepVars, vars, shared, radio, Drive, Sweep, TapRow, Tap, TaskStep, TaskNext,
   TimerFires, EnterIdle, WakeFromIdle, EnterDeepSleep, ToggleOff, PollShown, PollTransition,
   Halted

\* When the wait ends, nothing is broadcast to any more and a row says otherwise.
LEMMA TimedOut ==
    ASSUME SleepInv, BudgetInv, Polling, OutOfTime,
           page = "shown" => Waiting /\ hubBroadcasting[next],
           page = "transition" => transitioning[next]
    PROVE  (\A d \in Devices : ~active[d]) /\ \E d \in Devices : hubBroadcasting[d]
<1> USE DEF SleepInv
<1>1. app.at = "idle" /\ next \in Devices
  BY DEF PageInv, SleepTypeOK, Polling, Waiting
<1>2. waited # WaitServices
  <2>1. waited \in Int /\ WaitServices \in Int
    BY WaitAssumption DEF SleepTypeOK
  <2> QED
    BY <1>1, <2>1, InTime
<1>3. (\A d \in Devices : ~active[d]) /\ bt.at = "idle"
  BY <1>2 DEF OutOfTime
<1>4. ~transitioning[next]
  BY <1>1, <1>3 DEF IInv, LockoutInv, Toggling, Dropping
<1>5. page = "shown"
  BY <1>4 DEF Polling
<1> QED
  BY <1>1, <1>3, <1>5

\* The steps of the tasks while the wait polls, and before it does.
LEMMA BudgetTaskStep ==
    ASSUME SleepInv, BudgetInv, TaskNext, TypeOK', page # "asleep",
           UNCHANGED <<page, next, stopped, clean>>,
           waited' = IF ControlPick /\ Waiting /\ waited < WaitServices THEN waited + 1 ELSE waited
    PROVE  /\ page' \in {"dashboard", "idle", "toggle"} => waited' = 0
           /\ Polling' /\ app'.at # "idle" => waited' = 0
           /\ Polling' => waited' + Owed' <= Debt + IF UnderWay' THEN 1 ELSE 0
<1> USE DEF SleepInv
<1>1. /\ Owed \in Nat /\ Debt \in Nat
      /\ Owed' \in Nat /\ Owed' <= Debt
  <2>1. (Owed \in Nat /\ Debt \in Nat /\ Owed <= Debt)'
    BY OwedFacts, PTL
  <2> QED
    BY <2>1, OwedFacts DEF IInv, Debt
<1>2. waited \in Nat
  BY WaitAssumption DEF SleepTypeOK
<1>3. CASE ~Polling
  BY <1>3 DEF Polling, Waiting, BudgetInv, SleepTypeOK
<1>4. CASE Polling /\ app.at # "idle"
  <2>1. waited = 0 /\ waited' = 0
    BY <1>4 DEF BudgetInv, Waiting
  <2> DEFINE D == Debt
             O2 == Owed'
             U2 == UnderWay'
  <2>2. waited' + O2 <= D + IF U2 THEN 1 ELSE 0
    <3>1. D \in Nat /\ O2 \in Nat /\ O2 <= D
      BY <1>1
    <3> HIDE DEF D, O2, U2
    <3> QED
      BY <2>1, <3>1
  <2> QED
    BY <2>1, <2>2
<1>5. CASE Polling /\ app.at = "idle"
  <2>1. /\ app'.at = "idle"
        /\ \/ CountStore /\ Owed' = Owed - 1 /\ UnderWay /\ ~UnderWay'
           \/ ControlPick /\ Owed' = Owed /\ ~UnderWay /\ UnderWay'
           \/ ~ControlPick /\ Owed' = Owed /\ (UnderWay <=> UnderWay')
    BY <1>5, OwedStep DEF BudgetInv
  <2>2. waited < WaitServices
    BY <1>5, InTime
  <2>3. waited' = IF ControlPick THEN waited + 1 ELSE waited
    BY <1>5, <2>2 DEF Waiting, Polling
  <2>4. waited + Owed <= Debt + IF UnderWay THEN 1 ELSE 0
    BY <1>5 DEF BudgetInv
  <2>5. ~(CountStore /\ ControlPick)
    BY DEF CountStore, ControlPick
  <2> DEFINE D == Debt
             O == Owed
             O2 == Owed'
             U == UnderWay
             U2 == UnderWay'
  <2>6. waited' + O2 <= D + IF U2 THEN 1 ELSE 0
    <3>1. /\ O \in Nat /\ D \in Nat /\ O2 \in Nat /\ waited \in Nat
          /\ waited + O <= D + IF U THEN 1 ELSE 0
          /\ \/ ~ControlPick /\ O2 = O - 1 /\ U /\ ~U2
             \/ ControlPick /\ O2 = O /\ ~U /\ U2
             \/ ~ControlPick /\ O2 = O /\ (U <=> U2)
      BY <1>1, <1>2, <2>1, <2>4, <2>5
    <3> HIDE DEF D, O, O2, U, U2
    <3>2. ASSUME ~ControlPick, O2 = O - 1, U, ~U2 PROVE waited' + O2 <= D + IF U2 THEN 1 ELSE 0
      <4>1. waited' = waited /\ waited + O <= D + 1
        BY <2>3, <3>1, <3>2
      <4> QED
        BY <3>1, <3>2, <4>1
    <3>3. ASSUME ControlPick, O2 = O, ~U, U2 PROVE waited' + O2 <= D + IF U2 THEN 1 ELSE 0
      <4>1. waited' = waited + 1 /\ waited + O <= D + 0
        BY <2>3, <3>1, <3>3
      <4> QED
        BY <3>1, <3>3, <4>1
    <3>4. ASSUME ~ControlPick, O2 = O, U <=> U2 PROVE waited' + O2 <= D + IF U2 THEN 1 ELSE 0
      BY <2>3, <3>1, <3>4
    <3> QED
      BY <3>1, <3>2, <3>3, <3>4
  <2> QED
    BY <1>5, <2>1, <2>6 DEF Polling
<1> QED
  BY <1>3, <1>4, <1>5

\* Every step keeps the budget.
LEMMA BudgetStep == SleepInv /\ BudgetInv /\ [SleepNext]_sleepVars => BudgetInv'
<1> SUFFICES ASSUME SleepInv, BudgetInv, [SleepNext]_sleepVars PROVE BudgetInv'
  OBVIOUS
<1> DEFINE Waits == /\ page' \in {"dashboard", "idle", "toggle"} => waited' = 0
                    /\ Polling' /\ app'.at # "idle" => waited' = 0
                    /\ Polling' => waited' + Owed' <= Debt + IF UnderWay' THEN 1 ELSE 0
           Ends == page' = "asleep" /\ ~clean' =>
                       (\A d \in Devices : ~active'[d]) /\ \E d \in Devices : hubBroadcasting'[d]
<1>1. UnderWay' => active'[bt'.dev]
  BY ServedStays DEF BudgetInv
<1>2. SleepInv' /\ TypeOK'
  BY SleepInvStep DEF SleepInv, IInv
<1>3. /\ UNCHANGED pendingOff => Owed' = Owed
      /\ UNCHANGED bt => (UnderWay' <=> UnderWay)
      /\ UNCHANGED page => (Polling' <=> Polling)
  BY DEF Owed, UnderWay, Polling
<1>4. CASE TaskStep \/ TimerFires
  <2>1. CASE TaskStep
    <3>0. ~ControlPick
      <4> SUFFICES ASSUME ControlPick PROVE FALSE
        OBVIOUS
      <4>1. bt.at = "idle" /\ bt'.at = "copy" /\ bt'.job = "control"
        BY DEF ControlPick, BtIdle
      <4>2. CASE AppStep
        <5>1. UNCHANGED bt
          BY <4>2 DEF AppStep, WriteNeutral, Notify, ToggleEnter, ToggleMark, OnCancel, OffArm,
             OnConnect, OnStaged, OnActivate, OnShow, OnSettle
        <5> QED
          BY <4>1, <5>1
      <4>3. CASE BtStep
        BY <4>1, <4>3 DEF BtStep, ControlCopy, StagedConnect, StagedControl, BtStaging, Show,
           CountLoad, CountStore, DropActive, DropShow, DropSettle
      <4>4. CASE HciWorking \/ EventCallback
        BY <4>1, <4>4 DEF HciWorking, EventCallback, BtIdle
      <4> QED
        BY <2>1, <4>2, <4>3, <4>4 DEF TaskStep
    <3>1. /\ TaskNext /\ page # "asleep" /\ UNCHANGED <<page, next, stopped, clean, waited>>
          /\ ~ControlPick
      BY <2>1, <3>0 DEF TaskStep, TaskNext, sleeping
    <3>2. waited' = IF ControlPick /\ Waiting /\ waited < WaitServices THEN waited + 1 ELSE waited
      BY <3>1
    <3> QED
      BY <1>1, <1>2, <3>1, <3>2, BudgetTaskStep DEF BudgetInv
  <2>2. CASE TimerFires
    <3>1. /\ TaskNext /\ page # "asleep" /\ UNCHANGED <<page, next, stopped, clean>>
          /\ waited' = IF ControlPick /\ Waiting /\ waited < WaitServices THEN waited + 1 ELSE waited
      BY <2>2 DEF TimerFires, TaskNext
    <3> QED
      BY <1>1, <1>2, <3>1, BudgetTaskStep DEF BudgetInv
  <2> QED
    BY <1>4, <2>1, <2>2
<1>5. CASE Drive \/ TapRow \/ EnterIdle \/ WakeFromIdle \/ EnterDeepSleep
  <2>1. waited' = waited /\ waited = 0 /\ ~Polling' /\ page' # "asleep"
    BY <1>5 DEF Drive, TapRow, Awake, EnterIdle, WakeFromIdle, EnterDeepSleep, sleeping, BudgetInv,
       Polling
  <2> QED
    BY <1>1, <2>1 DEF BudgetInv
<1>6. CASE ToggleOff
  <2>1. /\ waited' = 0 /\ page' \in {"toggle", "shown"}
        /\ Owed' \in Nat /\ Owed' <= Debt /\ Debt \in Nat
    <3>1. (Owed \in Nat /\ Debt \in Nat /\ Owed <= Debt)'
      BY <1>2, OwedFacts, PTL
    <3>2. waited' = waited /\ page = "toggle" /\ page' \in {"toggle", "shown"}
      BY <1>6 DEF ToggleOff
    <3> QED
      BY <3>1, <3>2 DEF BudgetInv, Debt
  <2> DEFINE D == Debt
             O2 == Owed'
             U2 == UnderWay'
  <2>2. waited' + O2 <= D + IF U2 THEN 1 ELSE 0
    <3>1. D \in Nat /\ O2 \in Nat /\ O2 <= D
      BY <2>1
    <3> HIDE DEF D, O2, U2
    <3> QED
      BY <2>1, <3>1
  <2> QED
    BY <1>1, <2>1, <2>2 DEF BudgetInv
<1>7. CASE PollShown \/ PollTransition
  <2>1. /\ UNCHANGED <<bt, pendingOff, active, hubBroadcasting, app, waited>>
        /\ Polling /\ page' \in {"shown", "transition", "asleep"}
        /\ Waiting
    BY <1>7 DEF PollShown, PollTransition, NotClear, vars, shared, Polling, Waiting, SleepInv, PageInv
  <2>2. Waits
    BY <1>3, <2>1 DEF BudgetInv
  <2>3. Ends
    <3>1. SUFFICES ASSUME page' = "asleep", ~clean' PROVE (\A d \in Devices : ~active[d]) /\ \E d \in Devices : hubBroadcasting[d]
      BY <2>1
    <3>2. CASE PollShown
      BY <2>1, <3>1, <3>2, TimedOut DEF PollShown, NotClear
    <3>3. CASE PollTransition
      BY <2>1, <3>1, <3>3, TimedOut DEF PollTransition, NotClear
    <3> QED
      BY <1>7, <3>2, <3>3
  <2> QED
    BY <1>1, <2>2, <2>3 DEF BudgetInv
<1>8. CASE Halted \/ UNCHANGED sleepVars
  <2>1. UNCHANGED <<page, waited, app, clean, bt, pendingOff, active, hubBroadcasting>>
    BY <1>8 DEF Halted, sleepVars, vars, shared, sleeping
  <2> QED
    BY <1>1, <1>3, <2>1 DEF BudgetInv
<1> QED
  BY <1>4, <1>5, <1>6, <1>7, <1>8 DEF SleepNext

\* Whatever the order of the two tasks, what the broadcast owes fits into the wait.
LEMMA BudgetHolds == SleepSpec => [](SleepInv /\ BudgetInv)
<1>1. SleepInv /\ BudgetInv /\ [SleepNext]_sleepVars => (SleepInv /\ BudgetInv)'
  BY SleepInvStep, BudgetStep
<1> QED
  BY SleepInitInv, BudgetInit, <1>1, PTL DEF SleepSpec

\* sketch.cpp:3812: the two seconds end only on a row that still shows a hub which is no
\* longer broadcast to: all countdowns are over by then, for every number of hubs and ports.
THEOREM SleepTimeoutMeansStaleRow == SleepSpec => []TimeoutMeansStaleRow
<1>1. BudgetInv => TimeoutMeansStaleRow
  BY DEF BudgetInv, TimeoutMeansStaleRow
<1> QED
  BY <1>1, BudgetHolds, PTL

-----------------------------------------------------------------------------
(***************************************************************************)
(* Neutral is the last a hub is told: no sweep runs once sleep is entered,  *)
(* and no toggle_on stages a telegram next to the BTstack task.             *)
(***************************************************************************)

Switching == page \in {"toggle", "shown", "transition"}

\* What is being staged for a hub is neutral.
Repeats(d) == BtStaging /\ bt.job # "start" /\ bt.dev = d => bt.vals = Quiet

\* A hub that counts down: its channels are neutral, from the first service that has read
\* them on its telegrams are whole, and from the end of that one on so is what it was told.
CountsDownTuned(d) == pendingOff[d] > 0 =>
    /\ channel[d] = Quiet
    /\ served[d] > 0 => Repeats(d) /\ (BtStaging => ~overlap)
    /\ served[d] > 0 /\ ~(served[d] = 1 /\ BtStaging /\ bt.job = "control" /\ bt.dev = d)
         => sent[d] = Quiet

\* A hub that has left the rotation.
OutTuned(d) == ~active[d] => channel[d] = Quiet /\ sent[d] = Quiet /\ Repeats(d)

Tuned ==
    /\ \A d \in Devices : CountsDownTuned(d)
    /\ bt.at = "dropActive" => channel[bt.dev] = Quiet /\ sent[bt.dev] = Quiet
    /\ \A d \in stopped : OutTuned(d)

TunedInv ==
    /\ Switching => Tuned
    /\ page = "asleep" => \A d \in stopped : ~active[d] => sent[d] = Quiet

\* The steps of the Arduino task.
LEMMA TunedAppStep ==
    ASSUME IInv, Tuned, AppStep, app.op \in {"none", "off"}, stopped \subseteq Devices,
           UNCHANGED stopped
    PROVE  Tuned'
<1> USE DEF IInv
<1>1. /\ app.dev \in Devices /\ app.port \in Ports /\ bt.dev \in Devices
      /\ app.at \in AppSteps
  BY RecordTypes DEF TypeOK, AppState
<1>2. CASE WriteNeutral
  <2>1. UNCHANGED <<pendingOff, active, sent, served, bt, overlap>>
    BY <1>2 DEF WriteNeutral, shared, radio
  <2>2. \A d \in Devices : channel[d] = Quiet => channel'[d] = Quiet
    <3> SUFFICES ASSUME NEW d \in Devices, channel[d] = Quiet PROVE channel'[d] = Quiet
      OBVIOUS
    <3>1. channel' = [channel EXCEPT ![app.dev][app.port] = Neutral]
      BY <1>2 DEF WriteNeutral
    <3>2. CASE d # app.dev
      BY <1>1, <3>1, <3>2 DEF TypeOK
    <3>3. CASE d = app.dev
      <4>1. channel'[d] = [channel[d] EXCEPT ![app.port] = Neutral]
        BY <1>1, <3>1, <3>3 DEF TypeOK
      <4> QED
        BY <4>1 DEF Quiet
    <3> QED
      BY <3>2, <3>3
  <2> QED
    BY <1>1, <2>1, <2>2 DEF Tuned, CountsDownTuned, OutTuned, Repeats, BtStaging
<1>3. CASE (\E tooSoon \in BOOLEAN : Notify(tooSoon)) \/ ToggleEnter \/ ToggleMark
  <2>1. UNCHANGED <<channel, pendingOff, active, sent, served, bt, overlap>>
    BY <1>3 DEF Notify, ToggleEnter, ToggleMark, shared, radio
  <2> QED
    BY <2>1 DEF Tuned, CountsDownTuned, OutTuned, Repeats, BtStaging
<1>4. CASE OffArm
  <2>1. /\ UNCHANGED <<channel, active, sent, bt, overlap>>
        /\ \A d \in Devices : d # app.dev => pendingOff'[d] = pendingOff[d] /\ served'[d] = served[d]
        /\ served'[app.dev] = 0
    BY <1>1, <1>4 DEF OffArm, radio, TypeOK
  <2>2. channel[app.dev] = Quiet
    BY <1>4 DEF OffArm, AppShape, NeutralInv, InToggle
  <2>3. \A d \in Devices : CountsDownTuned(d)'
    BY <2>1, <2>2 DEF Tuned, CountsDownTuned, Repeats, BtStaging
  <2> QED
    BY <2>1, <2>3 DEF Tuned, OutTuned, Repeats, BtStaging
<1>5. CASE OnCancel \/ OnConnect \/ OnStaged \/ OnActivate \/ OnShow \/ OnSettle
  BY <1>5 DEF OnCancel, OnConnect, OnStaged, OnActivate, OnShow, OnSettle, AppShape
<1> QED
  BY <1>2, <1>3, <1>4, <1>5 DEF AppStep

\* A telegram goes out as it was read.
LEMMA TunedStaged ==
    ASSUME IInv, Tuned, StagedControl, stopped \subseteq Devices, UNCHANGED stopped
    PROVE  Tuned'
<1> USE DEF IInv
<1>1. bt.dev \in Devices /\ bt.at = "staging" /\ bt'.at = "show"
  BY RecordTypes DEF StagedControl, BtStaging
<1>2. UNCHANGED <<channel, pendingOff, active, served>>
  BY DEF StagedControl, shared
<1>3. /\ sent' \in {sent, [sent EXCEPT ![bt.dev] = bt.vals]}
      /\ ~overlap => sent' = [sent EXCEPT ![bt.dev] = bt.vals]
  BY DEF StagedControl
<1>4. \A d \in Devices :
        /\ d # bt.dev => sent'[d] = sent[d]
        /\ sent'[d] \in {sent[d], bt.vals}
        /\ ~overlap /\ d = bt.dev => sent'[d] = bt.vals
  BY <1>1, <1>3 DEF TypeOK
<1>5. \A d \in Devices : CountsDownTuned(d)'
  <2> SUFFICES ASSUME NEW d \in Devices, pendingOff[d] > 0 PROVE CountsDownTuned(d)'
    BY <1>2 DEF CountsDownTuned
  <2>1. channel'[d] = Quiet
    BY <1>2 DEF Tuned, CountsDownTuned
  <2>2. ASSUME served[d] > 0 PROVE sent'[d] = Quiet
    <3>1. CASE d = bt.dev
      BY <1>1, <1>4, <2>2, <3>1 DEF Tuned, CountsDownTuned, Repeats, BtStaging, StagedControl
    <3>2. CASE d # bt.dev
      BY <1>4, <2>2, <3>2 DEF Tuned, CountsDownTuned
    <3> QED
      BY <3>1, <3>2
  <2> QED
    BY <1>1, <1>2, <2>1, <2>2 DEF CountsDownTuned, Repeats, BtStaging
<1>6. \A d \in stopped : OutTuned(d)'
  BY <1>1, <1>2, <1>4 DEF Tuned, OutTuned, Repeats, BtStaging, StagedControl
<1> QED
  BY <1>1, <1>5, <1>6 DEF Tuned

\* The steps of the BTstack task, while the Arduino task stages nothing.
LEMMA TunedBtStep ==
    ASSUME IInv, Tuned, BtStep \/ HciWorking \/ EventCallback \/ ControlPick,
           ~AppStaging, stopped \subseteq Devices, UNCHANGED stopped
    PROVE  Tuned'
<1> USE DEF IInv
<1>1. /\ bt = [at |-> bt.at, job |-> bt.job, dev |-> bt.dev, vals |-> bt.vals, count |-> bt.count]
      /\ bt.dev \in Devices /\ bt.count \in Nat
      /\ bt.job \in {"none", "start", "event", "control"}
  BY RecordTypes
<1>2. CASE HciWorking
  <2>1. /\ UNCHANGED <<channel, pendingOff, active, served, sent>>
        /\ bt.at = "idle" /\ bt'.at = "staging" /\ bt'.job = "start" /\ overlap' = FALSE
    BY <1>2, <1>1 DEF HciWorking, shared, BtIdle, BeginStaging
  <2> QED
    BY <2>1 DEF Tuned, CountsDownTuned, OutTuned, Repeats, BtStaging
<1>3. CASE EventCallback
  <2>1. /\ UNCHANGED <<channel, pendingOff, active, served, sent>> /\ overlap' = FALSE
        /\ bt.at = "idle" /\ bt'.at = "staging" /\ bt'.job = "event" /\ bt'.vals = channel[bt'.dev]
    BY <1>3 DEF EventCallback, shared, BtIdle, BeginStaging
  <2> QED
    BY <2>1 DEF Tuned, CountsDownTuned, OutTuned, Repeats, BtStaging
<1>4. CASE ControlPick
  <2>1. /\ UNCHANGED <<channel, pendingOff, active, served, sent>>
        /\ bt.at = "idle" /\ bt'.at = "copy"
    BY <1>4 DEF ControlPick, shared, radio, BtIdle
  <2> QED
    BY <2>1 DEF Tuned, CountsDownTuned, OutTuned, Repeats, BtStaging
<1>5. CASE ControlCopy
  <2>1. /\ UNCHANGED <<channel, pendingOff, active, sent>> /\ overlap' = FALSE
        /\ bt.at = "copy" /\ bt'.at = "staging" /\ bt'.dev = bt.dev /\ bt'.vals = channel[bt.dev]
        /\ bt'.job = "control"
    BY <1>1, <1>5 DEF ControlCopy, shared, BeginStaging, BtShape
  <2>2. /\ \A d \in Devices : d # bt.dev => served'[d] = served[d]
        /\ \A d \in Devices : served[d] \in Nat
        /\ pendingOff[bt.dev] > 0 => served'[bt.dev] = served[bt.dev] + 1
    BY <1>1, <1>5 DEF ControlCopy, TypeOK
  <2>3. \A d \in Devices : CountsDownTuned(d)'
    <3> SUFFICES ASSUME NEW d \in Devices, pendingOff[d] > 0 PROVE CountsDownTuned(d)'
      BY <2>1 DEF CountsDownTuned
    <3>1. channel'[d] = Quiet /\ Repeats(d)' /\ ~overlap'
      BY <2>1 DEF Tuned, CountsDownTuned, Repeats
    <3>2. served[d] > 0 => sent'[d] = Quiet
      BY <2>1 DEF Tuned, CountsDownTuned, BtStaging
    <3>3. CASE d # bt.dev
      BY <2>1, <2>2, <3>1, <3>2, <3>3 DEF CountsDownTuned
    <3>4. CASE d = bt.dev
      <4>1. served'[d] = served[d] + 1 /\ served[d] \in Nat
        BY <2>2, <3>4
      <4>2. served'[d] # 1 => served[d] > 0
        BY <4>1
      <4> QED
        BY <2>1, <3>1, <3>2, <3>4, <4>2 DEF CountsDownTuned, BtStaging
    <3> QED
      BY <3>3, <3>4
  <2>4. \A d \in stopped : OutTuned(d)'
    BY <2>1 DEF Tuned, OutTuned, Repeats, BtStaging
  <2> QED
    BY <2>1, <2>3, <2>4 DEF Tuned
<1>6. CASE StagedConnect
  <2>1. /\ UNCHANGED <<channel, pendingOff, active, served, sent>>
        /\ bt.job = "start" /\ bt'.at = "idle"
    BY <1>6 DEF StagedConnect, shared, BtIdle
  <2> QED
    BY <2>1 DEF Tuned, CountsDownTuned, OutTuned, Repeats, BtStaging
<1>7. CASE StagedControl
  BY <1>7, TunedStaged
<1>8. CASE Show \/ CountLoad \/ DropShow \/ DropSettle
  <2>1. UNCHANGED <<channel, pendingOff, active, served, sent>> /\ bt.at # "staging"
    BY <1>8 DEF Show, CountLoad, DropShow, DropSettle, shared, radio
  <2>2. bt'.at \notin {"staging", "dropActive"}
    <3>1. CASE Show
      BY <1>1, <3>1 DEF Show, BtIdle
    <3>2. CASE CountLoad
      BY <1>1, <3>2 DEF CountLoad, BtIdle
    <3>3. CASE DropShow \/ DropSettle
      BY <1>1, <3>3 DEF DropShow, DropSettle, BtIdle
    <3> QED
      BY <1>8, <3>1, <3>2, <3>3
  <2> QED
    BY <2>1, <2>2 DEF Tuned, CountsDownTuned, OutTuned, Repeats, BtStaging
<1>9. CASE CountStore
  <2>1. /\ UNCHANGED <<channel, active, served, sent>> /\ bt.at = "store"
        /\ bt'.at \in {"idle", "dropActive"}
        /\ bt'.at = "dropActive" => bt'.dev = bt.dev /\ bt.count = 0
        /\ pendingOff' = [pendingOff EXCEPT ![bt.dev] = bt.count]
    BY <1>1, <1>9 DEF CountStore, radio, BtIdle
  <2>2. pendingOff[bt.dev] = bt.count + 1 /\ ServingNow(bt.dev)
    BY <1>1, <2>1 DEF LockoutInv, BtShape, ServingNow
  <2>3. \A d \in Devices : pendingOff'[d] > 0 => pendingOff[d] > 0
    BY <1>1, <2>1, <2>2 DEF TypeOK
  <2>4. \A d \in Devices : CountsDownTuned(d)'
    BY <2>1, <2>3 DEF Tuned, CountsDownTuned, Repeats, BtStaging
  <2>5. bt.count = 0 => served[bt.dev] > 0
    <3>1. pendingOff[bt.dev] > 0 /\ served[bt.dev] + pendingOff[bt.dev] >= OffGrace
      BY <1>1, <2>2 DEF GraceInv
    <3>2. served[bt.dev] \in Nat
      BY <1>1 DEF TypeOK
    <3> QED
      BY <2>2, <3>1, <3>2, GraceAssumption
  <2>6. bt'.at = "dropActive" => channel'[bt'.dev] = Quiet /\ sent'[bt'.dev] = Quiet
    BY <1>1, <2>1, <2>2, <2>5 DEF Tuned, CountsDownTuned, BtStaging
  <2> QED
    BY <2>1, <2>4, <2>6 DEF Tuned, OutTuned, Repeats, BtStaging
<1>10. CASE DropActive
  <2>1. /\ UNCHANGED <<channel, pendingOff, served, sent>> /\ bt.at = "dropActive"
        /\ bt'.at = "dropShow" /\ active' = [active EXCEPT ![bt.dev] = FALSE]
    BY <1>1, <1>10 DEF DropActive, radio
  <2>2. \A d \in Devices : CountsDownTuned(d)'
    BY <2>1 DEF Tuned, CountsDownTuned, Repeats, BtStaging
  <2>3. \A d \in stopped : d # bt.dev => OutTuned(d)'
    BY <2>1 DEF Tuned, OutTuned, Repeats, BtStaging, TypeOK
  <2>4. \A d \in stopped : d = bt.dev => OutTuned(d)'
    BY <2>1 DEF Tuned, OutTuned, Repeats, BtStaging
  <2> QED
    BY <2>1, <2>2, <2>3, <2>4 DEF Tuned
<1> QED
  BY <1>2, <1>3, <1>4, <1>5, <1>6, <1>7, <1>8, <1>9, <1>10 DEF BtStep

\* Every step keeps what deep sleep knows of the channels and the telegrams.
LEMMA TunedStep == SleepInv /\ TunedInv /\ [SleepNext]_sleepVars => TunedInv'
<1> SUFFICES ASSUME SleepInv, TunedInv, [SleepNext]_sleepVars PROVE TunedInv'
  OBVIOUS
<1> USE DEF SleepInv
<1>0. stopped \subseteq Devices
  BY DEF SleepTypeOK
<1>1. CASE TaskStep \/ TimerFires
  <2>1. TaskNext /\ page # "asleep" /\ UNCHANGED <<page, stopped>>
    BY <1>1 DEF TaskStep, TimerFires, TaskNext, sleeping
  <2>2. CASE Switching
    <3>1. Tuned /\ app.op \in {"none", "off"} /\ ~AppStaging
      BY <2>2 DEF TunedInv, Switching, PageInv, IInv, AppShape, AppStaging
    <3>2. Tuned'
      BY <1>0, <2>1, <3>1, TunedAppStep, TunedBtStep DEF TaskNext
    <3> QED
      BY <2>1, <3>2 DEF TunedInv
  <2>3. CASE ~Switching
    BY <2>1, <2>3 DEF TunedInv, Switching
  <2> QED
    BY <2>2, <2>3
<1>2. CASE Drive \/ TapRow \/ EnterIdle \/ WakeFromIdle
  <2>1. ~Switching' /\ page' # "asleep"
    BY <1>2 DEF Drive, TapRow, Awake, EnterIdle, WakeFromIdle, sleeping, Switching
  <2> QED
    BY <2>1 DEF TunedInv
<1>3. CASE EnterDeepSleep
  <2>1. /\ UNCHANGED <<channel, pendingOff, active, served, sent, bt, overlap>>
        /\ page = "idle" /\ page' = "toggle" /\ stopped' = {d \in Devices : active[d]}
    BY <1>3 DEF EnterDeepSleep, vars, shared, radio
  <2>2. \A d \in Devices : ~transitioning[d]
    BY <2>1 DEF PageInv
  <2>3. bt.dev \in Devices /\ \A d \in Devices : ~(pendingOff[d] > 0) /\ ~Dropping(d)
    BY <2>2, RecordTypes DEF IInv, LockoutInv
  <2>4. Tuned'
    BY <2>1, <2>3 DEF Tuned, CountsDownTuned, OutTuned, Dropping
  <2> QED
    BY <2>1, <2>4 DEF TunedInv
<1>4. CASE ToggleOff \/ PollShown \/ PollTransition
  <2>1. /\ UNCHANGED <<channel, pendingOff, active, served, sent, bt, overlap, stopped>>
        /\ Switching
    BY <1>4 DEF ToggleOff, PollShown, PollTransition, vars, shared, radio, Switching
  <2>2. Tuned'
    BY <2>1 DEF TunedInv, Tuned, CountsDownTuned, OutTuned, Repeats, BtStaging
  <2>3. \A d \in stopped' : ~active'[d] => sent'[d] = Quiet
    BY <2>2 DEF Tuned, OutTuned
  <2> QED
    BY <2>2, <2>3 DEF TunedInv
<1>5. CASE Halted \/ UNCHANGED sleepVars
  <2>1. UNCHANGED <<page, channel, pendingOff, active, served, sent, bt, overlap, stopped>>
    BY <1>5 DEF Halted, sleepVars, vars, shared, radio, sleeping
  <2> QED
    BY <2>1 DEF TunedInv, Switching, Tuned, CountsDownTuned, OutTuned, Repeats, BtStaging
<1> QED
  BY <1>1, <1>2, <1>3, <1>4, <1>5 DEF SleepNext

\* sketch.cpp:3795: when the CPUs are halted, every hub that was in the rotation when sleep
\* was entered has left it and neutral is the last it was told, clean end or not.
THEOREM SleepAsleepIsNeutral == SleepSpec => []AsleepIsNeutral
<1>1. SleepInit => TunedInv
  BY DEF SleepInit, TunedInv, Switching
<1>2. SleepInv /\ BudgetInv /\ TunedInv => AsleepIsNeutral
  <2> SUFFICES ASSUME SleepInv, BudgetInv, TunedInv, page = "asleep", NEW d \in stopped
               PROVE  ~active[d] /\ sent[d] = Quiet
    BY DEF AsleepIsNeutral
  <2>1. d \in Devices
    BY DEF SleepInv, SleepTypeOK
  <2>2. ~active[d]
    BY <2>1 DEF SleepInv, PageInv, BudgetInv
  <2> QED
    BY <2>2 DEF TunedInv
<1> QED
  BY <1>1, <1>2, TunedStep, BudgetHolds, PTL DEF SleepSpec
=============================================================================
