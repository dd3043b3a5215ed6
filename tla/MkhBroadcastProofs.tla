------------------------- MODULE MkhBroadcastProofs -------------------------
(***************************************************************************)
(* Proofs about MkhBroadcast, for every number of devices and ports, every  *)
(* grace period of at least two services and every set of bound ports.      *)
(***************************************************************************)
EXTENDS MkhBroadcast, TLAPS

USE DevicesAssumption, PortsAssumption, LevelsAssumption, ConfiguredAssumption, GraceAssumption

-----------------------------------------------------------------------------
\* Facts about the pieces the actions are built from

\* What the constants say about the small sets.
LEMMA SetFacts ==
    /\ 0 \in Devices /\ 0 \in Ports
    /\ Devices \subseteq Int /\ Ports \subseteq Int
    /\ Quiet \in Values
    /\ OffGrace \in Nat /\ OffGrace >= 2
    /\ 0 \in 0 .. OffGrace /\ OffGrace \in 0 .. OffGrace
    /\ \A dp \in Configured : dp[1] \in Devices /\ dp[2] \in Ports
BY DEF Devices, Ports, Quiet, Values

\* The idle states of the two tasks are states.
LEMMA IdleTypes == AppIdle \in AppState /\ BtIdle \in BtState
BY SetFacts DEF AppIdle, AppState, AppSteps, BtIdle, BtState, BtSteps

\* Posting a callback keeps the run loop's list a list of devices.
LEMMA PostType ==
    ASSUME NEW d \in Devices, callbacks \in Seq(Devices)
    PROVE  Post(d) \in Seq(Devices)
BY DEF Post

\* mkh_set_channel returns to a step of the Arduino task.
LEMMA AfterChannelType ==
    ASSUME TypeOK
    PROVE  AfterChannel \in AppState
<1>1. app.port \in Ports /\ app.dev \in Devices /\ app.op \in {"none", "sweep", "off", "on"}
  BY DEF TypeOK, AppState
<1>2. app.port + 1 < NumPorts => app.port + 1 \in Ports
  BY <1>1 DEF Ports
<1>3. app = [at |-> app.at, op |-> app.op, dev |-> app.dev, port |-> app.port]
  BY DEF TypeOK, AppState
<1> QED
  BY <1>1, <1>2, <1>3, SetFacts, IdleTypes DEF AfterChannel, AppState, AppSteps

\* The fields of the two tasks' states.
LEMMA RecordTypes ==
    ASSUME TypeOK
    PROVE  /\ app = [at |-> app.at, op |-> app.op, dev |-> app.dev, port |-> app.port]
           /\ app.dev \in Devices /\ app.port \in Ports
           /\ app.op \in {"none", "sweep", "off", "on"}
           /\ bt = [at |-> bt.at, job |-> bt.job, dev |-> bt.dev, vals |-> bt.vals,
                    count |-> bt.count]
           /\ bt.job \in {"none", "start", "event", "control"}
           /\ bt.dev \in Devices /\ bt.vals \in Values /\ bt.count \in Nat
BY SetFacts DEF TypeOK, AppState, BtState

\* Where mkh_set_channel returns to.
LEMMA AfterChannelCases ==
    ASSUME TypeOK
    PROVE  /\ app.op = "sweep" => AfterChannel = AppIdle
           /\ app.op # "sweep" =>
                /\ AfterChannel.op = app.op /\ AfterChannel.dev = app.dev
                /\ \/ AfterChannel.at = "write" /\ AfterChannel.port = app.port + 1
                   \/ /\ AfterChannel.at = IF app.op = "off" THEN "arm" ELSE "connect"
                      /\ app.port + 1 >= NumPorts
BY DEF TypeOK, AppState, AfterChannel, Ports

\* The port loop of a toggle has written every channel when it ends.
LEMMA LastPort ==
    ASSUME NEW f \in Values, TypeOK, app.port + 1 >= NumPorts,
           \A p \in Ports : p <= app.port => f[p] = Neutral
    PROVE  f = Quiet
<1>1. \A p \in Ports : f[p] = Neutral
  BY RecordTypes DEF Ports
<1> QED
  BY <1>1 DEF Quiet, Values

-----------------------------------------------------------------------------
\* Types

\* Every variable starts with its type.
LEMMA InitType == Init => TypeOK
BY SetFacts, IdleTypes DEF Init, TypeOK, Devices

\* Every step keeps the types.
LEMMA TypeStep == TypeOK /\ [Next]_vars => TypeOK'
<1> SUFFICES ASSUME TypeOK, [Next]_vars PROVE TypeOK'
  OBVIOUS
<1> USE SetFacts, IdleTypes
<1>1. ASSUME NEW dp \in Configured, NEW v \in Levels, Sweep(dp[1], dp[2], v) PROVE TypeOK'
  BY <1>1 DEF TypeOK, Sweep, shared, radio, AppState, AppSteps, Values
<1>2. ASSUME NEW d \in Devices, Tap(d) PROVE TypeOK'
  BY <1>2 DEF TypeOK, Tap, shared, radio, AppState, AppSteps
<1>3. CASE WriteNeutral
  BY <1>3, AfterChannelType DEF TypeOK, WriteNeutral, shared, radio, AppState, AppSteps, Values
<1>4. ASSUME NEW tooSoon \in BOOLEAN, Notify(tooSoon) PROVE TypeOK'
  BY <1>4, AfterChannelType, PostType DEF TypeOK, Notify, shared, radio, AppState
<1>5. CASE ToggleEnter
  BY <1>5 DEF TypeOK, ToggleEnter, shared, radio, AppState, AppSteps
<1>6. CASE ToggleMark
  BY <1>6 DEF TypeOK, ToggleMark, shared, radio, AppState, AppSteps
<1>7. CASE OnCancel
  BY <1>7 DEF TypeOK, OnCancel, shared, radio, AppState, AppSteps
<1>8. CASE OffArm
  BY <1>8 DEF TypeOK, OffArm, shared, radio, AppState, AppSteps
<1>9. CASE OnConnect
  BY <1>9 DEF TypeOK, OnConnect, BeginStaging, BtStaging, shared, radio, AppState, AppSteps
<1>10. CASE OnStaged
  BY <1>10 DEF TypeOK, OnStaged, EndStaging, BtStaging, shared, radio, AppState, AppSteps
<1>11. CASE OnActivate
  BY <1>11 DEF TypeOK, OnActivate, shared, radio, AppState, AppSteps
<1>12. CASE OnShow
  BY <1>12 DEF TypeOK, OnShow, shared, radio, AppState, AppSteps
<1>13. CASE OnSettle
  BY <1>13 DEF TypeOK, OnSettle, shared, radio, AppState, AppSteps
<1>14. CASE HciWorking
  BY <1>14 DEF TypeOK, HciWorking, BeginStaging, AppStaging, shared, radio, BtState, BtSteps
<1>15. CASE EventCallback
  <2>1. Head(callbacks) \in Devices /\ Tail(callbacks) \in Seq(Devices)
    BY <1>15 DEF TypeOK, EventCallback
  <2> QED
    BY <1>15, <2>1 DEF TypeOK, EventCallback, BeginStaging, AppStaging, shared, radio, BtState,
       BtSteps
<1>16. CASE ControlPick
  <2>1. PICK d \in Devices : lastDevice' = d /\ bt' = [BtIdle EXCEPT !.at = "copy",
                                                     !.job = "control", !.dev = d]
    BY <1>16 DEF ControlPick
  <2>2. lastDevice' \in -1 .. NumDevices - 1
    BY <2>1 DEF Devices
  <2>3. bt' \in BtState
    BY <2>1 DEF BtState, BtSteps
  <2> QED
    BY <1>16, <2>2, <2>3 DEF TypeOK, ControlPick, shared, radio
<1>17. CASE ControlCopy
  <2>1. bt.dev \in Devices /\ channel[bt.dev] \in Values /\ served[bt.dev] \in Nat
    BY DEF TypeOK, BtState
  <2>2. bt' \in BtState
    BY <1>17, <2>1 DEF TypeOK, ControlCopy, BtState, BtSteps
  <2>3. served' \in [Devices -> Nat]
    <3>1. served' = [served EXCEPT ![bt.dev] = IF pendingOff[bt.dev] > 0 THEN @ + 1 ELSE @]
      BY <1>17 DEF ControlCopy
    <3>2. served \in [Devices -> Nat]
      BY DEF TypeOK
    <3> QED
      BY <2>1, <3>1, <3>2
  <2> QED
    BY <1>17, <2>2, <2>3 DEF TypeOK, ControlCopy, BeginStaging, AppStaging, shared
<1>18. CASE StagedConnect
  BY <1>18 DEF TypeOK, StagedConnect, EndStaging, AppStaging, shared, radio, BtState, BtSteps
<1>19. CASE StagedControl
  BY <1>19 DEF TypeOK, StagedControl, EndStaging, AppStaging, shared, radio, BtState, BtSteps
<1>20. CASE Show
  BY <1>20 DEF TypeOK, Show, shared, radio, BtState, BtSteps
<1>21. CASE CountLoad
  <2>1. pendingOff[bt.dev] \in 0 .. OffGrace
    BY DEF TypeOK, BtState
  <2>2. pendingOff[bt.dev] > 0 => pendingOff[bt.dev] - 1 \in 0 .. OffGrace
    BY <2>1
  <2>3. bt' \in BtState
    BY <1>21, <2>2 DEF TypeOK, CountLoad, BtState, BtSteps
  <2> QED
    BY <1>21, <2>3 DEF TypeOK, CountLoad, shared, radio
<1>22. CASE CountStore
  BY <1>22 DEF TypeOK, CountStore, shared, radio, BtState, BtSteps
<1>23. CASE DropActive
  BY <1>23 DEF TypeOK, DropActive, shared, radio, BtState, BtSteps
<1>24. CASE DropShow
  BY <1>24 DEF TypeOK, DropShow, shared, radio, BtState, BtSteps
<1>25. CASE DropSettle
  BY <1>25 DEF TypeOK, DropSettle, shared, radio, BtState, BtSteps
<1>26. CASE UNCHANGED vars
  BY <1>26 DEF TypeOK, vars, shared, radio
<1> QED
  BY <1>1, <1>2, <1>3, <1>4, <1>5, <1>6, <1>7, <1>8, <1>9, <1>10, <1>11, <1>12, <1>13, <1>14,
     <1>15, <1>16, <1>17, <1>18, <1>19, <1>20, <1>21, <1>22, <1>23, <1>24, <1>25, <1>26
     DEF Next, AppCall, AppStep, BtStep

\* The state always has its type, whatever the two tasks do.
THEOREM TypeCorrect == Spec => []TypeOK
BY InitType, TypeStep, PTL DEF Spec

-----------------------------------------------------------------------------
\* One step preserves each part of the inductive invariant

\* Program counters and the calls they belong to stay in step.
LEMMA ShapeStep ==
    ASSUME TypeOK, AppShape, BtShape, [Next]_vars
    PROVE  AppShape' /\ BtShape'
<1> USE SetFacts, IdleTypes
<1>1. ASSUME NEW dp \in Configured, NEW v \in Levels, Sweep(dp[1], dp[2], v)
      PROVE  AppShape' /\ BtShape'
  BY <1>1 DEF Sweep, TypeOK, AppState, BtState, AppSteps, BtSteps, AppShape, BtShape, AppIdle,
     BtIdle, shared, radio
<1>2. ASSUME NEW d \in Devices, Tap(d) PROVE AppShape' /\ BtShape'
  BY <1>2 DEF Tap, TypeOK, AppState, BtState, AppSteps, BtSteps, AppShape, BtShape, AppIdle,
     BtIdle, shared, radio
<1>a. BtShape' \/ bt' # bt
  BY DEF BtShape
<1>b. ASSUME app' = AfterChannel, app.at \in {"write", "notify"} PROVE AppShape'
  <2>1. app.op # "none" /\ app.op \in {"none", "sweep", "off", "on"}
    BY <1>b DEF AppShape, TypeOK, AppState
  <2>2. CASE app.op = "sweep"
    <3>1. app' = AppIdle
      BY <1>b, <2>2, AfterChannelCases
    <3> QED
      BY <3>1 DEF AppIdle, AppShape
  <2>3. CASE app.op # "sweep"
    <3>1. /\ app'.op = app.op
          /\ \/ app'.at = "write"
             \/ app'.at = IF app.op = "off" THEN "arm" ELSE "connect"
      BY <1>b, <2>3, AfterChannelCases
    <3> QED
      BY <2>1, <2>3, <3>1 DEF AppShape
  <2> QED
    BY <2>2, <2>3
<1>3. CASE WriteNeutral
  <2>1. UNCHANGED bt /\ app.at = "write"
    BY <1>3 DEF WriteNeutral
  <2>2. CASE app' = AfterChannel
    BY <1>a, <1>b, <2>1, <2>2
  <2>3. CASE app' = [app EXCEPT !.at = "notify"]
    <3>1. app'.at = "notify" /\ app'.op = app.op /\ app.op # "none"
      BY <2>1, <2>3 DEF TypeOK, AppState, AppShape
    <3> QED
      BY <1>a, <2>1, <3>1 DEF AppShape
  <2> QED
    BY <1>3, <2>2, <2>3 DEF WriteNeutral
<1>4. ASSUME NEW tooSoon \in BOOLEAN, Notify(tooSoon) PROVE AppShape' /\ BtShape'
  <2>1. UNCHANGED bt /\ app.at = "notify" /\ app' = AfterChannel
    BY <1>4 DEF Notify
  <2> QED
    BY <1>a, <1>b, <2>1
<1>5. CASE ToggleEnter
  BY <1>5 DEF ToggleEnter, TypeOK, AppState, BtState, AppSteps, BtSteps, AppShape, BtShape,
     AppIdle, BtIdle, shared, radio
<1>6. CASE ToggleMark
  BY <1>6 DEF ToggleMark, TypeOK, AppState, BtState, AppSteps, BtSteps, AppShape, BtShape,
     AppIdle, BtIdle, shared, radio
<1>7. CASE OnCancel
  BY <1>7 DEF OnCancel, TypeOK, AppState, BtState, AppSteps, BtSteps, AppShape, BtShape, AppIdle,
     BtIdle, shared, radio
<1>8. CASE OffArm
  BY <1>8 DEF OffArm, TypeOK, AppState, BtState, AppSteps, BtSteps, AppShape, BtShape, AppIdle,
     BtIdle, shared, radio
<1>9. CASE OnConnect
  BY <1>9 DEF OnConnect, TypeOK, AppState, BtState, AppSteps, BtSteps, AppShape, BtShape, AppIdle,
     BtIdle, shared, radio
<1>10. CASE OnStaged
  BY <1>10 DEF OnStaged, TypeOK, AppState, BtState, AppSteps, BtSteps, AppShape, BtShape, AppIdle,
     BtIdle, shared, radio
<1>11. CASE OnActivate
  BY <1>11 DEF OnActivate, TypeOK, AppState, BtState, AppSteps, BtSteps, AppShape, BtShape,
     AppIdle, BtIdle, shared, radio
<1>12. CASE OnShow
  BY <1>12 DEF OnShow, TypeOK, AppState, BtState, AppSteps, BtSteps, AppShape, BtShape, AppIdle,
     BtIdle, shared, radio
<1>13. CASE OnSettle
  BY <1>13 DEF OnSettle, TypeOK, AppState, BtState, AppSteps, BtSteps, AppShape, BtShape, AppIdle,
     BtIdle, shared, radio
<1>14. CASE HciWorking
  BY <1>14 DEF HciWorking, TypeOK, AppState, BtState, AppSteps, BtSteps, AppShape, BtShape,
     AppIdle, BtIdle, shared, radio
<1>15. CASE EventCallback
  BY <1>15 DEF EventCallback, TypeOK, AppState, BtState, AppSteps, BtSteps, AppShape, BtShape,
     AppIdle, BtIdle, shared, radio
<1>16. CASE ControlPick
  BY <1>16 DEF ControlPick, TypeOK, AppState, BtState, AppSteps, BtSteps, AppShape, BtShape,
     AppIdle, BtIdle, shared, radio
<1>17. CASE ControlCopy
  BY <1>17 DEF ControlCopy, TypeOK, AppState, BtState, AppSteps, BtSteps, AppShape, BtShape,
     AppIdle, BtIdle, shared, radio
<1>18. CASE StagedConnect
  BY <1>18 DEF StagedConnect, TypeOK, AppState, BtState, AppSteps, BtSteps, AppShape, BtShape,
     AppIdle, BtIdle, shared, radio
<1>19. CASE StagedControl
  BY <1>19 DEF StagedControl, TypeOK, AppState, BtState, AppSteps, BtSteps, AppShape, BtShape,
     AppIdle, BtIdle, shared, radio, BtStaging
<1>20. CASE Show
  BY <1>20 DEF Show, TypeOK, AppState, BtState, AppSteps, BtSteps, AppShape, BtShape, AppIdle,
     BtIdle, shared, radio
<1>21. CASE CountLoad
  BY <1>21 DEF CountLoad, TypeOK, AppState, BtState, AppSteps, BtSteps, AppShape, BtShape,
     AppIdle, BtIdle, shared, radio
<1>22. CASE CountStore
  BY <1>22 DEF CountStore, TypeOK, AppState, BtState, AppSteps, BtSteps, AppShape, BtShape,
     AppIdle, BtIdle, shared, radio
<1>23. CASE DropActive
  BY <1>23 DEF DropActive, TypeOK, AppState, BtState, AppSteps, BtSteps, AppShape, BtShape,
     AppIdle, BtIdle, shared, radio
<1>24. CASE DropShow
  BY <1>24 DEF DropShow, TypeOK, AppState, BtState, AppSteps, BtSteps, AppShape, BtShape, AppIdle,
     BtIdle, shared, radio
<1>25. CASE DropSettle
  BY <1>25 DEF DropSettle, TypeOK, AppState, BtState, AppSteps, BtSteps, AppShape, BtShape,
     AppIdle, BtIdle, shared, radio
<1>26. CASE UNCHANGED vars
  BY <1>26 DEF vars, TypeOK, AppState, BtState, AppSteps, BtSteps, AppShape, BtShape, AppIdle,
     BtIdle, shared, radio
<1> QED
  BY <1>1, <1>2, <1>3, <1>4, <1>5, <1>6, <1>7, <1>8, <1>9, <1>10, <1>11, <1>12, <1>13, <1>14,
     <1>15, <1>16, <1>17, <1>18, <1>19, <1>20, <1>21, <1>22, <1>23, <1>24, <1>25, <1>26
     DEF Next, AppCall, AppStep, BtStep

\* No parked device gets into the machinery.
LEMMA EligibleStep ==
    ASSUME TypeOK, AppShape, BtShape, OnlyEligible, [Next]_vars
    PROVE  OnlyEligible'
<1> USE SetFacts, IdleTypes
<1>1. ASSUME NEW dp \in Configured, NEW v \in Levels, Sweep(dp[1], dp[2], v) PROVE OnlyEligible'
  BY <1>1, RecordTypes DEF Sweep, AppShape, BtShape, OnlyEligible, InToggle, AppIdle, BtIdle,
     shared, radio
<1>2. ASSUME NEW d \in Devices, Tap(d) PROVE OnlyEligible'
  BY <1>2, RecordTypes DEF Tap, AppShape, BtShape, OnlyEligible, InToggle, AppIdle, BtIdle,
     shared, radio
<1>3. CASE WriteNeutral
  BY <1>3, AfterChannelCases, RecordTypes DEF WriteNeutral, AppShape, BtShape, OnlyEligible,
     InToggle, AppIdle, BtIdle, shared, radio
<1>4. ASSUME NEW tooSoon \in BOOLEAN, Notify(tooSoon) PROVE OnlyEligible'
  <2>1. \A i \in 1 .. Len(callbacks') : callbacks'[i] < NumEligible
    <3>1. callbacks \in Seq(Devices)
      BY DEF TypeOK
    <3>2. callbacks' = callbacks \/ (active[app.dev] /\ callbacks' = Append(callbacks, app.dev))
      BY <1>4 DEF Notify, Post
    <3>3. active[app.dev] => app.dev < NumEligible
      BY RecordTypes, NumEligible \in Int, SetFacts DEF OnlyEligible
    <3>4. CASE callbacks' = callbacks
      BY <3>4 DEF OnlyEligible
    <3>5. CASE active[app.dev] /\ callbacks' = Append(callbacks, app.dev)
      <4>1. Len(callbacks') = Len(callbacks) + 1
        BY <3>1, <3>5, RecordTypes
      <4>2. \A i \in 1 .. Len(callbacks') :
              callbacks'[i] = IF i = Len(callbacks) + 1 THEN app.dev ELSE callbacks[i]
        BY <3>1, <3>5, RecordTypes
      <4>3. \A i \in 1 .. Len(callbacks) : callbacks[i] < NumEligible
        BY DEF OnlyEligible
      <4>4. Len(callbacks) \in Nat
        BY <3>1
      <4> QED
        BY <3>3, <3>5, <4>1, <4>2, <4>3, <4>4
    <3> QED
      BY <3>2, <3>4, <3>5
  <2> QED
    BY <1>4, <2>1, AfterChannelCases, RecordTypes DEF Notify, AppShape, BtShape, OnlyEligible,
       InToggle, AppIdle, BtIdle, shared, radio
<1>5. CASE ToggleEnter
  BY <1>5, RecordTypes DEF ToggleEnter, AppShape, BtShape, OnlyEligible, InToggle, AppIdle,
     BtIdle, shared, radio, Refused, OffRefused, OnRefused
<1>6. CASE ToggleMark
  BY <1>6, RecordTypes DEF ToggleMark, AppShape, BtShape, OnlyEligible, InToggle, AppIdle, BtIdle,
     shared, radio
<1>7. CASE OnCancel
  <2>1. app.dev \in Devices /\ bt.dev \in Devices
    BY DEF TypeOK, AppState, BtState
  <2>2. \A d \in Devices : d # app.dev => pendingOff'[d] = pendingOff[d]
    BY <1>7, <2>1 DEF OnCancel, TypeOK
  <2> QED
    BY <1>7, <2>1, <2>2, RecordTypes DEF OnCancel, AppShape, BtShape, OnlyEligible, InToggle,
       AppIdle, BtIdle, shared, radio
<1>8. CASE OffArm
  <2>1. app.dev \in Devices /\ bt.dev \in Devices
    BY DEF TypeOK, AppState, BtState
  <2>2. \A d \in Devices : d # app.dev => pendingOff'[d] = pendingOff[d]
    BY <1>8, <2>1 DEF OffArm, TypeOK
  <2> QED
    BY <1>8, <2>1, <2>2, RecordTypes DEF OffArm, AppShape, BtShape, OnlyEligible, InToggle,
       AppIdle, BtIdle, shared, radio
<1>9. CASE OnConnect
  BY <1>9, RecordTypes DEF OnConnect, AppShape, BtShape, OnlyEligible, InToggle, AppIdle, BtIdle,
     shared, radio
<1>10. CASE OnStaged
  BY <1>10, RecordTypes DEF OnStaged, AppShape, BtShape, OnlyEligible, InToggle, AppIdle, BtIdle,
     shared, radio
<1>11. CASE OnActivate
  <2>1. app.dev \in Devices /\ bt.dev \in Devices
    BY DEF TypeOK, AppState, BtState
  <2>2. \A d \in Devices : d # app.dev => active'[d] = active[d]
    BY <1>11, <2>1 DEF OnActivate, TypeOK
  <2> QED
    BY <1>11, <2>1, <2>2, RecordTypes DEF OnActivate, AppShape, BtShape, OnlyEligible, InToggle,
       AppIdle, BtIdle, shared, radio
<1>12. CASE OnShow
  <2>1. app.dev \in Devices /\ bt.dev \in Devices
    BY DEF TypeOK, AppState, BtState
  <2>2. \A d \in Devices : d # app.dev => hubBroadcasting'[d] = hubBroadcasting[d]
    BY <1>12, <2>1 DEF OnShow, TypeOK
  <2> QED
    BY <1>12, <2>1, <2>2, RecordTypes DEF OnShow, AppShape, BtShape, OnlyEligible, InToggle,
       AppIdle, BtIdle, shared, radio
<1>13. CASE OnSettle
  BY <1>13, RecordTypes DEF OnSettle, AppShape, BtShape, OnlyEligible, InToggle, AppIdle, BtIdle,
     shared, radio
<1>14. CASE HciWorking
  BY <1>14, RecordTypes DEF HciWorking, AppShape, BtShape, OnlyEligible, InToggle, AppIdle,
     BtIdle, shared, radio
<1>15. CASE EventCallback
  <2>1. callbacks \in Seq(Devices) /\ callbacks # <<>>
    BY <1>15 DEF EventCallback, TypeOK
  <2>2. /\ Head(callbacks) < NumEligible
        /\ \A i \in 1 .. Len(Tail(callbacks)) : Tail(callbacks)[i] < NumEligible
    BY <2>1 DEF OnlyEligible
  <2> QED
    BY <1>15, <2>2, RecordTypes DEF EventCallback, AppShape, BtShape, OnlyEligible, InToggle,
       AppIdle, BtIdle, shared, radio
<1>16. CASE ControlPick
  BY <1>16, RecordTypes DEF ControlPick, AppShape, BtShape, OnlyEligible, InToggle, AppIdle,
     BtIdle, shared, radio, NextActive
<1>17. CASE ControlCopy
  BY <1>17, RecordTypes DEF ControlCopy, AppShape, BtShape, OnlyEligible, InToggle, AppIdle,
     BtIdle, shared, radio
<1>18. CASE StagedConnect
  BY <1>18, RecordTypes DEF StagedConnect, AppShape, BtShape, OnlyEligible, InToggle, AppIdle,
     BtIdle, shared, radio, BtStaging
<1>19. CASE StagedControl
  BY <1>19, RecordTypes DEF StagedControl, AppShape, BtShape, OnlyEligible, InToggle, AppIdle,
     BtIdle, shared, radio, BtStaging
<1>20. CASE Show
  <2>1. app.dev \in Devices /\ bt.dev \in Devices
    BY DEF TypeOK, AppState, BtState
  <2>2. \A d \in Devices : d # bt.dev => hubBroadcasting'[d] = hubBroadcasting[d]
    BY <1>20, <2>1 DEF Show, TypeOK
  <2> QED
    BY <1>20, <2>1, <2>2, RecordTypes DEF Show, AppShape, BtShape, OnlyEligible, InToggle,
       AppIdle, BtIdle, shared, radio
<1>21. CASE CountLoad
  BY <1>21, RecordTypes DEF CountLoad, AppShape, BtShape, OnlyEligible, InToggle, AppIdle, BtIdle,
     shared, radio
<1>22. CASE CountStore
  <2>1. app.dev \in Devices /\ bt.dev \in Devices
    BY DEF TypeOK, AppState, BtState
  <2>2. \A d \in Devices : d # bt.dev => pendingOff'[d] = pendingOff[d]
    BY <1>22, <2>1 DEF CountStore, TypeOK
  <2> QED
    BY <1>22, <2>1, <2>2, RecordTypes DEF CountStore, AppShape, BtShape, OnlyEligible, InToggle,
       AppIdle, BtIdle, shared, radio
<1>23. CASE DropActive
  <2>1. app.dev \in Devices /\ bt.dev \in Devices
    BY DEF TypeOK, AppState, BtState
  <2>2. \A d \in Devices : d # bt.dev => active'[d] = active[d]
    BY <1>23, <2>1 DEF DropActive, TypeOK
  <2> QED
    BY <1>23, <2>1, <2>2, RecordTypes DEF DropActive, AppShape, BtShape, OnlyEligible, InToggle,
       AppIdle, BtIdle, shared, radio
<1>24. CASE DropShow
  <2>1. app.dev \in Devices /\ bt.dev \in Devices
    BY DEF TypeOK, AppState, BtState
  <2>2. \A d \in Devices : d # bt.dev => hubBroadcasting'[d] = hubBroadcasting[d]
    BY <1>24, <2>1 DEF DropShow, TypeOK
  <2> QED
    BY <1>24, <2>1, <2>2, RecordTypes DEF DropShow, AppShape, BtShape, OnlyEligible, InToggle,
       AppIdle, BtIdle, shared, radio
<1>25. CASE DropSettle
  BY <1>25, RecordTypes DEF DropSettle, AppShape, BtShape, OnlyEligible, InToggle, AppIdle,
     BtIdle, shared, radio
<1>26. CASE UNCHANGED vars
  BY <1>26 DEF vars, AppShape, BtShape, OnlyEligible, InToggle, AppIdle, BtIdle, shared, radio
<1> QED
  BY <1>1, <1>2, <1>3, <1>4, <1>5, <1>6, <1>7, <1>8, <1>9, <1>10, <1>11, <1>12, <1>13, <1>14,
     <1>15, <1>16, <1>17, <1>18, <1>19, <1>20, <1>21, <1>22, <1>23, <1>24, <1>25, <1>26
     DEF Next, AppCall, AppStep, BtStep

\* The lockout is kept: this is where the two tasks meet.
LEMMA LockoutStep ==
    ASSUME TypeOK, AppShape, BtShape, OnlyEligible, LockoutInv, [Next]_vars
    PROVE  LockoutInv'
<1> USE SetFacts, IdleTypes
<1>1. ASSUME NEW dp \in Configured, NEW v \in Levels, Sweep(dp[1], dp[2], v) PROVE LockoutInv'
  BY <1>1, RecordTypes DEF Sweep, AppShape, BtShape, LockoutInv, Toggling, Dropping, Locked,
     AppIdle, BtIdle, shared, radio
<1>2. ASSUME NEW d \in Devices, Tap(d) PROVE LockoutInv'
  BY <1>2, RecordTypes DEF Tap, AppShape, BtShape, LockoutInv, Toggling, Dropping, Locked,
     AppIdle, BtIdle, shared, radio
<1>3. CASE WriteNeutral
  BY <1>3, AfterChannelCases, RecordTypes DEF WriteNeutral, AppShape, BtShape, LockoutInv,
     Toggling, Dropping, Locked, AppIdle, BtIdle, shared, radio
<1>4. ASSUME NEW tooSoon \in BOOLEAN, Notify(tooSoon) PROVE LockoutInv'
  BY <1>4, AfterChannelCases, RecordTypes DEF Notify, AppShape, BtShape, LockoutInv, Toggling,
     Dropping, Locked, AppIdle, BtIdle, shared, radio
<1>5. CASE ToggleEnter
  BY <1>5, RecordTypes DEF ToggleEnter, AppShape, BtShape, LockoutInv, Toggling, Dropping, Locked,
     AppIdle, BtIdle, shared, radio, Refused, OffRefused, OnRefused
<1>6. CASE ToggleMark
  <2>1. app.dev \in Devices /\ bt.dev \in Devices
    BY RecordTypes
  <2>2. \A d \in Devices : d # app.dev => transitioning'[d] = transitioning[d]
    BY <1>6, <2>1 DEF ToggleMark, TypeOK
  <2>3. transitioning'[app.dev] = TRUE
    BY <1>6, <2>1 DEF ToggleMark, TypeOK
  <2> QED
    BY <1>6, <2>1, <2>2, <2>3, RecordTypes DEF ToggleMark, AppShape, BtShape, LockoutInv,
       Toggling,
       Dropping, Locked, AppIdle, BtIdle, shared, radio
<1>7. CASE OnCancel
  <2>1. app.dev \in Devices /\ bt.dev \in Devices
    BY RecordTypes
  <2>2. \A d \in Devices : d # app.dev => pendingOff'[d] = pendingOff[d]
    BY <1>7, <2>1 DEF OnCancel, TypeOK
  <2>3. pendingOff'[app.dev] = 0
    BY <1>7, <2>1 DEF OnCancel, TypeOK
  <2> QED
    BY <1>7, <2>1, <2>2, <2>3, RecordTypes DEF OnCancel, AppShape, BtShape, LockoutInv, Toggling,
       Dropping, Locked, AppIdle, BtIdle, shared, radio
<1>8. CASE OffArm
  <2>1. app.dev \in Devices /\ bt.dev \in Devices
    BY RecordTypes
  <2>2. \A d \in Devices : d # app.dev => pendingOff'[d] = pendingOff[d]
    BY <1>8, <2>1 DEF OffArm, TypeOK
  <2>3. pendingOff'[app.dev] = OffGrace
    BY <1>8, <2>1 DEF OffArm, TypeOK
  <2> QED
    BY <1>8, <2>1, <2>2, <2>3, RecordTypes DEF OffArm, AppShape, BtShape, LockoutInv, Toggling,
       Dropping, Locked, AppIdle, BtIdle, shared, radio
<1>9. CASE OnConnect
  BY <1>9, RecordTypes DEF OnConnect, AppShape, BtShape, LockoutInv, Toggling, Dropping, Locked,
     AppIdle, BtIdle, shared, radio
<1>10. CASE OnStaged
  BY <1>10, RecordTypes DEF OnStaged, AppShape, BtShape, LockoutInv, Toggling, Dropping, Locked,
     AppIdle, BtIdle, shared, radio
<1>11. CASE OnActivate
  <2>1. app.dev \in Devices /\ bt.dev \in Devices
    BY RecordTypes
  <2>2. \A d \in Devices : d # app.dev => active'[d] = active[d]
    BY <1>11, <2>1 DEF OnActivate, TypeOK
  <2>3. active'[app.dev] = TRUE
    BY <1>11, <2>1 DEF OnActivate, TypeOK
  <2> QED
    BY <1>11, <2>1, <2>2, <2>3, RecordTypes DEF OnActivate, AppShape, BtShape, LockoutInv,
       Toggling,
       Dropping, Locked, AppIdle, BtIdle, shared, radio
<1>12. CASE OnShow
  BY <1>12, RecordTypes DEF OnShow, AppShape, BtShape, LockoutInv, Toggling, Dropping, Locked,
     AppIdle, BtIdle, shared, radio
<1>13. CASE OnSettle
  <2>1. app.dev \in Devices /\ bt.dev \in Devices
    BY RecordTypes
  <2>2. \A d \in Devices : d # app.dev => transitioning'[d] = transitioning[d]
    BY <1>13, <2>1 DEF OnSettle, TypeOK
  <2>3. transitioning'[app.dev] = FALSE
    BY <1>13, <2>1 DEF OnSettle, TypeOK
  <2> QED
    BY <1>13, <2>1, <2>2, <2>3, RecordTypes DEF OnSettle, AppShape, BtShape, LockoutInv, Toggling,
       Dropping, Locked, AppIdle, BtIdle, shared, radio
<1>14. CASE HciWorking
  BY <1>14, RecordTypes DEF HciWorking, AppShape, BtShape, LockoutInv, Toggling, Dropping, Locked,
     AppIdle, BtIdle, shared, radio
<1>15. CASE EventCallback
  BY <1>15, RecordTypes DEF EventCallback, AppShape, BtShape, LockoutInv, Toggling, Dropping,
     Locked, AppIdle, BtIdle, shared, radio
<1>16. CASE ControlPick
  BY <1>16, RecordTypes DEF ControlPick, AppShape, BtShape, LockoutInv, Toggling, Dropping,
     Locked, AppIdle, BtIdle, shared, radio
<1>17. CASE ControlCopy
  BY <1>17, RecordTypes DEF ControlCopy, AppShape, BtShape, LockoutInv, Toggling, Dropping,
     Locked, AppIdle, BtIdle, shared, radio
<1>18. CASE StagedConnect
  BY <1>18, RecordTypes DEF StagedConnect, AppShape, BtShape, LockoutInv, Toggling, Dropping,
     Locked, AppIdle, BtIdle, shared, radio, BtStaging
<1>19. CASE StagedControl
  BY <1>19, RecordTypes DEF StagedControl, AppShape, BtShape, LockoutInv, Toggling, Dropping,
     Locked, AppIdle, BtIdle, shared, radio, BtStaging
<1>20. CASE Show
  BY <1>20, RecordTypes DEF Show, AppShape, BtShape, LockoutInv, Toggling, Dropping, Locked,
     AppIdle, BtIdle, shared, radio
<1>21. CASE CountLoad
  <2>1. CASE pendingOff[bt.dev] > 0
    <3>1. bt'.at = "store" /\ bt'.dev = bt.dev /\ bt'.count + 1 = pendingOff[bt.dev]
      <4>1. pendingOff[bt.dev] \in Int
        BY RecordTypes DEF TypeOK
      <4>2. bt' = [bt EXCEPT !.at = "store", !.count = pendingOff[bt.dev] - 1]
        BY <1>21, <2>1 DEF CountLoad
      <4> QED
        BY <4>1, <4>2, RecordTypes
    <3> QED
      BY <1>21, <3>1 DEF CountLoad, LockoutInv, Toggling, Dropping, Locked, shared
  <2>2. CASE ~(pendingOff[bt.dev] > 0)
    BY <1>21, <2>2 DEF CountLoad, LockoutInv, Toggling, Dropping, Locked, BtIdle, shared
  <2> QED
    BY <2>1, <2>2
<1>22. CASE CountStore
  <2>1. app.dev \in Devices /\ bt.dev \in Devices
    BY RecordTypes
  <2>2. \A d \in Devices : d # bt.dev => pendingOff'[d] = pendingOff[d]
    BY <1>22, <2>1 DEF CountStore, TypeOK
  <2>3. pendingOff'[bt.dev] = bt.count
    BY <1>22, <2>1 DEF CountStore, TypeOK
  <2> QED
    BY <1>22, <2>1, <2>2, <2>3, RecordTypes DEF CountStore, AppShape, BtShape, LockoutInv,
       Toggling,
       Dropping, Locked, AppIdle, BtIdle, shared, radio
<1>23. CASE DropActive
  <2>1. app.dev \in Devices /\ bt.dev \in Devices
    BY RecordTypes
  <2>2. \A d \in Devices : d # bt.dev => active'[d] = active[d]
    BY <1>23, <2>1 DEF DropActive, TypeOK
  <2>3. active'[bt.dev] = FALSE
    BY <1>23, <2>1 DEF DropActive, TypeOK
  <2> QED
    BY <1>23, <2>1, <2>2, <2>3, RecordTypes DEF DropActive, AppShape, BtShape, LockoutInv,
       Toggling,
       Dropping, Locked, AppIdle, BtIdle, shared, radio
<1>24. CASE DropShow
  BY <1>24, RecordTypes DEF DropShow, AppShape, BtShape, LockoutInv, Toggling, Dropping, Locked,
     AppIdle, BtIdle, shared, radio
<1>25. CASE DropSettle
  <2>1. app.dev \in Devices /\ bt.dev \in Devices
    BY RecordTypes
  <2>2. \A d \in Devices : d # bt.dev => transitioning'[d] = transitioning[d]
    BY <1>25, <2>1 DEF DropSettle, TypeOK
  <2>3. transitioning'[bt.dev] = FALSE
    BY <1>25, <2>1 DEF DropSettle, TypeOK
  <2> QED
    BY <1>25, <2>1, <2>2, <2>3, RecordTypes DEF DropSettle, AppShape, BtShape, LockoutInv,
       Toggling,
       Dropping, Locked, AppIdle, BtIdle, shared, radio
<1>26. CASE UNCHANGED vars
  BY <1>26 DEF vars, AppShape, BtShape, LockoutInv, Toggling, Dropping, Locked, AppIdle, BtIdle,
     shared, radio
<1> QED
  BY <1>1, <1>2, <1>3, <1>4, <1>5, <1>6, <1>7, <1>8, <1>9, <1>10, <1>11, <1>12, <1>13, <1>14,
     <1>15, <1>16, <1>17, <1>18, <1>19, <1>20, <1>21, <1>22, <1>23, <1>24, <1>25, <1>26
     DEF Next, AppCall, AppStep, BtStep

\* A toggle leaves only neutral values behind it.
LEMMA NeutralStep ==
    ASSUME TypeOK, AppShape, BtShape, NeutralInv, [Next]_vars
    PROVE  NeutralInv'
<1> USE SetFacts, IdleTypes
<1>1. ASSUME NEW dp \in Configured, NEW v \in Levels, Sweep(dp[1], dp[2], v) PROVE NeutralInv'
  BY <1>1, RecordTypes DEF Sweep, AppShape, NeutralInv, InToggle, AppIdle, shared, radio
<1>2. ASSUME NEW d \in Devices, Tap(d) PROVE NeutralInv'
  BY <1>2, RecordTypes DEF Tap, AppShape, NeutralInv, InToggle, AppIdle, shared, radio
<1>3. CASE WriteNeutral
  <2>1. app.op \in {"off", "on"} /\ InToggle
    BY <1>3, RecordTypes DEF WriteNeutral, AppShape, InToggle
  <2>2. channel'[app.dev] \in Values /\ channel'[app.dev][app.port] = Neutral
    BY <1>3, RecordTypes DEF WriteNeutral, TypeOK, Values
  <2>3. \A p \in Ports : p <= app.port => channel'[app.dev][p] = Neutral
    <3>1. \A p \in Ports : p # app.port => channel'[app.dev][p] = channel[app.dev][p]
      BY <1>3, RecordTypes DEF WriteNeutral, TypeOK, Values
    <3>2. \A p \in Ports : p < app.port => channel[app.dev][p] = Neutral
      BY <1>3, <2>1 DEF WriteNeutral, NeutralInv
    <3> QED
      BY <2>2, <3>1, <3>2, RecordTypes
  <2>4. app.port + 1 >= NumPorts => channel'[app.dev] = Quiet
    BY <2>2, <2>3, LastPort
  <2>5. CASE app' = [app EXCEPT !.at = "notify"]
    BY <2>1, <2>3, <2>5, RecordTypes DEF NeutralInv, InToggle
  <2>6. CASE app' = AfterChannel
    BY <2>1, <2>3, <2>4, <2>6, AfterChannelCases, RecordTypes DEF NeutralInv, InToggle, Ports
  <2> QED
    BY <1>3, <2>5, <2>6 DEF WriteNeutral
<1>4. ASSUME NEW tooSoon \in BOOLEAN, Notify(tooSoon) PROVE NeutralInv'
  <2>1. CASE app.op = "sweep"
    BY <1>4, <2>1, AfterChannelCases DEF Notify, NeutralInv, InToggle, AppIdle
  <2>2. CASE app.op # "sweep"
    <3>1. InToggle
      BY <1>4, <2>2, RecordTypes DEF Notify, AppShape, InToggle
    <3>2. \A p \in Ports : p <= app.port => channel'[app.dev][p] = Neutral
      BY <1>4, <3>1 DEF Notify, NeutralInv
    <3>3. channel'[app.dev] \in Values
      BY <1>4, RecordTypes DEF Notify, TypeOK
    <3>4. app.port + 1 >= NumPorts => channel'[app.dev] = Quiet
      BY <3>2, <3>3, LastPort
    <3> QED
      BY <1>4, <2>2, <3>2, <3>4, AfterChannelCases, RecordTypes DEF Notify, NeutralInv, InToggle,
         Ports
  <2> QED
    BY <2>1, <2>2
<1>5. CASE ToggleEnter
  BY <1>5, RecordTypes DEF ToggleEnter, AppShape, NeutralInv, InToggle, AppIdle, shared, radio,
     Refused, OffRefused, OnRefused
<1>6. CASE ToggleMark
  BY <1>6, RecordTypes DEF ToggleMark, AppShape, NeutralInv, InToggle, AppIdle, shared, radio,
     Ports
<1>7. CASE OnCancel
  BY <1>7, RecordTypes DEF OnCancel, AppShape, NeutralInv, InToggle, AppIdle, shared, radio, Ports
<1>8. CASE OffArm
  BY <1>8, RecordTypes DEF OffArm, AppShape, NeutralInv, InToggle, AppIdle, shared, radio
<1>9. CASE OnConnect
  BY <1>9, RecordTypes DEF OnConnect, AppShape, NeutralInv, InToggle, AppIdle, shared, radio
<1>10. CASE OnStaged
  BY <1>10, RecordTypes DEF OnStaged, AppShape, NeutralInv, InToggle, AppIdle, shared, radio
<1>11. CASE OnActivate
  BY <1>11, RecordTypes DEF OnActivate, AppShape, NeutralInv, InToggle, AppIdle, shared, radio
<1>12. CASE OnShow
  BY <1>12, RecordTypes DEF OnShow, AppShape, NeutralInv, InToggle, AppIdle, shared, radio
<1>13. CASE OnSettle
  BY <1>13, RecordTypes DEF OnSettle, AppShape, NeutralInv, InToggle, AppIdle, shared, radio
<1>14. CASE HciWorking
  BY <1>14, RecordTypes DEF HciWorking, AppShape, NeutralInv, InToggle, AppIdle, shared, radio
<1>15. CASE EventCallback
  BY <1>15, RecordTypes DEF EventCallback, AppShape, NeutralInv, InToggle, AppIdle, shared, radio
<1>16. CASE ControlPick
  BY <1>16, RecordTypes DEF ControlPick, AppShape, NeutralInv, InToggle, AppIdle, shared, radio
<1>17. CASE ControlCopy
  BY <1>17, RecordTypes DEF ControlCopy, AppShape, NeutralInv, InToggle, AppIdle, shared, radio
<1>18. CASE StagedConnect
  BY <1>18, RecordTypes DEF StagedConnect, AppShape, NeutralInv, InToggle, AppIdle, shared, radio,
     BtStaging
<1>19. CASE StagedControl
  BY <1>19, RecordTypes DEF StagedControl, AppShape, NeutralInv, InToggle, AppIdle, shared, radio,
     BtStaging
<1>20. CASE Show
  BY <1>20, RecordTypes DEF Show, AppShape, NeutralInv, InToggle, AppIdle, shared, radio
<1>21. CASE CountLoad
  BY <1>21, RecordTypes DEF CountLoad, AppShape, NeutralInv, InToggle, AppIdle, shared, radio
<1>22. CASE CountStore
  BY <1>22, RecordTypes DEF CountStore, AppShape, NeutralInv, InToggle, AppIdle, shared, radio
<1>23. CASE DropActive
  BY <1>23, RecordTypes DEF DropActive, AppShape, NeutralInv, InToggle, AppIdle, shared, radio
<1>24. CASE DropShow
  BY <1>24, RecordTypes DEF DropShow, AppShape, NeutralInv, InToggle, AppIdle, shared, radio
<1>25. CASE DropSettle
  BY <1>25, RecordTypes DEF DropSettle, AppShape, NeutralInv, InToggle, AppIdle, shared, radio
<1>26. CASE UNCHANGED vars
  BY <1>26 DEF vars, AppShape, NeutralInv, InToggle, AppIdle, shared, radio
<1> QED
  BY <1>1, <1>2, <1>3, <1>4, <1>5, <1>6, <1>7, <1>8, <1>9, <1>10, <1>11, <1>12, <1>13, <1>14,
     <1>15, <1>16, <1>17, <1>18, <1>19, <1>20, <1>21, <1>22, <1>23, <1>24, <1>25, <1>26
     DEF Next, AppCall, AppStep, BtStep

\* Services given and services owed keep adding up.
LEMMA GraceStep ==
    ASSUME TypeOK, AppShape, BtShape, LockoutInv, GraceInv, [Next]_vars
    PROVE  GraceInv'
<1> USE SetFacts, IdleTypes
<1>1. ASSUME NEW dp \in Configured, NEW v \in Levels, Sweep(dp[1], dp[2], v) PROVE GraceInv'
  BY <1>1, RecordTypes DEF Sweep, BtShape, GraceInv, ServingNow, BtIdle, shared, radio
<1>2. ASSUME NEW d \in Devices, Tap(d) PROVE GraceInv'
  BY <1>2, RecordTypes DEF Tap, BtShape, GraceInv, ServingNow, BtIdle, shared, radio
<1>3. CASE WriteNeutral
  BY <1>3, RecordTypes DEF WriteNeutral, BtShape, GraceInv, ServingNow, BtIdle, shared, radio
<1>4. ASSUME NEW tooSoon \in BOOLEAN, Notify(tooSoon) PROVE GraceInv'
  BY <1>4, RecordTypes DEF Notify, BtShape, GraceInv, ServingNow, BtIdle, shared, radio
<1>5. CASE ToggleEnter
  BY <1>5, RecordTypes DEF ToggleEnter, BtShape, GraceInv, ServingNow, BtIdle, shared, radio
<1>6. CASE ToggleMark
  BY <1>6, RecordTypes DEF ToggleMark, BtShape, GraceInv, ServingNow, BtIdle, shared, radio
<1>7. CASE OnCancel
  <2>1. app.dev \in Devices /\ bt.dev \in Devices
    BY RecordTypes
  <2>2. \A d \in Devices : d # app.dev => pendingOff'[d] = pendingOff[d]
    BY <1>7, <2>1 DEF OnCancel, TypeOK
  <2>3. pendingOff'[app.dev] = 0
    BY <1>7, <2>1 DEF OnCancel, TypeOK
  <2> QED
    BY <1>7, <2>1, <2>2, <2>3, RecordTypes DEF OnCancel, BtShape, GraceInv, ServingNow, BtIdle,
       shared, radio
<1>8. CASE OffArm
  <2>1. \A d \in Devices : d # app.dev => pendingOff'[d] = pendingOff[d] /\ served'[d] = served[d]
    BY <1>8, RecordTypes DEF OffArm, TypeOK
  <2>2. pendingOff'[app.dev] = OffGrace /\ served'[app.dev] = 0
    BY <1>8, RecordTypes DEF OffArm, TypeOK
  <2>3. ~(bt.at = "dropActive" /\ bt.dev = app.dev)
    BY <1>8, RecordTypes DEF OffArm, LockoutInv, Dropping, Toggling, AppShape
  <2> QED
    BY <1>8, <2>1, <2>2, <2>3, RecordTypes DEF OffArm, GraceInv, ServingNow
<1>9. CASE OnConnect
  BY <1>9, RecordTypes DEF OnConnect, BtShape, GraceInv, ServingNow, BtIdle, shared, radio
<1>10. CASE OnStaged
  BY <1>10, RecordTypes DEF OnStaged, BtShape, GraceInv, ServingNow, BtIdle, shared, radio
<1>11. CASE OnActivate
  BY <1>11, RecordTypes DEF OnActivate, BtShape, GraceInv, ServingNow, BtIdle, shared, radio
<1>12. CASE OnShow
  BY <1>12, RecordTypes DEF OnShow, BtShape, GraceInv, ServingNow, BtIdle, shared, radio
<1>13. CASE OnSettle
  BY <1>13, RecordTypes DEF OnSettle, BtShape, GraceInv, ServingNow, BtIdle, shared, radio
<1>14. CASE HciWorking
  BY <1>14, RecordTypes DEF HciWorking, BtShape, GraceInv, ServingNow, BtIdle, shared, radio
<1>15. CASE EventCallback
  BY <1>15, RecordTypes DEF EventCallback, BtShape, GraceInv, ServingNow, BtIdle, shared, radio
<1>16. CASE ControlPick
  BY <1>16, RecordTypes DEF ControlPick, BtShape, GraceInv, ServingNow, BtIdle, shared, radio
<1>17. CASE ControlCopy
  <2>1. \A d \in Devices : d # bt.dev => served'[d] = served[d]
    BY <1>17, RecordTypes DEF ControlCopy, TypeOK
  <2>2. pendingOff[bt.dev] > 0 => served'[bt.dev] = served[bt.dev] + 1
    BY <1>17, RecordTypes DEF ControlCopy, TypeOK
  <2>3. bt'.dev = bt.dev /\ bt'.at = "staging" /\ pendingOff' = pendingOff
    BY <1>17, RecordTypes DEF ControlCopy, shared
  <2>4. served[bt.dev] \in Nat /\ pendingOff[bt.dev] \in Int
    BY RecordTypes DEF TypeOK
  <2> QED
    BY <2>1, <2>2, <2>3, <2>4, RecordTypes DEF GraceInv, ServingNow
<1>18. CASE StagedConnect
  BY <1>18, RecordTypes DEF StagedConnect, BtShape, GraceInv, ServingNow, BtIdle, shared, radio,
     BtStaging
<1>19. CASE StagedControl
  BY <1>19, RecordTypes DEF StagedControl, BtShape, GraceInv, ServingNow, BtIdle, shared, radio,
     BtStaging
<1>20. CASE Show
  BY <1>20, RecordTypes DEF Show, BtShape, GraceInv, ServingNow, BtIdle, shared, radio
<1>21. CASE CountLoad
  <2>1. \/ bt'.at = "store" /\ bt'.dev = bt.dev /\ bt'.job = bt.job
        \/ bt' = BtIdle
    BY <1>21, RecordTypes DEF CountLoad
  <2> QED
    BY <1>21, <2>1, RecordTypes DEF CountLoad, GraceInv, ServingNow, BtIdle, shared
<1>22. CASE CountStore
  <2>1. \A d \in Devices : d # bt.dev => pendingOff'[d] = pendingOff[d]
    BY <1>22, RecordTypes DEF CountStore, TypeOK
  <2>2. pendingOff'[bt.dev] = bt.count /\ pendingOff[bt.dev] = bt.count + 1 /\ served' = served
    BY <1>22, RecordTypes DEF CountStore, TypeOK, LockoutInv
  <2>3. served[bt.dev] \in Nat /\ served[bt.dev] + pendingOff[bt.dev] >= OffGrace
    <3>1. ServingNow(bt.dev)
      BY <1>22, RecordTypes DEF CountStore, BtShape, ServingNow
    <3> QED
      <4>1. bt.dev \in Devices /\ pendingOff[bt.dev] > 0
        BY <2>2, RecordTypes
      <4>2. served[bt.dev] \in Nat
        BY <4>1 DEF TypeOK
      <4> QED
        BY <3>1, <4>1, <4>2 DEF GraceInv
  <2>4. \/ bt'.dev = bt.dev /\ (bt'.at = "dropActive" => bt.count = 0) /\ ~ServingNow(bt.dev)'
        \/ bt' = BtIdle
    BY <1>22, RecordTypes DEF CountStore, ServingNow
  <2> QED
    BY <2>1, <2>2, <2>3, <2>4, RecordTypes DEF GraceInv, ServingNow, BtIdle
<1>23. CASE DropActive
  BY <1>23, RecordTypes DEF DropActive, BtShape, GraceInv, ServingNow, BtIdle, shared, radio
<1>24. CASE DropShow
  BY <1>24, RecordTypes DEF DropShow, BtShape, GraceInv, ServingNow, BtIdle, shared, radio
<1>25. CASE DropSettle
  BY <1>25, RecordTypes DEF DropSettle, BtShape, GraceInv, ServingNow, BtIdle, shared, radio
<1>26. CASE UNCHANGED vars
  BY <1>26 DEF vars, BtShape, GraceInv, ServingNow, BtIdle, shared, radio
<1> QED
  BY <1>1, <1>2, <1>3, <1>4, <1>5, <1>6, <1>7, <1>8, <1>9, <1>10, <1>11, <1>12, <1>13, <1>14,
     <1>15, <1>16, <1>17, <1>18, <1>19, <1>20, <1>21, <1>22, <1>23, <1>24, <1>25, <1>26
     DEF Next, AppCall, AppStep, BtStep

\* Left alone, a draining device ends on neutral telegrams.
LEMMA QuietStep ==
    ASSUME TypeOK, AppShape, BtShape, LockoutInv, NeutralInv, GraceInv, QuietInv, [Next]_vars
    PROVE  QuietInv'
<1> USE SetFacts, IdleTypes
<1>1. ASSUME NEW dp \in Configured, NEW v \in Levels, Sweep(dp[1], dp[2], v) PROVE QuietInv'
  <2>1. dp[1] \in Devices /\ dp[2] \in Ports
    OBVIOUS
  <2>2. \A d \in Devices : pendingOff[d] > 0 /\ ~disturbed'[d] =>
          ~disturbed[d] /\ (channel[d] = Quiet => channel'[d] = Quiet)
    <3>1. \A d \in Devices : d # dp[1] => channel'[d] = channel[d] /\ disturbed'[d] = disturbed[d]
      BY <1>1, <2>1 DEF Sweep, TypeOK
    <3>2. disturbed'[dp[1]] = (disturbed[dp[1]] \/ (v # Neutral /\ pendingOff[dp[1]] > 0))
      BY <1>1, <2>1 DEF Sweep, TypeOK
    <3>3. v = Neutral /\ channel[dp[1]] = Quiet => channel'[dp[1]] = Quiet
      BY <1>1, <2>1 DEF Sweep, TypeOK, Quiet
    <3> QED
      BY <3>1, <3>2, <3>3
  <2>3. ~disturbed'[bt.dev] => ~disturbed[bt.dev]
    BY <1>1, RecordTypes DEF Sweep, TypeOK
  <2> QED
    BY <1>1, <2>2, <2>3 DEF Sweep, QuietInv, BtStaging, shared, radio
<1>2. ASSUME NEW d \in Devices, Tap(d) PROVE QuietInv'
  BY <1>2, RecordTypes DEF Tap, BtShape, QuietInv, BtStaging, BtIdle, shared, radio
<1>3. CASE WriteNeutral
  <2>1. \A d \in Devices : channel[d] = Quiet => channel'[d] = Quiet
    BY <1>3, RecordTypes DEF WriteNeutral, TypeOK, Quiet
  <2> QED
    BY <1>3, <2>1 DEF WriteNeutral, QuietInv, BtStaging, shared, radio
<1>4. ASSUME NEW tooSoon \in BOOLEAN, Notify(tooSoon) PROVE QuietInv'
  BY <1>4, RecordTypes DEF Notify, BtShape, QuietInv, BtStaging, BtIdle, shared, radio
<1>5. CASE ToggleEnter
  BY <1>5, RecordTypes DEF ToggleEnter, BtShape, QuietInv, BtStaging, BtIdle, shared, radio
<1>6. CASE ToggleMark
  BY <1>6, RecordTypes DEF ToggleMark, BtShape, QuietInv, BtStaging, BtIdle, shared, radio
<1>7. CASE OnCancel
  <2>1. app.dev \in Devices /\ bt.dev \in Devices
    BY RecordTypes
  <2>2. \A d \in Devices : d # app.dev => pendingOff'[d] = pendingOff[d]
    BY <1>7, <2>1 DEF OnCancel, TypeOK
  <2>3. pendingOff'[app.dev] = 0
    BY <1>7, <2>1 DEF OnCancel, TypeOK
  <2> QED
    BY <1>7, <2>1, <2>2, <2>3, RecordTypes DEF OnCancel, BtShape, QuietInv, BtStaging, BtIdle,
       shared, radio
<1>8. CASE OffArm
  <2>1. \A d \in Devices : d # app.dev =>
          pendingOff'[d] = pendingOff[d] /\ served'[d] = served[d] /\ disturbed'[d] = disturbed[d]
    BY <1>8, RecordTypes DEF OffArm, TypeOK
  <2>2. served'[app.dev] = 0
    BY <1>8, RecordTypes DEF OffArm, TypeOK
  <2>3. channel[app.dev] = Quiet
    BY <1>8, RecordTypes DEF OffArm, AppShape, NeutralInv, InToggle
  <2>4. ~(bt.at = "dropActive" /\ bt.dev = app.dev)
    BY <1>8, RecordTypes DEF OffArm, LockoutInv, Dropping, Toggling, AppShape
  <2> QED
    BY <1>8, <2>1, <2>2, <2>3, <2>4, RecordTypes DEF OffArm, QuietInv, BtStaging, radio
<1>9. CASE OnConnect
  BY <1>9, RecordTypes DEF OnConnect, BtShape, QuietInv, BtStaging, BtIdle, shared, radio
<1>10. CASE OnStaged
  BY <1>10, RecordTypes DEF OnStaged, BtShape, QuietInv, BtStaging, BtIdle, shared, radio
<1>11. CASE OnActivate
  BY <1>11, RecordTypes DEF OnActivate, BtShape, QuietInv, BtStaging, BtIdle, shared, radio
<1>12. CASE OnShow
  BY <1>12, RecordTypes DEF OnShow, BtShape, QuietInv, BtStaging, BtIdle, shared, radio
<1>13. CASE OnSettle
  BY <1>13, RecordTypes DEF OnSettle, BtShape, QuietInv, BtStaging, BtIdle, shared, radio
<1>14. CASE HciWorking
  BY <1>14, RecordTypes DEF HciWorking, BtShape, QuietInv, BtStaging, BtIdle, shared, radio
<1>15. CASE EventCallback
  <2>1. /\ bt'.vals = channel[bt'.dev] /\ bt'.dev \in Devices
        /\ bt'.at = "staging" /\ bt'.job = "event"
    BY <1>15, RecordTypes DEF EventCallback, TypeOK, BtIdle
  <2> QED
    BY <1>15, <2>1 DEF EventCallback, QuietInv, BtStaging, shared
<1>16. CASE ControlPick
  <2>1. bt'.at = "copy"
    BY <1>16, RecordTypes DEF ControlPick, BtIdle
  <2> QED
    BY <1>16, <2>1 DEF ControlPick, QuietInv, BtStaging, shared, radio
<1>17. CASE ControlCopy
  <2>1. \A d \in Devices : d # bt.dev => served'[d] = served[d]
    BY <1>17, RecordTypes DEF ControlCopy, TypeOK
  <2>2. pendingOff[bt.dev] > 0 => served'[bt.dev] = served[bt.dev] + 1
    BY <1>17, RecordTypes DEF ControlCopy, TypeOK
  <2>3. /\ bt'.dev = bt.dev /\ bt'.at = "staging" /\ bt'.job = "control"
        /\ bt'.vals = channel[bt.dev]
    BY <1>17, RecordTypes DEF ControlCopy, BtShape
  <2>4. served[bt.dev] \in Nat
    BY RecordTypes DEF TypeOK
  <2> QED
    BY <1>17, <2>1, <2>2, <2>3, <2>4, RecordTypes DEF ControlCopy, QuietInv, BtStaging, shared
<1>18. CASE StagedConnect
  BY <1>18, RecordTypes DEF StagedConnect, BtShape, QuietInv, BtStaging, BtIdle, shared, radio
<1>19. CASE StagedControl
  <2>1. bt'.at = "show" /\ bt'.dev = bt.dev
    BY <1>19, RecordTypes DEF StagedControl
  <2>2. \A d \in Devices : d # bt.dev => sent'[d] = sent[d] /\ disturbed'[d] = disturbed[d]
    BY <1>19, RecordTypes DEF StagedControl, TypeOK
  <2>3. pendingOff[bt.dev] > 0 /\ ~disturbed'[bt.dev] =>
          sent'[bt.dev] = bt.vals /\ ~disturbed[bt.dev]
    BY <1>19, RecordTypes DEF StagedControl, TypeOK
  <2> QED
    BY <1>19, <2>1, <2>2, <2>3, RecordTypes DEF StagedControl, QuietInv, BtStaging, shared
<1>20. CASE Show
  BY <1>20, RecordTypes DEF Show, BtShape, QuietInv, BtStaging, BtIdle, shared, radio
<1>21. CASE CountLoad
  <2>1. bt'.at \in {"store", "idle"}
    BY <1>21, RecordTypes DEF CountLoad, BtIdle
  <2> QED
    BY <1>21, <2>1, RecordTypes DEF CountLoad, QuietInv, BtStaging, shared, radio
<1>22. CASE CountStore
  <2>1. \A d \in Devices : d # bt.dev => pendingOff'[d] = pendingOff[d]
    BY <1>22, RecordTypes DEF CountStore, TypeOK
  <2>2. pendingOff'[bt.dev] = bt.count /\ pendingOff[bt.dev] = bt.count + 1
    BY <1>22, RecordTypes DEF CountStore, TypeOK, LockoutInv
  <2>3. bt.count = 0 => served[bt.dev] > 0
    <3>1. ServingNow(bt.dev)
      BY <1>22, RecordTypes DEF CountStore, BtShape, ServingNow
    <3>2. bt.dev \in Devices /\ pendingOff[bt.dev] > 0
      BY <2>2, RecordTypes
    <3>3. served[bt.dev] \in Nat
      BY <3>2 DEF TypeOK
    <3>4. served[bt.dev] + pendingOff[bt.dev] >= OffGrace
      BY <3>1, <3>2 DEF GraceInv
    <3> QED
      BY <2>2, <3>3, <3>4
  <2>4. \/ bt'.at = "dropActive" /\ bt'.dev = bt.dev /\ bt.count = 0
        \/ bt' = BtIdle
    BY <1>22, RecordTypes DEF CountStore
  <2>5. pendingOff[bt.dev] > 0
    BY <2>2, RecordTypes
  <2> QED
    BY <1>22, <2>1, <2>2, <2>3, <2>4, <2>5, RecordTypes DEF CountStore, QuietInv, BtStaging,
       BtIdle, radio
<1>23. CASE DropActive
  BY <1>23, RecordTypes DEF DropActive, BtShape, QuietInv, BtStaging, BtIdle, shared, radio
<1>24. CASE DropShow
  BY <1>24, RecordTypes DEF DropShow, BtShape, QuietInv, BtStaging, BtIdle, shared, radio
<1>25. CASE DropSettle
  BY <1>25, RecordTypes DEF DropSettle, BtShape, QuietInv, BtStaging, BtIdle, shared, radio
<1>26. CASE UNCHANGED vars
  BY <1>26 DEF vars, BtShape, QuietInv, BtStaging, BtIdle, shared, radio
<1> QED
  BY <1>1, <1>2, <1>3, <1>4, <1>5, <1>6, <1>7, <1>8, <1>9, <1>10, <1>11, <1>12, <1>13, <1>14,
     <1>15, <1>16, <1>17, <1>18, <1>19, <1>20, <1>21, <1>22, <1>23, <1>24, <1>25, <1>26
     DEF Next, AppCall, AppStep, BtStep

-----------------------------------------------------------------------------
\* The inductive invariant

\* The static initialisers establish the inductive invariant.
LEMMA InitInv == Init => IInv
<1> SUFFICES ASSUME Init PROVE IInv
  OBVIOUS
<1>1. TypeOK
  BY InitType
<1>2. app = AppIdle /\ bt = BtIdle /\ callbacks = <<>>
  BY DEF Init
<1>3. \A d \in Devices : /\ pendingOff[d] = 0 /\ ~transitioning[d] /\ ~hubBroadcasting[d]
                         /\ d >= NumEligible => ~active[d]
  BY SetFacts DEF Init
<1>4. AppShape /\ BtShape
  BY <1>2 DEF AppShape, BtShape, AppIdle, BtIdle
<1>5. OnlyEligible
  BY <1>2, <1>3 DEF OnlyEligible, InToggle, AppIdle, BtIdle
<1>6. LockoutInv
  BY <1>2, <1>3 DEF LockoutInv, Toggling, Dropping, Locked, AppIdle, BtIdle
<1>7. NeutralInv /\ GraceInv /\ QuietInv
  BY <1>2, <1>3 DEF NeutralInv, InToggle, GraceInv, ServingNow, QuietInv, AppIdle, BtIdle
<1> QED
  BY <1>1, <1>4, <1>5, <1>6, <1>7 DEF IInv

\* Every step of either task keeps the inductive invariant.
LEMMA InvStep == IInv /\ [Next]_vars => IInv'
BY TypeStep, ShapeStep, EligibleStep, LockoutStep, NeutralStep, GraceStep, QuietStep DEF IInv

\* The inductive invariant holds in every reachable state: what the two tasks
\* rely on about each other without a lock.
THEOREM InvariantHolds == Spec => []IInv
BY InitInv, InvStep, PTL DEF Spec

-----------------------------------------------------------------------------
\* The safety properties

\* A hub beyond MKH_TIME_SLICE_NUM_DEVICES is never active, shown, posted for or
\* aired by the toggles and the CONTROL paths.
THEOREM ParkedHubsStayOff == Spec => []ParkedStaysOff
<1>1. IInv => ParkedStaysOff
  <2> SUFFICES ASSUME IInv, NEW d \in Devices, d >= NumEligible
               PROVE  /\ ~active[d] /\ ~hubBroadcasting[d] /\ pendingOff[d] = 0
                      /\ \A i \in 1 .. Len(callbacks) : callbacks[i] # d
                      /\ ~(bt.job \in {"event", "control"} /\ bt.dev = d)
    BY DEF ParkedStaysOff
  <2>1. d \in Int /\ NumEligible \in Int
    BY SetFacts
  <2> QED
    BY <2>1 DEF IInv, OnlyEligible
<1> QED
  BY <1>1, InvariantHolds, PTL

\* The unlocked countdown never has two writers.
THEOREM OneCountdownWriter == Spec => []CountdownHasOneWriter
<1>1. IInv => CountdownHasOneWriter
  BY DEF IInv, LockoutInv, CountdownHasOneWriter
<1> QED
  BY <1>1, InvariantHolds, PTL

\* A running countdown keeps its device in the rotation and its row locked.
THEOREM CountdownGuarded == Spec => []CountdownIsGuarded
<1>1. IInv => CountdownIsGuarded
  BY DEF IInv, LockoutInv, CountdownIsGuarded
<1> QED
  BY <1>1, InvariantHolds, PTL

\* A locked row always has a toggle, a countdown or a drop that will unlock it.
THEOREM LockoutOwned == Spec => []LockoutHasOwner
<1>1. IInv => LockoutHasOwner
  BY DEF IInv, LockoutInv, LockoutHasOwner
<1> QED
  BY <1>1, InvariantHolds, PTL

\* Only the end of the countdown takes a device out of the rotation.
LEMMA OnlyDropDeactivates ==
    ASSUME TypeOK, [Next]_vars, NEW d \in Devices, active[d], ~active'[d]
    PROVE  DropActive /\ d = bt.dev
<1>1. active' # active
  OBVIOUS
<1>2. CASE OnActivate
  BY <1>2, RecordTypes DEF OnActivate, TypeOK
<1>3. CASE DropActive
  BY <1>3, RecordTypes DEF DropActive, TypeOK
<1> QED
  BY <1>1, <1>2, <1>3 DEF Next, AppCall, AppStep, BtStep, Sweep, Tap, WriteNeutral, Notify,
     ToggleEnter, ToggleMark, OnCancel, OffArm, OnConnect, OnStaged, OnShow, OnSettle,
     HciWorking, EventCallback, ControlPick, ControlCopy, StagedConnect, StagedControl, Show,
     CountLoad, CountStore, DropShow, DropSettle, vars, shared

\* Only toggle_on brings one back.
LEMMA OnlyToggleActivates ==
    ASSUME TypeOK, [Next]_vars, NEW d \in Devices, ~active[d], active'[d]
    PROVE  OnActivate /\ d = app.dev
<1>1. active' # active
  OBVIOUS
<1>2. CASE OnActivate
  BY <1>2, RecordTypes DEF OnActivate, TypeOK
<1>3. CASE DropActive
  BY <1>3, RecordTypes DEF DropActive, TypeOK
<1> QED
  BY <1>1, <1>2, <1>3 DEF Next, AppCall, AppStep, BtStep, Sweep, Tap, WriteNeutral, Notify,
     ToggleEnter, ToggleMark, OnCancel, OffArm, OnConnect, OnStaged, OnShow, OnSettle,
     HciWorking, EventCallback, ControlPick, ControlCopy, StagedConnect, StagedControl, Show,
     CountLoad, CountStore, DropShow, DropSettle, vars, shared

\* No device is dropped before OffGrace - 1 services that began after its
\* countdown was started.
THEOREM DropServed == Spec => DropIsServed
<1>1. IInv /\ [Next]_vars =>
        [\A d \in Devices : active[d] /\ ~active'[d] => served[d] >= OffGrace - 1]_vars
  <2> SUFFICES ASSUME IInv, [Next]_vars, NEW d \in Devices, active[d], ~active'[d]
               PROVE  served[d] >= OffGrace - 1
    OBVIOUS
  <2>1. DropActive /\ d = bt.dev
    BY OnlyDropDeactivates DEF IInv
  <2> QED
    BY <2>1 DEF IInv, GraceInv, DropActive
<1> QED
  BY <1>1, InvariantHolds, PTL DEF Spec, DropIsServed

\* A device nobody re-drove during its grace period is dropped with a neutral
\* telegram as its last order.
THEOREM QuietDropNeutral == Spec => QuietDropIsNeutral
<1>1. IInv /\ [Next]_vars =>
        [\A d \in Devices : active[d] /\ ~active'[d] /\ ~disturbed[d] => sent[d] = Quiet]_vars
  <2> SUFFICES ASSUME IInv, [Next]_vars, NEW d \in Devices, active[d], ~active'[d], ~disturbed[d]
               PROVE  sent[d] = Quiet
    OBVIOUS
  <2>1. DropActive /\ d = bt.dev
    BY OnlyDropDeactivates DEF IInv
  <2> QED
    BY <2>1 DEF IInv, QuietInv, DropActive
<1> QED
  BY <1>1, InvariantHolds, PTL DEF Spec, QuietDropIsNeutral

\* A device is reactivated with every channel neutral and no drop pending.
THEOREM RejoinsNeutral == Spec => RejoinsAtNeutral
<1>1. IInv /\ [Next]_vars =>
        [\A d \in Devices :
           ~active[d] /\ active'[d] => channel[d] = Quiet /\ pendingOff[d] = 0]_vars
  <2> SUFFICES ASSUME IInv, [Next]_vars, NEW d \in Devices, ~active[d], active'[d]
               PROVE  channel[d] = Quiet /\ pendingOff[d] = 0
    OBVIOUS
  <2>1. OnActivate /\ d = app.dev
    BY OnlyToggleActivates DEF IInv
  <2>2. InToggle /\ app.at = "activate"
    BY <2>1 DEF OnActivate, IInv, AppShape, InToggle
  <2>3. channel[d] = Quiet
    BY <2>1, <2>2 DEF IInv, NeutralInv
  <2>4. pendingOff[d] \in 0 .. OffGrace /\ ~(pendingOff[d] > 0)
    BY DEF IInv, LockoutInv, TypeOK
  <2> QED
    BY <2>3, <2>4, SetFacts
<1> QED
  BY <1>1, InvariantHolds, PTL DEF Spec, RejoinsAtNeutral

-----------------------------------------------------------------------------
(***************************************************************************)
(* MkhBroadcast implements the safety part of HubLifecycle: every step of   *)
(* the two tasks is one life-cycle step of one hub, or changes no hub's     *)
(* phase and no countdown.                                                  *)
(***************************************************************************)

\* The phases as the refinement mapping sees them.
phases == [d \in Devices |-> Phase(d)]

\* The start of the firmware is a start of the life cycle.
LEMMA LifecycleInit == Init => Lifecycle!Init
<1> SUFFICES ASSUME Init PROVE Lifecycle!Init
  OBVIOUS
<1>1. \A d \in Devices : Phase(d) = IF d < NumEligible THEN "on" ELSE "off"
  BY SetFacts DEF Init, Phase, BtIdle
<1> QED
  BY <1>1, SetFacts DEF Init, Lifecycle!Init, Lifecycle!Devices, Devices

\* What a phase depends on.
LEMMA PhasesUnchanged ==
    ASSUME active' = active, pendingOff' = pendingOff,
           bt' = bt \/ (bt.at # "dropActive" /\ bt'.at # "dropActive")
    PROVE  UNCHANGED Lifecycle!vars
<1>1. \A d \in Devices : Phase(d)' = Phase(d)
  BY DEF Phase
<1> QED
  BY <1>1 DEF Lifecycle!vars

\* Every step of the tasks is a life-cycle step or none.
LEMMA LifecycleStep ==
    ASSUME IInv, [Next]_vars
    PROVE  [Lifecycle!Next]_(Lifecycle!vars)
<1> USE SetFacts, IdleTypes
<1> TypeOK /\ AppShape /\ BtShape /\ OnlyEligible /\ LockoutInv
  BY DEF IInv
<1>1. CASE OffArm
  <2>0. PICK h \in Devices : h = app.dev
    BY RecordTypes
  <2>1. Toggling(h) /\ app.op = "off"
    BY <2>0, <1>1 DEF OffArm, AppShape, Toggling
  <2>2. Phase(h) = "on"
    BY <2>0, <2>1, RecordTypes DEF LockoutInv, Dropping, Phase
  <2>3. pendingOff' = [pendingOff EXCEPT ![h] = OffGrace] /\ active' = active /\ bt' = bt
    BY <2>0, <1>1 DEF OffArm
  <2>4. Phase(h)' = "draining"
    BY <2>0, <2>1, <2>3, RecordTypes DEF Phase, LockoutInv, TypeOK
  <2>5. \A d \in Devices : d # h => Phase(d)' = Phase(d)
    BY <2>0, <2>3, RecordTypes DEF Phase, TypeOK
  <2>6. phases' = [phases EXCEPT ![h] = "draining"]
    BY <2>0, <2>4, <2>5 DEF phases
  <2> QED
    BY <2>0, <2>2, <2>3, <2>6, RecordTypes DEF phases, Lifecycle!Next, Lifecycle!RequestOff,
       Lifecycle!Devices, Devices
<1>2. CASE OnCancel
  <2>1. Toggling(app.dev)
    BY <1>2 DEF OnCancel, AppShape, Toggling
  <2>2. pendingOff[app.dev] \in 0 .. OffGrace /\ ~(pendingOff[app.dev] > 0)
    BY <2>1, RecordTypes DEF LockoutInv, TypeOK
  <2>3. pendingOff' = pendingOff
    BY <1>2, <2>2, RecordTypes DEF OnCancel, TypeOK
  <2> QED
    BY <1>2, <2>3, PhasesUnchanged DEF OnCancel
<1>3. CASE OnActivate
  <2>0. PICK h \in Devices : h = app.dev
    BY RecordTypes
  <2>1. Toggling(h) /\ InToggle
    BY <2>0, <1>3 DEF OnActivate, AppShape, Toggling, InToggle
  <2>2. h < NumEligible
    BY <2>0, <2>1 DEF OnlyEligible
  <2>3. pendingOff' = pendingOff /\ active' = [active EXCEPT ![h] = TRUE] /\ bt' = bt
    BY <2>0, <1>3 DEF OnActivate, shared
  <2>4. ~(pendingOff[h] > 0) /\ ~Dropping(h)
    BY <2>0, <2>1, RecordTypes DEF LockoutInv
  <2>5. CASE active[h]
    BY <2>0, <2>3, <2>5, RecordTypes, PhasesUnchanged DEF TypeOK
  <2>6. CASE ~active[h]
    <3>1. Phase(h) = "off"
      BY <2>0, <2>6 DEF Phase
    <3>2. Phase(h)' = "on"
      BY <2>0, <2>3, <2>4, RecordTypes DEF Phase, Dropping, TypeOK
    <3>3. \A d \in Devices : d # h => Phase(d)' = Phase(d)
      BY <2>0, <2>3, RecordTypes DEF Phase, TypeOK
    <3>4. phases' = [phases EXCEPT ![h] = "on"]
      BY <2>0, <3>2, <3>3 DEF phases
    <3> QED
      BY <2>0, <2>2, <2>3, <3>1, <3>4, RecordTypes DEF phases, Lifecycle!Next, Lifecycle!TurnOn,
         Lifecycle!Devices, Devices
  <2> QED
    BY <2>0, <2>5, <2>6
<1>4. CASE CountStore
  <2>0. PICK h \in Devices : h = bt.dev
    BY RecordTypes
  <2>1. pendingOff[h] = bt.count + 1 /\ bt.count \in Nat
    BY <2>0, <1>4, RecordTypes DEF CountStore, LockoutInv
  <2>2. active[h]
    BY <2>0, <2>1, RecordTypes DEF LockoutInv
  <2>3. pendingOff' = [pendingOff EXCEPT ![h] = bt.count] /\ active' = active
    BY <2>0, <1>4 DEF CountStore
  <2>4. \/ bt'.at = "dropActive" /\ bt'.dev = bt.dev /\ bt.count = 0
        \/ bt' = BtIdle /\ bt.count > 0
    <3>1. bt' = IF bt.count = 0 THEN [bt EXCEPT !.at = "dropActive"] ELSE BtIdle
      BY <1>4 DEF CountStore
    <3>2. bt.count = 0 \/ bt.count > 0
      BY <2>1
    <3> QED
      BY <3>1, <3>2, RecordTypes
  <2>5. Phase(h) = "draining"
    BY <2>0, <2>1, <2>2 DEF Phase
  <2>6. pendingOff'[h] = bt.count /\ \A d \in Devices : d # h => pendingOff'[d] = pendingOff[d]
    BY <2>0, <2>3, RecordTypes DEF TypeOK
  <2>7. \A d \in Devices : Phase(d)' = Phase(d)
    BY <2>0, <1>4, <2>2, <2>3, <2>4, <2>5, <2>6 DEF Phase, CountStore, BtIdle
  <2>8. phases' = phases
    BY <2>0, <2>7 DEF phases
  <2>9. pendingOff' = [pendingOff EXCEPT ![h] = @ - 1]
    <3>1. pendingOff[h] - 1 = bt.count
      BY <2>1
    <3> QED
      BY <2>3, <3>1
  <2>10. phases[h] = "draining" /\ pendingOff[h] > 0
    BY <2>0, <2>1, <2>5 DEF phases
  <2> QED
    BY <2>0, <2>8, <2>9, <2>10 DEF phases, Lifecycle!Next, Lifecycle!Service,
       Lifecycle!Devices, Devices
<1>5. CASE DropActive
  <2>0. PICK h \in Devices : h = bt.dev
    BY RecordTypes
  <2>1. pendingOff[h] = 0 /\ active[h] /\ bt.at = "dropActive"
    BY <2>0, <1>5, RecordTypes DEF DropActive, LockoutInv, Dropping
  <2>2. /\ pendingOff' = pendingOff /\ active' = [active EXCEPT ![h] = FALSE]
        /\ bt'.at = "dropShow"
    BY <2>0, <1>5, RecordTypes DEF DropActive
  <2>3. Phase(h) = "draining"
    BY <2>0, <2>1 DEF Phase
  <2>4. Phase(h)' = "off"
    BY <2>0, <2>2, RecordTypes DEF Phase, TypeOK
  <2>5. \A d \in Devices : d # h => Phase(d)' = Phase(d)
    BY <2>0, <2>2, RecordTypes DEF Phase, TypeOK
  <2>6. phases' = [phases EXCEPT ![h] = "off"]
    BY <2>0, <2>4, <2>5 DEF phases
  <2> QED
    BY <2>0, <2>1, <2>2, <2>3, <2>6, RecordTypes DEF phases, Lifecycle!Next, Lifecycle!Drop,
       Lifecycle!Devices, Devices
\* Everything else leaves the three variables of the phases alone.
<1>6. CASE AppCall \/ WriteNeutral \/ (\E tooSoon \in BOOLEAN : Notify(tooSoon)) \/ ToggleEnter
           \/ ToggleMark \/ OnConnect \/ OnStaged \/ OnShow \/ OnSettle \/ UNCHANGED vars
  BY <1>6, PhasesUnchanged DEF AppCall, Sweep, Tap, WriteNeutral, Notify, ToggleEnter, ToggleMark,
     OnConnect, OnStaged, OnShow, OnSettle, vars, shared
<1>7. CASE HciWorking \/ EventCallback \/ ControlPick \/ ControlCopy
  <2>1. bt.at # "dropActive" /\ bt'.at # "dropActive"
    BY <1>7, RecordTypes DEF HciWorking, EventCallback, ControlPick, ControlCopy, BtIdle
  <2> QED
    BY <1>7, <2>1, PhasesUnchanged DEF HciWorking, EventCallback, ControlPick, ControlCopy, shared
<1>8. CASE StagedControl \/ Show \/ CountLoad \/ DropShow
  <2>1. bt.at # "dropActive"
    BY <1>8 DEF StagedControl, BtStaging, Show, CountLoad, DropShow
  <2>2. bt'.at # "dropActive"
    <3>1. CASE StagedControl
      BY <3>1, RecordTypes DEF StagedControl
    <3>2. CASE Show
      BY <3>2, RecordTypes DEF Show, BtIdle
    <3>3. CASE CountLoad
      BY <3>3, RecordTypes DEF CountLoad, BtIdle
    <3>4. CASE DropShow
      BY <3>4, RecordTypes DEF DropShow
    <3> QED
      BY <1>8, <3>1, <3>2, <3>3, <3>4
  <2> QED
    BY <1>8, <2>1, <2>2, PhasesUnchanged DEF StagedControl, Show, CountLoad, DropShow, shared
<1>9. CASE StagedConnect \/ DropSettle
  <2>1. bt.at # "dropActive" /\ bt'.at # "dropActive"
    BY <1>9 DEF StagedConnect, DropSettle, BtStaging, BtIdle
  <2> QED
    BY <1>9, <2>1, PhasesUnchanged DEF StagedConnect, DropSettle, shared
<1> QED
  BY <1>1, <1>2, <1>3, <1>4, <1>5, <1>6, <1>7, <1>8, <1>9 DEF Next, AppStep, BtStep

\* The flags and counters that the two tasks write without a lock implement the
\* on / draining / off life cycle of the header, for every number of hubs and
\* every grace period (the safety part of ImplementsLifecycle).
THEOREM ImplementsLifecycleSafety == Spec => Lifecycle!Safety
BY LifecycleInit, LifecycleStep, InvariantHolds, PTL DEF Spec, Lifecycle!Safety
=============================================================================
