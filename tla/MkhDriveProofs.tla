--------------------------- MODULE MkhDriveProofs ---------------------------
(***************************************************************************)
(* The failsafe of MkhDrive, for every number of hubs, ports, seats and     *)
(* bindings and every report.                                               *)
(***************************************************************************)
EXTENDS MkhDrive, FoldFacts

\* A controller pointer is a seat or null.
SlotsInv == myControllers \in [Seats -> Seats \cup {nullptr}]

\* The failsafe and the sweep both skip a port without bindings, so what such a port
\* still drives was there when its last binding went.
OrphansInv == \A p \in Ports : table[p] = <<>> /\ Driven(p) => p \in orphans

IInv == SlotsInv /\ OrphansInv /\ FailsafeHolds

LEMMA FirstSeat == 0 \in Seats /\ nullptr \notin Seats
  BY SeatsAssumption DEF Seats, nullptr

\* At boot nothing drives and no slot is taken.
LEMMA InitIInv == Init => IInv
  BY FirstSeat DEF Init, IInv, SlotsInv, OrphansInv, FailsafeHolds, Driven, XWC, AllCleared

\* Steps that leave the ports alone, and the slots too.
LEMMA QuietStep ==
  ASSUME IInv, UNCHANGED <<myControllers, table, runtime, mkh_channel_value, orphans>>
  PROVE  IInv'
  BY DEF IInv, SlotsInv, OrphansInv, FailsafeHolds, Driven, XWC

\* Writing neutral keeps both port invariants; so does clearing.
LEMMA TouchedPorts ==
  ASSUME IInv, UNCHANGED myControllers,
         NEW cleared, runtime' = [p \in Ports |-> IF p \in cleared THEN AllCleared ELSE runtime[p]]
                      \/ UNCHANGED runtime,
         UNCHANGED table,
         (\E ports : Neutralize(ports)) \/ UNCHANGED <<mkh_channel_value, orphans>>
  PROVE  IInv'
  BY DEF IInv, SlotsInv, OrphansInv, FailsafeHolds, Driven, XWC, Neutralize

\* Rebinding makes an orphan of every driven port that it leaves without bindings.
LEMMA ReboundPorts ==
  ASSUME IInv, UNCHANGED myControllers, NEW t \in Tables, Rebind(t),
         NEW cleared, runtime' = [p \in Ports |-> IF p \in cleared THEN AllCleared ELSE runtime[p]]
                      \/ UNCHANGED runtime
  PROVE  IInv'
  <1>1. SlotsInv'
    BY DEF IInv, SlotsInv
  <1>2. OrphansInv'
    BY DEF IInv, OrphansInv, Rebind, Driven, Bound
  <1>3. FailsafeHolds'
    BY DEF IInv, FailsafeHolds, Rebind, Driven, XWC
  <1> QED
    BY <1>1, <1>2, <1>3 DEF IInv

\* A controller that takes the first slot ends the failsafe's claim; another slot does not
\* concern it.
LEMMA ConnectStep ==
  ASSUME IInv, NEW i \in Seats, onConnectedController(i)
  PROVE  IInv'
  <1> DEFINE slot == Min({k \in Seats : myControllers[k] = nullptr})
  <1>1. myControllers' = [myControllers EXCEPT ![slot] = i]
    BY DEF onConnectedController
  <1>2. UNCHANGED <<table, runtime, mkh_channel_value, orphans>>
    BY DEF onConnectedController, outputs
  <1>3. SlotsInv'
    BY <1>1 DEF IInv, SlotsInv
  <1>4. XWC' = nullptr => XWC = nullptr
    BY <1>1, FirstSeat DEF XWC, IInv, SlotsInv
  <1> QED
    BY <1>2, <1>3, <1>4 DEF IInv, OrphansInv, FailsafeHolds, Driven

\* The failsafe itself.
LEMMA DisconnectStep ==
  ASSUME IInv, NEW i \in Seats, onDisconnectedController(i)
  PROVE  IInv'
  <1>1. SlotsInv'
    BY DEF onDisconnectedController, IInv, SlotsInv
  <1>2. CASE XWC = i
    <2>1. OrphansInv'
      BY <1>2 DEF onDisconnectedController, Failsafe, Neutralize, IInv, OrphansInv, Driven
    <2>2. FailsafeHolds'
      BY <1>2 DEF onDisconnectedController, Failsafe, Neutralize, ClearLatchState, Bound,
                  IInv, OrphansInv, FailsafeHolds, Driven
    <2> QED
      BY <1>1, <2>1, <2>2 DEF IInv
  <1>3. CASE XWC # i
    <2>1. XWC' = XWC
      BY <1>3, FirstSeat DEF onDisconnectedController, XWC, IInv, SlotsInv
    <2> QED
      BY <1>1, <1>3, <2>1 DEF onDisconnectedController, outputs, IInv, OrphansInv,
                              FailsafeHolds, Driven
  <1> QED
    BY <1>2, <1>3

\* Only a port with bindings is swept, and only while there is a controller.
LEMMA SweepStep ==
  ASSUME IInv, Sweep
  PROVE  IInv'
  <1>1. UNCHANGED <<myControllers, table>>
    BY DEF Sweep, seats
  <1>2. CASE ~Sweeps
    BY <1>1, <1>2, QuietStep DEF Sweep
  <1>3. CASE Sweeps
    <2>1. SlotsInv' /\ XWC' # nullptr
      BY <1>1, <1>3 DEF IInv, SlotsInv, Sweeps, XWC
    <2>2. OrphansInv'
      BY <1>1, <1>3 DEF Sweep, IInv, OrphansInv, Driven, Bound
    <2> QED
      BY <2>1, <2>2 DEF IInv, FailsafeHolds
  <1> QED
    BY <1>2, <1>3

LEMMA TouchStep ==
  ASSUME IInv, Touch
  PROVE  IInv'
  <1>1. UNCHANGED myControllers
    BY DEF Touch, NoTouch, pushPendingSessionToLiveTable, ResetAll, mkh_storage_reload_config,
           ToggleOff, ToggleOn, EndOfLoop, seats
  <1>2. CASE NoTouch
    BY <1>1, <1>2, QuietStep DEF NoTouch, outputs
  <1>3. CASE pushPendingSessionToLiveTable
    <2>1. PICK dirty \in SUBSET Ports, t \in Tables : Rebind(t) /\ ClearLatchState(dirty)
      BY <1>3 DEF pushPendingSessionToLiveTable
    <2> QED
      BY <1>1, <2>1, ReboundPorts DEF ClearLatchState
  <1>4. CASE ResetAll
    <2>1. Unassigned \in Tables /\ Rebind(Unassigned) /\ ClearLatchState(Ports)
      BY <1>4, StoredAssumption DEF ResetAll
    <2> QED
      BY <1>1, <2>1, ReboundPorts DEF ClearLatchState
  <1>5. CASE mkh_storage_reload_config
    <2>1. PICK t \in Tables : Rebind(t)
      BY <1>5, StoredAssumption DEF mkh_storage_reload_config
    <2>2. UNCHANGED runtime
      BY <1>5 DEF mkh_storage_reload_config
    <2> QED
      BY <1>1, <2>1, <2>2, ReboundPorts
  <1>6. ASSUME NEW d \in Devices, ToggleOff(d)
        PROVE  IInv'
    BY <1>1, <1>6, TouchedPorts DEF ToggleOff, ClearLatchState
  <1>7. ASSUME NEW d \in Devices, ToggleOn(d)
        PROVE  IInv'
    BY <1>1, <1>7, TouchedPorts DEF ToggleOn
  <1> QED
    BY <1>2, <1>3, <1>4, <1>5, <1>6, <1>7 DEF Touch

LEMMA NextIInv == IInv /\ [Next]_vars => IInv'
  <1> SUFFICES ASSUME IInv, [Next]_vars PROVE IInv'
    OBVIOUS
  <1>1. CASE UNCHANGED vars
    BY <1>1, QuietStep DEF vars, seats, outputs
  <1>2. CASE Bluetooth
    BY <1>2, QuietStep DEF Bluetooth, DeviceReady, ControllerData, DeviceDisconnected, outputs
  <1>3. CASE Update
    BY <1>3, QuietStep DEF Update, outputs
  <1>4. CASE Callbacks
    BY <1>4, ConnectStep, DisconnectStep DEF Callbacks
  <1>5. CASE processControllers
    BY <1>5, QuietStep DEF processControllers, seats, outputs
  <1>6. CASE Sweep
    BY <1>6, SweepStep
  <1>7. CASE Touch
    BY <1>7, TouchStep
  <1> QED
    BY <1>1, <1>2, <1>3, <1>4, <1>5, <1>6, <1>7 DEF Next, Loop

\* The failsafe holds in every behaviour: without a controller in the first slot every
\* port is neutral, or was unbound while it was driven, and nothing can bring a value back.
THEOREM FailsafeTheorem == Spec => []FailsafeHolds
  <1>1. IInv => FailsafeHolds
    BY DEF IInv
  <1> QED
    BY InitIInv, NextIInv, <1>1, PTL DEF Spec

-----------------------------------------------------------------------------
\* Bytes and types

LEMMA Products ==
  ASSUME NEW a \in Int, NEW b \in Int
  PROVE  a * b \in Int
  OBVIOUS

\* Every scaling ends in a clamp.
LEMMA ClampFacts ==
  ASSUME NEW n \in Int
  PROVE  ToByte(n) \in 0 .. Full /\ SumToByte(n) \in 0 .. Full
  BY DEF ToByte, SumToByte, AtLeast, AtMost, Full, Neutral

\* Rounding is a whole number, and keeps the sign.
LEMMA RoundFacts ==
  ASSUME NEW n \in Int, NEW d \in Nat \ {0}
  PROVE  /\ Round(n, d) \in Int
         /\ n >= 0 => Round(n, d) >= 0
         /\ n <= 0 => Round(n, d) <= 0
         /\ Quotient(n, d) \in Int
  <1> DEFINE magnitude == (2 * Abs(n) + d) \div (2 * d)
             whole == Abs(n) \div d
  <1>1. Abs(n) \in Nat
    BY DEF Abs
  <1>2. ASSUME NEW a \in Nat, NEW e \in Nat \ {0} PROVE a \div e \in Nat
    OBVIOUS
  <1>3. magnitude \in Nat /\ whole \in Nat
    BY <1>1, <1>2
  <1>4. Round(n, d) = Signed(n, magnitude) /\ Quotient(n, d) = Signed(n, whole)
    BY DEF Round, Quotient
  <1>5. n = 0 => magnitude = 0
    <2>1. n = 0 => Abs(n) = 0
      BY DEF Abs
    <2>2. (0 + d) \div (2 * d) = 0
      OBVIOUS
    <2> QED
      BY <2>1, <2>2
  <1> HIDE DEF magnitude, whole
  <1> QED
    BY <1>3, <1>4, <1>5 DEF Signed

LEMMA StickByte ==
  ASSUME NEW axis \in Int
  PROVE  mkStickYToChannelByte(axis) \in 0 .. Full
  <1> DEFINE travel == StickMax - Deadzone(StickMax)
             beyond == AtMost(travel, Abs(axis) - Deadzone(StickMax))
  <1>1. travel = 472
    BY DEF StickMax, Deadzone
  <1>2. beyond \in Int
    BY DEF AtMost, Abs, StickMax, Deadzone
  <1> HIDE DEF travel, beyond
  <1>3. Round(127 * beyond, travel) \in Int /\ Round(128 * beyond, travel) \in Int
    BY <1>1, <1>2, RoundFacts
  <1>4. Neutral + (IF axis < 0 THEN Round(127 * beyond, travel)
                               ELSE -Round(128 * beyond, travel)) \in Int
    BY <1>3 DEF Neutral
  <1>5. ToByte(Neutral + IF axis < 0 THEN Round(127 * beyond, travel)
                                     ELSE -Round(128 * beyond, travel)) \in 0 .. Full
    BY <1>4, ClampFacts
  <1>6. Neutral \in 0 .. Full
    BY DEF Neutral, Full
  <1> QED
    BY <1>5, <1>6 DEF mkStickYToChannelByte, travel, beyond

LEMMA TriggerByte ==
  ASSUME NEW pull \in Int
  PROVE  mkTriggerToChannelByte(pull) \in 0 .. Full
  <1> DEFINE travel == TriggerMax - Deadzone(TriggerMax)
             beyond == AtMost(travel, pull - Deadzone(TriggerMax))
  <1>1. travel = 942
    BY DEF TriggerMax, Deadzone
  <1>2. beyond \in Int /\ (pull > Deadzone(TriggerMax) => beyond >= 0)
    BY DEF AtMost, TriggerMax, Deadzone
  <1>3. pull <= Deadzone(TriggerMax) \/ pull > Deadzone(TriggerMax)
    BY DEF TriggerMax, Deadzone
  <1> HIDE DEF travel, beyond
  <1>4. Round(127 * beyond, travel) \in Int
        /\ (beyond >= 0 => Round(127 * beyond, travel) >= 0)
    BY <1>1, <1>2, RoundFacts
  <1>5. beyond >= 0 => AtMost(Full, Neutral + Round(127 * beyond, travel)) \in 0 .. Full
    BY <1>4 DEF AtMost, Full, Neutral
  <1>6. Neutral \in 0 .. Full
    BY DEF Neutral, Full
  <1> QED
    BY <1>2, <1>3, <1>5, <1>6 DEF mkTriggerToChannelByte, travel, beyond

\* The shortest way is at most half a turn, and leads to where the heading points.
LEMMA WrapFacts ==
  ASSUME NEW deg \in Int
  PROVE  /\ wrap180(deg) \in -179 .. 180
         /\ deg % 360 = IF wrap180(deg) < 0 THEN wrap180(deg) + 360 ELSE wrap180(deg)
  <1> DEFINE r == Abs(deg) % 360
  <1>1. Abs(deg) \in Nat /\ r \in 0 .. 359
    BY DEF Abs
  <1>2. CASE deg >= 0
    <2>1. deg % 360 = r
      BY <1>2 DEF Abs
    <2>2. wrap180(deg) = IF r > 180 THEN r - 360 ELSE r
      BY <1>1, <1>2 DEF wrap180, Signed
    <2> HIDE DEF r
    <2> QED
      BY <1>1, <2>1, <2>2
  <1>3. CASE deg < 0
    <2>1. deg % 360 = IF r = 0 THEN 0 ELSE 360 - r
      BY <1>3 DEF Abs
    <2>2. wrap180(deg) = IF r >= 180 THEN 360 - r ELSE -r
      BY <1>1, <1>3 DEF wrap180, Signed
    <2> HIDE DEF r
    <2> QED
      BY <1>1, <2>1, <2>2
  <1> QED
    BY <1>2, <1>3

\* The control law turns towards the reference, and rests only within the deadband.
LEMMA OutputFacts ==
  ASSUME NEW reference \in Int, NEW now \in Int
  PROVE  LET error == wrap180(reference - now)
             pct == mkh_thl_compute_output_pct(reference, now)
         IN  /\ pct \in Int
             /\ error > 0 => pct >= 0
             /\ error < 0 => pct <= 0
             /\ error = 0 => pct = 0
             /\ pct = 0 /\ {Kp, Ceiling} \subseteq Nat \ {0} => Abs(error) < Deadband \/ error = 0
  <1> DEFINE error == wrap180(reference - now)
             pushed == Kp * Abs(error)
             capped == AtMost(Ceiling, pushed)
  <1>1. error \in Int
    BY WrapFacts, SMTT(20)
  <1>2. Kp \in Nat /\ Ceiling \in Nat /\ Floor \in Nat /\ Deadband \in Nat
    BY TuningAssumption
  <1>3. mkh_thl_compute_output_pct(reference, now) =
            IF Abs(error) < Deadband \/ capped = 0 THEN 0
            ELSE Signed(error, AtLeast(Floor, capped))
    BY DEF mkh_thl_compute_output_pct
  <1> HIDE DEF error
  <1>4. Abs(error) \in Nat /\ (Abs(error) = 0 <=> error = 0)
    BY <1>1 DEF Abs
  <1>5. ASSUME NEW k \in Nat, NEW a \in Nat
        PROVE  k * a \in Nat /\ (k # 0 /\ k * a = 0 => a = 0) /\ (a = 0 => k * a = 0)
    OBVIOUS
  <1>6. pushed \in Nat /\ (Kp # 0 /\ pushed = 0 => error = 0) /\ (error = 0 => pushed = 0)
    BY <1>2, <1>4, <1>5
  <1> HIDE DEF pushed
  <1>7. capped \in Nat /\ (Ceiling # 0 /\ capped = 0 => pushed = 0) /\ (pushed = 0 => capped = 0)
    BY <1>2, <1>6 DEF AtMost
  <1> HIDE DEF capped
  <1>8. AtLeast(Floor, capped) \in Nat /\ (capped # 0 => AtLeast(Floor, capped) # 0)
    BY <1>2, <1>7 DEF AtLeast
  <1>9. Signed(error, AtLeast(Floor, capped)) =
            IF error < 0 THEN -AtLeast(Floor, capped) ELSE AtLeast(Floor, capped)
    BY DEF Signed
  <1> QED
    BY <1>1, <1>2, <1>3, <1>4, <1>6, <1>7, <1>8, <1>9 DEF error

LEMMA LockByteFacts ==
  ASSUME NEW reference \in Int, NEW now \in Int
  PROVE  /\ LockByte(reference, now) \in 0 .. Full
         /\ TurnsShortWay(LockByte(reference, now), reference, now)
  <1> DEFINE error == wrap180(reference - now)
             pct == mkh_thl_compute_output_pct(reference, now)
             turn == Round(127 * pct, 100)
             ahead == (reference - now) % 360
  <1>1. /\ pct \in Int
        /\ error > 0 => pct >= 0
        /\ error < 0 => pct <= 0
        /\ error = 0 => pct = 0
        /\ pct = 0 /\ {Kp, Ceiling} \subseteq Nat \ {0} => Abs(error) < Deadband \/ error = 0
    BY OutputFacts
  <1>2. error \in -179 .. 180 /\ ahead = IF error < 0 THEN error + 360 ELSE error
    BY WrapFacts
  <1>3. turn = Signed(127 * pct, (2 * Abs(127 * pct) + 100) \div 200)
    BY DEF Round
  <1>4. LockByte(reference, now) = ToByte(Neutral + turn)
    BY DEF LockByte
  <1> HIDE DEF error, pct, ahead
  <1>5. turn \in Int /\ (turn > 0 => pct > 0) /\ (turn < 0 => pct < 0) /\ (turn = 0 => pct = 0)
    BY <1>1, <1>3 DEF Signed, Abs
  <1> HIDE DEF turn
  <1>6. /\ ToByte(Neutral + turn) \in 0 .. Full
        /\ ToByte(Neutral + turn) > Neutral => turn > 0
        /\ ToByte(Neutral + turn) < Neutral => turn < 0
        /\ ToByte(Neutral + turn) = Neutral => turn = 0
    BY <1>5 DEF ToByte, AtLeast, AtMost, Neutral, Full
  <1> DEFINE byte == LockByte(reference, now)
  <1>7. byte > Neutral => ahead \in 1 .. 180
    BY <1>1, <1>2, <1>4, <1>5, <1>6
  <1>8. byte < Neutral => ahead \in 180 .. 359
    BY <1>1, <1>2, <1>4, <1>5, <1>6
  <1>9. byte = Neutral /\ {Kp, Ceiling} \subseteq Nat \ {0} =>
            ahead < Deadband \/ 360 - ahead < Deadband \/ ahead = 0
    <2>1. Deadband \in Nat
      BY TuningAssumption
    <2> QED
      BY <1>1, <1>2, <1>4, <1>5, <1>6, <2>1 DEF Abs
  <1> QED
    BY <1>4, <1>6, <1>7, <1>8, <1>9 DEF TurnsShortWay, ahead

\* What a list of bindings in a table is made of, and what a report tells it.
Bindings(list) ==
    /\ DOMAIN list \subseteq Slots
    /\ \A b \in DOMAIN list :
           /\ list[b].invert \in BOOLEAN /\ list[b].max_percent \in 0 .. 100
           /\ \A data \in Reports : data[list[b].input] \in Int

LEMMA TableFacts ==
  ASSUME NEW t \in Tables, NEW p \in Ports
  PROVE  Bindings(t[p])
  BY TablesAssumption, ReportsAssumption DEF Bindings

LEMMA SlotsFinite ==
  ASSUME NEW S \in SUBSET Slots
  PROVE  IsFiniteSet(S) /\ S \in SUBSET Nat
  <1>1. MaxBindings \in Nat
    BY TablesAssumption
  <1>2. IsFiniteSet(1 .. MaxBindings)
    BY <1>1, FS_Interval
  <1>3. IsFiniteSet(S)
    BY <1>2, FS_Subset, Zenon DEF Slots
  <1>4. S \in SUBSET Nat
    BY <1>1 DEF Slots
  <1> QED
    BY <1>3, <1>4

\* A binding's share of its port is that of a byte; a lock's is its own, at most turned.
LEMMA ContributionFacts ==
  ASSUME NEW byte \in 0 .. Full, NEW b, b.invert \in BOOLEAN, b.max_percent \in 0 .. 100
  PROVE  /\ Contribution(b, byte) \in -128 .. 127
         /\ b.mode = "thl" =>
                Contribution(b, byte) = (IF b.invert THEN ToByte(2 * Neutral - byte) ELSE byte) - Neutral
  <1> DEFINE turned == IF b.invert THEN ToByte(2 * Neutral - byte) ELSE byte
             scaled == Neutral + Quotient((turned - Neutral) * b.max_percent, 100)
  <1>1. turned \in 0 .. Full
    BY DEF ToByte, AtLeast, AtMost, Neutral, Full
  <1>2. mkApplyBindingConfig(byte, b) = IF b.mode = "thl" THEN turned ELSE ToByte(scaled)
    BY DEF mkApplyBindingConfig
  <1> HIDE DEF turned
  <1>3. (turned - Neutral) * b.max_percent \in Int
    BY <1>1, Products DEF Neutral, Full
  <1>4. Quotient((turned - Neutral) * b.max_percent, 100) \in Int
    BY <1>3, RoundFacts
  <1>5. scaled \in Int
    BY <1>4 DEF Neutral
  <1> HIDE DEF scaled
  <1>6. ToByte(scaled) \in 0 .. Full
    BY <1>5, ClampFacts
  <1>7. mkApplyBindingConfig(byte, b) \in 0 .. Full
    BY <1>1, <1>2, <1>6
  <1>8. Contribution(b, byte) = mkApplyBindingConfig(byte, b) - Neutral
    BY DEF Contribution
  <1>9. Contribution(b, byte) \in -128 .. 127
    BY <1>7, <1>8 DEF Neutral, Full
  <1> QED
    BY <1>2, <1>8, <1>9 DEF turned

\* The state of one binding.
RuntimeType == [
    latchState : BOOLEAN, latchPrevPressed : BOOLEAN,
    pulseArmed : BOOLEAN, pulseActive : BOOLEAN, pulseFrame : Frames, pulsePrevPressed : BOOLEAN,
    thlEngaged : BOOLEAN, thlReferenceDeg : Headings \cup {0}, thlPrevPressed : BOOLEAN]

LEMMA ClearedType == Cleared \in RuntimeType /\ AllCleared \in [Slots -> RuntimeType]
  <1>1. 0 \in Frames
    BY FramesAssumption DEF Frames
  <1> QED
    BY <1>1 DEF Cleared, AllCleared, RuntimeType

LEMMA RawByteType ==
  ASSUME NEW list, Bindings(list), NEW b \in DOMAIN list, NEW data \in Reports,
         NEW r \in RuntimeType, heading \in Headings
  PROVE  RawByte(list[b], r, data) \in 0 .. Full
  <1>1. data[list[b].input] \in Int
    BY DEF Bindings
  <1>2. mkStickYToChannelByte(data[list[b].input]) \in 0 .. Full
        /\ mkTriggerToChannelByte(data[list[b].input]) \in 0 .. Full
    BY <1>1, StickByte, TriggerByte
  <1>3. r.thlReferenceDeg \in Int /\ heading \in Int
    <2>1. r.thlReferenceDeg \in Headings \cup {0}
      BY DEF RuntimeType
    <2>2. Headings \cup {0} \subseteq Int
      BY HeadingsAssumption
    <2> QED
      BY <2>1, <2>2, Zenon
  <1>4. LockByte(r.thlReferenceDeg, heading) \in 0 .. Full
    BY <1>3, LockByteFacts
  <1>5. Neutral \in 0 .. Full /\ Full \in 0 .. Full
    BY DEF Neutral, Full
  <1> HIDE DEF Neutral
  <1> QED
    BY <1>2, <1>4, <1>5 DEF RawByte, Level

LEMMA IsPressedType ==
  ASSUME NEW list, Bindings(list), NEW b \in DOMAIN list, NEW data \in Reports
  PROVE  IsPressed(list[b], data) \in BOOLEAN
  <1>1. CASE list[b].input \in Triggers
    <2>1. ASSUME NEW x \in Int PROVE (x > TriggerMax \div 2) \in BOOLEAN
      BY DEF TriggerMax
    <2>2. data[list[b].input] \in Int
      BY DEF Bindings
    <2> QED
      BY <1>1, <2>1, <2>2, Zenon DEF IsPressed
  <1>2. CASE list[b].input \notin Triggers
    BY <1>2, Zenon DEF IsPressed
  <1> QED
    BY <1>1, <1>2

LEMMA LatchType ==
  ASSUME NEW r \in RuntimeType, NEW pressed \in BOOLEAN
  PROVE  Latch(r, pressed) \in RuntimeType
  <1> DEFINE state == IF pressed /\ ~r.latchPrevPressed THEN ~r.latchState ELSE r.latchState
  <1>1. state \in BOOLEAN
    BY Zenon DEF RuntimeType
  <1>2. Latch(r, pressed) = [r EXCEPT !.latchState = state, !.latchPrevPressed = pressed]
    BY Zenon DEF Latch
  <1> HIDE DEF state
  <1> QED
    BY <1>1, <1>2 DEF RuntimeType

LEMMA PulseType ==
  ASSUME NEW r \in RuntimeType, NEW pressed \in BOOLEAN, frame \in Frames
  PROVE  Pulse(r, pressed) \in RuntimeType
  <1> DEFINE arms == pressed /\ ~r.pulsePrevPressed /\ ~r.pulseArmed /\ ~r.pulseActive
             starts == r.pulseArmed /\ frame # r.pulseFrame
             since == IF arms \/ starts THEN frame ELSE r.pulseFrame
             armed == (r.pulseArmed \/ arms) /\ ~starts
             active == (r.pulseActive \/ starts) /\ frame < since + MKH_PULSE_FRAMES
             first == IF armed \/ active THEN since ELSE 0
  <1>1. armed \in BOOLEAN /\ active \in BOOLEAN
    BY Zenon DEF RuntimeType
  <1>2. first \in Frames
    <2>1. 0 \in Frames
      BY FramesAssumption DEF Frames
    <2>2. r.pulseFrame \in Frames
      BY DEF RuntimeType
    <2>3. since \in Frames
      BY <2>2, Zenon
    <2> HIDE DEF since, armed, active
    <2> QED
      BY <2>1, <2>3, Zenon
  <1>3. Pulse(r, pressed) = [r EXCEPT !.pulsePrevPressed = pressed, !.pulseArmed = armed,
                                      !.pulseActive = active, !.pulseFrame = first]
    BY Zenon DEF Pulse
  <1> HIDE DEF arms, starts, since, armed, active, first
  <1> QED
    BY <1>1, <1>2, <1>3 DEF RuntimeType

LEMMA LockType ==
  ASSUME NEW r \in RuntimeType, NEW pressed \in BOOLEAN, heading \in Headings
  PROVE  Lock(r, pressed) \in RuntimeType
  <1> DEFINE tapped == pressed /\ ~r.thlPrevPressed
             engages == tapped /\ ~r.thlEngaged /\ imuReady
             engaged == IF tapped THEN engages ELSE r.thlEngaged
             reference == IF engages THEN heading ELSE IF tapped THEN 0 ELSE r.thlReferenceDeg
  <1>1. engaged \in BOOLEAN
    BY Zenon DEF RuntimeType
  <1>2. reference \in Headings \cup {0}
    <2>1. r.thlReferenceDeg \in Headings \cup {0}
      BY DEF RuntimeType
    <2> HIDE DEF tapped, engages
    <2> QED
      BY <2>1
  <1>3. Lock(r, pressed) = [r EXCEPT !.thlPrevPressed = pressed, !.thlEngaged = engaged,
                                     !.thlReferenceDeg = reference]
    BY Zenon DEF Lock
  <1> HIDE DEF tapped, engages, engaged, reference
  <1> QED
    BY <1>1, <1>2, <1>3 DEF RuntimeType

LEMMA AdvanceType ==
  ASSUME NEW list, Bindings(list), NEW b \in DOMAIN list, NEW data \in Reports,
         NEW r \in RuntimeType, frame \in Frames, heading \in Headings
  PROVE  Advance(list[b], r, data) \in RuntimeType
  <1>1. IsPressed(list[b], data) \in BOOLEAN
    BY IsPressedType
  <1> QED
    BY <1>1, LatchType, PulseType, LockType DEF Advance

LEMMA SweptStateType ==
  ASSUME NEW list, Bindings(list), NEW data \in Reports, NEW rt \in [Slots -> RuntimeType],
         frame \in Frames, heading \in Headings
  PROVE  SweptState(list, rt, data) \in [Slots -> RuntimeType]
  BY AdvanceType DEF SweptState

LEMMA PortByteType ==
  ASSUME NEW list, Bindings(list), NEW data \in Reports, NEW rt \in [Slots -> RuntimeType],
         heading \in Headings, NEW S \in SUBSET DOMAIN list
  PROVE  PortByte(list, [b \in DOMAIN list |-> RawByte(list[b], rt[b], data)], S) \in 0 .. Full
  <1> DEFINE raw == [b \in DOMAIN list |-> RawByte(list[b], rt[b], data)]
             share == [b \in DOMAIN list |-> Contribution(list[b], raw[b])]
  <1>1. \A b \in DOMAIN list : raw[b] \in 0 .. Full
    BY RawByteType DEF Bindings
  <1>2. IsFiniteSet(S)
    BY SlotsFinite DEF Bindings
  <1> HIDE DEF raw
  <1>3. ASSUME NEW b \in S PROVE share[b] \in Int
    <2>1. raw[b] \in 0 .. Full /\ list[b].invert \in BOOLEAN /\ list[b].max_percent \in 0 .. 100
      BY <1>1 DEF Bindings
    <2>2. Contribution(list[b], raw[b]) \in -128 .. 127
      BY <2>1, ContributionFacts
    <2> QED
      BY <2>2
  <1> HIDE DEF share
  <1>4. SumFunctionOnSet(share, S) \in Int
    BY <1>2, <1>3, SumIsAnInteger
  <1>5. PortByte(list, raw, S) = SumToByte(SumFunctionOnSet(share, S))
    BY DEF PortByte, share
  <1>6. PortByte(list, raw, S) \in 0 .. Full
    BY <1>4, <1>5, ClampFacts
  <1> QED
    BY <1>6 DEF raw

\* The locks of a list are slots, and the first one is one of them.
LEMMA FirstLock ==
  ASSUME NEW list, Bindings(list), NEW rt, Engaged(list, rt) # {}
  PROVE  /\ Min(Engaged(list, rt)) \in Engaged(list, rt)
         /\ Engaged(list, rt) \subseteq DOMAIN list
         /\ DOMAIN list \subseteq Slots
  <1>1. Engaged(list, rt) \subseteq DOMAIN list /\ DOMAIN list \subseteq Slots
    BY DEF Engaged, Bindings
  <1>2. Engaged(list, rt) \in SUBSET Nat
    BY <1>1, SlotsFinite
  <1> QED
    BY <1>1, <1>2, MinInSet

LEMMA SweptType ==
  ASSUME NEW list, Bindings(list), NEW data \in Reports, NEW rt \in [Slots -> RuntimeType],
         frame \in Frames, heading \in Headings
  PROVE  /\ Swept(list, rt, data).runtime \in [Slots -> RuntimeType]
         /\ Swept(list, rt, data).byte \in 0 .. Full
  <1> DEFINE next == SweptState(list, rt, data)
             raw == [b \in DOMAIN list |-> RawByte(list[b], next[b], data)]
             locks == Engaged(list, next)
             lock == Min(locks)
             released == [next EXCEPT ![lock].thlEngaged = FALSE, ![lock].thlReferenceDeg = 0]
  <1>1. next \in [Slots -> RuntimeType]
    BY SweptStateType
  <1> HIDE DEF next
  <1>2. \A S \in SUBSET DOMAIN list : PortByte(list, raw, S) \in 0 .. Full
    BY <1>1, PortByteType
  <1>3. locks # {} => lock \in DOMAIN list /\ lock \in Slots
    BY FirstLock
  <1> HIDE DEF raw, locks
  <1>4. locks # {} => released \in [Slots -> RuntimeType]
    <2> HIDE DEF lock
    <2>1. next[lock] \in RuntimeType =>
              [next[lock] EXCEPT !.thlEngaged = FALSE, !.thlReferenceDeg = 0] \in RuntimeType
      BY DEF RuntimeType
    <2>2. released = [next EXCEPT ![lock] =
                         [next[lock] EXCEPT !.thlEngaged = FALSE, !.thlReferenceDeg = 0]]
          \/ lock \notin Slots
      BY <1>1
    <2> QED
      BY <1>1, <1>3, <2>1, <2>2
  <1>5. Swept(list, rt, data) =
          IF locks = {} THEN [runtime |-> next, byte |-> PortByte(list, raw, DOMAIN list)]
          ELSE IF Overrides(list, raw, lock) # {}
          THEN [runtime |-> released, byte |-> PortByte(list, raw, DOMAIN list \ {lock})]
          ELSE [runtime |-> next, byte |-> PortByte(list, raw, {lock})]
    BY Zenon DEF Swept, next, raw, locks
  <1> HIDE DEF lock, released
  <1>6. CASE locks = {}
    BY <1>1, <1>2, <1>5, <1>6
  <1>7. CASE locks # {} /\ Overrides(list, raw, lock) # {}
    BY <1>2, <1>4, <1>5, <1>7
  <1>8. CASE locks # {} /\ Overrides(list, raw, lock) = {}
    <2>1. {lock} \in SUBSET DOMAIN list
      BY <1>3, <1>8
    <2> QED
      BY <1>1, <1>2, <1>5, <1>8, <2>1
  <1> QED
    BY <1>6, <1>7, <1>8

\* TypeOK in three parts: the seats, the clock, the ports.
SeatsType ==
    /\ controllers_ \in [Seats -> [taken : BOOLEAN, data : Reports \cup {NoReport}]]
    /\ controller \in [Seats -> [_connected : BOOLEAN, _hasData : BOOLEAN, _data : Reports]]
    /\ connected \subseteq Seats
    /\ changed \subseteq Seats
    /\ myControllers \in [Seats -> Seats \cup {nullptr}]
    /\ xwcState \in {"DISCONNECTED", "CONNECTING", "ACTIVE"}
    /\ reported \in BOOLEAN
ClockType ==
    /\ frame \in Frames
    /\ heading \in Headings
    /\ imuReady \in BOOLEAN
    /\ at \in {"update", "callbacks", "sweep", "touch"}
OutputsType ==
    /\ table \in Tables
    /\ runtime \in [Ports -> [Slots -> RuntimeType]]
    /\ mkh_channel_value \in [Ports -> 0 .. Full]
    /\ orphans \subseteq Ports
    /\ fresh \subseteq Ports

LEMMA TypeParts ==
  /\ TypeOK <=> SeatsType /\ ClockType /\ OutputsType
  /\ (TypeOK <=> SeatsType /\ ClockType /\ OutputsType)'
  BY Zenon DEF TypeOK, SeatsType, ClockType, OutputsType, RuntimeType

LEMMA InitType == Init => TypeOK
  <1> SUFFICES ASSUME Init PROVE TypeOK
    OBVIOUS
  <1>1. SeatsType
    BY ReportsAssumption DEF Init, SeatsType, FreeSeat
  <1>2. ClockType
    BY DEF Init, ClockType
  <1>3. OutputsType
    <2>1. runtime \in [Ports -> [Slots -> RuntimeType]]
      BY ClearedType DEF Init
    <2>2. mkh_channel_value \in [Ports -> 0 .. Full]
      BY DEF Init, Neutral, Full
    <2> QED
      BY <2>1, <2>2 DEF Init, OutputsType
  <1> QED
    BY <1>1, <1>2, <1>3, TypeParts

LEMMA NeutralizeType ==
  ASSUME OutputsType, NEW ports, Neutralize(ports)
  PROVE  mkh_channel_value' \in [Ports -> 0 .. Full] /\ orphans' \subseteq Ports
  <1>1. Neutral \in 0 .. Full
    BY DEF Neutral, Full
  <1> QED
    BY <1>1 DEF OutputsType, Neutralize

LEMMA ClearType ==
  ASSUME OutputsType, NEW ports \in SUBSET Ports, ClearLatchState(ports)
  PROVE  runtime' \in [Ports -> [Slots -> RuntimeType]] /\ fresh' \subseteq Ports
  BY ClearedType DEF OutputsType, ClearLatchState

LEMMA BluetoothType ==
  ASSUME TypeOK, Bluetooth
  PROVE  TypeOK'
  <1>1. SeatsType /\ ClockType /\ OutputsType
    BY TypeParts
  <1>2. ClockType' /\ OutputsType'
    BY <1>1 DEF Bluetooth, DeviceReady, ControllerData, DeviceDisconnected, clock, outputs,
                ClockType, OutputsType
  <1>3. UNCHANGED <<controller, connected, changed, myControllers, xwcState, reported>>
    BY DEF Bluetooth, DeviceReady, ControllerData, DeviceDisconnected
  <1>4. controllers_' \in [Seats -> [taken : BOOLEAN, data : Reports \cup {NoReport}]]
    <2>1. CASE DeviceReady
      <3> DEFINE free == Min({i \in Seats : ~controllers_[i].taken})
      <3>1. controllers_' = [controllers_ EXCEPT ![free].taken = TRUE]
        BY <2>1 DEF DeviceReady
      <3> HIDE DEF free
      <3> QED
        BY <1>1, <3>1 DEF SeatsType
    <2>2. ASSUME NEW i \in Seats, ControllerData(i)
          PROVE  controllers_' \in [Seats -> [taken : BOOLEAN, data : Reports \cup {NoReport}]]
      BY <1>1, <2>2 DEF ControllerData, SeatsType
    <2>3. ASSUME NEW i \in Seats, DeviceDisconnected(i)
          PROVE  controllers_' \in [Seats -> [taken : BOOLEAN, data : Reports \cup {NoReport}]]
      BY <1>1, <2>3 DEF DeviceDisconnected, SeatsType, FreeSeat
    <2> QED
      BY <2>1, <2>2, <2>3 DEF Bluetooth
  <1>5. SeatsType'
    BY <1>1, <1>3, <1>4 DEF SeatsType
  <1> QED
    BY <1>2, <1>5, TypeParts

LEMMA UpdateType ==
  ASSUME TypeOK, Update
  PROVE  TypeOK'
  <1>1. SeatsType /\ ClockType /\ OutputsType
    BY TypeParts
  <1>2. ClockType' /\ OutputsType'
    BY <1>1 DEF Update, clock, outputs, ClockType, OutputsType
  <1>3. controller' \in [Seats -> [_connected : BOOLEAN, _hasData : BOOLEAN, _data : Reports]]
    <2>1. ASSUME NEW i \in Seats
          PROVE  controller'[i] \in [_connected : BOOLEAN, _hasData : BOOLEAN, _data : Reports]
      <3>1. controllers_[i].data \in Reports \cup {NoReport}
            /\ controller[i] \in [_connected : BOOLEAN, _hasData : BOOLEAN, _data : Reports]
        BY <1>1 DEF SeatsType
      <3>2. Unread(i) \in BOOLEAN /\ (Unread(i) => controllers_[i].data \in Reports)
        BY <3>1 DEF Unread
      <3>3. controller'[i] = IF i \notin Taken THEN controller[i]
                ELSE [controller[i] EXCEPT
                         !._hasData = Unread(i),
                         !._data = IF Unread(i) THEN controllers_[i].data ELSE @]
        BY Zenon DEF Update
      <3> QED
        BY <3>1, <3>2, <3>3
    <2>2. controller' = [i \in Seats |-> controller'[i]]
      BY DEF Update
    <2> QED
      BY <2>1, <2>2
  <1>4. controllers_' \in [Seats -> [taken : BOOLEAN, data : Reports \cup {NoReport}]]
    BY <1>1 DEF Update, SeatsType
  <1>5. connected' \subseteq Seats /\ changed' \subseteq Seats
    BY <1>1 DEF Update, SeatsType, Taken
  <1>6. reported' \in BOOLEAN
    BY <1>1, Zenon DEF Update, SeatsType
  <1>7. SeatsType'
    BY <1>1, <1>3, <1>4, <1>5, <1>6 DEF SeatsType, Update
  <1> QED
    BY <1>2, <1>7, TypeParts

LEMMA CallbacksType ==
  ASSUME TypeOK, Callbacks
  PROVE  TypeOK'
  <1>1. SeatsType /\ ClockType /\ OutputsType
    BY TypeParts
  <1>2. ASSUME NEW i \in Seats, onConnectedController(i)
        PROVE  TypeOK'
    <2>1. ClockType' /\ OutputsType'
      BY <1>1, <1>2 DEF onConnectedController, clock, outputs, ClockType, OutputsType
    <2> DEFINE slot == Min({k \in Seats : myControllers[k] = nullptr})
    <2>2. /\ myControllers' = [myControllers EXCEPT ![slot] = i]
          /\ controller' = [controller EXCEPT ![i]._connected = TRUE]
          /\ changed' = changed \ {i}
          /\ UNCHANGED <<controllers_, connected>>
          /\ \/ xwcState' = "CONNECTING" /\ reported' = controller[i]._hasData
             \/ UNCHANGED <<xwcState, reported>>
      BY <1>2 DEF onConnectedController
    <2> HIDE DEF slot
    <2>3. myControllers' \in [Seats -> Seats \cup {nullptr}]
      BY <1>1, <2>2 DEF SeatsType
    <2>4. controller' \in [Seats -> [_connected : BOOLEAN, _hasData : BOOLEAN, _data : Reports]]
          /\ controller[i]._hasData \in BOOLEAN
      BY <1>1, <2>2 DEF SeatsType
    <2>5. SeatsType'
      BY <1>1, <2>2, <2>3, <2>4 DEF SeatsType
    <2> QED
      BY <2>1, <2>5, TypeParts
  <1>3. ASSUME NEW i \in Seats, onDisconnectedController(i)
        PROVE  TypeOK'
    <2>1. ClockType'
      BY <1>1, <1>3 DEF onDisconnectedController, clock, ClockType
    <2>2. OutputsType'
      <3>1. CASE UNCHANGED outputs
        BY <1>1, <3>1 DEF outputs, OutputsType
      <3>2. CASE Failsafe
        <4>1. mkh_channel_value' \in [Ports -> 0 .. Full] /\ orphans' \subseteq Ports
          BY <1>1, <3>2, NeutralizeType DEF Failsafe
        <4>2. runtime' \in [Ports -> [Slots -> RuntimeType]] /\ fresh' \subseteq Ports
          BY <1>1, <3>2, ClearType DEF Failsafe
        <4> QED
          BY <1>1, <3>2, <4>1, <4>2 DEF Failsafe, OutputsType
      <3> QED
        BY <1>3, <3>1, <3>2 DEF onDisconnectedController
    <2>3. SeatsType'
      <3>1. controller' = [controller EXCEPT ![i]._connected = FALSE]
            /\ xwcState' \in {"DISCONNECTED", xwcState}
            /\ changed' = changed \ {i}
            /\ UNCHANGED <<controllers_, connected, reported>>
        BY <1>3 DEF onDisconnectedController
      <3>2. controller' \in [Seats -> [_connected : BOOLEAN, _hasData : BOOLEAN, _data : Reports]]
        BY <1>1, <3>1 DEF SeatsType
      <3>3. myControllers' \in [Seats -> Seats \cup {nullptr}]
        BY <1>1, <1>3 DEF SeatsType, onDisconnectedController
      <3> QED
        BY <1>1, <3>1, <3>2, <3>3 DEF SeatsType
    <2> QED
      BY <2>1, <2>2, <2>3, TypeParts
  <1> QED
    BY <1>2, <1>3 DEF Callbacks

LEMMA ProcessType ==
  ASSUME TypeOK, processControllers
  PROVE  TypeOK'
  <1>1. SeatsType /\ ClockType /\ OutputsType
    BY TypeParts
  <1>2. SeatsType' /\ ClockType' /\ OutputsType'
    BY <1>1 DEF processControllers, seats, clock, outputs, SeatsType, ClockType, OutputsType
  <1> QED
    BY <1>2, TypeParts

\* What a sweep makes of the ports, one by one.
LEMMA SweepPorts ==
  ASSUME TypeOK, Sweep, Sweeps
  PROVE  /\ XWC \in Seats /\ controller[XWC]._data \in Reports
         /\ UNCHANGED <<seats, clock, table>>
         /\ \A p \in Bound(table) : p \in Ports /\ Bindings(table[p])
         /\ \A p \in Ports :
                /\ runtime'[p] = IF p \in Bound(table)
                                 THEN Swept(table[p], runtime[p], controller[XWC]._data).runtime
                                 ELSE runtime[p]
                /\ mkh_channel_value'[p] = IF p \in Bound(table)
                                           THEN Swept(table[p], runtime[p], controller[XWC]._data).byte
                                           ELSE mkh_channel_value[p]
         /\ DOMAIN runtime' = Ports /\ DOMAIN mkh_channel_value' = Ports
         /\ runtime' = [p \in Ports |-> runtime'[p]]
         /\ mkh_channel_value' = [p \in Ports |-> mkh_channel_value'[p]]
  <1>1. SeatsType /\ OutputsType
    BY TypeParts
  <1>2. XWC \in Seats
    BY <1>1, FirstSeat DEF SeatsType, Sweeps, XWC
  <1>3. controller[XWC]._data \in Reports
    BY <1>1, <1>2 DEF SeatsType
  <1>4. \A p \in Bound(table) : p \in Ports /\ Bindings(table[p])
    BY <1>1, TableFacts DEF OutputsType, Bound
  <1> DEFINE swept == [p \in Bound(table) |->
                          Swept(table[p], runtime[p], controller[XWC]._data)]
  <1>5. /\ mkh_channel_value' = [p \in Ports |->
               IF p \in Bound(table) THEN swept[p].byte ELSE mkh_channel_value[p]]
        /\ runtime' = [p \in Ports |->
               IF p \in Bound(table) THEN swept[p].runtime ELSE runtime[p]]
    BY Zenon DEF Sweep
  <1>6. \A p \in Bound(table) :
            swept[p] = Swept(table[p], runtime[p], controller[XWC]._data)
    OBVIOUS
  <1> HIDE DEF swept
  <1>7. UNCHANGED <<seats, clock, table>>
    BY DEF Sweep
  <1> QED
    BY <1>2, <1>3, <1>4, <1>5, <1>6, <1>7, Zenon

LEMMA SweepType ==
  ASSUME TypeOK, Sweep
  PROVE  TypeOK'
  <1>1. SeatsType /\ ClockType /\ OutputsType
    BY TypeParts
  <1>2. SeatsType' /\ ClockType'
    BY <1>1 DEF Sweep, seats, clock, SeatsType, ClockType
  <1>3. OutputsType'
    <2>1. CASE ~Sweeps
      BY <1>1, <2>1 DEF Sweep, OutputsType
    <2>2. CASE Sweeps
      <3>1. ASSUME NEW p \in Ports
            PROVE  runtime'[p] \in [Slots -> RuntimeType] /\ mkh_channel_value'[p] \in 0 .. Full
        <4>1. runtime[p] \in [Slots -> RuntimeType] /\ mkh_channel_value[p] \in 0 .. Full
          BY <1>1 DEF OutputsType
        <4>2. frame \in Frames /\ heading \in Headings
          BY <1>1 DEF ClockType
        <4>3. CASE p \in Bound(table)
          BY <2>2, <4>1, <4>2, <4>3, SweepPorts, SweptType
        <4>4. CASE p \notin Bound(table)
          BY <2>2, <4>1, <4>4, SweepPorts
        <4> QED
          BY <4>3, <4>4
      <3>2. runtime' \in [Ports -> [Slots -> RuntimeType]] /\ mkh_channel_value' \in [Ports -> 0 .. Full]
        BY <2>2, <3>1, SweepPorts
      <3>3. orphans' \subseteq Ports /\ fresh' \subseteq Ports
        BY <1>1, <2>2 DEF Sweep, OutputsType
      <3>4. table' \in Tables
        BY <1>1 DEF Sweep, OutputsType
      <3> QED
        BY <3>2, <3>3, <3>4 DEF OutputsType
    <2> QED
      BY <2>1, <2>2
  <1> QED
    BY <1>2, <1>3, TypeParts

LEMMA EndOfLoopType ==
  ASSUME TypeOK, EndOfLoop
  PROVE  SeatsType' /\ ClockType'
  <1>1. SeatsType /\ ClockType
    BY TypeParts
  <1>2. frame' \in Frames
    <2>1. PICK step \in 1 .. MaxStep : frame' = (frame + step) % (LastFrame + 1)
      BY DEF EndOfLoop
    <2>2. LastFrame \in Nat /\ MaxStep \in Nat
      BY FramesAssumption
    <2>3. frame + step \in Nat
      BY <1>1, <2>2 DEF ClockType, Frames
    <2>4. ASSUME NEW n \in Nat, NEW m \in Nat PROVE n % (m + 1) \in 0 .. m
      OBVIOUS
    <2>5. frame' \in 0 .. LastFrame
      BY <2>1, <2>2, <2>3, <2>4
    <2> QED
      BY <2>5 DEF Frames
  <1>3. heading' \in Headings
    BY <1>1 DEF EndOfLoop, ClockType
  <1> QED
    BY <1>1, <1>2, <1>3 DEF EndOfLoop, seats, SeatsType, ClockType

LEMMA TouchType ==
  ASSUME TypeOK, Touch
  PROVE  TypeOK'
  <1>1. SeatsType /\ ClockType /\ OutputsType
    BY TypeParts
  <1>2. EndOfLoop
    BY DEF Touch, NoTouch, pushPendingSessionToLiveTable, ResetAll, mkh_storage_reload_config,
           ToggleOff, ToggleOn
  <1>3. SeatsType' /\ ClockType'
    BY <1>2, EndOfLoopType
  <1>4. ASSUME NEW t \in Tables, Rebind(t)
        PROVE  table' \in Tables /\ mkh_channel_value' \in [Ports -> 0 .. Full] /\ orphans' \subseteq Ports
    BY <1>1, <1>4 DEF Rebind, Bound, OutputsType
  <1>5. ASSUME NoTouch PROVE OutputsType'
    BY <1>1, <1>5 DEF NoTouch, outputs, OutputsType
  <1>6. ASSUME pushPendingSessionToLiveTable PROVE OutputsType'
    <2>1. PICK dirty \in SUBSET Ports, t \in Tables : Rebind(t) /\ ClearLatchState(dirty)
      BY <1>6 DEF pushPendingSessionToLiveTable
    <2> QED
      BY <1>1, <1>4, <2>1, ClearType DEF OutputsType
  <1>7. ASSUME ResetAll PROVE OutputsType'
    BY <1>1, <1>4, <1>7, StoredAssumption, ClearType DEF ResetAll, OutputsType
  <1>8. ASSUME mkh_storage_reload_config PROVE OutputsType'
    <2>1. PICK t \in Tables : Rebind(t) /\ fresh' = fresh \cup {p \in Ports : t[p] # table[p]}
      BY <1>8, StoredAssumption DEF mkh_storage_reload_config
    <2>2. UNCHANGED runtime
      BY <1>8 DEF mkh_storage_reload_config
    <2> QED
      BY <1>1, <1>4, <2>1, <2>2 DEF OutputsType
  <1>9. ASSUME NEW d \in Devices, ToggleOff(d)
        PROVE  OutputsType'
    <2>1. mkh_channel_value' \in [Ports -> 0 .. Full] /\ orphans' \subseteq Ports
      BY <1>1, <1>9, NeutralizeType DEF ToggleOff, OutputsType
    <2>2. {d} \X Channels \in SUBSET Ports
      BY DEF Ports
    <2>3. runtime' \in [Ports -> [Slots -> RuntimeType]] /\ fresh' \subseteq Ports
      BY <1>1, <1>9, <2>2, ClearType DEF ToggleOff
    <2> QED
      BY <1>1, <1>9, <2>1, <2>3 DEF ToggleOff, OutputsType
  <1>10. ASSUME NEW d \in Devices, ToggleOn(d)
         PROVE  OutputsType'
    <2>1. mkh_channel_value' \in [Ports -> 0 .. Full] /\ orphans' \subseteq Ports
      BY <1>1, <1>10, NeutralizeType DEF ToggleOn
    <2> QED
      BY <1>1, <1>10, <2>1 DEF ToggleOn, OutputsType
  <1>11. OutputsType'
    BY <1>5, <1>6, <1>7, <1>8, <1>9, <1>10 DEF Touch
  <1> QED
    BY <1>3, <1>11, TypeParts

LEMMA NextType == TypeOK /\ [Next]_vars => TypeOK'
  <1> SUFFICES ASSUME TypeOK, [Next]_vars PROVE TypeOK'
    OBVIOUS
  <1>1. CASE UNCHANGED vars
    <2>1. SeatsType /\ ClockType /\ OutputsType
      BY TypeParts
    <2>2. SeatsType' /\ ClockType' /\ OutputsType'
      BY <1>1, <2>1 DEF vars, seats, clock, outputs, SeatsType, ClockType, OutputsType
    <2> QED
      BY <2>2, TypeParts
  <1> QED
    BY <1>1, BluetoothType, UpdateType, CallbacksType, ProcessType, SweepType, TouchType
    DEF Next, Loop

\* Every reading becomes a byte on every port, whatever the tunables, the bindings and
\* their number, and every state of a binding stays within its fields.
THEOREM DriveTypeCorrect == Spec => []TypeOK
  BY InitType, NextType, PTL DEF Spec

-----------------------------------------------------------------------------
\* What a sweep does to one binding

\* The three ways a sweep of a port ends: no lock, a lock that gives way, a lock that holds.
LEMMA SweptCases ==
  ASSUME NEW list, Bindings(list), NEW rt, NEW data
  PROVE  LET next == SweptState(list, rt, data)
             raw == [b \in DOMAIN list |-> RawByte(list[b], next[b], data)]
             lock == Min(Engaged(list, next))
         IN  \/ /\ Engaged(list, next) = {}
                /\ Swept(list, rt, data) = [runtime |-> next, byte |-> PortByte(list, raw, DOMAIN list)]
             \/ /\ lock \in Engaged(list, next)
                /\ Overrides(list, raw, lock) # {}
                /\ Swept(list, rt, data) =
                      [runtime |-> [next EXCEPT ![lock].thlEngaged = FALSE, ![lock].thlReferenceDeg = 0],
                       byte |-> PortByte(list, raw, DOMAIN list \ {lock})]
             \/ /\ lock \in Engaged(list, next)
                /\ Overrides(list, raw, lock) = {}
                /\ Swept(list, rt, data) = [runtime |-> next, byte |-> PortByte(list, raw, {lock})]
  <1> DEFINE next == SweptState(list, rt, data)
             raw == [b \in DOMAIN list |-> RawByte(list[b], next[b], data)]
             lock == Min(Engaged(list, next))
  <1>1. Swept(list, rt, data) =
          IF Engaged(list, next) = {}
          THEN [runtime |-> next, byte |-> PortByte(list, raw, DOMAIN list)]
          ELSE IF Overrides(list, raw, lock) # {}
          THEN [runtime |-> [next EXCEPT ![lock].thlEngaged = FALSE, ![lock].thlReferenceDeg = 0],
                byte |-> PortByte(list, raw, DOMAIN list \ {lock})]
          ELSE [runtime |-> next, byte |-> PortByte(list, raw, {lock})]
    BY Zenon DEF Swept
  <1>2. Engaged(list, next) # {} => lock \in Engaged(list, next)
    <2> HIDE DEF next
    <2> QED
      BY FirstLock
  <1> QED
    BY <1>1, <1>2, Zenon

\* Whatever the lock of a port does, every binding's state advances; only the lock that
\* gives way is released on top of that.
LEMMA SweptSlot ==
  ASSUME NEW list, Bindings(list), NEW data \in Reports, NEW rt \in [Slots -> RuntimeType],
         frame \in Frames, heading \in Headings, NEW slot \in Slots
  PROVE  LET r == Swept(list, rt, data).runtime[slot]
             a == SweptState(list, rt, data)[slot]
         IN  /\ a = IF slot \in DOMAIN list THEN Advance(list[slot], rt[slot], data) ELSE rt[slot]
             /\ r.latchPrevPressed = a.latchPrevPressed
             /\ r.pulsePrevPressed = a.pulsePrevPressed
             /\ r.thlPrevPressed = a.thlPrevPressed
             /\ r.latchState = a.latchState
             /\ r.pulseArmed = a.pulseArmed /\ r.pulseActive = a.pulseActive
             /\ r.pulseFrame = a.pulseFrame
             /\ r.thlEngaged => r = a
  <1> DEFINE next == SweptState(list, rt, data)
             raw == [b \in DOMAIN list |-> RawByte(list[b], next[b], data)]
             lock == Min(Engaged(list, next))
             a == next[slot]
             released == [next EXCEPT ![lock].thlEngaged = FALSE, ![lock].thlReferenceDeg = 0]
  <1>1. next \in [Slots -> RuntimeType]
    BY SweptStateType
  <1>2. a = IF slot \in DOMAIN list THEN Advance(list[slot], rt[slot], data) ELSE rt[slot]
    BY Zenon DEF SweptState
  <1>3. Swept(list, rt, data).runtime \in {next, released}
    <2>1. \/ Swept(list, rt, data) = [runtime |-> next, byte |-> PortByte(list, raw, DOMAIN list)]
          \/ Swept(list, rt, data) =
                [runtime |-> released, byte |-> PortByte(list, raw, DOMAIN list \ {lock})]
          \/ Swept(list, rt, data) = [runtime |-> next, byte |-> PortByte(list, raw, {lock})]
      BY SweptCases, Zenon
    <2> HIDE DEF next, raw, lock, released
    <2> QED
      BY <2>1
  <1> HIDE DEF next, raw, lock
  <1>4. a \in RuntimeType
    BY <1>1
  <1>5. released[slot] = IF slot = lock THEN [a EXCEPT !.thlEngaged = FALSE, !.thlReferenceDeg = 0]
                                        ELSE a
    BY <1>1
  <1> HIDE DEF released, a
  <1> DEFINE r == Swept(list, rt, data).runtime[slot]
  <1>6. r = a \/ r = [a EXCEPT !.thlEngaged = FALSE, !.thlReferenceDeg = 0]
    BY <1>3, <1>5 DEF a
  <1> HIDE DEF r
  <1>7. /\ r.latchPrevPressed = a.latchPrevPressed
        /\ r.pulsePrevPressed = a.pulsePrevPressed
        /\ r.thlPrevPressed = a.thlPrevPressed
        /\ r.latchState = a.latchState
        /\ r.pulseArmed = a.pulseArmed /\ r.pulseActive = a.pulseActive
        /\ r.pulseFrame = a.pulseFrame
        /\ r.thlEngaged => r = a
    BY <1>4, <1>6 DEF RuntimeType
  <1> QED
    BY <1>2, <1>7 DEF a, r, next

\* What a sweep knows of the reading afterwards, by the branch a binding takes.
LEMMA AdvanceFacts ==
  ASSUME NEW b, NEW r \in RuntimeType, NEW data
  PROVE  LET a == Advance(b, r, data)
             pressed == IsPressed(b, data)
         IN  /\ Drives(b) = "latched" => a = Latch(r, pressed) /\ a.latchPrevPressed = pressed
             /\ Drives(b) = "pulse" => a = Pulse(r, pressed) /\ a.pulsePrevPressed = pressed
             /\ Drives(b) = "thl" => a = Lock(r, pressed) /\ a.thlPrevPressed = pressed
             /\ Drives(b) # "pulse" =>
                    /\ a.pulseArmed = r.pulseArmed /\ a.pulseActive = r.pulseActive
                    /\ a.pulseFrame = r.pulseFrame
             /\ Drives(b) # "thl" =>
                    a.thlEngaged = r.thlEngaged /\ a.thlReferenceDeg = r.thlReferenceDeg
  <1> DEFINE pressed == IsPressed(b, data)
  <1>1. Drives(b) = "latched" => Advance(b, r, data) = Latch(r, pressed)
    BY DEF Advance
  <1>2. Drives(b) = "pulse" => Advance(b, r, data) = Pulse(r, pressed)
    BY DEF Advance
  <1>3. Drives(b) = "thl" => Advance(b, r, data) = Lock(r, pressed)
    BY DEF Advance
  <1>4. Drives(b) \notin {"latched", "pulse", "thl"} => Advance(b, r, data) = r
    BY DEF Advance
  <1> HIDE DEF pressed
  <1>5. /\ Latch(r, pressed).latchPrevPressed = pressed
        /\ Latch(r, pressed).pulseArmed = r.pulseArmed
        /\ Latch(r, pressed).pulseActive = r.pulseActive
        /\ Latch(r, pressed).pulseFrame = r.pulseFrame
        /\ Latch(r, pressed).thlEngaged = r.thlEngaged
        /\ Latch(r, pressed).thlReferenceDeg = r.thlReferenceDeg
    BY DEF Latch, RuntimeType
  <1>6. /\ Pulse(r, pressed).pulsePrevPressed = pressed
        /\ Pulse(r, pressed).thlEngaged = r.thlEngaged
        /\ Pulse(r, pressed).thlReferenceDeg = r.thlReferenceDeg
    BY DEF Pulse, RuntimeType
  <1>7. /\ Lock(r, pressed).thlPrevPressed = pressed
        /\ Lock(r, pressed).pulseArmed = r.pulseArmed
        /\ Lock(r, pressed).pulseActive = r.pulseActive
        /\ Lock(r, pressed).pulseFrame = r.pulseFrame
    BY DEF Lock, RuntimeType
  <1> QED
    BY <1>1, <1>2, <1>3, <1>4, <1>5, <1>6, <1>7 DEF pressed

\* A port's state is swept, cleared or left alone.
LEMMA RuntimeSteps ==
  ASSUME TypeOK, [Next]_vars, NEW p \in Ports
  PROVE  \/ runtime'[p] = AllCleared
         \/ runtime'[p] = runtime[p]
         \/ Sweep /\ Sweeps /\ p \in Bound(table)
  <1>0. OutputsType
    BY TypeParts
  <1>1. CASE UNCHANGED runtime
    BY <1>1
  <1>2. ASSUME NEW ports, ClearLatchState(ports)
        PROVE  runtime'[p] = AllCleared \/ runtime'[p] = runtime[p]
    BY <1>2 DEF ClearLatchState
  <1>3. CASE Sweep
    <2>1. CASE Sweeps
      BY <1>3, <2>1, SweepPorts
    <2>2. CASE ~Sweeps
      BY <1>3, <2>2 DEF Sweep
    <2> QED
      BY <2>1, <2>2
  <1>4. CASE Touch
    BY <1>1, <1>2, <1>4 DEF Touch, NoTouch, outputs, pushPendingSessionToLiveTable, ResetAll,
                            mkh_storage_reload_config, ToggleOff, ToggleOn
  <1>5. CASE Callbacks
    BY <1>1, <1>2, <1>5 DEF Callbacks, onConnectedController, onDisconnectedController,
                            Failsafe, outputs
  <1>6. CASE UNCHANGED vars \/ Bluetooth \/ Update \/ processControllers
    BY <1>1, <1>6 DEF vars, outputs, Bluetooth, DeviceReady, ControllerData, DeviceDisconnected,
                      Update, processControllers
  <1> QED
    BY <1>3, <1>4, <1>5, <1>6 DEF Next, Loop

\* One sweep of a burst: it starts, goes on with its first frame, or ends when its time is up.
LEMMA PulseFacts ==
  ASSUME NEW r \in RuntimeType, NEW pressed, frame \in Frames,
         ~(r.pulseArmed /\ r.pulseActive)
  PROVE  LET a == Pulse(r, pressed)
         IN  /\ ~(a.pulseArmed /\ a.pulseActive)
             /\ a.pulseActive => frame < a.pulseFrame + MKH_PULSE_FRAMES
             /\ r.pulseActive =>
                    \/ ~a.pulseActive /\ frame >= r.pulseFrame + MKH_PULSE_FRAMES
                    \/ a.pulseActive /\ a.pulseFrame = r.pulseFrame
  <1> DEFINE arms == pressed /\ ~r.pulsePrevPressed /\ ~r.pulseArmed /\ ~r.pulseActive
             starts == r.pulseArmed /\ frame # r.pulseFrame
             since == IF arms \/ starts THEN frame ELSE r.pulseFrame
             armed == (r.pulseArmed \/ arms) /\ ~starts
             active == (r.pulseActive \/ starts) /\ frame < since + MKH_PULSE_FRAMES
             first == IF armed \/ active THEN since ELSE 0
             a == Pulse(r, pressed)
  <1>1. a = [r EXCEPT !.pulsePrevPressed = pressed, !.pulseArmed = armed,
                      !.pulseActive = active, !.pulseFrame = first]
    BY Zenon DEF Pulse
  <1> HIDE DEF a, armed, active, first
  <1>2. a.pulseArmed = armed /\ a.pulseActive = active /\ a.pulseFrame = first
    BY <1>1 DEF RuntimeType
  <1>3. ~(armed /\ active)
    BY DEF armed, active
  <1>4. active => first = since /\ frame < since + MKH_PULSE_FRAMES
    BY DEF active, first
  <1>5. r.pulseActive => ~starts /\ ~arms /\ since = r.pulseFrame
    OBVIOUS
  <1>6. r.pulseActive =>
            active \/ frame >= r.pulseFrame + MKH_PULSE_FRAMES
    <2>1. frame \in Int /\ r.pulseFrame \in Int /\ MKH_PULSE_FRAMES \in Int
      BY FramesAssumption DEF RuntimeType, Frames
    <2>2. r.pulseActive => (active <=> frame < r.pulseFrame + MKH_PULSE_FRAMES)
      BY <1>5 DEF active
    <2> HIDE DEF arms, starts, since
    <2> QED
      BY <2>1, <2>2
  <1> HIDE DEF arms, starts, since
  <1>7. r.pulseActive =>
            \/ ~active /\ frame >= r.pulseFrame + MKH_PULSE_FRAMES
            \/ active /\ first = r.pulseFrame
    BY <1>4, <1>5, <1>6
  <1> QED
    BY <1>2, <1>3, <1>4, <1>7 DEF a

\* A burst is armed or under way, not both: what a tap during a burst would undo.
ArmedOnce == \A p \in Ports : \A b \in Slots : ~(runtime[p][b].pulseArmed /\ runtime[p][b].pulseActive)

\* What a sweep makes of the burst of any binding, whatever its mode is by now.
LEMMA SweptPulse ==
  ASSUME TypeOK, ArmedOnce, Sweep, Sweeps, NEW p \in Bound(table), NEW b \in Slots
  PROVE  LET r == runtime[p][b]
             s == runtime'[p][b]
         IN  /\ ~(s.pulseArmed /\ s.pulseActive)
             /\ r.pulseActive =>
                    \/ ~s.pulseActive /\ frame >= r.pulseFrame + MKH_PULSE_FRAMES
                    \/ s.pulseActive /\ s.pulseFrame = r.pulseFrame
             /\ b \in DOMAIN table[p] /\ Drives(table[p][b]) = "pulse" /\ s.pulseActive =>
                    frame < s.pulseFrame + MKH_PULSE_FRAMES
  <1> DEFINE data == controller[XWC]._data
             list == table[p]
             r == runtime[p][b]
             s == runtime'[p][b]
             a == SweptState(list, runtime[p], data)[b]
  <1>1. ClockType /\ OutputsType
    BY TypeParts
  <1>2. p \in Ports /\ Bindings(list) /\ data \in Reports
    BY SweepPorts
  <1>3. runtime[p] \in [Slots -> RuntimeType] /\ r \in RuntimeType
    BY <1>1, <1>2 DEF OutputsType
  <1>4. runtime'[p] = Swept(list, runtime[p], data).runtime
    BY <1>2, SweepPorts
  <1>5. frame \in Frames /\ heading \in Headings
    BY <1>1 DEF ClockType
  <1> HIDE DEF data
  <1>6. /\ a = IF b \in DOMAIN list THEN Advance(list[b], r, data) ELSE r
        /\ s.pulseArmed = a.pulseArmed /\ s.pulseActive = a.pulseActive
        /\ s.pulseFrame = a.pulseFrame
    BY <1>2, <1>3, <1>4, <1>5, SweptSlot
  <1>7. ~(r.pulseArmed /\ r.pulseActive)
    BY <1>2 DEF ArmedOnce
  <1> HIDE DEF a, s, r, list
  <1>8. CASE b \in DOMAIN list /\ Drives(list[b]) = "pulse"
    <2>1. a = Pulse(r, IsPressed(list[b], data))
      BY <1>3, <1>6, <1>8, AdvanceFacts, SMTT(20)
    <2> QED
      BY <1>3, <1>5, <1>6, <1>7, <2>1, PulseFacts DEF s, r, list
  <1>9. CASE ~(b \in DOMAIN list /\ Drives(list[b]) = "pulse")
    <2>1. a.pulseArmed = r.pulseArmed /\ a.pulseActive = r.pulseActive /\ a.pulseFrame = r.pulseFrame
      BY <1>3, <1>6, <1>9, AdvanceFacts
    <2> QED
      BY <1>6, <1>7, <1>9, <2>1 DEF s, r, list
  <1> QED
    BY <1>8, <1>9

LEMMA ArmedOnceStep ==
  ASSUME TypeOK, ArmedOnce, [Next]_vars
  PROVE  ArmedOnce'
  <1>1. ASSUME NEW p \in Ports, NEW b \in Slots
        PROVE  ~(runtime'[p][b].pulseArmed /\ runtime'[p][b].pulseActive)
    <2>1. CASE runtime'[p] = AllCleared
      BY <2>1 DEF AllCleared, Cleared
    <2>2. CASE runtime'[p] = runtime[p]
      BY <2>2 DEF ArmedOnce
    <2>3. CASE Sweep /\ Sweeps /\ p \in Bound(table)
      BY <2>3, SweptPulse
    <2> QED
      BY <2>1, <2>2, <2>3, RuntimeSteps
  <1> QED
    BY <1>1 DEF ArmedOnce

\* After a sweep and before the touch that ends the pass, only the BTstack task runs.
LEMMA TouchSteps ==
  ASSUME [Next]_vars, at' = "touch"
  PROVE  \/ Sweep
         \/ at = "touch" /\ UNCHANGED <<controller, myControllers, clock, outputs>>
  <1>1. CASE UNCHANGED vars \/ Bluetooth
    BY <1>1 DEF vars, seats, Bluetooth, DeviceReady, ControllerData, DeviceDisconnected
  <1>2. CASE Update \/ processControllers
    BY <1>2 DEF Update, processControllers
  <1>3. CASE Callbacks
    BY <1>3 DEF Callbacks, onConnectedController, onDisconnectedController, NextChanged
  <1>4. CASE Touch
    BY <1>4 DEF Touch, NoTouch, pushPendingSessionToLiveTable, ResetAll,
                mkh_storage_reload_config, ToggleOff, ToggleOn, EndOfLoop
  <1>5. Sweep \/ Touch \/ Callbacks \/ Update \/ processControllers \/ Bluetooth \/ UNCHANGED vars
    BY Zenon DEF Next, Loop
  <1> QED
    BY <1>1, <1>2, <1>3, <1>4, <1>5, Zenon

\* A sweep without a controller leaves none behind either, and reads the same seats.
LEMMA SweepKeeps ==
  ASSUME Sweep
  PROVE  /\ UNCHANGED <<table, controller, myControllers, frame, heading>> /\ XWC' = XWC
         /\ XWC' # nullptr => Sweeps
  BY DEF Sweep, Sweeps, XWC, seats, clock

LEMMA PulseEndsStep ==
  ASSUME TypeOK, ArmedOnce, PulseEndsOnTime, [Next]_vars
  PROVE  PulseEndsOnTime'
  <1> SUFFICES ASSUME at' = "touch", XWC' # nullptr, NEW p \in Ports, NEW b \in DOMAIN table'[p],
                      Drives(table'[p][b]) = "pulse", runtime'[p][b].pulseActive
               PROVE  frame' < runtime'[p][b].pulseFrame + MKH_PULSE_FRAMES
    BY DEF PulseEndsOnTime, Drives
  <1>1. CASE Sweep
    <2>1. UNCHANGED <<table, frame>> /\ Sweeps
      BY <1>1, SweepKeeps
    <2>2. OutputsType /\ b \in Slots /\ p \in Bound(table)
      <3>1. OutputsType
        BY TypeParts
      <3>2. Bindings(table[p])
        BY <3>1, TableFacts DEF OutputsType
      <3>3. b \in DOMAIN table[p]
        BY <2>1
      <3> QED
        BY <3>1, <3>2, <3>3 DEF Bindings, Bound
    <2> QED
      BY <1>1, <2>1, <2>2, SweptPulse
  <1>2. CASE at = "touch" /\ UNCHANGED <<controller, myControllers, clock, outputs>>
    BY <1>2 DEF PulseEndsOnTime, XWC, clock, outputs
  <1> QED
    BY <1>1, <1>2, TouchSteps

LEMMA PulseInit == Init => ArmedOnce /\ PulseEndsOnTime
  BY DEF Init, ArmedOnce, PulseEndsOnTime, AllCleared, Cleared

\* A burst ends in the first sweep after its time is up: the sweep that does it needs no
\* report of the controller, and no lock that holds the port keeps it from ending.
THEOREM DrivePulseEndsOnTime == Spec => []PulseEndsOnTime
  <1>1. TypeOK /\ ArmedOnce /\ PulseEndsOnTime /\ [Next]_vars
            => (TypeOK /\ ArmedOnce /\ PulseEndsOnTime)'
    BY NextType, ArmedOnceStep, PulseEndsStep
  <1> QED
    BY InitType, PulseInit, <1>1, PTL DEF Spec

LEMMA PulseIsWholeStep ==
  ASSUME TypeOK, ArmedOnce, [Next]_vars, NEW p \in Ports, NEW b \in Slots,
         runtime[p][b].pulseActive
  PROVE  \/ runtime'[p] = AllCleared
         \/ ~runtime'[p][b].pulseActive /\ frame >= runtime[p][b].pulseFrame + MKH_PULSE_FRAMES
         \/ /\ runtime'[p][b].pulseActive
            /\ runtime'[p][b].pulseFrame = runtime[p][b].pulseFrame
  BY RuntimeSteps, SweptPulse

\* A burst that is under way keeps its first frame until its time is up or its port is
\* cleared: no tap, lock, change of mode or other step cuts it short or starts it over.
THEOREM DrivePulseIsWhole == Spec => PulseIsWhole
  <1>1. TypeOK /\ ArmedOnce /\ [Next]_vars => (TypeOK /\ ArmedOnce)'
    BY NextType, ArmedOnceStep
  <1>2. Init => TypeOK /\ ArmedOnce
    BY InitType, PulseInit
  <1>3. TypeOK /\ ArmedOnce /\ [Next]_vars =>
          [\A p \in Ports : \A b \in Slots :
              runtime[p][b].pulseActive =>
                  \/ runtime'[p] = AllCleared
                  \/ ~runtime'[p][b].pulseActive /\ frame >= runtime[p][b].pulseFrame + MKH_PULSE_FRAMES
                  \/ /\ runtime'[p][b].pulseActive
                     /\ runtime'[p][b].pulseFrame = runtime[p][b].pulseFrame]_vars
    BY PulseIsWholeStep
  <1> QED
    BY <1>1, <1>2, <1>3, PTL DEF Spec, PulseIsWhole

-----------------------------------------------------------------------------
\* The edge detectors

\* A binding's detector holds the reading that was swept last.
Holds(b, r, data) ==
    CASE Drives(b) = "latched" -> r.latchPrevPressed = IsPressed(b, data)
      [] Drives(b) = "pulse" -> r.pulsePrevPressed = IsPressed(b, data)
      [] Drives(b) = "thl" -> r.thlPrevPressed = IsPressed(b, data)
      [] OTHER -> TRUE

\* DetectorsAreCurrent from the sweep on: what the touch changes is remembered as fresh.
DetectorsInv ==
    at \in {"touch", "update"} /\ XWC # nullptr => \A p \in Bound(table) \ fresh :
        \A b \in DOMAIN table[p] : Holds(table[p][b], runtime[p][b], controller[XWC]._data)

LEMMA TouchPorts ==
  ASSUME TypeOK, Touch, NEW p \in Ports, p \notin fresh'
  PROVE  p \notin fresh /\ table'[p] = table[p] /\ runtime'[p] = runtime[p]
  <1>1. OutputsType
    BY TypeParts
  <1>2. ASSUME NEW ports, ClearLatchState(ports)
        PROVE  p \notin ports /\ p \notin fresh /\ runtime'[p] = runtime[p]
    BY <1>2 DEF ClearLatchState
  <1>3. CASE NoTouch
    BY <1>3 DEF NoTouch, outputs
  <1>4. CASE pushPendingSessionToLiveTable
    <2>1. PICK dirty \in SUBSET Ports, t \in Tables :
              (\A q \in Ports \ dirty : t[q] = table[q]) /\ Rebind(t) /\ ClearLatchState(dirty)
      BY <1>4 DEF pushPendingSessionToLiveTable
    <2> QED
      BY <1>2, <2>1 DEF Rebind
  <1>5. CASE ResetAll
    BY <1>2, <1>5 DEF ResetAll
  <1>6. CASE mkh_storage_reload_config
    <2>1. PICK t \in Stored : Rebind(t) /\ fresh' = fresh \cup {q \in Ports : t[q] # table[q]}
      BY <1>6 DEF mkh_storage_reload_config
    <2> QED
      BY <1>6, <2>1 DEF Rebind, mkh_storage_reload_config
  <1>7. CASE \E d \in Devices : ToggleOff(d)
    BY <1>2, <1>7 DEF ToggleOff
  <1>8. CASE \E d \in Devices : ToggleOn(d)
    BY <1>8 DEF ToggleOn
  <1> QED
    BY <1>3, <1>4, <1>5, <1>6, <1>7, <1>8 DEF Touch

LEMMA DetectorsStep ==
  ASSUME TypeOK, DetectorsInv, [Next]_vars
  PROVE  DetectorsInv'
  <1>0. OutputsType /\ ClockType
    BY TypeParts
  <1>1. CASE UNCHANGED vars \/ Bluetooth
    BY <1>1 DEF vars, seats, clock, outputs, Bluetooth, DeviceReady, ControllerData,
                DeviceDisconnected, DetectorsInv, XWC, Bound
  <1>2. CASE Update \/ processControllers
    BY <1>2 DEF Update, processControllers, DetectorsInv
  <1>3. CASE Callbacks
    BY <1>3 DEF Callbacks, onConnectedController, onDisconnectedController, NextChanged, DetectorsInv
  <1>4. CASE Sweep
    <2> SUFFICES ASSUME XWC' # nullptr, NEW p \in Bound(table)', NEW b \in DOMAIN table'[p]
                 PROVE  Holds(table'[p][b], runtime'[p][b], controller'[XWC']._data)
      BY Zenon DEF DetectorsInv, Holds
    <2>1. UNCHANGED <<table, controller>> /\ XWC' = XWC /\ Sweeps
      BY <1>4, SweepKeeps
    <2>2. p \in Bound(table) /\ b \in DOMAIN table[p]
      BY <2>1 DEF Bound
    <2> DEFINE list == table[p]
               data == controller[XWC]._data
    <2>3. p \in Ports /\ Bindings(list) /\ data \in Reports /\ b \in Slots
      BY <1>4, <2>1, <2>2, SweepPorts DEF Bindings
    <2>4. runtime[p] \in [Slots -> RuntimeType] /\ runtime[p][b] \in RuntimeType
          /\ frame \in Frames /\ heading \in Headings
      BY <1>0, <2>3 DEF OutputsType, ClockType
    <2>5. runtime'[p] = Swept(list, runtime[p], data).runtime
      BY <1>4, <2>1, <2>2, SweepPorts
    <2> HIDE DEF data
    <2> DEFINE a == Advance(list[b], runtime[p][b], data)
               s == runtime'[p][b]
    <2>6. /\ s.latchPrevPressed = a.latchPrevPressed
          /\ s.pulsePrevPressed = a.pulsePrevPressed
          /\ s.thlPrevPressed = a.thlPrevPressed
      BY <2>2, <2>3, <2>4, <2>5, SweptSlot
    <2>7. /\ Drives(list[b]) = "latched" => a.latchPrevPressed = IsPressed(list[b], data)
          /\ Drives(list[b]) = "pulse" => a.pulsePrevPressed = IsPressed(list[b], data)
          /\ Drives(list[b]) = "thl" => a.thlPrevPressed = IsPressed(list[b], data)
      BY <2>4, AdvanceFacts, ZenonT(40)
    <2> HIDE DEF a, s, list
    <2>8. Holds(list[b], s, data)
      BY <2>6, <2>7 DEF Holds
    <2> QED
      BY <2>1, <2>8 DEF s, list, data
  <1>5. CASE Touch
    <2>1. UNCHANGED <<controller, myControllers>> /\ at = "touch"
      BY <1>5 DEF Touch, NoTouch, pushPendingSessionToLiveTable, ResetAll,
                  mkh_storage_reload_config, ToggleOff, ToggleOn, EndOfLoop, seats
    <2>2. XWC' = XWC
      BY <2>1 DEF XWC
    <2> SUFFICES ASSUME XWC' # nullptr, NEW p \in Bound(table)' \ fresh', NEW b \in DOMAIN table'[p]
                 PROVE  Holds(table'[p][b], runtime'[p][b], controller'[XWC']._data)
      BY Zenon DEF DetectorsInv, Holds
    <2>3. p \in Ports /\ p \notin fresh /\ table'[p] = table[p] /\ runtime'[p] = runtime[p]
      BY <1>5, TouchPorts DEF Bound
    <2>4. p \in Bound(table) /\ b \in DOMAIN table[p]
      BY <2>3 DEF Bound
    <2>5. Holds(table[p][b], runtime[p][b], controller[XWC]._data)
      BY <2>1, <2>2, <2>3, <2>4 DEF DetectorsInv
    <2> QED
      BY <2>1, <2>2, <2>3, <2>5
  <1> QED
    BY <1>1, <1>2, <1>3, <1>4, <1>5 DEF Next, Loop

\* When the next reading arrives, the detectors of every port that was swept since its
\* bindings changed know the last one: a held button is not seen as a new press, whatever
\* lock held the port meanwhile.
THEOREM DriveDetectorsAreCurrent == Spec => []DetectorsAreCurrent
  <1>1. Init => DetectorsInv
    BY FirstSeat DEF Init, DetectorsInv, XWC
  <1>2. TypeOK /\ DetectorsInv /\ [Next]_vars => (TypeOK /\ DetectorsInv)'
    BY NextType, DetectorsStep
  <1>3. DetectorsInv => DetectorsAreCurrent
    BY Zenon DEF DetectorsInv, DetectorsAreCurrent, Holds
  <1> QED
    BY InitType, <1>1, <1>2, <1>3, PTL DEF Spec

-----------------------------------------------------------------------------
\* The heading lock

\* A port with one contributor carries that contribution: one byte's share needs no clamp.
LEMMA PortByteOfOne ==
  ASSUME NEW list, Bindings(list), NEW data \in Reports, NEW rt \in [Slots -> RuntimeType],
         heading \in Headings, NEW lock \in DOMAIN list
  PROVE  PortByte(list, [b \in DOMAIN list |-> RawByte(list[b], rt[b], data)], {lock})
             = Neutral + Contribution(list[lock], RawByte(list[lock], rt[lock], data))
  <1> DEFINE raw == [b \in DOMAIN list |-> RawByte(list[b], rt[b], data)]
             share == [b \in DOMAIN list |-> Contribution(list[b], raw[b])]
             own == Contribution(list[lock], RawByte(list[lock], rt[lock], data))
  <1>1. RawByte(list[lock], rt[lock], data) \in 0 .. Full
    BY RawByteType DEF Bindings
  <1>2. list[lock].invert \in BOOLEAN /\ list[lock].max_percent \in 0 .. 100
    BY DEF Bindings
  <1>3. own \in -128 .. 127
    BY <1>1, <1>2, ContributionFacts
  <1>4. share[lock] = own
    OBVIOUS
  <1> HIDE DEF own, share
  <1>5. SumFunctionOnSet(share, {lock}) = own
    BY <1>3, <1>4, SumOfOne
  <1>6. PortByte(list, raw, {lock}) = SumToByte(SumFunctionOnSet(share, {lock}))
    BY DEF PortByte, share
  <1>7. SumToByte(own) = Neutral + own
    BY <1>3 DEF SumToByte, AtLeast, AtMost, Neutral
  <1> QED
    BY <1>5, <1>6, <1>7 DEF own

\* A lock that a sweep leaves engaged was not deflected by a sibling, and has the port.
LEMMA SweptLock ==
  ASSUME NEW list, Bindings(list), NEW data \in Reports, NEW rt \in [Slots -> RuntimeType],
         frame \in Frames, heading \in Headings, OneLock(list),
         NEW swept, swept = Swept(list, rt, data).runtime, Engaged(list, swept) # {}
  PROVE  LET lock == Min(Engaged(list, swept))
         IN  /\ Swept(list, rt, data).byte
                    = Neutral + Contribution(list[lock], RawByte(list[lock], swept[lock], data))
             /\ \A b \in DOMAIN list \ {lock} : ~Deflects(RawByte(list[b], swept[b], data))
  <1> DEFINE next == SweptState(list, rt, data)
             raw == [b \in DOMAIN list |-> RawByte(list[b], next[b], data)]
             lock == Min(Engaged(list, next))
             released == [next EXCEPT ![lock].thlEngaged = FALSE, ![lock].thlReferenceDeg = 0]
  <1>1. next \in [Slots -> RuntimeType]
    BY SweptStateType
  <1>2. \/ /\ Engaged(list, next) = {}
           /\ Swept(list, rt, data) = [runtime |-> next, byte |-> PortByte(list, raw, DOMAIN list)]
        \/ /\ lock \in Engaged(list, next)
           /\ Swept(list, rt, data) =
                 [runtime |-> released, byte |-> PortByte(list, raw, DOMAIN list \ {lock})]
        \/ /\ lock \in Engaged(list, next)
           /\ Overrides(list, raw, lock) = {}
           /\ Swept(list, rt, data) = [runtime |-> next, byte |-> PortByte(list, raw, {lock})]
    BY SweptCases, Zenon
  <1>3. lock \in DOMAIN list => PortByte(list, raw, {lock}) = Neutral + Contribution(list[lock], raw[lock])
    BY <1>1, PortByteOfOne
  <1>4. \A b \in DOMAIN list : raw[b] = RawByte(list[b], next[b], data)
    OBVIOUS
  <1> HIDE DEF next, raw, lock
  <1>5. lock \in Engaged(list, next) => Engaged(list, released) = {}
    <2>1. Engaged(list, next) \subseteq DOMAIN list /\ DOMAIN list \subseteq Slots
      BY DEF Engaged, Bindings
    <2>2. ASSUME lock \in Engaged(list, next), NEW c \in Engaged(list, released) PROVE FALSE
      <3>1. c \in DOMAIN list /\ list[c].mode = "thl" /\ list[lock].mode = "thl"
            /\ lock \in DOMAIN list
        BY <2>2 DEF Engaged
      <3>2. c = lock
        BY <3>1 DEF OneLock
      <3>3. released[lock].thlEngaged
        BY <2>2, <3>2, Zenon DEF Engaged
      <3>4. lock \in Slots
        BY <2>1, <3>1
      <3>5. ~released[lock].thlEngaged
        <4>1. next[lock] \in RuntimeType
          BY <1>1, <3>4
        <4> QED
          BY <1>1, <3>4, <4>1 DEF RuntimeType
      <3> QED
        BY <3>3, <3>5
    <2> QED
      BY <2>2
  <1> HIDE DEF released
  <1>6. /\ lock \in Engaged(list, next) /\ Overrides(list, raw, lock) = {}
        /\ swept = next /\ Swept(list, rt, data).byte = PortByte(list, raw, {lock})
    BY <1>2, <1>5
  <1>7. lock = Min(Engaged(list, swept)) /\ lock \in DOMAIN list
    BY <1>6 DEF lock, Engaged
  <1>8. \A b \in DOMAIN list \ {lock} : ~Deflects(raw[b])
    BY <1>6 DEF Overrides
  <1> QED
    BY <1>3, <1>4, <1>6, <1>7, <1>8, Zenon

LEMMA LockExclusiveStep ==
  ASSUME TypeOK, LockIsExclusive, [Next]_vars
  PROVE  LockIsExclusive'
  <1>0. OutputsType /\ ClockType
    BY TypeParts
  <1> SUFFICES ASSUME at' = "touch", XWC' # nullptr
               PROVE  LockIsExclusive'
    BY DEF LockIsExclusive
  <1>1. CASE Sweep
    <2>1. UNCHANGED <<table, controller, heading>> /\ XWC' = XWC /\ Sweeps
      BY <1>1, SweepKeeps
    <2> SUFFICES ASSUME NEW p \in Ports, OneLock(table[p]), Engaged(table[p], runtime'[p]) # {}
                 PROVE  LET lock == Min(Engaged(table[p], runtime'[p]))
                            natural(b) == RawByte(table[p][b], runtime'[p][b], controller[XWC]._data)
                        IN  /\ mkh_channel_value'[p]
                                   = Neutral + Contribution(table[p][lock], natural(lock))
                            /\ \A b \in DOMAIN table[p] \ {lock} : ~Deflects(natural(b))
      BY <2>1, ZenonT(30) DEF LockIsExclusive, RawByte, OneLock
    <2>2. p \in Bound(table)
      BY DEF Bound, Engaged
    <2>3. Bindings(table[p]) /\ controller[XWC]._data \in Reports
      BY <1>1, <2>1, <2>2, SweepPorts
    <2>4. runtime[p] \in [Slots -> RuntimeType] /\ frame \in Frames /\ heading \in Headings
      BY <1>0 DEF OutputsType, ClockType
    <2>5. runtime'[p] = Swept(table[p], runtime[p], controller[XWC]._data).runtime
          /\ mkh_channel_value'[p] = Swept(table[p], runtime[p], controller[XWC]._data).byte
      BY <1>1, <2>1, <2>2, SweepPorts
    <2> DEFINE list == table[p]
               data == controller[XWC]._data
               rt == runtime[p]
               swept == runtime'[p]
    <2>6. /\ Bindings(list) /\ data \in Reports /\ rt \in [Slots -> RuntimeType]
          /\ OneLock(list) /\ swept = Swept(list, rt, data).runtime /\ Engaged(list, swept) # {}
      BY <2>3, <2>4, <2>5
    <2> HIDE DEF list, data, rt, swept
    <2>7. LET lock == Min(Engaged(list, swept))
          IN  /\ Swept(list, rt, data).byte
                     = Neutral + Contribution(list[lock], RawByte(list[lock], swept[lock], data))
              /\ \A b \in DOMAIN list \ {lock} : ~Deflects(RawByte(list[b], swept[b], data))
      BY <2>4, <2>6, SweptLock
    <2> QED
      BY <2>5, <2>7, Zenon DEF list, data, rt, swept
  <1>2. CASE at = "touch" /\ UNCHANGED <<controller, myControllers, clock, outputs>>
    BY <1>2, ZenonT(30) DEF LockIsExclusive, XWC, clock, outputs, RawByte, OneLock
  <1> QED
    BY <1>1, <1>2, TouchSteps

\* While a lock is engaged after a sweep the port carries its output and nothing else, and
\* no sibling is deflected far enough to take the port back.
THEOREM DriveLockIsExclusive == Spec => []LockIsExclusive
  <1>1. Init => LockIsExclusive
    BY DEF Init, LockIsExclusive
  <1>2. TypeOK /\ LockIsExclusive /\ [Next]_vars => (TypeOK /\ LockIsExclusive)'
    BY NextType, LockExclusiveStep
  <1> QED
    BY InitType, <1>1, <1>2, PTL DEF Spec

\* Which way a byte turns is the side of neutral it lies on.
LEMMA SameSide ==
  ASSUME NEW byte \in Int, NEW other \in Int, NEW reference, NEW now,
         TurnsShortWay(other, reference, now),
         byte > Neutral <=> other > Neutral, byte < Neutral <=> other < Neutral
  PROVE  TurnsShortWay(byte, reference, now)
  <1>1. byte = Neutral <=> other = Neutral
    BY DEF Neutral
  <1> HIDE DEF Neutral
  <1> QED
    BY <1>1 DEF TurnsShortWay

\* What drives a port alone turns it the way the control law wants.
LEMMA ExclusiveTurns == TypeOK /\ LockIsExclusive => LockTurnsShortWay
  <1> SUFFICES ASSUME TypeOK, LockIsExclusive, at = "touch", XWC # nullptr, NEW p \in Ports,
                      OneLock(table[p]), Engaged(table[p], runtime[p]) # {},
                      Drives(table[p][Min(Engaged(table[p], runtime[p]))]) = "thl"
               PROVE  LET lock == Min(Engaged(table[p], runtime[p]))
                          binding == table[p][lock]
                          byte == IF binding.invert THEN 2 * Neutral - mkh_channel_value[p]
                                                    ELSE mkh_channel_value[p]
                      IN  TurnsShortWay(byte, runtime[p][lock].thlReferenceDeg, heading)
    BY Zenon DEF LockTurnsShortWay
  <1> DEFINE lock == Min(Engaged(table[p], runtime[p]))
             binding == table[p][lock]
             r == runtime[p][lock]
             raw == RawByte(binding, r, controller[XWC]._data)
             byte == IF binding.invert THEN 2 * Neutral - mkh_channel_value[p]
                                       ELSE mkh_channel_value[p]
  <1>1. OutputsType /\ ClockType
    BY TypeParts
  <1>2. Bindings(table[p])
    BY <1>1, TableFacts DEF OutputsType
  <1>3. lock \in DOMAIN table[p] /\ lock \in Slots /\ r.thlEngaged /\ binding.mode = "thl"
    <2>1. lock \in Engaged(table[p], runtime[p])
      BY <1>2, FirstLock
    <2> HIDE DEF lock
    <2> QED
      BY <1>2, <2>1 DEF Engaged, Bindings
  <1>4. r \in RuntimeType /\ heading \in Headings
    BY <1>1, <1>3 DEF OutputsType, ClockType
  <1>5. mkh_channel_value[p] = Neutral + Contribution(binding, raw)
    BY Zenon DEF LockIsExclusive
  <1>6. raw = LockByte(r.thlReferenceDeg, heading)
    <2> HIDE DEF lock, binding, r
    <2>1. Drives(binding) = "thl"
      BY DEF binding, lock
    <2> QED
      BY <1>3, <2>1 DEF RawByte
  <1>7. r.thlReferenceDeg \in Int /\ heading \in Int
    <2>1. r.thlReferenceDeg \in Headings \cup {0}
      BY <1>4 DEF RuntimeType
    <2>2. Headings \cup {0} \subseteq Int
      BY HeadingsAssumption
    <2> HIDE DEF r
    <2> QED
      BY <1>4, <2>1, <2>2, Zenon
  <1>8. binding.invert \in BOOLEAN /\ binding.max_percent \in 0 .. 100
    BY <1>2, <1>3 DEF Bindings
  <1> HIDE DEF lock, binding, r, raw
  <1>9. raw \in 0 .. Full /\ TurnsShortWay(raw, r.thlReferenceDeg, heading)
    BY <1>6, <1>7, LockByteFacts
  <1>10. mkh_channel_value[p] = IF binding.invert THEN ToByte(2 * Neutral - raw) ELSE raw
    <2>1. Contribution(binding, raw) =
              (IF binding.invert THEN ToByte(2 * Neutral - raw) ELSE raw) - Neutral
      BY <1>3, <1>8, <1>9, ContributionFacts
    <2>2. 2 * Neutral - raw \in Int
      BY <1>9 DEF Neutral, Full
    <2>3. ToByte(2 * Neutral - raw) \in 0 .. Full
      BY <2>2, ClampFacts
    <2> QED
      BY <1>5, <1>9, <2>1, <2>3 DEF Neutral, Full
  <1>11. byte \in Int /\ (byte > Neutral <=> raw > Neutral) /\ (byte < Neutral <=> raw < Neutral)
    BY <1>8, <1>9, <1>10 DEF ToByte, AtLeast, AtMost, Neutral, Full
  <1> HIDE DEF byte
  <1>12. TurnsShortWay(byte, r.thlReferenceDeg, heading)
    <2>1. raw \in Int
      BY <1>9 DEF Full
    <2> QED
      BY <1>9, <1>11, <2>1, SameSide
  <1> QED
    BY <1>12, Zenon DEF byte, r, binding, lock

\* The lock turns the shorter way, for every deadband, gain, floor, ceiling and heading.
THEOREM DriveLockTurnsShortWay == Spec => []LockTurnsShortWay
  <1>1. Init => LockIsExclusive
    BY DEF Init, LockIsExclusive
  <1>2. TypeOK /\ LockIsExclusive /\ [Next]_vars => (TypeOK /\ LockIsExclusive)'
    BY NextType, LockExclusiveStep
  <1> QED
    BY InitType, <1>1, <1>2, ExclusiveTurns, PTL DEF Spec

\* What a binding adds to its port depends on no other binding's reading.
LEMMA PortByteSame ==
  ASSUME NEW list, Bindings(list), NEW S \in SUBSET DOMAIN list, NEW raw, NEW other,
         \A b \in S : raw[b] = other[b]
  PROVE  PortByte(list, raw, S) = PortByte(list, other, S)
  <1> DEFINE share == [b \in DOMAIN list |-> Contribution(list[b], raw[b])]
             also == [b \in DOMAIN list |-> Contribution(list[b], other[b])]
  <1>1. \A b \in S : share[b] = also[b]
    OBVIOUS
  <1>2. IsFiniteSet(S)
    BY SlotsFinite DEF Bindings
  <1> HIDE DEF share, also
  <1>3. SumFunctionOnSet(share, S) = SumFunctionOnSet(also, S)
    BY <1>1, <1>2, SumSame
  <1> QED
    BY <1>3 DEF PortByte, share, also

\* A lock that a sweep ends, without a tap, is the one that gives way in it.
LEMMA SweptRelease ==
  ASSUME NEW list, Bindings(list), NEW data \in Reports, NEW rt \in [Slots -> RuntimeType],
         frame \in Frames, heading \in Headings, NEW lock \in DOMAIN list,
         NEW swept, swept = Swept(list, rt, data).runtime,
         Drives(list[lock]) = "thl", rt[lock].thlEngaged, ~swept[lock].thlEngaged,
         ~(IsPressed(list[lock], data) /\ ~rt[lock].thlPrevPressed)
  PROVE  Swept(list, rt, data).byte =
             PortByte(list, [b \in DOMAIN list |-> RawByte(list[b], swept[b], data)],
                      DOMAIN list \ {lock})
  <1> DEFINE next == SweptState(list, rt, data)
             raw == [b \in DOMAIN list |-> RawByte(list[b], next[b], data)]
             first == Min(Engaged(list, next))
             released == [next EXCEPT ![first].thlEngaged = FALSE, ![first].thlReferenceDeg = 0]
             after == [b \in DOMAIN list |-> RawByte(list[b], swept[b], data)]
  <1>1. next \in [Slots -> RuntimeType] /\ lock \in Slots
    BY SweptStateType DEF Bindings
  <1>2. \/ /\ Engaged(list, next) = {}
           /\ Swept(list, rt, data) = [runtime |-> next, byte |-> PortByte(list, raw, DOMAIN list)]
        \/ /\ first \in Engaged(list, next)
           /\ Swept(list, rt, data) =
                 [runtime |-> released, byte |-> PortByte(list, raw, DOMAIN list \ {first})]
        \/ /\ first \in Engaged(list, next)
           /\ Swept(list, rt, data) = [runtime |-> next, byte |-> PortByte(list, raw, {first})]
    BY SweptCases, Zenon
  <1>3. next[lock] = Lock(rt[lock], IsPressed(list[lock], data))
    <2>1. next[lock] = Advance(list[lock], rt[lock], data)
      BY <1>1, Zenon DEF SweptState
    <2> HIDE DEF next
    <2> QED
      BY <1>1, <2>1, AdvanceFacts
  <1>4. next[lock].thlEngaged
    <2>1. rt[lock] \in RuntimeType
      BY <1>1
    <2> HIDE DEF next
    <2> QED
      BY <1>3, <2>1 DEF Lock, RuntimeType
  <1>5. lock \in Engaged(list, next)
    <2>1. list[lock].mode = "thl"
      BY DEF Drives
    <2> HIDE DEF next
    <2> QED
      BY <1>4, <2>1 DEF Engaged
  <1>6. /\ \A b \in DOMAIN list : raw[b] = RawByte(list[b], next[b], data)
        /\ \A b \in DOMAIN list : after[b] = RawByte(list[b], swept[b], data)
    OBVIOUS
  <1>7. \A b \in Slots : b # first => released[b] = next[b]
    BY <1>1
  <1> HIDE DEF next, raw, first, after, released
  <1>8. swept = released /\ Swept(list, rt, data).byte = PortByte(list, raw, DOMAIN list \ {first})
    BY <1>2, <1>4, <1>5
  <1>9. lock = first
    BY <1>1, <1>4, <1>7, <1>8
  <1>10. \A b \in DOMAIN list \ {lock} : raw[b] = after[b]
    BY <1>6, <1>7, <1>8, <1>9 DEF Bindings
  <1>11. PortByte(list, raw, DOMAIN list \ {lock}) = PortByte(list, after, DOMAIN list \ {lock})
    BY <1>10, PortByteSame
  <1> QED
    BY <1>8, <1>9, <1>11 DEF after

LEMMA GivesWayStep ==
  ASSUME TypeOK, [Next]_vars, at = "sweep", XWC # nullptr,
         NEW p \in Bound(table), NEW lock \in DOMAIN table[p],
         Drives(table[p][lock]) = "thl",
         runtime[p][lock].thlEngaged, ~runtime'[p][lock].thlEngaged,
         ~(IsPressed(table[p][lock], controller[XWC]._data) /\ ~runtime[p][lock].thlPrevPressed)
  PROVE  mkh_channel_value'[p] =
             PortByte(table[p],
                      [b \in DOMAIN table[p] |->
                          RawByte(table[p][b], runtime'[p][b], controller[XWC]._data)],
                      DOMAIN table[p] \ {lock})
  <1>0. OutputsType /\ ClockType
    BY TypeParts
  <1>1. runtime' # runtime
    OBVIOUS
  <1>2. Sweep /\ Sweeps
    <2>1. ~(UNCHANGED vars \/ Bluetooth)
      BY <1>1 DEF vars, outputs, Bluetooth, DeviceReady, ControllerData, DeviceDisconnected
    <2>2. ~(Update \/ processControllers \/ Callbacks \/ Touch)
      BY DEF Update, processControllers, Callbacks, onConnectedController,
             onDisconnectedController, NextChanged, Touch, NoTouch,
             pushPendingSessionToLiveTable, ResetAll, mkh_storage_reload_config, ToggleOff,
             ToggleOn, EndOfLoop
    <2> QED
      BY <2>1, <2>2 DEF Next, Loop, Sweeps
  <1> DEFINE list == table[p]
             data == controller[XWC]._data
             rt == runtime[p]
             swept == runtime'[p]
  <1>3. /\ Bindings(list) /\ data \in Reports /\ rt \in [Slots -> RuntimeType]
        /\ swept = Swept(list, rt, data).runtime
        /\ mkh_channel_value'[p] = Swept(list, rt, data).byte
    BY <1>0, <1>2, SweepPorts DEF OutputsType
  <1>4. lock \in DOMAIN list /\ Drives(list[lock]) = "thl" /\ rt[lock].thlEngaged
        /\ ~swept[lock].thlEngaged /\ ~(IsPressed(list[lock], data) /\ ~rt[lock].thlPrevPressed)
    OBVIOUS
  <1> HIDE DEF list, data, rt, swept
  <1>5. Swept(list, rt, data).byte =
            PortByte(list, [b \in DOMAIN list |-> RawByte(list[b], swept[b], data)],
                     DOMAIN list \ {lock})
    BY <1>0, <1>3, <1>4, SweptRelease DEF ClockType
  <1> QED
    BY <1>3, <1>5, Zenon DEF list, data, rt, swept

\* A lock that ends without a tap on its own button gives its port to its siblings in the
\* sweep that ends it: the port carries the sum of all the others, never a neutral gap.
THEOREM DriveLockGivesWay == Spec => LockGivesWay
  <1>1. TypeOK /\ [Next]_vars =>
          [at = "sweep" /\ XWC # nullptr => \A p \in Bound(table) : \A lock \in DOMAIN table[p] :
              LET data == controller[XWC]._data
                  others == DOMAIN table[p] \ {lock}
              IN  (/\ Drives(table[p][lock]) = "thl"
                   /\ runtime[p][lock].thlEngaged /\ ~runtime'[p][lock].thlEngaged
                   /\ ~(IsPressed(table[p][lock], data) /\ ~runtime[p][lock].thlPrevPressed))
                  => mkh_channel_value'[p] =
                         PortByte(table[p], [b \in DOMAIN table[p] |->
                             RawByte(table[p][b], runtime'[p][b], data)], others)]_vars
    BY GivesWayStep, Zenon
  <1> QED
    BY InitType, NextType, <1>1, PTL DEF Spec, LockGivesWay
=============================================================================
