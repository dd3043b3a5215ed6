------------------------------ MODULE MkhDrive ------------------------------
(***************************************************************************)
(* From the controller to the channel bytes: Bluepad32's seats, the connect *)
(* and disconnect callbacks with their failsafe, and processMappedInputs    *)
(* with its latches, pulses and heading locks (sketch.cpp), while the       *)
(* editor changes the table and the dashboard switches hubs underneath.     *)
(*                                                                         *)
(* loop() runs all of this on the Arduino task, one handler after the       *)
(* other; the BTstack task only fills the seats, a report under a mutex.    *)
(* update() reads one seat after the other in one step here: a change to    *)
(* one seat between two of its reads is the same as one before or after     *)
(* the whole.                                                               *)
(***************************************************************************)
EXTENDS MkhInput, Sequences, FiniteSetsExt, Functions

CONSTANTS
    Devices, Channels,      \* hubs and their ports
    NumSeats,               \* BP32_MAX_GAMEPADS
    Axes, Triggers,         \* the tokens of classes AXIS and TRIGGER; others are DIGITAL
    Tables, MaxBindings,    \* the tables the editor makes, and their longest list
    Stored,                 \* the tables the config file may hold
    Reports, Rest,          \* what a controller reports, token by token; the zeroed report
    Headings,               \* what the gyro integrates to, in degrees
    CancelThreshold,        \* s_cancelThresholdPct
    MKH_PULSE_FRAMES,
    LastFrame,              \* the frame in which millis() wraps
    MaxStep                 \* the most frames that begin during one pass of loop()

Ports == Devices \X Channels
Seats == 0 .. NumSeats - 1
nullptr == -1
NoReport == <<>>
FreeSeat == [taken |-> FALSE, data |-> NoReport]
Slots == 1 .. MaxBindings
Unassigned == [p \in Ports |-> <<>>]

ASSUME SeatsAssumption == NumSeats \in Nat \ {0}
\* mkh_config_parse_line takes a max of 0 to 100 and the editor's slider stays within.
ASSUME TablesAssumption ==
    /\ MaxBindings \in Nat
    /\ \A t \in Tables : DOMAIN t = Ports /\ \A p \in Ports :
           /\ DOMAIN t[p] \subseteq Slots
           /\ \A b \in DOMAIN t[p] : t[p][b].invert \in BOOLEAN /\ t[p][b].max_percent \in 0 .. 100
ASSUME StoredAssumption == Stored \subseteq Tables /\ Unassigned \in Tables
ASSUME ReportsAssumption ==
    /\ Rest \in Reports
    /\ \A data \in Reports : \A t \in Tables : \A p \in Ports : \A b \in DOMAIN t[p] :
           data[t[p][b].input] \in Int
ASSUME HeadingsAssumption == Headings \subseteq Int /\ Headings # {}
ASSUME FramesAssumption ==
    MKH_PULSE_FRAMES \in Nat \ {0} /\ LastFrame \in Nat /\ MaxStep \in Nat \ {0}

VARIABLES
    controllers_,       \* arduino_platform.c: per seat, taken and the report not yet read
    controller,         \* BP32._controllers: per seat, _connected, _hasData and _data
    connected,          \* BP32._prevConnectedControllers
    myControllers,      \* per slot, the seat whose controller it holds
    xwcState,
    table,              \* s_table
    runtime,            \* latch*, pulse* and thl* of every binding of every port
    mkh_channel_value,
    frame,              \* millis() / MKH_FRAME_INTERVAL_MS
    heading,            \* mkh_imu_heading_deg()
    imuReady,           \* mkh_imu_ready(): settled before loop() starts
    at,                 \* where loop() is
    changed,            \* update(): the seats whose bit differs and is not handled yet
    orphans,            \* history: unbound while driven, and not written since
    reported,           \* history: the controller of slot 0 reported since it connected
    fresh               \* history: ports rebound or cleared since their last sweep

seats == <<controllers_, controller, connected, myControllers, changed>>
clock == <<frame, heading, imuReady>>
outputs == <<table, runtime, mkh_channel_value, orphans, fresh>>
vars == <<seats, clock, outputs, xwcState, at, reported>>

\* pulseFrame is pulseArmedFrame while the burst is armed and pulseStartFrame while it is
\* active; it and thlReferenceDeg are 0 while the code does not read them.
Cleared == [
    latchState |-> FALSE, latchPrevPressed |-> FALSE,
    pulseArmed |-> FALSE, pulseActive |-> FALSE, pulseFrame |-> 0, pulsePrevPressed |-> FALSE,
    thlEngaged |-> FALSE, thlReferenceDeg |-> 0, thlPrevPressed |-> FALSE]
AllCleared == [slot \in Slots |-> Cleared]

Frames == 0 .. LastFrame

TypeOK ==
    /\ controllers_ \in [Seats -> [taken : BOOLEAN, data : Reports \cup {NoReport}]]
    /\ controller \in [Seats -> [_connected : BOOLEAN, _hasData : BOOLEAN, _data : Reports]]
    /\ connected \subseteq Seats
    /\ changed \subseteq Seats
    /\ myControllers \in [Seats -> Seats \cup {nullptr}]
    /\ xwcState \in {"DISCONNECTED", "CONNECTING", "ACTIVE"}
    /\ table \in Tables
    /\ runtime \in [Ports -> [Slots -> [
            latchState : BOOLEAN, latchPrevPressed : BOOLEAN,
            pulseArmed : BOOLEAN, pulseActive : BOOLEAN, pulseFrame : Frames,
            pulsePrevPressed : BOOLEAN,
            thlEngaged : BOOLEAN, thlReferenceDeg : Headings \cup {0},
            thlPrevPressed : BOOLEAN]]]
    /\ mkh_channel_value \in [Ports -> 0 .. Full]
    /\ frame \in Frames
    /\ heading \in Headings
    /\ imuReady \in BOOLEAN
    /\ at \in {"update", "callbacks", "sweep", "touch"}
    /\ orphans \subseteq Ports
    /\ reported \in BOOLEAN
    /\ fresh \subseteq Ports

Init ==
    /\ controllers_ = [i \in Seats |-> FreeSeat]
    /\ controller = [i \in Seats |-> [_connected |-> FALSE, _hasData |-> FALSE, _data |-> Rest]]
    /\ connected = {}
    /\ changed = {}
    /\ myControllers = [i \in Seats |-> nullptr]
    /\ xwcState = "DISCONNECTED"
    /\ table \in Tables
    /\ runtime = [p \in Ports |-> AllCleared]
    /\ mkh_channel_value = [p \in Ports |-> Neutral]
    /\ frame \in Frames
    /\ heading \in Headings
    /\ imuReady \in BOOLEAN
    /\ at = "update"
    /\ orphans = {}
    /\ reported = FALSE
    /\ fresh = Ports

-----------------------------------------------------------------------------
\* The BTstack task (arduino_platform.c)

DeviceReady ==
    LET free == {i \in Seats : ~controllers_[i].taken}
    IN  /\ free # {}
        /\ controllers_' = [controllers_ EXCEPT ![Min(free)].taken = TRUE]
        /\ UNCHANGED <<controller, connected, myControllers, changed,
                       clock, outputs, xwcState, at, reported>>

ControllerData(i) ==
    /\ controllers_[i].taken
    /\ \E report \in Reports :
           controllers_' = [controllers_ EXCEPT ![i].data = report]
    /\ UNCHANGED <<controller, connected, myControllers, changed,
                   clock, outputs, xwcState, at, reported>>

DeviceDisconnected(i) ==
    /\ controllers_[i].taken
    /\ controllers_' = [controllers_ EXCEPT ![i] = FreeSeat]
    /\ UNCHANGED <<controller, connected, myControllers, changed,
                   clock, outputs, xwcState, at, reported>>

-----------------------------------------------------------------------------
\* BP32.update() and the callbacks

XWC == myControllers[0]
Taken == {i \in Seats : controllers_[i].taken}
\* data_updated
Unread(i) == controllers_[i].data # NoReport

Update ==
    /\ at = "update"
    /\ controller' = [i \in Seats |->
           IF i \notin Taken THEN controller[i]
           ELSE [controller[i] EXCEPT
                    !._hasData = Unread(i),
                    !._data = IF Unread(i) THEN controllers_[i].data ELSE @]]
    /\ controllers_' = [i \in Seats |-> [controllers_[i] EXCEPT !.data = NoReport]]
    /\ changed' = (connected \ Taken) \cup (Taken \ connected)
    /\ connected' = Taken
    /\ at' = "callbacks"
    /\ reported' = (reported \/ \E i \in Taken : XWC = i /\ Unread(i))
    /\ UNCHANGED <<myControllers, clock, outputs, xwcState>>

\* The callbacks run in the order of the seats.
NextChanged(i) == at = "callbacks" /\ i \in changed /\ \A j \in changed : i <= j

onConnectedController(i) ==
    /\ NextChanged(i) /\ i \in connected
    /\ changed' = changed \ {i}
    /\ controller' = [controller EXCEPT ![i]._connected = TRUE]
    /\ LET slot == Min({k \in Seats : myControllers[k] = nullptr})
       IN  /\ myControllers' = [myControllers EXCEPT ![slot] = i]
           /\ IF slot = 0
              THEN xwcState' = "CONNECTING" /\ reported' = controller[i]._hasData
              ELSE UNCHANGED <<xwcState, reported>>
    /\ UNCHANGED <<controllers_, connected, clock, outputs, at>>

Bound(t) == {p \in Ports : t[p] # <<>>}
\* mkh_set_channel(p, 0x80) for a set of ports.
Neutralize(ports) ==
    /\ mkh_channel_value' = [p \in Ports |-> IF p \in ports THEN Neutral
                                                            ELSE mkh_channel_value[p]]
    /\ orphans' = orphans \ ports
\* clearLatchStateForPort for a set of ports.
ClearLatchState(ports) ==
    /\ runtime' = [p \in Ports |-> IF p \in ports THEN AllCleared ELSE runtime[p]]
    /\ fresh' = fresh \cup ports

\* Seeded bug: the failsafe neutralizes the ports and leaves the latches.
FailsafeKeepsLatches ==
    Neutralize(Bound(table)) /\ UNCHANGED <<table, runtime, fresh>>
\* Seeded bug: only ports with a stick are neutralized, as before buttons could drive.
FailsafeForSticks ==
    /\ Neutralize({p \in Bound(table) : \E b \in DOMAIN table[p] : table[p][b].input \in Axes})
    /\ ClearLatchState(Ports)
    /\ UNCHANGED table
\* Every bound port, and everything that could bring a value back.
Failsafe ==
    /\ Neutralize(Bound(table))
    /\ ClearLatchState(Ports)
    /\ UNCHANGED table

onDisconnectedController(i) ==
    /\ NextChanged(i) /\ i \notin connected
    /\ changed' = changed \ {i}
    /\ controller' = [controller EXCEPT ![i]._connected = FALSE]
    /\ myControllers' = [k \in Seats |-> IF myControllers[k] = i THEN nullptr
                                                                 ELSE myControllers[k]]
    /\ IF XWC = i THEN xwcState' = "DISCONNECTED" /\ Failsafe
                  ELSE UNCHANGED <<xwcState, outputs>>
    /\ UNCHANGED <<controllers_, connected, clock, at, reported>>

\* processControllers: what is left of a report is the dashboard's state.
processControllers ==
    /\ at = "callbacks" /\ changed = {}
    /\ xwcState' = IF /\ \E k \in Seats : myControllers[k] = 0
                      /\ controller[0]._connected /\ controller[0]._hasData
                   THEN "ACTIVE" ELSE xwcState
    /\ at' = "sweep"
    /\ UNCHANGED <<seats, clock, outputs, reported>>

-----------------------------------------------------------------------------
\* processMappedInputs

IsPressed(b, data) == IF b.input \in Triggers THEN data[b.input] > TriggerMax \div 2
                                              ELSE data[b.input] # 0
\* Which branch a binding takes: by its class first, then by its mode.
Drives(b) == IF b.input \in Axes THEN "axis"
             ELSE IF b.input \in Triggers /\ b.mode = "proportional" THEN "trigger"
             ELSE IF b.mode \in {"latched", "pulse", "thl"} THEN b.mode ELSE "momentary"

Latch(r, pressed) ==
    [r EXCEPT !.latchState = IF pressed /\ ~r.latchPrevPressed THEN ~@ ELSE @,
              !.latchPrevPressed = pressed]

\* Seeded bug: a tap during the burst starts it over.
PulseRetriggers(r, pressed) ==
    LET tapped == pressed /\ ~r.pulsePrevPressed
        starts == tapped \/ (r.pulseArmed /\ frame # r.pulseFrame)
        since == IF starts THEN frame ELSE r.pulseFrame
        active == (r.pulseActive \/ starts) /\ frame < since + MKH_PULSE_FRAMES
    IN  [r EXCEPT !.pulsePrevPressed = pressed,
                  !.pulseArmed = FALSE,
                  !.pulseActive = active,
                  !.pulseFrame = IF active THEN since ELSE 0]
\* A press arms unless a burst is armed or under way; the burst starts in a later frame
\* and ends MKH_PULSE_FRAMES later.
Pulse(r, pressed) ==
    LET arms == pressed /\ ~r.pulsePrevPressed /\ ~r.pulseArmed /\ ~r.pulseActive
        starts == r.pulseArmed /\ frame # r.pulseFrame
        since == IF arms \/ starts THEN frame ELSE r.pulseFrame
        armed == (r.pulseArmed \/ arms) /\ ~starts
        active == (r.pulseActive \/ starts) /\ frame < since + MKH_PULSE_FRAMES
    IN  [r EXCEPT !.pulsePrevPressed = pressed,
                  !.pulseArmed = armed,
                  !.pulseActive = active,
                  !.pulseFrame = IF armed \/ active THEN since ELSE 0]

\* A press toggles the lock; engaging is refused while the gyro is not ready.
Lock(r, pressed) ==
    LET tapped == pressed /\ ~r.thlPrevPressed
        engages == tapped /\ ~r.thlEngaged /\ imuReady
    IN  [r EXCEPT !.thlPrevPressed = pressed,
                  !.thlEngaged = IF tapped THEN engages ELSE @,
                  !.thlReferenceDeg = IF engages THEN heading ELSE IF tapped THEN 0 ELSE @]

\* Pass 1: a binding's state advances whatever becomes of its value.
Advance(b, r, data) ==
    CASE Drives(b) = "latched" -> Latch(r, IsPressed(b, data))
      [] Drives(b) = "pulse" -> Pulse(r, IsPressed(b, data))
      [] Drives(b) = "thl" -> Lock(r, IsPressed(b, data))
      [] OTHER -> r

Level(on) == IF on THEN Full ELSE Neutral
RawByte(b, r, data) ==
    CASE Drives(b) = "axis" -> mkStickYToChannelByte(data[b.input])
      [] Drives(b) = "trigger" -> mkTriggerToChannelByte(data[b.input])
      [] Drives(b) = "latched" -> Level(r.latchState)
      [] Drives(b) = "pulse" -> Level(r.pulseActive)
      [] Drives(b) = "thl" -> IF r.thlEngaged THEN LockByte(r.thlReferenceDeg, heading)
                                              ELSE Neutral
      [] OTHER -> Level(IsPressed(b, data))

\* The first engaged lock of a list; its siblings that claim the port back.
Engaged(list, rt) == {b \in DOMAIN list : list[b].mode = "thl" /\ rt[b].thlEngaged}
Deflects(byte) == 100 * Abs(byte - Neutral) > 127 * CancelThreshold
\* Seeded bug: only a stick or a trigger takes the port back.
OverridesByStick(list, raw, lock) ==
    {b \in DOMAIN list \ {lock} : Drives(list[b]) \in {"axis", "trigger"} /\ Deflects(raw[b])}
Overrides(list, raw, lock) == {b \in DOMAIN list \ {lock} : Deflects(raw[b])}

Contribution(b, byte) == mkApplyBindingConfig(byte, b) - Neutral
\* Pass 3 over the bindings that may contribute.
PortByte(list, raw, contributors) ==
    SumToByte(SumFunctionOnSet([b \in DOMAIN list |-> Contribution(list[b], raw[b])],
                               contributors))

\* Seeded bug: what a lock suppresses does not advance either.
StateUnlessLocked(list, rt, data) ==
    [slot \in Slots |-> IF /\ slot \in DOMAIN list
                           /\ Engaged(list, rt) \subseteq {slot}
                        THEN Advance(list[slot], rt[slot], data)
                        ELSE rt[slot]]
\* What one sweep makes of a port: its bindings' state and its byte.
SweptState(list, rt, data) ==
    [slot \in Slots |-> IF slot \in DOMAIN list THEN Advance(list[slot], rt[slot], data)
                                                ELSE rt[slot]]
\* Seeded bug: the lock is released one sweep before its siblings drive again.
SweptWithGap(list, rt, data) ==
    LET next == SweptState(list, rt, data)
        raw == [b \in DOMAIN list |-> RawByte(list[b], next[b], data)]
        locks == Engaged(list, next)
        lock == Min(locks)
    IN  IF locks = {} THEN [runtime |-> next, byte |-> PortByte(list, raw, DOMAIN list)]
        ELSE IF Overrides(list, raw, lock) # {}
        THEN [runtime |-> [next EXCEPT ![lock].thlEngaged = FALSE, ![lock].thlReferenceDeg = 0],
              byte |-> Neutral]
        ELSE [runtime |-> next, byte |-> PortByte(list, raw, {lock})]
Swept(list, rt, data) ==
    LET next == SweptState(list, rt, data)
        raw == [b \in DOMAIN list |-> RawByte(list[b], next[b], data)]
        locks == Engaged(list, next)
        lock == Min(locks)
        others == DOMAIN list \ {lock}
    IN  IF locks = {}
        THEN [runtime |-> next, byte |-> PortByte(list, raw, DOMAIN list)]
        ELSE IF Overrides(list, raw, lock) # {}
        THEN [runtime |-> [next EXCEPT ![lock].thlEngaged = FALSE, ![lock].thlReferenceDeg = 0],
              byte |-> PortByte(list, raw, others)]
        ELSE [runtime |-> next, byte |-> PortByte(list, raw, {lock})]

\* Seeded bug: only a new report is swept.
SweepsOnReport == XWC # nullptr /\ controller[XWC]._hasData
Sweeps == XWC # nullptr

Sweep ==
    /\ at = "sweep"
    /\ at' = "touch"
    /\ IF ~Sweeps THEN UNCHANGED <<runtime, mkh_channel_value, orphans, fresh>>
       ELSE LET swept == [p \in Bound(table) |->
                             Swept(table[p], runtime[p], controller[XWC]._data)]
            IN  /\ mkh_channel_value' = [p \in Ports |->
                       IF p \in Bound(table) THEN swept[p].byte ELSE mkh_channel_value[p]]
                /\ runtime' = [p \in Ports |->
                       IF p \in Bound(table) THEN swept[p].runtime ELSE runtime[p]]
                /\ orphans' = orphans \ Bound(table)
                /\ fresh' = fresh \ Bound(table)
    /\ UNCHANGED <<seats, clock, table, xwcState, reported>>

-----------------------------------------------------------------------------
\* The rest of loop(): at most one touch, then the next pass.

\* mkh_imu_poll and delay(150).
EndOfLoop ==
    /\ at = "touch"
    /\ at' = "update"
    /\ frame' \in {(frame + step) % (LastFrame + 1) : step \in 1 .. MaxStep}
    /\ heading' \in IF imuReady THEN Headings ELSE {heading}
    /\ UNCHANGED <<seats, imuReady, xwcState, reported>>

NoTouch == EndOfLoop /\ UNCHANGED outputs

\* The bindings of some ports change; one that is left without any keeps its byte.
Rebind(t) ==
    /\ table' = t
    /\ orphans' = orphans \cup {p \in Bound(table) \ Bound(t) : mkh_channel_value[p] # Neutral}
    /\ UNCHANGED mkh_channel_value

\* Test-ON and SAVE.
pushPendingSessionToLiveTable ==
    /\ EndOfLoop
    /\ \E dirty \in SUBSET Ports : \E t \in Tables :
           /\ \A p \in Ports \ dirty : t[p] = table[p]
           /\ Rebind(t)
           /\ ClearLatchState(dirty)

ResetAll ==
    /\ EndOfLoop
    /\ Rebind(Unassigned)
    /\ ClearLatchState(Ports)

\* RESET on the settings page: the stored table comes back.
mkh_storage_reload_config ==
    /\ EndOfLoop
    /\ \E t \in Stored :
           /\ Rebind(t)
           /\ fresh' = fresh \cup {p \in Ports : t[p] # table[p]}
    /\ UNCHANGED runtime

\* A tap on the dashboard's row of a hub.  Switching it off is refused if the hub is
\* not in rotation, but its latches are cleared all the same.
ToggleOff(d) ==
    /\ EndOfLoop
    /\ Neutralize({d} \X Channels) \/ UNCHANGED <<mkh_channel_value, orphans>>
    /\ ClearLatchState({d} \X Channels)
    /\ UNCHANGED table

ToggleOn(d) ==
    /\ EndOfLoop
    /\ Neutralize({d} \X Channels)
    /\ UNCHANGED <<table, runtime, fresh>>

Touch ==
    \/ NoTouch
    \/ pushPendingSessionToLiveTable
    \/ ResetAll
    \/ mkh_storage_reload_config
    \/ \E d \in Devices : ToggleOff(d) \/ ToggleOn(d)

Callbacks == \E i \in Seats : onConnectedController(i) \/ onDisconnectedController(i)

Loop == Update \/ Callbacks \/ processControllers \/ Sweep \/ Touch

Bluetooth ==
    \/ DeviceReady
    \/ \E i \in Seats : ControllerData(i) \/ DeviceDisconnected(i)

Next == Loop \/ Bluetooth

Spec == Init /\ [][Next]_vars

\* loop() is called for ever and every handler in it returns: WF_vars(Loop), in a form that
\* is cheaper to check, because Loop is enabled in every state and cannot take infinitely
\* many steps without passing "update".
FairSpec == Spec /\ []<>(at = "update") /\ []<>(at # "update")

-----------------------------------------------------------------------------
\* Properties

Driven(p) == mkh_channel_value[p] # Neutral

\* The failsafe: while no controller holds the first slot, every port is neutral and no
\* latch, burst or lock is left, whatever the editor and the dashboard do meanwhile.  The
\* one exception is a port whose last binding was removed while it was driven.
FailsafeHolds ==
    XWC = nullptr => \A p \in Ports :
        (~Driven(p) \/ p \in orphans) /\ runtime[p] = AllCleared

\* What the comments at sketch.cpp:2850 and :3156 take for granted, and neither the editor
\* nor the parser sees to: at most one binding of a port is a lock.
OneLock(list) == \A b, c \in DOMAIN list : list[b].mode = "thl" /\ list[c].mode = "thl" => b = c

\* A lock that is engaged after a sweep drives its port alone, and none of its siblings,
\* of whatever class or mode, is deflected far enough to take the port back.
LockIsExclusive ==
    at = "touch" /\ XWC # nullptr => \A p \in Ports :
        LET locks == Engaged(table[p], runtime[p])
            lock == Min(locks)
            natural(b) == RawByte(table[p][b], runtime[p][b], controller[XWC]._data)
        IN  OneLock(table[p]) /\ locks # {} =>
                /\ mkh_channel_value[p] = Neutral + Contribution(table[p][lock], natural(lock))
                /\ \A b \in DOMAIN table[p] \ {lock} : ~Deflects(natural(b))

\* An engaged lock always turns the shorter way round, across north too, and rests only
\* within the deadband: seen on the compass, the reference lies ahead in the direction the
\* port is driven (the other one if the binding is inverted), at most half a turn away.
TurnsShortWay(byte, reference, now) ==
    LET ahead == (reference - now) % 360
    IN  /\ byte > Neutral => ahead \in 1 .. 180
        /\ byte < Neutral => ahead \in 180 .. 359
        /\ byte = Neutral /\ {Kp, Ceiling} \subseteq Nat \ {0} =>
               ahead < Deadband \/ 360 - ahead < Deadband \/ ahead = 0
LockTurnsShortWay ==
    at = "touch" /\ XWC # nullptr => \A p \in Ports :
        LET locks == Engaged(table[p], runtime[p])
            binding == table[p][Min(locks)]
            byte == IF binding.invert THEN 2 * Neutral - mkh_channel_value[p]
                                      ELSE mkh_channel_value[p]
        IN  OneLock(table[p]) /\ locks # {} /\ Drives(binding) = "thl" =>
                TurnsShortWay(byte, runtime[p][Min(locks)].thlReferenceDeg, heading)

\* A lock that ends in a sweep without a tap on its own button gives the port to its
\* siblings in the same sweep: their sum, never a neutral gap.
LockGivesWay ==
    [][at = "sweep" /\ XWC # nullptr => \A p \in Bound(table) : \A lock \in DOMAIN table[p] :
        LET data == controller[XWC]._data
            others == DOMAIN table[p] \ {lock}
        IN  (/\ Drives(table[p][lock]) = "thl"
             /\ runtime[p][lock].thlEngaged /\ ~runtime'[p][lock].thlEngaged
             /\ ~(IsPressed(table[p][lock], data) /\ ~runtime[p][lock].thlPrevPressed))
            => mkh_channel_value'[p] =
                   PortByte(table[p], [b \in DOMAIN table[p] |->
                       RawByte(table[p][b], runtime'[p][b], data)], others)]_vars

\* A held button acts once: whatever locks suppressed the port, its bindings' edge
\* detectors know the reading that was swept last, unless the port was rebound or cleared
\* since.  Only a button that went down in between can flip, arm or engage anything.
DetectorsAreCurrent ==
    at = "update" /\ XWC # nullptr => \A p \in Bound(table) \ fresh : \A b \in DOMAIN table[p] :
        LET pressed == IsPressed(table[p][b], controller[XWC]._data)
            r == runtime[p][b]
        IN  CASE Drives(table[p][b]) = "latched" -> r.latchPrevPressed = pressed
              [] Drives(table[p][b]) = "pulse" -> r.pulsePrevPressed = pressed
              [] Drives(table[p][b]) = "thl" -> r.thlPrevPressed = pressed
              [] OTHER -> TRUE

\* A burst is never cut short by a sweep and never started over or extended: once active
\* it keeps its first frame until MKH_PULSE_FRAMES have gone by or its port is cleared.
PulseIsWhole ==
    [][\A p \in Ports : \A b \in Slots :
        runtime[p][b].pulseActive =>
            \/ runtime'[p] = AllCleared
            \/ ~runtime'[p][b].pulseActive /\ frame >= runtime[p][b].pulseFrame + MKH_PULSE_FRAMES
            \/ /\ runtime'[p][b].pulseActive
               /\ runtime'[p][b].pulseFrame = runtime[p][b].pulseFrame]_vars

\* A burst ends on time even if the controller does not report any more: after a sweep
\* an active one began fewer than MKH_PULSE_FRAMES ago, unless millis() wrapped since.
PulseEndsOnTime ==
    at = "touch" /\ XWC # nullptr => \A p \in Ports : \A b \in DOMAIN table[p] :
        Drives(table[p][b]) = "pulse" /\ runtime[p][b].pulseActive =>
            frame < runtime[p][b].pulseFrame + MKH_PULSE_FRAMES

\* A controller that is gone stops driving: its ports become neutral, unless a
\* controller takes its seat before anyone looks.
DropReachesPorts ==
    \A i \in Seats : \A p \in Ports :
        XWC = i /\ ~controllers_[i].taken ~> ~Driven(p) \/ p \in orphans \/ controllers_[i].taken

\* What the comments in onDisconnectedController say of a reconnect, "no device can
\* resume from a stale non-neutral value": a controller drives only after it reported.
NoStaleResume == XWC # nullptr /\ ~reported => \A p \in Ports \ orphans : ~Driven(p)
=============================================================================
