---------------------------- MODULE MkhBroadcast ----------------------------
(***************************************************************************)
(* mkh_broadcast.c: the time-sliced broadcast of MK6 telegrams to the hubs, *)
(* run by two FreeRTOS tasks on two cores.                                  *)
(*                                                                         *)
(*  - The Arduino task (variable app) writes channel values on every input  *)
(*    sweep and switches hubs off and on when a dashboard row is tapped.    *)
(*  - The BTstack run loop (variable bt) starts advertising when HCI comes  *)
(*    up, runs the callbacks the other task posted, and runs the 100 ms     *)
(*    CONTROL timer, which services one active hub per turn and counts down *)
(*    the OFF grace period.                                                 *)
(*                                                                         *)
(* Only mkh_channel_value is protected by a mutex; every other variable is  *)
(* read and written by both tasks without one, so each such access is a     *)
(* step of its own.  A mutex is held for one step at most.  Stores of one   *)
(* task become visible in program order.                                    *)
(***************************************************************************)
EXTENDS Integers, Sequences

CONSTANTS
    NumDevices,     \* MKH_MK6_NUM_DEVICES, 3 in the code
    NumEligible,    \* MKH_TIME_SLICE_NUM_DEVICES, 2 in the code
    NumPorts,       \* MKH_MK6_NUM_CHANNELS, 6 in the code
    Levels,         \* the channel bytes told apart
    Neutral,        \* 0x80
    Configured,     \* the <<device, port>> pairs that have a binding
    OffGrace        \* MKH_OFF_GRACE_SERVICES, 3 in the code

ASSUME DevicesAssumption == NumDevices \in Nat \ {0} /\ NumEligible \in 1 .. NumDevices
ASSUME PortsAssumption == NumPorts \in Nat \ {0}
ASSUME LevelsAssumption == Neutral \in Levels
ASSUME ConfiguredAssumption == Configured \subseteq (0 .. NumDevices - 1) \X (0 .. NumPorts - 1)
ASSUME GraceAssumption == OffGrace \in Nat \ {0, 1}

Devices == 0 .. NumDevices - 1
Ports == 0 .. NumPorts - 1
Values == [Ports -> Levels]
Quiet == [p \in Ports |-> Neutral]

VARIABLES
    channel,            \* mkh_channel_value, under mkh_channel_mutex
    active,             \* mkh_device_active
    hubBroadcasting,    \* mkh_hub_broadcasting, what the dashboard shows
    pendingOff,         \* mkh_pending_off_services
    transitioning,      \* mkh_device_transitioning
    callbacks,          \* the run loop's list of posted callbacks, by device
    lastDevice,         \* mkh_time_slice_last_device
    started,            \* mkh_advertising_started
    overlap,            \* both tasks have been inside mkh_set_adv_payload at once
    app,                \* where the Arduino task is
    bt,                 \* where the BTstack task is
    sent,               \* history: per device, the values of its last CONTROL telegram
    served,             \* history: services that read the values after the OFF countdown began
    disturbed           \* history: a non-neutral order or a mixed telegram since then

shared == <<active, hubBroadcasting, pendingOff, transitioning>>
radio == <<overlap, sent>>
vars == <<channel, shared, callbacks, lastDevice, started, radio, app, bt, served, disturbed>>

-----------------------------------------------------------------------------
\* Types and program counters

AppIdle == [at |-> "idle", op |-> "none", dev |-> 0, port |-> 0]
BtIdle == [at |-> "idle", job |-> "none", dev |-> 0, vals |-> Quiet, count |-> 0]

AppSteps == {"idle", "enter", "mark", "cancel", "write", "notify", "arm",
             "connect", "staging", "activate", "show", "settle"}
BtSteps == {"idle", "copy", "staging", "show", "count", "store",
            "dropActive", "dropShow", "dropSettle"}

AppState == [at : AppSteps, op : {"none", "sweep", "off", "on"}, dev : Devices, port : Ports]
BtState == [at : BtSteps, job : {"none", "start", "event", "control"}, dev : Devices,
            vals : Values, count : 0 .. OffGrace]

TypeOK ==
    /\ channel \in [Devices -> Values]
    /\ active \in [Devices -> BOOLEAN]
    /\ hubBroadcasting \in [Devices -> BOOLEAN]
    /\ pendingOff \in [Devices -> 0 .. OffGrace]
    /\ transitioning \in [Devices -> BOOLEAN]
    /\ callbacks \in Seq(Devices)
    /\ lastDevice \in -1 .. NumDevices - 1
    /\ started \in BOOLEAN
    /\ overlap \in BOOLEAN
    /\ app \in AppState
    /\ bt \in BtState
    /\ sent \in [Devices -> Values]
    /\ served \in [Devices -> Nat]
    /\ disturbed \in [Devices -> BOOLEAN]

\* The static initialisers and mkh_broadcast_init.
Init ==
    /\ channel = [d \in Devices |-> Quiet]
    /\ active = [d \in Devices |-> d < NumEligible]
    /\ hubBroadcasting = [d \in Devices |-> FALSE]
    /\ pendingOff = [d \in Devices |-> 0]
    /\ transitioning = [d \in Devices |-> FALSE]
    /\ callbacks = <<>>
    /\ lastDevice = -1
    /\ started = FALSE
    /\ overlap = FALSE
    /\ app = AppIdle
    /\ bt = BtIdle
    /\ sent = [d \in Devices |-> Quiet]
    /\ served = [d \in Devices |-> 0]
    /\ disturbed = [d \in Devices |-> FALSE]

-----------------------------------------------------------------------------
\* mkh_set_adv_payload: copying a telegram into mkh_adv_buf and handing it to
\* BTstack takes time.  If both tasks have been inside it together, what the
\* radio then repeats is the telegram or a mixture of the two.

BtStaging == bt.at = "staging"
AppStaging == app.at = "staging"

BeginStaging(otherStaging) == overlap' = otherStaging
EndStaging(otherStaging) == overlap' = (overlap /\ otherStaging)

-----------------------------------------------------------------------------
\* The Arduino task: mkh_set_channel

\* btstack_linked_list_add_tail: a registration already queued is not queued again.
Post(d) ==
    IF \E i \in 1 .. Len(callbacks) : callbacks[i] = d
      THEN callbacks
      ELSE Append(callbacks, d)

\* Where the task goes when the mkh_set_channel call it is in returns: the
\* sweep is done with this port, a toggle writes its next port or goes on.
AfterChannel ==
    IF app.op = "sweep" THEN AppIdle
    ELSE IF app.port + 1 < NumPorts THEN [app EXCEPT !.at = "write", !.port = @ + 1]
    ELSE [app EXCEPT !.at = IF app.op = "off" THEN "arm" ELSE "connect", !.port = 0]

\* processMappedInputs drives one configured port: the locked first half of
\* mkh_set_channel.
Sweep(d, p, v) ==
    /\ app.at = "idle"
    /\ channel' = [channel EXCEPT ![d][p] = v]
    /\ app' = IF channel[d][p] # v
                THEN [at |-> "notify", op |-> "sweep", dev |-> d, port |-> p]
                ELSE app
    /\ disturbed' = [disturbed EXCEPT ![d] = @ \/ (v # Neutral /\ pendingOff[d] > 0)]
    /\ UNCHANGED <<shared, callbacks, lastDevice, started, radio, bt, served>>

\* The same half, called by a toggle with the neutral value.
WriteNeutral ==
    /\ app.at = "write"
    /\ channel' = [channel EXCEPT ![app.dev][app.port] = Neutral]
    /\ app' = IF channel[app.dev][app.port] # Neutral
                THEN [app EXCEPT !.at = "notify"]
                ELSE AfterChannel
    /\ UNCHANGED <<shared, callbacks, lastDevice, started, radio, bt, served, disturbed>>

\* The unlocked second half: a changed value of an active device posts the
\* event callback, unless the device posted one less than 25 ms ago (tooSoon:
\* the clock is not modelled).
Notify(tooSoon) ==
    /\ app.at = "notify"
    /\ callbacks' = IF active[app.dev] /\ ~tooSoon THEN Post(app.dev) ELSE callbacks
    /\ app' = AfterChannel
    /\ UNCHANGED <<channel, shared, lastDevice, started, radio, bt, served, disturbed>>

-----------------------------------------------------------------------------
\* The Arduino task: a tap on a dashboard row, and the two toggles

\* Seeded bug: the lockout check is dropped.
TapUnguarded(d) ==
    /\ app.at = "idle"
    /\ app' = [at |-> "enter", op |-> IF hubBroadcasting[d] THEN "off" ELSE "on",
               dev |-> d, port |-> 0]
    /\ UNCHANGED <<channel, shared, callbacks, lastDevice, started, radio, bt, served, disturbed>>

\* loop(): a row in transition ignores the tap; otherwise the row's shown
\* state decides which toggle is called.
Tap(d) ==
    /\ app.at = "idle"
    /\ ~transitioning[d]
    /\ app' = [at |-> "enter", op |-> IF hubBroadcasting[d] THEN "off" ELSE "on",
               dev |-> d, port |-> 0]
    /\ UNCHANGED <<channel, shared, callbacks, lastDevice, started, radio, bt, served, disturbed>>

\* Seeded bug: the third hub is not parked.
OnRefusedUnparked(d) == active[d] /\ pendingOff[d] = 0

\* Neither toggle does anything when its early return applies.
OffRefused(d) == ~active[d] \/ pendingOff[d] > 0
OnRefused(d) == d >= NumEligible \/ (active[d] /\ pendingOff[d] = 0)
Refused == IF app.op = "off" THEN OffRefused(app.dev) ELSE OnRefused(app.dev)

ToggleEnter ==
    /\ app.at = "enter"
    /\ app' = IF Refused THEN AppIdle ELSE [app EXCEPT !.at = "mark"]
    /\ UNCHANGED <<channel, shared, callbacks, lastDevice, started, radio, bt, served, disturbed>>

\* Seeded bug: the countdown starts before the neutral writes.
ToggleMarkArmsEarly ==
    /\ app.at = "mark"
    /\ transitioning' = [transitioning EXCEPT ![app.dev] = TRUE]
    /\ pendingOff' = IF app.op = "off" THEN [pendingOff EXCEPT ![app.dev] = OffGrace] ELSE pendingOff
    /\ app' = [app EXCEPT !.at = IF app.op = "off" THEN "write" ELSE "cancel"]
    /\ UNCHANGED <<channel, active, hubBroadcasting, callbacks, lastDevice, started, radio, bt,
                   served, disturbed>>

\* Seeded bug: toggle_off forgets the neutral writes.
ToggleMarkSkipsNeutral ==
    /\ app.at = "mark"
    /\ transitioning' = [transitioning EXCEPT ![app.dev] = TRUE]
    /\ app' = [app EXCEPT !.at = IF app.op = "off" THEN "arm" ELSE "cancel"]
    /\ UNCHANGED <<channel, active, hubBroadcasting, pendingOff, callbacks, lastDevice,
                   started, radio, bt, served, disturbed>>

ToggleMark ==
    /\ app.at = "mark"
    /\ transitioning' = [transitioning EXCEPT ![app.dev] = TRUE]
    /\ app' = [app EXCEPT !.at = IF app.op = "off" THEN "write" ELSE "cancel"]
    /\ UNCHANGED <<channel, active, hubBroadcasting, pendingOff, callbacks, lastDevice,
                   started, radio, bt, served, disturbed>>

\* Seeded bug: toggle_on forgets the neutral writes.
OnCancelSkipsNeutral ==
    /\ app.at = "cancel"
    /\ pendingOff' = [pendingOff EXCEPT ![app.dev] = 0]
    /\ app' = [app EXCEPT !.at = "connect"]
    /\ UNCHANGED <<channel, active, hubBroadcasting, transitioning, callbacks, lastDevice,
                   started, radio, bt, served, disturbed>>

\* toggle_on clears a pending drop.
OnCancel ==
    /\ app.at = "cancel"
    /\ pendingOff' = [pendingOff EXCEPT ![app.dev] = 0]
    /\ app' = [app EXCEPT !.at = "write"]
    /\ UNCHANGED <<channel, active, hubBroadcasting, transitioning, callbacks, lastDevice,
                   started, radio, bt, served, disturbed>>

\* toggle_off starts the countdown after the last neutral write.
OffArm ==
    /\ app.at = "arm"
    /\ pendingOff' = [pendingOff EXCEPT ![app.dev] = OffGrace]
    /\ served' = [served EXCEPT ![app.dev] = 0]
    /\ disturbed' = [disturbed EXCEPT ![app.dev] = FALSE]
    /\ app' = AppIdle
    /\ UNCHANGED <<channel, active, hubBroadcasting, transitioning, callbacks, lastDevice,
                   started, radio, bt>>

\* toggle_on stages the CONNECT telegram itself, on the Arduino task.
OnConnect ==
    /\ app.at = "connect"
    /\ BeginStaging(BtStaging)
    /\ app' = [app EXCEPT !.at = "staging"]
    /\ UNCHANGED <<channel, shared, callbacks, lastDevice, started, sent, bt, served,
                   disturbed>>

OnStaged ==
    /\ app.at = "staging"
    /\ EndStaging(BtStaging)
    /\ app' = [app EXCEPT !.at = "activate"]
    /\ UNCHANGED <<channel, shared, callbacks, lastDevice, started, sent, bt, served, disturbed>>

OnActivate ==
    /\ app.at = "activate"
    /\ active' = [active EXCEPT ![app.dev] = TRUE]
    /\ app' = [app EXCEPT !.at = "show"]
    /\ UNCHANGED <<channel, hubBroadcasting, pendingOff, transitioning, callbacks, lastDevice,
                   started, radio, bt, served, disturbed>>

OnShow ==
    /\ app.at = "show"
    /\ hubBroadcasting' = [hubBroadcasting EXCEPT ![app.dev] = TRUE]
    /\ app' = [app EXCEPT !.at = "settle"]
    /\ UNCHANGED <<channel, active, pendingOff, transitioning, callbacks, lastDevice, started,
                   radio, bt, served, disturbed>>

OnSettle ==
    /\ app.at = "settle"
    /\ transitioning' = [transitioning EXCEPT ![app.dev] = FALSE]
    /\ app' = AppIdle
    /\ UNCHANGED <<channel, active, hubBroadcasting, pendingOff, callbacks, lastDevice, started,
                   radio, bt, served, disturbed>>

-----------------------------------------------------------------------------
\* The BTstack task

\* BTSTACK_EVENT_STATE working, once: mkh_start and mkh_broadcast_connect
\* stage CONNECT, enable advertising and arm the timer.
HciWorking ==
    /\ bt.at = "idle"
    /\ ~started
    /\ started' = TRUE
    /\ BeginStaging(AppStaging)
    /\ bt' = [BtIdle EXCEPT !.at = "staging", !.job = "start"]
    /\ UNCHANGED <<channel, shared, callbacks, lastDevice, sent, app, served, disturbed>>

\* Seeded bug: an event send takes the device's turn.
EventCallbackTakesTurn ==
    /\ bt.at = "idle"
    /\ callbacks # <<>>
    /\ callbacks' = Tail(callbacks)
    /\ lastDevice' = Head(callbacks)
    /\ BeginStaging(AppStaging)
    /\ bt' = [BtIdle EXCEPT !.at = "staging", !.job = "event", !.dev = Head(callbacks),
                            !.vals = channel[Head(callbacks)]]
    /\ UNCHANGED <<channel, shared, started, sent, app, served, disturbed>>

\* The run loop pops a posted callback and runs mkh_event_send_callback.
EventCallback ==
    /\ bt.at = "idle"
    /\ callbacks # <<>>
    /\ callbacks' = Tail(callbacks)
    /\ BeginStaging(AppStaging)
    /\ bt' = [BtIdle EXCEPT !.at = "staging", !.job = "event", !.dev = Head(callbacks),
                            !.vals = channel[Head(callbacks)]]
    /\ UNCHANGED <<channel, shared, lastDevice, started, sent, app, served, disturbed>>

\* mkh_next_active_device(lastDevice): how many turns of its loop reach d, and
\* the active device reached first.
TurnsTo(d) == IF d > lastDevice THEN d - lastDevice ELSE d - lastDevice + NumDevices
NextActive(d) ==
    /\ active[d]
    /\ \A e \in Devices : active[e] => TurnsTo(d) <= TurnsTo(e)

\* mkh_broadcast_control fires (the timer is armed from the CONNECT phase on
\* and re-arms itself on every path; with no active device nothing else happens).
\* The run loop gets to its timers only when it has found the callback list empty.
ControlPick ==
    /\ bt.at = "idle"
    /\ started
    /\ callbacks = <<>>
    /\ \E d \in Devices :
        /\ NextActive(d)
        /\ lastDevice' = d
        /\ bt' = [BtIdle EXCEPT !.at = "copy", !.job = "control", !.dev = d]
    /\ UNCHANGED <<channel, shared, callbacks, started, radio, app, served, disturbed>>

\* Seeded bug: the timer repeats the last telegram instead of reading the values.
ControlCopyStale ==
    /\ bt.at = "copy"
    /\ BeginStaging(AppStaging)
    /\ bt' = [bt EXCEPT !.at = "staging", !.vals = sent[bt.dev]]
    /\ served' = [served EXCEPT ![bt.dev] = IF pendingOff[bt.dev] > 0 THEN @ + 1 ELSE @]
    /\ UNCHANGED <<channel, shared, callbacks, lastDevice, started, sent, app, disturbed>>

\* The values are copied under the mutex; building the telegram is local.
ControlCopy ==
    /\ bt.at = "copy"
    /\ BeginStaging(AppStaging)
    /\ bt' = [bt EXCEPT !.at = "staging", !.vals = channel[bt.dev]]
    /\ served' = [served EXCEPT ![bt.dev] = IF pendingOff[bt.dev] > 0 THEN @ + 1 ELSE @]
    /\ UNCHANGED <<channel, shared, callbacks, lastDevice, started, sent, app, disturbed>>

\* The telegram is in the buffer.  CONNECT of mkh_start needs nothing more.
StagedConnect ==
    /\ BtStaging /\ bt.job = "start"
    /\ EndStaging(AppStaging)
    /\ bt' = BtIdle
    /\ UNCHANGED <<channel, shared, callbacks, lastDevice, started, sent, app, served, disturbed>>

\* mkh_set_adv_payload returns in a CONTROL path.  A mixture is heard as this
\* telegram or leaves the hub at its last one; the rare mixture that carries the
\* checksum of a third telegram (see MkhProtocol) counts as not decoded here,
\* and no property is about the values it brings.
StagedControl ==
    /\ BtStaging /\ bt.job # "start"
    /\ EndStaging(AppStaging)
    /\ bt' = [bt EXCEPT !.at = "show"]
    /\ \E decoded \in IF overlap THEN BOOLEAN ELSE {TRUE} :
        /\ sent' = IF decoded THEN [sent EXCEPT ![bt.dev] = bt.vals] ELSE sent
        /\ disturbed' = [disturbed EXCEPT ![bt.dev] =
                            @ \/ (~decoded /\ pendingOff[bt.dev] > 0)]
    /\ UNCHANGED <<channel, shared, callbacks, lastDevice, started, app, served>>

\* Seeded bug: an event send counts as one of the services owed.
ShowCountsEvents ==
    /\ bt.at = "show"
    /\ hubBroadcasting' = [hubBroadcasting EXCEPT ![bt.dev] = TRUE]
    /\ bt' = [bt EXCEPT !.at = "count"]
    /\ UNCHANGED <<channel, active, pendingOff, transitioning, callbacks, lastDevice, started,
                   radio, app, served, disturbed>>

\* mkh_hub_broadcasting[device_id] = true, on both CONTROL paths; only the
\* timer goes on to the countdown.
Show ==
    /\ bt.at = "show"
    /\ hubBroadcasting' = [hubBroadcasting EXCEPT ![bt.dev] = TRUE]
    /\ bt' = IF bt.job = "event" THEN BtIdle ELSE [bt EXCEPT !.at = "count"]
    /\ UNCHANGED <<channel, active, pendingOff, transitioning, callbacks, lastDevice, started,
                   radio, app, served, disturbed>>

\* Seeded bug: the counter is decremented without looking at it.
CountLoadUnguarded ==
    /\ bt.at = "count"
    /\ bt' = [bt EXCEPT !.at = "store", !.count = pendingOff[bt.dev] - 1]
    /\ UNCHANGED <<channel, shared, callbacks, lastDevice, started, radio, app, served, disturbed>>

\* mkh_pending_off_services[device_id]-- is a load and a store.
CountLoad ==
    /\ bt.at = "count"
    /\ bt' = IF pendingOff[bt.dev] > 0
               THEN [bt EXCEPT !.at = "store", !.count = pendingOff[bt.dev] - 1]
               ELSE BtIdle
    /\ UNCHANGED <<channel, shared, callbacks, lastDevice, started, radio, app, served, disturbed>>

\* Seeded bug: the drop comes one service early.
CountStoreEarlyDrop ==
    /\ bt.at = "store"
    /\ pendingOff' = [pendingOff EXCEPT ![bt.dev] = bt.count]
    /\ bt' = IF bt.count <= 1 THEN [bt EXCEPT !.at = "dropActive"] ELSE BtIdle
    /\ UNCHANGED <<channel, active, hubBroadcasting, transitioning, callbacks, lastDevice,
                   started, radio, app, served, disturbed>>

CountStore ==
    /\ bt.at = "store"
    /\ pendingOff' = [pendingOff EXCEPT ![bt.dev] = bt.count]
    /\ bt' = IF bt.count = 0 THEN [bt EXCEPT !.at = "dropActive"] ELSE BtIdle
    /\ UNCHANGED <<channel, active, hubBroadcasting, transitioning, callbacks, lastDevice,
                   started, radio, app, served, disturbed>>

\* The countdown reached zero: the three stores that drop the device.
DropActive ==
    /\ bt.at = "dropActive"
    /\ active' = [active EXCEPT ![bt.dev] = FALSE]
    /\ bt' = [bt EXCEPT !.at = "dropShow"]
    /\ UNCHANGED <<channel, hubBroadcasting, pendingOff, transitioning, callbacks, lastDevice,
                   started, radio, app, served, disturbed>>

DropShow ==
    /\ bt.at = "dropShow"
    /\ hubBroadcasting' = [hubBroadcasting EXCEPT ![bt.dev] = FALSE]
    /\ bt' = [bt EXCEPT !.at = "dropSettle"]
    /\ UNCHANGED <<channel, active, pendingOff, transitioning, callbacks, lastDevice, started,
                   radio, app, served, disturbed>>

\* Seeded bug: the row is never unlocked.
DropSettleForgets ==
    /\ bt.at = "dropSettle"
    /\ bt' = BtIdle
    /\ UNCHANGED <<channel, shared, callbacks, lastDevice, started, radio, app, served, disturbed>>

DropSettle ==
    /\ bt.at = "dropSettle"
    /\ transitioning' = [transitioning EXCEPT ![bt.dev] = FALSE]
    /\ bt' = BtIdle
    /\ UNCHANGED <<channel, active, hubBroadcasting, pendingOff, callbacks, lastDevice, started,
                   radio, app, served, disturbed>>

-----------------------------------------------------------------------------
\* Specification

\* What the Arduino task is asked to do, and its progress inside a call.
AppCall ==
    \/ \E dp \in Configured, v \in Levels : Sweep(dp[1], dp[2], v)
    \/ \E d \in Devices : Tap(d)
AppStep ==
    \/ WriteNeutral \/ \E tooSoon \in BOOLEAN : Notify(tooSoon)
    \/ ToggleEnter \/ ToggleMark \/ OnCancel \/ OffArm
    \/ OnConnect \/ OnStaged \/ OnActivate \/ OnShow \/ OnSettle

\* Progress of the BTstack task inside a handler.
BtStep ==
    \/ ControlCopy \/ StagedConnect \/ StagedControl \/ Show \/ CountLoad \/ CountStore
    \/ DropActive \/ DropShow \/ DropSettle

Next == AppCall \/ AppStep \/ HciWorking \/ EventCallback \/ ControlPick \/ BtStep

Spec == Init /\ [][Next]_vars

\* Both tasks keep running, HCI comes up, and the run loop serves its callback
\* list and its due timer.  It catches up with the callback list again and
\* again, because a device posts at most one callback per 25 ms.
Fairness ==
    /\ WF_vars(AppStep)
    /\ WF_vars(BtStep)
    /\ SF_vars(HciWorking)
    /\ SF_vars(EventCallback)
    /\ SF_vars(ControlPick)
    /\ []<>(bt.at = "idle" /\ callbacks = <<>>)

FairSpec == Spec /\ Fairness
-----------------------------------------------------------------------------
\* Properties

\* The Arduino task is inside a toggle of d that was not refused.
Toggling(d) == app.dev = d /\ app.op \in {"off", "on"} /\ app.at \notin {"idle", "enter"}

\* The BTstack task is inside the three stores that drop d.
Dropping(d) == bt.dev = d /\ bt.at \in {"dropActive", "dropShow", "dropSettle"}

\* WO9 parks the third hub: whatever is tapped or driven, no eligible-only
\* path makes it active, shows it, posts a callback for it or airs it.
ParkedStaysOff ==
    \A d \in Devices : d >= NumEligible =>
        /\ ~active[d] /\ ~hubBroadcasting[d] /\ pendingOff[d] = 0
        /\ \A i \in 1 .. Len(callbacks) : callbacks[i] # d
        /\ ~(bt.job \in {"event", "control"} /\ bt.dev = d)

\* mkh_pending_off_services has no lock: its decrement (a load and a store on
\* the BTstack task) never overlaps a store by a toggle, so no countdown is lost.
CountdownHasOneWriter ==
    \A d \in Devices :
        ~(bt.at \in {"count", "store"} /\ bt.dev = d /\ pendingOff[d] > 0 /\ Toggling(d))

\* While a countdown runs, the device is still in the rotation that serves it
\* and its row refuses taps, so no tap can cut the OFF sequence short.
CountdownIsGuarded ==
    \A d \in Devices : pendingOff[d] > 0 => active[d] /\ transitioning[d]

\* A row refuses taps only while something is left that will unlock it: a
\* toggle still running, a countdown being served, or the drop in progress.
LockoutHasOwner ==
    \A d \in Devices : transitioning[d] => Toggling(d) \/ pendingOff[d] > 0 \/ Dropping(d)

\* A device leaves the rotation only after OffGrace - 1 services that read the
\* channel values after its countdown was started (one service that was
\* already under way may be counted too).
DropIsServed ==
    [][\A d \in Devices : active[d] /\ ~active'[d] => served[d] >= OffGrace - 1]_vars

\* If nothing re-drives the device during its grace period, the last telegram
\* sent to it before the drop is neutral on every channel.  (A sweep that does re-drive it
\* makes the last telegram a driven one, whatever the header says of toggle_off.)
QuietDropIsNeutral ==
    [][\A d \in Devices : active[d] /\ ~active'[d] /\ ~disturbed[d] => sent[d] = Quiet]_vars

\* A device re-enters the rotation with every channel neutral and no drop
\* pending, although the sweep has kept writing its channels while it was off.
RejoinsAtNeutral ==
    [][\A d \in Devices : ~active[d] /\ active'[d] => channel[d] = Quiet /\ pendingOff[d] = 0]_vars

\* The flags and counters of the two tasks implement the three-state life
\* cycle the header promises, fairness included.
Phase(d) ==
    IF ~active[d] THEN "off"
    ELSE IF pendingOff[d] > 0 \/ (bt.at = "dropActive" /\ bt.dev = d) THEN "draining"
    ELSE "on"
Lifecycle == INSTANCE HubLifecycle WITH
    phase <- [d \in Devices |-> Phase(d)],
    owed <- pendingOff
ImplementsLifecycle == Lifecycle!Spec

\* A tapped row does not stay locked out.
LockoutEnds == \A d \in Devices : transitioning[d] ~> ~transitioning[d]

\* The rotation starves nobody: a device that stays active is serviced by the
\* timer again and again, whatever events are sent out of turn, for it or for
\* another (an event send leaves mkh_time_slice_last_device alone).
ActiveIsServiced ==
    \A d \in Devices :
        []<>(~active[d] \/ (bt.at = "show" /\ bt.job = "control" /\ bt.dev = d))

\* A stick held still reaches the hub: if an active device's channels stop
\* changing (and no CONNECT replay keeps colliding with the sends), the last
\* telegram sent to it ends up carrying exactly those values.
HeldValuesReachAir ==
    \A d \in Devices : \A c \in Values :
        (<>[](active[d] /\ channel[d] = c) /\ <>[](app.at # "staging")) => <>[](sent[d] = c)

\* The following is what a comment of mkh_broadcast.h says; the code breaks it.

\* mkh_broadcast.h, mkh_hub_broadcasting: true for the slots the firmware is
\* actively broadcasting to (looked at when no toggle or drop is under way).
ShownOnIsActive ==
    \A d \in Devices : hubBroadcasting[d] /\ ~transitioning[d] => active[d]

-----------------------------------------------------------------------------
\* The inductive invariant behind the safety properties

InToggle == app.op \in {"off", "on"} /\ app.at \notin {"idle", "enter"}
Locked(d) == Toggling(d) /\ app.at # "mark"

\* The CONTROL service of d that has read the channel values and has not yet
\* stored its countdown.
ServingNow(d) == bt.job = "control" /\ bt.dev = d /\ bt.at \in {"staging", "show", "count", "store"}

\* Which steps belong to which call.
AppShape ==
    /\ app.at = "idle" <=> app.op = "none"
    /\ app.op = "sweep" => app.at = "notify"
    /\ app.at = "arm" => app.op = "off"
    /\ app.at \in {"cancel", "connect", "staging", "activate", "show", "settle"} => app.op = "on"

BtShape ==
    /\ bt.at = "idle" <=> bt.job = "none"
    /\ bt.job = "start" => bt.at = "staging"
    /\ bt.job = "event" => bt.at \in {"staging", "show"}

\* Only eligible devices are anywhere in the machinery.
OnlyEligible ==
    /\ \A d \in Devices : d >= NumEligible =>
        ~active[d] /\ ~hubBroadcasting[d] /\ pendingOff[d] = 0
    /\ \A i \in 1 .. Len(callbacks) : callbacks[i] < NumEligible
    /\ bt.job \in {"event", "control"} => bt.dev < NumEligible
    /\ InToggle => app.dev < NumEligible

\* The lockout: nothing is pending for a device while a tap on it is decided
\* or a toggle of it runs, so the countdown has one writer at a time.
LockoutInv ==
    /\ app.at \in {"enter", "mark"} => ~transitioning[app.dev]
    /\ \A d \in Devices :
        /\ pendingOff[d] > 0 => active[d] /\ transitioning[d] /\ ~Toggling(d)
        /\ Dropping(d) => transitioning[d] /\ pendingOff[d] = 0 /\ ~Toggling(d)
        /\ Locked(d) => transitioning[d]
        /\ Toggling(d) /\ app.op = "off" => active[d]
        /\ transitioning[d] => Toggling(d) \/ pendingOff[d] > 0 \/ Dropping(d)
    /\ bt.at = "dropActive" => active[bt.dev]
    /\ bt.at \in {"dropShow", "dropSettle"} => ~active[bt.dev]
    /\ bt.at = "store" => pendingOff[bt.dev] = bt.count + 1

\* What a toggle has written so far.
NeutralInv ==
    /\ app.at \in {"enter", "mark", "cancel"} => app.port = 0
    /\ InToggle /\ app.at = "write" =>
        \A p \in Ports : p < app.port => channel[app.dev][p] = Neutral
    /\ InToggle /\ app.at = "notify" =>
        \A p \in Ports : p <= app.port => channel[app.dev][p] = Neutral
    /\ InToggle /\ app.at \in {"arm", "connect", "staging", "activate"} =>
        channel[app.dev] = Quiet

\* The services still owed and those already given add up, short of one that
\* was under way when the countdown began.
GraceInv ==
    /\ \A d \in Devices : pendingOff[d] > 0 =>
        /\ served[d] + pendingOff[d] >= OffGrace - 1
        /\ ServingNow(d) => served[d] + pendingOff[d] >= OffGrace
    /\ bt.at = "dropActive" => served[bt.dev] >= OffGrace - 1

\* Left undisturbed, a draining device holds neutral values, and from the first
\* counted service on so does the last telegram sent to it.
QuietInv ==
    /\ \A d \in Devices : pendingOff[d] > 0 /\ ~disturbed[d] =>
        /\ channel[d] = Quiet
        /\ served[d] > 0 /\ BtStaging /\ bt.job # "start" /\ bt.dev = d => bt.vals = Quiet
        /\ served[d] > 0 /\ ~(served[d] = 1 /\ BtStaging /\ bt.job = "control" /\ bt.dev = d)
             => sent[d] = Quiet
    /\ bt.at = "dropActive" /\ ~disturbed[bt.dev] => sent[bt.dev] = Quiet

IInv ==
    /\ TypeOK /\ AppShape /\ BtShape /\ OnlyEligible
    /\ LockoutInv /\ NeutralInv /\ GraceInv /\ QuietInv
=============================================================================
