------------------------------ MODULE MkhSleep ------------------------------
(***************************************************************************)
(* sketch.cpp: the idle screen and deep sleep, on top of the broadcast.     *)
(* Before the CPU is halted every hub is switched off the way its dashboard *)
(* row would do it, and the Arduino task then polls the flags the BTstack   *)
(* task writes until all hubs are gone, or for two seconds at most.         *)
(*                                                                         *)
(* The sweep runs on both pages (a controller that has not reported yet     *)
(* drives with its last report and does not keep the idle screen away), but *)
(* not inside enterDeepSleep, which does not return to loop().  The touch   *)
(* and the clock that lead from page to page are left open.                 *)
(***************************************************************************)
EXTENDS MkhBroadcast

CONSTANT
    WaitServices    \* CONTROL services that two seconds are sure to hold, about 19 in the code

ASSUME WaitAssumption == WaitServices \in Nat
\* Two hubs of three services each are in the rotation at most.
ASSUME WaitSuffices == WaitServices > NumEligible * OffGrace

VARIABLES
    page,           \* the page shown, or where enterDeepSleep is
    next,           \* the hub its loops are at
    waited,         \* CONTROL services since the wait began
    stopped,        \* the hubs that were in the rotation when sleep was entered
    clean           \* allClear, as it is logged

sleeping == <<page, next, waited, stopped, clean>>
sleepVars == <<vars, sleeping>>

SleepTypeOK ==
    /\ TypeOK
    /\ page \in {"dashboard", "idle", "toggle", "shown", "transition", "asleep"}
    /\ next \in Devices
    /\ waited \in 0 .. WaitServices
    /\ stopped \subseteq Devices
    /\ clean \in BOOLEAN

SleepInit ==
    /\ Init
    /\ page = "dashboard" /\ next = 0 /\ waited = 0 /\ stopped = {} /\ clean = FALSE

Awake == page \in {"dashboard", "idle"}

\* Sweeps go on on every page, rows are tapped on the dashboard.
Drive ==
    /\ Awake
    /\ \E dp \in Configured, v \in Levels : Sweep(dp[1], dp[2], v)
    /\ UNCHANGED sleeping
TapRow ==
    /\ page = "dashboard"
    /\ \E d \in Devices : Tap(d)
    /\ UNCHANGED sleeping

\* waitStart is set when the last toggle has returned.
Waiting == page \in {"shown", "transition"} /\ app.at = "idle"

\* The progress of both tasks inside their calls, and the events of the run loop.
TaskStep ==
    /\ page # "asleep"
    /\ AppStep \/ BtStep \/ HciWorking \/ EventCallback
    /\ UNCHANGED sleeping

TimerFires ==
    /\ page # "asleep"
    /\ ControlPick
    /\ waited' = IF Waiting /\ waited < WaitServices THEN waited + 1 ELSE waited
    /\ UNCHANGED <<page, next, stopped, clean>>

\* 30 seconds without a touch: the countdown of a tapped row has long ended.
EnterIdle ==
    /\ page = "dashboard" /\ app.at = "idle"
    /\ started /\ \A d \in Devices : ~transitioning[d]
    /\ page' = "idle"
    /\ UNCHANGED <<vars, next, waited, stopped, clean>>

\* A touch, a hold that is released early, or a controller that reports.
WakeFromIdle ==
    /\ page = "idle" /\ app.at = "idle"
    /\ page' = "dashboard"
    /\ UNCHANGED <<vars, next, waited, stopped, clean>>

\* SLEEP held for long enough, or the auto-sleep timer: enterDeepSleep.
EnterDeepSleep ==
    /\ page = "idle" /\ app.at = "idle"
    /\ page' = "toggle" /\ next' = 0
    /\ stopped' = {d \in Devices : active[d]}
    /\ UNCHANGED <<vars, waited, clean>>

\* Seeded bug: the loop ends before the last hub.
ToggleOffShort ==
    /\ page = "toggle" /\ app.at = "idle"
    /\ app' = [at |-> "enter", op |-> "off", dev |-> next, port |-> 0]
    /\ IF next < NumEligible - 2 THEN next' = next + 1 /\ UNCHANGED page
       ELSE next' = 0 /\ page' = "shown"
    /\ UNCHANGED <<channel, shared, callbacks, lastDevice, started, radio, bt, served, disturbed,
                   waited, stopped, clean>>

\* mkh_broadcast_toggle_off for one hub after the other, then the first poll.
ToggleOff ==
    /\ page = "toggle" /\ app.at = "idle"
    /\ app' = [at |-> "enter", op |-> "off", dev |-> next, port |-> 0]
    /\ IF next < NumDevices - 1 THEN next' = next + 1 /\ UNCHANGED page
       ELSE next' = 0 /\ page' = "shown"
    /\ UNCHANGED <<channel, shared, callbacks, lastDevice, started, radio, bt, served, disturbed,
                   waited, stopped, clean>>

\* Two seconds are over: the timer has fired that often, or has had nothing to send
\* for long.
OutOfTime ==
    \/ waited = WaitServices
    \/ (\A d \in Devices : ~active[d]) /\ bt.at = "idle" /\ callbacks = <<>>

\* A flag is found set: the poll starts over, or the wait times out.
NotClear ==
    \/ page' = "shown" /\ next' = 0 /\ UNCHANGED clean
    \/ OutOfTime /\ page' = "asleep" /\ clean' = FALSE /\ UNCHANGED next

PollShown ==
    /\ page = "shown" /\ Waiting
    /\ \/ hubBroadcasting[next] /\ NotClear
       \/ ~hubBroadcasting[next] /\ page' = "transition" /\ UNCHANGED <<next, clean>>
    /\ UNCHANGED <<vars, waited, stopped>>

PollTransition ==
    /\ page = "transition"
    /\ \/ transitioning[next] /\ NotClear
       \/ /\ ~transitioning[next]
          /\ IF next < NumDevices - 1 THEN page' = "shown" /\ next' = next + 1 /\ UNCHANGED clean
             ELSE page' = "asleep" /\ clean' = TRUE /\ UNCHANGED next
    /\ UNCHANGED <<vars, waited, stopped>>

\* Both CPUs are halted until the BOOT key reboots them, into SleepInit.
Halted == page = "asleep" /\ UNCHANGED sleepVars

SleepNext ==
    \/ Drive \/ TapRow \/ TaskStep \/ TimerFires
    \/ EnterIdle \/ WakeFromIdle \/ EnterDeepSleep
    \/ ToggleOff \/ PollShown \/ PollTransition
    \/ Halted

SleepSpec == SleepInit /\ [][SleepNext]_sleepVars

-----------------------------------------------------------------------------
(***************************************************************************)
(* Properties.                                                             *)
(***************************************************************************)

\* sketch.cpp:3795: every hub that was driven when sleep was entered has left the
\* rotation, and neutral is the last it was told, whether the wait ended clean or not.
AsleepIsNeutral == page = "asleep" => \A d \in stopped : ~active[d] /\ sent[d] = Quiet

\* sketch.cpp:3812: two seconds are enough for the countdowns of all hubs.  The wait
\* times out only on a row that still shows a hub which is no longer broadcast to.
TimeoutMeansStaleRow ==
    page = "asleep" /\ ~clean => \E d \in Devices : hubBroadcasting[d] /\ ~active[d]
=============================================================================
