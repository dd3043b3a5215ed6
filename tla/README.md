# MK1-Tank: TLA+ models, checks and proofs

MK1-Tank is ESP32-S3 firmware that drives Mould King MK6 hubs from an Xbox controller. It
broadcasts non-connectable BLE advertisements (telegrams), holds a table that maps controller
inputs to hub ports, lets the user edit that table on a touch screen, and stores it in flash.
This directory holds its TLA+ models, the TLC configurations that check them, and the proofs
that TLAPS checks.

    tlc -workers 2 -config Sleep.cfg MCMkhSleep     (one run)
    tlapm MkhBroadcastProofs.tla                    (one proof module)

`PROJECT.json` lists runs, mutants, theorems, findings and hazards, and maps every definition
to the source lines it models.

## 1. Inventory

Two FreeRTOS tasks on two cores run the firmware's own code: the **Arduino task** (`loop()` in
`src/main/sketch.cpp`, core 1) and the **BTstack task** (its run loop, core 0).

| component | source | state | operations | talks to | hard part |
|---|---|---|---|---|---|
| hub broadcast | `mkh_broadcast.c` | channel values (mutex), active, shown, pending-off and transitioning flags (no lock), rotation cursor, advertising buffer | `mkh_set_channel`, `toggle_off`, `toggle_on`, CONTROL timer, event callback, HCI start | called by the Arduino task, runs on both | unlocked state shared by two cores, a countdown that must not be cut short, events that arrive after a drop |
| run loop | vendored BTstack | callback list, timers | post, pop, timers | calls the broadcast | order of callbacks and timers, one registration per hub |
| input drive | `sketch.cpp` 2660-3260, 3507 | latch, pulse and lock state per binding, controller seats | sweep, connect, disconnect failsafe | reads the table, writes channels | edges, frames, arbitration, ports unbound while driven |
| mapping table | `mkh_config.c` | 3 x 6 ports with up to 8 bindings | defaults, parse line, fallbacks, set, serialize | everything | append semantics, cap, what a file cannot say |
| storage | `mkh_storage.cpp` | `/mk1config.txt` and its temporary file | boot read, seed, migrate, reload, save | table, flash | power loss and failing calls between any two steps |
| mapping editor | `sketch.cpp` 229-2700 | page, session, edit context, prompts | touches, capture, Test-ON, SAVE, RESET, RESET ALL | table, storage, latch state | long sequences of taps over shared scratch state |
| dashboard | `sketch.cpp` 3862-4150 | debounce times | tap on a hub row | broadcast toggles | tap against a running sequence |
| idle and sleep | `sketch.cpp` 3786-3860, 4045-4127 | idle timers | idle screen, wake, deep sleep | broadcast toggles, without the tap guard | flags of the other task polled one by one, a bounded wait for the hubs to drop |
| heading lock | `mkh_thl.cpp` | tunables | output for a heading error | input drive | wrap-around, floor, ceiling |
| telegrams | `mkh_protocol.c`, `mkh_broadcast.c` 188 | advertising buffer | layout, whitening, CRC, staging | broadcast, radio | a receiver that is not in the repository; one buffer, two tasks |
| touch, gyro | `mkh_touch.cpp`, `mkh_imu.cpp` | last touch; heading | poll | editor; lock | I/O |
| SD card | `mkh_sdcard.cpp` | | | nobody: retired | |

What makes each component correct:

* *broadcast*: a hub is switched off only after neutral has aired, a hub that is switched on
  starts neutral, no tap cuts a sequence short, a locked row is unlocked again, every active hub
  is served, held values reach the air, the third hub stays parked, the row shows the truth;
* *table and storage*: what was saved comes back, whatever fails leaves the old or the new
  configuration, rewriting an old file does not change what it means, the cap holds;
* *input drive*: nothing keeps driving when the controller is gone or the binding is;
  pulses have their length; a lock gives way to the stick;
* *editor*: only what was committed reaches the table, for the port it was meant for; a page edits
  the binding it shows; walking about changes nothing;
* *sleep*: no hub is left driven when the CPU halts;
* *telegrams*: the hub hears the values that were ordered, or nothing; if both tasks stage at once, nothing
  that stands in neither telegram at its place.

Findings that the hazards of `PROJECT.json` led to are in section 6.

## 2. Modules

| module | models | role |
|---|---|---|
| `MkhBroadcast` | `mkh_broadcast.c`, the tap dispatch and the sweep of `sketch.cpp`, the callback list | component |
| `HubLifecycle` | what `mkh_broadcast.h` promises about one hub | abstract specification |
| `MCMkhBroadcast` | | constants for TLC |
| `MkhBroadcastProofs` | | proofs, the refinement of `HubLifecycle` included |
| `MkhSleep` | idle screen and `enterDeepSleep` of `sketch.cpp`, on top of `MkhBroadcast` | composition |
| `MCMkhSleep`, `MkhSleepProofs` | | constants for TLC; proofs |
| `MkhProtocol` | `mkh_protocol.c`, `mkh_set_adv_payload`, a Bluetooth controller and a hub | component |
| `MCMkhProtocol`, `MkhProtocolProofs` | | constants for TLC; proofs |
| `MkhDrive` | controller seats, callbacks and failsafe, `processMappedInputs`, and what editor and dashboard do to it | component |
| `MkhInput` | scaling of sticks and triggers, invert and max, the heading lock's control law (`mkh_thl.cpp`) | operators |
| `MCMkhDrive`, `MkhDriveProofs` | | constants for TLC; proofs |
| `MkhConfigFile` | the table, parsing and serialization of `mkh_config.c` | operators |
| `MkhConfigFileProofs` | | proofs: loading, the round trip of a save |
| `FoldFacts` | | proofs about the folds and recursive functions the models use: induction over a finite set, sums, registers that repeat a step |
| `MkhStorage` | `mkh_storage.cpp` on top of it, and the editor's calls of it | component |
| `ConfigStore` | what `mkh_storage.h` promises | abstract specification |
| `MCMkhStorage`, `MkhStorageProofs` | | constants for TLC; proofs |
| `MkhEditor` | the pages, session and edit context of the mapping editor, on top of `MkhConfigFile` | component |
| `EditSession` | what the editor is for: a draft of the table | abstract specification |
| `MCMkhEditor`, `MkhEditorProofs` | | constants for TLC; proofs |

**MkhBroadcast.** `app` and `bt` say where the two tasks are; the other variables are the C
variables of the same names. Only `mkh_channel_value` has a mutex, held for one copy or one
store, so an access to it is one step. Every other shared variable is read and written without a
lock: each store, and each load whose value is used later, is a step of its own, the decrement of
`mkh_pending_off_services` being a load (`CountLoad`) and a store (`CountStore`). Reads that only
one writer could change between them are taken together: `Tap` reads the lockout and the shown
flag at once because only the Arduino task itself sets a lockout, and a flag seen before or after
a send is a tap before or after it. `mkh_set_channel` is two steps, the locked half (`Sweep`,
`WriteNeutral`) and the event half (`Notify`); a sweep is a sequence of single-port writes with
any value, so it can be at any port when the other task runs. `mkh_set_adv_payload` has a
beginning and an end, because both tasks call it; if they overlap, the hub receives the telegram
or keeps its last one (`overlap`; the rare mixture heard as a third telegram, see MkhProtocol, counts
as not decoded here, and no property of this module is about the values it brings). Stores of one task are taken to become visible in program
order. The clock is left out: an event is too soon or not by choice, and the timer fires whenever
the run loop gets to it. `sent`, `served` and `disturbed` are history.

**MkhSleep.** `EXTENDS MkhBroadcast`: its steps are the steps of both tasks, the sweep and the taps,
and the pages `loop()` goes through. The sweep runs on the dashboard and on the idle screen (a
controller that is connected and reports nothing keeps neither awake), rows are tapped on the
dashboard only. `EnterIdle` needs a dashboard that nobody touched for 30 seconds, which the model
takes as every countdown over and advertising started. `enterDeepSleep` calls
`mkh_broadcast_toggle_off` for every slot without looking at the lockout (`ToggleOff`, one per
hub, each running through the toggle steps of `MkhBroadcast`) and then polls `mkh_hub_broadcasting`
and `mkh_device_transitioning` hub by hub, a read per step (`PollShown`, `PollTransition`); a set flag
starts the poll over, or ends the wait when `OutOfTime` says that two seconds may be over. The wait's
clock is the number of CONTROL services it holds (`WaitServices`).

**MkhProtocol.** Bytes, because its properties are about bytes: telegram, CRC, bit reversals and both
whitenings as `mkh_protocol.c` computes them, and the buffer of 27 bytes that `mkh_set_adv_payload`
fills and hands to BTstack. A byte is the sequence of its bits, the lowest first; what a C loop does to a register is a
recursive function of the bits or bytes done. `Collide` is the state both tasks can leave behind when `toggle_on`
replays CONNECT while the timer stages a CONTROL: any mixture of the bytes, the length byte of the AD structure
included, with either length. (BTstack keeps a pointer to the buffer, so it may also read a mixture where the
two calls did not overlap; the bytes are the same.) Such a mixture can carry a valid checksum: an order part of which differs from CONNECT by a
multiple of the CRC polynomial, as 145, 136, 129 on the first three ports does, can be heard as a third telegram. The other
side is external and written independently: the controller's channel whitening from the recurrence of
the Bluetooth specification instead of a shift register, the hub's CRC over bits instead of mirrored
bytes. It explains two numbers of the source. `mkh_protocol_encrypt` whitens 15 bytes it throws away
because 2 header bytes, 6 address bytes and 7 bytes of AD structures precede the payload in the
packet, and the second key 0x25 is channel 37, whose whitening the controller then undoes. What a hub
hears is exact: a CONTROL telegram whose last channel and trailer happen to be the checksum of its first
eight bytes (`ChecksumFits`, one order in 65536) also has the form of an eight-byte telegram, and a hub that
looked for one would hear both; three orders of the run (`Ambiguous`) are of that kind.

**MkhStorage.** One task runs all of it. `at` is where it is; each filesystem call is an action,
with its failure as a second disjunct when `Faults` has it. `Crash` can come at any step; only
the flash survives. `WriteTmp` and `SeedWrite` are the close of the file, which is when LittleFS
commits what was written. A mount can fail, or fail and format the partition (`begin(true, ...)`);
a mount that failed makes every later open fail until the next boot. The three ways to lose the
stored configuration are actions of their own (`MountFormats`, `RenameFails`, `CrashInGap`). Migration
is part of reading the file, as in `readAndParseConfigFile`, and goes through the same save. A
binding is one value, a line either parses or is rejected, and `AsWritten` says that an axis loses
an explicit `mode=` when it is written. `saving` and `result` are history.

**MkhDrive.** `loop()` is a cycle of four stages (`at`): `BP32.update()`, one callback per seat that
changed, the sweep, and at most one touch with the clock and the gyro moving on at the end. The
BTstack task changes `controllers_`, the seats that `update()` reads, at any moment: a report under
the mutex, a disconnect without it (a report torn by a disconnect's `memset` is left out).
`update()` keeps the last report in `controller[i]._data`, as the `Controller` objects do. `Swept`
is one port of `processMappedInputs` with its three passes: `SweptState` advances every binding,
then an engaged lock suppresses its siblings or gives way, then the contributions are summed and
clamped. The three latch arrays, five pulse arrays and three lock arrays are one record per
binding; the two frames of a pulse share a field because the code never reads both. A table change
keeps the channel of a port it unbinds, and `orphans` remembers those ports. `ToggleOff` and
`ToggleOn` are what a tap does to the channels and latches, refused or not; what it does to the
rotation is in `MkhBroadcast`. Reports are functions from tokens to readings; `MkhInput` turns
them into bytes with exact fractions, which for every stick and trigger reading give the byte the
floats give.

**MkhEditor.** One action per tap that `dispatchHubSelectTouch`, `dispatchPortSelectTouch`,
`dispatchCaptureTouch` and `dispatchSettingsTouch` distinguish, the stick or button that
`checkCapture` sees, and `Restart`. `page` and `prompt` are what is on the screen, `hub`, `port`,
`captured`, `index` and `backToCapture` the shared `editCtx`, `working` and `baseline` the settings
page's scratch values, `dirty` and `pending` the session. `EnterSettings` is
`goToPage(PAGE_EDIT_SETTINGS)` with its commit, its append and the missing cap: a write past the array
sets `overrun`, after which the model only restarts, since what the program then does is not defined.
Actions that leave the editor push, save and clear as one tap does. `SaveTable` fails or not by
choice; what the steps of a save do to the file is in `MkhStorage`, what a push does to latches in
`MkhDrive`.

**Abstract specifications.** `HubLifecycle` is the three-state life of a hub (on, draining, off)
with the number of services owed; `MkhBroadcast` implements it with `phase` computed from the
flags and the BTstack task's place. `ConfigStore` is a stored configuration that a save replaces
in one step; `MkhStorage` implements it with the configuration taken from the temporary file between
remove and rename. Three faults destroy the stored configuration and have no counterpart there
(`Destroys`); `ImplementsStore` excuses just those steps and holds the ones after them to the abstract
specification again. `EditSession` is a draft of the table that changes by one binding at a time,
goes live and to flash only as a whole and is dropped only as a whole; `MkhEditor` implements it with
the draft being, port by port, the pending entry if it is dirty and the live one if not.

## 3. Runs

| run | instance | shows | states, time |
|---|---|---|---|
| `Sleep` | 2 eligible hubs, 1 port each, neutral and driven, grace 3, a wait of 7 services | type invariant; `CountdownHasOneWriter`, `CountdownIsGuarded`, `LockoutHasOwner`; `DropIsServed`, `QuietDropIsNeutral`, `RejoinsAtNeutral`, with and without sleep; `AsleepIsNeutral`, `TimeoutMeansStaleRow` | 4.9 million, about 2 min |
| `BroadcastRotation` | 2 eligible hubs, 1 port each, that of the first hub bound, grace 2, fair | `ActiveIsServiced`, `ImplementsLifecycle`, both with event sends between the turns | 220 thousand, about 2 min |
| `BroadcastParked` | 1 eligible hub and a parked one, both driven, grace 2, fair | `ParkedStaysOff`, `LockoutEnds`, `HeldValuesReachAir` | 15 thousand |
| `Encoding` | every byte on every channel of both hubs, all combinations of extremes, three orders that also contain a shorter telegram, every mixture of CONNECT and eight orders per hub, among them neutral (for the third slot too) and two that make third telegrams | `OrderIsHeard`, `MixtureStaysInPlace`, `NeutralMixtureIsHarmless` | 17 thousand, about 1/2 min |
| `Storage` | 2 ports (one with a compiled-in binding), 3 bindings, 2 per port, buffer of 3 lines; every fault but an unreported short write | type invariant; `FailedSaveLeavesConfig`, `MigrationKeepsMapping`, `StaleFileIsMigrated`, `OneCopyLeft`, `SaveSurvivesReboot`, `ImplementsStore` | 14 thousand |
| `Drive` | 2 hubs with 1 port, 1 seat, 6 tables of up to 2 bindings, 3 reports, 2 headings, 4 frames, a pulse of 1 frame | type invariant; `FailsafeHolds`, `LockIsExclusive`, `LockTurnsShortWay`, `LockGivesWay`, `PulseIsWhole`, `PulseEndsOnTime`, `DetectorsAreCurrent` | 2.1 million, about 3 min |
| `DriveSeats` | 1 hub, 1 port, 2 seats, fair | `DropReachesPorts` | 550 thousand, about 1 min |
| `Editor` | 2 ports of one hub and one of a parked hub, 2 inputs, 2 settings, 2 bindings per port, 2 changes of a session | type invariant; `ShownIsEdited`, `ReplaceHasTarget`, `DirtyMeansChanged`, `EditsStayOnTheirPort`, `PagingKeepsEdit`, `ImplementsSession` | 1.4 million, about 2 min |
| `BroadcastShownOnIsActive`, `StorageSaveIsAtomic`, `DriveNoStaleResume`, `EditorAddFits` | | violations, section 6 | seconds |

*Bounds.* Two hubs are what the rotation serves and enough for one hub's sequence to meet the
other hub's events, taps and services; a third one adds only the parked row, which the other runs
have. In `BroadcastRotation` the sweep drives the port of one hub: its event sends can come between any two
turns of the timer, so an event that took a turn would starve it. One port keeps the port loop of a toggle short; that the loop leaves every channel neutral
for any number of ports is part of the proved invariant. Two seconds hold at least 19 services of the
100 ms timer (there is a turn each 100 ms as long as a hub is active); the `Sleep` run gives the wait
only 7, with 6 TLC finds a wait that ends while a hub is still driven, so the margin is real. In general
the wait must hold more services than all hubs are owed together (`WaitSuffices`; 6 in the code). A grace of 3 is the code's; the liveness
runs use 2, the least that tells the first counted service from the last. The callback list holds
at most one entry per hub by construction of `Post`. In the storage runs the five factory files
are a fresh flash, a file older than the header, one inflated beyond the cap, one too large to be
written back, and a current one with a rejected line; the edits are a wipe, a small table, one
whose bindings have an order to lose, and one too large. In the drive runs
the tables pair a stick with a lock, with a pulse and with nothing, a lock with a latch, a lock with a
second lock, and leave a port unbound; the pulse has the code's one frame (`MKH_PULSE_FRAMES`), a pass of `loop()` (150 ms)
takes one or two frames of 100 ms, and the clock wraps after `LastFrame` = 3, so that a pulse can
begin, end, be stepped over and be caught by the wrap. The headings 0 and 350 lie across north from
each other, where a difference that is not wrapped turns the long way round. `DriveSeats` has what the first slot depends on, two controllers that can
take it, and one button that latches: a port without a stick is one that a failsafe for
sticks would miss. In the editor run one port has
a binding to lose, one is full from the start and one cannot be reached, and two confirmed changes (`MaxEdits`)
are enough to fill a port, replace in a full one and empty one; every prompt is open in some state with the
session clean and in some with it dirty. `Encoding` sends every byte on every channel, but not every
combination of six bytes; the theorem `OrderHeard` covers them all. Of the mixtures with a neutral order it
has every one, for all three slots; the other orders staged beside a CONNECT are extremes, and two whose
mixtures TLC does hear as third telegrams, so `MixtureStaysInPlace` is not true for want of them; the theorem
`MixtureInPlace` covers all orders.
No counter is unbounded except the
history `served`, which stops counting with the drop. Deadlock is checked in every run.

*Fairness* (`FairSpec`). Each task makes progress inside a call or a handler (weak fairness), as
FreeRTOS gives: the tasks are pinned to different cores and the one mutex is released within the
step that takes it. HCI comes up, and posted callbacks and the timer get their turn (strong
fairness, because a turn of the one disables the other for a while). The run loop empties its
callback list before it looks at its timers
(`btstack_run_loop_freertos_execute`), so the timer's turn needs the list to be empty again and
again; `mkh_set_channel` posts at most one callback per hub and 25 ms, and a callback takes far
less, which is the condition `[]<>(bt.at = "idle" /\ callbacks = <<>>)`. The environment (sweeps,
taps) has no fairness. `MkhSleep`, `MkhEditor`, `MkhStorage` and `MkhProtocol` are checked for safety only. `MkhDrive`'s `FairSpec` says only that `loop()` is called for ever and
returns; the controllers, the user and the clock's pace have no fairness. `HeldValuesReachAir` also assumes that CONNECT replays stop colliding with
sends: a user who taps for ever can garble every telegram in the model.

## 4. Proofs

`MkhBroadcastProofs` proves, for every number of hubs, eligible hubs and ports, every set of
channel bytes and bound ports, and every grace of at least 2 (`GraceAssumption`; with a grace of
1 the one counted service may be the one in flight), that `Spec` implies the type invariant and
all the safety properties of `MkhBroadcast`. The properties are not
inductive; `IInv` is. Its parts:

* `AppShape`, `BtShape`: which steps belong to which call;
* `OnlyEligible`: a parked hub is nowhere in the machinery, not even in the callback list;
* `LockoutInv`: the centre. A pending countdown implies an active, locked hub and no toggle of
  it; a decided tap or a toggle before its mark implies an unlocked one; so the countdown and the
  drop on one task and the toggle on the other exclude each other without a lock, and between
  `CountLoad` and `CountStore` the counter does not move;
* `NeutralInv`: what the port loop of a toggle has written so far, although the sweep writes the
  same channels (it is the same task, so not during the toggle);
* `GraceInv`: services given plus services owed never fall short of the grace by more than the
  one service that was in flight when the countdown began. `DropIsServed` claims one service less
  than the code's comment does for that reason; with the full number TLC finds that service;
* `QuietInv`: a hub that nothing disturbed holds neutral values, and from the first counted
  service on so does its last telegram, mixtures included.

One lemma per part shows that each action keeps it (`TypeStep`, `ShapeStep`, `EligibleStep`,
`LockoutStep`, `NeutralStep`, `GraceStep`, `QuietStep`); `InvStep` joins them. The action
properties follow from the invariant and from `OnlyDropDeactivates` and `OnlyToggleActivates`,
which say which action changes the rotation. Its last part maps every action to a step of
`HubLifecycle` or a stutter and so proves the safety part of `ImplementsLifecycle`.

`MkhSleepProofs` shows that the same holds when `enterDeepSleep` calls `toggle_off` unguarded, for
every number of hubs and ports. A sleep step is a step of the broadcast or that call (`BroadcastStep`), and the
call keeps `IInv` (`ToggleOffStep`) provided nothing is pending for its hub. That is what `PageInv` adds:
the idle screen is reached with no row in transition and nothing can lock one there; a hub of the loop
already called is *leaving* (in the rotation only while it is in transition, or its call has just begun),
one still to come is not in transition; behind the poll's cursor every hub is out of the rotation. The
properties of the broadcast carry over, and `SleepCleanMeansOff` says that a wait that ended clean did
find every hub off, although the three stores of a drop and the two polls of a hub run on different cores.

The two properties of the CPU halt need more. `BudgetInv` says that the wait is long enough: `Owed`, the
services still owed to all hubs together, plus the services the wait has seen, never exceed `Debt`
(`NumEligible * OffGrace`), but by the one service that is under way. Each turn of the timer serves an
active hub (`ServedStays`), which by then is owed something (`ActiveIsOwed`), and its `CountStore` takes one
from the sum (`OwedStep`, with `SumOneLess` of `FoldFacts`). So the time is never up while a hub is in
the rotation (`InTime`), given `WaitSuffices`, and a wait that times out does so on a flag that nothing
will clear. `TunedInv` says what the last telegram is: from the first `toggle_off` on no sweep writes a
channel and no `toggle_on` stages beside the BTstack task, so a hub that counts down holds neutral
channels, its telegrams are whole from the first counted service on, and a hub that has left was told
neutral, even by an event send that runs after its drop.

`MkhDriveProofs` proves every property of the `Drive` run, for every number of hubs, ports, seats and
bindings, every set of tables and reports and all tunables. Each has a small strengthening of its own.
`FailsafeHolds`: a slot holds a seat or null, and a driven port without bindings is in `orphans` (the
failsafe skips it). `PulseIsWhole` and `PulseEndsOnTime`: `ArmedOnce`, a pulse is never armed and active at
once, for an armed one would start over. `DetectorsAreCurrent`: `DetectorsInv`, the same already right after
the sweep, before the touch that may clear or rebind a port. The lock's properties
speak of the byte a sweep leaves, which is a clamped sum over the port's bindings: `FoldFacts` gives what a
sum over a single binding is (`SumOfOne`) and when two sums agree (`SumSame`), and the control law is followed through wrap,
deadband, gain, floor and ceiling for all headings.

`MkhConfigFileProofs` is about what parsing and serialization compute, for every table and file: a
load gives a table within the cap (`LoadIsATable`); what a save writes parses to that table without its
axis modes, in order and with nothing skipped (`RoundTrip`); a loaded table comes back as it is
(`LoadedComesBack`) and is written the same again (`StoredIsStable`). Both directions are folds, over the
lines and over the ports; the proofs go by induction on how many lines are parsed. The induction theorems of the
library take an operator, so `SetInduction` puts it in terms of the set of the counts for which the claim
holds: with 0 in it, and n + 1 for each n, it is `Nat`, or what is left out had a least member.

`MkhStorageProofs` rests on them. `SInv` holds whatever fails: which file is missing or empty at which
place (`Placed`), that a save has not touched the configuration before its remove (`Underway`), and what
`saving` remembers (`Recorded`). `TypeOK` and `FailedSaveLeavesConfig` follow. `WInv` needs that no write is
cut short (`"short" \notin Faults` is a hypothesis of the theorems that use it, not an assumption on the
model): before the rename the temporary file is the whole new file, after it the configuration is. With it
come `OneCopyLeft`, `StaleFileIsMigrated`, `SaveSurvivesReboot` (with `RoundTrip`), `MigrationKeepsMapping`
(with `LoadedComesBack`) and `ImplementsStore`, where each filesystem call is shown to be a step of
`ConfigStore`, a stutter, or one of `Destroys`.

`MkhEditorProofs` proves every property of the `Editor` run, the refinement of `EditSession` included,
for every number of hubs, ports, inputs and settings, every cap and every set of files. The invariant
`EInv` adds to the type three parts. `Shape`: which prompt belongs to which page, and that the capture
and the settings page have a port selected. `Target`: on the capture page the index is 0 or one of the
port's bindings, which is why ADD may leave it alone on the way there and REPLACE can use it. `Shown`: the
settings page shows the binding at its index; an array that was overrun excepted. All three speak of
`Draft`, the table the session stands for, so a tap is judged by what it does to one list: `EnterCases`
covers the four ways to the settings page, `CommitKept` the commits, `LeaveKept`, `ShowKept` and
`EndKept` where a tap leads. `GoodStep` collects what every step does: it keeps the invariant, dirties a
port only by changing it, leaves the other ports alone, and is a step of `EditSession` or a stutter.
Of parsing and serialization it uses that a file gives a table and a table a file
(`LoadIsATable`, `RoundTrip`).

`MkhProtocolProofs` proves that every order of six bytes for each of the devices is heard, not just those the run
sends (`OrderHeard`). `TypeCorrect`, that the buffer holds its 27 bytes and what is advertised lies within it, is
proved only; no run repeats it. Code and receiver are defined independently, so two facts about
registers come first. `WhiteningIsBluetooths`: for every key, the shift register of `whitening_init` and
`whitening_step` gives the bits of Bluetooth's recurrence for that channel; the two states are coupled by
where a bit of the one stands in the other, step by step. `CrcIsBitCrc`: for every string of bytes, the CRC
register that takes a byte at once and the one that takes a bit at once agree after each whole byte. In between, shift by
shift (`ShiftRegister`, `EightShifts`), the first is *ahead* by the bits of the byte it has not shifted out yet, and that
difference is the invariant of the induction.
From there a telegram is followed through the code to the receiver: `PassFacts` (the second pass, from its 16th
byte on, is channel 37's sequence where the payload lies, the first is the hub's own), `PayloadBytes` and
`PayloadOnAir` (what is left on the air when the controller has whitened it once more), `PlainBits` (what the
hub descrambles), `ChecksumHeard` (the mirrored, inverted checksum of the code is the one a hub computes),
and `FrameOf`: a frame of any length up to the telegram's is accepted exactly if the checksum stands where
that length has it. For the own length it does (`OwnChecksum`), for the shorter one by chance (`ShorterFits`,
`ChecksumFits`); `HeardOf` puts them together. The invariant `IInv` (`Staged`) says what the buffer is at each step: unless two
tasks are in it at once it carries the telegram staged last with that telegram's length, whatever the longer one before it
left behind a CONNECT. If they are (`Blends`), each byte of the payload is one of the two telegrams'. The whitenings
act on each place by itself, so that what a hub descrambles at a place is what one of the two payloads has
there (`ByteOnAir`, `ByteHeard`, `BlendIsInPlace`; `WithChecksumBytes` says what the CONNECT has where its checksum
is): whatever a hub accepts, for every order and every mixture, has each byte from the order or from the CONNECT
(`MixtureInPlace`). That a recursively defined register has the value its equation says is not
something the provers grant: `FoldFacts` shows that a function with these equations exists
(`IterationExists`, `RepetitionExists`), by `SetInduction`.

Assumptions are those named in the modules (`DevicesAssumption`, `PortsAssumption`,
`LevelsAssumption`, `ConfiguredAssumption`, `GraceAssumption`; `WaitAssumption` and `WaitSuffices` in
`MkhSleep`; `SeatsAssumption`, `TablesAssumption`, `ReportsAssumption`, `StoredAssumption` and the like in
`MkhDrive`; `TableAssumption`, `FileAssumption`, `InputsAssumption`, `BindingsAssumption`,
`FactoryAssumption` and the like in `MkhConfigFile`, `MkhEditor` and `MkhStorage`; `OrdersAssumption` and
`NoneAssumption` in `MkhProtocol`), evaluated by TLC in each run.

*Only model-checked:* the liveness properties (`ActiveIsServiced`, `LockoutEnds`, `HeldValuesReachAir`,
`DropReachesPorts`) and the fairness part of `ImplementsLifecycle`, because fairness and ENABLED are out of
the prover's reach; and `NeutralMixtureIsHarmless`. It speaks of three orders, neutral for each slot, and TLC looks at
every mixture of them, so the run is exhaustive. For other orders it would be false: a mixture may be a third telegram.
Every other invariant and action property of the runs is a theorem.

## 5. Seeded bugs

For each property of a passing run a module holds a variant of one definition that a plausible
bug would give, marked "Seeded bug", and `PROJECT.json` pairs them: with the variant in its place
TLC finds that property violated. No specification uses the variants.

## 6. Where code and documentation disagree

Each with a run that shows it:

1. `ShownOnIsActive`: an event send that runs after the drop shows the hub as on; its next tap
   asks for an OFF that is refused, so the row can no longer switch it on. `TimeoutMeansStaleRow` says
   what it does to deep sleep: the wait then runs its full two seconds, although every hub is off.
2. `SaveIsAtomic`: between remove and rename there is no configuration file; a power failure
   there, or a failing rename, replaces it by the compiled-in default at the next boot.
   `OneCopyLeft` is what does hold: the new one is still in the temporary file, which nothing reads.
3. `NoStaleResume`: after a reconnect the ports are driven by the last report from before the
   disconnect until a new one comes, against `sketch.cpp:3274`. `FailsafeHolds` is what does hold.
4. `AddFitsArray`: the cap on the bindings of a port is checked by the ADD button of the settings page
   only. ADD on the capture page's REPLACE/ADD prompt, reached again by BACK once the port is full,
   appends past the array (`sketch.cpp:2550`), against the comment at `sketch.cpp:2060`.

Stated in the comment of a property that holds instead:

5. `QuietDropIsNeutral`: if the sweep re-drives a port during the grace period the hub is dropped on
   a driven telegram, against `mkh_broadcast.h:52`.
6. `SaveSurvivesReboot`: after RESET ALL, or unassigning port A of hub 1 or 2, the next load binds that
   port to a stick again, against `README.md:95`.
7. `OneLock`: `sketch.cpp:2850` takes it that one binding of a port at most is a heading lock; the mode
   button (`nextModeFor`) and the parser let every binding be one. Both then engage, and the second is
   arbitrated like a stick: suppressed, or cancelling the first. `LockIsExclusive` and `LockTurnsShortWay`
   are stated for ports with one lock for that reason, the other properties for all ports.

Met while modelling, and in the model: `toggle_on` calls into
BTstack from the Arduino task, which `mkh_broadcast.c:254` calls unsafe. What goes on the air can then
be a third telegram with a valid checksum, of values nobody ordered together: ports 1 to 4 have what was ordered or
neutral, ports 5 and 6 may also get the last byte of CONNECT, 0x92, and the first of its checksum, 0xAE (`MixtureStaysInPlace`), until
the next telegram. A neutral order is safe from that (`NeutralMixtureIsHarmless`). RESET on the settings page
brings back the stored table without clearing latches and locks, which
`clearLatchStateForPort` does on every other path (`sketch.cpp:2882`); a port unbound while driven
keeps its value (`mkh_config.h:38` says it stays neutral); the comment at `sketch.cpp:2810` gives
`MKH_PULSE_FRAMES` as 4 where line 2814 defines 1; a binding of a stick whose mode is `thl`
is not scaled by its max; ADD on the settings page drops changes that were not committed without asking
(2352-2370), where BACK asks and PREV and NEXT commit; a stick moved under the REPLACE/ADD prompt changes the
capture the prompt is about; a save that fails ends the session like one that succeeds, so the edits live
until the next boot and the user is not told.

## 7. Not modelled, and the plan

*Not modelled.* Drawing and layout, hit zones and debounce times, touch and gyro I/O, the retired SD card,
start-up, the contents of log lines. The vendored components (BTstack, Bluepad32, the console
and their examples) are more than nine tenths of the repository's lines, with hardly a line
of this project's own; they are modelled where the firmware leans on them (the callback list and
the order of callbacks and timers, the seats and `update()`) and not beyond, so the map covers most of the
state-changing code under `src/main/` and a very small share of the whole repository.

*Hazards without a property* (each with its reason in `PROJECT.json`): the 600 ms a CONNECT is to air, and
the event limit against a pulse of one frame, need a clock shared by modules that have none; a short
write that nobody looks at breaks every promise of the storage at once; RESET keeps latches, and nothing in
the source says it should not; the max slider's end snap lies below the data abstraction of `MkhEditor`.

*Planned*, in this order:

1. A clock: frames, the event limit and the timer in one module, for the two timing hazards.
2. Proofs about `DropReachesPorts`'s safety part (which ports may still be driven once the failsafe has run,
   for any number of seats) and about the slots of `onConnectedController`.
