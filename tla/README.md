# Verification of Legion Control

TLA+ models of Legion Control (`legion_control/`), a GTK application for one
Lenovo laptop that sets thermal profiles, fan curves, power limits and keyboard
lighting through a root helper and a root fan daemon. The modules here are
translated from the source; TLC checks them on small instances, and TLAPS
proves the theorems listed below for every value of the constants.

## 1. The system

```
 GTK window (ui.py)          root helper (helper.py)        registers (linux.py)
 pages, tray, automation --> one process per request,  -->  profile, power limits,
   |    ^                    serialised by a file lock      fan targets, keyboard
   |    | status reads            |          |                    ^
   |    +--- (unprivileged) ------|----------|--------------------|
   v                              v          v                    |
 client.py (pkexec)      fan-config.json   systemctl          fan daemon (daemon.py)
                              |              |                    |
                              +--------------+--> unit -----------+
```

| Part | Source | State | Operations |
|---|---|---|---|
| Thermal rules | `domain.py` | filter samples, held temperature, target, cooling count | one tick: filter, stabilise, command or raise |
| Fan daemon | `daemon.py` | policy in force, stop event | load policy, take the profile, read sensors, write targets, restore |
| Helper | `helper.py` | request, what a rollback needs | set profile, set fan policy, set custom configuration, restore automatic, set feature, set lighting, status |
| Hardware access | `linux.py` | the registers | verified writes with compensation |
| Policy file | `config.py` | persisted policy | load, atomic save |
| Unit | `packaging/systemd` | unit state, job, enablement | start, stop, ExecStopPost, restart on failure |
| Client | `client.py` | none | pkexec one helper, decode its answer |
| Window and pages | `ui*.py` | refresh and mutation bookkeeping, drafts | timers, idle callbacks, worker threads |
| Power limits | `power.py`, `linux.py` | the pair of registers | two verified writes in an order, compensation |
| Keyboard | `rgb.py`, `ui_lighting.py` | the reports sent, the saved record | frame; reports: select the profile, save its zones and set the level, or save it empty; keep or remove the record |
| Scenes | `scenes.py`, `ui_scenes.py` | `scenes.json`, the panel's copy | load, save a scene, make it, apply it |
| Rules of the power source | `automation.py`, `ui_automation.py` | `automation.json`, the page's copy | load, change, observe the source |
| Telemetry | `history.py`, `ui_history.py` | `telemetry.jsonl`, the view | append, compact, load, change the view, export |
| Alerts | `alerts.py` | level, time of the last notice | one observation per status |
| Update notice | `updates.py`, `ui_doctor.py` | `updates.json`, the answer shown | check in a thread, keep the answer, switch |
| Doctor | `doctor.py`, `ui_doctor.py` | the last probe and status | probe, report, recheck |
| Process, tray, language | `ui.py`, `tray.py`, `i18n.py`, `ui_language.py` | window, indicator, `language.json` | launch, hide, close, restart in another language |
| Package scripts | `packaging/debian` | a marker in `/run`, the unit | prerm, postinst, postrm |

How they interact, and what is hard about it:

- Helpers exclude each other with a file lock (15 s), but **the daemon does not
  take that lock**. The only message from a helper to the daemon is the policy
  file; systemd is the only other channel (start, SIGTERM).
- The daemon reads the policy once per tick, so a tick may outlive the policy it
  read. The helper must wait for the unit to be down before its own restore is
  worth anything.
- Every write may fail, every process may be killed and the machine may lose
  power: the fans must not stay manual with nobody driving them.
- The combined operation (profile, power, fans) is rolled back by hand, in an
  order that matters because power limits can be written only in one profile.
- The window reads the status in a thread, runs one mutation at a time in
  another, and applies results in idle callbacks: results may be stale when
  they arrive.

- Every small file is read once, kept in memory, changed there and saved; a save
  may fail before or after the file is replaced, the process may be killed in it,
  and the next load may fail too. What the page shows, what the memory says and
  what the next session will read can all differ.
- The request for updates runs in a thread with the configuration of its start;
  the user may have changed it when the answer comes.
- dpkg runs the package scripts with no idea of the fans: one script may be killed,
  retried or undone by another, and the machine may reboot between two.

What makes each part correct: targets the hardware accepts, never below demand,
slow confirmed drops (rules); fans manual only under a lease (daemon, helper,
unit together); truthful answers and complete rollbacks (helper); everything
ends (helper, systemd); what is shown was read after the last change (window);
what was reported as saved is there in the next session (stores); the limits are
a pair that was asked for (power); the LEDs are the configuration (keyboard); the
user is told (alerts, Doctor); an upgrade resumes what it interrupted (scripts).

## 2. Modules

| Module | Models | Role |
|---|---|---|
| `FanRules` | `domain.py` without state, `linux.py` snapshot | constants, quantisation, curve, median |
| `FanController` | `FanController` of `domain.py`, one daemon tick | the control loop |
| `MCFanController` | | instance, recent history, properties over several ticks |
| `FanControllerProofs` | | lemmas, inductive invariants and theorems |
| `FanSystem` | `helper.py`, `daemon.py`, the unit file, the register writes of `linux.py`, `config.py` | composition of helpers, daemon and systemd |
| `FanLease` | | abstract specification that `FanSystem` implements |
| `MCFanSystem` | | instance and symmetry |
| `FanSystemProofs` | | inductive invariants and theorems |
| `LightingPage` | `ui_lighting.py`, the lighting part of `helper.py` and `rgb.py` | an edit from the controls to the LEDs and the record |
| `MCLightingPage` | | instance, the user's choices, fairness, properties |
| `LightingPageProofs` | | inductive invariants and theorems |
| `MainWindow` | `MainWindow`, `HomePage`, `FanPage` of `ui.py`, `automation.py`, `client.py` | status reads, changes and what the pages keep between them |
| `MCMainWindow` | | instance and the user's unapplied edit |
| `MainWindowProofs` | | inductive invariants and theorems |
| `PowerWrites` | `power.py`, the limits in `linux.py` | the pair written register by register |
| `KeyboardReports` | `rgb.py` | frames, reports byte by byte, their sending |
| `SceneFiles` | `scenes.py`, `ui_scenes.py` | the scenes in the file, in memory and on the panel |
| `PowerRules` | `automation.py` (store), `ui_automation.py` | the rules likewise |
| `TelemetryArchive` | `history.py`, `ui_history.py` | the archive and the view |
| `ThermalLevels`, `ThermalAlerts` | `alerts.py`, the status of `ui.py` | levels, escalation, cooldown |
| `UpdateNotice` | `updates.py`, the notice in `ui_doctor.py` | the stored answer, the thread, the switch |
| `DoctorReport` | `doctor.py`, `ui_doctor.py` | findings, probe, recheck |
| `DesktopSession` | `tray.py`, `i18n.py`, `ui_language.py`, start and end in `ui.py` | process, indicator, language |
| `PackageScripts` | `packaging/debian` | the maintainer scripts under dpkg |
| `MCDesktop` | | instance of the ten above, one per behaviour |
| `PowerWritesProofs`, `StoreProofs`, `KeyboardReportsProofs` | | invariants and theorems of the limits, of scenes and notice, of the reports |
| `DesktopProofs` | | theorems of the other parts, and of the ten together |

### FanRules and FanController

A policy is a record, a curve a sequence of points, temperatures are whole
degrees (the drivers' millidegrees are divided by 1000 where they are read).
`Quantize` is `FanBounds.quantize` with Python's half-even rounding; the code
rounds a floating-point quotient, the model an exact one, and the two were
compared on every input of the ranges that matter (spans up to 80 degrees,
speeds in steps of 50, grids of 1 to 300 RPM): they agree. `target_at` loops over
neighbouring points; the model chooses the segment that contains the
temperature.

The variables are the attributes of `FanController`. `NextTargets` is one call:
raise, bypass (fixed mode, or 92 degrees and more), or filter and stabilise. The
branches of `_stabilize_curve_target` are separate operators, one per `return`.
A raise ends the daemon, so only `NewController` follows it. Automatic mode is
left out: the daemon returns before it builds a controller.

### FanSystem

`config` is the policy file, `profile`, `power` and `fans` the registers. The
power limits are one value (they are always written together), or `Partial` when
a failed write could not be put back. A fan target is `Firmware` (the driver's 0)
or the policy that set it: how fast the fans turn is `FanController`'s matter.

A helper is a program counter and, for the holder of the lock, one record `op`
with its request and locals; its request is chosen when it takes the lock. Each
hardware write, save or `systemctl` call is one step with a success and a failure
branch; the code between two of them is not observable. `systemctl` is two steps,
the request and the wait. The recovery paths are shared: `_stop_manual_control`
is `SaveAuto`, `Disable`, `Stopped`, `Release` and `AfterStop` says where each
operation goes from there. `reply` is how the last request ended, with
`"rolled back"` for the original error after a complete recovery and
`"incomplete"` for the error that names an incomplete one.

- Saving replaces the file atomically and then syncs the directory. The sync may
  fail after the replace, so a failed save leaves either policy.
- Reading and validating a request may fail as well; such a refusal changes
  nothing and is a failed `Save` that kept the old policy.
- A failed profile write leaves either profile (the readback may be what failed).
- The two writes of a restore are one step: only the daemon races with them, and
  it writes its targets one by one.
- The daemon compares the policy's signature with the one in force, which is
  `config = running` in `Load`.

systemd is external and modelled as the unit file configures it. `systemctl
start` does nothing for a unit that is active, is queued behind a stop or a
pending restart, and otherwise launches. A unit whose process ended runs
`ExecStopPost`, then takes a pending job, restarts (`on-failure`, except status 3)
or ends. SIGTERM before the handlers are installed ends the process cleanly. The
start rate limit is not modelled: it can only stop a unit after its
`ExecStopPost`. A stop that takes more than 15 s is a fault of the helper's step.

`FanLease` is the promise: fans leave the firmware only under a lease, a lease
starts only while manual control is granted, and a withdrawn grant frees the fans
in the end. The refinement maps `granted` to a manual policy in the file,
`leased` to the daemon being between its policy read and its readback, `manual`
to any fan target that is not 0.

### LightingPage

A lighting configuration is a model value; the zone editor and the presets are
the choice of one. `DebouncedWrite` keeps its four attributes (the timer identity
is whether a timer is set), `written` is what the page remembers sending. `Fire` is
`_fire` with `_perform_static_write`: skipped, refused by a busy window, or sent.
`mutation` is the window's one change at a time, reduced to who began it and the
lighting it carries; a scene sends its own lighting and tells the page nothing.

The helper's `set_rgb_configuration` is one step with its outcomes: accepted and
recorded; rejected part-way, the record removed; nothing started; killed between
any two of its steps; accepted with the record not saved, or rejected with the
record not removed. The last three count as crashes, because the code makes no
promise about the record for them. `Other` stands for what the LEDs show when the
program did not choose all of it. A status reaches the page only with no mutation
running (`MainWindow` shows why), and loads the record unless a draft is protected.

The controls take edits before the first status; such an edit is dropped without a
message when its timer fires (`Skip`), which is why `ChoiceShows` sets the choices
made "early" apart.

### MainWindow

There are three threads: the main loop, at most one status reader, at most one
mutation. `read` and `mutation` are the two threads with their results; a result
that is posted (`"done"`, `"failed"`, `"ended"`) waits for its callback in the main
loop. `_refresh_generation` is compared only with the generation of the single
outstanding read, so `stale` (it has moved on since) replaces the unbounded number.
`requested` says that `_request_refresh_idle` is queued: the loop runs idle callbacks
in the order of posting, which is why the callbacks that could only have been
posted later wait for it.

A status is read in two halves, the hardware first and the policy file after it
(`LocalControlClient.read_status`), and a change is made in two halves, the policy
first and the profile after it (every operation of the helper): the interleavings
show torn statuses, which the bookkeeping must never put on display. A change may
be refused, fail or be recovered from half-way, or lose its answer. It never
outlives its client: the timeout of `_mutate` kills `pkexec`, which an ordinary user
can do only before the helper runs as root, and otherwise waits for its end.

`externals` counts changes from elsewhere and `since` is its value when a read began:
a status may be older than those, and only those.

The row is `HomePage`'s combo row (profiles without custom) with the profile it waits
for, `editor` and `dirty` are the fan page's draft (a policy stands for the mode, the
speeds and the curve), `lastSource` is what the automation has seen. Scenes are what
they do to policy and profile; their lighting is in `LightingPage`.

### PowerWrites and KeyboardReports

`FanSystem` holds the power limits as one value; `PowerWrites` is the inside of its
write. A request is refused outside custom mode, out of bounds or off the step, or
while the registers hold no readable pair; the accepted one is written as
`set_power_limits` writes it, the sustained limit and then the slow one, each with a
read-back, and both are put back when either fails. A write that fails may leave any
value, and the helper may be killed between any two steps. `answer` is what the client
is told. Requests with an inverted pair are refused where they are decoded and are not
among the targets.

`KeyboardReports` goes from a configuration to the bytes: the zone colours of a solid,
gradient, alternating or banded frame, the level that a brightness percentage becomes,
the reports with their groups of zones by colour, sent one after the other with a failure
at any of them. The keyboard's controller is outside the repository and modelled from the
reports: a report that saves a profile paints the zones it names and darkens the others,
one that sets the brightness sets the level.

### SceneFiles, PowerRules and UpdateNotice

The three stores are written the same way: the file is absent, valid or broken, the
memory is what the last load or save left, a failed save leaves either file
(`os.replace` is followed by a sync), and a kill in a save does the same. What was
reported as saved is kept beside them, to compare. `SceneFiles` adds the default
scenes, made from the first status, and the draft that a status refreshes.
`UpdateNotice` adds the thread: it starts with the configuration of that moment (`from`),
answers from it while it is fresh, by the clock of the machine, which goes forward, and
otherwise notes the time, asks the network and is answered or not. The callback replaces
the configuration in memory by the one the thread returns, whatever the switch did
meanwhile, and saves it when it differs. `asked` and `fate` are history: when the network
was last asked, by whatever process, and what became of that request; it failed, its
answer was reported as saved, or it was lost with a process that ended first or to one
that could not read the file.

### TelemetryArchive

The file is a set of whole lines with what is at its end: nothing, an unterminated
line that holds a whole record (`bare`), or one that holds none; a write that stops
inside a character of an event's label makes the file undecodable (`legible`). The
next append after an unterminated line continues it and both are lost, as in the
code. `acked` is what appends reported as saved and that retention and the budget
still keep. Sizes are in records. Compaction loads, filters and replaces, at the
first append of a session and then once a day when the budget is exceeded. The view
keeps the order of arrival, since `_prune` stops at the first sample that is young
enough. The clock may be set back; the properties that need a steady one say so.

### ThermalAlerts and DoctorReport

`ThermalLevels` is shared: the level of the hotter reading, with a sensor absent.
Alerts see one status at a time with any time between two. `DoctorReport` keeps the
last probe and the last status, and the report shown; the findings are functions of
the two, one operator per check of `doctor.py`. The machine may change at any time; the
first status reads the probe, the button reads it again, and the next status builds the
report.

### DesktopSession

`frame` is the process and its window. The watcher of the indicators is on the
session bus or not; `trayAvailable` is what `tray.py` believes. The window is hidden
at close only while that is set, and the indicator or another launch presents it.
The language of a process is that of the environment, of the file or of the system,
in this order; choosing one saves it and offers the restart, which replaces the
process with the same environment. The file is not synced, so a loss of power may
leave it empty.

### PackageScripts

dpkg runs `prerm`, unpacks, and runs `postinst`, or `postrm` at a removal; a script is a
sequence of steps over the unit (`active`, `enabled`), the marker in `/run`, and the fans.
A script may fail or be killed at any step; dpkg then runs the new package's `prerm
failed-upgrade`, the `abort-upgrade` of `postinst`, or waits for the administrator to
configure again or to start over. A reboot empties `/run`. dpkg and systemd are
external and modelled from the calls the scripts receive and make.

## 3. Runs

| Run | Instance | Shows |
|---|---|---|
| `fan_controller` | shipped curve, a curve with plateaux and a cliff, a fixed speed; six CPU readings around every threshold or none, GPU absent or 62; temperatures that settle at 40 or 57 | targets accepted, demand covered (also by raw readings, two of three), drops confirmed, one-sided and at most three steps in three ticks, a single spike ignored, the loop converges |
| `hot_gpu` | GPU readings up to 99 | **violation**: see findings |
| `fan_system` | 2 helpers, 2 manual policies, 2 faults, 1 outside profile change, 1 reboot | truthful hand-over, one fault never leaves fans manual, custom profile while driving, rollbacks restore, the lease |
| `fan_system_live` | 2 helpers, 2 policies, 1 fault, 1 reboot | fans freed in the end, helpers end; with no fault or reboot, an activation reported as active drives the fans |
| `lost_activation` | 1 fault | **violation**: see findings |
| `lighting_page` | 2 configurations, 2 failed writes, 1 killed helper, 1 Fn+Space, 2 disconnections or reconnections | the last choice is on the keyboard or explained, drafts stay on screen, the record is truthful, edits are sent |
| `forgotten_edit` | the same page, a write that fails | **violation**: see findings |
| `reapply_skipped` | the same page, Fn+Space | **violation**: see findings |
| `main_window` | 2 profiles, 1 manual policy, one scene and a rule for battery, 1 failed change, 1 change from elsewhere | nothing stale is shown, no refresh forgotten, the row confirms, the fan draft stays, no power transition swallowed |
| `desktop` | ten parts, bounds below | saved telemetry, choices, scenes, rules and language survive faults and restarts; limits stay a pair; LEDs as configured; heat is told; the report is true; upgrades resume; an answer that is kept is not asked for again within a day |
| `failed_request` | the notice alone, a failed request and a switch moved during it | **violation**: see findings |
| `retried_request` | the notice alone, a failed request and the next start | **violation**: see findings |

Bounds. The filter holds three samples and the confirmation counts to three, so
the readings matter only by the side of each threshold they are on: the sets
include both sides of 45, 60, 92 and 98 and of the cliff. Two helpers are enough
to have one wait while the other holds the lock, and to have one start while the
daemon still obeys the other; more would only queue. Two manual policies tell a
tick of the old policy from one of the new. Two faults reach a failure during the
recovery from a failure (and the torn power limits, which need two). One reboot
reaches every interrupted step, because it is possible in every state.
`OneFaultTolerated` and `CustomWhileManual` say themselves for how many faults
they hold; with two faults a failed write and a failed restore, say, do leave the
fans manual until the next operation.

Two lighting configurations are the one sent and another; two failures reach a
failed write after a failed write; the keyboard may go and come back. One
outside change is enough to overtake a read, since reads are one at a time, and
the window can read again after it; the automation has one rule, so both a
transition with a rule and one without occur. The window's run starts from one
machine state: the user, the automation and the outside change lead to others.

The parts of `desktop` share no variable, so a behaviour chooses one of them and the
others rest in one initial state: the states are the sum of the parts' and not
their product (about a million). Each part has two faults, three for the power limits
(two writes and the compensation) and the scripts (a script, dpkg's answer to its
failure, and one more), one for the keyboard (a failure ends the sending, and another
sending may follow). The archive's budget of two records makes the third one drop the
oldest, its day and interval are two units of five, and two views differ. Five register
values with overlapping bounds and a step of two reach every order of the pair and
every refusal. The keyboard has its real 24 zones and report size, three colours, and
the brightness percentages where the rounding and the limits bite. The Doctor's
machines are a sound one and those that differ in one status field, in both
temperatures or in one probe field, in every order.

Type invariants that TLAPS proves for all constants (`TypeCorrect` of the control loop,
of `FanSystem` and of `MainWindow`) are not checked again by runs.

Fairness. Each helper, the daemon and systemd get weak fairness on all their
steps: the scheduler keeps running a process that can run, and every wait in the
code has a timeout (15 s for the lock and for `systemctl`, 2 s between ticks).
Nobody is fair about asking, killing, failing, changing the profile or
rebooting. `MCLiveSpec` makes the daemon's ticks weakly fair once the temperature has
settled; before that `Converges` asks for nothing.

`MCLightingPage` is weakly fair about a due timer and about the end of a mutation.
The first says that the user pauses now and then for longer than the debounce
delay, since each edit puts the timer off. The second holds because every wait of the
helper and its client is bounded. The window's properties are safety properties of its
state at rest (`Quiet`), which need no fairness and say more: not that a refresh comes some day, but that nothing is left undone once
no thread runs and no callback is queued.

Deadlock is checked in every run: a helper can always ask, the controller can
always be rebuilt, the user can always edit and the timer always ticks.

## 4. Proofs

`FanControllerProofs`, for every published limit, step, valid policy and set of
readings, assuming `MaxOnGrid` (the maximum is a whole number of steps above the
minimum; without it the emergency target, which is the published maximum itself, is
refused by `set_fan_targets`: see the notes under findings):

- `TypeCorrect`, `TargetsAlwaysAccepted`, `NeverTooSlow`, `DropsAreBounded`. The
  inductive invariant adds to the type invariant that a target exists exactly when a
  held temperature does and that an existing target is accepted by the hardware;
  without the second part the drop of a target by three steps could leave the grid.
  The lemmas before it are the arithmetic: quantising is monotone, idempotent and the
  identity on the grid, a curve's answer is accepted, and a drop by whole steps stays
  accepted (`DropExact`).
- `HeatAlwaysReachesFans`, `DropRateHolds`, `DropsOnlyWhenCool`, `SpikesFiltered`: the
  properties over the last three ticks. `HistInv` says how much of the recent past the
  controller still holds: the filter's samples are the readings since it was last
  emptied (`Remembered`), the ticks at 92 degrees and more left full speed behind
  (`FullSpeedAfter`), two equal readings out of three are what the median returns
  (`SameReadings`), and the count of cool ticks bounds how far the targets have come down
  (`SlowDescent`). `DropsOnlyWhenCool` and `SpikesFiltered` need in addition that a hotter
  reading never asks for a slower fan: `TargetAtMonotone`, across the segments of any valid
  curve, from the fact that a curve's speeds never fall (`CurveOrdered`, by a least
  counterexample).

`FanSystemProofs`, for any number of helpers, policies, faults, outside changes
and reboots:

- `TypeCorrect`, `OneAtATime`: the base invariant `Control /\ Machine` relates the
  lock, the program counters and the request in service, and the unit's state to
  the daemon's.
- `ImplementsLease`: every step of the system is a step of `FanLease` or a stutter.
  Only the daemon's target writes take fans, and they happen only between its
  policy read and its readback.
- `HandedBackForGood`: `HandedBack` is not inductive. `Handover` adds what each step
  of a stop sequence has achieved (policy saved; then unit disabled and going
  down; then down; then fans free), provided that no error was noted, and that the
  daemon, systemd and reboots undo none of it. The wait for the unit is essential:
  without it the proof fails where the run does (mutant `Stopped_NoWait`).
- `OneFaultLeavesFirmware`: a machine at rest has its fans with the firmware after one
  fault at most. `Covered` speaks of the way there: a first fault may leave the fans
  manual only while the service is up or its `ExecStopPost` has not run, and without a
  fault the daemon's own restoration is enough.
- `RolledBackMeansRestored`: an activation answered with its original error left the
  profile and the power limits as it found them. `Noting` is the part that is easy to
  miss: at every step the power limits are the saved ones, unless it is noted that they
  were changed or that the recovery is incomplete, and no answer is older than the
  operation.
- `DrivesInCustom`: with one fault at most and no change from outside, the daemon writes
  targets only in the custom profile. It holds from the moment the daemon has set the
  profile (`DrivenInCustom`), because every other writer is kept away meanwhile: an
  activation still has the custom profile as long as there are power limits to write or
  put back, and reaches its recovery only at the price of a fault (`InCustom`); where
  the recovery changes the profile, the unit is down (`Handover` again).

`MainWindowProofs`, for any profiles, policies, scenes, rules, failures and outside
changes:

- `TypeCorrect`.
- `NothingStaleShown`, `NoRefreshForgotten`, `RowConfirms`, `TransitionsActedOn`. None
  of the properties is inductive. `Bookkeeping` says that a read which is not stale
  runs beside no mutation and that a mutation keeps a refresh pending; `Snapshot`
  that the fields a fresh read has so far are the machine's, unless it was changed
  from elsewhere; `AtRest` that a window at rest shows the machine and that its row
  does not wait for the profile shown. The step to notice is `FreshIsCurrent`: the
  test of `_finish_refresh` is enough, for every order of the callbacks.
- `FanDraftStays`: an unapplied edit of the fans stays in the editor, marked as not
  applied, whatever statuses and changes come in between.

`LightingPageProofs`, for any configurations, failures, kills, uses of Fn+Space and
reconnections:

- `TypeCorrect`, and `RecordIsTrue`: the record is absent or names what the keyboard
  shows, unless a helper was killed or the keyboard changed from outside.
- `DraftStays`: `DraftInv` adds that a set timer has an edit pending and that a write in
  flight is the window's mutation, so that no status can be applied during it.
- `ChoiceReachesKeyboard`: `ChoiceShows` speaks of a page at rest. On the way there, a
  choice that was dealt with is the one sent last (`SentLast`), the write in flight
  carries what was sent last and that is what the keyboard shows once it has ended
  (`Carried`), and a page that takes the keyboard for gone is right (`Gone`).

`PowerWritesProofs`, for any published bounds, registered values and faults:

- `PowerIsSound`, from `AnswersAreTrue` and `PairsAreWhole`. Neither is inductive:
  `Progress` says what each step of a request has done to which register, and that a
  first restoration that failed is remembered until the answer.

`KeyboardReportsProofs`, for any number of zones from 2 to 255, colours, percentages,
configurations and failures, on the assumption that a report has room for one group per
zone (`7 + 21 * Zones <= ReportSize`: 511 bytes of 960):

- `AskedIsLit`: after a whole sequence every zone has the colour asked for and the
  keyboard the level, no report is longer than `ReportSize`, and a gradient goes one
  way from its first colour to its second in every channel. It is a chain of lemmas
  about the operators. `Ascending` lists a colour's zones in order and misses none
  (`AscendingHolds`), a group has its bytes where the format says (`WordsHold`,
  `GroupHolds`), and a group starts at 7, plus 19 for each group and 2 for each zone
  before it (`OffsetsHold`), which is why the groups fit. `SaveProfileHolds` then
  knows every byte of the report. `PaintedHolds` follows the decoder from group to
  group and ends it where the packet does, with each zone painted once, by the group of its
  colour. `RoundExact`, `RoundMonotone` and `StepBetween` are the arithmetic of
  `round`.
- `KeyboardTyped`, and `KeyboardInvariant`, the inductive one: `Standing` says which
  reports of which sequence are still to be sent, and what the keyboard has by then.

`StoreProofs`, for any slots and scenes, and for any interval and versions:

- `SavedScenesAreKept`, `ScenesAreOne`. The invariant adds that a valid file holds every
  slot, that a panel without an unread file holds what was saved or refused since, and
  that a panel without an error shown holds what the file does: saving one slot writes
  all of them, so the panel must be worth writing.
- `ChoicesAreKept`, `AnswersAreKept`. The invariant follows the configuration through the
  thread: whichever one the next check will start from, in memory, given to the thread or
  returned by it, carries the answer to the last request if that is known, the file as
  well once it was reported as saved (`AnswerCarried`), and a check is given an enabled
  configuration and returns one (`CheckEnabled`). It says nothing of requests that fail:
  those are repeated, see the findings.

`DesktopProofs`, for every value of the constants of the parts:

- `TearsCostOneEach`: what is inductive is `Debt`, the saved records that are not whole
  lines plus one for an unterminated line: the record that an unterminated line will
  swallow is paid for when the line is torn. A compaction does not raise it
  (`CompactionPays`), because what the budget keeps of a set it keeps of a smaller one.
- `SamplesAreSpaced`: with a steady clock, no two samples in the file are closer than the
  interval. `Spaced` relates the file to `_last_sample_timestamp`: the sample this one
  number names stands for every line that is not yet old enough to be followed, also
  when a session learns it from what it loads. Here the assumption that a view is not
  shorter than the interval less one is used: a sample too old for the view must be old
  enough to be followed (half a minute against views of minutes).
- `ViewsAreComplete`: `_prune` stops at the first sample young enough, so the invariant
  (`ViewInv`, `Shows`) adds that the times in the view rise strictly and that nothing in
  the file is later than the clock. That what was loaded can be put in this order
  (`InOrderHolds`) is shown by the rank of each sample.
- `HeatIsAlwaysTold`, `RulesAreShown`, `LanguageIsFollowed`. The last needs that a process
  which has not shown its window cannot change the language.
- `DeploymentIsKept`: a service owed its restart by an upgrade has it, and a finished
  removal leaves nothing behind. `Owing` says that the marker carries the service from
  `prerm` to `postinst` and that it runs at both ends, `Removing` what each step of an
  undisturbed removal has made sure of.
- `ReportIsHonest`: `DoctorInv` says that the probe in hand is what could be seen when it
  was last read; the findings are then compared with the machine, check by check.
- `ArchiveTypes`, `AlertTypes`, `RuleTypes`, `DoctorTypes`, `SessionTypes`, `PackageTypes`:
  the parts' type invariants. The archive's needs that a torn write is one of the faults,
  and that `_prune` cuts a view somewhere even when a clock set back has left it out of
  order (`PrunedCuts`).
- `DesktopTyped`, `PromisesKept`: the composition. A step of the desktop is a step of a
  part or leaves it alone (`PartsRun`), so what is proved of each part's specification
  holds of the one that `desktop` checks.

Every safety property of a passing run is a theorem above. Only model-checked is liveness:
`Converges`, `Freed`, `OperationsFinish`, `ManualTakesEffectUnfailed`,
`EditsSentUnlessFailed`. The proof system has no rules for fairness or `ENABLED`.

Where a proof above needs an induction over numbers, it takes a least counterexample in
the order of the naturals (`LeastExists`, `SegmentExists`, `CurveOrdered`) or the set of
the numbers reached (`Counting`, also for recursive functions): the library's theorems
over a predicate cannot be instantiated by the provers at hand.

## 5. Findings

1. `hot_gpu`: while the CPU is between 92 and 97 degrees the GPU is not read
   (`linux.py:173`), so a GPU at or above 98 does not return the fans to the firmware
   although `docs/SAFETY.md` gives the threshold for the hotter of the two.
2. `lost_activation`: `systemctl enable --now` does nothing for a unit that is
   still active. If an earlier helper failed between saving the automatic policy
   and stopping the service, a new activation can be answered `service_active`
   while the daemon is on its way out with status 0.
3. `reapply_skipped`: the page skips a configuration equal to the one it sent last
   (`ui_lighting.py:541`) even if Fn+Space, a scene or a reconnection has changed the
   keyboard since, although the comment above `_written` and `docs/SAFETY.md` offer
   re-applying a preset as the recovery.
4. `forgotten_edit`: an edit whose timer fires during a write waits for the write's
   end; if the write fails nothing schedules it again (`ui_lighting.py:86`).
5. `failed_request`: the Doctor page keeps and saves whatever configuration the thread
   returns (`ui_doctor.py:238`), and a failed request returns the one it started with. A
   switch turned off meanwhile is turned on again in the file and in memory, although
   `updates.py:140` says that a failed request never rewrites the stored state.
6. `retried_request`: the time of the last request is kept with its answer only
   (`updates.py:150`), so after a failed one every start and every recheck asks again,
   although `docs/RELIABILITY.md:17` says "one HTTPS request per day ... It is never
   retried". What does hold, and is checked and proved, is `AnswerNotAskedAgain`: within
   the interval a request follows only one that failed or whose answer was lost.

Seen while modelling, in agreement with the models and without a run of their own:

- Control of the fans. The emergency target is the published maximum (`domain.py:166`);
  when that is not on the step grid `set_fan_targets` refuses it (`linux.py:215`) and the
  daemon ends when full speed is needed. `require_supported` is called before the `try`
  block of `FanDaemon.run`, so that exit skips the daemon's restoration path;
  `ExecStopPost` covers for it (`OneFaultTolerated`, `Freed`). A reboot in the middle of
  a stop may bring up a unit that ends at once because the policy is automatic already.
- Window. A profile that the machine took and left again before a status showed it
  keeps the row insensitive at "Confirmando" (`ui.py:357`) until it is that profile
  again or a change fails. An edit of the fans made while an apply runs is taken for
  applied when the apply succeeds (`ui.py:948`), and the next status replaces it;
  `FanDraftKept` leaves it out. A lighting edit made before the first status is dropped
  silently. When the keyboard has taken a configuration and its record cannot be saved
  (`helper.py:216`), the record of the configuration before stays.
- Power limits. A helper killed between the two writes can leave the sustained limit
  above the slow one; every later request fails while reading that pair, so none can
  repair it before a reboot or a change of profile by the firmware.
- Telemetry. A record appended to an unterminated line is lost with it. A label torn
  inside a character makes the file undecodable, and the first append of the next
  session replaces the whole archive by what it could load, nothing. A clock set back
  silences sampling until it has caught up.
- Scenes. After a failed save the row is refreshed by the next status although the
  panel keeps the refused scene, and saving another slot writes it after all.
- Update notice. The report's version line keeps the notice after an opt-out until the
  probe is read again; a clock set back makes a stored answer fresh for longer.
- Alerts and Doctor. A temperature that crosses a limit back and forth is notified each
  time, whatever the cooldown. "Comprobaciones actualizadas." is shown at once, and the
  report is rebuilt by the next status. No finding is about the power control. A unit
  in the delay before its restart, which systemd calls activating, is reported as
  "control firmware" and ok (`doctor.py:355`).
- Process. When the watcher of the indicators leaves after the registration, the
  window is still hidden at close, with no indicator; another launch presents it. The
  offer to restart stays after the active language is chosen back. A `language.json` that
  is not UTF-8 stops the start.
- Package. A daemon waiting for its restart counts as inactive for `prerm`, and the
  upgrade does not enable it again. `prerm` killed alone is followed by the new one's
  `failed-upgrade`, which removes the marker; a reboot half-way empties `/run`. In both
  cases the unit stays disabled and the fans automatic. When `systemctl` fails at a
  removal the daemon goes on driving the fans.

## 6. What is left

The order was by how much depends on the part: the control loop, the helpers with the
daemon and systemd, the lighting from the page to the record, the window; then the parts
that keep state of their own. Worth adding, in this order:

1. `PowerWrites` composed with `FanSystem`, so that a combined request sees a pair
   inverted by a killed helper; `FanSystem` has it as `Partial`.
2. The rules of `PowerRules` as the ones `MainWindow` acts on (constant there), and the
   scenes of `SceneFiles` as those its buttons send.

The parts have few runs, each with one question; small components that share no state
share one run.

## 7. Not modelled

- `patterns.py` and the wave: functions over sines, powers and hues into zone
  colours, where the model would need real numbers and hold no state.
- The command line's dispatch, the mock client, styles, file dialogs, the catalogues of
  translations, drawing and wording: no state that a state machine would tell apart.
- The build script of the package copies files.
- JSON is not modelled character by character: a document is absent, valid or broken.
- Discovery of sysfs paths is taken as done; a path that disappears is a failed read or
  write. Reading a status changes nothing; what the window does with torn ones is in
  `MainWindow`. `set-feature` is one verified write without recovery, and the device
  page's rows only show its answer.
- The start rate limit of systemd, and the session bus beyond the watcher's presence.
- Temporary files that a full disk leaves behind: no reader looks at them.
