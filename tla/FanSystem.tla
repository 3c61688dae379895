------------------------------ MODULE FanSystem ------------------------------
(***************************************************************************)
(* Who drives the fans.  The root helpers (legion_control/helper.py), one  *)
(* process per privileged request and serialised by a file lock; the fan   *)
(* daemon (daemon.py), which does not take that lock; the systemd unit     *)
(* that starts, stops and restarts the daemon; and the registers all of    *)
(* them write (linux.py): the platform profile, the power limits and the   *)
(* two fan targets.  The persisted policy is the only message from the     *)
(* helpers to the daemon.  A register write, a subprocess or a read may    *)
(* fail, and a process may be killed, at most MaxFaults times in all.      *)
(***************************************************************************)
EXTENDS Naturals, FiniteSets

CONSTANTS
  Helpers,      \* root helper processes
  Manual,       \* manual fan policies (fixed RPM or curve)
  Profiles,     \* the platform profiles other than "custom"
  Limits,       \* the power limits requests may carry
  FactoryLimits,\* the power limits after a boot
  MaxFaults,    \* bound on failures of every kind
  MaxExternal,  \* bound on profile changes by Fn+Q or another program
  MaxReboots    \* bound on reboots and power losses

Automatic == "auto"              \* FanMode.AUTO
Custom == "custom"
Firmware == "firmware"      \* a fan target of 0
Partial == "partial"        \* power limits half written and not restored
Fans == 1..2

ASSUME NamesAssumption ==
  /\ "free" \notin Helpers
  /\ Manual \cap {Automatic, Firmware, "none"} = {}
  /\ Custom \notin Profiles
  /\ Partial \notin Limits \cup {FactoryLimits}

ASSUME BudgetAssumption ==
  MaxFaults \in Nat /\ MaxExternal \in Nat /\ MaxReboots \in Nat

Requests ==
  [kind : {"restore-auto"}]
    \cup [kind : {"set-profile"}, profile : Profiles \cup {Custom}]
    \cup [kind : {"set-fan-config"}, policy : Manual]
    \cup [kind : {"set-custom-config"}, policy : Manual, limits : Limits]

NoRequest == [kind |-> "none"]

VARIABLES
  config,    \* /var/lib/legion-control/fan-config.json: the persisted policy
  profile,   \* the platform profile
  power,     \* the two power limits
  fans,      \* the two fan targets: Firmware, or the policy that set them
  lock,      \* the holder of the control lock, or "free"
  pc,        \* where each helper is
  op,        \* what the holder of the lock works with
  reply,     \* how the last request that ran ended
  unit,      \* systemd's view of the service
  job,       \* a pending "start" or "stop" of the unit
  enabled,   \* whether the unit starts at boot
  dpc,       \* where the daemon is
  running,   \* active_signature: the policy its controller was built for
  stop,      \* its _stop event
  broken,    \* a write of the tick in progress failed
  code,      \* how the last daemon process ended
  faults, external, reboots   \* what the environment has already done

helperVars == <<lock, pc, op, reply>>
unitVars == <<unit, job, enabled>>
daemonVars == <<dpc, running, stop, broken, code>>
registers == <<config, profile, power, fans>>
budgets == <<faults, external, reboots>>
vars == <<registers, helperVars, unitVars, daemonVars, budgets>>

AllFirmware == [f \in Fans |-> Firmware]

\* The helper's arguments and local variables: its request, whether a step of
\* its recovery failed, the previous profile and power limits
\* set_custom_configuration keeps, and power_limits_changed.
Operations ==
  [request : Requests \cup {NoRequest},
   errors : BOOLEAN,
   saved : [profile : Profiles \cup {Custom},
            power : Limits \cup {FactoryLimits, Partial}],
   undo : BOOLEAN]

Operation(r, previous) ==
  [request |-> r, errors |-> FALSE, saved |-> previous, undo |-> FALSE]

NoOperation == Operation(NoRequest, [profile |-> Custom, power |-> FactoryLimits])

HelperSteps ==
  {"idle", "want", "save", "custom", "power", "enable", "starting", "auto",
   "disable", "stopping", "release", "profile", "undo power", "undo profile"}

DaemonSteps ==
  {"off", "boot", "check", "load", "prepare", "sense", "write1", "write2",
   "verify", "finally", "exit"}

Replies ==
  {"none", "manual", "custom", "standard", "released", "refused",
   "rolled back", "incomplete", "killed"}

TypeOK ==
  /\ config \in Manual \cup {Automatic}
  /\ profile \in Profiles \cup {Custom}
  /\ power \in Limits \cup {FactoryLimits, Partial}
  /\ fans \in [Fans -> Manual \cup {Firmware}]
  /\ lock \in Helpers \cup {"free"}
  /\ pc \in [Helpers -> HelperSteps]
  /\ op \in Operations
  /\ reply \in Replies
  /\ unit \in {"dead", "active", "post", "waiting"}
  /\ job \in {"none", "start", "stop"}
  /\ enabled \in BOOLEAN
  /\ dpc \in DaemonSteps
  /\ running \in Manual \cup {"none"}
  /\ stop \in BOOLEAN
  /\ broken \in BOOLEAN
  /\ code \in {"none", "zero", "thermal", "error", "signal"}
  /\ faults \in 0..MaxFaults
  /\ external \in 0..MaxExternal
  /\ reboots \in 0..MaxReboots

Init ==
  /\ config = Automatic
  /\ profile \in Profiles
  /\ power = FactoryLimits
  /\ fans = AllFirmware
  /\ lock = "free"
  /\ pc = [h \in Helpers |-> "idle"]
  /\ op = NoOperation
  /\ reply = "none"
  /\ unit = "dead" /\ job = "none" /\ enabled = FALSE
  /\ dpc = "off" /\ running = "none" /\ stop = FALSE /\ broken = FALSE
  /\ code = "none"
  /\ faults = 0 /\ external = 0 /\ reboots = 0

\* One more thing goes wrong.
Fault == faults < MaxFaults /\ faults' = faults + 1
TwoFaults == faults + 2 <= MaxFaults /\ faults' = faults + 2
NoFault == UNCHANGED faults

-----------------------------------------------------------------------------
(* Registers *)

\* SysfsHardware.restore_firmware_control: writes 0 to both targets, each
\* attempted.  The two writes are one step: only the daemon races with them,
\* and it writes its targets one by one.
RestoreOk == fans' = AllFirmware /\ NoFault

Unrestored ==
  \E kept \in SUBSET Fans \ {{}} :
    fans' = [f \in Fans |-> IF f \in kept THEN fans[f] ELSE Firmware]

RestoreFailed == Fault /\ Unrestored

\* SysfsHardware.set_profile: write, then read back.  A failure may come
\* before or after the firmware took the value.
WriteProfile(p) == profile' = p /\ NoFault
WriteProfileFailed(p) == profile' \in {profile, p} /\ Fault

\* ConfigStore.save: the replace is atomic, the directory sync after it may
\* still fail.
SavePolicy(policy) == config' = policy /\ NoFault
SavePolicyFailed(policy) == config' \in {config, policy} /\ Fault

-----------------------------------------------------------------------------
(* systemd, as the unit file configures it (external) *)

\* The unit forks a fresh daemon.
Launch ==
  /\ unit' = "active" /\ job' = "none"
  /\ dpc' = "boot" /\ running' = "none" /\ stop' = FALSE /\ broken' = FALSE
  /\ code' = "none"

\* The process ended with result c; ExecStopPost is next.
Ended(c) ==
  /\ unit' = "post" /\ code' = c
  /\ dpc' = "off" /\ running' = "none" /\ stop' = FALSE /\ broken' = FALSE

\* systemctl start: nothing to do for a unit that is up, however close to its
\* end its process may be; a unit on its way down, or about to be restarted, is
\* started afterwards.
UnitStart ==
  \/ unit = "dead" /\ Launch
  \/ unit = "active" /\ job = "none" /\ UNCHANGED <<unit, job, daemonVars>>
  \/ /\ unit \in {"post", "waiting"} \/ (unit = "active" /\ job # "none")
     /\ job' = "start"
     /\ UNCHANGED <<unit, daemonVars>>

\* systemctl stop: SIGTERM sets the daemon's stop event, or ends a process that
\* has not installed its handler yet.
UnitStop ==
  \/ unit = "dead" /\ UNCHANGED <<unit, job, daemonVars>>
  \/ unit = "waiting" /\ unit' = "dead" /\ job' = "none" /\ UNCHANGED daemonVars
  \/ unit = "post" /\ job' = "stop" /\ UNCHANGED <<unit, daemonVars>>
  \/ unit = "active" /\ dpc = "boot" /\ job' = "stop" /\ Ended("zero")
  \/ /\ unit = "active" /\ dpc # "boot"
     /\ job' = "stop" /\ stop' = TRUE
     /\ UNCHANGED <<unit, dpc, running, broken, code>>

\* Restart=on-failure with RestartPreventExitStatus=3.
Restarts(postFailed) ==
  code # "thermal" /\ (code \in {"error", "signal"} \/ postFailed)

\* Slip: a start that arrived while the unit was going down is forgotten.
AfterPost_JobLost(postFailed) ==
  /\ unit' = IF job = "none" /\ Restarts(postFailed) THEN "waiting" ELSE "dead"
  /\ UNCHANGED <<job, daemonVars>>

\* After ExecStopPost: a pending job, a restart, or the end.
AfterPost(postFailed) ==
  \/ job = "start" /\ Launch
  \/ /\ job # "start"
     /\ unit' = IF job = "none" /\ Restarts(postFailed) THEN "waiting" ELSE "dead"
     /\ job' = "none"
     /\ UNCHANGED daemonVars

\* ExecStopPost=legion-control-fand --restore-auto.
StopPost ==
  /\ unit = "post"
  /\ \/ RestoreOk /\ AfterPost(FALSE)
     \/ RestoreFailed /\ AfterPost(TRUE)
  /\ UNCHANGED <<config, profile, power, helperVars, enabled, external, reboots>>

\* RestartSec has passed.
RestartUnit ==
  /\ unit = "waiting"
  /\ Launch
  /\ UNCHANGED <<registers, helperVars, enabled, budgets>>

UnitStep == StopPost \/ RestartUnit

-----------------------------------------------------------------------------
(* The root helper *)

\* The holder of the lock goes on to step, with o as its local variables.
Proceed(h, step, o) ==
  /\ pc' = [pc EXCEPT ![h] = step]
  /\ op' = o
  /\ UNCHANGED <<lock, reply>>

GoTo(h, step) == Proceed(h, step, op)

\* The process prints its answer and exits, which releases the lock.
Finish(h, r) ==
  /\ pc' = [pc EXCEPT ![h] = "idle"]
  /\ op' = NoOperation
  /\ lock' = "free"
  /\ reply' = r

Failing == [op EXCEPT !.errors = TRUE]

\* A client runs pkexec legion-control-helper.
Ask(h) ==
  /\ pc[h] = "idle"
  /\ pc' = [pc EXCEPT ![h] = "want"]
  /\ UNCHANGED <<registers, lock, op, reply, unitVars, daemonVars, budgets>>

\* _exclusive_control: the lock was not free for 15 s.
GiveUp(h) ==
  /\ pc[h] = "want"
  /\ lock # "free"
  /\ pc' = [pc EXCEPT ![h] = "idle"]
  /\ UNCHANGED <<registers, lock, op, reply, unitVars, daemonVars, budgets>>

FirstStep(r) ==
  IF r.kind = "restore-auto" THEN "auto"
  ELSE IF r.kind # "set-profile" THEN "save"
  ELSE IF r.profile = Custom THEN "profile" ELSE "auto"

\* The lock is taken and the request dispatched; set_custom_configuration
\* snapshots what it may have to put back.
Acquire(h) ==
  /\ pc[h] = "want"
  /\ lock = "free"
  /\ lock' = h
  /\ \E r \in Requests :
       /\ pc' = [pc EXCEPT ![h] = FirstStep(r)]
       /\ op' = Operation(r, IF r.kind = "set-custom-config"
                             THEN [profile |-> profile, power |-> power]
                             ELSE NoOperation.saved)
  /\ reply' = "none"
  /\ UNCHANGED <<registers, unitVars, daemonVars, budgets>>

\* store.save(policy), which the code runs before its try block.
Save(h) ==
  /\ pc[h] = "save"
  /\ \/ SavePolicy(op.request.policy) /\ GoTo(h, "custom")
     \/ SavePolicyFailed(op.request.policy) /\ Finish(h, "refused")
  /\ UNCHANGED <<profile, power, fans, unitVars, daemonVars, external, reboots>>

\* hardware.set_profile("custom"); from here on a failure starts the recovery.
EnterCustom(h) ==
  /\ pc[h] = "custom"
  /\ \/ /\ WriteProfile(Custom)
        /\ GoTo(h, IF op.request.kind = "set-custom-config" THEN "power" ELSE "enable")
     \/ WriteProfileFailed(Custom) /\ GoTo(h, "auto")
  /\ UNCHANGED <<config, power, fans, unitVars, daemonVars, external, reboots>>

\* SysfsHardware.set_power_limits: refused outside the custom profile; a failed
\* write puts both values back, unless that fails as well.
WritePower(limits) == profile = Custom /\ power' = limits /\ NoFault
WritePowerFailed == ((profile # Custom /\ NoFault) \/ Fault) /\ UNCHANGED power
WritePowerTorn ==
  /\ profile = Custom
  /\ TwoFaults
  /\ power' = Partial

\* Slip: the change of the power limits is not noted for the recovery.
SetPower_NotNoted(h) ==
  /\ pc[h] = "power"
  /\ \/ WritePower(op.request.limits) /\ GoTo(h, "enable")
     \/ WritePowerFailed /\ GoTo(h, "auto")
     \/ WritePowerTorn /\ Proceed(h, "auto", Failing)
  /\ UNCHANGED <<config, profile, fans, unitVars, daemonVars, external, reboots>>

SetPower(h) ==
  /\ pc[h] = "power"
  /\ \/ WritePower(op.request.limits) /\ Proceed(h, "enable", [op EXCEPT !.undo = TRUE])
     \/ WritePowerFailed /\ GoTo(h, "auto")
     \/ WritePowerTorn /\ Proceed(h, "auto", Failing)
  /\ UNCHANGED <<config, profile, fans, unitVars, daemonVars, external, reboots>>

\* systemctl enable --now.
Enable(h) ==
  /\ pc[h] = "enable"
  /\ \/ enabled' = TRUE /\ UnitStart /\ GoTo(h, "starting") /\ NoFault
     \/ /\ Fault
        /\ enabled' \in {enabled, TRUE}
        /\ GoTo(h, "auto") /\ UNCHANGED <<unit, job, daemonVars>>
  /\ UNCHANGED <<registers, external, reboots>>

\* systemctl waits for the start job, for at most 15 s.
Started(h) ==
  /\ pc[h] = "starting"
  /\ \/ job # "start" /\ Finish(h, "manual") /\ NoFault
     \/ job = "start" /\ GoTo(h, "auto") /\ Fault
  /\ UNCHANGED <<registers, unitVars, daemonVars, external, reboots>>

\* _stop_manual_control, first: save the automatic policy.
SaveAuto(h) ==
  /\ pc[h] = "auto"
  /\ \/ SavePolicy(Automatic) /\ GoTo(h, "disable")
     \/ SavePolicyFailed(Automatic) /\ Proceed(h, "disable", Failing)
  /\ UNCHANGED <<profile, power, fans, unitVars, daemonVars, external, reboots>>

\* Second: systemctl disable --now.
Disable(h) ==
  /\ pc[h] = "disable"
  /\ \/ enabled' = FALSE /\ UnitStop /\ GoTo(h, "stopping") /\ NoFault
     \/ /\ Fault
        /\ enabled' \in {enabled, FALSE}
        /\ Proceed(h, "release", Failing) /\ UNCHANGED <<unit, job, daemonVars>>
  /\ UNCHANGED <<registers, external, reboots>>

\* Slip: systemctl disable without waiting for the unit (--no-block).
Stopped_NoWait(h) ==
  /\ pc[h] = "stopping"
  /\ GoTo(h, "release") /\ NoFault
  /\ UNCHANGED <<registers, unitVars, daemonVars, external, reboots>>

\* systemctl waits until the unit is down, for at most 15 s.
Stopped(h) ==
  /\ pc[h] = "stopping"
  /\ \/ unit = "dead" /\ GoTo(h, "release") /\ NoFault
     \/ unit # "dead" /\ Proceed(h, "release", Failing) /\ Fault
  /\ UNCHANGED <<registers, unitVars, daemonVars, external, reboots>>

\* set_custom_configuration's recovery ends with an error that names what
\* could not be put back, or with the original one.
Recovered(h, o) == Finish(h, IF o.errors THEN "incomplete" ELSE "rolled back")

UndoProfileOrEnd(h, o) ==
  IF o.saved.profile # Custom THEN Proceed(h, "undo profile", o) ELSE Recovered(h, o)

\* What each request does after its stop sequence.
AfterStop(h, o) ==
  \/ /\ o.request.kind = "restore-auto"
     /\ Finish(h, IF o.errors THEN "incomplete" ELSE "released")
  \/ /\ o.request.kind = "set-profile"
     /\ IF o.errors THEN Finish(h, "incomplete") ELSE Proceed(h, "profile", o)
  \/ o.request.kind = "set-fan-config" /\ Recovered(h, o)
  \/ /\ o.request.kind = "set-custom-config"
     /\ IF o.undo THEN Proceed(h, "undo power", o) ELSE UndoProfileOrEnd(h, o)

\* Third: hardware.restore_firmware_control.
Release(h) ==
  /\ pc[h] = "release"
  /\ \/ RestoreOk /\ AfterStop(h, op)
     \/ RestoreFailed /\ AfterStop(h, Failing)
  /\ UNCHANGED <<config, profile, power, unitVars, daemonVars, external, reboots>>

\* The last step of set_profile.
SetProfile(h) ==
  /\ pc[h] = "profile"
  /\ \/ /\ WriteProfile(op.request.profile)
        /\ Finish(h, IF op.request.profile = Custom THEN "custom" ELSE "standard")
     \/ WriteProfileFailed(op.request.profile) /\ Finish(h, "incomplete")
  /\ UNCHANGED <<config, power, fans, unitVars, daemonVars, external, reboots>>

\* _recover_custom_configuration: the power limits, while the profile still
\* lets them be written ...
UndoPower(h) ==
  /\ pc[h] = "undo power"
  /\ \/ WritePower(op.saved.power) /\ UndoProfileOrEnd(h, op)
     \/ (WritePowerFailed \/ WritePowerTorn) /\ UndoProfileOrEnd(h, Failing)
  /\ UNCHANGED <<config, profile, fans, unitVars, daemonVars, external, reboots>>

\* ... and then the profile.
UndoProfile(h) ==
  /\ pc[h] = "undo profile"
  /\ \/ WriteProfile(op.saved.profile) /\ Recovered(h, op)
     \/ WriteProfileFailed(op.saved.profile) /\ Recovered(h, Failing)
  /\ UNCHANGED <<config, power, fans, unitVars, daemonVars, external, reboots>>

HelperStep(h) ==
  \/ GiveUp(h) \/ Acquire(h) \/ Save(h) \/ EnterCustom(h) \/ SetPower(h)
  \/ Enable(h) \/ Started(h) \/ SaveAuto(h) \/ Disable(h) \/ Stopped(h)
  \/ Release(h) \/ SetProfile(h) \/ UndoPower(h) \/ UndoProfile(h)

\* The holder of the lock is killed; the kernel releases its lock.
KillHelper(h) ==
  /\ lock = h
  /\ Fault
  /\ Finish(h, "killed")
  /\ power' \in {power} \cup
       (IF pc[h] \in {"power", "undo power"} THEN {Partial} ELSE {})
  /\ UNCHANGED <<config, profile, fans, unitVars, daemonVars, external, reboots>>

-----------------------------------------------------------------------------
(* FanDaemon.run *)

DaemonGoTo(step) == dpc' = step /\ UNCHANGED code
\* The run ends with result c: its finally block is next.
Leave(c) == dpc' = "finally" /\ code' = c

\* Signal handlers installed.
Boot ==
  /\ dpc = "boot"
  /\ DaemonGoTo("check")
  /\ UNCHANGED <<registers, helperVars, unitVars, running, stop, broken, budgets>>

\* require_supported, which runs before the try block.
CheckSupported ==
  /\ dpc = "check"
  /\ \/ DaemonGoTo("load") /\ NoFault
     \/ dpc' = "exit" /\ code' = "error" /\ Fault
  /\ UNCHANGED <<registers, helperVars, unitVars, running, stop, broken,
                 external, reboots>>

\* Slip: an automatic policy is not told from the others.
Load_AutoIsAPolicy ==
  /\ dpc = "load"
  /\ \/ stop /\ Leave("zero") /\ NoFault /\ UNCHANGED running
     \/ /\ ~stop
        /\ running' = config
        /\ DaemonGoTo(IF config = running THEN "sense" ELSE "prepare")
        /\ NoFault
     \/ ~stop /\ Leave("error") /\ Fault /\ UNCHANGED running
  /\ UNCHANGED <<registers, helperVars, unitVars, stop, broken, external, reboots>>

\* Slip: the policy is read once, when the run starts.
Load_ReadOnce ==
  /\ dpc = "load"
  /\ \/ stop /\ Leave("zero") /\ NoFault /\ UNCHANGED running
     \/ ~stop /\ running # "none" /\ DaemonGoTo("sense") /\ NoFault /\ UNCHANGED running
     \/ /\ ~stop /\ running = "none" /\ config # Automatic
        /\ running' = config
        /\ DaemonGoTo("prepare") /\ NoFault
     \/ ~stop /\ running = "none" /\ config = Automatic /\ Leave("zero") /\ NoFault
        /\ UNCHANGED running
     \/ ~stop /\ Leave("error") /\ Fault /\ UNCHANGED running
  /\ UNCHANGED <<registers, helperVars, unitVars, stop, broken, external, reboots>>

\* The top of the loop: the stop event, the persisted policy, a new controller
\* when the policy is not the one in force.
Load ==
  /\ dpc = "load"
  /\ \/ stop /\ Leave("zero") /\ NoFault /\ UNCHANGED running
     \/ ~stop /\ config = Automatic /\ Leave("zero") /\ NoFault /\ UNCHANGED running
     \/ /\ ~stop /\ config # Automatic
        /\ running' = config
        /\ DaemonGoTo(IF config = running THEN "sense" ELSE "prepare")
        /\ NoFault
     \/ ~stop /\ Leave("error") /\ Fault /\ UNCHANGED running
  /\ UNCHANGED <<registers, helperVars, unitVars, stop, broken, external, reboots>>

\* Slip: the daemon leaves the profile to the helper that started it.
Prepare_NoProfile ==
  /\ dpc = "prepare"
  /\ DaemonGoTo("sense") /\ NoFault
  /\ UNCHANGED <<registers, helperVars, unitVars, running, stop, broken,
                 external, reboots>>

\* _ensure_custom_profile.
Prepare ==
  /\ dpc = "prepare"
  /\ \/ WriteProfile(Custom) /\ DaemonGoTo("sense")
     \/ WriteProfileFailed(Custom) /\ Leave("error")
  /\ UNCHANGED <<config, power, fans, helperVars, unitVars, running, stop,
                 broken, external, reboots>>

\* thermal_snapshot and next_targets: targets, a thermal exit, or an error.
Sense ==
  /\ dpc = "sense"
  /\ \/ DaemonGoTo("write1") /\ NoFault
     \/ Leave("thermal") /\ NoFault
     \/ Leave("error") /\ Fault
  /\ UNCHANGED <<registers, helperVars, unitVars, running, stop, broken,
                 external, reboots>>

\* set_fan_targets: both targets are attempted.
WriteTarget(f, from, to) ==
  /\ dpc = from
  /\ \/ fans' = [fans EXCEPT ![f] = running] /\ NoFault /\ UNCHANGED broken
     \/ Fault /\ broken' = TRUE /\ UNCHANGED fans
  /\ DaemonGoTo(to)
  /\ UNCHANGED <<config, profile, power, helperVars, unitVars, running, stop,
                 external, reboots>>

Write1 == WriteTarget(1, "write1", "write2")
Write2 == WriteTarget(2, "write2", "verify")

Accepted == ~broken /\ \A f \in Fans : fans[f] = running

\* The readback; a tick that failed gives the fans back and ends the run, unless
\* that fails as well (_fan_restore_detail).
Verify ==
  /\ dpc = "verify"
  /\ \/ Accepted /\ DaemonGoTo("load") /\ NoFault /\ UNCHANGED fans
     \/ ~Accepted /\ Leave("error") /\ (RestoreOk \/ RestoreFailed)
     \/ Accepted /\ Leave("error") /\ Fault /\ fans' = AllFirmware
     \/ Accepted /\ Leave("error") /\ TwoFaults /\ Unrestored
  /\ UNCHANGED <<config, profile, power, helperVars, unitVars, running, stop,
                 broken, external, reboots>>

\* Slip: nothing is restored when the run ends.
Finally_NoRestore ==
  /\ dpc = "finally"
  /\ DaemonGoTo("exit") /\ NoFault
  /\ UNCHANGED <<registers, helperVars, unitVars, running, stop, broken,
                 external, reboots>>

\* _restore_safely: a failure is logged and the exit status stays.
Finally ==
  /\ dpc = "finally"
  /\ RestoreOk \/ RestoreFailed
  /\ DaemonGoTo("exit")
  /\ UNCHANGED <<config, profile, power, helperVars, unitVars, running, stop,
                 broken, external, reboots>>

\* systemd reaps the process.
Exit ==
  /\ dpc = "exit"
  /\ Ended(code)
  /\ UNCHANGED <<registers, helperVars, job, enabled, budgets>>

DaemonStep ==
  \/ Boot \/ CheckSupported \/ Load \/ Prepare \/ Sense \/ Write1 \/ Write2
  \/ Verify \/ Finally \/ Exit

\* SIGKILL, an out-of-memory kill or a crash.
KillDaemon ==
  /\ dpc # "off"
  /\ Fault
  /\ Ended("signal")
  /\ UNCHANGED <<registers, helperVars, job, enabled, external, reboots>>

-----------------------------------------------------------------------------
(* The environment *)

\* Fn+Q or another program changes the profile.
ChangeProfile ==
  /\ external < MaxExternal /\ external' = external + 1
  /\ profile' \in (Profiles \cup {Custom}) \ {profile}
  /\ UNCHANGED <<config, power, fans, helperVars, unitVars, daemonVars, faults,
                 reboots>>

\* Every process ends, the registers take their power-on values, and only the
\* policy file and the unit's enablement persist.
Reboot ==
  /\ reboots < MaxReboots /\ reboots' = reboots + 1
  /\ profile' \in Profiles \cup {Custom}
  /\ power' = FactoryLimits
  /\ fans' = AllFirmware
  /\ lock' = "free"
  /\ pc' = [h \in Helpers |-> "idle"]
  /\ op' = NoOperation
  /\ reply' = IF lock = "free" THEN reply ELSE "killed"
  /\ IF enabled THEN Launch
     ELSE /\ unit' = "dead" /\ job' = "none" /\ dpc' = "off"
          /\ running' = "none" /\ stop' = FALSE /\ broken' = FALSE /\ code' = "none"
  /\ UNCHANGED <<config, enabled, faults, external>>

Next ==
  \/ \E h \in Helpers : Ask(h) \/ HelperStep(h) \/ KillHelper(h)
  \/ DaemonStep \/ KillDaemon
  \/ UnitStep
  \/ ChangeProfile \/ Reboot

Spec == Init /\ [][Next]_vars

\* The processes keep running: the scheduler runs a helper, the daemon and
\* systemd whenever they have something to do.
Fairness ==
  /\ \A h \in Helpers : WF_vars(HelperStep(h))
  /\ WF_vars(DaemonStep)
  /\ WF_vars(UnitStep)

FairSpec == Spec /\ Fairness

-----------------------------------------------------------------------------
(* What the parts promise together *)

\* A helper beyond its wait for the lock holds it: the requests that change the
\* machine run one at a time.
Exclusive == \A h \in Helpers : pc[h] \in {"idle", "want"} <=> lock # h

\* An answer that says manual control is over (firmware restored, a standard
\* profile set, a failed activation rolled back) can be relied on until the next
\* request: the policy is automatic, the service is down, it does not come back
\* at boot, and no stale tick of the daemon, late restart or pending start job
\* has taken the fans again.
HandedBack ==
  lock = "free" /\ reply \in {"released", "standard", "rolled back"} =>
    config = Automatic /\ unit = "dead" /\ ~enabled /\ fans = AllFirmware

\* Whatever single thing went wrong, and whatever was answered, the fans are
\* never left manual with no daemon and no helper at work: the stop sequence,
\* the finally block, ExecStopPost and the restart cover for each other.
OneFaultTolerated ==
  lock = "free" /\ unit = "dead" /\ faults <= 1 => fans = AllFirmware

\* The daemon writes targets only in the custom profile, as long as nothing but
\* the program changes the profile and at most one thing went wrong: no standard
\* profile is set, put back, or left by a reboot under a daemon that drives.
CustomWhileManual ==
  dpc \in {"write1", "write2"} /\ faults <= 1 /\ external = 0 => profile = Custom

\* set_custom_configuration answers with the original error, and not with one
\* that names an incomplete recovery, only when the profile and both power
\* limits are what they were before it started.
RollbackRestores ==
  [][\A h \in Helpers :
       /\ pc[h] \in {"release", "undo power", "undo profile"}
       /\ op.request.kind = "set-custom-config" /\ reply' = "rolled back"
       => /\ op.saved.profile # Custom => profile' = op.saved.profile
          /\ power' = op.saved.power]_vars

Lease == INSTANCE FanLease WITH
  granted <- config # Automatic,
  leased <- dpc \in {"prepare", "sense", "write1", "write2", "verify"},
  manual <- fans # AllFirmware

\* The fans leave the firmware only in a tick of the daemon that found a manual
\* policy in the file at its start; so at most one tick outlives its policy.
LeaseSpec == Lease!Spec

\* A saved automatic policy is enough to free the fans, even when the helper
\* that saved it is killed before it stops the service.
Freed == Lease!Freed

\* After an answer that manual control is active, the fans get the policy in
\* force, unless a thermal exit or another request comes first.
ManualTakesEffect ==
  lock = "free" /\ reply = "manual" ~>
    \/ \A f \in Fans : fans[f] = config
    \/ code = "thermal"
    \/ lock # "free" \/ reply # "manual"

\* The same, as long as no step has failed, been killed or cut off by a reboot.
ManualTakesEffectUnfailed ==
  lock = "free" /\ reply = "manual" ~>
    \/ \A f \in Fans : fans[f] = config
    \/ code = "thermal" \/ faults > 0 \/ reboots > 0
    \/ lock # "free" \/ reply # "manual"

\* A helper never waits for ever for the lock, for systemd or for the daemon.
OperationsFinish == \A h \in Helpers : pc[h] # "idle" ~> pc[h] = "idle"
=============================================================================
