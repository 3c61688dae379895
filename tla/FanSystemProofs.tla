--------------------------- MODULE FanSystemProofs ---------------------------
(***************************************************************************)
(* FanSystem, for any number of helpers, policies, faults, profile changes *)
(* and reboots: an answer that manual control is over can be relied on,    *)
(* and the fans are only ever driven under a lease.                        *)
(***************************************************************************)
EXTENDS FanSystem, TLAPS

-----------------------------------------------------------------------------
(* Requests and the steps that serve them *)

Activations == {"set-fan-config", "set-custom-config"}

\* The steps that serve request r.
Suits(step, r) ==
  /\ r \in Requests
  /\ step \in {"save", "custom", "enable", "starting"} => r.kind \in Activations
  /\ step \in {"power", "undo power", "undo profile"} => r.kind = "set-custom-config"
  /\ step = "profile" => r.kind = "set-profile"

Serves ==
  \A h \in Helpers : pc[h] \notin {"idle", "want"} => Suits(pc[h], op.request)

\* The unit is up exactly while its process runs, a unit that is down has no
\* job, and one about to be restarted has none to stop.
UnitShape ==
  /\ unit = "active" <=> dpc # "off"
  /\ unit = "dead" => job = "none"
  /\ unit = "waiting" => job # "stop"
  /\ dpc \in {"prepare", "sense", "write1", "write2", "verify"} => running # "none"

\* An activation carries a manual policy.
LEMMA ActivationPolicy ==
  ASSUME NEW r \in Requests, r.kind \in Activations
  PROVE  r.policy \in Manual
BY DEF Requests, Activations

\* A combined activation carries power limits.
LEMMA CombinedLimits ==
  ASSUME NEW r \in Requests, r.kind = "set-custom-config"
  PROVE  r.limits \in Limits
BY DEF Requests

\* A profile request names a profile the hardware has.
LEMMA RequestedProfile ==
  ASSUME NEW r \in Requests, r.kind = "set-profile"
  PROVE  r.profile \in Profiles \cup {Custom}
BY DEF Requests

-----------------------------------------------------------------------------
(* Control: the helpers and their lock.  Machine: everything else. *)

Control ==
  /\ lock \in Helpers \cup {"free"}
  /\ pc \in [Helpers -> HelperSteps]
  /\ op \in Operations
  /\ reply \in Replies
  /\ Exclusive
  /\ Serves

RegistersTyped ==
  /\ config \in Manual \cup {Automatic}
  /\ profile \in Profiles \cup {Custom}
  /\ power \in Limits \cup {FactoryLimits, Partial}
  /\ fans \in [Fans -> Manual \cup {Firmware}]

UnitTyped ==
  /\ unit \in {"dead", "active", "post", "waiting"}
  /\ job \in {"none", "start", "stop"}
  /\ enabled \in BOOLEAN
  /\ dpc \in DaemonSteps
  /\ running \in Manual \cup {"none"}
  /\ stop \in BOOLEAN
  /\ broken \in BOOLEAN
  /\ code \in {"none", "zero", "thermal", "error", "signal"}
  /\ UnitShape

BudgetsTyped ==
  /\ faults \in 0..MaxFaults
  /\ external \in 0..MaxExternal
  /\ reboots \in 0..MaxReboots

Machine == RegistersTyped /\ UnitTyped /\ BudgetsTyped

\* The two halves make up the type invariant.
LEMMA Halves == Control /\ Machine => TypeOK
<1> SUFFICES ASSUME Control, Machine PROVE TypeOK
  OBVIOUS
<1>1. lock \in Helpers \cup {"free"} /\ pc \in [Helpers -> HelperSteps]
      /\ op \in Operations /\ reply \in Replies
  BY DEF Control
<1> QED
  BY <1>1 DEF Machine, RegistersTyped, UnitTyped, BudgetsTyped, TypeOK

\* The first state has its types, no holder and a unit that is down.
LEMMA ShapeInit == Init => Control /\ Machine
<1> SUFFICES ASSUME Init PROVE Control /\ Machine
  OBVIOUS
<1>1. op \in Operations
  BY DEF Init, Operations, NoOperation, Operation
<1>2. fans \in [Fans -> Manual \cup {Firmware}]
  BY DEF Init, AllFirmware
<1>3. faults \in 0..MaxFaults /\ external \in 0..MaxExternal /\ reboots \in 0..MaxReboots
  BY BudgetAssumption DEF Init
<1>4. Exclusive /\ Serves /\ UnitShape
  BY NamesAssumption DEF Init, Exclusive, Serves, UnitShape
<1>5. Control
  BY <1>1, <1>4 DEF Init, Control, HelperSteps, Replies
<1>6. Machine
  BY <1>2, <1>3, <1>4 DEF Init, Machine, RegistersTyped, UnitTyped, BudgetsTyped, DaemonSteps
<1> QED BY <1>5, <1>6

\* A helper beyond its wait holds the lock and serves a request.
LEMMA HolderServes ==
  ASSUME Control, NEW h \in Helpers, pc[h] \notin {"idle", "want"}
  PROVE  lock = h /\ op.request \in Requests /\ Suits(pc[h], op.request)
BY DEF Control, Exclusive, Serves, Suits

\* The holder's next step keeps the lock's discipline, when it serves the same
\* request.
LEMMA ProceedControl ==
  ASSUME Control, NEW h \in Helpers, lock = h,
         NEW step \in HelperSteps \ {"idle", "want"}, NEW o \in Operations,
         Suits(step, o.request),
         Proceed(h, step, o)
  PROVE  Control'
BY DEF Control, Exclusive, Serves, Proceed

\* The holder's exit frees the lock.
LEMMA FinishControl ==
  ASSUME Control, NEW h \in Helpers, lock = h, NEW r \in Replies, Finish(h, r)
  PROVE  Control'
<1>1. NoOperation \in Operations
  BY DEF NoOperation, Operation, Operations
<1> QED
  BY <1>1, NamesAssumption DEF Control, Exclusive, Serves, Finish, HelperSteps

\* Nothing but the helpers moves them.
LEMMA ControlStutters ==
  ASSUME Control, UNCHANGED helperVars
  PROVE  Control'
BY DEF Control, Exclusive, Serves, helperVars

\* Noting an error leaves the rest of the operation alone.
LEMMA FailingType ==
  ASSUME Control
  PROVE  Failing \in Operations /\ Failing.request = op.request /\ Failing.errors
         /\ Failing.saved = op.saved /\ Failing.undo = op.undo
BY DEF Control, Failing, Operations

-----------------------------------------------------------------------------
(* The unit *)

\* A fresh process fits the unit's shape.
LEMMA LaunchTyped ==
  ASSUME Launch, enabled' \in BOOLEAN
  PROVE  UnitTyped'
BY DEF Launch, UnitTyped, UnitShape, DaemonSteps

\* So does a process that has ended.
LEMMA EndedTyped ==
  ASSUME NEW c \in {"zero", "thermal", "error", "signal"},
         Ended(c), job' \in {"none", "start", "stop"}, enabled' \in BOOLEAN
  PROVE  UnitTyped'
BY DEF Ended, UnitTyped, UnitShape, DaemonSteps

\* systemctl start and systemctl stop keep the shape.
LEMMA StartTyped ==
  ASSUME UnitTyped, UnitStart, enabled' \in BOOLEAN
  PROVE  UnitTyped'
<1>1. CASE Launch
  BY <1>1, LaunchTyped
<1>2. CASE ~Launch
  BY <1>2 DEF UnitStart, UnitTyped, UnitShape, daemonVars
<1> QED BY <1>1, <1>2

\* The same of systemctl stop.
LEMMA StopTyped ==
  ASSUME UnitTyped, UnitStop, enabled' \in BOOLEAN
  PROVE  UnitTyped'
<1>1. CASE Ended("zero") /\ job' = "stop"
  BY <1>1, EndedTyped
<1>2. CASE ~(Ended("zero") /\ job' = "stop")
  BY <1>2 DEF UnitStop, UnitTyped, UnitShape, daemonVars
<1> QED BY <1>1, <1>2

\* What does not touch the unit keeps it.
LEMMA UnitStutters ==
  ASSUME UnitTyped, UNCHANGED <<unitVars, daemonVars>>
  PROVE  UnitTyped'
BY DEF UnitTyped, UnitShape, unitVars, daemonVars

\* What goes wrong stays within its bound.
LEMMA BudgetSpent ==
  ASSUME BudgetsTyped, UNCHANGED <<external, reboots>>,
         NoFault \/ Fault \/ TwoFaults
  PROVE  BudgetsTyped'
BY BudgetAssumption DEF BudgetsTyped, NoFault, Fault, TwoFaults

-----------------------------------------------------------------------------
(* The helpers' steps *)

\* What set_custom_configuration keeps has the types of the registers.
LEMMA SavedTyped ==
  ASSUME Control
  PROVE  op.saved.profile \in Profiles \cup {Custom}
         /\ op.saved.power \in Limits \cup {FactoryLimits, Partial}
BY DEF Control, Operations

\* What a helper does to the registers keeps their types.
LEMMA HelperRegisters ==
  ASSUME Control, RegistersTyped, NEW h \in Helpers,
         Ask(h) \/ HelperStep(h) \/ KillHelper(h)
  PROVE  RegistersTyped'
<1> USE DEF RegistersTyped, registers
<1>1. CASE Save(h)
  <2>1. op.request.policy \in Manual
    BY <1>1, HolderServes, ActivationPolicy DEF Save, Suits
  <2> QED
    BY <1>1, <2>1 DEF Save, SavePolicy, SavePolicyFailed
<1>2. CASE EnterCustom(h)
  BY <1>2 DEF EnterCustom, WriteProfile, WriteProfileFailed
<1>3. CASE SetPower(h)
  <2>1. op.request.limits \in Limits
    BY <1>3, HolderServes, CombinedLimits DEF SetPower, Suits
  <2> QED
    BY <1>3, <2>1 DEF SetPower, WritePower, WritePowerFailed, WritePowerTorn
<1>4. CASE SaveAuto(h)
  BY <1>4 DEF SaveAuto, SavePolicy, SavePolicyFailed
<1>5. CASE Release(h)
  BY <1>5 DEF Release, RestoreOk, RestoreFailed, Unrestored, AllFirmware
<1>6. CASE SetProfile(h)
  <2>1. op.request.profile \in Profiles \cup {Custom}
    BY <1>6, HolderServes, RequestedProfile DEF SetProfile, Suits
  <2> QED
    BY <1>6, <2>1 DEF SetProfile, WriteProfile, WriteProfileFailed
<1>7. CASE UndoPower(h)
  BY <1>7, SavedTyped DEF UndoPower, WritePower, WritePowerFailed, WritePowerTorn
<1>8. CASE UndoProfile(h)
  BY <1>8, SavedTyped DEF UndoProfile, WriteProfile, WriteProfileFailed
<1>9. CASE KillHelper(h)
  <2>1. power' \in {power, Partial}
    BY <1>9 DEF KillHelper
  <2> QED
    BY <1>9, <2>1 DEF KillHelper
<1>10. CASE Ask(h) \/ GiveUp(h) \/ Acquire(h) \/ Enable(h) \/ Started(h)
            \/ Disable(h) \/ Stopped(h)
  BY <1>10 DEF Ask, GiveUp, Acquire, Enable, Started, Disable, Stopped
<1> QED
  BY <1>1, <1>2, <1>3, <1>4, <1>5, <1>6, <1>7, <1>8, <1>9, <1>10 DEF HelperStep

\* Of a helper's steps only Enable and Disable reach the unit.
LEMMA HelperUnit ==
  ASSUME UnitTyped, NEW h \in Helpers, Ask(h) \/ HelperStep(h) \/ KillHelper(h)
  PROVE  UnitTyped'
<1>1. CASE Enable(h)
  <2>1. enabled' \in BOOLEAN
    BY <1>1 DEF Enable, UnitTyped
  <2>2. CASE UnitStart
    BY <2>1, <2>2, StartTyped
  <2>3. CASE UNCHANGED <<unit, job, daemonVars>>
    BY <2>1, <2>3 DEF UnitTyped, UnitShape, daemonVars
  <2> QED BY <1>1, <2>2, <2>3 DEF Enable
<1>2. CASE Disable(h)
  <2>1. enabled' \in BOOLEAN
    BY <1>2 DEF Disable, UnitTyped
  <2>2. CASE UnitStop
    BY <2>1, <2>2, StopTyped
  <2>3. CASE UNCHANGED <<unit, job, daemonVars>>
    BY <2>1, <2>3 DEF UnitTyped, UnitShape, daemonVars
  <2> QED BY <1>2, <2>2, <2>3 DEF Disable
<1>3. CASE ~Enable(h) /\ ~Disable(h)
  <2>1. UNCHANGED <<unitVars, daemonVars>>
    BY <1>3 DEF HelperStep, Ask, GiveUp, Acquire, Save, EnterCustom, SetPower, Started,
       SaveAuto, Stopped, Release, SetProfile, UndoPower, UndoProfile, KillHelper
  <2> QED BY <2>1, UnitStutters
<1> QED BY <1>1, <1>2, <1>3

\* A helper's step spends at most two faults, and only when they are left.
LEMMA HelperBudgets ==
  ASSUME BudgetsTyped, NEW h \in Helpers, Ask(h) \/ HelperStep(h) \/ KillHelper(h)
  PROVE  BudgetsTyped'
<1>1. UNCHANGED <<external, reboots>>
  BY DEF HelperStep, Ask, GiveUp, Acquire, Save, EnterCustom, SetPower, Enable, Started,
     SaveAuto, Disable, Stopped, Release, SetProfile, UndoPower, UndoProfile, KillHelper,
     budgets
<1>2. NoFault \/ Fault \/ TwoFaults
  BY DEF HelperStep, Ask, GiveUp, Acquire, Save, EnterCustom, SetPower, Enable, Started,
     SaveAuto, Disable, Stopped, Release, SetProfile, UndoPower, UndoProfile, KillHelper,
     budgets, NoFault, SavePolicy, SavePolicyFailed, WriteProfile, WriteProfileFailed,
     WritePower, WritePowerFailed, WritePowerTorn, RestoreOk, RestoreFailed
<1> QED BY <1>1, <1>2, BudgetSpent

\* The operation once the power limits are written.
Noted == [op EXCEPT !.undo = TRUE]

\* A step of the holder that keeps its request, or its exit, keeps the lock's
\* discipline.
LEMMA HolderMoves ==
  ASSUME Control, NEW h \in Helpers, lock = h, op.request \in Requests,
         \/ \E step \in HelperSteps \ {"idle", "want"}, o \in {op, Failing, Noted} :
              Suits(step, op.request) /\ Proceed(h, step, o)
         \/ \E r \in Replies : Finish(h, r)
  PROVE  Control'
<1>1. CASE \E r \in Replies : Finish(h, r)
  BY <1>1, FinishControl
<1>2. ASSUME NEW step \in HelperSteps \ {"idle", "want"}, NEW o \in {op, Failing, Noted},
             Suits(step, op.request), Proceed(h, step, o)
      PROVE  Control'
  <2>1. o \in Operations /\ o.request = op.request
    BY FailingType DEF Control, Noted, Operations
  <2> QED BY <1>2, <2>1, ProceedControl
<1> QED BY <1>1, <1>2

\* The helpers' steps keep the lock's discipline and serve their requests.
LEMMA HelperControl ==
  ASSUME Control, RegistersTyped, NEW h \in Helpers, Ask(h) \/ HelperStep(h) \/ KillHelper(h)
  PROVE  Control'
<1> USE DEF HelperSteps, Replies, GoTo
<1>1. CASE Ask(h) \/ GiveUp(h)
  BY <1>1 DEF Ask, GiveUp, Control, Exclusive, Serves
<1>2. CASE Acquire(h)
  <2>1. PICK r \in Requests :
          /\ pc' = [pc EXCEPT ![h] = FirstStep(r)]
          /\ op' = Operation(r, IF r.kind = "set-custom-config"
                                THEN [profile |-> profile, power |-> power]
                                ELSE NoOperation.saved)
    BY <1>2 DEF Acquire
  <2>2. Suits(FirstStep(r), r) /\ FirstStep(r) \in HelperSteps \ {"idle", "want"}
    BY DEF Suits, FirstStep, Requests, Activations
  <2>3. Operation(r, IF r.kind = "set-custom-config"
                     THEN [profile |-> profile, power |-> power]
                     ELSE NoOperation.saved) \in Operations
    BY DEF RegistersTyped, Operation, NoOperation, Operations
  <2>4. op'.request = r /\ op' \in Operations
    BY <2>1, <2>3 DEF Operation
  <2>5. lock = "free" /\ lock' = h /\ reply' = "none"
    BY <1>2 DEF Acquire
  <2>6. pc'[h] = FirstStep(r) /\ \A k \in Helpers \ {h} : pc'[k] = pc[k]
    BY <2>1 DEF Control
  <2>7. \A k \in Helpers : pc[k] \in {"idle", "want"}
    BY <2>5, NamesAssumption DEF Control, Exclusive
  <2>8. Exclusive'
    BY <2>2, <2>5, <2>6, <2>7 DEF Exclusive
  <2>9. Serves'
    BY <2>2, <2>4, <2>6, <2>7 DEF Serves
  <2>10. pc' \in [Helpers -> HelperSteps]
    BY <2>1, <2>2 DEF Control
  <2> QED
    BY <2>4, <2>5, <2>8, <2>9, <2>10 DEF Control
<1>3. CASE Save(h)
  <2>1. lock = h /\ op.request \in Requests /\ Suits(pc[h], op.request)
    BY <1>3, HolderServes DEF Save
  <2> QED
    BY <1>3, <2>1, HolderMoves DEF Save, Suits, Activations
<1>4. CASE EnterCustom(h)
  <2>1. lock = h /\ op.request \in Requests /\ Suits(pc[h], op.request)
    BY <1>4, HolderServes DEF EnterCustom
  <2> QED
    BY <1>4, <2>1, HolderMoves DEF EnterCustom, Suits, Activations
<1>5. CASE SetPower(h)
  <2>1. lock = h /\ op.request \in Requests /\ Suits(pc[h], op.request)
    BY <1>5, HolderServes DEF SetPower
  <2> QED
    BY <1>5, <2>1, HolderMoves DEF SetPower, Suits, Activations, Noted
<1>6. CASE Enable(h)
  <2>1. lock = h /\ op.request \in Requests /\ Suits(pc[h], op.request)
    BY <1>6, HolderServes DEF Enable
  <2> QED
    BY <1>6, <2>1, HolderMoves DEF Enable, Suits, Activations
<1>7. CASE Started(h)
  <2>1. lock = h /\ op.request \in Requests /\ Suits(pc[h], op.request)
    BY <1>7, HolderServes DEF Started
  <2> QED
    BY <1>7, <2>1, HolderMoves DEF Started, Suits, Activations
<1>8. CASE SaveAuto(h)
  <2>1. lock = h /\ op.request \in Requests /\ Suits(pc[h], op.request)
    BY <1>8, HolderServes DEF SaveAuto
  <2> QED
    BY <1>8, <2>1, HolderMoves DEF SaveAuto, Suits, Activations
<1>9. CASE Disable(h)
  <2>1. lock = h /\ op.request \in Requests /\ Suits(pc[h], op.request)
    BY <1>9, HolderServes DEF Disable
  <2> QED
    BY <1>9, <2>1, HolderMoves DEF Disable, Suits, Activations
<1>10. CASE Stopped(h)
  <2>1. lock = h /\ op.request \in Requests /\ Suits(pc[h], op.request)
    BY <1>10, HolderServes DEF Stopped
  <2> QED
    BY <1>10, <2>1, HolderMoves DEF Stopped, Suits, Activations
<1>11. CASE Release(h)
  <2>1. lock = h /\ op.request \in Requests
    BY <1>11, HolderServes DEF Release
  <2>2. PICK o \in {op, Failing} : AfterStop(h, o)
    BY <1>11 DEF Release
  <2>3. o.request = op.request
    BY FailingType
  <2>4. CASE \E r \in Replies : Finish(h, r)
    BY <2>1, <2>4, HolderMoves
  <2>5. CASE \E step \in {"profile", "undo power", "undo profile"} :
               Suits(step, op.request) /\ Proceed(h, step, o)
    BY <2>1, <2>5, HolderMoves
  <2> QED
    BY <2>1, <2>2, <2>3, <2>4, <2>5
    DEF AfterStop, UndoProfileOrEnd, Recovered, Suits, Activations
<1>12. CASE SetProfile(h)
  <2>1. lock = h /\ op.request \in Requests /\ Suits(pc[h], op.request)
    BY <1>12, HolderServes DEF SetProfile
  <2> QED
    BY <1>12, <2>1, HolderMoves DEF SetProfile, Suits, Activations
<1>13. CASE UndoPower(h)
  <2>1. lock = h /\ op.request \in Requests /\ Suits(pc[h], op.request)
    BY <1>13, HolderServes DEF UndoPower
  <2> QED
    BY <1>13, <2>1, HolderMoves DEF UndoPower, Suits, Activations, UndoProfileOrEnd, Recovered
<1>14. CASE UndoProfile(h)
  <2>1. lock = h /\ op.request \in Requests /\ Suits(pc[h], op.request)
    BY <1>14, HolderServes DEF UndoProfile
  <2> QED
    BY <1>14, <2>1, HolderMoves DEF UndoProfile, Suits, Activations, Recovered
<1>15. CASE KillHelper(h)
  BY <1>15, FinishControl DEF KillHelper
<1> QED
  BY <1>1, <1>2, <1>3, <1>4, <1>5, <1>6, <1>7, <1>8, <1>9, <1>10, <1>11, <1>12, <1>13, <1>14, <1>15 DEF HelperStep

-----------------------------------------------------------------------------
(* The daemon, systemd and the environment *)

\* Only helpers and reboots touch the helpers.
LEMMA OthersControl ==
  ASSUME Control,
         DaemonStep \/ KillDaemon \/ UnitStep \/ ChangeProfile \/ Reboot \/ UNCHANGED vars
  PROVE  Control'
<1>1. CASE Reboot
  <2>1. NoOperation \in Operations
    BY DEF NoOperation, Operation, Operations
  <2>2. lock' = "free" /\ op' = NoOperation /\ reply' \in Replies
        /\ pc' = [h \in Helpers |-> "idle"]
    BY <1>1 DEF Reboot, Control, Replies
  <2>3. Exclusive' /\ Serves'
    BY <2>2, NamesAssumption DEF Exclusive, Serves
  <2> QED
    BY <2>1, <2>2, <2>3 DEF Control, HelperSteps
<1>2. CASE ~Reboot
  <2>1. UNCHANGED helperVars
    BY <1>2 DEF DaemonStep, Boot, CheckSupported, Load, Prepare, Sense, Write1, Write2,
       WriteTarget, Verify, Finally, Exit, KillDaemon, UnitStep, StopPost, RestartUnit,
       ChangeProfile, vars, helperVars
  <2> QED BY <2>1, ControlStutters
<1> QED BY <1>1, <1>2

\* The daemon writes its policy's targets, or 0, and the custom profile.
LEMMA DaemonRegisters ==
  ASSUME RegistersTyped, UnitTyped, DaemonStep
  PROVE  RegistersTyped'
<1> USE DEF RegistersTyped
<1>1. CASE Prepare
  BY <1>1 DEF Prepare, WriteProfile, WriteProfileFailed
<1>2. CASE Write1 \/ Write2
  <2>1. running \in Manual
    BY <1>2 DEF Write1, Write2, WriteTarget, UnitTyped, UnitShape
  <2> QED
    BY <1>2, <2>1 DEF Write1, Write2, WriteTarget
<1>3. CASE Verify \/ Finally
  BY <1>3 DEF Verify, Finally, RestoreOk, RestoreFailed, Unrestored, AllFirmware
<1>4. CASE Boot \/ CheckSupported \/ Load \/ Sense \/ Exit
  BY <1>4 DEF Boot, CheckSupported, Load, Sense, Exit, registers
<1> QED BY <1>1, <1>2, <1>3, <1>4 DEF DaemonStep

\* A daemon that drives has a policy, and its end takes the unit down.
LEMMA DaemonUnit ==
  ASSUME RegistersTyped, UnitTyped, DaemonStep
  PROVE  UnitTyped'
<1>1. CASE Exit
  <2>1. code \in {"zero", "thermal", "error", "signal"} \/ code = "none"
    BY DEF UnitTyped
  <2> QED
    BY <1>1, <2>1 DEF Exit, Ended, UnitTyped, UnitShape, DaemonSteps
<1>2. CASE Load
  BY <1>2, NamesAssumption
  DEF Load, Leave, DaemonGoTo, RegistersTyped, UnitTyped, UnitShape, DaemonSteps, unitVars
<1>3. CASE Boot \/ CheckSupported \/ Prepare \/ Sense
  BY <1>3
  DEF Boot, CheckSupported, Prepare, Sense, Leave, DaemonGoTo, UnitTyped, UnitShape,
      DaemonSteps, unitVars
<1>4. CASE Write1 \/ Write2 \/ Verify \/ Finally
  BY <1>4
  DEF Write1, Write2, WriteTarget, Verify, Finally, Leave, DaemonGoTo, UnitTyped,
      UnitShape, DaemonSteps, unitVars
<1> QED BY <1>1, <1>2, <1>3, <1>4 DEF DaemonStep

\* systemd restores the fans and starts, restarts or retires the daemon.
LEMMA SystemdMachine ==
  ASSUME RegistersTyped, UnitTyped, UnitStep
  PROVE  RegistersTyped' /\ UnitTyped'
<1>1. CASE StopPost
  <2>1. RegistersTyped'
    BY <1>1 DEF StopPost, RestoreOk, RestoreFailed, Unrestored, AllFirmware, RegistersTyped
  <2>2. enabled' \in BOOLEAN
    BY <1>1 DEF StopPost, UnitTyped
  <2>3. CASE Launch
    BY <2>1, <2>2, <2>3, LaunchTyped
  <2>4. CASE ~Launch
    BY <1>1, <2>1, <2>4 DEF StopPost, AfterPost, UnitTyped, UnitShape, daemonVars
  <2> QED BY <2>3, <2>4
<1>2. CASE RestartUnit
  BY <1>2, LaunchTyped DEF RestartUnit, RegistersTyped, UnitTyped, registers
<1> QED BY <1>1, <1>2 DEF UnitStep

\* A kill, a profile change and a reboot keep the types.
LEMMA EnvironmentMachine ==
  ASSUME RegistersTyped, UnitTyped, KillDaemon \/ ChangeProfile \/ Reboot
  PROVE  RegistersTyped' /\ UnitTyped'
<1>1. CASE KillDaemon
  BY <1>1, EndedTyped DEF KillDaemon, RegistersTyped, UnitTyped, registers
<1>2. CASE ChangeProfile
  BY <1>2, UnitStutters DEF ChangeProfile, RegistersTyped
<1>3. CASE Reboot
  <2>1. RegistersTyped'
    BY <1>3 DEF Reboot, RegistersTyped, AllFirmware
  <2>2. enabled' \in BOOLEAN
    BY <1>3 DEF Reboot, UnitTyped
  <2>3. CASE Launch
    BY <2>1, <2>2, <2>3, LaunchTyped
  <2>4. CASE ~Launch
    BY <1>3, <2>1, <2>2, <2>4 DEF Reboot, UnitTyped, UnitShape, DaemonSteps
  <2> QED BY <2>3, <2>4
<1> QED BY <1>1, <1>2, <1>3

\* They spend their budgets within the bounds.
LEMMA OthersBudgets ==
  ASSUME BudgetsTyped,
         DaemonStep \/ KillDaemon \/ UnitStep \/ ChangeProfile \/ Reboot
  PROVE  BudgetsTyped'
<1>1. CASE ChangeProfile \/ Reboot
  BY <1>1, BudgetAssumption DEF ChangeProfile, Reboot, BudgetsTyped
<1>2. CASE DaemonStep \/ KillDaemon \/ UnitStep
  <2>1. UNCHANGED <<external, reboots>> /\ (NoFault \/ Fault \/ TwoFaults)
    BY <1>2 DEF DaemonStep, Boot, CheckSupported, Load, Prepare, Sense, Write1, Write2,
       WriteTarget, Verify, Finally, Exit, KillDaemon, UnitStep, StopPost, RestartUnit,
       WriteProfile, WriteProfileFailed, RestoreOk, RestoreFailed, budgets, NoFault
  <2> QED BY <2>1, BudgetSpent
<1> QED BY <1>1, <1>2

-----------------------------------------------------------------------------
\* Every step of the system keeps the types, the lock's discipline and the
\* shape of the unit.
LEMMA StepKeeps ==
  ASSUME Control, Machine, [Next]_vars
  PROVE  Control' /\ Machine'
<1> USE DEF Machine
<1>1. ASSUME NEW h \in Helpers, Ask(h) \/ HelperStep(h) \/ KillHelper(h)
      PROVE  Control' /\ Machine'
  BY <1>1, HelperControl, HelperRegisters, HelperUnit, HelperBudgets
<1>2. CASE DaemonStep
  BY <1>2, OthersControl, DaemonRegisters, DaemonUnit, OthersBudgets
<1>3. CASE UnitStep
  BY <1>3, OthersControl, SystemdMachine, OthersBudgets
<1>4. CASE KillDaemon \/ ChangeProfile \/ Reboot
  BY <1>4, OthersControl, EnvironmentMachine, OthersBudgets
<1>5. CASE UNCHANGED vars
  <2>1. RegistersTyped' /\ BudgetsTyped'
    BY <1>5 DEF vars, registers, budgets, RegistersTyped, BudgetsTyped
  <2> QED
    BY <1>5, <2>1, OthersControl, UnitStutters DEF vars
<1> QED BY <1>1, <1>2, <1>3, <1>4, <1>5 DEF Next

\* The base of every theorem below.
THEOREM BaseInvariant == Spec => [](Control /\ Machine)
BY ShapeInit, StepKeeps, PTL DEF Spec

\* The type invariant, for any number of helpers, policies and failures.
THEOREM TypeCorrect == Spec => []TypeOK
BY BaseInvariant, Halves, PTL

\* Privileged requests run one at a time, whoever is killed meanwhile.
THEOREM OneAtATime == Spec => []Exclusive
<1>1. Control /\ Machine => Exclusive
  BY DEF Control
<1> QED BY <1>1, BaseInvariant, PTL

-----------------------------------------------------------------------------
(* The lease: FanSystem implements FanLease *)

Driving == dpc \in {"prepare", "sense", "write1", "write2", "verify"}

\* Writing 0 to the targets, with whatever success, never takes a fan from the
\* firmware.
LEMMA RestoreGivesBack ==
  ASSUME RegistersTyped, RestoreOk \/ RestoreFailed \/ Unrestored, fans = AllFirmware
  PROVE  fans' = AllFirmware
BY DEF RegistersTyped, RestoreOk, RestoreFailed, Unrestored, AllFirmware

\* A step that neither takes a fan, nor starts a tick, nor saves a policy is one
\* the lease allows.
LEMMA OnlyGivesBack ==
  ASSUME UNCHANGED config, Driving' => Driving,
         fans = AllFirmware => fans' = AllFirmware
  PROVE  [Lease!Next]_(Lease!vars)
BY DEF Driving, Lease!Next, Lease!GiveBack, Lease!vars

\* A step that only saves a policy grants or revokes.
LEMMA OnlySaves ==
  ASSUME UNCHANGED <<dpc, fans>>
  PROVE  [Lease!Next]_(Lease!vars)
BY DEF Lease!Next, Lease!Grant, Lease!Revoke, Lease!vars

\* A launched or ended process drives nothing.
LEMMA FreshIsIdle == Launch \/ (\E c \in {"zero", "signal"} : Ended(c)) \/ Exit => ~Driving'
BY DEF Launch, Ended, Exit, Driving

\* The helpers grant, revoke and give back; they never drive.
LEMMA HelperLease ==
  ASSUME RegistersTyped, NEW h \in Helpers, Ask(h) \/ HelperStep(h) \/ KillHelper(h)
  PROVE  [Lease!Next]_(Lease!vars)
<1>1. CASE Save(h) \/ SaveAuto(h)
  BY <1>1, OnlySaves DEF Save, SaveAuto, daemonVars
<1>2. CASE Release(h)
  BY <1>2, RestoreGivesBack, OnlyGivesBack DEF Release, Driving, daemonVars
<1>3. CASE Enable(h)
  BY <1>3, FreshIsIdle, OnlyGivesBack DEF Enable, UnitStart, Driving, registers, daemonVars
<1>4. CASE Disable(h)
  BY <1>4, FreshIsIdle, OnlyGivesBack DEF Disable, UnitStop, Driving, registers, daemonVars
<1>5. CASE ~Save(h) /\ ~SaveAuto(h) /\ ~Release(h) /\ ~Enable(h) /\ ~Disable(h)
  <2>1. UNCHANGED <<dpc, fans>>
    BY <1>5 DEF HelperStep, Ask, GiveUp, Acquire, EnterCustom, SetPower, Started, Stopped,
       SetProfile, UndoPower, UndoProfile, KillHelper, daemonVars, registers
  <2> QED BY <2>1, OnlySaves
<1> QED BY <1>1, <1>2, <1>3, <1>4, <1>5

\* The daemon takes a lease when it finds a manual policy, drives under it, and
\* gives the fans back.
LEMMA DaemonLease ==
  ASSUME RegistersTyped, DaemonStep
  PROVE  [Lease!Next]_(Lease!vars)
<1>1. CASE Load
  <2>1. CASE config # Automatic /\ Driving'
    BY <1>1, <2>1 DEF Load, registers, Driving, Lease!Next, Lease!Take
  <2>2. CASE ~(config # Automatic /\ Driving')
    BY <1>1, <2>2, OnlyGivesBack DEF Load, Leave, Driving, registers
  <2> QED BY <2>1, <2>2
<1>2. CASE Write1 \/ Write2
  <2>1. Driving /\ Driving' /\ UNCHANGED config
    BY <1>2 DEF Write1, Write2, WriteTarget, DaemonGoTo, Driving
  <2>2. CASE fans' = AllFirmware
    BY <2>1, <2>2, OnlyGivesBack
  <2>3. CASE fans' # AllFirmware
    BY <2>1, <2>3 DEF Driving, AllFirmware, Lease!Next, Lease!Drive
  <2> QED BY <2>2, <2>3
<1>3. CASE Verify \/ Finally
  <2>1. Driving' => Driving
    BY <1>3 DEF Verify, Finally, Leave, DaemonGoTo, Driving
  <2>2. UNCHANGED config
    BY <1>3 DEF Verify, Finally
  <2>3. fans = AllFirmware => fans' = AllFirmware
    BY <1>3, RestoreGivesBack DEF Verify, Finally
  <2> QED BY <2>1, <2>2, <2>3, OnlyGivesBack
<1>4. CASE Boot \/ CheckSupported \/ Prepare \/ Sense \/ Exit
  BY <1>4, FreshIsIdle, OnlyGivesBack
  DEF Boot, CheckSupported, Prepare, Sense, Exit, Leave, DaemonGoTo, Driving, registers
<1> QED BY <1>1, <1>2, <1>3, <1>4 DEF DaemonStep

\* The rest of the system only gives back.
LEMMA OthersLease ==
  ASSUME RegistersTyped,
         UnitStep \/ KillDaemon \/ ChangeProfile \/ Reboot \/ UNCHANGED vars
  PROVE  [Lease!Next]_(Lease!vars)
<1>1. CASE StopPost
  BY <1>1, RestoreGivesBack, FreshIsIdle, OnlyGivesBack
  DEF StopPost, AfterPost, Driving, daemonVars
<1>2. CASE RestartUnit \/ KillDaemon
  BY <1>2, FreshIsIdle, OnlyGivesBack DEF RestartUnit, KillDaemon, registers
<1>3. CASE ChangeProfile \/ UNCHANGED vars
  BY <1>3, OnlySaves DEF ChangeProfile, vars, registers, daemonVars
<1>4. CASE Reboot
  BY <1>4, FreshIsIdle, OnlyGivesBack DEF Reboot, Driving
<1> QED BY <1>1, <1>2, <1>3, <1>4 DEF UnitStep

\* The fans leave the firmware only in a tick that began under a manual policy:
\* the whole system, with its races and failures, implements the lease.
THEOREM ImplementsLease == Spec => LeaseSpec
<1>1. Init => Lease!Init
  BY DEF Init, Lease!Init
<1>2. ASSUME Control, Machine, [Next]_vars
      PROVE  [Lease!Next]_(Lease!vars)
  BY <1>2, HelperLease, DaemonLease, OthersLease DEF Machine, Next
<1> QED
  BY <1>1, <1>2, BaseInvariant, PTL DEF Spec, LeaseSpec, Lease!Spec

-----------------------------------------------------------------------------
(* Handing back *)

\* Manual control is over for good: nothing is left that could drive the fans.
Down == config = Automatic /\ unit = "dead" /\ ~enabled

\* How far the stop sequence of h has got, as long as none of its steps failed.
StopProgress(h) ==
  /\ pc[h] = "profile" => ~op.errors
  /\ ~op.errors =>
       /\ pc[h] = "disable" => config = Automatic
       /\ pc[h] = "stopping" =>
            config = Automatic /\ ~enabled /\ (unit = "dead" \/ job = "stop")
       /\ pc[h] = "release" => Down
       /\ pc[h] \in {"undo power", "undo profile"} => Down /\ fans = AllFirmware
       /\ pc[h] = "profile" /\ op.request.profile # Custom =>
            Down /\ fans = AllFirmware

\* HandedBack alone is not inductive: it needs what the stop sequence under way
\* has already made sure of.
Handover == HandedBack /\ \A h \in Helpers : StopProgress(h)

\* With the service down and nobody at work, no step of the daemon, of systemd
\* or of the environment takes the fans.
LEMMA DownStays ==
  ASSUME UnitTyped, Down, DaemonStep \/ KillDaemon \/ UnitStep \/ ChangeProfile
  PROVE  Down' /\ (fans = AllFirmware => fans' = AllFirmware)
<1>1. dpc = "off"
  BY DEF UnitTyped, UnitShape, Down
<1>2. ~DaemonStep /\ ~KillDaemon /\ ~UnitStep
  BY <1>1 DEF Down, DaemonStep, Boot, CheckSupported, Load, Prepare, Sense, Write1, Write2,
     WriteTarget, Verify, Finally, Exit, KillDaemon, UnitStep, StopPost, RestartUnit
<1> QED
  BY <1>2 DEF ChangeProfile, Down, unitVars

\* A stop job is served: the unit goes down and stays down.
LEMMA StopJobStays ==
  ASSUME UnitTyped, ~enabled, unit = "dead" \/ job = "stop",
         DaemonStep \/ KillDaemon \/ UnitStep \/ ChangeProfile
  PROVE  ~enabled' /\ (unit' = "dead" \/ job' = "stop")
<1>1. unit \notin {"waiting"} /\ (unit = "dead" => dpc = "off")
  BY DEF UnitTyped, UnitShape
<1>2. CASE DaemonStep
  BY <1>1, <1>2 DEF DaemonStep, Boot, CheckSupported, Load, Prepare, Sense, Write1, Write2,
     WriteTarget, Verify, Finally, Exit, Ended, unitVars
<1>3. CASE KillDaemon \/ ChangeProfile
  BY <1>1, <1>3 DEF KillDaemon, Ended, ChangeProfile, unitVars
<1>4. CASE UnitStep
  <2>1. unit = "post" /\ job = "stop" /\ UNCHANGED enabled
    BY <1>1, <1>4 DEF UnitStep, StopPost, RestartUnit
  <2>2. PICK failed \in BOOLEAN : AfterPost(failed)
    BY <1>1, <1>4 DEF UnitStep, StopPost, RestartUnit
  <2>3. unit' = "dead"
    BY <2>1, <2>2 DEF AfterPost
  <2> QED BY <2>1, <2>3
<1> QED BY <1>2, <1>3, <1>4

\* The policy file is the helpers' alone.
LEMMA ConfigStays ==
  ASSUME DaemonStep \/ KillDaemon \/ UnitStep \/ ChangeProfile
  PROVE  UNCHANGED config
BY DEF DaemonStep, Boot, CheckSupported, Load, Prepare, Sense, Write1, Write2, WriteTarget,
   Verify, Finally, Exit, KillDaemon, UnitStep, StopPost, RestartUnit, ChangeProfile,
   registers

\* So are their own variables.
LEMMA HelpersStay ==
  ASSUME DaemonStep \/ KillDaemon \/ UnitStep \/ ChangeProfile
  PROVE  UNCHANGED helperVars
BY DEF DaemonStep, Boot, CheckSupported, Load, Prepare, Sense, Write1, Write2, WriteTarget,
   Verify, Finally, Exit, KillDaemon, UnitStep, StopPost, RestartUnit, ChangeProfile

\* The daemon, systemd and the environment undo nothing a stop sequence did.
LEMMA OthersHandover ==
  ASSUME UnitTyped, Handover, DaemonStep \/ KillDaemon \/ UnitStep \/ ChangeProfile
  PROVE  Handover'
<1>1. UNCHANGED <<config, lock, pc, op, reply>>
  BY ConfigStays, HelpersStay DEF helperVars
<1>2. HandedBack'
  BY <1>1, DownStays DEF Handover, HandedBack, Down
<1>3. ASSUME NEW h \in Helpers
      PROVE  StopProgress(h)'
  <2>1. StopProgress(h)
    BY DEF Handover
  <2>2. CASE pc[h] = "stopping"
    BY <1>1, <2>1, <2>2, StopJobStays DEF StopProgress
  <2>3. CASE pc[h] # "stopping"
    BY <1>1, <2>1, <2>3, DownStays DEF StopProgress
  <2> QED BY <2>2, <2>3
<1> QED BY <1>2, <1>3 DEF Handover

\* A reboot ends every operation and leaves down what was down.
LEMMA RebootHandover ==
  ASSUME Handover, Reboot
  PROVE  Handover'
<1>1. \A h \in Helpers : pc'[h] = "idle"
  BY DEF Reboot
<1>2. \A h \in Helpers : StopProgress(h)'
  BY <1>1 DEF StopProgress
<1>3. HandedBack'
  BY DEF Reboot, Handover, HandedBack, AllFirmware
<1> QED BY <1>2, <1>3 DEF Handover

\* The holder's next step is all there is to look at: the others hold nothing.
LEMMA ProceedHandover ==
  ASSUME Control, NEW h \in Helpers, lock = h, NEW step, NEW o,
         Proceed(h, step, o), StopProgress(h)'
  PROVE  Handover'
<1>1. HandedBack'
  BY NamesAssumption DEF Proceed, HandedBack
<1>2. ASSUME NEW k \in Helpers, k # h
      PROVE  pc'[k] \in {"idle", "want"}
  BY <1>2 DEF Control, Exclusive, Proceed
<1> QED BY <1>1, <1>2 DEF Handover, StopProgress

\* The holder's answer must be true when it says that manual control is over.
LEMMA FinishHandover ==
  ASSUME Control, NEW h \in Helpers, lock = h, NEW r, Finish(h, r),
         r \in {"released", "standard", "rolled back"} => Down' /\ fans' = AllFirmware
  PROVE  Handover'
<1>1. HandedBack'
  BY DEF Finish, HandedBack, Down, AllFirmware
<1>2. ASSUME NEW k \in Helpers
      PROVE  pc'[k] \in {"idle", "want"}
  BY <1>2 DEF Control, Exclusive, Finish
<1> QED BY <1>1, <1>2 DEF Handover, StopProgress

\* Answers that promise nothing about manual control.
LEMMA PlainAnswer ==
  ASSUME Control, NEW h \in Helpers, lock = h,
         \E r \in {"manual", "custom", "refused", "incomplete", "killed"} : Finish(h, r)
  PROVE  Handover'
BY FinishHandover

\* Steps before the stop sequence promise nothing yet.
LEMMA PlainStep ==
  ASSUME Control, NEW h \in Helpers, lock = h,
         NEW step \in {"custom", "power", "enable", "starting", "auto"}, NEW o,
         Proceed(h, step, o)
  PROVE  Handover'
<1>1. pc'[h] = step
  BY DEF Proceed, Control
<1>2. StopProgress(h)'
  BY <1>1 DEF StopProgress
<1> QED BY <1>2, ProceedHandover

\* A step that failed is on record, and promises nothing.
LEMMA FailedStep ==
  ASSUME Control, NEW h \in Helpers, lock = h, NEW step \in HelperSteps \ {"profile"},
         Proceed(h, step, Failing)
  PROVE  Handover'
<1>1. pc'[h] = step /\ op'.errors
  BY FailingType DEF Proceed, Control
<1>2. StopProgress(h)'
  BY <1>1 DEF StopProgress
<1> QED BY <1>2, ProceedHandover

\* Every step of a helper keeps the hand-over invariant.
LEMMA HelperHandover ==
  ASSUME Control, UnitTyped, Handover, NEW h \in Helpers,
         Ask(h) \/ HelperStep(h) \/ KillHelper(h)
  PROVE  Handover'
<1> USE DEF GoTo
<1>1. StopProgress(h)
  BY DEF Handover
<1>2. pc[h] \notin {"idle", "want"} => lock = h /\ Suits(pc[h], op.request)
  BY HolderServes
<1>3. CASE Ask(h) \/ GiveUp(h)
  <2>1. UNCHANGED <<registers, unitVars, lock, op, reply>>
    BY <1>3 DEF Ask, GiveUp
  <2>2. \A k \in Helpers : pc'[k] = pc[k] \/ pc'[k] \in {"idle", "want"}
    BY <1>3 DEF Ask, GiveUp, Control
  <2>3. HandedBack'
    BY <2>1 DEF Handover, HandedBack, registers, unitVars
  <2>4. ASSUME NEW k \in Helpers
        PROVE  StopProgress(k)'
    BY <2>1, <2>2 DEF Handover, StopProgress, Down, registers, unitVars
  <2> QED BY <2>3, <2>4 DEF Handover
<1>4. CASE Acquire(h)
  <2>1. PICK r \in Requests :
          /\ pc' = [pc EXCEPT ![h] = FirstStep(r)]
          /\ op' = Operation(r, IF r.kind = "set-custom-config"
                                THEN [profile |-> profile, power |-> power]
                                ELSE NoOperation.saved)
    BY <1>4 DEF Acquire
  <2>2. pc'[h] = FirstStep(r) /\ op'.request = r /\ ~op'.errors
    BY <2>1 DEF Control, Operation
  <2>3. StopProgress(h)'
    BY <2>2 DEF FirstStep, StopProgress
  <2>4. \A k \in Helpers \ {h} : pc'[k] \in {"idle", "want"}
    BY <1>4, <2>1, NamesAssumption DEF Acquire, Control, Exclusive
  <2>5. HandedBack'
    BY <1>4, NamesAssumption DEF Acquire, HandedBack
  <2> QED BY <2>3, <2>4, <2>5 DEF Handover, StopProgress
<1>5. CASE Save(h) \/ EnterCustom(h)
  BY <1>2, <1>5, PlainStep, PlainAnswer DEF Save, EnterCustom
<1>6. CASE SetPower(h)
  <2>1. lock = h
    BY <1>2, <1>6 DEF SetPower
  <2>2. \E step \in {"enable", "auto"}, o \in {op, Noted, Failing} : Proceed(h, step, o)
    BY <1>6 DEF SetPower, Noted
  <2> QED BY <2>1, <2>2, PlainStep
<1>7. CASE Enable(h) \/ Started(h)
  BY <1>2, <1>7, PlainStep, PlainAnswer DEF Enable, Started
<1>8. CASE SaveAuto(h)
  <2>1. CASE SavePolicy(Automatic) /\ GoTo(h, "disable")
    <3>1. pc'[h] = "disable" /\ config' = Automatic
      BY <2>1 DEF Proceed, SavePolicy, Control
    <3> QED
      BY <1>2, <1>8, <2>1, <3>1, ProceedHandover DEF SaveAuto, StopProgress
  <2>2. CASE Proceed(h, "disable", Failing)
    BY <1>2, <1>8, <2>2, FailedStep DEF SaveAuto, HelperSteps
  <2> QED BY <1>8, <2>1, <2>2 DEF SaveAuto
<1>9. CASE Disable(h)
  <2>1. CASE enabled' = FALSE /\ UnitStop /\ GoTo(h, "stopping")
    <3>1. pc'[h] = "stopping" /\ op' = op /\ UNCHANGED config
      BY <1>9, <2>1 DEF Disable, Proceed, Control, registers
    <3>2. unit' = "dead" \/ job' = "stop"
      BY <2>1 DEF UnitStop
    <3>3. StopProgress(h)'
      BY <1>1, <1>9, <2>1, <3>1, <3>2 DEF Disable, StopProgress
    <3> QED
      BY <1>2, <1>9, <2>1, <3>3, ProceedHandover DEF Disable
  <2>2. CASE Proceed(h, "release", Failing)
    BY <1>2, <1>9, <2>2, FailedStep DEF Disable, HelperSteps
  <2> QED BY <1>9, <2>1, <2>2 DEF Disable
<1>10. CASE Stopped(h)
  <2>1. CASE unit = "dead" /\ GoTo(h, "release")
    <3>1. pc'[h] = "release" /\ op' = op /\ UNCHANGED <<config, unit, enabled>>
      BY <1>10, <2>1 DEF Stopped, Proceed, Control, registers, unitVars
    <3>2. StopProgress(h)'
      BY <1>1, <1>10, <2>1, <3>1 DEF Stopped, StopProgress, Down
    <3> QED
      BY <1>2, <1>10, <2>1, <3>2, ProceedHandover DEF Stopped
  <2>2. CASE Proceed(h, "release", Failing)
    BY <1>2, <1>10, <2>2, FailedStep DEF Stopped, HelperSteps
  <2> QED BY <1>10, <2>1, <2>2 DEF Stopped
<1>11. CASE Release(h)
  <2>1. lock = h /\ pc[h] = "release"
    BY <1>2, <1>11 DEF Release
  <2>2. CASE RestoreOk /\ AfterStop(h, op)
    <3>1. ~op.errors => Down' /\ fans' = AllFirmware
      BY <1>1, <1>11, <2>1, <2>2 DEF StopProgress, Down, Release, RestoreOk, unitVars
    <3>2. CASE \E r \in Replies : Finish(h, r) /\ (op.errors => r = "incomplete")
      BY <2>1, <3>1, <3>2, FinishHandover, PlainAnswer
    <3>3. ASSUME NEW step \in {"profile", "undo power", "undo profile"},
                 step = "profile" => ~op.errors, Proceed(h, step, op)
          PROVE  Handover'
      <4>1. pc'[h] = step /\ op' = op
        BY <3>3 DEF Proceed, Control
      <4>2. StopProgress(h)'
        BY <3>1, <3>3, <4>1 DEF StopProgress, Down, AllFirmware
      <4> QED BY <2>1, <3>3, <4>2, ProceedHandover
    <3> QED
      BY <2>2, <3>2, <3>3 DEF AfterStop, UndoProfileOrEnd, Recovered, Replies
  <2>3. CASE AfterStop(h, Failing)
    <3>1. Failing.errors
      BY FailingType
    <3> QED
      BY <2>1, <2>3, <3>1, PlainAnswer, FailedStep
      DEF AfterStop, UndoProfileOrEnd, Recovered, HelperSteps
  <2> QED BY <1>11, <2>2, <2>3 DEF Release
<1>12. CASE SetProfile(h)
  <2>1. op.request.profile # Custom => Down' /\ fans' = AllFirmware
    BY <1>1, <1>12 DEF SetProfile, StopProgress, Down, AllFirmware, unitVars
  <2> QED
    BY <1>2, <1>12, <2>1, PlainAnswer, FinishHandover DEF SetProfile
<1>13. CASE UndoPower(h) \/ UndoProfile(h)
  <2>1. lock = h /\ pc[h] \in {"undo power", "undo profile"}
    BY <1>2, <1>13 DEF UndoPower, UndoProfile
  <2>2. ~op.errors => Down' /\ fans' = AllFirmware
    BY <1>1, <1>13, <2>1 DEF UndoPower, UndoProfile, StopProgress, Down, AllFirmware, unitVars
  <2>3. Failing.errors
    BY FailingType
  <2>4. ASSUME Proceed(h, "undo profile", op)
        PROVE  Handover'
    <3>1. pc'[h] = "undo profile" /\ op' = op
      BY <2>4 DEF Proceed, Control
    <3>2. StopProgress(h)'
      BY <2>2, <3>1 DEF StopProgress, Down, AllFirmware
    <3> QED BY <2>1, <2>4, <3>2, ProceedHandover
  <2>5. ASSUME Proceed(h, "undo profile", Failing)
        PROVE  Handover'
    BY <2>1, <2>5, FailedStep DEF HelperSteps
  <2>6. ASSUME Recovered(h, op)
        PROVE  Handover'
    BY <2>1, <2>2, <2>6, PlainAnswer, FinishHandover DEF Recovered
  <2>7. ASSUME Recovered(h, Failing)
        PROVE  Handover'
    BY <2>1, <2>3, <2>7, PlainAnswer DEF Recovered
  <2> QED
    BY <1>13, <2>4, <2>5, <2>6, <2>7 DEF UndoPower, UndoProfile, UndoProfileOrEnd
<1>14. CASE KillHelper(h)
  BY <1>14, PlainAnswer DEF KillHelper
<1> QED
  BY <1>3, <1>4, <1>5, <1>6, <1>7, <1>8, <1>9, <1>10, <1>11, <1>12, <1>13, <1>14
  DEF HelperStep

\* Every reachable state has the hand-over invariant.
LEMMA HandoverInvariant == Spec => []Handover
<1>1. Init => Handover
  BY DEF Init, Handover, HandedBack, StopProgress
<1>2. ASSUME Control, Machine, Handover, [Next]_vars
      PROVE  Handover'
  <2>1. CASE UNCHANGED vars
    BY <1>2, <2>1
    DEF vars, registers, helperVars, unitVars, Handover, HandedBack, StopProgress, Down
  <2> QED
    BY <1>2, <2>1, HelperHandover, OthersHandover, RebootHandover DEF Machine, Next
<1> QED
  BY <1>1, <1>2, BaseInvariant, PTL DEF Spec

\* An answer that manual control is over can be relied on until the next
\* request, whatever fails, is killed or reboots, and however often.
THEOREM HandedBackForGood == Spec => []HandedBack
<1>1. Handover => HandedBack
  BY DEF Handover
<1> QED
  BY <1>1, HandoverInvariant, PTL

-----------------------------------------------------------------------------
(* One fault *)

\* OneFaultTolerated speaks of a machine at rest.  On the way there, a first
\* fault may leave the fans manual only while some part is still to restore
\* them: the service is up, or its ExecStopPost has not run.
Covered ==
  /\ faults <= 1 /\ (unit \in {"dead", "waiting"} \/ dpc \in {"boot", "check"}) =>
       fans = AllFirmware
  /\ faults = 0 /\ (unit = "post" \/ dpc = "exit") => fans = AllFirmware

\* A restoration fails only at the cost of a fault, and never undoes another.
LEMMA RestorationCounts ==
  ASSUME RestoreOk \/ RestoreFailed
  PROVE  \/ fans' = AllFirmware /\ faults' = faults
         \/ faults' = faults + 1 /\ (fans = AllFirmware => fans' = AllFirmware)
BY DEF RestoreOk, RestoreFailed, Unrestored, AllFirmware, NoFault, Fault

\* Faults are only ever added.
LEMMA FaultsGrow ==
  ASSUME BudgetsTyped, [Next]_vars
  PROVE  faults \in Nat /\ faults' \in Nat /\ faults <= faults'
<1>1. faults \in Nat
  BY BudgetAssumption DEF BudgetsTyped
<1>2. ASSUME NEW h \in Helpers, Ask(h) \/ HelperStep(h) \/ KillHelper(h)
      PROVE  faults' \in {faults, faults + 1, faults + 2}
  BY <1>2 DEF HelperStep, Ask, GiveUp, Acquire, Save, EnterCustom, SetPower, Enable,
     Started, SaveAuto, Disable, Stopped, Release, SetProfile, UndoPower, UndoProfile,
     KillHelper, budgets, NoFault, Fault, TwoFaults, SavePolicy, SavePolicyFailed, WriteProfile,
     WriteProfileFailed, WritePower, WritePowerFailed, WritePowerTorn, RestoreOk,
     RestoreFailed
<1>3. CASE DaemonStep \/ KillDaemon \/ UnitStep \/ ChangeProfile \/ Reboot \/ UNCHANGED vars
  <2>1. faults' \in {faults, faults + 1, faults + 2}
    BY <1>3 DEF DaemonStep, Boot, CheckSupported, Load, Prepare, Sense, Write1, Write2,
       WriteTarget, Verify, Finally, Exit, KillDaemon, UnitStep, StopPost, RestartUnit,
       ChangeProfile, Reboot, WriteProfile, WriteProfileFailed, RestoreOk, RestoreFailed,
       NoFault, Fault, TwoFaults, budgets, vars
  <2> QED BY <1>1, <2>1
<1> QED BY <1>1, <1>2, <1>3 DEF Next

\* A helper leaves the fans alone or restores them, and reaches the unit only
\* through systemctl: a start finds the fans restored, a stop leaves the rest to
\* ExecStopPost.
LEMMA HelperCovered ==
  ASSUME UnitTyped, faults \in Nat, faults' \in Nat, faults <= faults', Covered,
         NEW h \in Helpers, Ask(h) \/ HelperStep(h) \/ KillHelper(h)
  PROVE  Covered'
<1>1. CASE Enable(h)
  <2>1. UNCHANGED fans
    BY <1>1 DEF Enable, registers
  <2>2. CASE UnitStart
    BY <2>1, <2>2 DEF Covered, UnitStart, Launch, daemonVars, AllFirmware
  <2>3. CASE UNCHANGED <<unit, job, daemonVars>>
    BY <2>1, <2>3 DEF Covered, daemonVars, AllFirmware
  <2> QED BY <1>1, <2>2, <2>3 DEF Enable
<1>2. CASE Disable(h)
  <2>1. UNCHANGED fans
    BY <1>2 DEF Disable, registers
  <2>2. CASE UnitStop
    BY <2>1, <2>2 DEF Covered, UnitStop, Ended, daemonVars, AllFirmware
  <2>3. CASE UNCHANGED <<unit, job, daemonVars>>
    BY <2>1, <2>3 DEF Covered, daemonVars, AllFirmware
  <2> QED BY <1>2, <2>2, <2>3 DEF Disable
<1>3. CASE Release(h)
  <2>1. UNCHANGED <<unit, dpc>>
    BY <1>3 DEF Release, unitVars, daemonVars
  <2>2. RestoreOk \/ RestoreFailed
    BY <1>3 DEF Release
  <2> QED BY <2>1, <2>2, RestorationCounts DEF Covered, AllFirmware
<1>4. CASE ~Enable(h) /\ ~Disable(h) /\ ~Release(h)
  <2>1. UNCHANGED <<fans, unit, dpc>>
    BY <1>4 DEF HelperStep, Ask, GiveUp, Acquire, Save, EnterCustom, SetPower, Started,
       SaveAuto, Stopped, SetProfile, UndoPower, UndoProfile, KillHelper, registers,
       unitVars, daemonVars
  <2> QED BY <2>1 DEF Covered, AllFirmware
<1> QED BY <1>1, <1>2, <1>3, <1>4

\* The daemon takes the fans only between its check and its finally block, which
\* restores them; the block can be missed only through a fault.
LEMMA DaemonCovered ==
  ASSUME UnitTyped, faults \in Nat, faults' \in Nat, faults <= faults', Covered,
         DaemonStep \/ KillDaemon
  PROVE  Covered'
<1>1. unit = "active" /\ dpc # "off"
  BY DEF UnitTyped, UnitShape, DaemonStep, Boot, CheckSupported, Load, Prepare, Sense,
     Write1, Write2, WriteTarget, Verify, Finally, Exit, KillDaemon
<1>2. CASE Boot
  BY <1>1, <1>2 DEF Boot, DaemonGoTo, Covered, registers, unitVars, AllFirmware
<1>3. CASE CheckSupported
  BY <1>1, <1>3
  DEF CheckSupported, DaemonGoTo, Covered, registers, unitVars, AllFirmware, Fault, NoFault
<1>4. CASE Load \/ Prepare \/ Sense \/ Write1 \/ Write2 \/ Verify
  <2>1. dpc' \notin {"boot", "check", "exit", "off"} /\ unit' = "active"
    BY <1>1, <1>4 DEF Load, Prepare, Sense, Write1, Write2, WriteTarget, Verify, Leave,
       DaemonGoTo, unitVars
  <2> QED BY <2>1 DEF Covered
<1>5. CASE Finally
  <2>1. dpc' = "exit" /\ unit' = "active" /\ (RestoreOk \/ RestoreFailed)
    BY <1>1, <1>5 DEF Finally, DaemonGoTo, unitVars
  <2> QED BY <2>1, RestorationCounts DEF Covered, AllFirmware
<1>6. CASE Exit
  BY <1>6 DEF Exit, Ended, Covered, registers, budgets, AllFirmware
<1>7. CASE KillDaemon
  <2>1. unit' = "post" /\ dpc' = "off" /\ faults' = faults + 1
    BY <1>7 DEF KillDaemon, Ended, Fault
  <2> QED BY <2>1 DEF Covered
<1> QED BY <1>2, <1>3, <1>4, <1>5, <1>6, <1>7 DEF DaemonStep

\* ExecStopPost makes up for the one fault there has been.
LEMMA OthersCovered ==
  ASSUME UnitTyped, faults \in Nat, faults' \in Nat, faults <= faults', Covered,
         UnitStep \/ ChangeProfile \/ Reboot
  PROVE  Covered'
<1>1. CASE StopPost
  <2>1. unit = "post" /\ dpc = "off" /\ (RestoreOk \/ RestoreFailed)
    BY <1>1 DEF StopPost, UnitTyped, UnitShape
  <2>2. faults' <= 1 => fans' = AllFirmware
    BY <2>1, RestorationCounts DEF Covered
  <2>3. unit' # "post" /\ dpc' # "exit"
    BY <1>1, <2>1 DEF StopPost, AfterPost, Launch, daemonVars
  <2> QED BY <2>2, <2>3 DEF Covered, AllFirmware
<1>2. CASE RestartUnit
  BY <1>2 DEF RestartUnit, Launch, Covered, registers, budgets, AllFirmware
<1>3. CASE ChangeProfile
  BY <1>3 DEF ChangeProfile, Covered, unitVars, daemonVars, AllFirmware
<1>4. CASE Reboot
  BY <1>4 DEF Reboot, Covered, AllFirmware
<1> QED BY <1>1, <1>2, <1>3, <1>4 DEF UnitStep

\* Whatever single thing went wrong, a service that is down leaves the fans with
\* the firmware, even while a helper is at work.
THEOREM OneFaultLeavesFirmware == Spec => []OneFaultTolerated
<1>1. Init => Covered
  BY DEF Init, Covered, AllFirmware
<1>2. ASSUME Machine, Covered, [Next]_vars
      PROVE  Covered'
  <2>1. faults \in Nat /\ faults' \in Nat /\ faults <= faults'
    BY <1>2, FaultsGrow DEF Machine
  <2>2. CASE UNCHANGED vars
    BY <1>2, <2>2 DEF vars, registers, unitVars, daemonVars, budgets, Covered, AllFirmware
  <2> QED
    BY <1>2, <2>1, <2>2, HelperCovered, DaemonCovered, OthersCovered DEF Machine, Next
<1>3. Covered => OneFaultTolerated
  BY DEF Covered, OneFaultTolerated
<1> QED
  BY <1>1, <1>2, <1>3, BaseInvariant, PTL DEF Spec

-----------------------------------------------------------------------------
(* Rolling back *)

Busy(h) == pc[h] \notin {"idle", "want"}

\* RollbackRestores needs, at every step of a combined activation, that the power
\* limits are the ones it saved, unless it has noted that it changed them or that
\* the recovery is incomplete; and that no answer is older than the operation.
Noting(h) ==
  /\ reply = "none"
  /\ op.request.kind = "set-custom-config" /\ ~op.errors =>
       (~op.undo \/ pc[h] = "undo profile" => power = op.saved.power)

Rollback == \A h \in Helpers : Busy(h) => Noting(h)

\* Only a helper or a reboot writes the power limits.
LEMMA PowerStays ==
  ASSUME DaemonStep \/ KillDaemon \/ UnitStep \/ ChangeProfile
  PROVE  UNCHANGED power
BY DEF DaemonStep, Boot, CheckSupported, Load, Prepare, Sense, Write1, Write2, WriteTarget,
   Verify, Finally, Exit, KillDaemon, UnitStep, StopPost, RestartUnit, ChangeProfile,
   registers

\* Only the holder has power limits to account for.
LEMMA OneNotes ==
  ASSUME NEW h \in Helpers, Noting(h)', \A k \in Helpers : k # h => ~Busy(k)'
  PROVE  Rollback'
BY DEF Rollback

\* The holder's next step is all there is to look at ...
LEMMA ProceedRollback ==
  ASSUME Control, NEW h \in Helpers, lock = h, NEW step, NEW o,
         Proceed(h, step, o), Noting(h)'
  PROVE  Rollback'
<1>1. \A k \in Helpers : k # h => ~Busy(k)'
  BY DEF Control, Exclusive, Proceed, Busy
<1> QED BY <1>1, OneNotes

\* ... and after its exit nobody is at work.
LEMMA FinishRollback ==
  ASSUME Control, NEW h \in Helpers, lock = h, NEW r, Finish(h, r)
  PROVE  Rollback'
<1>1. \A k \in Helpers : ~Busy(k)'
  BY DEF Control, Exclusive, Finish, Busy
<1> QED BY <1>1 DEF Rollback

\* A step that leaves the power limits and the operation alone, or notes a
\* failure, keeps what is known of them.
LEMMA QuietRollback ==
  ASSUME Control, NEW h \in Helpers, lock = h, Busy(h), Rollback,
         NEW step \in HelperSteps \ {"undo profile"},
         (Proceed(h, step, op) /\ UNCHANGED power) \/ Proceed(h, step, Failing)
  PROVE  Rollback'
<1>1. Noting(h)
  BY DEF Rollback
<1>2. pc'[h] = step /\ reply' = "none"
  BY <1>1 DEF Proceed, Noting, Control
<1>3. CASE Proceed(h, step, op) /\ UNCHANGED power
  <2>1. op' = op
    BY <1>3 DEF Proceed
  <2>2. Noting(h)'
    BY <1>1, <1>2, <1>3, <2>1 DEF Noting
  <2> QED BY <1>3, <2>2, ProceedRollback
<1>4. CASE Proceed(h, step, Failing)
  <2>1. op'.errors
    BY <1>4, FailingType DEF Proceed
  <2>2. Noting(h)'
    BY <1>2, <2>1 DEF Noting
  <2> QED BY <1>4, <2>2, ProceedRollback
<1> QED BY <1>3, <1>4

\* The recovery turns to the profile once the power limits are back, or never
\* changed, or known to be lost.
LEMMA UndoProfileRollback ==
  ASSUME Control, NEW h \in Helpers, lock = h, Busy(h), Rollback,
         NEW o \in {op, Failing}, UndoProfileOrEnd(h, o),
         ~o.errors => power' = op.saved.power
  PROVE  Rollback'
<1>1. CASE Recovered(h, o)
  BY <1>1, FinishRollback DEF Recovered
<1>2. CASE Proceed(h, "undo profile", o)
  <2>1. op' = o /\ o.saved = op.saved /\ reply' = "none"
    BY <1>2, FailingType DEF Proceed, Rollback, Noting
  <2>2. Noting(h)'
    BY <2>1 DEF Noting
  <2> QED BY <1>2, <2>2, ProceedRollback
<1> QED BY <1>1, <1>2 DEF UndoProfileOrEnd

\* Every step of a helper keeps the power limits accounted for.
LEMMA HelperRollback ==
  ASSUME Control, Rollback, NEW h \in Helpers, Ask(h) \/ HelperStep(h) \/ KillHelper(h)
  PROVE  Rollback'
<1> USE DEF GoTo, HelperSteps
<1>1. Busy(h) => lock = h /\ Suits(pc[h], op.request) /\ Noting(h)
  BY HolderServes DEF Busy, Rollback
<1>2. CASE Ask(h) \/ GiveUp(h)
  <2>1. UNCHANGED <<power, op, reply>>
    BY <1>2 DEF Ask, GiveUp, registers
  <2>2. \A k \in Helpers : pc'[k] = pc[k] \/ pc'[k] \in {"idle", "want"}
    BY <1>2 DEF Ask, GiveUp, Control
  <2> QED BY <2>1, <2>2 DEF Rollback, Noting, Busy
<1>3. CASE Acquire(h)
  <2>1. PICK r \in Requests :
          /\ pc' = [pc EXCEPT ![h] = FirstStep(r)]
          /\ op' = Operation(r, IF r.kind = "set-custom-config"
                                THEN [profile |-> profile, power |-> power]
                                ELSE NoOperation.saved)
    BY <1>3 DEF Acquire
  <2>2. op'.request = r
        /\ op'.saved = IF r.kind = "set-custom-config"
                       THEN [profile |-> profile, power |-> power]
                       ELSE NoOperation.saved
    BY <2>1 DEF Operation
  <2>3. op'.request.kind = "set-custom-config" => op'.saved.power = power
    BY <2>2
  <2>4. reply' = "none" /\ UNCHANGED power
    BY <1>3 DEF Acquire, registers
  <2>5. Noting(h)'
    BY <2>3, <2>4 DEF Noting
  <2>6. \A k \in Helpers : k # h => ~Busy(k)'
    <3>1. \A k \in Helpers : pc[k] \in {"idle", "want"}
      BY <1>3, NamesAssumption DEF Acquire, Control, Exclusive
    <3>2. \A k \in Helpers \ {h} : pc'[k] = pc[k]
      BY <2>1 DEF Control
    <3> QED BY <3>1, <3>2 DEF Busy
  <2> QED BY <2>5, <2>6, OneNotes
<1>4. CASE Save(h) \/ EnterCustom(h) \/ Enable(h) \/ Started(h) \/ SaveAuto(h)
           \/ Disable(h) \/ Stopped(h)
  <2>1. lock = h /\ Busy(h) /\ UNCHANGED power
    BY <1>1, <1>4 DEF Busy, Save, EnterCustom, Enable, Started, SaveAuto, Disable, Stopped,
       registers
  <2>2. \/ \E step \in HelperSteps \ {"undo profile"}, o \in {op, Failing} :
             Proceed(h, step, o)
        \/ \E r \in Replies : Finish(h, r)
    BY <1>4 DEF Save, EnterCustom, Enable, Started, SaveAuto, Disable, Stopped, Replies
  <2> QED BY <2>1, <2>2, QuietRollback, FinishRollback
<1>5. CASE SetPower(h)
  <2>1. lock = h /\ Busy(h)
    BY <1>1, <1>5 DEF SetPower, Busy
  <2>2. CASE Proceed(h, "enable", Noted)
    <3>1. pc'[h] = "enable" /\ op'.undo /\ reply' = "none"
      BY <1>1, <2>1, <2>2 DEF Proceed, Noted, Control, Operations, Noting
    <3>2. Noting(h)'
      BY <3>1 DEF Noting
    <3> QED BY <2>1, <2>2, <3>2, ProceedRollback
  <2>3. CASE WritePowerFailed /\ Proceed(h, "auto", op)
    BY <2>1, <2>3, QuietRollback DEF WritePowerFailed
  <2>4. CASE Proceed(h, "auto", Failing)
    BY <2>1, <2>4, QuietRollback
  <2> QED BY <1>5, <2>2, <2>3, <2>4 DEF SetPower, Noted
<1>6. CASE Release(h)
  <2>1. lock = h /\ Busy(h) /\ pc[h] = "release" /\ UNCHANGED power
    BY <1>1, <1>6 DEF Release, Busy
  <2>2. PICK o \in {op, Failing} : AfterStop(h, o)
    BY <1>6 DEF Release
  <2>3. CASE \E r \in Replies : Finish(h, r)
    BY <2>1, <2>3, FinishRollback
  <2>4. CASE \E step \in {"profile", "undo power"} : Proceed(h, step, o)
    BY <2>1, <2>2, <2>4, QuietRollback
  <2>5. CASE op.request.kind = "set-custom-config" /\ ~o.undo /\ UndoProfileOrEnd(h, o)
    <3>1. ~o.errors => power' = op.saved.power
      BY <1>1, <2>1, <2>5, FailingType DEF Noting
    <3> QED BY <2>1, <2>5, <3>1, UndoProfileRollback
  <2> QED
    BY <2>2, <2>3, <2>4, <2>5, FailingType DEF AfterStop, Recovered, Replies
<1>7. CASE SetProfile(h) \/ UndoProfile(h) \/ KillHelper(h)
  <2>1. lock = h /\ \E r \in Replies : Finish(h, r)
    BY <1>1, <1>7
    DEF Busy, SetProfile, UndoProfile, KillHelper, Recovered, Replies
  <2> QED BY <2>1, FinishRollback
<1>8. CASE UndoPower(h)
  <2>1. lock = h /\ Busy(h)
    BY <1>1, <1>8 DEF UndoPower, Busy
  <2>2. \/ power' = op.saved.power /\ UndoProfileOrEnd(h, op)
        \/ UndoProfileOrEnd(h, Failing)
    BY <1>8 DEF UndoPower, WritePower
  <2>3. Failing.errors
    BY FailingType
  <2> QED BY <2>1, <2>2, <2>3, UndoProfileRollback
<1> QED
  BY <1>2, <1>3, <1>4, <1>5, <1>6, <1>7, <1>8 DEF HelperStep

\* The daemon, systemd, Fn+Q and a reboot never change what is noted.
LEMMA OthersRollback ==
  ASSUME Rollback,
         DaemonStep \/ KillDaemon \/ UnitStep \/ ChangeProfile \/ Reboot \/ UNCHANGED vars
  PROVE  Rollback'
<1>1. CASE Reboot
  BY <1>1 DEF Reboot, Rollback, Busy
<1>2. CASE DaemonStep \/ KillDaemon \/ UnitStep \/ ChangeProfile \/ UNCHANGED vars
  <2>1. UNCHANGED <<power, pc, op, reply>>
    BY <1>2, PowerStays, HelpersStay DEF helperVars, registers, vars
  <2> QED BY <2>1 DEF Rollback, Busy, Noting
<1> QED BY <1>1, <1>2

\* What set_custom_configuration's last step has put back.
Restored(o) ==
  /\ o.saved.profile # Custom => profile' = o.saved.profile
  /\ power' = o.saved.power

\* A holder that answers "rolled back" has put everything back.
LEMMA AnswerRestores ==
  ASSUME Control, Rollback, NEW h \in Helpers, HelperStep(h) \/ KillHelper(h),
         pc[h] \in {"release", "undo power", "undo profile"},
         op.request.kind = "set-custom-config", reply' = "rolled back"
  PROVE  Restored(op)
<1>1. lock = h /\ Noting(h)
  BY HolderServes DEF Rollback, Busy
<1>2. ASSUME NEW step, NEW o
      PROVE  ~Proceed(h, step, o)
  BY <1>1 DEF Proceed, Noting
<1>3. ASSUME NEW o \in {op, Failing}, Recovered(h, o)
      PROVE  o = op /\ ~op.errors
  BY <1>3, FailingType DEF Recovered, Finish
<1>4. ASSUME NEW o \in {op, Failing}, UndoProfileOrEnd(h, o)
      PROVE  o = op /\ ~op.errors /\ op.saved.profile = Custom
  <2>1. o.saved.profile = Custom /\ Recovered(h, o)
    BY <1>2, <1>4 DEF UndoProfileOrEnd
  <2> QED BY <1>3, <2>1
<1>5. CASE Release(h)
  <2>1. PICK o \in {op, Failing} : AfterStop(h, o)
    BY <1>5 DEF Release
  <2>2. ~o.undo /\ UndoProfileOrEnd(h, o)
    BY <1>2, <2>1, FailingType DEF AfterStop
  <2>3. power' = power
    BY <1>5 DEF Release
  <2> QED BY <1>1, <1>4, <2>2, <2>3 DEF Restored, Noting
<1>6. CASE UndoPower(h)
  BY <1>4, <1>6, FailingType DEF UndoPower, WritePower, Restored
<1>7. CASE UndoProfile(h)
  <2>1. WriteProfile(op.saved.profile) /\ ~op.errors /\ pc[h] = "undo profile"
    BY <1>3, <1>7, FailingType DEF UndoProfile
  <2>2. power' = power
    BY <1>7 DEF UndoProfile
  <2> QED BY <1>1, <2>1, <2>2 DEF Restored, Noting, WriteProfile
<1>8. CASE ~Release(h) /\ ~UndoPower(h) /\ ~UndoProfile(h)
  <2>1. KillHelper(h)
    BY <1>8 DEF HelperStep, GiveUp, Acquire, Save, EnterCustom, SetPower, Enable, Started,
       SaveAuto, Disable, Stopped, SetProfile
  <2> QED BY <2>1 DEF KillHelper, Finish
<1> QED BY <1>5, <1>6, <1>7, <1>8

\* A failed activation that answers with its original error has put back the
\* profile and both power limits, however the recovery went.
THEOREM RolledBackMeansRestored == Spec => RollbackRestores
<1>1. Init => Rollback
  BY DEF Init, Rollback, Busy
<1>2. ASSUME Control, Rollback, [Next]_vars
      PROVE  Rollback'
  BY <1>2, HelperRollback, OthersRollback DEF Next
<1>3. ASSUME Control, Rollback, Next, NEW h \in Helpers,
             pc[h] \in {"release", "undo power", "undo profile"},
             op.request.kind = "set-custom-config", reply' = "rolled back"
      PROVE  Restored(op)
  <2>1. reply = "none" /\ lock = h
    BY <1>3, HolderServes DEF Rollback, Busy, Noting
  <2>2. PICK k \in Helpers : HelperStep(k) \/ KillHelper(k)
    <3>1. ~(DaemonStep \/ KillDaemon \/ UnitStep \/ ChangeProfile)
      BY <1>3, <2>1, HelpersStay DEF helperVars
    <3>2. ~Reboot
      BY <1>3, <2>1 DEF Reboot
    <3>3. ASSUME NEW k \in Helpers
          PROVE  ~Ask(k)
      BY <1>3, <2>1 DEF Ask
    <3> QED BY <1>3, <3>1, <3>2, <3>3 DEF Next
  <2>3. CASE k = h
    BY <1>3, <2>2, <2>3, AnswerRestores
  <2>4. CASE k # h
    <3>1. pc[k] \in {"idle", "want"} /\ lock # "free" /\ lock # k
      BY <1>3, <2>1, <2>4, NamesAssumption DEF Control, Exclusive
    <3>2. GiveUp(k)
      BY <2>2, <3>1 DEF HelperStep, Acquire, Save, EnterCustom, SetPower, Enable, Started,
         SaveAuto, Disable, Stopped, Release, SetProfile, UndoPower, UndoProfile, KillHelper
    <3> QED BY <1>3, <2>1, <3>2 DEF GiveUp
  <2> QED BY <2>3, <2>4
<1>4. ASSUME Control, Rollback, [Next]_vars
      PROVE  [\A h \in Helpers :
                /\ pc[h] \in {"release", "undo power", "undo profile"}
                /\ op.request.kind = "set-custom-config" /\ reply' = "rolled back"
                => /\ op.saved.profile # Custom => profile' = op.saved.profile
                   /\ power' = op.saved.power]_vars
  BY <1>3, <1>4 DEF Restored
<1> QED
  BY <1>1, <1>2, <1>4, BaseInvariant, PTL DEF Spec, RollbackRestores

-----------------------------------------------------------------------------
(* Driving in the custom profile *)

\* The daemon has set the custom profile for the policy in force.
Prepared ==
  \/ dpc \in {"sense", "write1", "write2", "verify"}
  \/ dpc = "load" /\ running # "none"

RecoverySteps == {"auto", "disable", "stopping", "release", "undo power", "undo profile"}

\* How a combined activation stands towards the profile while nothing but the
\* program changes it: it is custom as long as the power limits are to be written
\* or put back, and the recovery is the price of a fault, an incomplete one of two.
InCustom(h) ==
  /\ pc[h] \in {"save", "custom", "power", "enable", "starting"} => ~op.errors
  /\ pc[h] = "undo power" => op.undo
  /\ external = 0 /\ op.request.kind = "set-custom-config" =>
       /\ pc[h] = "power" => profile = Custom
       /\ op.undo /\ pc[h] # "undo profile" => profile = Custom
       /\ pc[h] \in RecoverySteps => faults >= 1 /\ (op.errors => faults >= 2)

\* A daemon drives in the custom profile from the moment it has set it ...
DrivenInCustom == faults <= 1 /\ external = 0 /\ Prepared => profile = Custom

\* ... because every other writer of the profile is kept away meanwhile.
CustomKept ==
  /\ DrivenInCustom
  /\ dpc \in {"boot", "check"} => running = "none"
  /\ \A h \in Helpers : Busy(h) => InCustom(h)

\* The daemon, systemd and a kill change the profile to custom or not at all, and
\* cost at most two faults.
LEMMA OthersKeepCustom ==
  ASSUME DaemonStep \/ KillDaemon \/ UnitStep, faults \in Nat
  PROVE  /\ profile' \in {profile, Custom} /\ external' = external
         /\ faults' \in Nat /\ faults <= faults'
<1>1. external' = external /\ faults' \in {faults, faults + 1, faults + 2}
  BY DEF DaemonStep, Boot, CheckSupported, Load, Prepare, Sense, Write1, Write2,
     WriteTarget, Verify, Finally, Exit, KillDaemon, UnitStep, StopPost, RestartUnit,
     WriteProfile, WriteProfileFailed, RestoreOk, RestoreFailed, NoFault, Fault, TwoFaults,
     budgets
<1>2. profile' \in {profile, Custom}
  BY DEF DaemonStep, Boot, CheckSupported, Load, Prepare, Sense, Write1, Write2,
     WriteTarget, Verify, Finally, Exit, KillDaemon, UnitStep, StopPost, RestartUnit,
     WriteProfile, WriteProfileFailed, registers
<1> QED BY <1>1, <1>2

\* The daemon gets past _ensure_custom_profile only with the profile set.
LEMMA DaemonPrepares ==
  ASSUME RegistersTyped, UnitTyped, faults \in Nat, CustomKept,
         DaemonStep \/ KillDaemon \/ UnitStep
  PROVE  DrivenInCustom' /\ (dpc' \in {"boot", "check"} => running' = "none")
<1>1. /\ profile' \in {profile, Custom} /\ external' = external
      /\ faults' \in Nat /\ faults <= faults'
  BY OthersKeepCustom
<1>2. Prepared => DrivenInCustom'
  <2>1. faults' <= 1 => faults <= 1
    BY <1>1
  <2> QED BY <1>1, <2>1 DEF CustomKept, DrivenInCustom
<1>3. CASE Prepare
  <2>1. (dpc' = "sense" /\ profile' = Custom) \/ dpc' = "finally"
    BY <1>3 DEF Prepare, WriteProfile, DaemonGoTo, Leave
  <2> QED BY <2>1 DEF Prepared, DrivenInCustom
<1>4. CASE Load
  <2>1. dpc' \in {"sense", "prepare", "finally"} /\ dpc = "load"
    BY <1>4 DEF Load, Leave, DaemonGoTo
  <2>2. dpc' = "sense" => config = running /\ config # Automatic
    BY <1>4 DEF Load, Leave, DaemonGoTo
  <2>3. dpc' = "sense" => Prepared
    BY <2>1, <2>2, NamesAssumption DEF Prepared, RegistersTyped
  <2> QED BY <1>2, <2>1, <2>3 DEF Prepared, DrivenInCustom
<1>5. CASE Boot \/ CheckSupported
  <2>1. running = "none" /\ UNCHANGED running /\ dpc' \in {"check", "load", "exit"}
    BY <1>5 DEF Boot, CheckSupported, DaemonGoTo, CustomKept
  <2> QED BY <2>1 DEF Prepared, DrivenInCustom
<1>6. CASE Sense \/ Write1 \/ Write2 \/ Verify
  <2>1. Prepared /\ dpc' \notin {"boot", "check"}
    BY <1>6 DEF Sense, Write1, Write2, WriteTarget, Verify, Leave, DaemonGoTo, Prepared
  <2> QED BY <1>2, <2>1
<1>7. CASE Finally \/ Exit \/ KillDaemon
  BY <1>7 DEF Finally, Exit, KillDaemon, Ended, DaemonGoTo, Prepared, DrivenInCustom
<1>8. CASE UnitStep
  <2>1. Launch \/ UNCHANGED daemonVars
    BY <1>8 DEF UnitStep, StopPost, RestartUnit, AfterPost
  <2>2. dpc = "off"
    BY <1>8 DEF UnitStep, StopPost, RestartUnit, UnitTyped, UnitShape
  <2> QED BY <2>1, <2>2 DEF Launch, daemonVars, Prepared, DrivenInCustom
<1> QED BY <1>3, <1>4, <1>5, <1>6, <1>7, <1>8 DEF DaemonStep

\* No step but the helpers' moves a combined activation away from the profile.
LEMMA OthersCustom ==
  ASSUME RegistersTyped, UnitTyped, BudgetsTyped, CustomKept,
         DaemonStep \/ KillDaemon \/ UnitStep \/ ChangeProfile \/ Reboot \/ UNCHANGED vars
  PROVE  CustomKept'
<1>0. faults \in Nat /\ external \in Nat
  BY BudgetAssumption DEF BudgetsTyped
<1>1. CASE DaemonStep \/ KillDaemon \/ UnitStep
  <2>1. UNCHANGED <<pc, op>>
    BY <1>1, HelpersStay DEF helperVars
  <2>2. /\ profile' \in {profile, Custom} /\ external' = external
        /\ faults' \in Nat /\ faults <= faults'
    BY <1>0, <1>1, OthersKeepCustom
  <2>3. (faults >= 1 => faults' >= 1) /\ (faults >= 2 => faults' >= 2)
    BY <1>0, <2>2
  <2>4. ASSUME NEW h \in Helpers, Busy(h), InCustom(h)
        PROVE  InCustom(h)'
    BY <2>1, <2>2, <2>3, <2>4 DEF InCustom
  <2>5. \A h \in Helpers : Busy(h)' => InCustom(h)'
    BY <2>1, <2>4 DEF CustomKept, Busy
  <2> QED BY <1>0, <1>1, <2>5, DaemonPrepares DEF CustomKept
<1>2. CASE ChangeProfile
  <2>1. UNCHANGED <<pc, op, dpc, running>> /\ external' # 0
    BY <1>0, <1>2 DEF ChangeProfile, helperVars, daemonVars
  <2>2. \A h \in Helpers : Busy(h) /\ InCustom(h) => InCustom(h)'
    BY <2>1 DEF InCustom
  <2> QED BY <2>1, <2>2 DEF CustomKept, Busy, DrivenInCustom
<1>3. CASE Reboot
  <2>1. \A h \in Helpers : ~Busy(h)'
    BY <1>3 DEF Reboot, Busy
  <2>2. dpc' \in {"off", "boot"} /\ running' = "none"
    BY <1>3 DEF Reboot, Launch
  <2> QED BY <2>1, <2>2 DEF CustomKept, DrivenInCustom, Prepared
<1>4. CASE UNCHANGED vars
  BY <1>4 DEF vars, registers, helperVars, daemonVars, budgets, CustomKept, DrivenInCustom,
     Prepared, Busy, InCustom
<1> QED BY <1>1, <1>2, <1>3, <1>4

\* A standard profile is only ever set with the service down, or put back by a
\* recovery that two faults have hit.
LEMMA HelperDrives ==
  ASSUME Control, UnitTyped, CustomKept, faults \in Nat, faults' \in Nat,
         faults <= faults', NEW h \in Helpers, StopProgress(h),
         Ask(h) \/ HelperStep(h) \/ KillHelper(h)
  PROVE  DrivenInCustom' /\ (dpc' \in {"boot", "check"} => running' = "none")
<1>1. external' = external /\ (faults' <= 1 => faults <= 1)
  <2>1. external' = external
    BY DEF HelperStep, Ask, GiveUp, Acquire, Save, EnterCustom, SetPower, Enable, Started,
       SaveAuto, Disable, Stopped, Release, SetProfile, UndoPower, UndoProfile, KillHelper,
       budgets
  <2> QED BY <2>1
<1>2. CASE Enable(h) \/ Disable(h)
  <2>1. UNCHANGED profile
    BY <1>2 DEF Enable, Disable, registers
  <2>2. \/ Launch
        \/ dpc' = "off"
        \/ UNCHANGED <<dpc, running>>
    BY <1>2 DEF Enable, Disable, UnitStart, UnitStop, Ended, daemonVars
  <2> QED
    BY <1>1, <2>1, <2>2 DEF Launch, CustomKept, DrivenInCustom, Prepared
<1>3. CASE ~Enable(h) /\ ~Disable(h)
  <2>1. UNCHANGED <<dpc, running>>
    BY <1>3 DEF HelperStep, Ask, GiveUp, Acquire, Save, EnterCustom, SetPower, Started,
       SaveAuto, Stopped, Release, SetProfile, UndoPower, UndoProfile, KillHelper,
       daemonVars
  <2>2. CASE SetProfile(h) /\ op.request.profile # Custom
    <3>1. dpc = "off"
      BY <2>2 DEF SetProfile, StopProgress, Down, UnitTyped, UnitShape
    <3> QED BY <2>1, <3>1 DEF DrivenInCustom, Prepared
  <2>3. CASE UndoProfile(h)
    <3>1. pc[h] = "undo profile" /\ op.request.kind = "set-custom-config" /\ InCustom(h)
      BY <2>3, HolderServes DEF UndoProfile, Suits, CustomKept, Busy
    <3>2. CASE op.errors
      <4>1. external = 0 => faults >= 2
        BY <3>1, <3>2 DEF InCustom, RecoverySteps
      <4>2. external' = 0 => ~(faults' <= 1)
        BY <1>1, <4>1
      <4> QED BY <2>1, <4>2 DEF DrivenInCustom, CustomKept
    <3>3. CASE ~op.errors
      <4>1. dpc = "off"
        BY <3>1, <3>3 DEF StopProgress, Down, UnitTyped, UnitShape
      <4> QED BY <2>1, <4>1 DEF DrivenInCustom, Prepared
    <3> QED BY <3>2, <3>3, <2>1 DEF CustomKept
  <2>4. CASE ~(SetProfile(h) /\ op.request.profile # Custom) /\ ~UndoProfile(h)
    <3>1. profile' \in {profile, Custom}
      BY <1>3, <2>4 DEF HelperStep, Ask, GiveUp, Acquire, Save, EnterCustom, SetPower,
         Started, SaveAuto, Stopped, Release, SetProfile, UndoPower, KillHelper, registers,
         WriteProfile, WriteProfileFailed
    <3> QED BY <1>1, <2>1, <3>1 DEF CustomKept, DrivenInCustom, Prepared
  <2> QED BY <2>1, <2>2, <2>3, <2>4 DEF CustomKept
<1> QED BY <1>2, <1>3

\* The holder's next step, or its exit, is all there is to look at.
LEMMA HolderCustom ==
  ASSUME Control, NEW h \in Helpers, lock = h,
         DrivenInCustom', dpc' \in {"boot", "check"} => running' = "none",
         \/ \E step, o : Proceed(h, step, o) /\ InCustom(h)'
         \/ \E r : Finish(h, r)
  PROVE  CustomKept'
<1>1. \A k \in Helpers : k # h => ~Busy(k)'
  BY DEF Control, Exclusive, Proceed, Finish, Busy
<1>2. CASE \E r : Finish(h, r)
  <2>1. ~Busy(h)'
    BY <1>2 DEF Finish, Control, Busy
  <2> QED BY <1>1, <2>1 DEF CustomKept
<1>3. CASE InCustom(h)'
  BY <1>1, <1>3 DEF CustomKept
<1> QED BY <1>2, <1>3

\* Counting faults.
LEMMA OneMoreFault ==
  ASSUME NEW a \in Nat, NEW b \in Nat, a <= b
  PROVE  /\ a >= 1 => b >= 1
         /\ a >= 2 => b >= 2
         /\ b = a + 1 => b >= 1 /\ (a >= 1 => b >= 2)
OBVIOUS

\* A step that leaves the profile alone keeps how the activation stands towards
\* it, when it pays for what it notes and for the recovery it enters.
LEMMA StepInCustom ==
  ASSUME Control, NEW h \in Helpers, lock = h, Busy(h), InCustom(h),
         faults \in Nat, faults' \in Nat, faults <= faults', external' = external,
         profile = Custom => profile' = Custom,
         NEW step \in HelperSteps \ {"power"}, NEW o \in {op, Failing}, Proceed(h, step, o),
         step \in {"save", "custom", "enable", "starting"} =>
           o = op /\ pc[h] \in {"save", "custom", "power", "enable", "starting"},
         step = "undo power" => op.undo,
         pc[h] # "undo profile",
         op.request.kind = "set-custom-config" /\ step \in RecoverySteps =>
           /\ pc[h] \notin RecoverySteps => faults' = faults + 1 /\ o = op
           /\ o # op => faults' = faults + 1
  PROVE  InCustom(h)'
<1>1. pc'[h] = step /\ op' = o /\ o.request = op.request /\ o.undo = op.undo
  BY FailingType DEF Proceed, Control
<1>2. step \in {"save", "custom", "power", "enable", "starting"} => ~o.errors
  BY DEF InCustom
<1>3. /\ faults >= 1 => faults' >= 1
      /\ faults >= 2 => faults' >= 2
      /\ faults' = faults + 1 => faults' >= 1 /\ (faults >= 1 => faults' >= 2)
  BY OneMoreFault
<1>4. ASSUME external = 0, op.request.kind = "set-custom-config", step \in RecoverySteps
      PROVE  faults' >= 1 /\ (o.errors => faults' >= 2)
  <2>1. CASE pc[h] \in RecoverySteps
    <3>1. faults >= 1
      BY <1>4, <2>1 DEF InCustom
    <3>2. faults' >= 1 /\ (faults' = faults + 1 => faults' >= 2)
      BY <1>3, <3>1
    <3>3. CASE o = op
      <4>1. o.errors => faults >= 2
        BY <1>4, <2>1, <3>3 DEF InCustom
      <4> QED BY <1>3, <3>2, <4>1
    <3>4. CASE o # op
      BY <1>4, <3>2, <3>4
    <3> QED BY <3>3, <3>4
  <2>2. CASE pc[h] \notin RecoverySteps
    <3>1. faults' = faults + 1 /\ o = op
      BY <1>4, <2>2
    <3>2. pc[h] \in {"save", "custom", "power", "enable", "starting"}
      BY <1>4, <2>2, HolderServes DEF Busy, Suits, Control, HelperSteps, RecoverySteps
    <3>3. ~o.errors
      BY <3>1, <3>2 DEF InCustom
    <3>4. faults' >= 1
      BY <1>3, <3>1
    <3> QED BY <3>3, <3>4
  <2> QED BY <2>1, <2>2
<1> QED
  BY <1>1, <1>2, <1>4 DEF InCustom

\* Every step of a helper keeps its activation in the custom profile.
LEMMA HelperCustom ==
  ASSUME Control, UnitTyped, CustomKept, faults \in Nat, faults' \in Nat,
         faults <= faults', NEW h \in Helpers, StopProgress(h),
         Ask(h) \/ HelperStep(h) \/ KillHelper(h)
  PROVE  CustomKept'
<1> USE DEF GoTo
<1>1. DrivenInCustom' /\ (dpc' \in {"boot", "check"} => running' = "none")
  BY HelperDrives
<1>2. Busy(h) => lock = h /\ Suits(pc[h], op.request) /\ InCustom(h)
  BY HolderServes DEF Busy, CustomKept
<1>3. external' = external
  BY DEF HelperStep, Ask, GiveUp, Acquire, Save, EnterCustom, SetPower, Enable, Started,
     SaveAuto, Disable, Stopped, Release, SetProfile, UndoPower, UndoProfile, KillHelper,
     budgets
<1>4. CASE Ask(h) \/ GiveUp(h)
  <2>1. UNCHANGED <<profile, op, faults>>
    BY <1>4 DEF Ask, GiveUp, registers, budgets
  <2>2. \A k \in Helpers : pc'[k] = pc[k] \/ pc'[k] \in {"idle", "want"}
    BY <1>4 DEF Ask, GiveUp, Control
  <2>3. \A k \in Helpers : Busy(k)' => InCustom(k)'
    BY <1>3, <2>1, <2>2 DEF CustomKept, InCustom, Busy
  <2> QED BY <1>1, <2>3 DEF CustomKept
<1>5. CASE Acquire(h)
  <2>1. PICK r \in Requests :
          /\ pc' = [pc EXCEPT ![h] = FirstStep(r)]
          /\ op' = Operation(r, IF r.kind = "set-custom-config"
                                THEN [profile |-> profile, power |-> power]
                                ELSE NoOperation.saved)
    BY <1>5 DEF Acquire
  <2>2. op'.request = r /\ ~op'.errors /\ ~op'.undo
    BY <2>1 DEF Operation
  <2>3. pc'[h] = FirstStep(r) /\ \A k \in Helpers \ {h} : pc'[k] = pc[k]
    BY <2>1 DEF Control
  <2>4. FirstStep(r) \in {"auto", "save", "profile"}
        /\ (r.kind = "set-custom-config" => FirstStep(r) = "save")
    BY DEF FirstStep
  <2>5. InCustom(h)'
    BY <2>2, <2>3, <2>4 DEF InCustom, RecoverySteps
  <2>6. \A k \in Helpers : pc[k] \in {"idle", "want"}
    BY <1>5, NamesAssumption DEF Acquire, Control, Exclusive
  <2>7. \A k \in Helpers : k # h => ~Busy(k)'
    BY <2>3, <2>6 DEF Busy
  <2> QED BY <1>1, <2>5, <2>7 DEF CustomKept
<1>6. CASE Save(h) \/ SaveAuto(h) \/ Disable(h) \/ Stopped(h)
  <2>1. lock = h /\ Busy(h) /\ UNCHANGED profile
    BY <1>2, <1>6 DEF Busy, Save, SaveAuto, Disable, Stopped, registers
  <2>2. \/ pc[h] = "save" /\ Proceed(h, "custom", op)
        \/ \E r : Finish(h, r)
        \/ /\ pc[h] \in {"auto", "disable", "stopping"}
           /\ \E step \in {"disable", "stopping", "release"} :
                \/ Proceed(h, step, op)
                \/ Proceed(h, step, Failing) /\ faults' = faults + 1
    BY <1>6 DEF Save, SaveAuto, Disable, Stopped, SavePolicyFailed, Fault
  <2>3. ASSUME ~\E r : Finish(h, r)
        PROVE  InCustom(h)'
    BY <1>2, <1>3, <2>1, <2>2, <2>3, StepInCustom DEF HelperSteps, RecoverySteps
  <2>4. \E r : Finish(h, r) \/ \E step, o : Proceed(h, step, o) /\ InCustom(h)'
    BY <2>2, <2>3
  <2> QED BY <1>1, <2>1, <2>4, HolderCustom
<1>7. CASE EnterCustom(h) \/ Enable(h) \/ Started(h)
  <2>1. lock = h /\ Busy(h) /\ profile' \in {profile, Custom}
    BY <1>2, <1>7 DEF Busy, EnterCustom, Enable, Started, registers, WriteProfile,
       WriteProfileFailed
  <2>2. \/ pc[h] = "custom" /\ Proceed(h, "power", op) /\ profile' = Custom
        \/ pc[h] \in {"custom", "enable", "starting"} /\
             \/ \E step \in {"enable", "starting"} : Proceed(h, step, op)
             \/ Proceed(h, "auto", op) /\ faults' = faults + 1
        \/ \E r : Finish(h, r)
    BY <1>7 DEF EnterCustom, Enable, Started, Fault, WriteProfile, WriteProfileFailed
  <2>3. CASE pc[h] = "custom" /\ Proceed(h, "power", op) /\ profile' = Custom
    <3>1. pc'[h] = "power" /\ op' = op
      BY <2>3 DEF Proceed, Control
    <3>2. InCustom(h)'
      BY <1>2, <2>1, <2>3, <3>1 DEF InCustom, RecoverySteps
    <3> QED BY <1>1, <2>1, <2>3, <3>2, HolderCustom
  <2>4. CASE \E r : Finish(h, r)
    BY <1>1, <2>1, <2>4, HolderCustom
  <2>5. ASSUME NEW step \in {"enable", "starting", "auto"}, Proceed(h, step, op),
               pc[h] \in {"custom", "enable", "starting"},
               step = "auto" => faults' = faults + 1
        PROVE  CustomKept'
    <3>1. InCustom(h)'
      BY <1>2, <1>3, <2>1, <2>5, StepInCustom DEF HelperSteps, RecoverySteps
    <3> QED BY <1>1, <2>1, <2>5, <3>1, HolderCustom
  <2> QED BY <2>2, <2>3, <2>4, <2>5
<1>8. CASE SetPower(h)
  <2>1. lock = h /\ Busy(h) /\ UNCHANGED profile /\ op.request.kind = "set-custom-config"
        /\ pc[h] = "power"
    BY <1>2, <1>8 DEF Busy, SetPower, Suits
  <2>2. CASE WritePower(op.request.limits) /\ Proceed(h, "enable", Noted)
    <3>1. pc'[h] = "enable" /\ op' = Noted /\ Noted.errors = op.errors
          /\ profile' = Custom /\ Noted.request = op.request
      BY <2>1, <2>2 DEF Proceed, Control, Noted, Operations, WritePower
    <3>2. InCustom(h)'
      BY <1>2, <2>1, <3>1 DEF InCustom, RecoverySteps
    <3> QED BY <1>1, <2>1, <2>2, <3>2, HolderCustom
  <2>3. CASE WritePowerFailed /\ Proceed(h, "auto", op)
    <3>1. external = 0 => profile = Custom
      BY <1>2, <2>1 DEF InCustom
    <3>2. external = 0 => faults' = faults + 1
      BY <2>3, <3>1 DEF WritePowerFailed, Fault
    <3>3. pc'[h] = "auto" /\ op' = op /\ ~op.errors
      BY <1>2, <2>1, <2>3 DEF Proceed, Control, InCustom
    <3>4. external = 0 => faults' >= 1
      BY <3>2, OneMoreFault
    <3>5. InCustom(h)'
      BY <1>2, <1>3, <2>1, <3>1, <3>3, <3>4 DEF InCustom
    <3> QED BY <1>1, <2>1, <2>3, <3>5, HolderCustom
  <2>4. CASE WritePowerTorn /\ Proceed(h, "auto", Failing)
    <3>1. pc'[h] = "auto" /\ profile' = Custom /\ faults' = faults + 2
      BY <2>1, <2>4 DEF Proceed, Control, WritePowerTorn, TwoFaults
    <3>2. faults' >= 2 /\ faults' >= 1
      BY <3>1
    <3>3. InCustom(h)'
      BY <3>1, <3>2 DEF InCustom
    <3> QED BY <1>1, <2>1, <2>4, <3>3, HolderCustom
  <2> QED BY <1>8, <2>2, <2>3, <2>4 DEF SetPower, Noted
<1>9. CASE Release(h)
  <2>1. lock = h /\ Busy(h) /\ UNCHANGED profile /\ pc[h] = "release"
    BY <1>2, <1>9 DEF Busy, Release
  <2>2. PICK o \in {op, Failing} :
          AfterStop(h, o) /\ (o = op \/ faults' = faults + 1)
    BY <1>9 DEF Release, RestoreFailed, Fault
  <2>3. \/ \E r : Finish(h, r)
        \/ \E step \in {"profile", "undo power", "undo profile"} :
             Proceed(h, step, o) /\ (step = "undo power" => op.undo)
    BY <2>2, FailingType DEF AfterStop, UndoProfileOrEnd, Recovered
  <2>4. CASE \E r : Finish(h, r)
    BY <1>1, <2>1, <2>4, HolderCustom
  <2>5. ASSUME NEW step \in {"profile", "undo power", "undo profile"},
               Proceed(h, step, o), step = "undo power" => op.undo
        PROVE  CustomKept'
    <3>1. InCustom(h)'
      BY <1>2, <1>3, <2>1, <2>2, <2>5, StepInCustom DEF HelperSteps, RecoverySteps
    <3> QED BY <1>1, <2>1, <2>5, <3>1, HolderCustom
  <2> QED BY <2>3, <2>4, <2>5
<1>10. CASE SetProfile(h) \/ UndoProfile(h) \/ KillHelper(h)
  <2>1. lock = h /\ \E r : Finish(h, r)
    BY <1>2, <1>10 DEF Busy, SetProfile, UndoProfile, KillHelper, Recovered
  <2> QED BY <1>1, <2>1, HolderCustom
<1>11. CASE UndoPower(h)
  <2>1. lock = h /\ Busy(h) /\ UNCHANGED profile /\ op.request.kind = "set-custom-config"
        /\ pc[h] = "undo power" /\ op.undo
    BY <1>2, <1>11 DEF Busy, UndoPower, Suits, InCustom
  <2>2. PICK o \in {op, Failing} :
          /\ UndoProfileOrEnd(h, o)
          /\ o = op \/ WritePowerFailed \/ WritePowerTorn
    BY <1>11 DEF UndoPower
  <2>3. \/ \E r : Finish(h, r)
        \/ Proceed(h, "undo profile", o)
    BY <2>2 DEF UndoProfileOrEnd, Recovered
  <2>4. CASE \E r : Finish(h, r)
    BY <1>1, <2>1, <2>4, HolderCustom
  <2>5. CASE Proceed(h, "undo profile", o)
    <3>1. external = 0 => profile = Custom /\ faults >= 1 /\ (op.errors => faults >= 2)
      BY <1>2, <2>1 DEF InCustom, RecoverySteps
    <3>2. external = 0 /\ o # op => faults' = faults + 1 \/ faults' = faults + 2
      BY <2>2, <3>1 DEF WritePowerFailed, WritePowerTorn, Fault, TwoFaults
    <3>3. external = 0 => faults' >= 1 /\ (o # op => faults' >= 2)
      BY <3>1, <3>2
    <3>4. external = 0 => faults' >= 1 /\ (o.errors => faults' >= 2)
      BY <3>1, <3>3, OneMoreFault
    <3>5. pc'[h] = "undo profile" /\ op' = o
      BY <2>5 DEF Proceed, Control
    <3>6. InCustom(h)'
      BY <1>3, <3>4, <3>5 DEF InCustom
    <3> QED BY <1>1, <2>1, <2>5, <3>6, HolderCustom
  <2> QED BY <2>3, <2>4, <2>5
<1> QED
  BY <1>4, <1>5, <1>6, <1>7, <1>8, <1>9, <1>10, <1>11 DEF HelperStep

\* As long as nothing but the program changes the profile, and at most one thing
\* went wrong, the daemon writes targets only in the custom profile.
THEOREM DrivesInCustom == Spec => []CustomWhileManual
<1>1. Init => CustomKept
  BY DEF Init, CustomKept, DrivenInCustom, Prepared, Busy
<1>2. ASSUME Control, Machine, Handover, CustomKept, [Next]_vars
      PROVE  CustomKept'
  <2>1. faults \in Nat /\ faults' \in Nat /\ faults <= faults'
    BY <1>2, FaultsGrow DEF Machine
  <2>2. \A h \in Helpers : StopProgress(h)
    BY <1>2 DEF Handover
  <2> QED
    BY <1>2, <2>1, <2>2, HelperCustom, OthersCustom DEF Machine, Next
<1>3. CustomKept => CustomWhileManual
  BY DEF CustomKept, DrivenInCustom, Prepared, CustomWhileManual
<1> QED
  BY <1>1, <1>2, <1>3, BaseInvariant, HandoverInvariant, PTL DEF Spec
=============================================================================
