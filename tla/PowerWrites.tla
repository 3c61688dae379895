---------------------------- MODULE PowerWrites ----------------------------
(***************************************************************************)
(* SysfsHardware.set_power_limits (linux.py) under the rules of power.py.  *)
(* The two limits are two registers, written and read back one after the   *)
(* other; a failure writes the previous pair back in the same order, and   *)
(* the process can be killed between any two of the writes.  The helper    *)
(* lets one request at a time reach this code (FanSystem), and other       *)
(* programs and the firmware may set the pair between requests.            *)
(*                                                                         *)
(* FanSystem takes a whole request for one step with one of three answers: *)
(* applied, restored, or incomplete.  This module is why it may.           *)
(***************************************************************************)
EXTENDS Integers

CONSTANTS
  Registered,      \* bound: the watts a register is seen to hold
  SustainedBounds, \* PowerLimitBounds of ppt_pl1_spl
  SlowBounds,      \* PowerLimitBounds of ppt_pl2_sppt
  MaxPowerFaults   \* bound: writes that fail or are not confirmed, and kills

\* PowerLimitBounds.contains
ContainsWatts(b, w) == b.minimum <= w /\ w <= b.maximum /\ ((w - b.minimum) % b.step) = 0

ValidBounds(b) ==
  /\ b \in [minimum : Nat \ {0}, maximum : Nat, step : Nat \ {0}, default : Nat]
  /\ b.minimum <= b.maximum
  /\ ContainsWatts(b, b.default)

ASSUME PowerAssumption ==
  /\ Registered \subseteq Nat \ {0}
  /\ ValidBounds(SustainedBounds) /\ ValidBounds(SlowBounds)
  /\ SustainedBounds.default \in Registered /\ SlowBounds.default \in Registered
  /\ SustainedBounds.default <= SlowBounds.default
  /\ MaxPowerFaults \in Nat

VARIABLES
  pair,         \* the two registers
  inCustom,     \* the platform profile is custom
  writing,      \* the request running: the next write, its target, the previous pair
  answer,       \* the last answer
  damaged,      \* a write was cut off, or not undone, since the pair was last whole
  powerFaults   \* faults so far

powerVars == <<pair, inCustom, writing, answer, damaged, powerFaults>>

Pairs == [sustained : Registered, slow : Registered]

\* CustomPowerLimits: what the two values must be to be limits at all.
Limits == {p \in Pairs : p.sustained <= p.slow}

\* validate_for
InBounds(p) == ContainsWatts(SustainedBounds, p.sustained) /\ ContainsWatts(SlowBounds, p.slow)

Answers == {"none", "applied", "restored", "incomplete", "not custom", "invalid", "unreadable"}
Steps == {"idle", "sustained", "slow", "undo sustained", "undo slow"}

PowerTypeOK ==
  /\ pair \in Pairs
  /\ inCustom \in BOOLEAN
  /\ writing \in [step : Steps, target : Limits, previous : Limits, lost : BOOLEAN]
  /\ answer \in Answers
  /\ damaged \in BOOLEAN
  /\ powerFaults \in 0..MaxPowerFaults

-----------------------------------------------------------------------------

GoOn(step) == writing' = [writing EXCEPT !.step = step]

\* Slip: the bounds are not checked.
Begin_Unbounded(target) ==
  /\ writing.step = "idle" /\ inCustom /\ pair \in Limits
  /\ writing' = [step |-> "sustained", target |-> target, previous |-> pair, lost |-> FALSE]
  /\ answer' = "none"
  /\ UNCHANGED <<pair, inCustom, damaged, powerFaults>>

Begin(target) ==
  /\ writing.step = "idle"
  /\ \/ ~inCustom /\ answer' = "not custom" /\ UNCHANGED writing
     \/ inCustom /\ ~InBounds(target) /\ answer' = "invalid" /\ UNCHANGED writing
     \/ inCustom /\ InBounds(target) /\ pair \notin Limits /\ answer' = "unreadable"
        /\ UNCHANGED writing
     \/ /\ inCustom /\ InBounds(target) /\ pair \in Limits
        /\ writing' = [step |-> "sustained", target |-> target, previous |-> pair,
                       lost |-> FALSE]
        /\ answer' = "none"
  /\ UNCHANGED <<pair, inCustom, damaged, powerFaults>>

\* _write_power_value: the value is there when it is read back; or the write
\* fails or is not confirmed, and the register may hold anything.
Confirmed(name, value) == pair' = [pair EXCEPT ![name] = value] /\ UNCHANGED powerFaults
Doubtful(name) ==
  /\ powerFaults < MaxPowerFaults /\ powerFaults' = powerFaults + 1
  /\ \E w \in Registered : pair' = [pair EXCEPT ![name] = w]

WriteSustained ==
  /\ writing.step = "sustained"
  /\ \/ Confirmed("sustained", writing.target.sustained) /\ GoOn("slow")
     \/ Doubtful("sustained") /\ GoOn("undo sustained")
  /\ UNCHANGED <<inCustom, answer, damaged>>

\* Slip: a failure of the second write undoes nothing but the second.
WriteSlow_UndoesOne ==
  /\ writing.step = "slow"
  /\ \/ /\ Confirmed("slow", writing.target.slow) /\ GoOn("idle")
        /\ answer' = "applied" /\ damaged' = FALSE
     \/ Doubtful("slow") /\ GoOn("undo slow") /\ UNCHANGED <<answer, damaged>>
  /\ UNCHANGED inCustom

WriteSlow ==
  /\ writing.step = "slow"
  /\ \/ /\ Confirmed("slow", writing.target.slow) /\ GoOn("idle")
        /\ answer' = "applied" /\ damaged' = FALSE
     \/ Doubtful("slow") /\ GoOn("undo sustained") /\ UNCHANGED <<answer, damaged>>
  /\ UNCHANGED inCustom

\* _restore_power_limits tries both, whatever became of the first.
UndoSustained ==
  /\ writing.step = "undo sustained"
  /\ \/ Confirmed("sustained", writing.previous.sustained) /\ GoOn("undo slow")
     \/ /\ Doubtful("sustained")
        /\ writing' = [writing EXCEPT !.step = "undo slow", !.lost = TRUE]
  /\ UNCHANGED <<inCustom, answer, damaged>>

UndoSlow ==
  /\ writing.step = "undo slow"
  /\ GoOn("idle")
  /\ \/ /\ Confirmed("slow", writing.previous.slow)
        /\ IF writing.lost THEN answer' = "incomplete" /\ damaged' = TRUE
           ELSE answer' = "restored" /\ UNCHANGED damaged
     \/ Doubtful("slow") /\ answer' = "incomplete" /\ damaged' = TRUE
  /\ UNCHANGED inCustom

KillWriter ==
  /\ writing.step # "idle"
  /\ powerFaults < MaxPowerFaults /\ powerFaults' = powerFaults + 1
  /\ GoOn("idle")
  /\ answer' = "none" /\ damaged' = TRUE
  /\ UNCHANGED <<pair, inCustom>>

\* The firmware, at a boot or a change of profile, sets a pair within the
\* bounds it publishes.
FirmwareSets ==
  /\ writing.step = "idle"
  /\ pair' \in {p \in Limits : InBounds(p)}
  /\ inCustom' \in BOOLEAN
  /\ answer' = "none" /\ damaged' = FALSE
  /\ UNCHANGED <<writing, powerFaults>>

PowerInit ==
  /\ pair = [sustained |-> SustainedBounds.default, slow |-> SlowBounds.default]
  /\ inCustom \in BOOLEAN
  /\ writing = [step |-> "idle", target |-> pair, previous |-> pair, lost |-> FALSE]
  /\ answer = "none" /\ damaged = FALSE /\ powerFaults = 0

PowerNext ==
  \/ \E target \in Limits : Begin(target)
  \/ WriteSustained \/ WriteSlow \/ UndoSustained \/ UndoSlow
  \/ KillWriter \/ FirmwareSets

PowerSpec == PowerInit /\ [][PowerNext]_powerVars

-----------------------------------------------------------------------------

\* The answer tells the truth about both registers: after "applied" they are
\* what was asked, and after an error that names no incomplete restoration
\* they are what they were, whichever of the four writes failed.
AnswerIsTrue ==
  /\ answer = "applied" => pair = writing.target
  /\ answer = "restored" => pair = writing.previous

\* Between requests the pair is one the code reads as limits, inside the
\* published bounds, unless a writer was killed or a restoration was
\* incomplete.  The exception matters: set_power_limits and
\* set_custom_configuration refuse every request while they cannot read the
\* pair, so after a kill between two writes that leaves the sustained limit
\* above the slow one no request can repair it.
PairWhole ==
  (writing.step = "idle" /\ ~damaged) => pair \in Limits /\ InBounds(pair)

\* What the helper answers and what it leaves behind, together.
PowerSound == AnswerIsTrue /\ PairWhole
=============================================================================
