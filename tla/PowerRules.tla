----------------------------- MODULE PowerRules -----------------------------
(***************************************************************************)
(* The rules of the power source: the store of automation.py and the page  *)
(* of ui_automation.py.  The main window follows the configuration of the  *)
(* page, so what the controls show must be it; a change is saved at once,  *)
(* and when that fails the page loads the file again, which can fail too.  *)
(***************************************************************************)
EXTENDS Integers

CONSTANTS
  RuleSources,   \* PowerSource
  RuleSlots,     \* SceneSlot
  DefaultRules,  \* AutomationConfig()
  MaxRuleFaults  \* bound: saves and loads that fail, and kills

\* By source, whether a scene is applied and which one.
RuleSets == [RuleSources -> [on : BOOLEAN, slot : RuleSlots]]

ASSUME RuleAssumption ==
  /\ DefaultRules \in RuleSets
  /\ MaxRuleFaults \in Nat

VARIABLES
  ruleFile,     \* automation.json
  rules,        \* _configuration
  controls,     \* the switches and the scene rows
  rulesLoaded,  \* _loaded
  misloaded,    \* the last load failed
  ruleFaults    \* faults so far

ruleVars == <<ruleFile, rules, controls, rulesLoaded, misloaded, ruleFaults>>

\* kind: not there, valid, or refused by every load.
RuleFiles == [kind : {"absent", "valid", "broken"}, rules : RuleSets]
ValidRules(r) == [kind |-> "valid", rules |-> r]

RuleTypeOK ==
  /\ ruleFile \in RuleFiles
  /\ rules \in RuleSets /\ controls \in RuleSets
  /\ rulesLoaded \in BOOLEAN /\ misloaded \in BOOLEAN
  /\ ruleFaults \in 0..MaxRuleFaults

-----------------------------------------------------------------------------

\* _load, of the file as a step leaves it, after the given number of faults.
LoadRules(file, faults) ==
  /\ rulesLoaded' = TRUE
  /\ \/ /\ file.kind # "broken"
        /\ rules' = file.rules /\ misloaded' = FALSE /\ ruleFaults' = faults
     \/ /\ file.kind # "absent"
        /\ rules' = DefaultRules /\ misloaded' = TRUE
        /\ ruleFaults' = faults + (IF file.kind = "broken" THEN 0 ELSE 1)
        /\ ruleFaults' <= MaxRuleFaults
  /\ controls' = rules'

\* The first status loads the rules.
FirstRules ==
  /\ ~rulesLoaded
  /\ LoadRules(ruleFile, ruleFaults)
  /\ UNCHANGED ruleFile

\* One switch is moved, or the row of one that is on.
Moves ==
  {r \in RuleSets :
     \E s \in RuleSources :
       /\ r = [controls EXCEPT ![s] = r[s]]
       /\ r[s].on # controls[s].on <=> r[s].slot = controls[s].slot
       /\ r[s].slot # controls[s].slot => r[s].on}

\* Slip: when the save fails the page stays as the user left it.
ChangeRule_NoReload(r) ==
  /\ rulesLoaded /\ controls' = r
  /\ \/ ruleFile' = ValidRules(r) /\ rules' = r /\ UNCHANGED <<misloaded, ruleFaults>>
     \/ /\ ruleFaults < MaxRuleFaults /\ ruleFaults' = ruleFaults + 1
        /\ ruleFile' \in {ruleFile, ValidRules(r)}
        /\ UNCHANGED <<rules, misloaded>>
  /\ UNCHANGED rulesLoaded

\* _on_controls_changed: the save fails before or after the replacement.
ChangeRule(r) ==
  /\ rulesLoaded
  /\ \/ /\ ruleFile' = ValidRules(r)
        /\ rules' = r /\ controls' = r
        /\ misloaded' = FALSE
        /\ UNCHANGED <<rulesLoaded, ruleFaults>>
     \/ /\ ruleFaults < MaxRuleFaults
        /\ ruleFile' \in {ruleFile, ValidRules(r)}
        /\ LoadRules(ruleFile', ruleFaults + 1)

\* Killed at any point, in a save too.
RestartRules ==
  /\ \/ UNCHANGED <<ruleFile, ruleFaults>>
     \/ /\ rulesLoaded /\ ruleFaults < MaxRuleFaults
        /\ \E r \in Moves : ruleFile' = ValidRules(r)
        /\ ruleFaults' = ruleFaults + 1
  /\ rules' = DefaultRules /\ controls' = DefaultRules
  /\ rulesLoaded' = FALSE /\ misloaded' = FALSE

RulesInit ==
  /\ ruleFile \in {[kind |-> k, rules |-> DefaultRules] : k \in {"absent", "broken"}}
                    \cup {ValidRules(r) : r \in RuleSets}
  /\ rules = DefaultRules /\ controls = DefaultRules
  /\ rulesLoaded = FALSE /\ misloaded = FALSE /\ ruleFaults = 0

RulesNext ==
  \/ FirstRules
  \/ \E r \in Moves : ChangeRule(r)
  \/ RestartRules

RulesSpec == RulesInit /\ [][RulesNext]_ruleVars

-----------------------------------------------------------------------------

\* What acts at a change of the power source is what the page shows, and what
\* the next session will act on, whichever save failed and however: unless
\* the page could not read the file and said so (_on_controls_changed).
RulesShown ==
  rulesLoaded =>
    /\ controls = rules
    /\ ~misloaded => rules = ruleFile.rules
=============================================================================
