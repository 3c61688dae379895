---------------------------- MODULE DoctorReport ----------------------------
(***************************************************************************)
(* The report of doctor.py as its page builds it (ui_doctor.py): from the  *)
(* status of every poll and from a probe of the system that is read once   *)
(* and when the user asks.  The machine can change between the two.        *)
(***************************************************************************)
EXTENDS ThermalLevels

CONSTANT Machines   \* bound: the conditions the machine is seen in

\* What a status says, and what only the probe sees.  The unit is "changing"
\* in the states of systemctl between the others: activating, also in the
\* delay before a restart, deactivating and reloading.
StatusFacts == [supported : BOOLEAN, fanControl : BOOLEAN, keyboard : BOOLEAN,
                cpu : Readouts, gpu : Readouts]
ProbeFacts == [helper : BOOLEAN, action : BOOLEAN, modules : BOOLEAN,
               service : {"active", "failed", "unknown", "inactive", "changing"},
               bios : {"validated", "other", "unreadable"},
               profileRival : BOOLEAN, keyboardRival : BOOLEAN, newer : BOOLEAN]
Conditions == [status : StatusFacts, probe : ProbeFacts]

ASSUME MachinesAssumption == Machines \subseteq Conditions /\ Machines # {}

VARIABLES
  machine,    \* its condition now
  probe,      \* _probe
  probeRead,  \* _probe is not None
  findings,   \* _report: the severity of each finding
  polled,     \* the status the report was built from
  rechecked   \* what the probe could see when it was last read

doctorVars == <<machine, probe, probeRead, findings, polled, rechecked>>

\* SystemProbe(): what is taken when the probe fails.
NoProbe == [helper |-> FALSE, action |-> FALSE, modules |-> FALSE, service |-> "unknown",
            bios |-> "unreadable", profileRival |-> FALSE, keyboardRival |-> FALSE,
            newer |-> FALSE]

\* "none": the finding is not in the report.
Severities == {"ok", "warning", "error"}
Keys == {"version", "identity", "bios", "modules", "privileges", "fan_control", "thermal",
         "fan_service", "rgb", "profile_conflict", "rgb_conflict"}

DoctorTypeOK ==
  /\ machine \in Machines
  /\ probe \in ProbeFacts /\ rechecked \in ProbeFacts
  /\ probeRead \in BOOLEAN
  /\ polled \in StatusFacts
  /\ findings \in [Keys -> Severities \cup {"none"}]

-----------------------------------------------------------------------------

Unless(good, severity) == IF good THEN "ok" ELSE severity

\* Off the list of models the comparison says nothing.
BiosFinding(p, supported) ==
  Unless(p.bios = "validated" \/ (~supported /\ p.bios # "unreadable"), "warning")

FanServiceFinding(p) ==
  IF p.service = "failed" THEN "error" ELSE Unless(p.service # "unknown", "warning")

\* _conflict_findings: another program for the same registers.
ConflictFinding(rival) == Unless(~rival, "warning")

\* build_doctor_report, with a probe.
Findings(s, p) ==
  [version |-> Unless(~p.newer, "warning"),
   identity |-> Unless(s.supported, "error"),
   bios |-> BiosFinding(p, s.supported),
   modules |-> Unless(p.modules, "warning"),
   privileges |-> Unless(p.helper /\ p.action, "error"),
   fan_control |-> Unless(s.fanControl, "warning"),
   thermal |-> ThermalSeverity(Hottest(s.cpu, s.gpu)),
   fan_service |-> FanServiceFinding(p),
   rgb |-> Unless(s.keyboard, "warning"),
   profile_conflict |-> ConflictFinding(p.profileRival),
   rgb_conflict |-> ConflictFinding(p.keyboardRival)]

\* DoctorReport.severity
Worst(f) ==
  IF \E k \in Keys : f[k] = "error" THEN "error"
  ELSE IF \E k \in Keys : f[k] = "warning" THEN "warning" ELSE "ok"

\* probe_system; it can raise, and the page then goes on with the defaults.
ReadProbe ==
  /\ probeRead' = TRUE
  /\ \/ probe' = machine.probe /\ rechecked' = machine.probe
     \/ probe' = NoProbe /\ rechecked' = NoProbe

UpdateReport ==
  /\ IF probeRead THEN UNCHANGED <<probe, probeRead, rechecked>> ELSE ReadProbe
  /\ polled' = machine.status
  /\ findings' = Findings(machine.status, probe')
  /\ UNCHANGED machine

\* Slip: a probe that was read is not read again.
RecheckProbe_Once ==
  /\ probeRead' = TRUE
  /\ rechecked' = machine.probe
  /\ probe' = IF probeRead THEN probe ELSE machine.probe
  /\ UNCHANGED <<machine, findings, polled>>

\* The button reads the probe; the report is rebuilt by the next status.
RecheckProbe ==
  /\ ReadProbe
  /\ UNCHANGED <<machine, findings, polled>>

MachineChanges ==
  /\ machine' \in Machines \ {machine}
  /\ UNCHANGED <<probe, probeRead, findings, polled, rechecked>>

DoctorInit ==
  /\ machine \in Machines
  /\ probe = NoProbe /\ probeRead = FALSE /\ rechecked = NoProbe
  /\ findings = [k \in Keys |-> "none"]
  /\ polled = machine.status

DoctorNext == UpdateReport \/ RecheckProbe \/ MachineChanges

DoctorSpec == DoctorInit /\ [][DoctorNext]_doctorVars

-----------------------------------------------------------------------------

\* What makes requests fail as a rule: another model, no helper or no rule for
\* it, no fans to set, no keyboard.
Refuses(s, p) == ~s.supported \/ ~p.helper \/ ~p.action \/ ~s.fanControl \/ ~s.keyboard

\* A report built by a status never reassures: if it is all "ok" then, as the
\* status and the last reading of the probe saw the machine, every control
\* was there, the service had not failed, nothing competed for the registers,
\* and the alerts would not have called it hot.  And it says "error" at the
\* temperature the alerts call critical (build_doctor_report).
ReportHonest ==
  [][findings' # findings =>
       /\ Worst(findings') = "ok" =>
            /\ ~Refuses(polled', rechecked')
            /\ rechecked'.service \notin {"failed", "unknown"}
            /\ ~rechecked'.profileRival /\ ~rechecked'.keyboardRival
            /\ Level(Hottest(polled'.cpu, polled'.gpu)) = "normal"
       /\ Level(Hottest(polled'.cpu, polled'.gpu)) = "critical" => Worst(findings') = "error"
    ]_doctorVars
=============================================================================
