----------------------------- MODULE MCDesktop -----------------------------
(***************************************************************************)
(* The parts of the program that keep their own state beside the control   *)
(* of the fans, the window's pages and the keyboard: they share nothing    *)
(* with each other that another model does not cover, so each behaviour    *)
(* runs one of them, and the states are the sum of the parts' and not      *)
(* their product.                                                          *)
(***************************************************************************)
EXTENDS TelemetryArchive, UpdateNotice, SceneFiles, PowerRules, PowerWrites,
        KeyboardReports, ThermalAlerts, DoctorReport, DesktopSession, PackageScripts

VARIABLE part

desktopVars == <<part, archiveVars, noticeVars, sceneVars, ruleVars, powerVars, keyboardVars,
                 alertVars, doctorVars, sessionVars, packageVars>>

-----------------------------------------------------------------------------
(* Values of the constants *)

\* A file of an earlier session, with scenes that are not the defaults.
MCKept == {[s \in Slots |-> [manual |-> s = Game, power |-> IF s = Game THEN 2 ELSE 0,
                             lighting |-> 2]]}

MCReadings ==
  { [fans |-> "firmware", power |-> 1, lighting |-> 2],
    [fans |-> "manual", power |-> 2, lighting |-> 1],
    [fans |-> "manual", power |-> 1, lighting |-> 0],
    [fans |-> "torn", power |-> 2, lighting |-> 2] }

MCDefaultRules == [s \in RuleSources |-> [on |-> FALSE, slot |-> "work"]]

\* Ranges that overlap, and a step that leaves values out.
MCSustainedBounds == [minimum |-> 1, maximum |-> 3, step |-> 1, default |-> 2]
MCSlowBounds == [minimum |-> 1, maximum |-> 5, step |-> 2, default |-> 3]

\* Colours of patterns.py; brightness where the rounding and the limits bite.
MCShades == {<<229, 32, 47>>, <<12, 12, 14>>, <<255, 176, 32>>}
MCPercents == {0, 1, 5, 6, 39, 50, 61, 95, 100}
MCAsked ==
  {c \in Configurations :
     \/ c.percent = 50 /\ (c.enabled \/ c.frame.kind = "banded")
     \/ c.frame.kind = "banded" /\ c.frame.bands = 2 /\ c.enabled}

\* A machine where all is well, and those with one thing or two that are not.
SoundMachine ==
  [status |-> [supported |-> TRUE, fanControl |-> TRUE, keyboard |-> TRUE, cpu |-> 79,
               gpu |-> NoReading],
   probe |-> [helper |-> TRUE, action |-> TRUE, modules |-> TRUE, service |-> "active",
              bios |-> "validated", profileRival |-> FALSE, keyboardRival |-> FALSE,
              newer |-> FALSE]]
MCMachines ==
  LET s == SoundMachine.status  p == SoundMachine.probe
  IN  {[status |-> x, probe |-> p] :
         x \in {s} \cup {[s EXCEPT ![f] = FALSE] : f \in {"supported", "fanControl", "keyboard"}}
                 \cup {[s EXCEPT !.cpu = c, !.gpu = g] : c \in {79, NoReading}, g \in Readouts}}
        \cup {[status |-> s, probe |-> x] :
                x \in {[p EXCEPT ![f] = FALSE] : f \in {"helper", "action", "modules"}}
                        \cup {[p EXCEPT ![f] = TRUE] :
                                f \in {"profileRival", "keyboardRival", "newer"}}
                        \cup {[p EXCEPT !.service = v] :
                                v \in {"failed", "unknown", "inactive", "changing"}}
                        \cup {[p EXCEPT !.bios = v] : v \in {"other", "unreadable"}}}

-----------------------------------------------------------------------------

Parts == {"archive", "notice", "scenes", "rules", "power", "keyboard", "alerts", "doctor",
          "session", "package"}

\* The parts that do not run keep one initial state.
DesktopInit ==
  /\ part \in Parts
  /\ ArchiveInit
  /\ NoticeInit /\ (part # "notice" => published = 0)
  /\ SceneInit /\ (part # "scenes" => sceneFile.kind = "absent")
  /\ RulesInit /\ (part # "rules" => ruleFile.kind = "absent")
  /\ PowerInit /\ (part # "power" => inCustom)
  /\ KeyboardInit
  /\ AlertInit
  /\ DoctorInit /\ (part # "doctor" => machine = SoundMachine)
  /\ SessionInit
  /\ PackageInit /\ (part # "package" => manual)

DesktopNext ==
  /\ UNCHANGED part
  /\ \/ part = "archive" /\ ArchiveNext
     \/ part = "notice" /\ NoticeNext
     \/ part = "scenes" /\ SceneNext
     \/ part = "rules" /\ RulesNext
     \/ part = "power" /\ PowerNext
     \/ part = "keyboard" /\ KeyboardNext
     \/ part = "alerts" /\ AlertNext
     \/ part = "doctor" /\ DoctorNext
     \/ part = "session" /\ SessionNext
     \/ part = "package" /\ PackageNext
  /\ part # "archive" => UNCHANGED archiveVars
  /\ part # "notice" => UNCHANGED noticeVars
  /\ part # "scenes" => UNCHANGED sceneVars
  /\ part # "rules" => UNCHANGED ruleVars
  /\ part # "power" => UNCHANGED powerVars
  /\ part # "keyboard" => UNCHANGED keyboardVars
  /\ part # "alerts" => UNCHANGED alertVars
  /\ part # "doctor" => UNCHANGED doctorVars
  /\ part # "session" => UNCHANGED sessionVars
  /\ part # "package" => UNCHANGED packageVars

DesktopSpec == DesktopInit /\ [][DesktopNext]_desktopVars

\* The state of every part has its type.
DesktopTypeOK ==
  /\ ArchiveTypeOK /\ NoticeTypeOK /\ SceneTypeOK /\ RuleTypeOK /\ PowerTypeOK
  /\ KeyboardTypeOK /\ AlertTypeOK /\ DoctorTypeOK /\ SessionTypeOK /\ PackageTypeOK
=============================================================================
