--------------------------- MODULE ThermalAlerts ---------------------------
(***************************************************************************)
(* The alerts of the window (alerts.py, MainWindow._observe_thermal_alert):*)
(* a notice when a status is hotter than the one before it, and again      *)
(* after the cooldown.  Statuses come when polls succeed, so any time can  *)
(* pass between two, and a sensor can be missing from any of them.         *)
(***************************************************************************)
EXTENDS ThermalLevels

CONSTANTS
  Cooldown,      \* ALERT_COOLDOWN_SECONDS, in units of the model's clock
  LastMoment     \* bound: the clock

ASSUME AlertAssumption == Cooldown \in Nat /\ LastMoment \in Nat

VARIABLES
  moment,        \* time.monotonic()
  observed,      \* _level
  heat,          \* the level of the last status
  lastNotice,    \* _last_notice_at; -1 for None
  noticedLevel,  \* the level the last notice named
  roseAt         \* when a status was last hotter than the one before

alertVars == <<moment, observed, heat, lastNotice, noticedLevel, roseAt>>

Levels == {"unknown", "normal", "elevated", "critical"}
Hot(level) == Rank[level] >= 2

AlertTypeOK ==
  /\ moment \in 0..LastMoment
  /\ observed \in Levels /\ heat \in Levels
  /\ lastNotice \in -1..LastMoment
  /\ noticedLevel \in Levels
  /\ roseAt \in -1..LastMoment

Escalated(level) == Rank[level] > Rank[observed]
CooledDown == lastNotice = -1 \/ moment - lastNotice >= Cooldown

\* Slip: the level is kept only when a notice is given.
Observe_Noticed(cpu, gpu) ==
  LET level == Level(Hottest(cpu, gpu))
      notice == Hot(level) /\ (Escalated(level) \/ CooledDown)
  IN  /\ observed' = IF notice THEN level ELSE observed
      /\ heat' = level
      /\ roseAt' = IF Hot(level) /\ Rank[level] > Rank[heat] THEN moment ELSE roseAt
      /\ IF notice
         THEN lastNotice' = moment /\ noticedLevel' = level
         ELSE UNCHANGED <<lastNotice, noticedLevel>>
      /\ UNCHANGED moment

\* observe, of one status.
Observe(cpu, gpu) ==
  LET level == Level(Hottest(cpu, gpu))
      notice == Hot(level) /\ (Escalated(level) \/ CooledDown)
  IN  /\ observed' = level
      /\ heat' = level
      /\ roseAt' = IF Hot(level) /\ Rank[level] > Rank[heat] THEN moment ELSE roseAt
      /\ IF notice
         THEN lastNotice' = moment /\ noticedLevel' = level
         ELSE UNCHANGED <<lastNotice, noticedLevel>>
      /\ UNCHANGED moment

MomentPasses ==
  /\ moment < LastMoment
  /\ moment' = moment + 1
  /\ UNCHANGED <<observed, heat, lastNotice, noticedLevel, roseAt>>

AlertInit ==
  /\ moment = 0 /\ observed = "unknown" /\ heat = "unknown"
  /\ lastNotice = -1 /\ noticedLevel = "unknown" /\ roseAt = -1

AlertNext ==
  \/ \E cpu, gpu \in Readouts : Observe(cpu, gpu)
  \/ MomentPasses

AlertSpec == AlertInit /\ [][AlertNext]_alertVars

-----------------------------------------------------------------------------

\* While statuses say the machine is hot the user has been told: since it
\* last got hotter, at least as hot as it is; whatever it did
\* before and however often a sensor was missing (ThermalAlertController).
HeatIsTold ==
  Hot(heat) =>
    /\ lastNotice >= roseAt /\ lastNotice # -1
    /\ Rank[noticedLevel] >= Rank[heat]
=============================================================================
