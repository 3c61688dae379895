--------------------------- MODULE ThermalLevels ---------------------------
(***************************************************************************)
(* How hot the readings of a status are taken to be: by the alerts of the  *)
(* window (alerts.py) and by the Doctor report (doctor.py).  Each has the  *)
(* limits as literals of its own.                                          *)
(***************************************************************************)
EXTENDS Integers

CONSTANTS
  NoReading,      \* None for a temperature
  Temperatures    \* bound: the temperatures that are read

ASSUME LevelsAssumption ==
  /\ NoReading \notin Int
  /\ Temperatures \subseteq Int /\ Temperatures # {}

Readouts == Temperatures \cup {NoReading}

\* _hottest_temperature
Hottest(cpu, gpu) ==
  LET known == {cpu, gpu} \ {NoReading}
  IN  IF known = {} THEN NoReading ELSE CHOOSE t \in known : \A u \in known : u <= t

ElevatedTemperature == 80
CriticalTemperature == 92

\* _thermal_level
Level(t) ==
  IF t = NoReading THEN "unknown"
  ELSE IF t >= CriticalTemperature THEN "critical"
  ELSE IF t >= ElevatedTemperature THEN "elevated"
  ELSE "normal"

\* _severity
Rank == [unknown |-> 0, normal |-> 1, elevated |-> 2, critical |-> 3]

\* _thermal_severity of the Doctor report
ThermalSeverity(t) ==
  IF t = NoReading THEN "warning"
  ELSE IF t >= 92 THEN "error" ELSE IF t >= 80 THEN "warning" ELSE "ok"
=============================================================================
