--------------------------- MODULE PackageScripts ---------------------------
(***************************************************************************)
(* The maintainer scripts of the package (packaging/debian), as dpkg runs  *)
(* them: prerm before the files are replaced or removed, postinst after.   *)
(* They share the fan service with the helper without taking its lock, so  *)
(* the user can act between any two of their steps; each of their commands *)
(* may fail without stopping them, and they and dpkg can be killed.  What  *)
(* must survive is whether the service ran.                                *)
(***************************************************************************)
EXTENDS Integers

CONSTANT MaxPackageFaults   \* bound: commands that fail and kills

ASSUME PackageAssumption == MaxPackageFaults \in Nat

VARIABLES
  package,        \* what dpkg knows; half: its files are whole, its scripts are not done
  script,         \* the next step of the scripts
  job,            \* what prerm was called for
  marker,         \* RESTART_MARKER, in /run
  unit,           \* legion-control-fand.service
  fans,           \* who drives the fans
  manual,         \* the policy file asks for manual control
  owed,           \* the service ran when the upgrade began, and nothing has ended it but the scripts
  disturbed,      \* during this removal: manual control was asked for, or the
                  \* service was not stopped, or neither restoration worked
  packageFaults   \* faults so far

packageVars == <<package, script, job, marker, unit, fans, manual, owed, disturbed,
                 packageFaults>>

Units == [enabled : BOOLEAN, state : {"stopped", "running", "waiting"}]
Off == [enabled |-> FALSE, state |-> "stopped"]
On == [enabled |-> TRUE, state |-> "running"]

Prerm == {"mark", "disable", "hand back"}
Postinst == {"enable", "unmark"}

PackageTypeOK ==
  /\ package \in {"configured", "half", "unpacking", "removed"}
  /\ script \in Prerm \cup {"files"} \cup Postinst \cup {"none"}
  /\ job \in {"upgrade", "failed-upgrade", "remove"}
  /\ marker \in BOOLEAN /\ manual \in BOOLEAN
  /\ unit \in Units
  /\ fans \in {"firmware", "daemon"}
  /\ owed \in BOOLEAN /\ disturbed \in BOOLEAN
  /\ packageFaults \in 0..MaxPackageFaults

PackageFault == packageFaults < MaxPackageFaults /\ packageFaults' = packageFaults + 1

-----------------------------------------------------------------------------
(* dpkg *)

BeginUpgrade ==
  /\ script = "none" /\ package \in {"configured", "half"}
  /\ script' = "mark" /\ job' = "upgrade"
  /\ owed' = (owed \/ unit.state = "running")
  /\ UNCHANGED <<package, marker, unit, fans, manual, disturbed, packageFaults>>

BeginRemoval ==
  /\ script = "none" /\ package \in {"configured", "half"}
  /\ script' = "mark" /\ job' = "remove"
  /\ owed' = FALSE /\ disturbed' = FALSE
  /\ UNCHANGED <<package, marker, unit, fans, manual, packageFaults>>

\* A new installation, or the end of one that was interrupted.
Configure ==
  /\ script = "none" /\ package \in {"half", "removed"}
  /\ package' = "half" /\ script' = "enable" /\ job' = "upgrade"
  /\ UNCHANGED <<marker, unit, fans, manual, owed, disturbed, packageFaults>>

ResumeFiles ==
  /\ script = "none" /\ package = "unpacking"
  /\ script' = "files"
  /\ UNCHANGED <<package, job, marker, unit, fans, manual, owed, disturbed, packageFaults>>

\* An upgrade that cannot be unpacked is aborted, and runs the old postinst.
Files ==
  /\ script = "files"
  /\ \/ /\ job = "remove"
        /\ package' = "removed" /\ script' = "none"
        /\ UNCHANGED packageFaults
     \/ /\ job # "remove"
        /\ package' = "half" /\ script' = "enable"
        /\ UNCHANGED packageFaults \/ PackageFault
  /\ UNCHANGED <<job, marker, unit, fans, manual, owed, disturbed>>

\* dpkg is killed, or prerm alone: then the new one is run for a failed upgrade.
KillScripts ==
  /\ script # "none" /\ PackageFault
  /\ \/ /\ script' = "none"
        /\ package' = IF script = "files" THEN "unpacking" ELSE "half"
        /\ UNCHANGED <<job, owed>>
     \/ /\ script \in Prerm /\ job = "upgrade"
        /\ script' = "mark" /\ job' = "failed-upgrade"
        /\ owed' = FALSE
        /\ UNCHANGED package
  /\ UNCHANGED <<marker, unit, fans, manual, disturbed>>

-----------------------------------------------------------------------------
(* prerm *)

\* Slip: an upgrade notes afresh whether the service runs.
Mark_Afresh ==
  /\ script = "mark" /\ script' = "disable"
  /\ marker' = (job = "upgrade" /\ unit.state = "running")
  /\ UNCHANGED <<package, job, unit, fans, manual, owed, disturbed, packageFaults>>

Mark ==
  /\ script = "mark" /\ script' = "disable"
  /\ \/ /\ job = "upgrade"
        /\ marker' = (marker \/ unit.state = "running")
        /\ UNCHANGED <<owed, packageFaults>>
     \/ /\ job = "upgrade" /\ unit.state = "running" /\ PackageFault
        /\ owed' = FALSE
        /\ UNCHANGED marker
     \/ /\ job # "upgrade"
        /\ marker' = FALSE
        /\ UNCHANGED <<owed, packageFaults>>
  /\ UNCHANGED <<package, job, unit, fans, manual, disturbed>>

\* systemctl disable --now, and the unit's ExecStopPost; or systemctl fails.
Disable ==
  /\ script = "disable" /\ script' = "hand back"
  /\ \/ /\ unit' = Off
        /\ \/ fans' = "firmware" /\ UNCHANGED packageFaults
           \/ UNCHANGED fans /\ PackageFault
        /\ UNCHANGED disturbed
     \/ /\ PackageFault
        /\ disturbed' = TRUE
        /\ UNCHANGED <<unit, fans>>
  /\ UNCHANGED <<package, job, marker, manual, owed>>

\* Slip: the service is taken to have handed the fans back.
HandBack_Trusted ==
  /\ script = "hand back" /\ script' = "files"
  /\ UNCHANGED <<package, job, marker, unit, fans, manual, owed, disturbed, packageFaults>>

\* legion-control-fand --restore-auto
HandBack ==
  /\ script = "hand back" /\ script' = "files"
  /\ \/ fans' = "firmware" /\ UNCHANGED <<disturbed, packageFaults>>
     \/ /\ PackageFault
        /\ disturbed' = (disturbed \/ fans = "daemon")
        /\ UNCHANGED fans
  /\ UNCHANGED <<package, job, marker, unit, manual, owed>>

(* postinst *)

\* systemctl enable --now; a daemon with an automatic policy ends at once.
Enable ==
  /\ script = "enable"
  /\ \/ /\ marker /\ script' = "unmark"
        /\ \/ /\ unit' = [enabled |-> TRUE, state |-> IF manual THEN "running" ELSE "stopped"]
              /\ UNCHANGED <<owed, packageFaults>>
           \/ /\ PackageFault
              /\ owed' = FALSE
              /\ UNCHANGED unit
        /\ UNCHANGED package
     \/ /\ ~marker
        /\ script' = "none" /\ package' = "configured"
        /\ UNCHANGED <<unit, owed, packageFaults>>
  /\ UNCHANGED <<job, marker, fans, manual, disturbed>>

Unmark ==
  /\ script = "unmark" /\ script' = "none"
  /\ package' = "configured" /\ marker' = FALSE
  /\ UNCHANGED <<job, unit, fans, manual, owed, disturbed, packageFaults>>

-----------------------------------------------------------------------------
(* The service and the user *)

Tick ==
  /\ unit.state = "running" /\ fans' = "daemon"
  /\ UNCHANGED <<package, script, job, marker, unit, manual, owed, disturbed, packageFaults>>

\* The daemon fails and is started again after a while, or not.
DaemonFails ==
  /\ unit.state = "running" /\ PackageFault
  /\ \E state \in {"waiting", "stopped"} : unit' = [unit EXCEPT !.state = state]
  /\ fans' = "firmware" /\ owed' = FALSE
  /\ UNCHANGED <<package, script, job, marker, manual, disturbed>>

StartsAgain ==
  /\ unit.state = "waiting"
  /\ unit' = [unit EXCEPT !.state = "running"]
  /\ UNCHANGED <<package, script, job, marker, fans, manual, owed, disturbed, packageFaults>>

\* The helper, as long as it is installed.
AskManual ==
  /\ package # "removed"
  /\ manual' = TRUE /\ unit' = On
  /\ disturbed' = TRUE
  /\ UNCHANGED <<package, script, job, marker, fans, owed, packageFaults>>

AskAutomatic ==
  /\ package # "removed"
  /\ manual' = FALSE /\ unit' = Off /\ fans' = "firmware"
  /\ owed' = FALSE
  /\ UNCHANGED <<package, script, job, marker, disturbed, packageFaults>>

\* /run is emptied; what is enabled starts.
RebootMachine ==
  /\ PackageFault
  /\ marker' = FALSE /\ script' = "none"
  /\ package' = IF script = "none" THEN package
                ELSE IF script = "files" THEN "unpacking" ELSE "half"
  /\ unit' = [unit EXCEPT !.state = IF unit.enabled /\ manual THEN "running" ELSE "stopped"]
  /\ fans' = "firmware"
  /\ owed' = (owed /\ package = "configured" /\ script = "none")
  /\ UNCHANGED <<job, manual, disturbed>>

PackageInit ==
  /\ package = "configured" /\ script = "none" /\ job = "upgrade" /\ marker = FALSE
  /\ manual \in BOOLEAN
  /\ unit = IF manual THEN On ELSE Off
  /\ fans = "firmware"
  /\ owed = FALSE /\ disturbed = FALSE /\ packageFaults = 0

PackageNext ==
  \/ BeginUpgrade \/ BeginRemoval \/ Configure \/ ResumeFiles \/ Files \/ KillScripts
  \/ Mark \/ Disable \/ HandBack \/ Enable \/ Unmark
  \/ Tick \/ DaemonFails \/ StartsAgain \/ AskManual \/ AskAutomatic \/ RebootMachine

PackageSpec == PackageInit /\ [][PackageNext]_packageVars

-----------------------------------------------------------------------------

\* "a future upgrade records whether the fan daemon was active, stops/restores
\* it during replacement, then re-enables it after configuration"
\* (docs/RELIABILITY.md): also when dpkg was killed on the way and tried again,
\* the upgrade was aborted, or the files could not be unpacked; unless a
\* command failed, prerm alone was killed, or the machine was rebooted half-way.
ResumesAfterUpgrade ==
  (package = "configured" /\ script = "none" /\ owed) => unit = On

\* "Package removal stops the daemon and attempts restoration before files
\* disappear": the fans are the firmware's, nothing starts at the next boot and
\* no marker is left, through kills and retries, when one of the two
\* restorations failed too; unless systemctl failed or manual control was
\* asked for meanwhile.
RemovedIsFree ==
  (package = "removed" /\ ~disturbed) => unit = Off /\ fans = "firmware" /\ ~marker

\* What docs/RELIABILITY.md says of deployment.
DeploymentKept == ResumesAfterUpgrade /\ RemovedIsFree
=============================================================================
