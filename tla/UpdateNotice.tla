---------------------------- MODULE UpdateNotice ----------------------------
(***************************************************************************)
(* The release notice: updates.py, the switch and the row of the Doctor    *)
(* page (ui_doctor.py), and the version line of its report.  A check runs  *)
(* in a thread with the configuration of the moment it was started, and    *)
(* its answer comes back in a callback of the main loop, while the user    *)
(* can change the switch and any save of the file can fail.                *)
(*                                                                         *)
(* A version is its rank; 0 is the empty version.  The clock counts in     *)
(* fractions of the check interval.                                        *)
(***************************************************************************)
EXTENDS Integers

CONSTANTS
  CheckInterval,    \* CHECK_INTERVAL_SECONDS
  Installed,        \* __version__
  Released,         \* the versions that may be published one after the other
  LastCheckTime,    \* bound: the clock
  MaxNoticeFaults   \* bound: saves and loads that fail

ASSUME NoticeAssumption ==
  /\ CheckInterval \in Nat \ {0}
  /\ Installed \in Nat \ {0} /\ Released \subseteq Nat \ {0}
  /\ LastCheckTime \in Nat /\ LastCheckTime >= CheckInterval
  /\ MaxNoticeFaults \in Nat

VARIABLES
  today,         \* the clock
  published,     \* the highest version on the releases page
  saved,         \* updates.json
  conf,          \* _update_configuration
  switch,        \* the switch row
  check,         \* the check in flight
  label,         \* what the row says
  reported,      \* the version the report's probe found
  probed,        \* the probe has been read
  chosen,        \* the last setting of the switch reported as saved
  crossed,       \* the switch was moved during a check of this process
  unsaved,       \* a save or a load of this process failed
  asked,         \* when the network was last asked, by any process
  fate,          \* what became of that request
  noticeFaults   \* failed saves and loads so far

noticeVars == <<today, published, saved, conf, switch, check, label, reported, probed,
                chosen, crossed, unsaved, asked, fate, noticeFaults>>

CheckTimes == 0..LastCheckTime
Versions == Released \cup {0}
Configs == [enabled : BOOLEAN, checked : CheckTimes, seen : Versions]
DefaultConfig == [enabled |-> FALSE, checked |-> 0, seen |-> 0]

Labels == {"disabled", "asking", "unknown", "current", "available"}

\* from: the configuration the thread was given; moment: the time it took
\* before it asked the network; updated and result: what it returns.
Checks == [phase : {"none", "running", "asking", "done"}, from : Configs, updated : Configs,
           result : Labels, moment : CheckTimes]
NoCheck == [phase |-> "none", from |-> DefaultConfig, updated |-> DefaultConfig,
            result |-> "disabled", moment |-> 0]

\* A request is sent; it fails or is answered; its answer is reported as saved;
\* or its process ends before either, or cannot read what was saved.
Fates == {"none", "sent", "failed", "answered", "saved", "lost"}

NoticeTypeOK ==
  /\ today \in CheckTimes
  /\ published \in Versions
  /\ saved \in Configs /\ conf \in Configs
  /\ switch \in BOOLEAN /\ chosen \in BOOLEAN
  /\ check \in Checks
  /\ label \in Labels
  /\ reported \in Versions /\ probed \in BOOLEAN
  /\ crossed \in BOOLEAN /\ unsaved \in BOOLEAN
  /\ asked \in CheckTimes \cup {-1} /\ fate \in Fates
  /\ noticeFaults \in 0..MaxNoticeFaults

-----------------------------------------------------------------------------

Compared(version) == IF version > Installed THEN "available" ELSE "current"

Misses == noticeFaults < MaxNoticeFaults /\ noticeFaults' = noticeFaults + 1

\* A save fails before the replacement, or after it in the directory sync.
SaveFails(c) == Misses /\ unsaved' = TRUE /\ saved' \in {saved, c} /\ UNCHANGED fate

\* c carries the answer to the last request.
HasAnswer(c) == c.checked = asked /\ c.seen # 0

SaveWorks(c) ==
  /\ saved' = c
  /\ fate' = IF fate = "answered" /\ HasAnswer(c) THEN "saved" ELSE fate
  /\ UNCHANGED <<noticeFaults, unsaved>>

\* _start_update_check: one check at a time, and none when it is off.
StartCheck(c, labelElse) ==
  IF check.phase # "none" \/ ~c.enabled
  THEN label' = labelElse /\ UNCHANGED check
  ELSE label' = "asking" /\ check' = [NoCheck EXCEPT !.phase = "running", !.from = c]

MoveSwitch ==
  LET c == [conf EXCEPT !.enabled = ~switch]
  IN  /\ switch' = ~switch
      /\ crossed' = (crossed \/ check.phase # "none")
      /\ \/ /\ SaveWorks(c)
            /\ conf' = c /\ chosen' = c.enabled
            /\ StartCheck(c, IF c.enabled THEN label ELSE "disabled")
         \/ /\ SaveFails(c)
            /\ UNCHANGED <<conf, chosen, check, label>>
      /\ UNCHANGED <<today, published, reported, probed, asked>>

\* check_for_update, in the thread: the stored answer while it is fresh, the
\* network otherwise.
Fresh(c) == today - c.checked < CheckInterval /\ c.seen # 0

AnswerStored ==
  /\ check.phase = "running" /\ Fresh(check.from)
  /\ check' = [check EXCEPT !.phase = "done", !.result = Compared(check.from.seen),
                             !.updated = check.from]
  /\ UNCHANGED <<today, published, saved, conf, switch, label, reported, probed, chosen,
                 crossed, unsaved, asked, fate, noticeFaults>>

AskNetwork ==
  /\ check.phase = "running" /\ ~Fresh(check.from)
  /\ check' = [check EXCEPT !.phase = "asking", !.moment = today]
  /\ asked' = today /\ fate' = "sent"
  /\ UNCHANGED <<today, published, saved, conf, switch, label, reported, probed, chosen,
                 crossed, unsaved, noticeFaults>>

\* Every failure is the answer "unknown", with the configuration as it was.
RequestFails ==
  /\ check.phase = "asking"
  /\ check' = [check EXCEPT !.phase = "done", !.result = "unknown", !.updated = check.from]
  /\ fate' = "failed"
  /\ UNCHANGED <<today, published, saved, conf, switch, label, reported, probed, chosen,
                 crossed, unsaved, asked, noticeFaults>>

\* Slip: the configuration to keep is built anew, without the switch.
RequestAnswered_Rebuilt ==
  /\ check.phase = "asking" /\ published # 0
  /\ check' = [check EXCEPT !.phase = "done", !.result = Compared(published),
                 !.updated = [DefaultConfig EXCEPT !.checked = check.moment, !.seen = published]]
  /\ fate' = "answered"
  /\ UNCHANGED <<today, published, saved, conf, switch, label, reported, probed, chosen,
                 crossed, unsaved, asked, noticeFaults>>

RequestAnswered ==
  /\ check.phase = "asking" /\ published # 0
  /\ check' = [check EXCEPT !.phase = "done", !.result = Compared(published),
                 !.updated = [check.from EXCEPT !.checked = check.moment, !.seen = published]]
  /\ fate' = "answered"
  /\ UNCHANGED <<today, published, saved, conf, switch, label, reported, probed, chosen,
                 crossed, unsaved, asked, noticeFaults>>

\* Slip: the answer is saved and shown, and not kept.
FinishCheck_NotKept ==
  /\ check.phase = "done"
  /\ check' = NoCheck
  /\ label' = check.result
  /\ SaveWorks(check.updated) \/ SaveFails(check.updated)
  /\ UNCHANGED <<conf, today, published, switch, reported, probed, chosen, crossed, asked>>

\* _finish_update_check: what the thread returns is the configuration.
FinishCheck ==
  /\ check.phase = "done"
  /\ check' = NoCheck
  /\ label' = check.result
  /\ conf' = check.updated
  /\ IF check.updated # conf
     THEN SaveWorks(check.updated) \/ SaveFails(check.updated)
     ELSE UNCHANGED <<saved, fate, noticeFaults, unsaved>>
  /\ UNCHANGED <<today, published, switch, reported, probed, chosen, crossed, asked>>

\* _saved_release_notice, read by the probe.
Notice(c) == IF c.enabled THEN c.seen ELSE 0

\* The first status reads the probe; the user can have it read again.
FirstStatus ==
  /\ ~probed
  /\ probed' = TRUE
  /\ reported' = Notice(saved)
  /\ UNCHANGED <<today, published, saved, conf, switch, check, label, chosen, crossed,
                 unsaved, asked, fate, noticeFaults>>

Recheck ==
  /\ probed' = TRUE
  /\ reported' = Notice(saved)
  /\ StartCheck(conf, label)
  /\ UNCHANGED <<today, published, saved, conf, switch, chosen, crossed, unsaved, asked,
                 fate, noticeFaults>>

\* The process ends, its thread with it, and the page is built again from the
\* file, or from the defaults when that cannot be read.
RestartPage ==
  /\ \/ /\ conf' = saved /\ unsaved' = FALSE /\ UNCHANGED noticeFaults
        /\ fate' = IF fate \in {"sent", "answered"} THEN "lost" ELSE fate
     \/ /\ conf' = DefaultConfig /\ unsaved' = TRUE /\ Misses
        /\ fate' = IF fate \in {"sent", "answered", "saved"} THEN "lost" ELSE fate
  /\ switch' = conf'.enabled
  /\ IF conf'.enabled
     THEN label' = "asking" /\ check' = [NoCheck EXCEPT !.phase = "running", !.from = conf']
     ELSE label' = "disabled" /\ check' = NoCheck
  /\ probed' = FALSE /\ reported' = 0
  /\ crossed' = FALSE
  /\ chosen' = saved.enabled
  /\ UNCHANGED <<today, published, saved, asked>>

Publish ==
  /\ \E v \in Released : v > published /\ published' = v
  /\ UNCHANGED <<today, saved, conf, switch, check, label, reported, probed, chosen,
                 crossed, unsaved, asked, fate, noticeFaults>>

DayPasses ==
  /\ today < LastCheckTime
  /\ today' = today + 1
  /\ UNCHANGED <<published, saved, conf, switch, check, label, reported, probed, chosen,
                 crossed, unsaved, asked, fate, noticeFaults>>

NoticeInit ==
  /\ today = CheckInterval
  /\ published \in Versions
  /\ saved = DefaultConfig /\ conf = DefaultConfig
  /\ switch = FALSE /\ chosen = FALSE
  /\ check = NoCheck /\ label = "disabled"
  /\ reported = 0 /\ probed = FALSE
  /\ crossed = FALSE /\ unsaved = FALSE
  /\ asked = -1 /\ fate = "none" /\ noticeFaults = 0

NoticeNext ==
  \/ MoveSwitch \/ AnswerStored \/ AskNetwork \/ RequestFails \/ RequestAnswered
  \/ FinishCheck \/ FirstStatus \/ Recheck \/ RestartPage \/ Publish \/ DayPasses

NoticeSpec == NoticeInit /\ [][NoticeNext]_noticeVars

-----------------------------------------------------------------------------

\* The switch is what the user last chose and was told is kept: window, memory
\* and file agree on it, and so does the row once no check is out, unless a
\* save or a load failed or the switch was moved while a check was out
\* (_on_update_switch_changed against _finish_update_check).
ChoiceKept ==
  (~crossed /\ ~unsaved) =>
    /\ switch = chosen /\ conf.enabled = chosen /\ saved.enabled = chosen
    /\ check.phase = "none" => (label = "disabled" <=> ~chosen)

\* The network is asked: the step in which a request leaves.
Asking == check.phase = "running" /\ check'.phase = "asking"

\* An answer is not asked for again: whatever is moved, rechecked or restarted
\* between, a request follows another within the interval only when that one
\* failed, or its answer was lost: its process ended before the answer was
\* reported as saved, or a later one could not read the file
\* (check_for_update and what its callers keep of it).
AnswerNotAskedAgain ==
  [][Asking => \/ fate \in {"none", "failed", "lost"}
               \/ today - asked >= CheckInterval]_noticeVars

\* "one HTTPS request per day ... whose every failure mode is the single answer
\* unknown. It is never retried" (docs/RELIABILITY.md:18-20): after a request
\* that failed the next one is an interval later.
FailedRequestNotRetried ==
  [][Asking => fate # "failed" \/ today - asked >= CheckInterval]_noticeVars

\* "a failed request never rewrites the stored state" (check_for_update).
FailedRequestChangesNothing ==
  [][(check.phase = "done" /\ check'.phase = "none" /\ check.result = "unknown") =>
       saved' = saved]_noticeVars
=============================================================================
