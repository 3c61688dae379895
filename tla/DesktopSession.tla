--------------------------- MODULE DesktopSession ---------------------------
(***************************************************************************)
(* The life of the application's process: its window, the indicator that   *)
(* lets the window be hidden instead of closed (tray.py), and the language *)
(* chosen for the next start (i18n.py, ui_language.py), with the restart   *)
(* that applies it.  The session bus and the watcher of the indicators     *)
(* come and go on their own, a save can fail, and the process can be       *)
(* killed in it or lose power after it.                                    *)
(***************************************************************************)
EXTENDS Integers

CONSTANTS
  NoLanguage,        \* None for a language
  Languages,         \* LANGUAGES
  SystemLanguage,    \* what system_language returns
  Overrides,         \* bound: what LEGION_CONTROL_LANGUAGE is set to
  MaxSessionFaults   \* bound: saves that fail, kills and losses of power

ASSUME SessionAssumption ==
  /\ NoLanguage \notin Languages
  /\ SystemLanguage \in Languages
  /\ Overrides \subseteq Languages \cup {NoLanguage}
  /\ MaxSessionFaults \in Nat

VARIABLES
  frame,            \* the window of this process
  tray,             \* the life of the exported item
  trayAvailable,    \* _available
  watcher,          \* a watcher is on the bus
  languageFile,     \* language.json
  override,         \* LEGION_CONTROL_LANGUAGE
  activeLanguage,   \* _ACTIVE_LANGUAGE
  languageRow,      \* the row's selection
  restartRow,       \* the offer to restart is visible
  saidLanguage,     \* the last language reported as saved
  maybeLanguage,    \* languages whose save failed, or was cut off, since
  powerLost,        \* power was lost after the last save
  sessionFaults     \* faults so far

languageVars == <<languageFile, override, activeLanguage, languageRow, restartRow,
                  saidLanguage, maybeLanguage, powerLost, sessionFaults>>
trayVars == <<tray, trayAvailable>>
sessionVars == <<frame, trayVars, watcher, languageVars>>

SessionTypeOK ==
  /\ frame \in {"ended", "starting", "shown", "hidden"}
  /\ tray \in {"stopped", "owning", "exported"}
  /\ trayAvailable \in BOOLEAN /\ watcher \in BOOLEAN
  /\ {languageFile, override, saidLanguage} \subseteq Languages \cup {NoLanguage}
  /\ {activeLanguage, languageRow} \subseteq Languages
  /\ restartRow \in BOOLEAN
  /\ maybeLanguage \subseteq Languages
  /\ powerLost \in BOOLEAN
  /\ sessionFaults \in 0..MaxSessionFaults

SessionFault == sessionFaults < MaxSessionFaults /\ sessionFaults' = sessionFaults + 1

-----------------------------------------------------------------------------
(* The process *)

\* configure_startup_language
StartupLanguage(environment) ==
  IF environment # NoLanguage THEN environment
  ELSE IF languageFile # NoLanguage THEN languageFile ELSE SystemLanguage

\* The constructor of the application and do_startup; the row is built with
\* the window, in the language of the process.
Starts(environment) ==
  /\ frame' = "starting"
  /\ tray' = "owning" /\ trayAvailable' = FALSE
  /\ override' = environment
  /\ activeLanguage' = StartupLanguage(environment)
  /\ languageRow' = activeLanguage' /\ restartRow' = FALSE

Lasting == <<watcher, languageFile, saidLanguage, maybeLanguage, powerLost, sessionFaults>>

Launch(environment) ==
  /\ frame = "ended"
  /\ Starts(environment)
  /\ UNCHANGED Lasting

\* do_activate, at the start, from another launch or from the indicator.
Activate ==
  /\ frame # "ended"
  /\ frame' = "shown"
  /\ UNCHANGED <<trayVars, watcher, languageVars>>

Ends ==
  /\ frame' = "ended"
  /\ tray' = "stopped" /\ trayAvailable' = FALSE
  /\ UNCHANGED <<override, activeLanguage, languageRow, restartRow>>

\* _on_close_request: without a window left the application quits, and
\* do_shutdown stops the indicator.
Close ==
  /\ frame = "shown"
  /\ IF trayAvailable
     THEN /\ frame' = "hidden"
          /\ UNCHANGED <<trayVars, override, activeLanguage, languageRow, restartRow>>
     ELSE Ends
  /\ UNCHANGED Lasting

\* _on_restart_clicked: after its shutdown main replaces the process, in the
\* environment it had.
RestartNow ==
  /\ frame = "shown" /\ restartRow
  /\ Starts(override)
  /\ UNCHANGED Lasting

-----------------------------------------------------------------------------
(* The indicator *)

\* _on_bus_acquired: the call to the watcher fails without one, or in time.
BusAcquired ==
  /\ tray = "owning"
  /\ tray' = "exported"
  /\ \E answers \in BOOLEAN :
       trayAvailable' = (watcher /\ answers)
  /\ UNCHANGED <<frame, watcher, languageVars>>

\* _on_name_lost, and a signal of update_status that cannot be sent.
BusLost ==
  /\ tray # "stopped"
  /\ trayAvailable' = FALSE
  /\ UNCHANGED <<frame, tray, watcher, languageVars>>

WatcherComesOrGoes ==
  /\ watcher' = ~watcher
  /\ UNCHANGED <<frame, trayVars, languageVars>>

-----------------------------------------------------------------------------
(* The language *)

Unsure(code) == SessionFault /\ maybeLanguage' = maybeLanguage \cup {code}

\* Slip: the file is rewritten in place, and a kill leaves it empty.
KilledSaving_InPlace(code) ==
  /\ frame = "shown" /\ code # languageRow
  /\ Unsure(code)
  /\ languageFile' = NoLanguage
  /\ Ends
  /\ UNCHANGED <<watcher, saidLanguage, powerLost>>

\* _on_language_changed; the row stays as it was moved when the save fails,
\* which it does before the replacement of the file.
ChooseLanguage(code) ==
  /\ frame = "shown" /\ code # languageRow
  /\ languageRow' = code
  /\ \/ /\ languageFile' = code /\ saidLanguage' = code
        /\ maybeLanguage' = {} /\ powerLost' = FALSE
        /\ restartRow' = TRUE
        /\ UNCHANGED sessionFaults
     \/ /\ SessionFault
        /\ UNCHANGED <<languageFile, saidLanguage, maybeLanguage, powerLost, restartRow>>
  /\ UNCHANGED <<frame, trayVars, watcher, override, activeLanguage>>

\* LanguageStore.save is cut off: before the replacement, or after it.
KilledSaving(code) ==
  /\ frame = "shown" /\ code # languageRow
  /\ Unsure(code)
  /\ languageFile' \in {languageFile, code}
  /\ Ends
  /\ UNCHANGED <<watcher, saidLanguage, powerLost>>

\* Nothing is forced to the disk: the file can be empty after a loss of power.
PowerLoss ==
  /\ SessionFault
  /\ languageFile' \in {languageFile, NoLanguage} /\ powerLost' = TRUE
  /\ Ends
  /\ watcher' = FALSE
  /\ UNCHANGED <<saidLanguage, maybeLanguage>>

SessionInit ==
  /\ frame = "ended"
  /\ tray = "stopped" /\ trayAvailable = FALSE /\ watcher = FALSE
  /\ languageFile = NoLanguage /\ override = NoLanguage
  /\ activeLanguage = SystemLanguage /\ languageRow = SystemLanguage
  /\ restartRow = FALSE
  /\ saidLanguage = NoLanguage /\ maybeLanguage = {}
  /\ powerLost = FALSE /\ sessionFaults = 0

SessionNext ==
  \/ \E environment \in Overrides : Launch(environment)
  \/ Activate \/ Close \/ RestartNow
  \/ BusAcquired \/ BusLost \/ WatcherComesOrGoes
  \/ \E code \in Languages : ChooseLanguage(code) \/ KilledSaving(code)
  \/ PowerLoss

SessionSpec == SessionInit /\ [][SessionNext]_sessionVars

-----------------------------------------------------------------------------

\* A process speaks the language that was last reported as saved, or one whose
\* save was cut off since, through failures, kills and restarts, unless the
\* environment says another or power was lost (LanguageStore and
\* configure_startup_language).
LanguageFollows ==
  [][frame' = "starting" /\ override' = NoLanguage /\ saidLanguage # NoLanguage /\ ~powerLost
       => activeLanguage' \in {saidLanguage} \cup maybeLanguage]_sessionVars
=============================================================================
