----------------------------- MODULE LightingPage -----------------------------
(***************************************************************************)
(* Keyboard lighting, from the page to the LEDs.  LightingPage             *)
(* (legion_control/ui_lighting.py) writes by itself shortly after each     *)
(* edit, through DebouncedWrite; the window runs one mutation at a time    *)
(* and refuses the others; the root helper (helper.py, rgb.py) sends the   *)
(* reports to the keyboard and records what was accepted.  The scenes      *)
(* write the same keyboard behind the page's back, and so does Fn+Space.   *)
(***************************************************************************)
EXTENDS Naturals

CONSTANTS
  Configs,      \* lighting configurations
  MaxFaults,    \* bound on privileged writes that fail
  MaxCrashes,   \* bound on helpers killed, and on records not written
  MaxEffects,   \* bound on uses of Fn+Space
  MaxPlugs      \* bound on disconnections and reconnections of the keyboard

None == "none"      \* Python's None, and no record
Other == "other"    \* lighting the program did not send completely

ASSUME ConfigsAssumption == Configs # {} /\ Configs \cap {None, Other} = {}
ASSUME BudgetAssumption ==
  MaxFaults \in Nat /\ MaxCrashes \in Nat /\ MaxEffects \in Nat /\ MaxPlugs \in Nat

VARIABLES
  page,       \* current_configuration: the page's controls
  available,  \* _available, from the last status
  sensitive,  \* the controls take edits; they do until a first status comes
  written,    \* _written: the configuration sent last, None after a failure
  timer,      \* _timeout_id: the write is due
  pending,    \* an edit has not been sent yet
  inFlight,   \* in_flight
  failed,     \* failed
  mutation,   \* the window's mutation: who started it and with which lighting
  keyboard,   \* what the LEDs show
  stored,     \* rgb-config.json, None when there is none
  plugged,    \* the keyboard is there
  faults, crashes, effects, plugs   \* what the environment has already done

writeVars == <<written, timer, pending, inFlight, failed>>
machine == <<keyboard, stored, plugged>>
budgets == <<faults, crashes, effects, plugs>>
vars == <<page, available, sensitive, writeVars, mutation, machine, budgets>>

Idle == [owner |-> "nobody", lighting |-> None]
Mutations ==
  {Idle} \cup [owner : {"page", "scene"}, lighting : Configs]
         \cup [owner : {"other"}, lighting : {None}]

TypeOK ==
  /\ page \in Configs
  /\ available \in BOOLEAN /\ sensitive \in BOOLEAN
  /\ written \in Configs \cup {None}
  /\ timer \in BOOLEAN /\ pending \in BOOLEAN
  /\ inFlight \in BOOLEAN /\ failed \in BOOLEAN
  /\ mutation \in Mutations
  /\ keyboard \in Configs \cup {Other}
  /\ stored \in Configs \cup {None}
  /\ plugged \in BOOLEAN
  /\ faults \in 0..MaxFaults /\ crashes \in 0..MaxCrashes
  /\ effects \in 0..MaxEffects /\ plugs \in 0..MaxPlugs

\* The page starts with the default configuration and knows nothing.
Init ==
  /\ page \in Configs
  /\ available = FALSE /\ sensitive = TRUE
  /\ written = None
  /\ timer = FALSE /\ pending = FALSE /\ inFlight = FALSE /\ failed = FALSE
  /\ mutation = Idle
  /\ keyboard \in Configs \cup {Other}
  /\ stored \in Configs \cup {None}
  /\ plugged = TRUE
  /\ faults = 0 /\ crashes = 0 /\ effects = 0 /\ plugs = 0

-----------------------------------------------------------------------------
(* DebouncedWrite *)

\* Slip: a failed write no longer protects the edit.
Settled_IgnoresFailure == ~pending /\ ~inFlight

Settled == ~pending /\ ~inFlight /\ ~failed

Schedule == pending' = TRUE /\ timer' = TRUE

\* failed_once, and what the page forgets about the rejected write.
WriteFailed ==
  /\ written' = None
  /\ inFlight' = FALSE
  /\ failed' = TRUE

\* A preset, a colour, the switch or the brightness.
Edit(c) ==
  /\ sensitive
  /\ page' = c
  /\ Schedule
  /\ UNCHANGED <<available, sensitive, written, inFlight, failed, mutation, machine, budgets>>

\* _perform_static_write declines: the keyboard is gone, or the configuration
\* is the one sent last.
Skip ==
  /\ ~available \/ page = written
  /\ UNCHANGED <<written, inFlight, failed, mutation>>

\* The window is busy: it refuses and calls the page's on_failure at once.
Refused ==
  /\ available /\ page # written
  /\ mutation # Idle
  /\ WriteFailed
  /\ UNCHANGED mutation

Send ==
  /\ available /\ page # written
  /\ mutation = Idle
  /\ mutation' = [owner |-> "page", lighting |-> page]
  /\ written' = page
  /\ inFlight' = TRUE
  /\ UNCHANGED failed

\* _fire: with a write in flight the edit waits for that write's end.
Fire ==
  /\ timer
  /\ timer' = FALSE
  /\ \/ inFlight /\ UNCHANGED <<pending, written, inFlight, failed, mutation>>
     \/ ~inFlight /\ pending' = FALSE /\ (Skip \/ Refused \/ Send)
  /\ UNCHANGED <<page, available, sensitive, machine, budgets>>

\* Slip: an edit made during the write is taken for written.
Succeeded_Forgets ==
  /\ inFlight' = FALSE
  /\ failed' = FALSE
  /\ pending' = FALSE
  /\ UNCHANGED <<timer, written>>

\* Slip: the edit stays pending, but nothing will send it.
Succeeded_NotRescheduled ==
  /\ inFlight' = FALSE
  /\ failed' = FALSE
  /\ UNCHANGED <<timer, pending, written>>

\* succeeded: an edit made during the write is scheduled again.
Succeeded ==
  /\ inFlight' = FALSE
  /\ failed' = FALSE
  /\ timer' = (timer \/ pending)
  /\ UNCHANGED <<pending, written>>

-----------------------------------------------------------------------------
(* The root helper: set_rgb_configuration *)

Fault == faults < MaxFaults /\ faults' = faults + 1 /\ UNCHANGED crashes
Crash == crashes < MaxCrashes /\ crashes' = crashes + 1 /\ UNCHANGED faults

\* Slip: the record of the lighting before is kept.
Rejected_KeepsRecord ==
  /\ keyboard' \in {keyboard, Other}
  /\ stored' = stored
  /\ Fault

\* A report was refused: the keyboard has none or some of them, and the record
\* is removed.
Rejected ==
  /\ keyboard' \in {keyboard, Other}
  /\ stored' = None
  /\ Fault

\* As before, and the record could not be removed for certain.
RejectedUncleared ==
  /\ keyboard' \in {keyboard, Other}
  /\ stored' \in {stored, None}
  /\ Crash

\* All reports were accepted, but the record was not saved for certain.
Unrecorded(c) ==
  /\ keyboard' = c
  /\ stored' \in {stored, c}
  /\ Crash

\* Nothing was started: no authorisation, the lock is taken, no keyboard.
NotStarted ==
  /\ UNCHANGED <<keyboard, stored>>
  /\ Fault \/ (~plugged /\ UNCHANGED <<faults, crashes>>)

\* The helper was killed between any two of its steps.
Killed(c) ==
  /\ keyboard' \in {keyboard, Other, c}
  /\ stored' = stored
  /\ Crash

WriteOk(c) ==
  plugged /\ keyboard' = c /\ stored' = c /\ UNCHANGED <<faults, crashes>>

WriteError(c) ==
  NotStarted
    \/ (plugged /\ (Rejected \/ RejectedUncleared \/ Unrecorded(c) \/ Killed(c)))

-----------------------------------------------------------------------------
(* The window *)

\* The page's mutation ends and its callback runs.
PageDone ==
  /\ mutation.owner = "page"
  /\ mutation' = Idle
  /\ \/ WriteOk(mutation.lighting) /\ Succeeded
     \/ WriteError(mutation.lighting) /\ WriteFailed /\ UNCHANGED <<timer, pending>>
  /\ UNCHANGED <<page, available, sensitive, plugged, effects, plugs>>

\* Another mutation starts: a scene of the user or of the automation, which
\* sends its lighting first, or a change that does not touch the keyboard.
OtherStarts ==
  /\ mutation = Idle
  /\ mutation' \in {m \in Mutations : m.owner \in {"scene", "other"}}
  /\ UNCHANGED <<page, available, sensitive, writeVars, machine, budgets>>

OtherDone ==
  /\ \/ mutation.owner = "scene" /\ (WriteOk(mutation.lighting) \/ WriteError(mutation.lighting))
     \/ mutation.owner = "other" /\ UNCHANGED <<keyboard, stored, faults, crashes>>
  /\ mutation' = Idle
  /\ UNCHANGED <<page, available, sensitive, writeVars, plugged, effects, plugs>>

\* Slip: a status that knows no configuration is loaded like any other.
Refresh_UnknownToo ==
  /\ mutation = Idle
  /\ available' = plugged /\ sensitive' = plugged
  /\ page' = IF Settled THEN stored ELSE page
  /\ UNCHANGED <<writeVars, mutation, machine, budgets>>

\* update_status with a status that is newer than every mutation: the window
\* drops the others.
Refresh ==
  /\ mutation = Idle
  /\ available' = plugged /\ sensitive' = plugged
  /\ page' = IF Settled /\ stored # None THEN stored ELSE page
  /\ UNCHANGED <<writeVars, mutation, machine, budgets>>

-----------------------------------------------------------------------------
(* The environment *)

\* Fn+Space selects another profile or effect of the firmware.
FnSpace ==
  /\ plugged
  /\ effects < MaxEffects /\ effects' = effects + 1
  /\ keyboard' = Other
  /\ UNCHANGED <<page, available, sensitive, writeVars, mutation, stored, plugged, faults, crashes, plugs>>

\* The controller disappears from the bus, or comes back.
Plug ==
  /\ plugs < MaxPlugs /\ plugs' = plugs + 1
  /\ plugged' = ~plugged
  /\ keyboard' = Other
  /\ UNCHANGED <<page, available, sensitive, writeVars, mutation, stored, faults, crashes, effects>>

Next ==
  \/ \E c \in Configs : Edit(c)
  \/ Fire \/ PageDone \/ OtherStarts \/ OtherDone \/ Refresh
  \/ FnSpace \/ Plug

Spec == Init /\ [][Next]_vars
=============================================================================
