------------------------------ MODULE MainWindow ------------------------------
(***************************************************************************)
(* The window's bookkeeping of status reads and privileged changes         *)
(* (MainWindow of legion_control/ui.py), with what its pages keep between  *)
(* two statuses: the profile row (HomePage), the fan editor (FanPage) and  *)
(* the power source automation (automation.py).                            *)
(*                                                                         *)
(* Three threads: the main loop, at most one status reader and at most one *)
(* mutation.  The threads only post their result to the main loop, which   *)
(* calls back in the order of posting.                                     *)
(***************************************************************************)
EXTENDS Naturals

CONSTANTS
  Profiles,     \* profiles the row offers
  Policies,     \* manual fan policies
  Scenes,       \* what a scene asks for
  Rule,         \* the automation: power source -> scene, for the enabled ones
  MaxFaults,    \* bound on failed changes
  MaxExternals  \* bound on changes of the machine from elsewhere

Custom == "custom"
Automatic == "auto"
Keep == "keep"      \* a change that leaves this part of the machine alone
None == "none"      \* Python's None

Sources == {"ac", "battery", "unknown"}
Machines == [profile : Profiles \cup {Custom}, source : Sources,
             policy : Policies \cup {Automatic}]
Goals == [policy : Policies \cup {Automatic, Keep}, profile : Profiles \cup {Custom, Keep}]

ASSUME NamesAssumption ==
  /\ Profiles # {} /\ Profiles \cap {Custom, Keep, None} = {}
  /\ Policies \cap {Automatic, Keep, None} = {}
ASSUME ScenesAssumption ==
  /\ Scenes \subseteq Goals
  /\ DOMAIN Rule \subseteq {"ac", "battery"}
  /\ \A s \in DOMAIN Rule : Rule[s] \in Scenes
ASSUME BoundsAssumption == MaxFaults \in Nat /\ MaxExternals \in Nat

VARIABLES
  machine,         \* what a status reports: profile, power source, fan policy
  read,            \* the status reader; _refresh_in_progress unless "off"
  stale,           \* _refresh_generation has moved on since that read began
  pending,         \* _refresh_pending
  requested,       \* _request_refresh_idle is queued in the main loop
  mutation,        \* the mutation thread; _mutations_in_progress unless Idle
  shown,           \* the status on display
  unreadable,      \* the banner says that the machine cannot be read
  row,             \* the profile selected in the row
  pendingProfile,  \* HomePage._pending_profile
  editor, dirty,   \* the fan editor and _editor_dirty
  lastSource,      \* PowerSourceAutomation._last_source
  faults, externals

pages == <<shown, unreadable, row, pendingProfile, editor, dirty, lastSource>>
refresh == <<read, stale, pending, requested>>
budgets == <<faults, externals>>
vars == <<machine, refresh, mutation, pages, budgets>>

Blank == [profile |-> Custom, source |-> "unknown", policy |-> Automatic]
\* since: how often the machine had changed from elsewhere when the read began.
NoRead == [stage |-> "off", status |-> Blank, since |-> 0]
Reads == [stage : {"off", "hardware", "policy", "done", "failed"},
          status : Machines, since : 0..MaxExternals]
Displays == [known : BOOLEAN, status : Machines, since : 0..MaxExternals]
Nothing == [known |-> FALSE, status |-> Blank, since |-> 0]

Leave == [policy |-> Keep, profile |-> Keep]
Idle == [owner |-> "nobody", goal |-> Leave, stage |-> "ended", ok |-> FALSE]
Owners == {"nobody", "profile", "apply", "restore", "scene", "automation", "other"}
Mutations == [owner : Owners, goal : Goals, stage : {"policy", "profile", "ended"}, ok : BOOLEAN]

TypeOK ==
  /\ machine \in Machines
  /\ read \in Reads
  /\ stale \in BOOLEAN /\ pending \in BOOLEAN /\ requested \in BOOLEAN
  /\ mutation \in Mutations
  /\ shown \in Displays /\ unreadable \in BOOLEAN
  /\ row \in Profiles
  /\ pendingProfile \in Profiles \cup {None}
  /\ editor \in Policies \cup {Automatic}
  /\ dirty \in BOOLEAN
  /\ lastSource \in {"ac", "battery", None}
  /\ faults \in 0..MaxFaults /\ externals \in 0..MaxExternals

\* MainWindow.__init__ asks for a first status.
Init ==
  /\ machine \in Machines
  /\ read = [NoRead EXCEPT !.stage = "hardware"]
  /\ stale = FALSE /\ pending = FALSE /\ requested = FALSE
  /\ mutation = Idle
  /\ shown = Nothing /\ unreadable = FALSE
  /\ row \in Profiles
  /\ pendingProfile = None
  /\ editor = Automatic /\ dirty = FALSE
  /\ lastSource = None
  /\ faults = 0 /\ externals = 0

Fault == faults < MaxFaults /\ faults' = faults + 1

-----------------------------------------------------------------------------
(* request_refresh and run_mutation *)

Start == [NoRead EXCEPT !.stage = "hardware", !.since = externals]

RequestRefresh(busy) ==
  IF busy \/ read.stage # "off"
  THEN pending' = TRUE /\ UNCHANGED <<read, stale>>
  ELSE pending' = FALSE /\ stale' = FALSE /\ read' = Start

\* _queue_pending_refresh, when no read is in progress.
QueuePending(wanted, busy) ==
  /\ requested' = (wanted /\ ~busy)
  /\ pending' = (wanted /\ busy)

Begin(owner, goal) ==
  [owner |-> owner, goal |-> goal, stage |-> "policy", ok |-> FALSE]

\* Slip: a read that is under way keeps its generation.
RunMutation_KeepsGeneration(owner, goal) ==
  /\ mutation = Idle
  /\ mutation' = Begin(owner, goal)
  /\ pending' = TRUE
  /\ UNCHANGED <<read, stale, requested>>

RunMutation(owner, goal) ==
  /\ mutation = Idle
  /\ mutation' = Begin(owner, goal)
  /\ stale' = (read.stage # "off") /\ pending' = TRUE
  /\ UNCHANGED <<read, requested>>

\* _refresh_timer
Tick ==
  /\ RequestRefresh(mutation # Idle)
  /\ UNCHANGED <<machine, requested, mutation, pages, budgets>>

\* _request_refresh_idle
RunRequest ==
  /\ requested /\ requested' = FALSE
  /\ RequestRefresh(mutation # Idle)
  /\ UNCHANGED <<machine, mutation, pages, budgets>>

-----------------------------------------------------------------------------
(* What the user does.  A refused change of the fans or a refused scene only *)
(* shows a message.                                                          *)

\* _on_profile_selected; a refusal calls restore at once.
SelectProfile(p) ==
  /\ shown.known /\ pendingProfile = None /\ row # p
  /\ row' = p
  /\ \/ /\ RunMutation("profile", [policy |-> Automatic, profile |-> p])
        /\ pendingProfile' = p
     \/ /\ mutation # Idle
        /\ RequestRefresh(TRUE)
        /\ UNCHANGED <<mutation, requested, pendingProfile>>
  /\ UNCHANGED <<machine, shown, unreadable, editor, dirty, lastSource, budgets>>

EditFans(d) ==
  /\ editor' = d /\ dirty' = TRUE
  /\ UNCHANGED <<machine, refresh, mutation, shown, unreadable, row, pendingProfile,
                 lastSource, budgets>>

\* _on_apply_clicked: an automatic policy is restore_auto.
ApplyFans ==
  /\ dirty /\ shown.known
  /\ RunMutation("apply", [policy |-> editor,
                           profile |-> IF editor = Automatic THEN Keep ELSE Custom])
  /\ UNCHANGED <<machine, pages, budgets>>

RestoreFans ==
  /\ RunMutation("restore", [policy |-> Automatic, profile |-> Keep])
  /\ UNCHANGED <<machine, pages, budgets>>

ApplyScene(goal) ==
  /\ shown.known
  /\ RunMutation("scene", goal)
  /\ UNCHANGED <<machine, pages, budgets>>

\* A feature or the lighting.
OtherChange ==
  /\ RunMutation("other", Leave)
  /\ UNCHANGED <<machine, pages, budgets>>

-----------------------------------------------------------------------------
(* The mutation thread.  Every operation of the helper saves the policy      *)
(* before it writes the profile.                                             *)

ChangePolicy ==
  /\ mutation.stage = "policy"
  /\ machine' = IF mutation.goal.policy = Keep THEN machine
                ELSE [machine EXCEPT !.policy = mutation.goal.policy]
  /\ mutation' = [mutation EXCEPT !.stage = "profile"]
  /\ UNCHANGED <<refresh, pages, budgets>>

Reached(goal) ==
  IF goal.profile = Keep THEN machine ELSE [machine EXCEPT !.profile = goal.profile]

ChangeProfile ==
  /\ mutation.stage = "profile"
  /\ machine' = Reached(mutation.goal)
  /\ mutation' = [mutation EXCEPT !.stage = "ended", !.ok = TRUE]
  /\ UNCHANGED <<refresh, pages, budgets>>

\* The recovery of a manual policy; the profile may not be put back.
Recovered(m) == [m EXCEPT !.policy = Automatic]

\* No authorisation, an operation refused or recovered from half-way, or an
\* answer lost after the change was made.
ChangeFailed ==
  /\ \/ mutation.stage = "policy" /\ UNCHANGED machine
     \/ /\ mutation.stage = "profile"
        /\ \E m \in {machine, Reached(mutation.goal)} :
             \/ machine' = m
             \/ mutation.goal.policy \in Policies /\ machine' = Recovered(m)
  /\ mutation' = [mutation EXCEPT !.stage = "ended"]
  /\ Fault
  /\ UNCHANGED <<refresh, pages, externals>>

\* The callbacks that end with request_refresh: every success, and the
\* failures of a profile or of a scene.
Asks == mutation.ok \/ mutation.owner \in {"profile", "scene", "automation"}

\* Slip: a change that failed leaves no refresh behind.
FinishSilently_Forgets ==
  /\ ~mutation.ok \/ mutation.owner = "other"
  /\ IF read.stage = "off" THEN QueuePending(FALSE, FALSE)
                           ELSE UNCHANGED <<pending, requested>>
  /\ UNCHANGED <<read, stale>>

\* A failure of the fan page or of another page, or a lighting change with a
\* newer edit waiting, leaves it to the pending refresh.
FinishSilently ==
  /\ ~Asks \/ mutation.owner = "other"
  /\ IF read.stage = "off" THEN QueuePending(pending, FALSE)
                           ELSE UNCHANGED <<pending, requested>>
  /\ UNCHANGED <<read, stale>>

\* _finish_mutation_success and _finish_mutation_error.  A request that is
\* queued was queued before this callback.
FinishMutation ==
  /\ mutation # Idle /\ mutation.stage = "ended" /\ ~requested
  /\ mutation' = Idle
  /\ \/ Asks /\ RequestRefresh(FALSE) /\ UNCHANGED requested
     \/ FinishSilently
  /\ pendingProfile' =
       IF mutation.owner = "profile" /\ ~mutation.ok THEN None ELSE pendingProfile
  /\ dirty' = (dirty /\ ~(mutation.ok /\ mutation.owner \in {"apply", "restore"}))
  /\ UNCHANGED <<machine, shown, unreadable, row, editor, lastSource, budgets>>

-----------------------------------------------------------------------------
(* The status reader *)

ReadHardware ==
  /\ read.stage = "hardware"
  /\ read' = [read EXCEPT !.stage = "policy",
                          !.status.profile = machine.profile, !.status.source = machine.source]
  /\ UNCHANGED <<machine, stale, pending, requested, mutation, pages, budgets>>

ReadFailed ==
  /\ read.stage = "hardware"
  /\ read' = [read EXCEPT !.stage = "failed"]
  /\ UNCHANGED <<machine, stale, pending, requested, mutation, pages, budgets>>

ReadPolicy ==
  /\ read.stage = "policy"
  /\ read' = [read EXCEPT !.stage = "done", !.status.policy = machine.policy]
  /\ UNCHANGED <<machine, stale, pending, requested, mutation, pages, budgets>>

\* Slip: a result is always good enough.
Fresh_Always == TRUE

Fresh == ~stale /\ mutation = Idle

\* The result is dropped and another read takes its place.
DropRead ==
  /\ read.stage \in {"done", "failed"} /\ ~requested /\ ~Fresh
  /\ read' = NoRead /\ stale' = FALSE
  /\ QueuePending(TRUE, mutation # Idle)
  /\ UNCHANGED <<machine, mutation, pages, budgets>>

FinishReadError ==
  /\ read.stage = "failed" /\ ~requested /\ Fresh
  /\ read' = NoRead
  /\ unreadable' = TRUE
  /\ QueuePending(pending, FALSE)
  /\ UNCHANGED <<machine, stale, mutation, shown, row, pendingProfile, editor, dirty,
                 lastSource, budgets>>

\* Slip: the row forgets that it waits for a confirmation.
ShowProfile_AnyProfile(profile) ==
  /\ row' = IF profile \in Profiles THEN profile ELSE row
  /\ UNCHANGED pendingProfile

\* Slip: custom is selected in the row like any other profile.
ShowProfile_CustomToo(profile) ==
  IF pendingProfile \in {None, profile}
  THEN row' = profile /\ pendingProfile' = None
  ELSE UNCHANGED <<row, pendingProfile>>

\* HomePage.update_status
ShowProfile(profile) ==
  IF profile \in Profiles /\ pendingProfile \in {None, profile}
  THEN row' = profile /\ pendingProfile' = None
  ELSE UNCHANGED <<row, pendingProfile>>

\* Slip: the editor always takes the policy of the status.
ShowPolicy_Always(policy) == editor' = policy /\ UNCHANGED dirty

\* FanPage.update_status
ShowPolicy(policy) ==
  /\ editor' = IF dirty THEN editor ELSE policy
  /\ UNCHANGED dirty

\* PowerSourceAutomation.observe
Transition(source) == source # "unknown" /\ lastSource \notin {None, source}

Observe(source) == lastSource' = IF source = "unknown" THEN lastSource ELSE source

\* _apply_power_source_automation: the scene is applied, unless the scenes
\* cannot be loaded; without one the pending refresh is queued.
Automate(source) ==
  /\ Observe(source)
  /\ read' = NoRead
  /\ \/ /\ Transition(source) /\ source \in DOMAIN Rule /\ mutation = Idle
        /\ mutation' = Begin("automation", Rule[source])
        /\ pending' = TRUE
        /\ UNCHANGED <<requested, faults>>
     \/ /\ IF Transition(source) /\ source \in DOMAIN Rule /\ mutation = Idle
           THEN Fault ELSE UNCHANGED faults
        /\ QueuePending(pending, mutation # Idle)
        /\ UNCHANGED mutation

\* _finish_refresh
Display ==
  /\ read.stage = "done" /\ ~requested /\ Fresh
  /\ shown' = [known |-> TRUE, status |-> read.status, since |-> read.since]
  /\ unreadable' = FALSE
  /\ ShowProfile(read.status.profile)
  /\ ShowPolicy(read.status.policy)
  /\ Automate(read.status.source)
  /\ UNCHANGED <<machine, stale, externals>>

-----------------------------------------------------------------------------
\* Fn+Q, the charger, or another client.
External ==
  /\ externals < MaxExternals /\ externals' = externals + 1
  /\ \/ \E p \in Profiles : machine' = [machine EXCEPT !.profile = p]
     \/ \E s \in Sources : machine' = [machine EXCEPT !.source = s]
     \/ \E d \in Policies \cup {Automatic} : machine' = [machine EXCEPT !.policy = d]
  /\ UNCHANGED <<refresh, mutation, pages, faults>>

User ==
  \/ \E p \in Profiles : SelectProfile(p)
  \/ \E d \in Policies \cup {Automatic} : EditFans(d)
  \/ ApplyFans \/ RestoreFans
  \/ \E goal \in Scenes : ApplyScene(goal)
  \/ OtherChange

Mutator == ChangePolicy \/ ChangeProfile \/ ChangeFailed
Reader == ReadHardware \/ ReadPolicy \/ ReadFailed
Callback == RunRequest \/ FinishMutation \/ DropRead \/ FinishReadError \/ Display

Next == User \/ Mutator \/ Reader \/ Callback \/ Tick \/ External

Spec == Init /\ [][Next]_vars

-----------------------------------------------------------------------------

\* What is put on display was read after the last change made by the window: if
\* nothing else changed the machine since the read began, it is the machine.
DisplaysCurrent ==
  [][shown' # shown /\ read.since = externals => shown'.status = machine']_vars

\* A change of the power source that a status shows is never swallowed: with a
\* rule for it the automation starts, or a failure to load the scenes was shown.
TransitionActedOn ==
  [][(lastSource' # lastSource /\ lastSource # None /\ lastSource' \in DOMAIN Rule)
       => mutation' = Begin("automation", Rule[lastSource']) \/ faults' > faults]_vars

\* No thread runs and no callback is queued: only the timer or the user will
\* make the window read again.
Quiet == read.stage = "off" /\ mutation = Idle /\ ~requested

\* No refresh is forgotten: whatever overtook whatever, when the window comes to
\* rest it shows the machine, or says that it cannot read it, or something else
\* has changed the machine since.
CaughtUp ==
  Quiet /\ ~unreadable =>
    shown.known /\ (shown.since = externals => shown.status = machine)

\* A profile that the machine has taken is confirmed in the row by then.
ProfileConfirmed ==
  Quiet /\ ~unreadable /\ shown.since = externals => pendingProfile # machine.profile
===============================================================================
