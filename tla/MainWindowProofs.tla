--------------------------- MODULE MainWindowProofs ---------------------------
(***************************************************************************)
(* Theorems about the window's bookkeeping, for any profiles, policies,    *)
(* scenes and rules, and any number of failures and outside changes.       *)
(***************************************************************************)
EXTENDS MCMainWindow, TLAPS

-----------------------------------------------------------------------------
(* Types of the values the actions build *)

\* A change that is begun is a mutation.
LEMMA BeginType ==
  ASSUME NEW o \in Owners, NEW g \in Goals
  PROVE  Begin(o, g) \in Mutations
BY DEF Begin, Mutations

\* The resting values are of their types.
LEMMA RestType ==
  /\ Idle \in Mutations
  /\ Blank \in Machines
  /\ NoRead \in Reads /\ NoRead.stage = "off"
  /\ Nothing \in Displays
BY BoundsAssumption DEF Idle, Leave, Mutations, Owners, Goals, Blank, Machines, Sources,
   NoRead, Reads, Nothing, Displays

\* A read that starts is at its first step and dates from now.
LEMMA StartType ==
  ASSUME externals \in 0..MaxExternals
  PROVE  Start \in Reads /\ Start.stage = "hardware" /\ Start.since = externals
BY RestType DEF Start, Reads, NoRead

\* RequestRefresh keeps the types of what it assigns.
LEMMA RequestType ==
  ASSUME TypeOK, NEW busy \in BOOLEAN, RequestRefresh(busy)
  PROVE  read' \in Reads /\ stale' \in BOOLEAN /\ pending' \in BOOLEAN
BY StartType DEF TypeOK, RequestRefresh

\* RunMutation keeps the types of what it assigns.
LEMMA RunType ==
  ASSUME TypeOK, NEW o \in Owners, NEW g \in Goals, RunMutation(o, g)
  PROVE  /\ mutation' \in Mutations /\ stale' \in BOOLEAN /\ pending' \in BOOLEAN
         /\ read' \in Reads /\ requested' \in BOOLEAN
BY BeginType DEF TypeOK, RunMutation

\* What a machine becomes when a goal's profile is reached.
LEMMA ReachedType ==
  ASSUME TypeOK
  PROVE  Reached(mutation.goal) \in Machines
BY DEF TypeOK, Reached, Mutations, Goals, Machines

-----------------------------------------------------------------------------
(* The type invariant *)

\* The type invariant holds initially.
LEMMA InitType == Init => TypeOK
<1> SUFFICES ASSUME Init PROVE TypeOK
  OBVIOUS
<1>1. read \in Reads
  BY RestType DEF Init, Reads, NoRead
<1>2. 0 \in 0..MaxFaults /\ 0 \in 0..MaxExternals
  BY BoundsAssumption
<1> QED BY <1>1, <1>2, RestType DEF Init, TypeOK

\* What the user does keeps the types.
LEMMA UserType == TypeOK /\ User => TypeOK'
<1> SUFFICES ASSUME TypeOK, User PROVE TypeOK'
  OBVIOUS
<1>1. ASSUME NEW p \in Profiles, SelectProfile(p) PROVE TypeOK'
  <2>1. [policy |-> Automatic, profile |-> p] \in Goals /\ "profile" \in Owners
    BY DEF Goals, Owners
  <2> QED BY <1>1, <2>1, RunType, RequestType DEF SelectProfile, TypeOK, budgets
<1>2. ASSUME NEW d \in Policies \cup {Automatic}, EditFans(d) PROVE TypeOK'
  BY <1>2 DEF EditFans, TypeOK, refresh, budgets
<1>3. CASE ApplyFans
  <2>1. [policy |-> editor, profile |-> IF editor = Automatic THEN Keep ELSE Custom] \in Goals
    BY DEF Goals, TypeOK
  <2> QED BY <1>3, <2>1, RunType DEF ApplyFans, TypeOK, pages, budgets, Owners
<1>4. CASE RestoreFans
  <2>1. [policy |-> Automatic, profile |-> Keep] \in Goals
    BY DEF Goals
  <2> QED BY <1>4, <2>1, RunType DEF RestoreFans, TypeOK, pages, budgets, Owners
<1>5. ASSUME NEW goal \in Scenes, ApplyScene(goal) PROVE TypeOK'
  BY <1>5, RunType, ScenesAssumption DEF ApplyScene, TypeOK, pages, budgets, Owners
<1>6. CASE OtherChange
  BY <1>6, RunType DEF OtherChange, TypeOK, pages, budgets, Owners, Leave, Goals
<1> QED BY <1>1, <1>2, <1>3, <1>4, <1>5, <1>6 DEF User

\* The mutation thread keeps the types.
LEMMA MutatorType == TypeOK /\ Mutator => TypeOK'
<1> SUFFICES ASSUME TypeOK, Mutator PROVE TypeOK'
  OBVIOUS
<1>0. UNCHANGED <<refresh, pages, externals>>
  BY DEF Mutator, ChangePolicy, ChangeProfile, ChangeFailed, budgets
<1>1. mutation' \in Mutations
  BY DEF Mutator, ChangePolicy, ChangeProfile, ChangeFailed, TypeOK, Mutations
<1>2. machine' \in Machines
  <2>1. ASSUME NEW d \in Policies \cup {Automatic}
        PROVE  [machine EXCEPT !.policy = d] \in Machines
    BY DEF TypeOK, Machines
  <2>2. mutation.goal.policy \in Policies \cup {Automatic, Keep}
    BY DEF TypeOK, Mutations, Goals
  <2>3. CASE ChangePolicy
    BY <2>1, <2>2, <2>3 DEF ChangePolicy, TypeOK
  <2>4. CASE ChangeProfile
    BY <2>4, ReachedType DEF ChangeProfile, TypeOK
  <2>5. CASE ChangeFailed
    <3>1. ASSUME NEW m \in Machines PROVE Recovered(m) \in Machines
      BY DEF Recovered, Machines
    <3> QED BY <2>5, <3>1, ReachedType DEF ChangeFailed, TypeOK
  <2> QED BY <2>3, <2>4, <2>5 DEF Mutator
<1>3. faults' \in 0..MaxFaults
  BY BoundsAssumption
  DEF Mutator, ChangePolicy, ChangeProfile, ChangeFailed, TypeOK, budgets, Fault
<1> QED BY <1>0, <1>1, <1>2, <1>3 DEF TypeOK, refresh, pages

\* The status reader keeps the types.
LEMMA ReaderType == TypeOK /\ Reader => TypeOK'
<1> SUFFICES ASSUME TypeOK, Reader PROVE TypeOK'
  OBVIOUS
<1>0. UNCHANGED <<machine, stale, pending, requested, mutation, pages, budgets>>
  BY DEF Reader, ReadHardware, ReadPolicy, ReadFailed
<1>1. read' \in Reads
  <2>1. /\ read.stage \in {"off", "hardware", "policy", "done", "failed"}
        /\ read.status \in Machines /\ read.since \in 0..MaxExternals
        /\ read = [stage |-> read.stage, status |-> read.status, since |-> read.since]
    BY DEF TypeOK, Reads
  <2>2. ASSUME NEW st \in Machines, NEW stage \in {"policy", "done", "failed"},
               read' = [stage |-> stage, status |-> st, since |-> read.since]
        PROVE  read' \in Reads
    BY <2>1, <2>2 DEF Reads
  <2>3. CASE ReadHardware
    <3>1. [read.status EXCEPT !.profile = machine.profile, !.source = machine.source]
            \in Machines
      BY <2>1 DEF TypeOK, Machines
    <3>2. read' = [stage |-> "policy",
                   status |-> [read.status EXCEPT !.profile = machine.profile,
                                                  !.source = machine.source],
                   since |-> read.since]
      BY <2>1, <2>3 DEF ReadHardware
    <3> QED BY <2>2, <3>1, <3>2
  <2>4. CASE ReadPolicy
    <3>1. [read.status EXCEPT !.policy = machine.policy] \in Machines
      BY <2>1 DEF TypeOK, Machines
    <3>2. read' = [stage |-> "done",
                   status |-> [read.status EXCEPT !.policy = machine.policy],
                   since |-> read.since]
      BY <2>1, <2>4 DEF ReadPolicy
    <3> QED BY <2>2, <3>1, <3>2
  <2>5. CASE ReadFailed
    BY <2>1, <2>2, <2>5 DEF ReadFailed
  <2> QED BY <2>3, <2>4, <2>5 DEF Reader
<1> QED BY <1>0, <1>1 DEF TypeOK, pages, budgets

\* A status that is taken over leaves row, editor and automation well typed.
LEMMA DisplayType == TypeOK /\ Display => TypeOK'
<1> SUFFICES ASSUME TypeOK, Display PROVE TypeOK'
  OBVIOUS
<1>1. /\ read.status \in Machines /\ read.since \in 0..MaxExternals
      /\ shown' \in Displays
  BY DEF TypeOK, Reads, Display, Displays
<1>2. row' \in Profiles /\ pendingProfile' \in Profiles \cup {None}
  BY DEF TypeOK, Display, ShowProfile
<1>3. editor' \in Policies \cup {Automatic} /\ dirty' \in BOOLEAN
  BY <1>1 DEF TypeOK, Display, ShowPolicy, Machines
<1>4. lastSource' \in {"ac", "battery", None}
  BY <1>1 DEF TypeOK, Display, Automate, Observe, Machines, Sources
<1>5. /\ read' \in Reads /\ mutation' \in Mutations
      /\ pending' \in BOOLEAN /\ requested' \in BOOLEAN
      /\ faults' \in 0..MaxFaults
  <2>1. ASSUME NEW s \in DOMAIN Rule PROVE Begin("automation", Rule[s]) \in Mutations
    BY <2>1, BeginType, ScenesAssumption DEF Owners
  <2>2. faults' \in 0..MaxFaults
    BY BoundsAssumption DEF TypeOK, Display, Automate, Fault
  <2>3. mutation' \in Mutations
    BY <2>1 DEF TypeOK, Display, Automate
  <2> QED BY <2>2, <2>3, RestType DEF TypeOK, Display, Automate, QueuePending
<1> QED BY <1>1, <1>2, <1>3, <1>4, <1>5 DEF TypeOK, Display

\* The callbacks keep the types.
LEMMA CallbackType == TypeOK /\ Callback => TypeOK'
<1> SUFFICES ASSUME TypeOK, Callback PROVE TypeOK'
  OBVIOUS
<1>1. CASE RunRequest
  BY <1>1, RequestType DEF RunRequest, TypeOK, pages, budgets
<1>2. CASE FinishMutation
  <2>1. /\ read' \in Reads /\ stale' \in BOOLEAN
        /\ pending' \in BOOLEAN /\ requested' \in BOOLEAN
    BY <1>2, RequestType DEF FinishMutation, FinishSilently, QueuePending, TypeOK
  <2> QED BY <1>2, <2>1, RestType DEF FinishMutation, TypeOK, budgets
<1>3. CASE DropRead
  BY <1>3, RestType DEF DropRead, QueuePending, TypeOK, pages, budgets
<1>4. CASE FinishReadError
  BY <1>4, RestType DEF FinishReadError, QueuePending, TypeOK, budgets
<1>5. CASE Display
  BY <1>5, DisplayType
<1> QED BY <1>1, <1>2, <1>3, <1>4, <1>5 DEF Callback

\* Changes from elsewhere keep the types.
LEMMA ExternalType == TypeOK /\ External => TypeOK'
<1> SUFFICES ASSUME TypeOK, External PROVE TypeOK'
  OBVIOUS
<1>1. machine' \in Machines
  BY DEF TypeOK, External, Machines
<1>2. externals' \in 0..MaxExternals
  BY BoundsAssumption DEF TypeOK, External
<1> QED BY <1>1, <1>2 DEF TypeOK, External, refresh, pages

\* Every step keeps the types.
LEMMA TypeStep == TypeOK /\ [Next]_vars => TypeOK'
<1> SUFFICES ASSUME TypeOK, [Next]_vars PROVE TypeOK'
  OBVIOUS
<1>1. CASE Tick
  BY <1>1, RequestType DEF Tick, TypeOK, pages, budgets
<1>2. CASE UNCHANGED vars
  BY <1>2 DEF vars, TypeOK, refresh, pages, budgets
<1> QED BY <1>1, <1>2, UserType, MutatorType, ReaderType, CallbackType, ExternalType DEF Next

\* The window's state is well typed: among others the row never selects
\* custom, and only known sources are remembered.
THEOREM TypeCorrect == Spec => []TypeOK
BY InitType, TypeStep, PTL DEF Spec

-----------------------------------------------------------------------------
(* The inductive invariant *)

\* A read that is not stale began after the last mutation ended; a mutation
\* always leaves a refresh pending, and has somebody to answer to.
Bookkeeping ==
  /\ read.stage # "off" /\ ~stale => mutation = Idle
  /\ mutation # Idle => pending /\ mutation.owner # "nobody"
  /\ read.since <= externals /\ shown.since <= externals

\* Such a read holds what the machine still is, unless it was changed from
\* elsewhere.
Snapshot ==
  ~stale /\ read.since = externals =>
    /\ read.stage = "policy" =>
         read.status.profile = machine.profile /\ read.status.source = machine.source
    /\ read.stage = "done" => read.status = machine

\* When the window is at rest, its last status was taken over by every page.
RowAtRest == Quiet /\ ~unreadable => pendingProfile # shown.status.profile

AtRest == CaughtUp /\ RowAtRest

IInv == TypeOK /\ Bookkeeping /\ Snapshot /\ AtRest

\* Only a mutation that was begun is not Idle.
LEMMA BeginBusy ==
  ASSUME NEW o \in Owners \ {"nobody"}, NEW g \in Goals
  PROVE  Begin(o, g) # Idle /\ Begin(o, g).owner # "nobody"
BY DEF Begin, Idle

\* RunMutation makes every read stale and keeps the window from resting.
LEMMA RunStep ==
  ASSUME IInv, NEW o \in Owners \ {"nobody"}, NEW g \in Goals, RunMutation(o, g),
         UNCHANGED <<machine, shown, unreadable, externals>>
  PROVE  (Bookkeeping /\ Snapshot /\ AtRest)'
<1>1. mutation' # Idle /\ mutation'.owner # "nobody"
  BY BeginBusy DEF RunMutation
<1> QED BY <1>1 DEF IInv, RunMutation, Bookkeeping, Snapshot, AtRest, CaughtUp, RowAtRest, Quiet

\* A refresh asked for while nothing is changed keeps what is known.
LEMMA RequestStep ==
  ASSUME IInv, RequestRefresh(mutation # Idle), requested' \in {requested, FALSE},
         UNCHANGED <<machine, mutation, shown, unreadable, pendingProfile, externals>>
  PROVE  (Bookkeeping /\ Snapshot /\ AtRest)'
<1>1. Start.stage = "hardware" /\ Start.since = externals /\ externals \in Nat
  BY StartType, BoundsAssumption DEF IInv, TypeOK
<1>2. CASE mutation # Idle \/ read.stage # "off"
  BY <1>2 DEF IInv, RequestRefresh, Bookkeeping, Snapshot, AtRest, CaughtUp, RowAtRest, Quiet
<1>3. CASE ~(mutation # Idle \/ read.stage # "off")
  BY <1>1, <1>3
  DEF IInv, RequestRefresh, Bookkeeping, Snapshot, AtRest, CaughtUp, RowAtRest, Quiet
<1> QED BY <1>2, <1>3

\* The user's steps.
LEMMA UserStep == IInv /\ User => (Bookkeeping /\ Snapshot /\ AtRest)'
<1> SUFFICES ASSUME IInv, User PROVE (Bookkeeping /\ Snapshot /\ AtRest)'
  OBVIOUS
<1>1. ASSUME NEW p \in Profiles, SelectProfile(p) PROVE (Bookkeeping /\ Snapshot /\ AtRest)'
  <2>1. CASE mutation = Idle
    <3>1. [policy |-> Automatic, profile |-> p] \in Goals
      BY DEF Goals
    <3>2. RunMutation("profile", [policy |-> Automatic, profile |-> p])
      BY <1>1, <2>1 DEF SelectProfile
    <3> QED BY <1>1, <3>1, <3>2, RunStep DEF SelectProfile, budgets, Owners
  <2>2. CASE mutation # Idle
    BY <1>1, <2>2 DEF SelectProfile, RunMutation, RequestRefresh, budgets, IInv, Bookkeeping,
       Snapshot, AtRest, CaughtUp, RowAtRest, Quiet
  <2> QED BY <2>1, <2>2
<1>2. ASSUME NEW d \in Policies \cup {Automatic}, EditFans(d)
      PROVE  (Bookkeeping /\ Snapshot /\ AtRest)'
  BY <1>2 DEF EditFans, refresh, budgets, IInv, Bookkeeping, Snapshot, AtRest, CaughtUp,
     RowAtRest, Quiet
<1>3. CASE ApplyFans
  <2>1. [policy |-> editor, profile |-> IF editor = Automatic THEN Keep ELSE Custom] \in Goals
    BY DEF Goals, IInv, TypeOK
  <2> QED BY <1>3, <2>1, RunStep DEF ApplyFans, pages, budgets, Owners
<1>4. CASE RestoreFans
  <2>1. [policy |-> Automatic, profile |-> Keep] \in Goals
    BY DEF Goals
  <2> QED BY <1>4, <2>1, RunStep DEF RestoreFans, pages, budgets, Owners
<1>5. ASSUME NEW goal \in Scenes, ApplyScene(goal)
      PROVE  (Bookkeeping /\ Snapshot /\ AtRest)'
  BY <1>5, RunStep, ScenesAssumption DEF ApplyScene, pages, budgets, Owners
<1>6. CASE OtherChange
  <2>1. Leave \in Goals
    BY DEF Leave, Goals
  <2> QED BY <1>6, <2>1, RunStep DEF OtherChange, pages, budgets, Owners
<1> QED BY <1>1, <1>2, <1>3, <1>4, <1>5, <1>6 DEF User

\* The mutation thread changes the machine only while every read is stale.
LEMMA MutatorStep == IInv /\ Mutator => (Bookkeeping /\ Snapshot /\ AtRest)'
<1> SUFFICES ASSUME IInv, Mutator PROVE (Bookkeeping /\ Snapshot /\ AtRest)'
  OBVIOUS
<1>0. UNCHANGED <<refresh, pages, externals>>
  BY DEF Mutator, ChangePolicy, ChangeProfile, ChangeFailed, budgets
<1>1. mutation # Idle
  BY DEF Mutator, ChangePolicy, ChangeProfile, ChangeFailed, Idle
<1>2. mutation'.owner = mutation.owner
  BY DEF Mutator, ChangePolicy, ChangeProfile, ChangeFailed, IInv, TypeOK, Mutations
<1>3. mutation' # Idle
  BY <1>1, <1>2 DEF IInv, Bookkeeping, Idle
<1>4. ~(read.stage # "off" /\ ~stale)
  BY <1>1 DEF IInv, Bookkeeping
<1> QED BY <1>0, <1>1, <1>2, <1>3, <1>4
        DEF IInv, Bookkeeping, Snapshot, AtRest, CaughtUp, RowAtRest, Quiet, refresh, pages

\* The reader's copies are the machine's values.
LEMMA ReaderStep == IInv /\ Reader => (Bookkeeping /\ Snapshot /\ AtRest)'
<1> SUFFICES ASSUME IInv, Reader PROVE (Bookkeeping /\ Snapshot /\ AtRest)'
  OBVIOUS
<1>0. UNCHANGED <<machine, stale, pending, requested, mutation, pages, budgets>>
  BY DEF Reader, ReadHardware, ReadPolicy, ReadFailed
<1>1. /\ read.stage # "off" /\ read'.stage # "off" /\ read'.since = read.since
  BY DEF Reader, ReadHardware, ReadPolicy, ReadFailed, IInv, TypeOK, Reads
<1>2. Snapshot'
  <2>1. CASE ReadHardware
    BY <1>0, <2>1 DEF ReadHardware, Snapshot, IInv, TypeOK, Reads, Machines, budgets
  <2>2. CASE ReadPolicy
    <3>1. ASSUME ~stale, read.since = externals PROVE read'.status = machine
      BY <2>2, <3>1 DEF ReadPolicy, Snapshot, IInv, TypeOK, Reads, Machines
    <3> QED BY <1>0, <1>1, <2>2, <3>1 DEF ReadPolicy, Snapshot, IInv, TypeOK, Reads, budgets
  <2>3. CASE ReadFailed
    BY <1>0, <2>3 DEF ReadFailed, Snapshot, IInv, TypeOK, Reads, budgets
  <2> QED BY <2>1, <2>2, <2>3 DEF Reader
<1> QED BY <1>0, <1>1, <1>2
        DEF IInv, Bookkeeping, AtRest, CaughtUp, RowAtRest, Quiet, pages, budgets

\* The end of a mutation leaves a read, or a request for one, behind.
LEMMA FinishMutationStep == IInv /\ FinishMutation => (Bookkeeping /\ Snapshot /\ AtRest)'
<1> SUFFICES ASSUME IInv, FinishMutation PROVE (Bookkeeping /\ Snapshot /\ AtRest)'
  OBVIOUS
<1>1. pending /\ ~(read.stage # "off" /\ ~stale)
  BY DEF FinishMutation, IInv, Bookkeeping
<1>2. CASE Asks /\ RequestRefresh(FALSE) /\ UNCHANGED requested
  <2>1. Start.stage = "hardware" /\ Start.since = externals /\ externals \in Nat
    BY StartType, BoundsAssumption DEF IInv, TypeOK
  <2> QED BY <1>1, <1>2, <2>1 DEF FinishMutation, RequestRefresh, budgets, IInv, Bookkeeping,
             Snapshot, AtRest, CaughtUp, RowAtRest, Quiet
<1>3. CASE FinishSilently
  BY <1>1, <1>3 DEF FinishMutation, FinishSilently, QueuePending, budgets, IInv, Bookkeeping,
     Snapshot, AtRest, CaughtUp, RowAtRest, Quiet
<1> QED BY <1>2, <1>3 DEF FinishMutation

\* A dropped read is followed by another, at once or after the mutation.
LEMMA DropReadStep == IInv /\ DropRead => (Bookkeeping /\ Snapshot /\ AtRest)'
<1> SUFFICES ASSUME IInv, DropRead PROVE (Bookkeeping /\ Snapshot /\ AtRest)'
  OBVIOUS
<1>1. NoRead.stage = "off" /\ NoRead.since = 0 /\ externals \in Nat
  BY BoundsAssumption DEF NoRead, IInv, TypeOK
<1>2. /\ read' = NoRead /\ stale' = FALSE
      /\ UNCHANGED <<machine, mutation, pages, externals>>
  BY DEF DropRead, budgets
<1>3. Snapshot'
  BY <1>1, <1>2 DEF Snapshot
<1>4. IF mutation = Idle THEN requested' ELSE pending'
  BY DEF DropRead, QueuePending
<1>5. Bookkeeping'
  BY <1>1, <1>2, <1>4 DEF IInv, Bookkeeping, pages
<1>6. ~Quiet'
  BY <1>2, <1>4 DEF Quiet
<1>7. AtRest'
  BY <1>6 DEF AtRest, CaughtUp, RowAtRest
<1> QED BY <1>3, <1>5, <1>7

\* A failed read is shown.
LEMMA ReadErrorStep == IInv /\ FinishReadError => (Bookkeeping /\ Snapshot /\ AtRest)'
<1> SUFFICES ASSUME IInv, FinishReadError PROVE (Bookkeeping /\ Snapshot /\ AtRest)'
  OBVIOUS
<1>1. NoRead.stage = "off" /\ NoRead.since = 0 /\ externals \in Nat
  BY BoundsAssumption DEF NoRead, IInv, TypeOK
<1> QED BY <1>1 DEF FinishReadError, Fresh, QueuePending, budgets, IInv, Bookkeeping, Snapshot,
           AtRest, CaughtUp, RowAtRest, Quiet

\* A fresh result is the machine, as far as the window may know.
LEMMA FreshIsCurrent ==
  ASSUME IInv, Display
  PROVE  /\ mutation = Idle /\ ~stale
         /\ shown'.since = read.since /\ shown'.status = read.status /\ shown'.known
         /\ read.since = externals => shown'.status = machine
BY DEF IInv, Display, Fresh, Snapshot

\* After a status the row waits for another profile, if for any.
LEMMA RowTakesProfile ==
  ASSUME IInv, Display
  PROVE  pendingProfile' # read.status.profile
<1>1. read.status.profile # None
  BY NamesAssumption DEF IInv, TypeOK, Reads, Machines, Custom, None
<1>2. CASE pendingProfile = None
  BY <1>1, <1>2 DEF Display, ShowProfile
<1>3. CASE pendingProfile # None
  BY <1>1, <1>3 DEF Display, ShowProfile, IInv, TypeOK
<1> QED BY <1>2, <1>3

\* A status that is displayed leaves nothing behind, or a mutation that the
\* automation began.
LEMMA DisplayStep == IInv /\ Display => (Bookkeeping /\ Snapshot /\ AtRest)'
<1> SUFFICES ASSUME IInv, Display PROVE (Bookkeeping /\ Snapshot /\ AtRest)'
  OBVIOUS
<1>1. /\ NoRead.stage = "off" /\ NoRead.since = 0
      /\ externals \in Nat /\ externals' = externals /\ machine' = machine
      /\ read' = NoRead /\ stale' = stale
  BY BoundsAssumption DEF NoRead, IInv, TypeOK, Display, Automate
<1>2. Snapshot'
  BY <1>1 DEF Snapshot
<1>3. mutation' # Idle => pending' /\ mutation'.owner # "nobody"
  <2>1. ASSUME NEW s \in DOMAIN Rule
        PROVE  Begin("automation", Rule[s]).owner # "nobody"
    BY DEF Begin
  <2> QED BY <2>1, FreshIsCurrent DEF Display, Automate
<1>4. AtRest'
  BY <1>1, FreshIsCurrent, RowTakesProfile DEF AtRest, CaughtUp, RowAtRest
<1>5. Bookkeeping'
  BY <1>1, <1>3, FreshIsCurrent DEF Bookkeeping, IInv
<1> QED BY <1>2, <1>4, <1>5

\* A change from elsewhere makes what is shown and what is being read older
\* than the machine.
LEMMA ExternalStep == IInv /\ External => (Bookkeeping /\ Snapshot /\ AtRest)'
<1> SUFFICES ASSUME IInv, External PROVE (Bookkeeping /\ Snapshot /\ AtRest)'
  OBVIOUS
<1>1. /\ externals \in Nat /\ externals' = externals + 1
      /\ read.since \in Nat /\ shown.since \in Nat
      /\ UNCHANGED <<refresh, mutation, pages>>
  BY BoundsAssumption DEF External, IInv, TypeOK, Reads, Displays
<1>2. read.since # externals + 1 /\ shown.since # externals + 1
  BY <1>1 DEF IInv, Bookkeeping
<1>3. /\ read.since <= externals + 1 /\ shown.since <= externals + 1
  BY <1>1 DEF IInv, Bookkeeping
<1>4. Snapshot'
  BY <1>1, <1>2 DEF Snapshot, refresh
<1>5. Bookkeeping'
  BY <1>1, <1>3 DEF IInv, Bookkeeping, refresh, pages
<1>6. AtRest'
  BY <1>1, <1>2 DEF IInv, AtRest, CaughtUp, RowAtRest, Quiet, refresh, pages
<1> QED BY <1>4, <1>5, <1>6

\* The invariant holds initially.
LEMMA InitInv == Init => IInv
<1> SUFFICES ASSUME Init PROVE IInv
  OBVIOUS
<1>1. /\ read.stage = "hardware" /\ read.since = 0 /\ mutation = Idle /\ shown.since = 0
      /\ externals = 0
  BY DEF Init, NoRead, Nothing
<1> QED BY <1>1, InitType DEF IInv, Bookkeeping, Snapshot, AtRest, CaughtUp, RowAtRest, Quiet

\* Every step keeps the invariant.
LEMMA InvStep == IInv /\ [Next]_vars => IInv'
<1> SUFFICES ASSUME IInv, [Next]_vars PROVE IInv'
  OBVIOUS
<1>1. TypeOK'
  BY TypeStep DEF IInv
<1>2. CASE Tick
  BY <1>1, <1>2, RequestStep DEF Tick, pages, budgets, IInv
<1>3. CASE RunRequest
  BY <1>1, <1>3, RequestStep DEF RunRequest, pages, budgets, IInv
<1>4. CASE UNCHANGED vars
  BY <1>1, <1>4 DEF vars, refresh, pages, budgets, IInv, Bookkeeping, Snapshot, AtRest,
     CaughtUp, RowAtRest, Quiet
<1> QED BY <1>1, <1>2, <1>3, <1>4, UserStep, MutatorStep, ReaderStep, FinishMutationStep,
           DropReadStep, ReadErrorStep, DisplayStep, ExternalStep DEF Next, Callback, IInv

-----------------------------------------------------------------------------
(* The results *)

\* No refresh is forgotten: at rest the window shows the machine.
THEOREM NoRefreshForgotten == Spec => []CaughtUp
<1>1. IInv => CaughtUp
  BY DEF IInv, AtRest
<1> QED BY <1>1, InitInv, InvStep, PTL DEF Spec

\* A profile the machine has taken is confirmed by the time the window rests.
THEOREM RowConfirms == Spec => []ProfileConfirmed
<1>1. IInv => ProfileConfirmed
  BY DEF IInv, AtRest, CaughtUp, RowAtRest, ProfileConfirmed
<1> QED BY <1>1, InitInv, InvStep, PTL DEF Spec

\* Whatever order reads, changes and their answers come in, no status older
\* than the window's last change is ever displayed.
THEOREM NothingStaleShown == Spec => DisplaysCurrent
<1>1. IInv /\ [Next]_vars =>
        [shown' # shown /\ read.since = externals => shown'.status = machine']_vars
  <2> SUFFICES ASSUME IInv, [Next]_vars, shown' # shown, read.since = externals
               PROVE  shown'.status = machine'
    OBVIOUS
  <2>1. Display
    <3>1. ~(User \/ Mutator \/ Reader \/ Tick \/ External)
      BY DEF User, SelectProfile, EditFans, ApplyFans, RestoreFans, ApplyScene, OtherChange,
         Mutator, ChangePolicy, ChangeProfile, ChangeFailed, Reader, ReadHardware, ReadPolicy,
         ReadFailed, Tick, External, pages
    <3>2. ~(RunRequest \/ FinishMutation \/ DropRead \/ FinishReadError \/ UNCHANGED vars)
      BY DEF RunRequest, FinishMutation, DropRead, FinishReadError, vars, pages
    <3> QED BY <3>1, <3>2 DEF Next, Callback
  <2> QED BY <2>1, FreshIsCurrent DEF Display
<1> QED BY <1>1, InitInv, InvStep, PTL DEF Spec, DisplaysCurrent

\* The check for a running mutation in the automation never swallows a change
\* of the power source: a status that is displayed finds none.
THEOREM TransitionsActedOn == Spec => TransitionActedOn
<1>1. IInv /\ [Next]_vars =>
        [(lastSource' # lastSource /\ lastSource # None /\ lastSource' \in DOMAIN Rule)
           => mutation' = Begin("automation", Rule[lastSource']) \/ faults' > faults]_vars
  <2> SUFFICES ASSUME IInv, [Next]_vars, lastSource' # lastSource, lastSource # None,
                      lastSource' \in DOMAIN Rule
               PROVE  mutation' = Begin("automation", Rule[lastSource']) \/ faults' > faults
    OBVIOUS
  <2>1. Display
    <3>1. ~(User \/ Mutator \/ Reader \/ Tick \/ External)
      BY DEF User, SelectProfile, EditFans, ApplyFans, RestoreFans, ApplyScene, OtherChange,
         Mutator, ChangePolicy, ChangeProfile, ChangeFailed, Reader, ReadHardware, ReadPolicy,
         ReadFailed, Tick, External, pages
    <3>2. ~(RunRequest \/ FinishMutation \/ DropRead \/ FinishReadError \/ UNCHANGED vars)
      BY DEF RunRequest, FinishMutation, DropRead, FinishReadError, vars, pages
    <3> QED BY <3>1, <3>2 DEF Next, Callback
  <2>2. /\ lastSource' = read.status.source /\ read.status.source # "unknown"
        /\ Transition(read.status.source)
    BY <2>1 DEF Display, Automate, Observe, Transition
  <2>3. mutation = Idle
    BY <2>1, FreshIsCurrent
  <2>4. faults \in Nat
    BY BoundsAssumption DEF IInv, TypeOK
  <2> QED BY <2>1, <2>2, <2>3, <2>4 DEF Display, Automate, Fault
<1> QED BY <1>1, InitInv, InvStep, PTL DEF Spec, TransitionActedOn

-----------------------------------------------------------------------------
(* The draft of the fans *)

\* A step of the window with the user beside it keeps the draft: each kind of
\* step that touches the editor or its flag, and the rest together.
LEMMA FanDraftStep == FanDraftKept /\ [MCNext]_mcvars => FanDraftKept'
<1> SUFFICES ASSUME FanDraftKept, [MCNext]_mcvars, mine' # None
             PROVE  editor' = mine' /\ dirty'
  BY DEF FanDraftKept
<1>1. CASE MCEdit
  BY <1>1 DEF MCEdit, EditFans
<1>2. CASE MCFinish
  <2>1. ~(FansBusy /\ mutation.ok) /\ mine' = mine /\ editor' = editor
    BY <1>2 DEF MCFinish, FinishMutation
  <2>2. dirty /\ editor = mine
    BY <2>1 DEF FanDraftKept
  <2>3. dirty'
    BY <1>2, <2>1, <2>2 DEF MCFinish, FinishMutation, FansBusy
  <2> QED
    BY <2>1, <2>2, <2>3
<1>3. CASE Display /\ UNCHANGED mine
  <2>1. dirty /\ editor = mine
    BY <1>3 DEF FanDraftKept
  <2> QED
    BY <1>3, <2>1 DEF Display, ShowPolicy
<1>4. CASE UNCHANGED <<editor, dirty, mine>>
  BY <1>4 DEF FanDraftKept
<1>5. MCUser \/ MCMutator \/ MCReader => UNCHANGED <<editor, dirty, mine>>
  BY DEF MCUser, SelectProfile, ApplyFans, RestoreFans, ApplyScene, OtherChange,
     MCMutator, Mutator, ChangePolicy, ChangeProfile, ChangeFailed,
     MCReader, Reader, ReadHardware, ReadPolicy, ReadFailed, pages
<1>6. MCTick \/ MCExternal \/ UNCHANGED mcvars => UNCHANGED <<editor, dirty, mine>>
  BY DEF MCTick, Tick, MCExternal, External, mcvars, vars, pages
<1>7. MCCallback => MCFinish \/ (Display /\ UNCHANGED mine) \/ UNCHANGED <<editor, dirty, mine>>
  BY DEF MCCallback, RunRequest, DropRead, FinishReadError, pages
<1> QED
  BY <1>1, <1>2, <1>3, <1>4, <1>5, <1>6, <1>7 DEF MCNext

\* An edit of the fans stays in the editor, marked as not applied, until an
\* apply or a restore succeeds: no status read before, during or after other
\* changes replaces it (FanPage.update_status, _finish_mutation_success).
THEOREM FanDraftStays == MCSpec => []FanDraftKept
<1>1. MCInit => FanDraftKept
  BY DEF MCInit, FanDraftKept
<1> QED
  BY <1>1, FanDraftStep, PTL DEF MCSpec
=============================================================================
