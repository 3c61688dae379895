------------------------- MODULE LightingPageProofs -------------------------
(***************************************************************************)
(* What the lighting page promises, for any set of configurations and any  *)
(* number of failures, killed helpers, uses of Fn+Space and                *)
(* disconnections: drafts stay on the screen, the record does not lie, and *)
(* the last choice is on the keyboard unless there is an excuse.           *)
(***************************************************************************)
EXTENDS MCLightingPage, TLAPS

-----------------------------------------------------------------------------
(* Types *)

\* The mutations that begin: the page's, a scene's, another.
LEMMA MutationKinds ==
  /\ Idle \in Mutations
  /\ \A c \in Configs, o \in {"page", "scene"} : [owner |-> o, lighting |-> c] \in Mutations
  /\ \A m \in Mutations :
       /\ m.owner \in {"page", "scene"} => m.lighting \in Configs
       /\ m.owner \in {"nobody", "other"} => m.lighting = None
       /\ m.owner = "nobody" <=> m = Idle
  BY DEF Mutations, Idle

\* What a write leaves on the keyboard and in the record, and what it counts.
LEMMA WriteTypes ==
  ASSUME TypeOK, NEW c \in Configs, WriteOk(c) \/ WriteError(c)
  PROVE  /\ keyboard' \in Configs \cup {Other} /\ stored' \in Configs \cup {None}
         /\ faults' \in 0..MaxFaults /\ crashes' \in 0..MaxCrashes
<1>1. /\ keyboard' \in Configs \cup {Other} /\ stored' \in Configs \cup {None}
  BY DEF TypeOK, WriteOk, WriteError, NotStarted, Rejected, RejectedUncleared, Unrecorded, Killed
<1>2. (Fault \/ Crash \/ UNCHANGED <<faults, crashes>>)
  BY DEF WriteOk, WriteError, NotStarted, Rejected, RejectedUncleared, Unrecorded, Killed
<1> QED
  BY <1>1, <1>2, BudgetAssumption DEF TypeOK, Fault, Crash

LEMMA FireTypes == TypeOK /\ Fire => TypeOK'
<1> SUFFICES ASSUME TypeOK, Fire PROVE TypeOK'
  OBVIOUS
<1>1. UNCHANGED <<page, available, sensitive, machine, budgets>> /\ timer' = FALSE
  BY DEF Fire
<1>2. /\ written' \in Configs \cup {None} /\ pending' \in BOOLEAN
      /\ inFlight' \in BOOLEAN /\ failed' \in BOOLEAN
      /\ mutation' \in Mutations
  BY MutationKinds DEF TypeOK, Fire, Skip, Refused, Send, WriteFailed
<1> QED
  BY <1>1, <1>2 DEF TypeOK, machine, budgets

LEMMA PageDoneTypes == TypeOK /\ PageDone => TypeOK'
<1> SUFFICES ASSUME TypeOK, PageDone PROVE TypeOK'
  OBVIOUS
<1>1. UNCHANGED <<page, available, sensitive, plugged, effects, plugs>> /\ mutation' = Idle
  BY DEF PageDone
<1>2. mutation.lighting \in Configs
  BY MutationKinds DEF PageDone, TypeOK
<1>3. /\ keyboard' \in Configs \cup {Other} /\ stored' \in Configs \cup {None}
      /\ faults' \in 0..MaxFaults /\ crashes' \in 0..MaxCrashes
  BY <1>2, WriteTypes DEF PageDone
<1>4. /\ written' \in Configs \cup {None} /\ pending' \in BOOLEAN
      /\ inFlight' \in BOOLEAN /\ failed' \in BOOLEAN /\ timer' \in BOOLEAN
  BY DEF TypeOK, PageDone, Succeeded, WriteFailed
<1> QED
  BY <1>1, <1>3, <1>4, MutationKinds DEF TypeOK

LEMMA OtherDoneTypes == TypeOK /\ OtherDone => TypeOK'
<1> SUFFICES ASSUME TypeOK, OtherDone PROVE TypeOK'
  OBVIOUS
<1>1. UNCHANGED <<page, available, sensitive, writeVars, plugged, effects, plugs>> /\ mutation' = Idle
  BY DEF OtherDone
<1>2. /\ keyboard' \in Configs \cup {Other} /\ stored' \in Configs \cup {None}
      /\ faults' \in 0..MaxFaults /\ crashes' \in 0..MaxCrashes
  <2>1. CASE mutation.owner = "scene" /\ (WriteOk(mutation.lighting) \/ WriteError(mutation.lighting))
    <3>1. mutation.lighting \in Configs
      BY <2>1, MutationKinds DEF TypeOK
    <3> QED
      BY <2>1, <3>1, WriteTypes
  <2>2. CASE UNCHANGED <<keyboard, stored, faults, crashes>>
    BY <2>2 DEF TypeOK
  <2> QED
    BY <2>1, <2>2 DEF OtherDone
<1> QED
  BY <1>1, <1>2, MutationKinds DEF TypeOK, writeVars

LEMMA TypeStep == TypeOK /\ [Next]_vars => TypeOK'
<1> SUFFICES ASSUME TypeOK, [Next]_vars PROVE TypeOK'
  OBVIOUS
<1>1. CASE \E c \in Configs : Edit(c)
  BY <1>1 DEF TypeOK, Edit, Schedule, machine, budgets
<1>2. CASE OtherStarts
  BY <1>2 DEF TypeOK, OtherStarts, writeVars, machine, budgets
<1>3. CASE Refresh
  BY <1>3 DEF TypeOK, Refresh, writeVars, machine, budgets
<1>4. CASE FnSpace
  BY <1>4, BudgetAssumption DEF TypeOK, FnSpace, writeVars
<1>5. CASE Plug
  BY <1>5, BudgetAssumption DEF TypeOK, Plug, writeVars
<1>6. CASE UNCHANGED vars
  BY <1>6 DEF TypeOK, vars, writeVars, machine, budgets
<1> QED
  BY <1>1, <1>2, <1>3, <1>4, <1>5, <1>6, FireTypes, PageDoneTypes, OtherDoneTypes DEF Next

LEMMA InitTypes == Init => TypeOK
<1> SUFFICES ASSUME Init PROVE TypeOK
  OBVIOUS
<1>1. /\ faults \in 0..MaxFaults /\ crashes \in 0..MaxCrashes
      /\ effects \in 0..MaxEffects /\ plugs \in 0..MaxPlugs
  BY BudgetAssumption DEF Init
<1>2. mutation \in Mutations
  BY MutationKinds DEF Init
<1> QED
  BY <1>1, <1>2 DEF Init, TypeOK

\* The page with the user and the firmware beside it takes the steps of the page.
LEMMA MCStep == [MCNext]_mcvars => [Next]_vars
  BY DEF MCNext, mcvars, MCEdit, MCFire, MCPageDone, MCOtherStarts, MCOtherDone, MCRefresh,
         MCOutside, Next

\* The state of the page, of the window's mutation, of the keyboard and of the
\* record is well typed (DebouncedWrite, LightingPage, set_rgb_configuration).
THEOREM TypeCorrect == MCSpec => []TypeOK
<1>1. MCInit => TypeOK
  BY InitTypes DEF MCInit
<1>2. TypeOK /\ [MCNext]_mcvars => TypeOK'
  BY MCStep, TypeStep
<1> QED
  BY <1>1, <1>2, PTL DEF MCSpec

-----------------------------------------------------------------------------
(* The record *)

\* A write that ends with the helper alive leaves no record that lies, unless
\* it could not be written or removed.
LEMMA WriteRecords ==
  ASSUME TypeOK, NEW c, WriteOk(c) \/ WriteError(c), crashes' = 0, stored' # None
  PROVE  /\ crashes = 0
         /\ keyboard' = stored' \/ (keyboard' = keyboard /\ stored' = stored)
<1>1. ~Crash
  BY BudgetAssumption DEF Crash, TypeOK
<1>2. CASE WriteOk(c)
  BY <1>2 DEF WriteOk
<1>3. CASE WriteError(c)
  BY <1>1, <1>3 DEF WriteError, NotStarted, Rejected, RejectedUncleared, Unrecorded, Killed, Fault
<1> QED
  BY <1>2, <1>3

LEMMA RecordStep == TypeOK /\ RecordShows /\ [MCNext]_mcvars => RecordShows'
<1> SUFFICES ASSUME TypeOK, RecordShows, [MCNext]_mcvars,
                    stored' # None, ~outside', crashes' = 0
             PROVE  keyboard' = stored'
  BY DEF RecordShows
<1>1. CASE MCPageDone \/ (MCOtherDone /\ mutation.owner = "scene")
  <2>1. WriteOk(mutation.lighting) \/ WriteError(mutation.lighting)
    BY <1>1 DEF MCPageDone, MCOtherDone, PageDone, OtherDone
  <2>2. Rewritten
    BY <1>1 DEF MCPageDone, MCOtherDone
  <2>3. /\ crashes = 0
        /\ keyboard' = stored' \/ (keyboard' = keyboard /\ stored' = stored)
    BY <2>1, WriteRecords DEF RecordShows
  <2> QED
    BY <2>2, <2>3 DEF Rewritten, RecordShows
<1>2. CASE MCOtherDone /\ mutation.owner # "scene"
  BY <1>2 DEF MCOtherDone, OtherDone, Rewritten, RecordShows
<1>3. CASE MCOutside
  BY <1>3 DEF MCOutside
<1>4. CASE MCEdit \/ MCFire \/ MCOtherStarts \/ MCRefresh \/ UNCHANGED mcvars
  <2>1. keyboard' = keyboard /\ stored' = stored /\ crashes' = crashes /\ outside' = outside
    BY <1>4 DEF MCEdit, MCFire, MCOtherStarts, MCRefresh, Edit, Fire, OtherStarts, Refresh,
                machine, budgets, ghosts, mcvars, vars
  <2> QED
    BY <2>1 DEF RecordShows
<1> QED
  BY <1>1, <1>2, <1>3, <1>4 DEF MCNext

\* rgb-config.json is absent or names what the keyboard shows, whichever
\* reports were refused and whoever wrote last, until the firmware changes the
\* keyboard or a helper dies or cannot write the record
\* (set_rgb_configuration of helper.py).
THEOREM RecordIsTrue == MCSpec => []RecordShows
<1>1. MCInit => RecordShows
  BY DEF MCInit, RecordShows
<1> QED
  BY <1>1, RecordStep, TypeCorrect, PTL DEF MCSpec

-----------------------------------------------------------------------------
(* The draft *)

\* What is due is pending, and the page's mutation is the write in flight.
DraftInv ==
  /\ timer => pending
  /\ inFlight <=> mutation.owner = "page"
  /\ DraftKept

LEMMA DraftFire == TypeOK /\ DraftInv /\ MCFire => DraftInv'
<1> SUFFICES ASSUME TypeOK, DraftInv, MCFire PROVE DraftInv'
  OBVIOUS
<1>1. /\ page' = page /\ chosen' = chosen /\ ~timer' /\ page = chosen
  BY DEF MCFire, Fire, DraftInv, DraftKept
<1>2. inFlight' <=> mutation'.owner = "page"
  <2>1. CASE Send
    BY <2>1 DEF Send
  <2>2. CASE Refused /\ ~inFlight
    BY <2>2 DEF Refused, WriteFailed, DraftInv
  <2>3. CASE UNCHANGED <<inFlight, mutation>>
    BY <2>3 DEF DraftInv
  <2> QED
    BY <2>1, <2>2, <2>3 DEF MCFire, Fire, Skip
<1> QED
  BY <1>1, <1>2 DEF DraftInv, DraftKept

LEMMA DraftPageDone == TypeOK /\ DraftInv /\ MCPageDone => DraftInv'
<1> SUFFICES ASSUME TypeOK, DraftInv, MCPageDone PROVE DraftInv'
  OBVIOUS
<1>1. page' = page /\ chosen' = chosen /\ page = chosen
  BY DEF MCPageDone, PageDone, DraftInv, DraftKept
<1>2. ~inFlight' /\ mutation'.owner # "page"
  BY DEF MCPageDone, PageDone, Succeeded, WriteFailed, Idle
<1>3. timer' => pending'
  <2>1. CASE Succeeded
    <3>1. timer' => timer \/ pending
      BY <2>1 DEF Succeeded
    <3>2. pending' <=> pending
      BY <2>1 DEF Succeeded
    <3> QED
      BY <3>1, <3>2 DEF DraftInv
  <2>2. CASE UNCHANGED <<timer, pending>>
    BY <2>2 DEF DraftInv
  <2> QED
    BY <2>1, <2>2 DEF MCPageDone, PageDone
<1> QED
  BY <1>1, <1>2, <1>3 DEF DraftInv, DraftKept

LEMMA DraftStep == TypeOK /\ DraftInv /\ [MCNext]_mcvars => DraftInv'
<1> SUFFICES ASSUME TypeOK, DraftInv, [MCNext]_mcvars PROVE DraftInv'
  OBVIOUS
<1>1. CASE MCEdit
  BY <1>1 DEF MCEdit, Edit, Schedule, DraftInv, DraftKept
<1>2. CASE MCOtherStarts
  <2>1. UNCHANGED <<page, writeVars, chosen>> /\ mutation.owner # "page" /\ mutation'.owner # "page"
    BY <1>2 DEF MCOtherStarts, OtherStarts, ghosts, Idle
  <2> QED
    BY <2>1 DEF DraftInv, DraftKept, writeVars
<1>3. CASE MCOtherDone
  <2>1. UNCHANGED <<page, writeVars, chosen>> /\ mutation.owner # "page" /\ mutation'.owner # "page"
    BY <1>3 DEF MCOtherDone, OtherDone, Idle
  <2> QED
    BY <2>1 DEF DraftInv, DraftKept, writeVars
<1>4. CASE MCRefresh
  BY <1>4 DEF MCRefresh, Refresh, Settled, writeVars, ghosts, DraftInv, DraftKept
<1>5. CASE MCOutside
  BY <1>5 DEF MCOutside, FnSpace, Plug, writeVars, DraftInv, DraftKept
<1>6. CASE UNCHANGED mcvars
  BY <1>6 DEF mcvars, vars, writeVars, ghosts, DraftInv, DraftKept
<1> QED
  BY <1>1, <1>2, <1>3, <1>4, <1>5, <1>6, DraftFire, DraftPageDone DEF MCNext

LEMMA DraftAlways == MCSpec => []DraftInv
<1>1. MCInit => DraftInv
  BY DEF MCInit, Init, Idle, DraftInv, DraftKept
<1> QED
  BY <1>1, DraftStep, TypeCorrect, PTL DEF MCSpec

\* From the edit until the helper has accepted it, through refusals and failed
\* writes, no status replaces the user's choice on the page (DebouncedWrite,
\* update_status of ui_lighting.py).
THEOREM DraftStays == MCSpec => []DraftKept
<1>1. DraftInv => DraftKept
  BY DEF DraftInv
<1> QED
  BY <1>1, DraftAlways, PTL

-----------------------------------------------------------------------------
(* The last choice *)

\* A page that knows the keyboard gone is right, unless the user has an excuse.
Gone == chosen # None /\ since = {} /\ ~available => ~plugged

\* A choice that was dealt with is the one sent last.
SentLast == chosen # None /\ ~pending /\ since = {} => written = chosen \/ ~available

\* The write in flight carries what was sent last, and that is what the keyboard
\* shows once it has ended.
Carried ==
  /\ mutation.owner = "page" => written = mutation.lighting
  /\ ~disturbed => mutation.owner = "page" \/ written = None \/ keyboard = written

ChoiceInv == Gone /\ SentLast /\ Carried

LEMMA ChoiceFire == TypeOK /\ DraftInv /\ ChoiceInv /\ MCFire => ChoiceInv'
<1> SUFFICES ASSUME TypeOK, DraftInv, ChoiceInv, MCFire PROVE ChoiceInv'
  OBVIOUS
<1>1. /\ UNCHANGED <<chosen, available, plugged, keyboard>>
      /\ page = chosen /\ page # None
      /\ since' = {} => since = {}
  BY ConfigsAssumption DEF MCFire, Fire, machine, DraftInv, DraftKept, TypeOK
<1>2. Gone'
  BY <1>1 DEF Gone, ChoiceInv
<1>3. CASE inFlight /\ UNCHANGED <<pending, written, inFlight, failed, mutation>>
  <2>1. SentLast'
    BY <1>1, <1>3 DEF SentLast, ChoiceInv
  <2>2. Carried'
    BY <1>1, <1>3 DEF Carried, ChoiceInv, DraftInv
  <2> QED
    BY <1>2, <2>1, <2>2 DEF ChoiceInv
<1>4. CASE ~inFlight /\ Skip
  <2>1. SentLast'
    BY <1>1, <1>4 DEF SentLast, Skip
  <2>2. ~disturbed' => ~disturbed
    <3>1. ~inFlight'
      BY <1>4 DEF Skip
    <3> QED
      BY <3>1 DEF MCFire
  <2>3. Carried'
    BY <1>1, <1>4, <2>2 DEF Skip, Carried, ChoiceInv
  <2> QED
    BY <1>2, <2>1, <2>3 DEF ChoiceInv
<1>5. CASE ~inFlight /\ Refused
  <2>1. SentLast'
    BY <1>1, <1>5 DEF MCFire, SentLast, Refused, WriteFailed
  <2>2. Carried'
    BY <1>5 DEF Refused, WriteFailed, Carried, DraftInv
  <2> QED
    BY <1>2, <2>1, <2>2 DEF ChoiceInv
<1>6. CASE ~inFlight /\ Send
  <2>1. SentLast'
    BY <1>1, <1>6 DEF SentLast, Send
  <2>2. Carried'
    BY <1>6 DEF Send, Carried
  <2> QED
    BY <1>2, <2>1, <2>2 DEF ChoiceInv
<1> QED
  BY <1>3, <1>4, <1>5, <1>6 DEF MCFire, Fire

LEMMA ChoicePageDone == TypeOK /\ DraftInv /\ ChoiceInv /\ MCPageDone => ChoiceInv'
<1> SUFFICES ASSUME TypeOK, DraftInv, ChoiceInv, MCPageDone PROVE ChoiceInv'
  OBVIOUS
<1>1. /\ UNCHANGED <<chosen, available, plugged, disturbed>>
      /\ mutation.owner = "page" /\ mutation' = Idle
      /\ since' = {} => since = {} /\ ~failed'
  BY DEF MCPageDone, PageDone
<1>2. Gone'
  BY <1>1 DEF Gone, ChoiceInv
<1>3. CASE WriteOk(mutation.lighting) /\ Succeeded
  <2>1. UNCHANGED <<written, pending>> /\ keyboard' = mutation.lighting
    BY <1>3 DEF WriteOk, Succeeded
  <2>2. SentLast'
    BY <1>1, <2>1 DEF SentLast, ChoiceInv
  <2>3. Carried'
    BY <1>1, <2>1 DEF Carried, ChoiceInv, Idle
  <2> QED
    BY <1>2, <2>2, <2>3 DEF ChoiceInv
<1>4. CASE WriteFailed
  BY <1>1, <1>2, <1>4 DEF WriteFailed, SentLast, Carried, ChoiceInv, Idle
<1> QED
  BY <1>3, <1>4 DEF MCPageDone, PageDone

LEMMA ChoiceOtherDone == TypeOK /\ ChoiceInv /\ MCOtherDone => ChoiceInv'
<1> SUFFICES ASSUME TypeOK, ChoiceInv, MCOtherDone PROVE ChoiceInv'
  OBVIOUS
<1>1. /\ UNCHANGED <<chosen, available, plugged, written, pending>>
      /\ mutation.owner # "page" /\ mutation' = Idle
      /\ since' = {} => since = {}
      /\ ~disturbed' => ~disturbed /\ keyboard' = keyboard
  BY DEF MCOtherDone, OtherDone, writeVars
<1> QED
  BY <1>1 DEF ChoiceInv, Gone, SentLast, Carried, Idle

LEMMA ChoiceStep == TypeOK /\ DraftInv /\ ChoiceInv /\ [MCNext]_mcvars => ChoiceInv'
<1> SUFFICES ASSUME TypeOK, DraftInv, ChoiceInv, [MCNext]_mcvars PROVE ChoiceInv'
  OBVIOUS
<1>1. CASE MCEdit
  <2>1. /\ UNCHANGED <<available, written, mutation, keyboard, plugged, disturbed>>
        /\ pending' = TRUE /\ (since' = {} => available)
    BY <1>1 DEF MCEdit, Edit, Schedule, machine
  <2> QED
    BY <2>1 DEF ChoiceInv, Gone, SentLast, Carried
<1>2. CASE MCOtherStarts
  <2>1. /\ UNCHANGED <<available, written, pending, keyboard, plugged, ghosts>>
        /\ mutation.owner # "page" /\ mutation'.owner # "page"
    BY <1>2 DEF MCOtherStarts, OtherStarts, writeVars, machine, Idle
  <2> QED
    BY <2>1 DEF ChoiceInv, Gone, SentLast, Carried, ghosts
<1>3. CASE MCRefresh
  <2>1. /\ UNCHANGED <<written, pending, mutation, keyboard, plugged, ghosts>>
        /\ available' = plugged
    BY <1>3 DEF MCRefresh, Refresh, writeVars, machine
  <2> QED
    BY <2>1 DEF ChoiceInv, Gone, SentLast, Carried, ghosts, TypeOK
<1>4. CASE MCOutside
  <2>1. /\ UNCHANGED <<written, pending, mutation>>
        /\ disturbed' = TRUE /\ since' # {}
    BY <1>4 DEF MCOutside, FnSpace, Plug, writeVars
  <2> QED
    BY <2>1 DEF ChoiceInv, Gone, SentLast, Carried
<1>5. CASE UNCHANGED mcvars
  BY <1>5 DEF mcvars, vars, writeVars, machine, ghosts, ChoiceInv, Gone, SentLast, Carried
<1> QED
  BY <1>1, <1>2, <1>3, <1>4, <1>5, ChoiceFire, ChoicePageDone, ChoiceOtherDone DEF MCNext

\* The user's last choice is what the keyboard shows once it has been dealt with:
\* an edit made during a write, a write refused or failed, and the skip of a write
\* that seems done never lose it in silence (DebouncedWrite,
\* _perform_static_write, set_rgb_configuration).
THEOREM ChoiceReachesKeyboard == MCSpec => []ChoiceShows
<1>1. MCInit => ChoiceInv
  BY DEF MCInit, Init, Idle, ChoiceInv, Gone, SentLast, Carried
<1>2. TypeOK /\ DraftInv /\ ChoiceInv => ChoiceShows
  <2> SUFFICES ASSUME TypeOK, DraftInv, ChoiceInv, Unexcused, ~disturbed
               PROVE  keyboard = chosen
    BY DEF ChoiceShows
  <2>1. written = chosen
    BY DEF Unexcused, ChoiceInv, SentLast
  <2>2. mutation.owner # "page"
    BY DEF Unexcused, DraftInv
  <2> QED
    BY <2>1, <2>2 DEF Unexcused, ChoiceInv, Carried
<1> QED
  BY <1>1, <1>2, ChoiceStep, TypeCorrect, DraftAlways, PTL DEF MCSpec
=============================================================================
