--------------------------- MODULE MCLightingPage ---------------------------
(* LightingPage on small instances, with what the user has asked for and been *)
(* told, and who has changed the keyboard.                                    *)
EXTENDS LightingPage

VARIABLES
  chosen,     \* the user's last choice
  disturbed,  \* the keyboard was changed behind the page since it last sent
  since,      \* about the last choice: "told" of a failure since, keyboard
              \* "changed" from outside since, made too "early" for a status
  outside     \* the firmware has changed the keyboard since the last full write

ghosts == <<chosen, disturbed, since, outside>>
mcvars == <<vars, ghosts>>

MCInit ==
  /\ Init
  /\ chosen = None /\ disturbed = TRUE /\ since = {}
  /\ outside = TRUE

MCEdit ==
  \E c \in Configs :
    /\ Edit(c)
    /\ chosen' = c
    /\ since' = IF available THEN {} ELSE {"early"}
    /\ UNCHANGED <<disturbed, outside>>

MCFire ==
  /\ Fire
  /\ disturbed' = (disturbed /\ ~inFlight')
  /\ since' = IF failed' /\ ~inFlight /\ written' = None /\ written # page
              THEN since \cup {"told"} ELSE since
  /\ UNCHANGED <<chosen, outside>>

Rewritten ==
  outside' = (outside /\ ~(keyboard' = mutation.lighting /\ stored' = mutation.lighting))

MCPageDone ==
  /\ PageDone
  /\ since' = IF failed' THEN since \cup {"told"} ELSE since
  /\ Rewritten
  /\ UNCHANGED <<chosen, disturbed>>

MCOtherStarts == OtherStarts /\ UNCHANGED ghosts

MCOtherDone ==
  /\ OtherDone
  /\ IF mutation.owner = "scene"
     THEN disturbed' = TRUE /\ since' = since \cup {"changed"}
     ELSE UNCHANGED <<disturbed, since>>
  /\ Rewritten
  /\ UNCHANGED chosen

MCRefresh == Refresh /\ UNCHANGED ghosts

MCOutside ==
  /\ FnSpace \/ Plug
  /\ disturbed' = TRUE
  /\ since' = since \cup {"changed"}
  /\ outside' = TRUE
  /\ UNCHANGED chosen

MCNext ==
  \/ MCEdit \/ MCFire \/ MCPageDone \/ MCOtherStarts \/ MCOtherDone \/ MCRefresh
  \/ MCOutside

MCSpec == MCInit /\ [][MCNext]_mcvars

\* GLib runs timers that are due, and a write ends: the helper's waits and the
\* client's are bounded.
MCLiveSpec == MCSpec /\ WF_mcvars(MCFire) /\ WF_mcvars(MCPageDone \/ MCOtherDone)

-----------------------------------------------------------------------------

\* The user's last choice has been dealt with, and nothing that the program saw
\* or the user was told of explains a keyboard that differs from it.
Unexcused == chosen # None /\ ~pending /\ ~inFlight /\ available /\ since = {}

\* What the user chose last is what the keyboard shows, unless a failure was
\* reported, something else than the page has changed the keyboard, or the
\* choice came before the first status: no edit is lost to a write in flight,
\* to a refused write or to the skip of a write.
ChoiceShows == Unexcused /\ ~disturbed => keyboard = chosen

\* "Re-applying a preset stays available as a way to recover after Fn+Space"
\* (ui_lighting.py, docs/SAFETY.md): the same, when the keyboard was changed behind the
\* page before the user chose.
ReapplyReachesKeyboard == Unexcused => keyboard = chosen

\* Until it has been written, the user's choice stays on screen: a status never
\* replaces it, nor after a failed write.
DraftKept == pending \/ inFlight \/ failed => page = chosen

\* "An edit made while the helper was busy still has to reach the keyboard"
\* (DebouncedWrite.succeeded): every edit is sent, or refused, in the end.
EditsSent == pending ~> ~pending

\* The same, unless a failed write was reported.
EditsSentUnlessFailed == pending ~> ~pending \/ failed

\* "A failed sequence removes this saved state because partial controller state
\* is unknowable" (docs/TROUBLESHOOTING.md): rgb-config.json is absent or names
\* what the keyboard shows, unless Fn+Space or a disconnection changed it since,
\* or a helper was killed or could not write or remove the record.
RecordShows == stored # None /\ ~outside /\ crashes = 0 => keyboard = stored
=============================================================================
