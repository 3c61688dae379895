---------------------------- MODULE MCMainWindow ----------------------------
(* MainWindow on small instances, with the fan edits the user has made. *)
EXTENDS MainWindow

VARIABLE mine   \* the user's last unapplied edit of the fans, made while no
                \* change of the fans was running; None without one

mcvars == <<vars, mine>>

\* One start is enough: the user and one change from elsewhere lead on to the
\* other profiles, policies and power sources.
MCInit ==
  /\ Init
  /\ machine = [profile |-> "fast", source |-> "ac", policy |-> Automatic]
  /\ row = "quiet"
  /\ mine = None

FansBusy == mutation.owner \in {"apply", "restore"}

MCEdit ==
  \E d \in Policies \cup {Automatic} :
    EditFans(d) /\ mine' = IF FansBusy THEN None ELSE d

MCFinish ==
  /\ FinishMutation
  /\ mine' = IF FansBusy /\ mutation.ok THEN None ELSE mine

MCUser ==
  /\ \/ \E p \in Profiles : SelectProfile(p)
     \/ ApplyFans \/ RestoreFans
     \/ \E goal \in Scenes : ApplyScene(goal)
     \/ OtherChange
  /\ UNCHANGED mine

MCMutator == Mutator /\ UNCHANGED mine
MCReader == Reader /\ UNCHANGED mine
MCCallback ==
  \/ MCFinish
  \/ (RunRequest \/ DropRead \/ FinishReadError \/ Display) /\ UNCHANGED mine
MCTick == Tick /\ UNCHANGED mine
MCExternal == External /\ UNCHANGED mine

MCNext == MCEdit \/ MCUser \/ MCMutator \/ MCReader \/ MCCallback \/ MCTick \/ MCExternal

MCSpec == MCInit /\ [][MCNext]_mcvars

\* A status never replaces an edit of the fans that has not been applied.  An
\* edit made while an apply or a restore runs is not protected: its success
\* takes the editor for applied.
FanDraftKept == mine # None => editor = mine /\ dirty

SceneOf(policy, profile) == [policy |-> policy, profile |-> profile]
MCScenes == {SceneOf(Automatic, "quiet")}
MCRule == [battery |-> SceneOf(Automatic, "quiet")]
=============================================================================
