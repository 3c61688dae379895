----------------------------- MODULE SceneFiles -----------------------------
(***************************************************************************)
(* The scenes and the rules of the power source, as their files and as the *)
(* window keeps them: scenes.py and ui_scenes.py, the store of             *)
(* automation.py and ui_automation.py.  The panel loads the scenes once    *)
(* and saves all of them together; the automation of the main window       *)
(* loads them again at every change of the power source.  A save can fail  *)
(* before the file is replaced or after it, a load can fail, and the       *)
(* process can be killed in a save.                                        *)
(*                                                                         *)
(* A scene is whether its fans are manual, its power limits (0 without     *)
(* them) and its lighting; the profiles that are not custom are one.       *)
(***************************************************************************)
EXTENDS Integers

CONSTANTS
  Slots,           \* SceneSlot
  Game,            \* the slot whose default is manual
  Watts,           \* power limits
  Lightings,       \* configurations of the keyboard
  DefaultLighting, \* the default scenes' one
  Readings,        \* bound: the statuses that arrive
  Kept,            \* files of scenes an earlier session may have left
  MaxSceneFaults   \* bound: saves and loads that fail, and kills

Scenes == [manual : {FALSE}, power : {0}, lighting : Lightings]
            \cup [manual : {TRUE}, power : Watts, lighting : Lightings]
AllScenes == [Slots -> Scenes]

\* What a status says of the machine: its fans and profile ("torn" when they
\* do not form a scene), its power limits, and its lighting, 0 if unreadable.
Statuses == [fans : {"firmware", "manual", "torn"}, power : Watts,
             lighting : Lightings \cup {0}]

ASSUME SceneAssumption ==
  /\ Game \in Slots
  /\ Watts \subseteq Nat \ {0} /\ Watts # {}
  /\ 0 \notin Lightings /\ DefaultLighting \in Lightings
  /\ Readings \subseteq Statuses
  /\ Kept \subseteq AllScenes
  /\ MaxSceneFaults \in Nat

VARIABLES
  sceneFile,    \* scenes.json
  panel,        \* _scenes
  rows,         \* the subtitles
  latest,       \* _latest_status
  saidSaved,    \* by slot, the last scene reported as saved
  refused,      \* by slot, the scenes whose save failed since
  unloaded,     \* the panel could not load the file
  sceneErrors,  \* an error of the scenes was shown in this process
  sceneFaults   \* faults so far

sceneVars == <<sceneFile, panel, rows, latest, saidSaved, refused, unloaded, sceneErrors,
               sceneFaults>>

Unknown == [manual |-> FALSE, power |-> 0, lighting |-> 0]
Nothing == [s \in Slots |-> Unknown]

NoStatus == [fans |-> "torn", power |-> CHOOSE w \in Watts : TRUE, lighting |-> 0]

\* kind: not there, valid, or refused by every load.
SceneDocuments == [kind : {"absent", "valid", "broken"}, scenes : [Slots -> Scenes \cup {Unknown}]]
Valid(scenes) == [kind |-> "valid", scenes |-> scenes]

SceneTypeOK ==
  /\ sceneFile \in SceneDocuments
  /\ panel \in AllScenes \cup {Nothing}
  /\ rows \in [Slots -> Scenes \cup {Unknown}]
  /\ latest \in Statuses
  /\ saidSaved \in [Slots -> Scenes \cup {Unknown}]
  /\ refused \in [Slots -> SUBSET Scenes]
  /\ unloaded \in BOOLEAN /\ sceneErrors \in BOOLEAN
  /\ sceneFaults \in 0..MaxSceneFaults

-----------------------------------------------------------------------------

SceneFault == sceneFaults < MaxSceneFaults /\ sceneFaults' = sceneFaults + 1

\* default_scenes: only the manual one depends on the status.
Defaults(status) ==
  [s \in Slots |-> [manual |-> s = Game, power |-> IF s = Game THEN status.power ELSE 0,
                    lighting |-> DefaultLighting]]

\* load_scenes_for_status, when the file can be read.
LoadOrDefaults(status) ==
  IF sceneFile.kind = "absent" THEN Defaults(status) ELSE sceneFile.scenes

\* _scene_from_status, of a status that is a scene.
Captured(status, before) ==
  [manual |-> status.fans = "manual",
   power |-> IF status.fans = "manual" THEN status.power ELSE 0,
   lighting |-> IF status.lighting = 0 THEN before.lighting ELSE status.lighting]

Loaded == panel # Nothing

\* update_status of the panel: the first one loads, and every one shows.
ShowStatus(status) ==
  /\ latest' = status
  /\ \/ /\ Loaded
        /\ UNCHANGED <<panel, unloaded, sceneErrors, sceneFaults>>
     \/ /\ ~Loaded /\ sceneFile.kind # "broken"
        /\ panel' = LoadOrDefaults(status)
        /\ UNCHANGED <<unloaded, sceneErrors, sceneFaults>>
     \/ /\ ~Loaded /\ sceneFile.kind # "absent"
        /\ IF sceneFile.kind = "broken" THEN UNCHANGED sceneFaults ELSE SceneFault
        /\ panel' = Defaults(status)
        /\ unloaded' = TRUE /\ sceneErrors' = TRUE
  /\ rows' = panel'
  /\ UNCHANGED <<sceneFile, saidSaved, refused>>

\* The panel keeps the scene before it is saved, and the file gets all of them.
SaveScene_Alone(slot) ==   \* Slip: the other slots are written as they come.
  /\ Loaded /\ latest.fans # "torn"
  /\ LET scene == Captured(latest, panel[slot])
     IN  /\ panel' = [panel EXCEPT ![slot] = scene]
         /\ sceneFile' = Valid([Defaults(latest) EXCEPT ![slot] = scene])
         /\ rows' = [rows EXCEPT ![slot] = scene]
         /\ saidSaved' = [saidSaved EXCEPT ![slot] = scene]
         /\ refused' = [refused EXCEPT ![slot] = {}]
  /\ UNCHANGED <<latest, unloaded, sceneErrors, sceneFaults>>

\* Slip: the panel keeps what it had.
SaveScene_OnDisk(slot) ==
  /\ Loaded /\ latest.fans # "torn"
  /\ LET scene == Captured(latest, panel[slot])
     IN  /\ sceneFile' = Valid([panel EXCEPT ![slot] = scene])
         /\ rows' = [rows EXCEPT ![slot] = scene]
         /\ saidSaved' = [saidSaved EXCEPT ![slot] = scene]
         /\ refused' = [refused EXCEPT ![slot] = {}]
  /\ UNCHANGED <<panel, latest, unloaded, sceneErrors, sceneFaults>>

SaveScene(slot) ==
  /\ Loaded /\ latest.fans # "torn"
  /\ LET scene == Captured(latest, panel[slot])
     IN  /\ panel' = [panel EXCEPT ![slot] = scene]
         /\ \/ /\ sceneFile' = Valid(panel')
               /\ rows' = [rows EXCEPT ![slot] = scene]
               /\ saidSaved' = [saidSaved EXCEPT ![slot] = scene]
               /\ refused' = [refused EXCEPT ![slot] = {}]
               /\ UNCHANGED <<sceneErrors, sceneFaults>>
            \/ /\ SceneFault
               /\ sceneErrors' = TRUE
               /\ sceneFile' \in {sceneFile, Valid(panel')}
               /\ refused' = [refused EXCEPT ![slot] = @ \cup {scene}]
               /\ UNCHANGED <<rows, saidSaved>>
  /\ UNCHANGED <<latest, unloaded>>

\* The status is no scene: an error, and nothing else.
SaveRefused ==
  /\ Loaded /\ latest.fans = "torn"
  /\ sceneErrors' = TRUE
  /\ UNCHANGED <<sceneFile, panel, rows, latest, saidSaved, refused, unloaded, sceneFaults>>

\* The process ends, possibly while it saves a slot, and starts again.
RestartScenes ==
  /\ \/ UNCHANGED <<sceneFile, refused, sceneFaults>>
     \/ \E slot \in Slots :
          /\ Loaded /\ latest.fans # "torn"
          /\ SceneFault
          /\ LET scene == Captured(latest, panel[slot])
             IN  /\ sceneFile' = Valid([panel EXCEPT ![slot] = scene])
                 /\ refused' = [refused EXCEPT ![slot] = @ \cup {scene}]
  /\ panel' = Nothing /\ rows' = Nothing /\ latest' = NoStatus
  /\ sceneErrors' = FALSE
  /\ UNCHANGED <<saidSaved, unloaded>>

SceneInit ==
  /\ sceneFile \in {[kind |-> k, scenes |-> Nothing] : k \in {"absent", "broken"}}
                     \cup {Valid(f) : f \in Kept}
  /\ panel = Nothing /\ rows = Nothing /\ latest = NoStatus
  /\ saidSaved = sceneFile.scenes
  /\ refused = [s \in Slots |-> {}]
  /\ unloaded = FALSE /\ sceneErrors = FALSE /\ sceneFaults = 0

SceneNext ==
  \/ \E status \in Readings : ShowStatus(status)
  \/ \E slot \in Slots : SaveScene(slot)
  \/ SaveRefused
  \/ RestartScenes

SceneSpec == SceneInit /\ [][SceneNext]_sceneVars

-----------------------------------------------------------------------------

\* A scene reported as saved is the one the file has, or a later one whose
\* save failed, through saves of the other slots, failures, kills and
\* restarts, as long as the file could be loaded each time (the panel shows
\* an error, takes the defaults, and the next save of any slot writes them).
SavedScenesKept ==
  ~unloaded =>
    \A s \in Slots :
      saidSaved[s] # Unknown =>
        sceneFile.kind = "valid" /\ sceneFile.scenes[s] \in {saidSaved[s]} \cup refused[s]

\* What the Aplicar button of the panel applies, what its row shows and what
\* the automation of the main window would apply at a change of the power
\* source are one scene, unless an error was shown, or there is no file: then
\* the automation takes the default for the limits of its own status.
OneScene ==
  (Loaded /\ ~sceneErrors) =>
    /\ rows = panel
    /\ \A s \in Slots :
         LoadOrDefaults(latest)[s] = panel[s] \/ (sceneFile.kind = "absent" /\ s = Game)
=============================================================================
