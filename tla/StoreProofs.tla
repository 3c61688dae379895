---------------------------- MODULE StoreProofs ----------------------------
(***************************************************************************)
(* Two of the program's small files.  The promises of SceneFiles, for any  *)
(* slots, scenes, statuses and faults, and of UpdateNotice, for every      *)
(* interval, every run of published versions and any number of failed      *)
(* saves and loads.                                                        *)
(***************************************************************************)
EXTENDS SceneFiles, UpdateNotice, TLAPS

-----------------------------------------------------------------------------
(* The scenes *)

\* A file that can be read has a scene for every slot.
FileWhole == sceneFile.kind = "valid" => sceneFile.scenes \in AllScenes

\* While nothing failed to load, a slot said to be saved has in the panel, too,
\* the scene said or one refused since.
PanelKept ==
  (~unloaded /\ Loaded) =>
    \A s \in Slots : saidSaved[s] # Unknown => panel[s] \in {saidSaved[s]} \cup refused[s]

\* A panel that has shown no error did not come from a broken file.
CleanPanel == (Loaded /\ ~sceneErrors) => sceneFile.kind # "broken"

SceneInv ==
  /\ SceneTypeOK /\ FileWhole
  /\ SavedScenesKept /\ PanelKept
  /\ CleanPanel /\ OneScene

-----------------------------------------------------------------------------

\* A status that is no torn one is captured as a scene.
LEMMA CapturedType ==
  ASSUME NEW status \in Statuses, NEW before \in Scenes
  PROVE  Captured(status, before) \in Scenes
<1>1. before.lighting \in Lightings
  BY DEF Scenes
<1>2. status.power \in Watts /\ status.lighting \in Lightings \cup {0}
  BY DEF Statuses
<1> DEFINE l == IF status.lighting = 0 THEN before.lighting ELSE status.lighting
<1>3. l \in Lightings
  BY <1>1, <1>2
<1> HIDE DEF l
<1>4. CASE status.fans = "manual"
  <2>1. Captured(status, before) = [manual |-> TRUE, power |-> status.power, lighting |-> l]
    BY <1>4 DEF Captured, l
  <2> QED
    BY <1>2, <1>3, <2>1 DEF Scenes
<1>5. CASE status.fans # "manual"
  <2>1. Captured(status, before) = [manual |-> FALSE, power |-> 0, lighting |-> l]
    BY <1>5 DEF Captured, l
  <2> QED
    BY <1>3, <2>1 DEF Scenes
<1> QED
  BY <1>4, <1>5

\* The default scenes are scenes, and only the manual one depends on the status.
LEMMA DefaultScenesType ==
  ASSUME NEW status \in Statuses
  PROVE  /\ Defaults(status) \in AllScenes
         /\ \A other \in Statuses, s \in Slots :
              s # Game => Defaults(other)[s] = Defaults(status)[s]
<1>1. status.power \in Watts /\ DefaultLighting \in Lightings
  BY SceneAssumption DEF Statuses
<1>2. ASSUME NEW s \in Slots
      PROVE  [manual |-> s = Game, power |-> IF s = Game THEN status.power ELSE 0,
              lighting |-> DefaultLighting] \in Scenes
  <2>1. CASE s = Game
    BY <1>1, <2>1 DEF Scenes
  <2>2. CASE s # Game
    BY <1>1, <2>2 DEF Scenes
  <2> QED
    BY <2>1, <2>2
<1>3. Defaults(status) \in AllScenes
  BY <1>2 DEF Defaults, AllScenes
<1>4. ASSUME NEW other \in Statuses, NEW s \in Slots, s # Game
      PROVE  Defaults(other)[s] = Defaults(status)[s]
  BY <1>4 DEF Defaults
<1> QED
  BY <1>3, <1>4

\* A panel that is loaded has a scene for every slot.
LEMMA SceneLoadedType ==
  ASSUME SceneTypeOK, Loaded
  PROVE  panel \in AllScenes /\ \A s \in Slots : panel[s] \in Scenes
  BY DEF SceneTypeOK, Loaded, AllScenes

\* A fault is counted within its bound.
LEMMA FaultType ==
  ASSUME SceneTypeOK, SceneFault
  PROVE  sceneFaults' \in 0..MaxSceneFaults
<1>1. MaxSceneFaults \in Nat /\ sceneFaults \in 0..MaxSceneFaults
  BY SceneAssumption DEF SceneTypeOK
<1> QED
  BY <1>1 DEF SceneFault

\* The scenes of a panel make a file that can be read.
LEMMA ValidType ==
  ASSUME NEW scenes \in AllScenes
  PROVE  /\ Valid(scenes) \in SceneDocuments
         /\ Valid(scenes).kind = "valid" /\ Valid(scenes).scenes = scenes
<1>1. scenes \in [Slots -> Scenes \cup {Unknown}]
  BY DEF AllScenes
<1> QED
  BY <1>1 DEF Valid, SceneDocuments

-----------------------------------------------------------------------------

LEMMA SceneInitInv == SceneInit => SceneInv
<1>1. SUFFICES ASSUME SceneInit PROVE SceneInv
  OBVIOUS
<1>2. /\ panel = Nothing /\ rows = Nothing /\ latest = NoStatus
      /\ saidSaved = sceneFile.scenes
      /\ refused = [s \in Slots |-> {}]
      /\ unloaded = FALSE /\ sceneErrors = FALSE /\ sceneFaults = 0
  BY <1>1 DEF SceneInit
<1>3. Nothing \in [Slots -> Scenes \cup {Unknown}]
  BY DEF Nothing
<1>4. NoStatus \in Statuses
  <2>1. (CHOOSE w \in Watts : TRUE) \in Watts
    BY SceneAssumption
  <2> QED
    BY <2>1 DEF NoStatus, Statuses
<1>5. /\ sceneFile \in SceneDocuments /\ FileWhole
      /\ sceneFile.kind = "valid" \/ sceneFile.scenes = Nothing
  <2>1. CASE sceneFile \in {[kind |-> k, scenes |-> Nothing] : k \in {"absent", "broken"}}
    BY <1>3, <2>1 DEF SceneDocuments, FileWhole
  <2>2. CASE sceneFile \in {Valid(f) : f \in Kept}
    <3>1. PICK f \in AllScenes : sceneFile = Valid(f)
      BY <2>2, SceneAssumption
    <3> QED
      BY <3>1, ValidType DEF FileWhole
  <2> QED
    BY <1>1, <2>1, <2>2 DEF SceneInit
<1>6. saidSaved \in [Slots -> Scenes \cup {Unknown}]
  BY <1>2, <1>5 DEF SceneDocuments
<1>7. sceneFaults \in 0..MaxSceneFaults
  BY <1>2, SceneAssumption
<1>8. SceneTypeOK
  BY <1>2, <1>3, <1>4, <1>5, <1>6, <1>7 DEF SceneTypeOK
<1>9. SavedScenesKept
  BY <1>2, <1>5 DEF SavedScenesKept, Nothing
<1> QED
  BY <1>2, <1>5, <1>8, <1>9 DEF SceneInv, PanelKept, CleanPanel, OneScene, Loaded

\* The first status brings the panel what the file has, or says it could not.
LEMMA ShowStatusInv ==
  ASSUME SceneInv, NEW status \in Readings, ShowStatus(status)
  PROVE  SceneInv'
<1>1. SceneTypeOK /\ FileWhole /\ status \in Statuses
  BY SceneAssumption DEF SceneInv
<1>2. /\ latest' = status /\ rows' = panel'
      /\ sceneFile' = sceneFile /\ saidSaved' = saidSaved /\ refused' = refused
  BY DEF ShowStatus
<1>3. (FileWhole' /\ SavedScenesKept') \/ unloaded' # unloaded
  BY <1>2 DEF SceneInv, FileWhole, SavedScenesKept
<1>4. /\ sceneFile.kind \in {"absent", "valid", "broken"}
      /\ panel \in AllScenes \cup {Nothing} /\ unloaded \in BOOLEAN /\ sceneErrors \in BOOLEAN
  BY <1>1 DEF SceneTypeOK, SceneDocuments
<1>5. ASSUME panel' \in AllScenes \cup {Nothing}, unloaded' \in BOOLEAN, sceneErrors' \in BOOLEAN,
             sceneFaults' \in 0..MaxSceneFaults
      PROVE  SceneTypeOK'
  <2>1. rows' \in [Slots -> Scenes \cup {Unknown}]
    BY <1>2, <1>5 DEF AllScenes, Nothing
  <2> QED
    BY <1>1, <1>2, <1>5, <2>1 DEF SceneTypeOK
<1>6. CASE Loaded /\ UNCHANGED <<panel, unloaded, sceneErrors, sceneFaults>>
  <2>1. SceneTypeOK'
    BY <1>1, <1>4, <1>5, <1>6 DEF SceneTypeOK
  <2>2. FileWhole' /\ SavedScenesKept' /\ PanelKept' /\ CleanPanel'
    BY <1>2, <1>6 DEF SceneInv, FileWhole, SavedScenesKept, PanelKept, CleanPanel, Loaded
  <2>3. ASSUME ~sceneErrors, NEW s \in Slots, sceneFile.kind # "absent" \/ s # Game
        PROVE  LoadOrDefaults(status)[s] = panel[s]
    <3>1. LoadOrDefaults(latest)[s] = panel[s] /\ latest \in Statuses
      BY <1>1, <1>6, <2>3 DEF SceneInv, OneScene, SceneTypeOK
    <3> QED
      BY <1>1, <2>3, <3>1, DefaultScenesType DEF LoadOrDefaults
  <2>4. OneScene'
    BY <1>2, <1>6, <2>3 DEF OneScene, Loaded, LoadOrDefaults
  <2> QED
    BY <2>1, <2>2, <2>4 DEF SceneInv
<1>7. CASE /\ ~Loaded /\ sceneFile.kind # "broken"
           /\ panel' = LoadOrDefaults(status)
           /\ UNCHANGED <<unloaded, sceneErrors, sceneFaults>>
  <2>1. panel' \in AllScenes
    BY <1>1, <1>4, <1>7, DefaultScenesType DEF LoadOrDefaults, FileWhole
  <2>2. SceneTypeOK'
    BY <1>1, <1>4, <1>5, <1>7, <2>1 DEF SceneTypeOK
  <2>3. FileWhole' /\ SavedScenesKept' /\ CleanPanel'
    BY <1>2, <1>7 DEF SceneInv, FileWhole, SavedScenesKept, CleanPanel
  <2>4. PanelKept'
    <3>1. SUFFICES ASSUME ~unloaded, NEW s \in Slots, saidSaved[s] # Unknown
                   PROVE  panel'[s] \in {saidSaved[s]} \cup refused[s]
      BY <1>2, <1>7 DEF PanelKept
    <3>2. sceneFile.kind = "valid" /\ sceneFile.scenes[s] \in {saidSaved[s]} \cup refused[s]
      BY <3>1 DEF SceneInv, SavedScenesKept
    <3> QED
      BY <1>7, <3>2 DEF LoadOrDefaults
  <2>5. OneScene'
    BY <1>2, <1>7 DEF OneScene, LoadOrDefaults
  <2> QED
    BY <2>2, <2>3, <2>4, <2>5 DEF SceneInv
<1>8. CASE /\ ~Loaded /\ sceneFile.kind # "absent"
           /\ IF sceneFile.kind = "broken" THEN UNCHANGED sceneFaults ELSE SceneFault
           /\ panel' = Defaults(status)
           /\ unloaded' = TRUE /\ sceneErrors' = TRUE
  <2>1. sceneFaults' \in 0..MaxSceneFaults
    BY <1>1, <1>8, FaultType DEF SceneTypeOK
  <2>2. SceneTypeOK'
    BY <1>1, <1>5, <1>8, <2>1, DefaultScenesType
  <2>3. FileWhole'
    BY <1>1, <1>2 DEF FileWhole
  <2> QED
    BY <1>8, <2>2, <2>3 DEF SceneInv, SavedScenesKept, PanelKept, CleanPanel, OneScene
<1> QED
  BY <1>6, <1>7, <1>8 DEF ShowStatus

\* What a save of a slot makes of the panel and of the file, when it works,
\* fails or is cut off.
LEMMA SavedPanel ==
  ASSUME SceneTypeOK, Loaded, NEW slot \in Slots, NEW scene,
         scene = Captured(latest, panel[slot])
  PROVE  /\ scene \in Scenes
         /\ [panel EXCEPT ![slot] = scene] \in AllScenes
         /\ [panel EXCEPT ![slot] = scene][slot] = scene
         /\ \A s \in Slots : s # slot => [panel EXCEPT ![slot] = scene][s] = panel[s]
<1>1. panel \in AllScenes /\ panel[slot] \in Scenes /\ latest \in Statuses
  BY SceneLoadedType DEF SceneTypeOK
<1>2. scene \in Scenes
  BY <1>1, CapturedType
<1> QED
  BY <1>1, <1>2 DEF AllScenes

\* The scene is saved: the slot is what was said, the others are what they were.
LEMMA SaveWorksInv ==
  ASSUME SceneInv, Loaded, NEW slot \in Slots, NEW scene,
         scene = Captured(latest, panel[slot]),
         panel' = [panel EXCEPT ![slot] = scene],
         sceneFile' = Valid(panel'),
         rows' = [rows EXCEPT ![slot] = scene],
         saidSaved' = [saidSaved EXCEPT ![slot] = scene],
         refused' = [refused EXCEPT ![slot] = {}],
         UNCHANGED <<sceneErrors, sceneFaults, latest, unloaded>>
  PROVE  SceneInv'
<1>1. SceneTypeOK
  BY DEF SceneInv
<1>2. /\ scene \in Scenes /\ panel' \in AllScenes /\ panel'[slot] = scene
      /\ \A s \in Slots : s # slot => panel'[s] = panel[s]
  <2>1. panel \in AllScenes /\ panel[slot] \in Scenes /\ latest \in Statuses
    BY <1>1, SceneLoadedType DEF SceneTypeOK
  <2>2. scene \in Scenes
    BY <2>1, CapturedType
  <2> QED
    BY <2>1, <2>2 DEF AllScenes
<1>3. /\ sceneFile' \in SceneDocuments
      /\ sceneFile'.kind = "valid" /\ sceneFile'.scenes = panel'
  BY <1>2, ValidType
<1>4. SceneTypeOK'
  BY <1>1, <1>2, <1>3 DEF SceneTypeOK
<1>5. ASSUME ~unloaded, NEW s \in Slots, saidSaved'[s] # Unknown
      PROVE  panel'[s] \in {saidSaved'[s]} \cup refused'[s]
  <2>1. CASE s = slot
    BY <1>1, <1>2, <2>1 DEF SceneTypeOK
  <2>2. CASE s # slot
    BY <1>1, <1>2, <1>5, <2>2 DEF SceneInv, PanelKept, SceneTypeOK
  <2> QED
    BY <2>1, <2>2
<1>6. FileWhole' /\ SavedScenesKept' /\ PanelKept' /\ CleanPanel'
  BY <1>2, <1>3, <1>5 DEF FileWhole, SavedScenesKept, PanelKept, CleanPanel
<1>7. ~sceneErrors' => rows' = panel'
  BY DEF SceneInv, OneScene
<1>8. OneScene'
  BY <1>3, <1>7 DEF OneScene, LoadOrDefaults
<1> QED
  BY <1>4, <1>6, <1>8 DEF SceneInv

\* The save fails, before the file is replaced or after it.
LEMMA SaveFailsInv ==
  ASSUME SceneInv, Loaded, NEW slot \in Slots, NEW scene,
         scene = Captured(latest, panel[slot]),
         panel' = [panel EXCEPT ![slot] = scene],
         SceneFault, sceneErrors' = TRUE,
         sceneFile' \in {sceneFile, Valid(panel')},
         refused' = [refused EXCEPT ![slot] = @ \cup {scene}],
         UNCHANGED <<rows, saidSaved, latest, unloaded>>
  PROVE  SceneInv'
<1>1. SceneTypeOK /\ FileWhole
  BY DEF SceneInv
<1>2. /\ scene \in Scenes /\ panel' \in AllScenes /\ panel'[slot] = scene
      /\ \A s \in Slots : s # slot => panel'[s] = panel[s]
  <2>1. panel \in AllScenes /\ panel[slot] \in Scenes /\ latest \in Statuses
    BY <1>1, SceneLoadedType DEF SceneTypeOK
  <2>2. scene \in Scenes
    BY <2>1, CapturedType
  <2> QED
    BY <2>1, <2>2 DEF AllScenes
<1>3. \/ sceneFile' = sceneFile
      \/ /\ sceneFile' \in SceneDocuments
         /\ sceneFile'.kind = "valid" /\ sceneFile'.scenes = panel'
  BY <1>2, ValidType
<1>4. /\ refused' \in [Slots -> SUBSET Scenes]
      /\ scene \in refused'[slot]
      /\ \A s \in Slots : refused[s] \subseteq refused'[s]
  BY <1>1, <1>2 DEF SceneTypeOK
<1>5. SceneTypeOK'
  BY <1>1, <1>2, <1>3, <1>4, FaultType DEF SceneTypeOK
<1>6. ASSUME ~unloaded, NEW s \in Slots, saidSaved[s] # Unknown
      PROVE  panel'[s] \in {saidSaved[s]} \cup refused'[s]
  <2>1. CASE s = slot
    BY <1>2, <1>4, <2>1
  <2>2. CASE s # slot
    BY <1>2, <1>4, <1>6, <2>2 DEF SceneInv, PanelKept
  <2> QED
    BY <2>1, <2>2
<1>7. SavedScenesKept'
  <2>1. CASE sceneFile' = sceneFile
    BY <1>4, <2>1 DEF SceneInv, SavedScenesKept
  <2>2. CASE sceneFile'.kind = "valid" /\ sceneFile'.scenes = panel'
    BY <1>6, <2>2 DEF SavedScenesKept
  <2> QED
    BY <1>3, <2>1, <2>2
<1>8. FileWhole' /\ PanelKept' /\ CleanPanel' /\ OneScene'
  BY <1>1, <1>2, <1>3, <1>6 DEF FileWhole, PanelKept, CleanPanel, OneScene
<1> QED
  BY <1>5, <1>7, <1>8 DEF SceneInv

LEMMA SaveSceneInv ==
  ASSUME SceneInv, NEW slot \in Slots, SaveScene(slot)
  PROVE  SceneInv'
<1> DEFINE scene == Captured(latest, panel[slot])
<1>1. /\ Loaded /\ panel' = [panel EXCEPT ![slot] = scene]
      /\ UNCHANGED <<latest, unloaded>>
  BY DEF SaveScene
<1>2. \/ /\ sceneFile' = Valid(panel')
         /\ rows' = [rows EXCEPT ![slot] = scene]
         /\ saidSaved' = [saidSaved EXCEPT ![slot] = scene]
         /\ refused' = [refused EXCEPT ![slot] = {}]
         /\ UNCHANGED <<sceneErrors, sceneFaults>>
      \/ /\ SceneFault
         /\ sceneErrors' = TRUE
         /\ sceneFile' \in {sceneFile, Valid(panel')}
         /\ refused' = [refused EXCEPT ![slot] = @ \cup {scene}]
         /\ UNCHANGED <<rows, saidSaved>>
  BY DEF SaveScene
<1> HIDE DEF scene
<1>3. scene = Captured(latest, panel[slot])
  BY DEF scene
<1> QED
  BY <1>1, <1>2, <1>3, SaveWorksInv, SaveFailsInv

LEMMA SaveRefusedInv ==
  ASSUME SceneInv, SaveRefused
  PROVE  SceneInv'
<1>1. /\ sceneErrors' = TRUE
      /\ UNCHANGED <<sceneFile, panel, rows, latest, saidSaved, refused, unloaded, sceneFaults>>
  BY DEF SaveRefused
<1> QED
  BY <1>1 DEF SceneInv, SceneTypeOK, FileWhole, SavedScenesKept, PanelKept, CleanPanel, OneScene,
              Loaded

\* A restart leaves the file, which a save cut off may have replaced.
LEMMA RestartInv ==
  ASSUME SceneInv, RestartScenes
  PROVE  SceneInv'
<1>1. /\ panel' = Nothing /\ rows' = Nothing /\ latest' = NoStatus
      /\ sceneErrors' = FALSE /\ UNCHANGED <<saidSaved, unloaded>>
  BY DEF RestartScenes
<1>2. SceneTypeOK /\ FileWhole
  BY DEF SceneInv
<1>3. /\ Nothing \in [Slots -> Scenes \cup {Unknown}]
      /\ NoStatus \in Statuses
  <2>1. (CHOOSE w \in Watts : TRUE) \in Watts
    BY SceneAssumption
  <2> QED
    BY <2>1 DEF Nothing, NoStatus, Statuses
<1>4. PanelKept' /\ CleanPanel' /\ OneScene'
  BY <1>1 DEF PanelKept, CleanPanel, OneScene, Loaded
<1>5. CASE UNCHANGED <<sceneFile, refused, sceneFaults>>
  <2>1. SceneTypeOK' /\ FileWhole' /\ SavedScenesKept'
    BY <1>1, <1>2, <1>3, <1>5 DEF SceneInv, SceneTypeOK, FileWhole, SavedScenesKept
  <2> QED
    BY <1>4, <2>1 DEF SceneInv
<1>6. ASSUME NEW slot \in Slots, Loaded, SceneFault, NEW scene,
             scene = Captured(latest, panel[slot]),
             sceneFile' = Valid([panel EXCEPT ![slot] = scene]),
             refused' = [refused EXCEPT ![slot] = @ \cup {scene}]
      PROVE  SceneInv'
  <2> DEFINE cut == [panel EXCEPT ![slot] = scene]
  <2>1. /\ scene \in Scenes /\ cut \in AllScenes /\ cut[slot] = scene
        /\ \A s \in Slots : s # slot => cut[s] = panel[s]
    BY <1>2, <1>6, SavedPanel
  <2>2. /\ sceneFile' \in SceneDocuments
        /\ sceneFile'.kind = "valid" /\ sceneFile'.scenes = cut
    BY <1>6, <2>1, ValidType
  <2> HIDE DEF cut
  <2>3. /\ refused' \in [Slots -> SUBSET Scenes]
        /\ scene \in refused'[slot]
        /\ \A s \in Slots : refused[s] \subseteq refused'[s]
    BY <1>2, <1>6, <2>1 DEF SceneTypeOK
  <2>4. SceneTypeOK'
    BY <1>1, <1>2, <1>3, <1>6, <2>2, <2>3, FaultType DEF SceneTypeOK
  <2>5. ASSUME ~unloaded, NEW s \in Slots, saidSaved[s] # Unknown
        PROVE  cut[s] \in {saidSaved[s]} \cup refused'[s]
    <3>1. CASE s = slot
      BY <2>1, <2>3, <3>1
    <3>2. CASE s # slot
      BY <1>6, <2>1, <2>3, <2>5, <3>2 DEF SceneInv, PanelKept
    <3> QED
      BY <3>1, <3>2
  <2>6. FileWhole' /\ SavedScenesKept'
    BY <1>1, <2>1, <2>2, <2>5 DEF FileWhole, SavedScenesKept
  <2> QED
    BY <1>4, <2>4, <2>6 DEF SceneInv
<1> QED
  BY <1>5, <1>6 DEF RestartScenes

-----------------------------------------------------------------------------

\* Every step keeps the inductive invariant.
THEOREM SceneInvariance == SceneSpec => []SceneInv
<1>1. SceneInv /\ [SceneNext]_sceneVars => SceneInv'
  <2>1. SUFFICES ASSUME SceneInv, [SceneNext]_sceneVars PROVE SceneInv'
    OBVIOUS
  <2>2. CASE UNCHANGED sceneVars
    BY <2>1, <2>2 DEF sceneVars, SceneInv, SceneTypeOK, FileWhole, SavedScenesKept, PanelKept,
                      CleanPanel, OneScene, Loaded, LoadOrDefaults
  <2>3. CASE SceneNext
    BY <2>1, <2>3, ShowStatusInv, SaveSceneInv, SaveRefusedInv, RestartInv DEF SceneNext
  <2> QED
    BY <2>1, <2>2, <2>3
<1> QED
  BY <1>1, SceneInitInv, PTL DEF SceneSpec

\* A scene said to be saved is in the file, or one refused since, as long as
\* the file could be loaded: saving one slot writes all of them, and none is
\* lost (_on_save_clicked, SceneStore.save).
THEOREM SavedScenesAreKept == SceneSpec => []SavedScenesKept
<1>1. SceneInv => SavedScenesKept
  BY DEF SceneInv
<1> QED
  BY <1>1, SceneInvariance, PTL

\* Without an error shown, the panel, its rows and what the automation would
\* load are the same scenes (ScenePanel, _apply_power_source_automation).
THEOREM ScenesAreOne == SceneSpec => []OneScene
<1>1. SceneInv => OneScene
  BY DEF SceneInv
<1> QED
  BY <1>1, SceneInvariance, PTL

-----------------------------------------------------------------------------
(* The notice of an update *)

\* The last request was answered, and its answer is not lost.
Settled == fate \in {"answered", "saved"}

\* A known answer is carried by whichever configuration the next check will
\* start from, and a saved one by the file as well.
AnswerCarried ==
  /\ check.phase = "asking" => asked = check.moment
  /\ check.phase = "asking" <=> fate = "sent"
  /\ fate = "saved" => HasAnswer(saved) /\ HasAnswer(conf)
  /\ fate = "answered" /\ check.phase # "done" => HasAnswer(conf)
  /\ Settled /\ check.phase = "running" => HasAnswer(check.from)
  /\ Settled /\ check.phase = "done" => HasAnswer(check.updated)

\* Only an enabled configuration is checked, and it comes back enabled.
CheckEnabled ==
  /\ check.phase \in {"running", "asking"} => check.from.enabled = TRUE
  /\ check.phase = "done" => check.updated.enabled = TRUE /\ check.result # "disabled"
  /\ (~crossed /\ ~unsaved /\ check.phase # "none") => chosen = TRUE

NoticeInv == NoticeTypeOK /\ AnswerCarried /\ CheckEnabled /\ ChoiceKept

-----------------------------------------------------------------------------

\* The default configuration and the empty check have their types.
LEMMA DefaultNoticeType == DefaultConfig \in Configs /\ NoCheck \in Checks
<1>1. 0 \in CheckTimes /\ 0 \in Versions
  BY NoticeAssumption DEF CheckTimes, Versions
<1>2. DefaultConfig \in Configs
  BY <1>1 DEF DefaultConfig, Configs
<1> QED
  BY <1>1, <1>2 DEF NoCheck, Checks, Labels

\* What moving the switch makes of a configuration.
LEMMA Switched ==
  ASSUME NEW c \in Configs, NEW b \in BOOLEAN
  PROVE  /\ [c EXCEPT !.enabled = b] \in Configs
         /\ [c EXCEPT !.enabled = b].enabled = b
         /\ [c EXCEPT !.enabled = b].checked = c.checked
         /\ [c EXCEPT !.enabled = b].seen = c.seen
  BY DEF Configs

\* A check is started from an enabled configuration when none is out, or not.
LEMMA CheckStarts ==
  ASSUME check \in Checks, NEW c \in Configs, NEW other \in Labels, StartCheck(c, other)
  PROVE  /\ check' \in Checks /\ label' \in Labels
         /\ \/ /\ check' = check /\ label' = other
               /\ check.phase # "none" \/ c.enabled = FALSE
            \/ /\ check.phase = "none" /\ c.enabled = TRUE
               /\ check'.phase = "running" /\ check'.from = c /\ label' = "asking"
<1>1. c.enabled \in BOOLEAN
  BY DEF Configs
<1>2. CASE check.phase # "none" \/ ~c.enabled
  BY <1>1, <1>2 DEF StartCheck
<1>3. CASE check.phase = "none" /\ c.enabled
  <2>1. label' = "asking" /\ check' = [NoCheck EXCEPT !.phase = "running", !.from = c]
    BY <1>3 DEF StartCheck
  <2>2. check' \in Checks /\ check'.phase = "running" /\ check'.from = c
    BY <2>1, DefaultNoticeType DEF Checks, NoCheck
  <2> QED
    BY <1>1, <1>3, <2>1, <2>2 DEF Labels
<1> QED
  BY <1>2, <1>3

\* A fault is counted within its bound.
LEMMA MissCounted ==
  ASSUME NoticeTypeOK, Misses
  PROVE  noticeFaults' \in 0..MaxNoticeFaults
<1>1. MaxNoticeFaults \in Nat /\ noticeFaults \in 0..MaxNoticeFaults
  BY NoticeAssumption DEF NoticeTypeOK
<1> QED
  BY <1>1 DEF Misses

\* A save that works or fails leaves a configuration in the file.
LEMMA SaveType ==
  ASSUME NoticeTypeOK, NEW c \in Configs, SaveWorks(c) \/ SaveFails(c)
  PROVE  /\ saved' \in Configs /\ unsaved' \in BOOLEAN /\ fate' \in Fates
         /\ noticeFaults' \in 0..MaxNoticeFaults
         /\ ~unsaved' => saved' = c /\ unsaved' = unsaved
         /\ saved' \in {saved, c}
         /\ fate' = fate \/ (fate = "answered" /\ fate' = "saved" /\ HasAnswer(c) /\ saved' = c)
<1>1. CASE SaveWorks(c)
  BY <1>1 DEF SaveWorks, NoticeTypeOK, Fates
<1>2. CASE SaveFails(c)
  BY <1>2, MissCounted DEF SaveFails, NoticeTypeOK
<1> QED
  BY <1>1, <1>2

-----------------------------------------------------------------------------

LEMMA NoticeInitInv == NoticeInit => NoticeInv
<1>1. SUFFICES ASSUME NoticeInit PROVE NoticeInv
  OBVIOUS
<1>2. /\ check = NoCheck /\ check.phase = "none" /\ fate = "none"
      /\ conf = DefaultConfig /\ saved = DefaultConfig
      /\ conf.enabled = FALSE /\ saved.enabled = FALSE
  BY <1>1 DEF NoticeInit, NoCheck, DefaultConfig
<1>3. today \in CheckTimes
  BY <1>1, NoticeAssumption DEF NoticeInit, CheckTimes
<1>4. noticeFaults \in 0..MaxNoticeFaults /\ reported \in Versions
  BY <1>1, NoticeAssumption DEF NoticeInit, Versions
<1>5. NoticeTypeOK
  BY <1>1, <1>2, <1>3, <1>4, DefaultNoticeType DEF NoticeInit, NoticeTypeOK, Labels, Fates
<1> QED
  BY <1>1, <1>2, <1>5
     DEF NoticeInv, NoticeInit, AnswerCarried, Settled, CheckEnabled, ChoiceKept

LEMMA MoveSwitchInv ==
  ASSUME NoticeInv, MoveSwitch
  PROVE  NoticeInv'
<1> DEFINE c == [conf EXCEPT !.enabled = ~switch]
<1>1. NoticeTypeOK
  BY DEF NoticeInv
<1>2. /\ c \in Configs /\ c.enabled = (~switch) /\ c.checked = conf.checked
      /\ c.seen = conf.seen /\ (~switch) \in BOOLEAN
  BY <1>1, Switched DEF NoticeTypeOK
<1>3. /\ switch' = ~switch /\ crossed' = (crossed \/ check.phase # "none")
      /\ UNCHANGED <<today, published, reported, probed, asked>>
  BY DEF MoveSwitch
<1> HIDE DEF c
<1>a. ASSUME SaveWorks(c) \/ SaveFails(c)
      PROVE  /\ saved' \in Configs /\ fate' \in Fates
             /\ check.phase = "asking" <=> fate' = "sent"
             /\ fate' = "saved" => HasAnswer(saved') /\ HasAnswer(c)
             /\ fate' \in {"answered", "saved"} => Settled
             /\ fate' = "answered" => fate = "answered"
  <2>1. /\ saved' \in Configs /\ fate' \in Fates /\ saved' \in {saved, c}
        /\ fate' = fate \/ (fate = "answered" /\ fate' = "saved" /\ HasAnswer(c) /\ saved' = c)
    BY <1>1, <1>2, <1>a, SaveType
  <2>2. fate = "saved" => HasAnswer(saved) /\ HasAnswer(c)
    BY <1>2 DEF NoticeInv, AnswerCarried, HasAnswer
  <2>3. check.phase = "asking" <=> fate = "sent"
    BY DEF NoticeInv, AnswerCarried
  <2> QED
    BY <2>1, <2>2, <2>3 DEF Settled
<1>b. HasAnswer(conf) => HasAnswer(c)
  BY <1>2 DEF HasAnswer
<1>4. CASE /\ SaveWorks(c) /\ conf' = c /\ chosen' = c.enabled
           /\ StartCheck(c, IF c.enabled THEN label ELSE "disabled")
  <2> DEFINE other == IF c.enabled THEN label ELSE "disabled"
  <2>1. other \in Labels
    BY <1>1 DEF NoticeTypeOK, Labels
  <2>2. StartCheck(c, other) /\ saved' = c /\ unsaved' = unsaved /\ noticeFaults' = noticeFaults
    BY <1>4 DEF SaveWorks
  <2>3. c.enabled = FALSE => other = "disabled"
    OBVIOUS
  <2> HIDE DEF other
  <2>4. /\ check' \in Checks /\ label' \in Labels
        /\ \/ /\ check' = check /\ label' = other
              /\ check.phase # "none" \/ c.enabled = FALSE
           \/ /\ check.phase = "none" /\ c.enabled = TRUE
              /\ check'.phase = "running" /\ check'.from = c /\ label' = "asking"
    BY <1>1, <1>2, <2>1, <2>2, CheckStarts DEF NoticeTypeOK
  <2>5. NoticeTypeOK'
    BY <1>1, <1>2, <1>3, <1>4, <1>a, <2>2, <2>4 DEF NoticeTypeOK
  <2>6. AnswerCarried'
    <3>1. AnswerCarried
      BY DEF NoticeInv
    <3>2. fate' = "saved" => HasAnswer(saved') /\ HasAnswer(conf')
      BY <1>4, <1>a
    <3>3. fate' = "answered" /\ check.phase # "done" => HasAnswer(conf')
      BY <1>4, <1>a, <1>b, <3>1 DEF AnswerCarried
    <3>4. (check'.phase = "done" => check' = check) /\ (check'.phase = "asking" => check' = check)
      BY <2>4
    <3>5. check'.phase = "running" => check' = check \/ (check.phase = "none" /\ check'.from = conf')
      BY <1>4, <2>4
    <3>6. check'.phase = check.phase \/ (check.phase = "none" /\ check'.phase = "running")
      BY <2>4
    <3> QED
      BY <1>3, <1>4, <1>a, <3>1, <3>2, <3>3, <3>4, <3>5, <3>6 DEF AnswerCarried, Settled, HasAnswer
  <2>7. CheckEnabled'
    BY <1>2, <1>3, <1>4, <2>2, <2>4 DEF NoticeInv, CheckEnabled
  <2>8. ChoiceKept'
    BY <1>1, <1>2, <1>3, <1>4, <2>2, <2>3, <2>4 DEF ChoiceKept, NoticeTypeOK
  <2> QED
    BY <2>5, <2>6, <2>7, <2>8 DEF NoticeInv
<1>5. CASE SaveFails(c) /\ UNCHANGED <<conf, chosen, check, label>>
  <2>1. /\ saved' \in Configs /\ unsaved' = TRUE /\ fate' = fate
        /\ noticeFaults' \in 0..MaxNoticeFaults
    BY <1>1, <1>2, <1>5, SaveType DEF SaveFails
  <2>2. NoticeTypeOK'
    BY <1>1, <1>2, <1>3, <1>5, <2>1 DEF NoticeTypeOK
  <2>3. AnswerCarried'
    <3>1. fate' = "saved" => HasAnswer(saved')
      BY <1>5, <1>a
    <3> QED
      BY <1>3, <1>5, <2>1, <3>1 DEF NoticeInv, AnswerCarried, Settled, HasAnswer
  <2>4. CheckEnabled' /\ ChoiceKept'
    BY <1>3, <1>5, <2>1 DEF NoticeInv, CheckEnabled, ChoiceKept
  <2> QED
    BY <2>2, <2>3, <2>4 DEF NoticeInv
<1> QED
  BY <1>4, <1>5 DEF MoveSwitch, c

\* What the thread makes of the check it was given.
LEMMA Returned ==
  ASSUME check \in Checks, NEW result \in Labels, NEW updated \in Configs,
         check' = [check EXCEPT !.phase = "done", !.result = result, !.updated = updated]
  PROVE  /\ check' \in Checks /\ check'.phase = "done"
         /\ check'.updated = updated /\ check'.result = result
  BY DEF Checks

\* Versions, times and the interval are integers, and a comparison is a label
\* of its own.
LEMMA Comparisons ==
  /\ Versions \subseteq Int /\ CheckTimes \subseteq Int /\ CheckInterval \in Int
  /\ \A v \in Int : Compared(v) \in Labels \ {"disabled"}
<1>1. Versions \subseteq Int /\ CheckTimes \subseteq Int /\ CheckInterval \in Int
  BY NoticeAssumption DEF Versions, CheckTimes
<1> QED
  BY <1>1 DEF Compared, Labels

\* A thread that is done keeps the invariant when what it returns is enabled
\* and carries the answer, if that is known.
LEMMA DoneInv ==
  ASSUME NoticeInv, check.phase \in {"running", "asking"},
         NEW result \in Labels \ {"disabled"}, NEW updated \in Configs,
         updated.enabled = TRUE,
         check' = [check EXCEPT !.phase = "done", !.result = result, !.updated = updated],
         UNCHANGED <<today, published, saved, conf, switch, label, reported, probed, chosen,
                     crossed, unsaved, asked, noticeFaults>>,
         \/ check.phase = "running" /\ fate' = fate
         \/ fate' \in {"failed", "answered"},
         fate' \in {"answered", "saved"} => HasAnswer(updated)
  PROVE  NoticeInv'
<1>1. NoticeTypeOK
  BY DEF NoticeInv
<1>2. check \in Checks
  BY <1>1 DEF NoticeTypeOK
<1>3. /\ check' \in Checks /\ check'.phase = "done"
      /\ check'.updated = updated /\ check'.result = result
  BY <1>2, Returned
<1>4. fate' \in Fates
  BY <1>1 DEF NoticeTypeOK, Fates
<1>5. NoticeTypeOK'
  BY <1>1, <1>3, <1>4 DEF NoticeTypeOK
<1>6. AnswerCarried'
  BY <1>3 DEF NoticeInv, AnswerCarried, Settled, HasAnswer
<1>7. CheckEnabled'
  BY <1>3 DEF NoticeInv, CheckEnabled
<1>8. ChoiceKept'
  BY <1>3 DEF NoticeInv, ChoiceKept
<1> QED
  BY <1>5, <1>6, <1>7, <1>8 DEF NoticeInv

\* A fresh answer comes back with the configuration as it was.
LEMMA AnswerStoredInv ==
  ASSUME NoticeInv, AnswerStored
  PROVE  NoticeInv'
<1>1. NoticeTypeOK /\ check.phase = "running" /\ check.from.enabled = TRUE
  BY DEF NoticeInv, AnswerStored, CheckEnabled
<1>2. check.from \in Configs /\ check.from.seen \in Versions
  BY <1>1 DEF NoticeTypeOK, Checks, Configs
<1>3. Compared(check.from.seen) \in Labels \ {"disabled"}
  BY <1>2, Comparisons
<1>4. fate \in {"answered", "saved"} => HasAnswer(check.from)
  BY <1>1 DEF NoticeInv, AnswerCarried, Settled
<1> QED
  BY <1>1, <1>2, <1>3, <1>4, DoneInv DEF AnswerStored

\* The network is asked from a configuration without a fresh answer.
LEMMA AskNetworkInv ==
  ASSUME NoticeInv, AskNetwork
  PROVE  /\ NoticeInv'
         /\ fate \in {"none", "failed", "lost"} \/ today - asked >= CheckInterval
<1> DEFINE c == check.from
<1>1. /\ NoticeTypeOK /\ check.phase = "running" /\ c.enabled = TRUE /\ ~Fresh(c)
      /\ check' = [check EXCEPT !.phase = "asking", !.moment = today]
      /\ asked' = today /\ fate' = "sent"
      /\ UNCHANGED <<today, published, saved, conf, switch, label, reported, probed, chosen,
                     crossed, unsaved, noticeFaults>>
  BY DEF NoticeInv, AskNetwork, CheckEnabled
<1>2. /\ check \in Checks /\ today \in CheckTimes /\ fate \in Fates
      /\ c.checked \in CheckTimes
  BY <1>1 DEF NoticeTypeOK, Checks, Configs
<1>3. /\ check' \in Checks /\ check'.phase = "asking" /\ check'.from = c
      /\ check'.moment = today
  BY <1>1, <1>2 DEF Checks
<1> HIDE DEF c
<1>4. NoticeTypeOK'
  BY <1>1, <1>2, <1>3 DEF NoticeTypeOK, Fates
<1>5. AnswerCarried'
  BY <1>1, <1>3 DEF AnswerCarried, Settled
<1>6. CheckEnabled'
  BY <1>1, <1>3 DEF NoticeInv, CheckEnabled
<1>7. ChoiceKept'
  BY <1>1, <1>3 DEF NoticeInv, ChoiceKept
<1>8. fate # "sent" /\ (Settled => HasAnswer(c))
  BY <1>1 DEF NoticeInv, AnswerCarried, c
<1>9. Settled => today - asked >= CheckInterval
  BY <1>1, <1>2, <1>8, Comparisons DEF Fresh, HasAnswer
<1> QED
  BY <1>2, <1>4, <1>5, <1>6, <1>7, <1>8, <1>9 DEF NoticeInv, Fates, Settled

\* A failed request returns the configuration it was given.
LEMMA RequestFailsInv ==
  ASSUME NoticeInv, RequestFails
  PROVE  NoticeInv'
<1>1. NoticeTypeOK /\ check.phase = "asking" /\ check.from.enabled = TRUE
  BY DEF NoticeInv, RequestFails, CheckEnabled
<1>2. check.from \in Configs /\ "unknown" \in Labels \ {"disabled"}
  BY <1>1 DEF NoticeTypeOK, Checks, Labels
<1> QED
  BY <1>1, <1>2, DoneInv DEF RequestFails

\* An answered one returns it dated with the moment of the request.
LEMMA RequestAnsweredInv ==
  ASSUME NoticeInv, RequestAnswered
  PROVE  NoticeInv'
<1> DEFINE c == check.from
           u == [c EXCEPT !.checked = check.moment, !.seen = published]
<1>1. /\ NoticeTypeOK /\ check.phase = "asking" /\ c.enabled = TRUE /\ published # 0
      /\ asked = check.moment
  BY DEF NoticeInv, RequestAnswered, CheckEnabled, AnswerCarried
<1>2. c \in Configs /\ check.moment \in CheckTimes /\ published \in Versions
  BY <1>1 DEF NoticeTypeOK, Checks
<1>3. u \in Configs /\ u.enabled = c.enabled /\ u.checked = check.moment /\ u.seen = published
  <2> HIDE DEF c
  <2> QED
    BY <1>2 DEF Configs
<1>4. /\ check' = [check EXCEPT !.phase = "done", !.result = Compared(published), !.updated = u]
      /\ fate' = "answered"
      /\ UNCHANGED <<today, published, saved, conf, switch, label, reported, probed, chosen,
                     crossed, unsaved, asked, noticeFaults>>
  BY DEF RequestAnswered
<1> HIDE DEF u
<1>5. HasAnswer(u) /\ u.enabled = TRUE
  BY <1>1, <1>3 DEF HasAnswer
<1>6. Compared(published) \in Labels \ {"disabled"}
  BY <1>2, Comparisons
<1> QED
  BY <1>1, <1>3, <1>4, <1>5, <1>6, DoneInv

\* What the thread returned is the configuration from now on.
LEMMA FinishCheckInv ==
  ASSUME NoticeInv, FinishCheck
  PROVE  NoticeInv'
<1>1. NoticeTypeOK /\ check.phase = "done"
  BY DEF NoticeInv, FinishCheck
<1>2. /\ check.updated \in Configs /\ check.result \in Labels
      /\ check.updated.enabled = TRUE /\ check.result # "disabled"
      /\ Settled => HasAnswer(check.updated)
      /\ fate # "sent"
  BY <1>1 DEF NoticeInv, NoticeTypeOK, Checks, CheckEnabled, AnswerCarried
<1>3. /\ check' = NoCheck /\ check'.phase = "none" /\ check' \in Checks
      /\ label' = check.result /\ conf' = check.updated
      /\ UNCHANGED <<today, published, switch, reported, probed, chosen, crossed, asked>>
  BY DefaultNoticeType DEF FinishCheck, NoCheck
<1>4. /\ saved' \in Configs /\ unsaved' \in BOOLEAN /\ fate' \in Fates
      /\ noticeFaults' \in 0..MaxNoticeFaults
      /\ ~unsaved' => unsaved' = unsaved
      /\ saved' = check.updated \/ saved' = saved
      /\ fate' = fate \/ (fate = "answered" /\ fate' = "saved" /\ saved' = check.updated)
  <2>1. CASE SaveWorks(check.updated) \/ SaveFails(check.updated)
    BY <1>1, <1>2, <2>1, SaveType
  <2>2. CASE UNCHANGED <<saved, fate, noticeFaults, unsaved>>
    BY <1>1, <2>2 DEF NoticeTypeOK
  <2> QED
    BY <2>1, <2>2 DEF FinishCheck
<1>5. NoticeTypeOK'
  BY <1>1, <1>2, <1>3, <1>4 DEF NoticeTypeOK
<1>6. AnswerCarried'
  <2>1. fate = "saved" => HasAnswer(saved)
    BY DEF NoticeInv, AnswerCarried
  <2> QED
    BY <1>2, <1>3, <1>4, <2>1 DEF AnswerCarried, Settled, HasAnswer
<1>7. CheckEnabled'
  BY <1>3 DEF CheckEnabled
<1>8. ChoiceKept'
  <2>1. SUFFICES ASSUME ~crossed', ~unsaved'
        PROVE  /\ switch' = chosen' /\ conf'.enabled = chosen' /\ saved'.enabled = chosen'
               /\ (label' = "disabled") <=> ~chosen'
    BY DEF ChoiceKept
  <2>2. ~crossed /\ ~unsaved
    BY <1>3, <1>4, <2>1
  <2>3. chosen = TRUE
    BY <1>1, <2>2 DEF NoticeInv, CheckEnabled
  <2>4. switch = chosen /\ saved.enabled = chosen
    BY <2>2 DEF NoticeInv, ChoiceKept
  <2> QED
    BY <1>2, <1>3, <1>4, <2>1, <2>3, <2>4
<1> QED
  BY <1>5, <1>6, <1>7, <1>8 DEF NoticeInv

\* The button starts a check, which asks nothing more of the switch.
LEMMA RecheckInv ==
  ASSUME NoticeInv, Recheck
  PROVE  NoticeInv'
<1>1. NoticeTypeOK
  BY DEF NoticeInv
<1>2. /\ probed' = TRUE /\ reported' = Notice(saved)
      /\ UNCHANGED <<today, published, saved, conf, switch, chosen, crossed, unsaved, asked,
                     fate, noticeFaults>>
  BY DEF Recheck
<1>3. reported' \in Versions
  BY <1>1, <1>2, NoticeAssumption DEF Notice, NoticeTypeOK, Configs, Versions
<1>4. conf \in Configs /\ label \in Labels /\ check \in Checks
  BY <1>1 DEF NoticeTypeOK
<1>5. /\ check' \in Checks /\ label' \in Labels
      /\ \/ check' = check /\ label' = label
         \/ /\ check.phase = "none" /\ conf.enabled = TRUE
            /\ check'.phase = "running" /\ check'.from = conf /\ label' = "asking"
  BY <1>4, CheckStarts DEF Recheck
<1>6. NoticeTypeOK'
  BY <1>1, <1>2, <1>3, <1>5 DEF NoticeTypeOK
<1>7. AnswerCarried'
  BY <1>2, <1>5 DEF NoticeInv, AnswerCarried, Settled, HasAnswer
<1>8. CheckEnabled'
  BY <1>2, <1>5 DEF NoticeInv, CheckEnabled, ChoiceKept
<1>9. ChoiceKept'
  BY <1>2, <1>5 DEF NoticeInv, ChoiceKept
<1> QED
  BY <1>6, <1>7, <1>8, <1>9 DEF NoticeInv

\* A new process takes the switch and the last answer from the file.
LEMMA RestartPageInv ==
  ASSUME NoticeInv, RestartPage
  PROVE  NoticeInv'
<1>1. NoticeTypeOK
  BY DEF NoticeInv
<1>2. /\ switch' = conf'.enabled /\ probed' = FALSE /\ reported' = 0
      /\ crossed' = FALSE /\ chosen' = saved.enabled
      /\ UNCHANGED <<today, published, saved, asked>>
  BY DEF RestartPage
<1>3. /\ conf' \in Configs /\ unsaved' \in BOOLEAN /\ noticeFaults' \in 0..MaxNoticeFaults
      /\ ~unsaved' => conf' = saved
  BY <1>1, MissCounted, DefaultNoticeType DEF RestartPage, NoticeTypeOK
<1>4. conf'.enabled \in BOOLEAN /\ conf'.checked \in CheckTimes /\ saved.enabled \in BOOLEAN
      /\ 0 \in Versions
  BY <1>1, <1>3, NoticeAssumption DEF NoticeTypeOK, Configs, Versions
<1>5. /\ check' \in Checks /\ label' \in Labels
      /\ \/ /\ conf'.enabled = TRUE /\ label' = "asking"
            /\ check'.phase = "running" /\ check'.from = conf'
         \/ /\ conf'.enabled = FALSE /\ label' = "disabled"
            /\ check'.phase = "none"
  <2>1. CASE conf'.enabled
    <3>1. label' = "asking" /\ check' = [NoCheck EXCEPT !.phase = "running", !.from = conf']
      BY <2>1 DEF RestartPage
    <3> QED
      BY <1>3, <1>4, <2>1, <3>1, DefaultNoticeType DEF Checks, NoCheck, Labels
  <2>2. CASE ~conf'.enabled
    <3>1. label' = "disabled" /\ check' = NoCheck
      BY <2>2 DEF RestartPage
    <3> QED
      BY <1>4, <2>2, <3>1, DefaultNoticeType DEF NoCheck, Labels
  <2> QED
    BY <2>1, <2>2
<1>a. /\ fate' \in Fates \ {"sent", "answered"}
      /\ fate' = "saved" => fate = "saved" /\ conf' = saved
  BY <1>1 DEF RestartPage, NoticeTypeOK, Fates
<1>6. NoticeTypeOK'
  BY <1>1, <1>2, <1>3, <1>4, <1>5, <1>a DEF NoticeTypeOK
<1>7. AnswerCarried'
  <2>1. fate' = "saved" => HasAnswer(saved') /\ HasAnswer(conf')
    BY <1>2, <1>a DEF NoticeInv, AnswerCarried, HasAnswer
  <2> QED
    BY <1>2, <1>5, <1>a, <2>1 DEF AnswerCarried, Settled, HasAnswer
<1>8. CheckEnabled'
  BY <1>2, <1>3, <1>5 DEF CheckEnabled
<1>9. ChoiceKept'
  BY <1>2, <1>3, <1>5 DEF ChoiceKept
<1> QED
  BY <1>6, <1>7, <1>8, <1>9 DEF NoticeInv

\* The probe, the clock and the releases page leave the switch alone.
LEMMA OthersInv ==
  ASSUME NoticeInv, FirstStatus \/ Publish \/ DayPasses \/ UNCHANGED noticeVars
  PROVE  NoticeInv'
<1>1. /\ UNCHANGED <<saved, conf, switch, check, label, chosen, crossed, unsaved, asked,
                     fate, noticeFaults>>
  BY DEF FirstStatus, Publish, DayPasses, noticeVars
<1>2. NoticeTypeOK
  BY DEF NoticeInv
<1>3. today' \in CheckTimes
  <2>1. today \in CheckTimes /\ LastCheckTime \in Nat
    BY <1>2, NoticeAssumption DEF NoticeTypeOK
  <2> QED
    BY <2>1 DEF FirstStatus, Publish, DayPasses, noticeVars, CheckTimes
<1>4. published' \in Versions
  BY <1>2 DEF FirstStatus, Publish, DayPasses, noticeVars, NoticeTypeOK, Versions
<1>5. reported' \in Versions /\ probed' \in BOOLEAN
  BY <1>2, NoticeAssumption
     DEF FirstStatus, Publish, DayPasses, noticeVars, NoticeTypeOK, Versions, Notice, Configs
<1>6. NoticeTypeOK'
  BY <1>1, <1>2, <1>3, <1>4, <1>5 DEF NoticeTypeOK
<1>7. AnswerCarried' /\ CheckEnabled' /\ ChoiceKept'
  BY <1>1 DEF NoticeInv, AnswerCarried, Settled, HasAnswer, CheckEnabled, ChoiceKept
<1> QED
  BY <1>6, <1>7 DEF NoticeInv

-----------------------------------------------------------------------------

LEMMA NoticeStep == NoticeInv /\ [NoticeNext]_noticeVars => NoticeInv'
<1>1. SUFFICES ASSUME NoticeInv, [NoticeNext]_noticeVars PROVE NoticeInv'
  OBVIOUS
<1>2. CASE FirstStatus \/ Publish \/ DayPasses \/ UNCHANGED noticeVars
  BY <1>1, <1>2, OthersInv
<1> QED
  BY <1>1, <1>2, MoveSwitchInv, AnswerStoredInv, AskNetworkInv, RequestFailsInv,
     RequestAnsweredInv, FinishCheckInv, RecheckInv, RestartPageInv DEF NoticeNext

\* Every step keeps the inductive invariant.
THEOREM NoticeInvariance == NoticeSpec => []NoticeInv
  BY NoticeInitInv, NoticeStep, PTL DEF NoticeSpec

\* The switch, the memory and the file hold what the user last chose and was
\* told is kept, through checks, restarts and the clock, as long as no save or
\* load failed and the switch was not moved during a check
\* (_on_update_switch_changed against _finish_update_check).
THEOREM ChoicesAreKept == NoticeSpec => []ChoiceKept
<1>1. NoticeInv => ChoiceKept
  BY DEF NoticeInv
<1> QED
  BY <1>1, NoticeInvariance, PTL

\* A request follows another within the interval only when that one failed or
\* its answer was lost, for every length of the interval and through switches,
\* rechecks and restarts (check_for_update and what its callers keep of it).
THEOREM AnswersAreKept == NoticeSpec => AnswerNotAskedAgain
<1> DEFINE Spared ==
      Asking => fate \in {"none", "failed", "lost"} \/ today - asked >= CheckInterval
<1>1. ASSUME NoticeInv, [NoticeNext]_noticeVars
      PROVE  [Spared]_noticeVars
  <2>1. CASE AskNetwork
    BY <1>1, <2>1, AskNetworkInv
  <2>2. CASE MoveSwitch \/ Recheck
    <3>1. check' = check \/ check'.phase = "running"
      BY <2>2, DefaultNoticeType DEF MoveSwitch, Recheck, StartCheck, NoCheck, Checks
    <3> QED
      BY <3>1 DEF Asking
  <2>3. CASE FirstStatus \/ Publish \/ DayPasses \/ UNCHANGED noticeVars
    BY <2>3 DEF FirstStatus, Publish, DayPasses, noticeVars, Asking
  <2>4. CASE AnswerStored \/ RequestFails \/ RequestAnswered
    <3>1. check \in Checks
      BY <1>1 DEF NoticeInv, NoticeTypeOK
    <3>2. check'.phase = "done"
      BY <2>4, <3>1 DEF AnswerStored, RequestFails, RequestAnswered, Checks
    <3> QED
      BY <3>2 DEF Asking
  <2>5. CASE FinishCheck \/ RestartPage
    <3>1. check'.phase = "none" \/ check'.phase = "running"
      BY <2>5, DefaultNoticeType DEF FinishCheck, RestartPage, NoCheck, Checks
    <3> QED
      BY <3>1 DEF Asking
  <2> QED
    BY <1>1, <2>1, <2>2, <2>3, <2>4, <2>5 DEF NoticeNext
<1>2. NoticeInv /\ [NoticeNext]_noticeVars => [Spared]_noticeVars
  BY <1>1
<1> QED
  BY <1>2, NoticeInvariance, PTL DEF NoticeSpec, AnswerNotAskedAgain
=============================================================================
