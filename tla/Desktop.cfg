\* TelemetryArchive
CONSTANTS
  NoTime = NoTime
  Interval = 2
  Day = 2
  Retention = 3
  Windows = {1, 3}
  Budget = 2
  LastTime = 4
  EventTimes = {1, 3}
  MaxFaults = 2
\* UpdateNotice
CONSTANTS
  CheckInterval = 2
  Installed = 2
  Released = {1, 2, 3}
  LastCheckTime = 5
  MaxNoticeFaults = 2
\* SceneFiles
CONSTANTS
  Slots = {"work", "game"}
  Game = "game"
  Watts = {1, 2}
  Lightings = {1, 2}
  DefaultLighting = 1
  Readings <- MCReadings
  Kept <- MCKept
  MaxSceneFaults = 2
\* PowerRules
CONSTANTS
  RuleSources = {"ac", "battery"}
  RuleSlots = {"work", "game"}
  DefaultRules <- MCDefaultRules
  MaxRuleFaults = 2
\* PowerWrites
CONSTANTS
  Registered = {1, 2, 3, 4, 5}
  SustainedBounds <- MCSustainedBounds
  SlowBounds <- MCSlowBounds
  MaxPowerFaults = 3
\* KeyboardReports
CONSTANTS
  Zones = 24
  ReportSize = 960
  Shades <- MCShades
  Percents <- MCPercents
  Asked <- MCAsked
  MaxHidFaults = 1
\* ThermalAlerts and DoctorReport
CONSTANTS
  NoReading = NoReading
  Temperatures = {79, 80, 91, 92}
  Cooldown = 3
  LastMoment = 8
  Machines <- MCMachines
\* DesktopSession
CONSTANTS
  NoLanguage = NoLanguage
  Languages = {"en", "es", "fr"}
  SystemLanguage = "en"
  Overrides = {"fr", NoLanguage}
  MaxSessionFaults = 2
\* PackageScripts
CONSTANT MaxPackageFaults = 3
SPECIFICATION DesktopSpec
INVARIANTS
  DesktopTypeOK
   SamplesSpaced ViewComplete
  ChoiceKept
  SavedScenesKept OneScene
  RulesShown
  PowerSound
  KeyboardShows
  HeatIsTold
  DeploymentKept
PROPERTIES
  AnswerNotAskedAgain
  ReportHonest
  LanguageFollows
