SPECIFICATION MCSpec
CONSTANTS
  Event = {"", "quote"}
  Search = {"", "bad"}
  Smart = {"", "bad"}
  ShownPresets = 1
  PresetLimit = 2
  MaxSaves = 3
  Urls = {u1, u2}
  Typed = {u1}
  Template = templateUrl
  DemoUrl = demoUrl
  Envs = {e1}
  ListLimit = 2
  MaxConnections = 3
  VariableKeys = {"variable", "variable_2"}
  InvalidKey = "bad key"
  Values = {"", "x"}
  Literal = "?token="
  MaxEdits = 2
  Sessions = {s1, s2}
  Retained = 2
  MaxArrivals = 3
  Smallest = 2
  Largest = 4
  Step = 2
  KeptPresets = 2
  MaxTrimmed = 4
  MaxPresets = 3
  Overscan = 2
  Viewport = 4
  MaxItems = 12
  ListedSessions = 1
  ListedEnvironments = 1
  Contents <- ContentsOfPackets
  AuthWindow = 2
  ReconnectWindow = 4
  Gaps = {0, 3}
  MaxRelated = 3
  LocalPlugins <- SomePlugins
  DecoderIds = {"own"}
  MaxPlugins = 3
  Nothing = Nothing
SYMMETRY Symmetry
INVARIANTS
  SelectedIsShown
  ListConsistent
  RelationLaws
  OperatorLaws
  DraftsAreFresh
  ListsAreUsable
  SettingsSurvive
PROPERTIES
  ManualSelectionStays
  EnvironmentsKeepMeaning
CHECK_DEADLOCK FALSE
