\* The server itself and what must get on in it, one component at a time; the bounds of each are named
\* with its own constants.
SPECIFICATION MachineSpec
CONSTANTS
  Parts = {"tasks", "updater", "child", "oauth", "start", "uia"}
  c1 = c1
  c2 = c2
  c3 = c3
  Desktop = Desktop
  Shell = Shell
  Calls = {c1, c2, c3}
  Categories = {Desktop, Shell}
  CategoryOf <- CategoryOfCall
  Limit <- SlotsOf
  RuntimeOf <- NoRuntime
  StaleAfter = 0
  MaxHistory = 1
  MaxTime = 0
  Published <- PublishedVersions
  Installable = {1}
  SoakDays = 1
  MAX_ATTEMPTS = 2
  LastDay = 3
  MaxUpdaterFaults = 2
  Pids = {p1, p2, p3}
  Leader = p1
  Commands = {k1, k2}
  Logins = {1, 2, 3, 4, 5}
  Kind <- LoginKind
  Who <- LoginUser
  On <- LoginDisplay
  Me = "me"
  Fallback = ":0"
  MaxSessionFaults = 3
  Clients = {"fixed", "dynamic"}
  Configured = "fixed"
  NeedsSecret = TRUE
  HasKey = TRUE
  Uris = {"good", "bad"}
  GoodUris = {"good"}
  CODE_LIFETIME = 1
  TOKEN_LIFETIME = 1
  MaxNow = 3
  MaxCodes = 2
  Platform = "linux"
  Named <- ToolLists
  Screens <- Displays2
  MaxWidths <- Widths
  Things <- Rectangles
  KeyLists <- HeldKeys
  Amounts <- WheelAmounts
  MAX_CLICKS = 100
  MAX_LINES = 10
  Texts <- TypedTexts
  Repeats = {0, 1, 3}
  MAX_REPEAT = 100
  MAX_UNITS = 3
  DragSteps = 2
  MaxInputFaults = 1
  Windows = {"w", "v"}
  NodeOrder <- Order
  WindowOf <- NodeWindow
  PlaceOf <- NodePlace
  Operable = {"a"}
  Editable = {"b"}
  Titles = {T, U}
  Names = {x, y}
  MaxChanges = 3
  Elements <- Paths
  Children <- PathChildren
  Interactive <- PathInteractive
  BoxOf <- PathBox
  NameOf <- PathName
  Readings <- OcrReadings
  MAX_MARKS = 3
  Limits = {2, 9}
  Depths = {1, 2, 3}
  Visits = {3, 9}
  OpOf <- FewerOps
  MaxThreads = 3
  MAX_STUCK_WORKERS = 2
INVARIANTS
  AttemptsCounted
  TokensProven
  ShellNeverOpen
PROPERTIES
  StaysOnChannel
  GroupEndsAlone
  WaitersAnswered
  AbandonedEnds
CHECK_DEADLOCK FALSE
