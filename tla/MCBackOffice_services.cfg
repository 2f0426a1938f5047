\* One area per initial state.
SPECIFICATION Spec
SYMMETRY Symmetry
CONSTANTS
  Senders = {ann, bob}
  NoSender = NoSender
  Gaps = {130, 650}
  MaxChat = 5
  AnchorLag = 1
  RecentLimit = 4
  SilenceThreshold = 600
  Unset = Unset
  NoRow = NoRow
  NoRuling = NoRuling
  CueSets <- MCCueSets
  Settings <- MCSettings
  Admins = {a1, a2}
  Texts <- MCTexts
  KeyTexts <- MCKeyTexts
  NoValue = NoValue
  NoConfig = NoConfig
  NoForm = NoForm
  Env <- MCEnv
  Editable <- MCEditable
  PolicyBodies <- MCPolicyBodies
  Snippets = {k1, k2, k3, k4}
  FetchLimit = 3
  ScoresSeen <- MCScores
  TopK = 2
  NoPolicy = NoPolicy
  ConfigRows <- MCConfigRows
  LlmContents <- MCLlmContents
  Docs = {d1}
  Contents <- MCContents
  MaxLen = 4
  Requests = {q1, q2}
  Unborn = Unborn
  Deleted = Deleted
  MaxChunks = 8
  DeviceIds = {phone}
  RobotIds = {r1, r2}
  NoRobot = NoRobot
  Window = 3
  Interval = 2
  MaxTime = 6
INVARIANTS
  TypeOK
  OnlyQuestionsAreAnswered
  OvertalkSilences
  MaskIsNeverStored
  SilencedGroupStaysSilent
  PromptHoldsTheBest
  ReindexLosesNothing
  CutsNothingOff
  SilenceIsNoticed
  HeardRobotIsOnline
PROPERTIES
  UntouchedFormKeepsConfig
  PolicySaveIsLocal
CHECK_DEADLOCK FALSE
