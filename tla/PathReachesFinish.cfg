CONSTANTS
  START = 3
  FINISH = 2
  MAX_HOURS = 100
  MAX_DELIVERABLES = 4
  DerivedHours = 20
  None = None
  Unassigned = Unassigned
  SPLIT_MIN_HOURS = 160
  MISSING_DEPENDENCY_TOP_K = 2
  MAX_SIGNAL_GROUP = 2
  MAX_DIR_DEPTH = 2
  Directory <- Directories
  LowInformation = {"upstream artifact"}
  ShortTexts = {"upstream artifact", "the artifact", "the tests", "the server", "the release"}
  MergeIds = {4}
  Plans <- MCPlans
  HandEdits <- MCHandEdits
  Answers <- MCAnswers
  Caps = {4, 7}
  P = P
  Q = Q
  A = A
  B = B
  C = C
SPECIFICATION Spec
CHECK_DEADLOCK FALSE
INVARIANT PathReachesFinish
