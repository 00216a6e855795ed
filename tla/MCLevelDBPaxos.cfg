CONSTANTS
  NumAcceptors = 3
  Replicas = {0, 2}
  Unstable = {0}
  Submissions <- MCSubmissions
  Empty = "empty"
  Missing = Missing
  MaxSlots = 3
  MaxFailures = 1
  MaxRestarts = 1
SPECIFICATION Spec
INVARIANTS
  TypeOK
  SameWritesConverge
  GetSeesLatest
  SameFate
  AnsweredOnce
CHECK_DEADLOCK FALSE
