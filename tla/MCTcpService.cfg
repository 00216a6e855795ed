CONSTANTS
  MaxRequestCuts = 2
  MaxAnswerCuts = 2
  MaxFailures = 1
SPECIFICATION Spec
INVARIANTS
  TypeOK
  BacklogBounded
  WholeWrites
PROPERTY
  AnswersKeepComing
CHECK_DEADLOCK FALSE
