CONSTANTS
  NumAcceptors = 2
  MaxInst = 1
  Vlen = 3
  LastInst = 2
  Learners = {0}
  Clients = {1}
  Requests <- MCOneRequest
  Garbage <- MCGarbage
  Unstable = {}
SPECIFICATION Spec
INVARIANTS
  IndexInRange
PROPERTIES
  GenuineUnlessLate
  SafeUntilLateCall
