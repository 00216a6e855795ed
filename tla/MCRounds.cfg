CONSTANTS
  NumAcceptors = 2
  MaxInst = 1
  Vlen = 1
  LastInst = 1
  Learners = {0}
  Clients = {1}
  Requests <- MCOneRequest
  Garbage = {}
  Unstable = {}
  Rounds = {1}
  RoundTypes <- BothPhases
SPECIFICATION SpecRounds
INVARIANTS
  CountedOnce
PROPERTIES
  PromiseKept
  FinishedIsFrozen
