CONSTANTS
  NumAcceptors = 1
  MaxInst = 1
  Vlen = 3
  LastInst = 2
  Learners = {0}
  Clients = {1}
  Requests <- MCOneRequest
  Garbage = {}
  Unstable = {}
  Rounds = {}
  RoundTypes <- BothPhases
SPECIFICATION SpecRounds
INVARIANT
  DeliveredIsChosen
