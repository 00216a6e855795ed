CONSTANTS
  NumAcceptors = 3
  MaxInst = 1
  Vlen = 1
  LastInst = 1
  Learners = {0}
  Clients = {1}
  Requests <- MCRequests
  Garbage = {}
  Unstable = {}
  Rounds = {}
  RoundTypes <- BothPhases
SPECIFICATION SpecRestarts
INVARIANT
  DeliveredIsChosen
