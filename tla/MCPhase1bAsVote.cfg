CONSTANTS
  NumAcceptors = 3
  MaxInst = 1
  Vlen = 1
  LastInst = 1
  Learners = {0}
  Clients = {1}
  Requests <- MCRequests
  Garbage = {}
  Unstable = {}
  Rounds = {1}
  RoundTypes <- Phase1a
SPECIFICATION SpecRounds
INVARIANT
  DeliveredIsChosen
