CONSTANTS
  NumAcceptors = 1
  MaxInst = 2
  Vlen = 3
  LastInst = 2
  Learners = {0, 1}
  Clients = {1}
  Requests <- MCRequests
  Garbage = {}
  Unstable = {0}
SPECIFICATION Spec
INVARIANTS
  VotesAreReal
  NoDoubleDelivery
PROPERTY
  ImplementsSequencer
