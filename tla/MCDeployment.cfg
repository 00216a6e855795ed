CONSTANTS
  NumAcceptors = 3
  MaxInst = 1
  Vlen = 1
  LastInst = 1
  Learners = {0, 1}
  Clients = {1}
  Requests <- MCRequests
  Garbage = {}
  Unstable = {2}
  Correct = {0, 1}
SPECIFICATION LiveSpec
INVARIANTS
  TypeOK
  Agreement
  DeliveredIsChosen
  ResponseIsChosen
  Inv
PROPERTY
  EveryInstanceDelivered
