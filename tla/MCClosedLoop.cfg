CONSTANTS
  Outstanding = 3
  MaxLosses = 4
  MaxDups = 2
  MaxEarly = 1
SPECIFICATION Spec
INVARIANTS
  TypeOK
  WindowKept
  IdsArePlaces

  
