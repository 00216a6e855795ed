CONSTANTS
  Keys = {"a", "ab"}
  Values = {"b", "d"}
  NoKey = "no key"
  Concat <- MCConcat
  HashOf <- MCHashOf
  InitialBuckets = 2
  Threshold = 3
  MaxPuts = 6
SPECIFICATION Spec
INVARIANTS
  TypeOK
  LatestOnTop
PROPERTY
  ImplementsMultimap
