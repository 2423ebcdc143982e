SPECIFICATION MCSpec
CONSTANTS
  k1 = k1  k2 = k2
  Keys <- MCKeys
  Elems <- MCElems
  Decode <- MCDecode
  KeyLists <- MCKeyLists
  Entries <- MCEntries
  MaxMeddling = 1
  None = None
  Databases = {d1, d2}
  Connections = {this, other}
  This = this
  Told = {this}
  DiffKeys = {n1, n2}
  Calls = {c1, c2}
INVARIANTS
  ResultIsTrue
  KeptWithoutReplace
  LossIsReported
  DiffIsOfTheSides
  FoundInTheSource
CHECK_DEADLOCK FALSE
SYMMETRY MCSymmetry
