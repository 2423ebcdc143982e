SPECIFICATION Spec
CONSTANTS
  k1 = k1  k2 = k2
  Keys <- MCKeys
  Elems <- MCElems
  Decode <- MCDecode
  KeyLists <- MCKeyLists
  Entries <- MCEntries
  MaxMeddling = 1
  None = None
INVARIANTS SourceSurvives
CHECK_DEADLOCK FALSE
