SPECIFICATION MCSpec
CONSTANTS
  k1 = k1  k2 = k2
  Keys <- MCKeys
  KeyLists <- MCKeyLists
  Elems <- MCElems
  Decode <- MCDecode
  Infinite <- MCInfinite
  Entries <- MCEntries
  TargetEntries <- MCTargetEntries
  MaxMeddling = 1
  None = None
  Databases = {d1, d2}
  Targets = {this, other}
  This = this
  Told = {this}
  Patterns = {all, blank}
  Blank = blank
  Exports = {f1, f2}
  Scripts = {s1, s2}
  Jobs = {j1, j2}
INVARIANTS
  TypeOK
  SnapshotIsTrue
  RoundTrip
  OnlyReportedKeysChange
  OnlyInfinityFails
  ShowsWhatItMigrates
CHECK_DEADLOCK FALSE
SYMMETRY MCSymmetry
