SPECIFICATION MCSpec
CONSTANTS
  d0 = d0  d1 = d1  a = a  b = b  c = c
  Dbs <- MCDbs
  Names <- MCNames
  Stored <- MCStored
  SecondPage <- MCSecondPage
  Patterns <- MCPatterns
  ScanCap = 1
  MaxBusy = 2
  MaxGone = 1
  None = None
  ActionKeys = {k1, k2}
  Sends = {s1, s2}
  CopyPlaces = {here, there, other}
  Here = here
  Told = {there}
  ScanAllCap = 1
  MaxOthers = 1
INVARIANTS BulkActsOnListedKeys PanelShowsTheSelection AllLoadedBelowTheCap
PROPERTIES SavedWhereItWasRead ActsAsShown
SYMMETRY MCSymmetry
CONSTRAINT NotBoth
