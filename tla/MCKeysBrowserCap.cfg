SPECIFICATION Spec
CONSTANTS
  d0 = d0  d1 = d1  a = a  b = b  c = c
  Dbs <- MCDbs
  Names <- MCNames3
  Stored <- MCStored3
  SecondPage <- MCSecondPage
  Patterns <- MCPatterns3
  ScanCap = 1
  MaxBusy = 2
  MaxGone = 1
  None = None
INVARIANTS AllKeysLoaded
