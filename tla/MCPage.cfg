SPECIFICATION Spec
CONSTANTS
  Databases = {d1, d2}
  None = None
  Requests = {x1, x2, x3}
  Streams = {y1, y2}
  Checks = {z1, z2}
  Views = {y1, y2}
  Entries = {x1, x2, x3}
  Limit = 2
  Unseen = Unseen
  Names = {y1, y2}
  PageSize = 1
  Changes = {z1, z2}
  Lines = {y1, y2}
  MaxLines = 3
  Panes = {w1, w2}
  Commands = {flush, shut, script}
  DANGEROUS = {flush, shut, script}
  TwoWords = {script}
  MaxSent = 2
  MaxFilled = 3
  plain = plain  accented = accented
  Pages = {y1, y2}
  Ids = {z1}
  Secrets = {plain, accented}
  Unsealable = {accented}
  Garbled = Garbled
  Filled <- MCFilled
INVARIANTS
  TypeOK
  StatsOfTheDatabase
  SettledOnTheDatabase
  ListensToTheDatabase
  StatusIsTrue
  KeepsWhatWasKept
  TableIsTrue
  DiffIsLongest
  RunsOnlyWhatItWarnedOf
  HandsOverWhatItShows
  KeepsTheConnections
SYMMETRY MCSymmetry
