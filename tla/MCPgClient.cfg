SPECIFICATION MCSpec
CONSTANTS
  Oids = {1, 2}
  MaxLen = 2
  MaxSeek = 2
  MaxSize = 3
  MaxCalls = 5
  MaxFaults = 2
  Names = {n1, n2}
  Empty = Empty
  Null = Null
  Values = {v1, Empty}
  Heads <- MCHeads
  MaxRows = 2
  IntMax = 2
  MaxCount = 3
  MaxMade = 2
  Threads = {t1, t2, t3}
  Codes = 2
  NoTable = NoTable
SYMMETRY Symmetry
INVARIANTS
  PgClientTypeOK
  NoHalfObject
  ReadIsWhole
  NoDescriptorLeft
  AnswersAreFinal
PROPERTIES
  QueryAppendsRows
