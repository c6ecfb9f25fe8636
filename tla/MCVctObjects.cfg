SPECIFICATION Spec
CONSTANTS
  k = k
  Empty = Empty
  Shared = Shared
  Null = Null
  Strings = {Empty, k}
  Int64 <- MCInt64
  Objects = {o1, o2}
  MaxCalls = 4
  ValueForeign <- MCValueForeign
  KeytableForeign <- MCKeytableForeign
  RouteForeign <- MCRouteForeign
INVARIANTS
  BitsMatchStorage
  RoundTrip
  SizesAreTrue
  MergeIsConcatenation
  CopiesAreEqual
  AcceptedIsWhole
SYMMETRY Symmetry
CHECK_DEADLOCK FALSE
