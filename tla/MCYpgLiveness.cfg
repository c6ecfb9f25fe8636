SPECIFICATION FairSpec
CONSTANTS
  c1 = c1
  c2 = c2
  ins = ins
  upd = upd
  k = k
  Consumers = {c1}
  Statements = {ins, upd}
  Keyed = {ins}
  Keys = {k}
  Key <- MCKey
  MaxCalls = 3
  MaxFaults = 3
INVARIANTS
  ConnOkTellsWhy
PROPERTIES
  CallsReturn
