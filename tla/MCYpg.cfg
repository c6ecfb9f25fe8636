SPECIFICATION Spec
CONSTANTS
  c1 = c1
  c2 = c2
  ins = ins
  upd = upd
  k = k
  Consumers = {c1, c2}
  Statements = {ins, upd}
  Keyed = {ins}
  Keys = {k}
  Key <- MCKey
  MaxCalls = 2
  MaxFaults = 2
SYMMETRY SameConsumers
INVARIANTS
  YpgTypeOK
  ResultsAccounted
  TwiceOnlyAfterLoss
PROPERTIES
  KeepsConsumptionPromise
