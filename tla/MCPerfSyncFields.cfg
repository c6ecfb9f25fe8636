SPECIFICATION Spec
CONSTANTS
  ip1 = ip1
  p1 = p1
  NoIp = NoIp
  Ips = {ip1}
  Ports = {p1, p2}
  N = 1
  Count = 3
  Hold = 2
  MaxFaults = 3
  MaxNow = 2
  MaxFailedConnects = 1
  Callers <- MCCallers
  FixedIp <- MCFixedIp
  Seed <- MCSeed
INVARIANTS
  PerfTypeOK
  ReturnedIsWritten
PROPERTIES
  ExpiryNeverRewritten
  KeepsWritePromise
