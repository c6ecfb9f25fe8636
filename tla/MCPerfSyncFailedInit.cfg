SPECIFICATION Spec
CONSTANTS
  ip1 = ip1
  p1 = p1
  NoIp = NoIp
  Ips = {ip1}
  Ports = {p1, p2}
  N = 2
  Count = 1
  Hold = 2
  MaxFaults = 1
  MaxNow = 0
  MaxFailedConnects = 1
  Callers <- MCCallers
  FixedIp <- MCFixedIp
  Seed <- MCSeed
INVARIANTS
  FailedInitIsPassed
