SPECIFICATION CallerSpec
CONSTANTS
  c1 = c1
  ip1 = ip1
  ip2 = ip2
  ip3 = ip3
  NoIp = NoIp
  Callers = {c1}
  Ips = {ip1, ip2, ip3}
  Ports = {p1, p2}
  FixedIp <- MCFixedIp
  MaxFailedConnects = 3
INVARIANTS
  SendsOnUsableContext
  LeaksOnlyFailedReconnects
  AsksNodeItWasSentTo
CHECK_DEADLOCK FALSE
