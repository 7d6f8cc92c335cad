CONSTANTS
  n1 = n1
  n2 = n2
  n3 = n3
  Nodes = {n1, n2}
  k1 = k1
  k2 = k2
  Keys = {k1, k2}
  Indexes = {k2}
  UpstreamHas = {k1, k2}
  NoNode = NoNode
  ResolveRetries = 2
  MaxRequests = 2
  MaxOrigins = 1
  MaxFaults = 1
  MaxCrashes = 1
  MaxEvictions = 1

SPECIFICATION Spec
INVARIANT TypeOK
