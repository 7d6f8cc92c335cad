CONSTANTS
  n1 = n1
  n2 = n2
  n3 = n3
  Nodes = {n1, n2, n3}
  k1 = k1
  k2 = k2
  Keys = {k1, k2}
  Indexes = {k2}
  UpstreamHas = {k1}
  NoNode = NoNode
  ResolveRetries = 2
  MaxRequests = 3
  MaxOrigins = 2
  MaxFaults = 0
  MaxCrashes = 0
  MaxEvictions = 0

SPECIFICATION Spec
SYMMETRY NodeSymmetry
INVARIANT IntactPackage
