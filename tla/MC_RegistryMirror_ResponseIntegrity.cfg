CONSTANTS
  n1 = n1
  n2 = n2
  n3 = n3
  Nodes = {n1, n2, n3}
  k1 = k1
  k2 = k2
  Keys = {k1, k2}
  Blobs = {k1}
  LatestTags = {k2}
  ResolveLatestTag = FALSE
  NoNode = NoNode
  ResolveRetries = 2
  MaxRequests = 4
  MaxOrigins = 1
  MaxFaults = 1
  MaxChurn = 2
  Prefetch = FALSE

SPECIFICATION Spec
SYMMETRY NodeSymmetry
INVARIANT ResponseIntegrity
