\* Two nodes; f1 is a weight file the hub serves, f2 an excluded metadata
\* file the hub answers 404 for.  Three request records allow a chain of
\* two forwards (to a peer or to the node itself).
CONSTANTS
  n1 = n1
  n2 = n2
  Nodes = {n1, n2}
  f1 = f1
  f2 = f2
  Files = {f1, f2}
  Excluded = {f2}
  UpstreamHas = {f1}
  Asks <- MCAsks
  NoNode = NoNode
  ResolveRetries = 2
  MaxRequests = 3
  MaxOrigins = 1
  MaxFaults = 1
SPECIFICATION Spec
INVARIANT TypeOK
 
