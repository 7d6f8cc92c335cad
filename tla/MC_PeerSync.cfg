\* Two nodes whose peer-index resolves use a channel of two addresses
\* (20 in the code, one slot per node here), one restart under a new id
\* (so three records can be live), one failed dial, and one image that
\* comes to fail its walk on a node and may be fixed again.
CONSTANTS
  n1 = n1
  n2 = n2
  Nodes = {n1, n2}
  ZeroCountBuffer = 2
  MaxRestarts = 1
  MaxFaults = 1
  MaxWalkFailures = 1

SPECIFICATION Spec
INVARIANT TypeOK
 
