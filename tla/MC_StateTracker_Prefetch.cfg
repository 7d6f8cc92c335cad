CONSTANTS
  i1 = i1
  i2 = i2
  d1 = d1
  d2 = d2
  p1 = p1
  h1 = h1
  Images = {i1, i2}
  Digests = {d1, d2}
  Digest <- MCDigest
  Broken = {}
  LatestImages = {i2}
  ResolveLatestTag = FALSE
  Included = {i1}
  PeerInventory = {d1, d2}
  PeerStatus = {200}
  PipKeys = {p1}
  HfKeys = {h1}
  KeyTTL = 2
  MaxChurn = 2
  MaxEvents = 2
  GroupFails = FALSE

SPECIFICATION Spec
PROPERTY PrefetchStoresMissing
