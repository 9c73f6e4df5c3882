CONSTANTS
  h1 = h1
  h2 = h2
  k1 = k1
  c1 = c1
  c2 = c2
  None = None
  Handlers <- MCHandlers
  Clients <- MCClients
  Contents <- MCContents
  Versions = {1, 2}
  MaxPosts = 3
SPECIFICATION RegistrySpec
SYMMETRY MCSymmetry
INVARIANT VersionsImmutable
CHECK_DEADLOCK FALSE
