SPECIFICATION GivenSpec
CONSTANTS
  i1 = i1
  Two = {x, y}
  Three = {d1, d2, d3}
  Pair = {e1, e2}
  Destinations = {d0}
  NextHops = {x, y}
  Interfaces = {i1}
  Blobs = {2, 4}
  Hops = {1, 2}
  PathLife <- MCPathLife
  PATHFINDER_E = 3
  TunnelLife = 2
  MaxPaths = 2
  MaxDestinations = 1
  PATHFINDER_M = 2
  MAX_RANDOM_BLOBS = 3
  PreferShorter = TRUE
  Tunnels = TRUE
  MayFail = FALSE
  InjectedHops = {}
  MaxTime = 2
PROPERTY FreshnessKept
