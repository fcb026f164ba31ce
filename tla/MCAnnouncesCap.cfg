SPECIFICATION QueueSpec
CONSTANTS
  Interfaces = {i1, i2}
  Destinations = {d1, d2, d3}
  Hops = {1, 2}
  Costs = {1, 2}
  MAX_QUEUED_ANNOUNCES = 2
  QUEUED_ANNOUNCE_LIFE = 3
  MaxInterfaces = 1
  MaxOffers = 5
  Ports = {"i", "j"}
  Roaming = {"j"}
  Announces <- MCReceived
  Requests <- MCRequests
  PATHFINDER_R = 1
  LOCAL_REBROADCASTS_MAX = 2
  MaxTags = 1
  MaxRetained = 2
  MaxTime = 4
  Keys <- MCKeys
  Genuine = {"a", "b"}
  Bytes <- MCBytes
  HopCounts = {1, 2}
  Policies = {"DropNewest", "DropOldest", "DropWorst"}
  MaxEntries = 2
  MaxBytes = 3
  MaxSignatures = 1
  MaxArrivals = 3
  Senders = {"a", "b", "c"}
  Distances = {1, 2}
  BURST_HOLD = 1
  BURST_PENALTY = 2
  HELD_RELEASE_INTERVAL = 1
  MaxHeld = 2
  MaxSwings = 2
  RATE_TARGET = 2
  RATE_GRACE = 1
  RATE_PENALTY = 1
  RATE_TTL = 6
  MaxNow = 14
  Hashes = {"h1", "h2", "h3", "h4"}
  MaxSize = 3
  Homes = {2, 6, 7}
  CHANNEL_SEQ_MODULUS = 9
  CHANNEL_WINDOW_MAX_FAST = 3
INVARIANT CapKept
CHECK_DEADLOCK FALSE
