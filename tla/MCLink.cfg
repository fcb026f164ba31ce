SPECIFICATION FairSpec
CONSTANTS
  Keepalive <- OwnIntervals
  LINK_STALE_FACTOR = 2
  EstablishmentTimeout = 3
  MaxDelay = 1
  Lossy = TRUE
  MayTeardown = TRUE
  ChannelsGiveUp = FALSE
  Talkers = {"initiator"}
INVARIANTS ToldOnce HalfOpenBounded
PROPERTIES OverForGood Settles
