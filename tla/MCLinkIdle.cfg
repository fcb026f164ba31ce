SPECIFICATION Spec
CONSTANTS
  Keepalive <- CloseIntervals
  LINK_STALE_FACTOR = 2
  EstablishmentTimeout = 3
  MaxDelay = 0
  Lossy = FALSE
  MayTeardown = FALSE
  ChannelsGiveUp = FALSE
  Talkers = {}
INVARIANT StaysUp
