SPECIFICATION MCSpec
CONSTANTS
  CHANNEL_WINDOW = 2
  CHANNEL_WINDOW_MIN = 1
  CHANNEL_WINDOW_FLEXIBILITY = 1
  CHANNEL_WINDOW_MAX_SLOW = 2
  CHANNEL_WINDOW_MAX_MEDIUM = 3
  CHANNEL_WINDOW_MAX_FAST = 4
  CHANNEL_WINDOW_MIN_LIMIT_MEDIUM = 1
  CHANNEL_WINDOW_MIN_LIMIT_FAST = 2
  CHANNEL_FAST_RATE_THRESHOLD = 1
  ROUND_MODULUS = 3
  Rtts = {"zero", "fast", "medium", "slow", "very_slow"}
  CHANNEL_SEQ_MODULUS = 8
  CHANNEL_MAX_TRIES = 2
  MaxMsgs = 2
  MaxUnemitted = 1
  MaxAhead = 4
  MayFlush = TRUE
  MaxLag = 9
  LateOpen = TRUE
  RESOURCE_WINDOW = 3
  RESOURCE_WINDOW_MIN = 2
  RESOURCE_WINDOW_FLEXIBILITY = 2
  RESOURCE_WINDOW_MAX_SLOW = 3
  RESOURCE_WINDOW_MAX_VERY_SLOW = 2
  RESOURCE_WINDOW_MAX_FAST = 4
  RESOURCE_FAST_RATE_THRESHOLD = 1
  RESOURCE_VERY_SLOW_RATE_THRESHOLD = 1
  RESOURCE_HASHMAP_MAX_LEN = 3
  RESOURCE_MAX_RETRIES = 2
  RESOURCE_MAX_ADV_RETRIES = 2
  ProofRetries = 1
  Scenes <- MCSegmentedLossy
INVARIANT DeliversWhatWasSent
CHECK_DEADLOCK FALSE
