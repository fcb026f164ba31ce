SPECIFICATION UpgradeSpec
CONSTANTS
  MaxSessions = 2
  Proposers = {"a", "b"}
  MayReject = {}
  ChannelRefuses = FALSE
  ThreadsFail = FALSE
  CloseBefore = 0
  WorkKinds = {"open"}
  DrainTimeout = 1
  Specs <- MCSpecs
  MAX_UNEXPECTED_RESTARTS = 1
  TERMINATE_GRACE_POLLS = 1
  Scripts <- MCScripts
  Consumers = {"c1", "c2"}
  MaxEvents = 3
  EventSize <- MCSize
  queue_max_events = 2
  queue_max_bytes = 2
PROPERTY SessionsEnd
CHECK_DEADLOCK FALSE
