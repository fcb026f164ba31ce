SPECIFICATION MCSpec
CONSTANTS
  MaxSessions = 2
  Proposers = {"a", "b"}
  MayReject = {"a", "b"}
  ChannelRefuses = TRUE
  ThreadsFail = TRUE
  CloseBefore = 2
  WorkKinds = {"open"}
  DrainTimeout = 1
  Specs <- MCSpecs
  MAX_UNEXPECTED_RESTARTS = 1
  TERMINATE_GRACE_POLLS = 1
  Scripts <- MCScripts
  Consumers = {"c1", "c2"}
  MaxEvents = 3
  EventSize <- MCSize
  queue_max_events = 2
  queue_max_bytes = 2
INVARIANTS
  PunchAfterPeer OneOutcome
  ChildrenKnown StopsAll
  EventsAccounted
PROPERTIES
  Ends
CHECK_DEADLOCK FALSE
