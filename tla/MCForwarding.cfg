CONSTANTS
  Networks <- MCNetworks
  HashlistSize = 8
SPECIFICATION ForwardingSpec
INVARIANTS
  OnceEach
  AnswersRetrace
PROPERTIES
  Quiesces
  Answered
CHECK_DEADLOCK FALSE
