CONSTANTS
  Networks <- MCMasked
  HashlistSize = 8
SPECIFICATION WeakForwardingSpec
PROPERTY AcceptedComesUp
CHECK_DEADLOCK FALSE
