\* A message without a body after one with a body.
CONSTANTS
  Patient = TRUE
  Unreliable = FALSE
  MaxSends = 2
SPECIFICATION Spec
INVARIANT DeliveredAsSent
CHECK_DEADLOCK FALSE
