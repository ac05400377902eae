\* A client that sends as soon as IsConnect() is true: is it accepted?
CONSTANTS
  Patient = FALSE
  Unreliable = FALSE
  MaxSends = 2
SPECIFICATION Spec
INVARIANT RejectedIfWrong
CHECK_DEADLOCK FALSE
