\* Ends disconnect and the network fails, at any step.
CONSTANTS
  Patient = FALSE
  Unreliable = TRUE
  MaxSends = 2
SPECIFICATION FairSpec
INVARIANTS TypeOK OneWriter Framing
PROPERTIES ImplementsLink SentArrives BothClose
CHECK_DEADLOCK FALSE
