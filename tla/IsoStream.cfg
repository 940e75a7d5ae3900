CONSTANTS
  NumXfers = 3
SPECIFICATION FairSpec
INVARIANTS TypeOK CountsOnce BuffersHeld CallbackHeld QuietWhenStopped LogHeld
PROPERTIES NoFreeInFlight StopReturns
\* A transfer that was not submitted leaves fnusb_stop_iso waiting for ever.
CHECK_DEADLOCK FALSE
