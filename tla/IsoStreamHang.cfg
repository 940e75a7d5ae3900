CONSTANTS
  NumXfers = 2
SPECIFICATION FairSpec
PROPERTY StopAlwaysReturns
\* A transfer that was not submitted leaves fnusb_stop_iso waiting for ever.
CHECK_DEADLOCK FALSE
