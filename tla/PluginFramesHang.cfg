CONSTANTS
  Commands = FALSE
  MaxFrames = 2
SPECIFICATION FairSpec
PROPERTY StopReturns
\* With the mutex kept, the freenect thread and the join of main wait for each other.
CHECK_DEADLOCK FALSE
