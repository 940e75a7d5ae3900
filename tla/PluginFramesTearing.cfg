CONSTANTS
  Commands = FALSE
  MaxFrames = 3
SPECIFICATION Spec
INVARIANT OwnedByGL
\* With the mutex kept, the freenect thread and the join of main wait for each other.
CHECK_DEADLOCK FALSE
