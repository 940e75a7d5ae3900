CONSTANTS
  Commands = TRUE
  MaxFrames = 3
SPECIFICATION Spec
INVARIANTS TypeOK RgbBackIsFilled FreedAfterUse BuffersDistinct NoTearing
PROPERTY NeverOlder
\* With the mutex kept, the freenect thread and the join of main wait for each other.
CHECK_DEADLOCK FALSE
