CONSTANTS
  Addrs <- Two
  MaxGen = 3
  SizeStep = 1
  MaxRefs = 1
  Users <- Two
  MaxThreads = 2
  Handles <- Two
  Ifaces <- One
  Transfers <- Two
  MaxTime = 3
  Timeouts <- SomeTimeouts
  Submitters <- Two
  MAX_FDS = 3
  MaxCommands = 5
  TagMod = 4
  UserBufs <- OfUser
  Plugins <- Two
  Widths <- DepthWidths
  Lens <- Twice
  Sizes <- Small
SPECIFICATION Spec
INVARIANTS TypeOK InUse Listed Buffered Described Watched Converted
CHECK_DEADLOCK FALSE
