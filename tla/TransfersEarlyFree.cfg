CONSTANTS
  Transfers <- Two
  MaxUrbs = 3
  Cap = 2
  Ifaces <- TwoIfaces
  MaxAutoclaims = 2
SPECIFICATION MCSpec
INVARIANT AllReaped
CHECK_DEADLOCK FALSE
