CONSTANTS
  t1 = t1
  t2 = t2
  None = None
  Users <- TwoUsers
  Handlers <- TwoUsers
\* In the reliable half, threads without a transfer wait for ever when nothing happens.
CHECK_DEADLOCK FALSE
SPECIFICATION FairSpec
INVARIANTS
  TypeOK
  PollsOpen
  SeesOpened
  PipeHasByte
  SomebodyAwake
PROPERTIES
  ChangeReturns
  TransferCompletes
