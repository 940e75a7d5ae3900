CONSTANTS
  SeqMod = 6
  MaxLost = 2
  FrameSize = 11
  PktSize = 3
  DataLens <- MCDataLens
  MaxGap = 5
  MaxFrames = 4
SPECIFICATION Spec
INVARIANTS
  TypeOK
  CopyInBounds
  WholeFrameSize
  SlotPlacement
  TimestampOfFrame
  CountsFilled
  Recovers
PROPERTY TimestampsIncrease
