CONSTANTS
  Cell = 2
  HalfRange = 64
  Page = 4
  StartBreak = 8
  MaxBreak = 22
  Sizes <- MCSizes
  Values <- MCValues
  Strangers <- MCStrangers
  CatchesThrow = TRUE
SPECIFICATION AllocatorSpec
INVARIANT ListClosed
