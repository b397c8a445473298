SPECIFICATION Spec
CONSTANTS
  MaxFiles = 2
  MaxLines = 2
  MaxPieces <- MCMaxPieces
  SeekEnd = TRUE
  Batch = 3
  MaxLine = 1
  Rotations <- BothRotations
INVARIANTS
  TypeOK
  NoMixedLines
  DeliveredOnce
  NothingSkipped
PROPERTIES
  LeavesNothingBehind
  LinesArrive
  FollowsLog
