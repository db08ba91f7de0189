SPECIFICATION MCSpec
CONSTANTS
  Row <- MCRow
  Place = {0, 1, 2, 3}
  Frames <- MCFrames
  Profiles <- MCProfiles
  Writes = 2
CHECK_DEADLOCK FALSE
INVARIANT TypeOK
INVARIANT SuccessIsComplete
INVARIANT SingleFileIsAtomic
INVARIANT OnePartitionAtRisk
