SPECIFICATION FairSpec
CONSTANTS
  j1 = j1
  j2 = j2
  j3 = j3
  j4 = j4
  s1 = s1
  s2 = s2
  s3 = s3
  k1 = k1
  k2 = k2
  k3 = k3
  parquet = parquet
  csv = csv
  other = other
  g = g
  Job = {j1, j2, j3, j4}
  Signature = {s1, s2, s3}
  Key = {k1, k2, k3}
  File = {parquet, csv, other}
  Group = {g}
  Worker = {w1, w2}
  ByTick = {j1, j2}
  SignatureOf <- MCSignatureOf
  KeyOf <- SameFormats
  FilesOf <- ParquetOnly
  GroupOf <- MCGroupOf
  Requested <- MCRequested
  Limit <- MCLimit
  None = None
CHECK_DEADLOCK FALSE
INVARIANT TypeOK
INVARIANT ConnectionsAccounted
INVARIANT ExclusiveOutput
INVARIANT OneActivePerSignature
INVARIANT OneScheduledSuccessPerDay
PROPERTY EveryJobEnds
