\* One call at a time, an upload and a restart: no race and no disk error.
CONSTANTS
  c1 = c1
  c2 = c2
  u1 = u1
  r1 = r1
  Calls = {c1}
  UploadIDs = {u1}
  RemoteIDs = {r1}
  Indexes <- MCIndexes
  Requested <- MCRequested
  ExpectedHashes = {"whole"}
  FileSizes = {2}
  Bits <- MCBits
  Positions <- MCPositions
  MaxCrashes = 1
  MaxWriteErrors = 0
SPECIFICATION Spec
INVARIANT HasChunkIsGroundTruth
