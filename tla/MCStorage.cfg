\* Two calls, one upload of at most two chunks, one crash, one write error.
CONSTANTS
  c1 = c1
  c2 = c2
  u1 = u1
  r1 = r1
  Calls = {c1, c2}
  UploadIDs = {u1}
  RemoteIDs = {r1}
  Indexes <- MCIndexes
  Requested <- MCOneOfEach
  ExpectedHashes = {"whole"}
  FileSizes = {0, 2}
  Bits <- MCBits
  Positions <- MCPositions
  MaxCrashes = 1
  MaxWriteErrors = 1
SPECIFICATION FairSpec
INVARIANTS
  TypeOK
  KnownFileIsComplete
  AckedIsFound
  AckedIsDurable
  AssembledFileIsWhole
PROPERTIES
  WholeFileIsOnlyRewritten
  ImplementsService
  CallsReturn
