\* Files of up to nine bytes in chunks of two: up to five leaves, of which the
\* fifth is promoted twice. At the end there is nothing left to do.
CONSTANTS
  Bytes = {0, 1}
  ChunkSize = 2
  MaxSize = 9
  Junk <- MCJunk
  MaxWrong = 2
SPECIFICATION FairSpec
INVARIANTS
  ChunksPartitionData
  EveryLeafCounts
  RootMatchesReference
  IntegrityMeansOriginal
PROPERTY UploadEnds
CHECK_DEADLOCK FALSE
