SPECIFICATION FairSizeSpec
CONSTANTS
  Threads = {0, 1}
  Zero = 0
  C = 2
  Buckets = {10, 11, 12, 13}
  Begin = 10
  Indexes = {20, 21, 22, 23}
  First = 20
  Null = 99
  Readers = {1}
INVARIANTS
  TypeOK
  OwnBuckets
  LookupsHome
  NothingLeaks
PROPERTIES
  FreshIds
  PublishedStays
  NextReturns
  SizeBetween
