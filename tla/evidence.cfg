CONSTANTS
  None = None
  Document = {1, 2}
  Relationship = {1, 2}
  EvidenceLimit = 2
  OccurrenceLimit = 3
  Texts <- MCTexts
  MaxJoins = 2
  MaxQueue = 2
  MaxRequests = 3
SPECIFICATION FairSpec
INVARIANTS
  TypeOK
  MemoryIsFile
  SeenIsCounted
PROPERTIES
  InvalidIsKept
  QueueDrains
  LedgerSpec
