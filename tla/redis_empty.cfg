\* A job without windows is never finalised.
SPECIFICATION FairSpec
CONSTANTS
  fast = fast
  strong = strong
  empty = empty
  p1 = p1
  p2 = p2
  c1 = c1
  c2 = c2
  NoChunk = NoChunk
  Job = {empty}
  Process = {p1, p2}
  Consumer = {c1, c2}
  ProcessOf <- MCProcessOf
  ChunkCount <- MCChunkCount
  TierOf <- MCTierOf
  BackendOf <- MCBackendOf
  ApiSettings <- MCFull
  WorkerSettings <- MCAlike
  Stoppable = {}
  MaxFaults = 0
PROPERTIES
  EmptyJobFinishes
CHECK_DEADLOCK FALSE
