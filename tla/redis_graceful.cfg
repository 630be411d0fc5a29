\* No faults, workers whose settings differ in both respects, and SIGTERM to p2 at any time.
SPECIFICATION FairSpec
CONSTANTS
  fast = fast
  strong = strong
  empty = empty
  p1 = p1
  p2 = p2
  c1 = c1
  c2 = c2
  NoChunk = NoChunk
  Job = {fast, strong, empty}
  Process = {p1, p2}
  Consumer = {c1, c2}
  ProcessOf <- MCProcessOf
  ChunkCount <- MCChunkCount
  TierOf <- MCTierOf
  BackendOf <- MCBackendOf
  ApiSettings <- MCFull
  WorkerSettings <- MCTokenOnOne
  Stoppable = {p2}
  MaxFaults = 0
INVARIANTS
  NoChunkLost
  StrongNeverLocal
PROPERTIES
  EveryAcceptedJobFinishes
  StopEndsProcess
CHECK_DEADLOCK FALSE
