\* A chunk whose save raised is failed and keeps its text.
SPECIFICATION Spec
CONSTANTS
  fast = fast
  strong = strong
  empty = empty
  p1 = p1
  p2 = p2
  c1 = c1
  c2 = c2
  NoChunk = NoChunk
  Job = {strong}
  Process = {p1, p2}
  Consumer = {c1, c2}
  ProcessOf <- MCProcessOf
  ChunkCount <- MCChunkCount
  TierOf <- MCTierOf
  BackendOf <- MCBackendOf
  ApiSettings <- MCFull
  WorkerSettings <- MCAlike
  Stoppable = {}
  MaxFaults = 1
INVARIANTS
  FailedContributesNothing
CHECK_DEADLOCK FALSE
