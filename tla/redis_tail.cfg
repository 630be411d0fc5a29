\* A job of two chunks, two worker processes that plan it differently, and a viewer; one fault.
SPECIFICATION FairViewSpec
CONSTANTS
  fast = fast
  strong = strong
  empty = empty
  p1 = p1
  p2 = p2
  c1 = c1
  c2 = c2
  NoChunk = NoChunk
  Job = {fast}
  Process = {p1, p2}
  Consumer = {c1, c2}
  ProcessOf <- MCProcessOf
  ChunkCount <- MCChunkCount
  TierOf <- MCTierOf
  BackendOf <- MCBackendOf
  ApiSettings <- MCFull
  WorkerSettings <- MCTokenOnOne
  Stoppable = {}
  MaxFaults = 1
INVARIANTS
  LastViewIsTheJob
  ViewInv
PROPERTIES
  ViewOnlyGrows
  EveryViewEnds
CHECK_DEADLOCK FALSE
