\* One fault anywhere and workers whose settings differ: safety and the job contract.
SPECIFICATION Spec
CONSTANTS
  fast = fast
  strong = strong
  empty = empty
  p1 = p1
  p2 = p2
  c1 = c1
  c2 = c2
  NoChunk = NoChunk
  Job = {fast, strong}
  Process = {p1, p2}
  Consumer = {c1, c2}
  ProcessOf <- MCProcessOf
  ChunkCount <- MCChunkCount
  TierOf <- MCTierOf
  BackendOf <- MCBackendOf
  ApiSettings <- MCFull
  WorkerSettings <- MCFallbackOnOne
  Stoppable = {}
  MaxFaults = 1
INVARIANTS
  TypeOK
  FinishedIsComplete
  OneFinalizer
  LastWorkerFinalises
  FinishedLeavesNoAudio
  IndInv
  LineageTrue
  StrongNeverLocal
PROPERTIES
  ContractSpec
CHECK_DEADLOCK FALSE
