\* One fault in the only worker process, which runs two consumers, and three jobs.
SPECIFICATION FairSpec
CONSTANTS
  p1 = p1
  NoChunk = NoChunk
  Job = {j1, j2, j3}
  Process = {p1}
  Consumer = {c1, c2}
  ProcessOf <- MCProcessOf
  ChunkCount <- MCOneChunkEach
  TierOf <- MCAllFast
  BackendOf <- MCAllLocal
  ApiSettings <- MCSettings
  WorkerSettings <- MCAlike
  Stoppable = {}
  MaxFaults = 1
PROPERTIES
  FaultsStrandFewJobs
CHECK_DEADLOCK FALSE
