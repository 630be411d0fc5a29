\* Redis store: sync jobs, one without windows, one failing store call anywhere.
SPECIFICATION FairSpec
CONSTANTS
  live = live
  batch = batch
  empty = empty
  s1 = s1
  s2 = s2
  NoChunk = NoChunk
  Job = {live, empty}
  ModeOf <- MCModeOf
  TierOf <- MCTierOf
  BackendOf <- MCBackendOf
  ChunkCount <- MCChunkCount
  Slot = {s1}
  Token = TRUE
  FallbackToLocal = TRUE
  MaxFaults = 1
INVARIANTS
  NoUploadLeft
PROPERTIES
  EveryQueuedChunkResolves
  ContractSpec
  FaultsAbortFewJobs
CHECK_DEADLOCK FALSE
