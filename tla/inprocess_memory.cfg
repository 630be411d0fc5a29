\* In-memory store: a sync and an async job share two slots.
SPECIFICATION FairSpec
CONSTANTS
  live = live
  batch = batch
  empty = empty
  s1 = s1
  s2 = s2
  NoChunk = NoChunk
  Job = {live, batch}
  ModeOf <- MCModeOf
  TierOf <- MCTierOf
  BackendOf <- MCBackendOf
  ChunkCount <- MCChunkCount
  Slot = {s1, s2}
  Token = TRUE
  FallbackToLocal = TRUE
  MaxFaults = 0
INVARIANTS
  TypeOK
  StreamedIsStored
  StartedInOrder
PROPERTIES
  ContractSpec
  LanePolicy
  EverySubmittedJobFinishes
CHECK_DEADLOCK FALSE
