\* Two hosted calls for one permit; three calls for two threads and two models; in process or
\* by a model server.
SPECIFICATION FairSpec
CONSTANTS
  strong = strong
  fast = fast
  l1 = l1
  l2 = l2
  tiny = tiny
  base = base
  t1 = t1
  t2 = t2
  Call = {strong, fast, l1, l2}
  Hosted = {strong, fast}
  MayFallBack = {fast}
  ModelOf <- MCModelOf
  Warmed = tiny
  Cap = 1
  MaxRetries = 1
  Thread = {t1, t2}
  Warmer = Warmer
  NoCall = NoCall
  NoModel = NoModel
  NoThread = NoThread
INVARIANTS
  PermitsAccounted
  BoundedPosts
  OneCopyInUse
  UpIsWarm
PROPERTIES
  EveryCallEnds
CHECK_DEADLOCK FALSE
