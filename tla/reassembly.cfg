\* Any three short texts, and different words heard in overlapping windows, some of which
\* fail; in any order of arrival.  Waveforms cut into windows.
SPECIFICATION Spec
CONSTANTS
  a = a
  A = A
  b = b
  w1 = w1
  w2 = w2
  w3 = w3
  w4 = w4
  w5 = w5
  w6 = w6
  Word <- MCWord
  Norm <- MCNorm
  MaxOverlap = 2
  Recordings <- AnyOrHeard
INVARIANTS
  TypeOK
  ArrivalOrderIrrelevant
  ShowsLongestPrefix
  HeardWordsOnce
  WindowsTile
  SpansJoin
CHECK_DEADLOCK FALSE
