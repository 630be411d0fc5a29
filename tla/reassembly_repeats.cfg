\* A word said three times in a row, across two seams.
SPECIFICATION Spec
CONSTANTS
  a = a
  A = A
  b = b
  w1 = w1
  w2 = w2
  w3 = w3
  w4 = w4
  w5 = w5
  w6 = w6
  Word <- MCWord
  Norm <- MCNorm
  MaxOverlap = 2
  Recordings <- RepeatedWords
INVARIANTS
  OnlyOverlapDropped
CHECK_DEADLOCK FALSE
