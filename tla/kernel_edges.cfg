CONSTANTS
  BITS = 4
  BYTE = 16
  NGPR = 1
  Images <- MCImages
  IntInit <- OldWords
  Code <- EdgeCode
SPECIFICATION FairSpec
INVARIANT TypeOK
PROPERTY RunEnds
