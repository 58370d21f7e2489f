CONSTANTS
  BITS = 4
  BYTE = 16
  NGPR = 2
  Images <- MCImages
  IntInit <- MCIntInit
  Code <- ReentrantCode
  Reentrant = TRUE
  INTHANDLER = 168
SPECIFICATION ISpec
PROPERTY ElevationBackToBefore
