CONSTANTS
  BITS = 4
  BYTE = 16
  NGPR = 1
  Images <- MCImages
  IntInit <- MCIntInit
  Code <- UserCode
SPECIFICATION Spec
PROPERTY UserWritesResolved
