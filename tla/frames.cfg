CONSTANTS
  BITS = 4
  BYTE = 16
  NGPR = 2
  Images <- MCImages
  IntInit <- MCIntInit
  Code <- CallingCode
  Reentrant = FALSE
  INTHANDLER = 168
SPECIFICATION ISpec
PROPERTIES ImplementsCallStack SystemCallsServed EnteredByCalls
