CONSTANTS
  PUSH_MAX = 3
  NREG = 4
  Value <- MCValue
  Constant <- MCConstant
SPECIFICATION MCSpec
INVARIANT CallsArrive
