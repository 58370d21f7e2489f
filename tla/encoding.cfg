CONSTANTS
  Opcode <- MCOpcode
  Immediate <- MCImm
  RegNumber <- MCReg
  Data <- MCData
SPECIFICATION Spec
INVARIANTS DecodesAsAssembled PrivilegeSeen OperandsInRange
