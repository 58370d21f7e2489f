CONSTANTS
  Sources <- MCSources
  Names <- MCNames
  Ascii <- MCAscii
  Digit <- MCDigit
  Escape <- MCEscape
  Registers <- MCRegisters
  Opcodes <- MCOpcodes
SPECIFICATION Spec
INVARIANTS LinesStandAlone TidyLinesReadAlone LinesHaveWords ReadInOrder DataAsWritten CodeAsWritten
