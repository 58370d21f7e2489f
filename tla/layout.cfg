CONSTANTS
  Programs <- MCPrograms
  None = None
SPECIFICATION Spec
INVARIANTS OperandsResolve PartsApart EntryIsStart
