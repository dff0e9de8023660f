SPECIFICATION Spec
CONSTANTS
  Handlers <- BlockHandlers
  MaxLength = 5
  Above = 24
  Below = 56
  ContextSize = 16
  EntryRegs <- OneReg
  ExitRegs <- OneReg
INVARIANTS SlotsExact StopsOnlyCut SlotsCovered
PROPERTY FunctionIsMachine
CHECK_DEADLOCK FALSE
