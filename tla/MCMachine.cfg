SPECIFICATION Spec
CONSTANTS
  Handlers <- MachineHandlers
  MaxLength = 5
  Above = 24
  Below = 48
  ContextSize = 16
  EntryRegs <- OneReg
  ExitRegs <- OneReg
  Discipline <- Assumptions
INVARIANT TypeOK
INVARIANT SlotsFilled
PROPERTY ImplementsMachine
PROPERTY NeverStops
CHECK_DEADLOCK FALSE
