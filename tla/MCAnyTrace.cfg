SPECIFICATION Spec
CONSTANTS
  Handlers <- AllHandlers
  MaxLength = 4
  Above = 24
  Below = 48
  ContextSize = 16
  EntryRegs <- OneReg
  ExitRegs <- OneReg
  Discipline = {}
INVARIANT SlotsWellFormed
INVARIANT AddressesTyped
PROPERTY VspDrifts
CHECK_DEADLOCK FALSE
