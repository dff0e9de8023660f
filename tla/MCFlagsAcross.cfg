SPECIFICATION Spec
CONSTANTS
  Handlers <- FlagsAcross
  MaxLength = 6
  Above = 32
  Below = 48
  ContextSize = 16
  EntryRegs <- NoRegs
  ExitRegs <- NoRegs
  Discipline <- FlagsAnywhere
PROPERTY JumpKeepsRegisters
CHECK_DEADLOCK FALSE
