SPECIFICATION Spec
CONSTANTS
  Handlers <- PartialPops
  MaxLength = 3
  Above = 16
  Below = 24
  ContextSize = 16
  EntryRegs <- NoRegs
  ExitRegs <- NoRegs
  Discipline <- Assumptions
INVARIANT NeverStrange
CHECK_DEADLOCK FALSE
