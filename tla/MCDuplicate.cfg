SPECIFICATION Spec
CONSTANTS
  Handlers <- Duplicates
  MaxLength = 4
  Above = 16
  Below = 48
  ContextSize = 16
  EntryRegs <- NoRegs
  ExitRegs <- NoRegs
  Discipline <- NotDrained
INVARIANT VspTracked
CHECK_DEADLOCK FALSE
