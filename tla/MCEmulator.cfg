SPECIFICATION FairSpec
CONSTANTS
  Programs <- ProgramsAll
  Entry = 90
  MaxPath = 6
  MaxRuns = 8
  NativeVsp = 50
  StackBase = 20
  StackBytes = 4
  SlotBytes = 2
INVARIANTS TypeOK RunsPopped RunsTrace ReplayReads
PROPERTIES RunsForward EmulationEnds
CHECK_DEADLOCK FALSE
