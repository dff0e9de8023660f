SPECIFICATION LifterSpec
CONSTANTS
  Programs <- ProgramsAll
  Missable <- Programs2
  Entry = 90
  MaxPath = 5
INVARIANT TypeOK
INVARIANT BlocksTile
INVARIANT BlocksStraightLine
INVARIANT BlockNumbersOwn
INVARIANT OffsetsRecorded
INVARIANT LifterTypeOK
INVARIANT VipsArePopped
INVARIANT NeverWrongBlock
INVARIANT RunFollowsTrace
INVARIANT OffsetsAgree
CHECK_DEADLOCK FALSE
