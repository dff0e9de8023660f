SPECIFICATION Spec
CONSTANTS
  Regs = {1, 2, 3}
  ImageBase = 5000
  StackTops = {1800, 9000}
  Widths = {1, 2, 4, 8}
  Values = {7}
  Junk = {3}
  MaxHandlers = 3
  Failures = {"Entry", "Jmp", "Exit", "PushVsp", "Shl"}
  Followed = {"Entry", "Jmp", "Exit"}
INVARIANTS ControlIsControl NeverMistaken RecognisedWhole RegistersFollow HalfEmulated
PROPERTY LostUntilEntry
CHECK_DEADLOCK FALSE
