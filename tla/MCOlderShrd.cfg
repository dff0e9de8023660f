SPECIFICATION Spec
CONSTANTS
  ByteBits = 2
  SlotBytes = {2, 4}
  Args <- AllWords
  Counts = {1, 2, 3, 4, 7}
  MaxHandlers = 1
INVARIANT OlderAgrees
CHECK_DEADLOCK FALSE
