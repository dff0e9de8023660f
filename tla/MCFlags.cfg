SPECIFICATION Spec
CONSTANTS
  ByteBits = 2
  SlotBytes = {2, 4}
  Args <- AllWords
  Counts = {0, 1, 2, 3, 4, 7, 8, 9}
  MaxHandlers = 2
PROPERTIES ResultAgrees SlotAgrees FlagsAgree UndefinedOutOfRange
CHECK_DEADLOCK FALSE
