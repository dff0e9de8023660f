SPECIFICATION Spec
CONSTANTS
  Texts = {"1", "2"}
  MaxLines = 4
INVARIANT InstructionsKept
INVARIANT BlocksAreHandlers
INVARIANT AnnouncementsAttached
CHECK_DEADLOCK FALSE
