SPECIFICATION Spec
CONSTANTS
  Last = 2
  Deviation = 1
  Level = 1
  MaxSeeks = 1
INVARIANTS GivesUpWhenTooLong
CHECK_DEADLOCK FALSE
