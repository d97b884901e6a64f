CONSTANTS
  Values <- MCValues
  MaxOpts = 2
SPECIFICATION CommandSpec
INVARIANT EscapedMarksRead
CHECK_DEADLOCK FALSE
