CONSTANTS
  MaxChanges = 2
  MaxUserNicks = 1
  MaxCuts = 1
SPECIFICATION NickSpec
INVARIANT AlternatesAsDocumented
CHECK_DEADLOCK FALSE
