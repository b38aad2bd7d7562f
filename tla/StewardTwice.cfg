SPECIFICATION Spec
CONSTANTS
  Typed = typed
  Beats = {b1, b2}
  None = none
  Levels <- MCLevels
  MaxActsPerHour = 2
  MaxActsPerDay = 3
  MaxFollowUpDepth = 2
  BreakerFailures = 2
  Hour = 1
  Day = 2
  Window = 1
  Cooldown = 2
  BriefGap = 2
  MaxTime = 1
  MaxLost = 0
PROPERTIES ActsFireOnce
CHECK_DEADLOCK FALSE
