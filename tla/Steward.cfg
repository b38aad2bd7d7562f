SPECIFICATION FairSpec
CONSTANTS
  Typed = typed
  Beats = {b1}
  None = none
  Levels = {2}
  MaxActsPerHour = 2
  MaxActsPerDay = 2
  MaxFollowUpDepth = 2
  BreakerFailures = 1
  Hour = 1
  Day = 2
  Window = 1
  Cooldown = 2
  BriefGap = 2
  MaxTime = 2
  MaxLost = 1
INVARIANTS
  TypeOK
  HourBounded
  DisplayedAskIsOpen
  RecordedAhead
PROPERTIES
  SendEndsUndisturbed
CHECK_DEADLOCK FALSE
