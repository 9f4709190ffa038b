SPECIFICATION Spec
CONSTANTS
  Intervals <- MCIntervals
  FirstInterval = 2
  Limits <- MCLimits
  AgentCount <- MCAgentCount
  FreeCount <- MCFreeCount
  StatusFails = TRUE
  MaxTime = 5
INVARIANTS TypeOK MutedByOneTimer ShortageReported
PROPERTIES AlarmsSpaced
