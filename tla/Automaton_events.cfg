SPECIFICATION Spec
CONSTANTS
  W = 3
  MaxGrowth = 2
  Tables <- PollTables
  MonTypes <- TwoTypes
  Totals <- NoneOrTwo
  Thresholds <- OneThreshold
  Toggled <- NotifyFlag
  StrayBits <- TwoStrayBits
  ReadFails = TRUE
INVARIANTS TypeOK NoEventTwice
PROPERTIES EventsHaveSource IntervalExact FlowEventReported GotoTakenUnflagged
CHECK_DEADLOCK FALSE
