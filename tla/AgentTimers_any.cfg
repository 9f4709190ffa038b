SPECIFICATION Spec
CONSTANTS
  Handle = {h1, h2, h3}
  MonId <- MCMonId
  PollTime <- MCPollTime
  StrayDelay <- OneStrayDelay
  MaxTimerId = 5
  Faults <- AllFaults
SYMMETRY HandleSymmetry
INVARIANTS TypeOK OneTimerPerGroup HeldTimersRun
CHECK_DEADLOCK FALSE
