SPECIFICATION Spec
CONSTANTS
  Handle = {h1, h2, h3}
  MonId <- MCMonId
  PollTime <- MCPollTime
  StrayDelay <- MCStrayDelay
  MaxTimerId = 6
  Faults <- InstallOnly
INVARIANTS GroupServed
CHECK_DEADLOCK FALSE
