SPECIFICATION FairSpec
CONSTANTS
  Handle = {h1, h2, h3}
  MonId <- MCMonId
  PollTime <- MCPollTime
  StrayDelay <- OneStrayDelay
  MaxTimerId = 7
  Faults <- NoFaults
INVARIANTS TimersHeld GroupServed OneTimerPolls
PROPERTIES EventuallyPolled ImplementsService
