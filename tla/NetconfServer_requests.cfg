SPECIFICATION FairSpec
CONSTANTS
  c1 = c1
  c2 = c2
  a1 = a1
  a2 = a2
  Client <- MCClient
  MonId <- MCMonId
  Owner <- MCOwner
  Ops <- MCOps
  NoRequest = NoRequest
  NoId = NoId
  PresetVlans <- MCPresetVlans
INVARIANTS TypeOK Anchored BeliefMatches
PROPERTIES DiesOfDropped ImplementsRegistry
CHECK_DEADLOCK FALSE
