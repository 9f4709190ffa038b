SPECIFICATION Spec
CONSTANTS
  Handle = {h1, h2, h3}
  EntryId <- Ids3
  StatId <- Ids3
  Flow = {f1, f2}
  f1 = f1
  f2 = f2
  NoFlow = NoFlow
  StrayFlow = f2
  Nobody = Nobody
  Leaked = Leaked
  Tables <- UniformTables
  ErrorCode <- Internal
  Failing <- CreateOnly
SYMMETRY AgentSymmetry
INVARIANTS FlowInstalled NoEntryLeak NoStatLeak
