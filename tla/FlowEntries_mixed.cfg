SPECIFICATION Spec
CONSTANTS
  Handle = {h1, h2}
  EntryId <- Ids2
  StatId <- Ids2
  Flow = {f1, f2}
  f1 = f1
  f2 = f2
  NoFlow = NoFlow
  StrayFlow = f2
  Nobody = Nobody
  Leaked = Leaked
  Tables <- MixedTables
  ErrorCode <- InternalOrFull
  Failing <- Nothing
PROPERTIES OnlyOwnEntries
