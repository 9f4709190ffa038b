SPECIFICATION FairSpec
CONSTANTS
  v1 = v1
  v2 = v2
  goto = goto
  notify = notify
  window = window
  FirstByte <- MCFirstByte
  Stray = Stray
  Absent = Absent
  Params <- MCParams
  Value = {v1, v2}
  Act = {goto, notify, window}
  Notifying = {notify, window}
  Documents <- MCDocuments
INVARIANTS TypeOK ParsedExactly NoWildWrite OnlySoundTables
PROPERTIES RowsBuiltOnce EventuallyParsed
CHECK_DEADLOCK FALSE
