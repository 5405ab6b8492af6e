CONSTANTS
  r = r
  p = p
  x = x
  e = e
  v = v
  none = none
  Absent = none
  Primary <- MCPrimary
  Auxiliary <- MCAuxiliary
  Entries <- MCEntries
  Payloads <- MCPayloads
  Targets <- MCTargets
  Bases <- MCBases
  MaxEvents = 2
  MaxRecords = 8
  MaxTotal = 3
SPECIFICATION Spec
INVARIANTS IndexesExact RecorderAtLastEvent OnlyAuxiliariesHide ReplayFaithful
CHECK_DEADLOCK FALSE
