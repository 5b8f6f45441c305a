SPECIFICATION Spec
CONSTANTS
  charge = charge
  draft = draft
  ch1 = ch1
  ch2 = ch2
  Entries = {charge, draft}
  Edited = {charge, draft}
  Amounts = {1}
  MaxEdits = 1
  LastDay = 2
  Exporters = {x1, x2}
  MaxExports = 2
  Post <- MCPost
  Periods <- MCPeriods
  Stripe <- MCStripe
  None = None
INVARIANTS
  TypeOK
  EntriesBalance
  ExportsAgreeWithLedger
  FilesHaveTheirRun
  ReconExplainsDifference
PROPERTIES
  PostedStays
SYMMETRY Symmetry
CHECK_DEADLOCK FALSE
