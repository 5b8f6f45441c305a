CONSTANTS
  charge = charge
  credit = credit
  invoice = invoice
  usage = usage
  none = none
  r1 = r1
  r2 = r2
  Webhooks = {charge, invoice}
  Content <- MCContent
  Requests = {r1, r2}
  MaxSends <- MCMaxSends
  Seed <- NoSeed
  Once = {charge, invoice}
  Never = {}
  MaxMillis = 0
  MaxCrashes = 0
  None = none
SPECIFICATION Spec
INVARIANT ChainVerifies
