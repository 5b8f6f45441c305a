CONSTANTS
  charge = charge
  credit = credit
  invoice = invoice
  usage = usage
  none = none
  r1 = r1
  r2 = r2
  Webhooks = {usage}
  Content <- MCContent
  Requests = {r1}
  MaxSends <- MCMaxSends
  Seed <- NoSeed
  Once = {}
  Never = {}
  MaxMillis = 1
  MaxCrashes = 1
  None = none
SPECIFICATION Spec
INVARIANT DeliveredOnce
