CONSTANTS
  charge = charge
  credit = credit
  invoice = invoice
  usage = usage
  none = none
  r1 = r1
  r2 = r2
  Webhooks = {charge, invoice, usage, credit}
  Content <- MCContent
  Requests = {r1, r2}
  MaxSends <- MCMaxSends
  Once = {usage, credit}
  Never = {charge}
  Seed <- MCSeed
  MaxMillis = 1
  MaxCrashes = 1
  None = none
SPECIFICATION FairSpec
INVARIANT TypeOK
INVARIANT StoredOnce
INVARIANT HashesReachGenesis
INVARIANT ChainVerifiesAlone
PROPERTY EveryWebhookIsAcknowledged
