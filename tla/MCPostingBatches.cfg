SPECIFICATION FairSpec
CONSTANTS
  charge = charge
  payg = payg
  badUnits = badUnits
  unknown = unknown
  badPeriod = badPeriod
  noAccount = noAccount
  oPayg = oPayg
  oBroken = oBroken
  None = None
  Events = {badPeriod, noAccount, payg, badUnits, unknown}
  Obligations = {oPayg, oBroken}
  Workers = {w1, w2}
  Numbers = {"INV-1"}
  Limit = 2
  MaxArrivals = 3
  MaxCrashes = 1
  Payload <- MCPayload
  Terms <- MCTerms
  Chart <- MCChart
INVARIANTS
  TypeOK
  PostedOnce
  OneContractPerInvoice
  ReclassTiesToEntry
PROPERTIES
  NothingRedone
  PostedUnlessPoisoned
CHECK_DEADLOCK FALSE
