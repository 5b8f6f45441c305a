SPECIFICATION FairSpec
CONSTANTS
  charge = charge
  payg = payg
  badUnits = badUnits
  unknown = unknown
  badPeriod = badPeriod
  noAccount = noAccount
  oPayg = oPayg
  oBroken = oBroken
  None = None
  Events = {charge, badPeriod}
  Obligations = {oPayg}
  Workers = {w1}
  Numbers = {}
  Limit = 2
  MaxArrivals = 2
  MaxCrashes = 0
  Payload <- MCPayload
  Terms <- MCTerms
  Chart <- MCChart
PROPERTIES
  EveryEventIsPosted
CHECK_DEADLOCK FALSE
