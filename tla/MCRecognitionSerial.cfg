SPECIFICATION Spec
CONSTANTS
  oRatable = oRatable
  oOneOff = oOneOff
  oPrepaid = oPrepaid
  oPayg = oPayg
  Obligations = {oRatable, oOneOff, oPrepaid, oPayg}
  Keys = {k1, k2}
  Runners = {r1}
  NoRow = NoRow
  Terms <- MCTerms
  Chart <- MCChart
  UnitSizes <- MCUnitSizes
  Dates = {1, 4, 5}
INVARIANTS
  TypeOK
  NoOverRecognition
  PaygEarnsItsUnits
  NeverAheadOfUse
  OnSchedule
  NoDayMissed
  LedgerTiesToEvents
PROPERTIES
  UsageStampedOnce
  ThroughDatesAdvance
  ImplementsSchedule
CHECK_DEADLOCK FALSE
