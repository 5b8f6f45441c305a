SPECIFICATION Spec
CONSTANTS
  oRatable = oRatable
  oOneOff = oOneOff
  oPrepaid = oPrepaid
  oPayg = oPayg
  Obligations = {oRatable, oPayg}
  Keys = {k1, k2}
  Runners = {r1, r2}
  NoRow = NoRow
  Terms <- MCTerms
  Chart <- MCChart
  UnitSizes <- MCUnitSizes
  Dates = {2, 5}
INVARIANTS
  NoUnitLost
  LedgerTiesToEvents
CHECK_DEADLOCK FALSE
SYMMETRY Symmetry
