SPECIFICATION Spec
CONSTANTS
  oRatable = oRatable
  oOneOff = oOneOff
  oPrepaid = oPrepaid
  oPayg = oPayg
  Obligations = {oRatable}
  Keys = {k1}
  Runners = {r1, r2}
  NoRow = NoRow
  Terms <- MCTerms
  Chart <- MCChart
  UnitSizes <- MCUnitSizes
  Dates = {2, 4}
INVARIANTS
  NoOverRecognition
CHECK_DEADLOCK FALSE
