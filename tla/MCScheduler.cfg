SPECIFICATION FairSpec
CONSTANTS
  oRatable = oRatable
  oOneOff = oOneOff
  oPrepaid = oPrepaid
  oPayg = oPayg
  Obligations = {oRatable, oOneOff, oPrepaid, oPayg}
  RunDates = {3, 6, 8}
  LastDay = 11
  UnitSizes = {2}
  MaxReports = 2
  MaxMisses = 1
  Horizon = 2
  Soon = 1
  Terms <- MCTerms
  MonthStarts <- MCMonthStarts
INVARIANTS
  TypeOK
  ProjectionComesTrue
  BacklogTies
PROPERTIES
  EverythingIsEarned
