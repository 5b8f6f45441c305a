----------------------------- MODULE MCScheduler -----------------------------
(* Months of three and four days; a price that does not divide by its days.  *)
EXTENDS Scheduler

CONSTANTS oRatable, oOneOff, oPrepaid, oPayg

Base == [pattern |-> "point_in_time", start_date |-> 4, end_date |-> NoDate,
         total_amount_cents |-> 3, units_total |-> 0, price_per_unit_cents |-> 0]

MCTerms ==
  [o \in Obligations |->
     CASE o = oRatable -> [Base EXCEPT !.pattern = "ratable_daily", !.start_date = 2,
                             !.end_date = 8, !.total_amount_cents = 17]
       [] o = oOneOff  -> Base
       [] o = oPrepaid -> [Base EXCEPT !.pattern = "consumption", !.start_date = 1,
                             !.total_amount_cents = 5, !.units_total = 3]
       [] o = oPayg    -> [Base EXCEPT !.pattern = "consumption_payg", !.start_date = 1,
                             !.total_amount_cents = 0, !.price_per_unit_cents = 2]]

MCMonthStarts == {0, 3, 7, 10, 14, 17, 21, 24}
=============================================================================
