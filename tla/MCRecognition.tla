---------------------------- MODULE MCRecognition ----------------------------
(* One obligation of each pattern, with a price that does not divide evenly. *)
EXTENDS Recognition, TLC

CONSTANTS oRatable, oOneOff, oPrepaid, oPayg

Base == [pattern |-> "point_in_time", start_date |-> 2, end_date |-> NoDate,
         total_amount_cents |-> 3, units_total |-> 0, price_per_unit_cents |-> 0,
         deferred_revenue_account_code |-> "2000-DEFERRED-REV",
         unbilled_ar_account_code |-> "1500-UNBILLED-AR",
         revenue_account_code |-> "4000-REV-SUB"]

MCTerms ==
  [o \in Obligations |->
     CASE o = oRatable -> [Base EXCEPT !.pattern = "ratable_daily", !.start_date = 1,
                             !.end_date = 4, !.total_amount_cents = 7]
       [] o = oOneOff  -> Base
       [] o = oPrepaid -> [Base EXCEPT !.pattern = "consumption", !.start_date = 1,
                             !.total_amount_cents = 5, !.units_total = 3]
       [] o = oPayg    -> [Base EXCEPT !.pattern = "consumption_payg", !.start_date = 1,
                             !.total_amount_cents = 0, !.price_per_unit_cents = 2,
                             !.revenue_account_code = "4100-REV-USAGE"]]

MCChart == {"1500-UNBILLED-AR", "2000-DEFERRED-REV", "4000-REV-SUB", "4100-REV-USAGE"}
MCUnitSizes == {1, 3}
Symmetry == Permutations(Keys) \cup Permutations(Runners)
=============================================================================
