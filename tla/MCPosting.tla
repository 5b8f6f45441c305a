------------------------------ MODULE MCPosting ------------------------------
(* Events named for what is special in them.                               *)
EXTENDS Posting

CONSTANTS charge, payg, badUnits, unknown, badPeriod, noAccount, oPayg, oBroken

Base == [kind |-> "invoice.posted", malformed |-> FALSE, amount |-> 1,
         invoice |-> "INV-1", ref |-> None, period |-> "valid"]

MCPayload ==
  [e \in Events |->
     CASE e = charge    -> [Base EXCEPT !.kind = "charge.succeeded", !.invoice = "none",
                              !.period = "none"]
       [] e = payg      -> [Base EXCEPT !.ref = oPayg]
       [] e = badUnits  -> [Base EXCEPT !.kind = "usage.uploaded", !.malformed = TRUE,
                              !.invoice = "none", !.period = "none", !.ref = oPayg]
       [] e = unknown   -> [Base EXCEPT !.kind = "unknown", !.invoice = "none",
                              !.period = "none"]
       [] e = badPeriod -> [Base EXCEPT !.invoice = "INV-3", !.period = "unparsable",
                              !.ref = oPayg]
       [] e = noAccount -> [Base EXCEPT !.amount = 2, !.ref = oBroken]]

MCTerms ==
  [o \in Obligations |->
     [pattern |-> "consumption_payg",
      deferred_revenue_account_code |-> DeferredRev,
      unbilled_ar_account_code |->
        IF o = oBroken THEN "1510-NOT-SEEDED" ELSE "1500-UNBILLED-AR"]]

MCChart == {"1000-CASH", "1200-AR", "1500-UNBILLED-AR", "2000-DEFERRED-REV"}
=============================================================================
