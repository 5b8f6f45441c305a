------------------------------ MODULE MCBilling ------------------------------
(* Callers that share a reference, on one obligation or two; one of "".    *)
EXTENDS Billing

CONSTANTS ann, bob, cai, dan, eve, zuora, payg1, payg2, ratable, none

Base == [obligation |-> payg1, ref |-> "INV-1", amount |-> 2]

MCAsks ==
  [c \in Callers |->
     CASE c = ann -> Base
       [] c = bob -> Base
       [] c = cai -> [Base EXCEPT !.obligation = payg2, !.amount = 1]
       [] c = dan -> [Base EXCEPT !.ref = ""]
       [] c = eve -> [Base EXCEPT !.obligation = ratable, !.ref = none]]
MCInvoice == [i \in Invoices |-> Base]
=============================================================================
