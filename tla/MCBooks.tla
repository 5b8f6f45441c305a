------------------------------- MODULE MCBooks -------------------------------
(* A charge and a draft that a client works on; Stripe has one charge twice. *)
EXTENDS Books, TLC

CONSTANTS charge, draft, ch1, ch2

MCPost ==
  [e \in Entries |->
     CASE e = charge -> [amount |-> 2, ref |-> ch1, status |-> "posted"]
       [] e = draft  -> [amount |-> 1, ref |-> ch2, status |-> "draft"]]
MCPeriods == {<<1, 1>>, <<1, 2>>}
MCStripe == {[charge |-> ch1, amount |-> 2], [charge |-> ch2, amount |-> 2],
             [charge |-> ch2, amount |-> 1]}
Symmetry == Permutations(Exporters)
=============================================================================
