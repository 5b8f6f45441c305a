-------------------------------- MODULE Recon --------------------------------
(***************************************************************************)
(* recon/stripe_ledger.py: Stripe's balance transactions matched with the  *)
(* ledger's cash debits, by charge.  One query reads the ledger; the rest  *)
(* is computed from what it returned.  Both sides become a dictionary by   *)
(* charge, where one of two rows with the same charge is lost; the period  *)
(* of a run is recorded and selects nothing.                               *)
(***************************************************************************)
EXTENDS Ledger

\* A ReconBreak; None for an amount it does not have.
Break(kind, ref, external, amount) ==
  [kind |-> kind, external_ref |-> ref, external_amount |-> external, ledger_amount |-> amount]

cash_debits == {l \in DOMAIN lines : lines[l].side = "debit" /\ lines[l].ref # None}

\* The dictionaries that rows can become, ref[r] being the charge of row r.
by_ref(ref) == {d \in [Range(ref) -> DOMAIN ref] : \A c \in Range(ref) : ref[d[c]] = c}
ledger_by_ref == by_ref([l \in cash_debits |-> lines[l].ref])
external_by_ref(stripe_txs) == by_ref([t \in stripe_txs |-> t.charge])

breaks_ExternalOnly(external, cash) ==  \* mutant: no second loop
  {Break("unmatched_external", c, external[c].amount, None) :
     c \in DOMAIN external \ DOMAIN cash} \cup
  {Break("amount_mismatch", c, external[c].amount, lines[cash[c]].amount) :
     c \in {x \in DOMAIN external \cap DOMAIN cash :
              lines[cash[x]].amount # external[x].amount}}
breaks(external, cash) ==
  {Break("unmatched_external", c, external[c].amount, None) :
     c \in DOMAIN external \ DOMAIN cash} \cup
  {Break("amount_mismatch", c, external[c].amount, lines[cash[c]].amount) :
     c \in {x \in DOMAIN external \cap DOMAIN cash :
              lines[cash[x]].amount # external[x].amount}} \cup
  {Break("unmatched_ledger", c, None, lines[cash[c]].amount) :
     c \in DOMAIN cash \ DOMAIN external}
=============================================================================
