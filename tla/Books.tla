-------------------------------- MODULE Books --------------------------------
(***************************************************************************)
(* The books kept from the journal: postings and edits of it (Ledger),     *)
(* exports of its periods (Export) and its reconciliation (Recon), all in  *)
(* one database.                                                           *)
(***************************************************************************)
EXTENDS Export, Recon

CONSTANT Stripe  \* balance transactions Stripe may report, each of a charge

ASSUME StripeAssumption == IsFiniteSet(Stripe) /\ \A tx \in Stripe : tx.amount \in Nat

vars == <<ledger, exporting>>

Init == LedgerInit /\ ExportInit
Next ==
  \/ LedgerNext /\ UNCHANGED exporting
  \/ ExportNext /\ UNCHANGED ledger
Spec == Init /\ [][Next]_vars

-----------------------------------------------------------------------------
(* Properties *)

tables == [entries |-> entries, lines |-> lines]

\* Every row and every session has values of its columns' types, and a line its entry.
TypeOK ==
  /\ \A e \in DOMAIN entries : entries[e] \in [status : Statuses, day : 1..today]
  /\ \A l \in DOMAIN lines :
       lines[l] \in [entry : DOMAIN entries, side : Sides, amount : Nat \ {0},
                     ref : Refs]
  /\ \A e \in DOMAIN open : open[e] \in 1..today
  /\ DOMAIN open \cap DOMAIN entries = {}
  /\ \A r \in export_runs : r.id \in 1..run_ids /\ r.period \in Periods

\* Every committed entry balances, whatever statements a client combines in a
\* transaction, except one that a line was moved out of.
EntriesBalance ==
  \A e \in DOMAIN entries \ moved : total(tables, e, "debit") = total(tables, e, "credit")

\* A posted entry keeps its day and every line it has, as it was, except one that
\* was set to 'reversed' or that a line was moved out of; it may get further lines.
PostedStays ==
  [][\A e \in DOMAIN entries :
       entries[e].status = "posted" /\ e \notin moved' \cup reversed' =>
         /\ e \in DOMAIN entries' /\ entries'[e] = entries[e]
         /\ \A l \in lines_of(tables, e) : l \in DOMAIN lines' /\ lines'[l] = lines[l]]_ledger

\* What a run exported of a period that was over, with no transaction of postings
\* open, is what the journal has of that period ever after, unless a client edits it.
ExportsAgreeWithLedger ==
  \A r \in export_runs :
    r.closed /\ edits = 0 =>
      \A side \in Sides :
        LET in(day) == {l \in DOMAIN lines : /\ lines[l].side = side
                                             /\ entries[lines[l].entry].day = day}
            days == r.period[1]..r.period[2]
        IN  /\ {k[1] : k \in {x \in DOMAIN r.checksum : x[2] = side}} = {day \in days : in(day) # {}}
            /\ \A day \in days : in(day) # {} =>
                 r.checksum[<<day, side>>].amount =
                   Total([l \in in(day) |-> lines[l].amount], in(day))

at_rest(p) == \A x \in Exporters : exporter[x].pc = "idle" \/ exporter[x].period # p

\* The audit trail of the files: unless a crash comes between a file and its row, a
\* file no export is working on is one that a run of its period recorded, or a part of
\* one.  It is the latest run's if exports did not overlap and the last one of the
\* period did not fail: an export that fails while it writes destroys the file an
\* earlier run recorded, and the next one that succeeds makes up for it.
FilesHaveTheirRun ==
  \A p \in Periods : ~ crashed /\ at_rest(p) =>
    LET mine == {r \in export_runs : r.period = p}
    IN  /\ files[p] \in {None, Partial} \cup {Whole(r.checksum) : r \in mine}
        /\ ~ overlapped /\ p \notin failed =>
             /\ files[p] # Partial
             /\ \A r \in mine : (\A q \in mine : q.id <= r.id) => files[p] = Whole(r.checksum)

\* A reconciliation explains the whole difference between Stripe and cash by its
\* breaks, one for each charge at most, if no charge is there twice.
ReconExplainsDifference ==
  \A cash \in ledger_by_ref, txs \in SUBSET Stripe :
    \A external \in external_by_ref(txs) :
      LET bs == breaks(external, cash)
          value(amount) == IF amount = None THEN 0 ELSE amount
      IN  /\ \A b, c \in bs : b.external_ref = c.external_ref => b = c
          /\ Cardinality(DOMAIN external) = Cardinality(txs)
             /\ Cardinality(DOMAIN cash) = Cardinality(cash_debits)
             => Total([t \in txs |-> t.amount], txs)
                  + Total([b \in bs |-> value(b.ledger_amount)], bs)
                = Total([l \in cash_debits |-> lines[l].amount], cash_debits)
                  + Total([b \in bs |-> value(b.external_amount)], bs)
=============================================================================
