------------------------------- MODULE Posting -------------------------------
(***************************************************************************)
(* The posting engine, finledger/posting/engine.py with the mappers, the   *)
(* PAYG reclassification, the two geneses and post_entry it calls: batches *)
(* of inbox rows turned into journal entries, contracts and usage, while   *)
(* callers of the API make contracts by hand.  A batch is one database     *)
(* transaction, an event a savepoint inside it.                            *)
(*                                                                         *)
(* An exception that process_one catches leaves what was written before it *)
(* in the transaction.  An exception of the database itself also breaks    *)
(* the savepoint: the flush in the except branch raises again, run_once    *)
(* ends and the whole batch rolls back.                                    *)
(***************************************************************************)
EXTENDS Integers, Sequences, FiniteSets

CONSTANTS
  Events,       \* rows the inbox may receive
  Payload,      \* Payload[e]: what processing reads of event e
  Obligations,  \* external_refs an obligation may have
  Terms,        \* Terms[o]: pattern and account codes of obligation o
  Numbers,      \* invoice numbers somebody may make a contract for by hand
  Chart,        \* codes of the rows of ledger.accounts
  Workers,      \* sessions that may execute run_once at a time
  Limit,        \* run_once's limit
  MaxArrivals,  \* bound on the rows the inbox receives
  MaxCrashes,   \* bound on the crashes a behaviour has
  None          \* NULL

CashAR == "1200-AR"
DeferredRev == "2000-DEFERRED-REV"
UsagePatterns == {"consumption", "consumption_payg"}
PostingKinds == {"charge.succeeded", "invoice.posted"}

Payloads ==
  [kind : PostingKinds \cup {"usage.uploaded", "unknown"},
   malformed : BOOLEAN,        \* a field the mapper or the handler cannot convert
   amount : Int,
   invoice : STRING,           \* invoiceNumber
   ref : Obligations \cup {None},  \* payg_obligation_ref or ratePlanChargeId
   period : {"none", "valid", "reversed", "unparsable"}]  \* service_period_*

ASSUME PostingAssumption ==
  /\ Payload \in [Events -> Payloads]
  /\ None \notin Obligations \cup Chart
  /\ Limit \in Nat \ {0}
  /\ MaxArrivals \in Nat /\ MaxCrashes \in Nat
  /\ {"1000-CASH", CashAR, DeferredRev} \subseteq Chart

VARIABLES
  inbox,        \* source_events that arrived, by received_at
  obligations,  \* external_refs of the obligations that exist
  by_hand,      \* external_refs of the contracts made by hand
  db,           \* db[e]: what is committed of event e's processing
  batch,        \* the places in inbox that each worker's run_once has still to visit
  tx,           \* what the worker's open transaction wrote, by event
  pc,
  crashes       \* crashes so far

vars == <<inbox, obligations, by_hand, db, batch, tx, pc, crashes>>

-----------------------------------------------------------------------------
(* Rows *)

\* A journal entry with its two lines; a line that is not there is None.
Entries == [debit : Chart \cup {None}, credit : Chart \cup {None}, amount : Int]

\* An event's processed_at and processing_error, the entries with its
\* source_event_id, whether it created a contract (with one obligation) or a
\* usage_events row, and the obligation of its payg_reclassifications row.
Rows == [processed : BOOLEAN, error : BOOLEAN, entries : Seq(Entries),
         contract : BOOLEAN, usage : BOOLEAN, reclass : Obligations \cup {None}]

Unprocessed == [processed |-> FALSE, error |-> FALSE, entries |-> <<>>,
                contract |-> FALSE, usage |-> FALSE, reclass |-> None]
Done(row) == [row EXCEPT !.processed = TRUE, !.error = FALSE]
Failed(row) == [row EXCEPT !.error = TRUE]

\* check_entry_balanced runs for the lines an entry has: one without lines passes.
check_entry_balanced_Never(entry) == TRUE  \* mutant: no deferred trigger
check_entry_balanced(entry) == (entry.debit = None) <=> (entry.credit = None)

-----------------------------------------------------------------------------
(* process_one, by its branches *)

\* from_zuora_usage finds an obligation that takes usage.
usage_obligation(e) ==
  Payload[e].ref \in obligations /\ Terms[Payload[e].ref].pattern \in UsagePatterns

\* The insert repeats the idempotency key of an earlier one.
usage_conflict(e, row) == usage_obligation(e) /\ ~ Payload[e].malformed /\ row.usage

process_usage(e, row) ==
  IF ~ usage_obligation(e) THEN Done(row)
  ELSE IF Payload[e].malformed THEN Failed(row)
  ELSE [Done(row) EXCEPT !.usage = TRUE]

\* reclassify_payg_invoice rewrites the credit line.
reclassified(e) ==
  LET o == Payload[e].ref
  IN  /\ Payload[e].kind = "invoice.posted"
      /\ o \in obligations
      /\ Terms[o].pattern = "consumption_payg"
      /\ Terms[o].deferred_revenue_account_code = DeferredRev
      /\ Payload[e].amount > 0

map_charge_succeeded(e) ==
  [debit |-> "1000-CASH", credit |-> CashAR, amount |-> Payload[e].amount]
map_invoice_posted(e) ==
  [debit |-> CashAR, credit |-> DeferredRev, amount |-> Payload[e].amount]
reclassify_payg_invoice(e, lines) ==
  IF reclassified(e)
  THEN [lines EXCEPT !.credit = Terms[Payload[e].ref].unbilled_ar_account_code]
  ELSE lines
mapped_lines(e) ==
  IF Payload[e].kind = "charge.succeeded" THEN map_charge_succeeded(e)
  ELSE reclassify_payg_invoice(e, map_invoice_posted(e))

\* The lines post_entry inserts before a LookupError: the debit comes first.
inserted_lines_Unchecked(e) == mapped_lines(e)  \* mutant: no look for the account
inserted_lines(e) ==
  IF mapped_lines(e).credit \in Chart THEN mapped_lines(e)
  ELSE [mapped_lines(e) EXCEPT !.credit = None]

\* Genesis has an invoice with a service period to turn into a contract.
wants_contract_Again(e, taken) ==  \* mutant: does not look for the contract
  Payload[e].kind = "invoice.posted" /\ Payload[e].period # "none"
wants_contract(e, taken) ==
  /\ Payload[e].kind = "invoice.posted"
  /\ Payload[e].period # "none"
  /\ Payload[e].invoice \notin taken

post_entry(e, row) == [row EXCEPT !.entries = Append(@, inserted_lines(e))]
payg_pending(e, row) ==
  [row EXCEPT !.reclass = IF reclassified(e) THEN Payload[e].ref ELSE None]

\* What is left to do once the entry is there; a period that cannot be parsed raises.
from_zuora_invoice(e, row, taken) ==
  IF ~ wants_contract(e, taken) THEN Done(row)
  ELSE IF Payload[e].period = "unparsable" THEN Failed(row)
  ELSE [Done(row) EXCEPT !.contract = TRUE]

process_posting_ReclassLast(e, row, taken) ==  \* mutant: adds payg_pending after genesis
  LET posted == post_entry(e, row)
      after  == from_zuora_invoice(e, posted, taken)
  IN  IF mapped_lines(e).credit \notin Chart THEN Failed(posted)
      ELSE IF after.processed THEN payg_pending(e, after) ELSE after
process_posting(e, row, taken) ==
  LET posted == post_entry(e, row)
  IN  IF mapped_lines(e).credit \notin Chart THEN Failed(posted)
      ELSE from_zuora_invoice(e, payg_pending(e, posted), taken)

\* The database rejects a row: uq_journal_source_event, the CHECK on a line's
\* amount, or the CHECK on an obligation's period.
posting_conflict_NotUnique(e, row, taken) ==  \* mutant: no uq_journal_source_event
  \/ Payload[e].amount < 0
  \/ /\ mapped_lines(e).credit \in Chart
     /\ wants_contract(e, taken)
     /\ Payload[e].period = "reversed"
posting_conflict(e, row, taken) ==
  \/ row.entries # <<>>
  \/ Payload[e].amount < 0
  \/ /\ mapped_lines(e).credit \in Chart
     /\ wants_contract(e, taken)
     /\ Payload[e].period = "reversed"

\* No row is written: no mapper, a mapper that raises, or post_entry's "no lines".
rejected(e) ==
  Payload[e].kind = "unknown" \/ Payload[e].malformed \/ Payload[e].amount = 0

process_one(e, row, taken) ==
  IF Payload[e].kind = "usage.uploaded" THEN process_usage(e, row)
  ELSE IF rejected(e) THEN Failed(row)
  ELSE process_posting(e, row, taken)

database_error(e, row, taken) ==
  IF Payload[e].kind = "usage.uploaded" THEN usage_conflict(e, row)
  ELSE ~ rejected(e) /\ posting_conflict(e, row, taken)

-----------------------------------------------------------------------------
(* What a worker's queries see, and what makes its inserts wait *)

view(w) == [e \in Events |-> IF e \in DOMAIN tx[w] THEN tx[w][e] ELSE db[e]]
invoices(rows) == {Payload[e].invoice : e \in {x \in DOMAIN rows : rows[x].contract}}

\* Genesis gets to the INSERT of a contract, past everything that raises before it.
inserts_contract(e, row, taken) ==
  /\ wants_contract(e, taken)
  /\ Payload[e].period # "unparsable"
  /\ ~ rejected(e)
  /\ mapped_lines(e).credit \in Chart
  /\ row.entries = <<>> /\ Payload[e].amount >= 0

\* Another worker's open transaction holds the row or a unique key event e needs.
held(w, e) ==
  \E v \in Workers \ {w} :
    \/ e \in DOMAIN tx[v]
    \/ /\ inserts_contract(e, view(w)[e], by_hand \cup invoices(view(w)))
       /\ Payload[e].invoice \in invoices(tx[v])

-----------------------------------------------------------------------------
Init ==
  /\ inbox = <<>>
  /\ obligations = {}
  /\ by_hand = {}
  /\ db = [e \in Events |-> Unprocessed]
  /\ batch = [w \in Workers |-> {}]
  /\ tx = [w \in Workers |-> <<>>]
  /\ pc = [w \in Workers |-> "idle"]
  /\ crashes = 0

\* A webhook's row.
Arrive(e) ==
  /\ \A i \in DOMAIN inbox : inbox[i] # e
  /\ Len(inbox) < MaxArrivals
  /\ inbox' = Append(inbox, e)
  /\ UNCHANGED <<obligations, by_hand, db, batch, tx, pc, crashes>>

\* POST /revrec/contracts/{id}/obligations.
CreateObligation(o) ==
  /\ o \notin obligations
  /\ obligations' = obligations \cup {o}
  /\ UNCHANGED <<inbox, by_hand, db, batch, tx, pc, crashes>>

\* POST /revrec/contracts: a number that has a contract gets no second one, and a
\* worker's uncommitted one makes the INSERT wait.
CreateContract(n) ==
  /\ n \notin by_hand \cup invoices(db)
  /\ \A w \in Workers : n \notin invoices(tx[w])
  /\ by_hand' = by_hand \cup {n}
  /\ UNCHANGED <<inbox, obligations, db, batch, tx, pc, crashes>>

EndSession(w) ==
  /\ batch' = [batch EXCEPT ![w] = {}]
  /\ tx' = [tx EXCEPT ![w] = <<>>]
  /\ pc' = [pc EXCEPT ![w] = "idle"]

\* run_once, lines 73-79: the unprocessed rows, by received_at, up to the limit.
unprocessed == {i \in DOMAIN inbox : ~ db[inbox[i]].processed}
selected_LimitFirst(rows) ==  \* mutant: LIMIT before the filter
  rows = {i \in unprocessed : i <= Limit}
selected(rows) ==
  /\ \A i \in rows, j \in unprocessed \ rows : i < j
  /\ Cardinality(rows) <= Limit
  /\ rows = unprocessed \/ Cardinality(rows) = Limit
SelectBatch(w) ==
  /\ pc[w] = "idle"
  /\ \E rows \in SUBSET unprocessed \ {{}} :
       selected(rows) /\ batch' = [batch EXCEPT ![w] = rows]
  /\ pc' = [pc EXCEPT ![w] = "loop"]
  /\ UNCHANGED <<inbox, obligations, by_hand, db, tx, crashes>>

\* The loop of worker w is at row i.
turn(w, i) == pc[w] = "loop" /\ i \in batch[w] /\ \A j \in batch[w] : i <= j

\* One turn of the loop, lines 81-85.
ProcessEvent(w) ==
  /\ \E i \in batch[w] :
       LET e == inbox[i]
           taken == by_hand \cup invoices(view(w))
       IN  /\ turn(w, i)
           /\ ~ held(w, e)
           /\ ~ database_error(e, view(w)[e], taken)
           /\ tx' = [tx EXCEPT ![w] =
                       [x \in DOMAIN tx[w] \cup {e} |->
                          IF x = e THEN process_one(e, view(w)[e], taken) ELSE tx[w][x]]]
           /\ batch' = [batch EXCEPT ![w] = @ \ {i}]
  /\ UNCHANGED <<inbox, obligations, by_hand, db, pc, crashes>>

\* The same turn when the database rejects a row of event e.
BreakBatch(w) ==
  /\ \E i \in batch[w] :
       LET e == inbox[i]
       IN  /\ turn(w, i)
           /\ ~ held(w, e)
           /\ database_error(e, view(w)[e], by_hand \cup invoices(view(w)))
  /\ EndSession(w)
  /\ UNCHANGED <<inbox, obligations, by_hand, db, crashes>>

\* The deferred constraint trigger looks at every entry of the transaction.
Balanced(w) ==
  \A e \in DOMAIN tx[w] :
    \A i \in DOMAIN tx[w][e].entries : check_entry_balanced(tx[w][e].entries[i])

\* Line 86.
Commit(w) ==
  /\ pc[w] = "loop"
  /\ batch[w] = {}
  /\ Balanced(w)
  /\ db' = view(w)
  /\ EndSession(w)
  /\ UNCHANGED <<inbox, obligations, by_hand, crashes>>

CommitFails(w) ==
  /\ pc[w] = "loop"
  /\ batch[w] = {}
  /\ ~ Balanced(w)
  /\ EndSession(w)
  /\ UNCHANGED <<inbox, obligations, by_hand, db, crashes>>

\* A crash, a lost connection, or a unique key that another worker committed
\* while this one waited for it.
Abort(w) ==
  /\ pc[w] = "loop"
  /\ crashes < MaxCrashes
  /\ crashes' = crashes + 1
  /\ EndSession(w)
  /\ UNCHANGED <<inbox, obligations, by_hand, db>>

WorkerStep(w) ==
  SelectBatch(w) \/ ProcessEvent(w) \/ BreakBatch(w) \/ Commit(w) \/ CommitFails(w)

Next ==
  \/ \E e \in Events : Arrive(e)
  \/ \E o \in Obligations : CreateObligation(o)
  \/ \E n \in Numbers : CreateContract(n)
  \/ \E w \in Workers : WorkerStep(w)
  \/ \E w \in Workers : Abort(w)

Spec == Init /\ [][Next]_vars

\* Something calls run_once again and again, and every call ends.  Each of its
\* steps changes the batch or the pc.
FairSpec == Spec /\ \A w \in Workers : WF_<<batch, pc>>(WorkerStep(w))

-----------------------------------------------------------------------------
(* Properties *)

arrived(e) == \E i \in DOMAIN inbox : inbox[i] = e

\* Every table and every session holds values of its columns' types.
TypeOK ==
  /\ inbox \in Seq(Events)
  /\ obligations \subseteq Obligations
  /\ by_hand \subseteq Numbers
  /\ db \in [Events -> Rows]
  /\ \A w \in Workers :
       /\ batch[w] \subseteq DOMAIN inbox
       /\ DOMAIN tx[w] \subseteq Events
       /\ \A e \in DOMAIN tx[w] : tx[w][e] \in Rows
  /\ pc \in [Workers -> {"idle", "loop"}]
  /\ crashes \in 0..MaxCrashes

\* However often an event is tried, by however many workers, it has at most one
\* journal entry, that entry is whole, and an event marked processed has it and is not
\* in error.  (Usage may be both: a stale batch may fail what another one passed over.)
PostedOnce ==
  \A e \in Events :
    /\ Len(db[e].entries) <= 1
    /\ \A i \in DOMAIN db[e].entries :
         db[e].entries[i] \in [debit : Chart, credit : Chart, amount : {Payload[e].amount}]
    /\ Payload[e].kind \in PostingKinds /\ db[e].processed =>
         db[e].entries # <<>> /\ ~ db[e].error

\* Whoever is first, the engine or a caller of the API: each invoice number has at
\* most one contract, the engine's comes with the entry that posted its invoice, and
\* an invoice with a service period is not done before its number has one.
OneContractPerInvoice ==
  \A e, f \in Events :
    /\ db[e].contract =>
         /\ db[e].entries # <<>> /\ db[e].processed
         /\ Payload[e].invoice \notin by_hand
         /\ db[f].contract /\ Payload[e].invoice = Payload[f].invoice => e = f
    /\ db[e].processed /\ Payload[e].kind = "invoice.posted" /\ Payload[e].period # "none" =>
         Payload[e].invoice \in by_hand \cup invoices(db)

\* payg_reclassifications ties to the journal: an event has a row there exactly
\* when its entry credits the obligation's unbilled receivable.
ReclassTiesToEntry ==
  \A e \in Events :
    IF db[e].reclass = None
    THEN \A i \in DOMAIN db[e].entries : db[e].entries[i].credit \in {CashAR, DeferredRev}
    ELSE /\ db[e].entries # <<>>
         /\ Head(db[e].entries).credit = Terms[db[e].reclass].unbilled_ar_account_code

\* Nothing that is committed for an event is ever undone or done again.
NothingRedone ==
  [][\A e \in Events :
       /\ db[e].processed => db'[e].processed
       /\ db[e].entries # <<>> => db'[e].entries = db[e].entries
       /\ db[e].contract => db'[e].contract
       /\ db[e].reclass # None => db'[e].reclass = db[e].reclass]_db

\* An event whose failure ends its batch, now or when it is tried again.
breaks_batches(e) ==
  /\ Payload[e].kind \in PostingKinds /\ ~ Payload[e].malformed
  /\ \/ Payload[e].amount < 0
     \/ Payload[e].period \in {"reversed", "unparsable"}
     \/ /\ Payload[e].ref \in obligations
        /\ Terms[Payload[e].ref].unbilled_ar_account_code \notin Chart

\* What the engine can post: an event without anything an operator has to correct.
postable(e) == Payload[e].kind \in PostingKinds /\ ~ rejected(e) /\ ~ breaks_batches(e)

\* Every postable event that arrives is posted in the end, whatever the others
\* in its batch are.
EveryEventIsPosted ==
  \A e \in Events : arrived(e) ~> db[e].processed \/ ~ postable(e)

\* As many events as a batch takes that are in error, and so are selected again and
\* again: parked ones, and unknown ones.
crowded == Cardinality({i \in unprocessed : db[inbox[i]].error}) >= Limit

\* As long as no event arrives whose failure ends its batch, and those in error do not
\* fill it, every postable one is posted in the end, past crashes, another worker's
\* stale batch and the events in error before it.
PostedUnlessPoisoned ==
  \A e \in {x \in Events : Payload[x].kind \in PostingKinds
                              /\ Payload[x].period \in {"none", "valid"}} :
    arrived(e) ~> \/ db[e].processed \/ ~ postable(e)
                  \/ crowded
                  \/ \E x \in Events : arrived(x) /\ breaks_batches(x)
=============================================================================
