---------------------------- MODULE PostingProofs ----------------------------
(***************************************************************************)
(* Theorems about the posting engine, for any inbox, any payloads, any     *)
(* number of workers and callers of the API, and any number of crashes.    *)
(***************************************************************************)
EXTENDS Posting, FiniteSetTheorems, SequenceTheorems, TLAPS

-----------------------------------------------------------------------------
(* The invariant *)

\* What is so of the row of event e at every moment of a transaction: it has at most
\* one entry, which process_one made and no later one repeats; the entry may lack its
\* credit line until the transaction ends.
one_entry(e, entries) ==
  \E debit \in Chart, credit \in Chart \cup {None} :
    entries = <<[debit |-> debit, credit |-> credit, amount |-> Payload[e].amount]>>
RowOK(e, row) ==
  /\ row.entries = <<>> \/ one_entry(e, row.entries)
  /\ row.entries # <<>> => Payload[e].kind \in PostingKinds /\ ~ rejected(e)
  /\ Payload[e].kind \in PostingKinds /\ row.processed => row.entries # <<>> /\ ~ row.error
  /\ row.contract => /\ row.entries # <<>> /\ row.processed
                     /\ Payload[e].kind = "invoice.posted" /\ Payload[e].period # "none"
  /\ row.reclass = None /\ row.entries # <<>> =>
       row.entries[1].credit \in {CashAR, DeferredRev, None}
  /\ row.reclass # None =>
       /\ row.entries # <<>>
       /\ row.entries[1].credit = Terms[row.reclass].unbilled_ar_account_code

\* Whatever row holds, later still holds.
Extends(row, later) ==
  /\ row.processed => later.processed
  /\ row.entries # <<>> => later.entries = row.entries
  /\ row.contract => later.contract
  /\ row.reclass # None => later.reclass = row.reclass

\* The trigger has looked at the row.
Whole(row) == row.entries # <<>> => row.entries[1].credit # None

\* No two rows have a contract of the same number, and no caller made one.
ContractsApart(rows) ==
  /\ \A e \in Events : rows[e].contract => Payload[e].invoice \notin by_hand
  /\ \A e, f \in Events :
       rows[e].contract /\ rows[f].contract /\ Payload[e].invoice = Payload[f].invoice =>
       e = f

\* An invoice with a service period that is done has a contract.
ContractsThere(rows) ==
  \A e \in Events :
    rows[e].processed /\ Payload[e].kind = "invoice.posted" /\ Payload[e].period # "none" =>
      Payload[e].invoice \in by_hand \cup invoices(rows)

\* Two open transactions write different rows and contracts of different numbers.
SessionsApart ==
  \A v, w \in Workers : v # w =>
    \A e \in DOMAIN tx[v], f \in DOMAIN tx[w] :
      /\ e # f
      /\ tx[v][e].contract /\ tx[w][f].contract => Payload[e].invoice # Payload[f].invoice

\* What is committed, and what an open transaction has made of it.
Committed == \A e \in Events : RowOK(e, db[e]) /\ Whole(db[e])
InSession(w) ==
  \A e \in DOMAIN tx[w] : RowOK(e, tx[w][e]) /\ Extends(db[e], tx[w][e])
Contracts ==
  /\ ContractsApart(db) /\ ContractsThere(db)
  /\ \A w \in Workers : ContractsApart(view(w)) /\ ContractsThere(view(w))

PostingInv ==
  /\ TypeOK
  /\ batch = [w \in Workers |-> batch[w]] /\ tx = [w \in Workers |-> tx[w]]
  /\ Committed
  /\ \A w \in Workers : InSession(w)
  /\ SessionsApart
  /\ Contracts

-----------------------------------------------------------------------------
(* process_one *)

\* The lines that post_entry inserts: the debit is an account, the credit is one or
\* is missing, and it is the mapper's or the obligation's unbilled receivable.
LEMMA InsertedLines ==
  ASSUME NEW e \in Events
  PROVE  \E debit \in Chart, credit \in Chart \cup {None} :
           /\ inserted_lines(e) =
                [debit |-> debit, credit |-> credit, amount |-> Payload[e].amount]
           /\ mapped_lines(e).credit \in Chart => credit = mapped_lines(e).credit
           /\ mapped_lines(e).credit \notin Chart => credit = None
           /\ ~ reclassified(e) => credit \in {CashAR, DeferredRev}
           /\ reclassified(e) => mapped_lines(e).credit =
                                   Terms[Payload[e].ref].unbilled_ar_account_code
<1> DEFINE amount == Payload[e].amount
<1>1. {"1000-CASH", CashAR, DeferredRev} \subseteq Chart
  BY PostingAssumption
<1>2. PICK debit \in Chart, credit \in {mapped_lines(e).credit} :
        /\ mapped_lines(e) = [debit |-> debit, credit |-> credit, amount |-> amount]
        /\ ~ reclassified(e) => credit \in {CashAR, DeferredRev}
        /\ reclassified(e) => credit = Terms[Payload[e].ref].unbilled_ar_account_code
  <2>1. CASE Payload[e].kind = "charge.succeeded"
    <3>1. mapped_lines(e) = [debit |-> "1000-CASH", credit |-> CashAR, amount |-> amount]
      BY <2>1 DEF mapped_lines, map_charge_succeeded
    <3>2. ~ reclassified(e)
      BY <2>1 DEF reclassified
    <3> QED
      BY <1>1, <3>1, <3>2
  <2>2. CASE Payload[e].kind # "charge.succeeded" /\ ~ reclassified(e)
    <3>1. mapped_lines(e) = [debit |-> CashAR, credit |-> DeferredRev, amount |-> amount]
      BY <2>2 DEF mapped_lines, map_invoice_posted, reclassify_payg_invoice
    <3> QED
      BY <1>1, <2>2, <3>1
  <2>3. CASE Payload[e].kind # "charge.succeeded" /\ reclassified(e)
    <3>1. mapped_lines(e) = [debit |-> CashAR,
                             credit |-> Terms[Payload[e].ref].unbilled_ar_account_code,
                             amount |-> amount]
      BY <2>3 DEF mapped_lines, map_invoice_posted, reclassify_payg_invoice
    <3> QED
      BY <1>1, <2>3, <3>1
  <2> QED
    BY <2>1, <2>2, <2>3
<1>3. mapped_lines(e).credit = credit
  BY <1>2
<1>4. CASE credit \in Chart
  <2>1. inserted_lines(e) = [debit |-> debit, credit |-> credit, amount |-> amount]
    BY <1>2, <1>3, <1>4 DEF inserted_lines
  <2> QED
    BY <1>2, <1>3, <1>4, <2>1
<1>5. CASE credit \notin Chart
  <2>1. inserted_lines(e) = [debit |-> debit, credit |-> None, amount |-> amount]
    BY <1>2, <1>3, <1>5 DEF inserted_lines
  <2>2. reclassified(e)
    BY <1>1, <1>2, <1>5
  <2> QED
    BY <1>2, <1>3, <1>5, <2>1, <2>2
<1> QED
  BY <1>4, <1>5

\* What the three outcomes of a row do to its fields.
LEMMA RowFields ==
  ASSUME NEW row \in Rows
  PROVE  /\ Done(row) \in Rows /\ Failed(row) \in Rows
         /\ Done(row).processed /\ ~ Done(row).error
         /\ Failed(row).processed = row.processed /\ Failed(row).error
         /\ Done(row).entries = row.entries /\ Failed(row).entries = row.entries
         /\ Done(row).contract = row.contract /\ Failed(row).contract = row.contract
         /\ Done(row).reclass = row.reclass /\ Failed(row).reclass = row.reclass
<1>1. Done(row) \in Rows /\ Failed(row) \in Rows
  BY DEF Done, Failed, Rows
<1>2. Done(row).processed = TRUE /\ Done(row).error = FALSE /\ Failed(row).error = TRUE
  BY DEF Done, Failed, Rows
<1>3. /\ Failed(row).processed = row.processed
      /\ Failed(row).entries = row.entries /\ Done(row).entries = row.entries
      /\ Failed(row).contract = row.contract /\ Done(row).contract = row.contract
      /\ Failed(row).reclass = row.reclass /\ Done(row).reclass = row.reclass
  BY DEF Done, Failed, Rows
<1> QED
  BY <1>1, <1>2, <1>3

\* What one turn of the loop makes of the row of event e, the database rejecting
\* nothing: all that is so of a row is so of what it becomes; a contract is new only
\* if its INSERT was got to and its number had none, and an invoice that is done now has one.
processed_well(e, row, taken, later) ==
  /\ later \in Rows /\ RowOK(e, later) /\ Extends(row, later)
  /\ later.contract => row.contract \/ inserts_contract(e, row, taken)
  /\ later.processed /\ Payload[e].kind = "invoice.posted" /\ Payload[e].period # "none" =>
       row.processed \/ later.contract \/ Payload[e].invoice \in taken

\* Failing leaves a row of an event that is not posted as it was but for its error.
LEMMA FailsWell ==
  ASSUME NEW e \in Events, NEW row \in Rows, RowOK(e, row), NEW taken,
         row.processed => Payload[e].kind \notin PostingKinds
  PROVE  processed_well(e, row, taken, Failed(row))
<1> DEFINE later == Failed(row)
<1>1. /\ later \in Rows /\ later.processed = row.processed
      /\ later.entries = row.entries /\ later.contract = row.contract
      /\ later.reclass = row.reclass
  BY RowFields
<1> HIDE DEF later
<1>2. RowOK(e, later)
  BY <1>1 DEF RowOK
<1>3. Extends(row, later)
  BY <1>1 DEF Extends
<1>4. processed_well(e, row, taken, later)
  BY <1>1, <1>2, <1>3 DEF processed_well
<1> QED
  BY <1>4 DEF later

\* An upload of usage writes no entry, contract or reclassification.
LEMMA ProcessUsage ==
  ASSUME NEW e \in Events, NEW row \in Rows, RowOK(e, row), NEW taken,
         Payload[e].kind = "usage.uploaded"
  PROVE  processed_well(e, row, taken, process_usage(e, row))
<1>1. Payload[e].kind \notin PostingKinds /\ Payload[e].kind # "invoice.posted"
  BY DEF PostingKinds
<1>2. processed_well(e, row, taken, Failed(row))
  BY <1>1, FailsWell
<1>3. processed_well(e, row, taken, Done(row))
  BY <1>1, RowFields DEF processed_well, RowOK, Extends
<1>4. processed_well(e, row, taken, [Done(row) EXCEPT !.usage = TRUE])
  <2> DEFINE later == [Done(row) EXCEPT !.usage = TRUE]
  <2>1. Done(row) \in Rows
    BY RowFields
  <2>2. /\ later \in Rows /\ later.processed = Done(row).processed
        /\ later.error = Done(row).error /\ later.entries = Done(row).entries
        /\ later.contract = Done(row).contract /\ later.reclass = Done(row).reclass
    BY <2>1 DEF Rows
  <2> HIDE DEF later
  <2>3. processed_well(e, row, taken, later)
    BY <1>3, <2>2 DEF processed_well, RowOK, Extends
  <2> QED
    BY <2>3 DEF later
<1> QED
  BY <1>2, <1>3, <1>4 DEF process_usage

\* A posting: the entry, its reclassification, the contract.
LEMMA ProcessPosting ==
  ASSUME NEW e \in Events, NEW row \in Rows, RowOK(e, row), NEW taken,
         obligations \subseteq Obligations, Payload[e].kind \in PostingKinds,
         ~ rejected(e), ~ posting_conflict(e, row, taken)
  PROVE  processed_well(e, row, taken, process_posting(e, row, taken))
<1>1. row.entries = <<>> /\ ~ row.processed /\ ~ row.contract /\ row.reclass = None
  BY DEF posting_conflict, RowOK
<1>2. PICK debit \in Chart, credit \in Chart \cup {None} :
        /\ inserted_lines(e) =
             [debit |-> debit, credit |-> credit, amount |-> Payload[e].amount]
        /\ mapped_lines(e).credit \in Chart => credit = mapped_lines(e).credit
        /\ mapped_lines(e).credit \notin Chart => credit = None
        /\ ~ reclassified(e) => credit \in {CashAR, DeferredRev}
        /\ reclassified(e) => mapped_lines(e).credit =
                                Terms[Payload[e].ref].unbilled_ar_account_code
  BY InsertedLines
<1> DEFINE entry == [debit |-> debit, credit |-> credit, amount |-> Payload[e].amount]
           entries == <<entry>>
           posted == post_entry(e, row)
           pending == payg_pending(e, posted)
<1>3. Payload[e] \in Payloads /\ Payload[e].amount \in Int
  BY PostingAssumption DEF Payloads
<1>4. entries \in Seq(Entries) /\ entries # <<>> /\ entries[1].credit = credit
  <2>1. entry \in Entries /\ entry.credit = credit
    BY <1>3 DEF Entries
  <2> HIDE DEF entry
  <2> QED
    BY <2>1
<1>5. one_entry(e, entries)
  BY DEF one_entry
<1>6. /\ posted \in Rows /\ posted.entries = entries /\ ~ posted.processed
      /\ ~ posted.contract /\ posted.reclass = None
  <2>1. Append(row.entries, inserted_lines(e)) = entries
    BY <1>1, <1>2
  <2>2. posted = [row EXCEPT !.entries = entries]
    BY <2>1 DEF post_entry
  <2> HIDE DEF entries, posted
  <2> QED
    BY <1>1, <1>4, <2>2 DEF Rows
<1>7. /\ pending \in Rows /\ pending.entries = entries /\ ~ pending.processed
      /\ ~ pending.contract
      /\ ~ reclassified(e) => pending.reclass = None
      /\ reclassified(e) => pending.reclass = Payload[e].ref /\ Payload[e].ref # None
  <2>1. reclassified(e) => Payload[e].ref \in Obligations /\ Payload[e].ref # None
    BY PostingAssumption DEF reclassified
  <2>2. PICK r \in Obligations \cup {None} :
          /\ pending = [posted EXCEPT !.reclass = r]
          /\ ~ reclassified(e) => r = None
          /\ reclassified(e) => r = Payload[e].ref
    BY <2>1 DEF payg_pending
  <2> HIDE DEF entries, posted, pending
  <2> QED
    BY <1>6, <2>1, <2>2 DEF Rows
<1> HIDE DEF entries, posted, pending
<1>8. CASE mapped_lines(e).credit \notin Chart
  <2>1. RowOK(e, posted)
    BY <1>2, <1>4, <1>5, <1>6, <1>8 DEF RowOK
  <2>2. processed_well(e, posted, taken, Failed(posted))
    BY <1>6, <2>1, FailsWell
  <2>3. processed_well(e, row, taken, Failed(posted))
    BY <1>1, <1>6, <2>2, RowFields DEF processed_well, Extends
  <2> QED
    BY <1>8, <2>3 DEF process_posting, posted
<1>9. CASE mapped_lines(e).credit \in Chart
  <2>1. RowOK(e, pending)
    <3>1. credit # None
      BY <1>2, <1>9, PostingAssumption
    <3>2. CASE reclassified(e)
      <4>1. pending.entries[1].credit = credit
        BY <1>4, <1>7
      <4> QED
        BY <1>2, <1>4, <1>5, <1>7, <1>9, <3>1, <3>2, <4>1 DEF RowOK
    <3>3. CASE ~ reclassified(e)
      <4>1. pending.entries[1].credit = credit
        BY <1>4, <1>7
      <4> QED
        BY <1>2, <1>4, <1>5, <1>7, <1>9, <3>1, <3>3, <4>1 DEF RowOK
    <3> QED
      BY <3>2, <3>3
  <2>2. Extends(row, pending)
    BY <1>1 DEF Extends
  <2>3. CASE wants_contract(e, taken) /\ Payload[e].period = "unparsable"
    <3>1. processed_well(e, pending, taken, Failed(pending))
      BY <1>7, <2>1, FailsWell
    <3>2. processed_well(e, row, taken, Failed(pending))
      BY <1>1, <1>7, <3>1, RowFields DEF processed_well, Extends
    <3> QED
      BY <1>9, <2>3, <3>2 DEF process_posting, from_zuora_invoice, posted, pending
  <2>4. CASE ~ wants_contract(e, taken)
    <3> DEFINE later == Done(pending)
    <3>1. /\ later \in Rows /\ later.processed /\ ~ later.error
          /\ later.entries = pending.entries /\ later.contract = pending.contract
          /\ later.reclass = pending.reclass
      BY <1>7, RowFields
    <3> HIDE DEF later
    <3>2. RowOK(e, later)
      BY <1>4, <1>7, <2>1, <3>1 DEF RowOK
    <3>3. processed_well(e, row, taken, later)
      BY <1>1, <1>7, <2>4, <3>1, <3>2 DEF processed_well, Extends, wants_contract
    <3> QED
      BY <1>9, <2>4, <3>3 DEF process_posting, from_zuora_invoice, posted, pending, later
  <2>5. CASE wants_contract(e, taken) /\ Payload[e].period # "unparsable"
    <3> DEFINE done == Done(pending)
               later == [done EXCEPT !.contract = TRUE]
    <3>1. /\ done \in Rows /\ done.processed /\ ~ done.error
          /\ done.entries = pending.entries /\ done.reclass = pending.reclass
      BY <1>7, RowFields
    <3> HIDE DEF done
    <3>2. /\ later \in Rows /\ later.processed = done.processed /\ later.error = done.error
          /\ later.entries = done.entries /\ later.reclass = done.reclass
      BY <3>1 DEF Rows
    <3>3. later.contract = TRUE
      BY <3>1 DEF Rows
    <3> HIDE DEF later
    <3>4. RowOK(e, later)
      BY <1>4, <1>7, <2>1, <2>5, <3>1, <3>2, <3>3 DEF RowOK, wants_contract
    <3>5. processed_well(e, row, taken, later)
      <4>1. inserts_contract(e, row, taken)
        BY <1>1, <1>3, <1>9, <2>5 DEF inserts_contract, posting_conflict
      <4> QED
        BY <1>1, <2>5, <3>2, <3>3, <3>4, <4>1 DEF processed_well, Extends
    <3> QED
      BY <1>9, <2>5, <3>5
        DEF process_posting, from_zuora_invoice, posted, pending, later, done
  <2> QED
    BY <2>3, <2>4, <2>5
<1> QED
  BY <1>8, <1>9

\* One turn of the loop, whatever the event.
LEMMA ProcessOne ==
  ASSUME NEW e \in Events, NEW row \in Rows, RowOK(e, row), NEW taken,
         obligations \subseteq Obligations, ~ database_error(e, row, taken)
  PROVE  processed_well(e, row, taken, process_one(e, row, taken))
<1>1. CASE Payload[e].kind = "usage.uploaded"
  BY <1>1, ProcessUsage DEF process_one
<1>2. CASE Payload[e].kind # "usage.uploaded" /\ rejected(e)
  <2>1. row.processed => Payload[e].kind \notin PostingKinds
    BY <1>2 DEF RowOK
  <2> QED
    BY <1>2, <2>1, FailsWell DEF process_one
<1>3. CASE Payload[e].kind # "usage.uploaded" /\ ~ rejected(e)
  <2>1. Payload[e].kind \in PostingKinds
    <3>1. Payload[e].kind \in PostingKinds \cup {"usage.uploaded", "unknown"}
      BY PostingAssumption DEF Payloads
    <3> QED
      BY <1>3, <3>1 DEF rejected
  <2>2. ~ posting_conflict(e, row, taken)
    BY <1>3 DEF database_error
  <2> QED
    BY <1>3, <2>1, <2>2, ProcessPosting DEF process_one
<1> QED
  BY <1>1, <1>2, <1>3

-----------------------------------------------------------------------------
(* The invariant is inductive *)

\* What a transaction sees is a table like the one that is committed.
LEMMA Seen ==
  ASSUME PostingInv, NEW w \in Workers
  PROVE  /\ view(w) \in [Events -> Rows]
         /\ \A e \in DOMAIN tx[w] : e \in Events /\ view(w)[e] = tx[w][e]
         /\ \A e \in Events \ DOMAIN tx[w] : view(w)[e] = db[e]
         /\ \A e \in Events : RowOK(e, view(w)[e]) /\ Extends(db[e], view(w)[e])
<1>1. /\ db \in [Events -> Rows] /\ DOMAIN tx[w] \subseteq Events
      /\ \A e \in DOMAIN tx[w] : tx[w][e] \in Rows
  BY DEF PostingInv, TypeOK
<1>2. view(w) \in [Events -> Rows]
  BY <1>1 DEF view
<1>3. \A e \in DOMAIN tx[w] : e \in Events /\ view(w)[e] = tx[w][e]
  BY <1>1 DEF view
<1>4. \A e \in Events \ DOMAIN tx[w] : view(w)[e] = db[e]
  BY DEF view
<1>5. \A e \in Events : RowOK(e, view(w)[e]) /\ Extends(db[e], view(w)[e])
  BY <1>3, <1>4 DEF PostingInv, Committed, InSession, Extends
<1> QED
  BY <1>2, <1>3, <1>4, <1>5

\* The invariant holds before anything was posted.
LEMMA PostingInit == Init => PostingInv
<1> SUFFICES ASSUME Init PROVE PostingInv
  OBVIOUS
<1>1. /\ Unprocessed \in Rows /\ ~ Unprocessed.processed /\ ~ Unprocessed.contract
      /\ Unprocessed.entries = <<>> /\ Unprocessed.reclass = None
  BY DEF Unprocessed, Rows
<1>2. \A w \in Workers : DOMAIN tx[w] = {} /\ view(w) = db
  BY DEF Init, view
<1>3. TypeOK
  BY <1>1, <1>2, PostingAssumption DEF Init, TypeOK
<1>4. batch = [w \in Workers |-> batch[w]] /\ tx = [w \in Workers |-> tx[w]]
  BY DEF Init
<1> HIDE DEF Unprocessed
<1>5. \A e \in Events : db[e] = Unprocessed
  BY DEF Init
<1>6. Committed
  BY <1>1, <1>5 DEF Committed, RowOK, Whole
<1>7. (\A w \in Workers : InSession(w)) /\ SessionsApart
  BY <1>2 DEF InSession, SessionsApart
<1>8. Contracts
  <2>1. ContractsApart(db) /\ ContractsThere(db)
    BY <1>1, <1>5 DEF ContractsApart, ContractsThere
  <2> QED
    BY <1>2, <2>1 DEF Contracts
<1> QED
  BY <1>3, <1>4, <1>6, <1>7, <1>8 DEF PostingInv

\* A step that touches no table and no transaction keeps what is said of them.
LEMMA TablesKept ==
  ASSUME PostingInv, UNCHANGED <<by_hand, db, tx>>
  PROVE  /\ Committed' /\ SessionsApart' /\ Contracts'
         /\ \A w \in Workers : InSession(w)'
<1>1. Committed'
  BY DEF PostingInv, Committed
<1>2. SessionsApart'
  BY DEF PostingInv, SessionsApart
<1>3. \A w \in Workers : InSession(w)'
  BY DEF PostingInv, InSession
<1>4. Contracts'
  <2>1. \A w \in Workers : view(w)' = view(w)
    BY DEF view
  <2>2. /\ (ContractsApart(db) /\ ContractsThere(db))'
        /\ \A w \in Workers : (ContractsApart(view(w)) /\ ContractsThere(view(w)))'
    BY <2>1 DEF PostingInv, Contracts, ContractsApart, ContractsThere, invoices
  <2> QED
    BY <2>2 DEF Contracts
<1> QED
  BY <1>1, <1>2, <1>3, <1>4

\* A session that ends without a commit leaves nothing behind.
LEMMA SessionEnds ==
  ASSUME PostingInv, NEW w \in Workers, EndSession(w), crashes' \in 0..MaxCrashes,
         UNCHANGED <<inbox, obligations, by_hand, db>>
  PROVE  PostingInv'
<1>1. /\ \A v \in Workers : tx'[v] = IF v = w THEN <<>> ELSE tx[v]
      /\ \A v \in Workers : batch'[v] = IF v = w THEN {} ELSE batch[v]
      /\ batch' = [v \in Workers |-> batch'[v]] /\ tx' = [v \in Workers |-> tx'[v]]
      /\ pc' \in [Workers -> {"idle", "loop"}]
  BY DEF PostingInv, TypeOK, EndSession
<1>2. \A v \in Workers :
        IF v = w THEN DOMAIN tx'[v] = {} ELSE tx'[v] = tx[v]
  BY <1>1
<1>3. TypeOK'
  BY <1>1, <1>2 DEF PostingInv, TypeOK
<1>4. Committed'
  BY DEF PostingInv, Committed
<1>5. \A v \in Workers : InSession(v)'
  BY <1>2 DEF PostingInv, InSession
<1>6. SessionsApart'
  BY <1>2 DEF PostingInv, SessionsApart
<1>7. Contracts'
  <2>1. db \in [Events -> Rows]
    BY DEF PostingInv, TypeOK
  <2>2. \A v \in Workers : view(v)' = IF v = w THEN db ELSE view(v)
    BY <1>2, <2>1 DEF view
  <2>3. ContractsApart(db)' /\ ContractsThere(db)'
    BY DEF PostingInv, Contracts, ContractsApart, ContractsThere, invoices
  <2>4. ASSUME NEW v \in Workers
        PROVE  ContractsApart(view(v))' /\ ContractsThere(view(v))'
    <3>1. CASE v = w
      BY <2>2, <3>1 DEF PostingInv, Contracts, ContractsApart, ContractsThere, invoices
    <3>2. CASE v # w
      BY <2>2, <3>2 DEF PostingInv, Contracts, ContractsApart, ContractsThere, invoices
    <3> QED
      BY <3>1, <3>2
  <2> QED
    BY <2>3, <2>4 DEF Contracts
<1> QED
  BY <1>1, <1>3, <1>4, <1>5, <1>6, <1>7 DEF PostingInv

\* A contract made by hand: its number has none, committed or not.
LEMMA ContractByHand ==
  ASSUME PostingInv, NEW n \in Numbers, CreateContract(n)
  PROVE  PostingInv'
<1>1. /\ by_hand' = by_hand \cup {n} /\ n \notin invoices(db)
      /\ \A w \in Workers : n \notin invoices(tx[w])
      /\ UNCHANGED <<inbox, obligations, db, batch, tx, pc, crashes>>
  BY DEF CreateContract
<1>2. TypeOK'
  BY <1>1 DEF PostingInv, TypeOK
<1>3. Committed' /\ SessionsApart' /\ \A w \in Workers : InSession(w)'
  BY <1>1 DEF PostingInv, Committed, SessionsApart, InSession
<1>4. db \in [Events -> Rows]
  BY DEF PostingInv, TypeOK
<1>5. ASSUME NEW w \in Workers PROVE n \notin invoices(view(w)) /\ view(w)' = view(w)
  <2>1. ASSUME NEW e \in Events, view(w)[e].contract PROVE Payload[e].invoice # n
    <3>1. CASE e \in DOMAIN tx[w]
      <4>1. Payload[e].invoice \in invoices(tx[w])
        BY <2>1, <3>1, Seen DEF invoices
      <4> QED
        BY <1>1, <4>1
    <3>2. CASE e \notin DOMAIN tx[w]
      <4>1. Payload[e].invoice \in invoices(db)
        BY <1>4, <2>1, <3>2, Seen DEF invoices
      <4> QED
        BY <1>1, <4>1
    <3> QED
      BY <3>1, <3>2
  <2>2. n \notin invoices(view(w))
    BY <2>1, Seen DEF invoices
  <2>3. view(w)' = view(w)
    BY <1>1 DEF view
  <2> QED
    BY <2>2, <2>3
<1>6. Contracts'
  <2>1. (ContractsApart(db) /\ ContractsThere(db))'
    BY <1>1, <1>4 DEF PostingInv, Contracts, ContractsApart, ContractsThere, invoices
  <2>2. ASSUME NEW w \in Workers
        PROVE  (ContractsApart(view(w)) /\ ContractsThere(view(w)))'
    <3>1. DOMAIN view(w) = Events /\ n \notin invoices(view(w)) /\ view(w)' = view(w)
      BY <1>5, Seen
    <3>2. ContractsApart(view(w)) /\ ContractsThere(view(w))
      BY DEF PostingInv, Contracts
    <3> QED
      BY <1>1, <3>1, <3>2 DEF ContractsApart, ContractsThere, invoices
  <2> QED
    BY <2>1, <2>2 DEF Contracts
<1> QED
  BY <1>1, <1>2, <1>3, <1>6 DEF PostingInv

\* Whatever a row keeps over two turns, it keeps over both.
LEMMA ExtendsOnce ==
  ASSUME NEW row, NEW later, NEW last, Extends(row, later), Extends(later, last)
  PROVE  Extends(row, last)
BY DEF Extends

\* A turn of the loop, in its transaction.
LEMMA EventProcessed ==
  ASSUME PostingInv, NEW w \in Workers, ProcessEvent(w)
  PROVE  PostingInv'
<1>1. PICK i \in batch[w] :
        LET e == inbox[i]
            taken == by_hand \cup invoices(view(w))
        IN  /\ ~ held(w, e)
            /\ ~ database_error(e, view(w)[e], taken)
            /\ tx' = [tx EXCEPT ![w] =
                        [x \in DOMAIN tx[w] \cup {e} |->
                           IF x = e THEN process_one(e, view(w)[e], taken) ELSE tx[w][x]]]
            /\ batch' = [batch EXCEPT ![w] = @ \ {i}]
  BY DEF ProcessEvent
<1> DEFINE e == inbox[i]
           row == view(w)[e]
           taken == by_hand \cup invoices(view(w))
           later == process_one(e, row, taken)
<1>2. UNCHANGED <<inbox, obligations, by_hand, db, pc, crashes>>
  BY DEF ProcessEvent
<1>3. /\ TypeOK /\ Committed /\ SessionsApart /\ Contracts
      /\ \A v \in Workers : InSession(v)
      /\ batch = [v \in Workers |-> batch[v]] /\ tx = [v \in Workers |-> tx[v]]
  BY DEF PostingInv
<1>4. e \in Events
  BY <1>3 DEF TypeOK
<1>5. row \in Rows /\ RowOK(e, row) /\ Extends(db[e], row)
  BY <1>4, Seen
<1>6. processed_well(e, row, taken, later)
  <2> HIDE DEF e, row, taken
  <2>1. ~ database_error(e, row, taken) /\ obligations \subseteq Obligations
    BY <1>1, <1>3 DEF TypeOK, e, row, taken
  <2> QED
    BY <1>4, <1>5, <2>1, ProcessOne
<1>7. /\ \A v \in Workers \ {w} : tx'[v] = tx[v]
      /\ DOMAIN tx'[w] = DOMAIN tx[w] \cup {e} /\ tx'[w][e] = later
      /\ \A x \in DOMAIN tx[w] \ {e} : tx'[w][x] = tx[w][x]
      /\ tx' = [v \in Workers |-> tx'[v]]
  <2> HIDE DEF later, e
  <2>1. tx' = [tx EXCEPT ![w] = [x \in DOMAIN tx[w] \cup {e} |->
                                   IF x = e THEN later ELSE tx[w][x]]]
    BY <1>1 DEF later, e
  <2> QED
    BY <1>3, <2>1
<1>8. /\ e \notin UNION {DOMAIN tx[v] : v \in Workers \ {w}}
      /\ inserts_contract(e, row, taken) =>
           \A v \in Workers \ {w} : Payload[e].invoice \notin invoices(tx[v])
  <2> HIDE DEF e
  <2>1. ~ held(w, e)
    BY <1>1 DEF e
  <2> QED
    BY <2>1 DEF held
<1> HIDE DEF e, row, taken, later
<1>9. TypeOK'
  <2>1. /\ \A v \in Workers : batch'[v] \subseteq batch[v]
        /\ batch' = [v \in Workers |-> batch'[v]]
    BY <1>1, <1>3
  <2>2. later \in Rows
    BY <1>6 DEF processed_well
  <2>3. \A v \in Workers : DOMAIN tx'[v] \subseteq Events /\ \A x \in DOMAIN tx'[v] : tx'[v][x] \in Rows
    BY <1>3, <1>4, <1>7, <2>2 DEF TypeOK
  <2> QED
    BY <1>2, <1>3, <2>1, <2>3 DEF TypeOK
<1>10. batch' = [v \in Workers |-> batch'[v]]
  BY <1>1, <1>3
<1>11. Committed'
  BY <1>2, <1>3 DEF Committed
<1>12. ASSUME NEW v \in Workers PROVE InSession(v)'
  <2>1. CASE v # w
    BY <1>2, <1>3, <1>7, <2>1 DEF InSession
  <2>2. CASE v = w
    <3>1. RowOK(e, later) /\ Extends(db[e], later)
      BY <1>5, <1>6, ExtendsOnce DEF processed_well
    <3> QED
      BY <1>2, <1>3, <1>7, <2>2, <3>1 DEF InSession
  <2> QED
    BY <2>1, <2>2
<1>13. ASSUME NEW v \in Workers \ {w}, NEW f \in DOMAIN tx[v], later.contract, tx[v][f].contract
       PROVE  Payload[e].invoice # Payload[f].invoice
  <2>1. f \in Events /\ e # f /\ view(v)[f] = tx[v][f]
    BY <1>3, <1>8, Seen DEF TypeOK
  <2>2. CASE inserts_contract(e, row, taken)
    BY <1>8, <1>13, <2>2 DEF invoices
  <2>3. CASE row.contract
    <3>1. CASE e \in DOMAIN tx[w]
      <4>1. tx[w][e].contract
        BY <2>3, <3>1, Seen DEF row
      <4> QED
        BY <1>3, <1>13, <3>1, <4>1 DEF SessionsApart
    <3>2. CASE e \notin DOMAIN tx[w]
      <4>1. db[e].contract /\ view(v)[e] = db[e]
        BY <1>4, <1>8, <2>3, <3>2, Seen DEF row
      <4> QED
        BY <1>3, <1>4, <1>13, <2>1, <4>1 DEF Contracts, ContractsApart
    <3> QED
      BY <3>1, <3>2
  <2> QED
    BY <1>6, <1>13, <2>2, <2>3 DEF processed_well
<1>14. SessionsApart'
  <2>1. ASSUME NEW u \in Workers, NEW v \in Workers, u # v,
               NEW x \in DOMAIN tx'[u], NEW y \in DOMAIN tx'[v]
        PROVE  /\ x # y
               /\ tx'[u][x].contract /\ tx'[v][y].contract => Payload[x].invoice # Payload[y].invoice
    <3>1. CASE u # w /\ v # w
      BY <1>3, <1>7, <2>1, <3>1 DEF SessionsApart
    <3>2. CASE u = w
      BY <1>3, <1>7, <1>8, <1>13, <2>1, <3>2 DEF SessionsApart
    <3>3. CASE v = w
      BY <1>3, <1>7, <1>8, <1>13, <2>1, <3>3 DEF SessionsApart
    <3> QED
      BY <3>1, <3>2, <3>3
  <2> QED
    BY <2>1 DEF SessionsApart
<1>15. /\ \A v \in Workers \ {w} : view(v)' = view(v)
       /\ view(w)' \in [Events -> Rows] /\ view(w)'[e] = later
       /\ \A x \in Events \ {e} : view(w)'[x] = view(w)[x]
  <2>1. \A v \in Workers \ {w} : view(v)' = view(v)
    BY <1>2, <1>7 DEF view
  <2>2. later \in Rows
    BY <1>6 DEF processed_well
  <2>3. /\ view(w)' = [x \in Events |-> IF x \in DOMAIN tx'[w] THEN tx'[w][x] ELSE db'[x]]
        /\ view(w) = [x \in Events |-> IF x \in DOMAIN tx[w] THEN tx[w][x] ELSE db[x]]
    BY DEF view
  <2>4. view(w)'[e] = later /\ \A x \in Events \ {e} : view(w)'[x] = view(w)[x]
    BY <1>2, <1>4, <1>7, <2>3
  <2>5. \A x \in Events : view(w)'[x] \in Rows
    BY <2>2, <2>4, Seen
  <2>6. view(w)' \in [Events -> Rows]
    BY <2>3, <2>5
  <2> QED
    BY <2>1, <2>4, <2>6
<1>16. \A x \in Events : view(w)[x].contract => view(w)'[x].contract
  BY <1>6, <1>15 DEF processed_well, Extends, row
<1>17. ContractsApart(view(w))'
  <2>1. \A x \in Events : view(w)'[x].contract => Payload[x].invoice \notin by_hand'
    BY <1>2, <1>3, <1>4, <1>6, <1>15
      DEF Contracts, ContractsApart, processed_well, inserts_contract, wants_contract, row, taken
  <2>2. ASSUME NEW x \in Events, later.contract, view(w)'[x].contract, x # e
        PROVE  Payload[e].invoice # Payload[x].invoice
    <3>1. view(w)[x].contract
      BY <1>15, <2>2
    <3>2. CASE row.contract
      BY <1>3, <1>4, <2>2, <3>1, <3>2 DEF Contracts, ContractsApart, row
    <3>3. CASE inserts_contract(e, row, taken)
      <4>1. Payload[x].invoice \in invoices(view(w))
        BY <3>1, Seen DEF invoices
      <4> QED
        BY <3>3, <4>1 DEF inserts_contract, wants_contract, taken
    <3> QED
      BY <1>6, <2>2, <3>2, <3>3 DEF processed_well
  <2>3. ASSUME NEW x \in Events, NEW y \in Events, view(w)'[x].contract, view(w)'[y].contract,
               Payload[x].invoice = Payload[y].invoice
        PROVE  x = y
    <3>1. CASE x = e \/ y = e
      BY <1>15, <2>2, <2>3, <3>1
    <3>2. CASE x # e /\ y # e
      BY <1>3, <1>15, <2>3, <3>2 DEF Contracts, ContractsApart
    <3> QED
      BY <3>1, <3>2
  <2> QED
    BY <2>1, <2>3 DEF ContractsApart
<1>18. ContractsThere(view(w))'
  <2>1. ASSUME NEW n \in by_hand \cup invoices(view(w))
        PROVE  n \in by_hand \cup invoices(view(w)')
    <3>1. DOMAIN view(w) = Events /\ DOMAIN view(w)' = Events
      BY <1>15, Seen
    <3> QED
      BY <1>16, <3>1 DEF invoices
  <2>2. ASSUME NEW x \in Events, view(w)'[x].processed, Payload[x].kind = "invoice.posted",
               Payload[x].period # "none"
        PROVE  Payload[x].invoice \in by_hand \cup invoices(view(w)')
    <3>1. CASE view(w)[x].processed
      BY <1>3, <2>1, <2>2, <3>1 DEF Contracts, ContractsThere
    <3>2. CASE x = e /\ ~ row.processed
      <4>1. later.contract \/ Payload[e].invoice \in taken
        BY <1>6, <1>15, <2>2, <3>2 DEF processed_well
      <4>2. later.contract => Payload[e].invoice \in invoices(view(w)')
        BY <1>4, <1>15 DEF invoices
      <4> QED
        BY <2>1, <3>2, <4>1, <4>2 DEF taken
    <3> QED
      BY <1>15, <2>2, <3>1, <3>2 DEF row
  <2>3. invoices(view(w))' = invoices(view(w)')
    BY DEF invoices
  <2> QED
    BY <1>2, <2>2, <2>3 DEF ContractsThere
<1>19. Contracts'
  <2>1. (ContractsApart(db) /\ ContractsThere(db))'
    BY <1>2, <1>3 DEF Contracts, ContractsApart, ContractsThere, invoices
  <2>2. ASSUME NEW v \in Workers \ {w}
        PROVE  (ContractsApart(view(v)) /\ ContractsThere(view(v)))'
    BY <1>2, <1>3, <1>15 DEF Contracts, ContractsApart, ContractsThere, invoices
  <2> QED
    BY <1>17, <1>18, <2>1, <2>2 DEF Contracts
<1> QED
  BY <1>7, <1>9, <1>10, <1>11, <1>12, <1>14, <1>19 DEF PostingInv

\* A row without both its lines does not pass the trigger.
LEMMA BalancedRow ==
  ASSUME NEW w \in Workers, Balanced(w), NEW e \in DOMAIN tx[w], RowOK(e, tx[w][e])
  PROVE  Whole(tx[w][e])
<1> SUFFICES ASSUME tx[w][e].entries # <<>> PROVE tx[w][e].entries[1].credit # None
  BY DEF Whole
<1>1. PICK debit \in Chart, credit \in Chart \cup {None} :
        tx[w][e].entries = <<[debit |-> debit, credit |-> credit, amount |-> Payload[e].amount]>>
  BY DEF RowOK, one_entry
<1>2. /\ 1 \in DOMAIN tx[w][e].entries
      /\ tx[w][e].entries[1].debit = debit /\ tx[w][e].entries[1].credit = credit
  BY <1>1
<1>3. check_entry_balanced(tx[w][e].entries[1])
  BY <1>2 DEF Balanced
<1> QED
  BY <1>2, <1>3, PostingAssumption DEF check_entry_balanced

\* A commit makes one transaction's table everybody's.
LEMMA BatchCommitted ==
  ASSUME PostingInv, NEW w \in Workers, Commit(w)
  PROVE  PostingInv'
<1>1. /\ Balanced(w) /\ db' = view(w) /\ EndSession(w)
      /\ UNCHANGED <<inbox, obligations, by_hand, crashes>>
  BY DEF Commit
<1>2. /\ TypeOK /\ Committed /\ SessionsApart /\ Contracts
      /\ \A v \in Workers : InSession(v)
      /\ batch = [v \in Workers |-> batch[v]] /\ tx = [v \in Workers |-> tx[v]]
  BY DEF PostingInv
<1>3. /\ \A v \in Workers \ {w} : tx'[v] = tx[v] /\ batch'[v] = batch[v]
      /\ DOMAIN tx'[w] = {} /\ batch'[w] = {}
      /\ batch' = [v \in Workers |-> batch'[v]] /\ tx' = [v \in Workers |-> tx'[v]]
      /\ pc' \in [Workers -> {"idle", "loop"}]
  <2>1. DOMAIN <<>> = {}
    OBVIOUS
  <2> QED
    BY <1>1, <1>2, <2>1 DEF EndSession, TypeOK
<1>4. /\ db' \in [Events -> Rows] /\ \A e \in Events : db'[e] = view(w)[e]
      /\ \A e \in DOMAIN tx[w] : e \in Events /\ db'[e] = tx[w][e]
      /\ \A e \in Events \ DOMAIN tx[w] : db'[e] = db[e]
      /\ \A e \in Events : RowOK(e, db'[e]) /\ Extends(db[e], db'[e])
  BY <1>1, Seen
<1>5. TypeOK'
  BY <1>1, <1>2, <1>3, <1>4 DEF TypeOK
<1>6. Committed'
  <2>1. ASSUME NEW e \in Events PROVE Whole(db'[e])
    <3>1. CASE e \in DOMAIN tx[w]
      BY <1>1, <1>2, <1>4, <3>1, BalancedRow DEF InSession
    <3>2. CASE e \notin DOMAIN tx[w]
      BY <1>2, <1>4, <3>2 DEF Committed
    <3> QED
      BY <3>1, <3>2
  <2> QED
    BY <1>4, <2>1 DEF Committed, Whole
<1>7. \A v \in Workers \ {w} : \A e \in DOMAIN tx[v] :
        e \in Events /\ e \notin DOMAIN tx[w] /\ db'[e] = db[e]
  BY <1>2, <1>4 DEF TypeOK, SessionsApart
<1>8. ASSUME NEW v \in Workers PROVE InSession(v)'
  <2>1. CASE v = w
    BY <1>3, <2>1 DEF InSession
  <2>2. CASE v # w
    BY <1>2, <1>3, <1>7, <2>2 DEF InSession
  <2> QED
    BY <2>1, <2>2
<1>9. SessionsApart'
  <2>1. ASSUME NEW u \in Workers, NEW v \in Workers, u # v,
               NEW x \in DOMAIN tx'[u], NEW y \in DOMAIN tx'[v]
        PROVE  /\ x # y
               /\ tx'[u][x].contract /\ tx'[v][y].contract => Payload[x].invoice # Payload[y].invoice
    <3>1. u # w /\ v # w
      BY <1>3, <2>1
    <3> QED
      BY <1>2, <1>3, <2>1, <3>1 DEF SessionsApart
  <2> QED
    BY <2>1 DEF SessionsApart
<1>10. view(w)' = db'
  BY <1>3, <1>4 DEF view
<1>11. ASSUME NEW v \in Workers \ {w}
       PROVE  /\ view(v)' \in [Events -> Rows]
              /\ \A e \in DOMAIN tx[v] : view(v)'[e] = view(v)[e]
              /\ \A e \in Events \ DOMAIN tx[v] : view(v)'[e] = view(w)[e]
              /\ \A e \in Events : view(v)[e].contract => view(v)'[e].contract
              /\ \A e \in Events : view(w)[e].contract => view(v)'[e].contract
  <2>1. view(v)' = [e \in Events |-> IF e \in DOMAIN tx[v] THEN tx[v][e] ELSE view(w)[e]]
    BY <1>1, <1>3 DEF view
  <2>2. /\ \A e \in DOMAIN tx[v] : view(v)'[e] = view(v)[e]
        /\ \A e \in Events \ DOMAIN tx[v] : view(v)'[e] = view(w)[e]
    BY <2>1, Seen
  <2>3. view(v)' \in [Events -> Rows]
    BY <2>1, Seen
  <2>4. ASSUME NEW e \in Events, view(v)[e].contract PROVE view(v)'[e].contract
    <3>1. CASE e \in DOMAIN tx[v]
      BY <2>2, <2>4, <3>1
    <3>2. CASE e \notin DOMAIN tx[v]
      <4>1. db[e].contract
        BY <2>4, <3>2, Seen
      <4>2. view(w)[e].contract
        BY <4>1, Seen DEF Extends
      <4> QED
        BY <2>2, <3>2, <4>2
    <3> QED
      BY <3>1, <3>2
  <2>5. ASSUME NEW e \in Events, view(w)[e].contract PROVE view(v)'[e].contract
    <3>1. CASE e \in DOMAIN tx[v]
      <4>1. e \notin DOMAIN tx[w]
        BY <1>7, <3>1
      <4>2. db[e].contract
        BY <2>5, <4>1, Seen
      <4>3. view(v)[e].contract
        BY <4>2, Seen DEF Extends
      <4> QED
        BY <2>4, <4>3
    <3>2. CASE e \notin DOMAIN tx[v]
      BY <2>2, <2>5, <3>2
    <3> QED
      BY <3>1, <3>2
  <2> QED
    BY <2>2, <2>3, <2>4, <2>5
<1>12. ASSUME NEW v \in Workers \ {w} PROVE ContractsApart(view(v))'
  <2>1. \A x \in Events : view(v)'[x].contract => view(v)[x].contract \/ view(w)[x].contract
    BY <1>11
  <2>2. \A x \in Events : view(v)'[x].contract => Payload[x].invoice \notin by_hand'
    BY <1>1, <1>2, <2>1 DEF Contracts, ContractsApart
  <2>3. ASSUME NEW x \in DOMAIN tx[v], NEW y \in Events \ DOMAIN tx[v],
               view(v)'[x].contract, view(v)'[y].contract
        PROVE  Payload[x].invoice # Payload[y].invoice
    <3>1. x \in Events /\ tx[v][x].contract /\ view(v)[x].contract /\ view(w)[y].contract
      BY <1>7, <1>11, <2>3, Seen
    <3>2. CASE y \in DOMAIN tx[w]
      <4>1. tx[w][y].contract
        BY <3>1, <3>2, Seen
      <4> QED
        BY <1>2, <3>1, <3>2, <4>1 DEF SessionsApart
    <3>3. CASE y \notin DOMAIN tx[w]
      <4>1. view(v)[y].contract
        <5>1. view(w)[y] = db[y] /\ view(v)[y] = db[y]
          BY <2>3, <3>3, Seen
        <5> QED
          BY <3>1, <5>1
      <4> QED
        BY <1>2, <2>3, <3>1, <4>1 DEF Contracts, ContractsApart
    <3> QED
      BY <3>2, <3>3
  <2>4. ASSUME NEW x \in Events, NEW y \in Events, view(v)'[x].contract, view(v)'[y].contract,
               Payload[x].invoice = Payload[y].invoice
        PROVE  x = y
    <3>1. CASE x \in DOMAIN tx[v] /\ y \in DOMAIN tx[v]
      BY <1>2, <1>11, <2>4, <3>1 DEF Contracts, ContractsApart
    <3>2. CASE x \notin DOMAIN tx[v] /\ y \notin DOMAIN tx[v]
      BY <1>2, <1>11, <2>4, <3>2 DEF Contracts, ContractsApart
    <3>3. CASE x \in DOMAIN tx[v] /\ y \notin DOMAIN tx[v]
      BY <2>3, <2>4, <3>3
    <3>4. CASE x \notin DOMAIN tx[v] /\ y \in DOMAIN tx[v]
      BY <2>3, <2>4, <3>4
    <3> QED
      BY <3>1, <3>2, <3>3, <3>4
  <2> QED
    BY <2>2, <2>4 DEF ContractsApart
<1>13. ASSUME NEW v \in Workers \ {w} PROVE ContractsThere(view(v))'
  <2>1. DOMAIN view(v)' = Events /\ DOMAIN view(v) = Events /\ DOMAIN view(w) = Events
    BY <1>11, Seen
  <2>2. \A n : n \in by_hand \cup invoices(view(v)) => n \in by_hand \cup invoices(view(v)')
    BY <1>11, <2>1 DEF invoices
  <2>3. \A n : n \in by_hand \cup invoices(view(w)) => n \in by_hand \cup invoices(view(v)')
    BY <1>11, <2>1 DEF invoices
  <2>4. ASSUME NEW x \in Events, view(v)'[x].processed, Payload[x].kind = "invoice.posted",
               Payload[x].period # "none"
        PROVE  Payload[x].invoice \in by_hand \cup invoices(view(v)')
    <3>1. CASE x \in DOMAIN tx[v]
      BY <1>2, <1>11, <2>2, <2>4, <3>1 DEF Contracts, ContractsThere
    <3>2. CASE x \notin DOMAIN tx[v]
      BY <1>2, <1>11, <2>3, <2>4, <3>2 DEF Contracts, ContractsThere
    <3> QED
      BY <3>1, <3>2
  <2>5. invoices(view(v))' = invoices(view(v)')
    BY DEF invoices
  <2> QED
    BY <1>1, <2>4, <2>5 DEF ContractsThere
<1>14. Contracts'
  <2>1. (ContractsApart(db) /\ ContractsThere(db))'
    BY <1>1, <1>2 DEF Contracts, ContractsApart, ContractsThere, invoices
  <2>2. (ContractsApart(view(w)) /\ ContractsThere(view(w)))'
    BY <1>10, <2>1 DEF ContractsApart, ContractsThere, invoices
  <2> QED
    BY <1>12, <1>13, <2>1, <2>2 DEF Contracts
<1> QED
  BY <1>3, <1>5, <1>6, <1>8, <1>9, <1>14 DEF PostingInv

\* Every step keeps the invariant.
LEMMA PostingStep == PostingInv /\ [Next]_vars => PostingInv'
<1> SUFFICES ASSUME PostingInv, [Next]_vars PROVE PostingInv'
  OBVIOUS
<1>1. /\ TypeOK /\ batch = [w \in Workers |-> batch[w]] /\ tx = [w \in Workers |-> tx[w]]
      /\ inbox \in Seq(Events)
  BY DEF PostingInv, TypeOK
<1>2. ASSUME UNCHANGED <<by_hand, db, tx>>, TypeOK', batch' = [w \in Workers |-> batch'[w]]
      PROVE  PostingInv'
  BY <1>1, <1>2, TablesKept DEF PostingInv
<1>3. CASE UNCHANGED vars
  BY <1>1, <1>2, <1>3 DEF vars, TypeOK
<1>4. ASSUME NEW e \in Events, Arrive(e) PROVE PostingInv'
  <2>1. inbox' = Append(inbox, e) /\ UNCHANGED <<obligations, by_hand, db, batch, tx, pc, crashes>>
    BY <1>4 DEF Arrive
  <2>2. inbox' \in Seq(Events) /\ DOMAIN inbox \subseteq DOMAIN inbox'
    BY <1>1, <2>1, AppendProperties, LenProperties
  <2>3. TypeOK'
    BY <1>1, <2>1, <2>2 DEF TypeOK
  <2> QED
    BY <1>1, <1>2, <2>1, <2>3
<1>5. ASSUME NEW o \in Obligations, CreateObligation(o) PROVE PostingInv'
  BY <1>1, <1>2, <1>5 DEF CreateObligation, TypeOK
<1>6. ASSUME NEW n \in Numbers, CreateContract(n) PROVE PostingInv'
  BY <1>6, ContractByHand
<1>7. ASSUME NEW w \in Workers, SelectBatch(w) PROVE PostingInv'
  <2>1. PICK rows \in SUBSET unprocessed : batch' = [batch EXCEPT ![w] = rows]
    BY <1>7 DEF SelectBatch
  <2>2. rows \subseteq DOMAIN inbox
    BY DEF unprocessed
  <2>3. /\ \A v \in Workers : batch'[v] \subseteq DOMAIN inbox
        /\ batch' = [v \in Workers |-> batch'[v]]
    BY <1>1, <2>1, <2>2 DEF TypeOK
  <2>4. TypeOK'
    BY <1>1, <1>7, <2>3 DEF SelectBatch, TypeOK
  <2> QED
    BY <1>2, <1>7, <2>3, <2>4 DEF SelectBatch
<1>8. ASSUME NEW w \in Workers, ProcessEvent(w) PROVE PostingInv'
  BY <1>8, EventProcessed
<1>9. ASSUME NEW w \in Workers, BreakBatch(w) PROVE PostingInv'
  BY <1>1, <1>9, SessionEnds DEF BreakBatch, TypeOK
<1>10. ASSUME NEW w \in Workers, Commit(w) PROVE PostingInv'
  BY <1>10, BatchCommitted
<1>11. ASSUME NEW w \in Workers, CommitFails(w) PROVE PostingInv'
  BY <1>1, <1>11, SessionEnds DEF CommitFails, TypeOK
<1>12. ASSUME NEW w \in Workers, Abort(w) PROVE PostingInv'
  <2>1. crashes' \in 0..MaxCrashes
    BY <1>1, <1>12, PostingAssumption DEF Abort, TypeOK
  <2> QED
    BY <1>12, <2>1, SessionEnds DEF Abort
<1> QED
  BY <1>3, <1>4, <1>5, <1>6, <1>7, <1>8, <1>9, <1>10, <1>11, <1>12 DEF Next, WorkerStep

\* Every reachable state of the posting engine satisfies the invariant.
LEMMA PostingInductive == Spec => []PostingInv
BY PostingInit, PostingStep, PTL DEF Spec

-----------------------------------------------------------------------------
(* The theorems *)

\* Whatever arrives, and however workers and callers interleave, crash and retry, the
\* tables and sessions of the posting engine hold values of their columns' types: no
\* committed row, and no pending one, has a line without an account.
THEOREM PostingTypeCorrect == Spec => []TypeOK
<1>1. PostingInv => TypeOK
  BY DEF PostingInv
<1> QED
  BY <1>1, PostingInductive, PTL

\* An event of the inbox has at most one journal entry, a whole one, and is done only
\* with it: for any number of workers, stale batches, parked events and crashes.
THEOREM EventsPostOnce == Spec => []PostedOnce
<1>1. PostingInv => PostedOnce
  <2> SUFFICES ASSUME PostingInv, NEW e \in Events
               PROVE  /\ Len(db[e].entries) <= 1
                      /\ \A i \in DOMAIN db[e].entries : db[e].entries[i] \in
                           [debit : Chart, credit : Chart, amount : {Payload[e].amount}]
                      /\ Payload[e].kind \in PostingKinds /\ db[e].processed =>
                           db[e].entries # <<>> /\ ~ db[e].error
    BY DEF PostedOnce
  <2>1. RowOK(e, db[e]) /\ Whole(db[e])
    BY DEF PostingInv, Committed
  <2>2. Payload[e].kind \in PostingKinds /\ db[e].processed =>
          db[e].entries # <<>> /\ ~ db[e].error
    BY <2>1 DEF RowOK
  <2>3. CASE db[e].entries = <<>>
    <3>1. Len(db[e].entries) = 0 /\ DOMAIN db[e].entries = {}
      BY <2>3
    <3> QED
      BY <2>2, <3>1
  <2>4. CASE db[e].entries # <<>>
    <3>1. PICK debit \in Chart, credit \in Chart \cup {None} :
            db[e].entries =
              <<[debit |-> debit, credit |-> credit, amount |-> Payload[e].amount]>>
      BY <2>1, <2>4 DEF RowOK, one_entry
    <3>2. credit # None
      BY <2>1, <2>4, <3>1 DEF Whole
    <3> QED
      BY <2>2, <3>1, <3>2
  <2> QED
    BY <2>3, <2>4
<1> QED
  BY <1>1, PostingInductive, PTL

\* Each invoice number has at most one contract, whether the engine's workers or a
\* caller of the API are first, and an invoice with a service period is not done
\* without one.
THEOREM ContractsAreUnique == Spec => []OneContractPerInvoice
<1>1. PostingInv => OneContractPerInvoice
  BY DEF PostingInv, Committed, RowOK, Contracts, ContractsApart, ContractsThere,
         OneContractPerInvoice
<1> QED
  BY <1>1, PostingInductive, PTL

\* A row of payg_reclassifications and an entry that credits the obligation's unbilled
\* receivable come together or not at all.
THEOREM ReclassTies == Spec => []ReclassTiesToEntry
<1>1. PostingInv => ReclassTiesToEntry
  <2> SUFFICES ASSUME PostingInv, NEW e \in Events
               PROVE  IF db[e].reclass = None
                      THEN \A i \in DOMAIN db[e].entries :
                             db[e].entries[i].credit \in {CashAR, DeferredRev}
                      ELSE /\ db[e].entries # <<>>
                           /\ Head(db[e].entries).credit =
                                Terms[db[e].reclass].unbilled_ar_account_code
    BY DEF ReclassTiesToEntry
  <2>1. RowOK(e, db[e]) /\ Whole(db[e])
    BY DEF PostingInv, Committed
  <2>2. CASE db[e].entries = <<>>
    BY <2>1, <2>2 DEF RowOK
  <2>3. CASE db[e].entries # <<>>
    <3>1. PICK entry : db[e].entries = <<entry>>
      BY <2>1, <2>3 DEF RowOK, one_entry
    <3>2. /\ DOMAIN db[e].entries = {1} /\ Head(db[e].entries) = entry
          /\ db[e].entries[1] = entry
      BY <3>1
    <3> QED
      BY <2>1, <2>3, <3>2 DEF RowOK, Whole
  <2> QED
    BY <2>2, <2>3
<1> QED
  BY <1>1, PostingInductive, PTL

\* No step undoes or repeats what is committed for an event: its entry, its contract,
\* its reclassification, its being processed.
THEOREM PostingIsFinal == Spec => NothingRedone
<1>1. ASSUME PostingInv, [Next]_vars
      PROVE  [\A e \in Events :
                /\ db[e].processed => db'[e].processed
                /\ db[e].entries # <<>> => db'[e].entries = db[e].entries
                /\ db[e].contract => db'[e].contract
                /\ db[e].reclass # None => db'[e].reclass = db[e].reclass]_db
  <2>1. CASE UNCHANGED db
    BY <2>1
  <2>2. ASSUME NEW w \in Workers, Commit(w)
        PROVE  \A e \in Events : Extends(db[e], db'[e])
    BY <1>1, <2>2, Seen DEF Commit
  <2>3. UNCHANGED db \/ \E w \in Workers : Commit(w)
    BY <1>1 DEF vars, Next, WorkerStep, Arrive, CreateObligation, CreateContract, SelectBatch,
                ProcessEvent, BreakBatch, CommitFails, Abort
  <2> QED
    BY <2>1, <2>2, <2>3 DEF Extends
<1> QED
  BY <1>1, PostingInductive, PTL DEF Spec, NothingRedone
=============================================================================
