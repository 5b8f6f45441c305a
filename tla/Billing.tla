------------------------------- MODULE Billing -------------------------------
(***************************************************************************)
(* Billing of pay-as-you-go revenue: POST /revrec/obligations/{id}/bill,   *)
(* ui/routes/revrec.py, whose callers repeat a request until it is         *)
(* answered, beside the postings of Zuora invoices that move the same      *)
(* receivable (revrec/payg_billing.py, in Posting).  Requests run          *)
(* concurrently, each in its own READ COMMITTED transaction.               *)
(***************************************************************************)
EXTENDS Integers, Sequences, FiniteSets

CONSTANTS
  Callers,      \* clients of the admin endpoint, each with one request to make
  Asks,         \* Asks[c]: what caller c asks for
  Invoices,     \* Zuora invoices with a payg_obligation_ref
  Invoice,      \* Invoice[i]: its obligation, number and amount
  Obligations,  \* obligations with pattern consumption_payg
  Others,       \* obligations with another pattern
  MaxCrashes,   \* bound on the crashes a behaviour has
  None          \* no external_ref

Bills == [obligation : Obligations \cup Others, ref : STRING \cup {None}, amount : Int]

ASSUME BillingAssumption ==
  /\ Asks \in [Callers -> Bills]
  /\ Invoice \in [Invoices -> Bills]
  /\ \A i \in Invoices : /\ Invoice[i].obligation \in Obligations
                         /\ Invoice[i].ref # None /\ Invoice[i].amount > 0
  /\ Callers \cap Invoices = {}
  /\ MaxCrashes \in Nat

VARIABLES
  reclassified,  \* payg_reclassifications in commit order, each with its entry
  pc,            \* how far each caller's request is
  answer,        \* the answer a caller got: index of a row, or an HTTP status
  crashes,       \* crashes so far
  overlapped     \* history: two requests were between their check and their commit

vars == <<reclassified, pc, answer, crashes, overlapped>>

-----------------------------------------------------------------------------
\* An external_ref of "" is stored, and taken for none by the check.
has_ref(b) == b.ref \notin {None, ""}

\* The rows the check finds, by invoice_external_ref and obligation_id.
existing_AnyObligation(b) ==  \* mutant: looks for the reference alone
  {i \in DOMAIN reclassified : reclassified[i].ref = b.ref}
existing(b) ==
  {i \in DOMAIN reclassified : /\ reclassified[i].ref = b.ref
                               /\ reclassified[i].obligation = b.obligation}

NoAnswer == 0
Unprocessable == -1
ServerError == -2

Init ==
  /\ reclassified = <<>>
  /\ pc = [c \in Callers |-> "ask"]
  /\ answer = [c \in Callers |-> NoAnswer]
  /\ crashes = 0
  /\ overlapped = FALSE

billed(b, by) ==
  reclassified' = Append(reclassified, [obligation |-> b.obligation, ref |-> b.ref,
                                        amount |-> b.amount, by |-> by])

\* A request that is refused, or whose reference was billed before.
Refuse(c) ==
  /\ pc[c] = "ask"
  /\ Asks[c].amount <= 0 \/ Asks[c].obligation \in Others
  /\ answer' = [answer EXCEPT ![c] = Unprocessable]
  /\ pc' = [pc EXCEPT ![c] = "done"]
  /\ UNCHANGED <<reclassified, crashes, overlapped>>

acceptable_AnyPattern(c) == Asks[c].amount > 0  \* mutant: no look at the pattern
acceptable(c) == Asks[c].amount > 0 /\ Asks[c].obligation \in Obligations

ReturnExisting(c) ==
  /\ pc[c] = "ask"
  /\ acceptable(c)
  /\ has_ref(Asks[c])
  /\ Cardinality(existing(Asks[c])) = 1
  /\ answer' = [answer EXCEPT ![c] = CHOOSE i \in existing(Asks[c]) : TRUE]
  /\ pc' = [pc EXCEPT ![c] = "done"]
  /\ UNCHANGED <<reclassified, crashes, overlapped>>

\* scalar_one_or_none raises MultipleResultsFound; the caller asks again.
CheckRaises(c) ==
  /\ pc[c] = "ask"
  /\ acceptable(c)
  /\ has_ref(Asks[c])
  /\ Cardinality(existing(Asks[c])) > 1
  /\ answer' = [answer EXCEPT ![c] = ServerError]
  /\ UNCHANGED <<reclassified, pc, crashes, overlapped>>

\* Nothing was billed under the reference, or there is none.
CheckPasses_Unchecked(c) ==  \* mutant: no look for an existing row
  /\ pc[c] = "ask"
  /\ acceptable(c)
  /\ pc' = [pc EXCEPT ![c] = "post"]
  /\ overlapped' = (overlapped \/ \E d \in Callers : pc[d] = "post")
  /\ UNCHANGED <<reclassified, answer, crashes>>
CheckPasses(c) ==
  /\ pc[c] = "ask"
  /\ acceptable(c)
  /\ has_ref(Asks[c]) => existing(Asks[c]) = {}
  /\ pc' = [pc EXCEPT ![c] = "post"]
  /\ overlapped' = (overlapped \/ \E d \in Callers : pc[d] = "post")
  /\ UNCHANGED <<reclassified, answer, crashes>>

\* post_entry, the row and the commit; then the answer, which may be lost.
Bill(c) ==
  /\ pc[c] = "post"
  /\ billed(Asks[c], c)
  /\ pc' = [pc EXCEPT ![c] = "reply"]
  /\ UNCHANGED <<answer, crashes, overlapped>>

Reply(c) ==
  /\ pc[c] = "reply"
  /\ answer' = [answer EXCEPT ![c] =
                  CHOOSE i \in DOMAIN reclassified :
                    /\ reclassified[i].by = c
                    /\ \A j \in DOMAIN reclassified : reclassified[j].by = c => j <= i]
  /\ pc' = [pc EXCEPT ![c] = "done"]
  /\ UNCHANGED <<reclassified, crashes, overlapped>>

\* The process or the connection is lost, before the commit or after it.
Crash(c) ==
  /\ pc[c] \in {"post", "reply"}
  /\ crashes < MaxCrashes
  /\ crashes' = crashes + 1
  /\ pc' = [pc EXCEPT ![c] = "ask"]
  /\ UNCHANGED <<reclassified, answer, overlapped>>

\* The posting engine's transaction for invoice i, which looks for no earlier
\* row of that number; the invoice's event is posted once.
PostInvoice(i) ==
  /\ \A j \in DOMAIN reclassified : reclassified[j].by # i
  /\ overlapped' = (overlapped \/ \E d \in Callers : pc[d] = "post")
  /\ billed(Invoice[i], i)
  /\ UNCHANGED <<pc, answer, crashes>>

Request(c) ==
  Refuse(c) \/ ReturnExisting(c) \/ CheckRaises(c) \/ CheckPasses(c) \/ Bill(c) \/ Reply(c)

\* Every caller has its answer.
Quiet ==
  /\ \A c \in Callers : pc[c] = "done"
  /\ UNCHANGED vars

Next ==
  \/ \E c \in Callers : Request(c)
  \/ \E c \in Callers : Crash(c)
  \/ \E i \in Invoices : PostInvoice(i)
  \/ Quiet

Spec == Init /\ [][Next]_vars

\* A caller repeats its request until it is answered, and the server takes it up.
FairSpec == Spec /\ \A c \in Callers : WF_vars(Request(c))

-----------------------------------------------------------------------------
(* Properties *)

by_hand(i) == reclassified[i].by \in Callers

\* Every row and every request has values of its columns' types.
TypeOK ==
  /\ reclassified \in Seq([obligation : Obligations, ref : STRING \cup {None},
                           amount : Nat \ {0}, by : Callers \cup Invoices])
  /\ pc \in [Callers -> {"ask", "post", "reply", "done"}]
  /\ answer \in [Callers -> Nat \cup {Unprocessable, ServerError}]
  /\ crashes \in 0..MaxCrashes

\* Requests that do not overlap bill a reference of an obligation once, however
\* often callers repeat them and wherever they crash, and not after its invoice.
BilledOnceAlone ==
  ~ overlapped =>
    \A i, j \in DOMAIN reclassified :
      /\ i < j /\ by_hand(j)
      /\ reclassified[i].obligation = reclassified[j].obligation
      => reclassified[i].ref # reclassified[j].ref \/ reclassified[j].ref \in {None, ""}

\* An answer names the bill the caller asked for: of its obligation and its
\* reference, even if another caller, or an invoice, was first.
AnswerIsOfTheBill ==
  \A c \in Callers : answer[c] > 0 =>
    LET row == reclassified[answer[c]]
    IN  row.obligation = Asks[c].obligation /\ row.ref = Asks[c].ref

\* The reference of caller c's request has two rows of its obligation.
billed_twice(c) ==
  \E i, j \in DOMAIN reclassified :
    i # j /\ \A k \in {i, j} : /\ reclassified[k].obligation = Asks[c].obligation
                               /\ reclassified[k].ref = Asks[c].ref
                               /\ reclassified[k].ref \notin {None, ""}


\* README.md:77 has the endpoint idempotent on external_ref: all requests that
\* carry a reference bill its obligation once.
BilledOnce ==
  \A i, j \in DOMAIN reclassified :
    /\ by_hand(i) /\ by_hand(j) /\ reclassified[i].ref \notin {None, ""}
    /\ reclassified[i].obligation = reclassified[j].obligation
    /\ reclassified[i].ref = reclassified[j].ref
    => i = j
=============================================================================
