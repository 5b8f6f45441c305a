---------------------------- MODULE BillingProofs ----------------------------
(***************************************************************************)
(* Theorems about pay-as-you-go billing, for any number of callers and     *)
(* invoices, any amounts and any number of crashes.                        *)
(***************************************************************************)
EXTENDS Billing, FiniteSetTheorems, SequenceTheorems, TLAPS

Rows == [obligation : Obligations, ref : STRING \cup {None},
         amount : Nat \ {0}, by : Callers \cup Invoices]

-----------------------------------------------------------------------------
(* The invariant *)

\* Row i is the latest one by c.
latest(rows, c, i) ==
  i \in DOMAIN rows /\ rows[i].by = c /\ \A j \in DOMAIN rows : rows[j].by = c => j <= i

\* A request past its check is acceptable; one that waits for its answer has its
\* row; a row is its caller's; an answer is an HTTP status or names a row.
RequestsOK ==
  /\ \A c \in Callers : pc[c] \in {"post", "reply"} => acceptable(c)
  /\ \A c \in Callers : pc[c] = "reply" => \E i : latest(reclassified, c, i)
  /\ \A c \in Callers : answer[c] > 0 => answer[c] \in DOMAIN reclassified
  /\ \A i \in DOMAIN reclassified : by_hand(i) =>
       /\ reclassified[i].obligation = Asks[reclassified[i].by].obligation
       /\ reclassified[i].ref = Asks[reclassified[i].by].ref

\* As long as no two requests overlapped, at most one is past its check, and what
\* it found is still so.
ChecksHold ==
  ~ overlapped =>
    /\ \A c, d \in Callers : pc[c] = "post" /\ pc[d] = "post" => c = d
    /\ \A c \in Callers :
         pc[c] = "post" /\ has_ref(Asks[c]) => existing(Asks[c]) = {}

BillingInv ==
  /\ TypeOK
  /\ RequestsOK
  /\ ChecksHold
  /\ BilledOnceAlone
  /\ AnswerIsOfTheBill

\* What one bill changes.
LEMMA BilledAppends ==
  ASSUME TypeOK, NEW b, NEW by \in Callers \cup Invoices, b.obligation \in Obligations,
         b.ref \in STRING \cup {None}, b.amount \in Nat \ {0}, billed(b, by)
  PROVE  LET n == Len(reclassified)
         IN  /\ n \in Nat /\ DOMAIN reclassified = 1..n
             /\ DOMAIN reclassified' = 1..(n + 1)
             /\ \A i \in 1..n : reclassified'[i] = reclassified[i]
             /\ reclassified'[n + 1].obligation = b.obligation
             /\ reclassified'[n + 1].ref = b.ref
             /\ reclassified'[n + 1].amount = b.amount
             /\ reclassified'[n + 1].by = by
             /\ reclassified' \in Seq(Rows)
             /\ \A i \in 1..n : reclassified[i] \in Rows
<1> DEFINE row == [obligation |-> b.obligation, ref |-> b.ref, amount |-> b.amount, by |-> by]
           n == Len(reclassified)
<1>1. row \in Rows
  BY DEF Rows
<1>2. row.obligation = b.obligation /\ row.ref = b.ref /\ row.amount = b.amount /\ row.by = by
  OBVIOUS
<1>3. reclassified \in Seq(Rows) /\ reclassified' = Append(reclassified, row)
  BY DEF TypeOK, Rows, billed
<1> HIDE DEF row
<1>4. n \in Nat /\ DOMAIN reclassified = 1..n
  BY <1>3, LenProperties
<1>5. /\ DOMAIN reclassified' = 1..(n + 1) /\ reclassified'[n + 1] = row
      /\ \A i \in 1..n : reclassified'[i] = reclassified[i]
      /\ reclassified' \in Seq(Rows)
  BY <1>1, <1>3, <1>4, AppendProperties
<1>6. \A i \in 1..n : reclassified[i] \in Rows
  BY <1>3, <1>4, ElementOfSeq
<1> QED
  BY <1>2, <1>4, <1>5, <1>6

\* The empty database satisfies the invariant.
LEMMA BillingInit == Init => BillingInv
<1> SUFFICES ASSUME Init PROVE BillingInv
  OBVIOUS
<1>1. DOMAIN reclassified = {}
  BY DEF Init
<1>2. TypeOK
  BY BillingAssumption DEF Init, TypeOK, NoAnswer
<1>3. RequestsOK
  BY <1>1 DEF Init, RequestsOK, NoAnswer
<1>5. ChecksHold
  BY DEF Init, ChecksHold
<1>6. BilledOnceAlone
  BY <1>1 DEF BilledOnceAlone
<1>7. AnswerIsOfTheBill
  BY DEF Init, AnswerIsOfTheBill, NoAnswer
<1> QED
  BY <1>2, <1>3, <1>5, <1>6, <1>7 DEF BillingInv

\* A step that bills nothing keeps what is said of the rows.
LEMMA RowsKept ==
  ASSUME BillingInv, UNCHANGED reclassified, overlapped => overlapped'
  PROVE  BilledOnceAlone'
BY DEF BillingInv, BilledOnceAlone, by_hand

\* What a caller asks for, once accepted, can be a row.
LEMMA AcceptedAsk ==
  ASSUME NEW c \in Callers, acceptable(c)
  PROVE  /\ Asks[c].obligation \in Obligations /\ Asks[c].ref \in STRING \cup {None}
         /\ Asks[c].amount \in Nat \ {0}
BY BillingAssumption DEF acceptable, Bills

\* What an invoice bills is a row.
LEMMA InvoiceAsk ==
  ASSUME NEW i \in Invoices
  PROVE  /\ Invoice[i].obligation \in Obligations /\ Invoice[i].ref \in STRING \cup {None}
         /\ Invoice[i].amount \in Nat \ {0}
BY BillingAssumption DEF Bills

\* One more row leaves the answers and the earlier rows as they are, and bills no
\* reference twice unless it was found billed.
LEMMA RowsAppended ==
  ASSUME BillingInv, NEW b, NEW by \in Callers \cup Invoices, b.obligation \in Obligations,
         b.ref \in STRING \cup {None}, b.amount \in Nat \ {0}, billed(b, by),
         by \in Callers => b = Asks[by],
         by \in Callers /\ ~ overlapped' /\ has_ref(b) => existing(b) = {},
         overlapped => overlapped', answer' = answer
  PROVE  /\ BilledOnceAlone' /\ AnswerIsOfTheBill'
         /\ \A c \in Callers : answer[c] > 0 => answer'[c] \in DOMAIN reclassified'
         /\ \A i \in DOMAIN reclassified' : reclassified'[i].by \in Callers =>
              /\ reclassified'[i].obligation = Asks[reclassified'[i].by].obligation
              /\ reclassified'[i].ref = Asks[reclassified'[i].by].ref
         /\ \A c \in Callers : c = by \/ (\E i : latest(reclassified, c, i)) =>
              \E i : latest(reclassified', c, i)
         /\ reclassified' \in Seq(Rows)
<1> DEFINE n == Len(reclassified)
<1>1. TypeOK /\ RequestsOK
  BY DEF BillingInv
<1>2. /\ n \in Nat /\ DOMAIN reclassified = 1..n /\ DOMAIN reclassified' = 1..(n + 1)
      /\ \A i \in 1..n : reclassified'[i] = reclassified[i] /\ reclassified[i] \in Rows
      /\ reclassified'[n + 1].obligation = b.obligation
      /\ reclassified'[n + 1].ref = b.ref
      /\ reclassified'[n + 1].by = by
      /\ reclassified' \in Seq(Rows)
  BY <1>1, BilledAppends
<1> HIDE DEF n
<1>3. \A c \in Callers : answer[c] > 0 =>
        /\ answer[c] \in 1..n /\ answer'[c] \in 1..(n + 1)
        /\ reclassified'[answer[c]] = reclassified[answer[c]]
  BY <1>1, <1>2 DEF RequestsOK
<1>4. AnswerIsOfTheBill'
  BY <1>3 DEF BillingInv, AnswerIsOfTheBill
<1>5. \A i \in 1..(n + 1) : reclassified'[i].by \in Callers =>
        /\ reclassified'[i].obligation = Asks[reclassified'[i].by].obligation
        /\ reclassified'[i].ref = Asks[reclassified'[i].by].ref
  <2>1. ASSUME NEW i \in 1..n, reclassified'[i].by \in Callers
        PROVE  /\ reclassified'[i].obligation = Asks[reclassified'[i].by].obligation
               /\ reclassified'[i].ref = Asks[reclassified'[i].by].ref
    BY <1>1, <1>2, <2>1 DEF RequestsOK, by_hand
  <2>2. \A i \in 1..(n + 1) : i \in 1..n \/ i = n + 1
    BY <1>2
  <2> QED
    BY <1>2, <2>1, <2>2
<1>6. ASSUME ~ overlapped', NEW i \in 1..(n + 1), NEW j \in 1..(n + 1), i < j,
             reclassified'[j].by \in Callers,
             reclassified'[i].obligation = reclassified'[j].obligation
      PROVE  reclassified'[i].ref # reclassified'[j].ref \/ reclassified'[j].ref \in {None, ""}
  <2>1. i \in 1..n
    BY <1>2, <1>6
  <2>2. CASE j \in 1..n
    BY <1>2, <1>6, <2>1, <2>2 DEF BillingInv, BilledOnceAlone, by_hand
  <2>3. CASE j = n + 1
    <3>1. b.ref \in {None, ""} \/ i \notin existing(b)
      BY <1>2, <1>6, <2>3 DEF has_ref
    <3> QED
      BY <1>2, <1>6, <2>1, <2>3, <3>1 DEF existing
  <2>4. j \in 1..n \/ j = n + 1
    BY <1>2
  <2> QED
    BY <2>2, <2>3, <2>4, Zenon
<1>7. BilledOnceAlone'
  BY <1>2, <1>6 DEF BilledOnceAlone, by_hand
<1>8. ASSUME NEW c \in Callers, c = by \/ \E i : latest(reclassified, c, i)
      PROVE  \E i : latest(reclassified', c, i)
  <2>1. CASE c = by
    <3>1. latest(reclassified', c, n + 1)
      BY <1>2, <2>1 DEF latest
    <3> QED
      BY <3>1
  <2>2. CASE c # by
    <3>1. PICK i : latest(reclassified, c, i)
      BY <1>8, <2>2
    <3>2. latest(reclassified', c, i)
      BY <1>2, <2>2, <3>1 DEF latest
    <3> QED
      BY <3>2
  <2> QED
    BY <2>1, <2>2
<1> QED
  BY <1>2, <1>3, <1>4, <1>5, <1>7, <1>8

\* A billing step keeps the rest of the invariant.
LEMMA BillingStep == BillingInv /\ [Next]_vars => BillingInv'
<1> SUFFICES ASSUME BillingInv, [Next]_vars PROVE BillingInv'
  OBVIOUS
<1>1. TypeOK /\ RequestsOK /\ ChecksHold /\ BilledOnceAlone /\ AnswerIsOfTheBill
  BY DEF BillingInv
<1>2. ASSUME UNCHANGED reclassified, overlapped => overlapped',
             TypeOK', RequestsOK', ChecksHold', AnswerIsOfTheBill'
      PROVE  BillingInv'
  BY <1>2, RowsKept DEF BillingInv
<1>3. CASE UNCHANGED vars
  <2>1. TypeOK' /\ RequestsOK' /\ AnswerIsOfTheBill'
    BY <1>1, <1>3 DEF vars, TypeOK, RequestsOK, by_hand, AnswerIsOfTheBill
  <2>2. ChecksHold'
    BY <1>1, <1>3 DEF vars, ChecksHold, existing
  <2> QED
    BY <1>2, <1>3, <2>1, <2>2 DEF vars
<1>4. ASSUME NEW c \in Callers, UNCHANGED <<reclassified, crashes, overlapped>>,
             NEW a \in Nat \cup {Unprocessable, ServerError},
             answer' = [answer EXCEPT ![c] = a],
             a > 0 => /\ a \in DOMAIN reclassified
                      /\ reclassified[a].obligation = Asks[c].obligation
                      /\ reclassified[a].ref = Asks[c].ref,
             pc' = pc \/ pc' = [pc EXCEPT ![c] = "done"]
      PROVE  BillingInv'
  <2>1. /\ \A d \in Callers : pc'[d] = pc[d] \/ pc'[d] = "done"
        /\ pc' \in [Callers -> {"ask", "post", "reply", "done"}]
    BY <1>1, <1>4 DEF TypeOK
  <2>2. /\ answer' \in [Callers -> Nat \cup {Unprocessable, ServerError}]
        /\ \A d \in Callers : answer'[d] = IF d = c THEN a ELSE answer[d]
    BY <1>1, <1>4 DEF TypeOK
  <2>3. TypeOK'
    BY <1>1, <1>4, <2>1, <2>2 DEF TypeOK
  <2>4. RequestsOK'
    BY <1>1, <1>4, <2>1, <2>2 DEF RequestsOK, by_hand, acceptable
  <2>5. ChecksHold'
    BY <1>1, <1>4, <2>1 DEF ChecksHold, existing
  <2>6. AnswerIsOfTheBill'
    BY <1>1, <1>4, <2>2 DEF AnswerIsOfTheBill
  <2> QED
    BY <1>2, <1>4, <2>3, <2>4, <2>5, <2>6
<1>5. ASSUME NEW c \in Callers, Refuse(c) PROVE BillingInv'
  <2>1. /\ UNCHANGED <<reclassified, crashes, overlapped>>
        /\ answer' = [answer EXCEPT ![c] = Unprocessable]
        /\ pc' = [pc EXCEPT ![c] = "done"]
    BY <1>5 DEF Refuse
  <2>2. ~ (Unprocessable > 0) /\ Unprocessable \in Nat \cup {Unprocessable, ServerError}
    BY DEF Unprocessable
  <2> QED
    BY <1>4, <2>1, <2>2
<1>6. ASSUME NEW c \in Callers, ReturnExisting(c) PROVE BillingInv'
  <2> DEFINE a == CHOOSE i \in existing(Asks[c]) : TRUE
  <2>1. existing(Asks[c]) # {}
    BY <1>6, FS_EmptySet DEF ReturnExisting
  <2>2. a \in existing(Asks[c])
    BY <2>1
  <2>3. /\ a \in DOMAIN reclassified /\ a \in Nat
        /\ reclassified[a].obligation = Asks[c].obligation
        /\ reclassified[a].ref = Asks[c].ref
    <3>1. DOMAIN reclassified \subseteq Nat
      BY <1>1, LenProperties DEF TypeOK
    <3> HIDE DEF a
    <3> QED
      BY <2>2, <3>1 DEF existing
  <2> QED
    BY <1>4, <1>6, <2>3 DEF ReturnExisting
<1>7. ASSUME NEW c \in Callers, CheckRaises(c) PROVE BillingInv'
  <2>1. /\ UNCHANGED <<reclassified, crashes, overlapped>>
        /\ answer' = [answer EXCEPT ![c] = ServerError]
        /\ pc' = pc
    BY <1>7 DEF CheckRaises
  <2>2. ~ (ServerError > 0) /\ ServerError \in Nat \cup {Unprocessable, ServerError}
    BY DEF ServerError
  <2> QED
    BY <1>4, <2>1, <2>2
<1>8. ASSUME NEW c \in Callers, CheckPasses(c) PROVE BillingInv'
  <2>1. /\ UNCHANGED <<reclassified, answer, crashes>>
        /\ overlapped' = (overlapped \/ \E d \in Callers : pc[d] = "post")
        /\ \A d \in Callers : pc'[d] = IF d = c THEN "post" ELSE pc[d]
        /\ pc' \in [Callers -> {"ask", "post", "reply", "done"}]
    BY <1>1, <1>8 DEF CheckPasses, TypeOK
  <2>2. TypeOK'
    BY <1>1, <2>1 DEF TypeOK
  <2>3. RequestsOK'
    BY <1>1, <1>8, <2>1 DEF RequestsOK, by_hand, acceptable, CheckPasses
  <2>4. ChecksHold'
    <3>1. /\ \A d \in Callers : existing(Asks[d])' = existing(Asks[d])
          /\ \A d \in Callers : has_ref(Asks[d])' <=> has_ref(Asks[d])
      BY <2>1 DEF existing, has_ref
    <3>2. has_ref(Asks[c]) => existing(Asks[c]) = {}
      BY <1>8 DEF CheckPasses
    <3>3. ~ overlapped' => ~ overlapped /\ \A d \in Callers : pc[d] # "post"
      BY <2>1
    <3> QED
      BY <1>1, <2>1, <3>1, <3>2, <3>3 DEF ChecksHold
  <2>5. AnswerIsOfTheBill'
    BY <1>1, <2>1 DEF AnswerIsOfTheBill
  <2> QED
    BY <1>2, <2>1, <2>2, <2>3, <2>4, <2>5
<1>9. ASSUME NEW c \in Callers, Bill(c) PROVE BillingInv'
  <2>1. /\ UNCHANGED <<answer, crashes, overlapped>> /\ pc[c] = "post"
        /\ billed(Asks[c], c)
        /\ \A d \in Callers : pc'[d] = IF d = c THEN "reply" ELSE pc[d]
        /\ pc' \in [Callers -> {"ask", "post", "reply", "done"}]
    BY <1>1, <1>9 DEF Bill, TypeOK
  <2>2. acceptable(c) /\ c \in Callers \cup Invoices
    BY <1>1, <2>1 DEF RequestsOK
  <2>3. /\ Asks[c].obligation \in Obligations /\ Asks[c].ref \in STRING \cup {None}
        /\ Asks[c].amount \in Nat \ {0}
    BY <2>2, AcceptedAsk
  <2>5. ~ overlapped' /\ has_ref(Asks[c]) => existing(Asks[c]) = {}
    BY <1>1, <2>1 DEF ChecksHold
  <2>6. /\ BilledOnceAlone' /\ AnswerIsOfTheBill'
        /\ \A d \in Callers : answer[d] > 0 => answer'[d] \in DOMAIN reclassified'
        /\ \A i \in DOMAIN reclassified' : reclassified'[i].by \in Callers =>
             /\ reclassified'[i].obligation = Asks[reclassified'[i].by].obligation
             /\ reclassified'[i].ref = Asks[reclassified'[i].by].ref
        /\ \A d \in Callers : d = c \/ (\E j : latest(reclassified, d, j)) =>
             \E j : latest(reclassified', d, j)
        /\ reclassified' \in Seq(Rows)
    BY <2>1, <2>2, <2>3, <2>5, RowsAppended
  <2>7. TypeOK'
    BY <1>1, <2>1, <2>6 DEF TypeOK, Rows
  <2>8. RequestsOK'
    BY <1>1, <2>1, <2>2, <2>6 DEF RequestsOK, by_hand, acceptable
  <2>9. ChecksHold'
    BY <1>1, <2>1 DEF ChecksHold
  <2> QED
    BY <2>6, <2>7, <2>8, <2>9 DEF BillingInv
<1>10. ASSUME NEW c \in Callers, Reply(c) PROVE BillingInv'
  <2> DEFINE last == CHOOSE i \in DOMAIN reclassified :
                       /\ reclassified[i].by = c
                       /\ \A j \in DOMAIN reclassified : reclassified[j].by = c => j <= i
  <2>1. \E i \in DOMAIN reclassified :
          /\ reclassified[i].by = c
          /\ \A j \in DOMAIN reclassified : reclassified[j].by = c => j <= i
    BY <1>1, <1>10 DEF RequestsOK, Reply, latest
  <2>2. last \in DOMAIN reclassified /\ reclassified[last].by = c
    BY <2>1
  <2>3. answer' = [answer EXCEPT ![c] = last]
    BY <1>10 DEF Reply
  <2> HIDE DEF last
  <2>4. last \in Nat
    BY <1>1, <2>2, LenProperties DEF TypeOK
  <2>5. /\ reclassified[last].obligation = Asks[c].obligation
        /\ reclassified[last].ref = Asks[c].ref
    BY <1>1, <2>2 DEF RequestsOK, by_hand
  <2> QED
    BY <1>4, <1>10, <2>2, <2>3, <2>4, <2>5 DEF Reply
<1>11. ASSUME NEW c \in Callers, Crash(c) PROVE BillingInv'
  <2>1. /\ UNCHANGED <<reclassified, answer, overlapped>>
        /\ crashes < MaxCrashes /\ crashes' = crashes + 1
        /\ \A d \in Callers : pc'[d] = IF d = c THEN "ask" ELSE pc[d]
        /\ pc' \in [Callers -> {"ask", "post", "reply", "done"}]
    BY <1>1, <1>11 DEF Crash, TypeOK
  <2>2. TypeOK'
    BY <1>1, <2>1, BillingAssumption DEF TypeOK
  <2>3. RequestsOK'
    BY <1>1, <2>1 DEF RequestsOK, by_hand, acceptable
  <2>4. ChecksHold'
    BY <1>1, <2>1 DEF ChecksHold, existing
  <2>5. AnswerIsOfTheBill'
    BY <1>1, <2>1 DEF AnswerIsOfTheBill
  <2> QED
    BY <1>2, <2>1, <2>2, <2>3, <2>4, <2>5
<1>12. ASSUME NEW i \in Invoices, PostInvoice(i) PROVE BillingInv'
  <2>1. /\ UNCHANGED <<pc, answer, crashes>> /\ billed(Invoice[i], i)
        /\ overlapped' = (overlapped \/ \E d \in Callers : pc[d] = "post")
        /\ i \in Callers \cup Invoices /\ i \notin Callers
    BY <1>12, BillingAssumption DEF PostInvoice
  <2>2. /\ Invoice[i].obligation \in Obligations /\ Invoice[i].ref \in STRING \cup {None}
        /\ Invoice[i].amount \in Nat \ {0}
    BY InvoiceAsk
  <2>4. /\ BilledOnceAlone' /\ AnswerIsOfTheBill'
        /\ \A d \in Callers : answer[d] > 0 => answer'[d] \in DOMAIN reclassified'
        /\ \A j \in DOMAIN reclassified' : reclassified'[j].by \in Callers =>
             /\ reclassified'[j].obligation = Asks[reclassified'[j].by].obligation
             /\ reclassified'[j].ref = Asks[reclassified'[j].by].ref
        /\ \A d \in Callers : d = i \/ (\E j : latest(reclassified, d, j)) =>
             \E j : latest(reclassified', d, j)
        /\ reclassified' \in Seq(Rows)
    BY <2>1, <2>2, RowsAppended
  <2>5. TypeOK'
    BY <1>1, <2>1, <2>4 DEF TypeOK, Rows
  <2>6. RequestsOK'
    BY <1>1, <2>1, <2>4 DEF RequestsOK, by_hand, acceptable
  <2>7. ChecksHold'
    BY <1>1, <2>1 DEF ChecksHold
  <2> QED
    BY <2>4, <2>5, <2>6, <2>7 DEF BillingInv
<1> QED
  BY <1>3, <1>5, <1>6, <1>7, <1>8, <1>9, <1>10, <1>11, <1>12 DEF Next, Request, Quiet

-----------------------------------------------------------------------------
(* Theorems *)

\* Every row and every request keeps values of its columns' types.
THEOREM BillingTypeCorrect == Spec => []TypeOK
<1>1. BillingInv => TypeOK
  BY DEF BillingInv
<1> QED
  BY <1>1, BillingInit, BillingStep, PTL DEF Spec

\* As long as no two requests overlap, a reference of an obligation is billed
\* once, however often callers repeat their requests.  (Overlapping requests
\* bill it twice: run billing_twice.)
THEOREM BillingOnceAlone == Spec => []BilledOnceAlone
<1>1. BillingInv => BilledOnceAlone
  BY DEF BillingInv
<1> QED
  BY <1>1, BillingInit, BillingStep, PTL DEF Spec

\* Every answer names a bill of the obligation and the reference asked for.
THEOREM BillingAnswers == Spec => []AnswerIsOfTheBill
<1>1. BillingInv => AnswerIsOfTheBill
  BY DEF BillingInv
<1> QED
  BY <1>1, BillingInit, BillingStep, PTL DEF Spec
=============================================================================
