----------------------------- MODULE Recognition -----------------------------
(***************************************************************************)
(* The revenue-recognition engine, finledger/revrec/engine.py, as the      *)
(* concurrent database transactions it is: POST /revrec/run and the        *)
(* scheduler process each call run_recognition in a session of their own,  *)
(* at Postgres's default READ COMMITTED isolation and without any lock.    *)
(* Every query of a run sees what is committed when that query runs; what  *)
(* the run writes is private to it until its one commit.                   *)
(***************************************************************************)
EXTENDS Compute, Sums, Sequences

CONSTANTS
  Obligations,  \* identities an obligation row may have
  Terms,        \* Terms[o]: the immutable columns of obligation o
  Chart,        \* codes of the rows of ledger.accounts
  Keys,         \* idempotency keys a usage event may carry
  UnitSizes,    \* numbers of units one usage event may report
  Dates,        \* through dates a caller may ask for
  Runners,      \* sessions that may execute run_recognition at a time
  NoRow         \* no usage row has this key yet

NoRun == 0
UsageRows == [obligation : Obligations, units : UnitSizes, run : Nat]
ReportedRows == [obligation : Obligations, units : UnitSizes, earned : BOOLEAN]

ASSUME RecognitionAssumption ==
  /\ \A o \in Obligations : WellFormed(Terms[o])
  /\ IsFiniteSet(Obligations) /\ IsFiniteSet(Keys)
  /\ UnitSizes \subseteq Nat \ {0}
  /\ Dates \subseteq Nat
  /\ NoRow \notin UsageRows \cup ReportedRows

VARIABLES
  created,  \* obligations that exist (their contract is active: nothing cancels one)
  usage,    \* usage_events by idempotency key; run is recognition_run_id
  runs,     \* completed recognition_runs in commit order, each with its recognition_events
  posted,   \* what the runs' journal lines add up to, by account and side
  pc,       \* how far each session is in run_recognition
  through,  \* its through_date
  todo,     \* obligations of its query it has still to visit
  seen,     \* the obligation it is visiting and _obligation_state's answer
  delta,    \* the recognition events it will insert
  picked    \* picked_up_event_ids

tables == <<created, usage, runs, posted>>
session == <<pc, through, todo, seen, delta, picked>>
vars == <<created, usage, runs, posted, pc, through, todo, seen, delta, picked>>

-----------------------------------------------------------------------------
(* Queries *)

\* _obligation_state over the events of the runs rs: SUM(recognized_cents) and
\* MAX(recognized_through), NULL when there is no event.
sum_cents(rs, o) ==
  Total([i \in DOMAIN rs |-> rs[i].event[o].recognized_cents], DOMAIN rs)
event_dates(rs, o) ==
  {rs[i].event[o].recognized_through : i \in DOMAIN rs} \cup {NoDate}
max_through(rs, o) ==
  CHOOSE d \in event_dates(rs, o) : \A e \in event_dates(rs, o) : e <= d

recognized(o) == sum_cents(runs, o)
recognized_through(o) == max_through(runs, o)

UsageOf(o) == {k \in Keys : usage[k] # NoRow /\ usage[k].obligation = o}

\* _pending_usage_for: the rows whose recognized_at is NULL, and their units.
pending_usage_for_All(o) == UsageOf(o)  \* mutant: no "recognized_at IS NULL"
pending_usage_for(o) == {k \in UsageOf(o) : usage[k].run = NoRun}
units_in(K) == Total([k \in K |-> usage[k].units], K)

debit_account(o) ==
  IF Terms[o].pattern = "consumption_payg"
  THEN Terms[o].unbilled_ar_account_code
  ELSE Terms[o].deferred_revenue_account_code
revenue_account(o) == Terms[o].revenue_account_code

existing_completed_run(d) == \E i \in DOMAIN runs : runs[i].through >= d

-----------------------------------------------------------------------------
(* Sessions *)

NothingSeen == NoRow
NoDeltas == [o \in Obligations |-> NoDelta]

Init ==
  /\ created = {}
  /\ usage = [k \in Keys |-> NoRow]
  /\ runs = <<>>
  /\ posted = [a \in Chart |-> [debit |-> 0, credit |-> 0]]
  /\ pc = [r \in Runners |-> "idle"]
  /\ through = [r \in Runners |-> NoDate]
  /\ todo = [r \in Runners |-> {}]
  /\ seen = [r \in Runners |-> NothingSeen]
  /\ delta = [r \in Runners |-> NoDeltas]
  /\ picked = [r \in Runners |-> {}]

\* The session is over, committed or rolled back: nothing private survives it.
EndSession(r) ==
  /\ pc' = [pc EXCEPT ![r] = "idle"]
  /\ through' = [through EXCEPT ![r] = NoDate]
  /\ todo' = [todo EXCEPT ![r] = {}]
  /\ seen' = [seen EXCEPT ![r] = NothingSeen]
  /\ delta' = [delta EXCEPT ![r] = NoDeltas]
  /\ picked' = [picked EXCEPT ![r] = {}]

-----------------------------------------------------------------------------
(* Requests that commit rows of their own *)

\* POST /revrec/contracts/{id}/obligations, or the genesis from a Zuora invoice.
CreateObligation(o) ==
  /\ o \notin created
  /\ created' = created \cup {o}
  /\ UNCHANGED <<usage, runs, posted, session>>

\* POST /revrec/usage and usage.uploaded.  A key already in the table violates
\* its UNIQUE constraint: the request answers 409 and changes nothing.
PostUsage(k, o, n) ==
  /\ o \in created
  /\ Terms[o].pattern \in UsagePatterns
  /\ usage[k] = NoRow
  /\ usage' = [usage EXCEPT ![k] = [obligation |-> o, units |-> n, run |-> NoRun]]
  /\ UNCHANGED <<created, runs, posted, session>>

-----------------------------------------------------------------------------
(* run_recognition, one action per query *)

\* Lines 53-63.  With a completed run for d or later the call returns that run
\* and its session commits nothing: no step.
StartRun_Unchecked(r, d) ==  \* mutant: no look at completed runs
  /\ pc[r] = "idle"
  /\ pc' = [pc EXCEPT ![r] = "load"]
  /\ through' = [through EXCEPT ![r] = d]
  /\ UNCHANGED <<tables, todo, seen, delta, picked>>
StartRun(r, d) ==
  /\ pc[r] = "idle"
  /\ ~ existing_completed_run(d)
  /\ pc' = [pc EXCEPT ![r] = "load"]
  /\ through' = [through EXCEPT ![r] = d]
  /\ UNCHANGED <<tables, todo, seen, delta, picked>>

\* Lines 65-75.
LoadObligations_NotEnded(r) ==  \* mutant: leaves out obligations past their end
  /\ pc[r] = "load"
  /\ todo' = [todo EXCEPT ![r] =
                {o \in created : /\ Terms[o].start_date <= through[r]
                                 /\ \/ Terms[o].end_date = NoDate
                                    \/ Terms[o].end_date >= through[r]}]
  /\ pc' = [pc EXCEPT ![r] = "loop"]
  /\ UNCHANGED <<tables, through, seen, delta, picked>>
LoadObligations(r) ==
  /\ pc[r] = "load"
  /\ todo' = [todo EXCEPT ![r] = {o \in created : Terms[o].start_date <= through[r]}]
  /\ pc' = [pc EXCEPT ![r] = "loop"]
  /\ UNCHANGED <<tables, through, seen, delta, picked>>

\* Line 78.  The query has no ORDER BY: obligations come in any order.
ReadState(r, o) ==
  /\ pc[r] = "loop"
  /\ o \in todo[r]
  /\ todo' = [todo EXCEPT ![r] = @ \ {o}]
  /\ seen' = [seen EXCEPT ![r] = [obligation |-> o,
                                  cents |-> recognized(o),
                                  through |-> recognized_through(o)]]
  /\ pc' = [pc EXCEPT ![r] = "compute"]
  /\ UNCHANGED <<tables, through, delta, picked>>

\* Lines 79-117.  Pending usage is picked up even when it recognizes nothing.
ComputeDelta(r) ==
  /\ pc[r] = "compute"
  /\ LET o    == seen[r].obligation
         keys == pending_usage_for(o)
     IN  /\ delta' = [delta EXCEPT ![r][o] =
                        compute_recognition(Terms[o], seen[r].cents, seen[r].through,
                                            through[r], units_in(keys))]
         /\ picked' = [picked EXCEPT ![r] = @ \cup keys]
  /\ seen' = [seen EXCEPT ![r] = NothingSeen]
  /\ pc' = [pc EXCEPT ![r] = "loop"]
  /\ UNCHANGED <<tables, through, todo>>

\* lines_agg, one side of it: what the run debits or credits to account a.
Processed_Prepaid(r) ==  \* mutant: "continue" before pay-as-you-go reaches its lines
  {o \in Obligations : /\ delta[r][o] # NoDelta
                       /\ Terms[o].pattern # "consumption_payg"}
Processed(r) == {o \in Obligations : delta[r][o] # NoDelta}
LineTotal(r, S) == Total([o \in S |-> delta[r][o].recognized_cents], S)
Debits(r, a) == LineTotal(r, {o \in Processed(r) : debit_account(o) = a})
Credits_Negative(r, a) ==  \* mutant: credits as negative amounts
  - LineTotal(r, {o \in Processed(r) : revenue_account(o) = a})
Credits_PerObligation(r, a) ==  \* mutant: one line per obligation, the last one kept
  LET mine == {o \in Processed(r) : revenue_account(o) = a}
  IN  IF mine = {} THEN 0 ELSE delta[r][CHOOSE o \in mine : TRUE].recognized_cents
Credits(r, a) == LineTotal(r, {o \in Processed(r) : revenue_account(o) = a})

\* get_account_id finds every account the entry needs; else it raises.
AccountsFound(r) ==
  \A o \in Processed(r) : {debit_account(o), revenue_account(o)} \subseteq Chart

\* The UPDATE of lines 133-138, on one row.
recognized_by(row, run_id) == [row EXCEPT !.run = run_id]

Commit_ByObligation(r) ==  \* mutant: stamps all pending usage of what it processed
  /\ pc[r] = "loop"
  /\ todo[r] = {}
  /\ AccountsFound(r)
  /\ runs' = Append(runs, [through |-> through[r], event |-> delta[r]])
  /\ posted' = [a \in Chart |-> [debit  |-> posted[a].debit + Debits(r, a),
                                 credit |-> posted[a].credit + Credits(r, a)]]
  /\ usage' = [k \in Keys |->
                 IF \E o \in Processed(r) : k \in pending_usage_for(o)
                 THEN recognized_by(usage[k], Len(runs) + 1) ELSE usage[k]]
  /\ EndSession(r)
  /\ UNCHANGED created

\* Lines 119-144 and the caller's commit.  The UPDATE of the picked rows does
\* not look at recognized_at again; a row another session is updating makes it
\* wait for that session's commit, which is this action happening later.
Commit(r) ==
  /\ pc[r] = "loop"
  /\ todo[r] = {}
  /\ AccountsFound(r)
  /\ runs' = Append(runs, [through |-> through[r], event |-> delta[r]])
  /\ posted' = [a \in Chart |-> [debit  |-> posted[a].debit + Debits(r, a),
                                 credit |-> posted[a].credit + Credits(r, a)]]
  /\ usage' = [k \in Keys |-> IF k \in picked[r]
                              THEN recognized_by(usage[k], Len(runs) + 1)
                              ELSE usage[k]]
  /\ EndSession(r)
  /\ UNCHANGED created

\* A crash, a lost connection, an unknown account or a deadlock between two
\* UPDATEs: the transaction rolls back.
Abort(r) ==
  /\ pc[r] # "idle"
  /\ EndSession(r)
  /\ UNCHANGED tables

RunStep(r) ==
  \/ LoadObligations(r)
  \/ \E o \in Obligations : ReadState(r, o)
  \/ ComputeDelta(r)
  \/ Commit(r)

Next ==
  \/ \E o \in Obligations : CreateObligation(o)
  \/ \E k \in Keys, o \in Obligations, n \in UnitSizes : PostUsage(k, o, n)
  \/ \E r \in Runners, d \in Dates : StartRun(r, d)
  \/ \E r \in Runners : RunStep(r)
  \/ \E r \in Runners : Abort(r)

Spec == Init /\ [][Next]_vars

-----------------------------------------------------------------------------
(* Properties *)

SeenRows == [obligation : Obligations, cents : Nat, through : Nat \cup {NoDate}]
RunRows == [through : Dates, event : [Obligations -> Deltas]]

\* Every table and every session holds values of its columns' types.
TypeOK ==
  /\ created \subseteq Obligations
  /\ usage \in [Keys -> UsageRows \cup {NoRow}]
  /\ runs \in Seq(RunRows)
  /\ posted \in [Chart -> [debit : Nat, credit : Nat]]
  /\ pc \in [Runners -> {"idle", "load", "loop", "compute"}]
  /\ through \in [Runners -> Dates \cup {NoDate}]
  /\ todo \in [Runners -> SUBSET Obligations]
  /\ seen \in [Runners -> SeenRows \cup {NoRow}]
  /\ delta \in [Runners -> [Obligations -> Deltas]]
  /\ picked \in [Runners -> SUBSET Keys]

closed == IF runs = <<>> THEN NoDate ELSE runs[Len(runs)].through
consumed(o) == UsageOf(o) \ pending_usage_for(o)
Earned(S) == Total([o \in S |-> recognized(o)], S)

\* No obligation with a contract price is ever recognized beyond that price,
\* whatever usage arrives and however runs are spaced.
NoOverRecognition ==
  \A o \in Obligations :
    Terms[o].pattern # "consumption_payg" =>
      recognized(o) <= Terms[o].total_amount_cents

\* Pay-as-you-go revenue is the price times the units marked recognized: no
\* unit is marked without being paid for, none is paid for twice.
PaygEarnsItsUnits ==
  \A o \in Obligations :
    Terms[o].pattern = "consumption_payg" =>
      recognized(o) = Terms[o].price_per_unit_cents * units_in(consumed(o))

\* No pay-as-you-go unit is marked recognized without its revenue: holds even
\* between sessions that overlap, whose errors only ever count a unit twice.
NoUnitLost ==
  \A o \in Obligations :
    Terms[o].pattern = "consumption_payg" =>
      recognized(o) >= Terms[o].price_per_unit_cents * units_in(consumed(o))

\* A prepaid commitment never earns ahead of its use: the recognized share of
\* the price is at most the consumed share of the committed units.
NeverAheadOfUse ==
  \A o \in Obligations :
    Terms[o].pattern = "consumption" =>
      recognized(o) * Terms[o].units_total
        <= Terms[o].total_amount_cents * units_in(consumed(o))

\* A ratable obligation has earned its daily rate for each day up to its
\* high-water mark, or all of it: how the runs were spaced leaves no trace.
OnSchedule ==
  \A o \in Obligations :
    Terms[o].pattern = "ratable_daily" =>
      LET t    == recognized_through(o)
          days == IF t = NoDate THEN 0 ELSE t - Terms[o].start_date + 1
      IN  \/ recognized(o) = daily_cents(Terms[o]) * days
          \/ t = Terms[o].end_date /\ recognized(o) = Terms[o].total_amount_cents

\* An obligation that has begun to earn never falls behind: it has earned for
\* every day up to the latest run, and after a run past its end all of its price.
NoDayMissed ==
  \A o \in Obligations :
    Terms[o].pattern = "ratable_daily" /\ recognized(o) > 0 =>
      /\ recognized_through(o) = Smaller(closed, Terms[o].end_date)
      /\ closed > Terms[o].end_date => recognized(o) = Terms[o].total_amount_cents

\* The subledger ties to the ledger: on every account, the runs' debits and
\* credits are the recognition events of the obligations that post there,
\* though the entry aggregates obligations and two sessions may overlap.
LedgerTiesToEvents ==
  \A a \in Chart :
    /\ posted[a].debit = Earned({o \in Obligations : debit_account(o) = a})
    /\ posted[a].credit = Earned({o \in Obligations : revenue_account(o) = a})

\* A usage row, once stamped with a run, keeps that stamp.
UsageStampedOnce ==
  [][\A k \in Keys :
       usage[k] # NoRow /\ usage[k].run # NoRun => usage'[k] = usage[k]]_usage

\* Each completed run goes further than every run completed before it.
ThroughDatesAdvance ==
  [][\A i \in DOMAIN runs, j \in DOMAIN runs' \ DOMAIN runs :
       runs[i].through < runs'[j].through]_runs

-----------------------------------------------------------------------------
(* Refinement *)

\* What has been reported, and earned once a run has stamped it.
reported ==
  [k \in Keys |->
     IF usage[k] = NoRow THEN NoRow
     ELSE [obligation |-> usage[k].obligation, units |-> usage[k].units,
           earned |-> usage[k].run # NoRun]]
earned_so_far == [o \in Obligations |-> recognized(o)]

Schedule == INSTANCE RevenueSchedule WITH
  NoUse <- NoRow, use <- reported, earned <- earned_so_far, closed <- closed

\* With one session at a time, the incremental, interruptible runs implement
\* the contract schedule: every run is one atomic step to a later date.
ImplementsSchedule == Schedule!Spec
=============================================================================
