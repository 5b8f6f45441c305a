------------------------------ MODULE Scheduler ------------------------------
(***************************************************************************)
(* Recognition from day to day: workers/revrec_scheduler.py calls          *)
(* run_recognition through yesterday at 01:00, POST /revrec/run calls it   *)
(* for any date, and GET /revrec/waterfall projects what is left.  A run   *)
(* is one step here; Recognition has its queries and sessions.             *)
(***************************************************************************)
EXTENDS Waterfall

CONSTANTS
  Obligations,  \* identities an obligation row may have
  Terms,        \* Terms[o]: the immutable columns of obligation o
  UnitSizes,    \* numbers of units one usage event may report
  RunDates,     \* through dates a request may ask for
  LastDay,      \* bound on the calendar
  MaxReports,   \* bound on usage events
  MaxMisses,    \* bound on the days without a successful job
  Horizon,      \* horizon_months
  Soon          \* months in the first figure above the table, 3 in the code

ASSUME SchedulerAssumption ==
  /\ \A o \in Obligations : WellFormed(Terms[o])
  /\ UnitSizes \subseteq Nat
  /\ RunDates \subseteq 0..LastDay
  /\ LastDay \in Nat \ {0}
  /\ MaxReports \in Nat /\ MaxMisses \in Nat
  /\ Horizon \in Nat /\ Soon \in 0..Horizon

\* The calendar has the months the code steps to.
ASSUME MonthsAssumption ==
  /\ \E m \in MonthStarts : m > LastDay
  /\ \A o \in Obligations : \E m \in MonthStarts : m > Terms[o].end_date
  /\ \A d \in 1..LastDay, h \in {Soon, Horizon} : \E m \in MonthStarts :
       m >= month_start(d) /\ months_between(month_start(d), m) = h

VARIABLES
  created,  \* obligations that exist
  pending,  \* units of each obligation with recognized_at NULL
  already,  \* SUM and MAX of each obligation's recognition events
  closed,   \* the latest completed run's through date
  today,    \* date.today()
  due,      \* today's 01:00 job has not run yet
  reports,  \* usage events so far
  misses    \* jobs that did not run or failed, so far

revenue == <<pending, already, closed>>
vars == <<created, pending, already, closed, today, due, reports, misses>>

-----------------------------------------------------------------------------
loaded_NotEnded(d) ==  \* mutant: leaves out obligations past their end
  {o \in created : /\ Terms[o].start_date <= d
                   /\ Terms[o].end_date = NoDate \/ Terms[o].end_date >= d}
loaded(d) == {o \in created : Terms[o].start_date <= d}

run_recognition(d) ==
  IF closed >= d THEN UNCHANGED revenue
  ELSE /\ closed' = d
       /\ already' = [o \in Obligations |->
            LET delta == compute_recognition(Terms[o], already[o].cents, already[o].through,
                                             d, pending[o])
            IN  IF o \notin loaded(d) THEN already[o]
                ELSE [cents   |-> already[o].cents + delta.recognized_cents,
                      through |-> Larger(already[o].through, delta.recognized_through)]]
       /\ pending' = [o \in Obligations |-> IF o \in loaded(d) THEN 0 ELSE pending[o]]

Init ==
  /\ created = {}
  /\ pending = [o \in Obligations |-> 0]
  /\ already = [o \in Obligations |-> [cents |-> 0, through |-> NoDate]]
  /\ closed = NoDate
  /\ today = 1
  /\ due = FALSE
  /\ reports = 0
  /\ misses = 0

CreateObligation(o) ==
  /\ o \notin created
  /\ created' = created \cup {o}
  /\ UNCHANGED <<revenue, today, due, reports, misses>>

PostUsage(o, n) ==
  /\ o \in created
  /\ Terms[o].pattern \in UsagePatterns
  /\ reports < MaxReports
  /\ reports' = reports + 1
  /\ pending' = [pending EXCEPT ![o] = @ + n]
  /\ UNCHANGED <<created, already, closed, today, due, misses>>

\* POST /revrec/run: any date, past or future.
TriggerRun(d) ==
  /\ d > closed
  /\ run_recognition(d)
  /\ UNCHANGED <<created, today, due, reports, misses>>

NewDay ==
  /\ ~ due
  /\ today < LastDay
  /\ today' = today + 1
  /\ due' = TRUE
  /\ UNCHANGED <<created, revenue, reports, misses>>

\* The cron job.
RunForYesterday_Tomorrow ==  \* mutant: adds the timedelta
  /\ due
  /\ run_recognition(today + 1)
  /\ due' = FALSE
  /\ UNCHANGED <<created, today, reports, misses>>
RunForYesterday ==
  /\ due
  /\ run_recognition(today - 1)
  /\ due' = FALSE
  /\ UNCHANGED <<created, today, reports, misses>>

\* The process is down at 01:00, or run_recognition raises: nothing retries it.
MissRun ==
  /\ due
  /\ misses < MaxMisses
  /\ misses' = misses + 1
  /\ due' = FALSE
  /\ UNCHANGED <<created, revenue, today, reports>>

\* The bounded calendar is over.
End ==
  /\ today = LastDay /\ ~ due
  /\ UNCHANGED vars

Next ==
  \/ \E o \in Obligations : CreateObligation(o)
  \/ \E o \in Obligations, n \in UnitSizes : PostUsage(o, n)
  \/ \E d \in RunDates : TriggerRun(d)
  \/ NewDay
  \/ RunForYesterday
  \/ MissRun
  \/ End

Spec == Init /\ [][Next]_vars

\* Days pass, and a day's job runs or is missed before the next day's.
FairSpec == Spec /\ WF_vars(NewDay) /\ WF_vars(RunForYesterday \/ MissRun)

-----------------------------------------------------------------------------
(* GET /revrec/waterfall *)

projection(o) ==
  project_obligation_by_month(Terms[o], already[o].cents, already[o].through, today,
                              horizon_end(today, Horizon))
agg == Aggregate([o \in created |-> projection(o)])

-----------------------------------------------------------------------------
(* Properties *)

\* Every table holds values of its columns' types, and nothing below zero.
TypeOK ==
  /\ created \subseteq Obligations
  /\ pending \in [Obligations -> Nat]
  /\ already \in [Obligations -> [cents : Nat, through : 0..LastDay \cup {NoDate}]]
  /\ closed \in 0..LastDay \cup {NoDate}
  /\ today \in 1..LastDay
  /\ due \in BOOLEAN
  /\ reports \in 0..MaxReports
  /\ misses \in 0..MaxMisses

\* Days missed by the scheduler, obligations entered after their start and runs
\* for a date ahead delay revenue but lose none: a price by date is earned in
\* full, and usage that is reported is recognized.  (LastDay is later than every
\* end date and requested date by more than the days that can be missed.)
in_time == today < LastDay - MaxMisses
EverythingIsEarned ==
  \A o \in Obligations :
    /\ Terms[o].pattern \notin UsagePatterns =>
         (o \in created /\ in_time ~> already[o].cents = Terms[o].total_amount_cents)
    /\ Terms[o].pattern \in UsagePatterns =>
         (pending[o] > 0 /\ in_time ~> pending[o] = 0)

\* Recognition has reached the day before today, or the obligation starts later.  It
\* has not stopped at the end date: until the run after it the rounding remainder is
\* neither recognized nor in any month.
up_to_date(o) ==
  Terms[o].pattern = "ratable_daily" =>
    \/ already[o].cents = Terms[o].total_amount_cents
    \/ /\ already[o].through < Terms[o].end_date
       /\ Terms[o].start_date >= today \/ already[o].through >= today - 1

\* The projection comes true: what it has up to the end of a month is what
\* run_recognition, asked through that day, would recognize of the obligation; the
\* rounding remainder counts with the last month.
ProjectionComesTrue ==
  \A o \in {x \in created : Terms[x].pattern \notin UsagePatterns /\ up_to_date(x)} :
    \A m \in {x \in MonthStarts : x >= month_start(today) /\ x <= LastDay
                                  /\ x < horizon_end(today, Horizon)} :
      LET p     == projection(o)
          shown == {k \in DOMAIN p \ {BEYOND_KEY} : k <= m}
          last  == next_month(m) - 1
          d     == IF Terms[o].pattern = "ratable_daily" /\ last >= Terms[o].end_date
                   THEN last + 1 ELSE last
      IN  Total(p, shown) =
            compute_recognition(Terms[o], already[o].cents, already[o].through, d, 0)
              .recognized_cents

\* The waterfall's total is the backlog: the price of every obligation with one,
\* less what it has recognized, whatever month or bucket it is shown in.  The figures
\* above the table have all of it, and the first has what is projected for the next
\* months of the calendar, and more only if one of them has no projection.
BacklogTies ==
  LET shown   == agg
      priced  == {o \in created : Terms[o].pattern # "consumption_payg"}
      figures == summary(shown, Soon, Horizon)
      near    == {k \in DOMAIN shown \ {BEYOND_KEY} : k < horizon_end(today, Soon)}
  IN  /\ (\A o \in priced : up_to_date(o)) =>
           total_cents(shown) =
             Total([o \in priced |-> Terms[o].total_amount_cents - already[o].cents], priced)
      /\ total_cents(shown) = figures.n3 + figures.n12 + figures.beyond
      /\ figures.n3 >= Total(shown, near)
      /\ Cardinality(near) = Soon => figures.n3 = Total(shown, near)
=============================================================================
