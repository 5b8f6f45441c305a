------------------------------ MODULE Waterfall ------------------------------
(***************************************************************************)
(* The projection of unrecognized revenue by month, revrec/waterfall.py,   *)
(* and the totals GET /revrec/waterfall makes of it.  A projection is a    *)
(* function whose domain is the set of its keys, as the code's dict is.    *)
(***************************************************************************)
EXTENDS Compute, Sums

CONSTANT MonthStarts  \* first days of the months the calendar has

ASSUME CalendarAssumption == MonthStarts \subseteq Nat /\ 0 \in MonthStarts

BEYOND_KEY == -1
Larger(a, b) == IF a < b THEN b ELSE a

month_start(d) == CHOOSE m \in MonthStarts :
                    m <= d /\ \A n \in MonthStarts : n <= d => n <= m
next_month(d) == CHOOSE m \in MonthStarts :
                   m > d /\ \A n \in MonthStarts : n > d => m <= n
months_between(m, n) == Cardinality({k \in MonthStarts : m < k /\ k <= n})

\* First day of the month horizon_months after today's.
horizon_end(today, horizon_months) ==
  CHOOSE m \in MonthStarts :
    /\ m >= month_start(today)
    /\ months_between(month_start(today), m) = horizon_months

NoProjection == [k \in {} |-> 0]
OneBucket(k, cents) == [x \in {k} |-> cents]

\* Amounts by month, those from the horizon on in one bucket.
Bucketed(amount, horizon) ==
  LET bucket(m) == IF m >= horizon THEN BEYOND_KEY ELSE m
  IN  [k \in {bucket(m) : m \in DOMAIN amount} |->
         Total(amount, {m \in DOMAIN amount : bucket(m) = k})]

\* The first day that is still to be recognized.
first_day_Through(o, already_through, today) ==  \* mutant: no "+ timedelta(days=1)"
  Larger(Larger(o.start_date, today), already_through)
first_day(o, already_through, today) ==
  Larger(Larger(o.start_date, today), already_through + 1)

project_ratable_NoRemainder(o, already_cents, already_through, today, horizon) ==
  \* mutant: forgets the remainder
  LET cur     == first_day(o, already_through, today)
      months  == {m \in MonthStarts : month_start(cur) <= m /\ m <= o.end_date}
      last(m) == Smaller(o.end_date, next_month(m) - 1)
      amount  == [m \in months |-> daily_cents(o) * (last(m) - Larger(m, cur) + 1)]
  IN  IF cur > o.end_date THEN NoProjection ELSE Bucketed(amount, horizon)
project_ratable(o, already_cents, already_through, today, horizon) ==
  LET cur       == first_day(o, already_through, today)
      months    == {m \in MonthStarts : month_start(cur) <= m /\ m <= o.end_date}
      first(m)  == Larger(m, cur)
      last(m)   == Smaller(o.end_date, next_month(m) - 1)
      remainder == o.total_amount_cents - daily_cents(o) * days_in_period(o)
      before(m) == already_cents + daily_cents(o) * (first(m) - cur)
      amount    == [m \in months |->
        LET cents == daily_cents(o) * (last(m) - first(m) + 1)
        IN  IF last(m) < o.end_date THEN cents
            ELSE Smaller(cents + remainder, o.total_amount_cents - before(m))]
  IN  IF cur > o.end_date THEN NoProjection ELSE Bucketed(amount, horizon)

project_obligation_by_month(o, already_cents, already_through, today, horizon) ==
  LET remaining  == o.total_amount_cents - already_cents
      recog_date == Larger(o.start_date, today)
  IN  CASE o.pattern = "consumption_payg" -> NoProjection
        [] o.pattern # "consumption_payg" /\ remaining <= 0 -> NoProjection
        [] o.pattern = "point_in_time" /\ remaining > 0 ->
             Bucketed(OneBucket(month_start(recog_date), remaining), horizon)
        [] o.pattern = "consumption" /\ remaining > 0 ->
             OneBucket(month_start(today), remaining)
        [] o.pattern = "ratable_daily" /\ remaining > 0 ->
             project_ratable(o, already_cents, already_through, today, horizon)

\* The route's agg, of projections by obligation.
Aggregate(projection) ==
  LET keys(o) == DOMAIN projection[o]
  IN  [k \in UNION {keys(o) : o \in DOMAIN projection} |->
         LET having == {o \in DOMAIN projection : k \in keys(o)}
         IN  Total([o \in having |-> projection[o][k]], having)]

total_cents(agg) == Total(agg, DOMAIN agg)

\* The figures above the table: the first soon months that have a projection, the
\* ones after them up to the default of horizon_months, and the rest.
summary(agg, soon, horizon_months) ==
  LET months  == DOMAIN agg \ {BEYOND_KEY}
      rank(m) == Cardinality({n \in months : n < m})
  IN  [n3     |-> Total(agg, {m \in months : rank(m) < soon}),
       n12    |-> Total(agg, {m \in months : soon <= rank(m) /\ rank(m) < horizon_months}),
       beyond |-> Total(agg, (DOMAIN agg \cap {BEYOND_KEY}) \cup
                               {m \in months : horizon_months <= rank(m)})]
=============================================================================
