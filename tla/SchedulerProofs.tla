--------------------------- MODULE SchedulerProofs ---------------------------
(***************************************************************************)
(* Theorems about recognition from day to day and the waterfall, for every *)
(* set of obligations and their terms, every calendar and every horizon:   *)
(* the projection comes true, and the waterfall shows the backlog.         *)
(***************************************************************************)
EXTENDS Scheduler, ArithmeticProofs

-----------------------------------------------------------------------------
(* The calendar *)

\* A set of natural numbers has a least one.
LEMMA LeastOf ==
  ASSUME NEW T, T \subseteq Nat, T # {}
  PROVE  \E x \in T : \A y \in T : x <= y
<1> DEFINE below == {0..x : x \in T}
<1>1. below \subseteq FiniteSubsetsOf(Nat) /\ below # {}
  <2>1. ASSUME NEW x \in T PROVE 0..x \in SUBSET Nat /\ IsFiniteSet(0..x)
    BY FS_Interval
  <2> QED
    BY <2>1 DEF FiniteSubsetsOf
<1>2. PICK b \in below : \A c \in below : ~ (<<c, b>> \in StrictSubsetOrdering(Nat))
  BY <1>1, FS_StrictSubsetOrderingWellFounded, WFMin, Zenon
<1>3. PICK x \in T : b = 0..x
  BY <1>2
<1>4. ASSUME NEW y \in T, y < x PROVE FALSE
  <2>1. 0..y \subseteq 0..x /\ x \in 0..x /\ x \notin 0..y
    BY <1>4
  <2>2. <<0..y, b>> \in StrictSubsetOrdering(Nat)
    BY <1>3, <2>1 DEF StrictSubsetOrdering
  <2> QED
    BY <1>2, <2>2
<1> QED
  BY <1>4

\* A bounded one has a greatest.
LEMMA GreatestOf ==
  ASSUME NEW T, T \subseteq Nat, T # {}, NEW z \in Nat, \A x \in T : x <= z
  PROVE  \E x \in T : \A y \in T : y <= x
<1> DEFINE R == {z - x : x \in T}
<1>1. R \subseteq Nat /\ R # {}
  <2>1. \A x \in T : z - x \in Nat
    OBVIOUS
  <2> QED
    BY <2>1
<1> HIDE DEF R
<1>2. PICK r \in R : \A s \in R : r <= s
  BY <1>1, LeastOf
<1>3. PICK x \in T : r = z - x
  BY DEF R
<1>4. ASSUME NEW y \in T PROVE y <= x
  <2>1. r <= z - y
    BY <1>2 DEF R
  <2> QED
    BY <1>3, <2>1
<1> QED
  BY <1>4

\* Every day is in a month.
LEMMA MonthStart ==
  ASSUME NEW d \in Nat
  PROVE  /\ month_start(d) \in MonthStarts /\ month_start(d) \in Nat
         /\ month_start(d) <= d
         /\ \A n \in MonthStarts : n <= d => n <= month_start(d)
<1> DEFINE T == {m \in MonthStarts : m <= d}
<1>1. T \subseteq Nat /\ 0 \in T /\ \A m \in T : m <= d
  <2>1. 0 <= d
    OBVIOUS
  <2> QED
    BY <2>1, CalendarAssumption
<1> HIDE DEF T
<1>2. \E m \in T : \A n \in T : n <= m
  BY <1>1, GreatestOf
<1>3. \E m \in MonthStarts : m <= d /\ \A n \in MonthStarts : n <= d => n <= m
  BY <1>2 DEF T
<1> QED
  BY <1>3, CalendarAssumption DEF month_start

\* The month after a day, where the calendar has one.
LEMMA NextMonth ==
  ASSUME NEW d \in Nat, \E m \in MonthStarts : m > d
  PROVE  /\ next_month(d) \in MonthStarts /\ next_month(d) \in Nat
         /\ next_month(d) > d
         /\ \A n \in MonthStarts : n > d => next_month(d) <= n
<1> DEFINE T == {m \in MonthStarts : m > d}
<1>1. T \subseteq Nat /\ T # {}
  BY CalendarAssumption
<1> HIDE DEF T
<1>2. \E m \in T : \A n \in T : m <= n
  BY <1>1, LeastOf
<1>3. \E m \in MonthStarts : m > d /\ \A n \in MonthStarts : n > d => m <= n
  BY <1>2 DEF T
<1> QED
  BY <1>3, CalendarAssumption DEF next_month

\* A day is in a month that has begun, or later than it, when the month after it has
\* not begun.
LEMMA InMonth ==
  ASSUME NEW d \in Nat, NEW m \in MonthStarts, \E n \in MonthStarts : n > m
  PROVE  month_start(d) <= m <=> d < next_month(m)
<1>1. m \in Nat
  BY CalendarAssumption
<1> QED
  BY <1>1, MonthStart, NextMonth

\* The month the horizon begins with.
LEMMA HorizonEnd ==
  ASSUME NEW d \in 1..LastDay, NEW h \in {Soon, Horizon}
  PROVE  /\ horizon_end(d, h) \in MonthStarts /\ horizon_end(d, h) \in Nat
         /\ horizon_end(d, h) >= month_start(d)
         /\ months_between(month_start(d), horizon_end(d, h)) = h
<1>1. \E m \in MonthStarts :
        m >= month_start(d) /\ months_between(month_start(d), m) = h
  BY MonthsAssumption
<1> QED
  BY <1>1, CalendarAssumption DEF horizon_end

\* Months up to a day are finitely many.
LEMMA MonthsFinite ==
  ASSUME NEW S, S \subseteq MonthStarts, NEW z \in Nat, \A m \in S : m <= z
  PROVE  IsFiniteSet(S)
<1>1. IsFiniteSet(0..z)
  BY FS_Interval
<1>2. S \subseteq 0..z
  BY CalendarAssumption
<1> QED
  BY <1>1, <1>2, FS_Subset

\* The months from a to m.
months_from(a, m) == {k \in MonthStarts : a <= k /\ k <= m}

\* Every month from a to day z has what is F at the beginning of the next month less
\* F at its own.
adds_up(amount, F, a, z) ==
  \A k \in MonthStarts : a <= k /\ k <= z =>
    /\ F[k] \in Nat /\ F[next_month(k)] \in Nat /\ amount[k] \in Nat
    /\ amount[k] = F[next_month(k)] - F[k]

\* Such months have together what is F at the end of the last less F at the first.
LEMMA Telescope ==
  ASSUME NEW a \in MonthStarts, NEW z \in Nat, \E n \in MonthStarts : n > z,
         NEW amount, NEW F, adds_up(amount, F, a, z),
         NEW m \in MonthStarts, a <= m, m <= z
  PROVE  Total(amount, months_from(a, m)) = F[next_month(m)] - F[a]
<1> DEFINE upto(x) == {k \in MonthStarts : a <= k /\ k <= x}
           Ties(x) == Total(amount, upto(x)) = F[next_month(x)] - F[a]
           Bad == {x \in MonthStarts : a <= x /\ x <= z /\ ~ Ties(x)}
<1>1. MonthStarts \subseteq Nat /\ a \in Nat
  BY CalendarAssumption
<1>0. \A k \in MonthStarts : a <= k /\ k <= z =>
        /\ F[k] \in Nat /\ F[next_month(k)] \in Nat /\ amount[k] \in Nat
        /\ amount[k] = F[next_month(k)] - F[k]
  BY DEF adds_up
<1>2. Ties(a)
  <2>1. \A k \in MonthStarts : a <= k /\ k <= a <=> k = a
    BY <1>1
  <2>2. upto(a) = {a}
    BY <2>1
  <2>3. amount[a] = F[next_month(a)] - F[a] /\ amount[a] \in Nat
    BY <1>0, <1>1
  <2> HIDE DEF upto
  <2> QED
    BY <2>2, <2>3, TotalSingleton
<1>3. ASSUME NEW x \in Bad, \A y \in Bad : x <= y PROVE FALSE
  <2>1a. x \in MonthStarts /\ a <= x /\ x <= z /\ ~ Ties(x)
    BY <1>3
  <2>1b. x # a
    BY <1>2, <2>1a
  <2>1. x \in Nat /\ a < x /\ x <= z
    BY <1>1, <2>1a, <2>1b
  <2> DEFINE p == month_start(x - 1)
  <2>2. x - 1 \in Nat /\ x - 1 < x /\ a <= x - 1
    BY <1>1, <2>1
  <2>3. /\ p \in MonthStarts /\ p \in Nat /\ a <= p /\ p < x
        /\ \A n \in MonthStarts : n < x => n <= p
    BY <1>1, <2>1, <2>2, MonthStart
  <2> HIDE DEF p
  <2>4. next_month(p) = x
    <3>1. \E n \in MonthStarts : n > p
      BY <2>3
    <3>2. next_month(p) \in Nat /\ next_month(p) > p /\ next_month(p) <= x
          /\ next_month(p) \in MonthStarts
      BY <2>1, <2>3, <3>1, NextMonth
    <3> QED
      BY <2>1, <2>3, <3>2
  <2>5. p <= z /\ p \notin Bad
    BY <1>3, <2>1, <2>3
  <2>6. Total(amount, upto(p)) = F[x] - F[a]
    BY <2>3, <2>4, <2>5
  <2>7. upto(x) = upto(p) \cup {x} /\ upto(p) \cap {x} = {}
    <3>1. \A k \in MonthStarts : k <= x <=> k <= p \/ k = x
      BY <1>1, <2>1, <2>3
    <3>2. x \in MonthStarts /\ a <= x /\ ~ (x <= p)
      BY <2>1, <2>1a, <2>3
    <3> QED
      BY <3>1, <3>2
  <2>8. IsFiniteSet(upto(p)) /\ IsFiniteSet({x})
    BY <2>3, MonthsFinite, FS_Singleton
  <2>9. \A k \in upto(p) \cup {x} : amount[k] \in Nat
    BY <1>0, <1>1, <2>1, <2>3
  <2>10. /\ F[x] \in Nat /\ F[next_month(x)] \in Nat /\ F[a] \in Nat
         /\ amount[x] \in Nat /\ amount[x] = F[next_month(x)] - F[x]
    BY <1>0, <1>1, <2>1
  <2>11. ~ Ties(x)
    BY <1>3
  <2> HIDE DEF upto, Bad
  <2>12. Total(amount, upto(x)) = Total(amount, upto(p)) + Total(amount, {x})
    BY <2>7, <2>8, <2>9, TotalSplit
  <2>13. Total(amount, {x}) = amount[x]
    BY <2>10, TotalSingleton
  <2> QED
    BY <2>6, <2>10, <2>11, <2>12, <2>13
<1>4. Bad \subseteq Nat
  BY <1>1
<1> HIDE DEF Bad
<1>5. Bad = {}
  BY <1>3, <1>4, LeastOf
<1> QED
  BY <1>5 DEF Bad, months_from

-----------------------------------------------------------------------------
(* Projections *)

\* The months up to m that a projection has.
shown_by(p, m) == {k \in DOMAIN p \ {BEYOND_KEY} : k <= m}

\* Buckets: a month before the horizon keeps its amount, and all of them together have
\* what the months have.
LEMMA BucketedAmounts ==
  ASSUME NEW amount, IsFiniteSet(DOMAIN amount), DOMAIN amount \subseteq Nat,
         \A m \in DOMAIN amount : amount[m] \in Nat, NEW horizon \in Nat,
         NEW p, p = Bucketed(amount, horizon)
  PROVE  /\ IsFiniteSet(DOMAIN p)
         /\ \A k : k \in DOMAIN p /\ k # BEYOND_KEY <=> k \in DOMAIN amount /\ k < horizon
         /\ \A k \in DOMAIN p : p[k] \in Nat
         /\ Total(p, DOMAIN p) = Total(amount, DOMAIN amount)
         /\ \A m \in Nat : m < horizon =>
              Total(p, shown_by(p, m)) = Total(amount, shown_by(amount, m))
<1> DEFINE D == DOMAIN amount
           bucket(m) == IF m >= horizon THEN BEYOND_KEY ELSE m
           h == [m \in D |-> bucket(m)]
           T == {bucket(m) : m \in D}
<1>1. DOMAIN p = T /\ \A k \in T : p[k] = Total(amount, {m \in D : bucket(m) = k})
  BY DEF Bucketed
<1>2. IsFiniteSet(T)
  <2>1. h \in Surjection(D, T)
    BY DEF Surjection
  <2> QED
    BY <2>1, FS_Surjection
<1>3. \A k \in T : p[k] = Total(amount, rows_with(D, h, k))
  <2>1. ASSUME NEW k \in T
        PROVE  rows_with(D, h, k) = {m \in D : bucket(m) = k}
    BY DEF rows_with
  <2> QED
    BY <1>1, <2>1
<1>4. \A m \in D : h[m] \in T
  OBVIOUS
<1>5. \A k : k \in T /\ k # BEYOND_KEY <=> k \in D /\ k < horizon
  BY DEF BEYOND_KEY
<1>6. ASSUME NEW m \in D, m < horizon
      PROVE  p[m] = amount[m]
  <2>1. {x \in D : bucket(x) = m} = {m}
    BY <1>6 DEF BEYOND_KEY
  <2>2. m \in T
    BY <1>5, <1>6
  <2> HIDE DEF T, bucket
  <2>3. p[m] = Total(amount, {m})
    BY <1>1, <2>1, <2>2
  <2> QED
    BY <2>3, TotalSingleton
<1> HIDE DEF T, h, bucket
<1>7. (\A k \in T : p[k] \in Nat) /\ Total(p, T) = Total(amount, D)
  <2>1. sums_groups(p, T, amount, D, h)
    BY <1>2, <1>3, <1>4 DEF sums_groups
  <2> QED
    BY <2>1, TotalGrouped
<1>8. ASSUME NEW m \in Nat, m < horizon
      PROVE  Total(p, shown_by(p, m)) = Total(amount, shown_by(amount, m))
  <2> DEFINE S == shown_by(amount, m)
  <2>1. \A k \in D : k # BEYOND_KEY
    BY DEF BEYOND_KEY
  <2>2. \A k \in D : k <= m => k < horizon
    BY <1>8
  <2>3. shown_by(p, m) = S
    BY <1>1, <1>5, <2>1, <2>2 DEF shown_by
  <2>4. \A k \in S : p[k] = amount[k]
    BY <1>6, <2>2 DEF shown_by
  <2> HIDE DEF S
  <2>5. Total(p, S) = Total(amount, S)
    BY <2>4, TotalEqual
  <2> QED
    BY <2>3, <2>5 DEF S
<1> QED
  BY <1>1, <1>2, <1>5, <1>7, <1>8

\* The months of project_ratable and what each has.
month_amounts(o, already_cents, already_through, d) ==
  LET cur       == first_day(o, already_through, d)
      first(m)  == Larger(m, cur)
      last(m)   == Smaller(o.end_date, next_month(m) - 1)
      remainder == o.total_amount_cents - daily_cents(o) * days_in_period(o)
      before(m) == already_cents + daily_cents(o) * (first(m) - cur)
  IN  [m \in {m \in MonthStarts : month_start(cur) <= m /\ m <= o.end_date} |->
        LET cents == daily_cents(o) * (last(m) - first(m) + 1)
        IN  IF last(m) < o.end_date THEN cents
            ELSE Smaller(cents + remainder, o.total_amount_cents - before(m))]

\* What an obligation has to have earned before day x, of the days from cur on.
earned_before(o, cur, x) ==
  IF x > o.end_date THEN o.total_amount_cents
  ELSE daily_cents(o) * (Larger(x, cur) - o.start_date)

\* On schedule, an obligation has earned at most a rate for every day before the first
\* one that is still to be recognized.
LEMMA EarnedByFirstDay ==
  ASSUME NEW o, WellFormed(o), o.pattern = "ratable_daily",
         NEW c \in Nat, NEW t \in Nat \cup {NoDate}, Earning(o, c, t), NEW d \in Nat,
         first_day(o, t, d) <= o.end_date
  PROVE  LET cur == first_day(o, t, d)
         IN  /\ cur \in Nat /\ cur >= o.start_date /\ cur >= d /\ cur > t
             /\ daily_cents(o) * (cur - o.start_date) \in Nat
             /\ c <= daily_cents(o) * (cur - o.start_date)
<1> DEFINE cur == first_day(o, t, d)
           q == daily_cents(o)
           n == IF t = NoDate THEN 0 ELSE t - o.start_date + 1
<1>1. /\ o.start_date \in Nat /\ o.end_date \in Nat /\ o.start_date <= o.end_date
      /\ o.total_amount_cents \in Nat /\ q \in Nat
  BY DailyRate
<1>2. /\ cur \in Nat /\ cur >= o.start_date /\ cur >= d /\ cur > t
      /\ cur <= o.end_date
  BY <1>1 DEF first_day, Larger, NoDate
<1>3. n \in Nat /\ n <= cur - o.start_date /\ c = q * n
  BY <1>1, <1>2 DEF Earning, NoDate
<1> HIDE DEF cur, q, n
<1>4. \A k, j \in Nat : j <= k => q * j <= q * k /\ q * k \in Nat
  BY <1>1
<1>5. cur - o.start_date \in Nat
  BY <1>1, <1>2
<1> QED
  BY <1>2, <1>3, <1>4, <1>5 DEF cur, q

\* A month's amount is what is earned from its beginning, or the first day, to its end.
LEMMA MonthAmount ==
  ASSUME NEW o, WellFormed(o), o.pattern = "ratable_daily",
         NEW c \in Nat, NEW t \in Nat \cup {NoDate}, Earning(o, c, t), NEW d \in Nat,
         first_day(o, t, d) <= o.end_date, \E n \in MonthStarts : n > o.end_date,
         NEW m \in MonthStarts, month_start(first_day(o, t, d)) <= m, m <= o.end_date
  PROVE  LET cur  == first_day(o, t, d)
             from == earned_before(o, cur, m)
             to   == earned_before(o, cur, next_month(m))
             cents == month_amounts(o, c, t, d)[m]
         IN  from \in Nat /\ to \in Nat /\ cents \in Nat /\ cents = to - from
<1> DEFINE cur == first_day(o, t, d)
           q == daily_cents(o)
           s == o.start_date
           e == o.end_date
           total == o.total_amount_cents
           next == next_month(m)
           first == Larger(m, cur)
           last == Smaller(e, next - 1)
           N == days_in_period(o)
           cents == q * (last - first + 1)
           capped == Smaller(cents + (total - q * N), total - (c + q * (first - cur)))
           amount == IF last < e THEN cents ELSE capped
<1>1. /\ s \in Nat /\ e \in Nat /\ s <= e /\ total \in Nat /\ q \in Nat
      /\ \A n \in Nat : n <= N => q * n \in Nat /\ q * n <= total
      /\ N = e - s + 1
  BY DailyRate DEF days_in_period
<1>2. /\ cur \in Nat /\ cur >= s /\ cur <= e
      /\ q * (cur - s) \in Nat /\ c <= q * (cur - s)
  BY EarnedByFirstDay
<1>3. m \in Nat /\ next \in Nat /\ next > m /\ cur < next
  <2>1. m \in Nat /\ \E n \in MonthStarts : n > m
    BY <1>1, CalendarAssumption
  <2>2. cur < next
    BY <1>2, <2>1, InMonth
  <2> QED
    BY <2>1, <2>2, NextMonth
<1>4. month_amounts(o, c, t, d)[m] = amount
  BY DEF month_amounts
<1>5. first \in Nat /\ first >= cur /\ first >= m /\ first <= e /\ first < next
  BY <1>1, <1>2, <1>3 DEF Larger
<1>6. Larger(next, cur) = next
  BY <1>2, <1>3 DEF Larger
<1>7. earned_before(o, cur, m) = q * (first - s)
  BY <1>1, <1>3 DEF earned_before
<1>8. earned_before(o, cur, next) = IF next > e THEN total ELSE q * (next - s)
  BY <1>6 DEF earned_before
<1>9. q * (first - s) \in Nat /\ q * (first - s) <= total
  <2>1. first - s \in Nat /\ first - s <= N
    BY <1>1, <1>2, <1>5
  <2> QED
    BY <1>1, <2>1
<1>10. last = IF next > e THEN e ELSE next - 1
  BY <1>1, <1>3 DEF Smaller
<1> HIDE DEF cur, q, s, e, total, next, first, last, N
<1>11. \A a, b \in Int : q * a + q * b = q * (a + b)
  BY <1>1
<1>12. CASE next <= e
  <2>1. amount = q * (next - first)
    BY <1>1, <1>3, <1>5, <1>10, <1>12
  <2>2. q * (first - s) + q * (next - first) = q * (next - s)
    <3>1. first - s \in Int /\ next - first \in Int
          /\ (first - s) + (next - first) = next - s
      BY <1>1, <1>3, <1>5
    <3> QED
      BY <1>11, <3>1
  <2>3. next - first \in Nat
    BY <1>3, <1>5
  <2>4. q * (next - first) \in Nat
    BY <1>1, <2>3
  <2> HIDE DEF amount
  <2>5. amount \in Nat /\ q * (next - s) = q * (first - s) + amount
    BY <2>1, <2>2, <2>4
  <2>6. earned_before(o, cur, next) = q * (next - s)
    BY <1>1, <1>3, <1>8, <1>12
  <2> QED
    BY <1>4, <1>7, <1>9, <2>5, <2>6 DEF cur, next
<1>13. CASE next > e
  <2>1. amount = capped /\ last = e
    BY <1>1, <1>10, <1>13
  <2>2. cents + (total - q * N) = total - q * (first - s)
    <3>1. cents = q * (e - first + 1)
      BY <2>1
    <3>2. e - first + 1 \in Int /\ first - s \in Int /\ (first - s) + (e - first + 1) = N
      BY <1>1, <1>5
    <3>3. q * (first - s) + q * (e - first + 1) = q * N
      BY <1>11, <3>2
    <3>4. q * (e - first + 1) \in Int /\ q * N \in Int
      BY <1>1, <3>2
    <3> HIDE DEF cents
    <3> QED
      BY <1>1, <1>9, <3>1, <3>3, <3>4
  <2>3. total - (c + q * (first - cur)) >= total - q * (first - s)
    <3>1. first - cur \in Int /\ cur - s \in Int /\ (cur - s) + (first - cur) = first - s
      BY <1>1, <1>2, <1>5
    <3>2. q * (cur - s) + q * (first - cur) = q * (first - s) /\ q * (first - cur) \in Int
      BY <1>1, <1>11, <3>1
    <3> QED
      BY <1>1, <1>2, <1>9, <3>2
  <2>4. q * (first - cur) \in Int
    BY <1>1, <1>2, <1>5
  <2> HIDE DEF cents
  <2>5. capped = total - q * (first - s)
    BY <1>1, <1>9, <2>2, <2>3, <2>4 DEF Smaller
  <2>6. earned_before(o, cur, next) = total
    BY <1>8, <1>13
  <2> HIDE DEF capped, amount
  <2> QED
    BY <1>1, <1>4, <1>7, <1>9, <2>1, <2>5, <2>6 DEF cur, next
<1> QED
  BY <1>1, <1>3, <1>12, <1>13

\* Months up to m have what is earned by its end, less what was by the first day.
LEMMA RatableMonths ==
  ASSUME NEW o, WellFormed(o), o.pattern = "ratable_daily",
         NEW c \in Nat, NEW t \in Nat \cup {NoDate}, Earning(o, c, t), NEW d \in Nat,
         NEW cur, cur = first_day(o, t, d), cur <= o.end_date,
         \E n \in MonthStarts : n > o.end_date,
         NEW amount, amount = month_amounts(o, c, t, d)
  PROVE  /\ IsFiniteSet(DOMAIN amount) /\ DOMAIN amount \subseteq Nat
         /\ \A m : m \in DOMAIN amount <=>
              m \in MonthStarts /\ month_start(cur) <= m /\ m <= o.end_date
         /\ \A m \in DOMAIN amount : amount[m] \in Nat
         /\ \A m \in DOMAIN amount :
              Total(amount, shown_by(amount, m)) =
                earned_before(o, cur, next_month(m)) - daily_cents(o) * (cur - o.start_date)
         /\ Total(amount, DOMAIN amount) =
              o.total_amount_cents - daily_cents(o) * (cur - o.start_date)
<1> DEFINE
           e == o.end_date
           a == month_start(cur)
           D == {m \in MonthStarts : a <= m /\ m <= e}
           done == daily_cents(o) * (cur - o.start_date)
           F == [x \in Nat |-> earned_before(o, cur, x)]
<1>1. e \in Nat /\ o.start_date \in Nat
  BY DailyRate
<1>2. cur \in Nat /\ cur >= o.start_date /\ cur <= e
  BY EarnedByFirstDay
<1>3. a \in MonthStarts /\ a \in Nat /\ a <= cur
  BY <1>2, MonthStart
<1>4. DOMAIN amount = D
  BY DEF month_amounts
<1>5. IsFiniteSet(D) /\ D \subseteq Nat
  BY <1>1, MonthsFinite, CalendarAssumption
<1>6. ASSUME NEW m \in MonthStarts, a <= m, m <= e
      PROVE  /\ next_month(m) \in Nat /\ next_month(m) > m /\ m \in Nat
             /\ F[m] \in Nat /\ F[next_month(m)] \in Nat /\ amount[m] \in Nat
             /\ amount[m] = F[next_month(m)] - F[m]
  <2>1. m \in Nat /\ \E n \in MonthStarts : n > m
    BY <1>1, <1>6, CalendarAssumption
  <2>2. next_month(m) \in Nat /\ next_month(m) > m
    BY <2>1, NextMonth
  <2>3. /\ earned_before(o, cur, m) \in Nat /\ earned_before(o, cur, next_month(m)) \in Nat
        /\ amount[m] \in Nat
        /\ amount[m] = earned_before(o, cur, next_month(m)) - earned_before(o, cur, m)
    BY <1>6, MonthAmount
  <2> QED
    BY <2>1, <2>2, <2>3
<1>7. F[a] = done
  <2>1. ~ (a > e) /\ Larger(a, cur) = cur
    BY <1>1, <1>2, <1>3 DEF Larger
  <2> QED
    BY <1>3, <2>1 DEF earned_before
<1> HIDE DEF a, done
<1>8. ASSUME NEW m \in MonthStarts, a <= m, m <= e
      PROVE  Total(amount, shown_by(amount, m)) = F[next_month(m)] - done
  <2>0. adds_up(amount, F, a, e)
    BY <1>6 DEF adds_up
  <2> HIDE DEF F
  <2>1. shown_by(amount, m) = months_from(a, m)
    <3>1. \A k \in MonthStarts : k <= m => k <= e
      BY <1>1, <1>8, CalendarAssumption
    <3>2. \A k \in MonthStarts : k # BEYOND_KEY
      BY CalendarAssumption DEF BEYOND_KEY
    <3> QED
      BY <1>4, <3>1, <3>2 DEF months_from, shown_by
  <2>2. \E n \in MonthStarts : n > e
    OBVIOUS
  <2> HIDE DEF D, e
  <2>3. Total(amount, months_from(a, m)) = F[next_month(m)] - F[a]
    <3>1. a \in MonthStarts
      BY <1>3
    <3>2. e \in Nat
      BY <1>1
    <3>3. a <= m /\ m <= e
      BY <1>8
    <3>4. adds_up(amount, F, a, e)
      BY <2>0
    <3>5. \E n \in MonthStarts : n > e
      BY <2>2
    <3> QED
      BY <3>1, <3>2, <3>3, <3>4, <3>5, Telescope
  <2> QED
    BY <1>7, <2>1, <2>3
<1>9. Total(amount, D) = o.total_amount_cents - done
  <2> DEFINE m == month_start(e)
  <2>1. m \in MonthStarts /\ m \in Nat /\ m <= e /\ a <= m /\ \A n \in MonthStarts : n <= e => n <= m
    BY <1>1, <1>2, <1>3, MonthStart
  <2>2. next_month(m) > e /\ next_month(m) \in Nat
    BY <1>1, <2>1, InMonth, NextMonth
  <2> HIDE DEF m
  <2>3. shown_by(amount, m) = D
    <3>1. \A k \in D : k <= m /\ k # BEYOND_KEY
      BY <2>1, CalendarAssumption DEF BEYOND_KEY
    <3> QED
      BY <1>4, <3>1 DEF shown_by
  <2>4. Total(amount, D) = F[next_month(m)] - done
    BY <1>8, <2>1, <2>3
  <2>5. F[next_month(m)] = o.total_amount_cents
    BY <2>2 DEF earned_before
  <2> QED
    BY <2>4, <2>5
<1>10. \A m \in D :
         Total(amount, shown_by(amount, m)) = earned_before(o, cur, next_month(m)) - done
  BY <1>6, <1>8
<1>11. \A m \in D : amount[m] \in Nat
  BY <1>6
<1>12. \A m : m \in D <=> m \in MonthStarts /\ a <= m /\ m <= e
  OBVIOUS
<1> HIDE DEF F, D
<1> QED
  BY <1>4, <1>5, <1>9, <1>10, <1>11, <1>12 DEF a, done

\* What a projection is, seen on day d: amounts of that month and later ones.
IsProjection(p, d) ==
  /\ IsFiniteSet(DOMAIN p) /\ DOMAIN p \subseteq MonthStarts \cup {BEYOND_KEY}
  /\ \A k \in DOMAIN p : p[k] \in Nat /\ (k = BEYOND_KEY \/ k >= month_start(d))

\* project_obligation_by_month by pattern.
LEMMA ProjectionCases ==
  ASSUME NEW o, WellFormed(o), NEW c \in Nat, NEW t, NEW d, NEW h
  PROVE  LET p == project_obligation_by_month(o, c, t, d, h)
             remaining == o.total_amount_cents - c
         IN  /\ o.pattern = "consumption_payg" \/ c >= o.total_amount_cents => p = NoProjection
             /\ o.pattern = "point_in_time" /\ c < o.total_amount_cents =>
                  p = Bucketed(OneBucket(month_start(Larger(o.start_date, d)), remaining), h)
             /\ o.pattern = "consumption" /\ c < o.total_amount_cents =>
                  p = OneBucket(month_start(d), remaining)
             /\ o.pattern = "ratable_daily" /\ c < o.total_amount_cents =>
                  p = IF first_day(o, t, d) > o.end_date THEN NoProjection
                      ELSE Bucketed(month_amounts(o, c, t, d), h)
<1> DEFINE p == project_obligation_by_month(o, c, t, d, h)
           remaining == o.total_amount_cents - c
<1>1. o.total_amount_cents \in Nat
  BY DEF WellFormed
<1>2. (remaining <= 0 <=> c >= o.total_amount_cents) /\ (remaining > 0 <=> c < o.total_amount_cents)
  BY <1>1
<1>3. o.pattern \in {"ratable_daily", "point_in_time", "consumption", "consumption_payg"}
  BY DEF WellFormed, Patterns
<1> HIDE DEF remaining
<1>4. o.pattern = "consumption_payg" \/ remaining <= 0 => p = NoProjection
  BY <1>1, <1>2, <1>3 DEF project_obligation_by_month, remaining
<1>5. o.pattern = "point_in_time" /\ remaining > 0 =>
        p = Bucketed(OneBucket(month_start(Larger(o.start_date, d)), remaining), h)
  BY <1>1, <1>2 DEF project_obligation_by_month, remaining
<1>6. o.pattern = "consumption" /\ remaining > 0 => p = OneBucket(month_start(d), remaining)
  BY <1>1, <1>2 DEF project_obligation_by_month, remaining
<1>7. o.pattern = "ratable_daily" /\ remaining > 0 => p = project_ratable(o, c, t, d, h)
  BY <1>1, <1>2 DEF project_obligation_by_month, remaining
<1>8. project_ratable(o, c, t, d, h) =
        IF first_day(o, t, d) > o.end_date THEN NoProjection
        ELSE Bucketed(month_amounts(o, c, t, d), h)
  BY DEF project_ratable, month_amounts
<1> HIDE DEF p
<1> QED
  BY <1>2, <1>4, <1>5, <1>6, <1>7, <1>8 DEF p, remaining

\* One amount in one month.
LEMMA OneBucketAmount ==
  ASSUME NEW m \in Nat, NEW cents \in Nat, NEW b, b = OneBucket(m, cents)
  PROVE  /\ IsFiniteSet(DOMAIN b) /\ DOMAIN b = {m} /\ b[m] = cents
         /\ Total(b, DOMAIN b) = cents
         /\ \A n \in Nat : Total(b, shown_by(b, n)) = IF m <= n THEN cents ELSE 0
<1>1. DOMAIN b = {m} /\ b[m] = cents
  BY DEF OneBucket
<1>2. IsFiniteSet({m})
  BY FS_Singleton
<1>3. Total(b, {m}) = cents /\ Total(b, {}) = 0
  BY <1>1, TotalSingleton, TotalEmpty
<1>4. ASSUME NEW n \in Nat
      PROVE  Total(b, shown_by(b, n)) = IF m <= n THEN cents ELSE 0
  <2>1. shown_by(b, n) = IF m <= n THEN {m} ELSE {}
    BY <1>1 DEF shown_by, BEYOND_KEY
  <2> QED
    BY <1>3, <2>1
<1> QED
  BY <1>1, <1>2, <1>3, <1>4

\* A price in one month, in its bucket.
LEMMA OneBucketed ==
  ASSUME NEW m \in Nat, NEW cents \in Nat, NEW h \in Nat,
         NEW p, p = Bucketed(OneBucket(m, cents), h)
  PROVE  /\ IsFiniteSet(DOMAIN p) /\ \A k \in DOMAIN p : p[k] \in Nat /\ k \in {m, BEYOND_KEY}
         /\ Total(p, DOMAIN p) = cents
         /\ \A n \in Nat : n < h => Total(p, shown_by(p, n)) = IF m <= n THEN cents ELSE 0
<1> DEFINE b == OneBucket(m, cents)
<1>1. /\ IsFiniteSet(DOMAIN b) /\ DOMAIN b = {m} /\ b[m] = cents
      /\ Total(b, DOMAIN b) = cents
      /\ \A n \in Nat : Total(b, shown_by(b, n)) = IF m <= n THEN cents ELSE 0
  BY OneBucketAmount
<1> HIDE DEF b
<1>2. DOMAIN b \subseteq Nat /\ \A x \in DOMAIN b : b[x] \in Nat
  BY <1>1
<1>3. p = Bucketed(b, h)
  BY DEF b
<1>4. /\ IsFiniteSet(DOMAIN p)
      /\ \A k : k \in DOMAIN p /\ k # BEYOND_KEY <=> k \in DOMAIN b /\ k < h
      /\ \A k \in DOMAIN p : p[k] \in Nat
      /\ Total(p, DOMAIN p) = Total(b, DOMAIN b)
      /\ \A n \in Nat : n < h => Total(p, shown_by(p, n)) = Total(b, shown_by(b, n))
  BY <1>1, <1>2, <1>3, BucketedAmounts
<1> QED
  BY <1>1, <1>4

\* When recognition has reached yesterday, or the first day is to come, what has been
\* recognized is a rate for every day before the first one of the projection.
LEMMA UpToDate ==
  ASSUME NEW o, WellFormed(o), o.pattern = "ratable_daily",
         NEW c \in Nat, NEW t \in Nat \cup {NoDate}, Earning(o, c, t), NEW d \in Nat,
         t < o.end_date, o.start_date >= d \/ t >= d - 1
  PROVE  /\ first_day(o, t, d) = IF t < o.start_date THEN o.start_date ELSE t + 1
         /\ first_day(o, t, d) <= o.end_date
         /\ c = daily_cents(o) * (first_day(o, t, d) - o.start_date)
<1> DEFINE cur == first_day(o, t, d)
           q == daily_cents(o)
           s == o.start_date
<1>1. /\ s \in Nat /\ o.end_date \in Nat /\ s <= o.end_date /\ q \in Nat
  BY DailyRate
<1>2. t \in Int /\ (t < s => t = NoDate) /\ (t = NoDate => t < s)
  BY <1>1 DEF Earning, NoDate
<1>3. cur = IF t < s THEN s ELSE t + 1
  BY <1>1, <1>2 DEF first_day, Larger, NoDate
<1>4. cur <= o.end_date
  BY <1>1, <1>2, <1>3
<1>5. (IF t = NoDate THEN 0 ELSE t - s + 1) = cur - s
  BY <1>1, <1>2, <1>3
<1> HIDE DEF cur, q
<1>6. c = q * (cur - s)
  BY <1>5 DEF Earning, q
<1> QED
  BY <1>3, <1>4, <1>6 DEF cur, q

\* What may be recorded of an obligation: c cents up to day t.
Recorded(o, c, t) ==
  /\ WellFormed(o) /\ \E n \in MonthStarts : n > o.end_date
  /\ c \in Nat /\ t \in Nat \cup {NoDate}
  /\ o.pattern = "ratable_daily" => Earning(o, c, t)
  /\ o.pattern # "consumption_payg" => c <= o.total_amount_cents

\* Whatever has been recognized, a projection shows no negative amount and no month of
\* the past.
LEMMA ProjectionType ==
  ASSUME NEW o, NEW c, NEW t, Recorded(o, c, t), NEW d \in Nat, NEW h \in Nat
  PROVE  IsProjection(project_obligation_by_month(o, c, t, d, h), d)
<1>0. /\ WellFormed(o) /\ \E n \in MonthStarts : n > o.end_date
      /\ c \in Nat /\ t \in Nat \cup {NoDate}
      /\ o.pattern = "ratable_daily" => Earning(o, c, t)
  BY DEF Recorded
<1> USE <1>0
<1> DEFINE p == project_obligation_by_month(o, c, t, d, h)
           remaining == o.total_amount_cents - c
<1>1. o.total_amount_cents \in Nat /\ o.start_date \in Nat
      /\ o.pattern \in {"ratable_daily", "point_in_time", "consumption", "consumption_payg"}
  BY DEF WellFormed, Patterns
<1>2. ASSUME NEW x \in Nat, x >= d
      PROVE  /\ month_start(x) \in MonthStarts /\ month_start(x) \in Nat
             /\ month_start(x) >= month_start(d)
  BY <1>2, MonthStart
<1>3. CASE o.pattern = "consumption_payg" \/ c >= o.total_amount_cents
  <2>1. p = NoProjection
    BY <1>3, ProjectionCases
  <2>2. DOMAIN NoProjection = {}
    BY DEF NoProjection
  <2> HIDE DEF p
  <2> QED
    BY <2>1, <2>2, FS_EmptySet DEF IsProjection, p
<1>4. CASE o.pattern = "point_in_time" /\ c < o.total_amount_cents
  <2> DEFINE m == month_start(Larger(o.start_date, d))
  <2>1. p = Bucketed(OneBucket(m, remaining), h)
    BY <1>4, ProjectionCases
  <2>2. remaining \in Nat
    BY <1>1, <1>4
  <2>3. Larger(o.start_date, d) \in Nat /\ Larger(o.start_date, d) >= d
    BY <1>1 DEF Larger
  <2>4. m \in MonthStarts /\ m \in Nat /\ m >= month_start(d)
    BY <1>2, <2>3
  <2> HIDE DEF m, p, remaining
  <2>5. /\ IsFiniteSet(DOMAIN p) /\ \A k \in DOMAIN p : p[k] \in Nat
        /\ \A k \in DOMAIN p : k \in {m, BEYOND_KEY}
    BY <2>1, <2>2, <2>4, OneBucketed
  <2> QED
    BY <2>4, <2>5 DEF IsProjection, p
<1>5. CASE o.pattern = "consumption" /\ c < o.total_amount_cents
  <2> DEFINE m == month_start(d)
  <2>1. p = OneBucket(m, remaining)
    BY <1>5, ProjectionCases
  <2>2. remaining \in Nat
    BY <1>1, <1>5
  <2>3. m \in MonthStarts /\ m \in Nat
    BY MonthStart
  <2> HIDE DEF p, remaining
  <2>4. IsFiniteSet(DOMAIN p) /\ DOMAIN p = {m} /\ p[m] = remaining
    BY <2>1, <2>2, <2>3, OneBucketAmount
  <2> QED
    BY <2>2, <2>3, <2>4 DEF IsProjection, p
<1>6. CASE o.pattern = "ratable_daily" /\ c < o.total_amount_cents
  <2>1. p = IF first_day(o, t, d) > o.end_date THEN NoProjection
            ELSE Bucketed(month_amounts(o, c, t, d), h)
    BY <1>6, ProjectionCases
  <2>2. CASE first_day(o, t, d) > o.end_date
    <3>1. DOMAIN NoProjection = {}
      BY DEF NoProjection
    <3> HIDE DEF p
    <3> QED
      BY <2>1, <2>2, <3>1, FS_EmptySet DEF IsProjection, p
  <2>3. CASE ~ (first_day(o, t, d) > o.end_date)
    <3> DEFINE amount == month_amounts(o, c, t, d)
               cur == first_day(o, t, d)
    <3>1. cur \in Nat /\ cur <= o.end_date /\ cur >= d
      BY <1>1, <1>6, <2>3, DailyRate DEF first_day, Larger, NoDate
    <3>2. amount = month_amounts(o, c, t, d) /\ cur = first_day(o, t, d)
      OBVIOUS
    <3> HIDE DEF amount, cur, p
    <3>2a. /\ IsFiniteSet(DOMAIN amount) /\ DOMAIN amount \subseteq Nat
           /\ \A m : m \in DOMAIN amount <=>
                m \in MonthStarts /\ month_start(cur) <= m /\ m <= o.end_date
           /\ \A m \in DOMAIN amount : amount[m] \in Nat
      BY <1>6, <3>1, <3>2, RatableMonths
    <3>3. month_start(cur) >= month_start(d) /\ month_start(cur) \in Nat /\ month_start(d) \in Nat
      BY <1>2, <3>1, MonthStart
    <3>4. \A m \in DOMAIN amount : m \in MonthStarts /\ m >= month_start(d)
      BY <3>2a, <3>3, CalendarAssumption
    <3>5. p = Bucketed(amount, h)
      BY <2>1, <2>3 DEF amount
    <3>6. /\ IsFiniteSet(DOMAIN p)
          /\ \A k : k \in DOMAIN p /\ k # BEYOND_KEY <=> k \in DOMAIN amount /\ k < h
          /\ \A k \in DOMAIN p : p[k] \in Nat
      BY <3>2a, <3>5, BucketedAmounts
    <3> QED
      BY <3>4, <3>6 DEF IsProjection, p
  <2> QED
    BY <2>2, <2>3
<1> QED
  BY <1>1, <1>3, <1>4, <1>5, <1>6

\* up_to_date, of an obligation and what is recorded of it.
UpTo(o, c, t, d) ==
  o.pattern = "ratable_daily" =>
    \/ c = o.total_amount_cents
    \/ t < o.end_date /\ (o.start_date >= d \/ t >= d - 1)

\* All months of a projection, and what is beyond, are what is left of the price.
LEMMA ProjectionTotal ==
  ASSUME NEW o, NEW c, NEW t, Recorded(o, c, t), o.pattern # "consumption_payg",
         NEW d \in Nat, NEW h \in Nat, UpTo(o, c, t, d),
         NEW p, p = project_obligation_by_month(o, c, t, d, h)
  PROVE  Total(p, DOMAIN p) = o.total_amount_cents - c
<1>0. /\ WellFormed(o) /\ \E n \in MonthStarts : n > o.end_date
      /\ c \in Nat /\ t \in Nat \cup {NoDate}
      /\ o.pattern = "ratable_daily" => Earning(o, c, t)
      /\ c <= o.total_amount_cents
  BY DEF Recorded
<1> USE <1>0
<1> DEFINE remaining == o.total_amount_cents - c
<1>1. /\ o.total_amount_cents \in Nat /\ o.start_date \in Nat
      /\ o.pattern \in {"ratable_daily", "point_in_time", "consumption"}
  BY DEF WellFormed, Patterns
<1>2. remaining \in Nat
  BY <1>1
<1>3. CASE c >= o.total_amount_cents
  <2>1. p = NoProjection
    BY <1>3, ProjectionCases
  <2>2. DOMAIN p = {}
    BY <2>1 DEF NoProjection
  <2>3. Total(p, DOMAIN p) = 0
    BY <2>2, TotalEmpty
  <2> QED
    BY <1>1, <1>3, <2>3
<1>4. CASE o.pattern = "point_in_time" /\ c < o.total_amount_cents
  <2> DEFINE m == month_start(Larger(o.start_date, d))
  <2>1. p = Bucketed(OneBucket(m, remaining), h)
    BY <1>4, ProjectionCases
  <2>2. m \in Nat
    BY <1>1, MonthStart DEF Larger
  <2> HIDE DEF m
  <2> QED
    BY <1>2, <2>1, <2>2, OneBucketed
<1>5. CASE o.pattern = "consumption" /\ c < o.total_amount_cents
  <2> DEFINE m == month_start(d)
  <2>1. p = OneBucket(m, remaining)
    BY <1>5, ProjectionCases
  <2>2. m \in Nat
    BY MonthStart
  <2> HIDE DEF m, remaining
  <2>2a. remaining \in Nat
    BY <1>2
  <2>2b. IsFiniteSet(DOMAIN p) /\ DOMAIN p = {m} /\ p[m] = remaining
    BY <2>1, <2>2, <2>2a, OneBucketAmount
  <2>3. Total(p, DOMAIN p) = remaining
    BY <2>2a, <2>2b, TotalSingleton
  <2> QED
    BY <2>3 DEF remaining
<1>6. CASE o.pattern = "ratable_daily" /\ c < o.total_amount_cents
  <2> DEFINE amount == month_amounts(o, c, t, d)
             cur == first_day(o, t, d)
  <2>1. Earning(o, c, t) /\ t < o.end_date /\ (o.start_date >= d \/ t >= d - 1)
    BY <1>1, <1>6 DEF UpTo
  <2>2. cur <= o.end_date /\ c = daily_cents(o) * (cur - o.start_date)
    BY <1>6, <2>1, UpToDate
  <2>3. cur \in Nat /\ o.end_date \in Nat
    BY <1>1, <1>6, DailyRate DEF first_day, Larger, NoDate
  <2>4. p = Bucketed(amount, h)
    BY <1>6, <2>2, <2>3, ProjectionCases
  <2>5. amount = month_amounts(o, c, t, d) /\ cur = first_day(o, t, d)
    OBVIOUS
  <2> HIDE DEF amount, cur
  <2>6. /\ IsFiniteSet(DOMAIN amount) /\ DOMAIN amount \subseteq Nat
        /\ \A m \in DOMAIN amount : amount[m] \in Nat
        /\ Total(amount, DOMAIN amount) =
             o.total_amount_cents - daily_cents(o) * (cur - o.start_date)
    BY <1>6, <2>1, <2>2, <2>5, RatableMonths
  <2>7. Total(p, DOMAIN p) = Total(amount, DOMAIN amount)
    BY <2>4, <2>6, BucketedAmounts
  <2> QED
    BY <2>2, <2>6, <2>7
<1> QED
  BY <1>1, <1>3, <1>4, <1>5, <1>6

\* The months up to m of a price in one piece: the day it is recognized on is in one
\* of them, or not before m is over.
LEMMA OneOffShown ==
  ASSUME NEW o, NEW c, NEW t, Recorded(o, c, t), o.pattern = "point_in_time",
         NEW d \in Nat, NEW h \in Nat,
         NEW m \in MonthStarts, m >= month_start(d), m < h, \E n \in MonthStarts : n > m,
         NEW p, p = project_obligation_by_month(o, c, t, d, h)
  PROVE  Total(p, shown_by(p, m)) =
           compute_recognition(o, c, t, next_month(m) - 1, 0).recognized_cents
<1>0. WellFormed(o) /\ c \in Nat
  BY DEF Recorded
<1> USE <1>0
<1> DEFINE S == shown_by(p, m)
           remaining == o.total_amount_cents - c
           last == next_month(m) - 1
           x == Larger(o.start_date, d)
           cents == compute_recognition(o, c, t, last, 0).recognized_cents
<1>1. o.total_amount_cents \in Nat /\ o.start_date \in Nat
  BY DEF WellFormed
<1>2. cents = IF last < o.start_date \/ remaining <= 0 THEN 0 ELSE remaining
  BY DEF compute_recognition, compute_point_in_time, Delta, NoDelta
<1>3. m \in Nat /\ next_month(m) \in Nat /\ d < next_month(m)
  <2>1. m \in Nat
    BY CalendarAssumption
  <2> QED
    BY <2>1, NextMonth, InMonth
<1>4. x \in Nat /\ (x < next_month(m) <=> ~ (last < o.start_date))
  BY <1>1, <1>3 DEF Larger
<1> HIDE DEF x, cents
<1>5. CASE c >= o.total_amount_cents
  <2>1. p = NoProjection
    BY <1>5, ProjectionCases
  <2>2. S = {}
    BY <2>1 DEF NoProjection, shown_by
  <2> HIDE DEF S
  <2>3. Total(p, S) = 0
    BY <2>2, TotalEmpty
  <2> QED
    BY <1>1, <1>2, <1>5, <2>3 DEF S, cents
<1>6. CASE c < o.total_amount_cents
  <2>1. p = Bucketed(OneBucket(month_start(x), remaining), h)
    BY <1>6, ProjectionCases DEF x
  <2>2. month_start(x) \in Nat /\ remaining \in Nat /\ remaining > 0
    BY <1>1, <1>4, <1>6, MonthStart
  <2>3. month_start(x) <= m <=> x < next_month(m)
    BY <1>3, <1>4, InMonth
  <2> DEFINE k == month_start(x)
  <2>4. k \in Nat /\ remaining \in Nat /\ m \in Nat /\ m < h
        /\ p = Bucketed(OneBucket(k, remaining), h)
    BY <1>3, <2>1, <2>2
  <2> HIDE DEF remaining, k
  <2>5. Total(p, S) = IF k <= m THEN remaining ELSE 0
    BY <2>4, OneBucketed
  <2> HIDE DEF S, last
  <2>6. Total(p, S) = cents
    BY <1>2, <1>4, <2>2, <2>3, <2>5 DEF k
  <2> QED
    BY <2>6 DEF S, cents, last
<1> QED
  BY <1>1, <1>5, <1>6

\* The months up to m of a daily rate, on schedule: what a run through the last of their
\* days adds, the remainder of the price included once that is past the end date.
LEMMA RatableShown ==
  ASSUME NEW o, NEW c, NEW t, Recorded(o, c, t), o.pattern = "ratable_daily",
         NEW d \in Nat, NEW h \in Nat, UpTo(o, c, t, d),
         NEW m \in MonthStarts, m < h, \E n \in MonthStarts : n > m,
         NEW last, last = next_month(m) - 1,
         NEW x, x = IF last >= o.end_date THEN last + 1 ELSE last,
         NEW p, p = project_obligation_by_month(o, c, t, d, h)
  PROVE  Total(p, shown_by(p, m)) = compute_recognition(o, c, t, x, 0).recognized_cents
<1>0. /\ WellFormed(o) /\ \E n \in MonthStarts : n > o.end_date
      /\ c \in Nat /\ t \in Nat \cup {NoDate} /\ Earning(o, c, t)
  BY DEF Recorded
<1> USE <1>0
<1> DEFINE total == o.total_amount_cents
           q == daily_cents(o)
           s == o.start_date
           e == o.end_date
           from_day == IF t < s THEN s ELSE t + 1
           remaining == total - c
           cents == compute_recognition(o, c, t, x, 0).recognized_cents
           rate == q * (x - from_day + 1)
           capped == Smaller(rate, remaining)
<1>1. /\ s \in Nat /\ e \in Nat /\ s <= e /\ total \in Nat /\ q \in Nat
      /\ \A n \in Nat : n <= days_in_period(o) => q * n \in Nat /\ q * n <= total
      /\ days_in_period(o) = e - s + 1
  BY DailyRate DEF days_in_period
<1>2. m \in Nat /\ next_month(m) \in Nat /\ next_month(m) > m /\ last \in Nat
  <2>1. m \in Nat
    BY CalendarAssumption
  <2>2. next_month(m) \in Nat /\ next_month(m) > m
    BY <2>1, NextMonth
  <2> QED
    BY <2>1, <2>2
<1>3. x \in Nat /\ (x > e <=> next_month(m) > e) /\ (~ (x > e) => x = last)
  BY <1>1, <1>2
<1>4. remaining \in Nat
  BY <1>1, EarningCapped
<1>5. cents = IF x < s THEN 0 ELSE IF x > e THEN remaining
              ELSE IF capped <= 0 THEN 0 ELSE capped
  <2>1. compute_recognition(o, c, t, x, 0) = compute_ratable_daily(o, c, t, x)
    BY DEF compute_recognition
  <2>2. compute_ratable_daily(o, c, t, x) =
          IF x < s THEN NoDelta ELSE IF x > e THEN Delta(remaining, e) ELSE Delta(capped, x)
    BY DEF compute_ratable_daily
  <2> HIDE DEF remaining, capped
  <2> QED
    BY <1>4, <2>1, <2>2 DEF Delta, NoDelta
<1> HIDE DEF cents
<1>6. CASE c >= total
  <2>1. p = NoProjection
    BY <1>6, ProjectionCases
  <2>2. shown_by(p, m) = {}
    BY <2>1 DEF NoProjection, shown_by
  <2>3. Total(p, shown_by(p, m)) = 0
    BY <2>2, TotalEmpty
  <2>4. remaining = 0
    BY <1>1, <1>4, <1>6
  <2> HIDE DEF remaining, rate
  <2>5. capped <= 0 => cents = 0
    BY <1>5, <2>4
  <2>6. rate \in Int
    <3>1. x - from_day + 1 \in Int
      BY <1>1, <1>3 DEF NoDate
    <3> QED
      BY <1>1, <3>1 DEF rate
  <2>7. capped <= 0
    BY <2>4, <2>6 DEF Smaller
  <2> QED
    BY <2>3, <2>5, <2>7 DEF cents
<1>7. CASE c < total
  <2> DEFINE amount == month_amounts(o, c, t, d)
             cur == first_day(o, t, d)
             done == q * (cur - s)
  <2>1. Earning(o, c, t) /\ t < e /\ (s >= d \/ t >= d - 1)
    BY <1>1, <1>7 DEF UpTo
  <2>2. cur = from_day /\ cur <= e /\ c = done
    BY <2>1, UpToDate
  <2>3. cur \in Nat /\ cur >= s
    BY <1>1 DEF first_day, Larger, NoDate
  <2>4. p = Bucketed(amount, h)
    BY <1>1, <1>7, <2>2, <2>3, ProjectionCases
  <2>5. amount = month_amounts(o, c, t, d) /\ cur = first_day(o, t, d)
    OBVIOUS
  <2> HIDE DEF amount, cur
  <2>6. /\ IsFiniteSet(DOMAIN amount) /\ DOMAIN amount \subseteq Nat
        /\ \A k : k \in DOMAIN amount <=>
             k \in MonthStarts /\ month_start(cur) <= k /\ k <= e
        /\ \A k \in DOMAIN amount : amount[k] \in Nat
        /\ \A k \in DOMAIN amount :
             Total(amount, shown_by(amount, k)) = earned_before(o, cur, next_month(k)) - done
        /\ Total(amount, DOMAIN amount) = total - done
    BY <2>1, <2>2, <2>5, RatableMonths
  <2>7. Total(p, shown_by(p, m)) = Total(amount, shown_by(amount, m))
    BY <1>2, <2>4, <2>6, BucketedAmounts
  <2>8. month_start(cur) <= m <=> cur < next_month(m)
    BY <2>3, InMonth
  <2>9. CASE cur >= next_month(m)
    <3>1. shown_by(amount, m) = {}
      <4>1. month_start(cur) \in Nat
        BY <2>3, MonthStart
      <4>2. \A k \in DOMAIN amount : ~ (k <= m)
        BY <1>2, <2>3, <2>6, <2>8, <2>9, <4>1
      <4> QED
        BY <4>2 DEF shown_by
    <3>2. Total(amount, shown_by(amount, m)) = 0
      BY <3>1, TotalEmpty
    <3>3. ~ (x > e) /\ x - from_day + 1 <= 0 /\ x - from_day + 1 \in Int
      BY <1>1, <1>2, <1>3, <2>2, <2>3, <2>9
    <3>4. rate <= 0 /\ rate \in Int
      BY <1>1, <3>3
    <3> HIDE DEF rate, remaining
    <3>5. capped <= 0
      BY <1>4, <3>4 DEF Smaller
    <3>6. cents = 0
      BY <1>5, <3>3, <3>5
    <3> QED
      BY <2>7, <3>2, <3>6 DEF cents
  <2>10. CASE cur < next_month(m) /\ next_month(m) > e
    <3>1. Total(amount, shown_by(amount, m)) = total - done
      <4>1. CASE m \in DOMAIN amount
        BY <1>2, <2>6, <2>10, <4>1 DEF earned_before
      <4>2. CASE m \notin DOMAIN amount
        <5>1. \A k \in DOMAIN amount : k <= m /\ k # BEYOND_KEY
          BY <1>1, <1>2, <2>6, <2>8, <2>10, <4>2 DEF BEYOND_KEY
        <5>2. shown_by(amount, m) = DOMAIN amount
          BY <5>1 DEF shown_by
        <5> QED
          BY <2>6, <5>2
      <4> QED
        BY <4>1, <4>2
    <3>2. x > e /\ ~ (x < s)
      BY <1>1, <1>3, <2>10
    <3>3. cents = remaining
      BY <1>5, <3>2
    <3> QED
      BY <2>2, <2>7, <3>1, <3>3 DEF cents
  <2>11. CASE cur < next_month(m) /\ ~ (next_month(m) > e)
    <3>1. m \in DOMAIN amount
      BY <1>1, <1>2, <2>6, <2>8, <2>11
    <3>2. Larger(next_month(m), cur) = next_month(m)
      BY <1>2, <2>3, <2>11 DEF Larger
    <3>3. earned_before(o, cur, next_month(m)) = q * (next_month(m) - s)
      BY <2>11, <3>2 DEF earned_before
    <3>4. x = last /\ ~ (x > e) /\ ~ (x < s)
      BY <1>1, <1>2, <1>3, <2>3, <2>11
    <3>5. rate = q * (next_month(m) - cur)
      BY <1>2, <2>2, <2>3, <3>4
    <3>6. q * (next_month(m) - s) = done + q * (next_month(m) - cur)
      <4>1. next_month(m) - s \in Int /\ cur - s \in Int /\ next_month(m) - cur \in Int
            /\ next_month(m) - s = (cur - s) + (next_month(m) - cur)
        BY <1>1, <1>2, <2>3
      <4>2. \A i, j \in Int : q * (i + j) = q * i + q * j
        BY <1>1
      <4> QED
        BY <4>1, <4>2
    <3>7. q * (next_month(m) - s) \in Nat /\ q * (next_month(m) - s) <= total
      <4>1. next_month(m) - s \in Nat /\ next_month(m) - s <= days_in_period(o)
        BY <1>1, <1>2, <2>3, <2>11
      <4> QED
        BY <1>1, <4>1
    <3>8. q * (next_month(m) - cur) \in Nat /\ done \in Nat
      <4>1. next_month(m) - cur \in Nat /\ cur - s \in Nat
        BY <1>1, <1>2, <2>3, <2>11
      <4> QED
        BY <1>1, <4>1
    <3>9. rate \in Nat /\ rate <= remaining
      BY <1>1, <2>2, <3>5, <3>6, <3>7, <3>8
    <3> HIDE DEF remaining, rate
    <3>10. capped = rate
      BY <1>4, <3>9 DEF Smaller
    <3>11. cents = rate
      BY <1>5, <3>4, <3>9, <3>10
    <3> HIDE DEF done
    <3> QED
      BY <2>6, <2>7, <3>1, <3>3, <3>5, <3>6, <3>8, <3>11 DEF cents
  <2> QED
    BY <1>2, <2>3, <2>9, <2>10, <2>11
<1> QED
  BY <1>1, <1>6, <1>7

-----------------------------------------------------------------------------
(* What recognition keeps from day to day *)

\* What is recorded of an obligation is not past the latest run, is on the schedule of
\* a daily rate, and is within its price.
on_schedule(o) ==
  /\ already[o].through <= closed
  /\ Terms[o].pattern = "ratable_daily" =>
       Earning(Terms[o], already[o].cents, already[o].through)
  /\ Terms[o].pattern # "consumption_payg" =>
       already[o].cents <= Terms[o].total_amount_cents

\* The inductive invariant.
SchedulerInv ==
  /\ TypeOK /\ IsFiniteSet(created)
  /\ \A o \in Obligations : on_schedule(o)

\* A run through a day of the calendar keeps it, and touches nothing but the rows of
\* recognition.
LEMMA RunKeepsInv ==
  ASSUME SchedulerInv, NEW d \in 0..LastDay, run_recognition(d)
  PROVE  /\ pending' \in [Obligations -> Nat]
         /\ already' \in [Obligations -> [cents : Nat, through : 0..LastDay \cup {NoDate}]]
         /\ closed' \in 0..LastDay \cup {NoDate}
         /\ \A o \in Obligations : on_schedule(o)'
<1>1. /\ pending \in [Obligations -> Nat]
      /\ already \in [Obligations -> [cents : Nat, through : 0..LastDay \cup {NoDate}]]
      /\ closed \in 0..LastDay \cup {NoDate}
      /\ \A o \in Obligations : on_schedule(o)
  BY DEF SchedulerInv, TypeOK
<1>2. d \in Nat /\ LastDay \in Nat
  BY SchedulerAssumption
<1>3. CASE closed >= d
  <2>1. UNCHANGED <<pending, already, closed>>
    BY <1>3 DEF run_recognition, revenue
  <2> QED
    BY <1>1, <2>1 DEF on_schedule
<1>4. CASE ~ (closed >= d)
  <2>1. closed' = d
    BY <1>4 DEF run_recognition
  <2>2. pending' = [o \in Obligations |-> IF o \in loaded(d) THEN 0 ELSE pending[o]]
    BY <1>4 DEF run_recognition
  <2>3. ASSUME NEW o \in Obligations
        PROVE  /\ already'[o] \in [cents : Nat, through : 0..LastDay \cup {NoDate}]
               /\ on_schedule(o)'
    <3> DEFINE c == already[o].cents
               t == already[o].through
               a == compute_recognition(Terms[o], c, t, d, pending[o])
    <3>1. /\ WellFormed(Terms[o]) /\ c \in Nat /\ t \in 0..LastDay \cup {NoDate}
          /\ pending[o] \in Nat /\ t <= closed
      BY <1>1, SchedulerAssumption DEF on_schedule
    <3>2. t \in Nat \cup {NoDate} /\ t < d
      BY <1>1, <1>2, <1>4, <3>1 DEF NoDate
    <3>3. already'[o] = IF o \notin loaded(d) THEN already[o]
                        ELSE [cents   |-> c + a.recognized_cents,
                              through |-> Larger(t, a.recognized_through)]
      BY <1>4 DEF run_recognition
    <3>4. CASE o \notin loaded(d)
      <4>1. already'[o] = already[o]
        BY <3>3, <3>4
      <4>2. already'[o].through <= closed'
        BY <2>1, <3>1, <3>2, <4>1 DEF NoDate
      <4> QED
        BY <1>1, <4>1, <4>2 DEF on_schedule
    <3>5. CASE o \in loaded(d)
      <4> HIDE DEF c, t
      <4>1. a \in Deltas
        BY <1>2, <3>1, <3>2, ComputeType
      <4>2. a.recognized_through <= d
        BY <1>2, <3>1, <3>2, ComputeThrough
      <4>3. Terms[o].pattern # "consumption_payg" /\ c <= Terms[o].total_amount_cents =>
              c + a.recognized_cents <= Terms[o].total_amount_cents
        BY <1>2, <3>1, <3>2, ComputeCapped
      <4>4. Terms[o].pattern = "ratable_daily" /\ Earning(Terms[o], c, t) =>
              Earning(Terms[o], c + a.recognized_cents, later(t, a.recognized_through))
        <5>1. ASSUME Terms[o].pattern = "ratable_daily", Earning(Terms[o], c, t)
              PROVE  Earning(Terms[o], c + a.recognized_cents, later(t, a.recognized_through))
          <6>1. a = compute_ratable_daily(Terms[o], c, t, d)
            BY <5>1 DEF compute_recognition
          <6> HIDE DEF a
          <6> QED
            BY <1>2, <3>1, <3>2, <5>1, <6>1, RatableStep
        <5> QED
          BY <5>1
      <4> HIDE DEF a
      <4>5. /\ a.recognized_cents \in Nat
            /\ a.recognized_through \in Nat \cup {NoDate}
        BY <4>1 DEF Deltas
      <4>6. /\ already'[o] = [cents   |-> c + a.recognized_cents,
                              through |-> Larger(t, a.recognized_through)]
            /\ Larger(t, a.recognized_through) = later(t, a.recognized_through)
        BY <3>2, <3>3, <3>5, <4>5 DEF Larger, later
      <4>7. /\ later(t, a.recognized_through) \in 0..LastDay \cup {NoDate}
            /\ later(t, a.recognized_through) <= d
        BY <1>2, <3>1, <3>2, <4>2, <4>5 DEF later, NoDate
      <4>8. c + a.recognized_cents \in Nat
        BY <3>1, <4>5
      <4>9. on_schedule(o)
        BY <1>1
      <4>10. /\ already'[o].cents = c + a.recognized_cents
             /\ already'[o].through = later(t, a.recognized_through)
        BY <4>6
      <4> QED
        BY <2>1, <4>3, <4>4, <4>6, <4>7, <4>8, <4>9, <4>10 DEF on_schedule, c, t
    <3> QED
      BY <3>4, <3>5
  <2>4. DOMAIN already' = Obligations /\ already' = [o \in Obligations |-> already'[o]]
    BY <1>4 DEF run_recognition
  <2>5. already' \in [Obligations -> [cents : Nat, through : 0..LastDay \cup {NoDate}]]
    BY <2>3, <2>4
  <2> QED
    BY <1>1, <2>1, <2>2, <2>3, <2>5
<1> QED
  BY <1>3, <1>4

\* Initially nothing is created, recorded or run.
LEMMA InitInv == Init => SchedulerInv
<1> SUFFICES ASSUME Init PROVE SchedulerInv
  OBVIOUS
<1>1. TypeOK
  <2>1. /\ created \subseteq Obligations
        /\ pending \in [Obligations -> Nat] /\ closed \in 0..LastDay \cup {NoDate}
    BY DEF Init
  <2>2. already \in [Obligations -> [cents : Nat, through : 0..LastDay \cup {NoDate}]]
    BY DEF Init
  <2>3. due \in BOOLEAN
    BY DEF Init
  <2>4. today \in 1..LastDay /\ reports \in 0..MaxReports /\ misses \in 0..MaxMisses
    BY SchedulerAssumption DEF Init
  <2> QED
    BY <2>1, <2>2, <2>3, <2>4 DEF TypeOK
<1>2. IsFiniteSet(created)
  BY FS_EmptySet DEF Init
<1>3. ASSUME NEW o \in Obligations PROVE on_schedule(o)
  <2>1. already[o].cents = 0 /\ already[o].through = NoDate /\ closed = NoDate
    BY DEF Init
  <2>2. WellFormed(Terms[o])
    BY SchedulerAssumption
  <2>3. Terms[o].total_amount_cents \in Nat
    BY <2>2 DEF WellFormed
  <2>4. ASSUME Terms[o].pattern = "ratable_daily"
        PROVE  Earning(Terms[o], 0, NoDate)
    <3>1. Terms[o].end_date \in Nat /\ daily_cents(Terms[o]) \in Nat
      BY <2>2, <2>4, DailyRate
    <3> QED
      BY <3>1 DEF Earning, NoDate
  <2> QED
    BY <2>1, <2>3, <2>4 DEF on_schedule, NoDate
<1> QED
  BY <1>1, <1>2, <1>3 DEF SchedulerInv

\* Every step keeps it.
LEMMA StepInv == SchedulerInv /\ [Next]_vars => SchedulerInv'
<1> SUFFICES ASSUME SchedulerInv, [Next]_vars PROVE SchedulerInv'
  OBVIOUS
<1>1. /\ created \subseteq Obligations
      /\ pending \in [Obligations -> Nat]
      /\ already \in [Obligations -> [cents : Nat, through : 0..LastDay \cup {NoDate}]]
      /\ closed \in 0..LastDay \cup {NoDate}
      /\ today \in 1..LastDay
      /\ due \in BOOLEAN
      /\ reports \in 0..MaxReports
      /\ misses \in 0..MaxMisses
      /\ IsFiniteSet(created)
      /\ \A o \in Obligations : on_schedule(o)
  BY DEF SchedulerInv, TypeOK
<1>2. /\ UnitSizes \subseteq Nat /\ RunDates \subseteq 0..LastDay
      /\ LastDay \in Nat \ {0} /\ MaxReports \in Nat /\ MaxMisses \in Nat
  BY SchedulerAssumption
<1>3. ASSUME UNCHANGED <<already, closed>>
      PROVE  \A o \in Obligations : on_schedule(o)'
  BY <1>1, <1>3 DEF on_schedule
<1>4. ASSUME NEW o \in Obligations, CreateObligation(o) PROVE SchedulerInv'
  <2>1. IsFiniteSet(created')
    BY <1>1, <1>4, FS_AddElement DEF CreateObligation
  <2> QED
    BY <1>1, <1>3, <1>4, <2>1 DEF CreateObligation, revenue, SchedulerInv, TypeOK
<1>5. ASSUME NEW o \in Obligations, NEW n \in UnitSizes, PostUsage(o, n) PROVE SchedulerInv'
  <2>1. pending' \in [Obligations -> Nat] /\ reports' \in 0..MaxReports
    BY <1>1, <1>2, <1>5 DEF PostUsage
  <2> QED
    BY <1>1, <1>3, <1>5, <2>1 DEF PostUsage, SchedulerInv, TypeOK
<1>6. ASSUME NEW d \in RunDates, TriggerRun(d) PROVE SchedulerInv'
  <2>1. d \in 0..LastDay /\ run_recognition(d)
    BY <1>2, <1>6 DEF TriggerRun
  <2> QED
    BY <1>1, <1>6, <2>1, RunKeepsInv DEF TriggerRun, SchedulerInv, TypeOK
<1>7. ASSUME NewDay PROVE SchedulerInv'
  <2>1. today' \in 1..LastDay /\ due' \in BOOLEAN
    BY <1>1, <1>2, <1>7 DEF NewDay
  <2> QED
    BY <1>1, <1>3, <1>7, <2>1 DEF NewDay, revenue, SchedulerInv, TypeOK
<1>8. ASSUME RunForYesterday PROVE SchedulerInv'
  <2>1. today - 1 \in 0..LastDay /\ run_recognition(today - 1)
    BY <1>1, <1>2, <1>8 DEF RunForYesterday
  <2> QED
    BY <1>1, <1>8, <2>1, RunKeepsInv DEF RunForYesterday, SchedulerInv, TypeOK
<1>9. ASSUME MissRun PROVE SchedulerInv'
  <2>1. due' \in BOOLEAN
    BY <1>9 DEF MissRun
  <2>2. misses' = misses + 1 /\ misses < MaxMisses
    BY <1>9 DEF MissRun
  <2>3. misses' \in 0..MaxMisses
    BY <1>1, <1>2, <2>2
  <2> QED
    BY <1>1, <1>3, <1>9, <2>1, <2>3 DEF MissRun, revenue, SchedulerInv, TypeOK
<1>10. ASSUME UNCHANGED vars PROVE SchedulerInv'
  BY <1>1, <1>3, <1>10 DEF vars, SchedulerInv, TypeOK
<1>11. ASSUME End PROVE SchedulerInv'
  BY <1>10, <1>11 DEF End
<1> QED
  BY <1>4, <1>5, <1>6, <1>7, <1>8, <1>9, <1>10, <1>11 DEF Next

\* Whatever dates run_recognition is called with, and whatever days are missed, what is
\* recorded of an obligation keeps to its schedule and to its price.
THEOREM SchedulerInvariant == Spec => []SchedulerInv
  BY InitInv, StepInv, PTL DEF Spec

\* The scheduler, the API and their runs keep the tables to their columns' types.
THEOREM SchedulerTypeCorrect == Spec => []TypeOK
<1>1. SchedulerInv => TypeOK
  BY DEF SchedulerInv
<1> QED
  BY <1>1, SchedulerInvariant, PTL

-----------------------------------------------------------------------------
(* The waterfall *)

\* What the projections of a reachable state are made from.
LEMMA ProjectionInputs ==
  ASSUME SchedulerInv, NEW o \in created,
         NEW c, c = already[o].cents, NEW t, t = already[o].through
  PROVE  /\ Recorded(Terms[o], c, t)
         /\ up_to_date(o) <=> UpTo(Terms[o], c, t, today)
         /\ today \in Nat /\ horizon_end(today, Horizon) \in Nat
         /\ projection(o) =
              project_obligation_by_month(Terms[o], c, t, today, horizon_end(today, Horizon))
<1>1. /\ o \in Obligations
      /\ already \in [Obligations -> [cents : Nat, through : 0..LastDay \cup {NoDate}]]
      /\ on_schedule(o) /\ today \in 1..LastDay
  BY DEF SchedulerInv, TypeOK
<1>2. /\ WellFormed(Terms[o]) /\ LastDay \in Nat
      /\ \E n \in MonthStarts : n > Terms[o].end_date
  BY <1>1, SchedulerAssumption, MonthsAssumption
<1>3. c \in Nat /\ t \in 0..LastDay \cup {NoDate}
  BY <1>1
<1>4. t \in Nat \cup {NoDate} /\ today \in Nat
  BY <1>1, <1>2, <1>3
<1>5. Recorded(Terms[o], c, t)
  BY <1>1, <1>2, <1>3, <1>4 DEF on_schedule, Recorded
<1>6. up_to_date(o) <=> UpTo(Terms[o], c, t, today)
  BY DEF up_to_date, UpTo
<1>7. horizon_end(today, Horizon) \in Nat
  BY <1>1, HorizonEnd
<1> QED
  BY <1>4, <1>5, <1>6, <1>7 DEF projection

\* What recognition keeps is enough for the projection to come true.
LEMMA InvProjection == SchedulerInv => ProjectionComesTrue
<1> SUFFICES ASSUME SchedulerInv,
                    NEW o \in created, Terms[o].pattern \notin UsagePatterns, up_to_date(o),
                    NEW m \in MonthStarts, m >= month_start(today), m <= LastDay,
                    m < horizon_end(today, Horizon)
             PROVE  LET p     == projection(o)
                        shown == {k \in DOMAIN p \ {BEYOND_KEY} : k <= m}
                        last  == next_month(m) - 1
                        d     == IF Terms[o].pattern = "ratable_daily"
                                    /\ last >= Terms[o].end_date
                                 THEN last + 1 ELSE last
                    IN  Total(p, shown) =
                          compute_recognition(Terms[o], already[o].cents,
                                              already[o].through, d, 0).recognized_cents
  BY DEF ProjectionComesTrue
<1> DEFINE p == projection(o)
           last == next_month(m) - 1
           c == already[o].cents
           t == already[o].through
           h == horizon_end(today, Horizon)
<1>0. c = already[o].cents /\ t = already[o].through
  OBVIOUS
<1> HIDE DEF c, t
<1>1. /\ Recorded(Terms[o], c, t) /\ UpTo(Terms[o], c, t, today)
      /\ today \in Nat /\ h \in Nat
      /\ p = project_obligation_by_month(Terms[o], c, t, today, h)
  BY <1>0, ProjectionInputs
<1>2. \E n \in MonthStarts : n > m
  <2>1. PICK n \in MonthStarts : n > LastDay
    BY MonthsAssumption
  <2>2. n \in Nat /\ m \in Nat /\ LastDay \in Nat
    BY CalendarAssumption, SchedulerAssumption
  <2> QED
    BY <2>1, <2>2
<1>3. Terms[o].pattern \in {"ratable_daily", "point_in_time"}
  BY <1>1 DEF Recorded, WellFormed, Patterns, UsagePatterns
<1>4. m >= month_start(today) /\ m < h
  OBVIOUS
<1>5. shown_by(p, m) = {k \in DOMAIN p \ {BEYOND_KEY} : k <= m}
  BY DEF shown_by
<1> HIDE DEF p, h
<1>6. CASE Terms[o].pattern = "point_in_time"
  <2>1. Total(p, shown_by(p, m)) =
          compute_recognition(Terms[o], c, t, next_month(m) - 1, 0).recognized_cents
    BY <1>1, <1>2, <1>4, <1>6, OneOffShown
  <2> QED
    BY <1>0, <1>5, <1>6, <2>1 DEF p
<1>7. CASE Terms[o].pattern = "ratable_daily"
  <2> DEFINE x == IF last >= Terms[o].end_date THEN last + 1 ELSE last
  <2>1. Total(p, shown_by(p, m)) =
          compute_recognition(Terms[o], c, t, x, 0).recognized_cents
    BY <1>1, <1>2, <1>4, <1>7, RatableShown
  <2> QED
    BY <1>0, <1>5, <1>7, <2>1 DEF p
<1> QED
  BY <1>3, <1>6, <1>7

\* The projection comes true, on every day of every history of runs, of any terms and
\* on any calendar.
THEOREM ProjectionsComeTrue == Spec => []ProjectionComesTrue
BY SchedulerInvariant, InvProjection, PTL

\* Projections of the obligations of S, and what each has in all.
are_projections(proj, S) ==
  /\ IsFiniteSet(S) /\ DOMAIN proj = S
  /\ \A o \in S : IsFiniteSet(DOMAIN proj[o])
                  /\ \A k \in DOMAIN proj[o] : proj[o][k] \in Nat
totals_of(proj, S) == [o \in S |-> Total(proj[o], DOMAIN proj[o])]

\* The route's agg has every key of a projection, and all cents of all projections.
LEMMA AggregateTotal ==
  ASSUME NEW S, NEW proj, are_projections(proj, S), NEW a, a = Aggregate(proj),
         NEW g, g = totals_of(proj, S)
  PROVE  /\ IsFiniteSet(DOMAIN a) /\ DOMAIN a = UNION {DOMAIN proj[o] : o \in S}
         /\ \A k \in DOMAIN a : a[k] \in Nat
         /\ \A o \in S : g[o] \in Nat
         /\ Total(a, DOMAIN a) = Total(g, S)
<1> DEFINE keys(o) == DOMAIN proj[o]
           K == UNION {keys(o) : o \in S}
           having(k) == {o \in S : k \in keys(o)}
           rows == {r \in S \X K : r[2] \in keys(r[1])}
           f == [r \in rows |-> proj[r[1]][r[2]]]
           by_key == [r \in rows |-> r[2]]
           by_row == [r \in rows |-> r[1]]
           col(k) == [o \in having(k) |-> proj[o][k]]
<1>0. /\ IsFiniteSet(S) /\ DOMAIN proj = S
      /\ \A o \in S : IsFiniteSet(keys(o)) /\ \A k \in keys(o) : proj[o][k] \in Nat
      /\ \A o \in S : g[o] = Total(proj[o], keys(o))
  BY DEF are_projections, totals_of
<1>1. DOMAIN a = K /\ \A k \in K : a[k] = Total(col(k), having(k))
  BY <1>0 DEF Aggregate
<1>2. IsFiniteSet(K)
  <2> DEFINE F == [o \in S |-> keys(o)]
             Ks == {keys(o) : o \in S}
  <2>1. F \in Surjection(S, Ks)
    BY DEF Surjection
  <2>2. IsFiniteSet(Ks)
    BY <1>0, <2>1, FS_Surjection
  <2>3. \A x \in Ks : IsFiniteSet(x)
    BY <1>0
  <2> QED
    BY <2>2, <2>3, FS_UNION
<1>3. IsFiniteSet(rows)
  <2>1. IsFiniteSet(S \X K)
    BY <1>0, <1>2, FS_Product
  <2> QED
    BY <2>1, FS_Subset
<1>4. \A r : r \in rows <=>
        r \in S \X K /\ r = <<r[1], r[2]>> /\ r[1] \in S /\ r[2] \in keys(r[1])
  OBVIOUS
<1>5. \A o \in S : \A k \in keys(o) :
        <<o, k>> \in rows /\ k \in K /\ o \in having(k) /\ f[<<o, k>>] = proj[o][k]
  OBVIOUS
<1>6. ASSUME NEW r \in rows
      PROVE  f[r] \in Nat /\ by_key[r] = r[2] /\ by_row[r] = r[1]
             /\ r[2] \in K /\ r[1] \in S
  BY <1>0
<1>7. \A k \in K : IsFiniteSet(having(k))
  <2>1. \A k \in K : having(k) \subseteq S
    OBVIOUS
  <2> HIDE DEF having
  <2> QED
    BY <1>0, <2>1, FS_Subset
<1>8. \A k : \A o \in having(k) : o \in S /\ k \in keys(o) /\ col(k)[o] = proj[o][k]
  OBVIOUS
<1> HIDE DEF K, having, rows, f, by_key, by_row, col
<1>9. ASSUME NEW k \in K
      PROVE  a[k] = Total(f, rows_with(rows, by_key, k))
  <2> DEFINE T == rows_with(rows, by_key, k)
             h == [o \in having(k) |-> <<o, k>>]
             H == having(k)
             c == col(k)
  <2>1. ASSUME NEW o \in H PROVE h[o] = <<o, k>> /\ h[o] \in T
    BY <1>5, <1>6, <1>8 DEF rows_with
  <2>2. ASSUME NEW r \in T PROVE \E o \in H : h[o] = r
    BY <1>4, <1>5, <1>6 DEF rows_with
  <2>3. h \in Bijection(H, T)
    BY <2>1, <2>2 DEF Bijection, Injection, Surjection, IsInjective
  <2>4. \A o \in H : c[o] \in Nat /\ f[h[o]] = c[o]
    BY <1>0, <1>5, <1>8
  <2>5. IsFiniteSet(H)
    BY <1>7
  <2> HIDE DEF T, h, H, c
  <2>6. Total(f, T) = Total(c, H)
    BY <2>3, <2>4, <2>5, TotalReindexed
  <2> QED
    BY <1>1, <2>6 DEF T, H, c
<1>10. ASSUME NEW o \in S
       PROVE  g[o] = Total(f, rows_with(rows, by_row, o))
  <2> DEFINE T == rows_with(rows, by_row, o)
             h == [k \in keys(o) |-> <<o, k>>]
             H == keys(o)
             c == proj[o]
  <2>1. ASSUME NEW k \in H PROVE h[k] = <<o, k>> /\ h[k] \in T
    BY <1>5, <1>6 DEF rows_with
  <2>2. ASSUME NEW r \in T PROVE \E k \in H : h[k] = r
    BY <1>4, <1>6 DEF rows_with
  <2>3. h \in Bijection(H, T)
    BY <2>1, <2>2 DEF Bijection, Injection, Surjection, IsInjective
  <2>4. \A k \in H : c[k] \in Nat /\ f[h[k]] = c[k]
    BY <1>0, <1>5
  <2>5. IsFiniteSet(H) /\ g[o] = Total(c, H)
    BY <1>0
  <2> HIDE DEF T, h, H, c
  <2>6. Total(f, T) = Total(c, H)
    BY <2>3, <2>4, <2>5, TotalReindexed
  <2> QED
    BY <2>5, <2>6 DEF T
<1>11. (\A k \in K : a[k] \in Nat) /\ Total(a, K) = Total(f, rows)
  <2>1. sums_groups(a, K, f, rows, by_key)
    BY <1>2, <1>3, <1>6, <1>9 DEF sums_groups
  <2> QED
    BY <2>1, TotalGrouped
<1>12. (\A o \in S : g[o] \in Nat) /\ Total(g, S) = Total(f, rows)
  <2>1. sums_groups(g, S, f, rows, by_row)
    BY <1>0, <1>3, <1>6, <1>10 DEF sums_groups
  <2> QED
    BY <2>1, TotalGrouped
<1> QED
  BY <1>1, <1>2, <1>11, <1>12 DEF K

\* A month's place among the months of agg.
rank_in(a, m) == Cardinality({n \in DOMAIN a \ {BEYOND_KEY} : n < m})
first_months(a, soon) == {m \in DOMAIN a \ {BEYOND_KEY} : rank_in(a, m) < soon}

\* Each key of agg is in one of the three figures.
LEMMA FiguresAddUp ==
  ASSUME NEW a, IsFiniteSet(DOMAIN a), \A k \in DOMAIN a : a[k] \in Nat,
         NEW horizon_months \in Nat, NEW soon \in 0..horizon_months,
         NEW figures, figures = summary(a, soon, horizon_months)
  PROVE  /\ Total(a, DOMAIN a) = figures.n3 + figures.n12 + figures.beyond
         /\ figures.n3 = Total(a, first_months(a, soon))
<1> DEFINE months == DOMAIN a \ {BEYOND_KEY}
           A == first_months(a, soon)
           B == {m \in months : soon <= rank_in(a, m) /\ rank_in(a, m) < horizon_months}
           C == (DOMAIN a \cap {BEYOND_KEY}) \cup {m \in months : horizon_months <= rank_in(a, m)}
<1>1. figures = [n3 |-> Total(a, A), n12 |-> Total(a, B), beyond |-> Total(a, C)]
  BY DEF summary, first_months, rank_in
<1>2. ASSUME NEW m PROVE rank_in(a, m) \in Nat
  <2>1. {n \in months : n < m} \subseteq DOMAIN a
    OBVIOUS
  <2>2. IsFiniteSet({n \in months : n < m})
    BY <2>1, FS_Subset
  <2> QED
    BY <2>2, FS_CardinalityType DEF rank_in
<1>3. /\ A \subseteq DOMAIN a /\ B \subseteq DOMAIN a /\ C \subseteq DOMAIN a
      /\ A \cap B = {} /\ (A \cup B) \cap C = {} /\ (A \cup B) \cup C = DOMAIN a
  <2>1. \A m \in months : rank_in(a, m) \in Nat
    BY <1>2
  <2>2. soon \in Nat /\ soon <= horizon_months
    OBVIOUS
  <2> QED
    BY <2>1, <2>2 DEF first_months
<1> HIDE DEF A, B, C
<1>4. IsFiniteSet(A) /\ IsFiniteSet(B) /\ IsFiniteSet(C) /\ IsFiniteSet(A \cup B)
  <2>1. A \cup B \subseteq DOMAIN a
    BY <1>3
  <2> QED
    BY <1>3, <2>1, FS_Subset
<1>5. \A k \in (A \cup B) \cup C : a[k] \in Nat
  BY <1>3
<1>6. Total(a, A \cup B) = Total(a, A) + Total(a, B)
  <2>1. \A k \in A \cup B : a[k] \in Nat
    BY <1>5
  <2> QED
    BY <1>3, <1>4, <2>1, TotalSplit
<1>7. Total(a, (A \cup B) \cup C) = Total(a, A \cup B) + Total(a, C)
  BY <1>3, <1>4, <1>5, TotalSplit
<1>8. Total(a, DOMAIN a) = Total(a, A \cup B) + Total(a, C)
  BY <1>3, <1>7
<1> QED
  BY <1>1, <1>6, <1>8 DEF A

\* The months of the calendar before the h-th after today's are h.
LEMMA MonthsAhead ==
  ASSUME NEW d \in 1..LastDay, NEW h \in {Soon, Horizon},
         NEW P, P = {n \in MonthStarts : month_start(d) <= n /\ n < horizon_end(d, h)},
         P # {}
  PROVE  IsFiniteSet(P) /\ Cardinality(P) = h
<1> DEFINE s == month_start(d)
           z == horizon_end(d, h)
           A == {n \in MonthStarts : s < n /\ n < z}
           Q == {n \in MonthStarts : s < n /\ n <= z}
<1>1. d \in Nat
  BY SchedulerAssumption
<1>2. s \in MonthStarts /\ s \in Nat
  BY <1>1, MonthStart
<1>3. z \in MonthStarts /\ z \in Nat /\ months_between(s, z) = h
  BY HorizonEnd
<1>4. s < z
  <2>1. PICK n \in P : TRUE
    OBVIOUS
  <2>2. n \in Nat
    BY CalendarAssumption
  <2> QED
    BY <1>2, <1>3, <2>2
<1>5. IsFiniteSet(A)
  <2>1. \A m \in A : m <= z
    BY <1>3, CalendarAssumption
  <2> QED
    BY <1>3, <2>1, MonthsFinite
<1>6. P = A \cup {s} /\ Q = A \cup {z} /\ s \notin A /\ z \notin A
  <2>1. \A n \in MonthStarts : /\ s <= n <=> s < n \/ n = s
                               /\ n <= z <=> n < z \/ n = z
    BY <1>2, <1>3, CalendarAssumption
  <2>2. ~ (s < s) /\ ~ (z < z)
    BY <1>2, <1>3
  <2> QED
    BY <1>2, <1>3, <1>4, <2>1, <2>2
<1>7. Cardinality(Q) = h
  BY <1>3 DEF months_between
<1> HIDE DEF A, Q, s, z
<1>8. /\ IsFiniteSet(A \cup {s}) /\ Cardinality(A \cup {s}) = Cardinality(A) + 1
      /\ Cardinality(A \cup {z}) = Cardinality(A) + 1
  BY <1>5, <1>6, FS_AddElement
<1> QED
  BY <1>6, <1>7, <1>8

\* The first figure has the next months of the calendar, and no other month when all
\* of them have a projection.
LEMMA FirstMonths ==
  ASSUME NEW d \in 1..LastDay, NEW h \in {Soon, Horizon},
         NEW a, IsFiniteSet(DOMAIN a), DOMAIN a \subseteq MonthStarts \cup {BEYOND_KEY},
         \A k \in DOMAIN a : k = BEYOND_KEY \/ k >= month_start(d),
         NEW near, near = {k \in DOMAIN a \ {BEYOND_KEY} : k < horizon_end(d, h)}
  PROVE  /\ near \subseteq first_months(a, h)
         /\ Cardinality(near) = h => first_months(a, h) = near
<1> DEFINE months == DOMAIN a \ {BEYOND_KEY}
           z == horizon_end(d, h)
           s == month_start(d)
           below(m) == {n \in months : n < m}
           P == {n \in MonthStarts : s <= n /\ n < z}
<1>1. /\ h \in Nat /\ z \in Nat /\ months \subseteq MonthStarts /\ months \subseteq Nat
      /\ \A k \in months : k >= s
  <2>1. h \in Nat
    BY SchedulerAssumption
  <2>2. z \in Nat
    BY HorizonEnd
  <2>3. months \subseteq MonthStarts /\ \A k \in months : k >= s
    OBVIOUS
  <2> QED
    BY <2>1, <2>2, <2>3, CalendarAssumption
<1>2. ASSUME NEW m PROVE IsFiniteSet(below(m)) /\ rank_in(a, m) = Cardinality(below(m))
                         /\ Cardinality(below(m)) \in Nat
  <2>1. below(m) \subseteq DOMAIN a
    OBVIOUS
  <2>2. IsFiniteSet(below(m))
    BY <2>1, FS_Subset
  <2>3. rank_in(a, m) = Cardinality(below(m))
    BY DEF rank_in
  <2> QED
    BY <2>2, <2>3, FS_CardinalityType
<1>3. ASSUME NEW m \in near PROVE m \in first_months(a, h)
  <2>1. m \in months /\ m \in P /\ m \in Nat
    BY <1>1
  <2>2. P # {} /\ P = {n \in MonthStarts : month_start(d) <= n /\ n < horizon_end(d, h)}
    BY <2>1
  <2>3. below(m) \subseteq P \ {m}
    BY <1>1, <2>1
  <2> HIDE DEF P, below, z, s
  <2>4. IsFiniteSet(P) /\ Cardinality(P) = h
    BY <2>2, MonthsAhead
  <2>5. IsFiniteSet(P \ {m}) /\ Cardinality(P \ {m}) = h - 1
    BY <2>1, <2>4, FS_RemoveElement
  <2>6. Cardinality(below(m)) <= h - 1
    BY <2>3, <2>5, FS_Subset
  <2>7. rank_in(a, m) < h
    BY <1>1, <1>2, <2>6
  <2> QED
    BY <2>1, <2>7 DEF first_months
<1>4. ASSUME Cardinality(near) = h, NEW m \in first_months(a, h), m \notin near
      PROVE  FALSE
  <2>1. m \in months /\ rank_in(a, m) < h
    BY <1>4 DEF first_months
  <2>2. m >= z /\ m \in Nat
    BY <1>1, <1>4, <2>1
  <2>3. near \subseteq below(m)
    BY <1>1, <2>2
  <2> HIDE DEF below
  <2>4. Cardinality(near) <= Cardinality(below(m))
    BY <1>2, <2>3, FS_Subset
  <2> QED
    BY <1>1, <1>2, <1>4, <2>1, <2>4
<1> QED
  BY <1>3, <1>4

\* The agg of a reachable state.
LEMMA AggType ==
  ASSUME SchedulerInv
  PROVE  /\ IsFiniteSet(DOMAIN agg) /\ DOMAIN agg \subseteq MonthStarts \cup {BEYOND_KEY}
         /\ \A k \in DOMAIN agg :
              agg[k] \in Nat /\ (k = BEYOND_KEY \/ k >= month_start(today))
         /\ \A g : g = [o \in created |-> Total(projection(o), DOMAIN projection(o))] =>
              (\A o \in created : g[o] \in Nat) /\ Total(agg, DOMAIN agg) = Total(g, created)
<1> DEFINE proj == [o \in created |-> projection(o)]
           a == agg
<1>1. IsFiniteSet(created)
  BY DEF SchedulerInv
<1>2. ASSUME NEW o \in created
      PROVE  proj[o] = projection(o) /\ IsProjection(proj[o], today)
  <2> DEFINE c == already[o].cents
             t == already[o].through
             h == horizon_end(today, Horizon)
  <2>1. /\ Recorded(Terms[o], c, t) /\ today \in Nat /\ h \in Nat
        /\ projection(o) = project_obligation_by_month(Terms[o], c, t, today, h)
    BY ProjectionInputs
  <2>2. proj[o] = projection(o)
    OBVIOUS
  <2> HIDE DEF proj, c, t, h
  <2>3. IsProjection(project_obligation_by_month(Terms[o], c, t, today, h), today)
    BY <2>1, ProjectionType
  <2> QED
    BY <2>1, <2>2, <2>3
<1>3. a = Aggregate(proj) /\ DOMAIN proj = created
  BY DEF agg
<1>4. are_projections(proj, created)
  BY <1>1, <1>2, <1>3 DEF IsProjection, are_projections
<1>5. ASSUME NEW g, g = [o \in created |-> Total(projection(o), DOMAIN projection(o))]
      PROVE  /\ IsFiniteSet(DOMAIN a)
             /\ DOMAIN a = UNION {DOMAIN proj[o] : o \in created}
             /\ \A k \in DOMAIN a : a[k] \in Nat
             /\ \A o \in created : g[o] \in Nat
             /\ Total(a, DOMAIN a) = Total(g, created)
  <2>1. g = totals_of(proj, created)
    BY <1>2, <1>5 DEF totals_of
  <2> HIDE DEF proj, a
  <2> QED
    BY <1>3, <1>4, <2>1, AggregateTotal
<1> HIDE DEF proj, a
<1>6. /\ IsFiniteSet(DOMAIN a)
      /\ DOMAIN a = UNION {DOMAIN proj[o] : o \in created}
      /\ \A k \in DOMAIN a : a[k] \in Nat
  BY <1>5
<1>7. \A k \in DOMAIN a : /\ k \in MonthStarts \cup {BEYOND_KEY}
                          /\ k = BEYOND_KEY \/ k >= month_start(today)
  <2> SUFFICES ASSUME NEW k \in DOMAIN a
               PROVE  /\ k \in MonthStarts \cup {BEYOND_KEY}
                      /\ k = BEYOND_KEY \/ k >= month_start(today)
    OBVIOUS
  <2>1. PICK o \in created : k \in DOMAIN proj[o]
    BY <1>6
  <2>2. IsProjection(proj[o], today)
    BY <1>2
  <2> QED
    BY <2>1, <2>2 DEF IsProjection
<1>8. DOMAIN a \subseteq MonthStarts \cup {BEYOND_KEY}
  BY <1>7
<1> QED
  BY <1>5, <1>6, <1>7, <1>8 DEF a

\* Obligations that are up to date show what is left of their prices, and the others
\* of pay-as-you-go nothing.
LEMMA BacklogTotal ==
  ASSUME SchedulerInv,
         NEW priced, priced = {o \in created : Terms[o].pattern # "consumption_payg"},
         \A o \in priced : up_to_date(o)
  PROVE  total_cents(agg) =
           Total([o \in priced |-> Terms[o].total_amount_cents - already[o].cents], priced)
<1> DEFINE g == [o \in created |-> Total(projection(o), DOMAIN projection(o))]
           left == [o \in priced |-> Terms[o].total_amount_cents - already[o].cents]
           payg == created \ priced
<1>1. /\ \A o \in created : g[o] \in Nat
      /\ Total(agg, DOMAIN agg) = Total(g, created)
  BY AggType
<1>2. IsFiniteSet(created) /\ IsFiniteSet(priced) /\ IsFiniteSet(payg)
  <2>1. IsFiniteSet(created) /\ priced \subseteq created /\ payg \subseteq created
    BY DEF SchedulerInv
  <2> QED
    BY <2>1, FS_Subset
<1>3. \A o \in priced : g[o] = left[o]
  <2> SUFFICES ASSUME NEW o \in priced PROVE g[o] = left[o]
    OBVIOUS
  <2> DEFINE c == already[o].cents
             t == already[o].through
             h == horizon_end(today, Horizon)
             p == projection(o)
  <2>0. o \in created /\ Terms[o].pattern # "consumption_payg" /\ up_to_date(o)
    OBVIOUS
  <2>1. /\ Recorded(Terms[o], c, t) /\ UpTo(Terms[o], c, t, today)
        /\ today \in Nat /\ h \in Nat
        /\ p = project_obligation_by_month(Terms[o], c, t, today, h)
    BY <2>0, ProjectionInputs
  <2>2. g[o] = Total(p, DOMAIN p) /\ left[o] = Terms[o].total_amount_cents - c
    BY <2>0
  <2> HIDE DEF c, t, h, p, g, left
  <2>3. Total(p, DOMAIN p) = Terms[o].total_amount_cents - c
    BY <2>0, <2>1, ProjectionTotal
  <2> QED
    BY <2>2, <2>3
<1>4. \A o \in payg : g[o] = 0
  <2> SUFFICES ASSUME NEW o \in payg PROVE g[o] = 0
    OBVIOUS
  <2> DEFINE p == projection(o)
  <2>0. o \in created /\ Terms[o].pattern = "consumption_payg"
    OBVIOUS
  <2>1. \E t, h :
          /\ WellFormed(Terms[o]) /\ already[o].cents \in Nat
          /\ p = project_obligation_by_month(Terms[o], already[o].cents, t, today, h)
    BY <2>0, ProjectionInputs DEF Recorded
  <2> HIDE DEF p
  <2>2. p = NoProjection
    BY <2>0, <2>1, ProjectionCases
  <2>3. DOMAIN p = {}
    BY <2>2 DEF NoProjection
  <2>4. g[o] = Total(p, DOMAIN p)
    BY <2>0 DEF p
  <2> HIDE DEF g
  <2> QED
    BY <2>3, <2>4, TotalEmpty
<1>5. created = priced \cup payg /\ priced \cap payg = {}
  OBVIOUS
<1> HIDE DEF g, left, payg
<1>6. Total(g, priced \cup payg) = Total(g, priced) + Total(g, payg)
  <2>1. \A o \in priced \cup payg : g[o] \in Nat
    BY <1>1, <1>5
  <2> QED
    BY <1>2, <1>5, <2>1, TotalSplit
<1>7. Total(g, payg) = 0
  BY <1>4, TotalZero
<1>8. Total(g, priced) = Total(left, priced)
  BY <1>3, TotalEqual
<1>9. Total(g, priced) \in Nat
  <2>1. \A o \in priced : g[o] \in Nat
    BY <1>1, <1>5
  <2> QED
    BY <1>2, <2>1, TotalType
<1>10. Total(g, created) = Total(left, priced)
  <2>1. Total(g, created) = Total(g, priced \cup payg)
    BY <1>5, Zenon
  <2> QED
    BY <1>6, <1>7, <1>8, <1>9, <2>1
<1> QED
  BY <1>1, <1>10 DEF total_cents, left

\* ... and for the waterfall to show the backlog.
LEMMA InvBacklog == SchedulerInv => BacklogTies
<1> SUFFICES ASSUME SchedulerInv PROVE BacklogTies
  OBVIOUS
<1> DEFINE a == agg
           priced == {o \in created : Terms[o].pattern # "consumption_payg"}
           figures == summary(a, Soon, Horizon)
           near == {k \in DOMAIN a \ {BEYOND_KEY} : k < horizon_end(today, Soon)}
           left == Total([o \in priced |-> Terms[o].total_amount_cents - already[o].cents], priced)
<1>1. (\A o \in priced : up_to_date(o)) => total_cents(a) = left
  BY BacklogTotal
<1>2. /\ IsFiniteSet(DOMAIN a) /\ DOMAIN a \subseteq MonthStarts \cup {BEYOND_KEY}
      /\ \A k \in DOMAIN a : a[k] \in Nat
      /\ \A k \in DOMAIN a : k = BEYOND_KEY \/ k >= month_start(today)
  BY AggType
<1>3. Horizon \in Nat /\ Soon \in 0..Horizon /\ today \in 1..LastDay /\ Soon \in {Soon, Horizon}
  BY SchedulerAssumption DEF SchedulerInv, TypeOK
<1>4. figures = summary(a, Soon, Horizon)
      /\ near = {k \in DOMAIN a \ {BEYOND_KEY} : k < horizon_end(today, Soon)}
  OBVIOUS
<1> HIDE DEF a, figures, near, left
<1>5. /\ Total(a, DOMAIN a) = figures.n3 + figures.n12 + figures.beyond
      /\ figures.n3 = Total(a, first_months(a, Soon))
  BY <1>2, <1>3, <1>4, FiguresAddUp
<1>6. /\ near \subseteq first_months(a, Soon)
      /\ Cardinality(near) = Soon => first_months(a, Soon) = near
  BY <1>2, <1>3, <1>4, FirstMonths
<1>7. figures.n3 >= Total(a, near)
  <2> DEFINE F == first_months(a, Soon)
  <2>1. F \subseteq DOMAIN a
    BY DEF first_months
  <2> HIDE DEF F
  <2>2. IsFiniteSet(F) /\ \A k \in F : a[k] \in Nat
    BY <1>2, <2>1, FS_Subset
  <2>3. near \subseteq F /\ figures.n3 = Total(a, F)
    BY <1>5, <1>6 DEF F
  <2>4. Total(a, near) \in Nat /\ Total(a, near) <= Total(a, F)
    BY <2>2, <2>3, TotalMonotone
  <2>5. Total(a, F) \in Nat
    BY <2>2, TotalType
  <2> QED
    BY <2>3, <2>4, <2>5
<1>8. Cardinality(near) = Soon => figures.n3 = Total(a, near)
  BY <1>5, <1>6
<1>9. total_cents(a) = figures.n3 + figures.n12 + figures.beyond
  BY <1>5 DEF total_cents
<1> QED
  BY <1>1, <1>7, <1>8, <1>9 DEF BacklogTies, a, figures, near, left

\* The backlog is shown: unless recognition is behind or has stopped at an end date,
\* the waterfall's total is what is left of all prices, and always the figures above
\* the table have that total, the first one at least the next months.
THEOREM BacklogIsShown == Spec => []BacklogTies
BY SchedulerInvariant, InvBacklog, PTL
=============================================================================
