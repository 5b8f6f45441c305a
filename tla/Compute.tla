------------------------------- MODULE Compute -------------------------------
(***************************************************************************)
(* The pure half of revenue recognition, finledger/revrec/compute.py: what *)
(* one performance obligation recognizes in one run, given what its        *)
(* recognition_events already add up to.  Dates are day numbers.           *)
(***************************************************************************)
EXTENDS Integers

\* Stands for a NULL date.  Every real date is at least 0, so the code's test
\* "is None or < start_date" is the single comparison "< start_date".
NoDate == -1

Patterns == {"ratable_daily", "point_in_time", "consumption", "consumption_payg"}
UsagePatterns == {"consumption", "consumption_payg"}

\* What create_obligation and the CHECK constraints admit as an obligation row.
\* The columns a pattern does not use are NULL in the table and 0 or NoDate here.
WellFormed(o) ==
  /\ o.pattern \in Patterns
  /\ o.start_date \in Nat
  /\ o.end_date \in Nat \cup {NoDate}
  /\ o.pattern = "ratable_daily" => o.end_date >= o.start_date
  /\ o.total_amount_cents \in Nat
  /\ o.pattern # "consumption_payg" => o.total_amount_cents > 0
  /\ o.units_total \in Nat
  /\ o.pattern = "consumption" => o.units_total > 0
  /\ o.price_per_unit_cents \in Nat
  /\ o.pattern = "consumption_payg" => o.price_per_unit_cents > 0

\* A RecognitionDelta.  The code returns None instead of a delta of 0 cents.
Deltas == [recognized_cents : Nat, recognized_through : Nat \cup {NoDate}]
NoDelta == [recognized_cents |-> 0, recognized_through |-> NoDate]
Delta(cents, through) ==
  IF cents <= 0 THEN NoDelta
  ELSE [recognized_cents |-> cents, recognized_through |-> through]

Smaller(a, b) == IF a < b THEN a ELSE b

compute_consumption_payg(o, units, d) == Delta(units * o.price_per_unit_cents, d)

compute_consumption_Uncapped(o, already_cents, units, d) ==  \* mutant: no cap
  Delta((units * o.total_amount_cents) \div o.units_total, d)
compute_consumption_RoundedUp(o, already_cents, units, d) ==  \* mutant: rounds up
  LET proposed  == (units * o.total_amount_cents + o.units_total - 1) \div o.units_total
  IN  Delta(Smaller(proposed, o.total_amount_cents - already_cents), d)
compute_consumption(o, already_cents, units, d) ==
  LET proposed  == (units * o.total_amount_cents) \div o.units_total
      remaining == o.total_amount_cents - already_cents
  IN  Delta(Smaller(proposed, remaining), d)

days_in_period(o) == o.end_date - o.start_date + 1
daily_cents(o) == o.total_amount_cents \div days_in_period(o)

compute_ratable_daily_SameDay(o, already_cents, already_through, d) ==
  \* mutant: counts the last recognized day again
  LET remaining == o.total_amount_cents - already_cents
      from_day  == Smaller(d, IF already_through < o.start_date
                              THEN o.start_date ELSE already_through)
  IN  IF d < o.start_date THEN NoDelta
      ELSE IF d > o.end_date THEN Delta(remaining, o.end_date)
      ELSE Delta(Smaller(daily_cents(o) * (d - from_day + 1), remaining), d)
compute_ratable_daily(o, already_cents, already_through, d) ==
  LET remaining == o.total_amount_cents - already_cents
      from_day  == IF already_through < o.start_date
                   THEN o.start_date ELSE already_through + 1
      days      == d - from_day + 1
  IN  IF d < o.start_date THEN NoDelta
      ELSE IF d > o.end_date THEN Delta(remaining, o.end_date)
      ELSE Delta(Smaller(daily_cents(o) * days, remaining), d)

compute_point_in_time_Twice(o, already_cents, d) ==  \* mutant: forgets already_cents
  IF d < o.start_date THEN NoDelta ELSE Delta(o.total_amount_cents, o.start_date)
compute_point_in_time(o, already_cents, d) ==
  IF d < o.start_date THEN NoDelta
  ELSE Delta(o.total_amount_cents - already_cents, o.start_date)

compute_recognition(o, already_cents, already_through, d, units) ==
  CASE o.pattern = "point_in_time" ->
         compute_point_in_time(o, already_cents, d)
    [] o.pattern = "ratable_daily" ->
         compute_ratable_daily(o, already_cents, already_through, d)
    [] o.pattern = "consumption" ->
         compute_consumption(o, already_cents, units, d)
    [] o.pattern = "consumption_payg" ->
         compute_consumption_payg(o, units, d)
=============================================================================
