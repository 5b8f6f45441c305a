--------------------------- MODULE RevenueSchedule ---------------------------
(***************************************************************************)
(* What the recognition engine promises, without sessions, queries or      *)
(* increments: a run is one atomic step to a later date, after which each  *)
(* obligation it covered has earned exactly what its contract says it has  *)
(* by that date.                                                           *)
(***************************************************************************)
EXTENDS Compute, Sums

CONSTANTS Obligations, Terms, Keys, UnitSizes, Dates, NoUse

VARIABLES
  created,   \* obligations that exist
  use,       \* use[k]: the usage reported under key k, and whether it has earned
  earned,    \* cents each obligation has earned
  closed     \* date of the latest run, NoDate before the first

vars == <<created, use, earned, closed>>

Init ==
  /\ created = {}
  /\ use = [k \in Keys |-> NoUse]
  /\ earned = [o \in Obligations |-> 0]
  /\ closed = NoDate

Create(o) ==
  /\ created' = created \cup {o}
  /\ UNCHANGED <<use, earned, closed>>

Report(k, o, n) ==
  /\ use[k] = NoUse
  /\ o \in created
  /\ use' = [use EXCEPT ![k] = [obligation |-> o, units |-> n, earned |-> FALSE]]
  /\ UNCHANGED <<created, earned, closed>>

\* The contract's schedule in closed form, as a function of the date alone.
Scheduled(o, d) ==
  IF d < o.start_date THEN 0
  ELSE IF o.pattern = "ratable_daily" /\ d <= o.end_date
       THEN (o.total_amount_cents \div (o.end_date - o.start_date + 1))
              * (d - o.start_date + 1)
       ELSE o.total_amount_cents

\* What obligation o has earned after a run to date d that lets it earn n units.
EarnedBy(o, d, n) ==
  CASE Terms[o].pattern = "consumption_payg" ->
         earned[o] + n * Terms[o].price_per_unit_cents
    [] Terms[o].pattern = "consumption" ->
         Smaller(Terms[o].total_amount_cents,
                 earned[o] + (n * Terms[o].total_amount_cents) \div Terms[o].units_total)
    [] OTHER -> Scheduled(Terms[o], d)

\* The usage u once it has earned.
paid(u) == [obligation |-> u.obligation, units |-> u.units, earned |-> TRUE]

Unearned == {k \in Keys : use[k] # NoUse /\ ~ use[k].earned}

\* A run to date d covers the obligations S and lets the usage K earn.
Run(d, S, K) ==
  /\ d > closed
  /\ closed' = d
  /\ earned' = [o \in Obligations |->
                  IF o \in S
                  THEN LET mine == {k \in K : use[k].obligation = o}
                       IN  EarnedBy(o, d, Total([k \in mine |-> use[k].units], mine))
                  ELSE earned[o]]
  /\ use' = [k \in Keys |-> IF k \in K THEN paid(use[k]) ELSE use[k]]
  /\ UNCHANGED created

Next ==
  \/ \E o \in Obligations : Create(o)
  \/ \E k \in Keys, o \in Obligations, n \in UnitSizes : Report(k, o, n)
  \/ \E d \in Dates :
       \E S \in SUBSET {o \in created : Terms[o].start_date <= d} :
         \E K \in SUBSET {k \in Unearned : use[k].obligation \in S} : Run(d, S, K)

Spec == Init /\ [][Next]_vars
=============================================================================
