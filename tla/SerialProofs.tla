---------------------------- MODULE SerialProofs ----------------------------
(***************************************************************************)
(* Theorems about the recognition engine run by one session at a time, as  *)
(* the scheduler alone runs it: every obligation is on its contract's      *)
(* schedule, and the engine implements RevenueSchedule.                    *)
(***************************************************************************)
EXTENDS RecognitionProofs

-----------------------------------------------------------------------------
(* One session at a time: what the tables and the session have in common *)

\* What an obligation on terms o that has earned c cents is to have earned after
\* a run to date d that picks up n units of it.
due(o, c, d, n) ==
  IF o.pattern = "consumption_payg" THEN c + n * o.price_per_unit_cents
  ELSE IF o.pattern = "consumption"
       THEN Smaller(o.total_amount_cents, c + (n * o.total_amount_cents) \div o.units_total)
       ELSE Schedule!Scheduled(o, d)

\* The committed tables agree with the contracts as of the latest run.
TablesInStep ==
  /\ \A i \in DOMAIN runs : runs[i].through <= closed
  /\ \A o \in Obligations :
       /\ recognized(o) > 0 => o \in created /\ Terms[o].start_date <= closed
       /\ recognized_through(o) <= closed
       /\ Terms[o].pattern = "ratable_daily" =>
            Earning(Terms[o], recognized(o), recognized_through(o))
       /\ Terms[o].pattern \notin UsagePatterns /\ recognized(o) > 0 =>
            recognized(o) = Schedule!Scheduled(Terms[o], closed)

\* The obligations session r's query finds, and those it has work for.
covered(r) == {o \in created : Terms[o].start_date <= through[r]}
mine(r, o) == picked[r] \cap rows_of(usage, o)
working(r, o) == delta[r][o] # NoDelta \/ mine(r, o) # {}
visited(r, o) ==
  pc[r] \in {"loop", "compute"} /\ ~ unvisited(pc[r], todo[r], seen[r], o)

\* Session r goes past every committed run, what it read is still so, the rows
\* it picked up are still pending, and once it has visited an obligation that
\* has begun to earn it holds what brings that obligation up to its date.
SessionInStep(r) ==
  /\ pc[r] # "idle" => closed < through[r]
  /\ pc[r] = "compute" =>
       /\ seen[r].through = recognized_through(seen[r].obligation)
       /\ seen[r].obligation \in covered(r)
  /\ pc[r] \in {"loop", "compute"} => todo[r] \subseteq covered(r)
  /\ \A k \in picked[r] : usage[k].run = NoRun
  /\ \A o \in Obligations :
       /\ delta[r][o].recognized_through <= through[r]
       /\ working(r, o) => o \in covered(r)
       /\ Terms[o].pattern = "ratable_daily" =>
            Earning(Terms[o], recognized(o) + delta[r][o].recognized_cents,
                    later(recognized_through(o), delta[r][o].recognized_through))
       /\ visited(r, o) /\ (recognized(o) > 0 \/ working(r, o)) =>
            recognized(o) + delta[r][o].recognized_cents =
              due(Terms[o], recognized(o), through[r], units_of(usage, mine(r, o)))

SerialInv ==
  /\ CapInv
  /\ WorkOK
  /\ PaygEarnsItsUnits
  /\ NeverAheadOfUse
  /\ TablesInStep
  /\ \A r \in Runners : SessionInStep(r)

-----------------------------------------------------------------------------
(* What one computation makes due *)

\* A run computes exactly what is due.
LEMMA ComputeDue ==
  ASSUME NEW o, WellFormed(o), NEW c \in Nat, NEW t \in Nat \cup {NoDate},
         NEW d \in Nat, t < d, o.start_date <= d, NEW n \in Nat,
         o.pattern # "consumption_payg" => c <= o.total_amount_cents,
         o.pattern = "ratable_daily" => Earning(o, c, t)
  PROVE  c + compute_recognition(o, c, t, d, n).recognized_cents = due(o, c, d, n)
<1> DEFINE answer == compute_recognition(o, c, t, d, n)
<1>1. CASE o.pattern = "consumption_payg"
  <2>1. answer.recognized_cents = n * o.price_per_unit_cents
    BY <1>1, ComputePayg
  <2> QED
    BY <1>1, <2>1 DEF due
<1>2. CASE o.pattern = "consumption"
  <2> DEFINE share == (n * o.total_amount_cents) \div o.units_total
             left == o.total_amount_cents - c
  <2>1. o.total_amount_cents \in Nat /\ left \in Nat
    BY <1>2 DEF WellFormed
  <2>2. share \in Nat
    <3>1. o.units_total \in Nat \ {0} /\ n * o.total_amount_cents \in Nat
      BY <1>2 DEF WellFormed
    <3> QED
      BY <3>1, FloorShare
  <2>3. answer = Delta(Smaller(share, left), d)
    BY <1>2 DEF compute_recognition, compute_consumption
  <2>4. due(o, c, d, n) = Smaller(o.total_amount_cents, c + share)
    BY <1>2 DEF due
  <2> HIDE DEF share, answer
  <2>5. answer.recognized_cents = Smaller(share, left)
    BY <2>1, <2>2, <2>3 DEF Delta, NoDelta, Smaller
  <2> QED
    BY <2>1, <2>2, <2>4, <2>5 DEF Smaller, answer
<1>3. CASE o.pattern = "point_in_time"
  <2>1. answer = Delta(o.total_amount_cents - c, o.start_date)
    BY <1>3 DEF compute_recognition, compute_point_in_time, WellFormed
  <2>2. o.total_amount_cents \in Nat /\ o.start_date \in Nat
    BY DEF WellFormed
  <2>3. due(o, c, d, n) = o.total_amount_cents
    BY <1>3, <2>2 DEF due, Schedule!Scheduled
  <2> HIDE DEF answer
  <2>4. answer.recognized_cents = o.total_amount_cents - c
    BY <1>3, <2>1, <2>2 DEF Delta, NoDelta
  <2> QED
    BY <1>3, <2>2, <2>3, <2>4 DEF answer
<1>4. CASE o.pattern = "ratable_daily"
  <2>1. answer = compute_ratable_daily(o, c, t, d)
    BY <1>4 DEF compute_recognition
  <2>2. o.start_date \in Nat /\ o.end_date \in Nat
    BY <1>4, DailyRate
  <2>3. c + answer.recognized_cents =
          IF d <= o.end_date
          THEN daily_cents(o) * (d - o.start_date + 1) ELSE o.total_amount_cents
    <3>1. d >= o.start_date
      BY <2>2
    <3> HIDE DEF answer
    <3> QED
      BY <1>4, <2>1, <3>1, RatableStep
  <2>4. due(o, c, d, n) =
          IF d <= o.end_date
          THEN daily_cents(o) * (d - o.start_date + 1) ELSE o.total_amount_cents
    BY <1>4, <2>2 DEF due, Schedule!Scheduled, daily_cents, days_in_period
  <2> QED
    BY <2>3, <2>4
<1> QED
  BY <1>1, <1>2, <1>3, <1>4 DEF WellFormed, Patterns

\* A delta of any pattern keeps a ratable obligation at its rate.
LEMMA NothingEarning ==
  ASSUME NEW o, WellFormed(o), NEW c \in Nat, NEW t \in Nat \cup {NoDate},
         Earning(o, c, t)
  PROVE  Earning(o, c + NoDelta.recognized_cents, later(t, NoDelta.recognized_through))
<1>1. c + NoDelta.recognized_cents = c
  BY DEF NoDelta
<1>2. later(t, NoDelta.recognized_through) = t
  BY DEF NoDelta, later, NoDate
<1> QED
  BY <1>1, <1>2

-----------------------------------------------------------------------------
(* MAX over the runs *)

\* A run moves the MAX of an obligation's events to its own event, if later.
LEMMA MaxIs ==
  ASSUME NEW rs \in Seq(RunRows), NEW row \in RunRows, NEW o \in Obligations,
         has_max(rs, o)
  PROVE  max_through(Append(rs, row), o)
           = later(max_through(rs, o), row.event[o].recognized_through)
<1> DEFINE n == Len(rs)
           more == Append(rs, row)
           t == row.event[o].recognized_through
           m == max_through(rs, o)
           D == event_dates(rs, o)
<1>1. n \in Nat /\ DOMAIN rs = 1..n
  BY LenProperties
<1>2. /\ DOMAIN more = (1..n) \cup {n + 1}
      /\ \A i \in 1..n : more[i] = rs[i]
      /\ more[n + 1] = row
  BY <1>1
<1>3. event_dates(more, o) = D \cup {t}
  BY <1>1, <1>2 DEF event_dates
<1>4. t \in Int
  BY DEF RunRows, Deltas, NoDate
<1>5. D \subseteq Int
  <2>1. \A i \in 1..n : rs[i] \in RunRows
    BY <1>1, ElementOfSeq
  <2>2. \A i \in 1..n : rs[i].event[o].recognized_through \in Int
    BY <2>1 DEF RunRows, Deltas, NoDate
  <2> QED
    BY <1>1, <2>2 DEF event_dates, NoDate
<1>6. m \in D /\ \A e \in D : e <= m
  BY DEF has_max, max_through
<1> HIDE DEF n, more, t, m, D
<1>7. /\ later(m, t) \in D \cup {t}
      /\ \A e \in D \cup {t} : e <= later(m, t)
  BY <1>4, <1>5, <1>6 DEF later
<1>8. ASSUME NEW x \in D \cup {t}, \A e \in D \cup {t} : e <= x
      PROVE  x = later(m, t)
  <2>1. x <= later(m, t) /\ later(m, t) <= x
    BY <1>7, <1>8
  <2>2. x \in Int /\ later(m, t) \in Int
    BY <1>4, <1>5, <1>7
  <2> QED
    BY <2>1, <2>2
<1>9. (CHOOSE x \in D \cup {t} : \A e \in D \cup {t} : e <= x) = later(m, t)
  BY <1>7, <1>8
<1> QED
  BY <1>3, <1>9 DEF max_through, more, t, m

\* Before the first run there is nothing to add up and no latest date.
LEMMA NoEvents ==
  ASSUME NEW o \in Obligations
  PROVE  sum_cents(<<>>, o) = 0 /\ max_through(<<>>, o) = NoDate
<1>1. sum_cents(<<>>, o) = 0
  BY TotalEmpty DEF sum_cents
<1>2. event_dates(<<>>, o) = {NoDate}
  BY DEF event_dates
<1> QED
  BY <1>1, <1>2 DEF max_through, NoDate

-----------------------------------------------------------------------------
(* The invariant *)

\* What the committed tables and a session say depends on these variables.
LEMMA TablesKept ==
  ASSUME runs' = runs
  PROVE  /\ closed' = closed
         /\ \A o : /\ recognized(o)' = recognized(o)
                   /\ recognized_through(o)' = recognized_through(o)
BY DEF closed, recognized, recognized_through, sum_cents, max_through, event_dates

\* The answers of an obligation's two queries.
LEMMA Answers ==
  ASSUME TypeInv, NEW o \in Obligations
  PROVE  /\ recognized(o) \in Nat
         /\ recognized_through(o) \in Nat \cup {NoDate}
         /\ WellFormed(Terms[o])
BY SumType, MaxType, RecognitionAssumption
   DEF TypeInv, TypeOK, recognized, recognized_through

\* The date of the latest run.
LEMMA ClosedType ==
  ASSUME TypeInv
  PROVE  closed \in Nat \cup {NoDate}
<1>1. runs \in Seq(RunRows)
  BY DEF TypeInv, TypeOK
<1>2. CASE runs = <<>>
  BY <1>2 DEF closed
<1>3. CASE runs # <<>>
  <2>1. Len(runs) \in 1..Len(runs)
    BY <1>1, <1>3, EmptySeq, LenProperties
  <2>2. runs[Len(runs)] \in RunRows
    BY <1>1, <2>1, ElementOfSeq
  <2> QED
    BY <1>3, <2>2, RecognitionAssumption DEF closed, RunRows
<1> QED
  BY <1>2, <1>3

\* The invariant of a single session holds before the first run.
LEMMA SerialInit == Init => SerialInv
<1> SUFFICES ASSUME Init PROVE SerialInv
  OBVIOUS
<1>1. CapInv /\ TypeInv /\ WorkOK
  BY CapInit, UnitsInit DEF CapInv, UnitsInv
<1>2. runs = <<>> /\ closed = NoDate
  BY DEF Init, closed
<1>3. \A o \in Obligations : recognized(o) = 0 /\ recognized_through(o) = NoDate
  BY <1>2, NoEvents DEF recognized, recognized_through
<1>4. ASSUME NEW o \in Obligations
      PROVE  /\ units_in(consumed(o)) = 0
             /\ Terms[o].price_per_unit_cents \in Nat
             /\ Terms[o].total_amount_cents \in Nat /\ Terms[o].units_total \in Nat
  <2>1. rows_of(usage, o) = {}
    BY DEF rows_of, Init
  <2>2. stamped(usage, o) = {}
    BY <2>1 DEF stamped
  <2>3. units_of(usage, {}) = 0
    BY TotalEmpty DEF units_of
  <2>4. units_in(consumed(o)) = 0
    BY <2>2, <2>3, ConsumedRows
  <2> QED
    BY <2>4, RecognitionAssumption DEF WellFormed
<1>5. PaygEarnsItsUnits
  BY <1>3, <1>4 DEF PaygEarnsItsUnits
<1>6. NeverAheadOfUse
  BY <1>3, <1>4 DEF NeverAheadOfUse
<1>7. ASSUME NEW o \in Obligations, Terms[o].pattern = "ratable_daily"
      PROVE  Earning(Terms[o], 0, NoDate)
  BY <1>7, DailyRate, RecognitionAssumption DEF Earning, NoDate
<1>8. TablesInStep
  <2>1. DOMAIN runs = {}
    BY <1>2
  <2>2. \A o \in Obligations : ~ (recognized(o) > 0) /\ recognized_through(o) <= closed
    BY <1>2, <1>3 DEF NoDate
  <2> QED
    BY <1>3, <1>7, <2>1, <2>2 DEF TablesInStep
<1>9. ASSUME NEW r \in Runners PROVE SessionInStep(r)
  <2>1. /\ pc[r] = "idle" /\ through[r] = NoDate
        /\ delta[r] = NoDeltas /\ picked[r] = {}
    BY DEF Init
  <2>2. ASSUME NEW o \in Obligations
        PROVE  delta[r][o] = NoDelta /\ mine(r, o) = {} /\ ~ working(r, o) /\ ~ visited(r, o)
    BY <2>1 DEF mine, working, visited, NoDeltas
  <2>3. ASSUME NEW o \in Obligations, Terms[o].pattern = "ratable_daily"
        PROVE  Earning(Terms[o], recognized(o) + delta[r][o].recognized_cents,
                       later(recognized_through(o), delta[r][o].recognized_through))
    BY <1>3, <1>7, <2>2, <2>3, NothingEarning, RecognitionAssumption
  <2> QED
    BY <2>1, <2>2, <2>3 DEF SessionInStep, NoDelta, NoDate
<1> QED
  BY <1>1, <1>5, <1>6, <1>8, <1>9 DEF SerialInv

\* One committed run, table by table.
LEMMA CommitTables ==
  ASSUME TypeInv, NEW r \in Runners, Commit(r)
  PROVE  /\ \A i \in DOMAIN runs' : \/ i \in DOMAIN runs /\ runs'[i] = runs[i]
                                    \/ i \notin DOMAIN runs /\ runs'[i].through = through[r]
         /\ closed' = through[r]
         /\ \A o \in Obligations :
              /\ recognized(o)' = recognized(o) + delta[r][o].recognized_cents
              /\ recognized_through(o)'
                   = later(recognized_through(o), delta[r][o].recognized_through)
<1> DEFINE row == [through |-> through[r], event |-> delta[r]]
<1>1. row \in RunRows /\ runs \in Seq(RunRows) /\ runs' = Append(runs, row)
  BY CommitAppends
<1>2. /\ Len(runs) \in Nat /\ DOMAIN runs = 1..Len(runs)
      /\ Len(runs') = Len(runs) + 1 /\ DOMAIN runs' = 1..(Len(runs) + 1)
      /\ \A i \in 1..Len(runs) : runs'[i] = runs[i]
      /\ runs'[Len(runs) + 1] = row
  BY <1>1
<1>3. closed' = through[r]
  <2>1. runs' # <<>>
    BY <1>1, <1>2
  <2> QED
    BY <1>2, <2>1 DEF closed
<1>4. ASSUME NEW o \in Obligations
      PROVE  /\ recognized(o)' = recognized(o) + delta[r][o].recognized_cents
             /\ recognized_through(o)'
                  = later(recognized_through(o), delta[r][o].recognized_through)
  <2>1. sum_cents(Append(runs, row), o)
          = sum_cents(runs, o) + row.event[o].recognized_cents
    BY <1>1, SumAppend
  <2>2. max_through(Append(runs, row), o)
          = later(max_through(runs, o), row.event[o].recognized_through)
    BY <1>1, MaxIs DEF TypeInv
  <2> QED
    BY <1>1, <2>1, <2>2 DEF recognized, recognized_through
<1>5. \A i \in DOMAIN runs' : \/ i \in DOMAIN runs /\ runs'[i] = runs[i]
                              \/ i \notin DOMAIN runs /\ runs'[i].through = through[r]
  BY <1>2
<1> QED
  BY <1>3, <1>4, <1>5

\* A session that has done nothing is in step with any tables that are.
IdleInStep ==
  TypeInv /\ TablesInStep =>
    \A r \in Runners :
      pc[r] = "idle" /\ delta[r] = NoDeltas /\ picked[r] = {} => SessionInStep(r)

\* A session between runs is in step with the tables.
LEMMA IdleSessions == IdleInStep
<1> SUFFICES ASSUME TypeInv, TablesInStep, NEW r \in Runners, pc[r] = "idle",
                    delta[r] = NoDeltas, picked[r] = {}
             PROVE  SessionInStep(r)
  BY DEF IdleInStep
<1>1. ASSUME NEW o \in Obligations
      PROVE  delta[r][o] = NoDelta /\ mine(r, o) = {} /\ ~ working(r, o) /\ ~ visited(r, o)
  BY DEF mine, working, visited, NoDeltas
<1>2. ASSUME NEW o \in Obligations, Terms[o].pattern = "ratable_daily"
      PROVE  Earning(Terms[o], recognized(o) + delta[r][o].recognized_cents,
                     later(recognized_through(o), delta[r][o].recognized_through))
  BY <1>1, <1>2, Answers, NothingEarning DEF TablesInStep
<1>3. through[r] \in Nat \cup {NoDate}
  BY RecognitionAssumption DEF TypeInv, TypeOK
<1>4. \A o \in Obligations : delta[r][o].recognized_through <= through[r]
  BY <1>1, <1>3 DEF NoDelta, NoDate
<1> QED
  BY <1>1, <1>2, <1>4 DEF SessionInStep

\* A step that leaves the committed tables alone, creates obligations only, and
\* changes no row a session has picked up, keeps a session in step that it does
\* not touch.
LEMMA SessionKept ==
  ASSUME TypeInv, runs' = runs, created \subseteq created',
         NEW r \in Runners, SessionInStep(r),
         UNCHANGED <<pc, through, todo, seen, delta, picked>>,
         \A k \in Keys : usage'[k] = usage[k] \/ k \notin picked[r]
  PROVE  SessionInStep(r)'
<1>1. /\ closed' = closed
      /\ \A o : /\ recognized(o)' = recognized(o)
                /\ recognized_through(o)' = recognized_through(o)
  BY TablesKept
<1>2. picked[r] \subseteq Keys
  BY DEF TypeInv, TypeOK
<1>3. covered(r) \subseteq covered(r)'
  BY DEF covered
<1>4. ASSUME NEW o \in Obligations
      PROVE  /\ mine(r, o)' = mine(r, o)
             /\ units_of(usage', mine(r, o)) = units_of(usage, mine(r, o))
             /\ visited(r, o)' <=> visited(r, o)
             /\ working(r, o)' <=> working(r, o)
  <2>1. mine(r, o)' = mine(r, o)
    BY <1>2 DEF mine, rows_of
  <2>2. \A k \in mine(r, o) : usage'[k].units = usage[k].units
    BY <1>2 DEF mine
  <2>3. units_of(usage', mine(r, o)) = units_of(usage, mine(r, o))
    BY <2>2, UnitsOfKept
  <2>4. visited(r, o)' <=> visited(r, o)
    BY DEF visited
  <2>5. working(r, o)' <=> working(r, o)
    BY <2>1 DEF working
  <2> QED
    BY <2>1, <2>3, <2>4, <2>5
<1>5. \A k \in picked[r] : usage'[k].run = NoRun
  BY <1>2 DEF SessionInStep
<1>6. ASSUME NEW o \in Obligations
      PROVE  units_of(usage', mine(r, o)') = units_of(usage, mine(r, o))
  BY <1>4
<1>7. ASSUME NEW o \in Obligations
      PROVE  /\ delta[r][o].recognized_through <= through[r]
             /\ working(r, o)' => o \in covered(r)'
             /\ Terms[o].pattern = "ratable_daily" =>
                  Earning(Terms[o], recognized(o)' + delta[r][o].recognized_cents,
                          later(recognized_through(o)', delta[r][o].recognized_through))
             /\ visited(r, o)' /\ (recognized(o)' > 0 \/ working(r, o)') =>
                  recognized(o)' + delta[r][o].recognized_cents =
                    due(Terms[o], recognized(o)', through[r],
                        units_of(usage', mine(r, o)'))
  <2>1. recognized(o)' = recognized(o) /\ recognized_through(o)' = recognized_through(o)
    BY <1>1
  <2>2. working(r, o)' => o \in covered(r)'
    BY <1>3, <1>4 DEF SessionInStep
  <2>3. Terms[o].pattern = "ratable_daily" =>
          Earning(Terms[o], recognized(o)' + delta[r][o].recognized_cents,
                  later(recognized_through(o)', delta[r][o].recognized_through))
    BY <2>1 DEF SessionInStep
  <2>4. visited(r, o)' /\ (recognized(o)' > 0 \/ working(r, o)') =>
          recognized(o)' + delta[r][o].recognized_cents =
            due(Terms[o], recognized(o)', through[r], units_of(usage', mine(r, o)'))
    BY <1>4, <1>6, <2>1 DEF SessionInStep
  <2> QED
    BY <2>2, <2>3, <2>4 DEF SessionInStep
<1>8. /\ pc[r] # "idle" => closed' < through[r]
      /\ pc[r] = "compute" => seen[r].obligation \in covered(r)'
      /\ pc[r] \in {"loop", "compute"} => todo[r] \subseteq covered(r)'
  BY <1>1, <1>3 DEF SessionInStep
<1>9. pc[r] = "compute" => seen[r].through = max_through(runs', seen[r].obligation)
  BY DEF SessionInStep, recognized_through
<1> QED
  BY <1>5, <1>7, <1>8, <1>9 DEF SessionInStep, recognized_through

\* The committed tables stay in step when no run commits: obligations and usage
\* are only added, and new usage is pending.
LEMMA TablesStay ==
  ASSUME SerialInv, runs' = runs, created \subseteq created',
         \A k \in Keys : \/ usage'[k] = usage[k]
                         \/ usage[k] = NoRow /\ usage'[k].run = NoRun
  PROVE  PaygEarnsItsUnits' /\ NeverAheadOfUse' /\ TablesInStep'
<1>1. /\ closed' = closed
      /\ \A o : /\ recognized(o)' = recognized(o)
                /\ recognized_through(o)' = recognized_through(o)
  BY TablesKept
<1>2. ASSUME NEW o \in Obligations
      PROVE  units_in(consumed(o))' = units_in(consumed(o))
  <2>1. stamped(usage', o) = stamped(usage, o)
    BY DEF stamped, rows_of
  <2>2. \A k \in stamped(usage, o) : usage'[k].units = usage[k].units
    BY DEF stamped, rows_of
  <2>3. units_of(usage', stamped(usage, o)) = units_of(usage, stamped(usage, o))
    BY <2>2, UnitsOfKept
  <2>4. units_in(consumed(o))' = units_of(usage', stamped(usage', o))
    <3>1. UsageOf(o)' = rows_of(usage', o)
      BY DEF UsageOf, rows_of
    <3>2. consumed(o)' = stamped(usage', o)
      BY <3>1 DEF consumed, pending_usage_for, stamped
    <3>3. units_in(consumed(o))' = units_of(usage', consumed(o)')
      BY DEF units_in, units_of
    <3> QED
      BY <3>2, <3>3
  <2>5. units_in(consumed(o)) = units_of(usage, stamped(usage, o))
    BY ConsumedRows
  <2> QED
    BY <2>1, <2>3, <2>4, <2>5
<1>3. PaygEarnsItsUnits'
  BY <1>1, <1>2 DEF SerialInv, PaygEarnsItsUnits
<1>4. NeverAheadOfUse'
  BY <1>1, <1>2 DEF SerialInv, NeverAheadOfUse
<1>5. TablesInStep'
  BY <1>1 DEF SerialInv, TablesInStep
<1> QED
  BY <1>3, <1>4, <1>5

\* What a session computes for an obligation is due, and no more of it is pending.
LEMMA ComputeInStep ==
  ASSUME TypeInv, SerialInv, NEW r \in Runners, ComputeDelta(r), TypeInv'
  PROVE  SessionInStep(r)'
<1> DEFINE o == seen[r].obligation
           c == seen[r].cents
           t == seen[r].through
           d == through[r]
           keys == pending_usage_for(o)
           n == units_in(keys)
           answer == compute_recognition(Terms[o], c, t, d, n)
<1>1. /\ pc[r] = "compute" /\ SessionInStep(r)
      /\ UNCHANGED <<created, usage, runs, posted, through, todo>>
  BY DEF SerialInv, ComputeDelta, tables
<1>2. /\ pc'[r] = "loop" /\ delta'[r] = [delta[r] EXCEPT ![o] = answer]
      /\ picked'[r] = picked[r] \cup keys
  BY DEF ComputeDelta, TypeInv, TypeOK
<1>3. /\ o \in Obligations /\ c \in Nat /\ t \in Nat \cup {NoDate}
      /\ d \in Nat /\ closed < d
  BY <1>1, RecognitionAssumption DEF TypeInv, SessionsOK, SeenRows, SessionInStep
<1>4. c = recognized(o) /\ t = recognized_through(o) /\ o \in covered(r)
  BY <1>1 DEF SerialInv, CapInv, NothingStale, SessionInStep
<1>5. keys \subseteq rows_of(usage, o) /\ keys \subseteq Keys
  BY <1>3, ConsumedRows DEF pending_usage_for, UsageOf
<1>6. n \in Nat /\ n = units_of(usage, keys)
  <2>1. \A k \in keys : usage[k] \in UsageRows
    BY DEF pending_usage_for, UsageOf, TypeInv, TypeOK
  <2> QED
    BY <1>5, <2>1, UnitsType DEF units_in, units_of
<1>7. mine(r, o) = {} /\ o \notin todo[r]
  BY <1>1, <1>3 DEF SerialInv, WorkOK, Work, unvisited, mine
<1>8. /\ WellFormed(Terms[o]) /\ t < d /\ Terms[o].start_date <= d
      /\ Terms[o].pattern # "consumption_payg" => c <= Terms[o].total_amount_cents
      /\ Terms[o].pattern = "ratable_daily" => Earning(Terms[o], c, t)
  <2>1. t <= closed
    BY <1>3, <1>4 DEF SerialInv, TablesInStep
  <2>2. closed \in Int /\ t \in Int
    BY <1>3, ClosedType DEF NoDate
  <2>3. Terms[o].start_date <= d
    BY <1>4 DEF covered
  <2>4. Terms[o].pattern # "consumption_payg" => c <= Terms[o].total_amount_cents
    BY <1>3, <1>4 DEF SerialInv, CapInv, NoOverRecognition
  <2>5. Terms[o].pattern = "ratable_daily" => Earning(Terms[o], c, t)
    BY <1>3, <1>4 DEF SerialInv, TablesInStep
  <2> QED
    BY <1>3, <2>1, <2>2, <2>3, <2>4, <2>5, RecognitionAssumption
<1>9. answer.recognized_through <= d
  BY <1>3, <1>6, <1>8, ComputeThrough
<1>10. Terms[o].pattern = "ratable_daily" =>
         Earning(Terms[o], c + answer.recognized_cents, later(t, answer.recognized_through))
  <2>1. ASSUME Terms[o].pattern = "ratable_daily"
        PROVE  answer = compute_ratable_daily(Terms[o], c, t, d)
    BY <2>1 DEF compute_recognition
  <2> QED
    BY <1>3, <1>8, <2>1, RatableStep
<1>11. c + answer.recognized_cents = due(Terms[o], c, d, n)
  BY <1>3, <1>6, <1>8, ComputeDue
<1>12. DOMAIN delta[r] = Obligations
  BY DEF TypeInv, TypeOK
<1>13. \A k \in keys : usage[k].run = NoRun
  BY DEF pending_usage_for
<1> HIDE DEF o, c, t, d, keys, n, answer
<1>14. picked'[r] \cap rows_of(usage, o) = keys
  BY <1>2, <1>5, <1>7 DEF mine
<1>15. ASSUME NEW x \in Obligations, x # o
       PROVE  /\ delta'[r][x] = delta[r][x]
              /\ picked'[r] \cap rows_of(usage, x) = mine(r, x)
              /\ unvisited("loop", todo[r], seen'[r], x)
                   <=> unvisited("compute", todo[r], seen[r], x)
  BY <1>2, <1>5, <1>12, <1>15 DEF rows_of, mine, unvisited, o
<1>16. delta'[r][o] = answer
  BY <1>2, <1>3, <1>12
<1>17. ASSUME NEW x \in Obligations
       PROVE  /\ delta'[r][x].recognized_through <= d
              /\ delta'[r][x] # NoDelta \/ picked'[r] \cap rows_of(usage, x) # {}
                   => x \in covered(r)
              /\ Terms[x].pattern = "ratable_daily" =>
                   Earning(Terms[x], recognized(x) + delta'[r][x].recognized_cents,
                           later(recognized_through(x), delta'[r][x].recognized_through))
              /\ /\ ~ unvisited("loop", todo[r], seen'[r], x)
                 /\ \/ recognized(x) > 0 \/ delta'[r][x] # NoDelta
                    \/ picked'[r] \cap rows_of(usage, x) # {}
                 => recognized(x) + delta'[r][x].recognized_cents =
                      due(Terms[x], recognized(x), d,
                          units_of(usage, picked'[r] \cap rows_of(usage, x)))
  <2>1. CASE x = o
    BY <1>4, <1>6, <1>9, <1>10, <1>11, <1>14, <1>16, <2>1
  <2>2. CASE x # o
    BY <1>1, <1>15, <2>2 DEF SessionInStep, d, working, visited
  <2> QED
    BY <2>1, <2>2
<1>18. /\ closed' = closed
       /\ \A x : /\ recognized(x)' = recognized(x)
                 /\ recognized_through(x)' = recognized_through(x)
  BY <1>1, TablesKept
<1>19. \A k \in picked'[r] : usage'[k].run = NoRun
  BY <1>1, <1>2, <1>13 DEF SessionInStep
<1>20. covered(r)' = covered(r) /\ todo'[r] \subseteq covered(r)
  BY <1>1 DEF covered, SessionInStep
<1>21. ASSUME NEW x \in Obligations
       PROVE  /\ mine(r, x)' = picked'[r] \cap rows_of(usage, x)
              /\ working(r, x)' <=> \/ delta'[r][x] # NoDelta
                                    \/ picked'[r] \cap rows_of(usage, x) # {}
              /\ visited(r, x)' <=> ~ unvisited("loop", todo[r], seen'[r], x)
  BY <1>1, <1>2 DEF mine, working, visited
<1>22. ASSUME NEW x \in Obligations
       PROVE  /\ delta'[r][x].recognized_through <= through'[r]
              /\ working(r, x)' => x \in covered(r)'
              /\ Terms[x].pattern = "ratable_daily" =>
                   Earning(Terms[x], recognized(x)' + delta'[r][x].recognized_cents,
                           later(recognized_through(x)', delta'[r][x].recognized_through))
              /\ visited(r, x)' /\ (recognized(x)' > 0 \/ working(r, x)') =>
                   recognized(x)' + delta'[r][x].recognized_cents =
                     due(Terms[x], recognized(x)', through'[r],
                         units_of(usage', mine(r, x)'))
  <2>1. /\ recognized(x)' = recognized(x) /\ recognized_through(x)' = recognized_through(x)
        /\ usage' = usage /\ through'[r] = d
    BY <1>1, <1>18 DEF d
  <2> QED
    BY <1>17, <1>20, <1>21, <2>1
<1>23. closed' < through'[r]
  BY <1>1, <1>3, <1>18 DEF d
<1> QED
  BY <1>2, <1>19, <1>20, <1>22, <1>23 DEF SessionInStep

\* A commit brings the tables in step with its date.
LEMMA CommitInStep ==
  ASSUME SerialInv, NEW r \in Runners, Commit(r)
  PROVE  PaygEarnsItsUnits' /\ NeverAheadOfUse' /\ TablesInStep'
<1>1. TypeInv /\ TypeOK /\ SessionInStep(r) /\ TablesInStep
  BY DEF SerialInv, CapInv, TypeInv
<1>2. pc[r] = "loop" /\ todo[r] = {} /\ created' = created /\ through[r] \in Nat
  BY <1>1, RecognitionAssumption DEF Commit, TypeInv, SessionsOK
<1>3. /\ closed < through[r] /\ closed' = through[r] /\ closed \in Int
  BY <1>1, <1>2, CommitTables, ClosedType DEF SessionInStep, NoDate
<1>4. ASSUME NEW o \in Obligations
      PROVE  /\ recognized(o)' = recognized(o) + delta[r][o].recognized_cents
             /\ recognized_through(o)'
                  = later(recognized_through(o), delta[r][o].recognized_through)
             /\ recognized(o) \in Nat /\ delta[r][o].recognized_cents \in Nat
             /\ visited(r, o)
             /\ recognized(o)' > 0 => recognized(o) > 0 \/ working(r, o)
             /\ recognized(o)' > 0 => o \in created /\ Terms[o].start_date <= through[r]
  <2>1. /\ recognized(o)' = recognized(o) + delta[r][o].recognized_cents
        /\ recognized_through(o)'
             = later(recognized_through(o), delta[r][o].recognized_through)
    BY <1>1, CommitTables
  <2>2. recognized(o) \in Nat /\ delta[r][o].recognized_cents \in Nat
    BY <1>1, Answers DEF TypeOK, Deltas
  <2>3. visited(r, o)
    BY <1>2 DEF visited, unvisited
  <2>4. recognized(o)' > 0 => recognized(o) > 0 \/ working(r, o)
    BY <2>1, <2>2 DEF working, NoDelta
  <2>5. recognized(o) > 0 => o \in created /\ Terms[o].start_date <= through[r]
    BY <1>1, <1>2, <1>3, Answers DEF TablesInStep, WellFormed
  <2>6. working(r, o) => o \in created /\ Terms[o].start_date <= through[r]
    BY <1>1 DEF SessionInStep, covered
  <2> QED
    BY <2>1, <2>2, <2>3, <2>4, <2>5, <2>6
<1>5. ASSUME NEW o \in Obligations
      PROVE  /\ recognized_through(o)' <= closed'
             /\ Terms[o].pattern = "ratable_daily" =>
                  Earning(Terms[o], recognized(o)', recognized_through(o)')
             /\ Terms[o].pattern \notin UsagePatterns /\ recognized(o)' > 0 =>
                  recognized(o)' = Schedule!Scheduled(Terms[o], closed')
  <2>1. /\ recognized_through(o) <= closed /\ recognized_through(o) \in Int
        /\ delta[r][o].recognized_through <= through[r]
    BY <1>1, Answers DEF TablesInStep, SessionInStep, NoDate
  <2>2. recognized_through(o)' <= closed'
    BY <1>2, <1>3, <1>4, <2>1 DEF later
  <2>3. Terms[o].pattern = "ratable_daily" =>
          Earning(Terms[o], recognized(o)', recognized_through(o)')
    BY <1>1, <1>4 DEF SessionInStep
  <2>4. ASSUME Terms[o].pattern \notin UsagePatterns, recognized(o)' > 0
        PROVE  recognized(o)' = Schedule!Scheduled(Terms[o], closed')
    <3>1. recognized(o) + delta[r][o].recognized_cents =
            due(Terms[o], recognized(o), through[r], units_of(usage, mine(r, o)))
      BY <1>1, <1>4, <2>4 DEF SessionInStep
    <3>2. due(Terms[o], recognized(o), through[r], units_of(usage, mine(r, o)))
            = Schedule!Scheduled(Terms[o], through[r])
      BY <2>4 DEF due, UsagePatterns
    <3> QED
      BY <1>3, <1>4, <3>1, <3>2
  <2> QED
    BY <2>2, <2>3, <2>4
<1>6. \A i \in DOMAIN runs' : runs'[i].through <= closed'
  <2>1. ASSUME NEW i \in DOMAIN runs PROVE runs[i].through \in Int /\ runs[i].through <= closed
    <3>1. runs[i] \in RunRows
      BY <1>1, LenProperties, ElementOfSeq DEF TypeOK
    <3>2. \A row \in RunRows : row.through \in Nat
      BY RecognitionAssumption DEF RunRows
    <3>3. runs[i].through <= closed
      BY <1>1 DEF TablesInStep
    <3> QED
      BY <3>1, <3>2, <3>3
  <2> QED
    BY <1>1, <1>2, <1>3, <2>1, CommitTables
<1>7. TablesInStep'
  BY <1>2, <1>3, <1>4, <1>5, <1>6 DEF TablesInStep
<1>8. ASSUME NEW o \in Obligations
      PROVE  /\ units_in(consumed(o)) \in Nat /\ units_of(usage, mine(r, o)) \in Nat
             /\ units_in(consumed(o))'
                  = units_in(consumed(o)) + units_of(usage, mine(r, o))
  <2>1. /\ units_in(consumed(o))' = units_of(usage, stamped(usage, o) \cup mine(r, o))
        /\ units_of(usage, mine(r, o)) \in Nat
        /\ units_of(usage, stamped(usage, o)) \in Nat
    BY <1>1, CommitStamps DEF SerialInv, mine
  <2>2. stamped(usage, o) \cap mine(r, o) = {}
    BY <1>1 DEF SessionInStep, mine, stamped
  <2>3. /\ stamped(usage, o) \subseteq Keys /\ mine(r, o) \subseteq Keys
        /\ \A k \in stamped(usage, o) \cup mine(r, o) : usage[k] \in UsageRows
    BY <1>1 DEF stamped, mine, rows_of, TypeOK
  <2>4. units_of(usage, stamped(usage, o) \cup mine(r, o))
          = units_of(usage, stamped(usage, o)) + units_of(usage, mine(r, o))
    BY <2>2, <2>3, UnitsOfUnion
  <2>5. units_in(consumed(o)) = units_of(usage, stamped(usage, o))
    BY ConsumedRows
  <2> QED
    BY <2>1, <2>4, <2>5
<1>9. ASSUME NEW o \in Obligations
      PROVE  /\ Terms[o].price_per_unit_cents \in Nat
             /\ Terms[o].total_amount_cents \in Nat /\ Terms[o].units_total \in Nat
             /\ Paid(usage, o, delta[r][o].recognized_cents, mine(r, o))
  BY RecognitionAssumption DEF WellFormed, SerialInv, WorkOK, Work, mine
<1>10. PaygEarnsItsUnits'
  <2>1. ASSUME NEW o \in Obligations, Terms[o].pattern = "consumption_payg"
        PROVE  recognized(o)' = Terms[o].price_per_unit_cents * units_in(consumed(o))'
    <3> DEFINE price == Terms[o].price_per_unit_cents
               before == units_in(consumed(o))
               more == units_of(usage, mine(r, o))
    <3>1. recognized(o) = price * before /\ delta[r][o].recognized_cents = price * more
      BY <1>9, <2>1 DEF SerialInv, PaygEarnsItsUnits, Paid
    <3>2. price \in Nat /\ before \in Nat /\ more \in Nat
      BY <1>8, <1>9
    <3>3. /\ recognized(o)' = recognized(o) + delta[r][o].recognized_cents
          /\ units_in(consumed(o))' = before + more
      BY <1>4, <1>8
    <3>4. recognized(o)' = price * before + price * more
      BY <3>1, <3>3
    <3> HIDE DEF price, before, more
    <3>5. price * before + price * more = price * (before + more)
      BY <3>2
    <3>6. recognized(o)' = price * units_in(consumed(o))'
      BY <3>3, <3>4, <3>5
    <3> QED
      BY <3>6 DEF price
  <2> QED
    BY <2>1 DEF PaygEarnsItsUnits
<1>11. NeverAheadOfUse'
  <2>1. ASSUME NEW o \in Obligations, Terms[o].pattern = "consumption"
        PROVE  recognized(o)' * Terms[o].units_total
                 <= Terms[o].total_amount_cents * units_in(consumed(o))'
    <3> DEFINE total == Terms[o].total_amount_cents
               N == Terms[o].units_total
               c == recognized(o)
               e == delta[r][o].recognized_cents
               before == units_in(consumed(o))
               more == units_of(usage, mine(r, o))
    <3>1. c * N <= total * before /\ e * N <= total * more
      BY <1>9, <2>1 DEF SerialInv, NeverAheadOfUse, Paid
    <3>2. total \in Nat /\ N \in Nat /\ c \in Nat /\ e \in Nat /\ before \in Nat /\ more \in Nat
      BY <1>4, <1>8, <1>9
    <3>3. recognized(o)' = c + e /\ units_in(consumed(o))' = before + more
      BY <1>4, <1>8
    <3> HIDE DEF total, N, c, e, before, more
    <3>4. (c + e) * N = c * N + e * N /\ total * (before + more) = total * before + total * more
      BY <3>2
    <3>5. c * N \in Nat /\ e * N \in Nat /\ total * before \in Nat /\ total * more \in Nat
      BY <3>2
    <3>6. (c + e) * N <= total * (before + more)
      BY <3>1, <3>4, <3>5
    <3> QED
      BY <3>3, <3>6 DEF N, total
  <2> QED
    BY <2>1 DEF NeverAheadOfUse
<1> QED
  BY <1>7, <1>10, <1>11

\* One session at a time keeps the invariant, whatever its fate.
LEMMA SerialStep ==
  ASSUME \A r, s \in Runners : r = s
  PROVE  SerialInv /\ [Next]_vars => SerialInv'
<1> SUFFICES ASSUME SerialInv, [Next]_vars PROVE SerialInv'
  OBVIOUS
<1>1. CapInv' /\ TypeInv /\ TypeInv' /\ TypeOK
  BY CapStep, TypeStep DEF SerialInv, CapInv, TypeInv
<1>2. WorkOK'
  <2>1. NoUnitLost
    <3>1. ASSUME NEW o \in Obligations, Terms[o].pattern = "consumption_payg"
          PROVE  recognized(o) >= Terms[o].price_per_unit_cents * units_in(consumed(o))
      BY <1>1, <3>1, Answers DEF SerialInv, PaygEarnsItsUnits
    <3> QED
      BY <3>1 DEF NoUnitLost
  <2> QED
    BY <1>1, <2>1, UnitsStep DEF SerialInv, UnitsInv
<1>3. ASSUME runs' = runs, created \subseteq created',
             UNCHANGED <<pc, through, todo, seen, delta, picked>>,
             \A k \in Keys : \/ usage'[k] = usage[k]
                             \/ usage[k] = NoRow /\ usage'[k].run = NoRun
      PROVE  SerialInv'
  <2>1. PaygEarnsItsUnits' /\ NeverAheadOfUse' /\ TablesInStep'
    BY <1>3, TablesStay
  <2>2. ASSUME NEW r \in Runners PROVE SessionInStep(r)'
    <3>1. \A k \in Keys : usage'[k] = usage[k] \/ k \notin picked[r]
      BY <1>1, <1>3, RecognitionAssumption DEF TypeInv, SessionsOK
    <3>2. SessionInStep(r)
      BY DEF SerialInv
    <3> QED
      BY <1>1, <1>3, <3>1, <3>2, SessionKept
  <2> QED
    BY <1>1, <1>2, <2>1, <2>2 DEF SerialInv
<1>4. ASSUME NEW r \in Runners, UNCHANGED tables, SessionInStep(r)'
      PROVE  SerialInv'
  <2>1. PaygEarnsItsUnits' /\ NeverAheadOfUse' /\ TablesInStep'
    BY <1>4, TablesStay DEF tables
  <2>2. \A s \in Runners : s = r
    OBVIOUS
  <2> QED
    BY <1>1, <1>2, <1>4, <2>1, <2>2 DEF SerialInv
<1>5. CASE UNCHANGED vars
  BY <1>3, <1>5 DEF vars
<1>6. ASSUME NEW o \in Obligations, CreateObligation(o) PROVE SerialInv'
  BY <1>3, <1>6 DEF CreateObligation, session
<1>7. ASSUME NEW k \in Keys, NEW o \in Obligations, NEW n \in UnitSizes,
             PostUsage(k, o, n)
      PROVE  SerialInv'
  <2>1. /\ UNCHANGED <<created, runs, posted, session>> /\ usage[k] = NoRow
        /\ usage' = [usage EXCEPT ![k] = [obligation |-> o, units |-> n, run |-> NoRun]]
    BY <1>7 DEF PostUsage
  <2>2. \A x \in Keys : \/ usage'[x] = usage[x]
                        \/ usage[x] = NoRow /\ usage'[x].run = NoRun
    BY <1>1, <2>1 DEF TypeOK
  <2> QED
    BY <1>3, <2>1, <2>2 DEF session
<1>8. ASSUME NEW r \in Runners, EndSession(r), TablesInStep'
      PROVE  SessionInStep(r)'
  <2>1. IdleInStep'
    BY IdleSessions, PTL
  <2>2. pc'[r] = "idle" /\ delta'[r] = NoDeltas /\ picked'[r] = {}
    BY <1>1, <1>8 DEF EndSession, TypeOK
  <2> QED
    BY <1>1, <1>8, <2>1, <2>2 DEF IdleInStep
<1>9. ASSUME NEW r \in Runners, NEW d \in Dates, StartRun(r, d) PROVE SerialInv'
  <2>1. /\ UNCHANGED <<tables, todo, seen, delta, picked>>
        /\ pc[r] = "idle" /\ pc'[r] = "load" /\ through'[r] = d /\ d \in Nat
        /\ \A i \in DOMAIN runs : ~ (runs[i].through >= d)
    BY <1>1, <1>9, RecognitionAssumption DEF StartRun, existing_completed_run, TypeOK
  <2>2. SessionInStep(r)
    BY DEF SerialInv
  <2>3. closed < d
    <3>1. CASE runs = <<>>
      BY <2>1, <3>1 DEF closed, NoDate
    <3>2. CASE runs # <<>>
      <4>1. runs \in Seq(RunRows)
        BY <1>1 DEF TypeOK
      <4>2. Len(runs) \in DOMAIN runs
        BY <3>2, <4>1, EmptySeq, LenProperties
      <4>3. closed = runs[Len(runs)].through
        BY <3>2 DEF closed
      <4>4. closed \in Int
        BY <1>1, ClosedType DEF NoDate
      <4> QED
        BY <2>1, <4>2, <4>3, <4>4
    <3> QED
      BY <3>1, <3>2
  <2>4. ASSUME NEW o \in Obligations
        PROVE  delta[r][o] = NoDelta /\ mine(r, o) = {}
    BY <2>1 DEF SerialInv, WorkOK, Work, unvisited, mine
  <2>5. ASSUME NEW o \in Obligations
        PROVE  delta'[r][o] = NoDelta /\ mine(r, o)' = {} /\ ~ working(r, o)' /\ ~ visited(r, o)'
    BY <2>1, <2>4 DEF mine, working, visited, tables
  <2>6. ASSUME NEW o \in Obligations
        PROVE  recognized(o)' = recognized(o) /\ recognized_through(o)' = recognized_through(o)
    BY <2>1, TablesKept DEF tables
  <2>7. ASSUME NEW o \in Obligations
        PROVE  /\ delta'[r][o].recognized_through <= through'[r]
               /\ Terms[o].pattern = "ratable_daily" =>
                    Earning(Terms[o], recognized(o)' + delta'[r][o].recognized_cents,
                            later(recognized_through(o)', delta'[r][o].recognized_through))
    <3>1. delta'[r][o].recognized_through <= through'[r]
      BY <2>1, <2>5 DEF NoDelta, NoDate
    <3> QED
      BY <2>1, <2>2, <2>5, <2>6, <3>1 DEF SessionInStep
  <2>8. closed' < through'[r] /\ \A k \in picked'[r] : usage'[k].run = NoRun
    BY <2>1, <2>2, <2>3, TablesKept DEF SessionInStep, tables
  <2>9. SessionInStep(r)'
    BY <2>1, <2>5, <2>7, <2>8 DEF SessionInStep
  <2> QED
    BY <1>4, <2>1, <2>9
<1>10. ASSUME NEW r \in Runners, LoadObligations(r) PROVE SerialInv'
  <2>1. /\ UNCHANGED <<tables, through, seen, delta, picked>>
        /\ pc[r] = "load" /\ pc'[r] = "loop" /\ todo'[r] = covered(r)
    BY <1>1, <1>10 DEF LoadObligations, covered, TypeOK
  <2>2. SessionInStep(r)
    BY DEF SerialInv
  <2>3. closed < through[r] /\ closed \in Int /\ through[r] \in Nat
    <3>1. closed < through[r]
      BY <2>1, <2>2 DEF SessionInStep
    <3>2. closed \in Int
      BY <1>1, ClosedType DEF NoDate
    <3>3. through[r] \in Nat
      BY <1>1, <2>1, RecognitionAssumption DEF TypeInv, SessionsOK
    <3> QED
      BY <3>1, <3>2, <3>3
  <2>4. ASSUME NEW o \in Obligations
        PROVE  /\ delta[r][o] = NoDelta /\ mine(r, o) = {} /\ ~ working(r, o)
               /\ recognized(o) > 0 => o \in covered(r)
    <3>1. delta[r][o] = NoDelta /\ mine(r, o) = {}
      BY <2>1 DEF SerialInv, WorkOK, Work, unvisited, mine
    <3>2. recognized(o) > 0 => o \in covered(r)
      BY <1>1, <2>3, Answers DEF SerialInv, TablesInStep, covered, WellFormed
    <3> QED
      BY <3>1, <3>2 DEF working
  <2>5. ASSUME NEW o \in Obligations
        PROVE  /\ mine(r, o)' = mine(r, o) /\ ~ working(r, o)'
               /\ recognized(o)' = recognized(o)
               /\ recognized_through(o)' = recognized_through(o)
               /\ visited(r, o)' <=> o \notin covered(r)
    <3>1. mine(r, o)' = mine(r, o) /\ ~ working(r, o)'
      BY <2>1, <2>4 DEF mine, working, tables
    <3>2. visited(r, o)' <=> o \notin covered(r)
      BY <2>1 DEF visited, unvisited
    <3> QED
      BY <2>1, <3>1, <3>2, TablesKept DEF tables
  <2>6. ASSUME NEW o \in Obligations
        PROVE  /\ delta'[r][o].recognized_through <= through'[r]
               /\ Terms[o].pattern = "ratable_daily" =>
                    Earning(Terms[o], recognized(o)' + delta'[r][o].recognized_cents,
                            later(recognized_through(o)', delta'[r][o].recognized_through))
               /\ ~ (visited(r, o)' /\ (recognized(o)' > 0 \/ working(r, o)'))
    BY <2>1, <2>2, <2>4, <2>5 DEF SessionInStep
  <2>7. /\ closed' < through'[r] /\ \A k \in picked'[r] : usage'[k].run = NoRun
        /\ covered(r)' = covered(r)
    BY <2>1, <2>2, <2>3, TablesKept DEF SessionInStep, covered, tables
  <2>8. SessionInStep(r)'
    BY <2>1, <2>5, <2>6, <2>7 DEF SessionInStep
  <2> QED
    BY <1>4, <2>1, <2>8
<1>11. ASSUME NEW r \in Runners, NEW x \in Obligations, ReadState(r, x) PROVE SerialInv'
  <2>1. /\ UNCHANGED <<tables, through, delta, picked>>
        /\ pc[r] = "loop" /\ pc'[r] = "compute"
        /\ x \in todo[r] /\ todo'[r] = todo[r] \ {x}
        /\ seen'[r].obligation = x /\ seen'[r].through = recognized_through(x)
    BY <1>1, <1>11 DEF ReadState, TypeOK
  <2>2. SessionInStep(r)
    BY DEF SerialInv
  <2>3. ASSUME NEW o \in Obligations
        PROVE  /\ mine(r, o)' = mine(r, o) /\ (working(r, o)' <=> working(r, o))
               /\ recognized(o)' = recognized(o)
               /\ recognized_through(o)' = recognized_through(o)
               /\ visited(r, o)' => visited(r, o)
    <3>1. mine(r, o)' = mine(r, o) /\ (working(r, o)' <=> working(r, o))
      BY <2>1 DEF mine, working, tables
    <3>2. visited(r, o)' => visited(r, o)
      BY <2>1 DEF visited, unvisited
    <3> QED
      BY <2>1, <3>1, <3>2, TablesKept DEF tables
  <2>4. /\ closed' < through'[r] /\ \A k \in picked'[r] : usage'[k].run = NoRun
        /\ covered(r)' = covered(r)
    BY <2>1, <2>2, TablesKept DEF SessionInStep, covered, tables
  <2>5. seen'[r].obligation \in covered(r)' /\ todo'[r] \subseteq covered(r)'
    BY <2>1, <2>2, <2>4 DEF SessionInStep
  <2>6. seen'[r].through = max_through(runs', seen'[r].obligation)
    BY <2>1 DEF recognized_through, tables
  <2>7. ASSUME NEW o \in Obligations
        PROVE  /\ delta'[r][o].recognized_through <= through'[r]
               /\ working(r, o)' => o \in covered(r)'
               /\ Terms[o].pattern = "ratable_daily" =>
                    Earning(Terms[o], recognized(o)' + delta'[r][o].recognized_cents,
                            later(recognized_through(o)', delta'[r][o].recognized_through))
               /\ visited(r, o)' /\ (recognized(o)' > 0 \/ working(r, o)') =>
                    recognized(o)' + delta'[r][o].recognized_cents =
                      due(Terms[o], recognized(o)', through'[r],
                          units_of(usage', mine(r, o)'))
    <3>1. UNCHANGED <<usage, through, delta>>
      BY <2>1 DEF tables
    <3> QED
      BY <2>2, <2>3, <2>4, <3>1 DEF SessionInStep
  <2>8. SessionInStep(r)'
    BY <2>4, <2>5, <2>6, <2>7 DEF SessionInStep, recognized_through
  <2> QED
    BY <1>4, <2>1, <2>8
<1>12. ASSUME NEW r \in Runners, ComputeDelta(r) PROVE SerialInv'
  <2>1. SessionInStep(r)'
    BY <1>1, <1>12, ComputeInStep
  <2> QED
    BY <1>4, <1>12, <2>1 DEF ComputeDelta
<1>13. ASSUME NEW r \in Runners, Commit(r) PROVE SerialInv'
  <2>1. PaygEarnsItsUnits' /\ NeverAheadOfUse' /\ TablesInStep'
    BY <1>13, CommitInStep
  <2>2. SessionInStep(r)'
    BY <1>8, <1>13, <2>1 DEF Commit
  <2>3. \A s \in Runners : s = r
    OBVIOUS
  <2> QED
    BY <1>1, <1>2, <2>1, <2>2, <2>3 DEF SerialInv
<1>14. ASSUME NEW r \in Runners, Abort(r) PROVE SerialInv'
  <2>1. UNCHANGED tables /\ EndSession(r)
    BY <1>14 DEF Abort
  <2>2. TablesInStep'
    BY <2>1, TablesStay DEF tables
  <2> QED
    BY <1>4, <1>8, <2>1, <2>2
<1> QED
  BY <1>5, <1>6, <1>7, <1>9, <1>10, <1>11, <1>12, <1>13, <1>14 DEF Next, RunStep

-----------------------------------------------------------------------------
(* What one session at a time guarantees *)

\* A ratable obligation that is at its rate is on its schedule.
LEMMA EarningOnSchedule == SerialInv => OnSchedule
BY DEF SerialInv, TablesInStep, OnSchedule, Earning

\* A ratable obligation that is at its rate, and has earned what is scheduled for
\* the latest run, has missed no day.
LEMMA ScheduledNoDayMissed == SerialInv => NoDayMissed
<1> SUFFICES ASSUME SerialInv, NEW o \in Obligations,
                    Terms[o].pattern = "ratable_daily", recognized(o) > 0
             PROVE  /\ recognized_through(o) = Smaller(closed, Terms[o].end_date)
                    /\ closed > Terms[o].end_date =>
                         recognized(o) = Terms[o].total_amount_cents
  BY DEF NoDayMissed
<1> DEFINE p == Terms[o]
           c == recognized(o)
           t == recognized_through(o)
           q == daily_cents(p)
<1>1. TypeInv /\ TablesInStep
  BY DEF SerialInv, CapInv
<1>2. /\ c \in Nat /\ t \in Nat \cup {NoDate} /\ WellFormed(p)
      /\ closed \in Nat \cup {NoDate}
  BY <1>1, Answers, ClosedType
<1>3. Earning(p, c, t) /\ p.start_date <= closed /\ c = Schedule!Scheduled(p, closed)
  BY <1>1 DEF TablesInStep, UsagePatterns
<1>4. /\ p.start_date \in Nat /\ p.end_date \in Nat /\ p.start_date <= p.end_date
      /\ p.total_amount_cents \in Nat /\ q \in Nat
      /\ days_in_period(p) = p.end_date - p.start_date + 1
  BY <1>2, DailyRate DEF days_in_period
<1>5. c = p.total_amount_cents => t = p.end_date
  BY <1>2, <1>3, EarningCapped
<1>6. c = IF closed <= p.end_date THEN q * (closed - p.start_date + 1)
                                  ELSE p.total_amount_cents
  BY <1>2, <1>3, <1>4 DEF Schedule!Scheduled, daily_cents, days_in_period, NoDate
<1>7. \A n \in Nat : n <= days_in_period(p) /\ q * n = p.total_amount_cents =>
                      n = days_in_period(p)
  BY <1>2, DailyRate
<1> HIDE DEF p, c, t, q
<1>8. CASE closed > p.end_date
  BY <1>2, <1>4, <1>5, <1>6, <1>8 DEF Smaller, NoDate, p, c, t
<1>9. CASE ~ (closed > p.end_date)
  <2> DEFINE n == closed - p.start_date + 1
             m == IF t = NoDate THEN 0 ELSE t - p.start_date + 1
  <2>1. n \in Nat /\ n <= days_in_period(p) /\ closed \in Nat
    BY <1>2, <1>3, <1>4, <1>9 DEF NoDate
  <2>2. c = q * n
    BY <1>2, <1>4, <1>6, <1>9, <2>1
  <2>3. m \in Nat /\ m <= days_in_period(p)
    BY <1>2, <1>3, <1>4 DEF Earning, NoDate
  <2>4. c > 0
    BY DEF c
  <2>5. t = closed
    <3>1. CASE c = p.total_amount_cents
      <4>1. n = days_in_period(p)
        BY <1>7, <2>1, <2>2, <3>1
      <4>2. closed = p.end_date
        BY <1>4, <2>1, <4>1
      <4> QED
        BY <1>5, <3>1, <4>2
    <3>2. CASE c # p.total_amount_cents
      <4>1. c = q * m
        BY <1>3, <3>2 DEF Earning, q
      <4> HIDE DEF n, m
      <4>2. q > 0 /\ m > 0
        <5>1. q = 0 => q * n = 0
          BY <2>1
        <5>2. m = 0 => q * m = 0
          BY <1>4
        <5> QED
          BY <1>4, <2>1, <2>3, <2>4, <2>2, <4>1, <5>1, <5>2
      <4>3. \A x \in Nat, a, b \in Nat : x > 0 /\ x * a = x * b => a = b
        OBVIOUS
      <4>4. m = n
        BY <1>4, <2>1, <2>3, <2>2, <4>1, <4>2, <4>3
      <4> QED
        BY <1>2, <1>4, <2>1, <4>2, <4>4 DEF n, m, NoDate
    <3> QED
      BY <3>1, <3>2
  <2> QED
    <3>1. t = Smaller(closed, p.end_date)
      BY <1>4, <1>9, <2>1, <2>5 DEF Smaller
    <3> QED
      BY <1>9, <3>1 DEF p, t
<1> QED
  BY <1>8, <1>9

\* With one session at a time, pay-as-you-go revenue is the price times the units
\* marked recognized, at every moment: no unit is paid for twice, and a run that
\* fails halfway leaves none marked but unpaid.
THEOREM SerialPayg ==
  ASSUME \A r, s \in Runners : r = s
  PROVE  Spec => []PaygEarnsItsUnits
<1>1. SerialInv => PaygEarnsItsUnits
  BY DEF SerialInv
<1> QED
  BY <1>1, SerialInit, SerialStep, PTL DEF Spec

\* With one session at a time, a prepaid commitment never earns ahead of its use,
\* for any price, any number of committed units and any split of the usage: the
\* rounding of every run is downwards, and so is that of all of them together.
THEOREM SerialPrepaid ==
  ASSUME \A r, s \in Runners : r = s
  PROVE  Spec => []NeverAheadOfUse
<1>1. SerialInv => NeverAheadOfUse
  BY DEF SerialInv
<1> QED
  BY <1>1, SerialInit, SerialStep, PTL DEF Spec

\* With one session at a time, how the runs were spaced leaves no trace in what a
\* ratable obligation has earned: a daily rate for every day, or all of its price.
THEOREM SerialOnSchedule ==
  ASSUME \A r, s \in Runners : r = s
  PROVE  Spec => []OnSchedule
BY SerialInit, SerialStep, EarningOnSchedule, PTL DEF Spec

\* With one session at a time, an obligation that has begun to earn has earned for
\* every day up to the latest run, and after its end all of its price.
THEOREM SerialNoDayMissed ==
  ASSUME \A r, s \in Runners : r = s
  PROVE  Spec => []NoDayMissed
BY SerialInit, SerialStep, ScheduledNoDayMissed, PTL DEF Spec

\* With one session at a time, no run restamps what an earlier run has stamped.
THEOREM SerialStampsOnce ==
  ASSUME \A r, s \in Runners : r = s
  PROVE  Spec => UsageStampedOnce
<1>1. SerialInv /\ [Next]_vars =>
        [\A k \in Keys :
           usage[k] # NoRow /\ usage[k].run # NoRun => usage'[k] = usage[k]]_usage
  <2> SUFFICES ASSUME SerialInv, [Next]_vars, usage' # usage, NEW k \in Keys,
                      usage[k] # NoRow, usage[k].run # NoRun
               PROVE  usage'[k] = usage[k]
    OBVIOUS
  <2>1. TypeOK
    BY DEF SerialInv, CapInv, TypeInv
  <2>2. ASSUME NEW x \in Keys, NEW o \in Obligations, NEW n \in UnitSizes,
               PostUsage(x, o, n)
        PROVE  usage'[k] = usage[k]
    BY <2>1, <2>2 DEF PostUsage, TypeOK
  <2>3. ASSUME NEW r \in Runners, Commit(r) PROVE usage'[k] = usage[k]
    <3>1. k \notin picked[r]
      BY DEF SerialInv, SessionInStep
    <3> QED
      BY <2>3, <3>1 DEF Commit
  <2> QED
    BY <2>2, <2>3 DEF Next, RunStep, CreateObligation, StartRun, LoadObligations,
                      ReadState, ComputeDelta, Abort, tables, vars
<1> QED
  BY <1>1, SerialInit, SerialStep, PTL DEF Spec, UsageStampedOnce

\* With one session at a time, each completed run goes further than every run
\* completed before it, though the check and the commit are far apart.
THEOREM SerialDatesAdvance ==
  ASSUME \A r, s \in Runners : r = s
  PROVE  Spec => ThroughDatesAdvance
<1>1. SerialInv /\ [Next]_vars =>
        [\A i \in DOMAIN runs, j \in DOMAIN runs' \ DOMAIN runs :
           runs[i].through < runs'[j].through]_runs
  <2> SUFFICES ASSUME SerialInv, [Next]_vars, runs' # runs,
                      NEW i \in DOMAIN runs, NEW j \in DOMAIN runs' \ DOMAIN runs
               PROVE  runs[i].through < runs'[j].through
    OBVIOUS
  <2>1. TypeInv /\ TablesInStep
    BY DEF SerialInv, CapInv
  <2>2. ASSUME NEW r \in Runners, Commit(r) PROVE runs[i].through < runs'[j].through
    <3>1. runs'[j].through = through[r]
      BY <2>1, <2>2, CommitTables
    <3>2. closed < through[r] /\ closed \in Int /\ through[r] \in Int
      <4>1. closed < through[r]
        BY <2>2 DEF SerialInv, SessionInStep, Commit
      <4>2. closed \in Int
        BY <2>1, ClosedType DEF NoDate
      <4>3. through[r] \in Nat \cup {NoDate}
        BY <2>1, RecognitionAssumption DEF TypeInv, TypeOK
      <4> QED
        BY <4>1, <4>2, <4>3 DEF NoDate
    <3>3. runs[i].through \in Int
      <4>1. runs[i] \in RunRows
        BY <2>1, LenProperties, ElementOfSeq DEF TypeInv, TypeOK
      <4>2. \A row \in RunRows : row.through \in Nat
        BY RecognitionAssumption DEF RunRows
      <4> QED
        BY <4>1, <4>2
    <3>4. runs[i].through <= closed
      BY <2>1 DEF TablesInStep
    <3> QED
      BY <3>1, <3>2, <3>3, <3>4
  <2> QED
    BY <2>2 DEF Next, RunStep, CreateObligation, PostUsage, StartRun, LoadObligations,
                ReadState, ComputeDelta, Abort, tables, vars
<1> QED
  BY <1>1, SerialInit, SerialStep, PTL DEF Spec, ThroughDatesAdvance

-----------------------------------------------------------------------------
(* Refinement: the engine implements the contract schedule *)

\* The initial states are those of the abstract schedule.
LEMMA ScheduleInit == Init => Schedule!Init
<1> SUFFICES ASSUME Init PROVE Schedule!Init
  OBVIOUS
<1>1. runs = <<>> /\ created = {} /\ usage = [k \in Keys |-> NoRow]
  BY DEF Init
<1>2. earned_so_far = [o \in Obligations |-> 0]
  BY <1>1, NoEvents DEF earned_so_far, recognized
<1>3. reported = [k \in Keys |-> NoRow]
  BY <1>1 DEF reported
<1>4. closed = NoDate
  BY <1>1 DEF closed
<1> QED
  BY <1>1, <1>2, <1>3, <1>4 DEF Schedule!Init, NoDate, Schedule!NoDate

\* What the schedule says an obligation has earned by a run is what is due.
LEMMA EarnedByDue ==
  ASSUME NEW o \in Obligations, NEW d, NEW n
  PROVE  Schedule!EarnedBy(o, d, n) = due(Terms[o], recognized(o), d, n)
<1>1. earned_so_far[o] = recognized(o)
  BY DEF earned_so_far
<1>2. CASE Terms[o].pattern = "consumption_payg"
  BY <1>1, <1>2 DEF Schedule!EarnedBy, due
<1>3. CASE Terms[o].pattern = "consumption"
  BY <1>1, <1>3 DEF Schedule!EarnedBy, due, Smaller, Schedule!Smaller
<1>4. CASE Terms[o].pattern \notin {"consumption", "consumption_payg"}
  BY <1>1, <1>4 DEF Schedule!EarnedBy, due
<1> QED
  BY <1>2, <1>3, <1>4

\* The schedule's SUM is the engine's.
LEMMA SameTotal ==
  ASSUME NEW f, NEW S
  PROVE  Schedule!Total(f, S) = Total(f, S)
BY DEF Schedule!Total, Schedule!Tokens, Schedule!Cardinality, Total, Tokens, Cardinality

\* A commit is one run of the schedule: it covers what the session has work for
\* and lets the rows it picked up earn.
LEMMA CommitIsRun ==
  ASSUME SerialInv, NEW r \in Runners, Commit(r)
  PROVE  Schedule!Next
<1> DEFINE d == through[r]
           S == {o \in Obligations : working(r, o)}
           K == picked[r]
           begun == {o \in created : Terms[o].start_date <= d}
           free == {k \in Schedule!Unearned : reported[k].obligation \in S}
<1>1. TypeInv /\ TypeOK /\ SessionInStep(r)
  BY DEF SerialInv, CapInv, TypeInv
<1>2. d \in Dates /\ closed < d /\ created' = created
  BY <1>1 DEF Commit, TypeInv, SessionsOK, SessionInStep
<1>3. closed' = d
  BY <1>1, CommitTables
<1>4. S \subseteq begun
  BY <1>1 DEF SessionInStep, covered
<1>5. ASSUME NEW k \in K
      PROVE  /\ k \in Keys /\ usage[k] \in UsageRows /\ usage[k] # NoRow
             /\ usage[k].obligation \in S
             /\ reported[k] \in ReportedRows /\ reported[k].earned = FALSE
             /\ reported[k].obligation = usage[k].obligation
             /\ reported[k].units = usage[k].units
  <2>1. k \in Keys /\ usage[k] \in UsageRows /\ usage[k] # NoRow /\ usage[k].run = NoRun
    BY <1>1, RecognitionAssumption DEF TypeInv, TypeOK, SessionsOK, SessionInStep
  <2>2. usage[k].obligation \in Obligations
    BY <2>1 DEF UsageRows
  <2>3. k \in mine(r, usage[k].obligation)
    BY <2>1 DEF mine, rows_of
  <2> DEFINE row == reported[k]
  <2>4. row = [obligation |-> usage[k].obligation,
               units |-> usage[k].units, earned |-> FALSE]
    BY <2>1 DEF reported
  <2>5. usage[k].units \in UnitSizes
    BY <2>1 DEF UsageRows
  <2> HIDE DEF row
  <2>6. /\ row \in ReportedRows /\ row.earned = FALSE
        /\ row.obligation = usage[k].obligation /\ row.units = usage[k].units
    BY <2>2, <2>4, <2>5 DEF ReportedRows
  <2> QED
    BY <2>1, <2>2, <2>3, <2>6 DEF working, row
<1>6. K \subseteq free
  <2>1. ASSUME NEW k \in K PROVE k \in free
    <3>1. reported[k] # NoRow
      BY <1>5, RecognitionAssumption
    <3>2. k \in Keys /\ ~ reported[k].earned /\ reported[k].obligation \in S
      BY <1>5
    <3> HIDE DEF K, S
    <3> QED
      BY <3>1, <3>2 DEF Schedule!Unearned
  <2> QED
    BY <2>1
<1>7. ASSUME NEW o \in Obligations
      PROVE  LET theirs == {k \in K : reported[k].obligation = o}
             IN  earned_so_far'[o] =
                   IF o \in S
                   THEN Schedule!EarnedBy(o, d, Total([k \in theirs |-> reported[k].units], theirs))
                   ELSE earned_so_far[o]
  <2> DEFINE theirs == {k \in K : reported[k].obligation = o}
             n == Total([k \in theirs |-> reported[k].units], theirs)
  <2>0. \A k \in K : /\ reported[k].obligation = usage[k].obligation
                     /\ reported[k].units = usage[k].units
    BY <1>5
  <2>1. theirs = mine(r, o)
    <3>1. mine(r, o) = {k \in K : usage[k].obligation = o}
      BY <1>5 DEF mine, rows_of
    <3> QED
      BY <2>0, <3>1
  <2>2. [k \in theirs |-> reported[k].units] = [k \in mine(r, o) |-> usage[k].units]
    <3>1. \A k \in theirs : reported[k].units = usage[k].units
      BY <2>0
    <3> HIDE DEF theirs
    <3> QED
      BY <2>1, <3>1
  <2>3. n = units_of(usage, mine(r, o))
    BY <2>1, <2>2 DEF units_of
  <2> HIDE DEF theirs, n
  <2>4. recognized(o)' = recognized(o) + delta[r][o].recognized_cents
    BY <1>1, CommitTables
  <2>5. visited(r, o)
    BY DEF Commit, visited, unvisited
  <2>6. ASSUME o \in S PROVE recognized(o)' = Schedule!EarnedBy(o, d, n)
    BY <1>1, <2>3, <2>4, <2>5, <2>6, EarnedByDue DEF SessionInStep
  <2>7. ASSUME o \notin S PROVE recognized(o)' = recognized(o)
    <3>1. delta[r][o] = NoDelta /\ recognized(o) \in Nat
      BY <1>1, <2>7, Answers DEF working
    <3> QED
      BY <2>4, <3>1 DEF NoDelta
  <2>8. earned_so_far'[o] = recognized(o)' /\ earned_so_far[o] = recognized(o)
    BY DEF earned_so_far
  <2> QED
    BY <2>6, <2>7, <2>8 DEF theirs, n
<1>8. reported' = [k \in Keys |-> IF k \in K THEN Schedule!paid(reported[k])
                                           ELSE reported[k]]
  <2>1. ASSUME NEW k \in Keys, k \in K
        PROVE  reported'[k] = Schedule!paid(reported[k])
    <3>1. usage'[k] = recognized_by(usage[k], Len(runs) + 1) /\ Len(runs) + 1 \in Nat
      BY <1>1, <2>1 DEF Commit, TypeOK
    <3>2. /\ usage'[k] \in UsageRows /\ usage'[k].obligation = usage[k].obligation
          /\ usage'[k].units = usage[k].units /\ usage'[k].run = Len(runs) + 1
      BY <1>5, <2>1, <3>1 DEF recognized_by, UsageRows
    <3>3. usage'[k] # NoRow /\ usage'[k].run # NoRun
      BY <1>1, <3>1, <3>2, RecognitionAssumption DEF NoRun, TypeOK
    <3>4. reported'[k] = [obligation |-> usage[k].obligation,
                          units |-> usage[k].units, earned |-> TRUE]
      BY <3>2, <3>3 DEF reported
    <3> QED
      BY <1>5, <2>1, <3>4 DEF Schedule!paid
  <2>2. ASSUME NEW k \in Keys, k \notin K PROVE reported'[k] = reported[k]
    BY <2>2 DEF Commit, reported
  <2>3. reported' = [k \in Keys |-> reported'[k]]
    BY DEF reported
  <2> QED
    BY <2>1, <2>2, <2>3
<1> HIDE DEF d, S, K
<1>9. earned_so_far' =
        [o \in Obligations |->
           IF o \in S
           THEN LET theirs == {k \in K : reported[k].obligation = o}
                IN  Schedule!EarnedBy(o, d, Total([k \in theirs |-> reported[k].units], theirs))
           ELSE earned_so_far[o]]
  <2>1. earned_so_far' = [o \in Obligations |-> earned_so_far'[o]]
    BY DEF earned_so_far
  <2> QED
    BY <1>7, <2>1, Zenon
<1>10. Schedule!Run(d, S, K)
  BY <1>2, <1>3, <1>8, <1>9, SameTotal DEF Schedule!Run
<1> QED
  BY <1>2, <1>4, <1>6, <1>10 DEF Schedule!Next

\* Every step of the engine is a step of the schedule or none.
LEMMA ScheduleStep ==
  ASSUME SerialInv, [Next]_vars
  PROVE  [Schedule!Next]_(Schedule!vars)
<1>1. TypeOK
  BY DEF SerialInv, CapInv, TypeInv
<1>2. ASSUME runs' = runs
      PROVE  earned_so_far' = earned_so_far /\ closed' = closed
  BY <1>2, TablesKept DEF earned_so_far
<1>3. ASSUME UNCHANGED <<created, usage, runs>>
      PROVE  [Schedule!Next]_(Schedule!vars)
  <2>1. reported' = reported
    BY <1>3 DEF reported
  <2> QED
    BY <1>2, <1>3, <2>1 DEF Schedule!vars
<1>4. ASSUME NEW o \in Obligations, CreateObligation(o)
      PROVE  Schedule!Next
  <2>1. reported' = reported
    BY <1>4 DEF CreateObligation, reported
  <2>2. Schedule!Create(o)
    BY <1>2, <1>4, <2>1 DEF CreateObligation, Schedule!Create
  <2> QED
    BY <2>2 DEF Schedule!Next
<1>5. ASSUME NEW k \in Keys, NEW o \in Obligations, NEW n \in UnitSizes,
             PostUsage(k, o, n)
      PROVE  Schedule!Next
  <2> DEFINE row == [obligation |-> o, units |-> n, run |-> NoRun]
             report == [obligation |-> o, units |-> n, earned |-> FALSE]
  <2>1. /\ usage[k] = NoRow /\ o \in created
        /\ usage' = [usage EXCEPT ![k] = row]
        /\ runs' = runs /\ created' = created
    BY <1>5 DEF PostUsage
  <2>2. row \in UsageRows /\ row # NoRow /\ row.obligation = o /\ row.units = n
        /\ row.run = NoRun
    <3>1. row \in UsageRows
      BY DEF UsageRows, NoRun
    <3> QED
      BY <3>1, RecognitionAssumption
  <2> HIDE DEF row
  <2>3. usage'[k] = row /\ \A x \in Keys \ {k} : usage'[x] = usage[x]
    BY <1>1, <2>1 DEF TypeOK
  <2>4. reported[k] = NoRow
    BY <2>1 DEF reported
  <2>5. reported'[k] = report
    BY <2>2, <2>3 DEF reported
  <2>6. ASSUME NEW x \in Keys, x # k PROVE reported'[x] = reported[x]
    BY <2>3, <2>6 DEF reported
  <2>7. DOMAIN reported = Keys /\ reported' = [x \in Keys |-> reported'[x]]
    BY DEF reported
  <2> HIDE DEF report
  <2>8. reported' = [reported EXCEPT ![k] = report]
    BY <2>5, <2>6, <2>7
  <2>9. Schedule!Report(k, o, n)
    BY <1>2, <2>1, <2>4, <2>8 DEF Schedule!Report, report
  <2> QED
    BY <2>9 DEF Schedule!Next
<1> QED
  BY <1>3, <1>4, <1>5, CommitIsRun
     DEF Next, RunStep, vars, StartRun, LoadObligations, ReadState, ComputeDelta, Abort, tables

\* With one session at a time, the incremental, interruptible engine implements
\* RevenueSchedule: each completed run is one atomic step to a later date, after
\* which every obligation it covered has earned what its contract says it has by
\* that date, and nothing else a session does can be seen.
THEOREM SerialImplementsSchedule ==
  ASSUME \A r, s \in Runners : r = s
  PROVE  Spec => ImplementsSchedule
<1>1. SerialInv /\ [Next]_vars => [Schedule!Next]_(Schedule!vars)
  BY ScheduleStep
<1> QED
  BY <1>1, SerialInit, SerialStep, ScheduleInit, PTL
     DEF Spec, ImplementsSchedule, Schedule!Spec
=============================================================================
