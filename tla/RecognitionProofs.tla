-------------------------- MODULE RecognitionProofs --------------------------
(***************************************************************************)
(* Theorems about the recognition engine, for every set of obligations,    *)
(* every set of dates, every stream of usage and, unless a theorem says    *)
(* otherwise, any number of sessions that overlap.                         *)
(***************************************************************************)
EXTENDS Recognition, ArithmeticProofs, SequenceTheorems

-----------------------------------------------------------------------------
(* The queries over recognition_events *)

\* A run adds its own event to the SUM.
LEMMA SumAppend ==
  ASSUME NEW rs \in Seq(RunRows), NEW row \in RunRows, NEW o \in Obligations
  PROVE  sum_cents(Append(rs, row), o)
           = sum_cents(rs, o) + row.event[o].recognized_cents
<1> DEFINE n == Len(rs)
           f == [i \in DOMAIN rs |-> rs[i].event[o].recognized_cents]
           more == Append(rs, row)
           g == [i \in DOMAIN more |-> more[i].event[o].recognized_cents]
<1>1. n \in Nat /\ DOMAIN rs = 1..n
  BY LenProperties
<1>2. \A i \in 1..n : rs[i] \in RunRows
  BY <1>1, ElementOfSeq
<1>3. \A x \in RunRows : x.event[o].recognized_cents \in Nat
  BY DEF RunRows, Deltas
<1>4. /\ DOMAIN more = (1..n) \cup {n + 1}
      /\ \A i \in 1..n : more[i] = rs[i]
      /\ more[n + 1] = row
  BY <1>1
<1>5. \A i \in 1..n : f[i] \in Nat /\ g[i] = f[i]
  BY <1>1, <1>2, <1>3, <1>4
<1>6. g[n + 1] \in Nat /\ g[n + 1] = row.event[o].recognized_cents
  BY <1>3, <1>4
<1>7. IsFiniteSet(1..n) /\ IsFiniteSet({n + 1}) /\ (1..n) \cap {n + 1} = {}
  <2>1. IsFiniteSet(1..n)
    BY <1>1, FS_Interval
  <2>2. IsFiniteSet({n + 1})
    BY FS_Singleton
  <2>3. (1..n) \cap {n + 1} = {}
    BY <1>1
  <2> QED
    BY <2>1, <2>2, <2>3
<1> HIDE DEF f, g
<1>8. Total(f, 1..n) \in Nat
  BY <1>5, <1>7, TotalType
<1>9. Total(g, (1..n) \cup {n + 1}) = Total(g, 1..n) + Total(g, {n + 1})
  <2>1. \A x \in (1..n) \cup {n + 1} : g[x] \in Nat
    BY <1>5, <1>6
  <2> QED
    BY <1>7, <2>1, TotalSplit
<1>10. Total(g, 1..n) = Total(f, 1..n)
  BY <1>5, TotalEqual
<1>11. Total(g, {n + 1}) = row.event[o].recognized_cents
  BY <1>6, TotalSingleton
<1>12. sum_cents(rs, o) = Total(f, 1..n)
  BY <1>1 DEF sum_cents, f
<1>13. sum_cents(more, o) = Total(g, (1..n) \cup {n + 1})
  BY <1>4 DEF sum_cents, g
<1> QED
  BY <1>8, <1>9, <1>10, <1>11, <1>12, <1>13

\* The SUM of an obligation's events is a number.
LEMMA SumType ==
  ASSUME NEW rs \in Seq(RunRows), NEW o \in Obligations
  PROVE  sum_cents(rs, o) \in Nat
<1> DEFINE f == [i \in DOMAIN rs |-> rs[i].event[o].recognized_cents]
<1>1. Len(rs) \in Nat /\ DOMAIN rs = 1..Len(rs)
  BY LenProperties
<1>2. \A i \in DOMAIN rs : rs[i] \in RunRows
  BY <1>1, ElementOfSeq
<1>3. \A i \in DOMAIN rs : f[i] \in Nat
  BY <1>2 DEF RunRows, Deltas
<1>4. IsFiniteSet(DOMAIN rs)
  BY <1>1, FS_Interval
<1> HIDE DEF f
<1>5. Total(f, DOMAIN rs) \in Nat
  BY <1>3, <1>4, TotalType
<1> QED
  BY <1>5 DEF sum_cents, f

\* The MAX query has an answer.
has_max(rs, o) ==
  \E d \in event_dates(rs, o) : \A e \in event_dates(rs, o) : e <= d

\* MAX has an answer after a run if it had one before it.
LEMMA MaxAppend ==
  ASSUME NEW rs \in Seq(RunRows), NEW row \in RunRows, NEW o \in Obligations,
         has_max(rs, o)
  PROVE  has_max(Append(rs, row), o)
<1> DEFINE n == Len(rs)
           more == Append(rs, row)
           t == row.event[o].recognized_through
<1>1. n \in Nat /\ DOMAIN rs = 1..n
  BY LenProperties
<1>2. /\ DOMAIN more = (1..n) \cup {n + 1}
      /\ \A i \in 1..n : more[i] = rs[i]
      /\ more[n + 1] = row
  BY <1>1
<1>3. event_dates(more, o) = event_dates(rs, o) \cup {t}
  BY <1>1, <1>2 DEF event_dates
<1>4. t \in Int
  BY DEF RunRows, Deltas, NoDate
<1>5. \A e \in event_dates(rs, o) : e \in Int
  <2>1. \A i \in 1..n : rs[i] \in RunRows
    BY <1>1, ElementOfSeq
  <2>2. \A i \in 1..n : rs[i].event[o].recognized_through \in Int
    BY <2>1 DEF RunRows, Deltas, NoDate
  <2> QED
    BY <1>1, <2>2 DEF event_dates, NoDate
<1>6. PICK d \in event_dates(rs, o) : \A e \in event_dates(rs, o) : e <= d
  BY DEF has_max
<1>7. CASE t <= d
  BY <1>3, <1>6, <1>7 DEF has_max
<1>8. CASE ~ (t <= d)
  <2>1. \A e \in event_dates(rs, o) : e <= t
    BY <1>4, <1>5, <1>6, <1>8
  <2> QED
    BY <1>3, <1>4, <2>1 DEF has_max
<1> QED
  BY <1>7, <1>8

\* MAX answers a date or NULL.
LEMMA MaxType ==
  ASSUME NEW rs \in Seq(RunRows), NEW o \in Obligations, has_max(rs, o)
  PROVE  max_through(rs, o) \in Nat \cup {NoDate}
<1>1. \A i \in DOMAIN rs : rs[i] \in RunRows
  BY LenProperties, ElementOfSeq
<1>2. \A e \in event_dates(rs, o) : e \in Nat \cup {NoDate}
  BY <1>1 DEF event_dates, RunRows, Deltas
<1>3. max_through(rs, o) \in event_dates(rs, o)
  BY DEF has_max, max_through
<1> QED
  BY <1>2, <1>3

\* Pending usage adds up to a number of units.
LEMMA UnitsType ==
  ASSUME NEW K, K \subseteq Keys, \A k \in K : usage[k] \in UsageRows
  PROVE  units_in(K) \in Nat
<1> DEFINE f == [k \in K |-> usage[k].units]
<1>1. IsFiniteSet(K)
  BY RecognitionAssumption, FS_Subset
<1>2. \A k \in K : f[k] \in Nat
  BY RecognitionAssumption DEF UsageRows
<1> HIDE DEF f
<1>3. Total(f, K) \in Nat
  BY <1>1, <1>2, TotalType
<1> QED
  BY <1>3 DEF units_in, f

\* Only a commit can change the answer of a MAX.
LEMMA MaxKept ==
  ASSUME \A o \in Obligations : has_max(runs, o), runs' = runs
  PROVE  \A o \in Obligations : has_max(runs', o)
OBVIOUS

-----------------------------------------------------------------------------
(* Type correctness *)

\* TypeOK is not inductive: what a session does next depends on how far it is.
\* A session past its check has a date, one that read an obligation's state
\* holds it, what it picked up are rows, and every MAX has an answer.
SessionsOK ==
  /\ \A r \in Runners : pc[r] # "idle" => through[r] \in Dates
  /\ \A r \in Runners : pc[r] = "compute" => seen[r] \in SeenRows
  /\ \A r \in Runners : \A k \in picked[r] : usage[k] \in UsageRows

TypeInv == TypeOK /\ SessionsOK /\ \A o \in Obligations : has_max(runs, o)

\* The types hold before the first run.
LEMMA TypeInit == Init => TypeInv
<1> SUFFICES ASSUME Init PROVE TypeInv
  OBVIOUS
<1>1. NoDelta \in Deltas
  BY DEF NoDelta, Deltas, NoDate
<1>2. runs \in Seq(RunRows)
  BY DEF Init
<1>3. TypeOK
  BY <1>1, <1>2 DEF Init, TypeOK, NothingSeen, NoDeltas
<1>4. SessionsOK
  BY DEF Init, SessionsOK
<1>5. ASSUME NEW o \in Obligations PROVE has_max(runs, o)
  BY DEF Init, has_max, event_dates, NoDate
<1> QED
  BY <1>3, <1>4, <1>5 DEF TypeInv

\* A session that ends leaves a session of the right types.
LEMMA EndSessionType ==
  ASSUME TypeOK, NEW r \in Runners, EndSession(r)
  PROVE  /\ pc' \in [Runners -> {"idle", "load", "loop", "compute"}]
         /\ through' \in [Runners -> Dates \cup {NoDate}]
         /\ todo' \in [Runners -> SUBSET Obligations]
         /\ seen' \in [Runners -> SeenRows \cup {NoRow}]
         /\ delta' \in [Runners -> [Obligations -> Deltas]]
         /\ picked' \in [Runners -> SUBSET Keys]
         /\ pc'[r] = "idle" /\ picked'[r] = {}
         /\ \A s \in Runners \ {r} :
              /\ pc'[s] = pc[s] /\ through'[s] = through[s] /\ todo'[s] = todo[s]
              /\ seen'[s] = seen[s] /\ delta'[s] = delta[s] /\ picked'[s] = picked[s]
<1>1. NoDeltas \in [Obligations -> Deltas]
  BY DEF NoDeltas, NoDelta, Deltas, NoDate
<1> QED
  BY <1>1 DEF TypeOK, EndSession, NothingSeen

\* What a session adds to the lines of its entry are numbers.
LEMMA LineTotalType ==
  ASSUME TypeOK, NEW r \in Runners, NEW S, S \subseteq Obligations
  PROVE  LineTotal(r, S) \in Nat
<1> DEFINE f == [o \in S |-> delta[r][o].recognized_cents]
<1>1. IsFiniteSet(S)
  BY RecognitionAssumption, FS_Subset
<1>2. \A o \in S : f[o] \in Nat
  BY DEF TypeOK, Deltas
<1> HIDE DEF f
<1>3. Total(f, S) \in Nat
  BY <1>1, <1>2, TotalType
<1> QED
  BY <1>3 DEF LineTotal, f

\* A commit appends one row of recognition_runs with its events.
LEMMA CommitAppends ==
  ASSUME TypeInv, NEW r \in Runners, Commit(r)
  PROVE  /\ [through |-> through[r], event |-> delta[r]] \in RunRows
         /\ runs' = Append(runs, [through |-> through[r], event |-> delta[r]])
         /\ runs \in Seq(RunRows)
BY DEF TypeInv, TypeOK, SessionsOK, Commit, RunRows

\* Every step keeps the types.
LEMMA TypeStep == TypeInv /\ [Next]_vars => TypeInv'
<1> SUFFICES ASSUME TypeInv, [Next]_vars PROVE TypeInv'
  OBVIOUS
<1> USE DEF TypeInv
<1>1. CASE UNCHANGED vars
  <2>1. TypeOK' /\ SessionsOK'
    BY <1>1 DEF vars, TypeOK, SessionsOK
  <2>2. runs' = runs
    BY <1>1 DEF vars
  <2> QED
    BY <2>1, <2>2, MaxKept
<1>2. ASSUME NEW o \in Obligations, CreateObligation(o) PROVE TypeInv'
  <2>1. TypeOK' /\ SessionsOK'
    BY <1>2 DEF CreateObligation, session, TypeOK, SessionsOK
  <2>2. runs' = runs
    BY <1>2 DEF CreateObligation
  <2> QED
    BY <2>1, <2>2, MaxKept
<1>3. ASSUME NEW k \in Keys, NEW o \in Obligations, NEW n \in UnitSizes,
             PostUsage(k, o, n)
      PROVE  TypeInv'
  <2>1. [obligation |-> o, units |-> n, run |-> NoRun] \in UsageRows
    BY DEF UsageRows, NoRun
  <2>2. TypeOK'
    BY <1>3, <2>1 DEF PostUsage, session, TypeOK
  <2>3. SessionsOK'
    BY <1>3, <2>1 DEF PostUsage, session, TypeOK, SessionsOK
  <2>4. runs' = runs
    BY <1>3 DEF PostUsage
  <2> QED
    BY <2>2, <2>3, <2>4, MaxKept
<1>4. ASSUME NEW r \in Runners, NEW d \in Dates, StartRun(r, d) PROVE TypeInv'
  <2>1. TypeOK'
    BY <1>4 DEF StartRun, tables, TypeOK
  <2>2. SessionsOK'
    BY <1>4 DEF StartRun, tables, TypeOK, SessionsOK
  <2>3. runs' = runs
    BY <1>4 DEF StartRun, tables
  <2> QED
    BY <2>1, <2>2, <2>3, MaxKept
<1>5. ASSUME NEW r \in Runners, LoadObligations(r) PROVE TypeInv'
  <2>1. TypeOK'
    BY <1>5 DEF LoadObligations, tables, TypeOK
  <2>2. SessionsOK'
    BY <1>5 DEF LoadObligations, tables, TypeOK, SessionsOK
  <2>3. runs' = runs
    BY <1>5 DEF LoadObligations, tables
  <2> QED
    BY <2>1, <2>2, <2>3, MaxKept
<1>6. ASSUME NEW r \in Runners, NEW o \in Obligations, ReadState(r, o) PROVE TypeInv'
  <2>1. recognized(o) \in Nat
    BY SumType DEF TypeOK, recognized
  <2>2. recognized_through(o) \in Nat \cup {NoDate}
    BY MaxType DEF TypeOK, recognized_through
  <2>3. [obligation |-> o, cents |-> recognized(o), through |-> recognized_through(o)]
          \in SeenRows
    BY <2>1, <2>2 DEF SeenRows
  <2>4. TypeOK'
    BY <1>6, <2>3 DEF ReadState, tables, TypeOK
  <2>5. SessionsOK'
    BY <1>6, <2>3 DEF ReadState, tables, TypeOK, SessionsOK
  <2>6. runs' = runs
    BY <1>6 DEF ReadState, tables
  <2> QED
    BY <2>4, <2>5, <2>6, MaxKept
<1>7. ASSUME NEW r \in Runners, ComputeDelta(r) PROVE TypeInv'
  <2> DEFINE o == seen[r].obligation
             keys == pending_usage_for(o)
             answer == compute_recognition(Terms[o], seen[r].cents, seen[r].through,
                                           through[r], units_in(keys))
  <2>1. /\ o \in Obligations /\ seen[r].cents \in Nat
        /\ seen[r].through \in Nat \cup {NoDate} /\ through[r] \in Nat
    BY <1>7, RecognitionAssumption DEF ComputeDelta, SessionsOK, SeenRows
  <2>2. keys \subseteq Keys /\ \A k \in keys : usage[k] \in UsageRows
    BY DEF pending_usage_for, UsageOf, TypeOK
  <2>3. units_in(keys) \in Nat
    BY <2>2, UnitsType
  <2>4. answer \in Deltas
    BY <2>1, <2>3, ComputeType, RecognitionAssumption
  <2>5. /\ delta' = [delta EXCEPT ![r][o] = answer]
        /\ picked' = [picked EXCEPT ![r] = @ \cup keys]
        /\ seen' = [seen EXCEPT ![r] = NothingSeen]
        /\ pc' = [pc EXCEPT ![r] = "loop"]
        /\ pc[r] = "compute"
        /\ UNCHANGED <<created, usage, runs, posted, through, todo>>
    BY <1>7 DEF ComputeDelta, tables
  <2> HIDE DEF o, keys, answer
  <2>6. TypeOK'
    BY <2>1, <2>2, <2>4, <2>5 DEF TypeOK, NothingSeen
  <2>7. SessionsOK'
    BY <2>2, <2>5 DEF TypeOK, SessionsOK
  <2> QED
    BY <2>5, <2>6, <2>7, MaxKept
<1>8. ASSUME NEW r \in Runners, Commit(r) PROVE TypeInv'
  <2> DEFINE row == [through |-> through[r], event |-> delta[r]]
  <2>1. row \in RunRows /\ runs \in Seq(RunRows) /\ runs' = Append(runs, row)
    BY <1>8, CommitAppends
  <2>2. runs' \in Seq(RunRows) /\ Len(runs) \in Nat
    BY <2>1
  <2>3. \A a \in Chart : Debits(r, a) \in Nat /\ Credits(r, a) \in Nat
    BY LineTotalType DEF Debits, Credits, Processed
  <2>4. posted' \in [Chart -> [debit : Nat, credit : Nat]]
    BY <1>8, <2>3 DEF Commit, TypeOK
  <2>5. /\ usage' \in [Keys -> UsageRows \cup {NoRow}]
        /\ \A k \in Keys : usage[k] \in UsageRows => usage'[k] \in UsageRows
    <3>1. \A u \in UsageRows, n \in Nat : recognized_by(u, n) \in UsageRows
      BY DEF UsageRows, recognized_by
    <3>2. usage' = [k \in Keys |-> IF k \in picked[r]
                                   THEN recognized_by(usage[k], Len(runs) + 1)
                                   ELSE usage[k]]
      BY <1>8 DEF Commit
    <3>3. \A k \in picked[r] : usage[k] \in UsageRows
      BY DEF SessionsOK
    <3>4. Len(runs) + 1 \in Nat
      BY <2>2
    <3>5. \A k \in Keys : k \in picked[r] => usage'[k] \in UsageRows
      BY <3>1, <3>2, <3>3, <3>4
    <3>6. \A k \in Keys : k \notin picked[r] => usage'[k] = usage[k]
      BY <3>2
    <3>7. \A k \in Keys : usage[k] \in UsageRows \cup {NoRow}
      BY DEF TypeOK
    <3> QED
      BY <3>2, <3>5, <3>6, <3>7
  <2>6. created' = created
    BY <1>8 DEF Commit
  <2>7. EndSession(r)
    BY <1>8 DEF Commit
  <2>8. TypeOK'
    BY <2>2, <2>4, <2>5, <2>6, <2>7, EndSessionType DEF TypeOK
  <2>9. SessionsOK'
    BY <2>5, <2>7, EndSessionType DEF TypeOK, SessionsOK
  <2>10. \A o \in Obligations : has_max(runs', o)
    BY <2>1, MaxAppend
  <2> QED
    BY <2>8, <2>9, <2>10
<1>9. ASSUME NEW r \in Runners, Abort(r) PROVE TypeInv'
  <2>1. TypeOK'
    BY <1>9, EndSessionType DEF Abort, tables, TypeOK
  <2>2. SessionsOK'
    BY <1>9, EndSessionType DEF Abort, tables, TypeOK, SessionsOK
  <2>3. runs' = runs
    BY <1>9 DEF Abort, tables
  <2> QED
    BY <2>1, <2>2, <2>3, MaxKept
<1> QED
  BY <1>1, <1>2, <1>3, <1>4, <1>5, <1>6, <1>7, <1>8, <1>9 DEF Next, RunStep

\* Every table and every session keeps values of its columns' types, however
\* many sessions overlap and wherever they fail.
THEOREM TypeCorrect == Spec => []TypeOK
<1>1. TypeInv => TypeOK
  BY DEF TypeInv
<1> QED
  BY <1>1, TypeInit, TypeStep, PTL DEF Spec

-----------------------------------------------------------------------------
(* The ledger ties to the subledger *)

\* What the obligations S have earned is a number.
LEMMA EarnedType ==
  ASSUME TypeInv, NEW S, S \subseteq Obligations
  PROVE  /\ IsFiniteSet(S)
         /\ \A o \in S : recognized(o) \in Nat
         /\ Earned(S) \in Nat
<1> DEFINE f == [o \in S |-> recognized(o)]
<1>1. IsFiniteSet(S)
  BY RecognitionAssumption, FS_Subset
<1>2. \A o \in S : recognized(o) \in Nat
  BY SumType DEF TypeInv, TypeOK, recognized
<1>3. \A o \in S : f[o] \in Nat
  BY <1>2
<1> HIDE DEF f
<1>4. Total(f, S) \in Nat
  BY <1>1, <1>3, TotalType
<1> QED
  BY <1>1, <1>2, <1>4 DEF Earned, f

\* An obligation the run did not process adds nothing to any line.
LEMMA LineTotalProcessed ==
  ASSUME TypeOK, NEW r \in Runners, NEW S, S \subseteq Obligations
  PROVE  LineTotal(r, S \cap Processed(r)) = LineTotal(r, S)
<1> DEFINE P == S \cap Processed(r)
           Q == S \ Processed(r)
           f == [o \in S |-> delta[r][o].recognized_cents]
<1>1. IsFiniteSet(P) /\ IsFiniteSet(Q)
  BY RecognitionAssumption, FS_Subset
<1>2. \A o \in P \cup Q : f[o] \in Nat
  BY DEF TypeOK, Deltas
<1>3. \A o \in Q : f[o] = 0
  BY DEF Processed, NoDelta
<1>4. P \cap Q = {} /\ P \cup Q = S
  OBVIOUS
<1>5. \A o \in P : f[o] = [x \in P |-> delta[r][x].recognized_cents][o]
  OBVIOUS
<1>6. LineTotal(r, S) = Total(f, S)
  BY DEF LineTotal
<1> DEFINE g == [x \in P |-> delta[r][x].recognized_cents]
<1>7. LineTotal(r, P) = Total(g, P) /\ \A o \in P : g[o] = f[o]
  BY DEF LineTotal
<1> HIDE DEF f, P, Q, g
<1>8. Total(f, P \cup Q) = Total(f, P) + Total(f, Q)
  BY <1>1, <1>2, <1>4, TotalSplit
<1>9. Total(f, Q) = 0
  BY <1>3, TotalZero
<1>10. Total(g, P) = Total(f, P)
  BY <1>7, TotalEqual
<1>11. Total(f, P) \in Nat
  BY <1>1, <1>2, TotalType
<1>12. LineTotal(r, P) = LineTotal(r, S)
  BY <1>4, <1>6, <1>7, <1>8, <1>9, <1>10, <1>11
<1> QED
  BY <1>12 DEF P

\* A commit adds to what any set of obligations has earned exactly what its
\* journal lines add for that set.
LEMMA EarnedCommit ==
  ASSUME TypeInv, NEW r \in Runners, Commit(r), NEW S, S \subseteq Obligations
  PROVE  Earned(S)' = Earned(S) + LineTotal(r, S)
<1> DEFINE f == [o \in S |-> recognized(o)]
           g == [o \in S |-> delta[r][o].recognized_cents]
           h == [o \in S |-> recognized(o)']
<1>1. IsFiniteSet(S) /\ \A o \in S : f[o] \in Nat
  BY EarnedType
<1>2. \A o \in S : g[o] \in Nat
  BY DEF TypeInv, TypeOK, Deltas
<1>3. ASSUME NEW o \in S
      PROVE  h[o] = f[o] + g[o]
  <2> DEFINE row == [through |-> through[r], event |-> delta[r]]
  <2>1. row \in RunRows /\ runs \in Seq(RunRows) /\ runs' = Append(runs, row)
    BY CommitAppends
  <2>2. sum_cents(Append(runs, row), o)
          = sum_cents(runs, o) + row.event[o].recognized_cents
    BY <2>1, SumAppend
  <2> QED
    BY <2>1, <2>2 DEF recognized
<1>4. Earned(S) = Total(f, S) /\ LineTotal(r, S) = Total(g, S) /\ Earned(S)' = Total(h, S)
  BY DEF Earned, LineTotal
<1> HIDE DEF f, g, h
<1>5. Total(h, S) = Total(f, S) + Total(g, S)
  BY <1>1, <1>2, <1>3, TotalPlus
<1> QED
  BY <1>4, <1>5

\* Only a commit changes what obligations have earned.
LEMMA EarnedKept ==
  ASSUME runs' = runs, NEW S
  PROVE  Earned(S)' = Earned(S)
BY DEF Earned, recognized, sum_cents

LedgerInv == TypeInv /\ LedgerTiesToEvents

\* Ledger and events agree before the first run.
LEMMA LedgerInit == Init => LedgerInv
<1> SUFFICES ASSUME Init PROVE LedgerInv
  OBVIOUS
<1>1. TypeInv
  BY TypeInit
<1>2. ASSUME NEW o \in Obligations PROVE recognized(o) = 0
  <2>1. DOMAIN runs = {}
    BY DEF Init
  <2> QED
    BY <2>1, TotalEmpty DEF recognized, sum_cents
<1>3. ASSUME NEW S, S \subseteq Obligations PROVE Earned(S) = 0
  BY <1>2, <1>3, TotalZero DEF Earned
<1>4. LedgerTiesToEvents
  BY <1>3 DEF Init, LedgerTiesToEvents
<1> QED
  BY <1>1, <1>4 DEF LedgerInv

\* Every step keeps ledger and events in agreement.
LEMMA LedgerStep == LedgerInv /\ [Next]_vars => LedgerInv'
<1> SUFFICES ASSUME LedgerInv, [Next]_vars PROVE LedgerInv'
  OBVIOUS
<1> DEFINE debtors(a) == {o \in Obligations : debit_account(o) = a}
           creditors(a) == {o \in Obligations : revenue_account(o) = a}
<1>1. TypeInv /\ TypeInv'
  BY TypeStep DEF LedgerInv
<1>2. CASE UNCHANGED <<runs, posted>>
  <2>1. \A S : Earned(S)' = Earned(S)
    BY <1>2, EarnedKept
  <2>2. LedgerTiesToEvents'
    BY <1>2, <2>1 DEF LedgerInv, LedgerTiesToEvents, debit_account, revenue_account
  <2> QED
    BY <1>1, <2>2 DEF LedgerInv
<1>3. ASSUME NEW r \in Runners, Commit(r) PROVE LedgerInv'
  <2>1. ASSUME NEW S, S \subseteq Obligations
        PROVE  Earned(S)' = Earned(S) + LineTotal(r, S \cap Processed(r))
    BY <1>1, <1>3, <2>1, EarnedCommit, LineTotalProcessed DEF TypeInv
  <2>2. ASSUME NEW a \in Chart
        PROVE  /\ posted'[a].debit = posted[a].debit + Debits(r, a)
               /\ posted'[a].credit = posted[a].credit + Credits(r, a)
    BY <1>3 DEF Commit
  <2>3. ASSUME NEW a \in Chart
        PROVE  /\ Debits(r, a) = LineTotal(r, debtors(a) \cap Processed(r))
               /\ Credits(r, a) = LineTotal(r, creditors(a) \cap Processed(r))
    <3>1. /\ {o \in Processed(r) : debit_account(o) = a} = debtors(a) \cap Processed(r)
          /\ {o \in Processed(r) : revenue_account(o) = a} = creditors(a) \cap Processed(r)
      BY DEF Processed
    <3> QED
      BY <3>1 DEF Debits, Credits
  <2>4. ASSUME NEW a \in Chart
        PROVE  /\ Earned(debtors(a))' = Earned(debtors(a)) + Debits(r, a)
               /\ Earned(creditors(a))' = Earned(creditors(a)) + Credits(r, a)
    BY <2>1, <2>3
  <2>5. LedgerTiesToEvents'
    BY <2>2, <2>4 DEF LedgerInv, LedgerTiesToEvents, debit_account, revenue_account
  <2> QED
    BY <1>1, <2>5 DEF LedgerInv
<1>4. CASE UNCHANGED vars
  BY <1>2, <1>4 DEF vars
<1>5. ASSUME NEW o \in Obligations, CreateObligation(o) PROVE LedgerInv'
  BY <1>2, <1>5 DEF CreateObligation
<1>6. ASSUME NEW k \in Keys, NEW o \in Obligations, NEW n \in UnitSizes,
             PostUsage(k, o, n)
      PROVE  LedgerInv'
  BY <1>2, <1>6 DEF PostUsage
<1>7. ASSUME NEW r \in Runners, NEW d \in Dates, StartRun(r, d) PROVE LedgerInv'
  BY <1>2, <1>7 DEF StartRun, tables
<1>8. ASSUME NEW r \in Runners, LoadObligations(r) PROVE LedgerInv'
  BY <1>2, <1>8 DEF LoadObligations, tables
<1>9. ASSUME NEW r \in Runners, NEW o \in Obligations, ReadState(r, o) PROVE LedgerInv'
  BY <1>2, <1>9 DEF ReadState, tables
<1>10. ASSUME NEW r \in Runners, ComputeDelta(r) PROVE LedgerInv'
  BY <1>2, <1>10 DEF ComputeDelta, tables
<1>11. ASSUME NEW r \in Runners, Abort(r) PROVE LedgerInv'
  BY <1>2, <1>11 DEF Abort, tables
<1> QED
  BY <1>3, <1>4, <1>5, <1>6, <1>7, <1>8, <1>9, <1>10, <1>11 DEF Next, RunStep

\* On every account, the debits and credits of the runs' journal entries are the
\* recognition events of the obligations that post there: an entry aggregates
\* obligations, sessions overlap and roll back, and still no cent of the ledger
\* is without its event or the other way round.
THEOREM LedgerTies == Spec => []LedgerTiesToEvents
<1>1. LedgerInv => LedgerTiesToEvents
  BY DEF LedgerInv
<1> QED
  BY <1>1, LedgerInit, LedgerStep, PTL DEF Spec

-----------------------------------------------------------------------------
(* The cap on contract revenue, with one session at a time *)

Capped(o) == Terms[o].pattern # "consumption_payg"

\* Why the cap holds is in flight too: what a session read is still what is
\* committed, and what it is about to insert still fits under the price.
NothingStale ==
  \A r \in Runners :
    /\ pc[r] = "compute" => seen[r].cents = recognized(seen[r].obligation)
    /\ \A o \in Obligations :
         Capped(o) => recognized(o) + delta[r][o].recognized_cents
                        <= Terms[o].total_amount_cents

CapInv == TypeInv /\ NoOverRecognition /\ NothingStale

\* Nothing is recognized before the first run.
LEMMA CapInit == Init => CapInv
<1> SUFFICES ASSUME Init PROVE CapInv
  OBVIOUS
<1>1. TypeInv
  BY TypeInit
<1>2. ASSUME NEW o \in Obligations PROVE recognized(o) = 0
  <2>1. DOMAIN runs = {}
    BY DEF Init
  <2> QED
    BY <2>1, TotalEmpty DEF recognized, sum_cents
<1>3. ASSUME NEW o \in Obligations PROVE Terms[o].total_amount_cents \in Nat
  BY RecognitionAssumption DEF WellFormed
<1>4. NoOverRecognition
  BY <1>2, <1>3 DEF NoOverRecognition
<1>5. NothingStale
  BY <1>2, <1>3 DEF NothingStale, Init, NoDeltas, NoDelta
<1> QED
  BY <1>1, <1>4, <1>5 DEF CapInv

\* A step that commits nothing to the runs and does not touch what sessions read
\* or computed keeps the cap.
LEMMA CapKept ==
  ASSUME CapInv, TypeInv', runs' = runs,
         \A r \in Runners : \/ delta'[r] = delta[r]
                            \/ delta'[r] = NoDeltas,
         \A r \in Runners : pc'[r] = "compute" =>
                            pc[r] = "compute" /\ seen'[r] = seen[r]
  PROVE  CapInv'
<1>1. \A o : recognized(o)' = recognized(o)
  BY DEF recognized, sum_cents
<1>2. NoOverRecognition'
  BY <1>1 DEF CapInv, NoOverRecognition
<1>3. ASSUME NEW r \in Runners, pc'[r] = "compute"
      PROVE  seen'[r].cents = sum_cents(runs', seen'[r].obligation)
  BY <1>3 DEF CapInv, NothingStale, recognized
<1>4. ASSUME NEW r \in Runners, NEW o \in Obligations, Capped(o)
      PROVE  recognized(o)' + delta'[r][o].recognized_cents <= Terms[o].total_amount_cents
  <2>1. CASE delta'[r] = delta[r]
    BY <1>1, <1>4, <2>1 DEF CapInv, NothingStale
  <2>2. CASE delta'[r] = NoDeltas
    <3>1. recognized(o) \in Nat
      BY EarnedType DEF CapInv
    <3>2. recognized(o) <= Terms[o].total_amount_cents
      BY <1>4 DEF CapInv, NoOverRecognition, Capped
    <3>3. delta'[r][o].recognized_cents = 0
      BY <2>2 DEF NoDeltas, NoDelta
    <3> QED
      BY <1>1, <3>1, <3>2, <3>3
  <2> QED
    BY <2>1, <2>2
<1>5. NothingStale'
  BY <1>3, <1>4 DEF NothingStale, Capped, recognized
<1> QED
  BY <1>2, <1>5 DEF CapInv

\* With one session at a time every step keeps each obligation within its price.
LEMMA CapStep ==
  ASSUME \A r, s \in Runners : r = s
  PROVE  CapInv /\ [Next]_vars => CapInv'
<1> SUFFICES ASSUME CapInv, [Next]_vars PROVE CapInv'
  OBVIOUS
<1>1. TypeInv /\ TypeInv' /\ TypeOK
  BY TypeStep DEF CapInv, TypeInv
<1>2. CASE UNCHANGED vars
  BY <1>1, <1>2, CapKept DEF vars
<1>3. ASSUME NEW o \in Obligations, CreateObligation(o) PROVE CapInv'
  BY <1>1, <1>3, CapKept DEF CreateObligation, session
<1>4. ASSUME NEW k \in Keys, NEW o \in Obligations, NEW n \in UnitSizes,
             PostUsage(k, o, n)
      PROVE  CapInv'
  BY <1>1, <1>4, CapKept DEF PostUsage, session
<1>5. ASSUME NEW r \in Runners, NEW d \in Dates, StartRun(r, d) PROVE CapInv'
  <2>1. /\ runs' = runs /\ delta' = delta /\ seen' = seen
        /\ pc' = [pc EXCEPT ![r] = "load"]
    BY <1>5 DEF StartRun, tables
  <2>2. \A s \in Runners : pc'[s] = "compute" => pc[s] = "compute"
    BY <1>1, <2>1 DEF TypeOK
  <2> QED
    BY <1>1, <2>1, <2>2, CapKept
<1>6. ASSUME NEW r \in Runners, LoadObligations(r) PROVE CapInv'
  <2>1. /\ runs' = runs /\ delta' = delta /\ seen' = seen
        /\ pc' = [pc EXCEPT ![r] = "loop"]
    BY <1>6 DEF LoadObligations, tables
  <2>2. \A s \in Runners : pc'[s] = "compute" => pc[s] = "compute"
    BY <1>1, <2>1 DEF TypeOK
  <2> QED
    BY <1>1, <2>1, <2>2, CapKept
<1>7. ASSUME NEW r \in Runners, NEW o \in Obligations, ReadState(r, o) PROVE CapInv'
  <2>1. /\ runs' = runs /\ delta' = delta
        /\ seen' = [seen EXCEPT ![r] = [obligation |-> o, cents |-> recognized(o),
                                       through |-> recognized_through(o)]]
    BY <1>7 DEF ReadState, tables
  <2>2. \A x : recognized(x)' = recognized(x)
    BY <2>1 DEF recognized, sum_cents
  <2>3. NoOverRecognition'
    BY <2>2 DEF CapInv, NoOverRecognition
  <2>4. ASSUME NEW s \in Runners
        PROVE  seen'[s].cents = sum_cents(runs', seen'[s].obligation)
    <3>1. seen'[r].obligation = o /\ seen'[r].cents = recognized(o)
      BY <1>1, <2>1 DEF TypeOK
    <3>2. s = r
      OBVIOUS
    <3> QED
      BY <2>1, <3>1, <3>2 DEF recognized
  <2>5. NothingStale'
    <3>1. \A s \in Runners, x \in Obligations : Capped(x) =>
            sum_cents(runs', x) + delta'[s][x].recognized_cents
              <= Terms[x].total_amount_cents
      BY <2>1 DEF CapInv, NothingStale, recognized
    <3> QED
      BY <2>4, <3>1 DEF NothingStale, Capped, recognized
  <2> QED
    BY <1>1, <2>3, <2>5 DEF CapInv
<1>8. ASSUME NEW r \in Runners, ComputeDelta(r) PROVE CapInv'
  <2> DEFINE o == seen[r].obligation
             keys == pending_usage_for(o)
             answer == compute_recognition(Terms[o], seen[r].cents, seen[r].through,
                                           through[r], units_in(keys))
  <2>1. /\ runs' = runs /\ pc[r] = "compute"
        /\ delta' = [delta EXCEPT ![r][o] = answer]
        /\ pc' = [pc EXCEPT ![r] = "loop"]
    BY <1>8 DEF ComputeDelta, tables
  <2>2. \A x : recognized(x)' = recognized(x)
    BY <2>1 DEF recognized, sum_cents
  <2>3. /\ o \in Obligations /\ seen[r].cents \in Nat
        /\ seen[r].through \in Nat \cup {NoDate} /\ through[r] \in Nat
    BY <1>1, <2>1, RecognitionAssumption DEF TypeInv, SessionsOK, SeenRows
  <2>4. units_in(keys) \in Nat
    <3>1. keys \subseteq Keys /\ \A k \in keys : usage[k] \in UsageRows
      BY <1>1 DEF TypeOK, pending_usage_for, UsageOf
    <3> QED
      BY <3>1, UnitsType
  <2>5. seen[r].cents = recognized(o)
    BY <2>1 DEF CapInv, NothingStale
  <2>6. ASSUME Capped(o)
        PROVE  recognized(o) + answer.recognized_cents <= Terms[o].total_amount_cents
    <3>1. seen[r].cents <= Terms[o].total_amount_cents
      BY <2>3, <2>5, <2>6 DEF CapInv, NoOverRecognition, Capped
    <3>2. WellFormed(Terms[o]) /\ Terms[o].pattern # "consumption_payg"
      BY <2>3, <2>6, RecognitionAssumption DEF Capped
    <3> QED
      BY <2>3, <2>4, <2>5, <3>1, <3>2, ComputeCapped
  <2>7. NoOverRecognition'
    BY <2>2 DEF CapInv, NoOverRecognition
  <2>8. pc'[r] = "loop" /\ delta'[r] = [delta[r] EXCEPT ![o] = answer]
    BY <1>1, <2>1 DEF TypeOK
  <2>9. delta[r] \in [Obligations -> Deltas]
    BY <1>1 DEF TypeOK
  <2> HIDE DEF o, keys, answer
  <2>10. ASSUME NEW x \in Obligations, Capped(x)
         PROVE  recognized(x) + delta'[r][x].recognized_cents
                  <= Terms[x].total_amount_cents
    <3>1. CASE x = o
      BY <2>6, <2>8, <2>9, <2>10, <3>1
    <3>2. CASE x # o
      BY <2>8, <2>9, <2>10, <3>2 DEF CapInv, NothingStale
    <3> QED
      BY <3>1, <3>2
  <2>11. NothingStale'
    <3>1. \A s \in Runners : s = r
      OBVIOUS
    <3>2. \A s \in Runners : pc'[s] # "compute"
      BY <2>8, <3>1
    <3>3. \A s \in Runners, x \in Obligations : Capped(x) =>
            recognized(x)' + delta'[s][x].recognized_cents <= Terms[x].total_amount_cents
      BY <2>2, <2>10, <3>1
    <3> QED
      BY <3>2, <3>3 DEF NothingStale, Capped
  <2> QED
    BY <1>1, <2>7, <2>11 DEF CapInv
<1>9. ASSUME NEW r \in Runners, Commit(r) PROVE CapInv'
  <2> DEFINE row == [through |-> through[r], event |-> delta[r]]
  <2>1. row \in RunRows /\ runs \in Seq(RunRows) /\ runs' = Append(runs, row)
    BY <1>1, <1>9, CommitAppends
  <2>2. ASSUME NEW o \in Obligations
        PROVE  recognized(o)' = recognized(o) + delta[r][o].recognized_cents
    <3>1. sum_cents(Append(runs, row), o)
            = sum_cents(runs, o) + row.event[o].recognized_cents
      BY <2>1, SumAppend
    <3> QED
      BY <2>1, <3>1 DEF recognized
  <2>3. NoOverRecognition'
    BY <2>2 DEF CapInv, NothingStale, NoOverRecognition, Capped
  <2>4. pc'[r] = "idle" /\ delta'[r] = NoDeltas
    BY <1>1, <1>9 DEF Commit, EndSession, TypeOK
  <2>5. ASSUME NEW o \in Obligations PROVE recognized(o)' \in Nat
    <3>1. runs' \in Seq(RunRows)
      BY <1>1 DEF TypeInv, TypeOK
    <3> QED
      BY <3>1, SumType DEF recognized
  <2>6. ASSUME NEW o \in Obligations, Capped(o)
        PROVE  recognized(o)' + delta'[r][o].recognized_cents
                 <= Terms[o].total_amount_cents
    <3>1. delta'[r][o].recognized_cents = 0
      BY <2>4 DEF NoDeltas, NoDelta
    <3>2. recognized(o)' <= Terms[o].total_amount_cents
      BY <2>3, <2>6 DEF NoOverRecognition, Capped
    <3> QED
      BY <2>5, <3>1, <3>2
  <2>7. NothingStale'
    <3>1. \A s \in Runners : s = r
      OBVIOUS
    <3> QED
      BY <2>4, <2>6, <3>1 DEF NothingStale, Capped
  <2> QED
    BY <1>1, <2>3, <2>7 DEF CapInv
<1>10. ASSUME NEW r \in Runners, Abort(r) PROVE CapInv'
  <2>1. /\ runs' = runs
        /\ pc' = [pc EXCEPT ![r] = "idle"]
        /\ seen' = [seen EXCEPT ![r] = NothingSeen]
        /\ delta' = [delta EXCEPT ![r] = NoDeltas]
    BY <1>10 DEF Abort, tables, EndSession
  <2>2. \A s \in Runners : pc'[s] = "compute" => pc[s] = "compute" /\ seen'[s] = seen[s]
    BY <1>1, <2>1 DEF TypeOK
  <2>3. \A s \in Runners : delta'[s] = delta[s] \/ delta'[s] = NoDeltas
    BY <1>1, <2>1 DEF TypeOK
  <2> QED
    BY <1>1, <2>1, <2>2, <2>3, CapKept
<1> QED
  BY <1>2, <1>3, <1>4, <1>5, <1>6, <1>7, <1>8, <1>9, <1>10 DEF Next, RunStep

\* With one session at a time, no obligation is ever recognized beyond its price,
\* for any terms, dates, usage and any place a run may fail.  (With two sessions
\* it fails: run overlap_over_recognition.)
THEOREM SerialCap ==
  ASSUME \A r, s \in Runners : r = s
  PROVE  Spec => []NoOverRecognition
<1>1. CapInv => NoOverRecognition
  BY DEF CapInv
<1> QED
  BY <1>1, CapInit, CapStep, PTL DEF Spec

-----------------------------------------------------------------------------
(* No unit is lost, with any number of sessions *)

\* The queries of _pending_usage_for, on any state u of usage_events.
rows_of(u, o) == {k \in Keys : u[k] # NoRow /\ u[k].obligation = o}
stamped(u, o) == {k \in rows_of(u, o) : u[k].run # NoRun}
units_of(u, K) == Total([k \in K |-> u[k].units], K)

\* A session at p visits an obligation once: until it has, nothing is picked up
\* for it, and after that the session recognizes what the units it has picked up
\* are worth, whatever other sessions do to those rows.
unvisited(p, td, sn, o) ==
  p \in {"idle", "load"} \/ o \in td \/ (p = "compute" /\ sn.obligation = o)
Paid(u, o, cents, K) ==
  /\ Terms[o].pattern = "consumption_payg" =>
       cents = Terms[o].price_per_unit_cents * units_of(u, K)
  /\ Terms[o].pattern = "consumption" =>
       cents * Terms[o].units_total <= Terms[o].total_amount_cents * units_of(u, K)
Work(u, p, td, sn, dl, pk) ==
  /\ p = "compute" => sn.obligation \notin td
  /\ \A o \in Obligations :
       /\ unvisited(p, td, sn, o) => dl[o] = NoDelta /\ pk \cap rows_of(u, o) = {}
       /\ Paid(u, o, dl[o].recognized_cents, pk \cap rows_of(u, o))
WorkOK ==
  \A r \in Runners : Work(usage, pc[r], todo[r], seen[r], delta[r], picked[r])

UnitsInv == TypeInv /\ WorkOK /\ NoUnitLost

\* Units add up to a number, in any part of a set of rows to no more than in it.
LEMMA UnitsOfType ==
  ASSUME NEW u, NEW K, K \subseteq Keys, \A k \in K : u[k] \in UsageRows,
         NEW L, L \subseteq K
  PROVE  /\ IsFiniteSet(L) /\ units_of(u, L) \in Nat
         /\ units_of(u, L) <= units_of(u, K)
<1> DEFINE f == [k \in K |-> u[k].units]
           g == [k \in L |-> u[k].units]
<1>1. IsFiniteSet(K) /\ IsFiniteSet(L)
  BY RecognitionAssumption, FS_Subset
<1>2. \A k \in K : f[k] \in Nat
  BY RecognitionAssumption DEF UsageRows
<1>3. \A k \in L : g[k] = f[k]
  OBVIOUS
<1>4. units_of(u, K) = Total(f, K) /\ units_of(u, L) = Total(g, L)
  BY DEF units_of
<1> HIDE DEF f, g
<1>5. Total(g, L) = Total(f, L)
  BY <1>3, TotalEqual
<1>6. Total(f, L) \in Nat /\ Total(f, L) <= Total(f, K)
  BY <1>1, <1>2, TotalMonotone
<1> QED
  BY <1>1, <1>4, <1>5, <1>6

\* Units of rows that keep their units.
LEMMA UnitsOfKept ==
  ASSUME NEW u, NEW v, NEW K, \A k \in K : v[k].units = u[k].units
  PROVE  units_of(v, K) = units_of(u, K)
<1> DEFINE f == [k \in K |-> u[k].units]
           g == [k \in K |-> v[k].units]
<1>1. \A k \in K : f[k] = g[k]
  OBVIOUS
<1>2. units_of(u, K) = Total(f, K) /\ units_of(v, K) = Total(g, K)
  BY DEF units_of
<1> HIDE DEF f, g
<1> QED
  BY <1>1, <1>2, TotalEqual

\* Units of two sets of rows.
LEMMA UnitsOfUnion ==
  ASSUME NEW u, NEW K, K \subseteq Keys, NEW L, L \subseteq Keys,
         \A k \in K \cup L : u[k] \in UsageRows
  PROVE  /\ units_of(u, K \cup L) <= units_of(u, K) + units_of(u, L)
         /\ K \cap L = {} => units_of(u, K \cup L) = units_of(u, K) + units_of(u, L)
<1> DEFINE f == [k \in K \cup L |-> u[k].units]
           g == [k \in K |-> u[k].units]
           h == [k \in L |-> u[k].units]
<1>1. IsFiniteSet(K) /\ IsFiniteSet(L)
  BY RecognitionAssumption, FS_Subset
<1>2. \A k \in K \cup L : f[k] \in Nat
  BY RecognitionAssumption DEF UsageRows
<1>3. (\A k \in K : g[k] = f[k]) /\ (\A k \in L : h[k] = f[k])
  OBVIOUS
<1>4. /\ units_of(u, K \cup L) = Total(f, K \cup L)
      /\ units_of(u, K) = Total(g, K) /\ units_of(u, L) = Total(h, L)
  BY DEF units_of
<1> HIDE DEF f, g, h
<1>5. Total(g, K) = Total(f, K) /\ Total(h, L) = Total(f, L)
  BY <1>3, TotalEqual
<1>6. Total(f, K \cup L) <= Total(f, K) + Total(f, L)
  BY <1>1, <1>2, TotalUnion
<1>7. K \cap L = {} => Total(f, K \cup L) = Total(f, K) + Total(f, L)
  BY <1>1, <1>2, TotalSplit
<1> QED
  BY <1>4, <1>5, <1>6, <1>7

\* The properties' queries are these.
LEMMA ConsumedRows ==
  ASSUME NEW o \in Obligations
  PROVE  /\ UsageOf(o) = rows_of(usage, o)
         /\ consumed(o) = stamped(usage, o)
         /\ units_in(consumed(o)) = units_of(usage, stamped(usage, o))
         /\ pending_usage_for(o) \subseteq rows_of(usage, o)
<1>1. UsageOf(o) = rows_of(usage, o)
  BY DEF UsageOf, rows_of
<1>2. consumed(o) = stamped(usage, o)
  BY <1>1 DEF consumed, pending_usage_for, stamped
<1>3. units_in(consumed(o)) = units_of(usage, consumed(o))
  BY DEF units_in, units_of
<1>4. pending_usage_for(o) \subseteq rows_of(usage, o)
  BY <1>1 DEF pending_usage_for
<1> QED
  BY <1>1, <1>2, <1>3, <1>4

\* A session that has done nothing has its work in order.
LEMMA WorkIdle ==
  ASSUME NEW u, NEW td, NEW sn
  PROVE  Work(u, "idle", td, sn, NoDeltas, {})
<1>1. units_of(u, {}) = 0
  BY TotalEmpty DEF units_of
<1>2. ASSUME NEW o \in Obligations
      PROVE  Paid(u, o, 0, {})
  <2>1. /\ Terms[o].price_per_unit_cents \in Nat
        /\ Terms[o].total_amount_cents \in Nat /\ Terms[o].units_total \in Nat
    BY RecognitionAssumption DEF WellFormed
  <2> QED
    BY <1>1, <2>1 DEF Paid
<1>3. \A o \in Obligations : {} \cap rows_of(u, o) = {}
  OBVIOUS
<1>4. \A o \in Obligations :
        NoDeltas[o] = NoDelta /\ NoDeltas[o].recognized_cents = 0
  BY DEF NoDeltas, NoDelta
<1> QED
  BY <1>2, <1>3, <1>4 DEF Work

\* A session's work stays in order while it picks up nothing and the rows it has
\* picked up keep their obligation and their units.
LEMMA WorkKept ==
  ASSUME NEW u, NEW v, NEW p, NEW td, NEW sn, NEW dl, NEW pk,
         Work(u, p, td, sn, dl, pk),
         \A k \in pk : /\ u[k] # NoRow /\ v[k] # NoRow
                       /\ v[k].obligation = u[k].obligation /\ v[k].units = u[k].units,
         NEW q, NEW tq, NEW sq,
         q = "compute" => sq.obligation \notin tq,
         \A o \in Obligations : unvisited(q, tq, sq, o) => unvisited(p, td, sn, o)
  PROVE  Work(v, q, tq, sq, dl, pk)
<1>1. ASSUME NEW o \in Obligations
      PROVE  pk \cap rows_of(v, o) = pk \cap rows_of(u, o)
  BY DEF rows_of
<1>2. ASSUME NEW o \in Obligations
      PROVE  units_of(v, pk \cap rows_of(u, o)) = units_of(u, pk \cap rows_of(u, o))
  BY UnitsOfKept
<1>3. ASSUME NEW o \in Obligations
      PROVE  Paid(v, o, dl[o].recognized_cents, pk \cap rows_of(v, o))
  <2>1. Paid(u, o, dl[o].recognized_cents, pk \cap rows_of(u, o))
    BY DEF Work
  <2>2. units_of(v, pk \cap rows_of(v, o)) = units_of(u, pk \cap rows_of(u, o))
    BY <1>1, <1>2
  <2> QED
    BY <2>1, <2>2 DEF Paid
<1>4. ASSUME NEW o \in Obligations, unvisited(q, tq, sq, o)
      PROVE  dl[o] = NoDelta /\ pk \cap rows_of(v, o) = {}
  BY <1>1, <1>4 DEF Work
<1> QED
  BY <1>3, <1>4 DEF Work

\* Visiting an obligation picks up its pending usage and recognizes its worth.
LEMMA WorkDone ==
  ASSUME TypeInv, NEW r \in Runners, ComputeDelta(r),
         Work(usage, pc[r], todo[r], seen[r], delta[r], picked[r])
  PROVE  Work(usage, pc'[r], todo'[r], seen'[r], delta'[r], picked'[r])
<1> DEFINE o == seen[r].obligation
           keys == pending_usage_for(o)
           answer == compute_recognition(Terms[o], seen[r].cents, seen[r].through,
                                         through[r], units_in(keys))
<1>1. /\ o \in Obligations /\ seen[r].cents \in Nat
      /\ seen[r].through \in Nat \cup {NoDate} /\ through[r] \in Nat
  BY RecognitionAssumption DEF TypeInv, ComputeDelta, SessionsOK, SeenRows
<1>2. keys \subseteq Keys /\ \A k \in keys : usage[k] \in UsageRows
  BY DEF pending_usage_for, UsageOf, TypeInv, TypeOK
<1>3. units_in(keys) = units_of(usage, keys) /\ units_in(keys) \in Nat
  BY <1>2, UnitsType DEF units_in, units_of
<1>4. Paid(usage, o, answer.recognized_cents, keys)
  <2>1. WellFormed(Terms[o])
    BY <1>1, RecognitionAssumption
  <2>2. CASE Terms[o].pattern = "consumption_payg"
    <3>1. answer.recognized_cents = units_in(keys) * Terms[o].price_per_unit_cents
      BY <1>3, <2>1, <2>2, ComputePayg
    <3>2. Terms[o].price_per_unit_cents \in Nat
      BY <2>1 DEF WellFormed
    <3> QED
      BY <1>3, <2>2, <3>1, <3>2 DEF Paid
  <2>3. CASE Terms[o].pattern = "consumption"
    <3>1. answer.recognized_cents * Terms[o].units_total
            <= Terms[o].total_amount_cents * units_in(keys)
      BY <1>1, <1>3, <2>1, <2>3, ComputeShare
    <3> QED
      BY <1>3, <2>3, <3>1 DEF Paid
  <2> QED
    BY <2>2, <2>3 DEF Paid
<1>5. /\ delta'[r] = [delta[r] EXCEPT ![o] = answer]
      /\ picked'[r] = picked[r] \cup keys
      /\ pc[r] = "compute" /\ pc'[r] = "loop" /\ todo'[r] = todo[r]
  BY DEF ComputeDelta, TypeInv, TypeOK
<1>6. DOMAIN delta[r] = Obligations
  BY DEF TypeInv, TypeOK
<1>7. picked[r] \cap rows_of(usage, o) = {} /\ o \notin todo[r]
  BY <1>1, <1>5 DEF Work, unvisited
<1>8. keys \subseteq rows_of(usage, o)
  BY <1>1, ConsumedRows
<1> HIDE DEF o, keys, answer
<1>9. picked'[r] \cap rows_of(usage, o) = keys
  BY <1>5, <1>7, <1>8
<1>10. ASSUME NEW x \in Obligations, x # o
       PROVE  picked'[r] \cap rows_of(usage, x) = picked[r] \cap rows_of(usage, x)
  BY <1>5, <1>8, <1>10 DEF rows_of
<1>11. ASSUME NEW x \in Obligations
       PROVE  Paid(usage, x, delta'[r][x].recognized_cents, picked'[r] \cap rows_of(usage, x))
  <2>1. CASE x = o
    BY <1>4, <1>5, <1>6, <1>9, <2>1
  <2>2. CASE x # o
    <3>1. delta'[r][x] = delta[r][x]
      BY <1>5, <1>6, <2>2
    <3>2. Paid(usage, x, delta[r][x].recognized_cents, picked[r] \cap rows_of(usage, x))
      BY DEF Work
    <3> QED
      BY <1>10, <2>2, <3>1, <3>2
  <2> QED
    BY <2>1, <2>2
<1>12. ASSUME NEW x \in Obligations, unvisited(pc'[r], todo'[r], seen'[r], x)
       PROVE  delta'[r][x] = NoDelta /\ picked'[r] \cap rows_of(usage, x) = {}
  <2>1. x \in todo[r] /\ x # o
    BY <1>5, <1>7, <1>12 DEF unvisited
  <2>2. delta[r][x] = NoDelta /\ picked[r] \cap rows_of(usage, x) = {}
    BY <2>1 DEF Work, unvisited
  <2> QED
    BY <1>5, <1>6, <1>10, <2>1, <2>2
<1> QED
  BY <1>5, <1>11, <1>12 DEF Work

\* No unit is stamped before the first run.
LEMMA UnitsInit == Init => UnitsInv
<1> SUFFICES ASSUME Init PROVE UnitsInv
  OBVIOUS
<1>1. TypeInv
  BY TypeInit
<1>2. WorkOK
  <2>1. ASSUME NEW r \in Runners
        PROVE  Work(usage, pc[r], todo[r], seen[r], delta[r], picked[r])
    <3>1. pc[r] = "idle" /\ delta[r] = NoDeltas /\ picked[r] = {}
      BY DEF Init
    <3> QED
      BY <3>1, WorkIdle
  <2> QED
    BY <2>1 DEF WorkOK
<1>3. NoUnitLost
  <2>1. ASSUME NEW o \in Obligations
        PROVE  recognized(o) = 0 /\ units_in(consumed(o)) = 0
    <3>1. DOMAIN runs = {} /\ stamped(usage, o) = {}
      BY DEF Init, stamped, rows_of
    <3>2. units_of(usage, {}) = 0
      BY TotalEmpty DEF units_of
    <3> QED
      BY <3>1, <3>2, ConsumedRows, TotalEmpty DEF recognized, sum_cents
  <2>2. ASSUME NEW o \in Obligations
        PROVE  Terms[o].price_per_unit_cents \in Nat
    BY RecognitionAssumption DEF WellFormed
  <2> QED
    BY <2>1, <2>2 DEF NoUnitLost
<1> QED
  BY <1>1, <1>2, <1>3 DEF UnitsInv

\* A step that commits no run and stamps nothing loses no unit.
LEMMA NoUnitLostKept ==
  ASSUME UnitsInv, runs' = runs,
         \A o \in Obligations : stamped(usage', o) = stamped(usage, o),
         \A k \in Keys : usage[k] \in UsageRows => usage'[k] = usage[k]
  PROVE  NoUnitLost'
<1>1. ASSUME NEW o \in Obligations
      PROVE  /\ recognized(o)' = recognized(o)
             /\ units_in(consumed(o))' = units_in(consumed(o))
  <2>1. \A k \in stamped(usage, o) : usage'[k].units = usage[k].units
    BY DEF UnitsInv, TypeInv, TypeOK, stamped, rows_of
  <2>2. units_of(usage', stamped(usage, o)) = units_of(usage, stamped(usage, o))
    BY <2>1, UnitsOfKept
  <2>3. consumed(o)' = stamped(usage', o) /\ units_in(consumed(o)) = units_of(usage, stamped(usage, o))
    BY ConsumedRows DEF consumed, UsageOf, pending_usage_for, stamped, rows_of
  <2>4. units_in(consumed(o))' = units_of(usage', consumed(o)')
    BY DEF units_in, units_of
  <2> QED
    BY <2>2, <2>3, <2>4 DEF recognized, sum_cents
<1> QED
  BY <1>1 DEF UnitsInv, NoUnitLost

\* What a commit recognizes of an obligation, and the units it stamps for that.
LEMMA CommitStamps ==
  ASSUME TypeInv, WorkOK, NEW r \in Runners, Commit(r), NEW o \in Obligations
  PROVE  LET mine == picked[r] \cap rows_of(usage, o)
             was == stamped(usage, o)
         IN  /\ recognized(o)' = recognized(o) + delta[r][o].recognized_cents
             /\ consumed(o)' = was \cup mine
             /\ units_in(consumed(o))' = units_of(usage, was \cup mine)
             /\ units_of(usage, mine) \in Nat /\ units_of(usage, was) \in Nat
             /\ units_of(usage, was \cup mine) \in Nat
             /\ units_of(usage, was \cup mine)
                  <= units_of(usage, was) + units_of(usage, mine)
             /\ was \cap mine = {} =>
                  units_of(usage, was \cup mine)
                    = units_of(usage, was) + units_of(usage, mine)
<1> DEFINE mine == picked[r] \cap rows_of(usage, o)
           was == stamped(usage, o)
           row == [through |-> through[r], event |-> delta[r]]
<1>1. row \in RunRows /\ runs \in Seq(RunRows) /\ runs' = Append(runs, row)
  BY CommitAppends
<1>2. sum_cents(Append(runs, row), o) = sum_cents(runs, o) + row.event[o].recognized_cents
  BY <1>1, SumAppend
<1>3. recognized(o)' = recognized(o) + delta[r][o].recognized_cents
  BY <1>1, <1>2 DEF recognized
<1>4. Len(runs) \in Nat
  BY <1>1
<1>5. \A k \in picked[r] : k \in Keys /\ usage[k] \in UsageRows
  BY DEF TypeInv, TypeOK, SessionsOK
<1>6. usage' = [k \in Keys |-> IF k \in picked[r]
                               THEN recognized_by(usage[k], Len(runs) + 1) ELSE usage[k]]
  BY DEF Commit
<1>7. ASSUME NEW k \in Keys
      PROVE  /\ k \notin picked[r] => usage'[k] = usage[k]
             /\ k \in picked[r] =>
                  /\ usage'[k] # NoRow /\ usage[k] # NoRow /\ usage'[k].run # NoRun
                  /\ usage'[k].obligation = usage[k].obligation
                  /\ usage'[k].units = usage[k].units
  <2>1. ASSUME k \in picked[r]
        PROVE  /\ recognized_by(usage[k], Len(runs) + 1) \in UsageRows
               /\ recognized_by(usage[k], Len(runs) + 1).run = Len(runs) + 1
               /\ recognized_by(usage[k], Len(runs) + 1).obligation = usage[k].obligation
               /\ recognized_by(usage[k], Len(runs) + 1).units = usage[k].units
    BY <1>4, <1>5, <2>1 DEF recognized_by, UsageRows
  <2> QED
    BY <1>4, <1>5, <1>6, <2>1, RecognitionAssumption DEF NoRun
<1>8. stamped(usage', o) = was \cup mine
  BY <1>5, <1>7 DEF stamped, rows_of
<1>9. \A k \in was \cup mine : usage'[k].units = usage[k].units
  BY <1>7 DEF stamped, rows_of
<1>10. units_of(usage', was \cup mine) = units_of(usage, was \cup mine)
  BY <1>9, UnitsOfKept
<1>11. consumed(o)' = stamped(usage', o)
  BY DEF consumed, UsageOf, pending_usage_for, stamped, rows_of
<1>12. units_in(consumed(o))' = units_of(usage', consumed(o)')
  BY DEF units_in, units_of
<1>13. /\ was \subseteq Keys /\ mine \subseteq Keys
       /\ \A k \in was \cup mine : usage[k] \in UsageRows
  BY <1>5 DEF stamped, rows_of, TypeInv, TypeOK
<1> HIDE DEF was, mine, row
<1>14. /\ units_of(usage, mine) \in Nat /\ units_of(usage, was) \in Nat
       /\ units_of(usage, was \cup mine) \in Nat
  BY <1>13, UnitsOfType
<1>15. /\ units_of(usage, was \cup mine) <= units_of(usage, was) + units_of(usage, mine)
       /\ was \cap mine = {} =>
            units_of(usage, was \cup mine) = units_of(usage, was) + units_of(usage, mine)
  BY <1>13, UnitsOfUnion
<1> QED
  BY <1>3, <1>8, <1>10, <1>11, <1>12, <1>14, <1>15 DEF was, mine

\* Every step keeps the units of stamped usage in the events that recognized them.
LEMMA UnitsStep == UnitsInv /\ [Next]_vars => UnitsInv'
<1> SUFFICES ASSUME UnitsInv, [Next]_vars PROVE UnitsInv'
  OBVIOUS
<1>1. TypeInv /\ TypeInv' /\ TypeOK
  BY TypeStep DEF UnitsInv, TypeInv
<1>2. \A r \in Runners : Work(usage, pc[r], todo[r], seen[r], delta[r], picked[r])
  BY DEF UnitsInv, WorkOK
<1>3. \A r \in Runners : \A k \in picked[r] : usage[k] \in UsageRows /\ usage[k] # NoRow
  BY <1>1, RecognitionAssumption DEF TypeInv, SessionsOK
<1>4. CASE UNCHANGED vars
  <2>1. WorkOK'
    BY <1>2, <1>4 DEF vars, WorkOK
  <2>2. NoUnitLost'
    BY <1>4, NoUnitLostKept DEF vars
  <2> QED
    BY <1>1, <2>1, <2>2 DEF UnitsInv
<1>5. ASSUME NEW o \in Obligations, CreateObligation(o) PROVE UnitsInv'
  <2>1. WorkOK'
    BY <1>2, <1>5 DEF CreateObligation, session, WorkOK
  <2>2. NoUnitLost'
    BY <1>5, NoUnitLostKept DEF CreateObligation
  <2> QED
    BY <1>1, <2>1, <2>2 DEF UnitsInv
<1>6. ASSUME NEW k \in Keys, NEW o \in Obligations, NEW n \in UnitSizes,
             PostUsage(k, o, n)
      PROVE  UnitsInv'
  <2>1. /\ usage[k] = NoRow
        /\ usage' = [usage EXCEPT ![k] = [obligation |-> o, units |-> n, run |-> NoRun]]
        /\ UNCHANGED <<runs, pc, todo, seen, delta, picked>>
    BY <1>6 DEF PostUsage, session
  <2>2. \A x \in Keys : usage[x] # NoRow => usage'[x] = usage[x]
    BY <1>1, <2>1 DEF TypeOK
  <2>3. ASSUME NEW r \in Runners
        PROVE  Work(usage', pc'[r], todo'[r], seen'[r], delta'[r], picked'[r])
    <3>1. \A x \in picked[r] : x \in Keys /\ usage[x] # NoRow /\ usage'[x] = usage[x]
      BY <1>1, <1>3, <2>2 DEF TypeOK
    <3>2. pc[r] = "compute" => seen[r].obligation \notin todo[r]
      BY <1>2 DEF Work
    <3>3. Work(usage', pc[r], todo[r], seen[r], delta[r], picked[r])
      BY <1>2, <3>1, <3>2, WorkKept
    <3> QED
      BY <2>1, <3>3
  <2>4. ASSUME NEW x \in Obligations
        PROVE  stamped(usage', x) = stamped(usage, x)
    BY <1>1, <2>1, <2>2 DEF stamped, rows_of, TypeOK
  <2>5. NoUnitLost'
    BY <2>1, <2>2, <2>4, NoUnitLostKept, RecognitionAssumption
  <2> QED
    BY <1>1, <2>3, <2>5 DEF UnitsInv, WorkOK
<1>7. ASSUME NEW r \in Runners, UNCHANGED <<usage, runs>>,
             Work(usage, pc'[r], todo'[r], seen'[r], delta'[r], picked'[r]),
             \A s \in Runners \ {r} :
               /\ pc'[s] = pc[s] /\ todo'[s] = todo[s] /\ seen'[s] = seen[s]
               /\ delta'[s] = delta[s] /\ picked'[s] = picked[s]
      PROVE  UnitsInv'
  <2>1. \A s \in Runners : Work(usage', pc'[s], todo'[s], seen'[s], delta'[s], picked'[s])
    BY <1>2, <1>7
  <2>2. NoUnitLost'
    BY <1>7, NoUnitLostKept
  <2> QED
    BY <1>1, <2>1, <2>2 DEF UnitsInv, WorkOK
<1>8. ASSUME NEW r \in Runners, UNCHANGED <<usage, runs, delta, picked>>,
             pc'[r] = "compute" => seen'[r].obligation \notin todo'[r],
             \A o \in Obligations : unvisited(pc'[r], todo'[r], seen'[r], o) =>
                                    unvisited(pc[r], todo[r], seen[r], o),
             \A s \in Runners \ {r} :
               pc'[s] = pc[s] /\ todo'[s] = todo[s] /\ seen'[s] = seen[s]
      PROVE  UnitsInv'
  <2>1. Work(usage, pc'[r], todo'[r], seen'[r], delta[r], picked[r])
    BY <1>2, <1>3, <1>8, WorkKept
  <2> QED
    BY <1>7, <1>8, <2>1
<1>9. ASSUME NEW r \in Runners, NEW d \in Dates, StartRun(r, d) PROVE UnitsInv'
  <2>1. /\ UNCHANGED <<usage, runs, todo, seen, delta, picked>>
        /\ pc[r] = "idle" /\ pc' = [pc EXCEPT ![r] = "load"]
    BY <1>9 DEF StartRun, tables
  <2>2. pc'[r] = "load" /\ \A s \in Runners \ {r} : pc'[s] = pc[s]
    BY <1>1, <2>1 DEF TypeOK
  <2> QED
    BY <1>8, <2>1, <2>2 DEF unvisited
<1>10. ASSUME NEW r \in Runners, LoadObligations(r) PROVE UnitsInv'
  <2>1. /\ UNCHANGED <<usage, runs, seen, delta, picked>>
        /\ pc[r] = "load" /\ pc' = [pc EXCEPT ![r] = "loop"]
        /\ \A s \in Runners \ {r} : todo'[s] = todo[s]
    BY <1>1, <1>10 DEF LoadObligations, tables, TypeOK
  <2>2. pc'[r] = "loop" /\ \A s \in Runners \ {r} : pc'[s] = pc[s]
    BY <1>1, <2>1 DEF TypeOK
  <2> QED
    BY <1>8, <2>1, <2>2 DEF unvisited
<1>11. ASSUME NEW r \in Runners, NEW o \in Obligations, ReadState(r, o) PROVE UnitsInv'
  <2>1. /\ UNCHANGED <<usage, runs, delta, picked>>
        /\ pc[r] = "loop" /\ o \in todo[r]
        /\ pc'[r] = "compute" /\ todo'[r] = todo[r] \ {o} /\ seen'[r].obligation = o
        /\ \A s \in Runners \ {r} :
             pc'[s] = pc[s] /\ todo'[s] = todo[s] /\ seen'[s] = seen[s]
    BY <1>1, <1>11 DEF ReadState, tables, TypeOK
  <2> QED
    BY <1>8, <2>1 DEF unvisited
<1>12. ASSUME NEW r \in Runners, ComputeDelta(r) PROVE UnitsInv'
  <2>1. Work(usage, pc'[r], todo'[r], seen'[r], delta'[r], picked'[r])
    BY <1>1, <1>2, <1>12, WorkDone
  <2>2. /\ UNCHANGED <<usage, runs>>
        /\ \A s \in Runners \ {r} :
             /\ pc'[s] = pc[s] /\ todo'[s] = todo[s] /\ seen'[s] = seen[s]
             /\ delta'[s] = delta[s] /\ picked'[s] = picked[s]
    BY <1>1, <1>12 DEF ComputeDelta, tables, TypeOK
  <2> QED
    BY <1>7, <2>1, <2>2
<1>13. ASSUME NEW r \in Runners, EndSession(r)
       PROVE  /\ \A u : Work(u, pc'[r], todo'[r], seen'[r], delta'[r], picked'[r])
              /\ \A s \in Runners \ {r} :
                   /\ pc'[s] = pc[s] /\ todo'[s] = todo[s] /\ seen'[s] = seen[s]
                   /\ delta'[s] = delta[s] /\ picked'[s] = picked[s]
  <2>1. pc'[r] = "idle" /\ delta'[r] = NoDeltas /\ picked'[r] = {}
    BY <1>1, <1>13 DEF EndSession, TypeOK
  <2>2. \A u : Work(u, pc'[r], todo'[r], seen'[r], delta'[r], picked'[r])
    BY <2>1, WorkIdle
  <2> QED
    BY <1>1, <1>13, <2>2, EndSessionType
<1>14. ASSUME NEW r \in Runners, Abort(r) PROVE UnitsInv'
  BY <1>7, <1>13, <1>14 DEF Abort, tables
<1>15. ASSUME NEW r \in Runners, Commit(r) PROVE UnitsInv'
  <2>1. ASSUME NEW s \in Runners, NEW k \in picked[s]
        PROVE  /\ usage[k] # NoRow /\ usage'[k] # NoRow
               /\ usage'[k].obligation = usage[k].obligation
               /\ usage'[k].units = usage[k].units
    <3>1. k \in Keys /\ usage[k] \in UsageRows
      BY <1>1, <1>3 DEF TypeOK
    <3>2. usage'[k] = IF k \in picked[r] THEN recognized_by(usage[k], Len(runs) + 1)
                                         ELSE usage[k]
      BY <1>15, <3>1 DEF Commit
    <3>3. Len(runs) \in Nat
      BY <1>1 DEF TypeOK
    <3> QED
      BY <3>1, <3>2, <3>3, RecognitionAssumption DEF recognized_by, UsageRows
  <2>2. EndSession(r)
    BY <1>15 DEF Commit
  <2>3. ASSUME NEW s \in Runners
        PROVE  Work(usage', pc'[s], todo'[s], seen'[s], delta'[s], picked'[s])
    <3>1. CASE s = r
      BY <1>13, <2>2, <3>1
    <3>2. CASE s # r
      <4>1. /\ pc'[s] = pc[s] /\ todo'[s] = todo[s] /\ seen'[s] = seen[s]
            /\ delta'[s] = delta[s] /\ picked'[s] = picked[s]
        BY <1>13, <2>2, <3>2
      <4>2. pc[s] = "compute" => seen[s].obligation \notin todo[s]
        BY <1>2 DEF Work
      <4> QED
        BY <1>2, <2>1, <4>1, <4>2, WorkKept
    <3> QED
      BY <3>1, <3>2
  <2>4. NoUnitLost'
    <3>1. ASSUME NEW o \in Obligations, Terms[o].pattern = "consumption_payg"
          PROVE  recognized(o)' >= Terms[o].price_per_unit_cents * units_in(consumed(o))'
      <4> DEFINE mine == picked[r] \cap rows_of(usage, o)
                 was == stamped(usage, o)
                 price == Terms[o].price_per_unit_cents
      <4>1. /\ recognized(o)' = recognized(o) + delta[r][o].recognized_cents
            /\ units_in(consumed(o))' = units_of(usage, was \cup mine)
            /\ units_of(usage, mine) \in Nat /\ units_of(usage, was) \in Nat
            /\ units_of(usage, was \cup mine) \in Nat
            /\ units_of(usage, was \cup mine)
                 <= units_of(usage, was) + units_of(usage, mine)
        BY <1>1, <1>15, CommitStamps DEF UnitsInv
      <4>2. delta[r][o].recognized_cents = price * units_of(usage, mine)
        BY <1>2, <3>1 DEF Work, Paid
      <4>3. recognized(o) >= price * units_of(usage, was)
        BY <3>1, ConsumedRows DEF UnitsInv, NoUnitLost
      <4>4. price \in Nat /\ recognized(o) \in Nat
        BY <1>1, RecognitionAssumption, SumType DEF WellFormed, TypeOK, recognized
      <4> HIDE DEF mine, was, price
      <4>5. \A x, y, z \in Nat : z <= x + y => price * z <= price * x + price * y
        BY <4>4
      <4>6. price * units_of(usage, was \cup mine)
              <= price * units_of(usage, was) + price * units_of(usage, mine)
        BY <4>1, <4>5
      <4>7. /\ price * units_of(usage, was \cup mine) \in Nat
            /\ price * units_of(usage, was) \in Nat /\ price * units_of(usage, mine) \in Nat
        BY <4>1, <4>4
      <4>8. recognized(o)' >= price * units_of(usage, was \cup mine)
        BY <4>1, <4>2, <4>3, <4>4, <4>6, <4>7
      <4> QED
        BY <4>1, <4>8 DEF price
    <3> QED
      BY <3>1 DEF NoUnitLost
  <2> QED
    BY <1>1, <2>3, <2>4 DEF UnitsInv, WorkOK
<1> QED
  BY <1>4, <1>5, <1>6, <1>9, <1>10, <1>11, <1>12, <1>14, <1>15 DEF Next, RunStep

\* No pay-as-you-go unit is ever marked recognized without its revenue, however
\* many sessions overlap: each stamps exactly the rows whose units it counted.
THEOREM UnitsKeepTheirRevenue == Spec => []NoUnitLost
<1>1. UnitsInv => NoUnitLost
  BY DEF UnitsInv
<1> QED
  BY <1>1, UnitsInit, UnitsStep, PTL DEF Spec
=============================================================================
