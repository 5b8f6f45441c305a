-------------------------- MODULE ArithmeticProofs --------------------------
(***************************************************************************)
(* What the theorems about the tables rest on: sums, as SQL makes them     *)
(* (Total is a natural number, it splits over disjoint sets, groups and    *)
(* pointwise sums), and the amounts of compute.py (their types, the cap at *)
(* a price, the schedule of a daily rate).                                 *)
(***************************************************************************)
EXTENDS Compute, Sums, FunctionTheorems, FiniteSetTheorems, TLAPS

(* Sums *)

\* The tokens of one row: as many as its value says.
LEMMA RowTokens ==
  ASSUME NEW x, NEW n \in Nat
  PROVE  IsFiniteSet({x} \X (1..n)) /\ Cardinality({x} \X (1..n)) = n
<1>1. IsFiniteSet({x}) /\ Cardinality({x}) = 1
  BY FS_Singleton
<1>2. IsFiniteSet(1..n) /\ Cardinality(1..n) = IF 1 > n THEN 0 ELSE n - 1 + 1
  BY FS_Interval
<1>3. /\ IsFiniteSet({x} \X (1..n))
      /\ Cardinality({x} \X (1..n)) = Cardinality({x}) * Cardinality(1..n)
  BY <1>1, <1>2, FS_Product
<1>4. Cardinality(1..n) = n
  BY <1>2
<1> QED
  BY <1>1, <1>3, <1>4

\* The union of two disjoint finite sets has as many elements as both.
LEMMA DisjointUnion ==
  ASSUME NEW A, IsFiniteSet(A), NEW B, IsFiniteSet(B), A \cap B = {}
  PROVE  Cardinality(A \cup B) = Cardinality(A) + Cardinality(B)
<1>1. Cardinality(A \cup B) = Cardinality(A) + Cardinality(B) - Cardinality(A \cap B)
  BY FS_Union
<1>2. Cardinality(A \cap B) = 0
  BY FS_EmptySet
<1>3. Cardinality(A) \in Nat /\ Cardinality(B) \in Nat
  BY FS_CardinalityType
<1> QED
  BY <1>1, <1>2, <1>3

\* Every row contributes a finite set of tokens, so a sum is a number.
LEMMA TotalType ==
  ASSUME NEW S, IsFiniteSet(S), NEW f, \A x \in S : f[x] \in Nat
  PROVE  IsFiniteSet(Tokens(f, S)) /\ Total(f, S) \in Nat
<1> DEFINE col == [x \in S |-> {x} \X (1..f[x])]
           cols == {{x} \X (1..f[x]) : x \in S}
<1>1. col \in Surjection(S, cols)
  BY DEF Surjection
<1>2. IsFiniteSet(cols)
  BY <1>1, FS_Surjection
<1>3. ASSUME NEW x \in S PROVE IsFiniteSet({x} \X (1..f[x]))
  BY RowTokens
<1>4. IsFiniteSet(UNION cols)
  BY <1>2, <1>3, FS_UNION
<1> QED
  BY <1>4, FS_CardinalityType DEF Total, Tokens

\* A sum depends on the rows of its set only.
LEMMA TotalEqual ==
  ASSUME NEW S, NEW f, NEW g, \A x \in S : f[x] = g[x]
  PROVE  Total(f, S) = Total(g, S)
BY DEF Total, Tokens

\* The sum of no row is 0.
LEMMA TotalEmpty ==
  ASSUME NEW f
  PROVE  Total(f, {}) = 0
BY FS_EmptySet DEF Total, Tokens

\* The sum of one row.
LEMMA TotalSingleton ==
  ASSUME NEW x, NEW f, f[x] \in Nat
  PROVE  Total(f, {x}) = f[x]
<1>1. Tokens(f, {x}) = {x} \X (1..f[x])
  BY DEF Tokens
<1> QED
  BY <1>1, RowTokens DEF Total

\* The sum over two disjoint sets is the sum of their sums.
LEMMA TotalSplit ==
  ASSUME NEW S, IsFiniteSet(S), NEW T, IsFiniteSet(T), S \cap T = {},
         NEW f, \A x \in S \cup T : f[x] \in Nat
  PROVE  Total(f, S \cup T) = Total(f, S) + Total(f, T)
<1>1. Tokens(f, S \cup T) = Tokens(f, S) \cup Tokens(f, T)
  BY DEF Tokens
<1>2. Tokens(f, S) \cap Tokens(f, T) = {}
  BY DEF Tokens
<1>3. IsFiniteSet(Tokens(f, S)) /\ IsFiniteSet(Tokens(f, T))
  BY TotalType
<1> QED
  BY <1>1, <1>2, <1>3, DisjointUnion DEF Total

\* Adding rows pointwise adds their sums.
LEMMA TotalPlus ==
  ASSUME NEW S, IsFiniteSet(S), NEW f, NEW g, NEW h,
         \A x \in S : f[x] \in Nat /\ g[x] \in Nat /\ h[x] = f[x] + g[x]
  PROVE  Total(h, S) = Total(f, S) + Total(g, S)
<1> DEFINE F == Tokens(f, S)
           G == Tokens(g, S)
           H == Tokens(h, S)
           U == H \ F
           shift == [p \in G |-> <<p[1], p[2] + f[p[1]]>>]
<1>1. ASSUME NEW p
      PROVE  /\ p \in F <=> \E x \in S : \E i \in 1..f[x] : p = <<x, i>>
             /\ p \in G <=> \E x \in S : \E i \in 1..g[x] : p = <<x, i>>
             /\ p \in H <=> \E x \in S : \E i \in 1..h[x] : p = <<x, i>>
  BY DEF Tokens
<1>2. F \subseteq H
  BY <1>1
<1>3. shift \in [G -> U]
  <2> SUFFICES ASSUME NEW p \in G
               PROVE  <<p[1], p[2] + f[p[1]]>> \in U
    OBVIOUS
  <2>1. PICK x \in S : \E i \in 1..g[x] : p = <<x, i>>
    BY <1>1
  <2>1a. PICK i \in 1..g[x] : p = <<x, i>>
    BY <2>1
  <2>2. i + f[x] \in 1..h[x] /\ i + f[x] \notin 1..f[x]
    OBVIOUS
  <2> QED
    BY <2>1a, <2>2, <1>1
<1>4. ASSUME NEW p \in G, NEW q \in G, shift[p] = shift[q]
      PROVE  p = q
  <2>1. PICK x \in S : \E i \in 1..g[x] : p = <<x, i>>
    BY <1>1
  <2>1a. PICK i \in 1..g[x] : p = <<x, i>>
    BY <2>1
  <2>2. PICK y \in S : \E j \in 1..g[y] : q = <<y, j>>
    BY <1>1
  <2>2a. PICK j \in 1..g[y] : q = <<y, j>>
    BY <2>2
  <2>3. x = y /\ i + f[x] = j + f[y]
    BY <1>4, <2>1a, <2>2a
  <2> QED
    BY <2>1a, <2>2a, <2>3
<1>5. ASSUME NEW q \in U
      PROVE  \E p \in G : shift[p] = q
  <2>1. PICK x \in S : \E i \in 1..h[x] : q = <<x, i>>
    BY <1>1
  <2>1a. PICK i \in 1..h[x] : q = <<x, i>>
    BY <2>1
  <2>2. i \notin 1..f[x]
    BY <2>1a, <1>1
  <2>3. i - f[x] \in 1..g[x]
    BY <2>2
  <2>4. <<x, i - f[x]>> \in G
    BY <2>3, <1>1
  <2>5. shift[<<x, i - f[x]>>] = q
    BY <2>1a, <2>4
  <2> QED
    BY <2>4, <2>5
<1>6. shift \in Bijection(G, U)
  BY <1>3, <1>4, <1>5 DEF Bijection, Injection, Surjection, IsInjective
<1>7. IsFiniteSet(F) /\ IsFiniteSet(G)
  BY TotalType
<1>8. IsFiniteSet(U) /\ Cardinality(U) = Cardinality(G)
  BY <1>6, <1>7, FS_Bijection DEF ExistsBijection
<1>9. H = F \cup U /\ F \cap U = {}
  BY <1>2
<1> HIDE DEF F, G, H, U, shift
<1>10. Cardinality(H) = Cardinality(F) + Cardinality(G)
  BY <1>7, <1>8, <1>9, DisjointUnion
<1> QED
  BY <1>10 DEF Total, F, G, H

\* A sum of zeros is 0.
LEMMA TotalZero ==
  ASSUME NEW S, NEW f, \A x \in S : f[x] = 0
  PROVE  Total(f, S) = 0
<1>1. \A x \in S : 1..f[x] = {}
  OBVIOUS
<1>2. Tokens(f, S) = {}
  BY <1>1 DEF Tokens
<1> QED
  BY <1>2, FS_EmptySet DEF Total

\* A sum over more rows is not smaller.
LEMMA TotalMonotone ==
  ASSUME NEW S, IsFiniteSet(S), NEW T, T \subseteq S, NEW f, \A x \in S : f[x] \in Nat
  PROVE  Total(f, T) \in Nat /\ Total(f, T) <= Total(f, S)
<1> DEFINE R == S \ T
<1>1. IsFiniteSet(T) /\ IsFiniteSet(R)
  BY FS_Subset
<1>2. T \cap R = {} /\ T \cup R = S
  OBVIOUS
<1>3. Total(f, T) \in Nat /\ Total(f, R) \in Nat
  BY <1>1, TotalType
<1> HIDE DEF R
<1>4. Total(f, T \cup R) = Total(f, T) + Total(f, R)
  BY <1>1, <1>2, TotalSplit
<1>5. Total(f, S) = Total(f, T \cup R)
  BY <1>2, Zenon
<1> QED
  BY <1>3, <1>4, <1>5

\* Rows that two sets share are not summed twice.
LEMMA TotalUnion ==
  ASSUME NEW S, IsFiniteSet(S), NEW T, IsFiniteSet(T),
         NEW f, \A x \in S \cup T : f[x] \in Nat
  PROVE  Total(f, S \cup T) <= Total(f, S) + Total(f, T)
<1> DEFINE R == T \ S
<1>1. IsFiniteSet(R)
  BY FS_Subset
<1>2. S \cap R = {} /\ S \cup R = S \cup T
  OBVIOUS
<1>3. Total(f, S) \in Nat
  BY TotalType
<1>4. Total(f, R) \in Nat /\ Total(f, R) <= Total(f, T) /\ Total(f, T) \in Nat
  BY TotalMonotone, TotalType
<1> HIDE DEF R
<1>5. Total(f, S \cup R) = Total(f, S) + Total(f, R)
  BY <1>1, <1>2, TotalSplit
<1>6. Total(f, S \cup T) = Total(f, S \cup R)
  BY <1>2, Zenon
<1> QED
  BY <1>3, <1>4, <1>5, <1>6

\* Rows under other names add up to the same.
LEMMA TotalReindexed ==
  ASSUME NEW S, IsFiniteSet(S), NEW T, NEW h \in Bijection(S, T), NEW f, NEW g,
         \A x \in S : f[x] \in Nat /\ g[h[x]] = f[x]
  PROVE  Total(g, T) = Total(f, S)
<1> DEFINE F == Tokens(f, S)
           G == Tokens(g, T)
           M == [t \in F |-> <<h[t[1]], t[2]>>]
<1>1. /\ h \in [S -> T] /\ \A x, y \in S : h[x] = h[y] => x = y
      /\ \A y \in T : \E x \in S : h[x] = y
  BY DEF Bijection, Injection, Surjection, IsInjective
<1>2. \A t : t \in F <=> t \in S \X Nat /\ t[2] \in 1..f[t[1]]
  BY DEF Tokens
<1>3. \A t : t \in G <=> t \in T \X Nat /\ t[2] \in 1..g[t[1]]
  BY DEF Tokens
<1> HIDE DEF F, G
<1>4. M \in [F -> G]
  BY <1>1, <1>2, <1>3
<1>5. ASSUME NEW t \in F, NEW u \in F, M[t] = M[u] PROVE t = u
  BY <1>1, <1>2, <1>5
<1>6. ASSUME NEW u \in G PROVE \E t \in F : M[t] = u
  <2>1. PICK x \in S : h[x] = u[1]
    BY <1>1, <1>3
  <2>2. <<x, u[2]>> \in F /\ u = <<u[1], u[2]>>
    BY <1>2, <1>3, <2>1
  <2> QED
    BY <2>1, <2>2
<1>7. M \in Bijection(F, G)
  BY <1>4, <1>5, <1>6 DEF Bijection, Injection, Surjection, IsInjective
<1>8. IsFiniteSet(F)
  BY TotalType DEF F
<1>9. Cardinality(G) = Cardinality(F)
  BY <1>7, <1>8, FS_Bijection DEF ExistsBijection
<1> QED
  BY <1>9 DEF Total, F, G

\* The rows of S whose column h is y.
rows_with(S, h, y) == {x \in S : h[x] = y}

\* g has, for every y of T, the sum of its group of rows.
sums_groups(g, T, f, S, h) ==
  /\ IsFiniteSet(S) /\ IsFiniteSet(T)
  /\ \A x \in S : f[x] \in Nat /\ h[x] \in T
  /\ \A y \in T : g[y] = Total(f, rows_with(S, h, y))

\* GROUP BY: the sum over all rows is the sum of their groups' sums.
LEMMA TotalGrouped ==
  ASSUME NEW g, NEW T, NEW f, NEW S, NEW h, sums_groups(g, T, f, S, h)
  PROVE  (\A y \in T : g[y] \in Nat) /\ Total(g, T) = Total(f, S)
<1>0. /\ IsFiniteSet(S) /\ IsFiniteSet(T)
      /\ \A x \in S : f[x] \in Nat /\ h[x] \in T
      /\ \A y \in T : g[y] = Total(f, rows_with(S, h, y))
  BY DEF sums_groups
<1> DEFINE of(y) == rows_with(S, h, y)
           F == Tokens(f, S)
           G == Tokens(g, T)
<1>1. ASSUME NEW y \in T
      PROVE  /\ IsFiniteSet(Tokens(f, of(y)))
             /\ g[y] = Cardinality(Tokens(f, of(y))) /\ g[y] \in Nat
  <2>1. IsFiniteSet(of(y)) /\ \A x \in of(y) : f[x] \in Nat
    BY <1>0, FS_Subset DEF rows_with
  <2> HIDE DEF of
  <2>2. IsFiniteSet(Tokens(f, of(y))) /\ Total(f, of(y)) \in Nat
    BY <2>1, TotalType
  <2> QED
    BY <1>0, <2>2 DEF Total, of
<1>2. ASSUME NEW y \in T
      PROVE  \E b : b \in Bijection(1..g[y], Tokens(f, of(y)))
  <2>1. PICK n \in Nat : ExistsBijection(1..n, Tokens(f, of(y)))
    BY <1>1, FS_NatBijection
  <2>2. g[y] = n
    BY <1>1, <2>1, FS_CountingElements
  <2> QED
    BY <2>1, <2>2 DEF ExistsBijection
<1> DEFINE b == [y \in T |-> CHOOSE c : c \in Bijection(1..g[y], Tokens(f, of(y)))]
           M == [t \in G |-> b[t[1]][t[2]]]
<1>3. ASSUME NEW y \in T
      PROVE  b[y] \in Bijection(1..g[y], Tokens(f, of(y)))
  BY <1>2
<1>4. ASSUME NEW t
      PROVE  /\ t \in F <=> t \in S \X Nat /\ t[2] \in 1..f[t[1]]
             /\ \A y : t \in Tokens(f, of(y)) <=> t \in F /\ h[t[1]] = y
  BY DEF Tokens, rows_with
<1>5. ASSUME NEW t
      PROVE  t \in G <=> t \in T \X Nat /\ t[2] \in 1..g[t[1]]
  BY <1>1 DEF Tokens
<1> HIDE DEF F, G, b, of, M
<1>6. ASSUME NEW y \in T
      PROVE  /\ \A i \in 1..g[y] : b[y][i] \in F /\ h[b[y][i][1]] = y
             /\ \A i, j \in 1..g[y] : b[y][i] = b[y][j] => i = j
             /\ \A u \in F : h[u[1]] = y => \E i \in 1..g[y] : b[y][i] = u
  <2> DEFINE c == b[y]
             B == Tokens(f, of(y))
  <2>1. c \in Bijection(1..g[y], B)
    BY <1>3
  <2>2. \A u : u \in B <=> u \in F /\ h[u[1]] = y
    BY <1>4
  <2> HIDE DEF c, B
  <2>3. /\ c \in [1..g[y] -> B]
        /\ \A i, j \in 1..g[y] : c[i] = c[j] => i = j
        /\ \A u \in B : \E i \in 1..g[y] : c[i] = u
    BY <2>1 DEF Bijection, Injection, Surjection, IsInjective
  <2>4. /\ \A i \in 1..g[y] : c[i] \in F /\ h[c[i][1]] = y
        /\ \A u \in F : h[u[1]] = y => \E i \in 1..g[y] : c[i] = u
    BY <2>2, <2>3
  <2> QED
    BY <2>3, <2>4 DEF c
<1>7. M \in [G -> F]
  BY <1>5, <1>6 DEF M
<1>8. ASSUME NEW t \in G, NEW u \in G, M[t] = M[u] PROVE t = u
  <2>1. t[1] = u[1]
    BY <1>5, <1>6, <1>8 DEF M
  <2> QED
    BY <1>5, <1>6, <1>8, <2>1 DEF M
<1>9. ASSUME NEW u \in F PROVE \E t \in G : M[t] = u
  <2>1. h[u[1]] \in T
    BY <1>0, <1>4
  <2>2. PICK i \in 1..g[h[u[1]]] : b[h[u[1]]][i] = u
    BY <1>6, <2>1
  <2>3. <<h[u[1]], i>> \in G
    BY <1>1, <1>5, <2>1
  <2> QED
    BY <2>2, <2>3 DEF M
<1>10. M \in Bijection(G, F)
  BY <1>7, <1>8, <1>9 DEF Bijection, Injection, Surjection, IsInjective
<1>11. IsFiniteSet(G)
  BY <1>0, <1>1, TotalType DEF G
<1>12. Cardinality(F) = Cardinality(G)
  BY <1>10, <1>11, FS_Bijection DEF ExistsBijection
<1> QED
  BY <1>1, <1>12 DEF Total, F, G

-----------------------------------------------------------------------------
(* Amounts *)

\* A computation returns a delta of the event table's types.
LEMMA ComputeType ==
  ASSUME NEW o, WellFormed(o), NEW cents \in Nat, NEW t \in Nat \cup {NoDate},
         NEW d \in Nat, NEW units \in Nat
  PROVE  compute_recognition(o, cents, t, d, units) \in Deltas
<1>1. ASSUME NEW c \in Int, NEW s \in Nat
      PROVE  Delta(c, s) \in Deltas
  BY <1>1 DEF Delta, NoDelta, Deltas, NoDate
<1>2. NoDelta \in Deltas
  BY DEF NoDelta, Deltas, NoDate
<1>3. CASE o.pattern = "point_in_time"
  <2>1. compute_recognition(o, cents, t, d, units) = compute_point_in_time(o, cents, d)
    BY <1>3 DEF compute_recognition
  <2> QED
    BY <1>1, <1>2, <2>1 DEF compute_point_in_time, WellFormed
<1>4. CASE o.pattern = "ratable_daily"
  <2>1. compute_recognition(o, cents, t, d, units) = compute_ratable_daily(o, cents, t, d)
    BY <1>4 DEF compute_recognition
  <2>2. o.end_date \in Nat /\ o.start_date \in Nat /\ o.total_amount_cents \in Nat
    BY <1>4 DEF WellFormed, NoDate
  <2>3. days_in_period(o) \in Nat \ {0}
    BY <1>4, <2>2 DEF WellFormed, days_in_period
  <2>4. daily_cents(o) \in Int
    BY <2>2, <2>3 DEF daily_cents
  <2>5. \A n \in Int : Smaller(daily_cents(o) * n, o.total_amount_cents - cents) \in Int
    BY <2>2, <2>4 DEF Smaller
  <2> QED
    BY <1>1, <1>2, <2>1, <2>2, <2>5 DEF compute_ratable_daily, NoDate
<1>5. CASE o.pattern = "consumption"
  <2>1. compute_recognition(o, cents, t, d, units) = compute_consumption(o, cents, units, d)
    BY <1>5 DEF compute_recognition
  <2>2. o.total_amount_cents \in Nat /\ o.units_total \in Nat \ {0}
    BY <1>5 DEF WellFormed
  <2>3. (units * o.total_amount_cents) \div o.units_total \in Int
    BY <2>2
  <2>4. Smaller((units * o.total_amount_cents) \div o.units_total,
                o.total_amount_cents - cents) \in Int
    BY <2>2, <2>3 DEF Smaller
  <2> QED
    BY <1>1, <2>1, <2>4 DEF compute_consumption
<1>6. CASE o.pattern = "consumption_payg"
  <2>1. compute_recognition(o, cents, t, d, units) = compute_consumption_payg(o, units, d)
    BY <1>6 DEF compute_recognition
  <2> QED
    BY <1>1, <2>1 DEF compute_consumption_payg, WellFormed
<1> QED
  BY <1>3, <1>4, <1>5, <1>6 DEF WellFormed, Patterns

\* A computation for an obligation with a price never goes past that price.
LEMMA ComputeCapped ==
  ASSUME NEW o, WellFormed(o), o.pattern # "consumption_payg",
         NEW cents \in Nat, cents <= o.total_amount_cents,
         NEW t \in Nat \cup {NoDate}, NEW d \in Nat, NEW units \in Nat
  PROVE  cents + compute_recognition(o, cents, t, d, units).recognized_cents
           <= o.total_amount_cents
<1>1. o.total_amount_cents \in Nat
  BY DEF WellFormed
<1>2. ASSUME NEW c \in Int, c <= o.total_amount_cents - cents, NEW s
      PROVE  cents + Delta(c, s).recognized_cents <= o.total_amount_cents
  BY <1>1, <1>2 DEF Delta, NoDelta
<1>3. cents + NoDelta.recognized_cents <= o.total_amount_cents
  BY <1>1 DEF NoDelta
<1>4. CASE o.pattern = "point_in_time"
  <2>1. compute_recognition(o, cents, t, d, units) = compute_point_in_time(o, cents, d)
    BY <1>4 DEF compute_recognition
  <2> QED
    BY <1>1, <1>2, <1>3, <2>1 DEF compute_point_in_time
<1>5. CASE o.pattern = "ratable_daily"
  <2>1. compute_recognition(o, cents, t, d, units) = compute_ratable_daily(o, cents, t, d)
    BY <1>5 DEF compute_recognition
  <2>2. o.end_date \in Nat /\ o.start_date \in Nat
    BY <1>5 DEF WellFormed, NoDate
  <2>3. days_in_period(o) \in Nat \ {0}
    BY <1>5, <2>2 DEF WellFormed, days_in_period
  <2>4. daily_cents(o) \in Int
    BY <1>1, <2>3 DEF daily_cents
  <2>5. ASSUME NEW n \in Int
        PROVE  /\ Smaller(daily_cents(o) * n, o.total_amount_cents - cents) \in Int
               /\ Smaller(daily_cents(o) * n, o.total_amount_cents - cents)
                    <= o.total_amount_cents - cents
    BY <1>1, <2>4 DEF Smaller
  <2> QED
    BY <1>1, <1>2, <1>3, <2>1, <2>2, <2>5 DEF compute_ratable_daily, NoDate
<1>6. CASE o.pattern = "consumption"
  <2>1. compute_recognition(o, cents, t, d, units) = compute_consumption(o, cents, units, d)
    BY <1>6 DEF compute_recognition
  <2>2. (units * o.total_amount_cents) \div o.units_total \in Int
    BY <1>1, <1>6 DEF WellFormed
  <2> QED
    BY <1>1, <1>2, <2>1, <2>2 DEF compute_consumption, Smaller
<1> QED
  BY <1>4, <1>5, <1>6 DEF WellFormed, Patterns

\* Pay-as-you-go recognizes every unit it is given at its price.
LEMMA ComputePayg ==
  ASSUME NEW o, WellFormed(o), o.pattern = "consumption_payg",
         NEW cents, NEW t, NEW d, NEW units \in Nat
  PROVE  compute_recognition(o, cents, t, d, units).recognized_cents
           = units * o.price_per_unit_cents
<1>1. compute_recognition(o, cents, t, d, units) = Delta(units * o.price_per_unit_cents, d)
  BY DEF compute_recognition, compute_consumption_payg
<1>2. units * o.price_per_unit_cents \in Nat
  BY DEF WellFormed
<1> QED
  BY <1>1, <1>2 DEF Delta, NoDelta

\* A quotient rounded down, times its divisor, is at most what was divided.
LEMMA FloorShare ==
  ASSUME NEW m \in Nat, NEW n \in Nat \ {0}
  PROVE  m \div n \in Nat /\ (m \div n) * n <= m
OBVIOUS

\* A prepaid commitment recognizes at most the units' share of its price.
LEMMA ComputeShare ==
  ASSUME NEW o, WellFormed(o), o.pattern = "consumption",
         NEW cents \in Nat, NEW t, NEW d, NEW units \in Nat
  PROVE  compute_recognition(o, cents, t, d, units).recognized_cents * o.units_total
           <= o.total_amount_cents * units
<1> DEFINE m == units * o.total_amount_cents
           n == o.units_total
           left == o.total_amount_cents - cents
           c == compute_recognition(o, cents, t, d, units).recognized_cents
<1>1. o.total_amount_cents \in Nat /\ n \in Nat \ {0}
  BY DEF WellFormed
<1>2. m \in Nat /\ m = o.total_amount_cents * units
  BY <1>1
<1>3. c = Delta(Smaller(m \div n, left), d).recognized_cents
  BY DEF compute_recognition, compute_consumption
<1> HIDE DEF m, n, c
<1>4. m \div n \in Nat /\ (m \div n) * n <= m
  BY <1>1, <1>2, FloorShare
<1>5. c \in Nat /\ c <= m \div n
  BY <1>1, <1>3, <1>4 DEF Delta, Smaller, NoDelta
<1>6. \A x, y, z \in Nat : x <= y => x * z <= y * z
  OBVIOUS
<1>7. c * n <= (m \div n) * n
  BY <1>1, <1>4, <1>5, <1>6
<1>8. c * n \in Nat /\ (m \div n) * n \in Nat
  BY <1>1, <1>4, <1>5
<1>9. c * n <= m
  BY <1>2, <1>4, <1>7, <1>8
<1> QED
  BY <1>2, <1>9 DEF c, n

-----------------------------------------------------------------------------
(* A ratable obligation from run to run *)

later(t, s) == IF s > t THEN s ELSE t

\* c cents earned up to day t are a daily rate for each day up to it, or, at the
\* end of the period, the whole price.
Earning(o, c, t) ==
  /\ t <= o.end_date /\ (t = NoDate \/ o.start_date <= t)
  /\ \/ c = daily_cents(o) * (IF t = NoDate THEN 0 ELSE t - o.start_date + 1)
     \/ t = o.end_date /\ c = o.total_amount_cents

\* The daily rate times any number of days of the period is at most the price.
LEMMA DailyRate ==
  ASSUME NEW o, WellFormed(o), o.pattern = "ratable_daily"
  PROVE  /\ o.start_date \in Nat /\ o.end_date \in Nat /\ o.start_date <= o.end_date
         /\ o.total_amount_cents \in Nat /\ o.total_amount_cents > 0
         /\ daily_cents(o) \in Nat
         /\ \A n \in Nat : n <= days_in_period(o) =>
              /\ daily_cents(o) * n \in Nat
              /\ daily_cents(o) * n <= o.total_amount_cents
              /\ daily_cents(o) * n = o.total_amount_cents => n = days_in_period(o)
<1> DEFINE N == days_in_period(o)
           q == daily_cents(o)
<1>1. /\ o.start_date \in Nat /\ o.end_date \in Nat /\ o.start_date <= o.end_date
      /\ o.total_amount_cents \in Nat /\ o.total_amount_cents > 0
  BY DEF WellFormed, NoDate
<1>2. N \in Nat \ {0}
  BY <1>1 DEF days_in_period
<1>3. q \in Nat /\ q * N <= o.total_amount_cents
  BY <1>1, <1>2, FloorShare DEF daily_cents
<1> HIDE DEF N, q
<1>4. ASSUME NEW n \in Nat, n <= N
      PROVE  /\ q * n \in Nat /\ q * n <= o.total_amount_cents
             /\ q * n = o.total_amount_cents => n = N
  <2>1. q * N = q * n + q * (N - n)
    BY <1>2, <1>3, <1>4
  <2>2. N - n \in Nat
    BY <1>2, <1>4
  <2>3. q * n \in Nat /\ q * (N - n) \in Nat /\ q * N \in Nat
    BY <1>2, <1>3, <2>2
  <2>4. q * n = o.total_amount_cents => q > 0 /\ q * (N - n) = 0
    <3>1. ASSUME q = 0 PROVE q * n = 0
      BY <3>1
    <3> QED
      BY <1>1, <1>3, <2>1, <2>3, <3>1
  <2>5. q > 0 /\ q * (N - n) = 0 => N - n = 0
    BY <1>3, <2>2
  <2> QED
    BY <1>1, <1>2, <1>3, <2>1, <2>3, <2>4, <2>5
<1> QED
  BY <1>1, <1>3, <1>4 DEF N, q

\* Earning keeps to the price.
LEMMA EarningCapped ==
  ASSUME NEW o, WellFormed(o), o.pattern = "ratable_daily",
         NEW c \in Nat, NEW t \in Nat \cup {NoDate}, Earning(o, c, t)
  PROVE  c <= o.total_amount_cents /\ (c = o.total_amount_cents => t = o.end_date)
<1> DEFINE n == IF t = NoDate THEN 0 ELSE t - o.start_date + 1
<1>1. n \in Nat /\ n <= days_in_period(o)
  BY DailyRate DEF Earning, days_in_period
<1>2. n = days_in_period(o) => t = o.end_date
  BY DailyRate DEF days_in_period
<1> QED
  BY <1>1, <1>2, DailyRate DEF Earning

\* A run past day t leaves the obligation on its schedule, whatever the date of
\* the run, and up to date with that date once it has begun.
LEMMA RatableStep ==
  ASSUME NEW o, WellFormed(o), o.pattern = "ratable_daily",
         NEW c \in Nat, NEW t \in Nat \cup {NoDate}, Earning(o, c, t),
         NEW d \in Nat, t < d
  PROVE  LET a == compute_ratable_daily(o, c, t, d)
         IN  /\ Earning(o, c + a.recognized_cents, later(t, a.recognized_through))
             /\ d >= o.start_date =>
                  c + a.recognized_cents =
                    IF d <= o.end_date
                    THEN daily_cents(o) * (d - o.start_date + 1)
                    ELSE o.total_amount_cents
<1> DEFINE a == compute_ratable_daily(o, c, t, d)
           q == daily_cents(o)
           left == o.total_amount_cents - c
<1>1. /\ o.start_date \in Nat /\ o.end_date \in Nat /\ o.start_date <= o.end_date
      /\ o.total_amount_cents \in Nat /\ o.total_amount_cents > 0 /\ q \in Nat
      /\ days_in_period(o) = o.end_date - o.start_date + 1
  BY DailyRate DEF days_in_period
<1>2. left \in Nat
  BY <1>1, EarningCapped
<1>3. CASE d < o.start_date
  <2>1. a = NoDelta
    BY <1>3 DEF compute_ratable_daily
  <2> QED
    BY <1>1, <1>3, <2>1 DEF NoDelta, later, NoDate
<1>4. CASE d >= o.start_date /\ d > o.end_date
  <2>1. a = Delta(left, o.end_date)
    BY <1>1, <1>4 DEF compute_ratable_daily
  <2>2. CASE left = 0
    <3>1. a = NoDelta /\ c = o.total_amount_cents
      BY <1>1, <2>1, <2>2 DEF Delta
    <3> QED
      BY <1>1, <1>4, <3>1 DEF NoDelta, later, NoDate
  <2>3. CASE left > 0
    <3>1. a = [recognized_cents |-> left, recognized_through |-> o.end_date]
      BY <1>2, <2>1, <2>3 DEF Delta
    <3>2. later(t, o.end_date) = o.end_date
      BY <1>1 DEF later, Earning, NoDate
    <3>3. c + a.recognized_cents = o.total_amount_cents
      BY <1>1, <3>1
    <3> QED
      BY <1>1, <1>4, <3>1, <3>2, <3>3 DEF Earning
  <2> QED
    BY <1>2, <2>2, <2>3
<1>5. CASE d >= o.start_date /\ d <= o.end_date
  <2> DEFINE n == IF t = NoDate THEN 0 ELSE t - o.start_date + 1
             m == d - o.start_date + 1
  <2>1. /\ n \in Nat /\ m \in Nat /\ n < m /\ m <= days_in_period(o)
        /\ t # o.end_date
    BY <1>1, <1>5 DEF Earning, NoDate
  <2>2. c = q * n
    BY <2>1 DEF Earning
  <2>3. a = Delta(Smaller(q * (m - n), left), d)
    <3>1. t < o.start_date <=> t = NoDate
      BY <1>1 DEF Earning, NoDate
    <3>2. (IF t < o.start_date THEN o.start_date ELSE t + 1) = o.start_date + n
      BY <1>1, <3>1
    <3>3. d - (o.start_date + n) + 1 = m - n
      BY <1>1, <2>1
    <3>4. ~ (d < o.start_date) /\ ~ (d > o.end_date)
      BY <1>1, <1>5
    <3> QED
      BY <3>2, <3>3, <3>4 DEF compute_ratable_daily
  <2> HIDE DEF n, m, a, q
  <2>4. q * m = q * n + q * (m - n)
    BY <1>1, <2>1
  <2>5. q * m \in Nat /\ q * m <= o.total_amount_cents
    BY <2>1, DailyRate DEF q
  <2>6. q * n \in Nat /\ q * (m - n) \in Nat
    BY <1>1, <2>1
  <2>7. Smaller(q * (m - n), left) = q * (m - n)
    BY <1>1, <2>2, <2>4, <2>5, <2>6 DEF Smaller
  <2>8. c + a.recognized_cents = q * m
    BY <2>2, <2>3, <2>4, <2>6, <2>7 DEF Delta, NoDelta
  <2>9. q * (m - n) = 0 => q = 0
    BY <1>1, <2>1
  <2>10. CASE q = 0
    <3>1. a = NoDelta
      BY <2>1, <2>3, <2>7, <2>10 DEF Delta
    <3>2. later(t, a.recognized_through) = t
      BY <3>1 DEF later, NoDelta, NoDate
    <3>3. c + a.recognized_cents = c
      BY <3>1 DEF NoDelta
    <3> QED
      BY <1>5, <2>8, <3>2, <3>3 DEF q, m, a
  <2>11. CASE q # 0
    <3>1. a = [recognized_cents |-> q * (m - n), recognized_through |-> d]
      BY <2>3, <2>6, <2>7, <2>9, <2>11 DEF Delta
    <3>2. later(t, a.recognized_through) = d
      BY <3>1 DEF later, NoDate
    <3>3. Earning(o, q * m, d)
      BY <1>1, <1>5 DEF Earning, m, q, NoDate
    <3> QED
      BY <1>5, <2>8, <3>2, <3>3 DEF q, m, a
  <2> QED
    BY <2>10, <2>11
<1> QED
  BY <1>1, <1>3, <1>4, <1>5

\* A delta's date is none or at most that of its run.
LEMMA ComputeThrough ==
  ASSUME NEW o, WellFormed(o), NEW cents \in Nat, NEW t \in Nat \cup {NoDate},
         NEW d \in Nat, NEW units \in Nat
  PROVE  compute_recognition(o, cents, t, d, units).recognized_through <= d
<1>1. ASSUME NEW c, NEW s \in Int, s <= d
      PROVE  Delta(c, s).recognized_through <= d
  BY <1>1 DEF Delta, NoDelta, NoDate
<1>2. NoDelta.recognized_through <= d /\ o.start_date \in Nat
  BY DEF NoDelta, NoDate, WellFormed
<1>3. CASE o.pattern = "point_in_time"
  <2>1. compute_recognition(o, cents, t, d, units) = compute_point_in_time(o, cents, d)
    BY <1>3 DEF compute_recognition
  <2> QED
    BY <1>1, <1>2, <2>1 DEF compute_point_in_time
<1>4. CASE o.pattern = "ratable_daily"
  <2>1. compute_recognition(o, cents, t, d, units) = compute_ratable_daily(o, cents, t, d)
    BY <1>4 DEF compute_recognition
  <2>2. o.end_date \in Nat
    BY <1>4, DailyRate
  <2> QED
    BY <1>1, <1>2, <2>1, <2>2 DEF compute_ratable_daily
<1>5. CASE o.pattern = "consumption"
  <2>1. compute_recognition(o, cents, t, d, units) = compute_consumption(o, cents, units, d)
    BY <1>5 DEF compute_recognition
  <2> QED
    BY <1>1, <2>1 DEF compute_consumption
<1>6. CASE o.pattern = "consumption_payg"
  <2>1. compute_recognition(o, cents, t, d, units) = compute_consumption_payg(o, units, d)
    BY <1>6 DEF compute_recognition
  <2> QED
    BY <1>1, <2>1 DEF compute_consumption_payg
<1> QED
  BY <1>3, <1>4, <1>5, <1>6 DEF WellFormed, Patterns
=============================================================================
