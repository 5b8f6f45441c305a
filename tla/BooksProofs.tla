----------------------------- MODULE BooksProofs -----------------------------
(***************************************************************************)
(* Theorems about the journal, what the triggers let a client do to it,    *)
(* and its exports, for any entries, any number of edits of two statements *)
(* and any number of exporters.                                            *)
(***************************************************************************)
EXTENDS Books, ArithmeticProofs

-----------------------------------------------------------------------------
(* What one statement of a client does *)

\* Tables as a statement finds and leaves them, with open and today as they are.
TablesOK(d) ==
  /\ d \in [entries : {d.entries}, lines : {d.lines}, checks : {d.checks},
            moved : {d.moved}, reversed : {d.reversed}]
  /\ \A e \in DOMAIN d.entries :
       e \in Entries \ DOMAIN open /\ d.entries[e] \in [status : Statuses, day : 1..today]
  /\ \A l \in DOMAIN d.lines :
       /\ l[1] \notin DOMAIN open
       /\ d.lines[l] \in [entry : DOMAIN d.entries, side : Sides, amount : Nat \ {0}, ref : Refs]

\* From tables d to tables x: an entry whose lines changed is up for a check or one a
\* line was moved out of; a posted one is as it was, but for further lines.
Untouched(d, x) ==
  \A e \in DOMAIN x.entries : e \notin x.checks \cup x.moved =>
    /\ e \in DOMAIN d.entries
    /\ lines_of(x, e) = lines_of(d, e)
    /\ \A l \in lines_of(d, e) : x.lines[l] = d.lines[l]
Protected(d, x) ==
  \A e \in DOMAIN d.entries :
    d.entries[e].status = "posted" /\ e \notin x.moved \cup x.reversed =>
      /\ e \in DOMAIN x.entries /\ x.entries[e] = d.entries[e]
      /\ \A l \in lines_of(d, e) : l \in lines_of(x, e) /\ x.lines[l] = d.lines[l]
Follows(d, x) ==
  /\ Untouched(d, x) /\ Protected(d, x)
  /\ d.checks \subseteq x.checks /\ d.moved \subseteq x.moved /\ d.reversed \subseteq x.reversed

\* Two statements in a row do to an entry what one may do.
LEMMA FollowsTwice ==
  ASSUME NEW d, NEW x, NEW y, Follows(d, x), Follows(x, y)
  PROVE  Follows(d, y)
<1>1. Untouched(d, y)
  BY DEF Follows, Untouched
<1>2. Protected(d, y)
  BY DEF Follows, Protected
<1> QED
  BY <1>1, <1>2 DEF Follows

\* The status of an entry that is not posted, or any entry's to 'reversed'.
LEMMA SetStatus ==
  ASSUME NEW d, TablesOK(d), NEW e \in DOMAIN d.entries, NEW to \in Statuses,
         NEW x \in set_status(d, e, to)
  PROVE  TablesOK(x) /\ Follows(d, x)
<1>1. ~ entry_locked(d, e, to)
  BY DEF set_status
<1>2. x = [d EXCEPT !.entries[e].status = to,
                    !.reversed = IF to = "reversed" THEN @ \cup {e} ELSE @]
  BY <1>1 DEF set_status
<1>3. /\ x.entries = [d.entries EXCEPT ![e].status = to]
      /\ x.lines = d.lines /\ x.checks = d.checks /\ x.moved = d.moved
      /\ x.reversed = IF to = "reversed" THEN d.reversed \cup {e} ELSE d.reversed
      /\ x \in [entries : {x.entries}, lines : {x.lines}, checks : {x.checks},
                moved : {x.moved}, reversed : {x.reversed}]
  BY <1>2 DEF TablesOK
<1>4. /\ DOMAIN x.entries = DOMAIN d.entries
      /\ x.entries[e].status = to /\ x.entries[e].day = d.entries[e].day
      /\ x.entries[e] \in [status : Statuses, day : 1..today]
      /\ \A f \in DOMAIN d.entries : f # e => x.entries[f] = d.entries[f]
  BY <1>3 DEF TablesOK
<1>5. TablesOK(x)
  BY <1>3, <1>4 DEF TablesOK
<1>6. \A f : lines_of(x, f) = lines_of(d, f)
  BY <1>3 DEF lines_of
<1>7. Untouched(d, x)
  BY <1>3, <1>4, <1>6 DEF Untouched, lines_of
<1>8. Protected(d, x)
  BY <1>1, <1>3, <1>4, <1>6 DEF Protected, entry_locked
<1> QED
  BY <1>3, <1>5, <1>7, <1>8 DEF Follows

\* An entry that is not posted, with its lines.
LEMMA DeleteEntry ==
  ASSUME NEW d, TablesOK(d), NEW e \in DOMAIN d.entries, NEW x \in delete_entry(d, e)
  PROVE  TablesOK(x) /\ Follows(d, x)
<1>1. ~ entry_locked(d, e, None)
  BY DEF delete_entry
<1>2. x = [d EXCEPT !.entries = Restrict(@, DOMAIN @ \ {e}),
                    !.lines = Restrict(@, DOMAIN @ \ lines_of(d, e)),
                    !.checks = @ \cup {y \in {e} : lines_of(d, e) # {}}]
  BY <1>1 DEF delete_entry
<1>3. /\ x.entries = Restrict(d.entries, DOMAIN d.entries \ {e})
      /\ x.lines = Restrict(d.lines, DOMAIN d.lines \ lines_of(d, e))
      /\ d.checks \subseteq x.checks /\ x.moved = d.moved /\ x.reversed = d.reversed
      /\ x \in [entries : {x.entries}, lines : {x.lines}, checks : {x.checks},
                moved : {x.moved}, reversed : {x.reversed}]
  BY <1>2 DEF TablesOK
<1>4. /\ DOMAIN x.entries = DOMAIN d.entries \ {e}
      /\ \A f \in DOMAIN x.entries : x.entries[f] = d.entries[f]
      /\ DOMAIN x.lines = DOMAIN d.lines \ lines_of(d, e)
      /\ \A l \in DOMAIN x.lines : x.lines[l] = d.lines[l] /\ x.lines[l].entry # e
  BY <1>3 DEF Restrict, lines_of
<1>5. TablesOK(x)
  <2>1. \A l \in DOMAIN x.lines :
          x.lines[l] \in [entry : DOMAIN x.entries, side : Sides, amount : Nat \ {0}, ref : Refs]
    BY <1>4 DEF TablesOK
  <2> QED
    BY <1>3, <1>4, <2>1 DEF TablesOK
<1>6. \A f \in DOMAIN x.entries : lines_of(x, f) = lines_of(d, f)
  BY <1>4 DEF lines_of
<1>7. Untouched(d, x)
  BY <1>4, <1>6 DEF Untouched, lines_of
<1>8. Protected(d, x)
  <2>1. d.entries[e].status # "posted"
    BY <1>1, LedgerAssumption DEF entry_locked, Statuses
  <2> QED
    BY <1>4, <1>6, <2>1 DEF Protected, lines_of
<1> QED
  BY <1>3, <1>5, <1>7, <1>8 DEF Follows

\* A line more, of any entry.
LEMMA InsertLine ==
  ASSUME NEW d, TablesOK(d), NEW e \in DOMAIN d.entries, NEW side \in Sides,
         NEW amount \in Nat \ {0}, NEW x \in insert_line(d, e, side, amount)
  PROVE  TablesOK(x) /\ Follows(d, x)
<1> DEFINE id == <<e, side, "inserted">>
           row == [entry |-> e, side |-> side, amount |-> amount, ref |-> None]
<1>1. id \notin DOMAIN d.lines
  BY DEF insert_line
<1>2. x = [d EXCEPT !.lines = added(@, [l \in {id} |-> row]), !.checks = @ \cup {e}]
  BY <1>1 DEF insert_line
<1> HIDE DEF row
<1>3. /\ x.entries = d.entries /\ x.lines = added(d.lines, [l \in {id} |-> row])
      /\ x.checks = d.checks \cup {e} /\ x.moved = d.moved /\ x.reversed = d.reversed
      /\ x \in [entries : {x.entries}, lines : {x.lines}, checks : {x.checks},
                moved : {x.moved}, reversed : {x.reversed}]
  BY <1>2 DEF TablesOK
<1>4. /\ DOMAIN x.lines = DOMAIN d.lines \cup {id} /\ x.lines[id] = row
      /\ \A l \in DOMAIN d.lines : x.lines[l] = d.lines[l]
  BY <1>1, <1>3 DEF added
<1>5. /\ row \in [entry : DOMAIN d.entries, side : Sides, amount : Nat \ {0}, ref : Refs]
      /\ row.entry = e /\ id[1] = e
  BY DEF row, Refs
<1> HIDE DEF id
<1>6. TablesOK(x)
  BY <1>3, <1>4, <1>5 DEF TablesOK
<1>7. \A f : f # e => lines_of(x, f) = lines_of(d, f)
  BY <1>4, <1>5 DEF lines_of
<1>8. Untouched(d, x)
  BY <1>3, <1>4, <1>7 DEF Untouched, lines_of
<1>9. Protected(d, x)
  BY <1>3, <1>4 DEF Protected, lines_of
<1> QED
  BY <1>3, <1>6, <1>8, <1>9 DEF Follows

\* Another row in the place of a line, of its entry or of another one.
LEMMA UpdateLine ==
  ASSUME NEW d, TablesOK(d), NEW l \in DOMAIN d.lines,
         NEW row \in [entry : DOMAIN d.entries, side : Sides, amount : Nat \ {0}, ref : Refs],
         NEW x \in update_line(d, l, row)
  PROVE  TablesOK(x) /\ Follows(d, x)
<1> DEFINE e == row.entry
<1>1. d.entries[e].status # "posted"
  BY DEF update_line, lines_locked
<1>2. x = [d EXCEPT !.lines[l] = row,
                    !.checks = @ \cup {e},
                    !.moved = @ \cup ({d.lines[l].entry} \ {e})]
  BY <1>1 DEF update_line, lines_locked
<1>3. /\ x.entries = d.entries /\ x.reversed = d.reversed
      /\ x.lines = [d.lines EXCEPT ![l] = row]
      /\ x.checks = d.checks \cup {e} /\ x.moved = d.moved \cup ({d.lines[l].entry} \ {e})
      /\ x \in [entries : {x.entries}, lines : {x.lines}, checks : {x.checks},
                moved : {x.moved}, reversed : {x.reversed}]
  BY <1>2 DEF TablesOK
<1>4. /\ DOMAIN x.lines = DOMAIN d.lines
      /\ \A k \in DOMAIN d.lines : k # l => x.lines[k] = d.lines[k]
      /\ x.lines[l] = row /\ x.lines[l].entry = e
  BY <1>3
<1>5. TablesOK(x)
  BY <1>3, <1>4 DEF TablesOK
<1> HIDE DEF e
<1>6. \A f : f # e /\ f # d.lines[l].entry => lines_of(x, f) = lines_of(d, f)
  <2> SUFFICES ASSUME NEW f, f # e, f # d.lines[l].entry
               PROVE  \A k \in DOMAIN d.lines : x.lines[k].entry = f <=> d.lines[k].entry = f
    BY <1>4 DEF lines_of
  <2> QED
    BY <1>4
<1>7. Untouched(d, x)
  BY <1>3, <1>4, <1>6 DEF Untouched, lines_of
<1>8. Protected(d, x)
  BY <1>1, <1>3, <1>4 DEF Protected, lines_of
<1> QED
  BY <1>3, <1>5, <1>7, <1>8 DEF Follows

\* A line less.
LEMMA DeleteLine ==
  ASSUME NEW d, TablesOK(d), NEW l \in DOMAIN d.lines, NEW x \in delete_line(d, l)
  PROVE  TablesOK(x) /\ Follows(d, x)
<1> DEFINE e == d.lines[l].entry
<1>1. d.entries[e].status # "posted"
  BY DEF delete_line, lines_locked
<1>2. x = [d EXCEPT !.lines = Restrict(@, DOMAIN @ \ {l}), !.checks = @ \cup {e}]
  BY <1>1 DEF delete_line, lines_locked
<1>3. /\ x.entries = d.entries /\ x.lines = Restrict(d.lines, DOMAIN d.lines \ {l})
      /\ x.checks = d.checks \cup {e} /\ x.moved = d.moved /\ x.reversed = d.reversed
      /\ x \in [entries : {x.entries}, lines : {x.lines}, checks : {x.checks},
                moved : {x.moved}, reversed : {x.reversed}]
  BY <1>2 DEF TablesOK
<1>4. /\ DOMAIN x.lines = DOMAIN d.lines \ {l}
      /\ \A k \in DOMAIN x.lines : x.lines[k] = d.lines[k]
  BY <1>3 DEF Restrict
<1>5. TablesOK(x)
  BY <1>3, <1>4 DEF TablesOK
<1>6. \A f : f # e => lines_of(x, f) = lines_of(d, f)
  BY <1>4 DEF lines_of
<1>7. Untouched(d, x)
  BY <1>3, <1>4, <1>6 DEF Untouched, lines_of
<1>8. Protected(d, x)
  BY <1>1, <1>3, <1>4 DEF Protected, lines_of
<1> QED
  BY <1>3, <1>5, <1>7, <1>8 DEF Follows

\* The statements there are.
mine_of(d) == Edited \cap DOMAIN d.entries
known_of(d) == UNION {lines_of(d, e) : e \in mine_of(d)}
LEMMA AnyStatement ==
  ASSUME NEW d, NEW x \in statement(d)
  PROVE  \/ \E e \in mine_of(d), to \in Statuses : x \in set_status(d, e, to)
         \/ \E e \in mine_of(d) : x \in delete_entry(d, e)
         \/ \E e \in mine_of(d), side \in Sides, a \in Amounts : x \in insert_line(d, e, side, a)
         \/ \E l \in known_of(d) :
              \E row \in revised(d.lines[l], mine_of(d)) : x \in update_line(d, l, row)
         \/ \E l \in known_of(d) : x \in delete_line(d, l)
<1>1. \/ \E e \in mine_of(d), to \in Statuses : x \in set_status(d, e, to)
      \/ \E e \in mine_of(d) : x \in delete_entry(d, e)
      \/ \E e \in mine_of(d), side \in Sides, a \in Amounts : x \in insert_line(d, e, side, a)
      \/ \E l \in known_of(d) : x \in revise_line(d, l, mine_of(d))
      \/ \E l \in known_of(d) : x \in delete_line(d, l)
  <2> DEFINE A == {set_status(d, e, to) : e \in mine_of(d), to \in Statuses}
             B == {delete_entry(d, e) : e \in mine_of(d)}
             C == {insert_line(d, e, side, a) : e \in mine_of(d), side \in Sides, a \in Amounts}
             D == {revise_line(d, l, mine_of(d)) : l \in known_of(d)}
             E == {delete_line(d, l) : l \in known_of(d)}
  <2>1. statement(d) = UNION (A \cup B \cup C \cup D \cup E)
    BY DEF statement, mine_of, known_of
  <2>2. PICK y \in A \cup B \cup C \cup D \cup E : x \in y
    <3> HIDE DEF A, B, C, D, E
    <3> QED
      BY <2>1
  <2>3. y \in A => \E e \in mine_of(d), to \in Statuses : x \in set_status(d, e, to)
    BY <2>2
  <2>4. y \in B => \E e \in mine_of(d) : x \in delete_entry(d, e)
    BY <2>2
  <2>5. y \in C =>
          \E e \in mine_of(d), side \in Sides, a \in Amounts : x \in insert_line(d, e, side, a)
    BY <2>2
  <2>6. y \in D => \E l \in known_of(d) : x \in revise_line(d, l, mine_of(d))
    BY <2>2
  <2>7. y \in E => \E l \in known_of(d) : x \in delete_line(d, l)
    BY <2>2
  <2> HIDE DEF A, B, C, D, E
  <2> QED
    BY <2>2, <2>3, <2>4, <2>5, <2>6, <2>7
<1>2. ASSUME NEW l \in known_of(d), x \in revise_line(d, l, mine_of(d))
      PROVE  \E row \in revised(d.lines[l], mine_of(d)) : x \in update_line(d, l, row)
  BY <1>2 DEF revise_line
<1> QED
  BY <1>1, <1>2

\* Whatever a statement is.
LEMMA Statement ==
  ASSUME NEW d, TablesOK(d), NEW x \in statement(d)
  PROVE  TablesOK(x) /\ Follows(d, x)
<1>1. /\ known_of(d) \subseteq DOMAIN d.lines /\ mine_of(d) \subseteq DOMAIN d.entries
      /\ Amounts \subseteq Nat \ {0}
  BY LedgerAssumption DEF lines_of, mine_of, known_of
<1>2. ASSUME NEW l \in known_of(d), NEW row \in revised(d.lines[l], mine_of(d))
      PROVE  row \in [entry : DOMAIN d.entries, side : Sides, amount : Nat \ {0}, ref : Refs]
  <2>1. d.lines[l].amount \in Nat \ {0}
    BY <1>1 DEF TablesOK
  <2> QED
    BY <1>1, <1>2, <2>1 DEF revised
<1> QED
  BY <1>1, <1>2, AnyStatement, SetStatus, DeleteEntry, InsertLine, UpdateLine, DeleteLine

-----------------------------------------------------------------------------
(* The invariant of the journal *)

\* The committed tables.
LedgerOK ==
  /\ today \in Nat \ {0} /\ edits \in Nat
  /\ \A e \in DOMAIN open : e \in Entries /\ open[e] \in 1..today
  /\ \A e \in DOMAIN entries :
       e \in Entries \ DOMAIN open /\ entries[e] \in [status : Statuses, day : 1..today]
  /\ \A l \in DOMAIN lines :
       /\ l[1] \notin DOMAIN open
       /\ lines[l] \in [entry : DOMAIN entries, side : Sides, amount : Nat \ {0}, ref : Refs]
  /\ EntriesBalance

\* The lines of an entry, as they were, add up to what they did.
LEMMA SameTotal ==
  ASSUME NEW d, NEW x, NEW e, NEW side, lines_of(x, e) = lines_of(d, e),
         \A l \in lines_of(d, e) : x.lines[l] = d.lines[l]
  PROVE  total(x, e, side) = total(d, e, side)
<1> DEFINE was == {l \in lines_of(d, e) : d.lines[l].side = side}
           is  == {l \in lines_of(x, e) : x.lines[l].side = side}
<1>1. is = was
  OBVIOUS
<1>2. [l \in is |-> x.lines[l].amount] = [l \in was |-> d.lines[l].amount]
  BY <1>1
<1> HIDE DEF is, was
<1>3. Total([l \in is |-> x.lines[l].amount], is) = Total([l \in was |-> d.lines[l].amount], was)
  BY <1>1, <1>2, Zenon
<1> QED
  BY <1>3 DEF total, is, was

\* A transaction of the client: two statements, the triggers on each, and the check of
\* every entry they wrote lines of.
LEMMA EditStep ==
  ASSUME LedgerOK, Edit
  PROVE  /\ LedgerOK'
         /\ \A e \in DOMAIN entries :
              entries[e].status = "posted" /\ e \notin moved' \cup reversed' =>
                /\ e \in DOMAIN entries' /\ entries'[e] = entries[e]
                /\ \A l \in lines_of(tables, e) : l \in DOMAIN lines' /\ lines'[l] = lines[l]
<1> DEFINE begun == [entries |-> entries, lines |-> lines, checks |-> {},
                     moved |-> moved, reversed |-> reversed]
<1>1. PICK x \in statement(begun) : \E d \in statement(x) :
        /\ \A e \in d.checks : check_entry_balanced(d, e)
        /\ entries' = d.entries /\ lines' = d.lines
        /\ moved' = d.moved /\ reversed' = d.reversed
  BY DEF Edit
<1>2. PICK d \in statement(x) :
        /\ \A e \in d.checks : check_entry_balanced(d, e)
        /\ entries' = d.entries /\ lines' = d.lines
        /\ moved' = d.moved /\ reversed' = d.reversed
  BY <1>1
<1>3. /\ begun.entries = entries /\ begun.lines = lines /\ begun.checks = {}
      /\ begun.moved = moved /\ begun.reversed = reversed
      /\ begun \in [entries : {begun.entries}, lines : {begun.lines},
                    checks : {begun.checks}, moved : {begun.moved},
                    reversed : {begun.reversed}]
  OBVIOUS
<1>4. TablesOK(begun)
  BY <1>3 DEF TablesOK, LedgerOK
<1> HIDE DEF begun
<1>5. TablesOK(d) /\ Follows(begun, d)
  BY <1>1, <1>2, <1>4, Statement, FollowsTwice
<1>6. today' = today /\ open' = open /\ edits' = edits + 1
  BY DEF Edit
<1>7. EntriesBalance'
  <2> SUFFICES ASSUME NEW e \in DOMAIN d.entries, e \notin d.moved
               PROVE  total(tables', e, "debit") = total(tables', e, "credit")
    BY <1>2 DEF EntriesBalance
  <2>1. tables'.lines = d.lines /\ tables.lines = begun.lines
    BY <1>2, <1>3 DEF tables
  <2>2. \A side : total(tables', e, side) = total(d, e, side)
    BY <2>1, SameTotal DEF lines_of
  <2>3. CASE e \in d.checks
    BY <1>2, <2>2, <2>3 DEF check_entry_balanced
  <2>4. CASE e \notin d.checks
    <3>1. /\ e \in DOMAIN begun.entries /\ lines_of(d, e) = lines_of(begun, e)
          /\ \A l \in lines_of(begun, e) : d.lines[l] = begun.lines[l]
      BY <1>5, <2>4 DEF Follows, Untouched
    <3>2. \A side : total(d, e, side) = total(begun, e, side)
      BY <3>1, SameTotal
    <3>3. \A side : total(tables, e, side) = total(begun, e, side)
      BY <2>1, SameTotal DEF lines_of
    <3>4. e \in DOMAIN entries /\ e \notin moved
      BY <1>3, <1>5, <3>1 DEF Follows
    <3>5. total(tables, e, "debit") = total(tables, e, "credit")
      BY <3>4 DEF LedgerOK, EntriesBalance
    <3> QED
      BY <2>2, <3>2, <3>3, <3>5
  <2> QED
    BY <2>3, <2>4
<1>8. LedgerOK'
  BY <1>2, <1>5, <1>6, <1>7 DEF LedgerOK, TablesOK
<1>9. \A e : lines_of(tables, e) = lines_of(begun, e)
  BY <1>3 DEF tables, lines_of
<1>10. Protected(begun, d)
  BY <1>5 DEF Follows
<1>11. ASSUME NEW e \in DOMAIN entries, entries[e].status = "posted",
              e \notin moved' \cup reversed'
       PROVE  /\ e \in DOMAIN entries' /\ entries'[e] = entries[e]
              /\ \A l \in lines_of(tables, e) : l \in DOMAIN lines' /\ lines'[l] = lines[l]
  <2>1. /\ e \in DOMAIN begun.entries /\ begun.entries[e].status = "posted"
        /\ e \notin d.moved \cup d.reversed
    BY <1>2, <1>3, <1>11
  <2>2. /\ e \in DOMAIN d.entries /\ d.entries[e] = begun.entries[e]
        /\ \A l \in lines_of(begun, e) : l \in lines_of(d, e) /\ d.lines[l] = begun.lines[l]
    BY <1>10, <2>1 DEF Protected
  <2>3. lines_of(d, e) \subseteq DOMAIN d.lines
    BY DEF lines_of
  <2> QED
    BY <1>2, <1>3, <1>9, <2>2, <2>3
<1> QED
  BY <1>8, <1>11

\* What a commit of the posting session adds: every line's id, and its entry, is new.
LEMMA CommitAdds ==
  ASSUME LedgerOK, CommitBatch
  PROVE  LET new == (DOMAIN open) \X Sides \X {"posted"}
         IN  /\ DOMAIN entries' = DOMAIN entries \cup DOMAIN open
             /\ DOMAIN lines' = DOMAIN lines \cup new
             /\ \A e \in DOMAIN entries : e \notin DOMAIN open /\ entries'[e] = entries[e]
             /\ \A e \in DOMAIN open :
                  entries'[e] = [status |-> Post[e].status, day |-> open[e]]
             /\ \A l \in DOMAIN lines : l \notin new /\ lines'[l] = lines[l]
             /\ \A l \in new :
                  /\ l[1] \in DOMAIN open /\ l[2] \in Sides /\ l = <<l[1], l[2], "posted">>
                  /\ lines'[l] = [entry |-> l[1], side |-> l[2], amount |-> Post[l[1]].amount,
                                  ref |-> IF l[2] = "debit" THEN Post[l[1]].ref ELSE None]
<1> DEFINE new == (DOMAIN open) \X Sides \X {"posted"}
           row(l) == [entry |-> l[1], side |-> l[2], amount |-> Post[l[1]].amount,
                      ref |-> IF l[2] = "debit" THEN Post[l[1]].ref ELSE None]
<1>1. \A l \in new : l[1] \in DOMAIN open /\ l[2] \in Sides /\ l = <<l[1], l[2], "posted">>
  OBVIOUS
<1>2. \A l \in DOMAIN lines : l \notin new
  BY <1>1 DEF LedgerOK
<1>3. /\ entries' = added(entries, [e \in DOMAIN open |->
                                      [status |-> Post[e].status, day |-> open[e]]])
      /\ lines' = added(lines, [l \in new |-> row(l)])
  BY DEF CommitBatch
<1>4. \A e \in DOMAIN entries : e \notin DOMAIN open
  BY DEF LedgerOK
<1>5. /\ DOMAIN entries' = DOMAIN entries \cup DOMAIN open
      /\ \A e \in DOMAIN entries : entries'[e] = entries[e]
      /\ \A e \in DOMAIN open :
           entries'[e] = [status |-> Post[e].status, day |-> open[e]]
  BY <1>3, <1>4 DEF added
<1> HIDE DEF new, row
<1>6. /\ DOMAIN lines' = DOMAIN lines \cup new
      /\ \A l \in DOMAIN lines : lines'[l] = lines[l]
      /\ \A l \in new : lines'[l] = row(l)
  BY <1>2, <1>3 DEF added
<1> QED
  BY <1>1, <1>2, <1>4, <1>5, <1>6 DEF new, row

\* A committed batch brings entries that balance and leaves the others alone.
LEMMA CommitStep ==
  ASSUME LedgerOK, CommitBatch
  PROVE  LedgerOK'
<1> DEFINE new == (DOMAIN open) \X Sides \X {"posted"}
<1>1. /\ DOMAIN entries' = DOMAIN entries \cup DOMAIN open
      /\ DOMAIN lines' = DOMAIN lines \cup new
      /\ \A e \in DOMAIN entries : e \notin DOMAIN open /\ entries'[e] = entries[e]
      /\ \A e \in DOMAIN open : entries'[e] = [status |-> Post[e].status, day |-> open[e]]
      /\ \A l \in DOMAIN lines : l \notin new /\ lines'[l] = lines[l]
  BY CommitAdds
<1>2. \A l \in new :
        /\ l[1] \in DOMAIN open /\ l[2] \in Sides /\ l = <<l[1], l[2], "posted">>
        /\ lines'[l] = [entry |-> l[1], side |-> l[2], amount |-> Post[l[1]].amount,
                        ref |-> IF l[2] = "debit" THEN Post[l[1]].ref ELSE None]
  BY CommitAdds
<1>3. \A e \in DOMAIN open, side \in Sides : <<e, side, "posted">> \in new
  OBVIOUS
<1>4. ASSUME NEW l \in new
       PROVE  /\ lines'[l].entry = l[1] /\ lines'[l].side = l[2]
              /\ lines'[l].amount = Post[l[1]].amount
  <2>1. lines'[l] = [entry |-> l[1], side |-> l[2], amount |-> Post[l[1]].amount,
                     ref |-> IF l[2] = "debit" THEN Post[l[1]].ref ELSE None]
    BY <1>2
  <2> QED
    BY <2>1
<1> HIDE DEF new
<1>5. open' = <<>> /\ DOMAIN open' = {} /\ UNCHANGED <<today, edits, moved, reversed>>
  BY DEF CommitBatch
<1>6. \A e \in DOMAIN open :
        /\ e \in Entries /\ open[e] \in 1..today
        /\ Post[e].amount \in Nat \ {0} /\ Post[e].status \in Statuses
  BY LedgerAssumption DEF LedgerOK
<1>7. \A e \in DOMAIN entries' :
        e \in Entries /\ entries'[e] \in [status : Statuses, day : 1..today]
  BY <1>1, <1>6 DEF LedgerOK
<1>8. \A l \in DOMAIN lines' :
        lines'[l] \in [entry : DOMAIN entries', side : Sides, amount : Nat \ {0}, ref : Refs]
  <2>1. ASSUME NEW l \in DOMAIN lines
        PROVE  lines[l] \in [entry : DOMAIN entries', side : Sides, amount : Nat \ {0}, ref : Refs]
    BY <1>1 DEF LedgerOK
  <2>2. ASSUME NEW l \in new
        PROVE  lines'[l] \in
                 [entry : DOMAIN entries', side : Sides, amount : Nat \ {0}, ref : Refs]
    BY <1>1, <1>2, <1>6 DEF Refs
  <2> QED
    BY <1>1, <2>1, <2>2
<1>9. \A e \in DOMAIN entries, side \in Sides : total(tables', e, side) = total(tables, e, side)
  <2> SUFFICES ASSUME NEW e \in DOMAIN entries
               PROVE  \A side \in Sides : total(tables', e, side) = total(tables, e, side)
    OBVIOUS
  <2>1. tables.lines = lines /\ tables'.lines = lines'
    BY DEF tables
  <2>2. \A l \in DOMAIN lines' : l \in DOMAIN lines \/ lines'[l].entry # e
    BY <1>1, <1>2
  <2>3. /\ lines_of(tables', e) = lines_of(tables, e)
        /\ \A l \in lines_of(tables, e) : tables'.lines[l] = tables.lines[l]
    BY <1>1, <2>1, <2>2 DEF lines_of
  <2> QED
    BY <2>3, SameTotal
<1>10. \A e \in DOMAIN open, side \in Sides : total(tables', e, side) = Post[e].amount
  <2> SUFFICES ASSUME NEW e \in DOMAIN open, NEW side \in Sides
               PROVE  total(tables', e, side) = Post[e].amount
    OBVIOUS
  <2> DEFINE id == <<e, side, "posted">>
             mine == {l \in lines_of(tables', e) : tables'.lines[l].side = side}
             amount == [l \in mine |-> tables'.lines[l].amount]
  <2>1. tables'.lines = lines'
    BY DEF tables
  <2>2. id \in new /\ id[1] = e /\ id[2] = side
    BY <1>3
  <2> HIDE DEF id
  <2>3. /\ lines'[id].entry = e /\ lines'[id].side = side
        /\ lines'[id].amount = Post[e].amount
    BY <1>4, <2>2
  <2>4. \A l \in DOMAIN lines : lines'[l].entry # e
    BY <1>1 DEF LedgerOK
  <2>5. ASSUME NEW l \in new, lines'[l].entry = e, lines'[l].side = side PROVE l = id
    <3>1. l[1] = e /\ l[2] = side
      BY <1>4, <2>5
    <3>2. l = <<l[1], l[2], "posted">>
      BY <1>2
    <3> QED
      BY <3>1, <3>2 DEF id
  <2>6. mine = {id}
    BY <1>1, <2>1, <2>2, <2>3, <2>4, <2>5 DEF lines_of
  <2>7. amount[id] = Post[e].amount
    BY <2>1, <2>3, <2>6
  <2>8. Total(amount, {id}) = Post[e].amount
    BY <1>6, <2>7, TotalSingleton
  <2> HIDE DEF mine, amount
  <2>9. Total(amount, mine) = Post[e].amount
    BY <2>6, <2>8, Zenon
  <2> QED
    BY <2>9 DEF total, mine, amount
<1>11. EntriesBalance'
  BY <1>1, <1>5, <1>9, <1>10 DEF LedgerOK, EntriesBalance, Sides
<1> QED
  BY <1>5, <1>7, <1>8, <1>11 DEF LedgerOK

\* The journal stays as it is.
LEMMA SameJournal ==
  ASSUME LedgerOK, UNCHANGED <<entries, lines, moved, edits>>,
         today' \in Nat, today <= today',
         \A e \in DOMAIN open' : e \in Entries \ DOMAIN entries /\ open'[e] \in 1..today',
         \A e \in DOMAIN open', l \in DOMAIN lines : l[1] # e
  PROVE  LedgerOK'
<1>1. tables' = tables
  BY DEF tables
<1>2. EntriesBalance'
  BY <1>1 DEF LedgerOK, EntriesBalance
<1>3. \A e \in DOMAIN entries : entries[e] \in [status : Statuses, day : 1..today']
  BY DEF LedgerOK
<1> QED
  BY <1>2, <1>3 DEF LedgerOK

\* Every step of the journal's own keeps it in order.
LEMMA LedgerStep ==
  ASSUME LedgerOK, LedgerNext
  PROVE  LedgerOK'
<1>1. /\ today \in Nat \ {0}
      /\ \A e \in DOMAIN open : e \in Entries \ DOMAIN entries /\ open[e] \in 1..today
      /\ \A e \in DOMAIN open, l \in DOMAIN lines : l[1] # e
  BY DEF LedgerOK
<1>2. CASE Midnight
  BY <1>1, <1>2, SameJournal DEF Midnight
<1>3. ASSUME NEW e \in Entries, post_entry(e) PROVE LedgerOK'
  <2>1. /\ DOMAIN open' = DOMAIN open \cup {e} /\ open'[e] = today
        /\ \A x \in DOMAIN open : x # e /\ open'[x] = open[x]
    BY <1>3 DEF post_entry, added
  <2> QED
    BY <1>1, <1>3, <2>1, SameJournal DEF post_entry
<1>4. CASE CommitBatch
  BY <1>4, CommitStep
<1>5. CASE RollBack
  <2>1. DOMAIN open' = {}
    BY <1>5 DEF RollBack
  <2> QED
    BY <1>1, <1>5, <2>1, SameJournal DEF RollBack
<1>6. CASE Edit
  BY <1>6, EditStep
<1> QED
  BY <1>2, <1>3, <1>4, <1>5, <1>6 DEF LedgerNext

-----------------------------------------------------------------------------
(* What an export reads *)

\* groups, of any tables en and ln.
rows_in(en, ln, p) == {l \in DOMAIN ln : in_period(en[ln[l].entry].day, p)}
key_of(en, ln, l) == <<en[ln[l].entry].day, ln[l].side>>
rows_of(en, ln, p, k) == {l \in rows_in(en, ln, p) : key_of(en, ln, l) = k}
group(en, ln, p, k) ==
  [amount |-> Total([l \in rows_of(en, ln, p, k) |-> ln[l].amount], rows_of(en, ln, p, k)),
   entry_count |-> Cardinality(rows_of(en, ln, p, k))]
grouped(en, ln, p) ==
  [k \in {key_of(en, ln, l) : l \in rows_in(en, ln, p)} |-> group(en, ln, p, k)]

\* It is what the export groups, before a step and after it.
LEMMA GroupsAreGrouped ==
  ASSUME NEW p
  PROVE  groups(p) = grouped(entries, lines, p) /\ groups(p)' = grouped(entries', lines', p)
BY DEF groups, grouped, group, rows_of, rows_in, key_of

\* A period whose rows are the same has the same file.
LEMMA SameGroups ==
  ASSUME NEW en, NEW ln, NEW en2, NEW ln2, NEW p,
         rows_in(en2, ln2, p) = rows_in(en, ln, p),
         \A l \in rows_in(en, ln, p) :
           ln2[l] = ln[l] /\ en2[ln[l].entry] = en[ln[l].entry]
  PROVE  grouped(en2, ln2, p) = grouped(en, ln, p)
<1>1. \A l \in rows_in(en, ln, p) : key_of(en2, ln2, l) = key_of(en, ln, l)
  BY DEF key_of
<1>2. \A k : rows_of(en2, ln2, p, k) = rows_of(en, ln, p, k)
  BY <1>1 DEF rows_of
<1>3. \A k : \A l \in rows_of(en, ln, p, k) : ln2[l].amount = ln[l].amount
  BY DEF rows_of
<1>4. ASSUME NEW k PROVE group(en2, ln2, p, k) = group(en, ln, p, k)
  <2> DEFINE mine == rows_of(en, ln, p, k)
  <2>1. rows_of(en2, ln2, p, k) = mine
    BY <1>2
  <2>2. [l \in mine |-> ln2[l].amount] = [l \in mine |-> ln[l].amount]
    BY <1>3
  <2> HIDE DEF mine
  <2>3. Total([l \in mine |-> ln2[l].amount], mine) = Total([l \in mine |-> ln[l].amount], mine)
    BY <2>2, Zenon
  <2>4. group(en2, ln2, p, k) = [amount |-> Total([l \in mine |-> ln2[l].amount], mine),
                                 entry_count |-> Cardinality(mine)]
    BY <2>1, Zenon DEF group
  <2>5. group(en, ln, p, k) = [amount |-> Total([l \in mine |-> ln[l].amount], mine),
                               entry_count |-> Cardinality(mine)]
    BY Zenon DEF group, mine
  <2> QED
    BY <2>3, <2>4, <2>5, Zenon
<1> DEFINE K  == {key_of(en, ln, l) : l \in rows_in(en, ln, p)}
           K2 == {key_of(en2, ln2, l) : l \in rows_in(en2, ln2, p)}
<1>5. K2 = K
  BY <1>1
<1> HIDE DEF K, K2
<1>6. [k \in K2 |-> group(en2, ln2, p, k)] = [k \in K |-> group(en, ln, p, k)]
  BY <1>4, <1>5
<1> QED
  BY <1>6, Zenon DEF grouped, K, K2

\* Nothing that is to come has a day of the period.
Over(p) == p[2] < today /\ \A e \in DOMAIN open : open[e] > p[2]

\* What an export of a period that is over read is what the journal has.
ExportsKept ==
  edits = 0 =>
    /\ \A x \in Exporters : exporter[x].pc # "idle" /\ exporter[x].closed =>
         Over(exporter[x].period) /\ exporter[x].groups = groups(exporter[x].period)
    /\ \A r \in export_runs : r.closed => Over(r.period) /\ r.checksum = groups(r.period)

\* No step of the journal, but an edit, changes a period that is over.
LEMMA OverStays ==
  ASSUME LedgerOK, LedgerNext, edits' = 0, NEW p \in Periods, Over(p)
  PROVE  Over(p)' /\ groups(p)' = groups(p)
<1>1. /\ p[1] \in Nat /\ p[2] \in Nat /\ today \in Nat
      /\ \A e \in DOMAIN open : open[e] \in Nat
  BY ExportAssumption DEF LedgerOK
<1>2. ~ Edit
  BY DEF Edit, LedgerOK
<1>3. ASSUME UNCHANGED <<entries, lines>> PROVE groups(p)' = groups(p)
  BY <1>3, GroupsAreGrouped
<1>4. CASE Midnight
  BY <1>1, <1>3, <1>4 DEF Midnight, Over
<1>5. ASSUME NEW e \in Entries, post_entry(e) PROVE Over(p)' /\ groups(p)' = groups(p)
  <2>1. /\ DOMAIN open' = DOMAIN open \cup {e} /\ open'[e] = today
        /\ \A x \in DOMAIN open : x # e /\ open'[x] = open[x]
    BY <1>5 DEF post_entry, added
  <2> QED
    BY <1>1, <1>3, <1>5, <2>1 DEF post_entry, Over
<1>6. CASE RollBack
  <2>1. DOMAIN open' = {}
    BY <1>6 DEF RollBack
  <2> QED
    BY <1>1, <1>3, <1>6, <2>1 DEF RollBack, Over
<1>7. CASE CommitBatch
  <2> DEFINE new == (DOMAIN open) \X Sides \X {"posted"}
  <2>1. /\ DOMAIN lines' = DOMAIN lines \cup new
        /\ \A e \in DOMAIN entries : entries'[e] = entries[e]
        /\ \A e \in DOMAIN open : entries'[e] = [status |-> Post[e].status, day |-> open[e]]
        /\ \A l \in DOMAIN lines : lines'[l] = lines[l]
    BY <1>7, CommitAdds
  <2>2. \A l \in new : l[1] \in DOMAIN open /\ lines'[l].entry = l[1]
    <3>1. \A l \in new :
            /\ l[1] \in DOMAIN open
            /\ lines'[l] = [entry |-> l[1], side |-> l[2], amount |-> Post[l[1]].amount,
                            ref |-> IF l[2] = "debit" THEN Post[l[1]].ref ELSE None]
      BY <1>7, CommitAdds
    <3>2. ASSUME NEW l \in new PROVE lines'[l].entry = l[1]
      <4>1. lines'[l] = [entry |-> l[1], side |-> l[2], amount |-> Post[l[1]].amount,
                         ref |-> IF l[2] = "debit" THEN Post[l[1]].ref ELSE None]
        BY <3>1
      <4> HIDE DEF new
      <4> QED
        BY <4>1
    <3> QED
      BY <3>1, <3>2
  <2> HIDE DEF new
  <2>3. \A l \in DOMAIN lines : lines[l].entry \in DOMAIN entries
    BY DEF LedgerOK
  <2>4. ASSUME NEW l \in new PROVE ~ in_period(entries'[lines'[l].entry].day, p)
    <3>1. l[1] \in DOMAIN open /\ lines'[l].entry = l[1]
      BY <2>2
    <3>2. entries'[l[1]].day = open[l[1]]
      <4>1. entries'[l[1]] = [status |-> Post[l[1]].status, day |-> open[l[1]]]
        BY <2>1, <3>1
      <4> QED
        BY <4>1
    <3>3. open[l[1]] \in Nat /\ open[l[1]] > p[2]
      BY <1>1, <3>1 DEF Over
    <3> QED
      BY <1>1, <3>1, <3>2, <3>3 DEF in_period
  <2>5. rows_in(entries', lines', p) = rows_in(entries, lines, p)
    BY <2>1, <2>3, <2>4 DEF rows_in
  <2>6. \A l \in rows_in(entries, lines, p) :
          lines'[l] = lines[l] /\ entries'[lines[l].entry] = entries[lines[l].entry]
    BY <2>1, <2>3 DEF rows_in
  <2>7. grouped(entries', lines', p) = grouped(entries, lines, p)
    BY <2>5, <2>6, SameGroups
  <2>8. DOMAIN open' = {} /\ today' = today
    BY <1>7 DEF CommitBatch
  <2>9. groups(p)' = grouped(entries', lines', p)
    BY GroupsAreGrouped
  <2> QED
    BY <2>7, <2>8, <2>9, GroupsAreGrouped DEF Over
<1> QED
  BY <1>2, <1>4, <1>5, <1>6, <1>7 DEF LedgerNext

-----------------------------------------------------------------------------
(* What a reconciliation computes *)

\* A dictionary that lost no row has all of their amounts.
LEMMA DictionaryTotal ==
  ASSUME NEW R, IsFiniteSet(R), NEW ref, DOMAIN ref = R, NEW d \in by_ref(ref),
         Cardinality(DOMAIN d) = Cardinality(R),
         NEW amount, \A r \in R : amount[r] \in Nat,
         NEW value, \A c \in DOMAIN d : value[c] = amount[d[c]]
  PROVE  IsFiniteSet(DOMAIN d) /\ Total(value, DOMAIN d) = Total(amount, R)
<1>1. d \in [DOMAIN d -> R] /\ \A c \in DOMAIN d : ref[d[c]] = c
  BY DEF by_ref
<1>2. d \in Injection(DOMAIN d, R)
  BY <1>1 DEF Injection, IsInjective
<1>3. IsFiniteSet(DOMAIN d) /\ d \in Surjection(DOMAIN d, R)
  BY <1>2, FS_Injection
<1>4. d \in Bijection(DOMAIN d, R)
  BY <1>2, <1>3 DEF Bijection
<1>5. \A c \in DOMAIN d : value[c] \in Nat /\ amount[d[c]] = value[c]
  BY <1>1
<1> QED
  BY <1>3, <1>4, <1>5, TotalReindexed

\* The charges a break is reported of.
broken(external, cash) ==
  (DOMAIN external \ DOMAIN cash) \cup (DOMAIN cash \ DOMAIN external) \cup
  {c \in DOMAIN external \cap DOMAIN cash : lines[cash[c]].amount # external[c].amount}

\* The break of a charge that has one.
break_of(external, cash, c) ==
  IF c \notin DOMAIN cash THEN Break("unmatched_external", c, external[c].amount, None)
  ELSE IF c \notin DOMAIN external THEN Break("unmatched_ledger", c, None, lines[cash[c]].amount)
  ELSE Break("amount_mismatch", c, external[c].amount, lines[cash[c]].amount)

\* A reconciliation reports one break of each such charge, and no other.
LEMMA BreaksOfCharges ==
  ASSUME NEW external, NEW cash
  PROVE  LET M == broken(external, cash)
         IN  /\ breaks(external, cash) = {break_of(external, cash, c) : c \in M}
             /\ \A c \in M : break_of(external, cash, c).external_ref = c
             /\ [c \in M |-> break_of(external, cash, c)]
                  \in Bijection(M, breaks(external, cash))
<1> DEFINE M == broken(external, cash)
           h == [c \in M |-> break_of(external, cash, c)]
<1>1. ASSUME NEW b PROVE b \in breaks(external, cash) <=> \E c \in M : b = break_of(external, cash, c)
  BY DEF breaks, broken, break_of
<1>2. breaks(external, cash) = {break_of(external, cash, c) : c \in M}
  BY <1>1
<1>3. \A c \in M : break_of(external, cash, c).external_ref = c
  BY DEF break_of, Break
<1> HIDE DEF M
<1>4. h \in [M -> breaks(external, cash)]
  BY <1>2
<1>5. \A c, d \in M : h[c] = h[d] => c = d
  BY <1>3
<1>6. \A b \in breaks(external, cash) : \E c \in M : h[c] = b
  BY <1>2
<1>7. h \in Bijection(M, breaks(external, cash))
  BY <1>4, <1>5, <1>6 DEF Bijection, Injection, Surjection, IsInjective
<1> QED
  BY <1>2, <1>3, <1>7 DEF M

\* The sum of a side of the breaks is that of the broken charges.
LEMMA BreaksTotal ==
  ASSUME NEW external, NEW cash, IsFiniteSet(broken(external, cash)), NEW f, NEW g,
         \A c \in broken(external, cash) :
           f[c] \in Nat /\ g[break_of(external, cash, c)] = f[c]
  PROVE  Total(g, breaks(external, cash)) = Total(f, broken(external, cash))
<1> DEFINE M == broken(external, cash)
           h == [c \in M |-> break_of(external, cash, c)]
<1>1. h \in Bijection(M, breaks(external, cash))
  BY BreaksOfCharges
<1>2. \A c \in M : f[c] \in Nat /\ g[h[c]] = f[c]
  OBVIOUS
<1> HIDE DEF h
<1> QED
  BY <1>1, <1>2, TotalReindexed

\* Where two sums differ, they differ by what they differ in.
LEMMA TotalElsewhere ==
  ASSUME NEW U, IsFiniteSet(U), NEW M, M \subseteq U, NEW f, NEW g,
         \A c \in U : f[c] \in Nat /\ g[c] \in Nat, \A c \in U \ M : f[c] = g[c]
  PROVE  Total(f, U) + Total(g, M) = Total(g, U) + Total(f, M)
<1> DEFINE R == U \ M
<1>1. IsFiniteSet(M) /\ IsFiniteSet(R) /\ M \cap R = {} /\ U = M \cup R
  BY FS_Subset
<1>2. /\ \A c \in M \cup R : f[c] \in Nat /\ g[c] \in Nat
      /\ \A c \in R : f[c] = g[c]
  BY <1>1
<1> HIDE DEF R
<1>3. /\ Total(f, M \cup R) = Total(f, M) + Total(f, R)
      /\ Total(g, M \cup R) = Total(g, M) + Total(g, R)
  BY <1>1, <1>2, TotalSplit
<1>4. Total(f, R) = Total(g, R)
  BY <1>2, TotalEqual
<1>5. Total(f, M) \in Nat /\ Total(g, M) \in Nat /\ Total(g, R) \in Nat
  BY <1>1, <1>2, TotalType
<1>6. Total(f, U) = Total(f, M) + Total(f, R) /\ Total(g, U) = Total(g, M) + Total(g, R)
  BY <1>1, <1>3
<1> QED
  BY <1>4, <1>5, <1>6

\* A charge that a side does not have counts for nothing.
LEMMA TotalAtLarge ==
  ASSUME NEW U, IsFiniteSet(U), NEW E, E \subseteq U, NEW f, \A c \in U : f[c] \in Nat,
         \A c \in U \ E : f[c] = 0
  PROVE  Total(f, U) = Total(f, E)
<1> DEFINE R == U \ E
<1>1. IsFiniteSet(E) /\ IsFiniteSet(R) /\ E \cap R = {} /\ U = E \cup R
  BY FS_Subset
<1>2. \A c \in E \cup R : f[c] \in Nat
  BY <1>1
<1>3. \A c \in R : f[c] = 0
  OBVIOUS
<1> HIDE DEF R
<1>4. Total(f, E \cup R) = Total(f, E) + Total(f, R) /\ Total(f, R) = 0 /\ Total(f, E) \in Nat
  BY <1>1, <1>2, <1>3, TotalSplit, TotalZero, TotalType
<1> QED
  BY <1>1, <1>4

\* However Stripe's and the ledger's rows match.
LEMMA ReconExplains ==
  ASSUME IsFiniteSet(DOMAIN lines), \A l \in DOMAIN lines : lines[l].amount \in Nat,
         NEW txs \in SUBSET Stripe,
         NEW external \in external_by_ref(txs), NEW cash \in ledger_by_ref,
         Cardinality(DOMAIN external) = Cardinality(txs),
         Cardinality(DOMAIN cash) = Cardinality(cash_debits)
  PROVE  LET bs == breaks(external, cash)
             value(amount) == IF amount = None THEN 0 ELSE amount
         IN  Total([t \in txs |-> t.amount], txs)
               + Total([b \in bs |-> value(b.ledger_amount)], bs)
             = Total([l \in cash_debits |-> lines[l].amount], cash_debits)
               + Total([b \in bs |-> value(b.external_amount)], bs)
<1> DEFINE bs == breaks(external, cash)
           value(amount) == IF amount = None THEN 0 ELSE amount
           U == DOMAIN external \cup DOMAIN cash
           M == broken(external, cash)
           ext == [c \in U |-> IF c \in DOMAIN external THEN external[c].amount ELSE 0]
           led == [c \in U |-> IF c \in DOMAIN cash THEN lines[cash[c]].amount ELSE 0]
           tx_amount == [t \in txs |-> t.amount]
           cash_amount == [l \in cash_debits |-> lines[l].amount]
<1>1. IsFiniteSet(txs) /\ \A t \in txs : tx_amount[t] \in Nat
  BY StripeAssumption, FS_Subset
<1>2. cash_debits \subseteq DOMAIN lines
  BY DEF cash_debits
<1>3. IsFiniteSet(cash_debits) /\ \A l \in cash_debits : cash_amount[l] \in Nat
  BY <1>2, FS_Subset
<1>4. external \in [DOMAIN external -> txs] /\ cash \in [DOMAIN cash -> cash_debits]
  BY DEF external_by_ref, ledger_by_ref, by_ref
<1>5. \A c \in DOMAIN external : external[c] \in txs /\ ext[c] = tx_amount[external[c]]
  BY <1>4
<1>6. \A c \in DOMAIN cash : cash[c] \in cash_debits /\ led[c] = cash_amount[cash[c]]
  BY <1>4
<1>7. \A c \in U : /\ ext[c] \in Nat /\ led[c] \in Nat
                   /\ c \notin DOMAIN external => ext[c] = 0
                   /\ c \notin DOMAIN cash => led[c] = 0
  BY <1>1, <1>3, <1>5, <1>6
<1>8. M \subseteq U /\ \A c \in U \ M : ext[c] = led[c]
  BY DEF broken
<1>9. \A c \in M :
        /\ break_of(external, cash, c).external_ref = c
        /\ break_of(external, cash, c) \in bs
        /\ value(break_of(external, cash, c).external_amount) = ext[c]
        /\ value(break_of(external, cash, c).ledger_amount) = led[c]
  <2> TAKE c \in M
  <2>1. break_of(external, cash, c).external_ref = c /\ break_of(external, cash, c) \in bs
    BY BreaksOfCharges
  <2>2. \A n \in Nat : n # None
    BY LedgerAssumption
  <2>3. c \in DOMAIN external => external[c].amount \in Nat /\ ext[c] = external[c].amount
    BY <1>1, <1>4, <1>7
  <2>4. c \in DOMAIN cash => lines[cash[c]].amount \in Nat /\ led[c] = lines[cash[c]].amount
    BY <1>2, <1>4, <1>7
  <2>5. c \in U /\ (c \notin DOMAIN external => ext[c] = 0) /\ (c \notin DOMAIN cash => led[c] = 0)
    BY <1>7, <1>8
  <2> HIDE DEF ext, led
  <2> QED
    BY <2>1, <2>2, <2>3, <2>4, <2>5 DEF break_of, Break
<1> HIDE DEF ext, led, tx_amount, cash_amount
<1>10. /\ IsFiniteSet(DOMAIN external) /\ Total(ext, DOMAIN external) = Total(tx_amount, txs)
       /\ IsFiniteSet(DOMAIN cash) /\ Total(led, DOMAIN cash) = Total(cash_amount, cash_debits)
  <2>1. /\ DOMAIN [t \in txs |-> t.charge] = txs
        /\ DOMAIN [l \in cash_debits |-> lines[l].ref] = cash_debits
        /\ external \in by_ref([t \in txs |-> t.charge])
        /\ cash \in by_ref([l \in cash_debits |-> lines[l].ref])
    BY DEF external_by_ref, ledger_by_ref
  <2>2. IsFiniteSet(DOMAIN external) /\ Total(ext, DOMAIN external) = Total(tx_amount, txs)
    BY <1>1, <1>5, <2>1, DictionaryTotal
  <2>3. IsFiniteSet(DOMAIN cash) /\ Total(led, DOMAIN cash) = Total(cash_amount, cash_debits)
    BY <1>3, <1>6, <2>1, DictionaryTotal
  <2> QED
    BY <2>2, <2>3
<1>11. IsFiniteSet(U)
  BY <1>10, FS_Union
<1>12. Total(ext, U) + Total(led, M) = Total(led, U) + Total(ext, M)
  BY <1>7, <1>8, <1>11, TotalElsewhere
<1>13. Total(ext, U) = Total(ext, DOMAIN external) /\ Total(led, U) = Total(led, DOMAIN cash)
  BY <1>7, <1>11, TotalAtLarge
<1>14. /\ Total([b \in bs |-> value(b.external_amount)], bs) = Total(ext, M)
       /\ Total([b \in bs |-> value(b.ledger_amount)], bs) = Total(led, M)
  <2> DEFINE e == [b \in bs |-> value(b.external_amount)]
             l == [b \in bs |-> value(b.ledger_amount)]
  <2>1. \A c \in M : /\ ext[c] \in Nat /\ e[break_of(external, cash, c)] = ext[c]
                     /\ led[c] \in Nat /\ l[break_of(external, cash, c)] = led[c]
    BY <1>7, <1>8, <1>9
  <2>2. IsFiniteSet(M)
    BY <1>8, <1>11, FS_Subset
  <2> HIDE DEF e, l
  <2>3. Total(e, breaks(external, cash)) = Total(ext, M)
    BY <2>1, <2>2, BreaksTotal
  <2>4. Total(l, breaks(external, cash)) = Total(led, M)
    BY <2>1, <2>2, BreaksTotal
  <2> QED
    BY <2>3, <2>4 DEF e, l
<1> HIDE DEF value, U, M
<1>15. Total(tx_amount, txs) + Total([b \in bs |-> value(b.ledger_amount)], bs)
        = Total(cash_amount, cash_debits) + Total([b \in bs |-> value(b.external_amount)], bs)
  BY <1>10, <1>12, <1>13, <1>14
<1> QED
  BY <1>15 DEF tx_amount, cash_amount, value

-----------------------------------------------------------------------------
(* The invariant of the exports *)

\* The sessions, and the ids of their runs.
ExportersOK ==
  /\ DOMAIN exporter = Exporters /\ DOMAIN files = Periods /\ run_ids \in Nat
  /\ \A x \in Exporters :
       LET s == exporter[x]
       IN  /\ s.pc \in {"idle", "write", "insert", "commit"}
           /\ s.pc # "idle" => s.period \in Periods
           /\ s.pc = "write" => s = [pc |-> "write", period |-> s.period,
                                     groups |-> s.groups, closed |-> s.closed]
           /\ s.pc = "commit" => s.id \in 1..run_ids
  /\ \A r \in export_runs : r.id \in 1..run_ids /\ r.period \in Periods

\* Session x has written the file of period p and its run is not committed.
holding(x, p) == exporter[x].pc \in {"insert", "commit"} /\ exporter[x].period = p
latest(r) == \A q \in export_runs : q.period = r.period => q.id <= r.id

\* The file of period p is there in full, and is the latest run's.
settled(p) ==
  /\ files[p] # Partial
  /\ \A r \in export_runs : latest(r) /\ r.period = p => files[p] = Whole(r.checksum)

\* A file is that of a run, or of a session that has still to insert or commit its
\* run, or a part of one; without overlaps sessions follow each other, what one holds
\* is in its file, and so is the latest run if the export after it did not fail.
FilesKept ==
  ~ crashed =>
    /\ \A p \in Periods : files[p] \notin {None, Partial} =>
         \/ \E r \in export_runs : r.period = p /\ files[p] = Whole(r.checksum)
         \/ \E x \in Exporters : holding(x, p) /\ files[p] = Whole(exporter[x].groups)
    /\ ~ overlapped =>
         /\ \A x, y \in Exporters : exporter[x].pc # "idle" /\ exporter[y].pc # "idle" => x = y
         /\ \A x \in Exporters : exporter[x].pc = "commit" =>
              \A r \in export_runs : r.id < exporter[x].id
         /\ \A x \in Exporters, p \in Periods : holding(x, p) => files[p] = Whole(exporter[x].groups)
         /\ \A p \in Periods \ failed : (\A x \in Exporters : ~ holding(x, p)) => settled(p)

BooksInv == LedgerOK /\ ExportersOK /\ ExportsKept /\ FilesKept

\* Partial has not all rows.
LEMMA WholeFile == \A g, h : Whole(g) # Partial /\ (Whole(g) = Whole(h) => g = h)
<1> SUFFICES ASSUME NEW g, NEW h PROVE Whole(g) # Partial /\ (Whole(g) = Whole(h) => g = h)
  OBVIOUS
<1>1. Whole(g).whole = TRUE /\ Partial.whole = FALSE /\ Whole(g).rows = g /\ Whole(h).rows = h
  BY DEF Whole, Partial
<1> QED
  BY <1>1

\* A step of one session leaves the others where they are.
LEMMA OneExporter ==
  ASSUME ExportersOK, NEW x \in Exporters, NEW s, exporter' = [exporter EXCEPT ![x] = s]
  PROVE  /\ DOMAIN exporter' = Exporters /\ exporter'[x] = s
         /\ \A y \in Exporters : y # x => exporter'[y] = exporter[y]
BY DEF ExportersOK

\* A step of the exports reads the journal and leaves it as it is.
LEMMA SameBooks ==
  ASSUME UNCHANGED ledger
  PROVE  \A p : groups(p)' = groups(p) /\ Over(p)' = Over(p)
<1>1. UNCHANGED <<entries, lines, open, today>>
  BY DEF ledger
<1>2. ASSUME NEW p PROVE groups(p)' = groups(p)
  BY <1>1, GroupsAreGrouped
<1> QED
  BY <1>1, <1>2 DEF Over

\* The query of an export.
LEMMA FetchStep ==
  ASSUME BooksInv, UNCHANGED ledger, NEW x \in Exporters, NEW p \in Periods, Fetch(x, p)
  PROVE  ExportersOK' /\ ExportsKept' /\ FilesKept'
<1> DEFINE s == [pc |-> "write", period |-> p, groups |-> groups(p),
                 closed |-> p[2] < today /\ open = <<>>]
<1>1. /\ exporter[x].pc = "idle" /\ exporter' = [exporter EXCEPT ![x] = s]
      /\ UNCHANGED <<export_runs, files, run_ids, failed, crashed>>
      /\ overlapped' = (overlapped \/ \E y \in Exporters : exporter[y].pc # "idle")
  BY DEF Fetch, Begin
<1>2. /\ s.pc = "write" /\ s.period = p /\ s.groups = groups(p) /\ (s.closed => Over(p))
      /\ s = [pc |-> "write", period |-> s.period, groups |-> s.groups, closed |-> s.closed]
  <2>1. ASSUME NEW c \in {p[2] < today /\ open = <<>>},
               NEW t \in {[pc |-> "write", period |-> p, groups |-> groups(p), closed |-> c]}
        PROVE  /\ t.pc = "write" /\ t.period = p /\ t.groups = groups(p) /\ t.closed = c
               /\ t = [pc |-> "write", period |-> t.period, groups |-> t.groups,
                       closed |-> t.closed]
    OBVIOUS
  <2>2. p[2] < today /\ open = <<>> => Over(p)
    BY DEF Over
  <2> QED
    BY <2>1, <2>2, Zenon DEF s
<1> HIDE DEF s
<1>3. /\ DOMAIN exporter' = Exporters /\ exporter'[x] = s
      /\ \A y \in Exporters : y # x => exporter'[y] = exporter[y]
  BY <1>1, OneExporter DEF BooksInv
<1>4. ExportersOK'
  BY <1>1, <1>2, <1>3 DEF BooksInv, ExportersOK
<1>5. ExportsKept'
  <2>1. edits' = edits
    BY DEF ledger
  <2> QED
    BY <1>1, <1>2, <1>3, <2>1, SameBooks DEF BooksInv, ExportsKept
<1>6. \A y \in Exporters, q \in Periods : holding(y, q)' <=> holding(y, q)
  BY <1>1, <1>2, <1>3 DEF holding
<1>7. \A y \in Exporters : exporter'[y].pc \in {"insert", "commit"} => exporter'[y] = exporter[y]
  BY <1>2, <1>3
<1>8. \A q \in Periods : settled(q)' <=> settled(q)
  BY <1>1 DEF latest, settled
<1>10. ASSUME ~ crashed, NEW q \in Periods, files[q] \notin {None, Partial}
       PROVE  \/ \E r \in export_runs : r.period = q /\ files[q] = Whole(r.checksum)
              \/ \E y \in Exporters : holding(y, q)' /\ files[q] = Whole(exporter'[y].groups)
  BY <1>6, <1>7, <1>10 DEF BooksInv, FilesKept, holding
<1>11. ASSUME ~ crashed, ~ overlapped'
       PROVE  /\ \A y, z \in Exporters :
                   exporter'[y].pc # "idle" /\ exporter'[z].pc # "idle" => y = z
              /\ \A y \in Exporters : exporter'[y].pc # "commit"
              /\ \A y \in Exporters, q \in Periods : ~ holding(y, q)'
              /\ \A q \in Periods \ failed : settled(q)
  <2>1. ~ overlapped /\ \A y \in Exporters : exporter[y].pc = "idle"
    BY <1>1, <1>11
  <2>2. \A y \in Exporters, q \in Periods : ~ holding(y, q)
    BY <2>1 DEF holding
  <2> QED
    BY <1>2, <1>3, <1>6, <1>11, <2>1, <2>2 DEF BooksInv, FilesKept
<1>12. FilesKept'
  BY <1>1, <1>8, <1>10, <1>11 DEF FilesKept
<1> QED
  BY <1>4, <1>5, <1>12

\* The file is written, over whatever was there.
LEMMA WriteStep ==
  ASSUME BooksInv, UNCHANGED ledger, NEW x \in Exporters, Write(x)
  PROVE  ExportersOK' /\ ExportsKept' /\ FilesKept'
<1> DEFINE p == exporter[x].period
           s == [exporter[x] EXCEPT !.pc = "insert"]
<1>1. /\ exporter[x].pc = "write" /\ exporter' = [exporter EXCEPT ![x] = s]
      /\ files' = [files EXCEPT ![p] = Whole(exporter[x].groups)]
      /\ UNCHANGED <<export_runs, run_ids, overlapped, failed, crashed>>
  BY DEF Write, file_path
<1>2. /\ s.pc = "insert" /\ s.period = p /\ s.groups = exporter[x].groups
      /\ s.closed = exporter[x].closed /\ p \in Periods
  <2>1. exporter[x] = [pc |-> "write", period |-> p, groups |-> exporter[x].groups,
                       closed |-> exporter[x].closed]
    BY <1>1 DEF BooksInv, ExportersOK
  <2>2. p \in Periods
    BY <1>1 DEF BooksInv, ExportersOK
  <2> QED
    BY <2>1, <2>2
<1> HIDE DEF s
<1>3. /\ DOMAIN exporter' = Exporters /\ exporter'[x] = s
      /\ \A y \in Exporters : y # x => exporter'[y] = exporter[y]
  BY <1>1, OneExporter DEF BooksInv
<1>4. ExportersOK'
  BY <1>1, <1>2, <1>3 DEF BooksInv, ExportersOK
<1>5. ExportsKept'
  <2>1. edits' = edits
    BY DEF ledger
  <2> QED
    BY <1>1, <1>2, <1>3, <2>1, SameBooks DEF BooksInv, ExportsKept
<1>6. /\ DOMAIN files' = Periods /\ files'[p] = Whole(exporter[x].groups)
      /\ \A q \in Periods : q # p => files'[q] = files[q]
  BY <1>1, <1>2 DEF BooksInv, ExportersOK
<1>7. /\ \A q \in Periods : holding(x, q)' <=> q = p
      /\ \A y \in Exporters, q \in Periods : y # x => (holding(y, q)' <=> holding(y, q))
      /\ \A q \in Periods : ~ holding(x, q)
  BY <1>1, <1>2, <1>3 DEF holding
<1>8. \A q \in Periods : q # p => (settled(q)' <=> settled(q))
  BY <1>1, <1>6 DEF latest, settled
<1>10. ASSUME ~ crashed, NEW q \in Periods, files'[q] \notin {None, Partial}
       PROVE  \/ \E r \in export_runs : r.period = q /\ files'[q] = Whole(r.checksum)
              \/ \E y \in Exporters : holding(y, q)' /\ files'[q] = Whole(exporter'[y].groups)
  <2>1. CASE q = p
    BY <1>2, <1>3, <1>6, <1>7, <2>1
  <2>2. CASE q # p
    BY <1>3, <1>6, <1>7, <1>10, <2>2 DEF BooksInv, FilesKept
  <2> QED
    BY <2>1, <2>2
<1>11. ASSUME ~ crashed, ~ overlapped
       PROVE  /\ \A y, z \in Exporters :
                   exporter'[y].pc # "idle" /\ exporter'[z].pc # "idle" => y = z
              /\ \A y \in Exporters : exporter'[y].pc # "commit"
              /\ \A y \in Exporters, q \in Periods :
                   holding(y, q)' => files'[q] = Whole(exporter'[y].groups)
              /\ \A q \in Periods \ failed :
                   (\A y \in Exporters : ~ holding(y, q)') => settled(q)'
  <2>1. \A y \in Exporters : y # x => exporter'[y].pc = "idle"
    BY <1>1, <1>3, <1>11 DEF BooksInv, FilesKept
  <2>2. \A y \in Exporters, q \in Periods : holding(y, q)' => y = x /\ q = p
    BY <1>7, <2>1 DEF holding
  <2>3. ASSUME NEW q \in Periods \ failed, \A y \in Exporters : ~ holding(y, q)'
        PROVE  settled(q)'
    <3>1. q # p /\ \A y \in Exporters : ~ holding(y, q)
      BY <1>7, <2>3
    <3>2. settled(q)
      BY <1>11, <2>3, <3>1 DEF BooksInv, FilesKept
    <3> QED
      BY <1>8, <3>1, <3>2
  <2> QED
    BY <1>2, <1>3, <1>6, <2>1, <2>2, <2>3
<1>12. FilesKept'
  BY <1>1, <1>10, <1>11 DEF FilesKept
<1> QED
  BY <1>4, <1>5, <1>12

\* The INSERT of the run, whose id is new.
LEMMA InsertStep ==
  ASSUME BooksInv, UNCHANGED ledger, NEW x \in Exporters, Insert(x)
  PROVE  ExportersOK' /\ ExportsKept' /\ FilesKept'
<1> DEFINE p == exporter[x].period
           s == [pc |-> "commit", id |-> run_ids', period |-> p,
                 groups |-> exporter[x].groups, closed |-> exporter[x].closed]
<1>1. /\ exporter[x].pc = "insert" /\ run_ids' = run_ids + 1
      /\ exporter' = [exporter EXCEPT ![x] = s]
      /\ UNCHANGED <<export_runs, files, overlapped, failed, crashed>>
  BY DEF Insert
<1>2. /\ s.pc = "commit" /\ s.id = run_ids' /\ s.period = p /\ s.groups = exporter[x].groups
      /\ s.closed = exporter[x].closed /\ p \in Periods /\ run_ids \in Nat
  BY <1>1 DEF BooksInv, ExportersOK
<1> HIDE DEF s
<1>3. /\ DOMAIN exporter' = Exporters /\ exporter'[x] = s
      /\ \A y \in Exporters : y # x => exporter'[y] = exporter[y]
  BY <1>1, OneExporter DEF BooksInv
<1>4. ExportersOK'
  BY <1>1, <1>2, <1>3 DEF BooksInv, ExportersOK
<1>5. ExportsKept'
  <2>1. edits' = edits
    BY DEF ledger
  <2> QED
    BY <1>1, <1>2, <1>3, <2>1, SameBooks DEF BooksInv, ExportsKept
<1>6. \A y \in Exporters, q \in Periods :
        /\ holding(y, q)' <=> holding(y, q)
        /\ exporter'[y].pc # "idle" <=> exporter[y].pc # "idle"
        /\ holding(y, q) => exporter'[y].groups = exporter[y].groups
  BY <1>1, <1>2, <1>3 DEF holding
<1>7. /\ \A r \in export_runs : r.id < run_ids'
      /\ \A q \in Periods : settled(q)' <=> settled(q)
  BY <1>1, <1>2 DEF latest, settled, BooksInv, ExportersOK
<1>8. ASSUME ~ crashed, NEW q \in Periods, files[q] \notin {None, Partial}
      PROVE  \/ \E r \in export_runs : r.period = q /\ files[q] = Whole(r.checksum)
             \/ \E y \in Exporters : holding(y, q)' /\ files[q] = Whole(exporter'[y].groups)
  BY <1>6, <1>8 DEF BooksInv, FilesKept
<1>9. ASSUME ~ crashed, ~ overlapped
      PROVE  /\ \A y, z \in Exporters :
                  exporter'[y].pc # "idle" /\ exporter'[z].pc # "idle" => y = z
             /\ \A y \in Exporters : exporter'[y].pc = "commit" =>
                  \A r \in export_runs : r.id < exporter'[y].id
             /\ \A y \in Exporters, q \in Periods :
                  holding(y, q)' => files[q] = Whole(exporter'[y].groups)
             /\ \A q \in Periods \ failed :
                  (\A y \in Exporters : ~ holding(y, q)') => settled(q)
  <2>1. \A y \in Exporters : exporter'[y].pc = "commit" =>
          \A r \in export_runs : r.id < exporter'[y].id
    BY <1>2, <1>3, <1>7, <1>9 DEF BooksInv, FilesKept
  <2>2. \A y, z \in Exporters : exporter'[y].pc # "idle" /\ exporter'[z].pc # "idle" => y = z
    BY <1>2, <1>6, <1>9 DEF BooksInv, FilesKept
  <2>3. \A y \in Exporters, q \in Periods : holding(y, q)' => files[q] = Whole(exporter'[y].groups)
    BY <1>6, <1>9 DEF BooksInv, FilesKept
  <2>4. \A q \in Periods \ failed : (\A y \in Exporters : ~ holding(y, q)') => settled(q)
    BY <1>6, <1>9 DEF BooksInv, FilesKept
  <2> QED
    BY <2>1, <2>2, <2>3, <2>4
<1>10. FilesKept'
  BY <1>1, <1>7, <1>8, <1>9 DEF FilesKept
<1> QED
  BY <1>4, <1>5, <1>10

\* The write fails, or the INSERT does: no session holds the file any more.
LEMMA FailsStep ==
  ASSUME BooksInv, UNCHANGED ledger, NEW x \in Exporters, NEW left,
         \/ exporter[x].pc = "write" /\ left \in {files[exporter[x].period], Partial, None}
         \/ exporter[x].pc = "insert" /\ left = None,
         Fails(x, left)
  PROVE  ExportersOK' /\ ExportsKept' /\ FilesKept'
<1> DEFINE p == exporter[x].period
<1>1. /\ exporter' = [exporter EXCEPT ![x] = Resting]
      /\ files' = [files EXCEPT ![p] = left]
      /\ failed' = failed \cup {p}
      /\ UNCHANGED <<export_runs, run_ids, overlapped, crashed>>
  BY DEF Fails, file_path
<1>2. Resting.pc = "idle" /\ exporter[x].pc # "idle" /\ p \in Periods
  BY DEF Resting, BooksInv, ExportersOK
<1>3. /\ DOMAIN exporter' = Exporters /\ exporter'[x] = Resting
      /\ \A y \in Exporters : y # x => exporter'[y] = exporter[y]
  BY <1>1, OneExporter DEF BooksInv
<1>4. ExportersOK'
  BY <1>1, <1>2, <1>3 DEF BooksInv, ExportersOK
<1>5. ExportsKept'
  <2>1. edits' = edits
    BY DEF ledger
  <2> QED
    BY <1>1, <1>2, <1>3, <2>1, SameBooks DEF BooksInv, ExportsKept
<1>6. /\ \A q \in Periods : q # p => files'[q] = files[q] /\ ~ holding(x, q)
      /\ files'[p] = left /\ \A q \in Periods : ~ holding(x, q)'
      /\ \A y \in Exporters, q \in Periods : y # x => (holding(y, q)' <=> holding(y, q))
  BY <1>1, <1>2, <1>3 DEF BooksInv, ExportersOK, holding
<1>7. ASSUME ~ crashed, NEW q \in Periods, files'[q] \notin {None, Partial}
      PROVE  \/ \E r \in export_runs : r.period = q /\ files'[q] = Whole(r.checksum)
             \/ \E y \in Exporters : holding(y, q)' /\ files'[q] = Whole(exporter'[y].groups)
  <2>1. files'[q] = files[q] /\ ~ holding(x, q)
    <3>1. CASE q = p
      <4>1. exporter[x].pc = "write" /\ left = files[p]
        BY <1>6, <1>7, <3>1
      <4> QED
        BY <1>6, <3>1, <4>1 DEF holding
    <3> QED
      BY <1>6, <3>1
  <2> QED
    BY <1>3, <1>6, <1>7, <2>1 DEF BooksInv, FilesKept
<1>8. ASSUME ~ crashed, ~ overlapped
      PROVE  /\ \A y \in Exporters : exporter'[y].pc = "idle"
             /\ \A q \in Periods \ failed' : settled(q)'
  <2>1. \A y \in Exporters : y # x => exporter[y].pc = "idle"
    BY <1>2, <1>8 DEF BooksInv, FilesKept
  <2>2. ASSUME NEW q \in Periods \ failed' PROVE settled(q)'
    <3>1. q # p /\ q \notin failed
      BY <1>1
    <3>2. \A y \in Exporters : ~ holding(y, q)
      BY <1>6, <2>1, <3>1 DEF holding
    <3>3. settled(q)
      BY <1>8, <3>1, <3>2 DEF BooksInv, FilesKept
    <3> QED
      BY <1>1, <1>6, <3>1, <3>3 DEF settled, latest
  <2> QED
    BY <1>2, <1>3, <2>1, <2>2
<1>9. \A y \in Exporters, q \in Periods : exporter'[y].pc = "idle" => ~ holding(y, q)'
  BY DEF holding
<1>10. FilesKept'
  BY <1>1, <1>7, <1>8, <1>9 DEF FilesKept
<1> QED
  BY <1>4, <1>5, <1>10

\* The two ways to fail.
LEMMA WriteFailsStep ==
  ASSUME BooksInv, UNCHANGED ledger, NEW x \in Exporters, WriteFails(x)
  PROVE  ExportersOK' /\ ExportsKept' /\ FilesKept'
BY FailsStep DEF WriteFails, file_path

LEMMA InsertFailsStep ==
  ASSUME BooksInv, UNCHANGED ledger, NEW x \in Exporters, InsertFails(x)
  PROVE  ExportersOK' /\ ExportsKept' /\ FilesKept'
BY FailsStep DEF InsertFails

\* The caller's commit, after which the run is the latest of its period.
LEMMA CommitRunStep ==
  ASSUME BooksInv, UNCHANGED ledger, NEW x \in Exporters, CommitRun(x)
  PROVE  ExportersOK' /\ ExportsKept' /\ FilesKept'
<1> DEFINE p == exporter[x].period
           new == [id |-> exporter[x].id, period |-> p, checksum |-> exporter[x].groups,
                   closed |-> exporter[x].closed]
<1>1. /\ exporter[x].pc = "commit" /\ exporter' = [exporter EXCEPT ![x] = Resting]
      /\ export_runs' = export_runs \cup {new}
      /\ failed' = failed \ {p}
      /\ UNCHANGED <<files, run_ids, overlapped, crashed>>
  BY DEF CommitRun
<1>2. Resting.pc = "idle"
  BY DEF Resting
<1>3. /\ new.id = exporter[x].id /\ new.period = p /\ new.checksum = exporter[x].groups
      /\ new.closed = exporter[x].closed /\ p \in Periods /\ new.id \in 1..run_ids
  BY <1>1 DEF BooksInv, ExportersOK
<1> HIDE DEF new
<1>4. /\ DOMAIN exporter' = Exporters /\ exporter'[x] = Resting
      /\ \A y \in Exporters : y # x => exporter'[y] = exporter[y]
  BY <1>1, OneExporter DEF BooksInv
<1>5. ExportersOK'
  BY <1>1, <1>2, <1>3, <1>4 DEF BooksInv, ExportersOK
<1>6. ExportsKept'
  <2>1. edits' = edits
    BY DEF ledger
  <2> QED
    BY <1>1, <1>2, <1>3, <1>4, <2>1, SameBooks DEF BooksInv, ExportsKept
<1>7. /\ \A q \in Periods : holding(x, q) <=> q = p
      /\ \A y \in Exporters, q \in Periods : y # x => (holding(y, q)' <=> holding(y, q))
      /\ \A q \in Periods : ~ holding(x, q)'
  BY <1>1, <1>2, <1>4 DEF holding
<1>8. ASSUME ~ crashed, NEW q \in Periods, files[q] \notin {None, Partial}
      PROVE  \/ \E r \in export_runs' : r.period = q /\ files[q] = Whole(r.checksum)
             \/ \E y \in Exporters : holding(y, q)' /\ files[q] = Whole(exporter'[y].groups)
  BY <1>1, <1>3, <1>4, <1>7, <1>8 DEF BooksInv, FilesKept
<1>9. ASSUME ~ crashed, ~ overlapped
      PROVE  /\ \A y \in Exporters : exporter'[y].pc = "idle"
             /\ \A q \in Periods \ failed' : settled(q)'
  <2>1. \A y \in Exporters : y # x => exporter[y].pc = "idle"
    BY <1>1, <1>9 DEF BooksInv, FilesKept
  <2>2. files[p] = Whole(new.checksum) /\ \A r \in export_runs : r.id < new.id
    BY <1>1, <1>3, <1>7, <1>9 DEF BooksInv, FilesKept
  <2>3. files[p] # Partial
    BY <2>2, WholeFile
  <2>4. ASSUME NEW r \in export_runs, r.period = p PROVE ~ latest(r)'
    <3>1. r.id \in Int /\ new.id \in Int /\ r.id < new.id
      BY <1>3, <2>2 DEF BooksInv, ExportersOK
    <3>2. new \in export_runs' /\ new.period = r.period
      BY <1>1, <1>3, <2>4
    <3>3. latest(r)' => new.id <= r.id
      BY <3>2 DEF latest
    <3> QED
      BY <3>1, <3>3
  <2>5. ASSUME NEW q \in Periods \ failed', q # p PROVE settled(q)'
    <3>1. \A y \in Exporters : ~ holding(y, q)
      BY <1>7, <2>1, <2>5 DEF holding
    <3>2. settled(q)
      BY <1>1, <1>9, <2>5, <3>1 DEF BooksInv, FilesKept
    <3>3. \A r \in export_runs' : r.period = q => r \in export_runs /\ (latest(r)' => latest(r))
      BY <1>1, <1>3, <2>5 DEF latest
    <3> QED
      BY <1>1, <3>2, <3>3 DEF settled
  <2>6. ASSUME NEW q \in Periods, q = p PROVE settled(q)'
    <3>1. files'[q] = files[p] /\ export_runs' = export_runs \cup {new}
      BY <1>1, <2>6
    <3>2. \A r \in export_runs' : latest(r)' /\ r.period = q => r = new
      BY <2>4, <2>6, <3>1
    <3> QED
      BY <2>2, <2>3, <3>1, <3>2 DEF settled
  <2>7. \A q \in Periods \ failed' : settled(q)'
    BY <2>5, <2>6
  <2>8. \A y \in Exporters : exporter'[y].pc = "idle"
    BY <1>2, <1>4, <2>1
  <2> QED
    BY <2>7, <2>8
<1>10. \A y \in Exporters, q \in Periods : exporter'[y].pc = "idle" => ~ holding(y, q)'
  BY DEF holding
<1>11. FilesKept'
  <2>1. ~ crashed /\ ~ overlapped =>
          /\ \A y, z \in Exporters :
               exporter'[y].pc # "idle" /\ exporter'[z].pc # "idle" => y = z
          /\ \A y \in Exporters : exporter'[y].pc = "commit" =>
               \A r \in export_runs' : r.id < exporter'[y].id
          /\ \A y \in Exporters, q \in Periods :
               holding(y, q)' => files[q] = Whole(exporter'[y].groups)
    BY <1>9, <1>10
  <2> QED
    BY <1>1, <1>8, <1>9, <2>1 DEF FilesKept
<1> QED
  BY <1>5, <1>6, <1>11

\* What else an export may come to.
LEMMA EndStep ==
  ASSUME BooksInv, UNCHANGED ledger,
         \/ \E x \in Exporters : Crash(x)
         \/ \E x \in Exporters, p \in Periods : FetchRaises(x, p)
  PROVE  ExportersOK' /\ ExportsKept' /\ FilesKept'
<1>1. edits' = edits
  BY DEF ledger
<1>2. ASSUME NEW x \in Exporters, Crash(x) PROVE ExportersOK' /\ ExportsKept' /\ FilesKept'
  <2>1. /\ exporter' = [exporter EXCEPT ![x] = Resting] /\ crashed'
        /\ UNCHANGED <<export_runs, run_ids>> /\ Resting.pc = "idle"
        /\ DOMAIN files' = DOMAIN files
    BY <1>2 DEF Crash, Resting
  <2>2. /\ DOMAIN exporter' = Exporters /\ exporter'[x] = Resting
        /\ \A y \in Exporters : y # x => exporter'[y] = exporter[y]
    BY <2>1, OneExporter DEF BooksInv
  <2>3. ExportersOK'
    BY <2>1, <2>2 DEF BooksInv, ExportersOK
  <2>4. ExportsKept'
    BY <1>1, <2>1, <2>2, SameBooks DEF BooksInv, ExportsKept
  <2> QED
    BY <2>1, <2>3, <2>4 DEF FilesKept
<1>3. ASSUME NEW x \in Exporters, NEW p \in Periods, FetchRaises(x, p)
      PROVE  ExportersOK' /\ ExportsKept' /\ FilesKept'
  <2>1. /\ UNCHANGED <<export_runs, files, exporter, run_ids, failed, crashed>>
        /\ overlapped => overlapped'
    BY <1>3 DEF FetchRaises, Begin
  <2>2. ExportersOK'
    BY <2>1 DEF BooksInv, ExportersOK
  <2>3. ExportsKept'
    BY <1>1, <2>1, SameBooks DEF BooksInv, ExportsKept
  <2>4. FilesKept'
    BY <2>1 DEF BooksInv, FilesKept, holding, latest, settled
  <2> QED
    BY <2>2, <2>3, <2>4
<1> QED
  BY <1>2, <1>3

\* The empty database satisfies the invariant.
LEMMA BooksInit == Init => BooksInv
<1> SUFFICES ASSUME Init PROVE BooksInv
  OBVIOUS
<1>1. DOMAIN entries = {} /\ DOMAIN lines = {} /\ DOMAIN open = {} /\ today = 1 /\ edits = 0
  BY DEF Init, LedgerInit
<1>2. LedgerOK
  BY <1>1 DEF LedgerOK, EntriesBalance
<1>3. /\ export_runs = {} /\ run_ids = 0 /\ DOMAIN files = Periods /\ DOMAIN exporter = Exporters
      /\ \A p \in Periods : files[p] = None
      /\ \A x \in Exporters : exporter[x] = Resting /\ exporter[x].pc = "idle"
  BY DEF Init, ExportInit, Resting
<1>4. ExportersOK
  BY <1>3 DEF ExportersOK
<1>5. ExportsKept
  BY <1>3 DEF ExportsKept
<1>6. FilesKept
  BY <1>3, ExportAssumption DEF FilesKept, holding, settled
<1> QED
  BY <1>2, <1>4, <1>5, <1>6 DEF BooksInv

\* A step of the journal leaves the exports as they are, and a period that is over.
LEMMA JournalStep ==
  ASSUME BooksInv, LedgerNext, UNCHANGED exporting
  PROVE  BooksInv'
<1>1. UNCHANGED <<export_runs, files, exporter, run_ids, overlapped, failed, crashed>>
  BY DEF exporting
<1>2. LedgerOK'
  BY LedgerStep DEF BooksInv
<1>3. ExportersOK'
  BY <1>1 DEF BooksInv, ExportersOK
<1>4. FilesKept'
  BY <1>1 DEF BooksInv, FilesKept, holding, latest, settled
<1>5. ExportsKept'
  <2>1. CASE edits' = 0
    <3>1. edits = 0
      <4>1. edits \in Nat
        BY DEF BooksInv, LedgerOK
      <4>2. edits' = edits \/ edits' = edits + 1
        BY DEF LedgerNext, Midnight, post_entry, CommitBatch, RollBack, Edit
      <4> QED
        BY <2>1, <4>1, <4>2
    <3>2. \A p \in Periods : Over(p) => Over(p)' /\ groups(p)' = groups(p)
      BY <2>1, OverStays DEF BooksInv
    <3>3. /\ \A x \in Exporters : exporter[x].pc # "idle" => exporter[x].period \in Periods
          /\ \A r \in export_runs : r.period \in Periods
      BY DEF BooksInv, ExportersOK
    <3>4. /\ \A x \in Exporters : exporter[x].pc # "idle" /\ exporter[x].closed =>
               Over(exporter[x].period) /\ exporter[x].groups = groups(exporter[x].period)
          /\ \A r \in export_runs : r.closed => Over(r.period) /\ r.checksum = groups(r.period)
      BY <3>1 DEF BooksInv, ExportsKept
    <3>5. ASSUME NEW x \in Exporters, exporter[x].pc # "idle", exporter[x].closed
          PROVE  Over(exporter[x].period)' /\ exporter'[x].groups = groups(exporter[x].period)'
      <4>1. /\ exporter[x].period \in Periods /\ Over(exporter[x].period)
            /\ exporter[x].groups = groups(exporter[x].period)
        BY <3>3, <3>4, <3>5
      <4>2. PICK p \in Periods : p = exporter[x].period
        BY <4>1
      <4>3. Over(p)' /\ groups(p)' = groups(p)
        BY <3>2, <4>1, <4>2
      <4>4. exporter'[x] = exporter[x] /\ exporter'[x].period = p
        BY <1>1, <4>2
      <4> QED
        BY <4>1, <4>2, <4>3, <4>4
    <3>6. ASSUME NEW r \in export_runs, r.closed
          PROVE  Over(r.period)' /\ r.checksum = groups(r.period)'
      BY <3>2, <3>3, <3>4, <3>6
    <3> QED
      BY <1>1, <3>5, <3>6 DEF ExportsKept
  <2>2. CASE edits' # 0
    BY <2>2 DEF ExportsKept
  <2> QED
    BY <2>1, <2>2
<1> QED
  BY <1>2, <1>3, <1>4, <1>5 DEF BooksInv

\* Every step keeps the invariant.
LEMMA BooksStep == BooksInv /\ [Next]_vars => BooksInv'
<1> SUFFICES ASSUME BooksInv, [Next]_vars PROVE BooksInv'
  OBVIOUS
<1>1. ASSUME UNCHANGED ledger PROVE LedgerOK'
  <2>1. UNCHANGED <<entries, lines, open, today, edits, moved, reversed>>
    BY <1>1 DEF ledger
  <2>2. tables' = tables
    BY <2>1 DEF tables
  <2>3. EntriesBalance'
    BY <2>1, <2>2 DEF BooksInv, LedgerOK, EntriesBalance
  <2> QED
    BY <2>1, <2>3 DEF BooksInv, LedgerOK
<1>2. CASE UNCHANGED vars
  <2>1. UNCHANGED ledger /\ UNCHANGED exporting
    BY <1>2 DEF vars
  <2>2. UNCHANGED <<export_runs, files, exporter, run_ids, overlapped, failed, crashed, edits>>
    BY <2>1 DEF exporting, ledger
  <2>3. ExportersOK' /\ FilesKept'
    BY <2>2 DEF BooksInv, ExportersOK, FilesKept, holding, latest, settled
  <2>4. ExportsKept'
    BY <2>1, <2>2, SameBooks DEF BooksInv, ExportsKept
  <2> QED
    BY <1>1, <2>1, <2>3, <2>4 DEF BooksInv
<1>3. CASE LedgerNext /\ UNCHANGED exporting
  BY <1>3, JournalStep
<1>4. CASE ExportNext /\ UNCHANGED ledger
  <2>1. ExportersOK' /\ ExportsKept' /\ FilesKept'
    BY <1>4, FetchStep, WriteStep, InsertStep, WriteFailsStep, InsertFailsStep, CommitRunStep, EndStep
       DEF ExportNext
  <2> QED
    BY <1>1, <1>4, <2>1 DEF BooksInv
<1> QED
  BY <1>2, <1>3, <1>4 DEF Next

\* Every reachable state of the books satisfies the invariant.
LEMMA BooksInductive == Spec => []BooksInv
BY BooksInit, BooksStep, PTL DEF Spec

\* A statement writes one line, at most, that was not there.
LEMMA StatementRows ==
  ASSUME NEW d, TablesOK(d), NEW x \in statement(d), IsFiniteSet(DOMAIN d.lines)
  PROVE  IsFiniteSet(DOMAIN x.lines)
<1>1. ASSUME NEW l, DOMAIN x.lines \subseteq DOMAIN d.lines \cup {l} PROVE IsFiniteSet(DOMAIN x.lines)
  BY <1>1, FS_AddElement, FS_Subset
<1>2. ASSUME NEW e, NEW to, x \in set_status(d, e, to) PROVE x.lines = d.lines
  <2>1. x = [d EXCEPT !.entries[e].status = to,
                      !.reversed = IF to = "reversed" THEN @ \cup {e} ELSE @]
    BY <1>2 DEF set_status
  <2> QED
    BY <2>1 DEF TablesOK
<1>3. ASSUME NEW e, x \in delete_entry(d, e) PROVE DOMAIN x.lines \subseteq DOMAIN d.lines
  <2>1. x = [d EXCEPT !.entries = Restrict(@, DOMAIN @ \ {e}),
                      !.lines = Restrict(@, DOMAIN @ \ lines_of(d, e)),
                      !.checks = @ \cup {f \in {e} : lines_of(d, e) # {}}]
    BY <1>3 DEF delete_entry
  <2>2. x.lines = Restrict(d.lines, DOMAIN d.lines \ lines_of(d, e))
    BY <2>1 DEF TablesOK
  <2> QED
    BY <2>2 DEF Restrict
<1>4. ASSUME NEW e, NEW side, NEW a, x \in insert_line(d, e, side, a)
      PROVE  DOMAIN x.lines \subseteq DOMAIN d.lines \cup {<<e, side, "inserted">>}
  <2> DEFINE new == [l \in {<<e, side, "inserted">>} |->
                       [entry |-> e, side |-> side, amount |-> a, ref |-> None]]
  <2>1. x = [d EXCEPT !.lines = added(@, new), !.checks = @ \cup {e}]
    BY <1>4 DEF insert_line
  <2>2. DOMAIN new = {<<e, side, "inserted">>}
    OBVIOUS
  <2> HIDE DEF new
  <2>3. x.lines = added(d.lines, new)
    BY <2>1 DEF TablesOK
  <2> QED
    BY <2>2, <2>3 DEF added
<1>5. ASSUME NEW l, NEW row, x \in update_line(d, l, row) PROVE DOMAIN x.lines = DOMAIN d.lines
  <2>1. x = [d EXCEPT !.lines[l] = row,
                      !.checks = @ \cup {row.entry},
                      !.moved = @ \cup ({d.lines[l].entry} \ {row.entry})]
    BY <1>5 DEF update_line
  <2>2. x.lines = [d.lines EXCEPT ![l] = row]
    BY <2>1 DEF TablesOK
  <2> QED
    BY <2>2
<1>6. ASSUME NEW l, x \in delete_line(d, l) PROVE DOMAIN x.lines \subseteq DOMAIN d.lines
  <2>1. x = [d EXCEPT !.lines = Restrict(@, DOMAIN @ \ {l}),
                      !.checks = @ \cup {d.lines[l].entry}]
    BY <1>6 DEF delete_line
  <2>2. x.lines = Restrict(d.lines, DOMAIN d.lines \ {l})
    BY <2>1 DEF TablesOK
  <2> QED
    BY <2>2 DEF Restrict
<1>7. \/ \E e, to : x \in set_status(d, e, to)
      \/ \E e : x \in delete_entry(d, e)
      \/ \E e, side, a : x \in insert_line(d, e, side, a)
      \/ \E l, row : x \in update_line(d, l, row)
      \/ \E l : x \in delete_line(d, l)
  BY AnyStatement
<1> QED
  BY <1>1, <1>2, <1>3, <1>4, <1>5, <1>6, <1>7

\* What every step keeps of the number of rows.
FinitelyMany == IsFiniteSet(DOMAIN open) /\ IsFiniteSet(DOMAIN lines)

\* No step of the journal writes infinitely many rows.
LEMMA FinitelyManyStep ==
  ASSUME LedgerOK, FinitelyMany, LedgerNext
  PROVE  FinitelyMany'
<1>1. CASE Midnight
  BY <1>1 DEF Midnight, FinitelyMany
<1>2. ASSUME NEW e \in Entries, post_entry(e) PROVE FinitelyMany'
  <2>1. DOMAIN open' = DOMAIN open \cup {e} /\ UNCHANGED lines
    BY <1>2 DEF post_entry, added
  <2> QED
    BY <2>1, FS_AddElement DEF FinitelyMany
<1>3. CASE RollBack
  <2>1. DOMAIN open' = {} /\ UNCHANGED lines
    BY <1>3 DEF RollBack
  <2> QED
    BY <2>1, FS_EmptySet DEF FinitelyMany
<1>4. CASE CommitBatch
  <2> DEFINE new == (DOMAIN open) \X Sides \X {"posted"}
             S == (DOMAIN open) \X Sides
             id == [p \in S |-> <<p[1], p[2], "posted">>]
  <2>1. DOMAIN lines' = DOMAIN lines \cup new
    BY <1>4, CommitAdds
  <2>2. DOMAIN open' = {}
    BY <1>4 DEF CommitBatch
  <2>3. IsFiniteSet(S)
    <3>1. IsFiniteSet({"debit"} \cup {"credit"}) /\ Sides = {"debit"} \cup {"credit"}
      BY FS_Singleton, FS_AddElement DEF Sides
    <3> QED
      BY <3>1, FS_Product DEF FinitelyMany
  <2>4. id \in [S -> new] /\ \A l \in new : <<l[1], l[2]>> \in S /\ id[<<l[1], l[2]>>] = l
    OBVIOUS
  <2> HIDE DEF S, new, id
  <2>5. id \in Surjection(S, new)
    BY <2>4 DEF Surjection
  <2>6. IsFiniteSet(new)
    BY <2>3, <2>5, FS_Surjection
  <2>7. IsFiniteSet(DOMAIN lines \cup new)
    BY <2>6, FS_Union DEF FinitelyMany
  <2> QED
    BY <2>1, <2>2, <2>7, FS_EmptySet DEF FinitelyMany
<1>5. CASE Edit
  <2> DEFINE begun == [entries |-> entries, lines |-> lines, checks |-> {},
                       moved |-> moved, reversed |-> reversed]
  <2>1. PICK x \in statement(begun) : \E d \in statement(x) : lines' = d.lines
    BY <1>5 DEF Edit
  <2>2. /\ begun.entries = entries /\ begun.lines = lines
        /\ begun \in [entries : {begun.entries}, lines : {begun.lines},
                      checks : {begun.checks}, moved : {begun.moved},
                      reversed : {begun.reversed}]
    OBVIOUS
  <2>3. TablesOK(begun)
    BY <2>2 DEF TablesOK, LedgerOK
  <2> HIDE DEF begun
  <2>4. TablesOK(x) /\ IsFiniteSet(DOMAIN x.lines)
    BY <2>1, <2>2, <2>3, Statement, StatementRows DEF FinitelyMany
  <2>5. IsFiniteSet(DOMAIN lines')
    BY <2>1, <2>4, StatementRows
  <2> QED
    BY <1>5, <2>5 DEF FinitelyMany, Edit
<1> QED
  BY <1>1, <1>2, <1>3, <1>4, <1>5 DEF LedgerNext

\* Every reachable state has finitely many rows.
LEMMA FinitelyManyInductive == Spec => []FinitelyMany
<1>1. Init => FinitelyMany
  BY FS_EmptySet DEF Init, LedgerInit, FinitelyMany
<1>2. BooksInv /\ FinitelyMany /\ [Next]_vars => FinitelyMany'
  BY FinitelyManyStep DEF BooksInv, Next, vars, ledger, FinitelyMany
<1> QED
  BY <1>1, <1>2, BooksInductive, PTL DEF Spec

-----------------------------------------------------------------------------
(* The theorems *)

\* Every row and every session keeps values of its columns' types, and every line has
\* its entry, whatever a client deletes.
THEOREM BooksTypeCorrect == Spec => []TypeOK
<1>1. BooksInv => TypeOK
  BY DEF BooksInv, LedgerOK, ExportersOK, TypeOK
<1> QED
  BY <1>1, BooksInductive, PTL

\* Every committed entry balances but one that a line was moved out of, for any number
\* of edits, in any order of their two statements.
THEOREM EntriesStayBalanced == Spec => []EntriesBalance
<1>1. BooksInv => EntriesBalance
  BY DEF BooksInv, LedgerOK
<1> QED
  BY <1>1, BooksInductive, PTL

\* A posted entry keeps its day and its lines, but one that was set to 'reversed' or
\* that a line was moved out of, whatever a client does.
THEOREM PostedEntriesStay == Spec => PostedStays
<1>1. ASSUME BooksInv, [Next]_vars
      PROVE  [\A e \in DOMAIN entries :
                entries[e].status = "posted" /\ e \notin moved' \cup reversed' =>
                  /\ e \in DOMAIN entries' /\ entries'[e] = entries[e]
                  /\ \A l \in lines_of(tables, e) :
                       l \in DOMAIN lines' /\ lines'[l] = lines[l]]_ledger
  <2> SUFFICES ASSUME ~ UNCHANGED ledger
               PROVE  \A e \in DOMAIN entries :
                        entries[e].status = "posted" /\ e \notin moved' \cup reversed' =>
                          /\ e \in DOMAIN entries' /\ entries'[e] = entries[e]
                          /\ \A l \in lines_of(tables, e) :
                               l \in DOMAIN lines' /\ lines'[l] = lines[l]
    OBVIOUS
  <2>1. LedgerOK
    BY <1>1 DEF BooksInv
  <2>2. LedgerNext
    BY <1>1 DEF Next, vars
  <2>3. \A e : lines_of(tables, e) \subseteq DOMAIN lines
    BY DEF tables, lines_of
  <2>4. CASE Edit
    BY <2>1, <2>4, EditStep
  <2>5. CASE CommitBatch
    <3>1. /\ \A e \in DOMAIN entries : e \in DOMAIN entries' /\ entries'[e] = entries[e]
          /\ \A l \in DOMAIN lines : l \in DOMAIN lines' /\ lines'[l] = lines[l]
      BY <2>1, <2>5, CommitAdds
    <3> QED
      BY <2>3, <3>1
  <2>6. CASE UNCHANGED <<entries, lines>>
    BY <2>3, <2>6
  <2> QED
    BY <2>2, <2>4, <2>5, <2>6 DEF LedgerNext, Midnight, post_entry, RollBack
<1> QED
  BY <1>1, BooksInductive, PTL DEF Spec, PostedStays

\* What a run exported of a period that was over, with no posting open, stays what the
\* journal has of that period, whatever is posted later.
THEOREM ClosedExportsStayTrue == Spec => []ExportsAgreeWithLedger
<1>1. BooksInv => ExportsAgreeWithLedger
  <2> SUFFICES ASSUME BooksInv, NEW r \in export_runs, r.closed, edits = 0, NEW side \in Sides
               PROVE  LET in(day) == {l \in DOMAIN lines :
                                        /\ lines[l].side = side
                                        /\ entries[lines[l].entry].day = day}
                          days == r.period[1]..r.period[2]
                      IN  /\ {k[1] : k \in {x \in DOMAIN r.checksum : x[2] = side}} =
                               {day \in days : in(day) # {}}
                          /\ \A day \in days : in(day) # {} =>
                               r.checksum[<<day, side>>].amount =
                                 Total([l \in in(day) |-> lines[l].amount], in(day))
    BY DEF ExportsAgreeWithLedger
  <2> DEFINE p == r.period
             in(day) == {l \in DOMAIN lines : /\ lines[l].side = side
                                              /\ entries[lines[l].entry].day = day}
             rows == rows_in(entries, lines, p)
             K == {key_of(entries, lines, l) : l \in rows}
  <2>1. p[1] \in Nat /\ p[2] \in Nat
    BY ExportAssumption DEF BooksInv, ExportersOK
  <2>2. r.checksum = grouped(entries, lines, p)
    BY GroupsAreGrouped DEF BooksInv, ExportsKept
  <2>3. DOMAIN r.checksum = K /\ \A k \in K : r.checksum[k] = group(entries, lines, p, k)
    <3> HIDE DEF K
    <3>1. r.checksum = [k \in K |-> group(entries, lines, p, k)]
      BY <2>2, Zenon DEF grouped, K
    <3> QED
      BY <3>1
  <2>4. \A l \in DOMAIN lines : entries[lines[l].entry].day \in Nat
    BY DEF BooksInv, LedgerOK
  <2>5. \A l \in rows : l \in DOMAIN lines /\ entries[lines[l].entry].day \in p[1]..p[2]
    BY <2>1, <2>4 DEF rows_in, in_period
  <2>6. ASSUME NEW day \in p[1]..p[2] PROVE rows_of(entries, lines, p, <<day, side>>) = in(day)
    BY <2>1, <2>6 DEF rows_of, rows_in, key_of, in_period
  <2>7. ASSUME NEW k \in K, k[2] = side PROVE k[1] \in p[1]..p[2] /\ in(k[1]) # {}
    <3>1. PICK l \in rows : k = key_of(entries, lines, l)
      OBVIOUS
    <3>2. k[1] = entries[lines[l].entry].day /\ k[2] = lines[l].side
      BY <3>1 DEF key_of
    <3> QED
      BY <2>5, <2>7, <3>2
  <2>8. ASSUME NEW day \in p[1]..p[2], in(day) # {}
        PROVE  <<day, side>> \in K
    <3>1. PICK l \in in(day) : TRUE
      BY <2>8
    <3>2. l \in rows /\ key_of(entries, lines, l) = <<day, side>>
      BY <2>1 DEF rows_in, key_of, in_period
    <3> QED
      BY <3>2
  <2> HIDE DEF K
  <2>9. {k[1] : k \in {x \in DOMAIN r.checksum : x[2] = side}} =
          {day \in p[1]..p[2] : in(day) # {}}
    <3>1. \A day \in p[1]..p[2] : <<day, side>>[1] = day /\ <<day, side>>[2] = side
      OBVIOUS
    <3> HIDE DEF in, p
    <3> QED
      BY <2>3, <2>7, <2>8, <3>1
  <2>10. ASSUME NEW day \in p[1]..p[2], in(day) # {}
         PROVE  r.checksum[<<day, side>>].amount =
                  Total([l \in in(day) |-> lines[l].amount], in(day))
    <3> DEFINE mine == in(day)
               k == <<day, side>>
    <3>1. rows_of(entries, lines, p, k) = mine
      BY <2>6
    <3>2. r.checksum[k] = group(entries, lines, p, k)
      BY <2>3, <2>8, <2>10
    <3> HIDE DEF mine, k
    <3>3. group(entries, lines, p, k) = [amount |-> Total([l \in mine |-> lines[l].amount], mine),
                                         entry_count |-> Cardinality(mine)]
      BY <3>1, Zenon DEF group
    <3>4. r.checksum[k].amount = Total([l \in mine |-> lines[l].amount], mine)
      BY <3>2, <3>3
    <3> QED
      BY <3>4 DEF mine, k
  <2> QED
    BY <2>9, <2>10
<1> QED
  BY <1>1, BooksInductive, PTL

\* A file no export is working on is one that a run of its period recorded, or a part of
\* one, unless a crash came between them; it is whole and the latest run's if exports did
\* not overlap and the last one of the period did not fail, whatever failed before.
THEOREM FilesKeepTheirRun == Spec => []FilesHaveTheirRun
<1>1. BooksInv => FilesHaveTheirRun
  <2> SUFFICES ASSUME BooksInv, NEW p \in Periods, ~ crashed, at_rest(p)
               PROVE  LET mine == {r \in export_runs : r.period = p}
                      IN  /\ files[p] \in {None, Partial} \cup {Whole(r.checksum) : r \in mine}
                          /\ ~ overlapped /\ p \notin failed =>
                               /\ files[p] # Partial
                               /\ \A r \in mine : (\A q \in mine : q.id <= r.id) =>
                                    files[p] = Whole(r.checksum)
    BY DEF FilesHaveTheirRun
  <2>1. \A x \in Exporters : ~ holding(x, p)
    BY DEF at_rest, holding
  <2>2. files[p] \notin {None, Partial} =>
          \E r \in export_runs : r.period = p /\ files[p] = Whole(r.checksum)
    BY <2>1 DEF BooksInv, FilesKept
  <2>3. ~ overlapped /\ p \notin failed => settled(p)
    BY <2>1 DEF BooksInv, FilesKept
  <2> QED
    BY <2>2, <2>3 DEF settled, latest
<1> QED
  BY <1>1, BooksInductive, PTL

\* The breaks of a reconciliation explain the whole difference between Stripe and cash,
\* one for each charge at most: for any charges, any amounts, any journal that postings
\* and edits can come to, and any choice among rows, unless a dictionary lost one.
THEOREM BreaksExplain == Spec => []ReconExplainsDifference
<1>1. BooksInv /\ FinitelyMany => ReconExplainsDifference
  <2> SUFFICES ASSUME BooksInv, FinitelyMany, NEW txs \in SUBSET Stripe,
                      NEW external \in external_by_ref(txs), NEW cash \in ledger_by_ref
               PROVE  LET bs == breaks(external, cash)
                          value(amount) == IF amount = None THEN 0 ELSE amount
                      IN  /\ \A b, c \in bs : b.external_ref = c.external_ref => b = c
                          /\ Cardinality(DOMAIN external) = Cardinality(txs)
                             /\ Cardinality(DOMAIN cash) = Cardinality(cash_debits)
                             => Total([t \in txs |-> t.amount], txs)
                                  + Total([b \in bs |-> value(b.ledger_amount)], bs)
                                = Total([l \in cash_debits |-> lines[l].amount], cash_debits)
                                  + Total([b \in bs |-> value(b.external_amount)], bs)
    BY DEF ReconExplainsDifference
  <2>1. ASSUME NEW b \in breaks(external, cash), NEW c \in breaks(external, cash),
               b.external_ref = c.external_ref
        PROVE  b = c
    <3>1. /\ breaks(external, cash) =
               {break_of(external, cash, x) : x \in broken(external, cash)}
          /\ \A x \in broken(external, cash) : break_of(external, cash, x).external_ref = x
      BY BreaksOfCharges
    <3>2. PICK y \in broken(external, cash) : b = break_of(external, cash, y)
      BY <3>1
    <3>3. PICK z \in broken(external, cash) : c = break_of(external, cash, z)
      BY <3>1
    <3> QED
      BY <2>1, <3>1, <3>2, <3>3
  <2>2. IsFiniteSet(DOMAIN lines) /\ \A l \in DOMAIN lines : lines[l].amount \in Nat
    BY DEF BooksInv, LedgerOK, FinitelyMany
  <2> QED
    BY <2>1, <2>2, ReconExplains
<1> QED
  BY <1>1, BooksInductive, FinitelyManyInductive, PTL

=============================================================================
