-------------------------------- MODULE Ledger --------------------------------
(***************************************************************************)
(* ledger.journal_entries and ledger.journal_lines: the entries post_entry *)
(* writes and a session commits later, and what the constraints and        *)
(* triggers of migrations 0004 to 0006 let a SQL client do to them.  Every *)
(* entry is a charge: cash debited, the receivable credited.               *)
(*                                                                         *)
(* Only the client changes committed rows, so its transaction, a few       *)
(* statements and the triggers deferred to its COMMIT, is one step.        *)
(***************************************************************************)
EXTENDS Sums, Functions

CONSTANTS
  Entries,     \* ids of the entries that may be posted
  Post,        \* Post[e]: amount, charge reference and status post_entry is given
  LastDay,     \* bound on the calendar
  Edited,      \* entries the client works on
  Amounts,     \* amounts the client writes
  MaxEdits,    \* bound on the client's transactions
  None         \* NULL

Sides == {"debit", "credit"}  \* of 1000-CASH and of 1200-AR
Statuses == {"draft", "pending_approval", "posted", "reversed"}

Refs == {Post[e].ref : e \in Entries} \cup {None}  \* a line's external_ref

ASSUME LedgerAssumption ==
  /\ \A e \in Entries : Post[e].amount \in Nat \ {0} /\ Post[e].status \in Statuses
  /\ Edited \subseteq Entries /\ Amounts \subseteq Nat \ {0}
  /\ LastDay \in Nat /\ MaxEdits \in Nat
  /\ None \notin Statuses \cup Nat

VARIABLES
  entries,  \* committed journal_entries
  lines,    \* committed journal_lines
  open,     \* open[e]: posted_at of an entry of the posting session's transaction
  today,
  edits,    \* transactions of the client so far
  moved,    \* history: entries a line was moved out of
  reversed  \* history: entries that were set to 'reversed'

ledger == <<entries, lines, open, today, edits, moved, reversed>>

\* The rows of a table and those that are new in it.
added(rows, new) ==
  [x \in DOMAIN rows \cup DOMAIN new |-> IF x \in DOMAIN new THEN new[x] ELSE rows[x]]

LedgerInit ==
  /\ entries = <<>>
  /\ lines = <<>>
  /\ open = <<>>
  /\ today = 1
  /\ edits = 0
  /\ moved = {}
  /\ reversed = {}

Midnight ==
  /\ today < LastDay
  /\ today' = today + 1
  /\ UNCHANGED <<entries, lines, open, edits, moved, reversed>>

-----------------------------------------------------------------------------
(* The posting session *)

\* posted_at is the time of the call, whenever the caller commits.  An entry's id is
\* new: there is neither an entry nor a line made with it.
post_entry(e) ==
  /\ e \notin DOMAIN entries \cup DOMAIN open
  /\ \A l \in DOMAIN lines : l[1] # e
  /\ open' = added(open, [x \in {e} |-> today])
  /\ UNCHANGED <<entries, lines, today, edits, moved, reversed>>

CommitBatch ==
  /\ open # <<>>
  /\ entries' = added(entries, [e \in DOMAIN open |->
                                  [status |-> Post[e].status, day |-> open[e]]])
  /\ lines' = added(lines, [l \in (DOMAIN open) \X Sides \X {"posted"} |->
                              [entry |-> l[1], side |-> l[2], amount |-> Post[l[1]].amount,
                               ref |-> IF l[2] = "debit" THEN Post[l[1]].ref ELSE None]])
  /\ open' = <<>>
  /\ UNCHANGED <<today, edits, moved, reversed>>

RollBack ==
  /\ open # <<>>
  /\ open' = <<>>
  /\ UNCHANGED <<entries, lines, today, edits, moved, reversed>>

-----------------------------------------------------------------------------
(* The client: the tables a statement on tables d can leave, none if refused *)

lines_of(d, e) == {l \in DOMAIN d.lines : d.lines[l].entry = e}
total(d, e, side) ==
  LET mine == {l \in lines_of(d, e) : d.lines[l].side = side}
  IN  Total([l \in mine |-> d.lines[l].amount], mine)

\* check_entry_balanced, for an entry that a statement wrote lines of.
check_entry_balanced_Zero(d, e) ==  \* mutant: any debit and any credit do
  total(d, e, "debit") > 0 /\ total(d, e, "credit") > 0
check_entry_balanced(d, e) ==
  total(d, e, "debit") = total(d, e, "credit") /\ total(d, e, "debit") # 0

\* forbid_mutation_if_posted, on an entry and on a line that will be entry e's.
entry_locked(d, e, to) == d.entries[e].status = "posted" /\ to # "reversed"
lines_locked_Never(d, e) == FALSE  \* mutant: no trigger on journal_lines
lines_locked(d, e) == d.entries[e].status = "posted"

set_status(d, e, to) ==
  IF entry_locked(d, e, to) THEN {}
  ELSE {[d EXCEPT !.entries[e].status = to,
                  !.reversed = IF to = "reversed" THEN @ \cup {e} ELSE @]}

delete_entry_NoCascade(d, e) ==  \* mutant: nothing joins a line to its entry
  IF entry_locked(d, e, None) THEN {} ELSE {[d EXCEPT !.entries = Restrict(@, DOMAIN @ \ {e})]}

\* ON DELETE CASCADE: the lines' own trigger no longer finds their entry.
delete_entry(d, e) ==
  IF entry_locked(d, e, None) THEN {}
  ELSE {[d EXCEPT !.entries = Restrict(@, DOMAIN @ \ {e}),
                  !.lines = Restrict(@, DOMAIN @ \ lines_of(d, e)),
                  !.checks = @ \cup {x \in {e} : lines_of(d, e) # {}}]}

\* No trigger guards an INSERT.
insert_line(d, e, side, amount) ==
  IF <<e, side, "inserted">> \in DOMAIN d.lines THEN {}
  ELSE {[d EXCEPT !.lines = added(@, [l \in {<<e, side, "inserted">>} |->
                               [entry |-> e, side |-> side, amount |-> amount, ref |-> None]]),
                  !.checks = @ \cup {e}]}

\* UPDATE of a line to row: the entry it had is not looked at, neither at once nor at
\* COMMIT.
update_line(d, l, row) ==
  IF lines_locked(d, row.entry) THEN {}
  ELSE {[d EXCEPT !.lines[l] = row,
                  !.checks = @ \cup {row.entry},
                  !.moved = @ \cup ({d.lines[l].entry} \ {row.entry})]}

\* What the client makes of a line: another entry's or amount, another side, or, as
\* only a debit's is ever read, another reference.
revised(line, mine) ==
  {row \in [entry : mine, side : Sides, amount : Amounts \cup {line.amount}, ref : Refs] :
     \/ row.side = line.side /\ row.ref = line.ref
     \/ [row EXCEPT !.side = line.side] = line
     \/ [row EXCEPT !.ref = line.ref] = line /\ line.side = "debit"}
revise_line(d, l, mine) ==
  UNION {update_line(d, l, row) : row \in revised(d.lines[l], mine)}

delete_line(d, l) ==
  IF lines_locked(d, d.lines[l].entry) THEN {}
  ELSE {[d EXCEPT !.lines = Restrict(@, DOMAIN @ \ {l}),
                  !.checks = @ \cup {d.lines[l].entry}]}

statement(d) ==
  LET mine  == Edited \cap DOMAIN d.entries
      known == UNION {lines_of(d, e) : e \in mine}
  IN  UNION ({set_status(d, e, to) : e \in mine, to \in Statuses} \cup
             {delete_entry(d, e) : e \in mine} \cup
             {insert_line(d, e, side, a) : e \in mine, side \in Sides, a \in Amounts} \cup
             {revise_line(d, l, mine) : l \in known} \cup
             {delete_line(d, l) : l \in known})

\* A transaction of two statements.
Edit ==
  /\ edits < MaxEdits
  /\ edits' = edits + 1
  /\ LET begun == [entries |-> entries, lines |-> lines, checks |-> {},
                   moved |-> moved, reversed |-> reversed]
     IN  \E d \in UNION {statement(x) : x \in statement(begun)} :
           /\ \A e \in d.checks : check_entry_balanced(d, e)
           /\ entries' = d.entries /\ lines' = d.lines
           /\ moved' = d.moved /\ reversed' = d.reversed
  /\ UNCHANGED <<open, today>>

LedgerNext ==
  \/ Midnight
  \/ \E e \in Entries : post_entry(e)
  \/ CommitBatch
  \/ RollBack
  \/ Edit
=============================================================================
