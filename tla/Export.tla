-------------------------------- MODULE Export --------------------------------
(***************************************************************************)
(* export/csv_exporter.py: exports of a period of the journal to a file    *)
(* named for the period, each recorded in gl.export_runs with the file's   *)
(* checksum.  An export waits for the database twice, for its query and    *)
(* for its INSERT, and its caller commits.  Nothing keeps two exports of   *)
(* a period apart, and a file is written in place, over the one before it. *)
(***************************************************************************)
EXTENDS Ledger

CONSTANTS
  Exporters,  \* sessions that may export at a time
  Periods,    \* pairs of a first and a last day
  MaxExports  \* bound on the exports a behaviour has

\* What a file has in it: all its rows, or not all that it should have.
Whole(g) == [rows |-> g, whole |-> TRUE]
Partial == [rows |-> <<>>, whole |-> FALSE]

ASSUME ExportAssumption ==
  Periods \subseteq Nat \X Nat /\ MaxExports \in Nat /\ None # Partial

VARIABLES
  export_runs,  \* committed rows
  files,        \* files[p]: the file of period p, None if there is none
  exporter,     \* how far each export is
  exports,      \* exports begun so far
  run_ids,      \* the sequence of gl.export_runs.id
  overlapped,   \* history: exports overlapped
  failed,       \* history: periods whose last export raised with a file to write
  crashed       \* history: an exporter's process or transaction was lost

exporting == <<export_runs, files, exporter, exports, run_ids, overlapped, failed, crashed>>

Resting == [pc |-> "idle"]

ExportInit ==
  /\ export_runs = {}
  /\ files = [p \in Periods |-> None]
  /\ exporter = [x \in Exporters |-> Resting]
  /\ exports = 0
  /\ run_ids = 0
  /\ overlapped = FALSE
  /\ failed = {}
  /\ crashed = FALSE

\* The file's columns, per day and account: debit or credit, and entry_count.
in_period_Open(day, p) == p[1] <= day /\ day < p[2]  \* mutant: without the last day
in_period(day, p) == p[1] <= day /\ day <= p[2]
groups(p) ==
  LET rows == {l \in DOMAIN lines : in_period(entries[lines[l].entry].day, p)}
      key(l) == <<entries[lines[l].entry].day, lines[l].side>>
  IN  [k \in {key(l) : l \in rows} |->
         LET mine == {l \in rows : key(l) = k}
         IN  [amount |-> Total([l \in mine |-> lines[l].amount], mine),
              entry_count |-> Cardinality(mine)]]
side_total(g, side) ==
  LET mine == {k \in DOMAIN g : k[2] = side}
  IN  Total([k \in mine |-> g[k].amount], mine)

file_path(p) == p

Begin(x) ==
  /\ exporter[x].pc = "idle"
  /\ exports < MaxExports
  /\ exports' = exports + 1
  /\ overlapped' = (overlapped \/ \E y \in Exporters : exporter[y].pc # "idle")
  /\ UNCHANGED <<export_runs, files, run_ids, failed, crashed>>

Fetch(x, p) ==
  /\ Begin(x)
  /\ side_total(groups(p), "debit") = side_total(groups(p), "credit")
  /\ exporter' = [exporter EXCEPT ![x] =
       [pc |-> "write", period |-> p, groups |-> groups(p),
        closed |-> p[2] < today /\ open = <<>>]]

\* ExportIntegrityError, before anything is written.
FetchRaises(x, p) ==
  /\ Begin(x)
  /\ side_total(groups(p), "debit") # side_total(groups(p), "credit")
  /\ UNCHANGED exporter

\* The file, and its checksum, without waiting between the two.
Write(x) ==
  /\ exporter[x].pc = "write"
  /\ files' = [files EXCEPT ![file_path(exporter[x].period)] = Whole(exporter[x].groups)]
  /\ exporter' = [exporter EXCEPT ![x].pc = "insert"]
  /\ UNCHANGED <<export_runs, exports, run_ids, overlapped, failed, crashed>>

\* The export raises with nothing inserted, and the file is what it left there.
Fails(x, left) ==
  /\ files' = [files EXCEPT ![file_path(exporter[x].period)] = left]
  /\ exporter' = [exporter EXCEPT ![x] = Resting]
  /\ failed' = failed \cup {exporter[x].period}
  /\ UNCHANGED <<export_runs, exports, run_ids, overlapped, crashed>>

\* The file does not open; or it opens, which empties it, and is not written to its
\* end: written is False, and the except branch lets it be; or it is written and
\* cannot be read again, and goes.
WriteFails(x) ==
  /\ exporter[x].pc = "write"
  /\ \E left \in {files[file_path(exporter[x].period)], Partial, None} : Fails(x, left)

Insert(x) ==
  /\ exporter[x].pc = "insert"
  /\ run_ids' = run_ids + 1
  /\ exporter' = [exporter EXCEPT ![x] =
       [pc |-> "commit", id |-> run_ids', period |-> @.period, groups |-> @.groups,
        closed |-> @.closed]]
  /\ UNCHANGED <<export_runs, files, exports, overlapped, failed, crashed>>

\* The except branch: whatever file there is at the path goes.
InsertFails_Keeps(x) ==  \* mutant: leaves the file
  exporter[x].pc = "insert" /\ Fails(x, files[file_path(exporter[x].period)])
InsertFails(x) ==
  exporter[x].pc = "insert" /\ Fails(x, None)

\* The caller's.
CommitRun(x) ==
  /\ exporter[x].pc = "commit"
  /\ LET run == exporter[x]
     IN  export_runs' = export_runs \cup {[id |-> run.id, period |-> run.period,
                                          checksum |-> run.groups, closed |-> run.closed]}
  /\ exporter' = [exporter EXCEPT ![x] = Resting]
  /\ failed' = failed \ {exporter[x].period}
  /\ UNCHANGED <<files, exports, run_ids, overlapped, crashed>>

\* The process dies, the task is cancelled (which is no Exception), the file cannot
\* be unlinked, or the caller's transaction does not commit, once.
Crash(x) ==
  /\ exporter[x].pc # "idle"
  /\ ~ crashed
  /\ crashed' = TRUE
  /\ exporter' = [exporter EXCEPT ![x] = Resting]
  /\ \/ UNCHANGED files
     \/ /\ exporter[x].pc = "write"
        /\ files' = [files EXCEPT ![file_path(exporter[x].period)] = Partial]
  /\ UNCHANGED <<export_runs, exports, run_ids, overlapped, failed>>

ExportNext ==
  \/ \E x \in Exporters, p \in Periods : Fetch(x, p) \/ FetchRaises(x, p)
  \/ \E x \in Exporters :
       \/ Write(x) \/ WriteFails(x)
       \/ Insert(x) \/ InsertFails(x)
       \/ CommitRun(x) \/ Crash(x)
=============================================================================
