-------------------------------- MODULE Inbox --------------------------------
(***************************************************************************)
(* The ingest edge: the Stripe and Zuora webhook routes, insertSourceEvent *)
(* of src/db.ts and the hash chain it builds in inbox.source_events, with  *)
(* finledger/verify_chain.py reading that chain.                           *)
(*                                                                         *)
(* Requests run concurrently, each in its own READ COMMITTED transaction   *)
(* and without a lock.  A webhook is delivered at least once: its sender   *)
(* repeats it while it has no answer, and sometimes after.  seed_demo.py,  *)
(* which each start of the application runs, stores two sample events in   *)
(* one transaction, the way the edge stores its own.                       *)
(***************************************************************************)
EXTENDS Integers, Sequences, FiniteSets

CONSTANTS
  Webhooks,    \* what the sources have to say
  Content,     \* Content[w]: what the routes read of webhook w
  Requests,    \* requests the edge can serve at a time
  Seed,        \* the two sample events of seed_demo.py, or <<>> if it is not run
  MaxSends,    \* MaxSends[w]: bound on the deliveries of webhook w
  MaxMillis,   \* bound on Date.now()
  MaxCrashes,  \* bound on the crashes a behaviour has
  None         \* no invoice in the payload

Contents == [source : {"stripe", "zuora"},
             id : STRING \cup {None},  \* event.id, invoice.id
             type : STRING,
             portable : BOOLEAN]       \* json.dumps and canonicalJson agree on it

ASSUME InboxAssumption ==
  /\ Content \in [Webhooks -> Contents]
  /\ \A w \in Webhooks : Content[w].source = "stripe" => Content[w].id # None
  /\ Seed # <<>> => Seed \in Webhooks \X Webhooks /\ Seed[1] # Seed[2]
  /\ \A i \in DOMAIN Seed : Content[Seed[i]].id # None
  /\ MaxSends \in [Webhooks -> Nat]
  /\ {MaxMillis, MaxCrashes} \subseteq Nat

VARIABLES
  source_events,  \* the committed rows
  request,        \* what each request holds
  sends,          \* deliveries of each webhook so far
  acknowledged,   \* webhooks whose sender has a 200
  now,            \* transactions begun: the database's now()
  millis,         \* Date.now()
  crashes,        \* crashes so far
  overlapped      \* history: two transactions were open at a time

vars == <<source_events, request, sends, acknowledged, now, millis, crashes, overlapped>>

-----------------------------------------------------------------------------
(* Keys and hashes *)

\* source and externalId, the unique key of a row.
external_id_Method(w, ms) ==  \* mutant: the fallback for every Zuora event
  IF Content[w].source = "zuora"
  THEN <<Content[w].source, Content[w].type, ms>>
  ELSE <<Content[w].source, Content[w].id>>
external_id(w, ms) ==
  IF Content[w].id = None
  THEN <<Content[w].source, Content[w].type, ms>>
  ELSE <<Content[w].source, Content[w].id>>

\* A hash without collisions is the history that went into it.
GENESIS_HASH == <<>>
computeRowHash(prev, key, bytes) == Append(prev, <<key, bytes>>)

\* The bytes hashed for a payload, by the edge and by the Python side.
canonicalJson(w) == <<w, IF Content[w].portable THEN "json" ELSE "JSON.stringify">>
canonical_bytes(w) == <<w, IF Content[w].portable THEN "json" ELSE "json.dumps">>

\* ORDER BY received_at, id: rows of one transaction have one received_at.
before(p, q) ==
  p.received_at < q.received_at \/ (p.received_at = q.received_at /\ p.id < q.id)
latest(rows) == CHOOSE r \in rows : \A q \in rows : ~ before(r, q)
tip_Earliest(rows) ==  \* mutant: ORDER BY received_at ASC
  IF rows = {} THEN GENESIS_HASH
  ELSE (CHOOSE r \in rows : \A q \in rows : ~ before(q, r)).row_hash
tip(rows) == IF rows = {} THEN GENESIS_HASH ELSE latest(rows).row_hash

Idle == [pc |-> "idle", client |-> "edge", webhook |-> None, key |-> None,
         received_at |-> 0, prev |-> GENESIS_HASH, rows |-> {}]
open(r) == request[r].pc \in {"read", "insert", "commit"}

\* After its transaction: a route answers, the seed is over.
finished(q) ==
  IF q.client = "seed" THEN Idle ELSE [Idle EXCEPT !.pc = "reply", !.webhook = q.webhook]

\* A row with the key is committed.
taken(key) == \E row \in source_events : row.key = key

\* The rows a request's SELECT sees: what is committed and its own.
seen(r) == source_events \cup request[r].rows

-----------------------------------------------------------------------------
Init ==
  /\ source_events = {}
  /\ request = [r \in Requests |-> Idle]
  /\ sends = [w \in Webhooks |-> 0]
  /\ acknowledged = {}
  /\ now = 0
  /\ millis = 0
  /\ crashes = 0
  /\ overlapped = FALSE

\* The clock matters as long as it may name a webhook.
Tick ==
  /\ millis < MaxMillis
  /\ \E w \in Webhooks : Content[w].id = None /\ sends[w] < MaxSends[w]
  /\ millis' = millis + 1
  /\ UNCHANGED <<source_events, request, sends, acknowledged, now, crashes, overlapped>>

\* A delivery reaches its route, which names the event; then BEGIN.
Receive_AppClock(r, w) ==  \* mutant: received_at from a clock of the edge
  /\ request[r].pc = "idle"
  /\ sends[w] < MaxSends[w]
  /\ sends' = [sends EXCEPT ![w] = @ + 1]
  /\ now' = now + 1
  /\ request' = [request EXCEPT ![r] =
       [Idle EXCEPT !.pc = "read", !.webhook = w, !.key = external_id(w, millis),
                    !.received_at = now]]
  /\ overlapped' = (overlapped \/ \E q \in Requests : open(q))
  /\ UNCHANGED <<source_events, acknowledged, millis, crashes>>
Receive(r, w) ==
  /\ request[r].pc = "idle"
  /\ sends[w] < MaxSends[w]
  /\ sends' = [sends EXCEPT ![w] = @ + 1]
  /\ now' = now + 1
  /\ request' = [request EXCEPT ![r] =
       [Idle EXCEPT !.pc = "read", !.webhook = w, !.key = external_id(w, millis),
                    !.received_at = now']]
  /\ overlapped' = (overlapped \/ \E q \in Requests : open(q))
  /\ UNCHANGED <<source_events, acknowledged, millis, crashes>>

\* seed_demo.py:146-157: BEGIN, and no row of either event.
SeedDemo(r) ==
  /\ Seed # <<>>
  /\ request[r].pc = "idle"
  /\ \A q \in Requests : request[q].client = "edge"
  /\ \A i \in 1..2 : ~ taken(external_id(Seed[i], millis))
  /\ now' = now + 1
  /\ request' = [request EXCEPT ![r] =
       [Idle EXCEPT !.pc = "read", !.client = "seed", !.webhook = Seed[1],
                    !.key = external_id(Seed[1], millis), !.received_at = now']]
  /\ overlapped' = (overlapped \/ \E q \in Requests : open(q))
  /\ UNCHANGED <<source_events, sends, acknowledged, millis, crashes>>

\* db.ts:17-20.
ReadTip_InMemory(r) ==  \* mutant: the edge keeps the last hash it inserted, in memory
  /\ request[r].pc = "read"
  /\ LET mine == UNION {request[q].rows : q \in {x \in Requests : request[x].client = "edge"}}
     IN  request' = [request EXCEPT ![r] =
           [@ EXCEPT !.pc = "insert",
                     !.prev = tip(seen(r) \cup IF request[r].client = "edge" THEN mine ELSE {})]]
  /\ UNCHANGED <<source_events, sends, acknowledged, now, millis, crashes, overlapped>>
ReadTip(r) ==
  /\ request[r].pc = "read"
  /\ request' = [request EXCEPT ![r] = [@ EXCEPT !.pc = "insert", !.prev = tip(seen(r))]]
  /\ UNCHANGED <<source_events, sends, acknowledged, now, millis, crashes, overlapped>>

\* An uncommitted row with the key makes the insert wait.
held(r) ==
  \E q \in Requests \ {r} : \E row \in request[q].rows : row.key = request[r].key

\* The key is committed, or in a row of the request's own.
duplicate(r) == \E row \in seen(r) : row.key = request[r].key

\* db.ts:21-37.  A row's id is random; it tells apart the rows of one transaction.
next_row(q, id) ==
  LET bytes == IF q.client = "seed" THEN canonical_bytes(q.webhook) ELSE canonicalJson(q.webhook)
  IN  [key |-> q.key, webhook |-> q.webhook, received_at |-> q.received_at, id |-> id,
       prev_hash |-> q.prev, row_hash |-> computeRowHash(q.prev, q.key, bytes)]

\* The seed goes on with its second event.
after_insert(q, row) ==
  IF q.client = "seed" /\ q.rows = {}
  THEN [q EXCEPT !.pc = "read", !.rows = {row}, !.webhook = Seed[2],
                 !.key = external_id(Seed[2], millis)]
  ELSE [q EXCEPT !.pc = "commit", !.rows = @ \cup {row}]
Insert(r) ==
  /\ request[r].pc = "insert"
  /\ ~ held(r)
  /\ ~ duplicate(r)
  /\ \E id \in (IF request[r].rows = {} THEN {1} ELSE {0, 2}) :
       request' = [request EXCEPT ![r] = after_insert(@, next_row(@, id))]
  /\ UNCHANGED <<source_events, sends, acknowledged, now, millis, crashes, overlapped>>

\* db.ts:40-42: error 23505.  It ends the seed.
Duplicate_Throws(r) ==  \* mutant: 23505 is an error like any other
  /\ request[r].pc = "insert"
  /\ ~ held(r)
  /\ duplicate(r)
  /\ request' = [request EXCEPT ![r] = Idle]
  /\ UNCHANGED <<source_events, sends, acknowledged, now, millis, crashes, overlapped>>
Duplicate(r) ==
  /\ request[r].pc = "insert"
  /\ ~ held(r)
  /\ duplicate(r)
  /\ request' = [request EXCEPT ![r] = finished(@)]
  /\ UNCHANGED <<source_events, sends, acknowledged, now, millis, crashes, overlapped>>

Commit(r) ==
  /\ request[r].pc = "commit"
  /\ source_events' = source_events \cup request[r].rows
  /\ request' = [request EXCEPT ![r] = finished(@)]
  /\ UNCHANGED <<sends, acknowledged, now, millis, crashes, overlapped>>

\* The answer, which says the same for "inserted" and "duplicate".
Reply(r) ==
  /\ request[r].pc = "reply"
  /\ acknowledged' = acknowledged \cup {request[r].webhook}
  /\ request' = [request EXCEPT ![r] = Idle]
  /\ UNCHANGED <<source_events, sends, now, millis, crashes, overlapped>>

\* The process or a connection is lost, or another error ends the request.
Crash(r) ==
  /\ request[r].pc # "idle"
  /\ crashes < MaxCrashes
  /\ crashes' = crashes + 1
  /\ request' = [request EXCEPT ![r] = Idle]
  /\ UNCHANGED <<source_events, sends, acknowledged, now, millis, overlapped>>

Step(r) == ReadTip(r) \/ Insert(r) \/ Duplicate(r) \/ Commit(r) \/ Reply(r)

\* Every delivery was made and answered: the sources have nothing more to say.
Quiet ==
  /\ \A w \in Webhooks : sends[w] = MaxSends[w]
  /\ \A r \in Requests : request[r].pc = "idle"
  /\ UNCHANGED vars

Next ==
  \/ Tick
  \/ \E r \in Requests, w \in Webhooks : Receive(r, w)
  \/ \E r \in Requests : SeedDemo(r)
  \/ \E r \in Requests : Step(r)
  \/ \E r \in Requests : Crash(r)
  \/ Quiet

Spec == Init /\ [][Next]_vars

\* Requests in progress proceed, and a sender repeats what was not acknowledged.
FairSpec ==
  /\ Spec
  /\ \A r \in Requests : WF_vars(Step(r))
  /\ \A w \in Webhooks :
       WF_vars(w \notin acknowledged /\ \E r \in Requests : Receive(r, w))

-----------------------------------------------------------------------------
(* Properties *)

Keys == {external_id(w, ms) : w \in Webhooks, ms \in 0..MaxMillis}
Encodings == {"json", "json.dumps", "JSON.stringify"}
Hashes == Seq(Keys \X (Webhooks \X Encodings))
Rows == [key : Keys, webhook : Webhooks, received_at : Nat, id : 0..2,
         prev_hash : Hashes, row_hash : Hashes]
Served == [pc : {"idle", "read", "insert", "commit", "reply"}, client : {"edge", "seed"},
           webhook : Webhooks \cup {None}, key : Keys \cup {None}, received_at : Nat,
           prev : Hashes, rows : SUBSET Rows]

\* Rows have values of their columns' types, those not yet committed too, and the
\* time of a transaction that began.
TypeOK ==
  /\ source_events \subseteq Rows
  /\ \A r \in Requests :
       /\ request[r] \in Served
       /\ request[r].pc # "idle" => request[r].webhook \in Webhooks
       /\ open(r) => request[r].key \in Keys /\ request[r].received_at \in 1..now
  /\ \A row \in source_events : row.received_at \in 1..now
  /\ \A w \in Webhooks : sends[w] \in 0..MaxSends[w]
  /\ acknowledged \subseteq Webhooks
  /\ millis \in 0..MaxMillis
  /\ crashes \in 0..MaxCrashes

rows_of(w) == {row \in source_events : row.webhook = w}
identified(w) ==
  /\ Content[w].id # None
  /\ \A v \in Webhooks \ {w} : external_id(v, 0) # external_id(w, 0)

\* However often a webhook with an id of its own is delivered, and wherever its
\* requests crash, the inbox has at most one row of it.  Whatever was acknowledged is
\* there; a webhook without an id may be there by another's row, of its millisecond.
StoredOnce ==
  \A w \in Webhooks :
    /\ identified(w) => Cardinality(rows_of(w)) <= 1
    /\ w \in acknowledged =>
         \/ rows_of(w) # {}
         \/ ~ identified(w) /\ \E ms \in 0..millis : taken(external_id(w, ms))

\* The chain hangs together: the hash a row continues is the genesis hash or
\* that of a row that is there too, even if requests crash in between.
HashesReachGenesis ==
  \A row \in source_events :
    row.prev_hash = GENESIS_HASH \/ \E p \in source_events : p.row_hash = row.prev_hash

\* verify_chain's two comparisons, for each row in the order of received_at and id.
expected_prev(row) ==
  LET earlier == {q \in source_events : before(q, row)}
  IN  IF earlier = {} THEN GENESIS_HASH ELSE latest(earlier).row_hash
ChainVerifies ==
  \A row \in source_events :
    /\ row.prev_hash = expected_prev(row)
    /\ row.row_hash = computeRowHash(expected_prev(row), row.key, canonical_bytes(row.webhook))

\* An untouched inbox verifies if no two transactions were open at a time, both
\* sides agree on the bytes of its payloads, and the seed's second row happens to
\* have the greater id, retries and crashes or not.
ChainVerifiesAlone ==
  /\ ~ overlapped
  /\ \A row \in source_events : Content[row.webhook].portable
  /\ \A p, q \in source_events :
       p.received_at = q.received_at /\ q.prev_hash = p.row_hash => before(p, q)
  => ChainVerifies

\* Every webhook that is sent more often than requests crash is answered in the end.
EveryWebhookIsAcknowledged ==
  \A w \in Webhooks : MaxSends[w] > MaxCrashes => <>(w \in acknowledged)

\* README.md:40: ingestion is safe under at-least-once delivery: a webhook that
\* is delivered again makes no second row.
DeliveredOnce == \A w \in Webhooks : Cardinality(rows_of(w)) <= 1
=============================================================================
