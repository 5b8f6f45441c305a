----------------------------- MODULE InboxProofs -----------------------------
(***************************************************************************)
(* Theorems about the hash-chained inbox, for any webhooks, any number of  *)
(* requests and deliveries, with or without the demo seed, and any number  *)
(* of crashes.                                                             *)
(***************************************************************************)
EXTENDS Inbox, FiniteSetTheorems, SequenceTheorems, TLAPS

-----------------------------------------------------------------------------
(* The invariant *)

\* A row no other row of the set is after.
is_latest(r, rows) == r \in rows /\ \A q \in rows : ~ before(r, q)
HasLatest(rows) == rows = {} \/ \E r \in rows : is_latest(r, rows)

\* A request writes a row, the seed a second one; then it commits.
Written(q) ==
  /\ q.rows = {} \/ \E p \in q.rows : q.rows = {p} \/ \E s \in q.rows : q.rows = {p, s}
  /\ q.pc \in {"read", "insert"} =>
       q.rows = {} \/ (q.client = "seed" /\ \E p \in q.rows : q.rows = {p})
  /\ \A p \in q.rows : p.received_at = q.received_at
  /\ q.pc = "commit" => q.rows # {}
  /\ q.pc \in {"idle", "reply"} => q.rows = {}
  /\ q.client = "seed" => Seed # <<>>
  /\ q.pc = "commit" /\ q.client = "edge" => \E p \in q.rows : p.webhook = q.webhook

\* A key was made of its webhook.
named(key, w) == \E ms \in 0..millis : key = external_id(w, ms)
Named ==
  /\ \A row \in source_events : named(row.key, row.webhook)
  /\ \A r \in Requests :
       /\ open(r) => named(request[r].key, request[r].webhook)
       /\ \A row \in request[r].rows : named(row.key, row.webhook)

\* No key is there twice, committed or not.
KeysApart ==
  /\ \A r \in Requests : \A p, q \in seen(r) : p.key = q.key => p = q
  /\ \A r, s \in Requests : r # s =>
       \A p \in request[r].rows, q \in request[s].rows : p.key # q.key
  /\ \A p, q \in source_events : p.key = q.key => p = q

\* A webhook that is answered, or about to be, is there as StoredOnce says.
stored(w) ==
  rows_of(w) # {} \/ (~ identified(w) /\ \E ms \in 0..millis : taken(external_id(w, ms)))
Answered ==
  /\ \A w \in acknowledged : stored(w)
  /\ \A r \in Requests : request[r].pc = "reply" => stored(request[r].webhook)

\* The hash is the genesis hash or that of a row.
reached(h, rows) == h = GENESIS_HASH \/ \E p \in rows : p.row_hash = h
Reached ==
  /\ HashesReachGenesis
  /\ HasLatest(source_events)
  /\ \A r \in Requests :
       /\ HasLatest(request[r].rows)
       /\ \A row \in request[r].rows : reached(row.prev_hash, seen(r))
       /\ request[r].pc = "insert" => reached(request[r].prev, seen(r))

\* A row's hash is what verify_chain makes of the hash it continues.
hashed(row) ==
  Content[row.webhook].portable =>
    row.row_hash = computeRowHash(row.prev_hash, row.key, canonical_bytes(row.webhook))
Hashed ==
  /\ \A row \in source_events : hashed(row)
  /\ \A r \in Requests : \A row \in request[r].rows : hashed(row)

\* The seed's second row has the greater id.
in_order(rows) ==
  \A p, q \in rows :
    p.received_at = q.received_at /\ q.prev_hash = p.row_hash => before(p, q)

\* What an open transaction holds if it is the only one: its rows are after all that
\* is committed, each continues what was there before it, and it read the last row.
Continues(r) ==
  LET q == request[r]
  IN  /\ \A row \in source_events : row.received_at < q.received_at
      /\ q.pc = "insert" => q.prev = tip(seen(r))
      /\ q.rows # {} => \E p \in q.rows :
           /\ p.prev_hash = tip(source_events)
           /\ \A s \in q.rows \ {p} : s.prev_hash = tip(source_events \cup {p})
Alone ==
  ~ overlapped =>
    /\ \A r, s \in Requests : open(r) /\ open(s) => r = s
    /\ \A r \in Requests : open(r) => Continues(r)
    /\ in_order(source_events) =>
         \A row \in source_events : row.prev_hash = expected_prev(row)

InboxInv ==
  /\ TypeOK
  /\ request = [r \in Requests |-> request[r]] /\ sends = [w \in Webhooks |-> sends[w]]
  /\ now \in Nat
  /\ \A r \in Requests : Written(request[r])
  /\ Named
  /\ KeysApart
  /\ Answered
  /\ Reached
  /\ Hashed
  /\ Alone

-----------------------------------------------------------------------------
(* Steps that leave the rows of a request empty *)

\* An idle request, and one that has only its answer left, hold no row.
LEMMA IdleServed ==
  /\ Idle \in Served /\ Idle.pc = "idle" /\ Idle.client = "edge" /\ Idle.rows = {}
  /\ \A w \in Webhooks : LET q == [Idle EXCEPT !.pc = "reply", !.webhook = w]
                         IN  /\ q \in Served /\ q.pc = "reply" /\ q.client = "edge"
                             /\ q.webhook = w /\ q.rows = {}
<1>1. GENESIS_HASH \in Hashes
  BY DEF GENESIS_HASH, Hashes
<1> QED
  BY <1>1 DEF Idle, Served

\* A step that gives request r what q holds, no row among it, and leaves the other
\* requests and the table as they are.
LEMMA Cleared ==
  ASSUME InboxInv, NEW r \in Requests, NEW q \in Served, q.rows = {},
         request' = [request EXCEPT ![r] = q],
         UNCHANGED <<source_events, millis>>,
         q.pc \in {"idle", "reply", "read"},
         q.pc # "idle" => q.webhook \in Webhooks,
         q.pc = "read" => q.key \in Keys /\ named(q.key, q.webhook),
         q.pc = "read" => q.received_at \in 1..now' /\ q.received_at = now',
         q.pc = "reply" => stored(q.webhook),
         q.client = "seed" => Seed # <<>>,
         now' = now \/ now' = now + 1,
         overlapped => overlapped',
         q.pc = "read" => now' = now + 1 /\ (~ overlapped' => \A s \in Requests : ~ open(s)),
         acknowledged' \subseteq Webhooks, \A w \in acknowledged' : stored(w),
         \A w \in Webhooks : sends'[w] \in 0..MaxSends[w],
         sends' = [w \in Webhooks |-> sends'[w]],
         crashes' \in 0..MaxCrashes
  PROVE  InboxInv'
<1>1. /\ TypeOK /\ Named /\ KeysApart /\ Answered /\ Reached /\ Hashed /\ Alone
      /\ request = [s \in Requests |-> request[s]] /\ now \in Nat
      /\ \A s \in Requests : Written(request[s])
  BY DEF InboxInv
<1>2. /\ \A s \in Requests : request'[s] = IF s = r THEN q ELSE request[s]
      /\ request' = [s \in Requests |-> request'[s]]
  BY <1>1
<1>3. /\ \A s \in Requests \ {r} : request'[s] = request[s] /\ open(s)' = open(s)
      /\ \A s \in Requests \ {r} : seen(s)' = seen(s)
      /\ request'[r] = q /\ seen(r)' = source_events
  BY <1>2 DEF seen, open
<1>4. now' \in Nat /\ now <= now'
  BY <1>1
<1>5. TypeOK'
  <2>1. ASSUME NEW s \in Requests
        PROVE  /\ request'[s] \in Served
               /\ request'[s].pc # "idle" => request'[s].webhook \in Webhooks
               /\ open(s)' => request'[s].key \in Keys /\ request'[s].received_at \in 1..now'
    <3>1. CASE s = r
      BY <1>3, <3>1 DEF open
    <3>2. CASE s # r
      BY <1>1, <1>3, <1>4, <3>2 DEF TypeOK, Served
    <3> QED
      BY <3>1, <3>2
  <2>2. \A row \in source_events' : row.received_at \in 1..now'
    BY <1>1, <1>4 DEF TypeOK
  <2> QED
    BY <1>1, <2>1, <2>2 DEF TypeOK
<1>6. ASSUME NEW s \in Requests PROVE Written(request'[s])
  <2>1. CASE s = r
    BY <1>3, <2>1 DEF Written
  <2>2. CASE s # r
    BY <1>1, <1>3, <2>2
  <2> QED
    BY <2>1, <2>2
<1>7. Named'
  <2>1. \A row \in source_events' : named(row.key, row.webhook)'
    BY <1>1 DEF Named, named
  <2>2. ASSUME NEW s \in Requests
        PROVE  /\ open(s)' => named(request[s].key, request[s].webhook)'
               /\ \A row \in request'[s].rows : named(row.key, row.webhook)'
    <3>1. CASE s = r
      BY <1>3, <3>1 DEF named, open
    <3>2. CASE s # r
      BY <1>1, <1>3, <3>2 DEF Named, named
    <3> QED
      BY <3>1, <3>2
  <2> QED
    BY <2>1, <2>2 DEF Named
<1>8. KeysApart'
  BY <1>1, <1>2, <1>3 DEF KeysApart
<1>9. Answered'
  <2>1. \A w : stored(w)' = stored(w)
    BY DEF stored, rows_of, taken
  <2>2. \A w \in acknowledged' : stored(w)'
    BY <2>1
  <2>3. \A s \in Requests : request'[s].pc = "reply" => stored(request'[s].webhook)
    BY <1>1, <1>2 DEF Answered
  <2>4. \A s \in Requests : (request[s].pc = "reply" => stored(request[s].webhook))'
    BY <2>3 DEF stored, rows_of, taken
  <2> QED
    BY <2>2, <2>4 DEF Answered
<1>10. Reached'
  <2>1. HashesReachGenesis' /\ HasLatest(source_events')
    BY <1>1 DEF Reached, HashesReachGenesis
  <2>2. ASSUME NEW s \in Requests
        PROVE  /\ HasLatest(request'[s].rows)
               /\ \A row \in request'[s].rows : reached(row.prev_hash, seen(s)')
               /\ request'[s].pc = "insert" => reached(request'[s].prev, seen(s)')
    <3>1. CASE s = r
      BY <1>3, <3>1 DEF HasLatest
    <3>2. CASE s # r
      BY <1>1, <1>3, <3>2 DEF Reached
    <3> QED
      BY <3>1, <3>2
  <2> QED
    BY <2>1, <2>2 DEF Reached, HasLatest, is_latest, reached
<1>11. Hashed'
  BY <1>1, <1>2 DEF Hashed, hashed
<1>12. Alone'
  <2> SUFFICES ASSUME ~ overlapped' PROVE
        /\ \A s, t \in Requests : open(s)' /\ open(t)' => s = t
        /\ \A s \in Requests : open(s)' => Continues(s)'
        /\ in_order(source_events') =>
             \A row \in source_events' : row.prev_hash = expected_prev(row)'
    BY DEF Alone, in_order
  <2>1. /\ \A s, t \in Requests : open(s) /\ open(t) => s = t
        /\ \A s \in Requests : open(s) => Continues(s)
        /\ in_order(source_events) =>
             \A row \in source_events : row.prev_hash = expected_prev(row)
    BY <1>1 DEF Alone
  <2>2. open(r)' => q.pc = "read" /\ \A s \in Requests : ~ open(s)
    BY <1>3 DEF open
  <2>3. \A s, t \in Requests : open(s)' /\ open(t)' => s = t
    BY <1>3, <2>1, <2>2
  <2>4. ASSUME NEW s \in Requests, open(s)' PROVE Continues(s)'
    <3>1. CASE s = r
      <4>1. q.received_at = now + 1
        BY <2>2, <2>4, <3>1
      <4>2. \A row \in source_events : row.received_at < q.received_at
        BY <1>1, <4>1 DEF TypeOK
      <4> QED
        BY <1>3, <2>2, <2>4, <3>1, <4>2 DEF Continues
    <3>2. CASE s # r
      <4>1. Continues(s)
        BY <1>3, <2>1, <2>4, <3>2
      <4> QED
        BY <1>3, <3>2, <4>1 DEF Continues
    <3> QED
      BY <3>1, <3>2
  <2>5. in_order(source_events') =>
          \A row \in source_events' : row.prev_hash = expected_prev(row)'
    BY <2>1 DEF expected_prev
  <2> QED
    BY <2>3, <2>4, <2>5
<1> QED
  BY <1>2, <1>4, <1>5, <1>6, <1>7, <1>8, <1>9, <1>10, <1>11, <1>12 DEF InboxInv

\* The first key of a request is that of its webhook at this millisecond.
LEMMA FirstKey ==
  ASSUME TypeOK, NEW w \in Webhooks
  PROVE  external_id(w, millis) \in Keys /\ named(external_id(w, millis), w)
<1>1. millis \in Nat /\ millis \in 0..MaxMillis /\ millis \in 0..millis
  BY InboxAssumption DEF TypeOK
<1> QED
  BY <1>1 DEF Keys, named

\* The invariant holds of the empty table.
LEMMA InboxInit == Init => InboxInv
<1> SUFFICES ASSUME Init PROVE InboxInv
  OBVIOUS
<1>1. /\ source_events = {} /\ \A r \in Requests : request[r] = Idle
      /\ request = [r \in Requests |-> request[r]]
      /\ acknowledged = {} /\ now = 0 /\ millis = 0 /\ crashes = 0
      /\ sends = [w \in Webhooks |-> sends[w]] /\ \A w \in Webhooks : sends[w] = 0
  BY DEF Init
<1>2. Idle \in Served /\ Idle.pc = "idle" /\ Idle.client = "edge" /\ Idle.rows = {}
  BY IdleServed
<1>3. \A r \in Requests : ~ open(r) /\ seen(r) = {}
  BY <1>1, <1>2 DEF open, seen
<1> HIDE DEF Idle
<1>4. TypeOK
  BY <1>1, <1>2, <1>3, InboxAssumption DEF TypeOK
<1>5. \A r \in Requests : Written(request[r])
  BY <1>1, <1>2 DEF Written
<1>6. Named /\ KeysApart /\ Answered
  BY <1>1, <1>2, <1>3 DEF Named, KeysApart, Answered
<1>7. Reached
  BY <1>1, <1>2 DEF Reached, HashesReachGenesis, HasLatest
<1>8. Hashed /\ Alone
  BY <1>1, <1>2, <1>3 DEF Hashed, Alone
<1> QED
  BY <1>1, <1>4, <1>5, <1>6, <1>7, <1>8 DEF InboxInv

\* A delivery that begins its transaction keeps the invariant.
LEMMA ReceiveStep ==
  ASSUME InboxInv, NEW r \in Requests, NEW w \in Webhooks, Receive(r, w)
  PROVE  InboxInv'
<1> DEFINE q == [Idle EXCEPT !.pc = "read", !.webhook = w, !.key = external_id(w, millis),
                             !.received_at = now']
<1>1. TypeOK /\ sends = [v \in Webhooks |-> sends[v]] /\ now \in Nat /\ Answered
  BY DEF InboxInv
<1>2. external_id(w, millis) \in Keys /\ named(external_id(w, millis), w)
  BY <1>1, FirstKey
<1>3. now' = now + 1 /\ now' \in Nat /\ now' \in 1..now'
  BY <1>1 DEF Receive
<1>4. /\ q \in Served /\ q.pc = "read" /\ q.client = "edge" /\ q.webhook = w
      /\ q.key = external_id(w, millis) /\ q.received_at = now' /\ q.rows = {}
  BY <1>2, <1>3, IdleServed DEF Served
<1>5. /\ request' = [request EXCEPT ![r] = q]
      /\ UNCHANGED <<source_events, acknowledged, millis, crashes>>
      /\ sends[w] < MaxSends[w] /\ sends' = [sends EXCEPT ![w] = @ + 1]
      /\ overlapped' = (overlapped \/ \E s \in Requests : open(s))
  BY DEF Receive
<1> HIDE DEF q
<1>6. /\ \A v \in Webhooks : sends'[v] \in 0..MaxSends[v]
      /\ sends' = [v \in Webhooks |-> sends'[v]]
  <2>1. sends[w] \in 0..MaxSends[w] /\ MaxSends[w] \in Nat
    BY <1>1, InboxAssumption DEF TypeOK
  <2>2. \A v \in Webhooks : sends'[v] = IF v = w THEN sends[w] + 1 ELSE sends[v]
    BY <1>1, <1>5
  <2>3. sends'[w] \in 0..MaxSends[w]
    BY <1>5, <2>1, <2>2
  <2>4. sends' = [v \in Webhooks |-> sends'[v]]
    BY <1>1, <1>5
  <2> QED
    BY <1>1, <2>2, <2>3, <2>4 DEF TypeOK
<1>7. /\ overlapped => overlapped'
      /\ ~ overlapped' => \A s \in Requests : ~ open(s)
  BY <1>5
<1>8. /\ acknowledged' \subseteq Webhooks /\ crashes' \in 0..MaxCrashes
      /\ \A v \in acknowledged' : stored(v)
  BY <1>1, <1>5 DEF TypeOK, Answered
<1>9. UNCHANGED <<source_events, millis>> /\ request' = [request EXCEPT ![r] = q]
  BY <1>5
<1> QED
  BY <1>2, <1>3, <1>4, <1>6, <1>7, <1>8, <1>9, Cleared

\* The seed that begins its transaction keeps the invariant.
LEMMA SeedStep ==
  ASSUME InboxInv, NEW r \in Requests, SeedDemo(r)
  PROVE  InboxInv'
<1> DEFINE w == Seed[1]
           q == [Idle EXCEPT !.pc = "read", !.client = "seed", !.webhook = w,
                             !.key = external_id(w, millis), !.received_at = now']
<1>1. TypeOK /\ sends = [v \in Webhooks |-> sends[v]] /\ now \in Nat /\ Answered
  BY DEF InboxInv
<1>2. Seed # <<>> /\ w \in Webhooks
  BY InboxAssumption DEF SeedDemo
<1>3. now' = now + 1 /\ now' \in Nat /\ now' \in 1..now'
  BY <1>1 DEF SeedDemo
<1>4. /\ request' = [request EXCEPT ![r] = q]
      /\ UNCHANGED <<source_events, sends, acknowledged, millis, crashes>>
      /\ overlapped' = (overlapped \/ \E s \in Requests : open(s))
  BY DEF SeedDemo
<1> HIDE DEF w
<1>5. external_id(w, millis) \in Keys /\ named(external_id(w, millis), w)
  BY <1>1, <1>2, FirstKey
<1>6. /\ q \in Served /\ q.pc = "read" /\ q.webhook = w
      /\ q.key = external_id(w, millis) /\ q.received_at = now' /\ q.rows = {}
  BY <1>2, <1>3, <1>5, IdleServed DEF Served
<1> HIDE DEF q
<1> QED
  BY <1>1, <1>2, <1>3, <1>4, <1>5, <1>6, Cleared DEF TypeOK, Answered

\* A row is stored by whoever wrote it under the key.
LEMMA KeyStored ==
  ASSUME InboxInv, NEW w \in Webhooks, NEW key, named(key, w),
         NEW row \in source_events, row.key = key
  PROVE  stored(w)
<1>1. PICK ms \in 0..millis : key = external_id(w, ms)
  BY DEF named
<1>2. row.webhook \in Webhooks /\ named(row.key, row.webhook)
  BY DEF InboxInv, Named, TypeOK, Rows
<1>3. PICK mss \in 0..millis : key = external_id(row.webhook, mss)
  BY <1>2 DEF named
<1>4. CASE row.webhook = w
  BY <1>4 DEF stored, rows_of
<1>5. CASE row.webhook # w
  <2>1. taken(external_id(w, ms))
    BY <1>1 DEF taken
  <2>2. ~ identified(w)
    <3> SUFFICES ASSUME identified(w) PROVE FALSE
      OBVIOUS
    <3>1. /\ Content[w].id # None
          /\ external_id(row.webhook, 0) # external_id(w, 0)
      BY <1>2, <1>5 DEF identified
    <3>2. key = <<Content[w].source, Content[w].id>> /\ external_id(w, 0) = key
      BY <1>1, <3>1 DEF external_id
    <3>3. CASE Content[row.webhook].id = None
      BY <1>3, <3>2, <3>3 DEF external_id
    <3>4. CASE Content[row.webhook].id # None
      BY <1>3, <3>1, <3>2, <3>4 DEF external_id
    <3> QED
      BY <3>3, <3>4
  <2> QED
    BY <2>1, <2>2 DEF stored
<1> QED
  BY <1>4, <1>5

\* A key that is taken leaves the table as it is, and the answer is true.
LEMMA DuplicateStep ==
  ASSUME InboxInv, NEW r \in Requests, Duplicate(r)
  PROVE  InboxInv'
<1> DEFINE old == request[r]
           q == finished(old)
<1>1. /\ TypeOK /\ sends = [v \in Webhooks |-> sends[v]] /\ now \in Nat /\ Answered
      /\ Named /\ Written(old) /\ old \in Served
  BY DEF InboxInv, TypeOK
<1>2. /\ old.pc = "insert" /\ duplicate(r) /\ request' = [request EXCEPT ![r] = q]
      /\ UNCHANGED <<source_events, sends, acknowledged, now, millis, crashes, overlapped>>
  BY DEF Duplicate
<1>3. old.webhook \in Webhooks /\ named(old.key, old.webhook)
  BY <1>1, <1>2 DEF TypeOK, Named, open
<1>4. old.client = "edge" => old.rows = {}
  BY <1>1, <1>2 DEF Written
<1>5. old.client = "edge" => stored(old.webhook)
  <2> SUFFICES ASSUME old.client = "edge" PROVE stored(old.webhook)
    OBVIOUS
  <2>1. \E row \in source_events : row.key = old.key
    BY <1>2, <1>4 DEF duplicate, seen
  <2> HIDE DEF old
  <2> QED
    BY <1>3, <2>1, KeyStored
<1> HIDE DEF old
<1>6. /\ q \in Served /\ q.rows = {} /\ q.client = "edge"
      /\ q.pc \in {"idle", "reply"}
      /\ q.pc = "reply" => q.webhook = old.webhook /\ old.client = "edge"
  <2>1. old.client \in {"edge", "seed"}
    BY <1>1 DEF Served
  <2> QED
    BY <1>3, <2>1, IdleServed DEF finished
<1> HIDE DEF q
<1> QED
  BY <1>1, <1>2, <1>3, <1>5, <1>6, Cleared DEF TypeOK, Answered

\* What is acknowledged is stored.
LEMMA ReplyStep ==
  ASSUME InboxInv, NEW r \in Requests, Reply(r)
  PROVE  InboxInv'
<1>1. /\ TypeOK /\ sends = [v \in Webhooks |-> sends[v]] /\ now \in Nat /\ Answered
  BY DEF InboxInv
<1>2. /\ request[r].pc = "reply" /\ acknowledged' = acknowledged \cup {request[r].webhook}
      /\ request' = [request EXCEPT ![r] = Idle]
      /\ UNCHANGED <<source_events, sends, now, millis, crashes, overlapped>>
  BY DEF Reply
<1>3. request[r].webhook \in Webhooks /\ stored(request[r].webhook)
  BY <1>1, <1>2 DEF TypeOK, Answered
<1>4. Idle \in Served /\ Idle.pc = "idle" /\ Idle.client = "edge" /\ Idle.rows = {}
  BY IdleServed
<1> HIDE DEF Idle
<1> QED
  BY <1>1, <1>2, <1>3, <1>4, Cleared DEF TypeOK, Answered

\* A lost request takes its uncommitted rows with it.
LEMMA CrashStep ==
  ASSUME InboxInv, NEW r \in Requests, Crash(r)
  PROVE  InboxInv'
<1>1. /\ TypeOK /\ sends = [v \in Webhooks |-> sends[v]] /\ now \in Nat /\ Answered
  BY DEF InboxInv
<1>2. /\ request' = [request EXCEPT ![r] = Idle]
      /\ UNCHANGED <<source_events, sends, acknowledged, now, millis, overlapped>>
      /\ crashes < MaxCrashes /\ crashes' = crashes + 1
  BY DEF Crash
<1>3. crashes' \in 0..MaxCrashes
  BY <1>1, <1>2, InboxAssumption DEF TypeOK
<1>4. Idle \in Served /\ Idle.pc = "idle" /\ Idle.client = "edge" /\ Idle.rows = {}
  BY IdleServed
<1> HIDE DEF Idle
<1> QED
  BY <1>1, <1>2, <1>3, <1>4, Cleared DEF TypeOK, Answered

-----------------------------------------------------------------------------
(* Steps that only change what is not in a table *)

\* The clock moves on, or nothing does.
LEMMA TickStep ==
  ASSUME InboxInv, millis' \in Nat, millis <= millis', millis' <= MaxMillis,
         UNCHANGED <<source_events, request, sends, acknowledged, now, crashes, overlapped>>
  PROVE  InboxInv'
<1>1. /\ TypeOK /\ Named /\ KeysApart /\ Answered /\ Reached /\ Hashed /\ Alone
      /\ request = [s \in Requests |-> request[s]] /\ now \in Nat
      /\ sends = [w \in Webhooks |-> sends[w]]
      /\ \A s \in Requests : Written(request[s])
  BY DEF InboxInv
<1>2. /\ \A r \in Requests : open(r)' = open(r) /\ seen(r)' = seen(r)
      /\ 0..millis \subseteq 0..millis'
  BY <1>1 DEF open, seen, TypeOK
<1>3. TypeOK'
  BY <1>1, <1>2 DEF TypeOK
<1>4. Named'
  BY <1>1, <1>2 DEF Named, named
<1>5. KeysApart'
  BY <1>1, <1>2 DEF KeysApart
<1>6. Answered'
  <2>1. \A w : stored(w) => stored(w)'
    BY <1>2 DEF stored, rows_of, taken
  <2> QED
    BY <1>1, <2>1 DEF Answered, stored, rows_of, taken
<1>7. Reached'
  BY <1>1, <1>2 DEF Reached, HashesReachGenesis
<1>8. Hashed'
  BY <1>1 DEF Hashed
<1>9. Alone'
  <2> SUFFICES ASSUME ~ overlapped' PROVE
        /\ \A s, t \in Requests : open(s)' /\ open(t)' => s = t
        /\ \A s \in Requests : open(s)' => Continues(s)'
        /\ in_order(source_events') =>
             \A row \in source_events' : row.prev_hash = expected_prev(row)'
    BY DEF Alone, in_order
  <2>1. /\ \A s, t \in Requests : open(s) /\ open(t) => s = t
        /\ \A s \in Requests : open(s) => Continues(s)
        /\ in_order(source_events) =>
             \A row \in source_events : row.prev_hash = expected_prev(row)
    BY <1>1 DEF Alone
  <2>2. \A s \in Requests : Continues(s) => Continues(s)'
    BY <1>2 DEF Continues
  <2>3. in_order(source_events') =>
          \A row \in source_events' : row.prev_hash = expected_prev(row)'
    BY <2>1 DEF expected_prev
  <2> QED
    BY <1>2, <2>1, <2>2, <2>3
<1>10. \A s \in Requests : Written(request'[s])
  BY <1>1
<1> QED
  BY <1>1, <1>3, <1>4, <1>5, <1>6, <1>7, <1>8, <1>9, <1>10 DEF InboxInv

-----------------------------------------------------------------------------
(* Reading the last row *)

\* Of two sets that have a latest row, so has their union.
LEMMA LatestOfUnion ==
  ASSUME NEW A \in SUBSET Rows, NEW B \in SUBSET Rows, HasLatest(A), HasLatest(B)
  PROVE  HasLatest(A \cup B)
<1>1. CASE A = {} \/ B = {}
  BY <1>1 DEF HasLatest
<1>2. CASE A # {} /\ B # {}
  <2>1. PICK a \in A, b \in B : is_latest(a, A) /\ is_latest(b, B)
    BY <1>2 DEF HasLatest, is_latest
  <2>2. \A x \in A \cup B : x.received_at \in Int /\ x.id \in Int
    BY DEF Rows
  <2>3. CASE before(a, b)
    <3>1. \A x \in A : ~ before(b, x)
      BY <2>1, <2>2, <2>3 DEF is_latest, before
    <3> QED
      BY <2>1, <3>1 DEF HasLatest, is_latest
  <2>4. CASE ~ before(a, b)
    <3>1. \A x \in B : ~ before(a, x)
      BY <2>1, <2>2, <2>4 DEF is_latest, before
    <3> QED
      BY <2>1, <3>1 DEF HasLatest, is_latest
  <2> QED
    BY <2>3, <2>4
<1> QED
  BY <1>1, <1>2

\* What a request reads as the last hash is the genesis hash or that of a row.
LEMMA TipReached ==
  ASSUME NEW rows \in SUBSET Rows, HasLatest(rows)
  PROVE  reached(tip(rows), rows) /\ tip(rows) \in Hashes
<1>1. CASE rows = {}
  <2>1. tip(rows) = GENESIS_HASH
    BY <1>1 DEF tip
  <2>2. GENESIS_HASH \in Hashes
    BY DEF GENESIS_HASH, Hashes
  <2> QED
    BY <2>1, <2>2 DEF reached
<1>2. CASE rows # {}
  <2>1. \E r \in rows : \A q \in rows : ~ before(r, q)
    BY <1>2 DEF HasLatest, is_latest
  <2>2. latest(rows) \in rows
    BY <2>1 DEF latest
  <2>3. tip(rows) = latest(rows).row_hash
    BY <1>2 DEF tip
  <2> QED
    BY <2>2, <2>3 DEF reached, Rows
<1> QED
  BY <1>1, <1>2

\* The hash a request reads is that of the last row it sees.
LEMMA ReadTipStep ==
  ASSUME InboxInv, NEW r \in Requests, ReadTip(r)
  PROVE  InboxInv'
<1> DEFINE old == request[r]
           q == [old EXCEPT !.pc = "insert", !.prev = tip(seen(r))]
<1>1. /\ TypeOK /\ Named /\ KeysApart /\ Answered /\ Reached /\ Hashed /\ Alone
      /\ request = [s \in Requests |-> request[s]] /\ now \in Nat
      /\ sends = [w \in Webhooks |-> sends[w]]
      /\ \A s \in Requests : Written(request[s])
  BY DEF InboxInv
<1>2. /\ old.pc = "read" /\ request' = [request EXCEPT ![r] = q]
      /\ UNCHANGED <<source_events, sends, acknowledged, now, millis, crashes, overlapped>>
  BY DEF ReadTip
<1>3. old \in Served
  BY <1>1 DEF TypeOK
<1>4. reached(tip(seen(r)), seen(r)) /\ tip(seen(r)) \in Hashes
  <2>1. source_events \in SUBSET Rows /\ old.rows \in SUBSET Rows
    BY <1>1, <1>3 DEF TypeOK, Served
  <2>2. HasLatest(source_events) /\ HasLatest(old.rows)
    BY <1>1 DEF Reached
  <2>3. seen(r) = source_events \cup old.rows
    BY DEF seen
  <2> HIDE DEF old
  <2>4. HasLatest(seen(r)) /\ seen(r) \in SUBSET Rows
    BY <2>1, <2>2, <2>3, LatestOfUnion
  <2> QED
    BY <2>4, TipReached
<1> HIDE DEF old
<1>5. /\ q \in Served /\ q.pc = "insert" /\ q.prev = tip(seen(r)) /\ q.client = old.client
      /\ q.webhook = old.webhook /\ q.key = old.key /\ q.received_at = old.received_at
      /\ q.rows = old.rows
  BY <1>3, <1>4 DEF Served
<1> HIDE DEF q
<1>6. /\ \A s \in Requests \ {r} : request'[s] = request[s]
      /\ request'[r] = q /\ request[r] = old
      /\ request' = [s \in Requests |-> request'[s]]
  BY <1>1, <1>2 DEF old
<1>7. \A s \in Requests : /\ open(s)' = open(s) /\ seen(s)' = seen(s)
                          /\ request'[s].rows = request[s].rows
  BY <1>2, <1>5, <1>6 DEF open, seen
<1>8. TypeOK'
  <2>1. open(r) /\ request'[r] \in Served /\ request'[r].webhook = request[r].webhook
        /\ request'[r].key = request[r].key /\ request'[r].received_at = request[r].received_at
    BY <1>2, <1>5, <1>6 DEF open
  <2>2. ASSUME NEW s \in Requests
        PROVE  /\ request'[s] \in Served
               /\ request'[s].pc # "idle" => request'[s].webhook \in Webhooks
               /\ open(s)' => request'[s].key \in Keys /\ request'[s].received_at \in 1..now'
    <3>1. CASE s = r
      BY <1>1, <1>2, <1>6, <2>1, <3>1 DEF TypeOK
    <3>2. CASE s # r
      BY <1>1, <1>2, <1>6, <1>7, <3>2 DEF TypeOK
    <3> QED
      BY <3>1, <3>2
  <2> QED
    BY <1>1, <1>2, <2>2 DEF TypeOK
<1>9. ASSUME NEW s \in Requests PROVE Written(request'[s])
  <2>1. CASE s = r
    <3>1. Written(old)
      BY <1>1, <1>6
    <3>2. Written(q)
      BY <1>2, <1>5, <3>1 DEF Written
    <3> QED
      BY <1>6, <2>1, <3>2
  <2>2. CASE s # r
    BY <1>1, <1>6, <2>2
  <2> QED
    BY <2>1, <2>2
<1>10. Named'
  <2>1. \A s \in Requests : request'[s].key = request[s].key /\ request'[s].webhook = request[s].webhook
    BY <1>5, <1>6
  <2> QED
    BY <1>1, <1>2, <1>7, <2>1 DEF Named, named
<1>11. KeysApart'
  BY <1>1, <1>2, <1>7 DEF KeysApart
<1>12. Answered'
  <2>1. \A s \in Requests : request'[s].pc = "reply" => request[s].pc = "reply" /\ request'[s] = request[s]
    BY <1>5, <1>6
  <2>2. \A w : stored(w)' = stored(w)
    BY <1>2 DEF stored, rows_of, taken
  <2>3. \A w \in acknowledged' : stored(w)'
    BY <1>1, <1>2, <2>2 DEF Answered
  <2>4. \A s \in Requests : request'[s].pc = "reply" => stored(request'[s].webhook)
    BY <1>1, <2>1 DEF Answered
  <2>5. \A s \in Requests : (request[s].pc = "reply" => stored(request[s].webhook))'
    BY <1>2, <2>4 DEF stored, rows_of, taken
  <2> QED
    BY <2>3, <2>5 DEF Answered
<1>13. Reached'
  <2>1. HashesReachGenesis' /\ HasLatest(source_events')
    BY <1>1, <1>2 DEF Reached, HashesReachGenesis
  <2>2. ASSUME NEW s \in Requests
        PROVE  /\ HasLatest(request'[s].rows)
               /\ \A row \in request'[s].rows : reached(row.prev_hash, seen(s)')
               /\ request'[s].pc = "insert" => reached(request'[s].prev, seen(s)')
    <3>1. HasLatest(request'[s].rows) /\ \A row \in request'[s].rows : reached(row.prev_hash, seen(s)')
      BY <1>1, <1>7 DEF Reached
    <3>2. CASE s = r
      BY <1>4, <1>5, <1>6, <1>7, <3>1, <3>2
    <3>3. CASE s # r
      BY <1>1, <1>6, <1>7, <3>1, <3>3 DEF Reached
    <3> QED
      BY <3>2, <3>3
  <2> QED
    BY <2>1, <2>2 DEF Reached, HasLatest, is_latest, reached
<1>14. Hashed'
  BY <1>1, <1>2, <1>7 DEF Hashed
<1>15. Alone'
  <2> SUFFICES ASSUME ~ overlapped' PROVE
        /\ \A s, t \in Requests : open(s)' /\ open(t)' => s = t
        /\ \A s \in Requests : open(s)' => Continues(s)'
        /\ in_order(source_events') =>
             \A row \in source_events' : row.prev_hash = expected_prev(row)'
    BY DEF Alone, in_order
  <2>1. /\ \A s, t \in Requests : open(s) /\ open(t) => s = t
        /\ \A s \in Requests : open(s) => Continues(s)
        /\ in_order(source_events) =>
             \A row \in source_events : row.prev_hash = expected_prev(row)
    BY <1>1, <1>2 DEF Alone
  <2>2. ASSUME NEW s \in Requests, open(s)' PROVE Continues(s)'
    <3>1. Continues(s)
      BY <1>7, <2>1, <2>2
    <3>2. CASE s = r
      BY <1>2, <1>5, <1>6, <1>7, <3>1, <3>2 DEF Continues
    <3>3. CASE s # r
      BY <1>2, <1>6, <1>7, <3>1, <3>3 DEF Continues
    <3> QED
      BY <3>2, <3>3
  <2>3. in_order(source_events') =>
          \A row \in source_events' : row.prev_hash = expected_prev(row)'
    BY <1>2, <2>1 DEF expected_prev
  <2> QED
    BY <1>7, <2>1, <2>2, <2>3
<1> QED
  BY <1>1, <1>2, <1>6, <1>8, <1>9, <1>10, <1>11, <1>12, <1>13, <1>14, <1>15 DEF InboxInv

-----------------------------------------------------------------------------
(* Writing a row *)

\* What the row of a request holds: its hash is right, whoever wrote it.
LEMMA NextRow ==
  ASSUME TypeOK, NEW q \in Served, q.webhook \in Webhooks, q.key \in Keys, NEW id \in 0..2
  PROVE  LET row == next_row(q, id)
         IN  /\ row \in Rows /\ hashed(row)
             /\ row.key = q.key /\ row.webhook = q.webhook /\ row.received_at = q.received_at
             /\ row.id = id /\ row.prev_hash = q.prev
<1> DEFINE bytes == IF q.client = "seed" THEN canonical_bytes(q.webhook)
                    ELSE canonicalJson(q.webhook)
           row == next_row(q, id)
<1>1. bytes \in Webhooks \X Encodings
  BY DEF canonical_bytes, canonicalJson, Encodings
<1>2. Content[q.webhook].portable => bytes = canonical_bytes(q.webhook)
  BY DEF canonical_bytes, canonicalJson
<1>3. q.prev \in Hashes /\ q.received_at \in Nat
  BY DEF Served
<1>4. computeRowHash(q.prev, q.key, bytes) \in Hashes
  <2> HIDE DEF bytes
  <2>1. <<q.key, bytes>> \in Keys \X (Webhooks \X Encodings)
    BY <1>1
  <2> QED
    BY <1>3, <2>1, AppendProperties DEF computeRowHash, Hashes
<1>5. row = [key |-> q.key, webhook |-> q.webhook, received_at |-> q.received_at, id |-> id,
             prev_hash |-> q.prev, row_hash |-> computeRowHash(q.prev, q.key, bytes)]
  BY DEF next_row
<1> HIDE DEF bytes, row
<1>6. /\ row.key = q.key /\ row.webhook = q.webhook /\ row.received_at = q.received_at
      /\ row.id = id /\ row.prev_hash = q.prev
      /\ row.row_hash = computeRowHash(q.prev, q.key, bytes)
  BY <1>5
<1>7. row \in Rows
  BY <1>3, <1>4, <1>5 DEF Rows
<1>8. hashed(row)
  BY <1>2, <1>6 DEF hashed
<1> QED
  BY <1>6, <1>7, <1>8 DEF row

\* What a request holds once its row is there.
LEMMA AfterInsert ==
  ASSUME TypeOK, NEW old \in Served, Written(old), old.pc = "insert",
         old.webhook \in Webhooks, old.key \in Keys, named(old.key, old.webhook),
         NEW row \in Rows, row.webhook = old.webhook, row.received_at = old.received_at
  PROVE  LET q == after_insert(old, row)
         IN  /\ q \in Served /\ Written(q) /\ q.pc \in {"read", "commit"}
             /\ q.rows = old.rows \cup {row} /\ q.received_at = old.received_at
             /\ q.webhook \in Webhooks /\ q.key \in Keys /\ named(q.key, q.webhook)
<1> DEFINE q == after_insert(old, row)
<1>1. CASE old.client = "seed" /\ old.rows = {}
  <2>1. Seed # <<>>
    BY <1>1 DEF Written
  <2>2. Seed[2] \in Webhooks
    BY <2>1, InboxAssumption
  <2> DEFINE w == Seed[2]
             key == external_id(w, millis)
  <2>3. key \in Keys /\ named(key, w)
    <3> HIDE DEF w
    <3> QED
      BY <2>2, FirstKey DEF w
  <2>4. q = [old EXCEPT !.pc = "read", !.rows = {row}, !.webhook = w, !.key = key]
    BY <1>1 DEF after_insert
  <2> HIDE DEF q, w, key
  <2>5. /\ q \in Served /\ q.pc = "read" /\ q.rows = {row} /\ q.webhook = w /\ q.key = key
        /\ q.client = "seed" /\ q.received_at = old.received_at
    BY <1>1, <2>2, <2>3, <2>4 DEF Served, w
  <2>6. Written(q)
    BY <2>1, <2>5 DEF Written
  <2> QED
    BY <1>1, <2>2, <2>3, <2>5, <2>6 DEF q, w
<1>2. CASE ~ (old.client = "seed" /\ old.rows = {})
  <2>1. q = [old EXCEPT !.pc = "commit", !.rows = old.rows \cup {row}]
    BY <1>2 DEF after_insert
  <2> HIDE DEF q
  <2>2. /\ q \in Served /\ q.pc = "commit" /\ q.rows = old.rows \cup {row}
        /\ q.webhook = old.webhook /\ q.key = old.key
        /\ q.client = old.client /\ q.received_at = old.received_at
    BY <2>1 DEF Served
  <2>3. old.rows = {} \/ (old.client = "seed" /\ \E p \in old.rows : old.rows = {p})
    BY DEF Written
  <2>4. row \in q.rows
    BY <2>2
  <2>5. \E p \in q.rows : q.rows = {p} \/ \E s \in q.rows : q.rows = {p, s}
    <3>1. CASE old.rows = {}
      <4>1. q.rows = {row}
        BY <2>2, <3>1
      <4> QED
        BY <2>4, <4>1
    <3>2. CASE old.rows # {}
      <4>1. PICK p \in old.rows : old.rows = {p}
        BY <2>3, <3>2
      <4>2. q.rows = {p, row} /\ p \in q.rows
        BY <2>2, <4>1
      <4> QED
        BY <2>4, <4>2
    <3> QED
      BY <3>1, <3>2
  <2>6. old.client = "seed" => Seed # <<>>
    BY DEF Written
  <2>7. \A p \in old.rows : p.received_at = old.received_at
    BY DEF Written
  <2>8. Written(q)
    BY <2>2, <2>4, <2>5, <2>6, <2>7 DEF Written
  <2> QED
    BY <2>2, <2>8 DEF q
<1> QED
  BY <1>1, <1>2

\* A new row has a key of its own and continues what its request read.
LEMMA InsertStep ==
  ASSUME InboxInv, NEW r \in Requests, Insert(r)
  PROVE  InboxInv'
<1> DEFINE old == request[r]
<1>1. /\ TypeOK /\ Named /\ KeysApart /\ Answered /\ Reached /\ Hashed /\ Alone
      /\ request = [s \in Requests |-> request[s]] /\ now \in Nat
      /\ sends = [w \in Webhooks |-> sends[w]]
      /\ \A s \in Requests : Written(request[s])
  BY DEF InboxInv
<1>2. /\ old.pc = "insert" /\ ~ held(r) /\ ~ duplicate(r)
      /\ UNCHANGED <<source_events, sends, acknowledged, now, millis, crashes, overlapped>>
  BY DEF Insert
<1>3. PICK id \in 0..2 :
        request' = [request EXCEPT ![r] = after_insert(old, next_row(old, id))]
  <2>1. \E id \in (IF old.rows = {} THEN {1} ELSE {0, 2}) :
          request' = [request EXCEPT ![r] = after_insert(old, next_row(old, id))]
    BY Zenon DEF Insert
  <2>2. (IF old.rows = {} THEN {1} ELSE {0, 2}) \subseteq 0..2
    OBVIOUS
  <2> QED
    BY <2>1, <2>2, Zenon
<1> DEFINE row == next_row(old, id)
           q == after_insert(old, row)
<1>4. /\ open(r) /\ old \in Served /\ Written(old) /\ old.webhook \in Webhooks
      /\ old.key \in Keys /\ old.received_at \in 1..now /\ named(old.key, old.webhook)
  BY <1>1, <1>2 DEF TypeOK, Named, open
<1>5. /\ row \in Rows /\ hashed(row) /\ row.key = old.key /\ row.webhook = old.webhook
      /\ row.received_at = old.received_at /\ row.prev_hash = old.prev
  <2> HIDE DEF old
  <2> QED
    BY <1>1, <1>4, NextRow
<1>6. /\ q \in Served /\ Written(q) /\ q.pc \in {"read", "commit"}
      /\ q.rows = old.rows \cup {row} /\ q.received_at = old.received_at
      /\ q.webhook \in Webhooks /\ q.key \in Keys /\ named(q.key, q.webhook)
  <2> HIDE DEF old, row
  <2> QED
    BY <1>1, <1>2, <1>4, <1>5, AfterInsert
<1> HIDE DEF row, q
<1>7. /\ \A s \in Requests \ {r} : request'[s] = request[s]
      /\ request'[r] = q /\ request' = [s \in Requests |-> request'[s]]
  BY <1>1, <1>3 DEF q, row
<1>8. /\ \A s \in Requests : open(s)' = open(s)
      /\ \A s \in Requests \ {r} : seen(s)' = seen(s)
      /\ seen(r)' = seen(r) \cup {row}
  BY <1>2, <1>4, <1>6, <1>7 DEF open, seen
<1>9. /\ \A p \in seen(r) : p.key # row.key
      /\ \A s \in Requests \ {r} : \A p \in request[s].rows : p.key # row.key
  BY <1>2, <1>5 DEF held, duplicate
<1>10. TypeOK'
  <2>1. ASSUME NEW s \in Requests
        PROVE  /\ request'[s] \in Served
               /\ request'[s].pc # "idle" => request'[s].webhook \in Webhooks
               /\ open(s)' => request'[s].key \in Keys /\ request'[s].received_at \in 1..now'
    <3>1. CASE s = r
      BY <1>2, <1>4, <1>6, <1>7, <3>1
    <3>2. CASE s # r
      BY <1>1, <1>2, <1>7, <1>8, <3>2 DEF TypeOK
    <3> QED
      BY <3>1, <3>2
  <2> QED
    BY <1>1, <1>2, <2>1 DEF TypeOK
<1>11. \A s \in Requests : Written(request'[s])
  BY <1>1, <1>6, <1>7
<1>12. Named'
  <2>1. ASSUME NEW s \in Requests
        PROVE  /\ open(s)' => named(request'[s].key, request'[s].webhook)
               /\ \A x \in request'[s].rows : named(x.key, x.webhook)
    <3>1. CASE s = r
      BY <1>1, <1>4, <1>5, <1>6, <1>7, <3>1 DEF Named
    <3>2. CASE s # r
      BY <1>1, <1>7, <1>8, <3>2 DEF Named
    <3> QED
      BY <3>1, <3>2
  <2> QED
    BY <1>1, <1>2, <2>1 DEF Named, named
<1>13. KeysApart'
  <2>1. ASSUME NEW s \in Requests PROVE \A x, y \in seen(s)' : x.key = y.key => x = y
    BY <1>1, <1>8, <1>9 DEF KeysApart
  <2>2. ASSUME NEW s \in Requests, NEW t \in Requests, s # t,
               NEW x \in request'[s].rows, NEW y \in request'[t].rows
        PROVE  x.key # y.key
    <3>1. CASE s # r /\ t # r
      BY <1>1, <1>7, <2>2, <3>1 DEF KeysApart
    <3>2. CASE s = r
      BY <1>1, <1>6, <1>7, <1>9, <2>2, <3>2 DEF KeysApart
    <3>3. CASE t = r
      BY <1>1, <1>6, <1>7, <1>9, <2>2, <3>3 DEF KeysApart
    <3> QED
      BY <3>1, <3>2, <3>3
  <2> QED
    BY <1>1, <1>2, <2>1, <2>2 DEF KeysApart
<1>14. Answered'
  <2>1. \A w : stored(w)' = stored(w)
    BY <1>2 DEF stored, rows_of, taken
  <2>2. \A w \in acknowledged' : stored(w)'
    BY <1>1, <1>2, <2>1 DEF Answered
  <2>3. \A s \in Requests : request'[s].pc = "reply" => stored(request'[s].webhook)
    BY <1>1, <1>6, <1>7 DEF Answered
  <2>4. \A s \in Requests : (request[s].pc = "reply" => stored(request[s].webhook))'
    BY <1>2, <2>3 DEF stored, rows_of, taken
  <2> QED
    BY <2>2, <2>4 DEF Answered
<1>15. Reached'
  <2>1. HashesReachGenesis' /\ HasLatest(source_events')
    BY <1>1, <1>2 DEF Reached, HashesReachGenesis
  <2>2. HasLatest(q.rows)
    <3>1. HasLatest({row}) /\ {row} \in SUBSET Rows
      BY <1>5 DEF HasLatest, is_latest, before, Rows
    <3>2. HasLatest(old.rows) /\ old.rows \in SUBSET Rows
      BY <1>1, <1>4 DEF Reached, Served
    <3> HIDE DEF old
    <3> QED
      BY <1>6, <3>1, <3>2, LatestOfUnion
  <2>3. \A x \in q.rows : reached(x.prev_hash, seen(r) \cup {row})
    BY <1>1, <1>2, <1>5, <1>6 DEF Reached, reached
  <2>4. ASSUME NEW s \in Requests
        PROVE  /\ HasLatest(request'[s].rows)
               /\ \A x \in request'[s].rows : reached(x.prev_hash, seen(s)')
               /\ request'[s].pc = "insert" => reached(request'[s].prev, seen(s)')
    <3>1. CASE s = r
      BY <1>6, <1>7, <1>8, <2>2, <2>3, <3>1
    <3>2. CASE s # r
      BY <1>1, <1>7, <1>8, <3>2 DEF Reached
    <3> QED
      BY <3>1, <3>2
  <2> QED
    BY <2>1, <2>4 DEF Reached, HasLatest, is_latest, reached
<1>16. Hashed'
  <2>1. \A s \in Requests : \A x \in request'[s].rows : hashed(x)
    BY <1>1, <1>5, <1>6, <1>7 DEF Hashed
  <2> QED
    BY <1>1, <1>2, <2>1 DEF Hashed
<1>17. Alone'
  <2> SUFFICES ASSUME ~ overlapped' PROVE
        /\ \A s, t \in Requests : open(s)' /\ open(t)' => s = t
        /\ \A s \in Requests : open(s)' => Continues(s)'
        /\ in_order(source_events') =>
             \A x \in source_events' : x.prev_hash = expected_prev(x)'
    BY DEF Alone, in_order
  <2>1. /\ \A s, t \in Requests : open(s) /\ open(t) => s = t
        /\ \A s \in Requests : open(s) => Continues(s)
        /\ in_order(source_events) =>
             \A x \in source_events : x.prev_hash = expected_prev(x)
    BY <1>1, <1>2 DEF Alone
  <2>2. Continues(r) /\ \A s \in Requests : open(s)' => s = r
    BY <1>4, <1>8, <2>1
  <2>3. \E p \in q.rows :
          /\ p.prev_hash = tip(source_events)
          /\ \A s \in q.rows \ {p} : s.prev_hash = tip(source_events \cup {p})
    <3>1. row.prev_hash = tip(source_events \cup old.rows)
      BY <1>2, <1>5, <2>2 DEF Continues, seen
    <3>2. CASE old.rows = {}
      <4>1. q.rows = {row} /\ source_events \cup old.rows = source_events
        BY <1>6, <3>2
      <4>2. row.prev_hash = tip(source_events)
        BY <3>1, <4>1
      <4> QED
        BY <4>1, <4>2
    <3>3. CASE old.rows # {}
      <4>1. PICK p \in old.rows : old.rows = {p}
        BY <1>2, <1>4, <3>3 DEF Written
      <4>2. p.prev_hash = tip(source_events)
        BY <2>2, <3>3, <4>1 DEF Continues
      <4>3. row.prev_hash = tip(source_events \cup {p})
        BY <3>1, <4>1
      <4>4. q.rows \ {p} \subseteq {row} /\ p \in q.rows
        BY <1>6, <4>1
      <4> QED
        BY <4>2, <4>3, <4>4
    <3> QED
      BY <3>2, <3>3
  <2>4. Continues(r)'
    <3>1. \A x \in source_events' : x.received_at < q.received_at
      BY <1>2, <1>6, <2>2 DEF Continues
    <3> QED
      BY <1>2, <1>6, <1>7, <2>3, <3>1 DEF Continues
  <2>5. in_order(source_events') =>
          \A x \in source_events' : x.prev_hash = expected_prev(x)'
    BY <1>2, <2>1 DEF expected_prev
  <2> QED
    BY <1>8, <2>1, <2>2, <2>4, <2>5
<1> QED
  BY <1>1, <1>2, <1>7, <1>10, <1>11, <1>12, <1>13, <1>14, <1>15, <1>16, <1>17 DEF InboxInv

-----------------------------------------------------------------------------
(* Committing *)

\* If a set has a row that is after all others, that one is its latest.
LEMMA LatestAdded ==
  ASSUME NEW rows \in SUBSET Rows, NEW p \in Rows,
         \A x \in rows : x.received_at < p.received_at
  PROVE  tip(rows \cup {p}) = p.row_hash
<1>1. /\ p.received_at \in Int /\ p.id \in Int
      /\ \A x \in rows : x.received_at \in Int /\ x.id \in Int
  BY DEF Rows
<1>2. \A x \in rows \cup {p} : (\A q \in rows \cup {p} : ~ before(x, q)) <=> x = p
  BY <1>1 DEF before
<1>3. latest(rows \cup {p}) = p
  BY <1>2 DEF latest
<1> QED
  BY <1>3 DEF tip

\* A transaction that was alone extends a chain that verifies by rows that verify.
LEMMA ChainExtended ==
  ASSUME TypeOK, NEW r \in Requests, Continues(r), Written(request[r]),
         source_events' = source_events \cup request[r].rows,
         in_order(source_events) =>
           \A row \in source_events : row.prev_hash = expected_prev(row),
         in_order(source_events'), NEW row \in source_events'
  PROVE  row.prev_hash = expected_prev(row)'
<1> DEFINE q == request[r]
           earlier == {x \in source_events' : before(x, row)}
<1>1. /\ \A x \in source_events : x.received_at < q.received_at
      /\ \A x \in q.rows : x.received_at = q.received_at
      /\ q.rows = {} \/ \E p \in q.rows : q.rows = {p} \/ \E s \in q.rows : q.rows = {p, s}
  BY DEF Continues, Written
<1>2. /\ \A x \in source_events' : x.received_at \in Int /\ x.id \in Int
      /\ source_events \in SUBSET Rows /\ q.rows \in SUBSET Rows
  BY DEF TypeOK, Served, Rows
<1>3. expected_prev(row)' = tip(earlier)
  BY DEF expected_prev, tip
<1> HIDE DEF q, earlier
<1>4. CASE row \in source_events
  <2>1. in_order(source_events)
    BY DEF in_order
  <2>2. row.prev_hash = expected_prev(row)
    BY <1>4, <2>1
  <2>3. expected_prev(row) = tip({x \in source_events : before(x, row)})
    BY DEF expected_prev, tip
  <2>4. \A x \in q.rows : ~ before(x, row)
    BY <1>1, <1>2, <1>4 DEF before, q
  <2>5. earlier = {x \in source_events : before(x, row)}
    BY <2>4 DEF earlier, q
  <2>6. tip(earlier) = tip({x \in source_events : before(x, row)})
    BY <2>5, Zenon
  <2> QED
    BY <1>3, <2>2, <2>3, <2>6
<1>5. CASE row \in q.rows
  <2>1. PICK p \in q.rows :
          /\ p.prev_hash = tip(source_events)
          /\ \A s \in q.rows \ {p} : s.prev_hash = tip(source_events \cup {p})
    BY <1>5 DEF Continues, q
  <2>2. \A x \in source_events : before(x, row)
    BY <1>1, <1>2, <1>5 DEF before, q
  <2>3. \A s \in q.rows \ {p} : before(p, s) /\ ~ before(s, p)
    <3>1. tip(source_events \cup {p}) = p.row_hash
      BY <1>1, <1>2, <2>1, LatestAdded
    <3>2. \A s \in q.rows \ {p} : before(p, s)
      BY <1>1, <2>1, <3>1 DEF in_order, q
    <3> QED
      BY <1>2, <3>2 DEF before, q
  <2>4. ~ before(row, row)
    BY <1>2 DEF before
  <2>5. CASE row = p
    <3>1. earlier = source_events
      BY <2>2, <2>3, <2>4, <2>5 DEF earlier, q
    <3>2. tip(earlier) = tip(source_events)
      BY <3>1, Zenon
    <3> QED
      BY <1>3, <2>1, <2>5, <3>2
  <2>6. CASE row # p
    <3>1. q.rows \subseteq {p, row}
      BY <1>1, <1>5, <2>1, <2>6
    <3>2. before(p, row)
      BY <1>5, <2>3, <2>6
    <3>3. earlier = source_events \cup {p}
      BY <2>1, <2>2, <2>4, <3>1, <3>2 DEF earlier, q
    <3>4. tip(earlier) = tip(source_events \cup {p})
      BY <3>3, Zenon
    <3> QED
      BY <1>3, <1>5, <2>1, <2>6, <3>4
  <2> QED
    BY <2>5, <2>6
<1> QED
  BY <1>4, <1>5 DEF q

\* Committed rows keep their keys apart and, alone, extend a chain that verifies.
LEMMA CommitStep ==
  ASSUME InboxInv, NEW r \in Requests, Commit(r)
  PROVE  InboxInv'
<1> DEFINE old == request[r]
           q == finished(old)
<1>1. /\ TypeOK /\ Named /\ KeysApart /\ Answered /\ Reached /\ Hashed /\ Alone
      /\ request = [s \in Requests |-> request[s]] /\ now \in Nat
      /\ sends = [w \in Webhooks |-> sends[w]]
      /\ \A s \in Requests : Written(request[s])
  BY DEF InboxInv
<1>2. /\ old.pc = "commit" /\ source_events' = source_events \cup old.rows
      /\ request' = [request EXCEPT ![r] = q]
      /\ UNCHANGED <<sends, acknowledged, now, millis, crashes, overlapped>>
  BY DEF Commit
<1>3. /\ open(r) /\ old \in Served /\ Written(old) /\ old.webhook \in Webhooks
      /\ old.received_at \in 1..now /\ old.rows \in SUBSET Rows
  BY <1>1, <1>2 DEF TypeOK, open, Served
<1> HIDE DEF old
<1>4. /\ q \in Served /\ q.rows = {} /\ q.client = "edge" /\ q.pc \in {"idle", "reply"}
      /\ q.pc = "reply" => q.webhook = old.webhook /\ old.client = "edge"
  <2>1. old.client \in {"edge", "seed"}
    BY <1>3 DEF Served
  <2> QED
    BY <1>3, <2>1, IdleServed DEF finished
<1> HIDE DEF q
<1>5. /\ \A s \in Requests \ {r} : request'[s] = request[s]
      /\ request'[r] = q /\ request[r] = old /\ request' = [s \in Requests |-> request'[s]]
  BY <1>1, <1>2 DEF old
<1>6. /\ \A s \in Requests \ {r} : open(s)' = open(s) /\ seen(s) \subseteq seen(s)'
      /\ \A s \in Requests \ {r} : seen(s)' = seen(s) \cup old.rows
      /\ ~ open(r)' /\ seen(r)' = seen(r) /\ source_events' = seen(r)
  BY <1>2, <1>4, <1>5 DEF open, seen
<1>7. TypeOK'
  <2>1. ASSUME NEW s \in Requests
        PROVE  /\ request'[s] \in Served
               /\ request'[s].pc # "idle" => request'[s].webhook \in Webhooks
               /\ open(s)' => request'[s].key \in Keys /\ request'[s].received_at \in 1..now'
    <3>1. CASE s = r
      BY <1>3, <1>4, <1>5, <1>6, <3>1
    <3>2. CASE s # r
      BY <1>1, <1>2, <1>5, <1>6, <3>2 DEF TypeOK
    <3> QED
      BY <3>1, <3>2
  <2>2. source_events' \subseteq Rows /\ \A row \in source_events' : row.received_at \in 1..now'
    BY <1>1, <1>2, <1>3 DEF TypeOK, Written
  <2> QED
    BY <1>1, <1>2, <2>1, <2>2 DEF TypeOK
<1>8. ASSUME NEW s \in Requests PROVE Written(request'[s])
  <2>1. Written(q)
    BY <1>4 DEF Written
  <2> QED
    BY <1>1, <1>5, <2>1
<1>9. Named'
  <2>1. ASSUME NEW s \in Requests
        PROVE  /\ open(s)' => named(request'[s].key, request'[s].webhook)
               /\ \A x \in request'[s].rows : named(x.key, x.webhook)
    <3>1. CASE s = r
      BY <1>4, <1>5, <1>6, <3>1
    <3>2. CASE s # r
      BY <1>1, <1>5, <1>6, <3>2 DEF Named
    <3> QED
      BY <3>1, <3>2
  <2>2. \A x \in source_events' : named(x.key, x.webhook)
    BY <1>1, <1>2, <1>5 DEF Named
  <2> QED
    BY <1>2, <2>1, <2>2 DEF Named, named
<1>10. KeysApart'
  <2>1. \A x, y \in source_events' : x.key = y.key => x = y
    BY <1>1, <1>6 DEF KeysApart
  <2>2. ASSUME NEW s \in Requests, NEW x \in seen(s)', NEW y \in seen(s)', x.key = y.key
        PROVE  x = y
    <3>1. CASE s = r
      BY <1>6, <2>1, <2>2, <3>1
    <3>2. CASE s # r
      <4>1. \A u \in old.rows, v \in seen(s) : u.key = v.key => u = v
        <5>1. \A u \in old.rows, v \in source_events : u.key = v.key => u = v
          BY <1>1, <1>5 DEF KeysApart, seen
        <5>2. \A u \in old.rows, v \in request[s].rows : u.key # v.key
          BY <1>1, <1>5, <3>2 DEF KeysApart
        <5> QED
          BY <5>1, <5>2 DEF seen
      <4>2. \A u, v \in old.rows : u.key = v.key => u = v
        BY <1>1, <1>5 DEF KeysApart, seen
      <4>3. \A u, v \in seen(s) : u.key = v.key => u = v
        BY <1>1 DEF KeysApart
      <4>4. x \in seen(s) \cup old.rows /\ y \in seen(s) \cup old.rows
        BY <1>6, <2>2, <3>2
      <4> QED
        BY <2>2, <4>1, <4>2, <4>3, <4>4
    <3> QED
      BY <3>1, <3>2
  <2>3. \A s, t \in Requests : s # t =>
          \A x \in request'[s].rows, y \in request'[t].rows : x.key # y.key
    BY <1>1, <1>4, <1>5 DEF KeysApart
  <2> QED
    BY <2>1, <2>2, <2>3 DEF KeysApart
<1>11. Answered'
  <2> DEFINE there(w) ==
        \/ \E x \in source_events' : x.webhook = w
        \/ ~ identified(w) /\ \E ms \in 0..millis' : \E x \in source_events' :
                                                         x.key = external_id(w, ms)
  <2>1. \A w : stored(w) => there(w)
    BY <1>2 DEF stored, rows_of, taken
  <2>2. q.pc = "reply" => there(q.webhook)
    <3>1. old.client = "edge" => \E p \in old.rows : p.webhook = old.webhook
      BY <1>2, <1>3 DEF Written
    <3> QED
      BY <1>2, <1>4, <3>1
  <2>3. \A w \in acknowledged' : there(w)
    BY <1>1, <1>2, <2>1 DEF Answered
  <2>4. \A s \in Requests : request'[s].pc = "reply" => there(request'[s].webhook)
    <3> HIDE DEF there
    <3>1. \A s \in Requests : request[s].pc = "reply" => there(request[s].webhook)
      BY <1>1, <2>1 DEF Answered
    <3> QED
      BY <1>5, <2>2, <3>1
  <2>5. \A w : there(w) => stored(w)'
    BY DEF stored, rows_of, taken
  <2>6. \A s \in Requests : (request[s].pc = "reply" => stored(request[s].webhook))'
    BY <2>4 DEF stored, rows_of, taken
  <2>7. \A w \in acknowledged' : stored(w)'
    BY <2>3, <2>5
  <2> QED
    BY <2>6, <2>7 DEF Answered
<1>12. HasLatest(source_events) /\ HasLatest(old.rows)
  BY <1>1, <1>5 DEF Reached
<1>13. Reached'
  <2>1. HasLatest(source_events')
    BY <1>1, <1>2, <1>3, <1>12, LatestOfUnion DEF TypeOK
  <2>2. \A x \in source_events' : reached(x.prev_hash, source_events')
    <3>1. \A x \in source_events : reached(x.prev_hash, source_events')
      BY <1>1, <1>2 DEF Reached, HashesReachGenesis, reached
    <3>2. \A x \in old.rows : reached(x.prev_hash, source_events')
      BY <1>1, <1>5, <1>6 DEF Reached
    <3> QED
      BY <1>2, <3>1, <3>2
  <2>3. ASSUME NEW s \in Requests
        PROVE  /\ HasLatest(request'[s].rows)
               /\ \A x \in request'[s].rows : reached(x.prev_hash, seen(s)')
               /\ request'[s].pc = "insert" => reached(request'[s].prev, seen(s)')
    <3>1. CASE s = r
      BY <1>4, <1>5, <3>1 DEF HasLatest
    <3>2. CASE s # r
      BY <1>1, <1>5, <1>6, <3>2 DEF Reached, reached
    <3> QED
      BY <3>1, <3>2
  <2>4. HashesReachGenesis'
    BY <2>2 DEF HashesReachGenesis, reached
  <2> QED
    BY <2>1, <2>3, <2>4 DEF Reached, HasLatest, is_latest, reached
<1>14. Hashed'
  <2>1. /\ \A x \in source_events' : hashed(x)
        /\ \A s \in Requests : \A x \in request'[s].rows : hashed(x)
    BY <1>1, <1>2, <1>4, <1>5 DEF Hashed
  <2> QED
    BY <2>1 DEF Hashed
<1>15. Alone'
  <2> SUFFICES ASSUME ~ overlapped' PROVE
        /\ \A s, t \in Requests : open(s)' /\ open(t)' => s = t
        /\ \A s \in Requests : open(s)' => Continues(s)'
        /\ in_order(source_events') =>
             \A x \in source_events' : x.prev_hash = expected_prev(x)'
    BY DEF Alone, in_order
  <2>1. /\ \A s, t \in Requests : open(s) /\ open(t) => s = t
        /\ Continues(r)
        /\ in_order(source_events) =>
             \A x \in source_events : x.prev_hash = expected_prev(x)
    BY <1>1, <1>2, <1>3 DEF Alone
  <2>2. \A s \in Requests : ~ open(s)'
    BY <1>3, <1>6, <2>1
  <2>3. in_order(source_events') =>
          \A x \in source_events' : x.prev_hash = expected_prev(x)'
    BY <1>1, <1>2, <1>5, <2>1, ChainExtended
  <2> QED
    BY <2>2, <2>3
<1> QED
  BY <1>1, <1>2, <1>5, <1>7, <1>8, <1>9, <1>10, <1>11, <1>13, <1>14, <1>15 DEF InboxInv

\* The invariant is inductive.
LEMMA InboxStep == InboxInv /\ [Next]_vars => InboxInv'
<1> SUFFICES ASSUME InboxInv, [Next]_vars PROVE InboxInv'
  OBVIOUS
<1>1. millis \in Nat /\ millis <= MaxMillis
  BY InboxAssumption DEF InboxInv, TypeOK
<1>2. CASE UNCHANGED vars
  BY <1>1, <1>2, TickStep DEF vars
<1>3. CASE Tick
  BY <1>1, <1>3, InboxAssumption, TickStep DEF Tick
<1>4. ASSUME NEW r \in Requests, NEW w \in Webhooks, Receive(r, w) PROVE InboxInv'
  BY <1>4, ReceiveStep
<1>5. ASSUME NEW r \in Requests, SeedDemo(r) PROVE InboxInv'
  BY <1>5, SeedStep
<1>6. ASSUME NEW r \in Requests, ReadTip(r) PROVE InboxInv'
  BY <1>6, ReadTipStep
<1>7. ASSUME NEW r \in Requests, Insert(r) PROVE InboxInv'
  BY <1>7, InsertStep
<1>8. ASSUME NEW r \in Requests, Duplicate(r) PROVE InboxInv'
  BY <1>8, DuplicateStep
<1>9. ASSUME NEW r \in Requests, Commit(r) PROVE InboxInv'
  BY <1>9, CommitStep
<1>10. ASSUME NEW r \in Requests, Reply(r) PROVE InboxInv'
  BY <1>10, ReplyStep
<1>11. ASSUME NEW r \in Requests, Crash(r) PROVE InboxInv'
  BY <1>11, CrashStep
<1>12. CASE Quiet
  BY <1>2, <1>12 DEF Quiet
<1> QED
  BY <1>2, <1>3, <1>4, <1>5, <1>6, <1>7, <1>8, <1>9, <1>10, <1>11, <1>12 DEF Next, Step

\* Every reachable state of the inbox satisfies the invariant.
LEMMA InboxInductive == Spec => []InboxInv
BY InboxInit, InboxStep, PTL DEF Spec

-----------------------------------------------------------------------------
(* The theorems *)

\* Rows of the inbox, those not yet committed too, have values of their columns' types.
THEOREM InboxTypeCorrect == Spec => []TypeOK
<1>1. InboxInv => TypeOK
  BY DEF InboxInv
<1> QED
  BY <1>1, InboxInductive, PTL

\* A webhook with an id of its own makes at most one row, whoever delivers it how
\* often and wherever its requests crash, and what was acknowledged is in the inbox.
THEOREM WebhooksAreStoredOnce == Spec => []StoredOnce
<1>1. InboxInv => StoredOnce
  <2> SUFFICES ASSUME InboxInv, NEW w \in Webhooks
               PROVE  /\ identified(w) => Cardinality(rows_of(w)) <= 1
                      /\ w \in acknowledged => stored(w)
    BY DEF StoredOnce, stored
  <2>1. w \in acknowledged => stored(w)
    BY DEF InboxInv, Answered
  <2>2. ASSUME identified(w) PROVE Cardinality(rows_of(w)) <= 1
    <3>1. \A p \in rows_of(w) : p.key = <<Content[w].source, Content[w].id>>
      BY <2>2 DEF InboxInv, Named, named, rows_of, identified, external_id
    <3>2. \A p, q \in rows_of(w) : p = q
      BY <3>1 DEF InboxInv, KeysApart, rows_of
    <3>3. CASE rows_of(w) = {}
      BY <3>3, FS_EmptySet
    <3>4. CASE rows_of(w) # {}
      <4>1. PICK p : p \in rows_of(w)
        BY <3>4
      <4>2. rows_of(w) = {p}
        BY <3>2, <4>1
      <4> QED
        BY <4>2, FS_Singleton
    <3> QED
      BY <3>3, <3>4
  <2> QED
    BY <2>1, <2>2
<1> QED
  BY <1>1, InboxInductive, PTL

\* The hash that a row continues is the genesis hash or that of a row that is there,
\* however requests overlap, fail and crash.
THEOREM ChainIsConnected == Spec => []HashesReachGenesis
<1>1. InboxInv => HashesReachGenesis
  BY DEF InboxInv, Reached
<1> QED
  BY <1>1, InboxInductive, PTL

\* verify_chain accepts an untouched inbox whose transactions never overlapped, with
\* payloads both sides encode alike and the seed's rows in the order of their ids.
THEOREM UntouchedChainVerifies == Spec => []ChainVerifiesAlone
<1>1. InboxInv => ChainVerifiesAlone
  <2> SUFFICES ASSUME InboxInv, ~ overlapped,
                      \A row \in source_events : Content[row.webhook].portable,
                      in_order(source_events), NEW row \in source_events
               PROVE  /\ row.prev_hash = expected_prev(row)
                      /\ row.row_hash = computeRowHash(expected_prev(row), row.key,
                                                       canonical_bytes(row.webhook))
    BY DEF ChainVerifiesAlone, ChainVerifies, in_order
  <2>1. row.prev_hash = expected_prev(row)
    BY DEF InboxInv, Alone
  <2>2. row.row_hash = computeRowHash(row.prev_hash, row.key, canonical_bytes(row.webhook))
    BY DEF InboxInv, Hashed, hashed
  <2> QED
    BY <2>1, <2>2
<1> QED
  BY <1>1, InboxInductive, PTL
=============================================================================
