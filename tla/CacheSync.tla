------------------------------ MODULE CacheSync ------------------------------
(***************************************************************************)
(* The write-behind cache (pkg/db/cache_sync.go).  Set and Delete change   *)
(* the redis cache and note a dirty entry; Flush, run by the ticker loop,  *)
(* by a Set that finds too many dirty entries, by Close or by hand, writes *)
(* the entries to the database in batches and then drops them.  How        *)
(* GetMulti sorts out its list of identifiers is in MultiGet; what it does *)
(* to the cache is here.                                                   *)
(*                                                                         *)
(* One entity type.  A write is a number, so that no two rows are equal;   *)
(* row 0 is what the database held at the start.  The asynchronous         *)
(* database layer is used as AsyncService describes it: a statement        *)
(* succeeds, fails (after which it may or may not have been applied), or   *)
(* is dropped, and then its caller waits on resultChan for ever.           *)
(* Statistics are left out; Version, Tags, DirtyTTL and the "flushing"     *)
(* status are never used by the code.                                      *)
(***************************************************************************)
EXTENDS Integers, FiniteSets

CONSTANTS
  Key,            \* entity identifiers
  Writer,         \* goroutines that call Set, SetMulti, Delete, DeleteMulti
  Reader,         \* goroutines that call Get and GetMulti
  Kicker,         \* names for the goroutines that "go cs.Flush" starts
  BatchSize,      \* entries per flushBatch
  MaxDirtySize,   \* dirty entries at which a Set starts a Flush
  MaxWrites,      \* bound on the number of calls of Set and Delete
  MaxFaults,      \* bound on failed and dropped statements
  NoRow,          \* "the row does not exist"
  Miss,           \* "not in the cache"
  Clean           \* "no dirty entry"

ASSUME CacheAssumption ==
  /\ BatchSize \in Nat \ {0}
  /\ MaxDirtySize \in Nat
  /\ MaxWrites \in Nat
  /\ MaxFaults \in Nat
  /\ IsFiniteSet(Kicker) /\ Cardinality(Kicker) >= MaxWrites
  /\ Kicker \cap {"ticker", "close"} = {}
  /\ NoRow \notin 0..MaxWrites
  /\ Miss \notin 0..MaxWrites
  /\ Clean \notin [num : 1..MaxWrites, row : 0..MaxWrites \cup {NoRow}, status : {"new", "pending"}]

\* the goroutines that run Flush: the ticker loop (a call by hand is like a
\* tick), those started by a Set, one each, and Close
Flusher == {"ticker", "close"} \cup Kicker

Client == Writer \cup Reader

VARIABLES
  cache,      \* redis: the row cached under each key, or Miss
  db,         \* the database: the row of each key, or NoRow
  dirty,      \* dirtyEntries: [num, row, status] or Clean
  client,     \* what each client is doing
  flusher,    \* what each run of Flush is doing
  kicks,      \* "go cs.Flush" goroutines not yet running
  closed,     \* isClosed
  writes,     \* number of writes so far
  faults,     \* number of statements that failed or were dropped
  latest,     \* history: the row of the last write noted as dirty
  direct,     \* history: keys written with Immediate
  overlapped, \* history: keys written while a Flush held an older write of them
  raced,      \* history: keys on which two client calls overlapped
  astray,     \* history: keys cached by a Set that then failed, or asked from the
              \* database by a GetMulti although dirty, and not Set again since
  failed,     \* history: entries whose flush failed or was dropped
  flushed     \* history: how often a Flush applied each write to each key

vars == <<cache, db, dirty, client, flusher, kicks, closed, writes, faults, latest, direct,
          overlapped, raced, astray, failed, flushed>>

Idle      == [op |-> "idle"]
Rested    == [pc |-> "idle", todo |-> {}, batch |-> {}, sent |-> {}]
Row       == 0..MaxWrites \cup {NoRow}
Sendable  == (1..MaxWrites) \X Key      \* a write, and a key it is for

Init ==
  /\ cache = [k \in Key |-> Miss]
  /\ db \in [Key -> {0, NoRow}]
  /\ dirty = [k \in Key |-> Clean]
  /\ client = [c \in Client |-> Idle]
  /\ flusher = [f \in Flusher |-> Rested]
  /\ kicks = 0
  /\ closed = FALSE
  /\ writes = 0
  /\ faults = 0
  /\ latest = db
  /\ direct = {}
  /\ overlapped = {}
  /\ raced = {}
  /\ astray = {}
  /\ failed = {}
  /\ flushed = [p \in Sendable |-> 0]

-----------------------------------------------------------------------------
(* Statements.                                                              *)

\* UPDATE ... WHERE id changes only a row that exists
Updated(d, k, row) == IF d[k] = NoRow THEN d ELSE [d EXCEPT ![k] = row]

\* DELETE ... WHERE id IN
Deleted(d, K) == [k \in Key |-> IF k \in K THEN NoRow ELSE d[k]]

StatementOk(applied) == db' = applied /\ UNCHANGED faults

StatementBad(applied) ==
  /\ faults < MaxFaults
  /\ faults' = faults + 1
  /\ db' \in {db, applied}

-----------------------------------------------------------------------------
(* Set, SetMulti, Delete, DeleteMulti.                                      *)

\* the keys of the client calls in progress
BusyKeys ==
  UNION {client[c].keys : c \in {d \in Client : client[d].op \notin {"idle", "hung"}}}

HeldKeys == {e.key : e \in UNION {flusher[f].todo \cup flusher[f].batch : f \in Flusher}}

\* the cache is written first
SetCache(c, K, imm) ==
  /\ client[c] = Idle
  /\ writes < MaxWrites
  /\ writes' = writes + 1
  /\ cache' = [k \in Key |-> IF k \in K THEN writes + 1 ELSE cache[k]]
  /\ client' = [client EXCEPT ![c] =
       [op |-> "set", keys |-> K, num |-> writes + 1, row |-> writes + 1, imm |-> imm]]
  /\ raced' = raced \cup (K \cap BusyKeys)
  /\ astray' = astray \ K
  /\ UNCHANGED <<db, dirty, flusher, kicks, closed, faults, latest, direct, overlapped, failed, flushed>>

\* an error of the cache ends the call, but redis may have applied the SET or
\* MSET; if it has not, nothing changed
SetCacheFails(c, K) ==
  /\ client[c] = Idle
  /\ writes < MaxWrites
  /\ writes' = writes + 1
  /\ cache' = [k \in Key |-> IF k \in K THEN writes + 1 ELSE cache[k]]
  /\ astray' = astray \cup K
  /\ UNCHANGED <<db, dirty, client, flusher, kicks, closed, faults, latest, direct, overlapped,
                 raced, failed, flushed>>

\* errors of the cache's Delete are ignored, so any part may stay cached
DeleteCache(c, K, imm) ==
  /\ client[c] = Idle
  /\ writes < MaxWrites
  /\ writes' = writes + 1
  /\ \E gone \in SUBSET K : cache' = [k \in Key |-> IF k \in gone THEN Miss ELSE cache[k]]
  /\ client' = [client EXCEPT ![c] =
       [op |-> "delete", keys |-> K, num |-> writes + 1, row |-> NoRow, imm |-> imm]]
  /\ raced' = raced \cup (K \cap BusyKeys)
  /\ UNCHANGED <<db, dirty, flusher, kicks, closed, faults, latest, direct, overlapped, astray,
                 failed, flushed>>

DirtyCount(d) == Cardinality({k \in Key : d[k] # Clean})

\* under the lock the new entries replace older ones; a Set that finds
\* MaxDirtySize entries starts a Flush
MarkDirty(c) ==
  /\ client[c].op \in {"set", "delete"}
  /\ ~client[c].imm
  /\ LET w == client[c] IN
       /\ dirty' = [k \in Key |->
            IF k \in w.keys THEN [num |-> w.num, row |-> w.row, status |-> "new"] ELSE dirty[k]]
       /\ latest' = [k \in Key |-> IF k \in w.keys THEN w.row ELSE latest[k]]
       /\ overlapped' = overlapped \cup (w.keys \cap HeldKeys)
       /\ kicks' = IF w.op = "set" /\ DirtyCount(dirty') >= MaxDirtySize THEN kicks + 1 ELSE kicks
  /\ client' = [client EXCEPT ![c] = Idle]
  /\ UNCHANGED <<cache, db, flusher, closed, writes, faults, direct, raced, astray, failed, flushed>>

\* flushEntry and flushEntities for an Immediate Set: one UPDATE per key, the
\* first failure ends the call; older dirty entries are left where they are
SetNow(c, k) ==
  /\ client[c].op = "set" /\ client[c].imm
  /\ k \in client[c].keys
  /\ direct' = direct \cup client[c].keys
  /\ LET w == client[c]
         rest == IF w.keys = {k} THEN Idle ELSE [w EXCEPT !.keys = @ \ {k}]
     IN \/ /\ StatementOk(Updated(db, k, w.row))
           /\ client' = [client EXCEPT ![c] = rest]
        \/ /\ StatementBad(Updated(db, k, w.row))
           /\ \E after \in {Idle, [op |-> "hung"]} : client' = [client EXCEPT ![c] = after]
  /\ UNCHANGED <<cache, dirty, flusher, kicks, closed, writes, latest, overlapped, raced, astray,
                 failed, flushed>>

\* executeDelete, executeDeleteMulti for an Immediate Delete: one statement
DeleteNow(c) ==
  /\ client[c].op = "delete" /\ client[c].imm
  /\ direct' = direct \cup client[c].keys
  /\ \/ /\ StatementOk(Deleted(db, client[c].keys))
        /\ client' = [client EXCEPT ![c] = Idle]
     \/ /\ StatementBad(Deleted(db, client[c].keys))
        /\ \E after \in {Idle, [op |-> "hung"]} : client' = [client EXCEPT ![c] = after]
  /\ UNCHANGED <<cache, dirty, flusher, kicks, closed, writes, latest, overlapped, raced, astray,
                 failed, flushed>>

-----------------------------------------------------------------------------
(* Get and GetMulti.  A hit changes nothing and has no action.              *)

\* Get: the cache misses, or its Get fails
GetMiss(c, k) ==
  /\ client[c] = Idle
  /\ client' = [client EXCEPT ![c] = [op |-> "miss", keys |-> {k}]]
  /\ raced' = raced \cup ({k} \cap BusyKeys)
  /\ UNCHANGED <<cache, db, dirty, flusher, kicks, closed, writes, faults, latest, direct, overlapped,
                 astray, failed, flushed>>

\* GetMulti: MGet does not have the keys K
MultiMiss(c, K) ==
  /\ client[c] = Idle
  /\ \A k \in K : cache[k] = Miss
  /\ client' = [client EXCEPT ![c] = [op |-> "missMulti", keys |-> K]]
  /\ raced' = raced \cup (K \cap BusyKeys)
  /\ UNCHANGED <<cache, db, dirty, flusher, kicks, closed, writes, faults, latest, direct, overlapped,
                 astray, failed, flushed>>

\* mutant: an entry a Flush has taken is not looked at any more
DirtyDataNew(k) ==
  IF dirty[k] # Clean /\ dirty[k].status = "new" THEN dirty[k].row ELSE NoRow

\* the data of the dirty entry; a pending delete has none
DirtyData(k) == IF dirty[k] # Clean THEN dirty[k].row ELSE NoRow

\* a Get or GetMulti that has rows to cache
Fill(rows) == [op |-> "fill", keys |-> DOMAIN rows, rows |-> rows]

\* Get: the dirty entry is read under the lock and used after it is released;
\* a pending delete (no data) falls through to the database
GetDirty(c, k) ==
  /\ client[c].op = "miss" /\ k \in client[c].keys
  /\ client' = [client EXCEPT ![c] =
       IF DirtyData(k) # NoRow THEN Fill([j \in {k} |-> DirtyData(k)])
       ELSE [op |-> "query", keys |-> {k}]]
  /\ UNCHANGED <<cache, db, dirty, flusher, kicks, closed, writes, faults, latest, direct, overlapped,
                 raced, astray, failed, flushed>>

\* What GetMulti's loop over the missing keys K, D of them with dirty data, may
\* find and leave to ask.  It removes keys from the list it ranges over, which
\* may name a key twice: a dirty key may be skipped, or found and asked as well.
Sorted(K, D, found, asked) ==
  /\ K = found \cup asked
  /\ D # {} => found # {}
  /\ D = K => asked # K

\* GetMulti: the dirty entries are read, and cached, under one read lock; the
\* errors of the cache's Set are ignored
MultiDirty(c) ==
  /\ client[c].op = "missMulti"
  /\ LET K == client[c].keys
         D == {k \in K : DirtyData(k) # NoRow}
     IN \E found \in SUBSET D, asked \in SUBSET K :
          /\ Sorted(K, D, found, asked)
          /\ \E filled \in SUBSET found :
               cache' = [k \in Key |-> IF k \in filled THEN DirtyData(k) ELSE cache[k]]
          /\ astray' = astray \cup (asked \cap D)
          /\ client' = [client EXCEPT ![c] =
               IF asked = {} THEN Idle ELSE [op |-> "query", keys |-> asked]]
  /\ UNCHANGED <<db, dirty, flusher, kicks, closed, writes, faults, latest, direct, overlapped,
                 raced, failed, flushed>>

\* the SELECT runs; Get returns an error when there is no row, GetMulti goes on
\* with the rows there are; a failure is returned as an error, a dropped
\* statement leaves the caller waiting
GetQuery(c) ==
  /\ client[c].op = "query"
  /\ \/ /\ LET there == {k \in client[c].keys : db[k] # NoRow} IN
            client' = [client EXCEPT ![c] =
              IF there = {} THEN Idle ELSE Fill([k \in there |-> db[k]])]
        /\ UNCHANGED faults
     \/ /\ faults < MaxFaults
        /\ faults' = faults + 1
        /\ \E after \in {Idle, [op |-> "hung"]} : client' = [client EXCEPT ![c] = after]
  /\ UNCHANGED <<cache, db, dirty, flusher, kicks, closed, writes, latest, direct, overlapped,
                 raced, astray, failed, flushed>>

\* cache.Set with what was read, one key after the other; its error is ignored
GetFill(c, k) ==
  /\ client[c].op = "fill" /\ k \in client[c].keys
  /\ \E row \in {client[c].rows[k], cache[k]} : cache' = [cache EXCEPT ![k] = row]
  /\ LET rest == client[c].keys \ {k} IN
       client' = [client EXCEPT ![c] =
         IF rest = {} THEN Idle ELSE Fill([j \in rest |-> client[c].rows[j]])]
  /\ UNCHANGED <<db, dirty, flusher, kicks, closed, writes, faults, latest, direct, overlapped,
                 raced, astray, failed, flushed>>

\* redis: CacheTTL runs out
Expire(k) ==
  /\ cache[k] # Miss
  /\ cache' = [cache EXCEPT ![k] = Miss]
  /\ UNCHANGED <<db, dirty, client, flusher, kicks, closed, writes, faults, latest, direct, overlapped,
                 raced, astray, failed, flushed>>

-----------------------------------------------------------------------------
(* Flush.                                                                   *)

Entry(k) == [key |-> k, num |-> dirty[k].num, row |-> dirty[k].row]

\* mutant: pending entries are taken again
TakesAny(e) == e # Clean

\* Flush takes the entries nobody has taken yet
Takes(e) == e # Clean /\ e.status = "new"

\* who may call Flush now: the ticker loop once the last call has returned,
\* Close, and each goroutine a Set has started
MayFlush(f) ==
  /\ flusher[f].pc = IF f = "close" THEN "starting" ELSE "idle"
  /\ f \in Kicker => kicks > 0

\* Close: only the first caller goes on to the last Flush
CloseMark ==
  /\ ~closed
  /\ closed' = TRUE
  /\ flusher' = [flusher EXCEPT !["close"].pc = "starting"]
  /\ UNCHANGED <<cache, db, dirty, client, kicks, writes, faults, latest, direct, overlapped,
                 raced, astray, failed, flushed>>

\* Flush, under the lock: new entries become pending; with none it returns
FlushStart(f) ==
  /\ MayFlush(f)
  /\ LET taken == {k \in Key : Takes(dirty[k])} IN
       /\ flusher' = [flusher EXCEPT ![f] =
            IF taken = {} THEN Rested
            ELSE [Rested EXCEPT !.pc = "run", !.todo = {Entry(k) : k \in taken}]]
       /\ dirty' = [k \in Key |-> IF k \in taken THEN [dirty[k] EXCEPT !.status = "pending"] ELSE dirty[k]]
  /\ kicks' = IF f \in Kicker THEN kicks - 1 ELSE kicks
  /\ UNCHANGED <<cache, db, client, closed, writes, faults, latest, direct, overlapped,
                 raced, astray, failed, flushed>>

\* entries[start:end]: BatchSize entries, or all that are left
IsBatch(B, todo) == Cardinality(B) = BatchSize \/ (B = todo /\ Cardinality(B) < BatchSize)

\* Flush: the next flushBatch
NextBatch(f) ==
  /\ flusher[f].pc = "run" /\ flusher[f].batch = {}
  /\ \E B \in SUBSET flusher[f].todo :
       /\ B # {}
       /\ IsBatch(B, flusher[f].todo)
       /\ flusher' = [flusher EXCEPT ![f].batch = B, ![f].todo = @ \ B]
  /\ UNCHANGED <<cache, db, dirty, client, kicks, closed, writes, faults, latest, direct, overlapped,
                 raced, astray, failed, flushed>>

Updates(B) == {e \in B : e.row # NoRow}
Deletes(B) == B \ Updates(B)
KeysOf(B)  == {e.key : e \in B}

\* a statement of the batch failed: flushBatch returns and its entries stay
\* pending; or it was dropped and the flusher waits for ever
GiveUp(f) ==
  /\ failed' = failed \cup flusher[f].batch
  /\ \E pc \in {"run", "hung"} :
       flusher' = [flusher EXCEPT ![f].pc = pc, ![f].batch = {}, ![f].sent = {}]

Applied(B) == [p \in Sendable |->
  IF \E e \in B : <<e.num, e.key>> = p THEN flushed[p] + 1 ELSE flushed[p]]

\* flushEntities: the UPDATE of one entry
FlushUpdate(f, e) ==
  /\ flusher[f].pc = "run"
  /\ e \in Updates(flusher[f].batch) \ flusher[f].sent
  /\ \/ /\ StatementOk(Updated(db, e.key, e.row))
        /\ flusher' = [flusher EXCEPT ![f].sent = @ \cup {e}]
        /\ flushed' = Applied({e})
        /\ UNCHANGED failed
     \/ /\ StatementBad(Updated(db, e.key, e.row))
        /\ GiveUp(f)
        /\ UNCHANGED flushed
  /\ UNCHANGED <<cache, dirty, client, kicks, closed, writes, latest, direct, overlapped, raced,
                 astray>>

\* executeDeleteMulti: one DELETE after all updates
FlushDelete(f) ==
  /\ flusher[f].pc = "run"
  /\ Updates(flusher[f].batch) \subseteq flusher[f].sent
  /\ LET D == Deletes(flusher[f].batch) IN
       /\ D # {} /\ ~(D \subseteq flusher[f].sent)
       /\ \/ /\ StatementOk(Deleted(db, KeysOf(D)))
             /\ flusher' = [flusher EXCEPT ![f].sent = @ \cup D]
             /\ flushed' = Applied(D)
             /\ UNCHANGED failed
          \/ /\ StatementBad(Deleted(db, KeysOf(D)))
             /\ GiveUp(f)
             /\ UNCHANGED flushed
  /\ UNCHANGED <<cache, dirty, client, kicks, closed, writes, latest, direct, overlapped, raced,
                 astray>>

\* mutant: the entries of the whole Flush are dropped with the first batch
DoneKeysEarly(f) == KeysOf(flusher[f].batch \cup flusher[f].todo)

\* mutant: nothing is removed
DoneKeysNone(f) == {}

\* the keys of the batch
DoneKeys(f) == KeysOf(flusher[f].batch)

\* flushBatch: the dirty entries of the batch are removed, by key
FlushClean(f) ==
  /\ flusher[f].pc = "run"
  /\ flusher[f].batch # {} /\ flusher[f].batch \subseteq flusher[f].sent
  /\ dirty' = [k \in Key |-> IF k \in DoneKeys(f) THEN Clean ELSE dirty[k]]
  /\ flusher' = [flusher EXCEPT ![f].batch = {}, ![f].sent = {}]
  /\ UNCHANGED <<cache, db, client, kicks, closed, writes, faults, latest, direct, overlapped,
                 raced, astray, failed, flushed>>

\* mutant: one batch too few is counted
NothingLeftEarly(f) == Cardinality(flusher[f].todo) <= BatchSize

\* all batchCount batches were tried
NothingLeft(f) == flusher[f].todo = {}

\* Flush returns
FlushReturn(f) ==
  /\ flusher[f].pc = "run" /\ flusher[f].batch = {} /\ NothingLeft(f)
  /\ flusher' = [flusher EXCEPT ![f] = Rested]
  /\ UNCHANGED <<cache, db, dirty, client, kicks, closed, writes, faults, latest, direct, overlapped,
                 raced, astray, failed, flushed>>

\* flushLoop: select picks stopChan (a tick still in the channel may win first)
LoopEnds ==
  /\ closed
  /\ flusher["ticker"].pc = "idle"
  /\ flusher' = [flusher EXCEPT !["ticker"].pc = "ended"]
  /\ UNCHANGED <<cache, db, dirty, client, kicks, closed, writes, faults, latest, direct, overlapped,
                 raced, astray, failed, flushed>>

-----------------------------------------------------------------------------
Write(c) ==
  \/ \E K \in SUBSET Key \ {{}}, imm \in BOOLEAN : SetCache(c, K, imm) \/ DeleteCache(c, K, imm)
  \/ \E K \in SUBSET Key \ {{}} : SetCacheFails(c, K)
  \/ MarkDirty(c) \/ DeleteNow(c) \/ \E k \in Key : SetNow(c, k)

Read(c) ==
  \/ \E k \in Key : GetMiss(c, k) \/ GetDirty(c, k) \/ GetFill(c, k)
  \/ \E K \in SUBSET Key \ {{}} : MultiMiss(c, K)
  \/ MultiDirty(c) \/ GetQuery(c)

FlushStep(f) ==
  \/ NextBatch(f) \/ FlushDelete(f) \/ FlushClean(f) \/ FlushReturn(f)
  \/ \E e \in flusher[f].batch : FlushUpdate(f, e)

Next ==
  \/ \E c \in Writer : Write(c)
  \/ \E c \in Reader : Read(c)
  \/ \E f \in Flusher : FlushStart(f) \/ FlushStep(f)
  \/ \E k \in Key : Expire(k)
  \/ CloseMark
  \/ LoopEnds

Spec == Init /\ [][Next]_vars

(* Fairness: the ticker keeps ticking, and a Flush under way goes on.  No   *)
(* client is obliged to call anything, or to finish a call.                 *)
Fairness == WF_vars(FlushStart("ticker")) /\ \A f \in Flusher : WF_vars(FlushStep(f))

FairSpec == Spec /\ Fairness

-----------------------------------------------------------------------------
(* Properties.                                                              *)

\* The shape of the state; in particular a batch never exceeds BatchSize and
\* what was sent of it is part of it (Flush, flushBatch).
TypeOK ==
  /\ cache \in [Key -> Row \cup {Miss}]
  /\ db \in [Key -> Row]
  /\ \A k \in Key : dirty[k] # Clean =>
       dirty[k] \in [num : 1..MaxWrites, row : Row, status : {"new", "pending"}]
  /\ \A c \in Client : client[c].op \in
       {"idle", "set", "delete", "miss", "missMulti", "query", "fill", "hung"}
  /\ \A f \in Flusher :
       /\ flusher[f].pc \in {"idle", "starting", "run", "hung", "ended"}
       /\ flusher[f].todo \cup flusher[f].batch \subseteq [key : Key, num : 1..MaxWrites, row : Row]
       /\ flusher[f].todo \cap flusher[f].batch = {}
       /\ flusher[f].sent \subseteq flusher[f].batch
       /\ Cardinality(flusher[f].batch) <= BatchSize
  /\ kicks \in 0..MaxWrites
  /\ latest \in [Key -> Row]

\* However the runs of Flush (ticker, Set, Close, by hand) interleave, no
\* write is sent to the database by two of them: Flush takes an entry by
\* moving it from "new" to "pending" under the lock.
FlushedOnce == \A p \in Sendable : flushed[p] <= 1

\* A pending entry is in the hands of a run of Flush, or its flush failed.
PendingIsOwned ==
  \A k \in Key : dirty[k] # Clean /\ dirty[k].status = "pending" =>
    \/ Entry(k) \in failed
    \/ \E f \in Flusher : Entry(k) \in flusher[f].todo \cup flusher[f].batch

\* The plain course of write-behind: for a key that was never written with
\* Immediate and never rewritten while a Flush held it, "no dirty entry" means
\* that the row, if there is one, is that of the last write, also when earlier
\* flushes of the key failed.
CleanMeansStored ==
  \A k \in Key \ (direct \cup overlapped) :
    dirty[k] = Clean => db[k] \in {latest[k], NoRow}

\* What a Get can hit: for a key whose last write was a Set, the cache holds
\* that write or nothing, also after an expiry, a refill from the dirty entry
\* or from the database by Get or GetMulti, and a failed Flush.  Left out are
\* keys with client calls that overlapped, keys written with Immediate or
\* rewritten while a Flush held them, and keys that a failed Set or GetMulti's
\* loop led astray, until the next Set.
CacheIsFresh ==
  \A k \in Key \ (direct \cup overlapped \cup raced \cup astray \cup BusyKeys) :
    latest[k] # NoRow => cache[k] \in {latest[k], Miss}

\* "存储实体数据（先写缓存，定期刷新到数据库）" (cache_sync.go:124): also when a
\* key is rewritten during a Flush, no dirty entry means that the last write
\* is in the database.
NoLostUpdate ==
  \A k \in Key \ (direct \cup KeysOf(failed)) :
    dirty[k] = Clean => db[k] \in {latest[k], NoRow}

\* the entry was in a batch that failed or was dropped, or waits behind one in
\* a run of Flush that will not return
GivenUp(e) == e \in failed \/ \E f \in Flusher : flusher[f].pc = "hung" /\ e \in flusher[f].todo

\* "定期刷新脏数据" (flushLoop): while the cache is open, a dirty entry is written
\* and removed in the end, unless a run of Flush gave up this very entry, or a
\* dropped statement has left the ticker loop itself waiting on resultChan.  A
\* run of Flush that waits for ever holds up no later entry, of its key either.
FlushedInTheEnd ==
  \A k \in Key : dirty[k] # Clean ~>
    dirty[k] = Clean \/ closed \/ GivenUp(Entry(k)) \/ flusher["ticker"].pc = "hung"
=============================================================================
