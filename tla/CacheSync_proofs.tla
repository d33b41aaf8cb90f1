-------------------------- MODULE CacheSync_proofs --------------------------
(***************************************************************************)
(* What CacheSync's runs check on small instances, proved for any keys,    *)
(* clients, batch size and bounds.                                         *)
(***************************************************************************)
EXTENDS CacheSync, TLAPS

-----------------------------------------------------------------------------
(* The inductive invariant.                                                 *)

DirtyEntry == [num : 1..MaxWrites, row : Row, status : {"new", "pending"}]
FlushEntry == [key : Key, num : 1..MaxWrites, row : Row]
FlusherRun == [pc : {"idle", "starting", "run", "hung", "ended"}, todo : SUBSET FlushEntry,
               batch : SUBSET FlushEntry, sent : SUBSET FlushEntry]

\* the entries a run of Flush has taken, and those it has not yet sent
Held(f) == flusher[f].todo \cup flusher[f].batch
Due(f)  == flusher[f].todo \cup (flusher[f].batch \ flusher[f].sent)

Writing(c) == client[c].op \in {"set", "delete"}
Busy(c)    == client[c].op \notin {"idle", "hung"}
Reading    == {"miss", "missMulti", "query", "fill"}

\* The shape of the state.
Types ==
  /\ writes \in 0..MaxWrites
  /\ cache \in [Key -> Row \cup {Miss}]
  /\ db \in [Key -> Row]
  /\ latest \in [Key -> Row]
  /\ dirty \in [Key -> DirtyEntry \cup {Clean}]
  /\ flusher \in [Flusher -> FlusherRun]
  /\ flushed \in [Sendable -> Nat]
  /\ client = [c \in Client |-> client[c]]

\* What a client in the middle of a call carries.
Calls ==
  \A c \in Client :
    /\ client[c].op \in {"idle", "hung", "set", "delete"} \cup Reading
    /\ Writing(c) =>
         /\ client[c].keys \subseteq Key
         /\ client[c].num \in 1..writes
         /\ client[c].row = IF client[c].op = "set" THEN client[c].num ELSE NoRow
    /\ client[c].op \in Reading => client[c].keys \subseteq Key
    /\ client[c].op = "fill" => \A k \in client[c].keys : client[c].rows[k] \in Row

\* A run of Flush that is not under way holds nothing; what it sent is part of
\* its batch, and the batch is no longer to do; a batch's deletes are sent
\* together.
Runs ==
  /\ ~closed => flusher["close"].pc = "idle"
  /\ \A f \in Flusher :
       /\ flusher[f].pc \in {"idle", "starting", "ended"} => Held(f) = {}
       /\ flusher[f].todo \cap flusher[f].batch = {}
       /\ flusher[f].sent \subseteq flusher[f].batch
       /\ \/ Deletes(flusher[f].batch) \subseteq flusher[f].sent
          \/ Deletes(flusher[f].batch) \cap flusher[f].sent = {}

\* Write numbers are handed out in order.
Numbers ==
  /\ \A k \in Key : dirty[k] # Clean => dirty[k].num <= writes
  /\ \A f \in Flusher : \A e \in Held(f) : e.num <= writes
  /\ \A n \in 1..MaxWrites, k \in Key : flushed[<<n, k>>] > 0 => n <= writes

\* The write a client has not yet noted as dirty is nobody else's.
OwnWrite ==
  \A c \in Client : Writing(c) =>
    /\ \A d \in Client : Writing(d) /\ client[d].num = client[c].num => d = c
    /\ \A k \in Key : dirty[k] # Clean => dirty[k].num # client[c].num
    /\ \A f \in Flusher : \A e \in Held(f) : e.num # client[c].num
    /\ \A k \in Key : flushed[<<client[c].num, k>>] = 0

\* One run of Flush at most holds a write of a key, and none holds a new one.
OneHolder ==
  /\ \A f, g \in Flusher : \A e \in Held(f), x \in Held(g) :
       e.key = x.key /\ e.num = x.num => f = g /\ e = x
  /\ \A k \in Key, f \in Flusher : Takes(dirty[k]) =>
       \A e \in Held(f) : e.key = k => e.num # dirty[k].num

\* What was not sent was not applied.
NotYet ==
  /\ \A k \in Key : Takes(dirty[k]) => flushed[<<dirty[k].num, k>>] = 0
  /\ \A f \in Flusher : \A e \in Due(f) : flushed[<<e.num, e.key>>] = 0
  /\ FlushedOnce

\* Along the plain course the dirty entry is the last write, a run of Flush
\* holds that entry or none, and what it has sent is in the database.
InStepAt(k) ==
  /\ dirty[k] # Clean => dirty[k].row = latest[k]
  /\ \A f \in Flusher : \A e \in Held(f) : e.key = k =>
       /\ dirty[k] # Clean /\ dirty[k].status = "pending" /\ e = Entry(k)
       /\ e \in flusher[f].sent => db[k] \in {latest[k], NoRow}

InStep == \A k \in Key \ (direct \cup overlapped) : InStepAt(k)

\* Where client calls do not overlap, the one call on a key knows the cache.
ApartAt(k) ==
  /\ \A c, d \in Client : Busy(c) /\ Busy(d) /\ k \in client[c].keys /\ k \in client[d].keys => c = d
  /\ \A c \in Client : client[c].op = "set" /\ k \in client[c].keys =>
       cache[k] \in {client[c].row, Miss}
  /\ latest[k] # NoRow =>
       /\ (\A c \in Client : Writing(c) => k \notin client[c].keys) => cache[k] \in {latest[k], Miss}
       /\ \A c \in Client : client[c].op = "query" /\ k \in client[c].keys => dirty[k] = Clean
       /\ \A c \in Client : client[c].op = "fill" /\ k \in client[c].keys => client[c].rows[k] = latest[k]

Apart == \A k \in Key \ (direct \cup overlapped \cup raced \cup astray) : ApartAt(k)

IInv ==
  /\ Types /\ Calls /\ Runs /\ Numbers /\ OwnWrite /\ OneHolder /\ NotYet
  /\ PendingIsOwned /\ InStep /\ CleanMeansStored /\ Apart

-----------------------------------------------------------------------------
(* Facts the steps share.                                                   *)

\* A dirty entry is not the mark for "no dirty entry".
LEMMA EntryIsDirty ==
  ASSUME NEW n \in 1..MaxWrites, NEW row \in Row, NEW st \in {"new", "pending"}
  PROVE  [num |-> n, row |-> row, status |-> st] \in DirtyEntry \ {Clean}
BY CacheAssumption DEF DirtyEntry, Row

\* A number of a write is a row.
LEMMA NumberIsRow == \A n \in 0..MaxWrites : n \in Row /\ n # NoRow /\ n # Miss
BY CacheAssumption DEF Row

\* What the shape of the state says of an entry.
LEMMA Shapes ==
  ASSUME Types
  PROVE  /\ \A k \in Key : dirty[k] # Clean =>
              /\ dirty[k].num \in 1..MaxWrites /\ dirty[k].row \in Row
              /\ dirty[k].status \in {"new", "pending"} /\ dirty[k] \in DirtyEntry
         /\ \A f \in Flusher : /\ flusher[f].todo \subseteq FlushEntry
                               /\ flusher[f].batch \subseteq FlushEntry
                               /\ flusher[f].sent \subseteq FlushEntry
                               /\ Held(f) \subseteq FlushEntry
         /\ \A n \in 1..MaxWrites, k \in Key : flushed[<<n, k>>] \in Nat
         /\ \A e \in FlushEntry : e.key \in Key /\ e.num \in 1..MaxWrites /\ e.row \in Row
<1>1. \A k \in Key : dirty[k] # Clean => dirty[k] \in DirtyEntry
  BY Zenon DEF Types
<1>2. \A e \in DirtyEntry : e.num \in 1..MaxWrites /\ e.row \in Row /\ e.status \in {"new", "pending"}
  BY DEF DirtyEntry
<1>3. \A f \in Flusher : /\ flusher[f].todo \subseteq FlushEntry
                        /\ flusher[f].batch \subseteq FlushEntry
                        /\ flusher[f].sent \subseteq FlushEntry
  BY DEF Types, FlusherRun
<1>4. \A n \in 1..MaxWrites, k \in Key : flushed[<<n, k>>] \in Nat
  BY DEF Types, Sendable
<1>5. \A e \in FlushEntry : e.key \in Key /\ e.num \in 1..MaxWrites /\ e.row \in Row
  BY DEF FlushEntry
<1>6. \A f \in Flusher : Held(f) \subseteq FlushEntry
  BY Zenon, <1>3 DEF Held
<1>. QED  BY Zenon, <1>1, <1>2, <1>3, <1>4, <1>5, <1>6

\* BusyKeys holds the keys of the calls in progress.
LEMMA BusyKey ==
  ASSUME NEW k, k \notin BusyKeys, NEW c \in Client, Busy(c)
  PROVE  k \notin client[c].keys
BY Zenon DEF BusyKeys, Busy

\* HeldKeys holds the keys of what runs of Flush have taken.
LEMMA HeldKey ==
  ASSUME NEW f \in Flusher, NEW e \in Held(f)
  PROVE  e.key \in HeldKeys
BY Zenon DEF HeldKeys, Held

\* A call of Set, Delete or Get, before it has noted or written anything,
\* touches nothing that Flush works on.
LEMMA ClientFrame ==
  ASSUME IInv,
         UNCHANGED <<db, dirty, flusher, closed, latest, direct, overlapped, failed, flushed>>
  PROVE  /\ Runs' /\ OneHolder' /\ NotYet' /\ PendingIsOwned' /\ InStep' /\ CleanMeansStored'
<1>1. Runs'
  BY Zenon DEF IInv, Runs, Held
<1>2. OneHolder'
  BY DEF IInv, OneHolder, Held, Takes
<1>3. NotYet'
  BY Zenon DEF IInv, NotYet, FlushedOnce, Due, Takes
<1>4. PendingIsOwned'
  BY Zenon DEF IInv, PendingIsOwned, Entry
<1>5. InStep'
  BY DEF IInv, InStep, InStepAt, Held, Entry
<1>6. CleanMeansStored'
  BY Zenon DEF IInv, CleanMeansStored
<1>. QED  BY Zenon, <1>1, <1>2, <1>3, <1>4, <1>5, <1>6

\* The step of client c replaces what c is doing.
LEMMA ClientStep ==
  ASSUME Types, NEW c \in Client, NEW r, client' = [client EXCEPT ![c] = r]
  PROVE  /\ client' = [d \in Client |-> client'[d]]
         /\ client'[c] = r
         /\ \A d \in Client : d # c => client'[d] = client[d]
BY Zenon DEF Types

\* The same, read off the state the step ends in.
LEMMA ClientNow ==
  ASSUME Types, NEW c \in Client, NEW r, client' = [client EXCEPT ![c] = r]
  PROVE  client'[c] = r /\ client' = [client EXCEPT ![c] = client'[c]]
BY DEF Types

-----------------------------------------------------------------------------
(* Set and Delete.                                                          *)

\* A write with a new number, by a client that was idle.
LEMMA NewWrite ==
  ASSUME IInv, NEW c \in Client, client[c] = Idle, writes < MaxWrites, writes' = writes + 1,
         NEW r, client' = [client EXCEPT ![c] = r],
         NEW K \in SUBSET Key, r.op \in {"set", "delete"}, r.keys = K, r.num = writes + 1,
         r.row = IF r.op = "set" THEN r.num ELSE NoRow,
         UNCHANGED <<db, dirty, flusher, closed, latest, direct, overlapped, failed, flushed>>
  PROVE  /\ cache' \in [Key -> Row \cup {Miss}] => Types'
         /\ Calls' /\ Numbers' /\ OwnWrite'
<1>1. /\ client' = [d \in Client |-> client'[d]]
      /\ client'[c] = r
      /\ \A d \in Client : d # c => client'[d] = client[d]
  BY Zenon, ClientStep DEF IInv
<1>2. /\ writes \in Nat /\ MaxWrites \in Nat /\ writes' \in 0..MaxWrites /\ writes' \in 1..writes'
      /\ writes' \in 1..MaxWrites
      /\ \A n \in 1..writes : n \in 1..writes' /\ n # writes'
      /\ \A n \in 1..MaxWrites : n <= writes => n <= writes' /\ n # writes'
  BY CacheAssumption DEF IInv, Types
<1>3. ASSUME cache' \in [Key -> Row \cup {Miss}]  PROVE Types'
  BY Zenon, <1>1, <1>2, <1>3 DEF IInv, Types
<1>4. Calls'
  BY Zenon, <1>1, <1>2 DEF IInv, Calls, Writing
<1>5. /\ \A k \in Key : dirty[k] # Clean => dirty[k].num <= writes /\ dirty[k].num \in 1..MaxWrites
      /\ \A f \in Flusher : \A e \in Held(f) : e.num <= writes /\ e.num \in 1..MaxWrites
      /\ \A n \in 1..MaxWrites, k \in Key : flushed[<<n, k>>] > 0 => n <= writes
  BY Zenon, Shapes DEF IInv, Numbers
<1>6. Numbers'
  BY <1>2, <1>5 DEF Numbers, Held
<1>7. \A k \in Key : flushed[<<writes', k>>] = 0
  <2>1. \A k \in Key : flushed[<<writes', k>>] \in Nat /\ ~(flushed[<<writes', k>>] > 0)
    BY Zenon, <1>2, <1>5, Shapes DEF IInv
  <2>2. \A n \in Nat : ~(n > 0) => n = 0
    OBVIOUS
  <2>. QED  BY Zenon, <2>1, <2>2
<1>8. OwnWrite'
  <2>1. ASSUME NEW a \in Client, Writing(a)', a # c
        PROVE  /\ Writing(a) /\ client'[a] = client[a] /\ client[a].num # writes'
    BY Zenon, <1>1, <1>2, <2>1 DEF IInv, Calls, Writing
  <2>2. client'[c].num = writes'
    BY Zenon, <1>1
  <2>3. ASSUME NEW a \in Client, Writing(a)'
        PROVE  /\ \A d \in Client : Writing(d)' /\ client'[d].num = client'[a].num => d = a
               /\ \A k \in Key : dirty'[k] # Clean => dirty'[k].num # client'[a].num
               /\ \A f \in Flusher : \A e \in Held(f)' : e.num # client'[a].num
               /\ \A k \in Key : flushed'[<<client'[a].num, k>>] = 0
    <3>1. CASE a = c
      BY Zenon, <1>2, <1>5, <1>7, <2>1, <2>2, <3>1 DEF Held
    <3>2. CASE a # c
      <4>1. Writing(a) /\ client'[a] = client[a] /\ client[a].num # writes'
        BY Zenon, <2>1, <2>3, <3>2
      <4>2. /\ \A k \in Key : dirty[k] # Clean => dirty[k].num # client[a].num
            /\ \A f \in Flusher : \A e \in Held(f) : e.num # client[a].num
            /\ \A k \in Key : flushed[<<client[a].num, k>>] = 0
        BY Zenon, <4>1 DEF IInv, OwnWrite
      <4>3. \A d \in Client : Writing(d)' /\ client'[d].num = client'[a].num => d = a
        BY Zenon, <2>1, <2>2, <4>1 DEF IInv, OwnWrite
      <4>. QED  BY Zenon, <4>1, <4>2, <4>3 DEF Held
    <3>. QED  BY Zenon, <3>1, <3>2
  <2>. QED  BY Zenon, <2>3 DEF OwnWrite
<1>. QED  BY Zenon, <1>3, <1>4, <1>6, <1>8

\* Set writes the cache first.
LEMMA SetCacheKeeps ==
  ASSUME IInv, NEW c \in Client, NEW K \in SUBSET Key, NEW imm, SetCache(c, K, imm)
  PROVE  IInv'
<1> DEFINE r == [op |-> "set", keys |-> K, num |-> writes + 1, row |-> writes + 1, imm |-> imm]
<1>1. /\ client[c] = Idle /\ writes < MaxWrites /\ writes' = writes + 1
      /\ cache' = [k \in Key |-> IF k \in K THEN writes + 1 ELSE cache[k]]
      /\ client' = [client EXCEPT ![c] = r]
      /\ raced' = raced \cup (K \cap BusyKeys) /\ astray' = astray \ K
      /\ UNCHANGED <<db, dirty, flusher, closed, latest, direct, overlapped, failed, flushed>>
  BY Zenon DEF SetCache
<1>2. /\ r.op = "set" /\ r.keys = K /\ r.num = writes + 1 /\ r.row = writes + 1
      /\ client[c].op = "idle"
  BY <1>1 DEF Idle
<1>. HIDE DEF r
<1>3. writes + 1 \in 0..MaxWrites
  BY <1>1, CacheAssumption DEF IInv, Types
<1>4. cache' \in [Key -> Row \cup {Miss}]
  BY Zenon, <1>1, <1>3, NumberIsRow DEF IInv, Types
<1>5. Types' /\ Calls' /\ Numbers' /\ OwnWrite'
  <2>1. /\ r.op \in {"set", "delete"}
        /\ r.row = IF r.op = "set" THEN r.num ELSE NoRow
    BY Zenon, <1>2
  <2>. QED  BY Zenon, <1>1, <1>2, <1>4, <2>1, NewWrite
<1>6. /\ Runs' /\ OneHolder' /\ NotYet' /\ PendingIsOwned' /\ InStep' /\ CleanMeansStored'
  BY Zenon, <1>1, ClientFrame
<1>7. Apart'
  <2>1. client'[c] = r /\ \A d \in Client : d # c => client'[d] = client[d]
    BY Zenon, <1>1, ClientStep DEF IInv
  <2>2. SUFFICES ASSUME NEW k \in Key \ (direct \cup overlapped \cup raced \cup astray)',
                        k \in K => k \notin BusyKeys, k \notin K => ApartAt(k)
                 PROVE  ApartAt(k)'
    BY Zenon, <1>1 DEF IInv, Apart
  <2>3. /\ ~Busy(c) /\ ~Writing(c)
    BY Zenon, <1>2 DEF Busy, Writing
  <2>4. CASE k \in K
    <3>1. \A d \in Client : d # c /\ Busy(d)' => k \notin client'[d].keys
      BY Zenon, <2>1, <2>2, <2>4, BusyKey DEF Busy
    <3>2. cache'[k] = client'[c].row
      BY Zenon, <1>1, <1>2, <2>1, <2>4
    <3>3. client'[c].op = "set" /\ client'[c].keys = K
      BY Zenon, <1>2, <2>1
    <3>. QED  BY Zenon, <1>1, <3>1, <3>2, <3>3, <2>4 DEF ApartAt, Busy, Writing
  <2>5. CASE k \notin K
    <3>1. k \notin client'[c].keys /\ cache'[k] = cache[k]
      BY Zenon, <1>1, <1>2, <2>1, <2>5
    <3>. QED  BY ZenonT(40), <1>1, <3>1, <2>1, <2>2, <2>3, <2>5 DEF ApartAt, Busy, Writing
  <2>. QED  BY Zenon, <2>4, <2>5
<1>. QED  BY Zenon, <1>5, <1>6, <1>7 DEF IInv

\* Set fails, but redis has what it wrote.
LEMMA SetCacheFailsKeeps ==
  ASSUME IInv, NEW c \in Client, NEW K \in SUBSET Key, SetCacheFails(c, K)
  PROVE  IInv'
<1>1. /\ writes < MaxWrites /\ writes' = writes + 1
      /\ cache' = [k \in Key |-> IF k \in K THEN writes + 1 ELSE cache[k]]
      /\ astray' = astray \cup K
      /\ UNCHANGED <<db, dirty, client, flusher, closed, latest, direct, overlapped, raced,
                     failed, flushed>>
  BY Zenon DEF SetCacheFails
<1>2. /\ writes' \in 0..MaxWrites
      /\ \A n \in 1..writes : n \in 1..writes'
      /\ \A n \in 1..MaxWrites : n <= writes => n <= writes'
  BY <1>1, CacheAssumption DEF IInv, Types
<1>3. cache' \in [Key -> Row \cup {Miss}]
  BY Zenon, <1>1, <1>2, NumberIsRow DEF IInv, Types
<1>4. Types'
  BY Zenon, <1>1, <1>2, <1>3 DEF IInv, Types
<1>5. Calls'
  BY Zenon, <1>1, <1>2 DEF IInv, Calls, Writing
<1>6. Numbers'
  <2>1. /\ \A k \in Key : dirty[k] # Clean => dirty[k].num <= writes /\ dirty[k].num \in 1..MaxWrites
        /\ \A f \in Flusher : \A e \in Held(f) : e.num <= writes /\ e.num \in 1..MaxWrites
        /\ \A n \in 1..MaxWrites, k \in Key : flushed[<<n, k>>] > 0 => n <= writes
    BY Zenon, Shapes DEF IInv, Numbers
  <2>. QED  BY Zenon, <1>1, <1>2, <2>1 DEF Numbers, Held
<1>7. OwnWrite'
  BY Zenon, <1>1 DEF IInv, OwnWrite, Writing, Held
<1>8. Apart'
  <2>1. SUFFICES ASSUME NEW k \in Key \ (direct \cup overlapped \cup raced \cup astray)',
                        k \notin K, ApartAt(k)
                 PROVE  ApartAt(k)'
    BY Zenon, <1>1 DEF IInv, Apart
  <2>2. cache'[k] = cache[k]
    BY Zenon, <1>1, <2>1
  <2>. QED  BY Zenon, <1>1, <2>1, <2>2 DEF ApartAt, Busy, Writing
<1>. QED  BY Zenon, <1>1, <1>4, <1>5, <1>6, <1>7, <1>8, ClientFrame DEF IInv

\* Delete clears the cache first, or part of it.
LEMMA DeleteCacheKeeps ==
  ASSUME IInv, NEW c \in Client, NEW K \in SUBSET Key, NEW imm, DeleteCache(c, K, imm)
  PROVE  IInv'
<1> DEFINE r == [op |-> "delete", keys |-> K, num |-> writes + 1, row |-> NoRow, imm |-> imm]
<1>1. /\ client[c] = Idle /\ writes < MaxWrites /\ writes' = writes + 1
      /\ client' = [client EXCEPT ![c] = r]
      /\ raced' = raced \cup (K \cap BusyKeys)
      /\ UNCHANGED <<db, dirty, flusher, closed, latest, direct, overlapped, astray, failed, flushed>>
  BY Zenon DEF DeleteCache
<1>2. PICK gone \in SUBSET K : cache' = [k \in Key |-> IF k \in gone THEN Miss ELSE cache[k]]
  BY Zenon DEF DeleteCache
<1>3. /\ r.op = "delete" /\ r.keys = K /\ r.num = writes + 1 /\ r.row = NoRow
      /\ client[c].op = "idle"
  BY <1>1 DEF Idle
<1>. HIDE DEF r
<1>4. cache' \in [Key -> Row \cup {Miss}]
  BY Zenon, <1>2 DEF IInv, Types
<1>5. Types' /\ Calls' /\ Numbers' /\ OwnWrite'
  <2>1. /\ r.op \in {"set", "delete"}
        /\ r.row = IF r.op = "set" THEN r.num ELSE NoRow
    BY Zenon, <1>3
  <2>. QED  BY Zenon, <1>1, <1>3, <1>4, <2>1, NewWrite
<1>6. /\ Runs' /\ OneHolder' /\ NotYet' /\ PendingIsOwned' /\ InStep' /\ CleanMeansStored'
  BY Zenon, <1>1, ClientFrame
<1>7. Apart'
  <2>1. client'[c] = r /\ \A d \in Client : d # c => client'[d] = client[d]
    BY Zenon, <1>1, ClientStep DEF IInv
  <2>2. SUFFICES ASSUME NEW k \in Key \ (direct \cup overlapped \cup raced \cup astray)',
                        k \in K => k \notin BusyKeys, ApartAt(k)
                 PROVE  ApartAt(k)'
    BY Zenon, <1>1 DEF IInv, Apart
  <2>3. /\ ~Busy(c) /\ ~Writing(c)
    BY Zenon, <1>3 DEF Busy, Writing
  <2>4. CASE k \in K
    <3>1. \A d \in Client : d # c /\ Busy(d)' => k \notin client'[d].keys
      BY Zenon, <2>1, <2>2, <2>4, BusyKey DEF Busy
    <3>2. client'[c].op = "delete" /\ client'[c].keys = K
      BY Zenon, <1>3, <2>1
    <3>. QED  BY Zenon, <1>1, <3>1, <3>2, <2>4 DEF ApartAt, Busy, Writing
  <2>5. CASE k \notin K
    <3>1. k \notin client'[c].keys /\ cache'[k] = cache[k]
      BY Zenon, <1>2, <1>3, <2>1, <2>5
    <3>. QED  BY ZenonT(40), <1>1, <3>1, <2>1, <2>2, <2>3 DEF ApartAt, Busy, Writing
  <2>. QED  BY Zenon, <2>4, <2>5
<1>. QED  BY Zenon, <1>5, <1>6, <1>7 DEF IInv

\* The new entries replace older ones, under the lock.
LEMMA MarkDirtyKeeps ==
  ASSUME IInv, NEW c \in Client, MarkDirty(c)
  PROVE  IInv'
<1> DEFINE w == client[c]
<1> DEFINE new == [num |-> w.num, row |-> w.row, status |-> "new"]
<1>1. /\ Writing(c)
      /\ dirty' = [k \in Key |-> IF k \in w.keys THEN new ELSE dirty[k]]
      /\ latest' = [k \in Key |-> IF k \in w.keys THEN w.row ELSE latest[k]]
      /\ overlapped' = overlapped \cup (w.keys \cap HeldKeys)
      /\ client' = [client EXCEPT ![c] = Idle]
      /\ UNCHANGED <<cache, db, flusher, closed, writes, direct, raced, astray, failed, flushed>>
  BY Zenon DEF MarkDirty, Writing
<1>2. /\ w.keys \subseteq Key /\ w.num \in 1..writes
      /\ w.row = IF w.op = "set" THEN w.num ELSE NoRow
  BY Zenon, <1>1 DEF IInv, Calls
<1>3. w.num \in 1..MaxWrites /\ w.num \in 0..MaxWrites /\ w.num <= writes
  BY <1>2, CacheAssumption DEF IInv, Types
<1>4. w.row \in Row
  BY Zenon, <1>2, <1>3, NumberIsRow DEF Row
<1>5. new \in DirtyEntry /\ new # Clean
  BY Zenon, <1>3, <1>4, EntryIsDirty
<1>6. new.num = w.num /\ new.row = w.row /\ new.status = "new"
  OBVIOUS
<1>7. Idle.op = "idle"
  BY DEF Idle
<1>. HIDE DEF new
<1>8. /\ client' = [d \in Client |-> client'[d]]
      /\ client'[c] = Idle
      /\ \A d \in Client : d # c => client'[d] = client[d]
  BY Zenon, <1>1, ClientStep DEF IInv
<1>9. \A k \in Key : /\ k \in w.keys => dirty'[k] = new /\ latest'[k] = w.row
                     /\ k \notin w.keys => dirty'[k] = dirty[k] /\ latest'[k] = latest[k]
  BY Zenon, <1>1
<1>10. \A d \in Client : Writing(d)' => Writing(d) /\ d # c /\ client'[d] = client[d]
  BY Zenon, <1>7, <1>8 DEF Writing
<1>11. Types'
  <2>1. dirty' \in [Key -> DirtyEntry \cup {Clean}]
    BY Zenon, <1>1, <1>5 DEF IInv, Types
  <2>2. latest' \in [Key -> Row]
    BY Zenon, <1>1, <1>4 DEF IInv, Types
  <2>. QED  BY Zenon, <1>1, <1>8, <2>1, <2>2 DEF IInv, Types
<1>12. Calls'
  BY Zenon, <1>1, <1>7, <1>8 DEF IInv, Calls, Writing, Reading
<1>13. Runs'
  BY Zenon, <1>1 DEF IInv, Runs, Held
<1>14. Numbers'
  <2>1. \A k \in Key : dirty'[k] # Clean => dirty'[k].num <= writes
    BY Zenon, <1>3, <1>6, <1>9 DEF IInv, Numbers
  <2>. QED  BY Zenon, <1>1, <2>1 DEF IInv, Numbers, Held
<1>15. OwnWrite'
  <2>1. ASSUME NEW a \in Client, Writing(a)'
        PROVE  /\ \A d \in Client : Writing(d)' /\ client'[d].num = client'[a].num => d = a
               /\ \A k \in Key : dirty'[k] # Clean => dirty'[k].num # client'[a].num
               /\ \A f \in Flusher : \A e \in Held(f)' : e.num # client'[a].num
               /\ \A k \in Key : flushed'[<<client'[a].num, k>>] = 0
    <3>1. Writing(a) /\ a # c /\ client'[a] = client[a]
      BY Zenon, <1>10, <2>1
    <3>2. /\ \A d \in Client : Writing(d) /\ client[d].num = client[a].num => d = a
          /\ \A k \in Key : dirty[k] # Clean => dirty[k].num # client[a].num
          /\ \A f \in Flusher : \A e \in Held(f) : e.num # client[a].num
          /\ \A k \in Key : flushed[<<client[a].num, k>>] = 0
          /\ client[a].num # w.num
      BY Zenon, <1>1, <3>1 DEF IInv, OwnWrite
    <3>. QED  BY ZenonT(40), <1>1, <1>6, <1>9, <1>10, <3>1, <3>2 DEF Held
  <2>. QED  BY Zenon, <2>1 DEF OwnWrite
<1>16. /\ \A k \in Key : flushed[<<w.num, k>>] = 0
       /\ \A f \in Flusher : \A e \in Held(f) : e.num # w.num
  BY Zenon, <1>1 DEF IInv, OwnWrite
<1>17. OneHolder'
  <2>1. \A k \in Key, f \in Flusher : Takes(dirty'[k]) =>
          \A e \in Held(f) : e.key = k => e.num # dirty'[k].num
    <3>1. ASSUME NEW k \in Key, NEW f \in Flusher, Takes(dirty'[k]), NEW e \in Held(f), e.key = k
          PROVE  e.num # dirty'[k].num
      <4>1. CASE k \in w.keys
        BY Zenon, <1>6, <1>9, <1>16, <4>1
      <4>2. CASE k \notin w.keys
        <5>1. dirty'[k] = dirty[k]
          BY Zenon, <1>9, <4>2
        <5>2. Takes(dirty[k])
          BY Zenon, <3>1, <5>1
        <5>. QED  BY Zenon, <3>1, <5>1, <5>2 DEF IInv, OneHolder
      <4>. QED  BY Zenon, <4>1, <4>2
    <3>. QED  BY Zenon, <3>1
  <2>2. \A f \in Flusher : Held(f)' = Held(f)
    BY Zenon, <1>1 DEF Held
  <2>. QED  BY <2>1, <2>2 DEF IInv, OneHolder, Takes
<1>18. NotYet'
  <2>1. \A k \in Key : Takes(dirty'[k]) => flushed[<<dirty'[k].num, k>>] = 0
    BY Zenon, <1>6, <1>9, <1>16 DEF IInv, NotYet
  <2>2. \A f \in Flusher : Due(f)' = Due(f)
    BY Zenon, <1>1 DEF Due
  <2>. QED  BY Zenon, <1>1, <2>1, <2>2 DEF IInv, NotYet, FlushedOnce, Takes
<1>19. PendingIsOwned'
  <2>1. ASSUME NEW k \in Key, dirty'[k] # Clean, dirty'[k].status = "pending"
        PROVE  dirty'[k] = dirty[k]
    BY Zenon, <1>6, <1>9, <2>1
  <2>. QED  BY Zenon, <1>1, <2>1 DEF IInv, PendingIsOwned, Entry
<1>20. InStep'
  <2>1. SUFFICES ASSUME NEW k \in Key \ (direct \cup overlapped)',
                        k \in w.keys => k \notin HeldKeys, InStepAt(k)
                 PROVE  InStepAt(k)'
    BY Zenon, <1>1 DEF IInv, InStep
  <2>2. CASE k \in w.keys
    <3>1. \A f \in Flusher : \A e \in Held(f) : e.key # k
      BY Zenon, <2>1, <2>2, HeldKey
    <3>. QED  BY Zenon, <1>1, <1>6, <1>9, <2>2, <3>1 DEF InStepAt, Held
  <2>3. CASE k \notin w.keys
    BY Zenon, <1>1, <1>9, <2>1, <2>3 DEF InStepAt, Held, Entry
  <2>. QED  BY Zenon, <2>2, <2>3
<1>21. CleanMeansStored'
  BY Zenon, <1>1, <1>5, <1>9 DEF IInv, CleanMeansStored
<1>22. Apart'
  <2>1. SUFFICES ASSUME NEW k \in Key \ (direct \cup overlapped \cup raced \cup astray)', ApartAt(k)
                 PROVE  ApartAt(k)'
    BY Zenon, <1>1 DEF IInv, Apart
  <2>2. ~Busy(c)' /\ Busy(c)
    BY Zenon, <1>1, <1>7, <1>8 DEF Busy, Writing
  <2>3. CASE k \in w.keys
    <3>1. \A d \in Client : Busy(d)' => k \notin client'[d].keys
      BY Zenon, <1>8, <2>1, <2>2, <2>3 DEF ApartAt, Busy
    <3>2. w.row # NoRow => cache[k] \in {w.row, Miss}
      BY Zenon, <1>2, <2>1, <2>3 DEF ApartAt
    <3>. QED  BY Zenon, <1>1, <1>9, <2>3, <3>1, <3>2 DEF ApartAt, Busy
  <2>4. CASE k \notin w.keys
    <3>1. ASSUME \A d \in Client : Writing(d)' => k \notin client'[d].keys
          PROVE  \A d \in Client : Writing(d) => k \notin client[d].keys
      BY Zenon, <1>8, <2>4, <3>1 DEF Writing
    <3>2. dirty'[k] = dirty[k] /\ latest'[k] = latest[k] /\ cache' = cache
      BY Zenon, <1>1, <1>9, <2>4
    <3>3. \A d \in Client : d = c \/ client'[d] = client[d]
      BY Zenon, <1>8
    <3>. QED  BY ZenonT(40), <1>7, <1>8, <2>1, <2>2, <3>1, <3>2, <3>3 DEF ApartAt, Busy
  <2>. QED  BY Zenon, <2>3, <2>4
<1>. QED
  BY Zenon, <1>11, <1>12, <1>13, <1>14, <1>15, <1>17, <1>18, <1>19, <1>20, <1>21, <1>22 DEF IInv

\* An Immediate Set or Delete writes to the database and goes on, or ends.
LEMMA WriteNow ==
  ASSUME IInv, NEW c \in Client, Writing(c), direct' = direct \cup client[c].keys,
         db' \in [Key -> Row], \A k \in Key : k \notin client[c].keys => db'[k] = db[k],
         NEW x, client' = [client EXCEPT ![c] = x],
         \/ x.op \in {"idle", "hung"}
         \/ /\ x.op = client[c].op /\ x.num = client[c].num /\ x.row = client[c].row
            /\ x.keys \subseteq client[c].keys,
         UNCHANGED <<cache, dirty, flusher, closed, writes, latest, overlapped, raced, astray, failed, flushed>>
  PROVE  IInv'
<1>1. /\ client' = [d \in Client |-> client'[d]]
      /\ client'[c] = x
      /\ \A d \in Client : d # c => client'[d] = client[d]
  BY Zenon, ClientStep DEF IInv
<1>2. \A d \in Client : Writing(d)' =>
        /\ Writing(d) /\ client'[d].op = client[d].op /\ client'[d].num = client[d].num
        /\ client'[d].row = client[d].row /\ client'[d].keys \subseteq client[d].keys
  BY Zenon, <1>1 DEF Writing
<1>3. \A d \in Client : client'[d].op \notin {"idle", "hung"} =>
        client'[d].op = client[d].op /\ client'[d].keys \subseteq client[d].keys
  BY Zenon, <1>1
<1>4. Types'
  BY Zenon, <1>1 DEF IInv, Types
<1>5. Calls'
  <2>1. SUFFICES ASSUME NEW a \in Client
        PROVE /\ client'[a].op \in {"idle", "hung", "set", "delete"} \cup Reading
              /\ Writing(a)' =>
                   /\ client'[a].keys \subseteq Key
                   /\ client'[a].num \in 1..writes
                   /\ client'[a].row = IF client'[a].op = "set" THEN client'[a].num ELSE NoRow
              /\ client'[a].op \in Reading => client'[a].keys \subseteq Key
              /\ client'[a].op = "fill" => \A k \in client'[a].keys : client'[a].rows[k] \in Row
    BY Zenon DEF Calls
  <2>2. CASE a # c
    <3>1. client'[a] = client[a]
      BY Zenon, <1>1, <2>2
    <3>. QED  BY Zenon, <3>1 DEF IInv, Calls, Writing
  <2>3. CASE a = c /\ x.op \in {"idle", "hung"}
    BY Zenon, <1>1, <2>3 DEF Writing, Reading
  <2>4. CASE a = c /\ x.op \notin {"idle", "hung"}
    <3>1. /\ client[c].keys \subseteq Key /\ client[c].num \in 1..writes
          /\ client[c].row = IF client[c].op = "set" THEN client[c].num ELSE NoRow
      BY Zenon DEF IInv, Calls
    <3>2. x.op \in {"set", "delete"} /\ x.keys \subseteq Key
      BY Zenon, <2>4, <3>1 DEF Writing
    <3>. QED  BY Zenon, <1>1, <2>4, <3>1, <3>2 DEF Writing, Reading
  <2>. QED  BY Zenon, <2>2, <2>3, <2>4
<1>6. Runs' /\ Numbers'
  BY Zenon DEF IInv, Runs, Numbers, Held
<1>7. OwnWrite'
  <2>1. ASSUME NEW a \in Client, Writing(a)'
        PROVE  /\ \A d \in Client : Writing(d)' /\ client'[d].num = client'[a].num => d = a
               /\ \A k \in Key : dirty'[k] # Clean => dirty'[k].num # client'[a].num
               /\ \A f \in Flusher : \A e \in Held(f)' : e.num # client'[a].num
               /\ \A k \in Key : flushed'[<<client'[a].num, k>>] = 0
    <3>1. Writing(a) /\ client'[a].num = client[a].num
      BY Zenon, <1>2, <2>1
    <3>2. /\ \A d \in Client : Writing(d) /\ client[d].num = client[a].num => d = a
          /\ \A k \in Key : dirty[k] # Clean => dirty[k].num # client[a].num
          /\ \A f \in Flusher : \A e \in Held(f) : e.num # client[a].num
          /\ \A k \in Key : flushed[<<client[a].num, k>>] = 0
      BY Zenon, <3>1 DEF IInv, OwnWrite
    <3>. QED  BY ZenonT(40), <1>2, <3>1, <3>2 DEF Held
  <2>. QED  BY Zenon, <2>1 DEF OwnWrite
<1>8. OneHolder'
  BY DEF IInv, OneHolder, Held, Takes
<1>9. NotYet'
  BY Zenon DEF IInv, NotYet, FlushedOnce, Due, Takes
<1>10. PendingIsOwned'
  BY Zenon DEF IInv, PendingIsOwned, Entry
<1>11. InStep'
  <2>1. SUFFICES ASSUME NEW k \in Key \ (direct \cup overlapped)', InStepAt(k), db'[k] = db[k]
                 PROVE  InStepAt(k)'
    BY Zenon DEF IInv, InStep
  <2>. QED  BY Zenon, <2>1 DEF InStepAt, Held, Entry
<1>12. CleanMeansStored'
  BY Zenon DEF IInv, CleanMeansStored
<1>13. Apart'
  <2>1. SUFFICES ASSUME NEW k \in Key \ (direct \cup overlapped \cup raced \cup astray)', ApartAt(k),
                        k \notin client[c].keys
                 PROVE  ApartAt(k)'
    BY Zenon DEF IInv, Apart
  <2>2. \A d \in Client : client'[d].op \notin {"idle", "hung"} /\ k \in client'[d].keys =>
          client'[d] = client[d]
    BY Zenon, <1>1, <1>3, <2>1
  <2>3. ASSUME \A d \in Client : Writing(d)' => k \notin client'[d].keys
        PROVE  \A d \in Client : Writing(d) => k \notin client[d].keys
    BY Zenon, <1>1, <2>1, <2>3 DEF Writing
  <2>. QED  BY ZenonT(40), <2>1, <2>2, <2>3 DEF ApartAt, Busy
<1>. QED
  BY Zenon, <1>4, <1>5, <1>6, <1>7, <1>8, <1>9, <1>10, <1>11, <1>12, <1>13 DEF IInv

\* What a statement may do to the database.
LEMMA Statement ==
  ASSUME Types, NEW K, NEW applied,
         applied \in [Key -> Row], \A k \in Key : k \notin K => applied[k] = db[k],
         StatementOk(applied) \/ StatementBad(applied)
  PROVE  db' \in [Key -> Row] /\ \A k \in Key : k \notin K => db'[k] = db[k]
BY Zenon DEF StatementOk, StatementBad, Types

\* UPDATE and DELETE change the rows of their keys.
LEMMA Rows ==
  ASSUME Types
  PROVE  /\ \A k \in Key, row \in Row :
              /\ Updated(db, k, row) \in [Key -> Row]
              /\ Updated(db, k, row)[k] \in {row, NoRow}
              /\ \A j \in Key : j # k => Updated(db, k, row)[j] = db[j]
         /\ \A K : /\ Deleted(db, K) \in [Key -> Row]
                   /\ \A j \in Key : j \in K => Deleted(db, K)[j] = NoRow
                   /\ \A j \in Key : j \notin K => Deleted(db, K)[j] = db[j]
<1>1. NoRow \in Row
  BY Zenon DEF Row
<1>2. ASSUME NEW k \in Key, NEW row \in Row
      PROVE  /\ Updated(db, k, row) \in [Key -> Row]
             /\ Updated(db, k, row)[k] \in {row, NoRow}
             /\ \A j \in Key : j # k => Updated(db, k, row)[j] = db[j]
  BY Zenon DEF Updated, Types
<1>3. ASSUME NEW K
      PROVE  /\ Deleted(db, K) \in [Key -> Row]
             /\ \A j \in Key : j \in K => Deleted(db, K)[j] = NoRow
             /\ \A j \in Key : j \notin K => Deleted(db, K)[j] = db[j]
  BY Zenon, <1>1 DEF Deleted, Types
<1>. QED  BY Zenon, <1>2, <1>3

\* An Immediate Set, one UPDATE after the other.
LEMMA SetNowKeeps ==
  ASSUME IInv, NEW c \in Client, NEW k \in Key, SetNow(c, k)
  PROVE  IInv'
<1> DEFINE w == client[c]
<1> DEFINE rest == [w EXCEPT !.keys = @ \ {k}]
<1> DEFINE hung == [op |-> "hung"]
<1> DEFINE row == Updated(db, k, w.row)
<1>1. /\ w.op = "set" /\ k \in w.keys /\ direct' = direct \cup w.keys
      /\ UNCHANGED <<cache, dirty, flusher, closed, writes, latest, overlapped, raced, astray, failed, flushed>>
      /\ StatementOk(row) \/ StatementBad(row)
      /\ \E x \in {Idle, rest, hung} : client' = [client EXCEPT ![c] = x]
  BY Zenon DEF SetNow
<1>2. PICK x \in {Idle, rest, hung} : client' = [client EXCEPT ![c] = x]
  BY Zenon, <1>1
<1>3. w.row \in Row /\ Writing(c)
  <2>1. /\ w.num \in 1..writes /\ w.row = w.num /\ Writing(c)
    BY Zenon, <1>1 DEF IInv, Calls, Writing
  <2>2. w.num \in 0..MaxWrites
    BY <2>1, CacheAssumption DEF IInv, Types
  <2>. QED  BY Zenon, <2>1, <2>2, NumberIsRow
<1>4. row \in [Key -> Row] /\ \A j \in Key : j \notin w.keys => row[j] = db[j]
  <2>1. Types
    BY Zenon DEF IInv
  <2>2. row \in [Key -> Row] /\ \A j \in Key : j # k => row[j] = db[j]
    BY ZenonT(40), <1>3, <2>1, Rows
  <2>. QED  BY Zenon, <1>1, <2>2
<1>5. db' \in [Key -> Row] /\ \A j \in Key : j \notin w.keys => db'[j] = db[j]
  BY Zenon, <1>1, <1>4, Statement DEF IInv
<1>6. \/ x.op \in {"idle", "hung"}
      \/ /\ x.op = w.op /\ x.num = w.num /\ x.row = w.row /\ x.keys \subseteq w.keys
  <2>1. Idle.op = "idle" /\ hung.op = "hung"
    BY DEF Idle
  <2>2. CASE x = rest
    BY <2>2
  <2>. QED  BY Zenon, <2>1, <2>2
<1>. QED  BY Zenon, <1>1, <1>2, <1>3, <1>5, <1>6, WriteNow

\* An Immediate Delete, in one statement.
LEMMA DeleteNowKeeps ==
  ASSUME IInv, NEW c \in Client, DeleteNow(c)
  PROVE  IInv'
<1> DEFINE K == client[c].keys
<1> DEFINE hung == [op |-> "hung"]
<1>1. /\ Writing(c) /\ direct' = direct \cup K
      /\ UNCHANGED <<cache, dirty, flusher, closed, writes, latest, overlapped, raced, astray, failed, flushed>>
      /\ StatementOk(Deleted(db, K)) \/ StatementBad(Deleted(db, K))
      /\ \E x \in {Idle, hung} : client' = [client EXCEPT ![c] = x]
  BY Zenon DEF DeleteNow, Writing
<1>2. PICK x \in {Idle, hung} : client' = [client EXCEPT ![c] = x]
  BY Zenon, <1>1
<1>3. /\ Deleted(db, K) \in [Key -> Row]
      /\ \A j \in Key : j \notin K => Deleted(db, K)[j] = db[j]
  BY Zenon, Rows DEF IInv
<1>4. db' \in [Key -> Row] /\ \A j \in Key : j \notin K => db'[j] = db[j]
  BY Zenon, <1>1, <1>3, Statement DEF IInv
<1>5. x.op \in {"idle", "hung"}
  BY DEF Idle
<1>. QED  BY Zenon, <1>1, <1>2, <1>4, <1>5, WriteNow

-----------------------------------------------------------------------------
(* Get, GetMulti, and the expiry of the cache.                              *)

\* A step of Get or GetMulti leaves to prove what it does to the cache.
LEMMA GetStep ==
  ASSUME IInv, NEW c \in Client, ~Writing(c), NEW r, client' = [client EXCEPT ![c] = r],
         r.op \in {"idle", "hung"} \cup Reading,
         r.op \in Reading => r.keys \subseteq Key,
         r.op = "fill" => \A k \in r.keys : r.rows[k] \in Row,
         cache' \in [Key -> Row \cup {Miss}], Apart',
         UNCHANGED <<db, dirty, flusher, closed, writes, latest, direct, overlapped, failed, flushed>>
  PROVE  IInv'
<1>1. /\ client' = [d \in Client |-> client'[d]]
      /\ client'[c] = r
      /\ \A d \in Client : d # c => client'[d] = client[d]
  BY Zenon, ClientStep DEF IInv
<1>2. \A d \in Client : Writing(d)' => Writing(d) /\ client'[d] = client[d]
  BY Zenon, <1>1 DEF Writing, Reading
<1>3. Types'
  BY Zenon, <1>1 DEF IInv, Types
<1>4. Calls'
  <2>1. ~Writing(c)'
    BY Zenon, <1>1 DEF Writing, Reading
  <2>. QED  BY Zenon, <1>1, <2>1 DEF IInv, Calls, Writing
<1>5. Numbers'
  BY Zenon DEF IInv, Numbers, Held
<1>6. OwnWrite'
  <2>1. ASSUME NEW a \in Client, Writing(a)'
        PROVE  /\ \A d \in Client : Writing(d)' /\ client'[d].num = client'[a].num => d = a
               /\ \A k \in Key : dirty'[k] # Clean => dirty'[k].num # client'[a].num
               /\ \A f \in Flusher : \A e \in Held(f)' : e.num # client'[a].num
               /\ \A k \in Key : flushed'[<<client'[a].num, k>>] = 0
    <3>1. Writing(a) /\ client'[a] = client[a]
      BY Zenon, <1>2, <2>1
    <3>2. /\ \A d \in Client : Writing(d) /\ client[d].num = client[a].num => d = a
          /\ \A k \in Key : dirty[k] # Clean => dirty[k].num # client[a].num
          /\ \A f \in Flusher : \A e \in Held(f) : e.num # client[a].num
          /\ \A k \in Key : flushed[<<client[a].num, k>>] = 0
      BY Zenon, <3>1 DEF IInv, OwnWrite
    <3>. QED  BY Zenon, <1>2, <3>1, <3>2 DEF Held
  <2>. QED  BY Zenon, <2>1 DEF OwnWrite
<1>. QED  BY Zenon, <1>3, <1>4, <1>5, <1>6, ClientFrame DEF IInv

\* A Get or GetMulti begins: the cache misses.
LEMMA MissKeeps ==
  ASSUME IInv, NEW c \in Client, NEW K \in SUBSET Key, NEW op \in {"miss", "missMulti"},
         client[c] = Idle, client' = [client EXCEPT ![c] = [op |-> op, keys |-> K]],
         raced' = raced \cup (K \cap BusyKeys),
         UNCHANGED <<cache, db, dirty, flusher, closed, writes, latest, direct, overlapped,
                     astray, failed, flushed>>
  PROVE  IInv'
<1> DEFINE r == [op |-> op, keys |-> K]
<1>1. client[c].op = "idle" /\ r.op = op /\ r.keys = K
  BY DEF Idle
<1>2. /\ client'[c] = r /\ \A d \in Client : d # c => client'[d] = client[d]
      /\ cache' \in [Key -> Row \cup {Miss}] /\ client' = [client EXCEPT ![c] = r]
  BY Zenon, ClientStep DEF IInv, Types
<1>. HIDE DEF r
<1>3. ~Busy(c) /\ ~Writing(c)
  BY Zenon, <1>1 DEF Busy, Writing
<1>4. Apart'
  <2>1. SUFFICES ASSUME NEW j \in Key \ (direct \cup overlapped \cup raced \cup astray)',
                        j \in K => j \notin BusyKeys, ApartAt(j)
                 PROVE  ApartAt(j)'
    BY Zenon DEF IInv, Apart
  <2>2. CASE j \in K
    <3>1. \A d \in Client : Busy(d)' /\ j \in client'[d].keys => d = c
      BY Zenon, <1>2, <2>1, <2>2, BusyKey DEF Busy
    <3>2. client'[c].op \in {"miss", "missMulti"}
      BY Zenon, <1>1, <1>2
    <3>3. \A d \in Client : Writing(d) => j \notin client[d].keys
      BY Zenon, <2>1, <2>2, BusyKey DEF Busy, Writing
    <3>. QED  BY Zenon, <2>1, <3>1, <3>2, <3>3 DEF ApartAt, Busy
  <2>3. CASE j \notin K
    <3>1. j \notin client'[c].keys
      BY Zenon, <1>1, <1>2, <2>3
    <3>. QED  BY Zenon, <1>2, <1>3, <2>1, <3>1 DEF ApartAt, Busy, Writing
  <2>. QED  BY Zenon, <2>2, <2>3
<1>5. /\ r.op \in {"idle", "hung"} \cup Reading
      /\ r.op \in Reading => r.keys \subseteq Key
      /\ r.op # "fill"
  BY Zenon, <1>1 DEF Reading
<1>. QED  BY Zenon, <1>2, <1>3, <1>4, <1>5, GetStep

\* A Get or GetMulti that goes on with some of its keys, or ends, and caches
\* what it must, keeps the cache of a key it has to itself.
LEMMA GetGoesOn ==
  ASSUME NEW c \in Client, Busy(c), ~Writing(c), NEW r,
         client'[c] = r, \A d \in Client : d # c => client'[d] = client[d],
         r.op \in {"idle", "hung"} \/ (r.op \in {"query", "fill"} /\ r.keys \subseteq client[c].keys),
         NEW k \in Key, ApartAt(k),
         \/ cache'[k] = cache[k]
         \/ k \in client[c].keys /\ (latest[k] # NoRow => cache'[k] = latest[k]),
         latest[k] # NoRow =>
           /\ r.op = "query" /\ k \in r.keys => dirty[k] = Clean
           /\ r.op = "fill" /\ k \in r.keys => r.rows[k] = latest[k],
         UNCHANGED <<dirty, latest>>
  PROVE  ApartAt(k)'
<1>1. \A d \in Client : Busy(d)' => Busy(d) /\ client'[d].keys \subseteq client[d].keys
  BY Zenon DEF Busy
<1>2. \A d \in Client : Writing(d)' => Writing(d) /\ client'[d] = client[d]
  BY Zenon DEF Writing
<1>3. \A d \in Client : Writing(d) => client'[d] = client[d]
  BY Zenon
<1>4. \A d, e \in Client : Busy(d)' /\ Busy(e)' /\ k \in client'[d].keys /\ k \in client'[e].keys => d = e
  BY Zenon, <1>1 DEF ApartAt
<1>5. ASSUME NEW d \in Client, Writing(d), k \in client[d].keys  PROVE cache'[k] = cache[k]
  BY Zenon, <1>5 DEF ApartAt, Busy, Writing
<1>6. \A d \in Client : client'[d].op = "set" /\ k \in client'[d].keys => cache'[k] \in {client'[d].row, Miss}
  <2>1. ASSUME NEW d \in Client, client'[d].op = "set", k \in client'[d].keys
        PROVE  cache'[k] \in {client'[d].row, Miss}
    <3>1. client'[d] = client[d] /\ Writing(d)
      BY Zenon, <1>2, <2>1 DEF Writing
    <3>2. cache[k] \in {client[d].row, Miss}
      BY Zenon, <2>1, <3>1 DEF ApartAt
    <3>. QED  BY Zenon, <1>5, <2>1, <3>1, <3>2
  <2>. QED  BY Zenon, <2>1
<1>7. (\A d \in Client : Writing(d)' => k \notin client'[d].keys) =>
        (\A d \in Client : Writing(d) => k \notin client[d].keys)
  BY Zenon, <1>3 DEF Writing
<1>8. latest[k] # NoRow /\ (\A d \in Client : Writing(d) => k \notin client[d].keys) =>
        cache'[k] \in {latest[k], Miss}
  BY Zenon DEF ApartAt
<1>9. latest[k] # NoRow =>
        /\ \A d \in Client : client'[d].op = "query" /\ k \in client'[d].keys => dirty[k] = Clean
        /\ \A d \in Client : client'[d].op = "fill" /\ k \in client'[d].keys => client'[d].rows[k] = latest[k]
  BY Zenon DEF ApartAt
<1>. QED  BY Zenon, <1>4, <1>6, <1>7, <1>8, <1>9 DEF ApartAt

\* The fields of a call that has rows to cache.
LEMMA FillFields ==
  ASSUME NEW rows
  PROVE  Fill(rows).op = "fill" /\ Fill(rows).keys = DOMAIN rows /\ Fill(rows).rows = rows
BY DEF Fill

\* The keys of a Get or GetMulti.
LEMMA ReaderKeys ==
  ASSUME IInv, NEW c \in Client, client[c].op \in Reading
  PROVE  client[c].keys \subseteq Key /\ Busy(c) /\ ~Writing(c)
BY Zenon DEF IInv, Calls, Busy, Writing, Reading

\* What dirty data is, seen from the plain course.
LEMMA DataIsLatest ==
  ASSUME IInv, NEW k \in Key \ (direct \cup overlapped)
  PROVE  /\ DirtyData(k) # NoRow => DirtyData(k) = latest[k]
         /\ DirtyData(k) = NoRow /\ latest[k] # NoRow => dirty[k] = Clean
<1>1. InStepAt(k)
  BY Zenon DEF IInv, InStep
<1>. QED  BY Zenon, <1>1 DEF InStepAt, DirtyData

\* Get reads the dirty entry.
LEMMA GetDirtyKeeps ==
  ASSUME IInv, NEW c \in Client, NEW k \in Key, GetDirty(c, k)
  PROVE  IInv'
<1> DEFINE rows == [j \in {k} |-> DirtyData(k)]
<1> DEFINE query == [op |-> "query", keys |-> {k}]
<1> DEFINE r == IF DirtyData(k) # NoRow THEN Fill(rows) ELSE query
<1>1. /\ client[c].op = "miss" /\ k \in client[c].keys /\ client' = [client EXCEPT ![c] = r]
      /\ UNCHANGED <<cache, db, dirty, flusher, closed, writes, latest, direct, overlapped,
                     raced, astray, failed, flushed>>
  BY Zenon DEF GetDirty
<1>2. Busy(c) /\ ~Writing(c)
  BY Zenon, <1>1, ReaderKeys DEF Reading
<1>3. query.op = "query" /\ query.keys = {k} /\ DOMAIN rows = {k} /\ rows[k] = DirtyData(k)
  OBVIOUS
<1>. HIDE DEF rows, query
<1>4. /\ client'[c] = r /\ \A d \in Client : d # c => client'[d] = client[d]
      /\ cache' \in [Key -> Row \cup {Miss}]
  BY Zenon, <1>1, ClientStep DEF IInv, Types
<1>5. /\ r.op \in {"query", "fill"} /\ r.keys = {k}
      /\ r.op = "fill" => r.rows[k] = DirtyData(k) /\ DirtyData(k) # NoRow
      /\ r.op = "query" => DirtyData(k) = NoRow
  BY Zenon, <1>3, FillFields
<1>6. r.op = "fill" => \A j \in r.keys : r.rows[j] \in Row
  BY Zenon, <1>5, Shapes DEF DirtyData, IInv
<1>. HIDE DEF r
<1>7. Apart'
  <2>1. SUFFICES ASSUME NEW j \in Key \ (direct \cup overlapped \cup raced \cup astray)', ApartAt(j),
                        j \in Key \ (direct \cup overlapped)
                 PROVE  ApartAt(j)'
    BY Zenon, <1>1 DEF IInv, Apart
  <2>2. latest[j] # NoRow =>
           /\ r.op = "query" /\ j \in r.keys => dirty[j] = Clean
           /\ r.op = "fill" /\ j \in r.keys => r.rows[j] = latest[j]
    BY Zenon, <1>5, <2>1, DataIsLatest
  <2>3. r.op \in {"query", "fill"} /\ r.keys \subseteq client[c].keys /\ cache'[j] = cache[j]
    BY Zenon, <1>1, <1>5
  <2>. QED  BY ZenonT(40), <1>1, <1>2, <1>4, <2>1, <2>2, <2>3, GetGoesOn
<1>8. r.op \in {"idle", "hung"} \cup Reading /\ r.keys \subseteq Key
  BY Zenon, <1>5 DEF Reading
<1>. QED  BY Zenon, <1>1, <1>2, <1>4, <1>6, <1>7, <1>8, GetStep

\* GetMulti reads the dirty entries and caches what it finds.
LEMMA MultiDirtyKeeps ==
  ASSUME IInv, NEW c \in Client, MultiDirty(c)
  PROVE  IInv'
<1> DEFINE K == client[c].keys
<1> DEFINE D == {k \in K : DirtyData(k) # NoRow}
<1>1. /\ client[c].op = "missMulti"
      /\ UNCHANGED <<db, dirty, flusher, closed, writes, latest, direct, overlapped,
                     raced, failed, flushed>>
  BY Zenon DEF MultiDirty
<1>2. PICK found \in SUBSET D, asked \in SUBSET K :
        /\ \E filled \in SUBSET found :
             cache' = [k \in Key |-> IF k \in filled THEN DirtyData(k) ELSE cache[k]]
        /\ astray' = astray \cup (asked \cap D)
        /\ client' = [client EXCEPT ![c] = IF asked = {} THEN Idle ELSE [op |-> "query", keys |-> asked]]
  BY Zenon DEF MultiDirty
<1>3. PICK filled \in SUBSET found :
        cache' = [k \in Key |-> IF k \in filled THEN DirtyData(k) ELSE cache[k]]
  BY Zenon, <1>2
<1> DEFINE query == [op |-> "query", keys |-> asked]
<1> DEFINE r == IF asked = {} THEN Idle ELSE query
<1>4. query.op = "query" /\ query.keys = asked /\ Idle.op = "idle"
  BY DEF Idle
<1>5. K \subseteq Key /\ Busy(c) /\ ~Writing(c)
  BY Zenon, <1>1, ReaderKeys DEF Reading
<1>. HIDE DEF query
<1>6. /\ client'[c] = r /\ \A d \in Client : d # c => client'[d] = client[d]
      /\ client' = [client EXCEPT ![c] = r]
  BY Zenon, <1>2, ClientStep DEF IInv, query
<1>7. r.op = "idle" \/ (r.op = "query" /\ r.keys = asked)
  BY Zenon, <1>4
<1>. HIDE DEF r
<1>8. /\ \A k \in Key : DirtyData(k) # NoRow => DirtyData(k) \in Row
      /\ cache' \in [Key -> Row \cup {Miss}]
  <2>1. \A k \in Key : DirtyData(k) # NoRow => DirtyData(k) \in Row
    BY Zenon, Shapes DEF DirtyData, IInv
  <2>2. \A k \in Key : k \in filled => DirtyData(k) \in Row
    BY Zenon, <2>1
  <2>. QED  BY Zenon, <1>3, <2>1, <2>2 DEF IInv, Types
<1>9. Apart'
  <2>1. SUFFICES ASSUME NEW j \in Key \ (direct \cup overlapped \cup raced \cup astray)', ApartAt(j),
                        j \in Key \ (direct \cup overlapped), j \notin asked \cap D
                 PROVE  ApartAt(j)'
    BY Zenon, <1>1, <1>2 DEF IInv, Apart
  <2>2. /\ DirtyData(j) # NoRow => DirtyData(j) = latest[j]
        /\ DirtyData(j) = NoRow /\ latest[j] # NoRow => dirty[j] = Clean
    BY Zenon, <2>1, DataIsLatest
  <2>3. latest[j] # NoRow =>
           /\ r.op = "query" /\ j \in r.keys => dirty[j] = Clean
           /\ r.op = "fill" /\ j \in r.keys => r.rows[j] = latest[j]
    BY Zenon, <1>2, <1>7, <2>1, <2>2
  <2>4. cache'[j] = cache[j] \/ (j \in K /\ cache'[j] = latest[j])
    BY Zenon, <1>2, <1>3, <2>2
  <2>5. r.op \in {"idle", "hung"} \/ (r.op \in {"query", "fill"} /\ r.keys \subseteq K)
    BY Zenon, <1>2, <1>7
  <2>. QED  BY ZenonT(40), <1>1, <1>5, <1>6, <2>1, <2>3, <2>4, <2>5, GetGoesOn
<1>10. /\ r.op \in {"idle", "hung"} \cup Reading /\ r.op # "fill"
       /\ r.op \in Reading => r.keys \subseteq Key
  BY Zenon, <1>5, <1>7 DEF Reading
<1>. QED  BY Zenon, <1>1, <1>5, <1>6, <1>8, <1>9, <1>10, GetStep

\* The database is read.
LEMMA GetQueryKeeps ==
  ASSUME IInv, NEW c \in Client, GetQuery(c)
  PROVE  IInv'
<1> DEFINE there == {k \in client[c].keys : db[k] # NoRow}
<1> DEFINE rows == [k \in there |-> db[k]]
<1> DEFINE hung == [op |-> "hung"]
<1>1. /\ client[c].op = "query"
      /\ UNCHANGED <<cache, db, dirty, flusher, closed, writes, latest, direct, overlapped,
                     raced, astray, failed, flushed>>
  BY Zenon DEF GetQuery
<1>2. PICK r \in {Idle, hung, Fill(rows)} : client' = [client EXCEPT ![c] = r]
  BY Zenon DEF GetQuery
<1>3. client[c].keys \subseteq Key /\ Busy(c) /\ ~Writing(c)
  BY Zenon, <1>1, ReaderKeys DEF Reading
<1>4. /\ DOMAIN rows = there /\ \A k \in there : rows[k] = db[k]
      /\ Idle.op = "idle" /\ hung.op = "hung"
  BY DEF Idle
<1>. HIDE DEF rows, hung
<1>5. /\ client'[c] = r /\ \A d \in Client : d # c => client'[d] = client[d]
      /\ cache' \in [Key -> Row \cup {Miss}]
  BY Zenon, <1>1, <1>2, ClientStep DEF IInv, Types
<1>6. /\ r.op \in {"idle", "hung", "fill"}
      /\ r.op = "fill" => r.keys = there /\ \A k \in there : r.rows[k] = db[k]
  <2>1. Fill(rows).op = "fill" /\ Fill(rows).keys = there /\ Fill(rows).rows = rows
    BY Zenon, <1>4, FillFields
  <2>. QED  BY Zenon, <1>2, <1>4, <2>1
<1>7. r.op = "fill" => \A k \in r.keys : r.rows[k] \in Row
  BY Zenon, <1>3, <1>6 DEF IInv, Types
<1>8. Apart'
  <2>1. SUFFICES ASSUME NEW j \in Key \ (direct \cup overlapped \cup raced \cup astray)',
                        ApartAt(j), dirty[j] = Clean => db[j] \in {latest[j], NoRow}
                 PROVE  ApartAt(j)'
    BY Zenon, <1>1 DEF IInv, Apart, CleanMeansStored
  <2>2. latest[j] # NoRow =>
           /\ r.op = "query" /\ j \in r.keys => dirty[j] = Clean
           /\ r.op = "fill" /\ j \in r.keys => r.rows[j] = latest[j]
    <3>1. SUFFICES ASSUME latest[j] # NoRow, r.op = "fill", j \in r.keys
                   PROVE  r.rows[j] = latest[j]
      BY Zenon, <1>6
    <3>2. j \in client[c].keys /\ db[j] # NoRow /\ r.rows[j] = db[j]
      BY Zenon, <1>6, <3>1
    <3>3. dirty[j] = Clean
      BY Zenon, <1>1, <2>1, <3>1, <3>2 DEF ApartAt
    <3>. QED  BY Zenon, <2>1, <3>2, <3>3
  <2>3. r.op \in {"idle", "hung"} \/ (r.op \in {"query", "fill"} /\ r.keys \subseteq client[c].keys)
    BY Zenon, <1>6
  <2>. QED  BY Zenon, <1>1, <1>3, <1>5, <2>1, <2>2, <2>3, GetGoesOn
<1>9. /\ r.op \in {"idle", "hung"} \cup Reading
      /\ r.op \in Reading => r.keys \subseteq Key
  BY Zenon, <1>3, <1>6 DEF Reading
<1>. QED  BY Zenon, <1>1, <1>2, <1>3, <1>5, <1>7, <1>8, <1>9, GetStep

\* A row that was read is cached.
LEMMA GetFillKeeps ==
  ASSUME IInv, NEW c \in Client, NEW k \in Key, GetFill(c, k)
  PROVE  IInv'
<1> DEFINE rest == client[c].keys \ {k}
<1> DEFINE rows == [j \in rest |-> client[c].rows[j]]
<1> DEFINE r == IF rest = {} THEN Idle ELSE Fill(rows)
<1>1. /\ client[c].op = "fill" /\ k \in client[c].keys /\ client' = [client EXCEPT ![c] = r]
      /\ UNCHANGED <<db, dirty, flusher, closed, writes, latest, direct, overlapped,
                     raced, astray, failed, flushed>>
  BY Zenon DEF GetFill
<1>2. PICK row \in {client[c].rows[k], cache[k]} : cache' = [cache EXCEPT ![k] = row]
  BY Zenon DEF GetFill
<1>3. /\ client[c].keys \subseteq Key /\ Busy(c) /\ ~Writing(c)
      /\ \A j \in client[c].keys : client[c].rows[j] \in Row
  <2>1. \A j \in client[c].keys : client[c].rows[j] \in Row
    BY Zenon, <1>1 DEF IInv, Calls
  <2>. QED  BY Zenon, <1>1, <2>1, ReaderKeys DEF Reading
<1>4. Idle.op = "idle" /\ DOMAIN rows = rest /\ \A j \in rest : rows[j] = client[c].rows[j]
  BY DEF Idle
<1>. HIDE DEF rows
<1>5. client'[c] = r /\ \A d \in Client : d # c => client'[d] = client[d]
  BY Zenon, <1>1, ClientStep DEF IInv
<1>6. \/ r.op = "idle"
      \/ r.op = "fill" /\ r.keys = rest /\ \A j \in rest : r.rows[j] = client[c].rows[j]
  BY Zenon, <1>4, FillFields
<1>. HIDE DEF r
<1>7. /\ cache' \in [Key -> Row \cup {Miss}]
      /\ cache'[k] = row /\ \A j \in Key : j # k => cache'[j] = cache[j]
  BY Zenon, <1>1, <1>2, <1>3 DEF IInv, Types
<1>8. Apart'
  <2>1. SUFFICES ASSUME NEW j \in Key \ (direct \cup overlapped \cup raced \cup astray)', ApartAt(j)
                 PROVE  ApartAt(j)'
    BY Zenon, <1>1 DEF IInv, Apart
  <2>2. latest[j] # NoRow /\ j \in client[c].keys => client[c].rows[j] = latest[j]
    BY Zenon, <1>1, <2>1 DEF ApartAt
  <2>3. \/ cache'[j] = cache[j]
        \/ j \in client[c].keys /\ (latest[j] # NoRow => cache'[j] = latest[j])
    BY Zenon, <1>1, <1>2, <1>7, <2>2
  <2>4. latest[j] # NoRow =>
           /\ r.op = "query" /\ j \in r.keys => dirty[j] = Clean
           /\ r.op = "fill" /\ j \in r.keys => r.rows[j] = latest[j]
    BY Zenon, <1>6, <2>2
  <2>5. r.op \in {"idle", "hung"} \/ (r.op \in {"query", "fill"} /\ r.keys \subseteq client[c].keys)
    BY Zenon, <1>6
  <2>. QED  BY ZenonT(40), <1>1, <1>3, <1>5, <2>1, <2>3, <2>4, <2>5, GetGoesOn
<1>9. /\ r.op \in {"idle", "hung"} \cup Reading
      /\ r.op \in Reading => r.keys \subseteq Key
      /\ r.op = "fill" => \A j \in r.keys : r.rows[j] \in Row
  BY Zenon, <1>3, <1>6 DEF Reading
<1>. QED  BY Zenon, <1>1, <1>3, <1>7, <1>8, <1>9, GetStep

\* CacheTTL runs out.
LEMMA ExpireKeeps ==
  ASSUME IInv, NEW k \in Key, Expire(k)
  PROVE  IInv'
<1>1. /\ cache' = [cache EXCEPT ![k] = Miss]
      /\ UNCHANGED <<db, dirty, client, flusher, closed, writes, latest, direct, overlapped,
                     raced, astray, failed, flushed>>
  BY Zenon DEF Expire
<1>2. /\ cache' \in [Key -> Row \cup {Miss}]
      /\ \A j \in Key : cache'[j] \in {cache[j], Miss}
  BY Zenon, <1>1 DEF IInv, Types
<1>3. Apart'
  <2>1. SUFFICES ASSUME NEW j \in Key \ (direct \cup overlapped \cup raced \cup astray)', ApartAt(j)
                 PROVE  ApartAt(j)'
    BY Zenon, <1>1 DEF IInv, Apart
  <2>. QED  BY Zenon, <1>1, <1>2, <2>1 DEF ApartAt, Busy, Writing
<1>4. Types' /\ Calls' /\ Numbers'
  BY Zenon, <1>1, <1>2 DEF IInv, Types, Calls, Writing, Numbers, Held
<1>5. OwnWrite'
  BY Zenon, <1>1 DEF IInv, OwnWrite, Writing, Held
<1>. QED  BY Zenon, <1>1, <1>3, <1>4, <1>5, ClientFrame DEF IInv

-----------------------------------------------------------------------------
(* Flush.                                                                   *)

\* The fields of the entry that Flush makes of a dirty one.
LEMMA EntryFields ==
  ASSUME NEW k
  PROVE  Entry(k).key = k /\ Entry(k).num = dirty[k].num /\ Entry(k).row = dirty[k].row
BY DEF Entry

\* A step of Flush touches neither the clients nor the cache.
LEMMA FlushFrame ==
  ASSUME IInv, UNCHANGED <<cache, client, latest, direct, overlapped, raced, astray, writes>>,
         \A k \in Key : dirty[k] = Clean => dirty'[k] = Clean
  PROVE  Calls' /\ Apart'
<1>1. Calls'
  BY Zenon DEF IInv, Calls, Writing
<1>2. Apart'
  <2>1. SUFFICES ASSUME NEW j \in Key \ (direct \cup overlapped \cup raced \cup astray)', ApartAt(j)
                 PROVE  ApartAt(j)'
    BY Zenon DEF IInv, Apart
  <2>. QED  BY Zenon, <2>1 DEF ApartAt, Busy, Writing
<1>. QED  BY Zenon, <1>1, <1>2

\* A step of Flush hands on writes that were noted, and applies no other.
LEMMA OwnWriteStep ==
  ASSUME IInv, client' = client,
         \A k \in Key : dirty'[k] # Clean => dirty[k] # Clean /\ dirty'[k].num = dirty[k].num,
         \A g \in Flusher : \A e \in Held(g)' :
           \/ \E h \in Flusher : e \in Held(h)
           \/ \E k \in Key : dirty[k] # Clean /\ e.num = dirty[k].num,
         \A c \in Client : Writing(c) =>
           \A k \in Key : flushed'[<<client[c].num, k>>] = flushed[<<client[c].num, k>>]
  PROVE  OwnWrite'
<1>1. ASSUME NEW a \in Client, Writing(a)'
      PROVE  /\ \A d \in Client : Writing(d)' /\ client'[d].num = client'[a].num => d = a
             /\ \A k \in Key : dirty'[k] # Clean => dirty'[k].num # client'[a].num
             /\ \A f \in Flusher : \A e \in Held(f)' : e.num # client'[a].num
             /\ \A k \in Key : flushed'[<<client'[a].num, k>>] = 0
  <2>1. Writing(a) /\ \A d \in Client : Writing(d)' => Writing(d)
    BY Zenon, <1>1 DEF Writing
  <2>2. /\ \A d \in Client : Writing(d) /\ client[d].num = client[a].num => d = a
        /\ \A k \in Key : dirty[k] # Clean => dirty[k].num # client[a].num
        /\ \A f \in Flusher : \A e \in Held(f) : e.num # client[a].num
        /\ \A k \in Key : flushed[<<client[a].num, k>>] = 0
    BY Zenon, <2>1 DEF IInv, OwnWrite
  <2>3. \A f \in Flusher : \A e \in Held(f)' : e.num # client[a].num
    BY ZenonT(40), <2>2
  <2>. QED  BY Zenon, <2>1, <2>2, <2>3
<1>. QED  BY Zenon, <1>1 DEF OwnWrite

\* A step of Flush, or of Close, that moves entries within one run.
LEMMA QuietFlush ==
  ASSUME IInv, Runs',
         UNCHANGED <<cache, db, dirty, client, writes, latest, direct, overlapped,
                     raced, astray, failed, flushed>>,
         flusher' \in [Flusher -> FlusherRun],
         \A g \in Flusher : /\ Held(g)' = Held(g) /\ Due(g)' = Due(g)
                            /\ flusher'[g].sent = flusher[g].sent
  PROVE  IInv'
<1>1. Types'
  BY Zenon DEF IInv, Types
<1>2. Calls' /\ Apart'
  BY Zenon, FlushFrame
<1>3. Numbers'
  BY Zenon DEF IInv, Numbers
<1>4. OwnWrite'
  BY Zenon, OwnWriteStep
<1>5. OneHolder'
  BY DEF IInv, OneHolder, Takes
<1>6. NotYet'
  BY Zenon DEF IInv, NotYet, FlushedOnce, Takes
<1>7. PendingIsOwned'
  BY Zenon DEF IInv, PendingIsOwned, Entry, Held
<1>8. InStep'
  <2>1. SUFFICES ASSUME NEW k \in Key \ (direct \cup overlapped)', InStepAt(k)
                 PROVE  InStepAt(k)'
    BY Zenon DEF IInv, InStep
  <2>. QED  BY Zenon, <2>1 DEF InStepAt, Entry
<1>9. CleanMeansStored'
  BY Zenon DEF IInv, CleanMeansStored
<1>. QED  BY Zenon, <1>1, <1>2, <1>3, <1>4, <1>5, <1>6, <1>7, <1>8, <1>9 DEF IInv

\* Close marks its run of Flush.
LEMMA CloseMarkKeeps ==
  ASSUME IInv, CloseMark
  PROVE  IInv'
<1>1. /\ ~closed /\ closed' = TRUE
      /\ flusher' = [flusher EXCEPT !["close"].pc = "starting"]
      /\ UNCHANGED <<cache, db, dirty, client, writes, latest, direct, overlapped,
                     raced, astray, failed, flushed>>
  BY Zenon DEF CloseMark
<1>2. flusher \in [Flusher -> FlusherRun] /\ "close" \in Flusher
  BY Zenon DEF IInv, Types, Flusher
<1>3. /\ flusher' \in [Flusher -> FlusherRun]
      /\ \A g \in Flusher : /\ flusher'[g].todo = flusher[g].todo
                            /\ flusher'[g].batch = flusher[g].batch
                            /\ flusher'[g].sent = flusher[g].sent
                            /\ flusher'[g].pc = IF g = "close" THEN "starting" ELSE flusher[g].pc
  BY <1>1, <1>2 DEF FlusherRun
<1>4. \A g \in Flusher : Held(g)' = Held(g) /\ Due(g)' = Due(g)
  BY Zenon, <1>3 DEF Held, Due
<1>5. Held("close") = {}
  BY Zenon, <1>1, <1>2 DEF IInv, Runs
<1>6. Runs'
  <2>1. ASSUME NEW g \in Flusher
        PROVE  /\ flusher'[g].pc \in {"idle", "starting", "ended"} => Held(g)' = {}
               /\ flusher'[g].todo \cap flusher'[g].batch = {}
               /\ flusher'[g].sent \subseteq flusher'[g].batch
               /\ \/ Deletes(flusher'[g].batch) \subseteq flusher'[g].sent
                  \/ Deletes(flusher'[g].batch) \cap flusher'[g].sent = {}
    <3>1. flusher'[g].pc \in {"idle", "starting", "ended"} => Held(g) = {}
      BY Zenon, <1>3, <1>5 DEF IInv, Runs
    <3>. QED  BY Zenon, <1>3, <1>4, <3>1 DEF IInv, Runs
  <2>. QED  BY Zenon, <1>1, <2>1 DEF Runs, Deletes, Updates
<1>. QED  BY Zenon, <1>1, <1>3, <1>4, <1>6, QuietFlush

\* The ticker loop ends.
LEMMA LoopEndsKeeps ==
  ASSUME IInv, LoopEnds
  PROVE  IInv'
<1>1. /\ closed /\ closed' = closed /\ flusher["ticker"].pc = "idle"
      /\ flusher' = [flusher EXCEPT !["ticker"].pc = "ended"]
      /\ UNCHANGED <<cache, db, dirty, client, writes, latest, direct, overlapped,
                     raced, astray, failed, flushed>>
  BY Zenon DEF LoopEnds
<1>2. flusher \in [Flusher -> FlusherRun] /\ "ticker" \in Flusher
  BY Zenon DEF IInv, Types, Flusher
<1>3. /\ flusher' \in [Flusher -> FlusherRun]
      /\ \A g \in Flusher : /\ flusher'[g].todo = flusher[g].todo
                            /\ flusher'[g].batch = flusher[g].batch
                            /\ flusher'[g].sent = flusher[g].sent
                            /\ flusher'[g].pc = IF g = "ticker" THEN "ended" ELSE flusher[g].pc
  BY <1>1, <1>2 DEF FlusherRun
<1>4. \A g \in Flusher : Held(g)' = Held(g) /\ Due(g)' = Due(g)
  BY Zenon, <1>3 DEF Held, Due
<1>5. Held("ticker") = {}
  BY Zenon, <1>1, <1>2 DEF IInv, Runs
<1>6. Runs'
  <2>1. ASSUME NEW g \in Flusher
        PROVE  /\ flusher'[g].pc \in {"idle", "starting", "ended"} => Held(g)' = {}
               /\ flusher'[g].todo \cap flusher'[g].batch = {}
               /\ flusher'[g].sent \subseteq flusher'[g].batch
               /\ \/ Deletes(flusher'[g].batch) \subseteq flusher'[g].sent
                  \/ Deletes(flusher'[g].batch) \cap flusher'[g].sent = {}
    <3>1. flusher'[g].pc \in {"idle", "starting", "ended"} => Held(g) = {}
      BY Zenon, <1>3, <1>5 DEF IInv, Runs
    <3>. QED  BY Zenon, <1>3, <1>4, <3>1 DEF IInv, Runs
  <2>. QED  BY Zenon, <1>1, <2>1 DEF Runs, Deletes, Updates
<1>. QED  BY Zenon, <1>1, <1>3, <1>4, <1>6, QuietFlush

\* The next batch.
LEMMA NextBatchKeeps ==
  ASSUME IInv, NEW f \in Flusher, NextBatch(f)
  PROVE  IInv'
<1>1. /\ flusher[f].pc = "run" /\ flusher[f].batch = {} /\ closed' = closed
      /\ UNCHANGED <<cache, db, dirty, client, writes, latest, direct, overlapped,
                     raced, astray, failed, flushed>>
  BY Zenon DEF NextBatch
<1>2. PICK B \in SUBSET flusher[f].todo :
         flusher' = [flusher EXCEPT ![f].batch = B, ![f].todo = @ \ B]
  BY Zenon DEF NextBatch
<1>3. flusher \in [Flusher -> FlusherRun]
  BY Zenon DEF IInv, Types
<1>4. /\ flusher' \in [Flusher -> FlusherRun]
      /\ \A g \in Flusher : g # f => flusher'[g] = flusher[g]
      /\ flusher'[f].todo = flusher[f].todo \ B /\ flusher'[f].batch = B
      /\ flusher'[f].sent = flusher[f].sent /\ flusher'[f].pc = "run"
  BY Zenon, <1>1, <1>2, <1>3 DEF FlusherRun
<1>5. flusher[f].sent = {}
  BY Zenon, <1>1 DEF IInv, Runs
<1>6. Held(f)' = Held(f) /\ Due(f)' = Due(f)
  BY Zenon, <1>1, <1>4, <1>5 DEF Held, Due
<1>7. \A g \in Flusher : /\ Held(g)' = Held(g) /\ Due(g)' = Due(g)
                         /\ flusher'[g].sent = flusher[g].sent
  BY Zenon, <1>4, <1>6 DEF Held, Due
<1>8. Runs'
  <2>1. ~closed => flusher'["close"].pc = "idle"
    <3>1. ~closed => flusher["close"].pc = "idle" /\ f # "close"
      BY Zenon, <1>1 DEF IInv, Runs
    <3>. QED  BY Zenon, <1>4, <3>1 DEF Flusher
  <2>2. ASSUME NEW g \in Flusher
        PROVE  /\ flusher'[g].pc \in {"idle", "starting", "ended"} => Held(g)' = {}
               /\ flusher'[g].todo \cap flusher'[g].batch = {}
               /\ flusher'[g].sent \subseteq flusher'[g].batch
               /\ \/ Deletes(flusher'[g].batch) \subseteq flusher'[g].sent
                  \/ Deletes(flusher'[g].batch) \cap flusher'[g].sent = {}
    <3>1. CASE g = f
      BY Zenon, <1>4, <1>5, <3>1
    <3>2. CASE g # f
      BY Zenon, <1>4, <1>7, <3>2 DEF IInv, Runs
    <3>. QED  BY Zenon, <3>1, <3>2
  <2>. QED  BY Zenon, <1>1, <2>1, <2>2 DEF Runs, Deletes, Updates
<1>. QED  BY Zenon, <1>1, <1>4, <1>7, <1>8, QuietFlush

\* Flush returns.
LEMMA FlushReturnKeeps ==
  ASSUME IInv, NEW f \in Flusher, FlushReturn(f)
  PROVE  IInv'
<1>1. /\ flusher[f].pc = "run" /\ flusher[f].batch = {} /\ flusher[f].todo = {}
      /\ flusher' = [flusher EXCEPT ![f] = Rested] /\ closed' = closed
      /\ UNCHANGED <<cache, db, dirty, client, writes, latest, direct, overlapped,
                     raced, astray, failed, flushed>>
  BY Zenon DEF FlushReturn, NothingLeft
<1>2. flusher \in [Flusher -> FlusherRun]
  BY Zenon DEF IInv, Types
<1>3. /\ Rested \in FlusherRun
      /\ Rested.pc = "idle" /\ Rested.todo = {} /\ Rested.batch = {} /\ Rested.sent = {}
  BY DEF FlusherRun, Rested
<1>4. /\ flusher' \in [Flusher -> FlusherRun]
      /\ \A g \in Flusher : g # f => flusher'[g] = flusher[g]
      /\ flusher'[f] = Rested
  BY Zenon, <1>1, <1>2, <1>3
<1>5. flusher[f].sent = {}
  BY Zenon, <1>1 DEF IInv, Runs
<1>6. Held(f)' = Held(f) /\ Due(f)' = Due(f) /\ Held(f) = {}
  BY Zenon, <1>1, <1>3, <1>4, <1>5 DEF Held, Due
<1>7. \A g \in Flusher : /\ Held(g)' = Held(g) /\ Due(g)' = Due(g)
                         /\ flusher'[g].sent = flusher[g].sent
  BY Zenon, <1>3, <1>4, <1>5, <1>6 DEF Held, Due
<1>8. Runs'
  <2>1. ~closed => flusher'["close"].pc = "idle"
    BY Zenon, <1>3, <1>4 DEF IInv, Runs, Flusher
  <2>2. ASSUME NEW g \in Flusher
        PROVE  /\ flusher'[g].pc \in {"idle", "starting", "ended"} => Held(g)' = {}
               /\ flusher'[g].todo \cap flusher'[g].batch = {}
               /\ flusher'[g].sent \subseteq flusher'[g].batch
               /\ \/ Deletes(flusher'[g].batch) \subseteq flusher'[g].sent
                  \/ Deletes(flusher'[g].batch) \cap flusher'[g].sent = {}
    <3>1. CASE g = f
      BY Zenon, <1>3, <1>4, <1>6, <3>1
    <3>2. CASE g # f
      BY Zenon, <1>4, <1>7, <3>2 DEF IInv, Runs
    <3>. QED  BY Zenon, <3>1, <3>2
  <2>. QED  BY Zenon, <1>1, <2>1, <2>2 DEF Runs, Deletes, Updates
<1>. QED  BY Zenon, <1>1, <1>4, <1>7, <1>8, QuietFlush

\* What a statement of a batch does to a row it may touch, seen from the
\* plain course.
LEMMA PlainStatement ==
  ASSUME IInv, NEW f \in Flusher, NEW S \in SUBSET flusher[f].batch,
         \A k \in Key : db'[k] = db[k] \/ \E e \in S : e.key = k /\ db'[k] \in {e.row, NoRow},
         NEW k \in Key \ (direct \cup overlapped)
  PROVE  /\ dirty[k] = Clean => db'[k] = db[k]
         /\ \A e \in flusher[f].batch : e.key = k => e.row = latest[k]
         /\ db'[k] = db[k] \/ db'[k] \in {latest[k], NoRow}
<1>1. InStepAt(k)
  BY Zenon DEF IInv, InStep
<1>2. \A e \in flusher[f].batch : e.key = k => dirty[k] # Clean /\ e = Entry(k)
  <2>1. flusher[f].batch \subseteq Held(f)
    BY Zenon DEF Held
  <2>. QED  BY Zenon, <1>1, <2>1 DEF InStepAt
<1>3. \A e \in flusher[f].batch : e.key = k => dirty[k] # Clean /\ e.row = latest[k]
  BY Zenon, <1>1, <1>2, EntryFields DEF InStepAt
<1>. QED  BY Zenon, <1>3

\* The statement succeeds, and the entries of S are sent.
LEMMA SentKeeps ==
  ASSUME IInv, NEW f \in Flusher, flusher[f].pc = "run",
         NEW S \in SUBSET (flusher[f].batch \ flusher[f].sent),
         S \subseteq Updates(flusher[f].batch) \/ S = Deletes(flusher[f].batch),
         db' \in [Key -> Row], \A e \in S : db'[e.key] \in {e.row, NoRow},
         \A k \in Key : db'[k] = db[k] \/ \E e \in S : e.key = k /\ db'[k] \in {e.row, NoRow},
         flusher' = [flusher EXCEPT ![f].sent = @ \cup S], flushed' = Applied(S),
         UNCHANGED <<cache, dirty, client, closed, writes, latest, direct, overlapped, raced, astray, failed>>
  PROVE  IInv'
<1>1. flusher \in [Flusher -> FlusherRun] /\ flushed \in [Sendable -> Nat]
  BY Zenon DEF IInv, Types
<1>2. S \subseteq FlushEntry /\ S \subseteq flusher[f].batch /\ S \subseteq Held(f) /\ S \subseteq Due(f)
  BY Zenon, Shapes DEF IInv, Held, Due
<1>3. /\ flusher' \in [Flusher -> FlusherRun]
      /\ \A g \in Flusher : g # f => flusher'[g] = flusher[g]
      /\ flusher'[f].todo = flusher[f].todo /\ flusher'[f].batch = flusher[f].batch
      /\ flusher'[f].sent = flusher[f].sent \cup S /\ flusher'[f].pc = flusher[f].pc
  BY <1>1, <1>2 DEF FlusherRun
<1>4. \A g \in Flusher : Held(g)' = Held(g) /\ Due(g)' \subseteq Due(g)
  BY Zenon, <1>3 DEF Held, Due
<1>5. \A e \in Due(f)' : e \notin S
  <2>1. flusher[f].todo \cap flusher[f].batch = {}
    BY Zenon DEF IInv, Runs
  <2>. QED  BY Zenon, <1>2, <1>3, <2>1 DEF Due
<1>6. /\ flushed' \in [Sendable -> Nat]
      /\ \A n \in 1..MaxWrites, k \in Key :
           /\ (\E e \in S : e.num = n /\ e.key = k) => flushed'[<<n, k>>] = flushed[<<n, k>>] + 1
           /\ (~\E e \in S : e.num = n /\ e.key = k) => flushed'[<<n, k>>] = flushed[<<n, k>>]
  <2>1. \A n \in Nat : n + 1 \in Nat
    OBVIOUS
  <2>2. flushed' \in [Sendable -> Nat]
    BY Zenon, <1>1, <2>1 DEF Applied
  <2>3. ASSUME NEW n \in 1..MaxWrites, NEW k \in Key
        PROVE  /\ <<n, k>> \in Sendable
               /\ \A e : <<e.num, e.key>> = <<n, k>> <=> e.num = n /\ e.key = k
    BY DEF Sendable
  <2>4. \A p \in Sendable :
          flushed'[p] = IF \E e \in S : <<e.num, e.key>> = p THEN flushed[p] + 1 ELSE flushed[p]
    BY Zenon DEF Applied
  <2>. QED  BY Zenon, <2>2, <2>3, <2>4
<1>7. Types'
  BY Zenon, <1>3, <1>6 DEF IInv, Types
<1>8. Calls' /\ Apart'
  BY Zenon, FlushFrame
<1>9. Runs'
  <2>1. ~closed => flusher'["close"].pc = "idle"
    BY Zenon, <1>3 DEF IInv, Runs, Flusher
  <2>2. ASSUME NEW g \in Flusher
        PROVE  /\ flusher'[g].pc \in {"idle", "starting", "ended"} => Held(g)' = {}
               /\ flusher'[g].todo \cap flusher'[g].batch = {}
               /\ flusher'[g].sent \subseteq flusher'[g].batch
               /\ \/ Deletes(flusher'[g].batch) \subseteq flusher'[g].sent
                  \/ Deletes(flusher'[g].batch) \cap flusher'[g].sent = {}
    <3>1. CASE g = f
      <4>1. /\ flusher[f].todo \cap flusher[f].batch = {}
            /\ flusher[f].sent \subseteq flusher[f].batch
            /\ \/ Deletes(flusher[f].batch) \subseteq flusher[f].sent
               \/ Deletes(flusher[f].batch) \cap flusher[f].sent = {}
        BY Zenon DEF IInv, Runs
      <4>2. \/ Deletes(flusher[f].batch) \subseteq flusher[f].sent \cup S
            \/ Deletes(flusher[f].batch) \cap (flusher[f].sent \cup S) = {}
        BY Zenon, <4>1 DEF Deletes
      <4>. QED  BY Zenon, <1>2, <1>3, <3>1, <4>1, <4>2
    <3>2. CASE g # f
      <4>1. flusher'[g] = flusher[g] /\ Held(g)' = Held(g)
        BY Zenon, <1>3, <1>4, <3>2
      <4>. QED  BY Zenon, <4>1 DEF IInv, Runs
    <3>. QED  BY Zenon, <3>1, <3>2
  <2>. QED  BY Zenon, <2>1, <2>2 DEF Runs, Deletes, Updates
<1>10. Numbers'
  <2>1. \A n \in 1..MaxWrites, k \in Key : flushed'[<<n, k>>] > 0 => n <= writes
    <3>1. ASSUME NEW n \in 1..MaxWrites, NEW k \in Key, flushed'[<<n, k>>] > 0  PROVE n <= writes
      <4>1. CASE \E e \in S : e.num = n /\ e.key = k
        BY Zenon, <1>2, <4>1 DEF IInv, Numbers
      <4>2. CASE ~\E e \in S : e.num = n /\ e.key = k
        BY Zenon, <1>6, <3>1, <4>2 DEF IInv, Numbers
      <4>. QED  BY Zenon, <4>1, <4>2
    <3>. QED  BY Zenon, <3>1
  <2>. QED  BY Zenon, <1>4, <2>1 DEF IInv, Numbers
<1>11. OwnWrite'
  <2>1. ASSUME NEW c \in Client, Writing(c), NEW k \in Key
        PROVE  flushed'[<<client[c].num, k>>] = flushed[<<client[c].num, k>>]
    <3>1. client[c].num \in 1..MaxWrites
      <4>1. client[c].num \in 1..writes
        BY Zenon, <2>1 DEF IInv, Calls
      <4>. QED  BY <4>1, CacheAssumption DEF IInv, Types
    <3>2. ~\E e \in S : e.num = client[c].num /\ e.key = k
      BY Zenon, <1>2, <2>1 DEF IInv, OwnWrite
    <3>. QED  BY Zenon, <1>6, <3>1, <3>2
  <2>. QED  BY Zenon, <1>4, <2>1, OwnWriteStep
<1>12. OneHolder'
  BY <1>4 DEF IInv, OneHolder, Takes
<1>13. NotYet'
  <2>1. ASSUME NEW k \in Key, Takes(dirty[k])  PROVE flushed'[<<dirty[k].num, k>>] = 0
    <3>1. dirty[k].num \in 1..MaxWrites
      BY Zenon, <2>1, Shapes DEF IInv, Takes
    <3>2. ~\E e \in S : e.num = dirty[k].num /\ e.key = k
      BY Zenon, <1>2, <2>1 DEF IInv, OneHolder
    <3>3. flushed'[<<dirty[k].num, k>>] = flushed[<<dirty[k].num, k>>]
      BY Zenon, <1>6, <3>1, <3>2
    <3>. QED  BY Zenon, <2>1, <3>3 DEF IInv, NotYet
  <2>2. ASSUME NEW g \in Flusher, NEW e \in Due(g)'  PROVE flushed'[<<e.num, e.key>>] = 0
    <3>1. e \in Due(g) /\ e \in Held(g) /\ e \in FlushEntry
      BY Zenon, <1>4, Shapes DEF Due, Held, IInv
    <3>2. e.num \in 1..MaxWrites /\ e.key \in Key
      BY Zenon, <3>1, Shapes DEF IInv
    <3>3. ~\E x \in S : x.num = e.num /\ x.key = e.key
      <4>1. SUFFICES ASSUME NEW x \in S, x.num = e.num, x.key = e.key  PROVE FALSE
        BY Zenon
      <4>2. x \in Held(f) /\ e \in Held(g) /\ e.key = x.key /\ e.num = x.num
        BY Zenon, <1>2, <3>1, <4>1
      <4>3. OneHolder
        BY Zenon DEF IInv
      <4>4. g = f /\ e = x
        BY <4>2, <4>3 DEF OneHolder
      <4>. QED  BY Zenon, <1>5, <2>2, <4>1, <4>4
    <3>4. flushed'[<<e.num, e.key>>] = flushed[<<e.num, e.key>>]
      BY Zenon, <1>6, <3>2, <3>3
    <3>. QED  BY Zenon, <3>1, <3>4 DEF IInv, NotYet
  <2>3. FlushedOnce'
    <3>1. SUFFICES ASSUME NEW p \in Sendable  PROVE flushed'[p] <= 1
      BY Zenon DEF FlushedOnce
    <3>2. PICK n \in 1..MaxWrites, k \in Key : p = <<n, k>>
      BY DEF Sendable
    <3>3. CASE \E e \in S : e.num = n /\ e.key = k
      <4>1. PICK e \in S : e.num = n /\ e.key = k
        BY Zenon, <3>3
      <4>2. flushed[<<e.num, e.key>>] = 0
        BY Zenon, <1>2, <4>1 DEF IInv, NotYet
      <4>3. flushed'[p] = flushed[p] + 1 /\ flushed[p] = 0
        BY Zenon, <1>6, <3>2, <3>3, <4>1, <4>2
      <4>. QED  BY <4>3
    <3>4. CASE ~\E e \in S : e.num = n /\ e.key = k
      <4>1. flushed'[p] = flushed[p]
        BY Zenon, <1>6, <3>2, <3>4
      <4>. QED  BY Zenon, <4>1 DEF IInv, NotYet, FlushedOnce
    <3>. QED  BY Zenon, <3>3, <3>4
  <2>. QED  BY Zenon, <2>1, <2>2, <2>3 DEF NotYet, Takes
<1>14. PendingIsOwned'
  <2>1. \A g \in Flusher : flusher'[g].todo \cup flusher'[g].batch = flusher[g].todo \cup flusher[g].batch
    BY Zenon, <1>4 DEF Held
  <2>. QED  BY <2>1 DEF IInv, PendingIsOwned, Entry
<1>15. InStep'
  <2>1. SUFFICES ASSUME NEW k \in Key \ (direct \cup overlapped)', InStepAt(k)
                 PROVE  InStepAt(k)'
    BY Zenon DEF IInv, InStep
  <2>2. /\ \A e \in flusher[f].batch : e.key = k => e.row = latest[k]
        /\ db'[k] = db[k] \/ db'[k] \in {latest[k], NoRow}
    BY ZenonT(40), <1>2, PlainStatement
  <2>3. ASSUME NEW g \in Flusher, NEW e \in flusher'[g].sent, e.key = k, e \in Held(g)
        PROVE  db'[k] \in {latest[k], NoRow}
    <3>1. CASE e \in flusher[g].sent
      <4>1. db[k] \in {latest[k], NoRow}
        BY Zenon, <2>1, <2>3, <3>1 DEF InStepAt
      <4>. QED  BY Zenon, <2>2, <4>1
    <3>2. CASE g = f /\ e \in S
      BY Zenon, <1>2, <2>2, <2>3, <3>2
    <3>. QED  BY Zenon, <1>3, <2>3, <3>1, <3>2
  <2>4. ASSUME NEW g \in Flusher, NEW e \in Held(g)', e.key = k
        PROVE  /\ dirty[k] # Clean /\ dirty[k].status = "pending" /\ e = Entry(k)
               /\ e \in flusher'[g].sent => db'[k] \in {latest[k], NoRow}
    <3>1. e \in Held(g)
      BY Zenon, <1>4, <2>4
    <3>. QED  BY Zenon, <2>1, <2>3, <2>4, <3>1 DEF InStepAt
  <2>. QED  BY Zenon, <2>1, <2>4 DEF InStepAt, Entry
<1>16. CleanMeansStored'
  <2>1. \A k \in Key \ (direct \cup overlapped) : dirty[k] = Clean => db'[k] = db[k]
    BY Zenon, <1>2, PlainStatement
  <2>. QED  BY Zenon, <2>1 DEF IInv, CleanMeansStored
<1>. QED
  BY Zenon, <1>7, <1>8, <1>9, <1>10, <1>11, <1>12, <1>13, <1>14, <1>15, <1>16 DEF IInv

\* A run of Flush lets go of some entries, and nothing else is written.
LEMMA LetGo ==
  ASSUME IInv, NEW f \in Flusher,
         \A g \in Flusher : g # f => flusher'[g] = flusher[g],
         flusher'[f].todo = flusher[f].todo, flusher'[f].batch = {}, flusher'[f].sent = {},
         flusher'[f].pc \in {"run", "hung"}, flusher[f].pc = "run",
         \A k \in Key : dirty'[k] \in {dirty[k], Clean},
         UNCHANGED <<client, closed, writes, flushed>>
  PROVE  /\ \A g \in Flusher : Held(g)' \subseteq Held(g) /\ Due(g)' \subseteq Due(g)
         /\ Runs' /\ Numbers' /\ OwnWrite' /\ OneHolder' /\ NotYet'
<1>1. \A g \in Flusher : Held(g)' \subseteq Held(g) /\ Due(g)' \subseteq Due(g)
  BY Zenon DEF Held, Due
<1>2. Runs'
  <2>1. ~closed => flusher'["close"].pc = "idle"
    <3>1. ~closed => flusher["close"].pc = "idle" /\ f # "close"
      BY Zenon DEF IInv, Runs
    <3>. QED  BY Zenon, <3>1 DEF Flusher
  <2>2. ASSUME NEW g \in Flusher
        PROVE  /\ flusher'[g].pc \in {"idle", "starting", "ended"} => Held(g)' = {}
               /\ flusher'[g].todo \cap flusher'[g].batch = {}
               /\ flusher'[g].sent \subseteq flusher'[g].batch
               /\ \/ Deletes(flusher'[g].batch) \subseteq flusher'[g].sent
                  \/ Deletes(flusher'[g].batch) \cap flusher'[g].sent = {}
    <3>1. CASE g = f
      BY Zenon, <3>1
    <3>2. CASE g # f
      <4>1. flusher'[g] = flusher[g]
        BY Zenon, <3>2
      <4>2. Held(g)' \subseteq Held(g)
        BY Zenon, <1>1
      <4>. QED  BY Zenon, <4>1, <4>2 DEF IInv, Runs
    <3>. QED  BY Zenon, <3>1, <3>2
  <2>. QED  BY Zenon, <2>1, <2>2 DEF Runs, Deletes, Updates
<1>3. Numbers'
  BY Zenon, <1>1 DEF IInv, Numbers
<1>4. OwnWrite'
  BY Zenon, <1>1, OwnWriteStep
<1>5. \A k \in Key : Takes(dirty'[k]) => Takes(dirty[k]) /\ dirty'[k] = dirty[k]
  BY Zenon DEF Takes
<1>6. OneHolder'
  <2>1. OneHolder
    BY Zenon DEF IInv
  <2>2. \A g, h \in Flusher : \A e \in Held(g)', x \in Held(h)' :
          e.key = x.key /\ e.num = x.num => g = h /\ e = x
    BY <1>1, <2>1 DEF OneHolder
  <2>3. \A k \in Key, g \in Flusher : Takes(dirty'[k]) =>
          \A e \in Held(g)' : e.key = k => e.num # dirty'[k].num
    <3>1. ASSUME NEW k \in Key, NEW g \in Flusher, Takes(dirty'[k]), NEW e \in Held(g)', e.key = k
          PROVE  e.num # dirty'[k].num
      <4>1. Takes(dirty[k]) /\ dirty'[k] = dirty[k] /\ e \in Held(g)
        BY Zenon, <1>1, <1>5, <3>1
      <4>2. e.num # dirty[k].num
        BY ZenonT(40), <2>1, <3>1, <4>1 DEF OneHolder
      <4>. QED  BY Zenon, <4>1, <4>2
    <3>. QED  BY Zenon, <3>1
  <2>. QED  BY Zenon, <2>2, <2>3 DEF OneHolder, Takes
<1>7. NotYet'
  <2>1. \A k \in Key : Takes(dirty'[k]) => flushed[<<dirty'[k].num, k>>] = 0
    BY Zenon, <1>5 DEF IInv, NotYet
  <2>2. FlushedOnce'
    BY Zenon DEF IInv, NotYet, FlushedOnce
  <2>. QED  BY Zenon, <1>1, <2>1, <2>2 DEF IInv, NotYet, Takes
<1>. QED  BY Zenon, <1>1, <1>2, <1>3, <1>4, <1>6, <1>7

\* The statement fails, or is dropped: its batch is given up.
LEMMA GiveUpKeeps ==
  ASSUME IInv, NEW f \in Flusher, flusher[f].pc = "run",
         db' \in [Key -> Row],
         \A k \in Key : \/ db'[k] = db[k]
                        \/ \E e \in flusher[f].batch : e.key = k /\ db'[k] \in {e.row, NoRow},
         GiveUp(f),
         UNCHANGED <<cache, dirty, client, closed, writes, latest, direct, overlapped, raced, astray, flushed>>
  PROVE  IInv'
<1>1. flusher \in [Flusher -> FlusherRun]
  BY Zenon DEF IInv, Types
<1>2. failed' = failed \cup flusher[f].batch
  BY Zenon DEF GiveUp
<1>3. PICK pc \in {"run", "hung"} :
        flusher' = [flusher EXCEPT ![f].pc = pc, ![f].batch = {}, ![f].sent = {}]
  BY Zenon DEF GiveUp
<1>4. /\ flusher' \in [Flusher -> FlusherRun]
      /\ \A g \in Flusher : g # f => flusher'[g] = flusher[g]
      /\ flusher'[f].todo = flusher[f].todo /\ flusher'[f].batch = {}
      /\ flusher'[f].sent = {} /\ flusher'[f].pc = pc
  <2>1. flusher[f] \in FlusherRun /\ DOMAIN flusher = Flusher
    BY Zenon, <1>1
  <2>2. /\ flusher' = [flusher EXCEPT ![f] = [flusher[f] EXCEPT !.pc = pc, !.batch = {}, !.sent = {}]]
    BY Zenon, <1>1, <1>3, <2>1
  <2>3. /\ [flusher[f] EXCEPT !.pc = pc, !.batch = {}, !.sent = {}] \in FlusherRun
        /\ [flusher[f] EXCEPT !.pc = pc, !.batch = {}, !.sent = {}].todo = flusher[f].todo
        /\ [flusher[f] EXCEPT !.pc = pc, !.batch = {}, !.sent = {}].batch = {}
        /\ [flusher[f] EXCEPT !.pc = pc, !.batch = {}, !.sent = {}].sent = {}
        /\ [flusher[f] EXCEPT !.pc = pc, !.batch = {}, !.sent = {}].pc = pc
    BY Zenon, <2>1 DEF FlusherRun
  <2>. QED  BY Zenon, <1>1, <2>2, <2>3
<1>5. /\ \A g \in Flusher : Held(g)' \subseteq Held(g) /\ Due(g)' \subseteq Due(g)
      /\ Runs' /\ Numbers' /\ OwnWrite' /\ OneHolder' /\ NotYet'
  <2>1. \A k \in Key : dirty'[k] \in {dirty[k], Clean}
    BY Zenon
  <2>2. flusher'[f].pc \in {"run", "hung"}
    BY Zenon, <1>4
  <2>. QED  BY Zenon, <1>4, <2>1, <2>2, LetGo
<1>6. Types'
  BY Zenon, <1>4 DEF IInv, Types
<1>7. Calls' /\ Apart'
  BY Zenon, FlushFrame
<1>8. PendingIsOwned'
  <2>1. ASSUME NEW k \in Key, dirty[k] # Clean, dirty[k].status = "pending"
        PROVE  \/ Entry(k) \in failed'
               \/ \E g \in Flusher : Entry(k) \in flusher'[g].todo \cup flusher'[g].batch
    <3>1. CASE Entry(k) \in failed
      BY Zenon, <1>2, <3>1
    <3>2. ASSUME NEW g \in Flusher, Entry(k) \in flusher[g].todo \cup flusher[g].batch
          PROVE  \/ Entry(k) \in failed'
                 \/ \E h \in Flusher : Entry(k) \in flusher'[h].todo \cup flusher'[h].batch
      <4>1. CASE g = f
        BY Zenon, <1>2, <1>4, <3>2, <4>1
      <4>2. CASE g # f
        <5>1. flusher'[g] = flusher[g]
          BY Zenon, <1>4, <4>2
        <5>. QED  BY Zenon, <3>2, <5>1
      <4>. QED  BY Zenon, <4>1, <4>2
    <3>. QED  BY Zenon, <2>1, <3>1, <3>2 DEF IInv, PendingIsOwned
  <2>. QED  BY Zenon, <2>1 DEF PendingIsOwned, Entry
<1>9. InStep'
  <2>1. SUFFICES ASSUME NEW k \in Key \ (direct \cup overlapped)', InStepAt(k)
                 PROVE  InStepAt(k)'
    BY Zenon DEF IInv, InStep
  <2>2. db'[k] = db[k] \/ db'[k] \in {latest[k], NoRow}
    <3>1. flusher[f].batch \in SUBSET flusher[f].batch
      OBVIOUS
    <3>. QED  BY ZenonT(40), <3>1, PlainStatement
  <2>3. ASSUME NEW g \in Flusher, NEW e \in Held(g)', e.key = k
        PROVE  /\ dirty[k] # Clean /\ dirty[k].status = "pending" /\ e = Entry(k)
               /\ e \in flusher'[g].sent => db'[k] \in {latest[k], NoRow}
    <3>1. e \in Held(g)
      BY Zenon, <1>5, <2>3
    <3>2. e \in flusher'[g].sent => e \in flusher[g].sent
      BY Zenon, <1>4
    <3>. QED  BY Zenon, <2>1, <2>2, <2>3, <3>1, <3>2 DEF InStepAt
  <2>. QED  BY Zenon, <2>1, <2>3 DEF InStepAt, Entry
<1>10. CleanMeansStored'
  <2>1. \A k \in Key \ (direct \cup overlapped) : dirty[k] = Clean => db'[k] = db[k]
    <3>1. flusher[f].batch \in SUBSET flusher[f].batch
      OBVIOUS
    <3>. QED  BY Zenon, <3>1, PlainStatement
  <2>. QED  BY Zenon, <2>1 DEF IInv, CleanMeansStored
<1>. QED  BY Zenon, <1>5, <1>6, <1>7, <1>8, <1>9, <1>10 DEF IInv

\* One UPDATE of a batch.
LEMMA FlushUpdateKeeps ==
  ASSUME IInv, NEW f \in Flusher, NEW e, FlushUpdate(f, e)
  PROVE  IInv'
<1> DEFINE new == Updated(db, e.key, e.row)
<1>1. /\ flusher[f].pc = "run" /\ e \in Updates(flusher[f].batch) /\ e \notin flusher[f].sent
      /\ UNCHANGED <<cache, dirty, client, closed, writes, latest, direct, overlapped, raced,
                     astray>>
  BY Zenon DEF FlushUpdate
<1>2. e \in flusher[f].batch /\ e.key \in Key /\ e.row \in Row
  BY Zenon, <1>1, Shapes DEF IInv, Updates
<1>3. /\ new \in [Key -> Row] /\ new[e.key] \in {e.row, NoRow}
      /\ \A k \in Key : k # e.key => new[k] = db[k]
  <2>1. Types
    BY Zenon DEF IInv
  <2>. QED  BY ZenonT(40), <1>2, <2>1, Rows
<1>. HIDE DEF new
<1>4. CASE /\ StatementOk(new) /\ UNCHANGED failed
           /\ flusher' = [flusher EXCEPT ![f].sent = @ \cup {e}] /\ flushed' = Applied({e})
  <2>1. db' = new
    BY Zenon, <1>4 DEF StatementOk
  <2>2. /\ {e} \in SUBSET (flusher[f].batch \ flusher[f].sent)
        /\ {e} \subseteq Updates(flusher[f].batch)
    BY Zenon, <1>1, <1>2
  <2>3. \A k \in Key : db'[k] = db[k] \/ \E x \in {e} : x.key = k /\ db'[k] \in {x.row, NoRow}
    BY Zenon, <1>3, <2>1
  <2>4. \A x \in {e} : db'[x.key] \in {x.row, NoRow}
    BY Zenon, <1>3, <2>1
  <2>. QED  BY Zenon, <1>1, <1>3, <1>4, <2>1, <2>2, <2>3, <2>4, SentKeeps
<1>5. CASE StatementBad(new) /\ GiveUp(f) /\ UNCHANGED flushed
  <2>1. db' \in {db, new}
    BY Zenon, <1>5 DEF StatementBad
  <2>2. db' \in [Key -> Row]
    BY Zenon, <1>3, <2>1 DEF IInv, Types
  <2>3. \A k \in Key : \/ db'[k] = db[k]
                       \/ \E x \in flusher[f].batch : x.key = k /\ db'[k] \in {x.row, NoRow}
    BY Zenon, <1>2, <1>3, <2>1
  <2>. QED  BY Zenon, <1>1, <1>5, <2>2, <2>3, GiveUpKeeps
<1>. QED  BY Zenon, <1>4, <1>5 DEF FlushUpdate, new

\* The DELETE of a batch.
LEMMA FlushDeleteKeeps ==
  ASSUME IInv, NEW f \in Flusher, FlushDelete(f)
  PROVE  IInv'
<1> DEFINE D == Deletes(flusher[f].batch)
<1> DEFINE new == Deleted(db, KeysOf(D))
<1>1. /\ flusher[f].pc = "run" /\ ~(D \subseteq flusher[f].sent)
      /\ UNCHANGED <<cache, dirty, client, closed, writes, latest, direct, overlapped, raced,
                     astray>>
      /\ \/ /\ StatementOk(new) /\ UNCHANGED failed
            /\ flusher' = [flusher EXCEPT ![f].sent = @ \cup D] /\ flushed' = Applied(D)
         \/ StatementBad(new) /\ GiveUp(f) /\ UNCHANGED flushed
  BY Zenon DEF FlushDelete
<1>2. /\ D \subseteq flusher[f].batch /\ \A e \in D : e.row = NoRow /\ e.key \in Key
  BY Zenon, Shapes DEF IInv, Updates, Deletes
<1>3. /\ new \in [Key -> Row]
      /\ \A k \in Key : k \in KeysOf(D) => new[k] = NoRow
      /\ \A k \in Key : k \notin KeysOf(D) => new[k] = db[k]
  <2>1. Types
    BY Zenon DEF IInv
  <2>. QED  BY Zenon, <2>1, Rows
<1>4. /\ \A k \in Key : new[k] = db[k] \/ \E x \in D : x.key = k /\ new[k] \in {x.row, NoRow}
      /\ \A x \in D : new[x.key] \in {x.row, NoRow}
  BY Zenon, <1>2, <1>3 DEF KeysOf
<1>. HIDE DEF D, new
<1>5. CASE /\ StatementOk(new) /\ UNCHANGED failed
           /\ flusher' = [flusher EXCEPT ![f].sent = @ \cup D] /\ flushed' = Applied(D)
  <2>1. db' = new
    BY Zenon, <1>5 DEF StatementOk
  <2>2. D \cap flusher[f].sent = {}
    BY Zenon, <1>1 DEF IInv, Runs, D
  <2>3. D \in SUBSET (flusher[f].batch \ flusher[f].sent)
    BY Zenon, <1>2, <2>2
  <2>4. D \subseteq Updates(flusher[f].batch) \/ D = Deletes(flusher[f].batch)
    BY Zenon DEF D
  <2>5. /\ db' \in [Key -> Row]
        /\ \A k \in Key : db'[k] = db[k] \/ \E x \in D : x.key = k /\ db'[k] \in {x.row, NoRow}
        /\ \A x \in D : db'[x.key] \in {x.row, NoRow}
    BY Zenon, <1>3, <1>4, <2>1
  <2>. QED  BY ZenonT(40), <1>1, <1>5, <2>3, <2>4, <2>5, SentKeeps
<1>6. CASE StatementBad(new) /\ GiveUp(f) /\ UNCHANGED flushed
  <2>1. db' \in {db, new}
    BY Zenon, <1>6 DEF StatementBad
  <2>2. db' \in [Key -> Row]
    BY Zenon, <1>3, <2>1 DEF IInv, Types
  <2>3. \A k \in Key : \/ db'[k] = db[k]
                       \/ \E x \in flusher[f].batch : x.key = k /\ db'[k] \in {x.row, NoRow}
    BY Zenon, <1>2, <1>4, <2>1
  <2>. QED  BY Zenon, <1>1, <1>6, <2>2, <2>3, GiveUpKeeps
<1>. QED  BY Zenon, <1>1, <1>5, <1>6

\* The dirty entries of a batch are removed, by key.
LEMMA FlushCleanKeeps ==
  ASSUME IInv, NEW f \in Flusher, FlushClean(f)
  PROVE  IInv'
<1> DEFINE K == DoneKeys(f)
<1>1. /\ flusher[f].pc = "run" /\ flusher[f].batch \subseteq flusher[f].sent
      /\ dirty' = [k \in Key |-> IF k \in K THEN Clean ELSE dirty[k]]
      /\ flusher' = [flusher EXCEPT ![f].batch = {}, ![f].sent = {}]
      /\ UNCHANGED <<cache, db, client, closed, writes, latest, direct, overlapped, raced, astray, failed, flushed>>
  BY Zenon DEF FlushClean
<1>2. flusher \in [Flusher -> FlusherRun]
  BY Zenon DEF IInv, Types
<1>3. /\ flusher' \in [Flusher -> FlusherRun]
      /\ \A g \in Flusher : g # f => flusher'[g] = flusher[g]
      /\ flusher'[f].todo = flusher[f].todo /\ flusher'[f].batch = {}
      /\ flusher'[f].sent = {} /\ flusher'[f].pc = "run"
  BY Zenon, <1>1, <1>2 DEF FlusherRun
<1>4. /\ \A k \in Key : k \in K => dirty'[k] = Clean
      /\ \A k \in Key : k \notin K => dirty'[k] = dirty[k]
      /\ dirty' \in [Key -> DirtyEntry \cup {Clean}]
  BY Zenon, <1>1 DEF IInv, Types
<1>5. /\ \A g \in Flusher : Held(g)' \subseteq Held(g) /\ Due(g)' \subseteq Due(g)
      /\ Runs' /\ Numbers' /\ OwnWrite' /\ OneHolder' /\ NotYet'
  <2>1. \A k \in Key : dirty'[k] \in {dirty[k], Clean}
    BY Zenon, <1>4
  <2>2. flusher'[f].pc \in {"run", "hung"}
    BY Zenon, <1>3
  <2>. QED  BY Zenon, <1>1, <1>3, <2>1, <2>2, LetGo
<1>6. Types'
  BY Zenon, <1>1, <1>3, <1>4 DEF IInv, Types
<1>7. Calls' /\ Apart'
  <2>1. \A k \in Key : dirty[k] = Clean => dirty'[k] = Clean
    BY Zenon, <1>4
  <2>. QED  BY Zenon, <1>1, <2>1, FlushFrame
<1>8. \A e \in flusher[f].batch : e.key \in K
  BY Zenon DEF DoneKeys, KeysOf
<1>9. PendingIsOwned'
  <2>1. ASSUME NEW k \in Key, dirty'[k] # Clean, dirty'[k].status = "pending"
        PROVE  /\ dirty'[k] = dirty[k]
               /\ \/ Entry(k) \in failed
                  \/ \E g \in Flusher : Entry(k) \in flusher'[g].todo \cup flusher'[g].batch
    <3>1. k \notin K /\ dirty'[k] = dirty[k]
      BY Zenon, <1>4, <2>1
    <3>2. ASSUME NEW g \in Flusher, Entry(k) \in flusher[g].todo \cup flusher[g].batch
          PROVE  Entry(k) \in flusher'[g].todo \cup flusher'[g].batch
      <4>1. CASE g = f
        <5>1. Entry(k) \notin flusher[f].batch
          BY Zenon, <1>8, <3>1, EntryFields
        <5>. QED  BY Zenon, <1>3, <3>2, <4>1, <5>1
      <4>2. CASE g # f
        <5>1. flusher'[g] = flusher[g]
          BY Zenon, <1>3, <4>2
        <5>. QED  BY Zenon, <3>2, <5>1
      <4>. QED  BY Zenon, <4>1, <4>2
    <3>. QED  BY Zenon, <2>1, <3>1, <3>2 DEF IInv, PendingIsOwned
  <2>. QED  BY Zenon, <1>1, <2>1 DEF PendingIsOwned, Entry
<1>10. ASSUME NEW k \in Key \ (direct \cup overlapped), k \in K
       PROVE  /\ db[k] \in {latest[k], NoRow}
              /\ \A g \in Flusher : \A e \in Held(g)' : e.key # k
  <2>1. InStepAt(k) /\ OneHolder
    BY Zenon DEF IInv, InStep
  <2>2. PICK x \in flusher[f].batch : x.key = k
    BY Zenon, <1>10 DEF DoneKeys, KeysOf
  <2>3. x \in Held(f) /\ x \in flusher[f].sent
    BY Zenon, <1>1, <2>2 DEF Held
  <2>4. db[k] \in {latest[k], NoRow} /\ x = Entry(k)
    BY Zenon, <2>1, <2>2, <2>3 DEF InStepAt
  <2>5. ASSUME NEW g \in Flusher, NEW e \in Held(g)', e.key = k  PROVE FALSE
    <3>1. e \in Held(g) /\ e = x
      BY Zenon, <1>5, <2>1, <2>4, <2>5 DEF InStepAt
    <3>2. g = f
      BY <2>1, <2>3, <3>1 DEF OneHolder
    <3>3. e \in flusher[f].todo
      BY Zenon, <1>3, <2>5, <3>2 DEF Held
    <3>. QED  BY Zenon, <2>2, <3>1, <3>3 DEF IInv, Runs
  <2>. QED  BY Zenon, <2>4, <2>5
<1>11. InStep'
  <2>1. SUFFICES ASSUME NEW k \in Key \ (direct \cup overlapped)', InStepAt(k)
                 PROVE  InStepAt(k)'
    BY Zenon, <1>1 DEF IInv, InStep
  <2>2. CASE k \in K
    BY ZenonT(40), <1>1, <1>4, <1>10, <2>1, <2>2 DEF InStepAt
  <2>3. CASE k \notin K
    <3>1. dirty'[k] = dirty[k]
      BY Zenon, <1>4, <2>3
    <3>2. \A g \in Flusher : flusher'[g].sent \subseteq flusher[g].sent
      BY Zenon, <1>3
    <3>3. ASSUME NEW g \in Flusher, NEW e \in Held(g)', e.key = k
          PROVE  /\ dirty[k] # Clean /\ dirty[k].status = "pending" /\ e = Entry(k)
                 /\ e \in flusher'[g].sent => db[k] \in {latest[k], NoRow}
      <4>1. e \in Held(g)
        BY Zenon, <1>5, <3>3
      <4>. QED  BY Zenon, <2>1, <3>2, <3>3, <4>1 DEF InStepAt
    <3>. QED  BY Zenon, <1>1, <2>1, <3>1, <3>3 DEF InStepAt, Entry
  <2>. QED  BY Zenon, <2>2, <2>3
<1>12. CleanMeansStored'
  <2>1. ASSUME NEW k \in Key \ (direct \cup overlapped), dirty'[k] = Clean
        PROVE  db[k] \in {latest[k], NoRow}
    BY Zenon, <1>4, <1>10, <2>1 DEF IInv, CleanMeansStored
  <2>. QED  BY Zenon, <1>1, <2>1 DEF CleanMeansStored
<1>. QED  BY Zenon, <1>5, <1>6, <1>7, <1>9, <1>11, <1>12 DEF IInv

\* Flush takes the new entries.
LEMMA FlushStartKeeps ==
  ASSUME IInv, NEW f \in Flusher, FlushStart(f)
  PROVE  IInv'
<1> DEFINE taken == {k \in Key : Takes(dirty[k])}
<1> DEFINE T == {Entry(k) : k \in taken}
<1> DEFINE started == IF taken = {} THEN Rested ELSE [Rested EXCEPT !.pc = "run", !.todo = T]
<1>1. /\ flusher[f].pc = IF f = "close" THEN "starting" ELSE "idle"
      /\ flusher' = [flusher EXCEPT ![f] = started]
      /\ dirty' = [k \in Key |-> IF k \in taken THEN [dirty[k] EXCEPT !.status = "pending"] ELSE dirty[k]]
      /\ UNCHANGED <<cache, db, client, closed, writes, latest, direct, overlapped, raced, astray, failed, flushed>>
  BY Zenon DEF FlushStart, MayFlush
<1>2. flusher \in [Flusher -> FlusherRun]
  BY Zenon DEF IInv, Types
<1>3. \A k \in taken : /\ k \in Key /\ dirty[k] # Clean /\ dirty[k].status = "new"
                       /\ dirty[k] \in DirtyEntry
                       /\ dirty[k].num \in 1..MaxWrites /\ dirty[k].row \in Row
  BY Zenon, Shapes DEF Takes, IInv
<1>4. T \subseteq FlushEntry
  BY <1>3 DEF Entry, FlushEntry
<1>5. \A e \in T : e.key \in taken /\ e = Entry(e.key)
  BY Zenon, EntryFields
<1>6. /\ started \in FlusherRun
      /\ started.pc = "run" \/ T = {}
      /\ started.todo = T /\ started.batch = {} /\ started.sent = {}
  <2>1. CASE taken = {}
    <3>1. started = Rested /\ T = {}
      BY Zenon, <2>1
    <3>2. Rested \in FlusherRun /\ Rested.todo = {} /\ Rested.batch = {} /\ Rested.sent = {}
      BY DEF FlusherRun, Rested
    <3>. QED  BY Zenon, <3>1, <3>2
  <2>2. CASE taken # {}
    <3>1. started = [Rested EXCEPT !.pc = "run", !.todo = T]
      BY Zenon, <2>2
    <3>. HIDE DEF T, started
    <3>. QED  BY Zenon, <1>4, <3>1 DEF FlusherRun, Rested
  <2>. QED  BY Zenon, <2>1, <2>2
<1>7. ASSUME NEW k \in taken
      PROVE  LET d == [dirty[k] EXCEPT !.status = "pending"] IN
             /\ d \in DirtyEntry /\ d # Clean
             /\ d.num = dirty[k].num /\ d.row = dirty[k].row /\ d.status = "pending"
  <2>1. dirty[k] \in DirtyEntry
    BY Zenon, <1>3
  <2>. QED  BY <2>1, CacheAssumption DEF DirtyEntry, Row
<1>. HIDE DEF taken, T, started
<1>8. /\ \A k \in Key : k \in taken =>
           /\ dirty'[k] # Clean /\ dirty'[k].num = dirty[k].num /\ dirty'[k].row = dirty[k].row
           /\ dirty'[k].status = "pending" /\ Entry(k)' = Entry(k)
      /\ \A k \in Key : k \notin taken => dirty'[k] = dirty[k]
      /\ dirty' \in [Key -> DirtyEntry \cup {Clean}]
      /\ \A k \in Key : ~Takes(dirty'[k])
  <2>1. \A k \in Key : k \in taken => dirty'[k] = [dirty[k] EXCEPT !.status = "pending"]
    BY Zenon, <1>1
  <2>2. \A k \in Key : k \in taken =>
          /\ dirty'[k] # Clean /\ dirty'[k].num = dirty[k].num /\ dirty'[k].row = dirty[k].row
          /\ dirty'[k].status = "pending" /\ dirty'[k] \in DirtyEntry
    BY Zenon, <1>7, <2>1
  <2>3. \A k \in Key : k \notin taken => dirty'[k] = dirty[k]
    BY Zenon, <1>1
  <2>4. dirty' \in [Key -> DirtyEntry \cup {Clean}]
    <3>1. \A k \in Key : dirty'[k] \in DirtyEntry \cup {Clean}
      BY Zenon, <2>2, <2>3 DEF IInv, Types
    <3>. QED  BY Zenon, <1>1, <3>1
  <2>5. \A k \in Key : ~Takes(dirty'[k])
    BY Zenon, <2>2, <2>3 DEF Takes, taken
  <2>. QED  BY Zenon, <2>2, <2>3, <2>4, <2>5 DEF Entry
<1>9. /\ flusher' \in [Flusher -> FlusherRun]
      /\ \A g \in Flusher : g # f => flusher'[g] = flusher[g]
      /\ flusher'[f] = started
  BY Zenon, <1>1, <1>2, <1>6
<1>10. Held(f) = {}
  BY Zenon, <1>1 DEF IInv, Runs
<1>11. /\ Held(f)' = T /\ Due(f)' = T
       /\ \A g \in Flusher : g # f => Held(g)' = Held(g) /\ Due(g)' = Due(g)
  BY Zenon, <1>6, <1>9 DEF Held, Due
<1>12. \A e \in T : /\ e.key \in Key /\ e.key \in taken /\ e = Entry(e.key)
                    /\ e.num = dirty[e.key].num /\ Takes(dirty[e.key]) /\ dirty[e.key] # Clean
  BY Zenon, <1>3, <1>5, EntryFields DEF taken
<1>13. Types'
  BY Zenon, <1>1, <1>8, <1>9 DEF IInv, Types
<1>14. Calls' /\ Apart'
  <2>1. \A k \in Key : dirty[k] = Clean => dirty'[k] = Clean
    BY Zenon, <1>3, <1>8
  <2>. QED  BY Zenon, <1>1, <2>1, FlushFrame
<1>15. Runs'
  <2>1. ~closed => flusher'["close"].pc = "idle"
    <3>1. ~closed => flusher["close"].pc = "idle" /\ f # "close"
      BY Zenon, <1>1 DEF IInv, Runs
    <3>. QED  BY Zenon, <1>9, <3>1 DEF Flusher
  <2>2. ASSUME NEW g \in Flusher
        PROVE  /\ flusher'[g].pc \in {"idle", "starting", "ended"} => Held(g)' = {}
               /\ flusher'[g].todo \cap flusher'[g].batch = {}
               /\ flusher'[g].sent \subseteq flusher'[g].batch
               /\ \/ Deletes(flusher'[g].batch) \subseteq flusher'[g].sent
                  \/ Deletes(flusher'[g].batch) \cap flusher'[g].sent = {}
    <3>1. CASE g = f
      BY Zenon, <1>6, <1>9, <1>11, <3>1
    <3>2. CASE g # f
      <4>1. flusher'[g] = flusher[g] /\ Held(g)' = Held(g)
        BY Zenon, <1>9, <1>11, <3>2
      <4>. QED  BY Zenon, <4>1 DEF IInv, Runs
    <3>. QED  BY Zenon, <3>1, <3>2
  <2>. QED  BY Zenon, <1>1, <2>1, <2>2 DEF Runs, Deletes, Updates
<1>16. Numbers'
  <2>1. \A k \in Key : dirty'[k] # Clean => dirty'[k].num <= writes
    BY Zenon, <1>3, <1>8 DEF IInv, Numbers
  <2>2. \A g \in Flusher : \A e \in Held(g)' : e.num <= writes
    BY Zenon, <1>11, <1>12 DEF IInv, Numbers
  <2>. QED  BY Zenon, <1>1, <2>1, <2>2 DEF IInv, Numbers
<1>17. OwnWrite'
  <2>1. \A k \in Key : dirty'[k] # Clean => dirty[k] # Clean /\ dirty'[k].num = dirty[k].num
    BY Zenon, <1>3, <1>8
  <2>2. \A g \in Flusher : \A e \in Held(g)' :
           \/ \E h \in Flusher : e \in Held(h)
           \/ \E k \in Key : dirty[k] # Clean /\ e.num = dirty[k].num
    BY Zenon, <1>11, <1>12
  <2>. QED  BY Zenon, <1>1, <2>1, <2>2, OwnWriteStep
<1>18. OneHolder'
  <2>1. OneHolder
    BY Zenon DEF IInv
  <2>2. ASSUME NEW g \in Flusher, g # f, NEW e \in T, NEW x \in Held(g), e.key = x.key, e.num = x.num
        PROVE  FALSE
    <3>1. /\ e.key \in Key /\ Takes(dirty[e.key]) /\ e.num = dirty[e.key].num
      BY Zenon, <1>12
    <3>2. x.num # dirty[e.key].num
      BY Zenon, <2>1, <2>2, <3>1 DEF OneHolder
    <3>. QED  BY Zenon, <2>2, <3>1, <3>2
  <2>3. ASSUME NEW g \in Flusher, NEW h \in Flusher, NEW e \in Held(g)', NEW x \in Held(h)',
               e.key = x.key, e.num = x.num
        PROVE  g = h /\ e = x
    <3>1. CASE g = f /\ h = f
      BY Zenon, <1>11, <1>12, <2>3, <3>1
    <3>2. CASE g = f /\ h # f
      BY Zenon, <1>11, <2>2, <2>3, <3>2
    <3>3. CASE g # f /\ h = f
      <4>1. x \in T /\ e \in Held(g) /\ x.key = e.key /\ x.num = e.num
        BY Zenon, <1>11, <2>3, <3>3
      <4>. QED  BY Zenon, <2>2, <3>3, <4>1
    <3>4. CASE g # f /\ h # f
      <4>1. e \in Held(g) /\ x \in Held(h)
        BY Zenon, <1>11, <2>3, <3>4
      <4>2. \A a, b \in Flusher : \A y \in Held(a), z \in Held(b) :
              y.key = z.key /\ y.num = z.num => a = b /\ y = z
        BY Zenon, <2>1 DEF OneHolder
      <4>. QED  BY <2>3, <4>1, <4>2
    <3>. QED  BY Zenon, <3>1, <3>2, <3>3, <3>4
  <2>4. \A g, h \in Flusher : \A e \in Held(g)', x \in Held(h)' :
          e.key = x.key /\ e.num = x.num => g = h /\ e = x
    BY Zenon, <2>3
  <2>5. \A k \in Key, g \in Flusher : Takes(dirty'[k]) =>
          \A e \in Held(g)' : e.key = k => e.num # dirty'[k].num
    BY Zenon, <1>8
  <2>. QED  BY Zenon, <2>4, <2>5 DEF OneHolder, Takes
<1>19. NotYet'
  <2>1. \A g \in Flusher : \A e \in Due(g)' : flushed[<<e.num, e.key>>] = 0
    <3>1. \A e \in T : flushed[<<e.num, e.key>>] = 0
      BY Zenon, <1>12 DEF IInv, NotYet
    <3>. QED  BY Zenon, <1>11, <3>1 DEF IInv, NotYet
  <2>2. FlushedOnce'
    BY Zenon, <1>1 DEF IInv, NotYet, FlushedOnce
  <2>. QED  BY Zenon, <1>1, <1>8, <2>1, <2>2 DEF NotYet, Takes
<1>20. PendingIsOwned'
  <2>1. ASSUME NEW k \in Key, dirty'[k] # Clean, dirty'[k].status = "pending"
        PROVE  /\ Entry(k)' = Entry(k)
               /\ \/ Entry(k) \in failed
                  \/ \E g \in Flusher : Entry(k) \in flusher'[g].todo \cup flusher'[g].batch
    <3>1. CASE k \in taken
      <4>1. Entry(k) \in flusher'[f].todo
        BY Zenon, <1>6, <1>9, <3>1 DEF T
      <4>. QED  BY Zenon, <1>8, <3>1, <4>1
    <3>2. CASE k \notin taken
      <4>1. dirty'[k] = dirty[k] /\ Entry(k)' = Entry(k)
        BY Zenon, <1>8, <3>2 DEF Entry
      <4>2. ASSUME NEW g \in Flusher, Entry(k) \in flusher[g].todo \cup flusher[g].batch
            PROVE  Entry(k) \in flusher'[g].todo \cup flusher'[g].batch
        <5>1. g # f
          BY Zenon, <1>10, <4>2 DEF Held
        <5>. QED  BY Zenon, <1>9, <4>2, <5>1
      <4>. QED  BY Zenon, <2>1, <4>1, <4>2 DEF IInv, PendingIsOwned
    <3>. QED  BY Zenon, <3>1, <3>2
  <2>. QED  BY Zenon, <1>1, <2>1 DEF PendingIsOwned
<1>21. InStep'
  <2>1. SUFFICES ASSUME NEW k \in Key \ (direct \cup overlapped)', InStepAt(k)
                 PROVE  InStepAt(k)'
    BY Zenon, <1>1 DEF IInv, InStep
  <2>2. dirty'[k] # Clean => dirty'[k].row = latest[k]
    BY Zenon, <1>3, <1>8, <2>1 DEF InStepAt
  <2>3. ASSUME NEW g \in Flusher, NEW e \in Held(g)', e.key = k
        PROVE  /\ dirty'[k] # Clean /\ dirty'[k].status = "pending" /\ e = Entry(k)'
               /\ e \in flusher'[g].sent => db[k] \in {latest[k], NoRow}
    <3>1. CASE g = f
      <4>1. e \in T /\ flusher'[g].sent = {}
        BY Zenon, <1>6, <1>9, <1>11, <2>3, <3>1
      <4>2. k \in taken /\ e = Entry(k)
        BY Zenon, <1>12, <2>3, <4>1
      <4>. QED  BY Zenon, <1>8, <4>1, <4>2
    <3>2. CASE g # f
      <4>1. e \in Held(g) /\ flusher'[g] = flusher[g]
        BY Zenon, <1>9, <1>11, <2>3, <3>2
      <4>2. /\ dirty[k] # Clean /\ dirty[k].status = "pending" /\ e = Entry(k)
            /\ e \in flusher[g].sent => db[k] \in {latest[k], NoRow}
        BY Zenon, <2>1, <2>3, <4>1 DEF InStepAt
      <4>3. k \notin taken
        BY Zenon, <1>3, <4>2
      <4>. QED  BY Zenon, <1>8, <4>1, <4>2, <4>3 DEF Entry
    <3>. QED  BY Zenon, <3>1, <3>2
  <2>. QED  BY Zenon, <1>1, <2>2, <2>3 DEF InStepAt
<1>22. CleanMeansStored'
  BY Zenon, <1>1, <1>8 DEF IInv, CleanMeansStored
<1>. QED
  BY Zenon, <1>13, <1>14, <1>15, <1>16, <1>17, <1>18, <1>19, <1>20, <1>21, <1>22 DEF IInv

-----------------------------------------------------------------------------
(* The invariant holds, and what the runs check follows.                    *)

\* The invariant holds at the start.
LEMMA InitIInv == Init => IInv
<1>. SUFFICES ASSUME Init PROVE IInv
  OBVIOUS
<1>1. /\ \A c \in Client : client[c] = Idle
      /\ \A k \in Key : dirty[k] = Clean /\ cache[k] = Miss
      /\ \A f \in Flusher : flusher[f] = Rested
      /\ \A p \in Sendable : flushed[p] = 0
      /\ latest = db /\ writes = 0 /\ db \in [Key -> {0, NoRow}] /\ ~closed
  BY Zenon DEF Init
<1>2. /\ Idle.op = "idle"
      /\ Rested.pc = "idle" /\ Rested.todo = {} /\ Rested.batch = {} /\ Rested.sent = {}
  BY DEF Idle, Rested
<1>3. \A f \in Flusher : Held(f) = {} /\ Due(f) = {}
  BY Zenon, <1>1, <1>2 DEF Held, Due
<1>4. \A c \in Client : ~Writing(c) /\ ~Busy(c) /\ client[c].op = "idle"
  BY Zenon, <1>1, <1>2 DEF Writing, Busy
<1>5. Types
  <2>1. writes \in 0..MaxWrites /\ 0 \in Row /\ 0 \in Nat
    BY <1>1, CacheAssumption DEF Row
  <2>2. Rested \in FlusherRun
    BY DEF Rested, FlusherRun
  <2>3. db \in [Key -> Row]
    BY Zenon, <1>1, <2>1 DEF Row
  <2>. QED  BY Zenon, <2>1, <2>2, <2>3 DEF Init, Types
<1>6. Calls
  BY Zenon, <1>4 DEF Calls, Reading
<1>7. Runs
  <2>1. \A f \in Flusher : flusher[f].pc = "idle" /\ flusher[f].todo = {} /\ flusher[f].batch = {}
                           /\ flusher[f].sent = {}
    BY Zenon, <1>1, <1>2
  <2>. QED  BY Zenon, <1>3, <2>1 DEF Runs, Flusher
<1>8. \A n \in 1..MaxWrites, k \in Key : ~(flushed[<<n, k>>] > 0)
  <2>1. \A n \in 1..MaxWrites, k \in Key : <<n, k>> \in Sendable
    BY DEF Sendable
  <2>2. \A n \in 1..MaxWrites, k \in Key : flushed[<<n, k>>] = 0
    BY Zenon, <1>1, <2>1
  <2>3. ~(0 > 0)
    OBVIOUS
  <2>. QED  BY Zenon, <2>2, <2>3
<1>9. Numbers /\ OwnWrite /\ OneHolder
  BY Zenon, <1>1, <1>3, <1>4, <1>8 DEF Numbers, OwnWrite, OneHolder, Takes
<1>10. NotYet
  <2>1. FlushedOnce
    <3>1. \A p \in Sendable : flushed[p] = 0
      BY Zenon, <1>1
    <3>. QED  BY <3>1 DEF FlushedOnce
  <2>. QED  BY Zenon, <1>1, <1>3, <2>1 DEF NotYet, Takes
<1>11. PendingIsOwned /\ InStep /\ CleanMeansStored /\ Apart
  BY Zenon, <1>1, <1>3, <1>4 DEF PendingIsOwned, InStep, InStepAt, CleanMeansStored, Apart, ApartAt
<1>. QED  BY Zenon, <1>5, <1>6, <1>7, <1>9, <1>10, <1>11 DEF IInv

\* Every step keeps the invariant.
LEMMA NextIInv == IInv /\ [Next]_vars => IInv'
<1>. SUFFICES ASSUME IInv, [Next]_vars PROVE IInv'
  OBVIOUS
<1>1. ASSUME NEW c \in Writer, Write(c)  PROVE IInv'
  <2>1. c \in Client
    BY Zenon DEF Client
  <2>. QED  BY Zenon, <1>1, <2>1, SetCacheKeeps, SetCacheFailsKeeps, DeleteCacheKeeps,
               MarkDirtyKeeps, DeleteNowKeeps, SetNowKeeps DEF Write
<1>2. ASSUME NEW c \in Reader, Read(c)  PROVE IInv'
  <2>1. c \in Client
    BY Zenon DEF Client
  <2>2. ASSUME NEW k \in Key, GetMiss(c, k)  PROVE IInv'
    <3>1. {k} \in SUBSET Key
      BY Zenon
    <3>. QED  BY Zenon, <2>1, <2>2, <3>1, MissKeeps DEF GetMiss
  <2>3. ASSUME NEW K \in SUBSET Key, MultiMiss(c, K)  PROVE IInv'
    BY Zenon, <2>1, <2>3, MissKeeps DEF MultiMiss
  <2>. QED  BY Zenon, <1>2, <2>1, <2>2, <2>3, GetDirtyKeeps, MultiDirtyKeeps, GetQueryKeeps,
               GetFillKeeps DEF Read
<1>3. ASSUME NEW f \in Flusher, FlushStart(f) \/ FlushStep(f)  PROVE IInv'
  BY Zenon, <1>3, FlushStartKeeps, NextBatchKeeps, FlushDeleteKeeps, FlushCleanKeeps,
     FlushReturnKeeps, FlushUpdateKeeps DEF FlushStep
<1>4. CASE UNCHANGED vars
  <2>1. Runs' /\ Types'
    BY Zenon, <1>4 DEF vars, IInv, Types, Runs, Held
  <2>2. \A g \in Flusher : /\ Held(g)' = Held(g) /\ Due(g)' = Due(g)
                           /\ flusher'[g].sent = flusher[g].sent
    BY Zenon, <1>4 DEF vars, Held, Due
  <2>3. /\ flusher' \in [Flusher -> FlusherRun]
        /\ UNCHANGED <<cache, db, dirty, client, writes, latest, direct, overlapped,
                       raced, astray, failed, flushed>>
    BY Zenon, <1>4, <2>1 DEF vars, Types
  <2>. QED  BY Zenon, <2>1, <2>2, <2>3, QuietFlush
<1>. QED  BY Zenon, <1>1, <1>2, <1>3, <1>4, ExpireKeeps, CloseMarkKeeps, LoopEndsKeeps DEF Next

\* However runs of Flush interleave, no write of a key is applied by two of
\* them (Flush takes an entry under the lock, cache_sync.go).
THEOREM EachWriteFlushedOnce == Spec => []FlushedOnce
<1>1. IInv => FlushedOnce
  BY Zenon DEF IInv, NotYet
<1>. QED  BY <1>1, InitIInv, NextIInv, PTL DEF Spec

\* A pending entry is in the hands of a run of Flush, or its flush failed: no
\* entry is forgotten between the batches (Flush, flushBatch).
THEOREM PendingAlwaysOwned == Spec => []PendingIsOwned
<1>1. IInv => PendingIsOwned
  BY Zenon DEF IInv
<1>. QED  BY <1>1, InitIInv, NextIInv, PTL DEF Spec

\* Along the plain course a key without a dirty entry has its last write in
\* the database (Set, Delete, Flush, flushBatch).
THEOREM CleanAlwaysStored == Spec => []CleanMeansStored
<1>1. IInv => CleanMeansStored
  BY Zenon DEF IInv
<1>. QED  BY <1>1, InitIInv, NextIInv, PTL DEF Spec

\* Where client calls do not overlap and neither a failed Set nor GetMulti's
\* loop led the key astray, a Get hits the last write, whatever Get and
\* GetMulti put into the cache (Get, GetMulti, Set, SetMulti).
THEOREM CacheAlwaysFresh == Spec => []CacheIsFresh
<1>1. IInv => CacheIsFresh
  <2>1. ASSUME IInv, NEW k \in Key \ (direct \cup overlapped \cup raced \cup astray \cup BusyKeys), latest[k] # NoRow
        PROVE  cache[k] \in {latest[k], Miss}
    <3>1. \A c \in Client : Writing(c) => k \notin client[c].keys
      BY Zenon, <2>1, BusyKey DEF Busy, Writing
    <3>. QED  BY Zenon, <2>1, <3>1 DEF IInv, Apart, ApartAt
  <2>. QED  BY Zenon, <2>1 DEF CacheIsFresh
<1>. QED  BY <1>1, InitIInv, NextIInv, PTL DEF Spec
=============================================================================
