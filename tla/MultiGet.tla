------------------------------ MODULE MultiGet ------------------------------
(***************************************************************************)
(* GetMulti of the write-behind cache (pkg/db/cache_sync.go): one call that *)
(* looks its identifiers up in the cache, then in the dirty entries, then   *)
(* in the database.  The loop over the dirty entries removes identifiers    *)
(* from missingIDs in place while it ranges over it: a Go range statement   *)
(* keeps the slice's original length and reads the shared backing array,    *)
(* so the array is modelled and not only the slice.                         *)
(*                                                                          *)
(* A request is any list of identifiers, and may name one more than once.   *)
(* Where a row came from stands for its contents; a dirty entry is newer    *)
(* than the database's row.                                                 *)
(***************************************************************************)
EXTENDS Integers, Sequences, FiniteSets

CONSTANTS Id,       \* identifiers
          MaxIds    \* bound on the length of a request

ASSUME MultiGetAssumption == MaxIds \in Nat \ {0}

\* entityIDs, when it is not empty
Requests == UNION {[1..n -> Id] : n \in 1..MaxIds}

VARIABLES
  request,    \* entityIDs
  cached,     \* identifiers redis holds
  dirty,      \* identifiers whose dirty entry has data (a pending delete has none)
  stored,     \* identifiers with a row in the database
  phase,      \* "mget", "scan", "query", "done" or "failed"
  missing,    \* missingIDs: the backing array, of the length range started with
  len,        \* the length of the slice missingIDs
  idx,        \* the index range reads next
  result,     \* where the answer for each identifier came from ("none": no answer)
  mgetFailed  \* the cache returned an error

multiVars == <<request, cached, dirty, stored, phase, missing, len, idx, result, mgetFailed>>

Requested == {request[i] : i \in DOMAIN request}

MultiInit ==
  /\ request \in Requests
  /\ cached \in SUBSET Id /\ dirty \in SUBSET Id /\ stored \in SUBSET Id
  /\ phase = "mget"
  /\ missing = <<>>
  /\ len = 0
  /\ idx = 1
  /\ result = [i \in Id |-> "none"]
  /\ mgetFailed = FALSE

\* the places of the request that the cache does not answer
MissPlaces == {i \in DOMAIN request : request[i] \notin cached}

Increasing(at) == \A i, j \in DOMAIN at : i < j => at[i] < at[j]

\* the order in which the loop over the cache's answers meets the misses
InOrder(at) == Increasing(at) /\ \A p \in MissPlaces : \E i \in DOMAIN at : at[i] = p

SliceLength(s) == Len(s)

\* the cache answers: hits go to the result, the others to missingIDs
MGetOk ==
  /\ phase = "mget"
  /\ \E at \in [1..Cardinality(MissPlaces) -> MissPlaces] :
       /\ InOrder(at)
       /\ missing' = [i \in DOMAIN at |-> request[at[i]]]
  /\ len' = SliceLength(missing')
  /\ result' = [i \in Id |-> IF i \in Requested \cap cached THEN "cache" ELSE "none"]
  /\ phase' = "scan"
  /\ UNCHANGED <<request, cached, dirty, stored, idx, mgetFailed>>

\* the cache fails: missingIDs stays empty
MGetError ==
  /\ phase = "mget"
  /\ mgetFailed' = TRUE
  /\ phase' = "scan"
  /\ UNCHANGED <<request, cached, dirty, stored, missing, len, idx, result>>

\* missingIDs, the slice
Remaining == {missing[i] : i \in 1..len}

\* mutant: the elements after the removed one are not moved up
RemovedCut(p) == missing

\* mutant: one element too few is moved up
RemovedShort(p) ==
  [i \in DOMAIN missing |-> IF p <= i /\ i < len - 1 THEN missing[i + 1] ELSE missing[i]]

\* append(missingIDs[:i], missingIDs[i+1:]...) in the backing array
Removed(p) == [i \in DOMAIN missing |-> IF p <= i /\ i < len THEN missing[i + 1] ELSE missing[i]]

\* the inner loop: the places of the identifier in the slice
FoundAt(id) == {i \in 1..len : missing[i] = id}

\* one turn of the loop over the dirty entries; the cache is filled too
Scan ==
  /\ phase = "scan" /\ idx <= Len(missing)
  /\ idx' = idx + 1
  /\ LET id == missing[idx] IN
     \/ /\ id \notin dirty
        /\ UNCHANGED <<cached, missing, len, result>>
     \/ /\ id \in dirty
        /\ result' = [result EXCEPT ![id] = "dirty"]
        /\ cached' \in {cached, cached \cup {id}}
        /\ \/ /\ FoundAt(id) = {}
              /\ UNCHANGED <<missing, len>>
           \/ \E p \in FoundAt(id) :
                /\ \A q \in FoundAt(id) : p <= q
                /\ missing' = Removed(p)
                /\ len' = len - 1
  /\ UNCHANGED <<request, dirty, stored, phase, mgetFailed>>

\* the loop is over: nothing left to ask for, or a SELECT of what is left
ScanDone ==
  /\ phase = "scan" /\ idx > Len(missing)
  /\ phase' = IF len = 0 THEN "done" ELSE "query"
  /\ UNCHANGED <<request, cached, dirty, stored, missing, len, idx, result, mgetFailed>>

\* the rows found are merged into the result and cached
Query ==
  /\ phase = "query"
  /\ result' = [i \in Id |-> IF i \in Remaining \cap stored THEN "db" ELSE result[i]]
  /\ \E filled \in SUBSET (Remaining \cap stored) : cached' = cached \cup filled
  /\ phase' = "done"
  /\ UNCHANGED <<request, dirty, stored, missing, len, idx, mgetFailed>>

\* the statement is refused or fails: the result so far, and an error
QueryError ==
  /\ phase = "query"
  /\ phase' = "failed"
  /\ UNCHANGED <<request, cached, dirty, stored, missing, len, idx, result, mgetFailed>>

MultiNext == MGetOk \/ MGetError \/ Scan \/ ScanDone \/ Query \/ QueryError

MultiSpec == MultiInit /\ [][MultiNext]_multiVars

-----------------------------------------------------------------------------
(* Properties.                                                              *)

\* The shape of the state; every index the loop reads is inside the array.
MultiTypeOK ==
  /\ request \in Seq(Id)
  /\ cached \in SUBSET Id /\ dirty \in SUBSET Id /\ stored \in SUBSET Id
  /\ phase \in {"mget", "scan", "query", "done", "failed"}
  /\ missing \in Seq(Id)
  /\ len \in 0..Len(missing)
  /\ idx \in Nat \ {0}
  /\ result \in [Id -> {"none", "cache", "dirty", "db"}]
  /\ mgetFailed \in BOOLEAN

Repeated(i) == \E p, q \in DOMAIN request : p # q /\ request[p] = i /\ request[q] = i

\* Removing from missingIDs while ranging over it never loses an identifier:
\* once the cache has answered, each one requested has its answer or is still
\* to be asked for, and both only when the request repeats it.
AnsweredOrAsked ==
  phase \in {"scan", "query"} /\ ~mgetFailed =>
    \A i \in Requested :
      /\ result[i] # "none" \/ i \in Remaining
      /\ result[i] # "none" /\ i \in Remaining => Repeated(i)

\* What the SELECT asks for is a part of the request in the request's order:
\* an identifier is never asked for more often than it was requested.
AskedAsRequested ==
  \E at \in [1..len -> DOMAIN request] :
    Increasing(at) /\ \A i \in 1..len : missing[i] = request[at[i]]

\* Unless the cache or the database failed, every row the database has is in
\* the answer.
StoredIsFound ==
  phase = "done" /\ ~mgetFailed =>
    \A i \in Requested \cap stored : result[i] # "none"

\* "忽略缓存错误，继续查询数据库" (cache_sync.go:301): a cache error is ignored and
\* the database asked, so a row it has is in every answer given without error.
CacheErrorIgnored ==
  phase = "done" => \A i \in Requested \cap stored : result[i] # "none"

\* "从missingIDs中移除" (cache_sync.go:340): an identifier with a dirty entry is
\* answered from it and not asked from the database, whose row is older.
DirtyIsNotAsked == phase = "query" => Remaining \cap dirty = {}
=============================================================================
