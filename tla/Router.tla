-------------------------------- MODULE Router --------------------------------
(***************************************************************************)
(* The message router, its load balancers and the in-memory service        *)
(* discovery of src/pkg/protocol/router.go, for one service.  The          *)
(* discovery hands out its own slice: a caller of Route reads the array    *)
(* behind it without a lock, field by field, while registrations overwrite *)
(* and deregistrations shift its cells in place.                           *)
(*                                                                         *)
(* append doubles the capacity, so an array is named by its capacity, and  *)
(* each is allocated once.  A field is read and written whole: the IDs of  *)
(* the instances have one length, so that no mixture of two is read.       *)
(***************************************************************************)
EXTENDS Naturals, Sequences, FiniteSets

CONSTANTS RouteIds,    \* instance IDs
          RouteWeight, \* RouteWeight[id]
          Callers,     \* goroutines that route messages
          MaxChanges,  \* bound: registrations and deregistrations
          Caps,        \* the capacities arrays get: powers of two
          Period,      \* a common multiple of list lengths and total weights
          Nil

VARIABLES array,     \* array[c]: the cells of the array of capacity c
          instances, \* sd.instances[name]: capacity and length, or Nil
          changes,   \* registrations and deregistrations so far
          watched,   \* a callback is in sd.watches[name]
          notes,     \* notifications whose goroutine has not run
          balancer,  \* the balancer NewGatewayHandler was configured with
          counter,   \* its counter, modulo Period
          call       \* each caller's Route, RouteAsync or Broadcast

routeVars == <<array, instances, changes, watched, notes, balancer, counter, call>>

Cell == [id : RouteIds, up : BOOLEAN]
Header == [cap : Caps, len : Nat]

\* What a caller holds: the slice, the cells copied so far, the ID of the one
\* being copied, the IDs registered at some time since the lookup, and those
\* the message was sent to.
Call(op, h, got, id, since, to) ==
  [op |-> op, slice |-> h, got |-> got, id |-> id, since |-> since, to |-> to]
Idle == Call("idle", Nil, <<>>, Nil, {}, {})

Cells(h) == SubSeq(array[h.cap], 1, h.len)
IdsOf(cells) == {cells[i].id : i \in DOMAIN cells}

RouteInit ==
  /\ array = [c \in Caps |-> <<>>]
  /\ instances = Nil
  /\ changes = 0
  /\ watched = FALSE
  /\ notes = {}
  /\ balancer \in {"round_robin", "weighted"}
  /\ counter = 0
  /\ call = [p \in Callers |-> Idle]

(***************************************************************************)
(* The discovery.                                                          *)
(***************************************************************************)
\* A reader may also meet these IDs.
MayMeet(reader, ids) == [reader EXCEPT !.since = @ \cup ids]

\* One goroutine per watcher, with the slice of now.  The IDs of now join
\* those that every reader may meet.
Changed(h, ids) ==
  /\ changes < MaxChanges
  /\ changes' = changes + 1
  /\ notes' = {MayMeet(n, ids) : n \in notes}
                \cup (IF watched THEN {[slice |-> h, since |-> ids]} ELSE {})
  /\ call' = [p \in Callers |-> IF call[p].op = "idle" THEN call[p]
                                ELSE MayMeet(call[p], ids)]
  /\ UNCHANGED <<watched, balancer, counter>>

NextCap(n) == CHOOSE c \in Caps : c > n /\ \A d \in Caps : d > n => c <= d

\* The arrays with the first cells of one overwritten.
Rewritten(c, body) == [array EXCEPT ![c] = body \o SubSeq(@, Len(body) + 1, Len(@))]

\* A known ID is overwritten in place; a new one is appended, in place while
\* there is room and else to a new array.
RegisterServiceInstance(new) ==
  LET cells == IF instances = Nil THEN <<>> ELSE Cells(instances)
      known == {i \in DOMAIN cells : cells[i].id = new.id}
      n == Len(cells)
      c == IF known # {} \/ (instances # Nil /\ n < instances.cap)
             THEN instances.cap ELSE NextCap(n)
      body == IF known # {} THEN [cells EXCEPT ![CHOOSE i \in known : TRUE] = new]
              ELSE Append(cells, new)
      h == [cap |-> c, len |-> Len(body)]
  IN /\ array' = Rewritten(c, body)
     /\ instances' = h
     /\ Changed(h, IdsOf(body))

\* mutant: the list keeps its length
ShortenedNot(h) == h

Shortened(h) == [h EXCEPT !.len = @ - 1]

\* The later cells are shifted down; the last one's old value stays behind.
DeregisterServiceInstance(id) ==
  /\ instances # Nil
  /\ \E i \in 1..instances.len :
       LET cells == Cells(instances)
           n == instances.len
           body == SubSeq(cells, 1, i - 1) \o SubSeq(cells, i + 1, n)
           h == Shortened(instances)
       IN /\ cells[i].id = id
          /\ array' = Rewritten(h.cap, body)
          /\ instances' = h
          /\ Changed(h, IdsOf(body))

\* The first callback is entered; a later one would be told the same.
WatchDiscovery ==
  /\ ~watched
  /\ watched' = TRUE
  /\ UNCHANGED <<array, instances, changes, notes, balancer, counter, call>>

\* A notification's goroutine calls the watcher with its slice.
RunWatch(n) ==
  /\ n \in notes
  /\ notes' = notes \ {n}
  /\ UNCHANGED <<array, instances, changes, watched, balancer, counter, call>>

(***************************************************************************)
(* Routing.                                                                *)
(***************************************************************************)
\* GetServiceInstances under the read lock; not found, or none: an error.
LookUp(p, op) ==
  /\ call[p].op = "idle"
  /\ instances # Nil
  /\ instances.len > 0
  /\ call' = [call EXCEPT ![p] =
                Call(op, instances, <<>>, Nil, IdsOf(Cells(instances)), {})]
  /\ UNCHANGED <<array, instances, changes, watched, notes, balancer,
                 counter>>

\* Route and RouteAsync differ in what they wait for after the selection.
Route(p)      == LookUp(p, "route")
RouteAsync(p) == LookUp(p, "route")

\* The loop over the slice copies one instance after the other, each in two
\* steps: a write in place may fall between.
CopyNext(p) ==
  LET c == call[p]
      cell == array[c.slice.cap][Len(c.got) + 1]
  IN /\ c.op # "idle"
     /\ Len(c.got) < c.slice.len
     /\ call' = [call EXCEPT ![p] =
                   IF c.id = Nil THEN [c EXCEPT !.id = cell.id]
                   ELSE [c EXCEPT !.id = Nil,
                                  !.got = Append(@, [id |-> c.id, up |-> cell.up])]]
     /\ UNCHANGED <<array, instances, changes, watched, notes, balancer,
                    counter>>

\* The positions of the copies that are "up", in their order.
Up(got) == {i \in DOMAIN got : got[i].up}
RankUp(got, i) == Cardinality({j \in Up(got) : j <= i})

RunningTotal(got, i) ==
  LET sum[n \in 0..i] == IF n = 0 THEN 0
                         ELSE sum[n - 1] + (IF got[n].up THEN RouteWeight[got[n].id] ELSE 0)
  IN sum[i]

\* The position selected, in a set: the next one round robin, or the first
\* whose running total of weights exceeds the count.
Selected(got) ==
  LET total == RunningTotal(got, Len(got))
      over == {i \in Up(got) : counter % total < RunningTotal(got, i)}
  IN IF balancer = "round_robin" \/ total = 0
       THEN {i \in Up(got) : RankUp(got, i) = (counter % Cardinality(Up(got))) + 1}
       ELSE {i \in over : \A j \in over : i <= j}

\* SelectInstance among the copies that are "up"; the message then goes to
\* the one selected, and the caller returns with its answer, or at its
\* timeout, or at once (RouteAsync).
SelectInstance(p) ==
  LET c == call[p]
  IN /\ c.op = "route"
     /\ Len(c.got) = c.slice.len
     /\ c.to = {}
     /\ IF Up(c.got) = {}
          THEN call' = [call EXCEPT ![p] = Idle] /\ UNCHANGED counter
          ELSE /\ \E i \in Selected(c.got) : call' = [call EXCEPT ![p].to = {c.got[i].id}]
               /\ counter' = (counter + 1) % Period
     /\ UNCHANGED <<array, instances, changes, watched, notes, balancer>>

\* BroadcastMessage sends to every copy that is "up".
BroadcastMessage(p) ==
  LET c == call[p]
      up == {c.got[i].id : i \in Up(c.got)}
  IN /\ c.op = "broadcast"
     /\ Len(c.got) = c.slice.len
     /\ c.to = {}
     /\ call' = [call EXCEPT ![p] = IF up = {} THEN Idle ELSE [c EXCEPT !.to = up]]
     /\ UNCHANGED <<array, instances, changes, watched, notes, balancer,
                    counter>>

Return(p) ==
  /\ call[p].to # {}
  /\ call' = [call EXCEPT ![p] = Idle]
  /\ UNCHANGED <<array, instances, changes, watched, notes, balancer,
                 counter>>

RouteNext ==
  \/ \E new \in Cell : RegisterServiceInstance(new)
  \/ \E id \in RouteIds : DeregisterServiceInstance(id)
  \/ WatchDiscovery
  \/ \E n \in notes : RunWatch(n)
  \/ \E p \in Callers : \/ Route(p) \/ RouteAsync(p) \/ LookUp(p, "broadcast")
                        \/ CopyNext(p) \/ SelectInstance(p) \/ BroadcastMessage(p)
                        \/ Return(p)

RouteSpec == RouteInit /\ [][RouteNext]_routeVars

-----------------------------------------------------------------------------
RouteTypeOK ==
  /\ \A c \in Caps : Len(array[c]) <= c
  /\ instances # Nil => instances.len <= Len(array[instances.cap])
  /\ changes \in 0..MaxChanges
  /\ counter \in 0..(Period - 1)
  /\ \A p \in Callers : call[p].to \subseteq RouteIds

\* A message is sent to, and a watcher is told of, only instances that were
\* registered when the slice was taken or later: what a reader meets in an
\* array that is rewritten under it is never older, and never invented.
RoutedToRegistered ==
  /\ \A p \in Callers : call[p].to \subseteq call[p].since
  /\ \A n \in notes : IdsOf(Cells(n.slice)) \subseteq n.since

-----------------------------------------------------------------------------
(* The inductive invariant.                                                 *)

\* There is an array for a list that grows by one.
RouteConstants ==
  /\ MaxChanges \in Nat
  /\ Period \in Nat \ {0}
  /\ Caps \subseteq Nat
  /\ \A n \in 0..(MaxChanges - 1) :
       \E c \in Caps : c > n /\ \A d \in Caps : d > n => c <= d

CallRecords ==
  [op : {"idle", "route", "broadcast"}, slice : Header \cup {Nil},
   got : Seq(Cell), id : RouteIds \cup {Nil}, since : SUBSET RouteIds,
   to : SUBSET RouteIds]

RouteTypes ==
  /\ array \in [Caps -> Seq(Cell)]
  /\ \A c \in Caps : Len(array[c]) <= c
  /\ instances \in Header \cup {Nil}
  /\ instances # Nil => /\ instances.len <= Len(array[instances.cap])
                        /\ instances.len <= changes
  /\ changes \in 0..MaxChanges
  /\ counter \in 0..(Period - 1)
  /\ call \in [Callers -> CallRecords]
  /\ notes \subseteq [slice : Header, since : SUBSET RouteIds]

\* Whoever reads a slice of array a to its end meets IDs of this set only.
ReadsOnly(a, h, ids) ==
  /\ h \in Header
  /\ h.len <= Len(a[h.cap])
  /\ \A k \in 1..h.len : a[h.cap][k].id \in ids

\* A caller has read, and will read, only IDs registered since its lookup.
CallersSafe ==
  \A p \in Callers :
    LET c == call[p] IN
    /\ c.op # "idle" => ReadsOnly(array, c.slice, c.since)
    /\ \A i \in DOMAIN c.got : c.got[i].id \in c.since
    /\ c.id \in c.since \cup {Nil}
    /\ c.to \subseteq c.since

\* So will the watcher that a notification is for.
NotesSafe == \A n \in notes : ReadsOnly(array, n.slice, n.since)

RouteIInv == RouteTypes /\ CallersSafe /\ NotesSafe
=============================================================================
