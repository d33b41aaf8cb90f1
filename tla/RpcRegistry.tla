----------------------------- MODULE RpcRegistry -----------------------------
(***************************************************************************)
(* The in-memory service registry and the load balancer of                 *)
(* src/pkg/rpc/load_balancer.go, for one service name.  The registry keeps *)
(* a slice of pointers to instances.  Deregister marks the instance "down" *)
(* through its pointer and a periodic cleanup drops it later.  A watcher   *)
(* has a channel of capacity one; a notification that finds it full is     *)
(* dropped.  Watchers are sent the registry's own slice, so writes to an   *)
(* instance, and writes in place to the slice, reach lists already sent.   *)
(***************************************************************************)
EXTENDS Naturals, Sequences, FiniteSets, Functions

CONSTANTS Ids,       \* instance IDs
          Weight,    \* Weight[id]: the weight an instance is registered with
          Watchers,
          MaxReg,    \* bound: registrations of one ID
          IdxPeriod, \* a common multiple of the lengths a list can have
          None

VARIABLES services,  \* r.services[name]: a sequence of instances, or None
          cap,       \* capacity of the array behind that slice
          reg,       \* reg[id]: registrations of the ID so far
          down,      \* instances whose Status is "down"
          watches,   \* the watchers whose channel is in r.watches[name]
          chan,      \* each watcher's channel: at most one list
          last,      \* the last list each watcher received
          selector,  \* lb.selectors[name]; "random" when there is none
          nextIdx,   \* RoundRobinSelector.nextIdx, modulo IdxPeriod
          listed,    \* GetInstance: the instances it got from the registry
          chosen     \* GetInstance: the instance it returned

regVars == <<services, cap, reg, down, watches, chan, last, selector, nextIdx,
             listed, chosen>>

\* The k-th instance registered under an ID; instances are pointers.
Instances == Ids \X (1..MaxReg)
IdOf(inst) == inst[1]

\* A list as a watcher holds it; shared: it is a view on the array that
\* r.services[name] uses now.
View(s, sh) == [insts |-> s, shared |-> sh]

RegInit ==
  /\ services = None
  /\ cap = 0
  /\ reg = [i \in Ids |-> 0]
  /\ down = {}
  /\ watches = {}
  /\ chan = [w \in Watchers |-> <<>>]
  /\ last = [w \in Watchers |-> View(<<>>, FALSE)]
  /\ selector = "random"
  /\ nextIdx = 0
  /\ listed = <<>>
  /\ chosen = None

IsActive(inst) == inst \notin down

\* The active instances of a list, in their order.
Rank(K, i) == Cardinality({j \in K : j <= i})
Active(s) ==
  LET kept == {i \in DOMAIN s : IsActive(s[i])}
  IN [k \in 1..Cardinality(kept) |-> s[CHOOSE i \in kept : Rank(kept, i) = k]]

\* A non-blocking send of the list to every watcher's channel.
NotifyWatchers(c, v) ==
  [w \in Watchers |-> IF w \in watches /\ c[w] = <<>> THEN <<v>> ELSE c[w]]

\* The registry moves to a new array: no list sent before shares it.
Unshare(c) == [w \in Watchers |-> [i \in DOMAIN c[w] |-> View(c[w][i].insts, FALSE)]]
UnshareLast == [w \in Watchers |-> View(last[w].insts, FALSE)]

\* A write to cell i of the array, as the lists on the same array see it.
WriteView(v, i, inst) ==
  IF v.shared /\ i <= Len(v.insts) THEN View([v.insts EXCEPT ![i] = inst], TRUE) ELSE v
WriteChan(i, inst) ==
  [w \in Watchers |-> [j \in DOMAIN chan[w] |-> WriteView(chan[w][j], i, inst)]]
WriteLast(i, inst) == [w \in Watchers |-> WriteView(last[w], i, inst)]

\* RegisterInstance: a new name, a known ID (replaced in place) or a new ID
\* (appended, in place when the array has room).
RegisterFirst(id, inst) ==
  /\ services = None
  /\ services' = <<inst>>
  /\ cap' = 1
  /\ chan' = NotifyWatchers(chan, View(<<inst>>, FALSE))
  /\ UNCHANGED last

RegisterAgain(id, inst) ==
  /\ services # None
  /\ \E i \in DOMAIN services :
       /\ IdOf(services[i]) = id
       /\ services' = [services EXCEPT ![i] = inst]
       /\ chan' = NotifyWatchers(WriteChan(i, inst), View(services', TRUE))
       /\ last' = WriteLast(i, inst)
  /\ UNCHANGED cap

\* mutant: the list is started afresh
AppendedFresh(inst) == <<inst>>

Appended(inst) == Append(services, inst)

RegisterNew(id, inst) ==
  /\ services # None
  /\ \A i \in DOMAIN services : IdOf(services[i]) # id
  /\ services' = Appended(inst)
  /\ IF Len(services) < cap
       THEN /\ chan' = NotifyWatchers(chan, View(services', TRUE))
            /\ UNCHANGED <<cap, last>>
       ELSE /\ cap' = 2 * cap
            /\ chan' = NotifyWatchers(Unshare(chan), View(services', TRUE))
            /\ last' = UnshareLast

RegisterInstance(id) ==
  LET inst == <<id, reg[id] + 1>> IN
  /\ reg[id] < MaxReg
  /\ reg' = [reg EXCEPT ![id] = @ + 1]
  /\ RegisterFirst(id, inst) \/ RegisterAgain(id, inst) \/ RegisterNew(id, inst)
  /\ UNCHANGED <<down, watches, selector, nextIdx, listed, chosen>>

\* The instance is marked and stays in the list until the next cleanup.
Deregister(id) ==
  /\ services # None
  /\ \E i \in DOMAIN services :
       /\ IdOf(services[i]) = id
       /\ down' = down \cup {services[i]}
  /\ chan' = NotifyWatchers(chan, View(services, TRUE))
  /\ UNCHANGED <<services, cap, reg, watches, last, selector, nextIdx, listed, chosen>>

\* The cleanup's tick, when it finds an instance that is down.
Cleanup ==
  /\ services # None
  /\ Active(services) # services
  /\ services' = Active(services)
  /\ cap' = Len(services)
  /\ chan' = NotifyWatchers(Unshare(chan), View(services', TRUE))
  /\ last' = UnshareLast
  /\ UNCHANGED <<reg, down, watches, selector, nextIdx, listed, chosen>>

\* GetInstances: a fresh slice of the instances that are not down.
GetInstances == IF services = None THEN <<>> ELSE Active(services)

\* A watcher starts with the active instances.
WatchService(w) ==
  /\ w \notin watches
  /\ chan[w] = <<>>
  /\ last[w] = View(<<>>, FALSE)
  /\ watches' = watches \cup {w}
  /\ chan' = [chan EXCEPT ![w] = <<View(GetInstances, FALSE)>>]
  /\ UNCHANGED <<services, cap, reg, down, last, selector, nextIdx, listed, chosen>>

Receive(w) ==
  /\ chan[w] # <<>>
  /\ last' = [last EXCEPT ![w] = Head(chan[w])]
  /\ chan' = [chan EXCEPT ![w] = <<>>]
  /\ UNCHANGED <<services, cap, reg, down, watches, selector, nextIdx, listed, chosen>>

\* The watcher's context is done: its channel leaves the list and is closed
\* (what it holds can still be received).
WatchEnds(w) ==
  /\ w \in watches
  /\ watches' = watches \ {w}
  /\ UNCHANGED <<services, cap, reg, down, chan, last, selector, nextIdx, listed, chosen>>

(***************************************************************************)
(* The load balancer.                                                      *)
(***************************************************************************)
SetSelector(s) ==
  /\ selector' = s
  /\ nextIdx' = 0
  /\ UNCHANGED <<services, cap, reg, down, watches, chan, last, listed, chosen>>

\* GetInstance takes the list from the registry and selects from it later.
GetInstanceList ==
  /\ listed = <<>>
  /\ listed' = GetInstances
  /\ UNCHANGED <<services, cap, reg, down, watches, chan, last, selector, nextIdx, chosen>>

\* WeightedSelector: the first instance whose summed weight is above t.
WeightOf(inst) == IF Weight[IdOf(inst)] <= 0 THEN 1 ELSE Weight[IdOf(inst)]
WeightUpTo(s, n) ==
  FoldFunction(LAMBDA inst, acc : WeightOf(inst) + acc, 0, SubSeq(s, 1, n))
WeightedIndex(s, t) ==
  CHOOSE i \in DOMAIN s : /\ WeightUpTo(s, i) > t
                          /\ WeightUpTo(s, i - 1) <= t

Select ==
  CASE selector = "random" -> DOMAIN listed
    [] selector = "roundRobin" -> {(nextIdx % Len(listed)) + 1}
    [] selector = "weighted" ->
         {WeightedIndex(listed, t) : t \in 0..(WeightUpTo(listed, Len(listed)) - 1)}

\* The counter is only ever used modulo the length of a list.
GetInstance ==
  /\ listed # <<>>
  /\ \E i \in Select : chosen' = listed[i]
  /\ listed' = <<>>
  /\ nextIdx' = IF selector = "roundRobin" THEN (nextIdx + 1) % IdxPeriod ELSE nextIdx
  /\ UNCHANGED <<services, cap, reg, down, watches, chan, last, selector>>

Registering == \/ \E id \in Ids : RegisterInstance(id) \/ Deregister(id)
               \/ Cleanup
Watching    == \E w \in Watchers : WatchService(w) \/ Receive(w) \/ WatchEnds(w)
Balancing   == \/ \E s \in {"random", "roundRobin", "weighted"} : SetSelector(s)
               \/ GetInstanceList \/ GetInstance

RegNext == Registering \/ Watching \/ Balancing

RegSpec == RegInit /\ [][RegNext]_regVars

-----------------------------------------------------------------------------
Lists == Seq(Instances)

RegTypeOK ==
  /\ services \in Lists \cup {None}
  /\ down \subseteq Instances
  /\ watches \subseteq Watchers
  /\ \A w \in Watchers : Len(chan[w]) <= 1 /\ last[w].insts \in Lists
  /\ services # None => Len(services) <= cap

\* What a watcher shows as up is up: an instance that is active in a list a
\* watcher holds, and has not been replaced by a later registration of its
\* ID, is in the registry, although the watcher may have missed every
\* notification since.  (Deregister writes the status through the pointer.)
NoPhantom ==
  \A w \in Watchers :
    \A v \in Range(chan[w]) \cup {last[w]} :
      \A inst \in Range(v.insts) :
        IsActive(inst) /\ inst[2] = reg[IdOf(inst)] =>
          services # None /\ inst \in Range(services)

-----------------------------------------------------------------------------
(* The inductive invariant.                                                 *)

\* The absence of a list is no list.
RegConstants == None \notin Lists /\ MaxReg \in Nat

Views == [insts : Lists, shared : BOOLEAN]

RegTypes ==
  /\ services \in Lists \cup {None}
  /\ cap \in Nat
  /\ services # None => Len(services) <= cap /\ 0 < cap
  /\ reg \in [Ids -> 0..MaxReg]
  /\ down \subseteq Instances
  /\ watches \subseteq Watchers
  /\ chan \in [Watchers -> Seq(Views)]
  /\ \A w \in Watchers : Len(chan[w]) <= 1
  /\ last \in [Watchers -> Views]

\* The latest registration of an ID is in the list until it is down.
LatestListed ==
  \A id \in Ids :
    0 < reg[id] =>
      /\ services # None
      /\ <<id, reg[id]>> \in Range(services) \cup down

RegIInv == RegTypes /\ LatestListed
=============================================================================
