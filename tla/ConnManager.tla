----------------------------- MODULE ConnManager -----------------------------
(***************************************************************************)
(* The shared gRPC connections of src/pkg/rpc/conn_manager.go, for one     *)
(* endpoint (endpoints meet only in the lock).  GetConnection looks under  *)
(* the read lock, looks again under the write lock, registers an entry     *)
(* that is still being created, dials outside the lock and completes the   *)
(* entry.  A caller that finds an entry in creation waits for it: outside  *)
(* the lock after the first look, holding the write lock after the second. *)
(* In that second wait the function has deferred two unlocks of one lock.  *)
(***************************************************************************)
EXTENDS Naturals, FiniteSets

CONSTANTS Callers,   \* goroutines that call GetConnection
          MaxCalls,  \* bound: calls each of them makes
          None,
          Error      \* a call returned an error

VARIABLES registered,  \* m.connections[endpoint], or None
          state,       \* each entry: "absent", "creating", "ready", "failed",
                       \*   "shut" (closed) or "refused" (the dial failed)
          lock,        \* the goroutine holding m.mu for writing, or None
          pc,          \* where each caller is in GetConnection
          entry,       \* the entry it waits for or creates
          result,      \* what its last call returned: an entry, None (the nil
                       \*   of a missing map key) or Error
          calls,       \* calls begun by each caller
          stopped,     \* m.stopCleanup is closed
          dead         \* the process has panicked or hit a fatal error, or
                       \*   will when the present critical section ends

vars == <<registered, state, lock, pc, entry, result, calls, stopped, dead>>

\* The entry a caller's k-th call creates, if it creates one.
Entries == Callers \X (1..MaxCalls)

Init ==
  /\ registered = None
  /\ state = [e \in Entries |-> "absent"]
  /\ lock = None
  /\ pc = [p \in Callers |-> "out"]
  /\ entry = [p \in Callers |-> None]
  /\ result = [p \in Callers |-> Error]
  /\ calls = [p \in Callers |-> 0]
  /\ stopped = FALSE
  /\ dead = FALSE

\* The channel creationComplete of an entry is closed.
Complete(e) == state[e] \notin {"absent", "creating"}
\* GetState is neither Shutdown nor TransientFailure.
Usable(e) == state[e] = "ready"

\* mutant: an entry that is being created counts as missing
InCreationNever == FALSE

\* The registered entry is still being created.
InCreation == registered # None /\ state[registered] = "creating"

Return(p, r) ==
  /\ pc' = [pc EXCEPT ![p] = "out"]
  /\ entry' = [entry EXCEPT ![p] = None]
  /\ result' = [result EXCEPT ![p] = r]

Await(p, l) ==
  /\ pc' = [pc EXCEPT ![p] = l]
  /\ entry' = [entry EXCEPT ![p] = registered]
  /\ UNCHANGED result

\* The first look, under the read lock: an entry in creation is waited for,
\* a usable one returned; otherwise the caller goes on to the write lock.
FirstLook(p) ==
  /\ pc[p] = "out"
  /\ calls[p] < MaxCalls
  /\ lock = None
  /\ calls' = [calls EXCEPT ![p] = @ + 1]
  /\ CASE InCreation -> Await(p, "waitOutside")
       [] registered # None /\ Usable(registered) -> Return(p, registered)
       [] OTHER -> Await(p, "secondLook")
  /\ UNCHANGED <<registered, state, lock, stopped, dead>>

\* After the wait the map is read again, whatever it holds by then.
WaitedOutside(p) ==
  /\ pc[p] = "waitOutside"
  /\ Complete(entry[p])
  /\ lock = None
  /\ Return(p, registered)
  /\ UNCHANGED <<registered, state, lock, calls, stopped, dead>>

\* dialTimeout passes first.
TimedOutOutside(p) ==
  /\ pc[p] = "waitOutside"
  /\ Return(p, Error)
  /\ UNCHANGED <<registered, state, lock, calls, stopped, dead>>

\* The second look, under the write lock.  A failed connection is closed and
\* replaced; a missing one is registered in creation and the lock released
\* for the dial.
SecondLook(p) ==
  LET new == <<p, calls[p]>> IN
  /\ pc[p] = "secondLook"
  /\ lock = None
  /\ CASE InCreation ->
            /\ lock' = p
            /\ Await(p, "waitInside")
            /\ UNCHANGED <<registered, state>>
       [] registered # None /\ Usable(registered) ->
            /\ Return(p, registered)
            /\ UNCHANGED <<registered, state, lock>>
       [] OTHER ->
            /\ registered' = new
            /\ state' = [e \in Entries |-> IF e = new THEN "creating"
                                           ELSE IF e = registered THEN "shut"
                                           ELSE state[e]]
            /\ pc' = [pc EXCEPT ![p] = "dial"]
            /\ entry' = [entry EXCEPT ![p] = new]
            /\ UNCHANGED <<lock, result>>
  /\ UNCHANGED <<calls, stopped, dead>>

\* m.mu.Unlock() does not ask who holds the lock; when nobody does it is a
\* fatal error.
Unlock ==
  IF lock = None THEN dead' = TRUE /\ UNCHANGED lock
                 ELSE lock' = None /\ UNCHANGED dead

\* The creator needs the lock that the waiter holds, so creationComplete
\* stays open and dialTimeout ends the wait, with a first unlock.
TimedOutInside(p) ==
  /\ pc[p] = "waitInside"
  /\ Unlock
  /\ pc' = [pc EXCEPT ![p] = "unlockAgain"]
  /\ entry' = [entry EXCEPT ![p] = None]
  /\ UNCHANGED <<registered, state, result, calls, stopped>>

\* Unless another waiter's second unlock took its lock away: then the creator
\* goes on, and the wait may end with creationComplete.
WaitedInside(p) ==
  /\ pc[p] = "waitInside"
  /\ Complete(entry[p])
  /\ Unlock
  /\ pc' = [pc EXCEPT ![p] = "unlockAgain"]
  /\ UNCHANGED <<registered, state, entry, result, calls, stopped>>

\* The second deferred unlock: of a lock that is free (or that another holds
\* in a short critical section, one step here, whose own unlock then fails),
\* or that a later waiter holds by now.  The map is read without the lock.
UnlockAgain(p) ==
  /\ pc[p] = "unlockAgain"
  /\ Unlock
  /\ Return(p, IF entry[p] = None THEN Error ELSE registered)
  /\ UNCHANGED <<registered, state, calls, stopped>>

\* The dial succeeds: the entry is completed under the lock.
Dialled(p) ==
  /\ pc[p] = "dial"
  /\ lock = None
  /\ state' = [state EXCEPT ![entry[p]] = "ready"]
  /\ Return(p, entry[p])
  /\ UNCHANGED <<registered, lock, calls, stopped, dead>>

\* The dial fails: whatever is registered for the endpoint is deleted.
DialFails(p) ==
  /\ pc[p] = "dial"
  /\ lock = None
  /\ registered' = None
  /\ state' = [state EXCEPT ![entry[p]] = "refused"]
  /\ Return(p, Error)
  /\ UNCHANGED <<lock, calls, stopped, dead>>

\* The transport of the registered connection fails.
Fails ==
  /\ registered # None
  /\ state[registered] = "ready"
  /\ state' = [state EXCEPT ![registered] = "failed"]
  /\ UNCHANGED <<registered, lock, pc, entry, result, calls, stopped, dead>>

\* gRPC connects it again by itself.
Recovers ==
  /\ registered # None
  /\ state[registered] = "failed"
  /\ state' = [state EXCEPT ![registered] = "ready"]
  /\ UNCHANGED <<registered, lock, pc, entry, result, calls, stopped, dead>>

\* conn.Conn.Close() and delete; the Conn of an entry in creation is nil.
Drop ==
  /\ registered' = None
  /\ IF state[registered] = "creating"
       THEN dead' = TRUE /\ UNCHANGED state
       ELSE state' = [state EXCEPT ![registered] = "shut"] /\ UNCHANGED dead

Close ==
  /\ lock = None
  /\ registered # None
  /\ Drop
  /\ UNCHANGED <<lock, pc, entry, result, calls, stopped>>

\* An entry in creation is younger than idleTimeout and is left alone.
CleanupIdleConnections ==
  /\ ~stopped
  /\ lock = None
  /\ registered # None
  /\ state[registered] # "creating"
  /\ Drop
  /\ UNCHANGED <<lock, pc, entry, result, calls, stopped>>

\* A second CloseAll closes a closed channel.
CloseAll ==
  /\ lock = None
  /\ stopped' = TRUE
  /\ IF stopped
       THEN dead' = TRUE /\ UNCHANGED <<registered, state>>
       ELSE IF registered = None
         THEN UNCHANGED <<registered, state, dead>>
         ELSE Drop
  /\ UNCHANGED <<lock, pc, entry, result, calls>>

Step(p) ==
  \/ FirstLook(p) \/ WaitedOutside(p) \/ TimedOutOutside(p)
  \/ SecondLook(p) \/ TimedOutInside(p) \/ WaitedInside(p) \/ UnlockAgain(p)
  \/ Dialled(p) \/ DialFails(p)

Next ==
  /\ ~dead
  /\ \/ \E p \in Callers : Step(p)
     \/ Fails \/ Recovers \/ Close \/ CleanupIdleConnections \/ CloseAll

Spec == Init /\ [][Next]_vars

-----------------------------------------------------------------------------
TypeOK ==
  /\ registered \in Entries \cup {None}
  /\ state \in [Entries -> {"absent", "creating", "ready", "failed", "shut",
                            "refused"}]
  /\ lock \in Callers \cup {None}
  /\ pc \in [Callers -> {"out", "waitOutside", "secondLook", "waitInside",
                         "unlockAgain", "dial"}]
  /\ entry \in [Callers -> Entries \cup {None}]
  /\ result \in [Callers -> Entries \cup {None, Error}]
  /\ calls \in [Callers -> 0..MaxCalls]
  /\ stopped \in BOOLEAN
  /\ dead \in BOOLEAN

\* An endpoint has one live connection, the registered one: every other that
\* was dialled has been closed.  So a failed dial, which deletes whatever is
\* registered, never deletes another caller's connection, and no connection
\* is lost without being closed.
OneLiveConnection ==
  \A e \in Entries :
    state[e] \in {"creating", "ready", "failed"} => registered = e \/ dead

-----------------------------------------------------------------------------
Live == {"creating", "ready", "failed"}

\* A caller that dials has registered an entry of its own, which is still in
\* creation; so of all entries only the registered one is live.
Types ==
  /\ state \in [Entries -> {"absent", "creating", "ready", "failed", "shut",
                            "refused"}]
  /\ registered \in Entries \cup {None}
  /\ entry \in [Callers -> Entries \cup {None}]
  /\ pc \in [Callers -> {"out", "waitOutside", "secondLook", "waitInside",
                         "unlockAgain", "dial"}]
  /\ calls \in [Callers -> 0..MaxCalls]
  /\ \A p \in Callers : pc[p] # "out" => calls[p] # 0

OnlyRegistered ==
  ~dead => \A e \in Entries : state[e] \in Live => registered = e

DialsItsOwn ==
  ~dead => \A p \in Callers : pc[p] = "dial" => /\ entry[p] = <<p, calls[p]>>
                                                /\ state[entry[p]] = "creating"

IInv == Types /\ OnlyRegistered /\ DialsItsOwn

\* None is no entry.
Constants == None \notin Entries /\ MaxCalls \in Nat
=============================================================================
