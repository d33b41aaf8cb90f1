------------------------------- MODULE GrpcCall -------------------------------
(***************************************************************************)
(* RPC calls over gRPC: the client of src/pkg/rpc/grpc_client.go (Call with *)
(* its retries, Go with its pending table, Close) and the server of         *)
(* grpc_server.go, which finds the method in the services of rpc.go.        *)
(*                                                                          *)
(* A call names its method by kind: "noMethod" (also a name without a dot,  *)
(* or arguments the server cannot unpack), "builtin" and "method", of a     *)
(* service that is registered or not.  NewService keeps a method only       *)
(* when its arguments have a builtin type or a type of a package whose path *)
(* is "proto_define", so a method whose messages come from another path     *)
(* (the path of the repository's own is "mmo-server/proto_define") is of    *)
(* kind "noMethod" although the service has it.  A builtin type without an  *)
(* element type makes the server panic before the method runs; the          *)
(* interceptor that recovers from a panic answers with an empty response.   *)
(*                                                                          *)
(* The network is gRPC's: an attempt ends in an answer or in an error, and  *)
(* an error does not tell whether the server ran the request, runs it now   *)
(* or will run it.                                                          *)
(***************************************************************************)
EXTENDS Naturals, FiniteSets

CONSTANTS Calls,       \* synchronous calls
          GoCalls,     \* asynchronous calls
          MaxRetries,  \* attempts of a Call (3 in the code)
          DoneRoom     \* room of the channel Go makes (10 in the code)

Kinds == {"noMethod", "builtin", "method"}

VARIABLES closed,    \* c.closed; closing is only true inside c.mutex
          pc,        \* where each call is
          kind,      \* the kind of method it calls
          try,       \* Call: the attempt it is in, from 1
          retried,   \* Call: an attempt ended in a retryable error
          result,    \* how it ended: "none", "ok", "empty" (no error, and the
                     \* reply is not set), "error" or "closed"
          pending,   \* c.pending: the asynchronous calls in the table
          signals,   \* how often Call.done ran
          own,       \* the calls given no channel: Go makes one for each
          cut,       \* history: the calls Close found in the table
          lost,      \* the calls one of whose signals found its channel full
          requests,  \* requests the server may still serve
          answers,   \* answers on their way back: <<request, outcome>>
          runs,      \* how often the method ran for the call
          offered,   \* the service is in s.services
          server     \* "new", "up", "stopping" or "stopped"

vars == <<closed, pc, kind, try, retried, result, pending, signals, own, cut,
          lost, requests, answers, runs, offered, server>>

All == Calls \cup GoCalls

Init ==
  /\ closed = FALSE
  /\ pc = [c \in All |-> "new"]
  /\ kind \in [All -> Kinds]
  /\ try = [c \in All |-> 1]
  /\ retried = [c \in All |-> FALSE]
  /\ result = [c \in All |-> "none"]
  /\ pending = {}
  /\ signals = [g \in GoCalls |-> 0]
  /\ own \in SUBSET GoCalls
  /\ cut = {}
  /\ lost = {}
  /\ requests = {}
  /\ answers = {}
  /\ runs = [c \in All |-> 0]
  /\ offered = FALSE
  /\ server = "new"

\* One attempt of a call is one request; all carry the same sequence number
\* and the server does not compare them.
Request(c) == <<c, try[c]>>

Finish(c, r) ==
  /\ pc' = [pc EXCEPT ![c] = "returned"]
  /\ result' = [result EXCEPT ![c] = r]

(***************************************************************************)
(* Call.                                                                   *)
(***************************************************************************)
\* A closed client refuses; arguments that cannot be packed end the call.
CallBegins(c) ==
  /\ pc[c] = "new"
  /\ \/ closed /\ Finish(c, "closed")
     \/ ~closed /\ Finish(c, "error")
     \/ ~closed /\ pc' = [pc EXCEPT ![c] = "attempt"] /\ UNCHANGED result
  /\ UNCHANGED <<closed, kind, try, retried, pending, signals, own, cut, lost,
                 requests, answers, runs, server, offered>>

\* An attempt starts, unless the client was closed meanwhile.
Attempt(c) ==
  /\ pc[c] = "attempt"
  /\ IF closed
       THEN Finish(c, "closed") /\ UNCHANGED requests
       ELSE /\ requests' = requests \cup {Request(c)}
            /\ pc' = [pc EXCEPT ![c] = "await"]
            /\ UNCHANGED result
  /\ UNCHANGED <<closed, kind, try, retried, pending, signals, own, cut, lost,
                 answers, runs, server, offered>>

\* After a retryable error the call backs off, or gives up after the last.
RetryOrGiveUp(c) ==
  /\ retried' = [retried EXCEPT ![c] = TRUE]
  /\ IF try[c] < MaxRetries
       THEN pc' = [pc EXCEPT ![c] = "backoff"] /\ UNCHANGED result
       ELSE Finish(c, "error")

\* An answer: success, with a reply or without, an error in the response that
\* isRetryableError takes for temporary, or any other error.
CallAnswered(c) ==
  /\ pc[c] = "await"
  /\ \E a \in answers :
       /\ a[1] = Request(c)
       /\ answers' = answers \ {a}
       /\ CASE a[2] \in {"ok", "empty"} -> Finish(c, a[2]) /\ UNCHANGED retried
            [] a[2] = "temporary" -> RetryOrGiveUp(c)
            [] a[2] = "error" -> Finish(c, "error") /\ UNCHANGED retried
  /\ UNCHANGED <<closed, kind, try, pending, signals, own, cut, lost,
                 requests, runs, server, offered>>

\* An error of the transport (the 5 s timeout included), of a retryable code
\* or of another, or a reply that cannot be unpacked.  An answer that comes
\* later is dropped by gRPC.
CallFails(c) ==
  /\ pc[c] = "await"
  /\ RetryOrGiveUp(c) \/ (Finish(c, "error") /\ UNCHANGED retried)
  /\ UNCHANGED <<closed, kind, try, pending, signals, own, cut, lost,
                 requests, answers, runs, server, offered>>

\* mutant: the attempts are not counted
NextTrySame(c) == try[c]

NextTry(c) == try[c] + 1

\* The backoff passes, or the caller's context ends the call.
BackedOff(c) ==
  /\ pc[c] = "backoff"
  /\ \/ /\ try' = [try EXCEPT ![c] = NextTry(c)]
        /\ pc' = [pc EXCEPT ![c] = "attempt"]
        /\ UNCHANGED result
     \/ Finish(c, "error") /\ UNCHANGED try
  /\ UNCHANGED <<closed, kind, retried, pending, signals, own, cut, lost,
                 requests, answers, runs, server, offered>>

(***************************************************************************)
(* Go and Close.                                                           *)
(***************************************************************************)
\* done() of the calls G.  It does not wait: a full channel loses the signal.
\* The channel a caller supplies may be full, or without a receiver; the one
\* that Go makes has room for DoneRoom signals, of its call alone.
Signal(s, G) == [g \in GoCalls |-> IF g \in G THEN s[g] + 1 ELSE s[g]]
MayLose(G) == {g \in G : g \in own => signals[g] >= DoneRoom}

\* The check of closed; a refused call is signalled at once, and so is one
\* whose arguments cannot be packed.
GoBegins(g) ==
  /\ pc[g] = "new"
  /\ \/ /\ Finish(g, IF closed THEN "closed" ELSE "error")
        /\ signals' = Signal(signals, {g})
        /\ \E L \in SUBSET MayLose({g}) : lost' = lost \cup L
     \/ /\ ~closed
        /\ pc' = [pc EXCEPT ![g] = "register"]
        /\ UNCHANGED <<result, signals, lost>>
  /\ UNCHANGED <<closed, kind, try, retried, pending, own, cut, requests,
                 answers, runs, server, offered>>

\* The call enters the pending table, which Close may have emptied since the
\* check, and its goroutine sends the request.
GoRegisters(g) ==
  /\ pc[g] = "register"
  /\ pending' = pending \cup {g}
  /\ requests' = requests \cup {Request(g)}
  /\ pc' = [pc EXCEPT ![g] = "await"]
  /\ UNCHANGED <<closed, kind, try, retried, result, signals, own, cut, lost,
                 answers, runs, server, offered>>

\* The goroutine has its answer or its error: it leaves the table, sets the
\* call's Error and signals, also when Close has signalled the call before.
\* Success sets no Error, and so leaves the one Close wrote.
GoEnds(g) ==
  /\ pc[g] = "await"
  /\ pending' = pending \ {g}
  /\ signals' = Signal(signals, {g})
  /\ \E L \in SUBSET MayLose({g}) : lost' = lost \cup L
  /\ \/ Finish(g, "error") /\ UNCHANGED answers
     \/ \E a \in answers :
          /\ a[1] = Request(g)
          /\ answers' = answers \ {a}
          /\ Finish(g, CASE a[2] \notin {"ok", "empty"} -> "error"
                         [] a[2] \in {"ok", "empty"} /\ result[g] = "none" -> a[2]
                         [] OTHER -> result[g])
  /\ UNCHANGED <<closed, kind, try, retried, own, cut, requests, runs, server,
                 offered>>

\* mutant: the table is not emptied
PendingAfterCloseKept == pending

PendingAfterClose == {}

\* Close signals the pending calls and empties the table; it does not end
\* their goroutines, and a second Close does nothing.
Close ==
  /\ ~closed
  /\ closed' = TRUE
  /\ result' = [c \in All |-> IF c \in pending THEN "closed" ELSE result[c]]
  /\ signals' = Signal(signals, pending)
  /\ \E L \in SUBSET MayLose(pending) : lost' = lost \cup L
  /\ cut' = cut \cup pending
  /\ pending' = PendingAfterClose
  /\ UNCHANGED <<pc, kind, try, retried, own, requests, answers, runs, server,
                 offered>>

(***************************************************************************)
(* The server.                                                             *)
(***************************************************************************)
\* Register: a second service of the name is refused.
Register ==
  /\ ~offered
  /\ offered' = TRUE
  /\ UNCHANGED <<closed, pc, kind, try, retried, result, pending, signals,
                 own, cut, lost, requests, answers, runs, server>>

\* Start, which a server that was stopped refuses.
Start ==
  /\ server = "new"
  /\ server' = "up"
  /\ UNCHANGED <<closed, pc, kind, try, retried, result, pending, signals,
                 own, cut, lost, requests, answers, runs, offered>>

\* parseServiceMethod, the two lookups and the arguments' type: the method
\* is found and can be called.
Runs(c) == kind[c] = "method" /\ offered

\* reflect.Type.Elem panics on the type of the arguments or of the reply.
Panics(c) == kind[c] = "builtin" /\ offered

\* What Call answers; the method's own error may read like a temporary one.
\* A panic, of the method too, is recovered from with no response and no
\* error, which the client reads as an empty response.
Outcomes(c) ==
  CASE Runs(c)   -> {"ok", "empty", "temporary", "error"}
    [] Panics(c) -> {"empty", "error"}
    [] OTHER     -> {"error"}

Serve(r) ==
  /\ r \in requests
  /\ server \in {"up", "stopping"}
  /\ requests' = requests \ {r}
  /\ \E o \in Outcomes(r[1]) : answers' = answers \cup {<<r, o>>}
  /\ runs' = [runs EXCEPT ![r[1]] = IF Runs(r[1]) THEN @ + 1 ELSE @]
  /\ UNCHANGED <<closed, pc, kind, try, retried, result, pending, signals,
                 own, cut, lost, server, offered>>

\* A request is refused or lost before the server sees it.
Lose(r) ==
  /\ r \in requests
  /\ requests' = requests \ {r}
  /\ UNCHANGED <<closed, pc, kind, try, retried, result, pending, signals,
                 own, cut, lost, answers, runs, server, offered>>

\* GracefulStop lets the requests it has finish; a server that was never
\* started is stopped at once.
StopBegins ==
  /\ server \in {"new", "up"}
  /\ server' = IF server = "up" THEN "stopping" ELSE "stopped"
  /\ UNCHANGED <<closed, pc, kind, try, retried, result, pending, signals,
                 own, cut, lost, requests, answers, runs, offered>>

StopEnds ==
  /\ server = "stopping"
  /\ requests = {}
  /\ server' = "stopped"
  /\ UNCHANGED <<closed, pc, kind, try, retried, result, pending, signals,
                 own, cut, lost, requests, answers, runs, offered>>

Next ==
  \/ \E c \in Calls : \/ CallBegins(c) \/ Attempt(c) \/ CallAnswered(c)
                      \/ CallFails(c) \/ BackedOff(c)
  \/ \E g \in GoCalls : GoBegins(g) \/ GoRegisters(g) \/ GoEnds(g)
  \/ Close
  \/ \E r \in All \X (1..MaxRetries) : Serve(r) \/ Lose(r)
  \/ Register \/ Start \/ StopBegins \/ StopEnds

Spec == Init /\ [][Next]_vars

-----------------------------------------------------------------------------
TypeOK ==
  /\ closed \in BOOLEAN
  /\ pc \in [All -> {"new", "attempt", "await", "backoff", "register", "returned"}]
  /\ kind \in [All -> Kinds]
  /\ try \in [All -> 1..MaxRetries]
  /\ retried \in [All -> BOOLEAN]
  /\ result \in [All -> {"none", "ok", "empty", "error", "closed"}]
  /\ pending \subseteq GoCalls
  /\ signals \in [GoCalls -> 0..2]
  /\ own \cup cut \cup lost \subseteq GoCalls
  /\ requests \subseteq All \X (1..MaxRetries)
  /\ answers \subseteq (All \X (1..MaxRetries)) \X {"ok", "empty", "temporary", "error"}
  /\ runs \in [All -> 0..MaxRetries]
  /\ offered \in BOOLEAN
  /\ server \in {"new", "up", "stopping", "stopped"}

\* A call that returned a reply ran its method.  One that returned no error
\* and no reply ran it too, unless the server panicked over the method's
\* types.  A method runs at most once for each attempt, and a second time only
\* after an attempt ended in a retryable error.  (A call that failed may have
\* run it too.)
RunsMatchAttempts ==
  \A c \in All :
    /\ result[c] = "ok" => runs[c] >= 1
    /\ result[c] = "empty" => runs[c] >= 1 \/ kind[c] = "builtin"
    /\ runs[c] <= try[c]
    /\ runs[c] > 1 => retried[c]

\* Call.done runs once for the end of a call's goroutine (or for the refusal of
\* the call), and once more if and only if Close found the call in the table,
\* before that end; a call in the table was not signalled.  No signal is lost
\* of a call that was given no channel.
SignalledOnce ==
  \A g \in GoCalls :
    /\ signals[g] = (IF pc[g] = "returned" THEN 1 ELSE 0) + (IF g \in cut THEN 1 ELSE 0)
    /\ g \in pending => signals[g] = 0
    /\ g \in own => g \notin lost

-----------------------------------------------------------------------------
Types ==
  /\ pc \in [All -> {"new", "attempt", "await", "backoff", "register", "returned"}]
  /\ try \in [All -> Nat \ {0}]
  /\ retried \in [All -> BOOLEAN]
  /\ DOMAIN result = All
  /\ pending \subseteq GoCalls
  /\ signals \in [GoCalls -> Nat]
  /\ requests \subseteq All \X Nat
  /\ \A r \in requests : r[2] \in 1..try[r[1]]
  /\ answers \subseteq (All \X Nat) \X {"ok", "empty", "temporary", "error"}
  /\ runs \in [All -> Nat]

\* The attempts of a call that cannot reach the server any more: each was sent
\* and is not among the requests.
Unsent(c) == pc[c] \in {"new", "attempt", "register"}
Behind(c) ==
  {t \in 1..try[c] : <<c, t>> \notin requests /\ (t = try[c] => ~Unsent(c))}

\* The call of a request has sent it.
RequestsAreSent == \A r \in requests : r[2] = try[r[1]] => ~Unsent(r[1])

\* The method ran at most once for each of these.
RunsAreBehind == \A c \in All : runs[c] <= Cardinality(Behind(c))

\* A second attempt follows a retryable error.
RetriedBefore ==
  \A c \in All : (try[c] > 1 \/ pc[c] = "backoff") => retried[c]

RanFor(c, outcome) ==
  /\ outcome = "ok" => runs[c] >= 1
  /\ outcome = "empty" => runs[c] >= 1 \/ kind[c] = "builtin"

\* A success comes from a run, or from a panic.
SuccessRan ==
  /\ \A a \in answers : RanFor(a[1][1], a[2])
  /\ \A c \in All : RanFor(c, result[c])

\* A call is in the table only while its goroutine waits, and Close is what
\* signals it before its goroutine does.
SignalledAt(g) ==
  /\ signals[g] = (IF pc[g] = "returned" THEN 1 ELSE 0) + (IF g \in cut THEN 1 ELSE 0)
  /\ g \in cut => pc[g] \in {"await", "returned"}
  /\ g \in pending => pc[g] = "await" /\ g \notin cut
  /\ g \in own => g \notin lost

\* A call that backs off has an attempt left.
TriesLeft == \A c \in All : pc[c] = "backoff" => try[c] < MaxRetries

IInv ==
  /\ Types /\ RequestsAreSent /\ RunsAreBehind /\ RetriedBefore /\ SuccessRan
  /\ \A g \in GoCalls : SignalledAt(g)

\* A call is synchronous or not, and makes an attempt; the channel Go makes has
\* room for two signals.
Constants ==
  /\ Calls \cap GoCalls = {}
  /\ MaxRetries \in Nat \ {0}
  /\ DoneRoom \in Nat /\ DoneRoom >= 2
=============================================================================
