------------------------------ MODULE SimpleRpc ------------------------------
(***************************************************************************)
(* The stand-alone RPC client and echo server of src/pkg/rpc               *)
(* (client_standalone.go, server_standalone.go) on one Unix socket.  Both  *)
(* sides take what one Read returns for one message.  A stream socket      *)
(* keeps no message boundaries, so a Read may return several messages,     *)
(* which then do not parse: the server answers with an error of sequence   *)
(* 0, the client drops them.  Messages are shorter than the buffers.       *)
(***************************************************************************)
EXTENDS Naturals, Sequences

CONSTANTS Calls,   \* calls of the client; each has its own sequence number
          Error    \* the result of a call that failed

VARIABLES pc,        \* each call: "new", "send", "wait" or "returned"
          echo,      \* each call: TRUE when it calls SimpleEchoService.Echo
          pending,   \* c.pending
          box,       \* the channel call.Response: at most one response
          result,    \* what the call returned
          conn,      \* the client's c.conn: "open", "closed" or "nil"
          serving,   \* the server's handleConnection runs
          up, down,  \* the two directions of the socket
          working,   \* responses the server's goroutines are about to write
          arrived    \* responses the client's goroutines are about to process

vars == <<pc, echo, pending, box, result, conn, serving, up, down, working,
          arrived>>

\* A response carries the sequence of its request and echoes its message;
\* the response to a request that was not understood has sequence 0.
Reply(c) == [seq |-> c, message |-> c]
Refusal  == [seq |-> Error, message |-> Error]
Replies  == {Reply(c) : c \in Calls} \cup {Refusal}

Init ==
  /\ pc = [c \in Calls |-> "new"]
  /\ echo \in [Calls -> BOOLEAN]
  /\ pending = {}
  /\ box = [c \in Calls |-> <<>>]
  /\ result = [c \in Calls |-> Error]
  /\ conn = "open"
  /\ serving = TRUE
  /\ up = <<>>
  /\ down = <<>>
  /\ working = [r \in Replies |-> 0]
  /\ arrived = {}

\* mutant: the call stays in the table
FailKeeps(c) ==
  /\ pc' = [pc EXCEPT ![c] = "returned"]
  /\ UNCHANGED <<pending, result>>

Fail(c) ==
  /\ pending' = pending \ {c}
  /\ pc' = [pc EXCEPT ![c] = "returned"]
  /\ UNCHANGED result

(***************************************************************************)
(* The client.                                                             *)
(***************************************************************************)
Register(c) ==
  /\ pc[c] = "new"
  /\ pending' = pending \cup {c}
  /\ pc' = [pc EXCEPT ![c] = "send"]
  /\ UNCHANGED <<echo, box, result, conn, serving, up, down, working, arrived>>

\* The request is written, unless the connection is gone.
Send(c) ==
  /\ pc[c] = "send"
  /\ IF conn = "open" /\ serving
       THEN /\ up' = Append(up, c)
            /\ pc' = [pc EXCEPT ![c] = "wait"]
            /\ UNCHANGED <<pending, result>>
       ELSE Fail(c) /\ UNCHANGED up
  /\ UNCHANGED <<echo, box, conn, serving, down, working, arrived>>

\* The response is in the channel; a response with an error text fails the
\* call.
TakeResponse(c) ==
  /\ pc[c] = "wait"
  /\ box[c] # <<>>
  /\ result' = [result EXCEPT ![c] = Head(box[c]).message]
  /\ box' = [box EXCEPT ![c] = <<>>]
  /\ pc' = [pc EXCEPT ![c] = "returned"]
  /\ UNCHANGED <<echo, pending, conn, serving, up, down, working, arrived>>

\* The context ends or the ten seconds pass; also when a response is there.
GiveUp(c) ==
  /\ pc[c] = "wait"
  /\ Fail(c)
  /\ UNCHANGED <<echo, box, conn, serving, up, down, working, arrived>>

\* readResponses: one Read; a goroutine processes what it returned, and
\* drops it when it is more than one message.
ReadResponses ==
  /\ conn = "open"
  /\ \E n \in 1..Len(down) :
       /\ arrived' = IF n = 1 THEN arrived \cup {Head(down)} ELSE arrived
       /\ down' = SubSeq(down, n + 1, Len(down))
  /\ UNCHANGED <<pc, echo, pending, box, result, conn, serving, up, working>>

\* The reader fails: the pending calls are left to their timeouts.
ReadFails ==
  /\ conn = "closed" \/ (conn = "open" /\ ~serving /\ down = <<>>)
  /\ conn' = "nil"
  /\ UNCHANGED <<pc, echo, pending, box, result, serving, up, down, working, arrived>>

\* processResponse: the call is found by the sequence, once.
ProcessResponse(r) ==
  /\ r \in arrived
  /\ arrived' = arrived \ {r}
  /\ IF r.seq \in pending
       THEN /\ pending' = pending \ {r.seq}
            /\ box' = [box EXCEPT ![r.seq] = <<r>>]
       ELSE UNCHANGED <<pending, box>>
  /\ UNCHANGED <<pc, echo, result, conn, serving, up, down, working>>

Close ==
  /\ conn = "open"
  /\ conn' = "closed"
  /\ UNCHANGED <<pc, echo, pending, box, result, serving, up, down, working, arrived>>

(***************************************************************************)
(* The server.                                                             *)
(***************************************************************************)
\* handleRequest: what one Read returned, parsed as one request.
HandleRequest(data) ==
  IF Len(data) = 1 /\ echo[Head(data)] THEN Reply(Head(data)) ELSE Refusal

\* handleConnection: one Read, and a goroutine for what it returned.
ServerReads ==
  /\ serving
  /\ \E n \in 1..Len(up) :
       /\ working' = [working EXCEPT ![HandleRequest(SubSeq(up, 1, n))] = @ + 1]
       /\ up' = SubSeq(up, n + 1, Len(up))
  /\ UNCHANGED <<pc, echo, pending, box, result, conn, serving, down, arrived>>

\* The goroutines write in any order; a write to a closed socket is lost.
ServerWrites(r) ==
  /\ working[r] > 0
  /\ working' = [working EXCEPT ![r] = @ - 1]
  /\ down' = IF serving THEN Append(down, r) ELSE down
  /\ UNCHANGED <<pc, echo, pending, box, result, conn, serving, up, arrived>>

\* The server ends, or its Read fails because the client closed.
ServerEnds ==
  /\ serving
  /\ serving' = FALSE
  /\ UNCHANGED <<pc, echo, pending, box, result, conn, up, down, working, arrived>>

Next ==
  \/ \E c \in Calls : Register(c) \/ Send(c) \/ TakeResponse(c) \/ GiveUp(c)
  \/ ReadResponses \/ ReadFails \/ Close
  \/ \E r \in Replies : ProcessResponse(r) \/ ServerWrites(r)
  \/ ServerReads \/ ServerEnds

Spec == Init /\ [][Next]_vars

-----------------------------------------------------------------------------
TypeOK ==
  /\ pc \in [Calls -> {"new", "send", "wait", "returned"}]
  /\ echo \in [Calls -> BOOLEAN]
  /\ pending \subseteq Calls
  /\ result \in [Calls -> Calls \cup {Error}]
  /\ conn \in {"open", "closed", "nil"}
  /\ serving \in BOOLEAN
  /\ up \in Seq(Calls)
  /\ down \in Seq(Replies)
  /\ arrived \subseteq Replies

\* However responses are reordered, merged, lost or late, a call that
\* returned is out of the pending table (nothing is left behind for a late
\* response to find), and it returned the echo of its own message or failed.
CallsSettle ==
  \A c \in Calls :
    /\ pc[c] = "returned" => c \notin pending /\ result[c] \in {c, Error}
    /\ box[c] # <<>> => c \notin pending

-----------------------------------------------------------------------------
Types ==
  /\ pc \in [Calls -> {"new", "send", "wait", "returned"}]
  /\ pending \subseteq Calls
  /\ DOMAIN box = Calls
  /\ DOMAIN result = Calls

\* A call that has not been registered has no response, a response is that of
\* its own call, and a result is the echo of the call's own message.
OwnResponse ==
  \A c \in Calls :
    /\ pc[c] = "new" => c \notin pending /\ box[c] = <<>>
    /\ box[c] # <<>> => box[c] = <<Reply(c)>>
    /\ result[c] \in {c, Error}

IInv == Types /\ OwnResponse /\ CallsSettle

\* Sequence 0 belongs to no call.
Constants == Error \notin Calls
=============================================================================
