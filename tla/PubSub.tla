-------------------------------- MODULE PubSub --------------------------------
(***************************************************************************)
(* The publish/subscribe service of src/pkg/redis/pubsub.go, for one       *)
(* channel and one pattern that matches it.  The first subscription makes  *)
(* the client's redis.PubSub object and starts the message loop; Close     *)
(* closes stopChan, which is never made again, and drops the object.  The  *)
(* loop reads the field ps.pubsub without the lock.                        *)
(*                                                                         *)
(* A handler that is subscribed again, after a failed Subscribe say, is in  *)
(* the list of handlers again: an entry is a handler with its number among *)
(* the entries of that handler.                                            *)
(*                                                                         *)
(* Redis is external: it sends a published message once for the channel    *)
(* subscription and once more for the pattern subscription, in order, and  *)
(* may lose what is on its way when the connection fails.                  *)
(***************************************************************************)
EXTENDS Naturals, Sequences, FiniteSets

CONSTANTS Handlers,   \* handlers that may subscribe to the channel
          PHandlers,  \* handlers that may subscribe to the pattern
          MaxRegs,    \* bound: how often a handler is in a list at a time
          Messages,   \* messages that may be published on the channel
          MaxOpen     \* bound: how often the redis.PubSub object is made

VARIABLES pubsub,     \* ps.pubsub: the number of the object, 0 for nil
          opened,     \* objects made so far
          handlers,   \* entries of the channel's list
          patternHandlers,  \* entries of the pattern's list
          activeChannels, isRunning,
          stopClosed, \* stopChan is closed
          loops,      \* message loops that have not returned: each its state
          subs,       \* Redis: what the current object is subscribed to
          stream,     \* Redis: messages on their way to the current object
          published,  \* messages published so far
          double,     \* those Redis sent twice, for channel and pattern
          calls,      \* how often each entry's handler was called for each message
          dead        \* the process has panicked

pubVars == <<pubsub, opened, handlers, patternHandlers, activeChannels, isRunning,
          stopClosed, loops, subs, stream, published, double, calls, dead>>

Entries  == {"channel"} \X Handlers \X (1..MaxRegs)
PEntries == {"pattern"} \X PHandlers \X (1..MaxRegs)
AllEntries == Entries \cup PEntries
Received == [msg : Messages, pattern : BOOLEAN]

PubInit ==
  /\ pubsub = 0
  /\ opened = 0
  /\ handlers = {}
  /\ patternHandlers = {}
  /\ activeChannels = FALSE
  /\ isRunning = FALSE
  /\ stopClosed = FALSE
  /\ loops = <<>>
  /\ subs = {}
  /\ stream = <<>>
  /\ published = {}
  /\ double = {}
  /\ calls = [e \in AllEntries |-> [m \in Messages |-> 0]]
  /\ dead = FALSE

\* Close has failed to close the object, and left it in place: it is closed
\* all the same, and refuses every request.
Refuses == pubsub # 0 /\ stopClosed /\ ~isRunning

\* Without an object one is made and, unless isRunning, a loop started.
Open ==
  IF pubsub # 0
    THEN UNCHANGED <<pubsub, opened, isRunning, loops>>
    ELSE /\ opened < MaxOpen
         /\ opened' = opened + 1
         /\ pubsub' = opened + 1
         /\ isRunning' = TRUE
         /\ loops' = IF isRunning THEN loops
                     ELSE Append(loops, [at |-> "check", got |-> <<>>])

\* append: one more entry of the handler
Appended(list, kind, h) ==
  {list \cup {<<kind, h, n>>} : n \in {k \in 1..MaxRegs :
     /\ <<kind, h, k>> \notin list
     /\ \A j \in 1..(k - 1) : <<kind, h, j>> \in list}}

\* The handler is registered before Redis is asked, and stays when the
\* request fails; nothing stops it from being registered again.
Subscribe(h) ==
  /\ Open
  /\ handlers' \in Appended(handlers, "channel", h)
  /\ activeChannels' = TRUE
  /\ subs' \in {subs, IF Refuses THEN subs ELSE subs \cup {"channel"}}
  /\ UNCHANGED <<patternHandlers, stopClosed, stream, published, double, calls,
                 dead>>

PSubscribe(h) ==
  /\ Open
  /\ patternHandlers' \in Appended(patternHandlers, "pattern", h)
  /\ subs' \in {subs, IF Refuses THEN subs ELSE subs \cup {"pattern"}}
  /\ UNCHANGED <<handlers, activeChannels, stopClosed, stream, published,
                 double, calls, dead>>

\* Redis is asked first; nothing changes when it fails.
Unsubscribe ==
  /\ pubsub # 0 /\ ~Refuses
  /\ subs' = subs \ {"channel"}
  /\ handlers' = {}
  /\ activeChannels' = FALSE
  /\ UNCHANGED <<pubsub, opened, patternHandlers, isRunning, stopClosed, loops,
                 stream, published, double, calls, dead>>

PUnsubscribe ==
  /\ pubsub # 0 /\ ~Refuses
  /\ subs' = subs \ {"pattern"}
  /\ patternHandlers' = {}
  /\ UNCHANGED <<pubsub, opened, handlers, activeChannels, isRunning,
                 stopClosed, loops, stream, published, double, calls, dead>>

\* A second close of stopChan panics.  When the object cannot be closed the
\* function returns with it, and with the handlers, still in place.
Close ==
  /\ isRunning
  /\ IF stopClosed
       THEN /\ dead' = TRUE
            /\ UNCHANGED <<pubsub, handlers, patternHandlers, activeChannels,
                           isRunning, stopClosed, subs, stream>>
       ELSE /\ stopClosed' = TRUE
            /\ isRunning' = FALSE
            /\ subs' = {}
            /\ stream' = <<>>
            /\ \/ /\ pubsub' = 0
                  /\ handlers' = {}
                  /\ patternHandlers' = {}
                  /\ activeChannels' = FALSE
               \/ UNCHANGED <<pubsub, handlers, patternHandlers, activeChannels>>
            /\ UNCHANGED dead
  /\ UNCHANGED <<opened, loops, published, double, calls>>

\* Publish goes through a pooled client; Redis serves the subscriptions.
Publish(m) ==
  /\ m \notin published
  /\ published' = published \cup {m}
  /\ stream' = stream
       \o (IF "channel" \in subs THEN <<[msg |-> m, pattern |-> FALSE]>> ELSE <<>>)
       \o (IF "pattern" \in subs THEN <<[msg |-> m, pattern |-> TRUE]>> ELSE <<>>)
  /\ double' = IF subs = {"channel", "pattern"} THEN double \cup {m} ELSE double
  /\ UNCHANGED <<pubsub, opened, handlers, patternHandlers, activeChannels,
                 isRunning, stopClosed, loops, subs, calls, dead>>

\* The connection fails and comes back: what was on its way is lost.
LoseStream ==
  /\ stream # <<>>
  /\ stream' = <<>>
  /\ UNCHANGED <<pubsub, opened, handlers, patternHandlers, activeChannels,
                 isRunning, stopClosed, loops, subs, published, double, calls,
                 dead>>

(***************************************************************************)
(* The message loop.                                                       *)
(***************************************************************************)
\* The select: the loop returns when stopChan is closed.
LoopChecks(i) ==
  /\ loops[i].at = "check"
  /\ loops' = [loops EXCEPT ![i].at = IF stopClosed THEN "ended" ELSE "receive"]
  /\ UNCHANGED <<pubsub, opened, handlers, patternHandlers, activeChannels,
                 isRunning, stopClosed, subs, stream, published, double, calls,
                 dead>>

\* ReceiveMessage on the object that ps.pubsub holds by now: a message, an
\* error (the object is closed, or the first subscriber's context is done),
\* or a nil dereference.
LoopReceives(i) ==
  /\ loops[i].at = "receive"
  /\ IF pubsub = 0
       THEN dead' = TRUE /\ UNCHANGED <<loops, stream>>
       ELSE /\ \/ /\ stream # <<>>
                  /\ loops' = [loops EXCEPT ![i] = [at |-> "handle", got |-> <<Head(stream)>>]]
                  /\ stream' = Tail(stream)
               \/ loops' = [loops EXCEPT ![i].at = "check"] /\ UNCHANGED stream
            /\ UNCHANGED dead
  /\ UNCHANGED <<pubsub, opened, handlers, patternHandlers, activeChannels,
                 isRunning, stopClosed, subs, published, double, calls>>

\* mutant: the pattern's handlers are called for every message
CalledAll(r) == handlers \cup patternHandlers

\* The channel's entries are called for every message on the channel, also
\* for one that came through the pattern; the pattern's only for those.
Called(r) == handlers \cup (IF r.pattern THEN patternHandlers ELSE {})

HandleMessage(i) ==
  /\ loops[i].at = "handle"
  /\ LET r == Head(loops[i].got)
     IN calls' = [e \in AllEntries |->
                    [calls[e] EXCEPT ![r.msg] = IF e \in Called(r) THEN @ + 1 ELSE @]]
  /\ loops' = [loops EXCEPT ![i] = [at |-> "check", got |-> <<>>]]
  /\ UNCHANGED <<pubsub, opened, handlers, patternHandlers, activeChannels,
                 isRunning, stopClosed, subs, stream, published, double, dead>>

PubNext ==
  /\ ~dead
  /\ \/ \E h \in Handlers : Subscribe(h)
     \/ \E h \in PHandlers : PSubscribe(h)
     \/ Unsubscribe \/ PUnsubscribe \/ Close
     \/ \E m \in Messages : Publish(m)
     \/ LoseStream
     \/ \E i \in DOMAIN loops : LoopChecks(i) \/ LoopReceives(i) \/ HandleMessage(i)

PubSpec == PubInit /\ [][PubNext]_pubVars

-----------------------------------------------------------------------------
PubTypeOK ==
  /\ pubsub \in 0..opened
  /\ opened \in 0..MaxOpen
  /\ handlers \subseteq Entries
  /\ patternHandlers \subseteq PEntries
  /\ {activeChannels, isRunning, stopClosed, dead} \subseteq BOOLEAN
  /\ \A i \in DOMAIN loops : loops[i].at \in {"check", "receive", "handle", "ended"}
  /\ stream \in Seq(Received)
  /\ calls \in [AllEntries -> [Messages -> 0..2]]

\* However often a handler was subscribed, each of its entries is called at
\* most once for a message, whatever was lost, closed or opened again, except
\* an entry of the channel for a message Redis sent for the channel and for
\* the pattern; and a message handed out was published.
HandledOnce ==
  \A e \in AllEntries, m \in Messages :
    /\ calls[e][m] > 0 => m \in published
    /\ calls[e][m] > 1 => e \in Entries /\ m \in double

-----------------------------------------------------------------------------
(* The inductive invariant.                                                 *)
Loop == [at : {"check", "receive", "handle", "ended"}, got : Seq(Received)]

PubTypes ==
  /\ handlers \subseteq Entries
  /\ patternHandlers \subseteq PEntries
  /\ subs \subseteq {"channel", "pattern"}
  /\ loops \in Seq(Loop)
  /\ stream \in Seq(Received)
  /\ calls \in [AllEntries -> [Messages -> Nat]]

Items(s) == {s[k] : k \in DOMAIN s}
Distinct(s) == \A j, k \in DOMAIN s : s[j] = s[k] => j = k

\* Loop i is about to hand out r.
Handles(i, r) == loops[i].at = "handle" /\ loops[i].got = <<r>>

\* What Redis sent is on its way at one place, the stream or a loop.
OnePlace ==
  /\ Distinct(stream)
  /\ \A i \in DOMAIN loops :
       loops[i].at = "handle" =>
         \E r \in Received : loops[i].got = <<r>> /\ r \notin Items(stream)
  /\ \A i, j \in DOMAIN loops, r \in Received :
       Handles(i, r) /\ Handles(j, r) => i = j

OnItsWay(r) == r \in Items(stream) \/ \E i \in DOMAIN loops : Handles(i, r)
Sent(m, p) == OnItsWay([msg |-> m, pattern |-> p])

\* Redis sends nothing before a message is published, and one that is not
\* in double only once.
SentOnce(m) ==
  /\ m \notin published => ~Sent(m, FALSE) /\ ~Sent(m, TRUE)
  /\ m \notin double => ~(Sent(m, FALSE) /\ Sent(m, TRUE))

\* Copies on their way and calls are two at most.
AtMostTwice(e, m) ==
  /\ calls[e][m] <= 2
  /\ Sent(m, FALSE) \/ Sent(m, TRUE) => calls[e][m] <= 1
  /\ Sent(m, FALSE) /\ Sent(m, TRUE) => calls[e][m] = 0

\* A message Redis sent once is on its way or was handed out, not both; one
\* it sent twice reaches the pattern's own entries once.
Once(e, m) ==
  /\ m \notin published => calls[e][m] = 0
  /\ m \notin double =>
       /\ Sent(m, FALSE) \/ Sent(m, TRUE) => calls[e][m] = 0
       /\ calls[e][m] <= 1
  /\ e \notin Entries =>
       /\ Sent(m, TRUE) => calls[e][m] = 0
       /\ calls[e][m] <= 1
  /\ AtMostTwice(e, m)

PubIInv ==
  /\ PubTypes /\ OnePlace
  /\ \A m \in Messages : SentOnce(m) /\ \A e \in AllEntries : Once(e, m)

\* The bounds are numbers.
PubConstants == MaxOpen \in Nat /\ MaxRegs \in Nat
=============================================================================
