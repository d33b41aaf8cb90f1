---------------------------- MODULE AsyncService ----------------------------
(***************************************************************************)
(* What the asynchronous database layer promises about each operation,     *)
(* without queue, batches, timers or workers: a submission is accepted or  *)
(* refused; an accepted operation runs at most Tries times and is answered *)
(* at most once, with a failure only after the last try; it may be dropped *)
(* instead, in which case it is never answered.                            *)
(***************************************************************************)
EXTENDS Naturals

CONSTANTS Op, Tries

VARIABLES
  phase,    \* "idle", "refused", "pending", "answered" or "dropped"
  tries,    \* executions of the statement so far
  answer    \* what the callback was told ("none" before it is called)

vars == <<phase, tries, answer>>

Init ==
  /\ phase = [o \in Op |-> "idle"]
  /\ tries = [o \in Op |-> 0]
  /\ answer = [o \in Op |-> "none"]

Move(o, from, to) == phase[o] = from /\ phase' = [phase EXCEPT ![o] = to]

Try(o) == tries[o] < Tries /\ tries' = [tries EXCEPT ![o] = @ + 1]

Answer(o, what) == Move(o, "pending", "answered") /\ answer' = [answer EXCEPT ![o] = what]

Accept(o) == Move(o, "idle", "pending") /\ UNCHANGED <<tries, answer>>
Refuse(o) == Move(o, "idle", "refused") /\ UNCHANGED <<tries, answer>>

Retry(o)   == phase[o] = "pending" /\ Try(o) /\ tries[o] + 1 < Tries /\ UNCHANGED <<phase, answer>>
Succeed(o) == Try(o) /\ Answer(o, "ok")
Fail(o)    == Try(o) /\ tries[o] + 1 = Tries /\ Answer(o, "failed")
Cancel(o)  == Answer(o, "cancelled") /\ UNCHANGED tries
Drop(o)    == Move(o, "pending", "dropped") /\ UNCHANGED <<tries, answer>>

Next == \E o \in Op :
  Accept(o) \/ Refuse(o) \/ Retry(o) \/ Succeed(o) \/ Fail(o) \/ Cancel(o) \/ Drop(o)

Spec == Init /\ [][Next]_vars
=============================================================================
