------------------------------ MODULE MCRequests ------------------------------
(* Two components that share no state, explored in one run: the sessions of   *)
(* the QUIC gateway, or one call of GetMulti.                                  *)
EXTENDS QuicSessions, MultiGet

CONSTANT id1    \* an identifier

VARIABLE part   \* the component that takes the steps

MCInit ==
  /\ Init
  /\ MultiInit
  /\ \/ part = "getmulti"
     \/ /\ part = "sessions"
        /\ request = <<id1>> /\ cached = {} /\ dirty = {} /\ stored = {}

MCNext ==
  \/ part = "sessions" /\ Next /\ UNCHANGED <<part, multiVars>>
  \/ part = "getmulti" /\ MultiNext /\ UNCHANGED <<part, vars>>

MCSpec == MCInit /\ [][MCNext]_<<part, vars, multiVars>> /\ Fairness
===============================================================================
