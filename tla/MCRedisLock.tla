---------------------------- MODULE MCRedisLock ----------------------------
(* Small instances of RedisLock for TLC. *)
EXTENDS RedisLock

\* all tokens are drawn by one process, where stop requests can cross
MCOwner == [t \in Token |-> CHOOSE p \in Process : TRUE]
=============================================================================
