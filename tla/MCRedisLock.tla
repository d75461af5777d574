---------------------------- MODULE MCRedisLock ----------------------------
(* Two clients, which take the lock, crash and come back again and again.  *)
EXTENDS RedisLock

CONSTANTS c1, c2  \* model values
=============================================================================
