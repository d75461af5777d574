----------------------------- MODULE RedisLock -----------------------------
(***************************************************************************)
(* The distributed lock of framework/core/lock/RedisLock.java: lock()      *)
(* tries SETNX, and when the key exists but the time in its value has      *)
(* passed, takes it over with GETSET.  Every Redis command is a step of    *)
(* its own, as is the local test between GET and GETSET, so the commands   *)
(* of several clients interleave in every order.                           *)
(*                                                                         *)
(* One key is modelled (locks on different keys do not interact).  Time is *)
(* counted in ticks; the clients' clocks agree.  The code puts no bound on *)
(* how long a call of lock() or one round of its loop lasts (only sleeps   *)
(* are counted against lockWaitTimeout) nor on how long the caller keeps   *)
(* the lock: the history variable overruns counts the ticks in which       *)
(* somebody took longer than RoundMax, AttemptMax or HoldMax allow.        *)
(***************************************************************************)
EXTENDS Integers, FiniteSets

CONSTANTS
  Clients,     \* callers of lock(), each with a Lock object of its own
  Expire,      \* lockExpirseTimeout, in ticks
  Rounds,      \* lockWaitTimeout / DEFAULT_LOOP_WAIT_TIME
  RoundMax,    \* ticks for the commands of one round of the loop
  AttemptMax,  \* ticks for a call of lock(), its sleeps included
  HoldMax,     \* ticks from EXPIRE to DEL
  MaxCrashes,  \* bound: client crashes in a behaviour
  MaxOverruns, \* bound: ticks in which somebody takes too long
  MaxClock     \* bound: the last tick of a behaviour

ASSUME LockAssumption ==
  /\ Expire \in Nat \ {0}
  /\ Rounds \in Nat \ {0}
  /\ RoundMax \in Nat
  /\ AttemptMax \in Nat
  /\ HoldMax \in Nat
  /\ MaxCrashes \in Nat
  /\ MaxOverruns \in Nat
  /\ MaxClock \in Nat

VARIABLES
  now,         \* System.currentTimeMillis()
  value,       \* the key's value in Redis, NoTime if there is no such key
  ttl,         \* when Redis drops the key, NoTime if it does not
  pc,          \* pc[c]: the next command of client c
  redisValue,  \* redisValue[c]: the value SETNX writes, fixed on entry
  stealValue,  \* stealValue[c]: the value GETSET writes
  seen,        \* seen[c]: what GET, then GETSET, returned
  wait,        \* wait[c]: lockWaitMillSeconds, in rounds
  since,       \* since[c]: when lock() was entered, then when it returned
  round,       \* round[c]: when this round of the loop began
  crashes,
  overruns     \* history: the ticks in which somebody took too long

locals == <<redisValue, stealValue, seen, wait, since, round>>
redis == <<value, ttl>>
history == <<crashes, overruns>>
vars == <<now, redis, pc, locals, history>>

Times == 0..(MaxClock + Expire)
NoTime == 0

Labels == {"idle", "setnx", "expire", "get", "check", "getset", "restore", "sleep", "held"}

(* lk.isLock(): SETNX or GETSET has given the client the lock.             *)
Owners == {c \in Clients : pc[c] \in {"expire", "held"}}

-----------------------------------------------------------------------------
Init ==
  /\ now = 0
  /\ value = NoTime
  /\ ttl = NoTime
  /\ pc = [c \in Clients |-> "idle"]
  /\ redisValue = [c \in Clients |-> NoTime]
  /\ stealValue = [c \in Clients |-> NoTime]
  /\ seen = [c \in Clients |-> NoTime]
  /\ wait = [c \in Clients |-> 0]
  /\ since = [c \in Clients |-> 0]
  /\ round = [c \in Clients |-> 0]
  /\ crashes = 0
  /\ overruns = 0

(* SET, and what SETNX and GETSET write: a value without a time to live.   *)
Store(v) == value' = v /\ ttl' = NoTime

Goto(c, label) == pc' = [pc EXCEPT ![c] = label]

(* The call is over, and its local variables with it.                      *)
Leave(c) ==
  /\ Goto(c, "idle")
  /\ redisValue' = [redisValue EXCEPT ![c] = NoTime]
  /\ stealValue' = [stealValue EXCEPT ![c] = NoTime]
  /\ seen' = [seen EXCEPT ![c] = NoTime]
  /\ wait' = [wait EXCEPT ![c] = 0]
  /\ since' = [since EXCEPT ![c] = 0]
  /\ round' = [round EXCEPT ![c] = 0]

(* Entry of lock(): the value is computed once, before the loop.           *)
Begin(c) ==
  /\ pc[c] = "idle"
  /\ Goto(c, "setnx")
  /\ redisValue' = [redisValue EXCEPT ![c] = now + Expire]
  /\ wait' = [wait EXCEPT ![c] = Rounds]
  /\ since' = [since EXCEPT ![c] = now]
  /\ round' = [round EXCEPT ![c] = now]
  /\ UNCHANGED <<now, redis, stealValue, seen, history>>

(* SETNX.                                                                  *)
SetIfAbsent(c) ==
  /\ pc[c] = "setnx"
  /\ \/ /\ value = NoTime
        /\ Store(redisValue[c])
        /\ Goto(c, "expire")
     \/ /\ value # NoTime
        /\ Goto(c, "get")
        /\ UNCHANGED redis
  /\ UNCHANGED <<now, locals, history>>

(* EXPIRE, after either way of getting the lock; lock() returns true.      *)
SetExpire(c) ==
  /\ pc[c] = "expire"
  /\ ttl' = IF value = NoTime THEN NoTime ELSE now + Expire
  /\ Goto(c, "held")
  /\ since' = [since EXCEPT ![c] = now]
  /\ UNCHANGED <<now, value, redisValue, stealValue, seen, wait, round, history>>

(* GET.                                                                    *)
Get(c) ==
  /\ pc[c] = "get"
  /\ seen' = [seen EXCEPT ![c] = value]
  /\ Goto(c, "check")
  /\ UNCHANGED <<now, redis, redisValue, stealValue, wait, since, round, history>>

(* Mutants: an expired value is never taken over; the new value is the old *)
(* expiry time plus another Expire.                                        *)
CheckNoTakeOver(c) ==
  /\ pc[c] = "check"
  /\ Goto(c, "sleep")
  /\ UNCHANGED <<now, redis, redisValue, stealValue, seen, wait, since, round, history>>

CheckAddsTwice(c) ==
  /\ pc[c] = "check"
  /\ \/ /\ seen[c] # NoTime
        /\ seen[c] < now
        /\ stealValue' = [stealValue EXCEPT ![c] = redisValue[c] + Expire]
        /\ Goto(c, "getset")
     \/ /\ seen[c] = NoTime \/ seen[c] >= now
        /\ Goto(c, "sleep")
        /\ UNCHANGED stealValue
  /\ UNCHANGED <<now, redis, redisValue, seen, wait, since, round, history>>

(* Is there a value, and is it over?  If so the new one is computed.       *)
Check(c) ==
  /\ pc[c] = "check"
  /\ \/ /\ seen[c] # NoTime
        /\ seen[c] < now
        /\ stealValue' = [stealValue EXCEPT ![c] = now + Expire]
        /\ Goto(c, "getset")
     \/ /\ seen[c] = NoTime \/ seen[c] >= now
        /\ Goto(c, "sleep")
        /\ UNCHANGED stealValue
  /\ UNCHANGED <<now, redis, redisValue, seen, wait, since, round, history>>

(* Mutant: the value GETSET returned is not compared with the one seen.    *)
GetAndSetNoCompare(c) ==
  /\ pc[c] = "getset"
  /\ Store(stealValue[c])
  /\ Goto(c, "expire")
  /\ UNCHANGED <<now, locals, history>>

(* GETSET: the lock is taken over if the value is still the one seen; a    *)
(* key that is gone makes line 49 throw and leaves the new value behind.   *)
GetAndSet(c) ==
  /\ pc[c] = "getset"
  /\ Store(stealValue[c])
  /\ \/ /\ value = NoTime
        /\ Leave(c)
     \/ /\ value # NoTime
        /\ value = seen[c]
        /\ Goto(c, "expire")
        /\ UNCHANGED locals
     \/ /\ value # NoTime
        /\ value # seen[c]
        /\ Goto(c, "restore")
        /\ seen' = [seen EXCEPT ![c] = value]
        /\ UNCHANGED <<redisValue, stealValue, wait, since, round>>
  /\ UNCHANGED <<now, history>>

(* SET of the value GETSET returned, which also drops the time to live.    *)
Restore(c) ==
  /\ pc[c] = "restore"
  /\ Store(seen[c])
  /\ Goto(c, "sleep")
  /\ UNCHANGED <<now, locals, history>>

(* Mutants: the loop's test is >= 0; a caller that timed out deletes the   *)
(* key.                                                                    *)
WakeOnceMore(c) ==
  /\ pc[c] = "sleep"
  /\ Goto(c, "setnx")
  /\ wait' = [wait EXCEPT ![c] = @ - 1]
  /\ seen' = [seen EXCEPT ![c] = NoTime]
  /\ stealValue' = [stealValue EXCEPT ![c] = NoTime]
  /\ round' = [round EXCEPT ![c] = now]
  /\ UNCHANGED <<now, redis, redisValue, since, history>>

WakeDeletes(c) ==
  /\ pc[c] = "sleep"
  /\ Store(NoTime)
  /\ Leave(c)
  /\ UNCHANGED <<now, history>>

(* Line 62 to the loop's test: another round, or lock() returns false.     *)
Wake(c) ==
  /\ pc[c] = "sleep"
  /\ \/ /\ wait[c] > 1
        /\ Goto(c, "setnx")
        /\ wait' = [wait EXCEPT ![c] = @ - 1]
        /\ seen' = [seen EXCEPT ![c] = NoTime]
        /\ stealValue' = [stealValue EXCEPT ![c] = NoTime]
        /\ round' = [round EXCEPT ![c] = now]
        /\ UNCHANGED <<redisValue, since>>
     \/ /\ wait[c] <= 1
        /\ Leave(c)
  /\ UNCHANGED <<now, redis, history>>

(* unlock(): DEL, whatever the key holds by now.                           *)
Unlock(c) ==
  /\ pc[c] = "held"
  /\ Store(NoTime)
  /\ Leave(c)
  /\ UNCHANGED <<now, history>>

(* The process dies, or a Redis command throws out of lock().              *)
Crash(c) ==
  /\ pc[c] # "idle"
  /\ crashes < MaxCrashes
  /\ crashes' = crashes + 1
  /\ Leave(c)
  /\ UNCHANGED <<now, redis, overruns>>

(* What is allowed: the use of the lock; the call; the round's commands.   *)
InAllowance(c) ==
  \/ pc[c] = "idle"
  \/ pc[c] = "held" /\ now <= since[c] + HoldMax
  \/ /\ pc[c] \notin {"idle", "held"}
     /\ now <= since[c] + AttemptMax
     /\ pc[c] # "sleep" => now <= round[c] + RoundMax

(* Time passes, and Redis drops a key whose time to live is over.          *)
Tick ==
  /\ now < MaxClock
  /\ now' = now + 1
  /\ \/ /\ ttl # NoTime /\ ttl <= now'
        /\ Store(NoTime)
     \/ /\ ttl = NoTime \/ ttl > now'
        /\ UNCHANGED redis
  /\ UNCHANGED <<pc, locals, crashes>>
  /\ \/ /\ \A c \in Clients : InAllowance(c)'
        /\ UNCHANGED overruns
     \/ /\ \E c \in Clients : ~InAllowance(c)'
        /\ overruns < MaxOverruns
        /\ overruns' = overruns + 1

Step(c) ==
  \/ SetIfAbsent(c)
  \/ SetExpire(c)
  \/ Get(c)
  \/ Check(c)
  \/ GetAndSet(c)
  \/ Restore(c)
  \/ Wake(c)
  \/ Unlock(c)

Next ==
  \/ \E c \in Clients : Begin(c) \/ Step(c) \/ Crash(c)
  \/ Tick

Spec == Init /\ [][Next]_vars

(* Clients keep asking for the lock, their steps are scheduled, and time   *)
(* never stops for good.                                                   *)
FairSpec ==
  /\ Spec
  /\ \A c \in Clients : WF_vars(Begin(c)) /\ WF_vars(Step(c))
  /\ SF_vars(Tick)

-----------------------------------------------------------------------------
TypeOK ==
  /\ now \in 0..MaxClock
  /\ value \in Times
  /\ ttl \in Times
  /\ pc \in [Clients -> Labels]
  /\ redisValue \in [Clients -> Times]
  /\ stealValue \in [Clients -> Times]
  /\ seen \in [Clients -> Times]
  /\ wait \in [Clients -> 0..Rounds]
  /\ since \in [Clients -> 0..MaxClock]
  /\ round \in [Clients -> 0..MaxClock]
  /\ crashes \in 0..MaxCrashes
  /\ overruns \in 0..MaxOverruns

(* No two clients have the lock before somebody has overrun, although      *)
(* crashed owners leave keys behind that several clients race to take      *)
(* over, and losers of the race write old values back.                     *)
MutualExclusion == overruns = 0 => Cardinality(Owners) <= 1

(* An owner's key is in Redis until it is unlocked, with a value that      *)
(* nobody takes for over: neither the time to live nor what the losers of  *)
(* a race and the callers that give up write take it away.                 *)
OwnerKeepsKey == overruns = 0 => \A c \in Owners : value # NoTime /\ value >= now

(* Whatever crashes and whoever writes, the key's value is over within     *)
(* Expire of now: a lock never blocks for longer than that.                *)
BoundedLease == value # NoTime => value <= now + Expire

(* A key left without an owner is taken over or removed.                   *)
Ghost == value # NoTime /\ Owners = {}

GhostIsRecovered ==
  (Ghost /\ now + Expire + 2 * AttemptMax + MaxOverruns < MaxClock) ~> ~Ghost
=============================================================================
