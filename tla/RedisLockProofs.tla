-------------------------- MODULE RedisLockProofs --------------------------
(***************************************************************************)
(* RedisLock is a mutual-exclusion lock for every number of clients and of *)
(* crashes, until somebody has taken longer than allowed, if the           *)
(* allowances are Timely: they fit into lockExpirseTimeout.  The defaults  *)
(* of Lock.java (30 s, with 10 s of waiting) leave room for calls of 11 s, *)
(* rounds of 1 s and a use of 17 s.                                        *)
(***************************************************************************)
EXTENDS RedisLock, FiniteSetTheorems, TLAPS

(* A call, two rounds of others and the use of the lock fit into the life  *)
(* of its value, as do a call and three rounds.                            *)
Timely ==
  /\ AttemptMax + 2 * RoundMax + HoldMax <= Expire
  /\ AttemptMax + 3 * RoundMax <= Expire
  /\ HoldMax < Expire

Attempting(c) == pc[c] \notin {"idle", "held"}

(* When an owner has called unlock() at the latest.                        *)
ReleasedBy(c) ==
  IF pc[c] = "held" THEN since[c] + HoldMax ELSE round[c] + RoundMax + HoldMax

InTime ==
  \A c \in Clients :
     /\ InAllowance(c)
     /\ pc[c] # "idle" => since[c] <= now
     /\ Attempting(c) => since[c] <= round[c] /\ round[c] <= now

(* What a client writes with SETNX outlives its entry by Expire, and what  *)
(* it writes with GETSET the start of its round.                           *)
Fresh ==
  \A c \in Clients :
     /\ Attempting(c) => redisValue[c] = since[c] + Expire
     /\ pc[c] = "getset" => /\ stealValue[c] >= round[c] + Expire
                            /\ seen[c] < now
                            /\ seen[c] # NoTime

(* A loser puts back a value that is about as young as a fresh one, and    *)
(* until it does, so is the value in the key.                              *)
Restoring ==
  \A c \in Clients : pc[c] = "restore" =>
     /\ seen[c] # NoTime
     /\ seen[c] + AttemptMax >= round[c] + Expire
     /\ value = NoTime \/ value + (AttemptMax + RoundMax) >= round[c] + Expire

(* A client that has read an expired value finds it in the key again, or a *)
(* value written since.                                                    *)
Recent(v, d) == v = NoTime \/ v = seen[d] \/ v + AttemptMax >= round[d] + Expire

Unmoved(d) ==
  /\ Recent(value, d)
  /\ \A e \in Clients : pc[e] = "restore" => Recent(seen[e], d)

Racing ==
  \A d \in Clients :
     /\ pc[d] = "check" =>
          seen[d] = NoTime \/ seen[d] >= round[d] + RoundMax \/ Unmoved(d)
     /\ pc[d] = "getset" => Unmoved(d)

(* The key stays, with a value that is not over, until its owner is done.  *)
Owned ==
  \A c \in Owners :
     /\ value # NoTime
     /\ value >= ReleasedBy(c)
     /\ ttl # NoTime => pc[c] = "held" /\ ttl = since[c] + Expire

Single == \A c, d \in Owners : c = d

Safe == TypeOK /\ InTime /\ Fresh /\ Restoring /\ Racing /\ Owned /\ Single

IInv == TypeOK /\ (overruns = 0 => Safe)

-----------------------------------------------------------------------------
(* The types of single values.                                             *)
LEMMA Typed ==
  ASSUME TypeOK
  PROVE  /\ now \in Nat /\ value \in Nat /\ ttl \in Nat
         /\ \A c \in Clients :
               /\ pc[c] \in Labels
               /\ redisValue[c] \in Nat /\ stealValue[c] \in Nat /\ seen[c] \in Nat
               /\ wait[c] \in Nat /\ since[c] \in Nat /\ round[c] \in Nat
<1>1. MaxClock \in Nat /\ MaxClock + Expire \in Nat /\ Rounds \in Nat
  BY LockAssumption
<1>2. QED
  BY <1>1 DEF TypeOK, Times

(* No key, no client in a call.                                            *)
LEMMA InitSafe == Init => Safe
<1> SUFFICES ASSUME Init PROVE Safe
  OBVIOUS
<1>1. TypeOK
  BY LockAssumption DEF Init, TypeOK, Times, NoTime, Labels
<1>2. \A c \in Clients : pc[c] = "idle"
  BY DEF Init
<1>3. Owners = {}
  BY <1>2 DEF Owners
<1>4. QED
  BY <1>1, <1>2, <1>3
     DEF Safe, InTime, InAllowance, Fresh, Restoring, Racing, Owned, Single, Attempting

(* Every action keeps the types.                                           *)
LEMMA TypeStep ==
  ASSUME TypeOK, [Next]_vars
  PROVE  TypeOK'
<1> USE LockAssumption DEF TypeOK, Times, Labels, NoTime, Goto, Store, history
<1>1. ASSUME NEW c \in Clients, Begin(c)
      PROVE  TypeOK'
  BY <1>1 DEF Begin, redis
<1>2. ASSUME NEW c \in Clients, SetIfAbsent(c)
      PROVE  TypeOK'
  BY <1>2 DEF SetIfAbsent, redis, locals
<1>3. ASSUME NEW c \in Clients, SetExpire(c)
      PROVE  TypeOK'
  BY <1>3 DEF SetExpire
<1>4. ASSUME NEW c \in Clients, Get(c)
      PROVE  TypeOK'
  BY <1>4 DEF Get, redis
<1>5. ASSUME NEW c \in Clients, Check(c)
      PROVE  TypeOK'
  BY <1>5 DEF Check, redis
<1>6. ASSUME NEW c \in Clients, GetAndSet(c)
      PROVE  TypeOK'
  BY <1>6 DEF GetAndSet, Leave, locals
<1>7. ASSUME NEW c \in Clients, Restore(c)
      PROVE  TypeOK'
  BY <1>7 DEF Restore, locals
<1>8. ASSUME NEW c \in Clients, Wake(c)
      PROVE  TypeOK'
  BY <1>8 DEF Wake, Leave, redis
<1>9. ASSUME NEW c \in Clients, Unlock(c)
      PROVE  TypeOK'
  BY <1>9 DEF Unlock, Leave
<1>10. ASSUME NEW c \in Clients, Crash(c)
       PROVE  TypeOK'
  BY <1>10 DEF Crash, Leave, redis
<1>11. CASE Tick
  BY <1>11 DEF Tick, redis, locals
<1>12. CASE UNCHANGED vars
  BY <1>12 DEF vars, redis, locals
<1>13. QED
  BY <1>1, <1>2, <1>3, <1>4, <1>5, <1>6, <1>7, <1>8, <1>9, <1>10, <1>11, <1>12
     DEF Next, Step

(***************************************************************************)
(* The step lemma, one part per action.  A client that only leaves, reads  *)
(* or enters disturbs nobody; the writers are SETNX, GETSET, SET and DEL.  *)
(***************************************************************************)

(* Entering lock() and leaving it without touching the key.                *)
LEMMA BeginStep ==
  ASSUME Safe, TypeOK', NEW c \in Clients, Begin(c)
  PROVE  Safe'
<1> USE LockAssumption DEF Goto, redis, Attempting
<1>1. /\ pc[c] = "idle" /\ pc'[c] = "setnx" /\ since'[c] = now /\ round'[c] = now
      /\ redisValue'[c] = now + Expire /\ now' = now /\ value' = value /\ ttl' = ttl
      /\ seen' = seen /\ stealValue' = stealValue
      /\ \A d \in Clients : d # c => pc'[d] = pc[d] /\ since'[d] = since[d]
                                     /\ round'[d] = round[d]
                                     /\ redisValue'[d] = redisValue[d]
  BY DEF Begin, Safe, TypeOK
<1>2. now \in Nat
  BY Typed DEF Safe
<1>3. InTime'
  BY <1>1, <1>2 DEF Safe, InTime, InAllowance
<1>4. Fresh'
  BY <1>1 DEF Safe, Fresh
<1>5. Restoring'
  BY <1>1 DEF Safe, Restoring
<1>6. Racing'
  BY <1>1 DEF Safe, Racing, Unmoved, Recent
<1>7. Owners' = Owners
  BY <1>1 DEF Owners
<1>8. Owned' /\ Single'
  BY <1>1, <1>7 DEF Safe, Owned, Single, ReleasedBy, Owners
<1>9. QED
  BY <1>3, <1>4, <1>5, <1>6, <1>8 DEF Safe

(* Leaving, with the key as it was or with it deleted by the last owner.   *)
LEMMA LeaveStep ==
  ASSUME Safe, TypeOK', NEW c \in Clients, Leave(c), now' = now,
         \/ UNCHANGED redis
         \/ value' = NoTime /\ c \in Owners
  PROVE  Safe'
<1> USE LockAssumption DEF Goto, Attempting
<1>1. /\ pc'[c] = "idle"
      /\ \A d \in Clients : d # c => /\ pc'[d] = pc[d] /\ since'[d] = since[d]
                                     /\ round'[d] = round[d]
                                     /\ redisValue'[d] = redisValue[d]
                                     /\ stealValue'[d] = stealValue[d]
                                     /\ seen'[d] = seen[d]
  BY DEF Leave, Safe, TypeOK
<1>2. value' = value \/ value' = NoTime
  BY DEF redis
<1>3. InTime'
  BY <1>1 DEF Safe, InTime, InAllowance
<1>4. Fresh'
  BY <1>1 DEF Safe, Fresh
<1>5. Restoring'
  BY <1>1, <1>2 DEF Safe, Restoring
<1>6. Racing'
  BY <1>1, <1>2 DEF Safe, Racing, Unmoved, Recent
<1>7. Owners' = Owners \ {c}
  BY <1>1 DEF Owners
<1>8. Single'
  BY <1>7 DEF Safe, Single
<1>9. Owned'
  <2> SUFFICES ASSUME NEW d \in Owners' PROVE
         /\ value' # NoTime
         /\ value' >= ReleasedBy(d)'
         /\ ttl' # NoTime => pc'[d] = "held" /\ ttl' = since'[d] + Expire
    BY DEF Owned
  <2>1. d \in Owners /\ d # c /\ d \in Clients
    BY <1>7 DEF Owners
  <2>2. UNCHANGED redis
    BY <2>1 DEF Safe, Single
  <2>3. ReleasedBy(d)' = ReleasedBy(d)
    BY <1>1, <2>1 DEF ReleasedBy
  <2>4. QED
    BY <1>1, <2>1, <2>2, <2>3 DEF redis, Safe, Owned
<1>10. QED
  BY <1>3, <1>4, <1>5, <1>6, <1>8, <1>9 DEF Safe

(* SETNX.                                                                  *)
LEMMA SetIfAbsentStep ==
  ASSUME Timely, Safe, TypeOK', NEW c \in Clients, SetIfAbsent(c)
  PROVE  Safe'
<1> USE LockAssumption DEF Goto, Attempting, NoTime
<1>1. /\ pc[c] = "setnx" /\ now' = now
      /\ since' = since /\ round' = round /\ seen' = seen
      /\ stealValue' = stealValue /\ redisValue' = redisValue
      /\ \A d \in Clients : d # c => pc'[d] = pc[d]
  BY DEF SetIfAbsent, locals, Safe, TypeOK
<1>2. /\ now \in Nat /\ value \in Nat
      /\ \A d \in Clients : since[d] \in Nat /\ round[d] \in Nat /\ seen[d] \in Nat
  BY Typed DEF Safe
<1>3. /\ since[c] <= round[c] /\ round[c] <= now /\ now <= since[c] + AttemptMax
      /\ redisValue[c] = since[c] + Expire
  BY <1>1 DEF Safe, InTime, InAllowance, Fresh
<1>4. ASSUME NEW d \in Clients, pc[d] \notin {"idle", "held"}
      PROVE  redisValue[c] + AttemptMax >= round[d] + Expire
  <2>1. round[d] <= now
    BY <1>4 DEF Safe, InTime
  <2>2. QED
    BY <2>1, <1>2, <1>3
<1>5. CASE value = NoTime /\ Store(redisValue[c]) /\ pc' = [pc EXCEPT ![c] = "expire"]
  <2>1. value' = redisValue[c] /\ ttl' = NoTime /\ pc'[c] = "expire" /\ Owners = {}
    BY <1>5 DEF Store, Safe, TypeOK, Owned
  <2>2. Owners' = {c}
    BY <1>1, <2>1 DEF Owners
  <2>3. InTime'
    BY <1>1, <2>1 DEF Safe, InTime, InAllowance
  <2>4. Fresh'
    BY <1>1, <2>1 DEF Safe, Fresh
  <2>5. Restoring'
    <3> SUFFICES ASSUME NEW d \in Clients, pc'[d] = "restore"
                 PROVE  /\ seen[d] # NoTime
                        /\ seen[d] + AttemptMax >= round[d] + Expire
                        /\ value' + (AttemptMax + RoundMax) >= round[d] + Expire
      BY <1>1 DEF Restoring
    <3>1. pc[d] = "restore" /\ d # c
      BY <1>1, <2>1
    <3>2. QED
      BY <3>1, <1>2, <1>3, <1>4, <2>1 DEF Safe, Restoring
  <2>6. Racing'
    <3>1. ASSUME NEW d \in Clients, pc[d] \notin {"idle", "held"} PROVE Recent(value', d)
      BY <1>4, <2>1, <3>1 DEF Recent
    <3>2. QED
      BY <1>1, <2>1, <3>1 DEF Safe, Racing, Unmoved, Recent
  <2>7. Owned'
    BY <1>1, <1>2, <1>3, <2>1, <2>2 DEF Owned, ReleasedBy, Timely
  <2>8. Single'
    BY <2>2 DEF Single
  <2>9. QED
    BY <2>3, <2>4, <2>5, <2>6, <2>7, <2>8 DEF Safe
<1>6. CASE value # NoTime /\ pc' = [pc EXCEPT ![c] = "get"] /\ UNCHANGED redis
  <2>1. value' = value /\ ttl' = ttl /\ pc'[c] = "get"
    BY <1>6 DEF redis, Safe, TypeOK
  <2>2. Owners' = Owners
    BY <1>1, <2>1 DEF Owners
  <2>3. InTime' /\ Fresh' /\ Restoring'
    BY <1>1, <2>1 DEF Safe, InTime, InAllowance, Fresh, Restoring
  <2>4. Racing'
    BY <1>1, <2>1 DEF Safe, Racing, Unmoved, Recent
  <2>5. Owned' /\ Single'
    BY <1>1, <2>1, <2>2 DEF Safe, Owned, Single, ReleasedBy, Owners
  <2>6. QED
    BY <2>3, <2>4, <2>5 DEF Safe
<1>7. QED
  BY <1>5, <1>6 DEF SetIfAbsent

(* EXPIRE: the client becomes the holder.                                  *)
LEMMA SetExpireStep ==
  ASSUME Timely, Safe, TypeOK', NEW c \in Clients, SetExpire(c)
  PROVE  Safe'
<1> USE LockAssumption DEF Goto, Attempting, NoTime
<1>1. /\ pc[c] = "expire" /\ pc'[c] = "held" /\ now' = now /\ value' = value
      /\ since'[c] = now /\ round' = round
      /\ seen' = seen /\ stealValue' = stealValue /\ redisValue' = redisValue
      /\ \A d \in Clients : d # c => pc'[d] = pc[d] /\ since'[d] = since[d]
                                     /\ round'[d] = round[d]
  BY DEF SetExpire, Safe, TypeOK
<1>2. /\ now \in Nat /\ value \in Nat
      /\ \A d \in Clients : since[d] \in Nat /\ round[d] \in Nat /\ seen[d] \in Nat
  BY Typed DEF Safe
<1>3. /\ since[c] <= now /\ now <= round[c] + RoundMax
      /\ value # NoTime /\ value >= round[c] + RoundMax + HoldMax
      /\ Owners = {c}
  BY <1>1 DEF Safe, InTime, InAllowance, Owned, ReleasedBy, Owners, Single
<1>4. ttl' = now + Expire
  BY <1>3 DEF SetExpire
<1>5. InTime'
  BY <1>1, <1>2 DEF Safe, InTime, InAllowance
<1>6. Fresh'
  BY <1>1 DEF Safe, Fresh
<1>7. Restoring'
  BY <1>1 DEF Safe, Restoring
<1>8. Racing'
  BY <1>1 DEF Safe, Racing, Unmoved, Recent
<1>9. Owners' = {c}
  <2>1. \A d \in Clients : d # c => pc[d] \notin {"expire", "held"}
    BY <1>3 DEF Owners
  <2>2. QED
    BY <1>1, <2>1 DEF Owners
<1>10. Owned'
  BY <1>1, <1>2, <1>3, <1>4, <1>9 DEF Owned, ReleasedBy
<1>11. Single'
  BY <1>9 DEF Single
<1>12. QED
  BY <1>5, <1>6, <1>7, <1>8, <1>10, <1>11 DEF Safe

(* GET: while some client still has a value to put back, no expired value  *)
(* can be read.                                                            *)
LEMMA GetStep ==
  ASSUME Timely, Safe, TypeOK', NEW c \in Clients, Get(c)
  PROVE  Safe'
<1> USE LockAssumption DEF Goto, Attempting, NoTime, redis
<1>1. /\ pc[c] = "get" /\ pc'[c] = "check" /\ now' = now /\ value' = value /\ ttl' = ttl
      /\ seen'[c] = value
      /\ since' = since /\ round' = round
      /\ stealValue' = stealValue /\ redisValue' = redisValue
      /\ \A d \in Clients : d # c => pc'[d] = pc[d] /\ seen'[d] = seen[d]
  BY DEF Get, Safe, TypeOK
<1>2. /\ now \in Nat /\ value \in Nat
      /\ \A d \in Clients : since[d] \in Nat /\ round[d] \in Nat /\ seen[d] \in Nat
  BY Typed DEF Safe
<1>3. InTime'
  BY <1>1 DEF Safe, InTime, InAllowance
<1>4. Fresh'
  BY <1>1 DEF Safe, Fresh
<1>5. Restoring'
  BY <1>1 DEF Safe, Restoring
<1>6. Racing'
  <2>1. ASSUME NEW d \in Clients, d # c
        PROVE  /\ pc'[d] = "check" =>
                    seen'[d] = NoTime \/ seen'[d] >= round'[d] + RoundMax \/ Unmoved(d)'
               /\ pc'[d] = "getset" => Unmoved(d)'
    BY <1>1, <2>1 DEF Safe, Racing, Unmoved, Recent
  <2>2. seen'[c] = NoTime \/ seen'[c] >= round'[c] + RoundMax \/ Unmoved(c)'
    <3>1. CASE \E e \in Clients : pc[e] = "restore"
      <4>1. PICK e \in Clients : pc[e] = "restore"
        BY <3>1
      <4>2. value = NoTime \/ value + (AttemptMax + RoundMax) >= round[e] + Expire
        BY <4>1 DEF Safe, Restoring
      <4>3. now <= round[e] + RoundMax /\ round[c] <= now
        BY <4>1, <1>1 DEF Safe, InTime, InAllowance
      <4>4. value = NoTime \/ value >= round[c] + RoundMax
        BY <4>2, <4>3, <1>2 DEF Timely
      <4>5. QED
        BY <4>4, <1>1
    <3>2. CASE \A e \in Clients : pc[e] # "restore"
      BY <3>2, <1>1 DEF Unmoved, Recent
    <3>3. QED
      BY <3>1, <3>2
  <2>3. QED
    BY <2>1, <2>2, <1>1 DEF Racing
<1>7. Owners' = Owners
  BY <1>1 DEF Owners
<1>8. Owned' /\ Single'
  BY <1>1, <1>7 DEF Safe, Owned, Single, ReleasedBy, Owners
<1>9. QED
  BY <1>3, <1>4, <1>5, <1>6, <1>8 DEF Safe

(* The test of the value that was read.                                    *)
LEMMA CheckStep ==
  ASSUME Timely, Safe, TypeOK', NEW c \in Clients, Check(c)
  PROVE  Safe'
<1> USE LockAssumption DEF Goto, Attempting, NoTime, redis
<1>1. /\ pc[c] = "check" /\ now' = now /\ value' = value /\ ttl' = ttl
      /\ since' = since /\ round' = round
      /\ seen' = seen /\ redisValue' = redisValue
      /\ \A d \in Clients : d # c => pc'[d] = pc[d] /\ stealValue'[d] = stealValue[d]
      /\ \/ /\ pc'[c] = "getset" /\ stealValue'[c] = now + Expire
            /\ seen[c] # NoTime /\ seen[c] < now
         \/ pc'[c] = "sleep"
  BY DEF Check, Safe, TypeOK
<1>2. /\ now \in Nat /\ value \in Nat
      /\ \A d \in Clients : since[d] \in Nat /\ round[d] \in Nat /\ seen[d] \in Nat
  BY Typed DEF Safe
<1>3. round[c] <= now /\ now <= round[c] + RoundMax
  BY <1>1 DEF Safe, InTime, InAllowance
<1>4. InTime'
  BY <1>1 DEF Safe, InTime, InAllowance
<1>5. Fresh'
  BY <1>1, <1>2, <1>3 DEF Safe, Fresh
<1>6. Restoring'
  BY <1>1 DEF Safe, Restoring
<1>7. Racing'
  <2>1. pc'[c] = "getset" => Unmoved(c)
    BY <1>1, <1>2, <1>3 DEF Safe, Racing
  <2>2. \A d \in Clients : Unmoved(d) => Unmoved(d)'
    BY <1>1 DEF Unmoved, Recent
  <2>3. QED
    BY <2>1, <2>2, <1>1 DEF Safe, Racing
<1>8. Owners' = Owners
  BY <1>1 DEF Owners
<1>9. Owned' /\ Single'
  BY <1>1, <1>8 DEF Safe, Owned, Single, ReleasedBy, Owners
<1>10. QED
  BY <1>4, <1>5, <1>6, <1>7, <1>9 DEF Safe

(* GETSET: nobody takes a lock over from its owner, and what is written    *)
(* over the owner's value lives long enough for it.                        *)
LEMMA GetAndSetStep ==
  ASSUME Timely, Safe, TypeOK', NEW c \in Clients, GetAndSet(c)
  PROVE  Safe'
<1> USE LockAssumption DEF Goto, Attempting, NoTime
<1>1. /\ pc[c] = "getset" /\ now' = now /\ value' = stealValue[c] /\ ttl' = NoTime
      /\ pc'[c] \in {"idle", "expire", "restore"}
      /\ pc'[c] # "idle" => /\ since'[c] = since[c] /\ round'[c] = round[c]
                         /\ redisValue'[c] = redisValue[c]
      /\ \A d \in Clients : d # c => /\ pc'[d] = pc[d] /\ since'[d] = since[d]
                                     /\ round'[d] = round[d]
                                     /\ redisValue'[d] = redisValue[d]
                                     /\ stealValue'[d] = stealValue[d]
                                     /\ seen'[d] = seen[d]
  BY DEF GetAndSet, Leave, Store, locals, Safe, TypeOK
<1>2. /\ now \in Nat /\ value \in Nat
      /\ \A d \in Clients : since[d] \in Nat /\ round[d] \in Nat /\ seen[d] \in Nat /\ stealValue[d] \in Nat
  BY Typed DEF Safe
<1>3. /\ since[c] <= round[c] /\ round[c] <= now
      /\ now <= since[c] + AttemptMax /\ now <= round[c] + RoundMax
      /\ stealValue[c] >= round[c] + Expire
      /\ seen[c] < now
      /\ Unmoved(c)
  BY <1>1 DEF Safe, InTime, InAllowance, Fresh, Racing
<1>4. /\ pc'[c] = "idle" => value = NoTime
      /\ pc'[c] = "expire" => value = seen[c] /\ value # NoTime
      /\ pc'[c] = "restore" => value # seen[c] /\ value # NoTime /\ seen'[c] = value
  BY <1>1 DEF GetAndSet, Leave, locals, Safe, TypeOK
<1>5. ASSUME NEW d \in Clients, pc[d] \notin {"idle", "held"}
      PROVE  stealValue[c] + AttemptMax >= round[d] + Expire
  <2>1. round[d] <= now
    BY <1>5 DEF Safe, InTime
  <2>2. QED
    BY <2>1, <1>2, <1>3
<1>6. ASSUME NEW d \in Owners
      PROVE  /\ d \in Clients /\ d # c
             /\ value # NoTime /\ value >= now
             /\ stealValue[c] >= ReleasedBy(d)
  <2>1. d \in Clients /\ d # c /\ pc[d] \in {"expire", "held"}
    BY <1>1, <1>6 DEF Owners
  <2>2. /\ pc[d] = "held" => since[d] <= now /\ now <= since[d] + HoldMax
        /\ pc[d] = "expire" => round[d] <= now /\ now <= round[d] + RoundMax
    BY <2>1 DEF Safe, InTime, InAllowance
  <2>3. value # NoTime /\ value >= ReleasedBy(d)
    BY DEF Safe, Owned
  <2>4. now <= ReleasedBy(d) /\ ReleasedBy(d) <= now + (RoundMax + HoldMax)
    BY <2>1, <2>2, <1>2 DEF ReleasedBy
  <2>5. ReleasedBy(d) \in Nat
    BY <1>2, <2>1 DEF ReleasedBy
  <2>6. QED
    BY <2>1, <2>3, <2>4, <2>5, <1>2, <1>3 DEF Timely
<1>7. pc'[c] \in {"idle", "expire"} => Owners = {}
  BY <1>2, <1>3, <1>4, <1>6
<1>8. Owners' = IF pc'[c] = "expire" THEN {c} ELSE Owners
  <2>1. CASE pc'[c] = "expire"
    <3>1. \A d \in Clients : pc[d] \notin {"expire", "held"}
      BY <2>1, <1>7 DEF Owners
    <3>2. QED
      BY <3>1, <2>1, <1>1 DEF Owners
  <2>2. CASE pc'[c] # "expire"
    BY <2>2, <1>1 DEF Owners
  <2>3. QED
    BY <2>1, <2>2
<1>9. InTime'
  BY <1>1 DEF Safe, InTime, InAllowance
<1>10. Fresh'
  BY <1>1 DEF Safe, Fresh
<1>11. Restoring'
  <2> SUFFICES ASSUME NEW d \in Clients, pc'[d] = "restore"
               PROVE  /\ seen'[d] # NoTime
                      /\ seen'[d] + AttemptMax >= round'[d] + Expire
                      /\ value' + (AttemptMax + RoundMax) >= round'[d] + Expire
    BY DEF Restoring
  <2>1. CASE d = c
    <3>1. value + AttemptMax >= round[c] + Expire
      BY <2>1, <1>3, <1>4 DEF Unmoved, Recent
    <3>2. QED
      BY <2>1, <3>1, <1>1, <1>2, <1>3, <1>4
  <2>2. CASE d # c
    BY <2>2, <1>1, <1>2, <1>5 DEF Safe, Restoring
  <2>3. QED
    BY <2>1, <2>2
<1>12. Racing'
  <2> SUFFICES ASSUME NEW d \in Clients, pc'[d] \in {"check", "getset"}, Unmoved(d)
               PROVE  Unmoved(d)'
    BY <1>1 DEF Safe, Racing
  <2>1. d # c /\ pc[d] \in {"check", "getset"} /\ round'[d] = round[d] /\ seen'[d] = seen[d]
    BY <1>1
  <2>2. Recent(value, d)' /\ (pc'[c] = "restore" => Recent(seen[c], d)')
    BY <2>1, <1>1, <1>4, <1>5 DEF Unmoved, Recent
  <2>3. ASSUME NEW e \in Clients, e # c, pc'[e] = "restore"
        PROVE  Recent(seen[e], d)'
    BY <2>1, <2>3, <1>1 DEF Unmoved, Recent
  <2>4. QED
    BY <2>2, <2>3 DEF Unmoved
<1>13. Owned'
  <2>1. stealValue[c] >= round[c] + (RoundMax + HoldMax) /\ stealValue[c] # NoTime
    BY <1>2, <1>3 DEF Timely
  <2>2. CASE pc'[c] = "expire"
    BY <2>1, <2>2, <1>1, <1>2, <1>8 DEF Owned, ReleasedBy
  <2>3. CASE pc'[c] # "expire"
    <3>1. \A d \in Owners : ReleasedBy(d)' = ReleasedBy(d)
      BY <1>1, <1>6 DEF ReleasedBy
    <3>2. QED
      BY <2>1, <2>3, <3>1, <1>1, <1>6, <1>8 DEF Owned
  <2>4. QED
    BY <2>2, <2>3
<1>14. Single'
  BY <1>8 DEF Safe, Single
<1>15. QED
  BY <1>9, <1>10, <1>11, <1>12, <1>13, <1>14 DEF Safe

(* SET: the value that is put back is young enough for whoever owns the    *)
(* lock by now.                                                            *)
LEMMA RestoreStep ==
  ASSUME Timely, Safe, TypeOK', NEW c \in Clients, Restore(c)
  PROVE  Safe'
<1> USE LockAssumption DEF Goto, Attempting, NoTime
<1>1. /\ pc[c] = "restore" /\ pc'[c] = "sleep" /\ now' = now
      /\ value' = seen[c] /\ ttl' = NoTime
      /\ since' = since /\ round' = round /\ seen' = seen
      /\ stealValue' = stealValue /\ redisValue' = redisValue
      /\ \A d \in Clients : d # c => pc'[d] = pc[d]
  BY DEF Restore, Store, locals, Safe, TypeOK
<1>2. /\ now \in Nat /\ value \in Nat
      /\ \A d \in Clients : since[d] \in Nat /\ round[d] \in Nat /\ seen[d] \in Nat
  BY Typed DEF Safe
<1>3. /\ round[c] <= now /\ now <= round[c] + RoundMax
      /\ seen[c] # NoTime /\ seen[c] + AttemptMax >= round[c] + Expire
  BY <1>1 DEF Safe, InTime, InAllowance, Restoring
<1>4. InTime'
  BY <1>1 DEF Safe, InTime, InAllowance
<1>5. Fresh'
  BY <1>1 DEF Safe, Fresh
<1>6. Restoring'
  <2> SUFFICES ASSUME NEW d \in Clients, pc'[d] = "restore"
               PROVE  /\ seen[d] # NoTime
                      /\ seen[d] + AttemptMax >= round[d] + Expire
                      /\ seen[c] + (AttemptMax + RoundMax) >= round[d] + Expire
    BY <1>1 DEF Restoring
  <2>1. pc[d] = "restore" /\ round[d] <= now
    BY <1>1 DEF Safe, InTime
  <2>2. QED
    BY <2>1, <1>2, <1>3 DEF Safe, Restoring
<1>7. Racing'
  <2>1. \A d \in Clients : Unmoved(d) => Unmoved(d)'
    BY <1>1 DEF Unmoved, Recent
  <2>2. QED
    BY <2>1, <1>1 DEF Safe, Racing
<1>8. Owners' = Owners
  BY <1>1 DEF Owners
<1>9. Single'
  BY <1>8 DEF Safe, Single
<1>10. Owned'
  <2> SUFFICES ASSUME NEW d \in Owners
               PROVE  seen[c] # NoTime /\ seen[c] >= ReleasedBy(d)'
    BY <1>1, <1>8 DEF Owned
  <2>1. d \in Clients /\ d # c /\ pc[d] \in {"expire", "held"} /\ pc'[d] = pc[d]
    BY <1>1 DEF Owners
  <2>2. /\ pc[d] = "held" => since[d] <= now
        /\ pc[d] = "expire" => round[d] <= now
    BY <2>1 DEF Safe, InTime
  <2>3. ReleasedBy(d)' <= now + (RoundMax + HoldMax) /\ ReleasedBy(d)' \in Nat
    BY <2>1, <2>2, <1>1, <1>2 DEF ReleasedBy
  <2>4. QED
    BY <2>1, <2>3, <1>2, <1>3 DEF Timely
<1>11. QED
  BY <1>4, <1>5, <1>6, <1>7, <1>9, <1>10 DEF Safe

(* The end of a round.                                                     *)
LEMMA WakeStep ==
  ASSUME Safe, TypeOK', NEW c \in Clients, Wake(c)
  PROVE  Safe'
<1> USE LockAssumption DEF Goto, Attempting, NoTime, redis
<1>1. CASE Leave(c)
  BY <1>1, LeaveStep DEF Wake
<1>2. CASE ~Leave(c)
  <2>1. /\ pc[c] = "sleep" /\ pc'[c] = "setnx" /\ now' = now /\ value' = value /\ ttl' = ttl
        /\ since' = since /\ round'[c] = now /\ redisValue' = redisValue
        /\ \A d \in Clients : d # c => /\ pc'[d] = pc[d]
                                       /\ round'[d] = round[d]
                                       /\ stealValue'[d] = stealValue[d]
                                       /\ seen'[d] = seen[d]
    BY <1>2 DEF Wake, Safe, TypeOK
  <2>2. /\ now \in Nat /\ since[c] <= now /\ now <= since[c] + AttemptMax
        /\ RoundMax \in Nat
    BY <2>1, Typed DEF Safe, InTime, InAllowance
  <2>3. InTime'
    BY <2>1, <2>2 DEF Safe, InTime, InAllowance
  <2>4. Fresh' /\ Restoring'
    BY <2>1 DEF Safe, Fresh, Restoring
  <2>5. Racing'
    BY <2>1 DEF Safe, Racing, Unmoved, Recent
  <2>6. Owners' = Owners
    BY <2>1 DEF Owners
  <2>7. Owned' /\ Single'
    BY <2>1, <2>6 DEF Safe, Owned, Single, ReleasedBy, Owners
  <2>8. QED
    BY <2>3, <2>4, <2>5, <2>7 DEF Safe
<1>3. QED
  BY <1>1, <1>2

(* Time: nothing an owner relies on is over before the owner is done.      *)
LEMMA TickStep ==
  ASSUME Timely, Safe, TypeOK', Tick, overruns' = overruns
  PROVE  Safe'
<1> USE LockAssumption DEF Attempting, NoTime, redis
<1>1. /\ now' = now + 1 /\ pc' = pc /\ since' = since /\ round' = round /\ seen' = seen
      /\ stealValue' = stealValue /\ redisValue' = redisValue
      /\ \A d \in Clients : InAllowance(d)'
      /\ \/ value' = value /\ ttl' = ttl
         \/ value' = NoTime /\ ttl # NoTime /\ ttl <= now'
  <2>1. overruns' # overruns + 1
    BY DEF Safe, TypeOK
  <2>2. QED
    BY <2>1 DEF Tick, locals, Store
<1>2. /\ now \in Nat /\ value \in Nat /\ ttl \in Nat
      /\ \A d \in Clients : since[d] \in Nat /\ round[d] \in Nat /\ seen[d] \in Nat
  BY Typed DEF Safe
<1>3. InTime'
  BY <1>1, <1>2 DEF Safe, InTime
<1>4. Fresh'
  BY <1>1, <1>2 DEF Safe, Fresh
<1>5. Restoring'
  BY <1>1 DEF Safe, Restoring
<1>6. Racing'
  BY <1>1 DEF Safe, Racing, Unmoved, Recent
<1>7. Owners' = Owners
  BY <1>1 DEF Owners
<1>8. Single'
  BY <1>7 DEF Safe, Single
<1>9. Owned'
  <2> SUFFICES ASSUME NEW d \in Owners
               PROVE  /\ value' # NoTime /\ value' >= ReleasedBy(d)'
                      /\ ttl' # NoTime => pc'[d] = "held" /\ ttl' = since'[d] + Expire
    BY <1>7 DEF Owned
  <2>1. d \in Clients /\ ReleasedBy(d)' = ReleasedBy(d)
    BY <1>1 DEF Owners, ReleasedBy
  <2>2. ~(ttl # NoTime /\ ttl <= now')
    <3> SUFFICES ASSUME ttl # NoTime PROVE ttl > now + 1
      BY <1>1, <1>2
    <3>1. pc[d] = "held" /\ ttl = since[d] + Expire
      BY DEF Safe, Owned
    <3>2. now + 1 <= since[d] + HoldMax
      BY <3>1, <2>1, <1>1 DEF InAllowance
    <3>3. QED
      BY <3>1, <3>2, <2>1, <1>2 DEF Timely
  <2>3. value' = value /\ ttl' = ttl
    BY <2>2, <1>1
  <2>4. QED
    BY <2>1, <2>3, <1>1 DEF Safe, Owned
<1>10. QED
  BY <1>3, <1>4, <1>5, <1>6, <1>8, <1>9 DEF Safe

(* One step of a client, of Redis or of time.                              *)
LEMMA NextIInv ==
  ASSUME Timely, IInv, [Next]_vars
  PROVE  IInv'
<1>1. TypeOK'
  BY TypeStep DEF IInv
<1> SUFFICES ASSUME overruns' = 0 PROVE Safe'
  BY <1>1 DEF IInv
<1>0. Safe /\ overruns = 0
  <2>1. overruns \in Nat /\ (overruns' = overruns \/ overruns' = overruns + 1)
    BY LockAssumption
       DEF IInv, TypeOK, Next, Step, vars, history, Begin, SetIfAbsent, SetExpire, Get,
           Check, GetAndSet, Restore, Wake, Unlock, Crash, Tick
  <2>2. QED
    BY <2>1 DEF IInv
<1>2. ASSUME NEW c \in Clients, Begin(c)
      PROVE  Safe'
  BY <1>0, <1>1, <1>2, BeginStep
<1>3. ASSUME NEW c \in Clients, Step(c)
      PROVE  Safe'
  <2>1. CASE SetIfAbsent(c)
    BY <2>1, <1>0, <1>1, SetIfAbsentStep
  <2>2. CASE SetExpire(c)
    BY <2>2, <1>0, <1>1, SetExpireStep
  <2>3. CASE Get(c)
    BY <2>3, <1>0, <1>1, GetStep
  <2>4. CASE Check(c)
    BY <2>4, <1>0, <1>1, CheckStep
  <2>5. CASE GetAndSet(c)
    BY <2>5, <1>0, <1>1, GetAndSetStep
  <2>6. CASE Restore(c)
    BY <2>6, <1>0, <1>1, RestoreStep
  <2>7. CASE Wake(c)
    BY <2>7, <1>0, <1>1, WakeStep
  <2>8. CASE Unlock(c)
    <3>1. c \in Owners /\ value' = NoTime /\ Leave(c) /\ now' = now
      BY <2>8 DEF Unlock, Owners, Store
    <3>2. QED
      BY <3>1, <1>0, <1>1, LeaveStep
  <2>9. QED
    BY <1>3, <2>1, <2>2, <2>3, <2>4, <2>5, <2>6, <2>7, <2>8 DEF Step
<1>4. ASSUME NEW c \in Clients, Crash(c)
      PROVE  Safe'
  BY <1>4, <1>0, <1>1, LeaveStep DEF Crash
<1>5. CASE Tick
  BY <1>5, <1>0, <1>1, TickStep
<1>6. CASE UNCHANGED vars
  BY <1>6, <1>0, <1>1
     DEF vars, redis, locals, Safe, InTime, InAllowance, Fresh, Attempting, Restoring, Racing,
         Unmoved, Recent, Owned, Owners, ReleasedBy, Single
<1>7. QED
  BY <1>2, <1>3, <1>4, <1>5, <1>6 DEF Next

-----------------------------------------------------------------------------
(* The type invariant, for every choice of the constants.                  *)
THEOREM RedisLockType == Spec => []TypeOK
<1>1. Init => TypeOK
  BY InitSafe DEF Safe
<1>2. TypeOK /\ [Next]_vars => TypeOK'
  BY TypeStep
<1>3. QED
  BY <1>1, <1>2, PTL DEF Spec

(* The inductive invariant of the SETNX / GETSET protocol.                 *)
THEOREM RedisLockInvariant ==
  ASSUME Timely
  PROVE  Spec => []IInv
<1>1. Init => IInv
  BY InitSafe DEF IInv, Safe
<1>2. IInv /\ [Next]_vars => IInv'
  BY NextIInv
<1>3. QED
  BY <1>1, <1>2, PTL DEF Spec

(* lock() gives the lock to one client at a time until somebody overruns,  *)
(* whatever crashes and however many clients race for an expired lock.     *)
THEOREM RedisLockMutualExclusion ==
  ASSUME Timely
  PROVE  Spec => []MutualExclusion
<1>1. IInv => MutualExclusion
  <2> SUFFICES ASSUME Safe PROVE Cardinality(Owners) <= 1
    BY DEF IInv, MutualExclusion
  <2>1. CASE Owners = {}
    <3>1. Cardinality(Owners) = 0
      BY <2>1, FS_EmptySet
    <3>2. QED
      BY <3>1
  <2>2. CASE Owners # {}
    <3>1. PICK c : c \in Owners
      BY <2>2
    <3>2. Owners = {c}
      BY <3>1 DEF Safe, Single
    <3>3. Cardinality(Owners) = 1
      BY <3>2, FS_Singleton
    <3>4. QED
      BY <3>3
  <2>3. QED
    BY <2>1, <2>2
<1>2. QED
  BY <1>1, RedisLockInvariant, PTL

(* Until its unlock(), an owner's key is in Redis with a value that is not *)
(* over, whatever the losers of a race put back.                           *)
THEOREM RedisLockOwnerKeepsKey ==
  ASSUME Timely
  PROVE  Spec => []OwnerKeepsKey
<1>1. IInv => OwnerKeepsKey
  <2> SUFFICES ASSUME Safe, NEW c \in Owners PROVE value # NoTime /\ value >= now
    BY DEF IInv, OwnerKeepsKey
  <2>1. c \in Clients /\ pc[c] \in {"expire", "held"}
    BY DEF Owners
  <2>2. value # NoTime /\ value >= ReleasedBy(c)
    BY DEF Safe, Owned
  <2>3. IF pc[c] = "held" THEN now <= since[c] + HoldMax ELSE now <= round[c] + RoundMax
    BY <2>1 DEF Safe, InTime, InAllowance
  <2>4. /\ now \in Nat /\ value \in Nat /\ since[c] \in Nat /\ round[c] \in Nat
        /\ RoundMax \in Nat /\ HoldMax \in Nat
    BY <2>1, Typed, LockAssumption DEF Safe
  <2>5. QED
    BY <2>2, <2>3, <2>4 DEF ReleasedBy
<1>2. QED
  BY <1>1, RedisLockInvariant, PTL

(* Nothing a client keeps or writes lies further ahead than Expire.        *)
Ahead ==
  /\ value <= now + Expire
  /\ \A c \in Clients : /\ redisValue[c] <= now + Expire
                        /\ stealValue[c] <= now + Expire
                        /\ seen[c] <= now + Expire

(* A lock never blocks its key for longer than lockExpirseTimeout from     *)
(* now, without any assumption on how long clients take.                   *)
THEOREM RedisLockBoundedLease == Spec => []BoundedLease
<1> USE LockAssumption DEF NoTime
<1>1. Init => Ahead
  BY DEF Init, Ahead
<1>2. TypeOK /\ TypeOK' /\ Ahead /\ [Next]_vars => Ahead'
  <2> SUFFICES ASSUME TypeOK, TypeOK', Ahead, [Next]_vars PROVE Ahead'
    OBVIOUS
  <2>1. /\ now \in Nat /\ value \in Nat
        /\ \A d \in Clients : seen[d] \in Nat /\ stealValue[d] \in Nat /\ redisValue[d] \in Nat
    BY Typed
  <2>2. ASSUME NEW c \in Clients, Begin(c)
        PROVE  Ahead'
    BY <2>1, <2>2 DEF Ahead, Begin, TypeOK, redis
  <2>3. ASSUME NEW c \in Clients, Leave(c), now' = now, value' <= now + Expire
        PROVE  Ahead'
    BY <2>1, <2>3 DEF Ahead, Leave, TypeOK
  <2>4. ASSUME NEW c \in Clients, Step(c)
        PROVE  Ahead'
    <3>1. CASE SetIfAbsent(c) \/ SetExpire(c) \/ Restore(c)
      BY <3>1, <2>1 DEF SetIfAbsent, SetExpire, Restore, Store, Ahead, redis, locals
    <3>2. CASE Get(c)
      BY <3>2, <2>1 DEF Get, Ahead, redis, TypeOK
    <3>3. CASE Check(c)
      <4>1. /\ now' = now /\ value' = value /\ seen' = seen /\ redisValue' = redisValue
            /\ \A d \in Clients : stealValue'[d] \in {stealValue[d], now + Expire}
        BY <3>3 DEF Check, redis, TypeOK
      <4>2. QED
        BY <4>1, <2>1 DEF Ahead
    <3>4. CASE GetAndSet(c)
      <4>1. now' = now /\ value' = stealValue[c]
        BY <3>4 DEF GetAndSet, Store
      <4>2. CASE Leave(c)
        BY <4>1, <4>2, <2>3 DEF Ahead
      <4>3. CASE ~Leave(c)
        BY <4>1, <4>3, <3>4, <2>1 DEF GetAndSet, Ahead, locals, TypeOK
      <4>4. QED
        BY <4>2, <4>3
    <3>5. CASE Wake(c)
      <4>1. now' = now /\ value' = value
        BY <3>5 DEF Wake, redis
      <4>2. CASE Leave(c)
        BY <4>1, <4>2, <2>3 DEF Ahead
      <4>3. CASE ~Leave(c)
        BY <4>1, <4>3, <3>5, <2>1 DEF Wake, Ahead, TypeOK
      <4>4. QED
        BY <4>2, <4>3
    <3>6. CASE Unlock(c)
      BY <3>6, <2>1, <2>3 DEF Unlock, Store
    <3>7. QED
      BY <2>4, <3>1, <3>2, <3>3, <3>4, <3>5, <3>6 DEF Step
  <2>5. ASSUME NEW c \in Clients, Crash(c)
        PROVE  Ahead'
    BY <2>5, <2>3 DEF Crash, redis, Ahead
  <2>6. CASE Tick
    BY <2>6, <2>1 DEF Tick, Store, Ahead, redis, locals
  <2>7. CASE UNCHANGED vars
    BY <2>7 DEF vars, Ahead, redis, locals
  <2>8. QED
    BY <2>2, <2>4, <2>5, <2>6, <2>7 DEF Next
<1>3. Ahead => BoundedLease
  BY DEF Ahead, BoundedLease
<1>4. QED
  BY <1>1, <1>2, <1>3, RedisLockType, PTL DEF Spec
=============================================================================
