------------------------------- MODULE Kickout -------------------------------
(***************************************************************************)
(* KickoutSessionControlFilter of spring-boot-starter-shiro on several     *)
(* nodes: the sessions of one account, the deque of session ids that the   *)
(* nodes share through the Redis cache, and the requests that read, change *)
(* and write it without synchronization ("TODO").  The kickout attribute   *)
(* is part of the session, which SpringShiroSessionDAO saves in Redis and  *)
(* caches in the memory of every node that reads it, for timeToLiveSeconds.*)
(* One step here are: a read with its save and caching, a setter with its  *)
(* update, stop() with its delete; ShiroSession takes them apart.          *)
(***************************************************************************)
EXTENDS Naturals, Sequences, FiniteSets, SequencesExt

CONSTANTS
  Nodes,         \* application servers
  Sessions,      \* sessions that log in to the account
  Threads,       \* how many requests run at a time
  TimeToLive,    \* timeToLiveSeconds, in ticks
  MaxSessions    \* the settings of maxSession that are considered

ASSUME KickoutAssumption ==
  /\ IsFiniteSet(Sessions)
  /\ TimeToLive \in Nat
  /\ MaxSessions \subseteq Nat

NoSession == "no session"
NoNode == "no node"

VARIABLES
  maxSession,    \* KickoutProperties: how many sessions an account may have,
  kickoutAfter,  \* and whether the later ones are kicked out; never changed
  cache,     \* the deque in Redis, the first element first
  redis,     \* redis[s]: the session in Redis: "new" (nobody has logged in),
             \* "live", "kicked" (it has the attribute) or "gone"
  copy,      \* copy[n][s]: the session in n's memory, or "none" if there is
             \* none that is still used,
  age,       \* age[n][s]: how long ago n read it
  pc,        \* pc[t]: where the request is in onAccessDenied, or "serve"
  node,      \* node[t], session[t]: where it runs, whose request it is
  session,
  mine,      \* mine[t]: the session object it has: the one "cached" in the
             \* node's memory, or the state of one that no longer is there
  deque,     \* deque[t]: its deserialized copy
  since,     \* history: since[s], the sessions that have entered a deque since
             \* s last did,
  outAge,    \* for how long redis[s] has been "kicked" or "gone",
  working,   \* the sessions let through, and neither kicked out nor gone,
  disturbed  \* whether requests have overlapped, or the copy that a request
             \* works on ran out meanwhile

settings == <<maxSession, kickoutAfter>>
memory == <<copy, age>>
store == <<redis, outAge, working>>
request == <<node, session>>
vars == <<settings, cache, memory, store, pc, request, mine, deque, since, disturbed>>

Init ==
  /\ maxSession \in MaxSessions
  /\ kickoutAfter \in BOOLEAN
  /\ cache = <<>>
  /\ redis = [s \in Sessions |-> "new"]
  /\ copy = [n \in Nodes |-> [s \in Sessions |-> "none"]]
  /\ age = [n \in Nodes |-> [s \in Sessions |-> 0]]
  /\ pc = [t \in Threads |-> "idle"]
  /\ node = [t \in Threads |-> NoNode]
  /\ session = [t \in Threads |-> NoSession]
  /\ mine = [t \in Threads |-> "none"]
  /\ deque = [t \in Threads |-> <<>>]
  /\ since = [s \in Sessions |-> {}]
  /\ outAge = [s \in Sessions |-> 0]
  /\ working = {}
  /\ disturbed = FALSE

Goto(t, label) == pc' = [pc EXCEPT ![t] = label]
Saturate(a) == IF a > TimeToLive THEN a ELSE a + 1
Out == {"kicked", "gone"}

(* The attribute as the request sees it: in the object it has read.        *)
View(t) == IF mine[t] = "cached" THEN copy[node[t]][session[t]] ELSE mine[t]

(* cacheSession and doReadSession: a node finds the session in its memory  *)
(* or in Redis, and reads it from there.                                   *)
Found(n, s) == copy[n][s] # "none" \/ redis[s] \in {"live", "kicked"}
Read(n, s) == IF copy[n][s] # "none" THEN copy[n][s] ELSE redis[s]

(* saveSession, or the delete of a session that is stopped.                *)
Save(s, c) ==
  /\ redis' = [redis EXCEPT ![s] = c]
  /\ outAge' = [outAge EXCEPT ![s] = IF c \in Out THEN @ ELSE 0]

(* delete: the session leaves the node's memory and Redis.                 *)
Delete(n, s) ==
  /\ Save(s, "gone")
  /\ copy' = [copy EXCEPT ![n][s] = "none"]
  /\ age' = [age EXCEPT ![n][s] = 0]
  /\ working' = working \ {s}

(* The objects of the requests when n's memory no longer has that of s,    *)
(* which is in state c.                                                    *)
Left(n, s, c) ==
  [t \in Threads |->
     IF mine[t] = "cached" /\ node[t] = n /\ session[t] = s THEN c ELSE mine[t]]

(* The request is over.                                                    *)
Finish(t, others) ==
  /\ Goto(t, "idle")
  /\ node' = [node EXCEPT ![t] = NoNode]
  /\ session' = [session EXCEPT ![t] = NoSession]
  /\ deque' = [deque EXCEPT ![t] = <<>>]
  /\ mine' = [others EXCEPT ![t] = "none"]

(* History: a request begins while another runs.                           *)
Overlap ==
  disturbed' = (disturbed \/ \E t \in Threads : pc[t] # "idle")

(* History: s enters a deque.                                              *)
Since(s) == [u \in Sessions |-> IF u = s THEN {} ELSE since[u] \cup {s}]

-----------------------------------------------------------------------------
(* Subject.login.  The object that doCreate caches has no principals and   *)
(* is by-passed (line 56): the next request reads the session from Redis.  *)
Login(s) ==
  /\ redis[s] = "new"
  /\ Save(s, "live")
  /\ UNCHANGED <<settings, cache, memory, working, pc, request, mine, deque, since, disturbed>>

(* Redis drops the key at the end of the session timeout.                  *)
Expire(s) ==
  /\ redis[s] \in {"live", "kicked"}
  /\ Save(s, "gone")
  /\ working' = working \ {s}
  /\ UNCHANGED <<settings, cache, memory, pc, request, mine, deque, since, disturbed>>

(* LogoutFilter on node n stops the session.  It does not know the deque.  *)
Logout(n, s) ==
  /\ Found(n, s)
  /\ Delete(n, s)
  /\ mine' = Left(n, s, "stopped")
  /\ Overlap
  /\ UNCHANGED <<settings, cache, pc, request, deque, since>>

-----------------------------------------------------------------------------
(* A request of s on node n: its session is read, and the account's deque. *)
GetDeque(t, n, s) ==
  /\ pc[t] = "idle"
  /\ Found(n, s)
  /\ copy' = [copy EXCEPT ![n][s] = Read(n, s)]
  /\ mine' = [mine EXCEPT ![t] = "cached"]
  /\ node' = [node EXCEPT ![t] = n]
  /\ session' = [session EXCEPT ![t] = s]
  /\ deque' = [deque EXCEPT ![t] = cache]
  /\ Goto(t, "push")
  /\ Overlap
  /\ UNCHANGED <<settings, cache, age, store, since>>

(* Mutant: the id of a session that is stopped is null.                    *)
PushNull(t) ==
  /\ pc[t] = "push"
  /\ LET s == IF View(t) = "stopped" THEN NoSession ELSE session[t]
         enters == s \notin ToSet(deque[t]) /\ View(t) # "kicked" IN
     /\ deque' = [deque EXCEPT ![t] = IF enters THEN <<s>> \o @ ELSE @]
     /\ since' = IF enters THEN Since(s) ELSE since
  /\ Goto(t, "kick")
  /\ UNCHANGED <<settings, cache, memory, store, request, mine, disturbed>>

(* A session that is not in the deque and not kicked out goes first.       *)
Push(t) ==
  /\ pc[t] = "push"
  /\ LET s == session[t]
         enters == s \notin ToSet(deque[t]) /\ View(t) = "live" IN
     /\ s \in ToSet(deque[t]) \/ View(t) # "stopped"
     /\ deque' = [deque EXCEPT ![t] = IF enters THEN <<s>> \o @ ELSE @]
     /\ since' = IF enters THEN Since(s) ELSE since
  /\ Goto(t, "kick")
  /\ UNCHANGED <<settings, cache, memory, store, request, mine, disturbed>>

(* Shiro finds the object stopped: it deletes the session and throws.      *)
Invalid(t) ==
  /\ View(t) = "stopped"
  /\ Delete(node[t], session[t])
  /\ Finish(t, Left(node[t], session[t], copy[node[t]][session[t]]))

(* getAttribute, reached only if the deque does not have the session.      *)
PushThrows(t) ==
  /\ pc[t] = "push"
  /\ session[t] \notin ToSet(deque[t])
  /\ Invalid(t)
  /\ UNCHANGED <<settings, cache, since, disturbed>>

(* Mutants: the flag is read the wrong way round; one session too many.    *)
VictimSwapped(d) == IF kickoutAfter THEN Last(d) ELSE Head(d)
TooManyByOne(d) == Len(d) > maxSession + 1

(* The loop's condition, the session id it removes, and what remains.      *)
Victim(d) == IF kickoutAfter THEN Head(d) ELSE Last(d)
TooMany(d) == Len(d) > maxSession
Remaining(d) == IF kickoutAfter THEN Tail(d) ELSE Front(d)

(* Mutant: the attribute is set in the object and not saved.               *)
KickNotSaved(t) ==
  /\ pc[t] = "kick"
  /\ TooMany(deque[t])
  /\ deque' = [deque EXCEPT ![t] = Remaining(@)]
  /\ LET n == node[t]
         v == Victim(deque[t]) IN
     copy' = [copy EXCEPT ![n][v] = IF Found(n, v) THEN "kicked" ELSE @]
  /\ UNCHANGED <<settings, cache, age, store, pc, request, mine, since, disturbed>>

(* One turn of the loop: the victim as this node sees it is marked, and    *)
(* saved whatever has happened to it in Redis; if it is not found, the     *)
(* exception is ignored.                                                   *)
Kick(t) ==
  /\ pc[t] = "kick"
  /\ TooMany(deque[t])
  /\ deque' = [deque EXCEPT ![t] = Remaining(@)]
  /\ LET n == node[t]
         v == Victim(deque[t]) IN
     \/ /\ Found(n, v)
        /\ copy' = [copy EXCEPT ![n][v] = "kicked"]
        /\ Save(v, "kicked")
        /\ working' = working \ {v}
     \/ ~Found(n, v) /\ UNCHANGED <<copy, store>>
  /\ UNCHANGED <<settings, cache, age, pc, request, mine, since, disturbed>>

(* cache.put, after the loop; the copy is not used again.                  *)
PutDeque(t) ==
  /\ pc[t] = "kick"
  /\ ~TooMany(deque[t])
  /\ cache' = deque[t]
  /\ deque' = [deque EXCEPT ![t] = <<>>]
  /\ Goto(t, "check")
  /\ UNCHANGED <<settings, memory, store, request, mine, since, disturbed>>

(* A session that is kicked out is stopped, others go on.                  *)
Pass(t) ==
  /\ pc[t] = "check"
  /\ View(t) = "live"
  /\ working' = working \cup {s \in {session[t]} : redis[s] = "live"}
  /\ Goto(t, "serve")
  /\ UNCHANGED <<settings, cache, memory, redis, outAge, request, mine, deque, since, disturbed>>

KickedOut(t) ==
  /\ pc[t] = "check"
  /\ View(t) = "kicked"
  /\ Delete(node[t], session[t])
  /\ Finish(t, Left(node[t], session[t],
                    IF mine[t] = "cached" THEN "stopped" ELSE copy[node[t]][session[t]]))
  /\ UNCHANGED <<settings, cache, since, disturbed>>

CheckThrows(t) ==
  /\ pc[t] = "check"
  /\ Invalid(t)
  /\ UNCHANGED <<settings, cache, since, disturbed>>

-----------------------------------------------------------------------------
(* The application behind the filter sets an attribute: the object is      *)
(* saved as it is, whatever other nodes have saved meanwhile ...           *)
Write(t) ==
  /\ pc[t] = "serve"
  /\ View(t) # "stopped"
  /\ Save(session[t], View(t))
  /\ working' = IF View(t) = "live" THEN working \cup {session[t]} ELSE working \ {session[t]}
  /\ UNCHANGED <<settings, cache, memory, pc, request, mine, deque, since, disturbed>>

(* ... or fails, because the session has been stopped.                     *)
WriteThrows(t) ==
  /\ pc[t] = "serve"
  /\ Invalid(t)
  /\ UNCHANGED <<settings, cache, since, disturbed>>

EndRequest(t) ==
  /\ pc[t] = "serve"
  /\ Finish(t, mine)
  /\ UNCHANGED <<settings, cache, memory, store, since, disturbed>>

(* Mutant: a session in a node's memory never runs out.                    *)
NeverRunsOut(n, s) == FALSE

(* cacheSession does not answer with a copy older than the time to live;   *)
(* only requests that have the object still see it.                        *)
RunsOut(n, s) == copy[n][s] # "none" /\ age[n][s] >= TimeToLive

Tick ==
  /\ copy' = [n \in Nodes |-> [s \in Sessions |->
                IF RunsOut(n, s) THEN "none" ELSE copy[n][s]]]
  /\ age' = [n \in Nodes |-> [s \in Sessions |->
               IF copy'[n][s] = "none" THEN 0 ELSE Saturate(age[n][s])]]
  /\ outAge' = [s \in Sessions |-> IF redis[s] \in Out THEN Saturate(outAge[s]) ELSE 0]
  /\ LET lapsed == {t \in Threads : mine[t] = "cached" /\ RunsOut(node[t], session[t])} IN
     /\ mine' = [t \in Threads |-> IF t \in lapsed THEN View(t) ELSE mine[t]]
     /\ disturbed' = (disturbed \/ lapsed # {})
  /\ UNCHANGED <<settings, cache, redis, working, pc, request, deque, since>>

Next ==
  \/ Tick
  \/ \E s \in Sessions : Login(s) \/ Expire(s)
  \/ \E n \in Nodes, s \in Sessions : Logout(n, s)
  \/ \E t \in Threads :
       \/ \E n \in Nodes, s \in Sessions : GetDeque(t, n, s)
       \/ Push(t) \/ PushThrows(t) \/ Kick(t) \/ PutDeque(t)
       \/ Pass(t) \/ KickedOut(t) \/ CheckThrows(t)
       \/ Write(t) \/ WriteThrows(t) \/ EndRequest(t)

Spec == Init /\ [][Next]_vars

-----------------------------------------------------------------------------
(* The types: a deque never holds null for the id of a stopped session.    *)
TypeOK ==
  /\ maxSession \in MaxSessions
  /\ kickoutAfter \in BOOLEAN
  /\ cache \in Seq(Sessions)
  /\ redis \in [Sessions -> {"new", "live", "kicked", "gone"}]
  /\ copy \in [Nodes -> [Sessions -> {"none", "live", "kicked"}]]
  /\ age \in [Nodes -> [Sessions -> 0..(TimeToLive + 1)]]
  /\ pc \in [Threads -> {"idle", "push", "kick", "check", "serve"}]
  /\ node \in [Threads -> Nodes \cup {NoNode}]
  /\ session \in [Threads -> Sessions \cup {NoSession}]
  /\ mine \in [Threads -> {"none", "cached", "live", "kicked", "stopped"}]
  /\ deque \in [Threads -> Seq(Sessions)]
  /\ since \in [Sessions -> SUBSET Sessions]
  /\ outAge \in [Sessions -> 0..(TimeToLive + 1)]
  /\ working \subseteq Sessions
  /\ disturbed \in BOOLEAN

(* However requests overlap and overwrite each other's deque (line 91):    *)
(* the shared deque has no session twice, no more than maxSession of them, *)
(* and only sessions that somebody has logged in to.                       *)
DequeWellFormed ==
  /\ IsInjective(cache)
  /\ Len(cache) <= maxSession
  /\ \A s \in ToSet(cache) : redis[s] # "new"

(* ShiroProperties.java:71 "同一个帐号最大会话数": no more than maxSession      *)
(* sessions of the account are let through and left alone in Redis, in     *)
(* spite of nodes that have not heard of a kick or a logout, of what they  *)
(* write back, and of sessions that leave without the deque; as long as no *)
(* two requests of the account overlap (the code's "TODO") and no copy     *)
(* runs out under a request.                                               *)
AtMostMaxSession == ~disturbed => Cardinality(working) <= maxSession

Kicked(s) == redis[s] = "live" /\ redis'[s] = "kicked"

(* ShiroProperties.java:70 "踢出之前登录的/之后登录的用户": a session is kicked  *)
(* out only if all the others that work have entered a deque since it did  *)
(* (it since each of them, if kickoutAfter), on the same conditions.       *)
KickedInOrder ==
  [][\A s \in Sessions : Kicked(s) /\ ~disturbed =>
       \A u \in working \ {s} : IF kickoutAfter THEN s \in since[u] ELSE u \in since[s]]_vars

(* SpringShiroSessionDAO.java:174: a node that has not heard of the kick   *)
(* or the logout still takes the session for a live one, but no longer     *)
(* than the time to live: a request that starts later sees it, however     *)
(* requests overlap, unless a stale node has written the session back.     *)
NoOverstay ==
  [][\A t \in Threads : pc[t] = "idle" /\ pc'[t] = "push" /\ View(t)' = "live" =>
       redis[session'[t]] = "live" \/ outAge[session'[t]] <= TimeToLive]_vars
=============================================================================
