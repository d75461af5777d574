---------------------------- MODULE ShiroSession ----------------------------
(***************************************************************************)
(* One web session of spring-boot-starter-shiro: the copy in Redis, the    *)
(* copies that SpringShiroSessionDAO caches in the memory of each node     *)
(* (DefaultMemorySessionDAO) and the RedisSimpleSession objects that the   *)
(* request threads work on.  A request reads the session once              *)
(* (ShiroSessionManager keeps it in the request) and then touches it,      *)
(* changes it or stops it; requests on one node share the cached object.   *)
(*                                                                         *)
(* Every operation of a request is Shiro's AbstractNativeSessionManager:   *)
(* validate the object, change it, SessionDAO.update.  Attribute values    *)
(* are abstracted to presence.  The session timeout, which is much longer  *)
(* than timeToLiveSeconds, is the action Expire.                           *)
(***************************************************************************)
EXTENDS Naturals, FiniteSets, Functions

CONSTANTS
  Nodes,       \* the JVMs behind the load balancer
  Requests,    \* request threads: how many requests run at a time
  Attributes,  \* attribute keys besides PRINCIPALS_SESSION_KEY
  TimeToLive   \* timeToLiveSeconds, in ticks

ASSUME SessionAssumption ==
  /\ IsFiniteSet(Nodes) /\ Nodes # {}
  /\ IsFiniteSet(Requests)
  /\ TimeToLive \in Nat

Principals == "principals"
Keys == Attributes \cup {Principals}
NoNode == "no node"

(* Object identities: what the nodes cache and the requests hold.          *)
NoObject == 0
Objects == 1..(Cardinality(Nodes) + Cardinality(Requests))

VARIABLES
  redis,      \* {} or {the stored copy}
  heap,       \* heap[o]: the fields of a RedisSimpleSession
  cached,     \* cached[n]: the object in n's memorySessionDAO
  age,        \* age[n]: ticks since createTimestamp of the cached object
  pc,         \* pc[r]: where the request is
  node,       \* node[r]: the node that serves it
  object,     \* object[r]: the session it works on
  created,    \* has the session been created?
  intended,   \* history: the attributes as the setters, in their order, leave
              \* them,
  writeAge,   \* ticks since the last setter,
  writer,     \* {} or {the node it ran on},
  unfit,      \* the requests that have overlapped another one, or came to
              \* another node than writer within timeToLiveSeconds,
  disturbed   \* whether such a request has changed the session, or a request
              \* has come in the middle of a change

ghost == <<intended, writeAge, writer, unfit, disturbed>>
vars == <<redis, heap, cached, age, pc, node, object, created, ghost>>
request == <<node, created>>

(* The fields of RedisSimpleSession.                                       *)
Session == [attributes : SUBSET Keys, changed : BOOLEAN, stopped : BOOLEAN]
Fresh == [attributes |-> {}, changed |-> FALSE, stopped |-> FALSE]

Labels == {"idle", "get", "saveRead", "cache", "ready", "flag", "remove", "update", "save", "uncache", "delete"}

Init ==
  /\ redis = {}
  /\ heap = [o \in Objects |-> Fresh]
  /\ cached = [n \in Nodes |-> NoObject]
  /\ age = [n \in Nodes |-> 0]
  /\ pc = [r \in Requests |-> "idle"]
  /\ node = [r \in Requests |-> NoNode]
  /\ object = [r \in Requests |-> NoObject]
  /\ created = FALSE
  /\ intended = {}
  /\ writeAge = 0
  /\ writer = {}
  /\ unfit = {}
  /\ disturbed = FALSE

Saturate(t) == IF t > TimeToLive THEN t ELSE t + 1

Goto(r, label) == pc' = [pc EXCEPT ![r] = label]

Used == (Range(object) \cup Range(cached)) \ {NoObject}
NewObject == CHOOSE o \in Objects : o \notin Used

(* The heap after references have changed: what nobody refers to is gone.  *)
Collected(h) ==
  [o \in Objects |-> IF o \in Range(object') \cup Range(cached') THEN h[o] ELSE Fresh]

(* The request is over; its reference is dropped.                          *)
Leave(r) ==
  /\ Goto(r, "idle")
  /\ object' = [object EXCEPT ![r] = NoObject]
  /\ node' = [node EXCEPT ![r] = NoNode]
  /\ unfit' = unfit \ {r}
  /\ UNCHANGED <<intended, writeAge, writer, disturbed>>

(* History: r changes the session.                                         *)
Changes(r) ==
  /\ disturbed' = (disturbed \/ r \in unfit)
  /\ UNCHANGED unfit

(* An attribute is changed, but not yet in Redis.                          *)
Changing(r) ==
  \/ pc[r] \in {"flag", "remove", "save"}
  \/ pc[r] = "update" /\ heap[object[r]].changed /\ ~heap[object[r]].stopped

(* History: r begins on node n.                                            *)
Begins(r, n) ==
  LET running == {q \in Requests : pc[q] # "idle"} IN
  /\ unfit' = IF running = {} /\ (writer \subseteq {n} \/ writeAge > TimeToLive)
              THEN unfit ELSE unfit \cup running \cup {r}
  /\ disturbed' = (disturbed \/ \E q \in running : Changing(q))
  /\ UNCHANGED <<intended, writeAge, writer>>

(* saveSession: the object is serialized as it is now and SET.             *)
SaveSession(o) ==
  /\ redis' = {heap[o]}
  /\ UNCHANGED heap

-----------------------------------------------------------------------------
(* doCreate, and the update that follows when Shiro applies the global     *)
(* timeout.  Nobody else knows the session id yet.                         *)
DoCreate(n) ==
  /\ ~created
  /\ created' = TRUE
  /\ redis' = {Fresh}
  /\ cached' = [cached EXCEPT ![n] = NewObject]
  /\ age' = [age EXCEPT ![n] = 0]
  /\ UNCHANGED <<heap, pc, node, object, ghost>>

(* Mutant: the cache entry does not age.                                   *)
CacheForever(n) == cached[n]

(* cacheSession's answer on node n, or NoObject.                           *)
CacheSession(n) == IF age[n] > TimeToLive THEN NoObject ELSE cached[n]

LoggedIn(o) == o # NoObject /\ Principals \in heap[o].attributes

(* doReadSession: an unexpired cached session of a logged in user is used  *)
(* as it is, all others are looked up in Redis.                            *)
DoReadSession(r, n) ==
  /\ created
  /\ pc[r] = "idle"
  /\ node' = [node EXCEPT ![r] = n]
  /\ LET o == CacheSession(n) IN
     \/ /\ LoggedIn(o)
        /\ object' = [object EXCEPT ![r] = o]
        /\ Goto(r, "ready")
     \/ /\ ~LoggedIn(o)
        /\ Goto(r, "get")
        /\ UNCHANGED object
  /\ Begins(r, n)
  /\ UNCHANGED <<redis, heap, cached, age, created>>

(* Mutant: the null that Redis returned is not looked at.                  *)
GetSessionNull(r) ==
  /\ pc[r] = "get"
  /\ \/ redis = {} /\ UNCHANGED <<heap, object>>
     \/ \E s \in redis :
          /\ object' = [object EXCEPT ![r] = NewObject]
          /\ heap' = [heap EXCEPT ![NewObject] = s]
  /\ Goto(r, "ready")
  /\ UNCHANGED <<redis, cached, age, node, created, ghost>>

(* The GET.  Without a session, or when validate() finds it stopped, the   *)
(* request ends in an exception.                                           *)
GetSession(r) ==
  /\ pc[r] = "get"
  /\ \/ /\ redis = {}
        /\ Leave(r)
        /\ UNCHANGED heap
     \/ \E s \in redis :
          \/ /\ Principals \in s.attributes /\ s.stopped
             /\ Leave(r)
             /\ UNCHANGED heap
          \/ /\ ~(Principals \in s.attributes /\ s.stopped)
             /\ object' = [object EXCEPT ![r] = NewObject]
             /\ heap' = [heap EXCEPT ![NewObject] = s]
             /\ Goto(r, IF Principals \in s.attributes THEN "saveRead" ELSE "ready")
             /\ UNCHANGED <<node, ghost>>
  /\ UNCHANGED <<redis, cached, age, created>>

(* The read writes the session back, for its last access time ...          *)
SaveRead(r) ==
  /\ pc[r] = "saveRead"
  /\ SaveSession(object[r])
  /\ Goto(r, "cache")
  /\ UNCHANGED <<cached, age, object, request, ghost>>

(* Mutant: putIfAbsent keeps the object that was cached.                   *)
CacheReadIfAbsent(r) ==
  /\ pc[r] = "cache"
  /\ cached' = [cached EXCEPT ![node[r]] = IF @ = NoObject THEN object[r] ELSE @]
  /\ age' = [age EXCEPT ![node[r]] = 0]
  /\ Goto(r, "ready")
  /\ UNCHANGED <<redis, object, request, ghost>>
  /\ heap' = Collected(heap)

(* ... and caches it, in the place of the object that was cached.          *)
CacheRead(r) ==
  /\ pc[r] = "cache"
  /\ cached' = [cached EXCEPT ![node[r]] = object[r]]
  /\ age' = [age EXCEPT ![node[r]] = 0]
  /\ Goto(r, "ready")
  /\ UNCHANGED <<redis, object, request, ghost>>
  /\ heap' = Collected(heap)

-----------------------------------------------------------------------------
(* Operations on the session.  Shiro validates the object first: a stopped *)
(* one is deleted, and the operation throws.                               *)
Valid(r) == pc[r] = "ready" /\ ~heap[object[r]].stopped

Invalid(r) ==
  /\ pc[r] = "ready"
  /\ heap[object[r]].stopped
  /\ Goto(r, "uncache")
  /\ UNCHANGED <<redis, heap, cached, age, object, request, ghost>>

(* touch(): "changed" is cleared, for any thread that has just set it.     *)
Touch(r) ==
  /\ Valid(r)
  /\ heap' = [heap EXCEPT ![object[r]].changed = FALSE]
  /\ Goto(r, "update")
  /\ UNCHANGED <<redis, cached, age, object, request, ghost>>

(* setAttribute, first half: the attribute.                                *)
SetAttribute(r, k) ==
  /\ Valid(r)
  /\ heap' = [heap EXCEPT ![object[r]].attributes = @ \cup {k}]
  /\ intended' = intended \cup {k}
  /\ writeAge' = 0
  /\ writer' = {node[r]}
  /\ Changes(r)
  /\ Goto(r, "flag")
  /\ UNCHANGED <<redis, cached, age, object, request>>

(* Mutant: the setter does not set the flag.                               *)
SetChangedForgotten(r) ==
  /\ pc[r] = "flag"
  /\ Goto(r, "update")
  /\ UNCHANGED <<redis, heap, cached, age, object, request, ghost>>

(* setAttribute, second half: setChanged(true).                            *)
SetChanged(r) ==
  /\ pc[r] = "flag"
  /\ heap' = [heap EXCEPT ![object[r]].changed = TRUE]
  /\ Goto(r, "update")
  /\ UNCHANGED <<redis, cached, age, object, request, ghost>>

(* removeAttribute sets the flag before it removes the attribute.          *)
RemoveFlag(r) ==
  /\ Valid(r)
  /\ heap' = [heap EXCEPT ![object[r]].changed = TRUE]
  /\ Goto(r, "remove")
  /\ Changes(r)
  /\ UNCHANGED <<redis, cached, age, object, request, intended, writeAge, writer>>

RemoveAttribute(r, k) ==
  /\ pc[r] = "remove"
  /\ heap' = [heap EXCEPT ![object[r]].attributes = @ \ {k}]
  /\ intended' = intended \ {k}
  /\ writeAge' = 0
  /\ writer' = {node[r]}
  /\ Changes(r)
  /\ Goto(r, "update")
  /\ UNCHANGED <<redis, cached, age, object, request>>

(* update: nothing for a session that is invalid or not marked as changed. *)
Update(r) ==
  /\ pc[r] = "update"
  /\ LET s == heap[object[r]] IN
     \/ /\ s.stopped \/ ~s.changed
        /\ Goto(r, "ready")
        /\ UNCHANGED heap
     \/ /\ ~s.stopped /\ s.changed
        /\ heap' = [heap EXCEPT ![object[r]].changed = FALSE]
        /\ Goto(r, "save")
  /\ UNCHANGED <<redis, cached, age, object, request, ghost>>

SaveUpdate(r) ==
  /\ pc[r] = "save"
  /\ SaveSession(object[r])
  /\ Goto(r, "ready")
  /\ UNCHANGED <<cached, age, object, request, ghost>>

(* stop(): the update that follows sees an invalid session and returns.    *)
Stop(r) ==
  /\ Valid(r)
  /\ heap' = [heap EXCEPT ![object[r]] = [attributes |-> @.attributes, changed |-> TRUE, stopped |-> TRUE]]
  /\ Goto(r, "uncache")
  /\ UNCHANGED <<redis, cached, age, object, request, ghost>>

(* delete: this node's memory, then Redis.                                 *)
Uncache(r) ==
  /\ pc[r] = "uncache"
  /\ cached' = [cached EXCEPT ![node[r]] = NoObject]
  /\ Goto(r, "delete")
  /\ UNCHANGED <<redis, age, object, request, ghost>>
  /\ heap' = Collected(heap)

Delete(r) ==
  /\ pc[r] = "delete"
  /\ redis' = {}
  /\ Leave(r)
  /\ UNCHANGED <<cached, age, created>>
  /\ heap' = Collected(heap)

EndRequest(r) ==
  /\ pc[r] = "ready"
  /\ Leave(r)
  /\ UNCHANGED <<redis, cached, age, created>>
  /\ heap' = Collected(heap)

-----------------------------------------------------------------------------
(* Redis drops the key at the end of the session timeout.                  *)
Expire ==
  /\ redis # {}
  /\ redis' = {}
  /\ UNCHANGED <<heap, cached, age, pc, object, request, ghost>>

Tick ==
  /\ age' = [n \in Nodes |-> Saturate(age[n])]
  /\ writeAge' = Saturate(writeAge)
  /\ UNCHANGED <<redis, heap, cached, pc, object, request, intended, writer, unfit, disturbed>>

Next ==
  \/ Expire
  \/ Tick
  \/ \E n \in Nodes : DoCreate(n)
  \/ \E r \in Requests :
       \/ \E n \in Nodes : DoReadSession(r, n)
       \/ \E k \in Keys : SetAttribute(r, k) \/ RemoveAttribute(r, k)
       \/ GetSession(r) \/ SaveRead(r) \/ CacheRead(r)
       \/ Invalid(r) \/ Touch(r) \/ SetChanged(r) \/ RemoveFlag(r)
       \/ Update(r) \/ SaveUpdate(r)
       \/ Stop(r) \/ Uncache(r) \/ Delete(r) \/ EndRequest(r)

Spec == Init /\ [][Next]_vars

-----------------------------------------------------------------------------
(* The types, and that a request has a session exactly when it has read    *)
(* one: nothing works on a session that Redis did not have.                *)
TypeOK ==
  /\ redis \subseteq Session /\ Cardinality(redis) <= 1
  /\ heap \in [Objects -> Session]
  /\ cached \in [Nodes -> Objects \cup {NoObject}]
  /\ age \in [Nodes -> 0..(TimeToLive + 1)]
  /\ pc \in [Requests -> Labels]
  /\ node \in [Requests -> Nodes \cup {NoNode}]
  /\ object \in [Requests -> Objects \cup {NoObject}]
  /\ \A r \in Requests : object[r] = NoObject <=> pc[r] \in {"idle", "get"}
  /\ created \in BOOLEAN
  /\ intended \subseteq Keys
  /\ writeAge \in 0..(TimeToLive + 1)
  /\ writer \subseteq Nodes
  /\ unfit \subseteq Requests
  /\ disturbed \in BOOLEAN

(* Outside its operations Redis has what the setters wrote, through        *)
(* reloads by any node, logins, requests that only read, however many run  *)
(* at a time, copies that run out and sessions that expire; as long as the *)
(* requests that change the session overlap no other, and come to another  *)
(* node than the last only timeToLiveSeconds after it.                     *)
Durable ==
  ~disturbed /\ (\A r \in Requests : pc[r] \notin {"flag", "remove", "update", "save"})
    => \A s \in redis : s.attributes = intended

(* On the same conditions a request never starts with attributes that were *)
(* changed more than timeToLiveSeconds ago, whichever node serves it.      *)
BoundedStaleness ==
  [][\A r \in Requests :
       /\ pc[r] \in {"idle", "get", "cache"} /\ pc'[r] = "ready"
       /\ ~disturbed' /\ writeAge > TimeToLive
       => heap'[object'[r]].attributes = intended]_vars

(* Nothing is left that could bring the session back.                      *)
Gone ==
  /\ created
  /\ redis = {}
  /\ \A r \in Requests : object[r] = NoObject
  /\ \A n \in Nodes : LoggedIn(cached[n]) => age[n] > TimeToLive

(* A session that is not in Redis stays away for good once the requests    *)
(* that had it are over and the nodes' cached copies have run out.         *)
GoneForGood == [][Gone => Gone']_vars
=============================================================================
