------------------------- MODULE ShiroSessionProofs -------------------------
(***************************************************************************)
(* For any number of nodes, requests and attributes and any time to live:  *)
(* a session that is gone stays away; and until a change of the session is *)
(* disturbed, what Redis holds and how far behind a node can be.           *)
(***************************************************************************)
EXTENDS ShiroSession, FiniteSetTheorems, TLAPS

(* The types, in parts: the copies of the session, the requests, the rest.  *)
Copies ==
  /\ redis \subseteq Session /\ Cardinality(redis) <= 1
  /\ heap \in [Objects -> Session]
  /\ cached \in [Nodes -> Objects \cup {NoObject}]
  /\ age \in [Nodes -> 0..(TimeToLive + 1)]

Served ==
  /\ pc \in [Requests -> Labels]
  /\ node \in [Requests -> Nodes \cup {NoNode}]
  /\ object \in [Requests -> Objects \cup {NoObject}]
  /\ \A r \in Requests : object[r] = NoObject <=> pc[r] \in {"idle", "get"}
  /\ \A r \in Requests : pc[r] # "idle" => node[r] \in Nodes

Intent ==
  /\ created \in BOOLEAN
  /\ intended \subseteq Keys
  /\ writeAge \in 0..(TimeToLive + 1)
  /\ writer \subseteq Nodes
  /\ unfit \subseteq Requests
  /\ disturbed \in BOOLEAN

(* Before the session is created there is no trace of it.                   *)
Uncreated ==
  ~created =>
    /\ redis = {} /\ intended = {}
    /\ \A o \in Objects : heap[o] = Fresh
    /\ \A n \in Nodes : cached[n] = NoObject
    /\ \A r \in Requests : pc[r] = "idle"

Types == Copies /\ Served /\ Intent /\ Uncreated

-----------------------------------------------------------------------------
(* A request that has met no other is alone.                                *)
Alone ==
  \A r, q \in Requests : pc[r] # "idle" /\ r \notin unfit /\ q # r => pc[q] = "idle"

(* What holds of every request until a change is disturbed.                 *)
Attr(r) == heap[object[r]].attributes
Usable(n) == LoggedIn(CacheSession(n))

(* A request that changes the session has met no other, and what it changes *)
(* is not stopped, so update saves it.                                      *)
Fit(r) == Changing(r) => r \notin unfit

Running(r) ==
  /\ pc[r] \in {"flag", "remove"} => ~heap[object[r]].stopped
  /\ pc[r] = "remove" => heap[object[r]].changed

(* What was just read is up to date, and so is what a request works on that *)
(* may change it; ...                                                       *)
Current(r) ==
  pc[r] \in {"saveRead", "cache"} \/ (pc[r] \notin {"idle", "get"} /\ r \notin unfit)
    => Attr(r) = intended

(* ... it works on the object that its node has cached, unless that is one  *)
(* that reads pass by.                                                      *)
OwnCopy(r) ==
  pc[r] # "idle" /\ r \notin unfit => object[r] = cached[node[r]] \/ ~Usable(node[r])

Good(r) == Fit(r) /\ Running(r) /\ Current(r) /\ OwnCopy(r)

InSync == (\A r \in Requests : ~Changing(r)) => \A s \in redis : s.attributes = intended

(* A usable copy is up to date on the node of the last change, and on the   *)
(* others if it is younger than that.                                       *)
CachedCurrent ==
  \A n \in Nodes :
    Usable(n) /\ (writer \subseteq {n} \/ writeAge > age[n]) => heap[cached[n]].attributes = intended

InStep == InSync /\ CachedCurrent /\ \A r \in Requests : Good(r)

-----------------------------------------------------------------------------
(* The image of a finite set under a function.                              *)
LEMMA ImageCount ==
  ASSUME NEW S, IsFiniteSet(S), NEW f
  PROVE  IsFiniteSet({f[x] : x \in S}) /\ Cardinality({f[x] : x \in S}) <= Cardinality(S)
<1> DEFINE T == {f[x] : x \in S}
           g == [x \in S |-> f[x]]
<1>1. g \in Surjection(S, T)
  BY DEF Surjection
<1>2. QED
  BY <1>1, FS_Surjection

(* There is an object for what a request reads and has no object for yet.   *)
LEMMA Free ==
  ASSUME NEW r \in Requests, object \in [Requests -> Objects \cup {NoObject}], object[r] = NoObject,
         cached \in [Nodes -> Objects \cup {NoObject}]
  PROVE  NewObject \in Objects /\ NewObject \notin Used
<1> DEFINE S == {object[q] : q \in Requests \ {r}}
           T == {cached[n] : n \in Nodes}
<1>1. /\ IsFiniteSet(Requests) /\ IsFiniteSet(Nodes)
      /\ Cardinality(Requests) \in Nat /\ Cardinality(Nodes) \in Nat
      /\ IsFiniteSet(Requests \ {r}) /\ Cardinality(Requests \ {r}) = Cardinality(Requests) - 1
  BY SessionAssumption, FS_CardinalityType, FS_RemoveElement
<1>2. /\ IsFiniteSet(S) /\ Cardinality(S) <= Cardinality(Requests) - 1
      /\ IsFiniteSet(T) /\ Cardinality(T) <= Cardinality(Nodes)
  <2>1. IsFiniteSet(S) /\ Cardinality(S) <= Cardinality(Requests \ {r})
    BY <1>1, ImageCount
  <2>2. IsFiniteSet(T) /\ Cardinality(T) <= Cardinality(Nodes)
    BY <1>1, ImageCount
  <2>3. QED
    BY <1>1, <2>1, <2>2
<1>3. Used \subseteq S \cup T
  BY DEF Used, Range
<1> HIDE DEF S, T
<1>4. /\ IsFiniteSet(S \cup T) /\ Cardinality(S \cup T) \in Nat
      /\ Cardinality(S \cup T) <= Cardinality(Requests) - 1 + Cardinality(Nodes)
  <2>1. /\ IsFiniteSet(S \cup T)
        /\ Cardinality(S \cup T) = Cardinality(S) + Cardinality(T) - Cardinality(S \cap T)
    BY <1>2, FS_Union
  <2>2. IsFiniteSet(S \cap T)
    BY <1>2, FS_Intersection
  <2>3. /\ Cardinality(S) \in Nat /\ Cardinality(T) \in Nat /\ Cardinality(S \cap T) \in Nat
        /\ Cardinality(S \cup T) \in Nat
    BY <1>2, <2>1, <2>2, FS_CardinalityType
  <2>4. QED
    BY <1>1, <1>2, <2>1, <2>3
<1>5. Cardinality(Objects) = Cardinality(Nodes) + Cardinality(Requests)
  <2>1. Cardinality(Nodes) + Cardinality(Requests) \in Nat
    BY <1>1
  <2>2. QED
    BY <2>1, FS_Interval DEF Objects
<1>6. \E o \in Objects : o \notin Used
  <2>1. SUFFICES ASSUME Objects \subseteq Used PROVE FALSE
    OBVIOUS
  <2>2. Cardinality(Objects) <= Cardinality(S \cup T)
    BY <1>3, <1>4, <2>1, FS_Subset
  <2>3. QED
    BY <1>1, <1>4, <1>5, <2>2
<1>7. QED
  BY <1>6 DEF NewObject

(* 0 is nobody's identity.                                                  *)
LEMMA Identities ==
  NoObject \notin Objects /\ 1 \in Objects
<1>1. /\ Cardinality(Requests) \in Nat /\ Cardinality(Nodes) \in Nat
  BY SessionAssumption, FS_CardinalityType
<1>2. Cardinality(Nodes) # 0
  BY SessionAssumption, FS_EmptySet
<1>3. QED
  BY <1>1, <1>2 DEF NoObject, Objects

(* The first object.                                                        *)
LEMMA First ==
  ASSUME Types, ~created
  PROVE  NewObject \in Objects /\ NewObject \notin Used
<1>1. Used = {}
  <2>1. \A r \in Requests : object[r] = NoObject
    BY DEF Types, Served, Uncreated
  <2>2. \A n \in Nodes : cached[n] = NoObject
    BY DEF Types, Uncreated
  <2>3. DOMAIN object = Requests /\ DOMAIN cached = Nodes
    BY DEF Types, Copies, Served
  <2>4. QED
    BY <2>1, <2>2, <2>3 DEF Used, Range
<1>2. \E o \in Objects : o \notin Used
  BY <1>1, Identities
<1>3. QED
  BY <1>2 DEF NewObject

(* What writing a field of an object does.                                  *)
LEMMA Sessions ==
  ASSUME NEW s \in Session
  PROVE  /\ s.attributes \subseteq Keys /\ s.changed \in BOOLEAN /\ s.stopped \in BOOLEAN
         /\ \A a \in SUBSET Keys : [s EXCEPT !.attributes = a] = [attributes |-> a, changed |-> s.changed, stopped |-> s.stopped]
         /\ \A b \in BOOLEAN : [s EXCEPT !.changed = b] = [attributes |-> s.attributes, changed |-> b, stopped |-> s.stopped]
BY DEF Session

(* A write of the attributes of one object.                                *)
LEMMA AttributesWritten ==
  ASSUME NEW h \in [Objects -> Session], NEW o \in Objects, NEW a \in SUBSET Keys,
         NEW k, k = [h EXCEPT ![o].attributes = a]
  PROVE  /\ k \in [Objects -> Session] /\ \A p \in Objects : p # o => k[p] = h[p]
         /\ k[o] = [attributes |-> a, changed |-> h[o].changed, stopped |-> h[o].stopped]
<1> DEFINE s == [attributes |-> a, changed |-> h[o].changed, stopped |-> h[o].stopped]
<1>1. h[o] \in Session
  OBVIOUS
<1>2. s \in Session
  BY <1>1, Sessions DEF Session
<1>3. k = [h EXCEPT ![o] = s]
  BY <1>1, Sessions
<1> HIDE DEF s
<1>4. k \in [Objects -> Session] /\ k[o] = s /\ \A p \in Objects : p # o => k[p] = h[p]
  BY <1>2, <1>3
<1>5. QED
  BY <1>4 DEF s

(* A write of the changed flag of one object.                              *)
LEMMA ChangedWritten ==
  ASSUME NEW h \in [Objects -> Session], NEW o \in Objects, NEW b \in BOOLEAN,
         NEW k, k = [h EXCEPT ![o].changed = b]
  PROVE  /\ k \in [Objects -> Session] /\ \A p \in Objects : p # o => k[p] = h[p]
         /\ k[o] = [attributes |-> h[o].attributes, changed |-> b, stopped |-> h[o].stopped]
<1> DEFINE s == [attributes |-> h[o].attributes, changed |-> b, stopped |-> h[o].stopped]
<1>1. h[o] \in Session
  OBVIOUS
<1>2. s \in Session
  BY <1>1, Sessions DEF Session
<1>3. k = [h EXCEPT ![o] = s]
  BY <1>1, Sessions
<1> HIDE DEF s
<1>4. k \in [Objects -> Session] /\ k[o] = s /\ \A p \in Objects : p # o => k[p] = h[p]
  BY <1>2, <1>3
<1>5. QED
  BY <1>4 DEF s

(* A stop of one object.                                                   *)
LEMMA Stopped ==
  ASSUME NEW h \in [Objects -> Session], NEW o \in Objects, NEW k,
         k = [h EXCEPT ![o] = [attributes |-> @.attributes, changed |-> TRUE, stopped |-> TRUE]]
  PROVE  /\ k \in [Objects -> Session] /\ \A p \in Objects : p # o => k[p] = h[p]
         /\ k[o] = [attributes |-> h[o].attributes, changed |-> TRUE, stopped |-> TRUE]
<1> DEFINE s == [attributes |-> h[o].attributes, changed |-> TRUE, stopped |-> TRUE]
<1>1. h[o] \in Session /\ s \in Session
  BY DEF Session
<1>2. k = [h EXCEPT ![o] = s]
  OBVIOUS
<1> HIDE DEF s
<1>3. k \in [Objects -> Session] /\ k[o] = s /\ \A p \in Objects : p # o => k[p] = h[p]
  BY <1>1, <1>2
<1>4. QED
  BY <1>3 DEF s

-----------------------------------------------------------------------------
(* The only steps after which a request has another object.                 *)
LEMMA ServedStep ==
  ASSUME Types, [Next]_vars
  PROVE  Served'
<1>1. /\ pc \in [Requests -> Labels] /\ node \in [Requests -> Nodes \cup {NoNode}]
      /\ object \in [Requests -> Objects \cup {NoObject}]
      /\ \A r \in Requests : object[r] = NoObject <=> pc[r] \in {"idle", "get"}
      /\ \A r \in Requests : pc[r] # "idle" => node[r] \in Nodes
      /\ cached \in [Nodes -> Objects \cup {NoObject}]
  BY DEF Types, Served, Copies
<1>2. NoObject \notin Objects
  BY Identities
<1>3. ASSUME NEW r \in Requests, Leave(r) PROVE Served'
  <2>1. /\ pc' = [pc EXCEPT ![r] = "idle"] /\ object' = [object EXCEPT ![r] = NoObject]
        /\ node' = [node EXCEPT ![r] = NoNode] /\ "idle" \in Labels
    BY <1>3 DEF Leave, Goto, Labels
  <2>2. QED
    BY <1>1, <2>1 DEF Served
<1>4. ASSUME NEW r \in Requests, NEW l \in Labels \ {"idle", "get"}, Goto(r, l),
             pc[r] \notin {"idle", "get"}, UNCHANGED <<node, object>>
      PROVE  Served'
  <2>1. pc' = [pc EXCEPT ![r] = l] /\ node' = node /\ object' = object
    BY <1>4 DEF Goto
  <2>2. QED
    BY <1>1, <1>4, <2>1 DEF Served
<1>5. ASSUME UNCHANGED <<pc, node, object>> PROVE Served'
  BY <1>1, <1>5 DEF Served
<1>6. ASSUME NEW r \in Requests, NEW n \in Nodes, DoReadSession(r, n) PROVE Served'
  <2>1. /\ pc[r] = "idle" /\ node' = [node EXCEPT ![r] = n]
        /\ \/ /\ LoggedIn(CacheSession(n)) /\ object' = [object EXCEPT ![r] = CacheSession(n)]
              /\ pc' = [pc EXCEPT ![r] = "ready"]
           \/ pc' = [pc EXCEPT ![r] = "get"] /\ object' = object
    BY <1>6 DEF DoReadSession, Goto
  <2>2. LoggedIn(CacheSession(n)) => CacheSession(n) \in Objects
    BY <1>1 DEF LoggedIn, CacheSession
  <2>3. "ready" \in Labels /\ "get" \in Labels
    BY DEF Labels
  <2>4. QED
    BY <1>1, <1>2, <2>1, <2>2, <2>3 DEF Served
<1>7. ASSUME NEW r \in Requests, GetSession(r) PROVE Served'
  <2>1. CASE Leave(r)
    BY <1>3, <2>1
  <2>2. CASE ~Leave(r)
    <3>1. /\ pc[r] = "get" /\ object' = [object EXCEPT ![r] = NewObject] /\ node' = node
          /\ \/ pc' = [pc EXCEPT ![r] = "saveRead"]
             \/ pc' = [pc EXCEPT ![r] = "ready"]
      BY <1>7, <2>2 DEF GetSession, Goto
    <3>2. NewObject \in Objects
      BY <1>1, <3>1, Free
    <3>3. "ready" \in Labels /\ "saveRead" \in Labels
      BY DEF Labels
    <3>4. QED
      BY <1>1, <1>2, <3>1, <3>2, <3>3 DEF Served
  <2>3. QED
    BY <2>1, <2>2
<1>8. ASSUME NEW r \in Requests, SaveRead(r) \/ CacheRead(r) \/ Invalid(r) \/ Touch(r) PROVE Served'
  BY <1>4, <1>8 DEF SaveRead, CacheRead, Invalid, Touch, Valid, request, Labels
<1>9. ASSUME NEW r \in Requests, SetChanged(r) \/ RemoveFlag(r) \/ SaveUpdate(r) \/ Stop(r) \/ Uncache(r) PROVE Served'
  BY <1>4, <1>9 DEF SetChanged, RemoveFlag, SaveUpdate, Stop, Uncache, Valid, request, Labels
<1>10. ASSUME NEW r \in Requests, NEW k \in Keys, SetAttribute(r, k) \/ RemoveAttribute(r, k) PROVE Served'
  BY <1>4, <1>10 DEF SetAttribute, RemoveAttribute, Valid, request, Labels
<1>11. ASSUME NEW r \in Requests, Update(r) PROVE Served'
  <2>1. /\ pc[r] = "update" /\ UNCHANGED <<node, object>>
        /\ Goto(r, "ready") \/ Goto(r, "save")
    BY <1>11 DEF Update, request
  <2>2. QED
    BY <1>4, <2>1 DEF Labels
<1>12. ASSUME NEW r \in Requests, Delete(r) \/ EndRequest(r) PROVE Served'
  BY <1>3, <1>12 DEF Delete, EndRequest
<1>13. CASE Expire \/ Tick \/ (\E n \in Nodes : DoCreate(n)) \/ UNCHANGED vars
  BY <1>5, <1>13 DEF Expire, Tick, DoCreate, vars, request
<1>14. QED
  BY <1>6, <1>7, <1>8, <1>9, <1>10, <1>11, <1>12, <1>13 DEF Next

(* Setters add and remove keys; ages saturate; histories grow.             *)
LEMMA IntentStep ==
  ASSUME Types, [Next]_vars
  PROVE  Intent'
<1>1. /\ intended \subseteq Keys /\ writeAge \in 0..(TimeToLive + 1) /\ TimeToLive \in Nat
      /\ writer \subseteq Nodes /\ unfit \subseteq Requests
  BY SessionAssumption DEF Types, Intent
<1>2. created' \in BOOLEAN
  <2>1. created \in BOOLEAN
    BY DEF Types, Intent
  <2>2. created' = created \/ created' = TRUE
    BY Zenon DEF Next, Expire, Tick, DoCreate, DoReadSession, SetAttribute, RemoveAttribute, GetSession, SaveRead,
        CacheRead, Invalid, Touch, SetChanged, RemoveFlag, Update, SaveUpdate, Stop, Uncache, Delete, EndRequest,
        request, vars, ghost
  <2>3. QED
    BY <2>1, <2>2, Zenon
<1>3. disturbed' \in BOOLEAN
  <2>1. disturbed \in BOOLEAN
    BY DEF Types, Intent
  <2>2. ASSUME NEW r \in Requests, NEW n \in Nodes, DoReadSession(r, n) PROVE disturbed' \in BOOLEAN
    BY <2>2, Zenon DEF DoReadSession, Begins
  <2>3. ASSUME NEW r \in Requests, Changes(r) PROVE disturbed' \in BOOLEAN
    BY <2>3, Zenon DEF Changes
  <2>4. \/ disturbed' = disturbed
        \/ \E r \in Requests : Changes(r) \/ \E n \in Nodes : DoReadSession(r, n)
    BY Zenon DEF Next, Expire, Tick, DoCreate, SetAttribute, RemoveAttribute, GetSession, SaveRead,
        CacheRead, Invalid, Touch, SetChanged, RemoveFlag, Update, SaveUpdate, Stop, Uncache, Delete, EndRequest,
        Leave, vars, ghost
  <2>5. QED
    BY <2>1, <2>2, <2>3, <2>4, Zenon
<1>4. unfit' \subseteq Requests
  <2>1. ASSUME NEW r \in Requests, NEW n \in Nodes, DoReadSession(r, n) PROVE unfit' \subseteq Requests
    BY <1>1, <2>1 DEF DoReadSession, Begins
  <2>2. \/ unfit' = unfit \/ \E r \in Requests : unfit' = unfit \ {r}
        \/ \E r \in Requests, n \in Nodes : DoReadSession(r, n)
    BY Zenon DEF Next, Expire, Tick, DoCreate, SetAttribute, RemoveAttribute, GetSession, SaveRead,
        CacheRead, Invalid, Touch, SetChanged, RemoveFlag, Update, SaveUpdate, Stop, Uncache, Delete, EndRequest,
        Leave, Changes, vars, ghost
  <2>3. QED
    BY <1>1, <2>1, <2>2
<1>5. ASSUME NEW r \in Requests, NEW k \in Keys, SetAttribute(r, k) \/ RemoveAttribute(r, k)
      PROVE  intended' \subseteq Keys /\ writeAge' \in 0..(TimeToLive + 1) /\ writer' \subseteq Nodes
  <2>1. node[r] \in Nodes
    BY <1>5 DEF SetAttribute, RemoveAttribute, Valid, Types, Served
  <2>2. QED
    BY <1>1, <1>5, <2>1 DEF SetAttribute, RemoveAttribute
<1>6. ASSUME Tick PROVE intended' \subseteq Keys /\ writeAge' \in 0..(TimeToLive + 1) /\ writer' = writer
  BY <1>1, <1>6 DEF Tick, Saturate
<1>7. \/ UNCHANGED <<intended, writeAge, writer>> \/ Tick
      \/ \E r \in Requests, k \in Keys : SetAttribute(r, k) \/ RemoveAttribute(r, k)
  BY Zenon DEF Next, Expire, DoCreate, DoReadSession, GetSession, SaveRead,
        CacheRead, Invalid, Touch, SetChanged, RemoveFlag, Update, SaveUpdate, Stop, Uncache, Delete, EndRequest,
        Begins, Leave, ghost, vars, ghost
<1>8. QED
  BY <1>1, <1>2, <1>3, <1>4, <1>5, <1>6, <1>7 DEF Intent

(* Who is past reading works on an object.                                  *)
LEMMA Works ==
  ASSUME Types, NEW r \in Requests, pc[r] \notin {"idle", "get"}
  PROVE  /\ object[r] \in Objects /\ node[r] \in Nodes
         /\ heap[object[r]] \in Session
         /\ heap[object[r]].attributes \subseteq Keys
         /\ heap[object[r]].changed \in BOOLEAN /\ heap[object[r]].stopped \in BOOLEAN
<1>1. object[r] \in Objects /\ node[r] \in Nodes
  BY DEF Types, Served
<1>2. heap[object[r]] \in Session
  BY <1>1 DEF Types, Copies
<1>3. QED
  BY <1>1, <1>2, Sessions

(* How the heap changes.                                                    *)
LEMMA HeapStep ==
  ASSUME Types, [Next]_vars
  PROVE  \/ UNCHANGED heap
         \/ heap' = Collected(heap)
         \/ \E r \in Requests, k \in Keys : SetAttribute(r, k) \/ RemoveAttribute(r, k)
         \/ \E r \in Requests :
              \/ Touch(r) \/ SetChanged(r) \/ RemoveFlag(r) \/ Update(r) \/ Stop(r)
              \/ GetSession(r)
BY DEF Next, Expire, Tick, DoCreate, DoReadSession, SaveRead, SaveSession, CacheRead, Invalid, SaveUpdate, Uncache,
       Delete, EndRequest, vars, ghost

(* Every copy of the session is a session, and Redis has at most one.      *)
LEMMA CopiesStep ==
  ASSUME Types, [Next]_vars
  PROVE  Copies'
<1>1. /\ redis \subseteq Session /\ Cardinality(redis) <= 1
      /\ heap \in [Objects -> Session]
      /\ cached \in [Nodes -> Objects \cup {NoObject}]
      /\ age \in [Nodes -> 0..(TimeToLive + 1)]
      /\ Fresh \in Session /\ TimeToLive \in Nat
  <2>1. Fresh \in Session
    BY DEF Fresh, Session
  <2>2. QED
    BY <2>1, SessionAssumption DEF Types, Copies
<1>2. redis' \subseteq Session /\ Cardinality(redis') <= 1
  <2>1. ASSUME NEW s \in Session, redis' = {s} PROVE redis' \subseteq Session /\ Cardinality(redis') <= 1
    BY <2>1, FS_Singleton
  <2>2. CASE redis' = {}
    <3>1. Cardinality(redis') = 0
      BY <2>2, FS_EmptySet
    <3>2. QED
      BY <2>2, <3>1
  <2>3. ASSUME NEW n \in Nodes, DoCreate(n) PROVE redis' = {Fresh}
    BY <2>3 DEF DoCreate
  <2>4. ASSUME NEW r \in Requests, SaveRead(r) \/ SaveUpdate(r) PROVE \E s \in Session : redis' = {s}
    <3>1. redis' = {heap[object[r]]} /\ pc[r] \notin {"idle", "get"}
      BY <2>4 DEF SaveRead, SaveUpdate, SaveSession
    <3>2. QED
      BY <3>1, Works
  <2>5. \/ UNCHANGED redis \/ redis' = {} \/ \E n \in Nodes : DoCreate(n)
        \/ \E r \in Requests : SaveRead(r) \/ SaveUpdate(r)
    BY DEF Next, Expire, Tick, DoReadSession, SetAttribute, RemoveAttribute, GetSession, CacheRead, Invalid, Touch,
        SetChanged, RemoveFlag, Update, Stop, Uncache, Delete, EndRequest, vars, ghost
  <2>6. QED
    BY <1>1, <2>1, <2>2, <2>3, <2>4, <2>5
<1>3. heap' \in [Objects -> Session]
  <2>1. CASE heap' = Collected(heap)
    BY <1>1, <2>1 DEF Collected
  <2>2. ASSUME NEW r \in Requests, NEW k \in Keys, SetAttribute(r, k) \/ RemoveAttribute(r, k)
        PROVE heap' \in [Objects -> Session]
    <3>1. pc[r] \notin {"idle", "get"}
      BY <2>2 DEF SetAttribute, RemoveAttribute, Valid
    <3>2. object[r] \in Objects /\ heap[object[r]].attributes \subseteq Keys
      BY <3>1, Works
    <3>3. PICK a \in SUBSET Keys : heap' = [heap EXCEPT ![object[r]].attributes = a]
      BY <2>2, <3>2 DEF SetAttribute, RemoveAttribute
    <3>4. QED
      BY <1>1, <3>2, <3>3, AttributesWritten
  <2>3. ASSUME NEW r \in Requests, Touch(r) \/ SetChanged(r) \/ RemoveFlag(r) \/ Update(r)
        PROVE heap' \in [Objects -> Session]
    <3>1. object[r] \in Objects
      <4>1. pc[r] \notin {"idle", "get"}
        BY <2>3 DEF Touch, SetChanged, RemoveFlag, Update, Valid
      <4>2. QED
        BY <4>1, Works
    <3>2. UNCHANGED heap \/ \E b \in BOOLEAN : heap' = [heap EXCEPT ![object[r]].changed = b]
      BY <2>3, Zenon DEF Touch, SetChanged, RemoveFlag, Update
    <3>3. ASSUME NEW b \in BOOLEAN, heap' = [heap EXCEPT ![object[r]].changed = b]
          PROVE  heap' \in [Objects -> Session]
      BY <1>1, <3>1, <3>3, ChangedWritten
    <3>4. QED
      BY <1>1, <3>2, <3>3
  <2>4. ASSUME NEW r \in Requests, Stop(r) PROVE heap' \in [Objects -> Session]
    <3>1. pc[r] = "ready" /\ heap' = [heap EXCEPT ![object[r]] = [attributes |-> @.attributes, changed |-> TRUE, stopped |-> TRUE]]
      BY <2>4 DEF Stop, Valid
    <3>2. object[r] \in Objects
      BY <3>1, Works
    <3>3. QED
      BY <1>1, <3>1, <3>2, Stopped
  <2>5. ASSUME NEW r \in Requests, GetSession(r) PROVE heap' \in [Objects -> Session]
    <3>1. UNCHANGED heap \/ \E s \in redis : heap' = [heap EXCEPT ![NewObject] = s]
      BY <2>5 DEF GetSession
    <3>2. QED
      BY <1>1, <3>1
  <2>6. QED
    BY <1>1, <2>1, <2>2, <2>3, <2>4, <2>5, HeapStep
<1>4. cached' \in [Nodes -> Objects \cup {NoObject}]
  <2>1. ASSUME NEW n \in Nodes, DoCreate(n) PROVE cached' \in [Nodes -> Objects \cup {NoObject}]
    <3>1. cached' = [cached EXCEPT ![n] = NewObject] /\ NewObject \in Objects
      BY <2>1, First DEF DoCreate
    <3>2. QED
      BY <1>1, <3>1
  <2>2. ASSUME NEW r \in Requests, CacheRead(r) PROVE cached' \in [Nodes -> Objects \cup {NoObject}]
    <3>1. cached' = [cached EXCEPT ![node[r]] = object[r]] /\ object[r] \in Objects
      BY <2>2, Works DEF CacheRead
    <3>2. QED
      BY <1>1, <3>1
  <2>3. ASSUME NEW r \in Requests, Uncache(r) PROVE cached' \in [Nodes -> Objects \cup {NoObject}]
    BY <1>1, <2>3 DEF Uncache
  <2>4. \/ UNCHANGED cached \/ \E n \in Nodes : DoCreate(n)
        \/ \E r \in Requests : CacheRead(r) \/ Uncache(r)
    BY DEF Next, Expire, Tick, DoReadSession, SetAttribute, RemoveAttribute, GetSession, SaveRead, Invalid, Touch,
        SetChanged, RemoveFlag, Update, SaveUpdate, Stop, Delete, EndRequest, vars, ghost
  <2>5. QED
    BY <1>1, <2>1, <2>2, <2>3, <2>4
<1>5. age' \in [Nodes -> 0..(TimeToLive + 1)]
  <2>1. CASE Tick
    <3>1. \A n \in Nodes : Saturate(age[n]) \in 0..(TimeToLive + 1)
      BY <1>1 DEF Saturate
    <3>2. QED
      BY <2>1, <3>1 DEF Tick
  <2>2. ASSUME NEW n, age' = [age EXCEPT ![n] = 0] PROVE age' \in [Nodes -> 0..(TimeToLive + 1)]
    <3>1. \A m \in Nodes : age'[m] = 0 \/ age'[m] = age[m]
      BY <1>1, <2>2
    <3>2. 0 \in 0..(TimeToLive + 1)
      BY <1>1
    <3>3. QED
      BY <1>1, <2>2, <3>1, <3>2
  <2>3. UNCHANGED age \/ Tick \/ \E n : age' = [age EXCEPT ![n] = 0]
    BY DEF Next, Expire, DoCreate, DoReadSession, SetAttribute, RemoveAttribute, GetSession, SaveRead, CacheRead,
        Invalid, Touch, SetChanged, RemoveFlag, Update, SaveUpdate, Stop, Uncache, Delete, EndRequest, vars, ghost
  <2>4. QED
    BY <1>1, <2>1, <2>2, <2>3
<1>6. QED
  BY <1>2, <1>3, <1>4, <1>5 DEF Copies

(* Nothing happens to a session before doCreate.                           *)
LEMMA UncreatedStep ==
  ASSUME Types, [Next]_vars
  PROVE  Uncreated'
<1>1. CASE created
  <2>1. created'
    BY <1>1 DEF Next, Expire, Tick, DoCreate, DoReadSession, SetAttribute, RemoveAttribute, GetSession, SaveRead,
        CacheRead, Invalid, Touch, SetChanged, RemoveFlag, Update, SaveUpdate, Stop, Uncache, Delete, EndRequest,
        request, vars, ghost
  <2>2. QED
    BY <2>1 DEF Uncreated
<1>2. CASE ~created
  <2>1. /\ redis = {} /\ intended = {}
        /\ \A o \in Objects : heap[o] = Fresh
        /\ \A n \in Nodes : cached[n] = NoObject
        /\ \A r \in Requests : pc[r] = "idle"
    BY <1>2 DEF Types, Uncreated
  <2>2. created' \/ UNCHANGED <<redis, intended, heap, cached, pc>>
    BY <1>2, <2>1 DEF Next, Expire, Tick, DoCreate, DoReadSession, SetAttribute, RemoveAttribute, GetSession, SaveRead,
        CacheRead, Invalid, Touch, SetChanged, RemoveFlag, Update, SaveUpdate, Stop, Uncache, Delete, EndRequest,
        Valid, request, vars, ghost
  <2>3. QED
    BY <2>1, <2>2 DEF Uncreated
<1>3. QED
  BY <1>1, <1>2

(* The types are an inductive invariant.                                   *)
LEMMA TypesInductive ==
  /\ Init => Types
  /\ Types /\ [Next]_vars => Types'
<1>1. ASSUME Init PROVE Types
  <2>1. Copies
    <3>1. Cardinality(redis) = 0 /\ redis = {}
      BY <1>1, FS_EmptySet DEF Init
    <3>2. Fresh \in Session
      BY DEF Fresh, Session
    <3>3. QED
      BY <1>1, <3>1, <3>2, SessionAssumption DEF Init, Copies
  <2>2. Served
    BY <1>1 DEF Init, Served, Labels
  <2>3. Intent
    <3>1. created \in BOOLEAN /\ disturbed \in BOOLEAN
      BY <1>1, Zenon DEF Init
    <3>2. QED
      BY <1>1, <3>1, SessionAssumption DEF Init, Intent
  <2>4. Uncreated
    BY <1>1 DEF Init, Uncreated
  <2>5. QED
    BY <2>1, <2>2, <2>3, <2>4 DEF Types
<1>2. ASSUME Types, [Next]_vars PROVE Types'
  BY <1>2, CopiesStep, ServedStep, IntentStep, UncreatedStep DEF Types
<1>3. QED
  BY <1>1, <1>2

(* The types hold always.                                                  *)
LEMMA AlwaysTypes == Spec => []Types
BY TypesInductive, PTL DEF Spec

(* The types, and that nothing works on a session that Redis did not have.  *)
THEOREM SessionType == Spec => []TypeOK
<1>1. Types => TypeOK
  BY Zenon DEF Types, Copies, Served, Intent, TypeOK
<1>2. QED
  BY <1>1, AlwaysTypes, PTL

(* What is in neither Redis, the requests nor the caches never comes back.  *)
THEOREM SessionGoneForGood == Spec => GoneForGood
<1>1. ASSUME Types, [Next]_vars, Gone PROVE Gone'
  <2>1. /\ created /\ redis = {} /\ \A r \in Requests : object[r] = NoObject
        /\ \A n \in Nodes : LoggedIn(cached[n]) => age[n] > TimeToLive
    BY <1>1 DEF Gone
  <2>2. \A r \in Requests : pc[r] \in {"idle", "get"}
    BY <1>1, <2>1 DEF Types, Served
  <2>3. age \in [Nodes -> 0..(TimeToLive + 1)] /\ TimeToLive \in Nat
    BY <1>1, SessionAssumption DEF Types, Copies
  <2>4. ASSUME UNCHANGED <<created, redis, object, heap, cached, age>> PROVE Gone'
    BY <2>1, <2>4 DEF Gone, LoggedIn
  <2>5. CASE Tick
    <3>1. UNCHANGED <<created, redis, object, heap, cached>> /\ age' = [n \in Nodes |-> Saturate(age[n])]
      BY <2>5 DEF Tick, request
    <3>2. \A n \in Nodes : age[n] > TimeToLive => age'[n] > TimeToLive
      BY <2>3, <3>1 DEF Saturate
    <3>3. QED
      BY <2>1, <3>1, <3>2 DEF Gone, LoggedIn
  <2>6. ASSUME NEW r \in Requests, NEW n \in Nodes, DoReadSession(r, n) PROVE Gone'
    <3>1. ~LoggedIn(CacheSession(n))
      <4>1. CASE age[n] > TimeToLive
        BY <4>1 DEF CacheSession, LoggedIn
      <4>2. CASE ~(age[n] > TimeToLive)
        BY <2>1, <4>2 DEF CacheSession
      <4>3. QED
        BY <4>1, <4>2
    <3>2. QED
      BY <2>4, <2>6, <3>1 DEF DoReadSession
  <2>7. ASSUME NEW r \in Requests, GetSession(r) PROVE Gone'
    <3>1. Leave(r) /\ UNCHANGED <<redis, heap, cached, age, created>>
      BY <2>1, <2>7 DEF GetSession
    <3>2. \A q \in Requests : object'[q] = NoObject
      BY <1>1, <2>1, <3>1 DEF Leave, Types, Served
    <3>3. QED
      BY <2>1, <3>1, <3>2 DEF Gone, LoggedIn
  <2>8. CASE UNCHANGED vars
    BY <2>4, <2>8 DEF vars
  <2>9. QED
    BY <1>1, <2>1, <2>2, <2>5, <2>6, <2>7, <2>8
       DEF Next, Expire, DoCreate, SetAttribute, RemoveAttribute, SaveRead, CacheRead, Invalid, Touch,
           SetChanged, RemoveFlag, Update, SaveUpdate, Stop, Uncache, Delete, EndRequest, Valid
<1>2. Types /\ [Next]_vars => [Gone => Gone']_vars
  BY <1>1
<1>3. QED
  BY <1>2, AlwaysTypes, PTL DEF Spec, GoneForGood

-----------------------------------------------------------------------------
(* A request stays alone until another begins.                              *)
LEMMA AloneStep ==
  ASSUME Types, Alone, [Next]_vars
  PROVE  Alone'
<1>1. pc \in [Requests -> Labels]
  BY DEF Types, Served
<1>2. ASSUME UNCHANGED <<pc, unfit>> PROVE Alone'
  BY <1>2 DEF Alone
<1>3. ASSUME NEW r \in Requests, Leave(r) PROVE Alone'
  <2>1. pc' = [pc EXCEPT ![r] = "idle"] /\ unfit' = unfit \ {r}
    BY <1>3 DEF Leave, Goto
  <2>2. QED
    BY <1>1, <2>1 DEF Alone
<1>4. ASSUME NEW r \in Requests, NEW l, pc[r] # "idle", Goto(r, l), UNCHANGED unfit PROVE Alone'
  <2>1. /\ pc' = [pc EXCEPT ![r] = l] /\ unfit' = unfit
        /\ \A q \in Requests : pc'[q] # "idle" => pc[q] # "idle"
    BY <1>1, <1>4 DEF Goto
  <2>2. QED
    BY <2>1 DEF Alone
<1>5. ASSUME NEW r \in Requests, NEW n \in Nodes, DoReadSession(r, n) PROVE Alone'
  <2> DEFINE running == {q \in Requests : pc[q] # "idle"}
  <2>1. \A q \in Requests : q # r => pc'[q] = pc[q]
    BY <1>1, <1>5 DEF DoReadSession, Goto
  <2>2. CASE running = {}
    <3>1. \A q \in Requests : q # r => pc'[q] = "idle"
      BY <2>1, <2>2
    <3>2. QED
      BY <3>1 DEF Alone
  <2>3. CASE running # {}
    <3>1. unfit' = unfit \cup running \cup {r}
      BY <1>5, <2>3 DEF DoReadSession, Begins
    <3>2. \A q \in Requests : pc'[q] # "idle" => q \in unfit'
      BY <2>1, <3>1
    <3>3. QED
      BY <3>2 DEF Alone
  <2>4. QED
    BY <2>2, <2>3
<1>6. ASSUME NEW r \in Requests, NEW k \in Keys, SetAttribute(r, k) \/ RemoveAttribute(r, k) PROVE Alone'
  BY <1>4, <1>6 DEF SetAttribute, RemoveAttribute, Valid, Changes
<1>7. ASSUME NEW r \in Requests, GetSession(r) PROVE Alone'
  <2>1. pc[r] = "get" /\ (Leave(r) \/ (UNCHANGED unfit /\ \E l : Goto(r, l)))
    BY <1>7 DEF GetSession, ghost
  <2>2. QED
    BY <1>3, <1>4, <2>1
<1>8. ASSUME NEW r \in Requests,
             \/ SaveRead(r) \/ CacheRead(r) \/ Invalid(r) \/ Touch(r) \/ SetChanged(r) \/ RemoveFlag(r)
             \/ Update(r) \/ SaveUpdate(r) \/ Stop(r) \/ Uncache(r)
      PROVE  Alone'
  <2>1. pc[r] # "idle" /\ UNCHANGED unfit /\ \E l : Goto(r, l)
    BY <1>8 DEF SaveRead, CacheRead, Invalid, Touch, SetChanged, RemoveFlag, Update, SaveUpdate, Stop, Uncache,
       Valid, Changes, ghost
  <2>2. QED
    BY <1>4, <2>1
<1>9. ASSUME NEW r \in Requests, Delete(r) \/ EndRequest(r) PROVE Alone'
  BY <1>3, <1>9 DEF Delete, EndRequest
<1>10. CASE Expire \/ Tick \/ (\E n \in Nodes : DoCreate(n)) \/ UNCHANGED vars
  BY <1>2, <1>10 DEF Expire, Tick, DoCreate, vars, ghost
<1>11. QED
  BY <1>5, <1>6, <1>7, <1>8, <1>9, <1>10 DEF Next

(* What a running request means for the others: they change nothing.        *)
LEMMA OthersIdle ==
  ASSUME Alone, InStep, NEW r \in Requests, pc[r] # "idle", NEW q \in Requests, q # r
  PROVE  /\ ~Changing(q)
         /\ pc[q] = "idle" \/ (q \in unfit /\ r \in unfit)
<1>1. pc[q] = "idle" \/ (q \in unfit /\ r \in unfit)
  BY DEF Alone
<1>2. Fit(q)
  BY DEF InStep, Good
<1>3. QED
  BY <1>1, <1>2 DEF Fit, Changing

(* Steps that leave the attributes of the objects as they are, and mark     *)
(* none as changed, leave the other requests as they are.                   *)
LEMMA OthersKept ==
  ASSUME Alone, InStep, NEW r \in Requests, pc[r] # "idle", NEW q \in Requests, q # r,
         pc'[q] = pc[q], object'[q] = object[q], q \in unfit => q \in unfit', intended' = intended,
         pc[q] # "idle" => /\ heap'[object[q]].attributes = heap[object[q]].attributes \/ pc[q] = "get"
                           /\ pc[q] = "update" /\ heap'[object[q]].changed /\ ~heap'[object[q]].stopped =>
                                heap[object[q]].changed /\ ~heap[object[q]].stopped
  PROVE  Good(q)' /\ ~Changing(q)'
<1>1. ~Changing(q) /\ (pc[q] = "idle" \/ q \in unfit')
  BY OthersIdle
<1>2. ~Changing(q)'
  BY <1>1 DEF Changing
<1>3. Running(q)'
  BY <1>1 DEF Running, Changing
<1>4. Current(q)'
  <2>1. pc[q] \in {"saveRead", "cache"} => heap[object[q]].attributes = intended
    BY DEF InStep, Good, Current, Attr
  <2>2. QED
    BY <1>1, <2>1 DEF Current, Attr
<1>5. OwnCopy(q)'
  BY <1>1 DEF OwnCopy
<1>6. QED
  BY <1>2, <1>3, <1>4, <1>5 DEF Good, Fit

(* A step of a running request after which all the other requests are good. *)
LEMMA StepOf ==
  ASSUME Alone, InStep, NEW r \in Requests, pc[r] # "idle",
         \A q \in Requests : q # r => Good(q)' /\ ~Changing(q)',
         Good(r)', CachedCurrent',
         (~Changing(r) => \A s \in redis : s.attributes = intended) =>
           (~Changing(r)' => \A s \in redis' : s.attributes = intended')
  PROVE  InStep'
<1>1. \A q \in Requests : q # r => ~Changing(q)
  BY OthersIdle
<1>2. ~Changing(r) => \A s \in redis : s.attributes = intended
  BY <1>1 DEF InStep, InSync
<1>3. InSync'
  BY <1>2 DEF InSync
<1>4. \A q \in Requests : Good(q)'
  OBVIOUS
<1>5. QED
  BY <1>3, <1>4 DEF InStep

-----------------------------------------------------------------------------
(* Steps that change neither attributes nor who refers to which object.     *)
LEMMA AttributesKept ==
  ASSUME Types, InStep, NEW r \in Requests,
         NEW l \in Labels \ {"idle", "get", "saveRead"}, Goto(r, l),
         pc[r] \notin {"idle", "get", "cache"}, l = "cache" <=> pc[r] = "saveRead",
         UNCHANGED <<cached, age, object, node, intended, writeAge, writer, unfit>>,
         \A o \in Objects : heap'[o].attributes = heap[o].attributes
  PROVE  Current(r)' /\ OwnCopy(r)' /\ CachedCurrent'
<1>1. /\ pc \in [Requests -> Labels] /\ cached \in [Nodes -> Objects \cup {NoObject}]
      /\ object[r] \in Objects /\ node[r] \in Nodes
  BY Works DEF Types, Served, Copies
<1>2. pc'[r] = l
  BY <1>1 DEF Goto
<1>3. /\ cached' = cached /\ age' = age /\ object' = object /\ node' = node /\ writer' = writer
      /\ intended' = intended /\ writeAge' = writeAge /\ unfit' = unfit
  OBVIOUS
<1>4. Current(r)'
  <2>1. Attr(r)' = Attr(r)
    BY <1>1, <1>3 DEF Attr
  <2>2. Current(r)
    BY DEF InStep, Good
  <2>3. QED
    BY <1>2, <1>3, <2>1, <2>2 DEF Current
<1>5. \A n \in Nodes : Usable(n)' <=> Usable(n)
  BY <1>1, <1>3 DEF Usable, LoggedIn, CacheSession
<1>6. OwnCopy(r)'
  <2>1. OwnCopy(r)
    BY DEF InStep, Good
  <2>2. Usable(node[r])' <=> Usable(node[r])
    BY <1>1, <1>3 DEF Usable, LoggedIn, CacheSession
  <2>3. QED
    BY <1>2, <1>3, <2>1, <2>2 DEF OwnCopy
<1>7. CachedCurrent'
  <2>1. ASSUME NEW n \in Nodes, Usable(n) PROVE heap'[cached[n]].attributes = heap[cached[n]].attributes
    BY <1>1, <2>1 DEF Usable, LoggedIn, CacheSession
  <2>2. QED
    BY <1>3, <1>5, <2>1 DEF InStep, CachedCurrent
<1>8. QED
  BY <1>4, <1>6, <1>7

(* A setter of a request that is alone.                                     *)
LEMMA AttributesChanged ==
  ASSUME Types, InStep, NEW r \in Requests, r \notin unfit,
         pc[r] \in {"ready", "remove"}, NEW l \in {"flag", "update"}, Goto(r, l),
         UNCHANGED <<cached, age, object, node>>, writeAge' = 0, writer' = {node[r]},
         NEW a \in SUBSET Keys, heap' = [heap EXCEPT ![object[r]].attributes = a], intended' = a
  PROVE  Current(r)' /\ OwnCopy(r)' /\ CachedCurrent'
<1>1. /\ pc \in [Requests -> Labels] /\ cached \in [Nodes -> Objects \cup {NoObject}]
      /\ object[r] \in Objects /\ node[r] \in Nodes /\ heap \in [Objects -> Session]
      /\ age \in [Nodes -> 0..(TimeToLive + 1)] /\ TimeToLive \in Nat
  BY Works, SessionAssumption DEF Types, Served, Copies
<1>2. pc'[r] = l /\ cached' = cached /\ age' = age /\ object' = object /\ node' = node
  BY <1>1 DEF Goto
<1>3. heap'[object[r]].attributes = a /\ \A o \in Objects : o # object[r] => heap'[o] = heap[o]
  BY <1>1, AttributesWritten
<1>4. Current(r)'
  BY <1>2, <1>3 DEF Current, Attr
<1>5. object[r] = cached[node[r]] \/ ~Usable(node[r])
  BY DEF InStep, Good, OwnCopy
<1>6. object[r] = cached[node[r]] \/ ~Usable(node[r])'
  BY <1>1, <1>2, <1>3, <1>5 DEF Usable, LoggedIn, CacheSession
<1>7. OwnCopy(r)'
  BY <1>2, <1>6 DEF OwnCopy
<1>8. CachedCurrent'
  <2>1. ASSUME NEW n \in Nodes, Usable(n)', writer' \subseteq {n} \/ writeAge' > age'[n]
        PROVE  heap'[cached'[n]].attributes = intended'
    <3>1. ~(0 > age[n])
      BY <1>1
    <3>2. n = node[r]
      BY <1>2, <2>1, <3>1
    <3>3. QED
      BY <1>2, <1>3, <1>6, <2>1, <3>2
  <2>2. QED
    BY <2>1 DEF CachedCurrent
<1>9. QED
  BY <1>4, <1>7, <1>8

(* Setters, and the touch, update and stop that go with them.               *)
LEMMA OperationStep ==
  ASSUME Types, Alone, InStep, ~disturbed', NEW r \in Requests,
         \/ SaveRead(r) \/ Invalid(r) \/ Touch(r) \/ SetChanged(r) \/ RemoveFlag(r)
         \/ Update(r) \/ SaveUpdate(r) \/ Stop(r)
  PROVE  InStep'
<1>1. /\ pc \in [Requests -> Labels] /\ pc[r] \notin {"idle", "get", "cache"}
      /\ UNCHANGED <<cached, age, object, node, intended, writeAge, writer, unfit>>
  BY DEF SaveRead, Invalid, Touch, SetChanged, RemoveFlag, Update, SaveUpdate, Stop, Valid, Changes, request, ghost,
         Types, Served
<1>2. PICK l \in Labels \ {"idle", "get", "saveRead"} : Goto(r, l) /\ (l = "cache" <=> pc[r] = "saveRead")
  BY DEF SaveRead, Invalid, Touch, SetChanged, RemoveFlag, Update, SaveUpdate, Stop, Valid, Labels
<1>3. /\ object[r] \in Objects /\ node[r] \in Nodes /\ heap[object[r]] \in Session
      /\ heap \in [Objects -> Session]
  BY <1>1, Works DEF Types, Copies
<1>4. /\ pc'[r] = l /\ object' = object /\ node' = node /\ intended' = intended /\ unfit' = unfit
      /\ \A q \in Requests : q # r => pc'[q] = pc[q]
  BY <1>1, <1>2 DEF Goto
<1>5. \A o \in Objects : heap'[o].attributes = heap[o].attributes
  <2>1. ASSUME NEW b \in BOOLEAN, heap' = [heap EXCEPT ![object[r]].changed = b]
        PROVE  \A o \in Objects : heap'[o].attributes = heap[o].attributes
    BY <1>3, <2>1, ChangedWritten
  <2>2. CASE Stop(r)
    BY <1>3, <2>2, Stopped DEF Stop
  <2>3. UNCHANGED heap \/ Stop(r) \/ \E b \in BOOLEAN : heap' = [heap EXCEPT ![object[r]].changed = b]
    BY Zenon DEF SaveRead, Invalid, Touch, SetChanged, RemoveFlag, Update, SaveUpdate, SaveSession
  <2>4. QED
    BY <2>1, <2>2, <2>3
<1>6. Current(r)' /\ OwnCopy(r)' /\ CachedCurrent'
  BY <1>1, <1>2, <1>5, AttributesKept
<1>7. /\ Changing(r) => r \notin unfit
      /\ pc[r] \in {"flag", "remove"} => ~heap[object[r]].stopped
      /\ pc[r] = "remove" => heap[object[r]].changed
      /\ pc[r] = "saveRead" \/ r \notin unfit => heap[object[r]].attributes = intended
  <2>1. Fit(r) /\ Running(r) /\ Current(r)
    BY DEF InStep, Good
  <2>2. QED
    BY <1>1, <2>1 DEF Fit, Running, Current, Attr
<1>8. /\ SetChanged(r) \/ RemoveFlag(r) => r \notin unfit
      /\ SetChanged(r) => pc[r] = "flag"
  <2>1. SetChanged(r) => pc[r] = "flag"
    BY DEF SetChanged
  <2>2. RemoveFlag(r) => r \notin unfit
    BY DEF RemoveFlag, Changes
  <2>3. QED
    BY <1>7, <2>1, <2>2 DEF Changing
<1>9. ASSUME NEW q \in Requests, q # r PROVE Good(q)' /\ ~Changing(q)'
  <2>1. CASE pc[q] = "idle"
    BY <1>1, <1>4, <1>9, <2>1, OthersKept
  <2>2. CASE pc[q] # "idle"
    <3>1. q \in unfit /\ r \in unfit
      BY <1>1, <1>9, <2>2, OthersIdle
    <3>2. ~SetChanged(r) /\ ~RemoveFlag(r)
      BY <1>8, <3>1
    <3>3. ASSUME NEW o \in Objects, heap'[o].changed, ~heap'[o].stopped
          PROVE  heap[o].changed /\ ~heap[o].stopped
      <4>1. ASSUME heap' = [heap EXCEPT ![object[r]].changed = FALSE] PROVE heap[o].changed /\ ~heap[o].stopped
        BY <1>3, <3>3, <4>1, ChangedWritten
      <4>2. CASE Stop(r)
        BY <1>3, <3>3, <4>2, Stopped DEF Stop
      <4>3. UNCHANGED heap \/ Stop(r) \/ heap' = [heap EXCEPT ![object[r]].changed = FALSE]
        BY <3>2, Zenon DEF SaveRead, Invalid, Touch, Update, SaveUpdate, SaveSession
      <4>4. QED
        BY <3>3, <4>1, <4>2, <4>3
    <3>4. pc[q] # "get" => object[q] \in Objects
      BY <2>2, Works
    <3>5. QED
      BY <1>1, <1>4, <1>5, <1>9, <2>2, <3>3, <3>4, OthersKept
  <2>3. QED
    BY <2>1, <2>2
<1> SUFFICES /\ Changing(r)' => r \notin unfit'
             /\ pc'[r] \in {"flag", "remove"} => ~heap'[object'[r]].stopped
             /\ pc'[r] = "remove" => heap'[object'[r]].changed
             /\ (~Changing(r) => \A s \in redis : s.attributes = intended) =>
                  (~Changing(r)' => \A s \in redis' : s.attributes = intended')
  <2>1. Good(r)'
    BY <1>6 DEF Good, Fit, Running
  <2>2. pc[r] # "idle"
    BY <1>1
  <2>3. QED
    BY <1>6, <1>9, <2>1, <2>2, StepOf
<1>10. CASE SaveRead(r) \/ SaveUpdate(r)
  <2>1. /\ redis' = {heap[object[r]]} /\ pc'[r] \in {"cache", "ready"}
        /\ pc[r] \in {"saveRead", "save"}
    BY <1>1, <1>10 DEF SaveRead, SaveUpdate, SaveSession, Goto
  <2>2. heap[object[r]].attributes = intended
    BY <1>7, <2>1 DEF Changing
  <2>3. QED
    BY <1>4, <2>1, <2>2 DEF Changing
<1>11. CASE Invalid(r) \/ Stop(r)
  <2>1. redis' = redis /\ pc'[r] = "uncache" /\ pc[r] = "ready"
    BY <1>1, <1>11 DEF Invalid, Stop, Valid, Goto
  <2>2. QED
    BY <1>4, <2>1 DEF Changing
<1>12. CASE Touch(r)
  <2>1. /\ redis' = redis /\ pc'[r] = "update" /\ pc[r] = "ready" /\ ~heap[object[r]].stopped
        /\ heap' = [heap EXCEPT ![object[r]].changed = FALSE]
    BY <1>1, <1>12 DEF Touch, Valid, Goto
  <2>2. ~heap'[object[r]].changed
    BY <1>3, <2>1, ChangedWritten
  <2>3. QED
    BY <1>4, <2>1, <2>2 DEF Changing
<1>13. CASE SetChanged(r) \/ RemoveFlag(r)
  <2>1. /\ redis' = redis /\ heap' = [heap EXCEPT ![object[r]].changed = TRUE]
        /\ ~heap[object[r]].stopped /\ r \notin unfit
        /\ \/ pc[r] = "flag" /\ pc'[r] = "update"
           \/ pc[r] = "ready" /\ pc'[r] = "remove"
    BY <1>1, <1>7, <1>8, <1>13 DEF SetChanged, RemoveFlag, Valid, Goto
  <2>2. ~heap'[object[r]].stopped /\ heap'[object[r]].changed
    BY <1>3, <2>1, ChangedWritten
  <2>3. QED
    BY <1>4, <2>1, <2>2 DEF Changing
<1>14. CASE Update(r)
  <2>1. redis' = redis /\ pc[r] = "update"
    BY <1>14 DEF Update
  <2>2. \/ (heap[object[r]].stopped \/ ~heap[object[r]].changed) /\ pc'[r] = "ready"
        \/ heap[object[r]].changed /\ ~heap[object[r]].stopped /\ pc'[r] = "save"
    BY <1>1, <1>14 DEF Update, Goto
  <2>3. QED
    BY <1>4, <1>7, <2>1, <2>2 DEF Changing
<1>15. QED
  BY <1>10, <1>11, <1>12, <1>13, <1>14

(* The half of a setter that changes an attribute.                         *)
LEMMA SetterStep ==
  ASSUME Types, Alone, InStep, ~disturbed', NEW r \in Requests,
         NEW k \in Keys, SetAttribute(r, k) \/ RemoveAttribute(r, k)
  PROVE  InStep'
<1>1. /\ pc \in [Requests -> Labels] /\ pc[r] \in {"ready", "remove"}
      /\ UNCHANGED <<cached, age, object, node, redis, unfit>> /\ writeAge' = 0 /\ writer' = {node[r]}
      /\ r \notin unfit
      /\ ~heap[object[r]].stopped /\ (pc[r] = "remove" => heap[object[r]].changed)
      /\ \/ pc[r] = "ready" /\ pc'[r] = "flag" /\ Goto(r, "flag")
         \/ pc[r] = "remove" /\ pc'[r] = "update" /\ Goto(r, "update")
  <2>1. pc \in [Requests -> Labels]
    BY DEF Types, Served
  <2>2. pc[r] = "remove" => ~heap[object[r]].stopped /\ heap[object[r]].changed
    BY DEF InStep, Good, Running
  <2>3. QED
    BY <2>1, <2>2 DEF SetAttribute, RemoveAttribute, Valid, Changes, request, Goto
<1>2. object[r] \in Objects /\ heap[object[r]].attributes \subseteq Keys /\ heap \in [Objects -> Session]
  BY <1>1, Works DEF Types, Copies
<1>3. heap[object[r]].attributes = intended
  BY <1>1 DEF InStep, Good, Current, Attr
<1>4. PICK a \in SUBSET Keys : heap' = [heap EXCEPT ![object[r]].attributes = a] /\ intended' = a
  BY <1>2, <1>3 DEF SetAttribute, RemoveAttribute
<1>5. Current(r)' /\ OwnCopy(r)' /\ CachedCurrent'
  BY <1>1, <1>4, AttributesChanged
<1>6. heap'[object[r]] = [attributes |-> a, changed |-> heap[object[r]].changed, stopped |-> heap[object[r]].stopped]
  BY <1>2, <1>4, AttributesWritten
<1>7. ~heap'[object'[r]].stopped /\ (pc[r] = "remove" => heap'[object'[r]].changed)
  BY <1>1, <1>6
<1>8. Changing(r)' /\ r \notin unfit'
  BY <1>1, <1>7 DEF Changing
<1>9. Good(r)'
  BY <1>1, <1>5, <1>7, <1>8 DEF Good, Fit, Running
<1>10. ASSUME NEW q \in Requests, q # r PROVE Good(q)' /\ ~Changing(q)'
  <2>1. pc'[q] = "idle"
    BY <1>1, <1>10, OthersIdle DEF Goto
  <2>2. QED
    BY <2>1 DEF Good, Fit, Running, Current, OwnCopy, Changing
<1>11. pc[r] # "idle"
  BY <1>1
<1>12. QED
  BY <1>5, <1>8, <1>9, <1>10, <1>11, StepOf

(* The read: from the node's cache, or from Redis.                          *)
LEMMA ReadStep ==
  ASSUME Types, Alone, InStep, ~disturbed', NEW r \in Requests, NEW n \in Nodes,
         DoReadSession(r, n)
  PROVE  InStep'
<1> DEFINE running == {q \in Requests : pc[q] # "idle"}
<1>1. /\ pc \in [Requests -> Labels] /\ node \in [Requests -> Nodes \cup {NoNode}]
      /\ object \in [Requests -> Objects \cup {NoObject}]
      /\ age \in [Nodes -> 0..(TimeToLive + 1)] /\ TimeToLive \in Nat
      /\ writeAge \in 0..(TimeToLive + 1)
  BY SessionAssumption DEF Types, Served, Copies, Intent
<1>2. /\ pc[r] = "idle" /\ node'[r] = n
      /\ UNCHANGED <<redis, heap, cached, age, intended, writeAge, writer>>
      /\ \/ LoggedIn(CacheSession(n)) /\ object'[r] = CacheSession(n) /\ pc'[r] = "ready"
         \/ ~LoggedIn(CacheSession(n)) /\ object' = object /\ pc'[r] = "get"
      /\ \A q \in Requests : q # r => pc'[q] = pc[q] /\ object'[q] = object[q] /\ node'[q] = node[q]
  BY <1>1 DEF DoReadSession, Begins, Goto
<1>3. /\ \A q \in running : ~Changing(q)
      /\ unfit' = IF running = {} /\ (writer \subseteq {n} \/ writeAge > TimeToLive)
                  THEN unfit ELSE unfit \cup running \cup {r}
  BY DEF DoReadSession, Begins
<1>4. \A q \in Requests : ~Changing(q)
  BY <1>3 DEF Changing
<1>5. Usable(n) => CacheSession(n) = cached[n] /\ ~(age[n] > TimeToLive)
  BY DEF Usable, LoggedIn, CacheSession
<1>6. ASSUME NEW q \in Requests, q # r PROVE Good(q)' /\ ~Changing(q)'
  <2>1. Good(q) /\ ~Changing(q)
    BY <1>4 DEF InStep
  <2>2. ~Changing(q)'
    BY <1>2, <1>6, <2>1 DEF Changing
  <2>3. pc[q] = "idle" \/ q \in unfit'
    BY <1>3
  <2>4. QED
    BY <1>2, <1>6, <2>1, <2>2, <2>3 DEF Good, Fit, Running, Current, OwnCopy, Attr, Changing
<1>7. Good(r)' /\ ~Changing(r)'
  <2>1. ~Changing(r)' /\ Running(r)'
    BY <1>2 DEF Changing, Running
  <2>2. ASSUME r \notin unfit' PROVE writer \subseteq {n} \/ writeAge > TimeToLive
    BY <1>3, <2>2
  <2>3. Current(r)'
    <3>1. ASSUME r \notin unfit', pc'[r] = "ready" PROVE heap[cached[n]].attributes = intended
      <4>1. Usable(n)
        BY <1>2, <3>1 DEF Usable
      <4>2. writer \subseteq {n} \/ writeAge > age[n]
        BY <1>1, <1>5, <2>2, <3>1, <4>1
      <4>3. QED
        BY <4>1, <4>2 DEF InStep, CachedCurrent
    <3>2. pc'[r] = "ready" => object'[r] = cached[n]
      BY <1>2, <1>5 DEF Usable
    <3>3. QED
      BY <1>2, <3>1, <3>2 DEF Current, Attr
  <2>4. OwnCopy(r)'
    <3>1. Usable(n)' <=> Usable(n)
      BY <1>2 DEF Usable, LoggedIn, CacheSession
    <3>2. pc'[r] = "ready" => object'[r] = cached[n]
      BY <1>2, <1>5 DEF Usable
    <3>3. pc'[r] # "ready" => ~Usable(n)
      BY <1>2 DEF Usable
    <3>4. QED
      BY <1>2, <3>1, <3>2, <3>3 DEF OwnCopy
  <2>5. QED
    BY <2>1, <2>3, <2>4 DEF Good, Fit
<1>8. InSync'
  BY <1>2, <1>4 DEF InStep, InSync
<1>9. CachedCurrent'
  BY <1>2 DEF InStep, CachedCurrent, Usable, LoggedIn, CacheSession
<1>10. QED
  BY <1>6, <1>7, <1>8, <1>9 DEF InStep

(* While a request reads, Redis is up to date.                              *)
LEMMA ReadCurrent ==
  ASSUME Alone, InStep, NEW r \in Requests, pc[r] = "get"
  PROVE  \A s \in redis : s.attributes = intended
<1>1. \A q \in Requests : q # r => ~Changing(q)
  BY OthersIdle
<1>2. ~Changing(r)
  BY DEF Changing
<1>3. QED
  BY <1>1, <1>2 DEF InStep, InSync

(* The read from Redis: an object of its own, up to date.                  *)
LEMMA GetStep ==
  ASSUME Types, Alone, InStep, NEW r \in Requests, GetSession(r)
  PROVE  InStep'
<1>1. /\ pc \in [Requests -> Labels] /\ node \in [Requests -> Nodes \cup {NoNode}]
      /\ object \in [Requests -> Objects \cup {NoObject}] /\ heap \in [Objects -> Session]
      /\ cached \in [Nodes -> Objects \cup {NoObject}]
  BY DEF Types, Served, Copies
<1>2. /\ pc[r] = "get" /\ object[r] = NoObject /\ node[r] \in Nodes
      /\ UNCHANGED <<redis, cached, age, intended, writeAge, writer>>
  BY DEF GetSession, Leave, Types, Served, ghost
<1>3. NewObject \in Objects /\ NewObject \notin Used
  BY <1>1, <1>2, Free
<1>4. \A s \in redis : s.attributes = intended
  BY <1>2, ReadCurrent
<1>5. CASE Leave(r) /\ UNCHANGED heap
  <2>1. /\ pc'[r] = "idle" /\ unfit' = unfit \ {r}
        /\ \A q \in Requests : q # r => pc'[q] = pc[q] /\ object'[q] = object[q]
    BY <1>1, <1>5 DEF Leave, Goto
  <2>2. CachedCurrent'
    BY <1>2, <1>5 DEF InStep, CachedCurrent, Usable, LoggedIn, CacheSession
  <2>3. Good(r)'
    BY <2>1 DEF Good, Fit, Running, Current, OwnCopy, Changing
  <2>4. \A q \in Requests : q # r => Good(q)' /\ ~Changing(q)'
    BY <1>2, <1>5, <2>1, OthersKept
  <2>5. pc[r] # "idle"
    BY <1>2
  <2>6. QED
    BY <1>2, <1>4, <2>2, <2>3, <2>4, <2>5, StepOf
<1>6. ASSUME NEW s \in redis, object' = [object EXCEPT ![r] = NewObject],
             heap' = [heap EXCEPT ![NewObject] = s],
             Goto(r, IF Principals \in s.attributes THEN "saveRead" ELSE "ready"), UNCHANGED <<node, ghost>>
      PROVE  InStep'
  <2>1. /\ object'[r] = NewObject /\ node' = node /\ unfit' = unfit
        /\ heap'[NewObject] = s /\ \A o \in Objects : o # NewObject => heap'[o] = heap[o]
        /\ pc'[r] \in {"saveRead", "ready"}
        /\ \A q \in Requests : q # r => pc'[q] = pc[q] /\ object'[q] = object[q]
    BY <1>1, <1>3, <1>6 DEF Goto, ghost
  <2>2. /\ \A n \in Nodes : cached[n] # NewObject
        /\ \A q \in Requests : object[q] # NewObject
    BY <1>1, <1>3, Identities DEF Used, Range
  <2>3. \A n \in Nodes : /\ Usable(n)' <=> Usable(n)
                         /\ Usable(n) => heap'[cached[n]] = heap[cached[n]]
    BY <1>1, <1>2, <2>1, <2>2 DEF Usable, LoggedIn, CacheSession
  <2>4. CachedCurrent'
    BY <1>2, <2>3 DEF InStep, CachedCurrent
  <2>5. ~Changing(r)' /\ Running(r)'
    BY <2>1 DEF Changing, Running
  <2>6. Current(r)'
    BY <1>2, <1>4, <2>1 DEF Current, Attr
  <2>7. OwnCopy(r)'
    <3>1. OwnCopy(r)
      BY DEF InStep, Good
    <3>2. r \notin unfit => ~Usable(node[r])
      <4>1. Usable(node[r]) => cached[node[r]] # NoObject
        BY <1>1, <1>2 DEF Usable, LoggedIn, CacheSession
      <4>2. QED
        BY <1>2, <3>1, <4>1 DEF OwnCopy
    <3>3. r \notin unfit' => ~Usable(node[r])'
      BY <1>2, <2>1, <2>3, <3>2
    <3>4. QED
      BY <3>3 DEF OwnCopy
  <2>8. Good(r)'
    BY <2>5, <2>6, <2>7 DEF Good, Fit
  <2>9. ASSUME NEW q \in Requests, q # r PROVE Good(q)' /\ ~Changing(q)'
    <3>1. pc[q] \notin {"idle", "get"} => object[q] \in Objects
      BY Works
    <3>2. pc[q] \notin {"idle", "get"} => heap'[object[q]] = heap[object[q]]
      BY <2>1, <2>2, <3>1
    <3>3. QED
      BY <1>2, <2>1, <2>9, <3>2, OthersKept
  <2>10. pc[r] # "idle"
    BY <1>2
  <2>11. QED
    BY <1>2, <1>4, <2>4, <2>8, <2>9, <2>10, StepOf
<1>7. QED
  BY <1>5, <1>6 DEF GetSession

(* Steps that drop references.  What is still referred to stays.            *)
LEMMA ReferenceStep ==
  ASSUME Types, Alone, InStep, NEW r \in Requests,
         CacheRead(r) \/ Uncache(r) \/ Delete(r) \/ EndRequest(r)
  PROVE  InStep'
<1>1. /\ pc \in [Requests -> Labels] /\ node \in [Requests -> Nodes \cup {NoNode}]
      /\ object \in [Requests -> Objects \cup {NoObject}] /\ heap \in [Objects -> Session]
      /\ cached \in [Nodes -> Objects \cup {NoObject}] /\ age \in [Nodes -> 0..(TimeToLive + 1)]
  BY DEF Types, Served, Copies
<1>2. /\ pc[r] \in {"cache", "uncache", "delete", "ready"} /\ heap' = Collected(heap)
      /\ UNCHANGED <<intended, writeAge, writer>> /\ (redis' = redis \/ redis' = {})
      /\ unfit' = unfit \/ unfit' = unfit \ {r}
  BY DEF CacheRead, Uncache, Delete, EndRequest, Leave, ghost
<1>3. object[r] \in Objects /\ node[r] \in Nodes
  BY <1>2, Works
<1>4. pc[r] = "cache" \/ r \notin unfit => heap[object[r]].attributes = intended
  BY <1>2 DEF InStep, Good, Current, Attr
<1>5. \A o \in Objects : o \in Range(object') \cup Range(cached') => heap'[o] = heap[o]
  BY <1>2 DEF Collected
<1>6. /\ cached' \in [Nodes -> Objects \cup {NoObject}] /\ object' \in [Requests -> Objects \cup {NoObject}]
      /\ \A q \in Requests : q # r => object'[q] = object[q] /\ pc'[q] = pc[q]
  BY <1>1, <1>3 DEF CacheRead, Uncache, Delete, EndRequest, Leave, Goto
<1>7. \A n \in Nodes : cached'[n] \in Objects => heap'[cached'[n]] = heap[cached'[n]]
  <2>1. \A n \in Nodes : cached'[n] \in Range(cached')
    BY <1>6 DEF Range
  <2>2. QED
    BY <1>5, <2>1
<1>8. \A q \in Requests : object'[q] \in Objects => heap'[object'[q]] = heap[object'[q]]
  <2>1. \A q \in Requests : object'[q] \in Range(object')
    BY <1>6 DEF Range
  <2>2. QED
    BY <1>5, <2>1
<1>9. ASSUME NEW n \in Nodes, cached'[n] = cached[n], age'[n] = age[n]
      PROVE  /\ Usable(n)' => Usable(n)
             /\ Usable(n)' /\ (writer' \subseteq {n} \/ writeAge' > age'[n]) => heap'[cached'[n]].attributes = intended'
  <2>1. Usable(n)' => Usable(n) /\ heap'[cached[n]] = heap[cached[n]]
    BY <1>1, <1>7, <1>9 DEF Usable, LoggedIn, CacheSession
  <2>2. QED
    BY <1>2, <1>9, <2>1 DEF InStep, CachedCurrent
<1>10. ASSUME NEW q \in Requests, q # r PROVE Good(q)' /\ ~Changing(q)'
  <2>1. pc[q] \notin {"idle", "get"} => object[q] \in Objects
    BY Works
  <2>2. pc[q] \notin {"idle", "get"} => heap'[object[q]] = heap[object[q]]
    BY <1>6, <1>8, <1>10, <2>1
  <2>3. q \in unfit => q \in unfit'
    BY <1>2, <1>10
  <2>4. pc[r] # "idle"
    BY <1>2
  <2>5. QED
    BY <1>2, <1>6, <1>10, <2>2, <2>3, <2>4, OthersKept
<1>11. ~Changing(r)
  BY <1>2 DEF Changing
<1>12. pc[r] # "idle"
  BY <1>2
<1> SUFFICES Good(r)' /\ CachedCurrent'
  BY <1>2, <1>10, <1>11, <1>12, StepOf
<1>13. CASE CacheRead(r)
  <2>1. /\ pc[r] = "cache" /\ pc'[r] = "ready" /\ object' = object /\ node' = node /\ redis' = redis
        /\ cached' = [cached EXCEPT ![node[r]] = object[r]]
        /\ age' = [age EXCEPT ![node[r]] = 0]
    BY <1>1, <1>13 DEF CacheRead, Goto, request
  <2>2. heap'[object[r]].attributes = intended /\ cached'[node[r]] = object[r]
    BY <1>1, <1>3, <1>4, <1>8, <2>1
  <2>3. CachedCurrent'
    <3>1. ASSUME NEW n \in Nodes, Usable(n)', writer' \subseteq {n} \/ writeAge' > age'[n]
          PROVE  heap'[cached'[n]].attributes = intended'
      <4>1. CASE n = node[r]
        BY <1>2, <2>2, <4>1
      <4>2. CASE n # node[r]
        <5>1. cached'[n] = cached[n] /\ age'[n] = age[n]
          BY <1>1, <2>1, <4>2
        <5>2. QED
          BY <1>9, <3>1, <5>1
      <4>3. QED
        BY <4>1, <4>2
    <3>2. QED
      BY <3>1 DEF CachedCurrent
  <2>4. Good(r)'
    BY <1>2, <2>1, <2>2 DEF Good, Fit, Running, Current, OwnCopy, Attr, Changing
  <2>5. QED
    BY <2>3, <2>4
<1>14. CASE Uncache(r)
  <2>1. /\ pc[r] = "uncache" /\ pc'[r] = "delete" /\ object' = object /\ node' = node /\ unfit' = unfit
        /\ cached' = [cached EXCEPT ![node[r]] = NoObject] /\ age' = age
    BY <1>1, <1>14 DEF Uncache, Goto, request, ghost
  <2>2. ~Usable(node[r])'
    BY <1>1, <1>3, <2>1 DEF Usable, LoggedIn, CacheSession
  <2>3. CachedCurrent'
    <3>1. ASSUME NEW n \in Nodes, Usable(n)', writer' \subseteq {n} \/ writeAge' > age'[n]
          PROVE  heap'[cached'[n]].attributes = intended'
      <4>1. n # node[r]
        BY <1>1, <1>3, <2>1, <3>1 DEF Usable, LoggedIn, CacheSession
      <4>2. cached'[n] = cached[n] /\ age'[n] = age[n]
        BY <1>1, <2>1, <4>1
      <4>3. QED
        BY <1>9, <3>1, <4>2
    <3>2. QED
      BY <3>1 DEF CachedCurrent
  <2>4. OwnCopy(r)'
    BY <2>1, <2>2 DEF OwnCopy
  <2>5. Current(r)'
    BY <1>2, <1>3, <1>4, <1>8, <2>1 DEF Current, Attr
  <2>6. Fit(r)' /\ Running(r)'
    BY <2>1 DEF Fit, Running, Changing
  <2>7. QED
    BY <2>3, <2>4, <2>5, <2>6 DEF Good
<1>15. CASE Delete(r) \/ EndRequest(r)
  <2>1. pc'[r] = "idle" /\ cached' = cached /\ age' = age
    BY <1>1, <1>15 DEF Delete, EndRequest, Leave, Goto
  <2>2. CachedCurrent'
    BY <1>9, <2>1 DEF CachedCurrent
  <2>3. Good(r)'
    BY <2>1 DEF Good, Fit, Running, Current, OwnCopy, Changing
  <2>4. QED
    BY <2>2, <2>3
<1>16. QED
  BY <1>13, <1>14, <1>15

(* Time, and what happens to the session in Redis.                          *)
LEMMA OtherStep ==
  ASSUME Types, InStep, Expire \/ Tick \/ (\E n \in Nodes : DoCreate(n)) \/ UNCHANGED vars
  PROVE  InStep'
<1>1. ASSUME UNCHANGED <<heap, cached, age, pc, node, object, intended, writeAge, writer, unfit>>,
             redis' = redis \/ redis' = {}
      PROVE  InStep'
  <2>1. \A r \in Requests : Good(r)' /\ (Changing(r)' <=> Changing(r))
    BY <1>1 DEF InStep, Good, Fit, Running, Current, OwnCopy, Changing, Attr, Usable, LoggedIn, CacheSession
  <2>2. CachedCurrent'
    BY <1>1 DEF InStep, CachedCurrent, Usable, LoggedIn, CacheSession
  <2>3. InSync'
    BY <1>1, <2>1 DEF InStep, InSync
  <2>4. QED
    BY <2>1, <2>2, <2>3 DEF InStep
<1>2. CASE Tick
  <2>1. /\ UNCHANGED <<redis, heap, cached, pc, node, object, intended, writer, unfit>>
        /\ age' = [n \in Nodes |-> Saturate(age[n])] /\ writeAge' = Saturate(writeAge)
    BY <1>2 DEF Tick, request
  <2>2. \A n \in Nodes : /\ writeAge' > age'[n] => writeAge > age[n]
                         /\ ~(age'[n] > TimeToLive) => ~(age[n] > TimeToLive)
    <3>1. /\ age \in [Nodes -> 0..(TimeToLive + 1)] /\ writeAge \in 0..(TimeToLive + 1) /\ TimeToLive \in Nat
      BY SessionAssumption DEF Types, Copies, Intent
    <3>2. QED
      BY <2>1, <3>1 DEF Saturate
  <2>3. \A n \in Nodes : Usable(n)' => Usable(n)
    BY <2>1, <2>2 DEF Usable, LoggedIn, CacheSession
  <2>4. CachedCurrent'
    BY <2>1, <2>2, <2>3 DEF InStep, CachedCurrent
  <2>5. ASSUME NEW r \in Requests PROVE Good(r)' /\ (Changing(r)' <=> Changing(r))
    <3>1. Changing(r)' <=> Changing(r)
      BY <2>1 DEF Changing
    <3>2. Good(r)
      BY DEF InStep
    <3>3. OwnCopy(r)'
      <4>1. pc[r] # "idle" => node[r] \in Nodes
        BY DEF Types, Served
      <4>2. pc[r] # "idle" => (Usable(node[r])' => Usable(node[r]))
        BY <2>1, <2>2, <4>1 DEF Usable, LoggedIn, CacheSession
      <4>3. QED
        BY <2>1, <3>2, <4>2 DEF Good, OwnCopy
    <3>4. Fit(r)' /\ Running(r)' /\ Current(r)'
      BY <2>1, <3>1, <3>2 DEF Good, Fit, Running, Current, Attr
    <3>5. QED
      BY <3>1, <3>3, <3>4 DEF Good
  <2>6. InSync'
    BY <2>1, <2>5 DEF InStep, InSync
  <2>7. QED
    BY <2>4, <2>5, <2>6 DEF InStep
<1>3. ASSUME NEW n \in Nodes, DoCreate(n) PROVE InStep'
  <2>1. /\ ~created /\ redis' = {Fresh} /\ UNCHANGED <<heap, pc, node, object, intended>>
        /\ cached' = [cached EXCEPT ![n] = NewObject]
    BY <1>3 DEF DoCreate, ghost
  <2>2. /\ intended = {} /\ \A o \in Objects : heap[o] = Fresh
        /\ \A m \in Nodes : cached[m] = NoObject
        /\ \A r \in Requests : pc[r] = "idle"
    BY <2>1 DEF Types, Uncreated
  <2>3. NewObject \in Objects
    BY <2>1, First
  <2>4. \A m \in Nodes : ~Usable(m)'
    <3>1. \A m \in Nodes : cached'[m] = NewObject \/ cached'[m] = NoObject
      BY <2>1, <2>2 DEF Types, Copies
    <3>2. heap'[NewObject].attributes = {}
      BY <2>1, <2>2, <2>3 DEF Fresh
    <3>3. QED
      BY <3>1, <3>2 DEF Usable, LoggedIn, CacheSession
  <2>5. CachedCurrent'
    BY <2>4 DEF CachedCurrent
  <2>6. Fresh.attributes = {}
    BY DEF Fresh
  <2>7. InSync'
    BY <2>1, <2>2, <2>6 DEF InSync
  <2>8. \A r \in Requests : Good(r)'
    BY <2>1, <2>2 DEF Good, Fit, Running, Current, OwnCopy, Changing
  <2>9. QED
    BY <2>5, <2>7, <2>8 DEF InStep
<1>4. Expire \/ UNCHANGED vars =>
        /\ UNCHANGED <<heap, cached, age, pc, node, object, intended, writeAge, writer, unfit>>
        /\ redis' = redis \/ redis' = {}
  BY DEF Expire, vars, request, ghost
<1>5. QED
  BY <1>1, <1>2, <1>3, <1>4

(* A disturbance is remembered.                                             *)
LEMMA DisturbedKept ==
  ASSUME [Next]_vars
  PROVE  disturbed => disturbed'
BY Zenon DEF Next, Expire, Tick, DoCreate, DoReadSession, SetAttribute, RemoveAttribute, GetSession, SaveRead,
   CacheRead, Invalid, Touch, SetChanged, RemoveFlag, Update, SaveUpdate, Stop, Uncache, Delete, EndRequest,
   Begins, Changes, Leave, vars, ghost

(* Until a change is disturbed the copies are in step, ...                  *)
Undisturbed == Alone /\ (~disturbed => InStep)

(* ... and stay in step.                                                    *)
LEMMA InStepInductive ==
  /\ Init => Undisturbed
  /\ Types /\ Undisturbed /\ [Next]_vars => Undisturbed'
<1>1. ASSUME Init PROVE Undisturbed
  <2>1. /\ redis = {} /\ \A r \in Requests : pc[r] = "idle"
        /\ \A n \in Nodes : cached[n] = NoObject
    BY <1>1 DEF Init
  <2>2. \A r \in Requests : Good(r)
    BY <2>1 DEF Good, Fit, Running, Current, OwnCopy, Changing
  <2>3. CachedCurrent
    BY <2>1 DEF CachedCurrent, Usable, LoggedIn, CacheSession
  <2>4. InSync /\ Alone
    BY <2>1 DEF InSync, Alone
  <2>5. QED
    BY <2>2, <2>3, <2>4 DEF InStep, Undisturbed
<1>2. ASSUME Types, Undisturbed, [Next]_vars PROVE Undisturbed'
  <2>1. Alone'
    BY <1>2, AloneStep DEF Undisturbed
  <2>2. ASSUME ~disturbed' PROVE InStep'
    <3>1. Alone /\ InStep
      BY <1>2, <2>2, DisturbedKept DEF Undisturbed
    <3>2. ASSUME NEW r \in Requests,
                 \/ \E n \in Nodes : DoReadSession(r, n)
                 \/ \E k \in Keys : SetAttribute(r, k) \/ RemoveAttribute(r, k)
                 \/ GetSession(r) \/ SaveRead(r) \/ CacheRead(r)
                 \/ Invalid(r) \/ Touch(r) \/ SetChanged(r) \/ RemoveFlag(r)
                 \/ Update(r) \/ SaveUpdate(r)
                 \/ Stop(r) \/ Uncache(r) \/ Delete(r) \/ EndRequest(r)
          PROVE  InStep'
      BY <1>2, <2>2, <3>1, <3>2, ReadStep, SetterStep, GetStep, OperationStep, ReferenceStep
    <3>3. QED
      BY <1>2, <3>1, <3>2, OtherStep DEF Next
  <2>3. QED
    BY <2>1, <2>2 DEF Undisturbed
<1>3. QED
  BY <1>1, <1>2

(* The copies are in step always.                                           *)
LEMMA AlwaysUndisturbed == Spec => [](Types /\ Undisturbed)
BY TypesInductive, InStepInductive, PTL DEF Spec

(* Until a request that overlaps another, or comes too soon from another    *)
(* node, changes the session, Redis has what the setters wrote: for any     *)
(* number of nodes and of overlapping requests that only read.              *)
THEOREM SessionDurable == Spec => []Durable
<1>1. Types /\ Undisturbed => Durable
  <2>1. ASSUME Undisturbed, ~disturbed,
               \A r \in Requests : pc[r] \notin {"flag", "remove", "update", "save"}
        PROVE  \A s \in redis : s.attributes = intended
    <3>1. \A r \in Requests : ~Changing(r)
      BY <2>1 DEF Changing
    <3>2. QED
      BY <2>1, <3>1 DEF Undisturbed, InStep, InSync
  <2>2. QED
    BY <2>1 DEF Durable
<1>2. QED
  BY <1>1, AlwaysUndisturbed, PTL

(* On the same conditions no request starts with attributes that were       *)
(* changed more than the time to live ago, whichever node serves it.        *)
THEOREM SessionBoundedStaleness == Spec => BoundedStaleness
<1>1. ASSUME Types, Undisturbed, [Next]_vars, NEW r \in Requests,
             pc[r] \in {"idle", "get", "cache"}, pc'[r] = "ready", ~disturbed', writeAge > TimeToLive
      PROVE  heap'[object'[r]].attributes = intended
  <2>1. /\ pc \in [Requests -> Labels] /\ age \in [Nodes -> 0..(TimeToLive + 1)]
        /\ object \in [Requests -> Objects \cup {NoObject}] /\ heap \in [Objects -> Session]
        /\ cached \in [Nodes -> Objects \cup {NoObject}]
        /\ writeAge \in 0..(TimeToLive + 1) /\ TimeToLive \in Nat
    BY <1>1, SessionAssumption DEF Types, Served, Copies, Intent
  <2>2. Alone /\ InStep
    BY <1>1, DisturbedKept DEF Undisturbed
  <2>3. ASSUME NEW n \in Nodes, DoReadSession(r, n) PROVE heap'[object'[r]].attributes = intended
    <3>1. LoggedIn(CacheSession(n)) /\ object'[r] = CacheSession(n) /\ heap' = heap
      BY <1>1, <2>1, <2>3 DEF DoReadSession, Goto
    <3>2. cached[n] = CacheSession(n) /\ writeAge > age[n]
      BY <1>1, <2>1, <3>1 DEF LoggedIn, CacheSession
    <3>3. QED
      BY <2>2, <3>1, <3>2 DEF InStep, CachedCurrent, Usable
  <2>4. CASE GetSession(r)
    <3>1. pc[r] = "get" /\ object[r] = NoObject
      BY <1>1, <2>4 DEF GetSession, Types, Served
    <3>2. NewObject \in Objects
      BY <2>1, <3>1, Free
    <3>3. PICK s \in redis : object' = [object EXCEPT ![r] = NewObject] /\ heap' = [heap EXCEPT ![NewObject] = s]
      BY <1>1, <2>1, <2>4 DEF GetSession, Leave, Goto
    <3>4. s.attributes = intended
      BY <2>2, <3>1, ReadCurrent
    <3>5. QED
      BY <2>1, <3>2, <3>3, <3>4
  <2>5. CASE CacheRead(r)
    <3>1. pc[r] = "cache" /\ object' = object /\ heap' = Collected(heap)
      BY <2>5 DEF CacheRead
    <3>2. object[r] \in Objects
      BY <1>1, <3>1, Works
    <3>3. heap[object[r]].attributes = intended
      BY <2>2, <3>1 DEF InStep, Good, Current, Attr
    <3>4. object[r] \in Range(object')
      BY <2>1, <3>1 DEF Range
    <3>5. heap'[object[r]] = heap[object[r]]
      BY <3>1, <3>2, <3>4 DEF Collected
    <3>6. QED
      BY <3>1, <3>3, <3>5
  <2>6. \/ \E n \in Nodes : DoReadSession(r, n)
        \/ GetSession(r) \/ CacheRead(r)
    <3>1. pc'[r] # pc[r]
      BY <1>1
    <3>2. ~(UNCHANGED pc)
      BY <3>1
    <3>3. PICK q \in Requests :
            \/ \E n \in Nodes : DoReadSession(q, n)
            \/ \E k \in Keys : SetAttribute(q, k) \/ RemoveAttribute(q, k)
            \/ GetSession(q) \/ SaveRead(q) \/ CacheRead(q)
            \/ Invalid(q) \/ Touch(q) \/ SetChanged(q) \/ RemoveFlag(q)
            \/ Update(q) \/ SaveUpdate(q)
            \/ Stop(q) \/ Uncache(q) \/ Delete(q) \/ EndRequest(q)
      BY <1>1, <3>2 DEF Next, Expire, Tick, DoCreate, vars
    <3>4. \A p \in Requests : p # q => pc'[p] = pc[p]
      <4>1. \E l : Goto(q, l)
        BY <3>3, Zenon DEF DoReadSession, SetAttribute, RemoveAttribute, GetSession, SaveRead, CacheRead, Invalid,
           Touch, SetChanged, RemoveFlag, Update, SaveUpdate, Stop, Uncache, Delete, EndRequest, Leave
      <4>2. QED
        BY <2>1, <4>1 DEF Goto
    <3>5. q = r
      BY <3>1, <3>4
    <3>6. ~(Update(r) \/ SaveUpdate(r) \/ SetChanged(r) \/ SaveRead(r) \/ Uncache(r) \/ Delete(r))
      BY <1>1 DEF Update, SaveUpdate, SetChanged, SaveRead, Uncache, Delete
    <3>7. ~(Invalid(r) \/ Touch(r) \/ RemoveFlag(r) \/ Stop(r) \/ EndRequest(r))
      BY <1>1 DEF Invalid, Touch, RemoveFlag, Stop, EndRequest, Valid
    <3>8. \A k \in Keys : ~(SetAttribute(r, k) \/ RemoveAttribute(r, k))
      BY <1>1 DEF SetAttribute, RemoveAttribute, Valid
    <3>9. QED
      BY <3>3, <3>5, <3>6, <3>7, <3>8
  <2>7. QED
    BY <2>3, <2>4, <2>5, <2>6
<1>2. Types /\ Undisturbed /\ [Next]_vars =>
        [\A r \in Requests :
           /\ pc[r] \in {"idle", "get", "cache"} /\ pc'[r] = "ready"
           /\ ~disturbed' /\ writeAge > TimeToLive
           => heap'[object'[r]].attributes = intended]_vars
  BY <1>1
<1>3. QED
  BY <1>2, AlwaysUndisturbed, PTL DEF Spec, BoundedStaleness
=============================================================================
