-------------------------- MODULE ZookeeperService --------------------------
(***************************************************************************)
(* How a caller of the RPC of spring-boot-starter-commons gets the         *)
(* addresses of a service: ZookeeperService.getIp, its watcher and         *)
(* setIpMap.  Callers are threads of one client; watchers run one after    *)
(* the other on ZooKeeper's event thread.  Servers register ephemeral      *)
(* nodes, which ZooKeeper removes when they die.                           *)
(*                                                                         *)
(* A server that restarts may be listed twice for a while: a node is a     *)
(* service, an address and the sequence number that ZooKeeper appends.     *)
(* ipMap is read without the lock that its writers hold, so every write    *)
(* is a step of its own.  init never becomes false again: a caller fills   *)
(* the map at most once and makes at most one watcher that is registered,  *)
(* which is named after it.                                                *)
(***************************************************************************)
EXTENDS Naturals, FiniteSets, Sequences, SequencesExt

CONSTANTS
  Callers,      \* threads that call getIp
  Services,     \* service names
  Addresses,    \* registrations: host and port of a server
  None,
  MaxNodes      \* bound: nodes created under the services

Event == "event"  \* ZooKeeper's event thread
Lost == "lost"    \* the state of a watcher that will not be registered again

ASSUME ZookeeperAssumption ==
  /\ IsFiniteSet(Callers) /\ IsFiniteSet(Services) /\ IsFiniteSet(Addresses)
  /\ None \notin Callers \cup Services \cup Addresses \cup {Event, Lost}
  /\ Event \notin Callers /\ Lost \notin Services
  /\ MaxNodes \in Nat

Threads == Callers \cup {Event}
Nodes == Services \X Addresses \X (1..MaxNodes)

VARIABLES
  nodes,      \* ZooKeeper: the children of the services' nodes
  created,    \* ZooKeeper: sequence numbers given so far
  watch,      \* ZooKeeper: the path on which the watcher of c is registered
  events,     \* ZooKeeper: <<watcher, path>> for the event thread, in order
  init,       \* the field init
  ipMap,      \* the field ipMap: its keys
  monitor,    \* the thread inside synchronized (ipMap)
  refreshed,  \* the path whose event filled ipMap last; None: a caller did
  pc,         \* where a thread is in getIp or process
  path,       \* path[t]: the service that t looks up
  list        \* list[t]: children that t has read and not yet put into ipMap

zookeeper == <<nodes, created, watch, events>>
service == <<init, ipMap, monitor, refreshed>>
vars == <<zookeeper, service, pc, path, list>>

Init ==
  /\ nodes = {} /\ created = 0
  /\ watch = [c \in Callers |-> None]
  /\ events = <<>>
  /\ init = FALSE
  /\ ipMap = {}
  /\ monitor = None
  /\ refreshed = None
  /\ pc = [t \in Threads |-> "idle"]
  /\ path = [t \in Threads |-> None]
  /\ list = [t \in Threads |-> {}]

Children(s) == {n \in nodes : n[1] = s}
Goto(t, l) == pc' = [pc EXCEPT ![t] = l]

(* t is done with its service.                                             *)
Leave(t) == Goto(t, "idle") /\ path' = [path EXCEPT ![t] = None]

-----------------------------------------------------------------------------
(* The children of service s change: every watcher on it is unregistered   *)
(* and gets its one event.                                                 *)
Fire(s) ==
  LET fired == {c \in Callers : watch[c] = s}
  IN  /\ watch' = [c \in Callers |-> IF c \in fired THEN None ELSE watch[c]]
      /\ events' = events \o SetToSeq(fired \X {s})

(* register on a server: exists() is asked for the name without a number,  *)
(* which no node has, so a node is created whatever is there already.      *)
Register(s, a) ==
  /\ created < MaxNodes
  /\ created' = created + 1
  /\ nodes' = nodes \cup {<<s, a, created'>>}
  /\ Fire(s)
  /\ UNCHANGED <<service, pc, path, list>>

(* A server's session ends: its ephemeral node goes.                       *)
NodeExpires(n) ==
  /\ n \in nodes
  /\ nodes' = nodes \ {n}
  /\ Fire(n[1])
  /\ UNCHANGED <<created, service, pc, path, list>>

-----------------------------------------------------------------------------
(* getIp: the flag and the map are the same for all services.              *)
GetIp(c, s) ==
  /\ pc[c] = "idle" /\ ~init
  /\ path' = [path EXCEPT ![c] = s]
  /\ Goto(c, "read")
  /\ UNCHANGED <<zookeeper, service, list>>

(* Mutant: the watcher reads without registering itself again.             *)
GetChildrenOnce(t, c, s) ==
  /\ list' = [list EXCEPT ![t] = Children(s)]
  /\ watch' = IF t = Event THEN watch ELSE [watch EXCEPT ![c] = s]
  /\ Goto(t, "set")

(* zooKeeper.getChildren(path, watcher) by t: one request reads the        *)
(* children and registers the watcher of c.                                *)
GetChildren(t, c, s) ==
  /\ list' = [list EXCEPT ![t] = Children(s)]
  /\ watch' = [watch EXCEPT ![c] = s]
  /\ Goto(t, "set")

ReadChildren(c) ==
  /\ pc[c] = "read"
  /\ GetChildren(c, c, path[c])
  /\ UNCHANGED <<nodes, created, events, service, path>>

(* The request fails, or the service has no node: getIp throws.            *)
ReadFails(c) ==
  /\ pc[c] = "read"
  /\ Leave(c)
  /\ UNCHANGED <<zookeeper, service, list>>

(* Watcher.process of the oldest event.  If the request fails the          *)
(* exception is printed, and the watcher is never registered again.        *)
Process(ok) ==
  /\ pc[Event] = "idle" /\ events # <<>>
  /\ events' = Tail(events)
  /\ \/ /\ ok
        /\ GetChildren(Event, Head(events)[1], Head(events)[2])
        /\ path' = [path EXCEPT ![Event] = Head(events)[2]]
     \/ /\ ~ok
        /\ watch' = [watch EXCEPT ![Head(events)[1]] = Lost]
        /\ UNCHANGED <<list, pc, path>>
  /\ UNCHANGED <<nodes, created, service>>

(* Mutant: setIpMap without synchronized.                                  *)
ClearUnlocked(t) ==
  /\ pc[t] = "set"
  /\ monitor' = t
  /\ ipMap' = {}
  /\ Goto(t, "fill")
  /\ UNCHANGED <<zookeeper, init, refreshed, path, list>>

(* setIpMap: the map is emptied under its lock,                            *)
Clear(t) ==
  /\ pc[t] = "set" /\ monitor = None
  /\ monitor' = t
  /\ ipMap' = {}
  /\ Goto(t, "fill")
  /\ UNCHANGED <<zookeeper, init, refreshed, path, list>>

(* Mutant: split("_")[1] for split("_")[0].                                *)
PutNumber(t, n) ==
  /\ pc[t] = "fill" /\ n \in list[t]
  /\ list' = [list EXCEPT ![t] = @ \ {n}]
  /\ ipMap' = ipMap \cup {n[3]}
  /\ UNCHANGED <<zookeeper, init, monitor, refreshed, pc, path>>

(* and filled child by child: a node's name is cut off before its number.  *)
Put(t, n) ==
  /\ pc[t] = "fill" /\ n \in list[t]
  /\ list' = [list EXCEPT ![t] = @ \ {n}]
  /\ ipMap' = ipMap \cup {n[2]}
  /\ UNCHANGED <<zookeeper, init, monitor, refreshed, pc, path>>

Filled(t) ==
  /\ pc[t] = "fill" /\ list[t] = {}
  /\ monitor' = None
  /\ refreshed' = IF t = Event THEN path[t] ELSE None
  /\ IF t = Event THEN Leave(t) ELSE Goto(t, "flag") /\ UNCHANGED path
  /\ UNCHANGED <<zookeeper, init, ipMap, list>>

(* init.set(true); the caller gets ipMap itself.                           *)
SetInit(c) ==
  /\ pc[c] = "flag"
  /\ init' = TRUE
  /\ Leave(c)
  /\ UNCHANGED <<zookeeper, ipMap, monitor, refreshed, list>>

SetIpMap(t) == Clear(t) \/ Filled(t) \/ \E n \in Nodes : Put(t, n)

Next ==
  \/ \E s \in Services, a \in Addresses : Register(s, a)
  \/ \E n \in Nodes : NodeExpires(n)
  \/ \E c \in Callers, s \in Services : GetIp(c, s)
  \/ \E c \in Callers : ReadChildren(c) \/ ReadFails(c) \/ SetInit(c)
  \/ \E ok \in BOOLEAN : Process(ok)
  \/ \E t \in Threads : SetIpMap(t)

Spec == Init /\ [][Next]_vars

-----------------------------------------------------------------------------
(* The fields hold what their declarations say: of a node's name only the  *)
(* address reaches ipMap.                                                  *)
TypeOK ==
  /\ nodes \subseteq Nodes /\ created \in 0..MaxNodes
  /\ watch \in [Callers -> Services \cup {None, Lost}]
  /\ events \in Seq(Callers \X Services)
  /\ init \in BOOLEAN
  /\ ipMap \subseteq Addresses
  /\ monitor \in Threads \cup {None}
  /\ refreshed \in Services \cup {None}
  /\ pc \in [Threads -> {"idle", "read", "set", "fill", "flag"}]
  /\ path \in [Threads -> Services \cup {None}]
  /\ list \in [Threads -> SUBSET Nodes]

(* Nothing about service s is on its way to ipMap.                         *)
Quiet(s) ==
  /\ \A i \in DOMAIN events : events[i][2] # s
  /\ \A t \in Threads : pc[t] \notin {"set", "fill"}

(* A watcher reads the children and registers itself again in one request, *)
(* so no change between two events is missed: when the event thread filled *)
(* the map last, no watcher is lost and nothing is on its way, ipMap holds *)
(* exactly the addresses of the live nodes, those listed twice once        *)
(* (the watcher of ZookeeperService.getIp, and setIpMap).                  *)
NoUpdateMissed ==
  refreshed # None /\ Quiet(refreshed) /\ (\A c \in Callers : watch[c] # Lost)
    => ipMap = {n[2] : n \in Children(refreshed)}

(* The callers that race for the first read and the event thread never mix *)
(* their lists: what the load balancers see of ipMap is one refresh after  *)
(* the other (synchronized in setIpMap).                                   *)
Map == INSTANCE AddressMap
         WITH MaxKeys <- Cardinality(Addresses),
              keys <- Cardinality(ipMap),
              refreshing <- monitor # None
ServesAddressMap == Map!MapSpec
=============================================================================
