------------------------------ MODULE NettyRpc ------------------------------
(***************************************************************************)
(* The RPC of spring-boot-starter-commons (netty/rpc): NettyProxy.invoke   *)
(* on the calling threads, OutputClientHandler on the client's event loop, *)
(* the TCP connection, InputServerHandler and its thread pool on the       *)
(* server.  All calls go to one server address and one service class; the  *)
(* choice of the address is DiscoveryService's.                            *)
(*                                                                         *)
(* CHANNEL_FUTURE_MAP never loses an entry, so a caller creates at most    *)
(* one OutputClientHandler: handlers are named after their creator.  A     *)
(* request is named after its caller and the number of its call (the code  *)
(* draws a UUID), and stands for its own result.                           *)
(***************************************************************************)
EXTENDS Naturals, FiniteSets

CONSTANTS
  Callers,         \* threads that call methods of the proxy
  PoolSize,        \* threads of RpcThreadPool
  ServiceMayThrow, \* may the service's methods throw?
  MaxCalls,        \* bound: MaxCalls[c] calls of caller c
  MaxDisconnects   \* bound: connections that break in a behaviour

None == "none"  \* null

ASSUME RpcAssumption ==
  /\ IsFiniteSet(Callers) /\ None \notin Callers
  /\ PoolSize \in Nat \ {0}
  /\ ServiceMayThrow \in BOOLEAN
  /\ MaxCalls \in [Callers -> Nat]
  /\ MaxDisconnects \in Nat

Handlers == Callers
Requests == UNION {{c} \X (1..MaxCalls[c]) : c \in Callers}

VARIABLES
  calls,        \* calls[c]: invocations so far
  pc,           \* pc[c]: where c is in invoke
  handler,      \* handler[r]: the OutputClientHandler r is sent with
  channel,      \* CHANNEL_FUTURE_MAP: the handler of the address
  conn,         \* conn[h]: the TCP connection of h
  context,      \* context[h]: has channelActive set the field?
  table,        \* table[h]: the keys of h's STRING_OBJECT_MAP
  response,     \* response[r]: what MessageCallBack.over stored
  outcome,      \* outcome[r]: how the call ended
  toServer,     \* requests on the wire, with their connection
  toClient,     \* responses on the wire, with their connection
  task,         \* task[r]: where the server is with r
  beanMap,      \* is the service bean in BEAN_MAP?
  disconnects

client == <<calls, pc, handler, channel, context, table, response, outcome>>
server == <<task, beanMap>>
network == <<conn, toServer, toClient, disconnects>>
vars == <<client, server, network>>

(* What a MessageResponse carries: the result of a request, or its error   *)
(* field.  The client reads the former only.                               *)
NoResponse == <<>>
Failed == <<"error">>
Results == Requests \cup {Failed}
Outcomes == {None, "result", "empty", "timeout", "thrown"}
Running == {"lookup", "sync", "invoke", "invokeNull"}

(* The request of the call c is in.                                        *)
Current(c) == <<c, calls[c]>>

Init ==
  /\ calls = [c \in Callers |-> 0]
  /\ pc = [c \in Callers |-> "idle"]
  /\ handler = [r \in Requests |-> None]
  /\ channel = None
  /\ conn = [h \in Handlers |-> "none"]
  /\ context = [h \in Handlers |-> FALSE]
  /\ table = [h \in Handlers |-> {}]
  /\ response = [r \in Requests |-> NoResponse]
  /\ outcome = [r \in Requests |-> None]
  /\ toServer = {}
  /\ toClient = {}
  /\ task = [r \in Requests |-> None]
  /\ beanMap = FALSE
  /\ disconnects = 0

Goto(c, label) == pc' = [pc EXCEPT ![c] = label]

(* writeAndFlush on a connection: dropped when that is broken.             *)
Sent(wire, h, message) == IF conn[h] = "open" THEN wire \cup {message} ELSE wire

(* The call is over: invoke returns or throws.                             *)
Finish(c, how) ==
  /\ outcome' = [outcome EXCEPT ![Current(c)] = how]
  /\ Goto(c, "idle")

-----------------------------------------------------------------------------
(* The calling thread.                                                     *)

(* Entry of invoke, up to containsKey.                                     *)
Invoke(c) ==
  /\ pc[c] = "idle"
  /\ calls[c] < MaxCalls[c]
  /\ calls' = [calls EXCEPT ![c] = @ + 1]
  /\ Goto(c, IF channel = None THEN "connect" ELSE "send")
  /\ UNCHANGED <<handler, channel, context, table, response, outcome, server, network>>

(* createNettyServer: connect().sync() returns or throws.                  *)
Connect(c) ==
  /\ pc[c] = "connect"
  /\ \/ /\ conn' = [conn EXCEPT ![c] = "open"]
        /\ Goto(c, "put")
        /\ UNCHANGED outcome
     \/ /\ Finish(c, "thrown")
        /\ UNCHANGED conn
  /\ UNCHANGED <<calls, handler, channel, context, table, response, server,
                 toServer, toClient, disconnects>>

(* The put replaces the handler of another caller that connected too.      *)
PutChannel(c) ==
  /\ pc[c] = "put"
  /\ channel' = c
  /\ Goto(c, "send")
  /\ UNCHANGED <<calls, handler, context, table, response, outcome, server, network>>

(* sendRequest registers the callback first.                               *)
Register(c) ==
  /\ pc[c] = "send"
  /\ handler' = [handler EXCEPT ![Current(c)] = channel]
  /\ table' = [table EXCEPT ![channel] = @ \cup {Current(c)}]
  /\ Goto(c, "write")
  /\ UNCHANGED <<calls, channel, context, response, outcome, server, network>>

(* Mutant: invoke asks CHANNEL_FUTURE_MAP for the handler a second time.   *)
WriteOnLatest(c) ==
  /\ pc[c] = "write"
  /\ context[channel]
  /\ toServer' = Sent(toServer, channel, <<channel, Current(c)>>)
  /\ handler' = [handler EXCEPT ![Current(c)] = channel]
  /\ Goto(c, "start")
  /\ UNCHANGED <<calls, channel, context, table, response, outcome, server,
                 conn, toClient, disconnects>>

(* context.writeAndFlush: the field may still be null (channelActive has   *)
(* not run, or its unsynchronized write is not visible), and a write on a  *)
(* connection that broke is dropped without the caller's notice.           *)
Write(c) ==
  /\ pc[c] = "write"
  /\ \/ /\ Finish(c, "thrown")
        /\ UNCHANGED toServer
     \/ /\ context[handler[Current(c)]]
        /\ toServer' = Sent(toServer, handler[Current(c)], <<handler[Current(c)], Current(c)>>)
        /\ Goto(c, "start")
        /\ UNCHANGED outcome
  /\ UNCHANGED <<calls, handler, channel, context, table, response, server,
                 conn, toClient, disconnects>>

(* start(): await, without looking whether the response is there.          *)
Await(c) ==
  /\ pc[c] = "start"
  /\ Goto(c, "await")
  /\ UNCHANGED <<calls, handler, channel, context, table, response, outcome, server, network>>

(* After the wait: the result of the response, or null.                    *)
Answer(c) ==
  LET answer == response[Current(c)] IN
  Finish(c, IF answer = NoResponse THEN "timeout"
            ELSE IF answer = Failed THEN "empty" ELSE "result")

Woken(c) ==
  /\ pc[c] = "signalled"
  /\ Answer(c)
  /\ UNCHANGED <<calls, handler, channel, context, table, response, server, network>>

(* Mutant: await() without a timeout.                                      *)
TimeoutNever(c) ==
  /\ pc[c] = "await"
  /\ response[Current(c)] # NoResponse
  /\ Answer(c)
  /\ UNCHANGED <<calls, handler, channel, context, table, response, server, network>>

Timeout(c) ==
  /\ pc[c] = "await"
  /\ Answer(c)
  /\ UNCHANGED <<calls, handler, channel, context, table, response, server, network>>

-----------------------------------------------------------------------------
(* The client's event loop.                                                *)

ChannelActive(h) ==
  /\ conn[h] = "open"
  /\ ~context[h]
  /\ context' = [context EXCEPT ![h] = TRUE]
  /\ UNCHANGED <<calls, pc, handler, channel, table, response, outcome, server, network>>

(* Mutants: the response goes to any caller that waits (the single result  *)
(* field of the code that is commented out); the callback is not removed.  *)
OverAnyone(r, result) ==
  \E c \in Callers :
    /\ pc[c] \in {"start", "await"}
    /\ response' = [response EXCEPT ![Current(c)] = result]
    /\ pc' = [pc EXCEPT ![c] = IF @ = "await" THEN "signalled" ELSE @]

ClientReadKeeps(h) ==
  \E r \in Requests, result \in Results :
    /\ <<h, r, result>> \in toClient
    /\ toClient' = toClient \ {<<h, r, result>>}
    /\ r \in table[h]
    /\ response' = [response EXCEPT ![r] = result]
    /\ pc' = [pc EXCEPT ![r[1]] =
                IF @ = "await" /\ r = Current(r[1]) THEN "signalled" ELSE @]
    /\ UNCHANGED <<calls, handler, channel, context, table, outcome, server,
                   conn, toServer, disconnects>>

(* channelRead: find the callback, remove it, over().  The signal reaches  *)
(* the caller only if it waits already.                                    *)
Over(r, result) ==
  /\ response' = [response EXCEPT ![r] = result]
  /\ pc' = [pc EXCEPT ![r[1]] =
              IF @ = "await" /\ r = Current(r[1]) THEN "signalled" ELSE @]

ClientRead(h) ==
  \E r \in Requests, result \in Results :
    /\ <<h, r, result>> \in toClient
    /\ toClient' = toClient \ {<<h, r, result>>}
    /\ \/ /\ r \in table[h]
          /\ table' = [table EXCEPT ![h] = @ \ {r}]
          /\ Over(r, result)
       \/ /\ r \notin table[h]
          /\ UNCHANGED <<table, response, pc>>
    /\ UNCHANGED <<calls, handler, channel, context, outcome, server,
                   conn, toServer, disconnects>>

-----------------------------------------------------------------------------
(* The server.                                                             *)

(* InputServerHandler.channelRead: into the pool's unbounded queue.        *)
ServerRead(h) ==
  \E r \in Requests :
    /\ <<h, r>> \in toServer
    /\ toServer' = toServer \ {<<h, r>>}
    /\ task' = [task EXCEPT ![r] = "queued"]
    /\ UNCHANGED <<client, beanMap, conn, toClient, disconnects>>

(* A pool thread takes the task up: the unsynchronized BEAN_MAP.get.       *)
Lookup(r) ==
  /\ task[r] = "queued"
  /\ Cardinality({q \in Requests : task[q] \in Running}) < PoolSize
  /\ task' = [task EXCEPT ![r] = IF beanMap THEN "invoke" ELSE "sync"]
  /\ UNCHANGED <<client, beanMap, network>>

(* The synchronized block: a thread that finds the bean there by now keeps *)
(* the null it had read.                                                   *)
ResolveBean(r) ==
  /\ task[r] = "sync"
  /\ beanMap' = TRUE
  /\ task' = [task EXCEPT ![r] = IF beanMap THEN "invokeNull" ELSE "invoke"]
  /\ UNCHANGED <<client, network>>

(* Mutant: the catch block of run() does not set the error field.          *)
RespondForgetsError(r) ==
  /\ task[r] \in {"invoke", "invokeNull"}
  /\ task' = [task EXCEPT ![r] = "done"]
  /\ \E result \in Results \cup {NoResponse} :
        /\ \/ task[r] = "invoke" /\ result = r
           \/ task[r] = "invokeNull" /\ result = NoResponse
        /\ toClient' = Sent(toClient, handler[r], <<handler[r], r, result>>)
  /\ UNCHANGED <<client, beanMap, conn, toServer, disconnects>>

(* The method runs, or there is no object to run it on; the response goes  *)
(* out on the connection the request came from, if that is still there.    *)
Respond(r) ==
  /\ task[r] \in {"invoke", "invokeNull"}
  /\ task' = [task EXCEPT ![r] = "done"]
  /\ \E result \in Results :
        /\ \/ task[r] = "invoke" /\ result = r
           \/ task[r] = "invoke" /\ ServiceMayThrow /\ result = Failed
           \/ task[r] = "invokeNull" /\ result = Failed
        /\ toClient' = Sent(toClient, handler[r], <<handler[r], r, result>>)
  /\ UNCHANGED <<client, beanMap, conn, toServer, disconnects>>

(* A connection breaks and takes what is on the wire with it.  Neither     *)
(* handler reacts: the entry of CHANNEL_FUTURE_MAP stays.                  *)
Disconnect(h) ==
  /\ conn[h] = "open"
  /\ disconnects < MaxDisconnects
  /\ disconnects' = disconnects + 1
  /\ conn' = [conn EXCEPT ![h] = "closed"]
  /\ toServer' = {m \in toServer : m[1] # h}
  /\ toClient' = {m \in toClient : m[1] # h}
  /\ UNCHANGED <<client, server>>

CallerStep(c) ==
  \/ Connect(c)
  \/ PutChannel(c)
  \/ Register(c)
  \/ Write(c)
  \/ Await(c)
  \/ Woken(c)
  \/ Timeout(c)

EventStep(h) == ChannelActive(h) \/ ClientRead(h) \/ ServerRead(h)

TaskStep(r) == Lookup(r) \/ ResolveBean(r) \/ Respond(r)

Next ==
  \/ \E c \in Callers : Invoke(c) \/ CallerStep(c)
  \/ \E h \in Handlers : EventStep(h) \/ Disconnect(h)
  \/ \E r \in Requests : TaskStep(r)

Spec == Init /\ [][Next]_vars

(* A calling thread is scheduled, and its await ends after the timeout at  *)
(* the latest.  Nothing is assumed of the network or of the server.        *)
FairSpec == Spec /\ \A c \in Callers : WF_vars(CallerStep(c))

-----------------------------------------------------------------------------
TypeOK ==
  /\ calls \in [Callers -> Nat]
  /\ \A c \in Callers : calls[c] <= MaxCalls[c]
  /\ pc \in [Callers -> {"idle", "connect", "put", "send", "write", "start", "await", "signalled"}]
  /\ handler \in [Requests -> Handlers \cup {None}]
  /\ channel \in Handlers \cup {None}
  /\ conn \in [Handlers -> {"none", "open", "closed"}]
  /\ context \in [Handlers -> BOOLEAN]
  /\ table \in [Handlers -> SUBSET Requests]
  /\ response \in [Requests -> Results \cup {NoResponse}]
  /\ outcome \in [Requests -> Outcomes]
  /\ toServer \subseteq Handlers \X Requests
  /\ toClient \subseteq Handlers \X Requests \X Results
  /\ task \in [Requests -> Running \cup {None, "queued", "done"}]
  /\ beanMap \in BOOLEAN
  /\ disconnects \in 0..MaxDisconnects

(* A call that returns a result returns that of its own request, which the *)
(* server has executed, although responses come back in any order and late *)
(* ones belong to calls that have timed out.                               *)
OwnResult ==
  \A r \in Requests : outcome[r] = "result" => response[r] = r /\ task[r] = "done"

(* While a caller has no response, the handler its request was sent with   *)
(* knows its callback: no response that arrives can miss it, although      *)
(* callers that connect at the same time replace each other's handler.     *)
WaiterIsRegistered ==
  \A c \in Callers :
     pc[c] \in {"write", "start", "await"} /\ response[Current(c)] = NoResponse =>
        Current(c) \in table[handler[Current(c)]]

(* STRING_OBJECT_MAP keeps only callbacks that have had no response: those *)
(* of running calls, and for ever those of calls that timed out or threw.  *)
TableHoldsUnanswered ==
  \A h \in Handlers : \A r \in table[h] :
     response[r] = NoResponse /\ outcome[r] \in {None, "timeout", "thrown"}

(* Every call returns, whatever the network and the server do.             *)
CallsReturn == \A c \in Callers : pc[c] # "idle" ~> pc[c] = "idle"

(* OutputClientHandler.java:23 "收到服务端数据，唤醒等待线程": a thread does    *)
(* not go on waiting when the server's data has been received.             *)
WokenWhenAnswered ==
  \A c \in Callers : ~(pc[c] = "await" /\ response[Current(c)] # NoResponse)
=============================================================================
