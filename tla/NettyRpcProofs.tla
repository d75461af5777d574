--------------------------- MODULE NettyRpcProofs ---------------------------
(***************************************************************************)
(* For any number of callers, calls, pool threads and broken connections:  *)
(* a call gets the result of its own request or none, the callback of a    *)
(* caller that waits is where a response looks for it, and the tables of   *)
(* callbacks keep only requests without a response.                        *)
(***************************************************************************)
EXTENDS NettyRpc, TLAPS

(* The request r has not been handed to a connection yet, or, Unregistered, *)
(* not even to a handler.                                                   *)
Ahead(r, labels) == r[2] > calls[r[1]] \/ (r = Current(r[1]) /\ pc[r[1]] \in labels)
Unregistered(r) == Ahead(r, {"connect", "put", "send"})
Unsent(r) == Ahead(r, {"connect", "put", "send", "write"})

(* Where a caller is, it has a current call, a handler to send it with, and *)
(* has sent it with one.                                                    *)
InCall ==
  \A c \in Callers :
     /\ pc[c] # "idle" => calls[c] > 0
     /\ pc[c] = "send" => channel # None
     /\ pc[c] \in {"write", "start", "await", "signalled"} => handler[Current(c)] # None
     /\ pc[c] = "signalled" => response[Current(c)] # NoResponse

(* What has not happened to a request that is not registered, or not sent.  *)
Untouched ==
  \A r \in Requests :
     /\ Unregistered(r) => /\ response[r] = NoResponse /\ outcome[r] = None
                           /\ \A h \in Handlers : r \notin table[h]
     /\ Unsent(r) => task[r] = None /\ \A h \in Handlers : <<h, r>> \notin toServer

(* A request is in one place on its way: on the wire, on its handler's      *)
(* connection, and then with the server.                                    *)
OnTheWay ==
  /\ \A h \in Handlers, r \in Requests :
        <<h, r>> \in toServer => h = handler[r] /\ task[r] = None
  /\ \A r \in Requests : task[r] # None => handler[r] # None

(* A response carries the result of its own request, or an error, comes     *)
(* after the server is done, and on the connection of the request.          *)
Answered ==
  /\ \A h \in Handlers, r \in Requests, x \in Results :
        <<h, r, x>> \in toClient => h = handler[r] /\ x \in {r, Failed} /\ task[r] = "done"
  /\ \A r \in Requests :
        response[r] # NoResponse => response[r] \in {r, Failed} /\ task[r] = "done"

(* A callback is kept by the handler that its request is sent with.         *)
Registered == \A h \in Handlers : \A r \in table[h] : handler[r] = h

(* A call that was given a result has one.                                  *)
Settled == \A r \in Requests : outcome[r] = "result" => response[r] = r

Inv ==
  /\ InCall /\ Untouched /\ OnTheWay /\ Answered /\ Registered /\ Settled
  /\ WaiterIsRegistered /\ TableHoldsUnanswered

IInv == TypeOK /\ Inv

-----------------------------------------------------------------------------
(* A request is a pair, and neither of the other two answers.               *)
LEMMA RequestFacts ==
  \A r \in Requests :
     /\ r[1] \in Callers /\ r[2] \in 1..MaxCalls[r[1]] /\ r = <<r[1], r[2]>>
     /\ r # Failed /\ r # NoResponse
<1> SUFFICES ASSUME NEW r \in Requests
             PROVE  /\ r[1] \in Callers /\ r[2] \in 1..MaxCalls[r[1]] /\ r = <<r[1], r[2]>>
                    /\ r # Failed /\ r # NoResponse
  OBVIOUS
<1>1. PICK c \in Callers : r \in {c} \X (1..MaxCalls[c])
  BY DEF Requests
<1>2. /\ r[1] = c /\ r[2] \in 1..MaxCalls[c]
      /\ r = <<r[1], r[2]>>
  BY <1>1
<1>3. r # Failed /\ r # NoResponse
  <2>1. ASSUME NEW p, NEW q PROVE <<p, q>> # <<"error">> /\ <<p, q>> # <<>>
    OBVIOUS
  <2>2. QED
    BY <1>2, <2>1 DEF Failed, NoResponse
<1>4. QED
  BY <1>2, <1>3

(* An error is an answer.                                                   *)
LEMMA FailedFact == Failed # NoResponse
BY DEF Failed, NoResponse

(* A caller in a call has a current request.                                *)
LEMMA CurrentRequest ==
  ASSUME TypeOK, InCall, NEW c \in Callers, pc[c] # "idle"
  PROVE  Current(c) \in Requests
<1>1. calls[c] \in 1..MaxCalls[c]
  BY RpcAssumption DEF TypeOK, InCall
<1>2. Current(c) \in {c} \X (1..MaxCalls[c])
  BY <1>1 DEF Current
<1>3. QED
  BY <1>2 DEF Requests

-----------------------------------------------------------------------------
(* No call, no handler, no message.                                        *)
LEMMA InitIInv == Init => IInv
<1> SUFFICES ASSUME Init PROVE IInv
  OBVIOUS
<1> USE RpcAssumption, RequestFacts DEF Init, Handlers
<1>1. TypeOK
  <2>1. calls \in [Callers -> Nat] /\ \A c \in Callers : calls[c] <= MaxCalls[c]
    OBVIOUS
  <2>2. response \in [Requests -> Results \cup {NoResponse}]
    OBVIOUS
  <2>3. outcome \in [Requests -> Outcomes] /\ task \in [Requests -> Running \cup {None, "queued", "done"}]
    BY DEF Outcomes
  <2>4. toServer \subseteq Handlers \X Requests /\ toClient \subseteq Handlers \X Requests \X Results
    OBVIOUS
  <2>5. pc \in [Callers -> {"idle", "connect", "put", "send", "write", "start", "await", "signalled"}]
    OBVIOUS
  <2>6. /\ handler \in [Requests -> Handlers \cup {None}]
        /\ channel \in Handlers \cup {None}
    OBVIOUS
  <2>a. conn \in [Handlers -> {"none", "open", "closed"}]
    OBVIOUS
  <2>b. context \in [Handlers -> BOOLEAN]
    OBVIOUS
  <2>c. table \in [Handlers -> SUBSET Requests]
    OBVIOUS
  <2>7. beanMap \in BOOLEAN
    BY Zenon
  <2>d. disconnects \in 0..MaxDisconnects
    OBVIOUS
  <2>8. QED
    BY <2>1, <2>2, <2>3, <2>4, <2>5, <2>6, <2>7, <2>a, <2>b, <2>c, <2>d DEF TypeOK
<1>2. InCall /\ WaiterIsRegistered
  BY DEF InCall, WaiterIsRegistered
<1>3. Untouched
  BY DEF Untouched
<1>4. OnTheWay
  BY DEF OnTheWay
<1>5. Answered
  BY DEF Answered
<1>6. Registered /\ TableHoldsUnanswered
  BY DEF Registered, TableHoldsUnanswered
<1>7. Settled
  BY DEF Settled, None
<1>8. QED
  BY <1>1, <1>2, <1>3, <1>4, <1>5, <1>6, <1>7 DEF IInv, Inv

(* The types, action by action.                                             *)
LEMMA TypeStep ==
  ASSUME IInv, [Next]_vars
  PROVE  TypeOK'
<1> USE RpcAssumption, RequestFacts DEF IInv, TypeOK, Handlers, Goto, Running, Outcomes,
        client, server, network
<1>a. ASSUME NEW c \in Callers, pc[c] # "idle" PROVE Current(c) \in Requests
  BY <1>a, CurrentRequest DEF Inv
<1>1. ASSUME NEW c \in Callers, Invoke(c) PROVE TypeOK'
  BY <1>1 DEF Invoke
<1>2. ASSUME NEW c \in Callers, Connect(c) PROVE TypeOK'
  <2>1. outcome' \in [Requests -> Outcomes]
    BY <1>2, <1>a DEF Connect, Finish
  <2>2. QED
    BY <1>2, <2>1 DEF Connect, Finish
<1>3. ASSUME NEW c \in Callers, PutChannel(c) PROVE TypeOK'
  BY <1>3 DEF PutChannel
<1>4. ASSUME NEW c \in Callers, Register(c) PROVE TypeOK'
  BY <1>4, <1>a DEF Register
<1>5. ASSUME NEW c \in Callers, Write(c) PROVE TypeOK'
  <2> DEFINE h == handler[Current(c)]
  <2>1. Current(c) \in Requests /\ h \in Handlers
    BY <1>5, <1>a DEF Write, Inv, InCall
  <2>2. toServer' \subseteq Handlers \X Requests
    BY <1>5, <2>1 DEF Write, Sent
  <2>3. outcome' \in [Requests -> Outcomes]
    BY <1>5, <2>1 DEF Write, Finish
  <2>4. QED
    BY <1>5, <2>2, <2>3 DEF Write, Finish
<1>6. ASSUME NEW c \in Callers, Await(c) PROVE TypeOK'
  BY <1>6 DEF Await
<1>7. ASSUME NEW c \in Callers, Woken(c) \/ Timeout(c) PROVE TypeOK'
  <2>1. outcome' \in [Requests -> Outcomes] /\ pc' = [pc EXCEPT ![c] = "idle"]
    BY <1>7, <1>a DEF Woken, Timeout, Answer, Finish
  <2>2. QED
    BY <1>7, <2>1 DEF Woken, Timeout
<1>8. ASSUME NEW h \in Handlers, ChannelActive(h) PROVE TypeOK'
  BY <1>8 DEF ChannelActive
<1>9. ASSUME NEW h \in Handlers, ClientRead(h) PROVE TypeOK'
  <2>1. PICK r \in Requests, x \in Results :
             /\ toClient' \subseteq toClient
             /\ \/ table' = [table EXCEPT ![h] = @ \ {r}] /\ Over(r, x)
                \/ UNCHANGED <<table, response, pc>>
             /\ UNCHANGED <<calls, handler, channel, context, outcome, server,
                            conn, toServer, disconnects>>
    BY <1>9 DEF ClientRead
  <2>2. table' \in [Handlers -> SUBSET Requests]
    BY <2>1
  <2>3. response' \in [Requests -> Results \cup {NoResponse}]
    BY <2>1 DEF Over
  <2>4. pc' \in [Callers -> {"idle", "connect", "put", "send", "write", "start", "await", "signalled"}]
    BY <2>1 DEF Over
  <2>5. QED
    BY <2>1, <2>2, <2>3, <2>4
<1>10. ASSUME NEW h \in Handlers, ServerRead(h) PROVE TypeOK'
  BY <1>10 DEF ServerRead
<1>11. ASSUME NEW h \in Handlers, Disconnect(h) PROVE TypeOK'
  BY <1>11 DEF Disconnect
<1>12. ASSUME NEW r \in Requests, Lookup(r) \/ ResolveBean(r) PROVE TypeOK'
  BY <1>12 DEF Lookup, ResolveBean
<1>13. ASSUME NEW r \in Requests, Respond(r) PROVE TypeOK'
  <2>1. handler[r] \in Handlers
    BY <1>13 DEF Respond, Inv, OnTheWay, None
  <2>2. PICK x \in Results : toClient' = Sent(toClient, handler[r], <<handler[r], r, x>>)
    BY <1>13 DEF Respond
  <2>3. toClient' \subseteq Handlers \X Requests \X Results
    BY <2>1, <2>2 DEF Sent
  <2>4. QED
    BY <1>13, <2>3 DEF Respond
<1>14. ASSUME UNCHANGED vars PROVE TypeOK'
  BY <1>14 DEF vars
<1>15. QED
  BY <1>1, <1>2, <1>3, <1>4, <1>5, <1>6, <1>7, <1>8, <1>9, <1>10, <1>11, <1>12, <1>13, <1>14
  DEF Next, CallerStep, EventStep, TaskStep

-----------------------------------------------------------------------------
(* Entering a call: its request was ahead and stays unsent.                 *)
LEMMA InvokeStep ==
  ASSUME IInv, NEW c \in Callers, Invoke(c)
  PROVE  Inv'
<1> USE RpcAssumption, RequestFacts DEF IInv, Inv, Invoke, Goto, server, network
<1>1. /\ calls' = [calls EXCEPT ![c] = @ + 1] /\ calls \in [Callers -> Nat]
      /\ pc' = [pc EXCEPT ![c] = IF channel = None THEN "connect" ELSE "send"]
      /\ pc \in [Callers -> {"idle", "connect", "put", "send", "write", "start", "await", "signalled"}]
  BY DEF TypeOK
<1>2. \A d \in Callers \ {c} : Current(d)' = Current(d) /\ pc'[d] = pc[d] /\ calls'[d] = calls[d]
  BY <1>1 DEF Current
<1>3. pc'[c] \in {"connect", "send"} /\ calls'[c] = calls[c] + 1 /\ (pc'[c] = "send" => channel # None)
  BY <1>1
<1>4. ASSUME NEW r \in Requests PROVE (Unregistered(r)' => Unregistered(r)) /\ (Unsent(r)' => Unsent(r))
  <2>1. CASE r[1] = c
    <3>1. Unregistered(r)' \/ Unsent(r)' => r[2] > calls[c]
      BY <1>1, <1>3, <2>1 DEF Unregistered, Unsent, Ahead, Current
    <3>2. QED
      BY <3>1, <2>1 DEF Unregistered, Unsent, Ahead
  <2>2. CASE r[1] # c
    BY <1>2, <2>2 DEF Unregistered, Unsent, Ahead
  <2>3. QED
    BY <2>1, <2>2
<1>5. InCall'
  BY <1>1, <1>2, <1>3 DEF InCall
<1>6. Untouched'
  BY <1>4 DEF Untouched
<1>7. WaiterIsRegistered'
  BY <1>2, <1>3 DEF WaiterIsRegistered
<1>8. OnTheWay' /\ Answered' /\ Registered' /\ Settled' /\ TableHoldsUnanswered'
  BY DEF OnTheWay, Answered, Registered, Settled, TableHoldsUnanswered
<1>9. QED
  BY <1>5, <1>6, <1>7, <1>8

(* A caller moves on: the other callers' calls and requests are where they  *)
(* were, and so is what is ahead.                                           *)
LEMMA MoveOn ==
  ASSUME IInv, NEW c \in Callers, pc[c] # "idle", NEW label, Goto(c, label), UNCHANGED calls,
         label \in {"connect", "put", "send"} => pc[c] \in {"connect", "put", "send"},
         label = "write" => pc[c] \in {"connect", "put", "send", "write"}
  PROVE  /\ pc'[c] = label
         /\ \A d \in Callers : Current(d)' = Current(d)
         /\ \A d \in Callers \ {c} : pc'[d] = pc[d]
         /\ \A r \in Requests : (Unregistered(r)' => Unregistered(r)) /\ (Unsent(r)' => Unsent(r))
         /\ Current(c) \in Requests
         /\ ~(Current(c)[2] > calls[c]) /\ Current(c)[1] = c
<1> USE RequestFacts DEF IInv, Inv
<1>1. pc \in [Callers -> {"idle", "connect", "put", "send", "write", "start", "await", "signalled"}]
  BY DEF TypeOK
<1>2. pc'[c] = label /\ \A d \in Callers \ {c} : pc'[d] = pc[d]
  BY <1>1 DEF Goto
<1>3. \A d \in Callers : Current(d)' = Current(d)
  BY DEF Current
<1>4. ASSUME NEW r \in Requests PROVE (Unregistered(r)' => Unregistered(r)) /\ (Unsent(r)' => Unsent(r))
  <2>1. CASE r[1] = c
    BY <1>2, <1>3, <2>1 DEF Unregistered, Unsent, Ahead
  <2>2. CASE r[1] # c
    BY <1>2, <1>3, <2>2 DEF Unregistered, Unsent, Ahead
  <2>3. QED
    BY <2>1, <2>2
<1>5. Current(c) \in Requests
  BY CurrentRequest
<1>6. ~(Current(c)[2] > calls[c]) /\ Current(c)[1] = c
  BY DEF Current, TypeOK
<1>7. QED
  BY <1>2, <1>3, <1>4, <1>5, <1>6

(* The steps that only bring a caller further.                              *)
LEMMA ConnectStep ==
  ASSUME IInv, NEW c \in Callers, Connect(c)
  PROVE  Inv'
<1> USE RequestFacts DEF IInv, Inv, Connect, Finish, server
<1>1. PICK label \in {"put", "idle"} : Goto(c, label) /\ (label = "put" => UNCHANGED outcome)
         /\ (label = "idle" => outcome' = [outcome EXCEPT ![Current(c)] = "thrown"])
  OBVIOUS
<1>2. /\ pc'[c] = label
      /\ \A d \in Callers : Current(d)' = Current(d)
      /\ \A d \in Callers \ {c} : pc'[d] = pc[d]
      /\ \A r \in Requests : (Unregistered(r)' => Unregistered(r)) /\ (Unsent(r)' => Unsent(r))
      /\ Current(c) \in Requests
      /\ ~(Current(c)[2] > calls[c]) /\ Current(c)[1] = c
  BY <1>1, MoveOn
<1>3. InCall'
  BY <1>1, <1>2 DEF InCall
<1>4. \A r \in Requests : r # Current(c) => outcome'[r] = outcome[r]
  BY <1>1 DEF TypeOK
<1>5. Untouched'
  <2>1. ASSUME NEW r \in Requests, Unregistered(r)' PROVE outcome'[r] = None
    <3>1. Unregistered(r) /\ outcome[r] = None
      BY <2>1, <1>2 DEF Untouched
    <3>2. r = Current(c) => label = "put"
      BY <2>1, <1>1, <1>2 DEF Unregistered, Ahead
    <3>3. QED
      BY <3>1, <3>2, <1>1, <1>4
  <2>2. QED
    BY <1>2, <2>1 DEF Untouched
<1>6. WaiterIsRegistered'
  BY <1>1, <1>2 DEF WaiterIsRegistered
<1>7. OnTheWay' /\ Answered' /\ Registered'
  BY DEF OnTheWay, Answered, Registered
<1>8. Settled' /\ TableHoldsUnanswered'
  <2>1. \A r \in Requests : outcome'[r] = outcome[r] \/ outcome'[r] = "thrown"
    BY <1>1, <1>4 DEF TypeOK
  <2>2. QED
    BY <2>1 DEF Settled, TableHoldsUnanswered, TypeOK
<1>9. QED
  BY <1>3, <1>5, <1>6, <1>7, <1>8

(* The put makes the handler visible to other callers.                     *)
LEMMA PutChannelStep ==
  ASSUME IInv, NEW c \in Callers, PutChannel(c)
  PROVE  Inv'
<1> USE RpcAssumption, RequestFacts DEF IInv, Inv, PutChannel, server, network
<1>1. /\ pc'[c] = "send"
      /\ \A d \in Callers : Current(d)' = Current(d)
      /\ \A d \in Callers \ {c} : pc'[d] = pc[d]
      /\ \A r \in Requests : (Unregistered(r)' => Unregistered(r)) /\ (Unsent(r)' => Unsent(r))
      /\ Current(c) \in Requests
      /\ ~(Current(c)[2] > calls[c]) /\ Current(c)[1] = c
  BY MoveOn
<1>2. InCall'
  BY <1>1 DEF InCall
<1>3. Untouched'
  BY <1>1 DEF Untouched
<1>4. WaiterIsRegistered'
  BY <1>1 DEF WaiterIsRegistered
<1>5. OnTheWay' /\ Answered' /\ Registered' /\ Settled' /\ TableHoldsUnanswered'
  BY DEF OnTheWay, Answered, Registered, Settled, TableHoldsUnanswered
<1>6. QED
  BY <1>2, <1>3, <1>4, <1>5

(* The wait begins, whether the response is there or not.                  *)
LEMMA AwaitStep ==
  ASSUME IInv, NEW c \in Callers, Await(c)
  PROVE  Inv'
<1> USE RequestFacts DEF IInv, Inv, Await, server, network
<1>1. /\ pc'[c] = "await"
      /\ \A d \in Callers : Current(d)' = Current(d)
      /\ \A d \in Callers \ {c} : pc'[d] = pc[d]
      /\ \A r \in Requests : (Unregistered(r)' => Unregistered(r)) /\ (Unsent(r)' => Unsent(r))
      /\ Current(c) \in Requests
      /\ ~(Current(c)[2] > calls[c]) /\ Current(c)[1] = c
  BY MoveOn
<1>2. InCall'
  BY <1>1 DEF InCall
<1>3. Untouched'
  BY <1>1 DEF Untouched
<1>4. WaiterIsRegistered'
  BY <1>1 DEF WaiterIsRegistered
<1>5. OnTheWay' /\ Answered' /\ Registered' /\ Settled' /\ TableHoldsUnanswered'
  BY DEF OnTheWay, Answered, Registered, Settled, TableHoldsUnanswered
<1>6. QED
  BY <1>2, <1>3, <1>4, <1>5

(* The request gets its handler and its callback: nothing has been heard of *)
(* it, so no message is on its way on another handler's connection.         *)
LEMMA RegisterStep ==
  ASSUME IInv, NEW c \in Callers, Register(c)
  PROVE  Inv'
<1> DEFINE r == Current(c)
<1> USE RequestFacts DEF IInv, Inv, Register, server, network
<1>1. /\ pc'[c] = "write"
      /\ \A d \in Callers : Current(d)' = Current(d)
      /\ \A d \in Callers \ {c} : pc'[d] = pc[d]
      /\ \A q \in Requests : (Unregistered(q)' => Unregistered(q)) /\ (Unsent(q)' => Unsent(q))
      /\ Current(c) \in Requests
      /\ ~(Current(c)[2] > calls[c]) /\ Current(c)[1] = c
  BY MoveOn
<1>2. Unregistered(r) /\ Unsent(r)
  BY <1>1 DEF Unregistered, Unsent, Ahead
<1>3. /\ response[r] = NoResponse /\ outcome[r] = None /\ task[r] = None
      /\ \A h \in Handlers : <<h, r>> \notin toServer
  BY <1>1, <1>2 DEF Untouched
<1>4. channel \in Handlers /\ channel # None
  BY DEF InCall, TypeOK
<1>5. /\ handler'[r] = channel /\ \A q \in Requests \ {r} : handler'[q] = handler[q]
      /\ table'[channel] = table[channel] \cup {r}
      /\ \A h \in Handlers \ {channel} : table'[h] = table[h]
  BY <1>1, <1>4 DEF TypeOK
<1>6. \A d \in Callers : d # c => Current(d) # r
  BY DEF Current
<1> HIDE DEF r
<1>7. InCall'
  <2>1. ASSUME NEW d \in Callers, d # c, pc[d] # "idle" PROVE handler'[Current(d)] = handler[Current(d)]
    BY <2>1, <1>5, <1>6, CurrentRequest
  <2>2. QED
    BY <1>1, <1>4, <1>5, <2>1 DEF InCall, r
<1>8. Untouched'
  <2>1. \A q \in Requests : q = r => ~Unregistered(q)'
    BY <1>1 DEF Unregistered, Ahead, r
  <2>2. \A q \in Requests \ {r} : \A h \in Handlers : q \in table'[h] => q \in table[h]
    BY <1>5
  <2>3. QED
    BY <1>1, <2>1, <2>2 DEF Untouched
<1>9. OnTheWay'
  BY <1>3, <1>4, <1>5 DEF OnTheWay
<1>10. Answered'
  BY <1>3, <1>5 DEF Answered, None
<1>11. Registered'
  <2>1. \A h \in Handlers : r \notin table[h]
    BY <1>1, <1>2 DEF Untouched, r
  <2>2. QED
    BY <1>5, <2>1 DEF Registered, TypeOK
<1>12. Settled'
  BY DEF Settled
<1>13. WaiterIsRegistered'
  <2>1. ASSUME NEW d \in Callers, d # c, pc[d] \in {"write", "start", "await"}, response[Current(d)] = NoResponse
        PROVE  Current(d) \in table'[handler'[Current(d)]]
    <3>1. /\ Current(d) \in Requests /\ Current(d) \in table[handler[Current(d)]]
          /\ handler[Current(d)] \in Handlers
      BY <2>1, CurrentRequest DEF WaiterIsRegistered, InCall, TypeOK
    <3>2. QED
      BY <3>1, <2>1, <1>5, <1>6
  <2>2. r \in table'[handler'[r]]
    BY <1>5
  <2>3. QED
    BY <1>1, <2>1, <2>2 DEF WaiterIsRegistered, r
<1>14. TableHoldsUnanswered'
  BY <1>1, <1>3, <1>5 DEF TableHoldsUnanswered, r
<1>15. QED
  BY <1>7, <1>8, <1>9, <1>10, <1>11, <1>12, <1>13, <1>14

(* The call ends: it has a result only if the server answered.              *)
LEMMA FinishStep ==
  ASSUME IInv, NEW c \in Callers, Woken(c) \/ Timeout(c)
  PROVE  Inv'
<1> DEFINE r == Current(c)
<1> USE RequestFacts DEF IInv, Inv, server, network
<1>0. /\ pc[c] \in {"signalled", "await"} /\ Goto(c, "idle")
      /\ outcome' = [outcome EXCEPT ![r] = IF response[r] = NoResponse THEN "timeout"
                                            ELSE IF response[r] = Failed THEN "empty" ELSE "result"]
      /\ UNCHANGED <<calls, handler, channel, context, table, response, server, network>>
  BY DEF Woken, Timeout, Answer, Finish
<1>1. /\ pc'[c] = "idle"
      /\ \A d \in Callers : Current(d)' = Current(d)
      /\ \A d \in Callers \ {c} : pc'[d] = pc[d]
      /\ \A q \in Requests : (Unregistered(q)' => Unregistered(q)) /\ (Unsent(q)' => Unsent(q))
      /\ Current(c) \in Requests
      /\ ~(Current(c)[2] > calls[c]) /\ Current(c)[1] = c
  BY <1>0, MoveOn
<1>2. /\ outcome'[r] = IF response[r] = NoResponse THEN "timeout"
                       ELSE IF response[r] = Failed THEN "empty" ELSE "result"
      /\ \A q \in Requests : q # r => outcome'[q] = outcome[q]
  BY <1>0, <1>1 DEF TypeOK
<1>3. InCall'
  BY <1>0, <1>1 DEF InCall
<1>4. Untouched'
  <2>1. \A q \in Requests : q = r => ~Unregistered(q)'
    BY <1>0, <1>1 DEF Unregistered, Ahead
  <2> HIDE DEF r
  <2>2. QED
    BY <1>0, <1>1, <1>2, <2>1 DEF Untouched
<1>5. OnTheWay' /\ Answered' /\ Registered'
  BY <1>0 DEF OnTheWay, Answered, Registered
<1>6. Settled'
  BY <1>0, <1>1, <1>2 DEF Settled, Answered
<1>7. WaiterIsRegistered'
  BY <1>0, <1>1 DEF WaiterIsRegistered
<1>8. TableHoldsUnanswered'
  BY <1>0, <1>1, <1>2 DEF TableHoldsUnanswered
<1>9. QED
  BY <1>3, <1>4, <1>5, <1>6, <1>7, <1>8

(* The request goes out, on its handler's connection, or the call throws.   *)
LEMMA WriteStep ==
  ASSUME IInv, NEW c \in Callers, Write(c)
  PROVE  Inv'
<1> DEFINE r == Current(c)
<1> USE RequestFacts DEF IInv, Inv, server, network
<1>0. PICK label \in {"idle", "start"} :
      /\ pc[c] = "write" /\ Goto(c, label)
      /\ outcome' = IF label = "idle" THEN [outcome EXCEPT ![r] = "thrown"] ELSE outcome
      /\ toServer' \subseteq toServer \cup {<<handler[r], r>>}
      /\ label = "idle" => toServer' = toServer
      /\ UNCHANGED <<calls, handler, channel, context, table, response, server,
                     conn, toClient, disconnects>>
  BY DEF Write, Finish, Sent
<1>1. /\ pc'[c] = label
      /\ \A d \in Callers : Current(d)' = Current(d)
      /\ \A d \in Callers \ {c} : pc'[d] = pc[d]
      /\ \A q \in Requests : (Unregistered(q)' => Unregistered(q)) /\ (Unsent(q)' => Unsent(q))
      /\ Current(c) \in Requests
      /\ ~(Current(c)[2] > calls[c]) /\ Current(c)[1] = c
  BY <1>0, MoveOn
<1>2. \A q \in Requests : outcome'[q] = IF q = r /\ label = "idle" THEN "thrown" ELSE outcome[q]
  BY <1>0, <1>1 DEF TypeOK
<1>3. Unsent(r)
  BY <1>0, <1>1 DEF Unsent, Ahead
<1>4. \A q \in Requests : q = r => ~Unsent(q)' /\ ~Unregistered(q)'
  BY <1>0, <1>1 DEF Unsent, Unregistered, Ahead
<1>5. task[r] = None
  BY <1>1, <1>3 DEF Untouched
<1>6. InCall'
  BY <1>0, <1>1 DEF InCall
<1>7. WaiterIsRegistered'
  BY <1>0, <1>1 DEF WaiterIsRegistered
<1> HIDE DEF r
<1>8. Untouched'
  <2>1. \A q \in Requests \ {r} : \A h \in Handlers : <<h, q>> \in toServer' => <<h, q>> \in toServer
    BY <1>0
  <2>2. QED
    BY <1>0, <1>1, <1>2, <1>4, <2>1 DEF Untouched
<1>9. OnTheWay'
  BY <1>0, <1>5 DEF OnTheWay
<1>10. Answered' /\ Registered'
  BY <1>0 DEF Answered, Registered
<1>11. Settled' /\ TableHoldsUnanswered'
  BY <1>0, <1>2 DEF Settled, TableHoldsUnanswered, TypeOK
<1>12. QED
  BY <1>6, <1>7, <1>8, <1>9, <1>10, <1>11

-----------------------------------------------------------------------------
(* The steps that leave callers and requests alone.                         *)
LEMMA StayPut ==
  ASSUME IInv, UNCHANGED <<calls, pc>>
  PROVE  /\ \A c \in Callers : Current(c)' = Current(c)
         /\ \A r \in Requests : Unregistered(r)' = Unregistered(r) /\ Unsent(r)' = Unsent(r)
BY DEF Current, Unregistered, Unsent, Ahead

(* The connection is up: the handler has its context.                      *)
LEMMA ChannelActiveStep ==
  ASSUME IInv, NEW h \in Handlers, ChannelActive(h)
  PROVE  Inv'
<1> USE StayPut DEF IInv, Inv, ChannelActive, server, network
<1>1. InCall' /\ WaiterIsRegistered'
  BY DEF InCall, WaiterIsRegistered
<1>2. Untouched'
  BY DEF Untouched
<1>3. OnTheWay' /\ Answered' /\ Registered' /\ Settled' /\ TableHoldsUnanswered'
  BY DEF OnTheWay, Answered, Registered, Settled, TableHoldsUnanswered
<1>4. QED
  BY <1>1, <1>2, <1>3

(* A disconnect drops what is on the wire; the tables keep their           *)
(* callbacks.                                                              *)
LEMMA DisconnectStep ==
  ASSUME IInv, NEW h \in Handlers, Disconnect(h)
  PROVE  Inv'
<1> USE StayPut DEF IInv, Inv, Disconnect, client, server
<1>1. toServer' \subseteq toServer /\ toClient' \subseteq toClient
  OBVIOUS
<1>2. InCall' /\ WaiterIsRegistered'
  BY DEF InCall, WaiterIsRegistered
<1>3. Untouched'
  BY <1>1 DEF Untouched
<1>4. OnTheWay' /\ Answered'
  BY <1>1 DEF OnTheWay, Answered
<1>5. Registered' /\ Settled' /\ TableHoldsUnanswered'
  BY DEF Registered, Settled, TableHoldsUnanswered
<1>6. QED
  BY <1>2, <1>3, <1>4, <1>5

(* The server takes a request off the wire, and starts its task.           *)
LEMMA ServerReadStep ==
  ASSUME IInv, NEW h \in Handlers, ServerRead(h)
  PROVE  Inv'
<1> USE RpcAssumption, StayPut DEF IInv, Inv, client
<1>1. PICK r \in Requests :
        /\ <<h, r>> \in toServer
        /\ toServer' = toServer \ {<<h, r>>}
        /\ task' = [task EXCEPT ![r] = "queued"]
        /\ UNCHANGED <<client, beanMap, conn, toClient, disconnects>>
  BY DEF ServerRead
<1>2. h = handler[r] /\ task[r] = None /\ ~Unsent(r)
  BY <1>1 DEF OnTheWay, Untouched
<1>3. task'[r] = "queued" /\ \A q \in Requests : q # r => task'[q] = task[q]
  BY <1>1 DEF TypeOK
<1>4. InCall' /\ WaiterIsRegistered'
  BY <1>1 DEF InCall, WaiterIsRegistered
<1>5. Untouched'
  BY <1>1, <1>2, <1>3 DEF Untouched
<1>6. OnTheWay'
  <2>1. h # None
    BY DEF Handlers
  <2>2. QED
    BY <1>1, <1>2, <1>3, <2>1 DEF OnTheWay
<1>7. Answered'
  BY <1>1, <1>2, <1>3 DEF Answered, None
<1>8. Registered' /\ Settled' /\ TableHoldsUnanswered'
  BY <1>1 DEF Registered, Settled, TableHoldsUnanswered
<1>9. QED
  BY <1>4, <1>5, <1>6, <1>7, <1>8

(* A task that looks for its bean answers nothing yet.                     *)
LEMMA LookupStep ==
  ASSUME IInv, NEW r \in Requests, Lookup(r) \/ ResolveBean(r)
  PROVE  Inv'
<1> USE StayPut DEF IInv, Inv, client, network
<1>1. /\ task[r] \in {"queued", "sync"}
      /\ task'[r] \in Running /\ \A q \in Requests : q # r => task'[q] = task[q]
      /\ UNCHANGED <<client, network>>
  BY DEF Lookup, ResolveBean, TypeOK, Running
<1>2. task[r] # None /\ task[r] # "done"
  BY <1>1 DEF None
<1>3. InCall' /\ WaiterIsRegistered'
  BY <1>1 DEF InCall, WaiterIsRegistered
<1>4. Untouched'
  BY <1>1, <1>2 DEF Untouched
<1>5. OnTheWay'
  BY <1>1, <1>2 DEF OnTheWay
<1>6. Answered'
  BY <1>1, <1>2 DEF Answered
<1>7. Registered' /\ Settled' /\ TableHoldsUnanswered'
  BY <1>1 DEF Registered, Settled, TableHoldsUnanswered
<1>8. QED
  BY <1>3, <1>4, <1>5, <1>6, <1>7

(* The response carries what belongs to the request.                        *)
LEMMA RespondStep ==
  ASSUME IInv, NEW r \in Requests, Respond(r)
  PROVE  Inv'
<1> USE StayPut DEF IInv, Inv, client
<1>1. PICK x \in {r, Failed} : toClient' \subseteq toClient \cup {<<handler[r], r, x>>}
  BY DEF Respond, Sent
<1>2. /\ task[r] \in {"invoke", "invokeNull"} /\ task'[r] = "done"
      /\ \A q \in Requests : q # r => task'[q] = task[q]
      /\ UNCHANGED <<client, beanMap, conn, toServer, disconnects>>
  BY DEF Respond, TypeOK
<1>3. task[r] # None
  BY <1>2 DEF None
<1>4. InCall' /\ WaiterIsRegistered'
  BY <1>2 DEF InCall, WaiterIsRegistered
<1>5. Untouched'
  BY <1>2, <1>3 DEF Untouched
<1>6. OnTheWay'
  BY <1>2, <1>3 DEF OnTheWay
<1>7. Answered'
  BY <1>1, <1>2 DEF Answered
<1>8. Registered' /\ Settled' /\ TableHoldsUnanswered'
  BY <1>2 DEF Registered, Settled, TableHoldsUnanswered
<1>9. QED
  BY <1>4, <1>5, <1>6, <1>7, <1>8

(* The response finds its callback, if that is there, and wakes its caller, *)
(* if it waits.                                                             *)
LEMMA ClientReadStep ==
  ASSUME IInv, NEW h \in Handlers, ClientRead(h)
  PROVE  Inv'
<1> USE RequestFacts DEF IInv, Inv, server
<1>1. PICK r \in Requests, x \in Results :
        /\ <<h, r, x>> \in toClient
        /\ toClient' \subseteq toClient
        /\ \/ /\ r \in table[h]
              /\ table' = [table EXCEPT ![h] = @ \ {r}]
              /\ Over(r, x)
           \/ UNCHANGED <<table, response, pc>>
        /\ UNCHANGED <<calls, handler, channel, context, outcome, server,
                       conn, toServer, disconnects>>
  BY DEF ClientRead
<1>2. h = handler[r] /\ x \in {r, Failed} /\ task[r] = "done" /\ x # NoResponse
  BY <1>1, FailedFact DEF Answered
<1>3. ASSUME UNCHANGED <<table, response, pc>> PROVE Inv'
  <2> USE <1>1, <1>3, StayPut
  <2>1. InCall' /\ WaiterIsRegistered'
    BY DEF InCall, WaiterIsRegistered
  <2>2. Untouched'
    BY DEF Untouched
  <2>3. OnTheWay' /\ Answered'
    BY DEF OnTheWay, Answered
  <2>4. Registered' /\ Settled' /\ TableHoldsUnanswered'
    BY DEF Registered, Settled, TableHoldsUnanswered
  <2>5. QED
    BY <2>1, <2>2, <2>3, <2>4
<1>4. ASSUME r \in table[h], table' = [table EXCEPT ![h] = @ \ {r}], Over(r, x) PROVE Inv'
  <2>1. /\ response'[r] = x /\ \A q \in Requests : q # r => response'[q] = response[q]
        /\ table'[h] = table[h] \ {r} /\ \A g \in Handlers : g # h => table'[g] = table[g]
    BY <1>4 DEF Over, TypeOK
  <2>2. \A c \in Callers : \/ pc'[c] = pc[c]
                           \/ pc[c] = "await" /\ pc'[c] = "signalled" /\ r = Current(c)
    <3>1. pc \in [Callers -> {"idle", "connect", "put", "send", "write", "start", "await", "signalled"}]
      BY DEF TypeOK
    <3>2. QED
      BY <3>1, <1>4 DEF Over
  <2>3. \A c \in Callers : Current(c)' = Current(c)
    BY <1>1 DEF Current
  <2>4. ASSUME NEW q \in Requests PROVE (Unregistered(q)' => Unregistered(q)) /\ (Unsent(q)' => Unsent(q))
    BY <1>1, <2>2, <2>3 DEF Unregistered, Unsent, Ahead
  <2>5. ~Unregistered(r) /\ r \notin table'[h] /\ outcome[r] \in {None, "timeout", "thrown"}
    BY <1>4, <2>1 DEF Untouched, TableHoldsUnanswered
  <2>6. \A g \in Handlers : r \in table[g] => g = h
    BY <1>4 DEF Registered
  <2>7. InCall'
    BY <1>1, <1>2, <2>1, <2>2, <2>3, CurrentRequest DEF InCall
  <2>8. Untouched'
    BY <1>1, <2>1, <2>4, <2>5 DEF Untouched
  <2>9. OnTheWay'
    BY <1>1 DEF OnTheWay
  <2>10. Answered'
    BY <1>1, <1>2, <2>1 DEF Answered
  <2>11. Registered'
    BY <1>1, <2>1 DEF Registered
  <2>12. Settled'
    BY <1>1, <2>1, <2>5 DEF Settled, None
  <2>13. WaiterIsRegistered'
    <3>1. ASSUME NEW c \in Callers, pc'[c] \in {"write", "start", "await"}, response'[Current(c)] = NoResponse
          PROVE  Current(c) \in table'[handler[Current(c)]]
      <4>1. pc'[c] = pc[c] /\ Current(c) \in Requests
        BY <2>2, <3>1, CurrentRequest
      <4>2. Current(c) # r /\ response[Current(c)] = NoResponse
        BY <4>1, <3>1, <1>2, <2>1
      <4>3. handler[Current(c)] \in Handlers /\ Current(c) \in table[handler[Current(c)]]
        BY <4>1, <4>2, <3>1 DEF WaiterIsRegistered, InCall, TypeOK
      <4>4. QED
        BY <4>2, <4>3, <2>1
    <3>2. QED
      BY <3>1, <1>1, <2>3 DEF WaiterIsRegistered
  <2>14. TableHoldsUnanswered'
    BY <1>1, <2>1, <2>5, <2>6 DEF TableHoldsUnanswered, TypeOK
  <2>15. QED
    BY <2>7, <2>8, <2>9, <2>10, <2>11, <2>12, <2>13, <2>14
<1>5. QED
  BY <1>1, <1>3, <1>4

-----------------------------------------------------------------------------
(* The steps of callers, event loop, network and server.                   *)
LEMMA InvStep ==
  ASSUME IInv, [Next]_vars
  PROVE  IInv'
<1>1. ASSUME UNCHANGED vars PROVE Inv'
  <2> USE StayPut, <1>1 DEF IInv, Inv, vars, client, server, network
  <2>1. InCall' /\ WaiterIsRegistered'
    BY DEF InCall, WaiterIsRegistered
  <2>2. Untouched'
    BY DEF Untouched
  <2>3. OnTheWay' /\ Answered' /\ Registered' /\ Settled' /\ TableHoldsUnanswered'
    BY DEF OnTheWay, Answered, Registered, Settled, TableHoldsUnanswered
  <2>4. QED
    BY <2>1, <2>2, <2>3
<1>2. ASSUME NEW c \in Callers, Invoke(c) \/ CallerStep(c) PROVE Inv'
  BY <1>2, InvokeStep, ConnectStep, PutChannelStep, RegisterStep, WriteStep, AwaitStep, FinishStep
  DEF CallerStep
<1>3. ASSUME NEW h \in Handlers, EventStep(h) \/ Disconnect(h) PROVE Inv'
  BY <1>3, ChannelActiveStep, ClientReadStep, ServerReadStep, DisconnectStep DEF EventStep
<1>4. ASSUME NEW r \in Requests, TaskStep(r) PROVE Inv'
  BY <1>4, LookupStep, RespondStep DEF TaskStep
<1>5. Inv'
  BY <1>1, <1>2, <1>3, <1>4 DEF Next
<1>6. QED
  BY <1>5, TypeStep DEF IInv

(* The invariant holds always.                                             *)
LEMMA RpcInvariant == Spec => []IInv
<1>1. QED
  BY InitIInv, InvStep, PTL DEF Spec

(* Every variable of the protocol keeps its type.                           *)
THEOREM RpcType == Spec => []TypeOK
<1>1. IInv => TypeOK
  BY DEF IInv
<1>2. QED
  BY <1>1, RpcInvariant, PTL

(* NettyProxy.invoke returns the result of its own request, which the       *)
(* server has executed: OutputClientHandler takes a callback out of its     *)
(* table with the first response, so no other can overwrite the result.     *)
THEOREM RpcOwnResult == Spec => []OwnResult
<1>1. IInv => OwnResult
  BY RequestFacts DEF IInv, Inv, Settled, Answered, OwnResult
<1>2. QED
  BY <1>1, RpcInvariant, PTL

(* The callback of a caller without a response is in the table of the       *)
(* handler that its request was sent with, whatever CHANNEL_FUTURE_MAP      *)
(* holds by then.                                                           *)
THEOREM RpcWaiterIsRegistered == Spec => []WaiterIsRegistered
<1>1. IInv => WaiterIsRegistered
  BY DEF IInv, Inv
<1>2. QED
  BY <1>1, RpcInvariant, PTL

(* STRING_OBJECT_MAP holds only callbacks without a response.               *)
THEOREM RpcTableHoldsUnanswered == Spec => []TableHoldsUnanswered
<1>1. IInv => TableHoldsUnanswered
  BY DEF IInv, Inv
<1>2. QED
  BY <1>1, RpcInvariant, PTL
=============================================================================
