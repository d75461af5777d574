--------------------------- MODULE RocketConsumer ---------------------------
(***************************************************************************)
(* The two ways the repository consumes a RocketMQ topic, one queue of it: *)
(*   "stream"       the stream binder: RocketBlockingQueueConsumer hands   *)
(*                  messages to SimpleRocketMessageListenerContainer's     *)
(*                  loop through a bounded queue;                          *)
(*   "concurrently" DefaultRocketMQListenerContainer with                  *)
(*   and "orderly"  DefaultMessageListenerConcurrently or -Orderly.        *)
(* The RocketMQ client and broker are external: the client hands batches   *)
(* to its threads in the order of the queue, takes what consumeMessage     *)
(* returns, and stores from time to time the offset below which all is     *)
(* acknowledged.  Messages are numbered by their offset.  The group has    *)
(* consumed before: without a stored offset the client would start at the  *)
(* end of the queue (CONSUME_FROM_LAST_OFFSET).                            *)
(***************************************************************************)
EXTENDS Naturals, FiniteSets, FiniteSetsExt, Sequences, SequencesExt

CONSTANTS
  Threads,      \* threads of the RocketMQ client that call consumeMessage
  Batch,        \* consumeMessageBatchMaxSize
  Prefetch,     \* the capacity of the stream binder's queue
  MaxReconsume, \* maxReconsumeTimes: a message fails so often, then is dead
  Undecodable,  \* messages that extractHeaders cannot parse
  MaxSent,      \* bound: MaxSent[x] messages are sent to a consumer of mode x
  MaxFailures,  \* bound: calls of onMessage that throw
  MaxCrashes    \* bound: crashes and shutdowns of the process

Modes == {"stream", "concurrently", "orderly"}
Messages == 1..Max({MaxSent[x] : x \in Modes})

ASSUME ConsumerAssumption ==
  /\ IsFiniteSet(Threads)
  /\ Batch \in Nat \ {0} /\ Prefetch \in Nat \ {0} /\ MaxReconsume \in Nat
  /\ MaxSent \in [Modes -> Nat] /\ MaxFailures \in Nat /\ MaxCrashes \in Nat
  /\ Undecodable \subseteq Messages

NoJob == [msgs |-> <<>>, next |-> 1, again |-> FALSE]

VARIABLES
  mode,      \* which consumer this is: configuration, never changed
  sent,      \* broker: messages 1..sent are in the queue
  stored,    \* broker (stream: local file): the offset to restart from
  retry,     \* broker: messages sent back, to be delivered again
  dead,      \* broker: the dead letter queue
  tries,     \* broker: how often a message was sent back
  started,   \* is the consumer running?
  pulled,    \* client: messages up to pulled were handed to a thread
  pending,   \* client: of these, the ones not acknowledged
  job,       \* job[t]: the list t consumes, the index it is at, and whether
             \* the list comes from retry
  queue,     \* RocketBlockingQueueConsumer.queue
  current,   \* <<m>>: doReceiveAndExecute has taken m from the queue
  handled,   \* handled[m]: calls of onMessage for m that returned, or, in
             \* the stream binder, that were made
  failures, crashes

broker == <<sent, stored, retry, dead, tries>>
client == <<pulled, pending, job>>
binder == <<queue, current>>
vars == <<mode, broker, started, client, binder, handled, failures, crashes>>

Init ==
  /\ mode \in Modes
  /\ sent = 0 /\ stored = 0
  /\ retry = {} /\ dead = {}
  /\ tries = [m \in Messages |-> 0]
  /\ started = TRUE
  /\ pulled = 0 /\ pending = {}
  /\ job = [t \in Threads |-> NoJob]
  /\ queue = <<>> /\ current = <<>>
  /\ handled = [m \in Messages |-> 0]
  /\ failures = 0 /\ crashes = 0

Idle(t) == job[t] = NoJob
Message(t) == job[t].msgs[job[t].next]
Consuming(t) == job[t].next <= Len(job[t].msgs)
Listed(t) == ToSet(job[t].msgs)

-----------------------------------------------------------------------------
(* The broker and the client.                                              *)
Send ==
  /\ sent < MaxSent[mode]
  /\ sent' = sent + 1
  /\ UNCHANGED <<mode, stored, retry, dead, tries, started, client, binder, handled, failures, crashes>>

(* A thread gets the next messages of the queue; in orderly mode the queue *)
(* is locked while a thread consumes from it.                              *)
Deliver(t) ==
  /\ started /\ Idle(t)
  /\ mode = "orderly" => \A u \in Threads : Idle(u)
  /\ \E n \in 1..Batch :
       /\ pulled + n <= sent
       /\ job' = [job EXCEPT ![t].msgs = [i \in 1..n |-> pulled + i]]
       /\ pending' = pending \cup {pulled + i : i \in 1..n}
       /\ pulled' = pulled + n
  /\ UNCHANGED <<mode, broker, started, binder, handled, failures, crashes>>

(* A message that was sent back is delivered again.                        *)
Redeliver(t, m) ==
  /\ started /\ Idle(t)
  /\ m \in retry /\ \A u \in Threads : m \notin Listed(u)
  /\ job' = [job EXCEPT ![t] = [msgs |-> <<m>>, next |-> 1, again |-> TRUE]]
  /\ UNCHANGED <<mode, broker, started, pulled, pending, binder, handled, failures, crashes>>

(* The offset below which everything is acknowledged.                      *)
Offset == IF pending = {} THEN pulled ELSE Min(pending) - 1

StoreOffset ==
  /\ started /\ stored # Offset
  /\ stored' = Offset
  /\ UNCHANGED <<mode, sent, retry, dead, tries, started, client, binder, handled, failures, crashes>>

(* consumeMessage returned CONSUME_SUCCESS or SUCCESS.                     *)
Acknowledge(t) ==
  /\ pending' = IF job[t].again THEN pending ELSE pending \ Listed(t)
  /\ retry' = IF job[t].again THEN retry \ Listed(t) ELSE retry
  /\ job' = [job EXCEPT ![t] = NoJob]

(* consumeMessage returned RECONSUME_LATER: the whole list is sent back,   *)
(* each message that was sent back too often to the dead letter queue.     *)
SendBack(t) ==
  LET over == {m \in Listed(t) : tries[m] >= MaxReconsume}
  IN  /\ pending' = IF job[t].again THEN pending ELSE pending \ Listed(t)
      /\ retry' = (retry \cup Listed(t)) \ over
      /\ dead' = dead \cup over
      /\ tries' = [m \in Messages |-> IF m \in Listed(t) \ over THEN tries[m] + 1 ELSE tries[m]]
      /\ job' = [job EXCEPT ![t] = NoJob]
      /\ UNCHANGED pulled

(* consumeMessage returned SUSPEND_CURRENT_QUEUE_A_MOMENT: the list is     *)
(* consumed again before anything else of the queue.                       *)
Suspend(t) ==
  /\ pulled' = Min(Listed(t)) - 1
  /\ pending' = pending \ Listed(t)
  /\ job' = [job EXCEPT ![t] = NoJob]
  /\ UNCHANGED <<retry, dead, tries>>

-----------------------------------------------------------------------------
(* The listener container.  onMessage returns: on with the next message.   *)
Handle(t) ==
  /\ mode # "stream" /\ Consuming(t)
  /\ handled' = [handled EXCEPT ![Message(t)] = @ + 1]
  /\ job' = [job EXCEPT ![t].next = @ + 1]
  /\ UNCHANGED <<mode, broker, started, pulled, pending, binder, failures, crashes>>

(* Mutant: the exception is logged and the loop goes on.                   *)
HandleFailsButGoesOn(t) ==
  /\ mode # "stream" /\ Consuming(t)
  /\ failures < MaxFailures
  /\ failures' = failures + 1
  /\ job' = [job EXCEPT ![t].next = @ + 1]
  /\ UNCHANGED <<mode, broker, started, pulled, pending, binder, handled, crashes>>

(* Mutant: the orderly listener sends the list back, too.                  *)
HandleFailsUnordered(t) ==
  /\ mode # "stream" /\ Consuming(t)
  /\ failures < MaxFailures
  /\ failures' = failures + 1
  /\ SendBack(t)
  /\ UNCHANGED <<mode, sent, stored, started, binder, handled, crashes>>

(* It throws, or doConvertMessage does: the rest of the list is not        *)
(* consumed, and the list as a whole is to be consumed again.              *)
HandleFails(t) ==
  /\ mode # "stream" /\ Consuming(t)
  /\ failures < MaxFailures
  /\ failures' = failures + 1
  /\ IF mode = "orderly" THEN Suspend(t) ELSE SendBack(t)
  /\ UNCHANGED <<mode, sent, stored, started, binder, handled, crashes>>

(* The end of the list, in either consumer.                                *)
Finish(t) ==
  /\ ~Idle(t) /\ ~Consuming(t)
  /\ Acknowledge(t)
  /\ UNCHANGED <<mode, sent, stored, dead, tries, started, pulled, binder, handled, failures, crashes>>

(* destroy: the client stores its offset and stops; listeners that are     *)
(* running are not acknowledged any more.                                  *)
Destroy ==
  /\ mode # "stream" /\ started /\ crashes < MaxCrashes
  /\ crashes' = crashes + 1
  /\ stored' = Offset
  /\ started' = FALSE
  /\ job' = [t \in Threads |-> NoJob]
  /\ UNCHANGED <<mode, sent, retry, dead, tries, pulled, pending, binder, handled, failures>>

(* start, which refuses a container that is started.                       *)
Start ==
  /\ ~started
  /\ started' = TRUE
  /\ pulled' = stored
  /\ pending' = {}
  /\ UNCHANGED <<mode, broker, job, binder, handled, failures, crashes>>

-----------------------------------------------------------------------------
(* Mutant: a queue without capacity.                                       *)
PutUnbounded(t) ==
  /\ mode = "stream" /\ Consuming(t) /\ Message(t) \notin Undecodable
  /\ queue' = Append(queue, Message(t))
  /\ job' = [job EXCEPT ![t].next = @ + 1]
  /\ UNCHANGED <<mode, broker, started, pulled, pending, current, handled, failures, crashes>>

(* The stream binder.  InnerConsumer.consumeMessage puts each message into *)
(* the queue, and waits while it is full;                                  *)
Put(t) ==
  /\ mode = "stream" /\ Consuming(t) /\ Message(t) \notin Undecodable
  /\ Len(queue) < Prefetch
  /\ queue' = Append(queue, Message(t))
  /\ job' = [job EXCEPT ![t].next = @ + 1]
  /\ UNCHANGED <<mode, broker, started, pulled, pending, current, handled, failures, crashes>>

(* one it cannot parse is logged, and acknowledged with the others.        *)
Drop(t) ==
  /\ mode = "stream" /\ Consuming(t) /\ Message(t) \in Undecodable
  /\ job' = [job EXCEPT ![t].next = @ + 1]
  /\ UNCHANGED <<mode, broker, started, pulled, pending, binder, handled, failures, crashes>>

(* nextMessage; that it finds nothing in time changes nothing.             *)
NextMessage ==
  /\ queue # <<>> /\ current = <<>>
  /\ current' = <<Head(queue)>>
  /\ queue' = Tail(queue)
  /\ UNCHANGED <<mode, broker, started, client, handled, failures, crashes>>

(* executeListener; what onMessage throws is caught and forgotten.         *)
ExecuteListener ==
  /\ current # <<>>
  /\ handled' = [handled EXCEPT ![current[1]] = @ + 1]
  /\ current' = <<>>
  /\ UNCHANGED <<mode, broker, started, client, queue, failures, crashes>>

(* The process dies: what it held in memory is gone.                       *)
Crash ==
  /\ started /\ crashes < MaxCrashes
  /\ crashes' = crashes + 1
  /\ started' = FALSE
  /\ job' = [t \in Threads |-> NoJob]
  /\ queue' = <<>> /\ current' = <<>>
  /\ UNCHANGED <<mode, broker, pulled, pending, handled, failures>>

-----------------------------------------------------------------------------
Work(t) ==
  \/ Deliver(t) \/ \E m \in Messages : Redeliver(t, m)
  \/ Handle(t) \/ HandleFails(t) \/ Finish(t) \/ Put(t) \/ Drop(t)

Receive == NextMessage \/ ExecuteListener

Next ==
  \/ Send \/ StoreOffset \/ Destroy \/ Start \/ Crash
  \/ \E t \in Threads : Work(t)
  \/ Receive

(* The client's threads and the binder's loop run on, and a container that *)
(* was stopped is started again.                                           *)
Fairness == WF_vars(Start) /\ WF_vars(Receive) /\ \A t \in Threads : WF_vars(Work(t))
Spec == Init /\ [][Next]_vars /\ Fairness

-----------------------------------------------------------------------------
(* The fields of the consumers, the client and the broker hold what their  *)
(* declarations say; the binder's queue never exceeds its capacity.        *)
TypeOK ==
  /\ mode \in Modes
  /\ sent \in 0..MaxSent[mode] /\ stored \in 0..sent
  /\ retry \subseteq Messages /\ dead \subseteq Messages
  /\ tries \in [Messages -> 0..MaxReconsume]
  /\ started \in BOOLEAN
  /\ pulled \in 0..sent /\ pending \subseteq 1..pulled
  /\ \A t \in Threads : job[t].next \in 1..(Len(job[t].msgs) + 1)
  /\ queue \in Seq(Messages) /\ Len(queue) <= Prefetch
  /\ Len(current) <= 1
  /\ failures \in 0..MaxFailures /\ crashes \in 0..MaxCrashes

(* The listener container loses nothing: a message that a restart skips    *)
(* was handled, or is in the broker's hands to be delivered again or       *)
(* looked at, however its listener failed, in whatever batch, and wherever *)
(* the process died (consumeMessage's RECONSUME_LATER and SUSPEND).        *)
AtLeastOnce ==
  mode # "stream" =>
    \A m \in 1..stored : handled[m] > 0 \/ m \in retry \cup dead

(* In orderly mode no message is handled before the ones sent before it,   *)
(* across failures, batches and restarts (DefaultMessageListenerOrderly).  *)
InOrder ==
  mode = "orderly" =>
    \A m \in Messages : handled[m] > 0 => \A k \in 1..m : handled[k] > 0

(* The stream binder acknowledges what it has only queued.  What a crash   *)
(* can lose of that is bounded: the queue and the message being executed   *)
(* (RocketBlockingQueueConsumer's queue.put blocks the acknowledgement).   *)
LossBounded ==
  mode = "stream" =>
    Cardinality({m \in (1..pulled) \ pending : handled[m] = 0 /\ m \notin Undecodable})
      <= (Prefetch + 1) * (crashes + 1)

(* Nothing the process was given is left lying in it.                      *)
Drained == pulled = sent /\ pending = {} /\ queue = <<>> /\ current = <<>>

(* In the end every message is consumed: the listener container has        *)
(* handled all that were sent, or the broker has them as dead, and the     *)
(* binder has executed all that it queued: no thread waits for room in the *)
(* queue forever (queue.put against the loop of doReceiveAndExecute).      *)
AllConsumed ==
  <>[](IF mode = "stream" THEN Drained
                          ELSE \A m \in 1..sent : handled[m] > 0 \/ m \in dead)
=============================================================================
