------------------------ MODULE RocketConsumerProofs ------------------------
(***************************************************************************)
(* For any number of client threads and messages, any batch size and any   *)
(* capacity of the binder's queue: what the three consumers lose, and in   *)
(* which order the orderly one handles.                                    *)
(***************************************************************************)
EXTENDS RocketConsumer, SequenceTheorems, FiniteSetTheorems, WellFoundedInduction, TLAPS

Handled(m) == handled[m] > 0

(* Handled, or in the broker's hands.                                       *)
Done(m) == Handled(m) \/ m \in retry \cup dead

(* What doReceiveAndExecute has yet to execute.                             *)
InFlight == ToSet(queue) \cup ToSet(current)

(* What is acknowledged although nobody has handled it.                     *)
Unhandled == {m \in (1..pulled) \ pending : handled[m] = 0 /\ m \notin Undecodable}

Jobs == [msgs : Seq(Messages), next : Nat \ {0}, again : BOOLEAN]

(* The types of what TypeOK says nothing of.                                *)
Fields ==
  /\ job \in [Threads -> Jobs]
  /\ handled \in [Messages -> Nat]
  /\ current \in Seq(Messages)

(* A stopped consumer has no threads; no message at or below the stored     *)
(* offset waits for its acknowledgement.                                    *)
Stored ==
  /\ ~started => \A t \in Threads : Idle(t)
  /\ stored <= pulled /\ \A m \in pending : stored < m

(* What has become of a message that a thread has passed in its list.       *)
Dealt(m) ==
  IF mode = "stream" THEN m \in Undecodable \/ m \in InFlight \/ Handled(m) ELSE Handled(m)

Passed ==
  \A t \in Threads, m \in Messages : \A i \in 1..Len(job[t].msgs) :
     i < job[t].next /\ m = job[t].msgs[i] => Dealt(m)

(* What is acknowledged is handled, or in the broker's hands.               *)
Acknowledged ==
  mode # "stream" => \A m \in 1..pulled : m \notin pending => Done(m)

(* In orderly mode nothing goes back to the broker, and one thread at a     *)
(* time consumes: the messages that follow those that are acknowledged.     *)
Orderly ==
  mode = "orderly" =>
    /\ retry = {} /\ dead = {} /\ queue = <<>> /\ current = <<>>
    /\ started /\ (\A t \in Threads : Idle(t)) => pending = {}
    /\ \A t \in Threads : ~Idle(t) =>
         /\ ~job[t].again /\ pending = Listed(t)
         /\ \A i \in 1..Len(job[t].msgs) : job[t].msgs[i] = job[t].msgs[1] + (i - 1)
         /\ \A u \in Threads : ~Idle(u) => u = t

(* Each crash has lost at most what was in flight.                          *)
Loss == mode = "stream" => Cardinality(Unhandled \ InFlight) <= (Prefetch + 1) * crashes

IInv == TypeOK /\ InOrder /\ Fields /\ Stored /\ Passed /\ Acknowledged /\ Orderly /\ Loss

-----------------------------------------------------------------------------
(* The least element that Offset and Suspend ask for.                       *)
LEMMA Least ==
  ASSUME NEW S \in SUBSET Nat, S # {}
  PROVE  Min(S) \in S /\ \A y \in S : Min(S) <= y
<1> DEFINE R == {p \in Nat \X Nat : p[1] < p[2]}
<1>1. IsWellFoundedOn(R, Nat)
  BY NatLessThanWellFounded DEF OpToRel
<1>2. \A x, y \in Nat : y < x => <<y, x>> \in R
  <2>1. SUFFICES ASSUME NEW x \in Nat, NEW y \in Nat, y < x PROVE <<y, x>> \in R
    OBVIOUS
  <2>2. <<y, x>>[1] = y /\ <<y, x>>[2] = x
    OBVIOUS
  <2>3. QED
    BY <2>1, <2>2
<1> HIDE DEF R
<1>3. PICK x \in S : \A y \in S : <<y, x>> \notin R
  BY <1>1, WFMin
<1>4. \A y \in S : ~(y < x)
  BY <1>2, <1>3
<1>5. \A y \in S : x <= y
  BY <1>4
<1>6. QED
  BY <1>3, <1>5 DEF Min

(* Every message that can be sent has a number.                             *)
LEMMA Numbered ==
  /\ \A x \in Modes : MaxSent[x] \in Nat /\ 1..MaxSent[x] \subseteq Messages
  /\ \A m \in Messages : m \in Nat \ {0} /\ 1..m \subseteq Messages
<1> DEFINE S == {MaxSent[x] : x \in Modes}
<1>1. \A x \in Modes : MaxSent[x] \in Nat /\ MaxSent[x] \in S
  BY ConsumerAssumption
<1>2. S = {MaxSent["stream"], MaxSent["concurrently"], MaxSent["orderly"]}
  BY DEF Modes
<1>3. \E x \in S : \A y \in S : x >= y
  BY <1>1, <1>2 DEF Modes
<1>4. Max(S) \in S /\ \A y \in S : Max(S) >= y
  BY <1>3 DEF Max
<1>5. Max(S) \in Nat
  BY <1>1, <1>4
<1>6. \E n \in Nat : Messages = 1..n /\ \A x \in Modes : n >= MaxSent[x]
  BY <1>1, <1>4, <1>5 DEF Messages
<1>7. QED
  BY <1>1, <1>6

(* The elements of a sequence.                                              *)
LEMMA Elements ==
  ASSUME NEW S, NEW d \in Seq(S)
  PROVE  /\ DOMAIN d = 1..Len(d) /\ Len(d) \in Nat
         /\ \A i \in 1..Len(d) : d[i] \in ToSet(d) /\ d[i] \in S
         /\ \A x \in ToSet(d) : x \in S /\ \E i \in 1..Len(d) : x = d[i]
BY LenProperties, ElementOfSeq DEF ToSet

(* What a thread's list is, and the message that is next.                   *)
LEMMA Lists ==
  ASSUME Fields
  PROVE  \A t \in Threads :
           /\ job[t] \in Jobs /\ job[t].msgs \in Seq(Messages)
           /\ job[t].next \in Nat \ {0} /\ job[t].again \in BOOLEAN
           /\ Len(job[t].msgs) \in Nat
           /\ \A i \in 1..Len(job[t].msgs) : job[t].msgs[i] \in Listed(t) /\ job[t].msgs[i] \in Messages
           /\ \A m \in Listed(t) : m \in Messages /\ \E i \in 1..Len(job[t].msgs) : m = job[t].msgs[i]
           /\ Consuming(t) => Message(t) \in Listed(t) /\ Message(t) \in Messages
<1>1. SUFFICES ASSUME NEW t \in Threads PROVE
         /\ job[t] \in Jobs /\ job[t].msgs \in Seq(Messages)
         /\ job[t].next \in Nat \ {0} /\ job[t].again \in BOOLEAN
         /\ Len(job[t].msgs) \in Nat
         /\ \A i \in 1..Len(job[t].msgs) : job[t].msgs[i] \in Listed(t) /\ job[t].msgs[i] \in Messages
         /\ \A m \in Listed(t) : m \in Messages /\ \E i \in 1..Len(job[t].msgs) : m = job[t].msgs[i]
         /\ Consuming(t) => Message(t) \in Listed(t) /\ Message(t) \in Messages
  OBVIOUS
<1>2. job[t] \in Jobs
  BY DEF Fields
<1>3. /\ job[t].msgs \in Seq(Messages) /\ job[t].next \in Nat \ {0}
      /\ job[t].again \in BOOLEAN
  BY <1>2 DEF Jobs
<1>4. /\ Len(job[t].msgs) \in Nat
      /\ \A i \in 1..Len(job[t].msgs) : job[t].msgs[i] \in Listed(t) /\ job[t].msgs[i] \in Messages
      /\ \A m \in Listed(t) : m \in Messages /\ \E i \in 1..Len(job[t].msgs) : m = job[t].msgs[i]
  BY <1>3, Elements DEF Listed
<1>5. Consuming(t) => job[t].next \in 1..Len(job[t].msgs)
  BY <1>3, <1>4 DEF Consuming
<1>6. QED
  BY <1>2, <1>3, <1>4, <1>5 DEF Message

(* The loop of consumeMessage goes on to the next message.                  *)
LEMMA GoesOn ==
  ASSUME NEW j \in [Threads -> Jobs], NEW t \in Threads, NEW k,
         k = [j EXCEPT ![t].next = @ + 1]
  PROVE  /\ k \in [Threads -> Jobs]
         /\ \A u \in Threads :
              /\ k[u].msgs = j[u].msgs /\ k[u].again = j[u].again
              /\ k[u].next = IF u = t THEN j[u].next + 1 ELSE j[u].next
<1>1. j[t] \in Jobs
  OBVIOUS
<1>2. k[t] = [msgs |-> j[t].msgs, next |-> j[t].next + 1, again |-> j[t].again]
  BY <1>1 DEF Jobs
<1>3. /\ k[t] \in Jobs
      /\ k[t].msgs = j[t].msgs /\ k[t].again = j[t].again /\ k[t].next = j[t].next + 1
  <2>1. j[t].msgs \in Seq(Messages) /\ j[t].next + 1 \in Nat \ {0} /\ j[t].again \in BOOLEAN
    BY <1>1 DEF Jobs
  <2>2. QED
    BY <1>2, <2>1 DEF Jobs
<1>4. \A u \in Threads : u # t => k[u] = j[u]
  OBVIOUS
<1>5. k \in [Threads -> Jobs]
  BY <1>3, <1>4
<1>6. QED
  BY <1>3, <1>4, <1>5

(* Below the offset that is stored everything is acknowledged.              *)
LEMMA OffsetBelow ==
  ASSUME TypeOK
  PROVE  Offset \in 0..pulled /\ \A m \in pending : Offset < m
<1>1. pulled \in Nat /\ pending \subseteq 1..pulled
  BY Numbered DEF TypeOK
<1>2. CASE pending = {}
  BY <1>1, <1>2 DEF Offset
<1>3. CASE pending # {}
  <2>1. pending \in SUBSET Nat
    BY <1>1
  <2>2. Min(pending) \in pending /\ \A m \in pending : Min(pending) <= m
    BY <1>3, <2>1, Least
  <2>3. Min(pending) \in 1..pulled
    BY <1>1, <2>2
  <2>4. Offset = Min(pending) - 1
    BY <1>3 DEF Offset
  <2>5. QED
    BY <1>1, <2>2, <2>3, <2>4
<1>4. QED
  BY <1>2, <1>3

-----------------------------------------------------------------------------
(* The types, in three parts: how far the consumer has come, what the       *)
(* threads have, and the rest.                                              *)
Offsets ==
  /\ mode \in Modes
  /\ sent \in 0..MaxSent[mode] /\ stored \in 0..sent
  /\ pulled \in 0..sent /\ pending \subseteq 1..pulled
  /\ stored <= pulled /\ \A m \in pending : stored < m

Lives ==
  /\ started \in BOOLEAN
  /\ job \in [Threads -> Jobs]
  /\ \A t \in Threads : job[t].next \in 1..(Len(job[t].msgs) + 1)
  /\ ~started => \A t \in Threads : Idle(t)

Holdings ==
  /\ retry \subseteq Messages /\ dead \subseteq Messages
  /\ tries \in [Messages -> 0..MaxReconsume]
  /\ queue \in Seq(Messages) /\ Len(queue) <= Prefetch
  /\ current \in Seq(Messages) /\ Len(current) <= 1
  /\ handled \in [Messages -> Nat]
  /\ failures \in 0..MaxFailures /\ crashes \in 0..MaxCrashes

Types == TypeOK /\ Fields /\ Stored

(* The types can be proved in parts.                                       *)
LEMMA TypeParts == Types <=> Offsets /\ Lives /\ Holdings
<1>1. Types => Offsets
  BY DEF Types, TypeOK, Stored, Offsets
<1>2. Types => Lives
  <2>1. SUFFICES ASSUME Types PROVE Lives
    OBVIOUS
  <2>2. started \in BOOLEAN
    BY <2>1 DEF Types, TypeOK
  <2>3. QED
    BY <2>1, <2>2, Zenon DEF Types, TypeOK, Fields, Stored, Lives
<1>3. Types => Holdings
  BY DEF Types, TypeOK, Fields, Holdings
<1>4. Offsets /\ Lives /\ Holdings => Types
  <2>1. SUFFICES ASSUME Offsets, Lives, Holdings PROVE Types
    OBVIOUS
  <2>2. TypeOK
    BY <2>1, Zenon DEF Offsets, Lives, Holdings, TypeOK
  <2>3. Fields
    BY <2>1, Zenon DEF Lives, Holdings, Fields
  <2>4. Stored
    BY <2>1, Zenon DEF Offsets, Lives, Stored
  <2>5. QED
    BY <2>2, <2>3, <2>4 DEF Types
<1>5. QED
  BY <1>1, <1>2, <1>3, <1>4

(* Nothing sent, nothing held.                                             *)
LEMMA TypesInit == Init => Types
<1>1. SUFFICES ASSUME Init PROVE Types
  OBVIOUS
<1>2. MaxSent[mode] \in Nat
  BY <1>1, Numbered DEF Init
<1>3. NoJob \in Jobs /\ Len(NoJob.msgs) = 0 /\ NoJob.next = 1
  BY DEF NoJob, Jobs
<1>4. Offsets
  BY <1>1, <1>2 DEF Init, Offsets
<1>5. Lives
  <2>1. started \in BOOLEAN /\ started
    BY <1>1 DEF Init
  <2>2. \A t \in Threads : job[t] = NoJob
    BY <1>1 DEF Init
  <2>3. \A t \in Threads : job[t].next \in 1..(Len(job[t].msgs) + 1)
    BY <1>3, <2>2
  <2>4. job \in [Threads -> Jobs]
    BY <1>1, <1>3 DEF Init
  <2>5. QED
    BY <2>1, <2>3, <2>4 DEF Lives
<1>6. Holdings
  BY <1>1, ConsumerAssumption DEF Init, Holdings
<1>7. QED
  BY <1>4, <1>5, <1>6, TypeParts

(* A list that is delivered.                                                *)
LEMMA Delivered ==
  ASSUME Types, NEW t \in Threads, NEW n \in 1..Batch, pulled + n <= sent
  PROVE  LET b == [i \in 1..n |-> pulled + i] IN
         /\ b \in Seq(Messages) /\ Len(b) = n
         /\ \A i \in 1..n : b[i] = pulled + i /\ b[i] \in 1..(pulled + n)
         /\ ToSet(b) = {pulled + i : i \in 1..n}
<1> DEFINE b == [i \in 1..n |-> pulled + i]
<1>1. pulled \in Nat /\ n \in Nat /\ sent \in Nat /\ 1..sent \subseteq Messages
  <2>1. mode \in Modes /\ sent \in 0..MaxSent[mode] /\ pulled \in 0..sent
    BY DEF Types, TypeOK
  <2>2. MaxSent[mode] \in Nat /\ 1..MaxSent[mode] \subseteq Messages
    BY <2>1, Numbered
  <2>3. QED
    BY <2>1, <2>2, ConsumerAssumption
<1>2. \A i \in 1..n : b[i] = pulled + i /\ b[i] \in 1..(pulled + n) /\ b[i] \in Messages
  <2>1. SUFFICES ASSUME NEW i \in 1..n PROVE b[i] = pulled + i /\ b[i] \in 1..(pulled + n) /\ b[i] \in Messages
    OBVIOUS
  <2>2. b[i] = pulled + i /\ pulled + i \in 1..(pulled + n) /\ pulled + i \in 1..sent
    BY <1>1
  <2>3. QED
    BY <1>1, <2>2
<1>3. b \in Seq(Messages) /\ Len(b) = n
  BY <1>1, <1>2
<1>4. ToSet(b) = {pulled + i : i \in 1..n}
  BY <1>2 DEF ToSet
<1>5. QED
  BY <1>2, <1>3, <1>4

(* The types of offsets and of the set of pending messages.                *)
LEMMA OffsetsStep ==
  ASSUME Types, Orderly, [Next]_vars
  PROVE  Offsets'
<1>1. /\ Offsets /\ mode \in Modes /\ MaxSent[mode] \in Nat
      /\ sent \in Nat /\ stored \in Nat /\ pulled \in Nat /\ pulled <= sent /\ stored <= sent
      /\ pending \subseteq 1..pulled
  BY TypeParts, Numbered DEF Offsets
<1>2. Offset \in 0..pulled /\ \A m \in pending : Offset < m
  BY OffsetBelow DEF Types
<1>3. ASSUME UNCHANGED <<mode, sent, stored, pulled>>, pending' \subseteq pending PROVE Offsets'
  BY <1>1, <1>3 DEF Offsets
<1>4. CASE Send
  BY <1>1, <1>4 DEF Send, Offsets, client
<1>5. CASE StoreOffset
  BY <1>1, <1>2, <1>5 DEF StoreOffset, Offsets, client
<1>6. CASE Destroy
  BY <1>1, <1>2, <1>6 DEF Destroy, Offsets
<1>7. CASE Start
  BY <1>1, <1>7 DEF Start, Offsets, broker
<1>8. CASE Crash
  BY <1>3, <1>8 DEF Crash, broker
<1>9. ASSUME NEW t \in Threads, Deliver(t) PROVE Offsets'
  <2>1. PICK n \in 1..Batch :
          /\ pulled + n <= sent /\ pulled' = pulled + n
          /\ pending' = pending \cup {pulled + i : i \in 1..n}
    BY <1>9 DEF Deliver
  <2>2. n \in Nat \ {0}
    BY ConsumerAssumption
  <2>3. UNCHANGED <<mode, sent, stored>>
    BY <1>9 DEF Deliver, broker
  <2>4. \A m \in pending' : m \in 1..pulled' /\ stored < m
    <3>1. SUFFICES ASSUME NEW m \in pending' PROVE m \in 1..pulled' /\ stored < m
      OBVIOUS
    <3>2. CASE m \in pending
      <4>1. m \in 1..pulled /\ stored < m
        BY <1>1, <3>2 DEF Offsets
      <4>2. QED
        BY <1>1, <2>1, <2>2, <4>1
    <3>3. ASSUME NEW i \in 1..n, m = pulled + i PROVE m \in 1..pulled' /\ stored < m
      BY <1>1, <2>1, <2>2, <3>3 DEF Offsets
    <3>4. QED
      BY <2>1, <3>2, <3>3
  <2>5. pending' \subseteq 1..pulled' /\ \A m \in pending' : stored' < m
    BY <2>3, <2>4
  <2>6. stored' <= pulled' /\ pulled' \in 0..sent'
    <3>1. stored <= pulled
      BY <1>1 DEF Offsets
    <3>2. QED
      BY <1>1, <2>1, <2>2, <2>3, <3>1
  <2>7. mode' \in Modes /\ sent' \in 0..MaxSent[mode]' /\ stored' \in 0..sent'
    BY <1>1, <2>3 DEF Offsets
  <2>8. QED
    BY <2>5, <2>6, <2>7 DEF Offsets
<1>10. ASSUME NEW t \in Threads, \E m \in Messages : Redeliver(t, m) PROVE Offsets'
  BY <1>3, <1>10 DEF Redeliver, broker
<1>11. ASSUME NEW t \in Threads, Handle(t) \/ Put(t) \/ Drop(t) PROVE Offsets'
  BY <1>3, <1>11 DEF Handle, Put, Drop, broker
<1>12. ASSUME NEW t \in Threads, Finish(t) PROVE Offsets'
  BY <1>3, <1>12 DEF Finish, Acknowledge
<1>13. ASSUME NEW t \in Threads, HandleFails(t) PROVE Offsets'
  <2>1. UNCHANGED <<mode, sent, stored>> /\ Consuming(t) /\ (IF mode = "orderly" THEN Suspend(t) ELSE SendBack(t))
    BY <1>13 DEF HandleFails
  <2>2. CASE mode # "orderly"
    BY <1>3, <2>1, <2>2 DEF SendBack
  <2>3. CASE mode = "orderly"
    <3>1. Suspend(t)
      BY <2>1, <2>3
    <3>2. ~Idle(t) /\ Listed(t) # {}
      <4>1. Message(t) \in Listed(t) /\ Len(job[t].msgs) > 0
        BY <2>1, Lists DEF Types, Consuming
      <4>2. QED
        BY <4>1 DEF Idle, NoJob
    <3>3. pending = Listed(t)
      BY <2>3, <3>2 DEF Orderly
    <3>4. Min(pending) \in pending
      BY <1>1, <3>2, <3>3, Least
    <3>5. pulled' = Min(pending) - 1 /\ pending' = {}
      BY <3>1, <3>3 DEF Suspend
    <3>6. Min(pending) \in 1..pulled /\ stored < Min(pending)
      BY <1>1, <3>4 DEF Offsets
    <3>7. QED
      BY <1>1, <2>1, <3>5, <3>6 DEF Offsets
  <2>4. QED
    BY <2>2, <2>3
<1>14. CASE Receive
  BY <1>3, <1>14 DEF Receive, NextMessage, ExecuteListener, broker, client
<1>15. CASE UNCHANGED vars
  BY <1>3, <1>15 DEF vars, broker, client
<1>16. QED
  BY <1>4, <1>5, <1>6, <1>7, <1>8, <1>9, <1>10, <1>11, <1>12, <1>13, <1>14, <1>15 DEF Next, Work

(* The types of threads and counters.                                      *)
LEMMA LivesStep ==
  ASSUME Types, [Next]_vars
  PROVE  Lives'
<1>1. Lives /\ started \in BOOLEAN /\ job \in [Threads -> Jobs]
  <2>1. Lives
    BY TypeParts
  <2>2. QED
    BY <2>1, Zenon DEF Lives
<1>2. \A t \in Threads :
        /\ job[t].next \in 1..(Len(job[t].msgs) + 1) /\ Len(job[t].msgs) \in Nat
        /\ job[t].next \in Nat \ {0}
  BY <1>1, Lists DEF Lives, Types
<1>3. NoJob \in Jobs /\ NoJob.next \in 1..(Len(NoJob.msgs) + 1)
  BY DEF NoJob, Jobs
<1>4. ASSUME UNCHANGED <<started, job>> PROVE Lives'
  BY <1>1, <1>4, Zenon DEF Lives, Idle
<1>5. ASSUME started' = FALSE, job' = [t \in Threads |-> NoJob] PROVE Lives'
  <2>1. job' \in [Threads -> Jobs] /\ \A t \in Threads : job'[t] = NoJob
    BY <1>3, <1>5
  <2>2. started' \in BOOLEAN
    BY <1>5
  <2>3. QED
    BY <1>3, <2>1, <2>2 DEF Lives, Idle
<1>6. ASSUME NEW t \in Threads, NEW b \in Jobs, b.next \in 1..(Len(b.msgs) + 1),
             job' = [job EXCEPT ![t] = b], started' = started, started \/ b = NoJob
      PROVE  Lives'
  <2>1. /\ job' \in [Threads -> Jobs]
        /\ \A u \in Threads : job'[u] = IF u = t THEN b ELSE job[u]
    BY <1>1, <1>6
  <2>2. \A u \in Threads : job'[u].next \in 1..(Len(job'[u].msgs) + 1)
    BY <1>2, <1>6, <2>1
  <2>3. ~started' => \A u \in Threads : job'[u] = NoJob
    BY <1>1, <1>6, <2>1 DEF Lives, Idle
  <2>4. started' \in BOOLEAN
    BY <1>1, <1>6
  <2>5. QED
    BY <2>1, <2>2, <2>3, <2>4, Zenon DEF Lives, Idle
<1>7. ASSUME NEW t \in Threads, Consuming(t), job' = [job EXCEPT ![t].next = @ + 1], started' = started
      PROVE  Lives'
  <2>1. /\ job' \in [Threads -> Jobs]
        /\ \A u \in Threads :
             /\ job'[u].msgs = job[u].msgs
             /\ job'[u].next = IF u = t THEN job[u].next + 1 ELSE job[u].next
    BY <1>1, <1>7, GoesOn
  <2>2. \A u \in Threads : job'[u].next \in 1..(Len(job'[u].msgs) + 1)
    <3>1. ASSUME NEW u \in Threads PROVE job'[u].next \in 1..(Len(job'[u].msgs) + 1)
      <4>1. CASE u = t
        BY <1>2, <1>7, <2>1, <4>1 DEF Consuming
      <4>2. CASE u # t
        BY <1>2, <2>1, <4>2
      <4>3. QED
        BY <4>1, <4>2
    <3>2. QED
      BY <3>1
  <2>3. started
    <3>1. ~Idle(t)
      BY <1>2, <1>7 DEF Consuming, Idle, NoJob
    <3>2. QED
      BY <1>1, <3>1 DEF Lives
  <2>4. QED
    BY <1>7, <2>1, <2>2, <2>3 DEF Lives
<1>8. CASE Send \/ StoreOffset
  BY <1>4, <1>8 DEF Send, StoreOffset, client
<1>9. CASE Destroy \/ Crash
  BY <1>5, <1>9 DEF Destroy, Crash
<1>10. CASE Start
  <2>1. started' \in BOOLEAN /\ started' /\ job' = job
    BY <1>10 DEF Start
  <2>2. QED
    BY <1>1, <2>1 DEF Lives
<1>11. ASSUME NEW t \in Threads, Deliver(t) PROVE Lives'
  <2>1. PICK n \in 1..Batch :
          /\ pulled + n <= sent
          /\ job' = [job EXCEPT ![t].msgs = [i \in 1..n |-> pulled + i]]
    BY <1>11 DEF Deliver
  <2> DEFINE b == [i \in 1..n |-> pulled + i]
             k == [msgs |-> b, next |-> 1, again |-> FALSE]
  <2>2. b \in Seq(Messages) /\ Len(b) = n /\ n \in Nat
    BY <2>1, Delivered, ConsumerAssumption
  <2>3. job' = [job EXCEPT ![t] = [job[t] EXCEPT !.msgs = b]]
    BY <1>1, <2>1
  <2> HIDE DEF b
  <2>4. [job[t] EXCEPT !.msgs = b] = k
    <3>1. job[t] \in Jobs /\ job[t].next = 1 /\ job[t].again = FALSE
      <4>1. job[t] = NoJob
        BY <1>11 DEF Deliver, Idle
      <4>2. NoJob.next = 1 /\ NoJob.again = FALSE
        BY DEF NoJob
      <4>3. QED
        BY <1>1, <4>1, <4>2
    <3>2. [job[t] EXCEPT !.msgs = b] = [msgs |-> b, next |-> job[t].next, again |-> job[t].again]
      BY <3>1 DEF Jobs
    <3>3. QED
      BY <3>1, <3>2
  <2>5. k \in Jobs /\ k.next \in 1..(Len(k.msgs) + 1)
    BY <2>2 DEF Jobs
  <2>6. started' = started /\ started
    BY <1>11 DEF Deliver
  <2> HIDE DEF k
  <2>7. QED
    BY <1>6, <2>3, <2>4, <2>5, <2>6
<1>12. ASSUME NEW t \in Threads, NEW m \in Messages, Redeliver(t, m) PROVE Lives'
  <2> DEFINE k == [msgs |-> <<m>>, next |-> 1, again |-> TRUE]
  <2>1. job' = [job EXCEPT ![t] = k] /\ started' = started /\ started
    BY <1>12 DEF Redeliver
  <2>2. k \in Jobs /\ k.next \in 1..(Len(k.msgs) + 1)
    BY DEF Jobs
  <2> HIDE DEF k
  <2>3. QED
    BY <1>6, <2>1, <2>2
<1>13. ASSUME NEW t \in Threads, Handle(t) \/ Put(t) \/ Drop(t) PROVE Lives'
  BY <1>7, <1>13 DEF Handle, Put, Drop
<1>14. ASSUME NEW t \in Threads, HandleFails(t) \/ Finish(t) PROVE Lives'
  <2>1. job' = [job EXCEPT ![t] = NoJob] /\ started' = started
    BY <1>14 DEF HandleFails, Suspend, SendBack, Finish, Acknowledge
  <2>2. QED
    BY <1>3, <1>6, <2>1
<1>15. CASE Receive \/ UNCHANGED vars
  BY <1>4, <1>15 DEF Receive, NextMessage, ExecuteListener, vars, client
<1>16. QED
  BY <1>8, <1>9, <1>10, <1>11, <1>12, <1>13, <1>14, <1>15 DEF Next, Work

(* The types of what threads, the queue and the loop hold.                 *)
LEMMA HoldingsStep ==
  ASSUME Types, [Next]_vars
  PROVE  Holdings'
<1>1. /\ Holdings /\ MaxReconsume \in Nat /\ Prefetch \in Nat \ {0}
      /\ MaxFailures \in Nat /\ MaxCrashes \in Nat
      /\ failures \in Nat /\ crashes \in Nat /\ Len(queue) \in Nat
  BY TypeParts, ConsumerAssumption DEF Holdings
<1>2. \A t \in Threads : Listed(t) \subseteq Messages
  BY Lists DEF Types
<1>3. ASSUME UNCHANGED <<retry, dead, tries, queue, current, handled, failures>>,
             crashes' = crashes \/ (crashes' = crashes + 1 /\ crashes < MaxCrashes)
      PROVE  Holdings'
  BY <1>1, <1>3 DEF Holdings
<1>4. CASE Send \/ StoreOffset \/ Destroy \/ Start
  BY <1>3, <1>4 DEF Send, StoreOffset, Destroy, Start, broker, binder
<1>5. CASE Crash
  BY <1>1, <1>5 DEF Crash, Holdings, broker
<1>6. ASSUME NEW t \in Threads, \/ Deliver(t) \/ Drop(t) \/ \E m \in Messages : Redeliver(t, m)
      PROVE  Holdings'
  BY <1>3, <1>6 DEF Deliver, Drop, Redeliver, broker, binder
<1>7. ASSUME NEW t \in Threads, Handle(t) PROVE Holdings'
  <2>1. Message(t) \in Messages /\ handled' = [handled EXCEPT ![Message(t)] = @ + 1]
    BY <1>7, Lists DEF Handle, Types
  <2>2. handled' \in [Messages -> Nat]
    BY <1>1, <2>1 DEF Holdings
  <2>3. QED
    BY <1>1, <1>7, <2>2 DEF Handle, Holdings, broker, binder
<1>8. ASSUME NEW t \in Threads, HandleFails(t) PROVE Holdings'
  <2>1. /\ UNCHANGED <<queue, current, handled, crashes>>
        /\ failures' = failures + 1 /\ failures < MaxFailures
    BY <1>8 DEF HandleFails, binder
  <2>2. /\ retry' \subseteq Messages /\ dead' \subseteq Messages
        /\ tries' \in [Messages -> 0..MaxReconsume]
    <3>1. CASE Suspend(t)
      BY <1>1, <3>1 DEF Suspend, Holdings
    <3>2. CASE SendBack(t)
      <4>1. /\ retry' \subseteq retry \cup Listed(t) /\ dead' \subseteq dead \cup Listed(t)
            /\ tries' = [m \in Messages |->
                 IF m \in Listed(t) \ {x \in Listed(t) : tries[x] >= MaxReconsume} THEN tries[m] + 1 ELSE tries[m]]
        BY <3>2 DEF SendBack
      <4>2. \A m \in Messages : tries[m] \in 0..MaxReconsume
        BY <1>1 DEF Holdings
      <4>3. \A m \in Messages : tries'[m] \in 0..MaxReconsume
        BY <1>1, <4>1, <4>2
      <4>4. QED
        BY <1>1, <1>2, <4>1, <4>3 DEF Holdings
    <3>3. QED
      BY <1>8, <3>1, <3>2 DEF HandleFails
  <2>3. QED
    BY <1>1, <2>1, <2>2 DEF Holdings
<1>9. ASSUME NEW t \in Threads, Finish(t) PROVE Holdings'
  BY <1>1, <1>9 DEF Finish, Acknowledge, Holdings, binder
<1>10. ASSUME NEW t \in Threads, Put(t) PROVE Holdings'
  <2>1. Message(t) \in Messages /\ queue' = Append(queue, Message(t)) /\ Len(queue) < Prefetch
    BY <1>10, Lists DEF Put, Types
  <2>2. queue \in Seq(Messages)
    BY <1>1 DEF Holdings
  <2>3. queue' \in Seq(Messages) /\ Len(queue') = Len(queue) + 1
    BY <2>1, <2>2, AppendProperties
  <2>4. Len(queue') <= Prefetch
    BY <1>1, <2>1, <2>3
  <2>5. QED
    BY <1>1, <1>10, <2>3, <2>4 DEF Put, Holdings, broker
<1>11. CASE NextMessage
  <2>1. queue \in Seq(Messages) /\ queue # <<>>
    BY <1>1, <1>11 DEF Holdings, NextMessage
  <2>2. Head(queue) \in Messages /\ Tail(queue) \in Seq(Messages) /\ Len(Tail(queue)) = Len(queue) - 1
    BY <2>1, HeadTailProperties
  <2>3. current' \in Seq(Messages) /\ Len(current') <= 1
    BY <1>11, <2>2 DEF NextMessage
  <2>4. queue' \in Seq(Messages) /\ Len(queue') <= Prefetch
    BY <1>1, <1>11, <2>2 DEF NextMessage, Holdings
  <2>5. QED
    BY <1>1, <1>11, <2>3, <2>4 DEF NextMessage, Holdings, broker
<1>12. CASE ExecuteListener
  <2>1. current \in Seq(Messages) /\ current # <<>>
    BY <1>1, <1>12 DEF Holdings, ExecuteListener
  <2>2. current[1] \in Messages
    BY <2>1, HeadTailProperties
  <2>3. handled' \in [Messages -> Nat] /\ current' = <<>>
    BY <1>1, <1>12, <2>2 DEF ExecuteListener, Holdings
  <2>4. QED
    BY <1>1, <1>12, <2>3 DEF ExecuteListener, Holdings, broker
<1>13. CASE UNCHANGED vars
  BY <1>3, <1>13 DEF vars, broker, binder
<1>14. QED
  BY <1>4, <1>5, <1>6, <1>7, <1>8, <1>9, <1>10, <1>11, <1>12, <1>13 DEF Next, Work, Receive

(* The types, after every step.                                            *)
LEMMA TypesStep ==
  ASSUME Types, Orderly, [Next]_vars
  PROVE  Types'
<1>1. Offsets' /\ Lives' /\ Holdings'
  BY OffsetsStep, LivesStep, HoldingsStep
<1>2. (Types <=> Offsets /\ Lives /\ Holdings)'
  BY TypeParts, PTL
<1>3. QED
  BY <1>1, <1>2

-----------------------------------------------------------------------------
(* How handled, what is in flight and what is acknowledged change.          *)
LEMMA HandledStep ==
  ASSUME Types, [Next]_vars, NEW m \in Messages
  PROVE  handled[m] \in Nat /\ handled'[m] \in Nat /\ handled[m] <= handled'[m]
<1>1. handled \in [Messages -> Nat]
  BY DEF Types, Fields
<1>2. ASSUME UNCHANGED handled PROVE handled[m] \in Nat /\ handled'[m] \in Nat /\ handled[m] <= handled'[m]
  BY <1>1, <1>2
<1>3. ASSUME NEW x, handled' = [handled EXCEPT ![x] = @ + 1]
      PROVE  handled[m] \in Nat /\ handled'[m] \in Nat /\ handled[m] <= handled'[m]
  BY <1>1, <1>3
<1>4. CASE UNCHANGED handled
  BY <1>2, <1>4
<1>5. ASSUME NEW t \in Threads, Handle(t) PROVE \E x : handled' = [handled EXCEPT ![x] = @ + 1]
  BY <1>5 DEF Handle
<1>6. CASE ExecuteListener
  BY <1>3, <1>6 DEF ExecuteListener
<1>7. \/ UNCHANGED handled \/ ExecuteListener \/ \E t \in Threads : Handle(t)
  BY DEF Next, Work, Receive, Send, StoreOffset, Destroy, Start, Crash, Deliver, Redeliver, HandleFails,
         Finish, Put, Drop, NextMessage, vars
<1>8. QED
  BY <1>3, <1>4, <1>5, <1>6, <1>7

(* Nothing leaves the binder but to its listener, or in a crash.            *)
LEMMA FlightStep ==
  ASSUME Types, [Next]_vars, ~Crash, NEW m \in InFlight
  PROVE  m \in InFlight' \/ Handled(m)'
<1>1. queue \in Seq(Messages) /\ current \in Seq(Messages) /\ Len(current) <= 1
  BY DEF Types, TypeOK, Fields
<1>2. ASSUME UNCHANGED <<queue, current>> PROVE m \in InFlight'
  BY <1>2 DEF InFlight
<1>3. ASSUME NEW t \in Threads, Put(t) PROVE m \in InFlight'
  <2>1. Message(t) \in Messages /\ queue' = Append(queue, Message(t)) /\ current' = current
    BY <1>3, Lists DEF Put, Types
  <2>2. queue' \in Seq(Messages) /\ Len(queue') = Len(queue) + 1 /\ \A i \in 1..Len(queue) : queue'[i] = queue[i]
    BY <1>1, <2>1, AppendProperties
  <2>3. ASSUME m \in ToSet(queue) PROVE m \in ToSet(queue')
    <3>1. PICK i \in 1..Len(queue) : m = queue[i]
      BY <1>1, <2>3, Elements
    <3>2. i \in 1..Len(queue') /\ m = queue'[i]
      BY <1>1, <2>2, <3>1, Elements
    <3>3. QED
      BY <2>2, <3>2, Elements
  <2>4. QED
    BY <2>1, <2>3 DEF InFlight
<1>4. CASE NextMessage
  <2>1. queue # <<>> /\ current = <<>> /\ current' = <<Head(queue)>> /\ queue' = Tail(queue)
    BY <1>4 DEF NextMessage
  <2>2. /\ Head(queue) \in Messages /\ Head(queue) = queue[1]
        /\ Tail(queue) \in Seq(Messages) /\ Len(Tail(queue)) = Len(queue) - 1
        /\ \A i \in 1..Len(Tail(queue)) : Tail(queue)[i] = queue[i + 1]
    BY <1>1, <2>1, HeadTailProperties
  <2>3. m \in ToSet(queue)
    BY <2>1 DEF InFlight, ToSet
  <2>4. PICK i \in 1..Len(queue) : m = queue[i]
    BY <1>1, <2>3, Elements
  <2>5. CASE i = 1
    <3>1. m \in ToSet(current')
      BY <2>1, <2>2, <2>4, <2>5 DEF ToSet
    <3>2. QED
      BY <3>1 DEF InFlight
  <2>6. CASE i # 1
    <3>1. i - 1 \in 1..Len(Tail(queue)) /\ (i - 1) + 1 = i
      BY <1>1, <2>2, <2>4, <2>6, Elements
    <3>2. m = Tail(queue)[i - 1]
      BY <2>2, <2>4, <3>1
    <3>3. m \in ToSet(queue')
      BY <2>1, <2>2, <3>1, <3>2, Elements
    <3>4. QED
      BY <3>3 DEF InFlight
  <2>7. QED
    BY <2>5, <2>6
<1>5. CASE ExecuteListener
  <2>1. queue' = queue /\ handled' = [handled EXCEPT ![current[1]] = @ + 1]
    BY <1>5 DEF ExecuteListener
  <2>2. ASSUME m \in ToSet(current) PROVE Handled(m)'
    <3>1. PICK i \in 1..Len(current) : m = current[i] /\ m \in Messages
      BY <1>1, <2>2, Elements
    <3>2. i = 1
      BY <1>1, <3>1, Elements
    <3>3. handled \in [Messages -> Nat]
      BY DEF Types, Fields
    <3>4. handled'[m] = handled[m] + 1 /\ handled[m] \in Nat
      BY <2>1, <3>1, <3>2, <3>3
    <3>5. QED
      BY <3>4 DEF Handled
  <2>3. QED
    BY <2>1, <2>2 DEF InFlight
<1>6. \/ UNCHANGED <<queue, current>> \/ NextMessage \/ ExecuteListener \/ \E t \in Threads : Put(t)
  BY DEF Next, Work, Receive, Send, StoreOffset, Destroy, Start, Deliver, Redeliver, HandleFails, Handle,
         Finish, Drop, vars, binder
<1>7. QED
  BY <1>2, <1>3, <1>4, <1>5, <1>6

(* What has been dealt with stays so, unless the process crashes.          *)
LEMMA DealtStep ==
  ASSUME Types, [Next]_vars, ~Crash, NEW m \in Messages, Dealt(m)
  PROVE  Dealt(m)'
<1>1. mode' = mode
  BY DEF Next, Work, Receive, Send, StoreOffset, Destroy, Start, Crash, Deliver, Redeliver, HandleFails, Handle,
         Finish, Put, Drop, NextMessage, ExecuteListener, vars
<1>2. Handled(m) => Handled(m)'
  BY HandledStep DEF Handled
<1>3. m \in InFlight => m \in InFlight' \/ Handled(m)'
  BY FlightStep
<1>4. QED
  BY <1>1, <1>2, <1>3 DEF Dealt

(* At its end a list is dealt with.                                         *)
LEMMA Finished ==
  ASSUME Types, Passed, NEW t \in Threads, ~Consuming(t), NEW m \in Listed(t)
  PROVE  Dealt(m)
<1>1. PICK i \in 1..Len(job[t].msgs) : m = job[t].msgs[i] /\ m \in Messages
  BY Lists DEF Types
<1>2. i < job[t].next
  BY <1>1, Lists DEF Consuming, Types
<1>3. QED
  BY <1>1, <1>2 DEF Passed

(* A thread goes on in its list only when it is done with a message.       *)
LEMMA PassedStep ==
  ASSUME Types, Passed, [Next]_vars
  PROVE  Passed'
<1>1. job \in [Threads -> Jobs] /\ \A t \in Threads : job[t].next \in Nat \ {0} /\ Len(job[t].msgs) \in Nat
  BY Lists DEF Types, Fields
<1>2. NoJob.next = 1 /\ Len(NoJob.msgs) = 0
  BY DEF NoJob
<1>3. SUFFICES ASSUME NEW u \in Threads, NEW m \in Messages, NEW i \in 1..Len(job'[u].msgs),
                      i < job'[u].next, m = job'[u].msgs[i]
               PROVE  Dealt(m)'
  BY DEF Passed
<1>4. ASSUME ~Crash, job'[u].msgs = job[u].msgs, i < job[u].next PROVE Dealt(m)'
  <2>1. Dealt(m)
    BY <1>3, <1>4 DEF Passed
  <2>2. QED
    BY <1>4, <2>1, DealtStep
<1>5. ASSUME job'[u] = NoJob \/ job'[u].next = 1 PROVE FALSE
  <2>1. job'[u].next = 1
    BY <1>2, <1>5
  <2>2. i \in Nat /\ i >= 1
    BY <1>3
  <2>3. QED
    BY <1>3, <2>1, <2>2
<1>6. ASSUME NEW t \in Threads, NEW b, job' = [job EXCEPT ![t] = b], b.next = 1, ~Crash PROVE Dealt(m)'
  <2>1. CASE u = t
    BY <1>1, <1>5, <1>6, <2>1
  <2>2. CASE u # t
    BY <1>1, <1>3, <1>4, <1>6, <2>2
  <2>3. QED
    BY <2>1, <2>2
<1>7. ASSUME NEW t \in Threads, Consuming(t), job' = [job EXCEPT ![t].next = @ + 1], ~Crash,
             \A x \in Messages : x = Message(t) => Dealt(x)'
      PROVE  Dealt(m)'
  <2>1. /\ job'[u].msgs = job[u].msgs
        /\ job'[u].next = IF u = t THEN job[u].next + 1 ELSE job[u].next
    BY <1>1, <1>7, GoesOn
  <2>2. CASE i < job[u].next
    BY <1>4, <1>7, <2>1, <2>2
  <2>3. CASE ~(i < job[u].next)
    <3>1. u = t /\ i = job[u].next
      BY <1>1, <1>3, <2>1, <2>3
    <3>2. m = Message(t)
      BY <1>3, <2>1, <3>1 DEF Message
    <3>3. QED
      BY <1>7, <3>2
  <2>4. QED
    BY <2>2, <2>3
<1>8. CASE Crash \/ Destroy
  <2>1. job' = [t \in Threads |-> NoJob]
    BY <1>8 DEF Crash, Destroy
  <2>2. QED
    BY <1>5, <2>1
<1>9. ASSUME NEW t \in Threads, Deliver(t), ~Crash PROVE Dealt(m)'
  <2>1. PICK n \in 1..Batch : job' = [job EXCEPT ![t].msgs = [j \in 1..n |-> pulled + j]]
    BY <1>9 DEF Deliver
  <2>2. job[t] = NoJob
    BY <1>9 DEF Deliver, Idle
  <2>3. job'[t].next = 1
    <3>1. job'[t] = [NoJob EXCEPT !.msgs = [j \in 1..n |-> pulled + j]]
      BY <1>1, <2>1, <2>2
    <3>2. QED
      BY <3>1 DEF NoJob
  <2>4. CASE u = t
    BY <1>5, <2>3, <2>4
  <2>5. CASE u # t
    BY <1>1, <1>3, <1>4, <1>9, <2>1, <2>5
  <2>6. QED
    BY <2>4, <2>5
<1>10. ASSUME NEW t \in Threads, NEW x \in Messages, Redeliver(t, x), ~Crash PROVE Dealt(m)'
  <2> DEFINE b == [msgs |-> <<x>>, next |-> 1, again |-> TRUE]
  <2>1. job' = [job EXCEPT ![t] = b] /\ b.next = 1
    BY <1>10 DEF Redeliver
  <2> HIDE DEF b
  <2>2. QED
    BY <1>6, <1>10, <2>1
<1>11. ASSUME NEW t \in Threads, HandleFails(t) \/ Finish(t), ~Crash PROVE Dealt(m)'
  <2>1. job' = [job EXCEPT ![t] = NoJob]
    BY <1>11 DEF HandleFails, Suspend, SendBack, Finish, Acknowledge
  <2>2. QED
    BY <1>2, <1>6, <1>11, <2>1
<1>12. ASSUME NEW t \in Threads, Handle(t), ~Crash PROVE Dealt(m)'
  <2>1. /\ mode # "stream" /\ mode' = mode /\ Consuming(t)
        /\ handled' = [handled EXCEPT ![Message(t)] = @ + 1]
        /\ job' = [job EXCEPT ![t].next = @ + 1]
    BY <1>12 DEF Handle
  <2>2. handled \in [Messages -> Nat]
    BY DEF Types, Fields
  <2>3. ASSUME NEW x \in Messages, x = Message(t) PROVE Dealt(x)'
    <3>1. handled'[x] = handled[x] + 1 /\ handled[x] \in Nat
      BY <2>1, <2>2, <2>3
    <3>2. QED
      BY <2>1, <3>1 DEF Dealt, Handled
  <2>4. QED
    BY <1>7, <1>12, <2>1, <2>3
<1>13. ASSUME NEW t \in Threads, Put(t), ~Crash PROVE Dealt(m)'
  <2>1. /\ mode = "stream" /\ mode' = mode /\ Consuming(t) /\ queue' = Append(queue, Message(t))
        /\ job' = [job EXCEPT ![t].next = @ + 1]
    BY <1>13 DEF Put
  <2>2. queue \in Seq(Messages) /\ Message(t) \in Messages
    BY <2>1, Lists DEF Types, TypeOK
  <2>3. /\ queue' \in Seq(Messages) /\ Len(queue') = Len(queue) + 1
        /\ queue'[Len(queue) + 1] = Message(t) /\ Len(queue) \in Nat
    BY <2>1, <2>2, AppendProperties, Elements
  <2>4. Message(t) \in ToSet(queue')
    <3>1. Len(queue) + 1 \in 1..Len(queue')
      BY <2>3
    <3>2. QED
      BY <2>3, <3>1, Elements
  <2>5. ASSUME NEW x \in Messages, x = Message(t) PROVE Dealt(x)'
    BY <2>1, <2>4, <2>5 DEF Dealt, InFlight
  <2>6. QED
    BY <1>7, <1>13, <2>1, <2>5
<1>14. ASSUME NEW t \in Threads, Drop(t), ~Crash PROVE Dealt(m)'
  <2>1. /\ mode = "stream" /\ mode' = mode /\ Consuming(t) /\ Message(t) \in Undecodable
        /\ job' = [job EXCEPT ![t].next = @ + 1]
    BY <1>14 DEF Drop
  <2>2. ASSUME NEW x \in Messages, x = Message(t) PROVE Dealt(x)'
    BY <2>1, <2>2 DEF Dealt
  <2>3. QED
    BY <1>7, <1>14, <2>1, <2>2
<1>15. ASSUME UNCHANGED job, ~Crash PROVE Dealt(m)'
  BY <1>3, <1>4, <1>15
<1>16. CASE Send \/ StoreOffset \/ Start \/ Receive \/ UNCHANGED vars
  <2>1. UNCHANGED job
    BY <1>16 DEF Send, StoreOffset, Start, Receive, NextMessage, ExecuteListener, vars, client
  <2>2. QED
    BY <1>8, <1>15, <2>1
<1>17. QED
  BY <1>8, <1>9, <1>10, <1>11, <1>12, <1>13, <1>14, <1>16 DEF Next, Work

-----------------------------------------------------------------------------
(* What a suspended list leaves acknowledged.                               *)
LEMMA Suspended ==
  ASSUME Types, Orderly, NEW t \in Threads, mode = "orderly", Consuming(t), Suspend(t)
  PROVE  /\ pending' = {} /\ pulled' \in 0..pulled
         /\ \A m \in 1..pulled' : m \notin pending
<1>1. Message(t) \in Listed(t) /\ Len(job[t].msgs) > 0
  BY Lists DEF Types, Consuming
<1>2. ~Idle(t)
  BY <1>1 DEF Idle, NoJob
<1>3. pending = Listed(t)
  BY <1>2 DEF Orderly
<1>4. pulled \in Nat /\ pending \subseteq 1..pulled
  BY TypeParts, Numbered DEF Offsets
<1>5. Min(pending) \in pending /\ \A m \in pending : Min(pending) <= m
  BY <1>1, <1>3, <1>4, Least
<1>6. Min(pending) \in 1..pulled /\ pulled' = Min(pending) - 1
  BY <1>3, <1>4, <1>5 DEF Suspend
<1>7. \A m \in 1..pulled' : ~(Min(pending) <= m)
  BY <1>6
<1>8. QED
  BY <1>3, <1>4, <1>5, <1>6, <1>7 DEF Suspend

(* A message becomes acknowledged when its list ends or is sent back.       *)
LEMMA AdvanceStep ==
  ASSUME Types, Orderly, [Next]_vars, NEW m \in 1..pulled', m \notin pending'
  PROVE  \/ m \in 1..pulled /\ m \notin pending
         \/ \E t \in Threads : Finish(t) /\ m \in Listed(t)
         \/ \E t \in Threads : HandleFails(t) /\ SendBack(t) /\ m \in Listed(t)
<1>1. /\ pulled \in Nat /\ stored \in Nat /\ pending \subseteq 1..pulled
      /\ stored <= pulled /\ \A x \in pending : stored < x
  BY TypeParts, Numbered DEF Offsets
<1>2. CASE Start
  <2>1. m \in 1..stored
    BY <1>2 DEF Start
  <2>2. QED
    BY <1>1, <2>1
<1>3. ASSUME NEW t \in Threads, Deliver(t) PROVE m \in 1..pulled /\ m \notin pending
  <2>1. PICK n \in 1..Batch : pulled' = pulled + n /\ pending' = pending \cup {pulled + i : i \in 1..n}
    BY <1>3 DEF Deliver
  <2>2. n \in Nat
    BY ConsumerAssumption
  <2>3. ASSUME ~(m <= pulled) PROVE FALSE
    <3>1. m - pulled \in 1..n /\ pulled + (m - pulled) = m
      BY <1>1, <2>1, <2>2, <2>3
    <3>2. QED
      BY <2>1, <3>1
  <2>4. QED
    BY <1>1, <2>1, <2>3
<1>4. ASSUME NEW t \in Threads, Finish(t)
      PROVE  (m \in 1..pulled /\ m \notin pending) \/ m \in Listed(t)
  BY <1>1, <1>4 DEF Finish, Acknowledge
<1>5. ASSUME NEW t \in Threads, HandleFails(t), SendBack(t)
      PROVE  (m \in 1..pulled /\ m \notin pending) \/ m \in Listed(t)
  BY <1>1, <1>5 DEF SendBack
<1>6. ASSUME NEW t \in Threads, HandleFails(t), mode = "orderly"
      PROVE  m \in 1..pulled /\ m \notin pending
  <2>1. Suspend(t) /\ Consuming(t)
    BY <1>6 DEF HandleFails
  <2>2. QED
    BY <1>1, <1>6, <2>1, Suspended
<1>7. ASSUME UNCHANGED <<pulled, pending>> PROVE m \in 1..pulled /\ m \notin pending
  BY <1>7
<1>8. \/ UNCHANGED <<pulled, pending>> \/ Start
      \/ \E t \in Threads : Deliver(t) \/ Finish(t) \/ HandleFails(t)
  BY DEF Next, Work, Receive, Send, StoreOffset, Destroy, Crash, Redeliver, Handle, Put, Drop,
         NextMessage, ExecuteListener, vars, client
<1>9. \A t \in Threads : HandleFails(t) => mode = "orderly" \/ SendBack(t)
  BY DEF HandleFails
<1>10. QED
  BY <1>2, <1>3, <1>4, <1>5, <1>6, <1>7, <1>8, <1>9

(* A message leaves pending only when its list has been passed.            *)
LEMMA AcknowledgedStep ==
  ASSUME Types, Orderly, Passed, Acknowledged, [Next]_vars
  PROVE  Acknowledged'
<1>1. mode' = mode
  BY DEF Next, Work, Receive, Send, StoreOffset, Destroy, Start, Crash, Deliver, Redeliver, HandleFails, Handle,
         Finish, Put, Drop, NextMessage, ExecuteListener, vars
<1>2. SUFFICES ASSUME mode # "stream", NEW m \in 1..pulled', m \notin pending'
               PROVE  Done(m)'
  BY <1>1 DEF Acknowledged
<1>3. m \in Messages
  <2>1. Offsets'
    BY OffsetsStep
  <2>2. pulled' \in Nat /\ sent' \in Nat /\ pulled' <= sent' /\ sent' <= MaxSent[mode'] /\ mode' \in Modes
    <3>1. mode' \in Modes /\ sent' \in 0..MaxSent[mode'] /\ pulled' \in 0..sent'
      BY <2>1 DEF Offsets
    <3>2. MaxSent[mode'] \in Nat
      BY <3>1, Numbered
    <3>3. QED
      BY <3>1, <3>2
  <2>3. 1..MaxSent[mode'] \subseteq Messages /\ MaxSent[mode'] \in Nat
    BY <2>2, Numbered
  <2>4. QED
    BY <2>2, <2>3
<1>4. Handled(m) => Handled(m)'
  BY <1>3, HandledStep DEF Handled
<1>5. ASSUME NEW t \in Threads, Finish(t), m \in Listed(t) PROVE Handled(m)
  <2>1. ~Consuming(t)
    BY <1>5 DEF Finish
  <2>2. QED
    BY <1>2, <1>5, <2>1, Finished DEF Dealt
<1>6. ASSUME NEW t \in Threads, SendBack(t), m \in Listed(t) PROVE m \in retry' \cup dead'
  BY <1>6 DEF SendBack
<1>7. ASSUME m \in retry \cup dead PROVE Done(m)'
  <2>1. CASE \E t \in Threads : SendBack(t)
    BY <1>7, <2>1 DEF SendBack, Done
  <2>2. ASSUME NEW t \in Threads, Finish(t) PROVE Done(m)'
    <3>1. dead' = dead /\ (retry' = retry \/ retry' = retry \ Listed(t))
      BY <2>2 DEF Finish, Acknowledge
    <3>2. QED
      BY <1>4, <1>5, <1>7, <2>2, <3>1 DEF Done
  <2>3. CASE UNCHANGED <<retry, dead>>
    BY <1>7, <2>3 DEF Done
  <2>4. \/ UNCHANGED <<retry, dead>> \/ \E t \in Threads : SendBack(t) \/ Finish(t)
    BY DEF Next, Work, Receive, Send, StoreOffset, Destroy, Start, Crash, Deliver, Redeliver, HandleFails, Suspend,
           Handle, Put, Drop, NextMessage, ExecuteListener, vars, broker
  <2>5. QED
    BY <2>1, <2>2, <2>3, <2>4
<1>8. CASE m \in 1..pulled /\ m \notin pending
  <2>1. Done(m)
    BY <1>2, <1>8 DEF Acknowledged
  <2>2. QED
    BY <1>4, <1>7, <2>1 DEF Done
<1>9. ASSUME NEW t \in Threads, Finish(t), m \in Listed(t) PROVE Done(m)'
  BY <1>4, <1>5, <1>9 DEF Done
<1>10. ASSUME NEW t \in Threads, SendBack(t), m \in Listed(t) PROVE Done(m)'
  BY <1>6, <1>10 DEF Done
<1>11. \/ m \in 1..pulled /\ m \notin pending
       \/ \E t \in Threads : Finish(t) /\ m \in Listed(t)
       \/ \E t \in Threads : HandleFails(t) /\ SendBack(t) /\ m \in Listed(t)
  BY <1>2, AdvanceStep
<1>12. QED
  BY <1>8, <1>9, <1>10, <1>11

(* With the orderly listener one thread at a time has all that is          *)
(* pending.                                                                *)
LEMMA OrderlyStep ==
  ASSUME Types, Orderly, [Next]_vars
  PROVE  Orderly'
<1>1. mode' = mode
  BY DEF Next, Work, Receive, Send, StoreOffset, Destroy, Start, Crash, Deliver, Redeliver, HandleFails, Handle,
         Finish, Put, Drop, NextMessage, ExecuteListener, vars
<1>2. SUFFICES ASSUME mode = "orderly" PROVE Orderly'
  BY <1>1 DEF Orderly
<1>3. /\ retry = {} /\ dead = {} /\ queue = <<>> /\ current = <<>>
      /\ job \in [Threads -> Jobs]
  BY <1>2 DEF Orderly, Types, Fields
<1>4. /\ started /\ (\A t \in Threads : Idle(t)) => pending = {}
      /\ \A t \in Threads : ~Idle(t) =>
           /\ ~job[t].again /\ pending = Listed(t)
           /\ \A i \in 1..Len(job[t].msgs) : job[t].msgs[i] = job[t].msgs[1] + (i - 1)
           /\ \A u \in Threads : ~Idle(u) => u = t
  BY <1>2, Zenon DEF Orderly
<1>5. UNCHANGED <<retry, dead, queue, current>>
  <2>1. ASSUME NEW t \in Threads, Finish(t) PROVE UNCHANGED <<retry, dead, queue, current>>
    BY <1>3, <2>1 DEF Finish, Acknowledge, binder
  <2>2. ASSUME NEW t \in Threads, HandleFails(t) PROVE UNCHANGED <<retry, dead, queue, current>>
    BY <1>2, <2>2 DEF HandleFails, Suspend, binder
  <2>3. CASE Crash
    BY <1>3, <2>3 DEF Crash, broker
  <2>4. QED
    BY <1>2, <1>3, <2>1, <2>2, <2>3 DEF Next, Work, Receive, Send, StoreOffset, Destroy, Start, Deliver, Redeliver,
       Handle, Put, Drop, NextMessage, ExecuteListener, vars, broker, binder
<1>6. ASSUME \A t \in Threads : job'[t] = NoJob, ~started' \/ pending' = {} PROVE Orderly'
  BY <1>1, <1>3, <1>5, <1>6 DEF Orderly, Idle
<1>7. ASSUME UNCHANGED <<job, started, pending>> PROVE Orderly'
  BY <1>1, <1>3, <1>4, <1>5, <1>7 DEF Orderly, Idle, Listed
<1>8. CASE Destroy \/ Crash
  <2>1. (\A t \in Threads : job'[t] = NoJob) /\ ~started'
    BY <1>8 DEF Destroy, Crash
  <2>2. QED
    BY <1>6, <2>1
<1>9. CASE Start
  <2>1. (\A t \in Threads : job'[t] = NoJob) /\ pending' = {}
    BY <1>9 DEF Start, Types, Stored, Idle
  <2>2. QED
    BY <1>6, <2>1
<1>10. ASSUME NEW t \in Threads, HandleFails(t) \/ Finish(t) PROVE Orderly'
  <2>1. job' = [job EXCEPT ![t] = NoJob] /\ ~Idle(t)
    <3>1. CASE Finish(t)
      BY <3>1 DEF Finish, Acknowledge
    <3>2. CASE HandleFails(t)
      <4>1. Len(job[t].msgs) > 0
        BY <3>2, Lists DEF HandleFails, Consuming, Types
      <4>2. ~Idle(t)
        BY <4>1 DEF Idle, NoJob
      <4>3. QED
        BY <3>2, <4>2 DEF HandleFails, Suspend, SendBack
    <3>3. QED
      BY <1>10, <3>1, <3>2
  <2>2. ~job[t].again /\ pending = Listed(t) /\ \A u \in Threads : u # t => Idle(u)
    BY <1>4, <2>1
  <2>3. pending' = {}
    BY <1>2, <1>10, <2>2 DEF HandleFails, Suspend, Finish, Acknowledge
  <2>4. \A u \in Threads : job'[u] = NoJob
    BY <1>3, <2>1, <2>2 DEF Idle
  <2>5. QED
    BY <1>6, <2>3, <2>4
<1>11. ASSUME NEW t \in Threads, Deliver(t) PROVE Orderly'
  <2>1. PICK n \in 1..Batch :
          /\ pulled + n <= sent
          /\ job' = [job EXCEPT ![t].msgs = [i \in 1..n |-> pulled + i]]
          /\ pending' = pending \cup {pulled + i : i \in 1..n}
    BY <1>11 DEF Deliver
  <2> DEFINE b == [i \in 1..n |-> pulled + i]
  <2>2. /\ b \in Seq(Messages) /\ Len(b) = n /\ n \in Nat \ {0}
        /\ \A i \in 1..n : b[i] = pulled + i
        /\ ToSet(b) = {pulled + i : i \in 1..n}
    BY <2>1, Delivered, ConsumerAssumption
  <2>3. pulled \in Nat
    BY TypeParts, Numbered DEF Offsets
  <2>4. job' = [job EXCEPT ![t].msgs = b] /\ pending' = pending \cup ToSet(b)
    BY <2>1, <2>2
  <2>5. \A i \in 1..Len(b) : b[i] = b[1] + (i - 1)
    BY <2>2, <2>3
  <2> HIDE DEF b
  <2>6. started /\ started' = started /\ \A u \in Threads : job[u] = NoJob
    BY <1>2, <1>11 DEF Deliver, Idle
  <2>7. pending' = ToSet(b)
    BY <1>4, <2>4, <2>6 DEF Idle
  <2>8. job'[t] = [NoJob EXCEPT !.msgs = b] /\ \A u \in Threads : u # t => job'[u] = NoJob
    BY <1>3, <2>4, <2>6
  <2>9. job'[t].msgs = b /\ job'[t].again = FALSE
    BY <2>8 DEF NoJob
  <2>10. job'[t] # NoJob
    <3>1. NoJob.msgs = <<>> /\ Len(<<>>) = 0
      BY DEF NoJob
    <3>2. QED
      BY <2>2, <2>9, <3>1
  <2>11. \A u \in Threads : job'[u] # NoJob => u = t
    BY <2>8
  <2>12. QED
    BY <1>1, <1>3, <1>5, <2>5, <2>7, <2>9, <2>10, <2>11 DEF Orderly, Idle, Listed
<1>12. ASSUME NEW t \in Threads, Handle(t) PROVE Orderly'
  <2>1. /\ Consuming(t) /\ job' = [job EXCEPT ![t].next = @ + 1]
        /\ UNCHANGED <<started, pending>>
    BY <1>12 DEF Handle
  <2>2. \A u \in Threads :
          /\ job'[u].msgs = job[u].msgs /\ job'[u].again = job[u].again
          /\ u # t => job'[u] = job[u]
    BY <1>3, <2>1, GoesOn
  <2>3. Len(job[t].msgs) > 0 /\ NoJob.msgs = <<>>
    BY <2>1, Lists DEF Types, Consuming, NoJob
  <2>4. job[t] # NoJob /\ job'[t] # NoJob
    BY <2>2, <2>3
  <2>5. QED
    BY <1>1, <1>3, <1>4, <1>5, <2>1, <2>2, <2>4 DEF Orderly, Idle, Listed
<1>13. CASE Send \/ StoreOffset \/ Receive \/ UNCHANGED vars
  BY <1>7, <1>13 DEF Send, StoreOffset, Receive, NextMessage, ExecuteListener, vars, client
<1>14. \A t \in Threads : ~Put(t) /\ ~Drop(t) /\ \A m \in Messages : ~Redeliver(t, m)
  BY <1>2, <1>3 DEF Put, Drop, Redeliver
<1>15. QED
  BY <1>8, <1>9, <1>10, <1>11, <1>12, <1>13, <1>14 DEF Next, Work

(* That thread hands out what follows the last message handled.            *)
LEMMA InOrderStep ==
  ASSUME Types, Orderly, Passed, Acknowledged, InOrder, [Next]_vars
  PROVE  InOrder'
<1>1. mode' = mode
  BY DEF Next, Work, Receive, Send, StoreOffset, Destroy, Start, Crash, Deliver, Redeliver, HandleFails, Handle,
         Finish, Put, Drop, NextMessage, ExecuteListener, vars
<1>2. SUFFICES ASSUME mode = "orderly", NEW m \in Messages, handled'[m] > 0, NEW k \in 1..m
               PROVE  handled'[k] > 0
  BY <1>1 DEF InOrder
<1>3. k \in Messages /\ k \in Nat /\ m \in Nat /\ k >= 1 /\ k <= m
  BY <1>2, Numbered
<1>4. handled[k] \in Nat /\ handled'[k] \in Nat /\ handled[k] <= handled'[k]
  BY <1>3, HandledStep
<1>5. CASE handled[m] > 0
  BY <1>2, <1>4, <1>5 DEF InOrder
<1>6. CASE ~(handled[m] > 0)
  <2>1. handled \in [Messages -> Nat] /\ handled' # handled
    BY <1>2, <1>6 DEF Types, Fields
  <2>2. PICK t \in Threads : Handle(t)
    <3>1. current = <<>>
      BY <1>2 DEF Orderly
    <3>2. QED
      BY <2>1, <3>1 DEF Next, Work, Receive, Send, StoreOffset, Destroy, Start, Crash, Deliver, Redeliver, HandleFails,
         Finish, Put, Drop, NextMessage, ExecuteListener, vars
  <2>3. /\ Consuming(t) /\ m = Message(t)
        /\ handled' = [handled EXCEPT ![Message(t)] = @ + 1]
    BY <1>2, <1>6, <2>1, <2>2 DEF Handle
  <2>4. /\ job[t].next \in 1..Len(job[t].msgs) /\ Len(job[t].msgs) \in Nat
        /\ m = job[t].msgs[job[t].next] /\ m \in Listed(t)
    BY <2>3, Lists DEF Types, Consuming, Message
  <2>5. Len(job[t].msgs) > 0 /\ job[t] # NoJob
    BY <2>4 DEF NoJob
  <2>6. /\ pending = Listed(t)
        /\ \A i \in 1..Len(job[t].msgs) : job[t].msgs[i] = job[t].msgs[1] + (i - 1)
    BY <1>2, <2>5 DEF Orderly, Idle
  <2>7. CASE k = m
    BY <1>2, <2>7
  <2>8. CASE k # m /\ k \in pending
    <3>1. PICK j \in 1..Len(job[t].msgs) : k = job[t].msgs[j]
      BY <2>6, <2>8, Lists DEF Types
    <3>2. k = job[t].msgs[1] + (j - 1) /\ m = job[t].msgs[1] + (job[t].next - 1)
      BY <2>4, <2>6, <3>1
    <3>3. job[t].msgs[1] \in Nat
      <4>1. 1 \in 1..Len(job[t].msgs)
        BY <2>4
      <4>2. QED
        BY <4>1, Lists, Numbered DEF Types
    <3>4. j < job[t].next
      BY <1>3, <2>4, <2>8, <3>2, <3>3
    <3>5. Dealt(k)
      BY <1>3, <3>1, <3>4 DEF Passed
    <3>6. QED
      BY <1>2, <1>4, <3>5 DEF Dealt, Handled
  <2>9. CASE k \notin pending
    <3>1. pending \subseteq 1..pulled /\ pulled \in Nat
      BY TypeParts, Numbered DEF Offsets
    <3>2. k \in 1..pulled
      BY <1>3, <2>4, <2>6, <3>1
    <3>3. Done(k)
      BY <1>2, <2>9, <3>2 DEF Acknowledged
    <3>4. QED
      BY <1>2, <1>4, <3>3 DEF Done, Handled, Orderly
  <2>10. QED
    BY <2>7, <2>8, <2>9
<1>7. QED
  BY <1>5, <1>6

-----------------------------------------------------------------------------
(* The sets that are counted are finite, and little is in flight.           *)
LEMMA Counted ==
  ASSUME Types
  PROVE  /\ IsFiniteSet(Unhandled) /\ IsFiniteSet(InFlight)
         /\ Cardinality(InFlight) <= Prefetch + 1 /\ Cardinality(InFlight) \in Nat
         /\ Cardinality(Unhandled) \in Nat /\ Cardinality(Unhandled \ InFlight) \in Nat
         /\ Cardinality(Unhandled) <= Cardinality(Unhandled \ InFlight) + Cardinality(InFlight)
<1>1. pulled \in Nat /\ Prefetch \in Nat
  BY TypeParts, Numbered, ConsumerAssumption DEF Offsets
<1>2. IsFiniteSet(Unhandled)
  <2>1. IsFiniteSet(1..pulled) /\ Unhandled \subseteq 1..pulled
    BY <1>1, FS_Interval DEF Unhandled
  <2>2. QED
    BY <2>1, FS_Subset
<1>3. ASSUME NEW d \in Seq(Messages)
      PROVE  IsFiniteSet(ToSet(d)) /\ Cardinality(ToSet(d)) <= Len(d) /\ Cardinality(ToSet(d)) \in Nat
  <2>1. /\ IsFiniteSet(1..Len(d)) /\ Cardinality(1..Len(d)) = Len(d)
        /\ DOMAIN d = 1..Len(d) /\ Len(d) \in Nat
    BY FS_Interval, Elements
  <2>2. d \in Surjection(1..Len(d), ToSet(d))
    BY <2>1, Elements DEF Surjection, ToSet
  <2>3. QED
    BY <2>1, <2>2, FS_Surjection, FS_CardinalityType
<1>4. queue \in Seq(Messages) /\ current \in Seq(Messages) /\ Len(queue) <= Prefetch /\ Len(current) <= 1
  BY DEF Types, TypeOK, Fields
<1>5. /\ IsFiniteSet(ToSet(queue)) /\ Cardinality(ToSet(queue)) <= Len(queue) /\ Cardinality(ToSet(queue)) \in Nat
      /\ IsFiniteSet(ToSet(current)) /\ Cardinality(ToSet(current)) <= Len(current) /\ Cardinality(ToSet(current)) \in Nat
      /\ Len(queue) \in Nat /\ Len(current) \in Nat
  BY <1>3, <1>4, Elements
<1>6. ASSUME NEW S, NEW T, IsFiniteSet(S), IsFiniteSet(T)
      PROVE  /\ IsFiniteSet(S \cup T) /\ Cardinality(S \cup T) \in Nat
             /\ Cardinality(S \cup T) <= Cardinality(S) + Cardinality(T)
  <2>1. /\ IsFiniteSet(S \cup T)
        /\ Cardinality(S \cup T) = Cardinality(S) + Cardinality(T) - Cardinality(S \cap T)
    BY <1>6, FS_Union
  <2>2. IsFiniteSet(S \cap T)
    BY <1>6, FS_Intersection
  <2>3. /\ Cardinality(S) \in Nat /\ Cardinality(T) \in Nat /\ Cardinality(S \cap T) \in Nat
        /\ Cardinality(S \cup T) \in Nat
    BY <1>6, <2>1, <2>2, FS_CardinalityType
  <2>4. QED
    BY <2>1, <2>3
<1>7. /\ IsFiniteSet(InFlight) /\ Cardinality(InFlight) <= Prefetch + 1 /\ Cardinality(InFlight) \in Nat
  <2>1. /\ IsFiniteSet(InFlight) /\ Cardinality(InFlight) \in Nat
        /\ Cardinality(InFlight) <= Cardinality(ToSet(queue)) + Cardinality(ToSet(current))
    BY <1>5, <1>6 DEF InFlight
  <2>2. QED
    BY <1>1, <1>4, <1>5, <2>1
<1>8. IsFiniteSet(Unhandled \ InFlight) /\ Unhandled \subseteq (Unhandled \ InFlight) \cup InFlight
  BY <1>2, FS_Subset
<1>9. /\ Cardinality(Unhandled) <= Cardinality((Unhandled \ InFlight) \cup InFlight)
      /\ Cardinality(Unhandled) \in Nat /\ Cardinality(Unhandled \ InFlight) \in Nat
      /\ Cardinality((Unhandled \ InFlight) \cup InFlight) \in Nat
      /\ Cardinality((Unhandled \ InFlight) \cup InFlight) <= Cardinality(Unhandled \ InFlight) + Cardinality(InFlight)
  BY <1>2, <1>6, <1>7, <1>8, FS_Subset, FS_CardinalityType
<1>10. QED
  BY <1>2, <1>7, <1>9

(* What a crash loses was queued, in the loop or in a waiting thread.      *)
LEMMA LossStep ==
  ASSUME Types, Orderly, Passed, Loss, [Next]_vars, Types'
  PROVE  Loss'
<1>1. mode' = mode
  BY DEF Next, Work, Receive, Send, StoreOffset, Destroy, Start, Crash, Deliver, Redeliver, HandleFails, Handle,
         Finish, Put, Drop, NextMessage, ExecuteListener, vars
<1>2. SUFFICES ASSUME mode = "stream" PROVE Cardinality(Unhandled' \ InFlight') <= (Prefetch + 1) * crashes'
  BY <1>1 DEF Loss
<1> DEFINE P == Prefetch + 1
<1>3. P \in Nat /\ crashes \in Nat /\ Cardinality(Unhandled \ InFlight) <= P * crashes
  BY <1>2, TypeParts, ConsumerAssumption DEF Loss, Holdings
<1>4. /\ IsFiniteSet(Unhandled) /\ IsFiniteSet(InFlight)
      /\ Cardinality(InFlight) <= P /\ Cardinality(InFlight) \in Nat
      /\ Cardinality(Unhandled) \in Nat /\ Cardinality(Unhandled \ InFlight) \in Nat
      /\ Cardinality(Unhandled) <= Cardinality(Unhandled \ InFlight) + Cardinality(InFlight)
  BY Counted
<1>5. CASE Crash
  <2>1. Unhandled' = Unhandled /\ crashes' = crashes + 1
    BY <1>5 DEF Crash, Unhandled
  <2>2. /\ Cardinality(Unhandled' \ InFlight') <= Cardinality(Unhandled)
        /\ Cardinality(Unhandled' \ InFlight') \in Nat
    BY <1>4, <2>1, FS_Subset, FS_CardinalityType
  <2>3. P * crashes + P = P * (crashes + 1) /\ P * crashes \in Nat
    BY <1>3
  <2> HIDE DEF P
  <2>4. Cardinality(Unhandled' \ InFlight') <= P * (crashes + 1)
    BY <1>3, <1>4, <2>2, <2>3
  <2>5. QED
    BY <2>1, <2>4 DEF P
<1>6. CASE ~Crash
  <2>1. crashes' = crashes
    BY <1>2, <1>6 DEF Next, Work, Receive, Send, StoreOffset, Destroy, Start, Deliver, Redeliver, HandleFails, Handle,
         Finish, Put, Drop, NextMessage, ExecuteListener, vars
  <2>2. ASSUME NEW m \in Unhandled', m \notin InFlight' PROVE m \in Unhandled \ InFlight
    <3>1. /\ m \in 1..pulled' /\ m \notin pending' /\ handled'[m] = 0 /\ m \notin Undecodable
      BY <2>2 DEF Unhandled
    <3>2. m \in Messages
      <4>1. Offsets'
        BY OffsetsStep
      <4>2. mode' \in Modes /\ sent' \in 0..MaxSent[mode'] /\ pulled' \in 0..sent'
        BY <4>1 DEF Offsets
      <4>3. MaxSent[mode'] \in Nat /\ 1..MaxSent[mode'] \subseteq Messages
        BY <4>2, Numbered
      <4>4. QED
        BY <3>1, <4>2, <4>3
    <3>3. handled[m] = 0 /\ ~Handled(m) /\ ~Handled(m)'
      <4>1. handled[m] \in Nat /\ handled[m] <= handled'[m]
        BY <3>2, HandledStep
      <4>2. QED
        BY <3>1, <4>1 DEF Handled
    <3>4. m \notin InFlight
      BY <1>6, <2>2, <3>3, FlightStep
    <3>5. ASSUME NEW t \in Threads, Finish(t), m \in Listed(t) PROVE FALSE
      <4>1. ~Consuming(t)
        BY <3>5 DEF Finish
      <4>2. Dealt(m)
        BY <3>5, <4>1, Finished
      <4>3. QED
        BY <1>2, <3>1, <3>3, <3>4, <4>2 DEF Dealt
    <3>6. ~(\E t \in Threads : HandleFails(t))
      BY <1>2 DEF HandleFails
    <3>7. m \in 1..pulled /\ m \notin pending
      BY <3>1, <3>5, <3>6, AdvanceStep
    <3>8. QED
      BY <3>1, <3>3, <3>4, <3>7 DEF Unhandled
  <2>3. Unhandled' \ InFlight' \subseteq Unhandled \ InFlight
    BY <2>2
  <2>4. IsFiniteSet(Unhandled \ InFlight)
    BY <1>4, FS_Subset
  <2>5. /\ Cardinality(Unhandled' \ InFlight') <= Cardinality(Unhandled \ InFlight)
        /\ Cardinality(Unhandled' \ InFlight') \in Nat
    BY <2>3, <2>4, FS_Subset, FS_CardinalityType
  <2>6. P * crashes \in Nat
    BY <1>3
  <2> HIDE DEF P
  <2>7. Cardinality(Unhandled' \ InFlight') <= P * crashes
    BY <1>3, <1>4, <2>5, <2>6
  <2>8. QED
    BY <2>1, <2>7 DEF P
<1>7. QED
  BY <1>5, <1>6

-----------------------------------------------------------------------------
(* Before the first message.                                               *)
LEMMA Initially == Init => IInv
<1>1. SUFFICES ASSUME Init PROVE IInv
  OBVIOUS
<1>2. TypeOK /\ Fields /\ Stored
  BY <1>1, TypesInit DEF Types
<1>3. InOrder
  BY <1>1, Numbered DEF Init, InOrder
<1>4. Passed
  <2>1. \A t \in Threads : Len(job[t].msgs) = 0
    BY <1>1 DEF Init, NoJob
  <2>2. QED
    BY <2>1 DEF Passed
<1>5. Acknowledged
  BY <1>1 DEF Init, Acknowledged
<1>6. Orderly
  BY <1>1 DEF Init, Orderly, Idle
<1>7. Loss
  <2>1. Unhandled \ InFlight = {} /\ crashes = 0
    BY <1>1 DEF Init, Unhandled
  <2>2. Cardinality(Unhandled \ InFlight) = 0
    BY <2>1, FS_EmptySet
  <2>3. Prefetch + 1 \in Nat
    BY ConsumerAssumption
  <2>4. QED
    BY <2>1, <2>2, <2>3 DEF Loss
<1>8. QED
  BY <1>2, <1>3, <1>4, <1>5, <1>6, <1>7 DEF IInv

(* Each part of the invariant from the parts before it.                    *)
LEMMA Inductive == IInv /\ [Next]_vars => IInv'
<1>1. SUFFICES ASSUME IInv, [Next]_vars PROVE IInv'
  OBVIOUS
<1>2. Types /\ Orderly /\ Passed /\ Acknowledged /\ InOrder /\ Loss
  BY <1>1 DEF IInv, Types
<1>3. Types' /\ Orderly' /\ Passed'
  BY <1>1, <1>2, TypesStep, OrderlyStep, PassedStep
<1>4. Acknowledged' /\ InOrder' /\ Loss'
  BY <1>1, <1>2, <1>3, AcknowledgedStep, InOrderStep, LossStep
<1>5. QED
  BY <1>3, <1>4 DEF IInv, Types

(* The invariant holds always.                                             *)
LEMMA Invariant == Spec => []IInv
BY Initially, Inductive, PTL DEF Spec

(* Every field keeps its type, and the binder's queue its capacity.         *)
THEOREM ConsumerType == Spec => []TypeOK
<1>1. IInv => TypeOK
  BY DEF IInv
<1>2. QED
  BY <1>1, Invariant, PTL

(* The listener container loses nothing that the stored offset skips.       *)
THEOREM ConsumerAtLeastOnce == Spec => []AtLeastOnce
<1>1. IInv => AtLeastOnce
  <2>1. SUFFICES ASSUME IInv, mode # "stream", NEW m \in 1..stored PROVE handled[m] > 0 \/ m \in retry \cup dead
    BY DEF AtLeastOnce
  <2>2. /\ stored \in Nat /\ pulled \in Nat /\ stored <= pulled /\ \A x \in pending : stored < x
    BY <2>1, TypeParts, Numbered DEF IInv, Types, Offsets
  <2>3. m \in 1..pulled /\ m \notin pending
    BY <2>1, <2>2
  <2>4. QED
    BY <2>1, <2>3 DEF IInv, Acknowledged, Done, Handled
<1>2. QED
  BY <1>1, Invariant, PTL

(* The orderly listener handles the messages in the order of the queue.     *)
THEOREM ConsumerInOrder == Spec => []InOrder
<1>1. IInv => InOrder
  BY DEF IInv
<1>2. QED
  BY <1>1, Invariant, PTL

(* What the stream binder loses is at most what each crash found in flight, *)
(* and what is in flight now.                                               *)
THEOREM ConsumerLossBounded == Spec => []LossBounded
<1>1. IInv => LossBounded
  <2>1. SUFFICES ASSUME IInv, mode = "stream" PROVE Cardinality(Unhandled) <= (Prefetch + 1) * (crashes + 1)
    BY DEF LossBounded, Unhandled
  <2> DEFINE P == Prefetch + 1
  <2>2. P \in Nat /\ crashes \in Nat /\ Cardinality(Unhandled \ InFlight) <= P * crashes
    BY <2>1, TypeParts, ConsumerAssumption DEF IInv, Types, Loss, Holdings
  <2>3. /\ Cardinality(InFlight) <= P /\ Cardinality(InFlight) \in Nat
        /\ Cardinality(Unhandled) \in Nat /\ Cardinality(Unhandled \ InFlight) \in Nat
        /\ Cardinality(Unhandled) <= Cardinality(Unhandled \ InFlight) + Cardinality(InFlight)
    BY <2>1, Counted DEF IInv, Types
  <2>4. P * crashes + P = P * (crashes + 1) /\ P * crashes \in Nat
    BY <2>2
  <2> HIDE DEF P
  <2>5. Cardinality(Unhandled) <= P * (crashes + 1)
    BY <2>2, <2>3, <2>4
  <2>6. QED
    BY <2>5 DEF P
<1>2. QED
  BY <1>1, Invariant, PTL
=============================================================================
