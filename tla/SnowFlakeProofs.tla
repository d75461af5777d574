-------------------------- MODULE SnowFlakeProofs --------------------------
(***************************************************************************)
(* SnowFlake's ids are unique and increasing, for every number of nodes    *)
(* and every field width, as long as no node has its clock set back and is *)
(* restarted.  The inductive invariant orders what a node has issued by   *)
(* (timestamp, sequence) and says where the generator stands in that       *)
(* order; the lemmas on Pack carry the order over to the 64-bit values.    *)
(***************************************************************************)
EXTENDS SnowFlake, TLAPS

(* No node both restarts and has its clock set back: the                   *)
(* condition under which nextId's guard on lastTimestamp is enough.        *)
OneDisturbance == Restarting \cap Adjusted = {}

(* The order of issue within one node.                                     *)
Before(p, q) ==
  \/ p.timestamp < q.timestamp
  \/ p.timestamp = q.timestamp /\ p.sequence < q.sequence

(* Everything n has issued lies behind the generator's position: at or     *)
(* before (lastTimestamp, sequence), and after a restart before the clock. *)
Behind(n) ==
  \A i \in 1..Len(issued[n]) :
     \/ /\ lastTimestamp[n] = NoTimestamp
        /\ n \notin Adjusted
        /\ issued[n][i].timestamp < clock[n]
     \/ issued[n][i].timestamp < lastTimestamp[n]
     \/ /\ issued[n][i].timestamp = lastTimestamp[n]
        /\ pc[n] = "spin" \/ issued[n][i].sequence <= sequence[n]

Ordered(n) ==
  \A i, j \in 1..Len(issued[n]) : i < j => Before(issued[n][i], issued[n][j])

IInv ==
  /\ TypeOK
  /\ \A n \in Nodes :
       /\ Behind(n)
       /\ Ordered(n)
       /\ n \notin Adjusted => lastTimestamp[n] <= clock[n]
       /\ pc[n] = "spin" => sequence[n] = 0 /\ lastTimestamp[n] # NoTimestamp

-----------------------------------------------------------------------------
(* A field that is smaller than its span never carries into the next one.  *)
LEMMA PackLess ==
  ASSUME NEW K \in Nat \ {0}, NEW a \in Int, NEW b \in Int, a < b,
         NEW r \in 0..(K - 1), NEW s \in 0..(K - 1)
  PROVE  Pack(a, r, K) < Pack(b, s, K)
<1>1. b >= a + 1
  OBVIOUS
<1>2. b * K >= (a + 1) * K
  BY <1>1
<1>3. (a + 1) * K = a * K + K
  OBVIOUS
<1>4. a * K \in Int /\ b * K \in Int
  OBVIOUS
<1>5. QED
  BY <1>2, <1>3, <1>4 DEF Pack

(* So the two parts can be read back.                                      *)
LEMMA PackInjective ==
  ASSUME NEW K \in Nat \ {0}, NEW a \in Int, NEW b \in Int,
         NEW r \in 0..(K - 1), NEW s \in 0..(K - 1),
         Pack(a, r, K) = Pack(b, s, K)
  PROVE  a = b /\ r = s
<1>1. ~(a < b)
  <2>1. a < b => Pack(a, r, K) < Pack(b, s, K)
    BY PackLess
  <2>2. Pack(a, r, K) \in Int
    BY DEF Pack
  <2>3. QED
    BY <2>1, <2>2
<1>2. ~(b < a)
  <2>1. b < a => Pack(b, s, K) < Pack(a, r, K)
    BY PackLess
  <2>2. Pack(a, r, K) \in Int
    BY DEF Pack
  <2>3. QED
    BY <2>1, <2>2
<1>3. a = b
  BY <1>1, <1>2
<1>4. a * K \in Int
  OBVIOUS
<1>5. QED
  BY <1>3, <1>4 DEF Pack

(* The sign bit is out of reach of the timestamps of a behaviour.          *)
LEMMA SignedIdentity ==
  ASSUME NEW t \in 0..MaxClock
  PROVE  Signed(t) = t
<1>1. t < TimeHalf /\ TimeHalf \in Nat
  BY BoundAssumption
<1>2. t % (2 * TimeHalf) = t
  BY <1>1
<1>3. QED
  BY <1>1, <1>2 DEF Signed

(* The machine part fits its ten bits and tells the nodes apart.           *)
LEMMA MachineRange ==
  ASSUME NEW n \in Nodes
  PROVE  Machine(n) \in 0..(DatacenterSpan * WorkerSpan - 1)
<1> DEFINE d == DatacenterId[n]
           w == WorkerId[n]
<1>1. /\ WorkerSpan \in Nat /\ DatacenterSpan \in Nat
      /\ d \in 0..(DatacenterSpan - 1) /\ w \in 0..(WorkerSpan - 1)
  BY IdentityAssumption
<1>2. (d + 1) * WorkerSpan <= DatacenterSpan * WorkerSpan
  BY <1>1
<1>3. (d + 1) * WorkerSpan = d * WorkerSpan + WorkerSpan
  BY <1>1
<1>4. d * WorkerSpan \in Nat /\ DatacenterSpan * WorkerSpan \in Nat
  BY <1>1
<1>5. QED
  BY <1>1, <1>2, <1>3, <1>4 DEF Machine, Pack

(* No two nodes have the same machine part.                                *)
LEMMA MachineInjective ==
  ASSUME NEW m \in Nodes, NEW n \in Nodes, Machine(m) = Machine(n)
  PROVE  m = n
<1>1. DatacenterId[m] = DatacenterId[n] /\ WorkerId[m] = WorkerId[n]
  BY PackInjective, IdentityAssumption DEF Machine
<1>2. QED
  BY <1>1, IdentityAssumption

(* The machine part has room.                                              *)
LEMMA SpanPositive == DatacenterSpan * WorkerSpan \in Nat \ {0}
BY IdentityAssumption

(* One node's ids are ordered like (timestamp, sequence).                  *)
LEMMA IdOrder ==
  ASSUME NEW n \in Nodes, NEW p \in Issue, NEW q \in Issue, Before(p, q)
  PROVE  IdOf(n, p) < IdOf(n, q)
<1> DEFINE K == DatacenterSpan * WorkerSpan
           hp == Pack(p.timestamp, Machine(n), K)
           hq == Pack(q.timestamp, Machine(n), K)
<1>1. /\ p.timestamp \in Int /\ q.timestamp \in Int
      /\ p.sequence \in 0..(SeqSpan - 1) /\ q.sequence \in 0..(SeqSpan - 1)
      /\ SeqSpan \in Nat \ {0}
  BY BoundAssumption DEF Issue
<1>2. IdOf(n, p) = Pack(hp, p.sequence, SeqSpan) /\ IdOf(n, q) = Pack(hq, q.sequence, SeqSpan)
  BY SignedIdentity DEF IdOf, Issue
<1>3. Machine(n) \in 0..(K - 1) /\ K \in Nat \ {0}
  BY MachineRange, SpanPositive
<1>4. hp \in Int /\ hq \in Int
  BY <1>1, <1>3 DEF Pack
<1>5. CASE p.timestamp < q.timestamp
  <2>1. hp < hq
    BY <1>5, <1>1, <1>3, PackLess
  <2>2. QED
    BY <2>1, <1>1, <1>2, <1>4, PackLess
<1>6. CASE p.timestamp = q.timestamp /\ p.sequence < q.sequence
  <2>1. hp * SeqSpan \in Int
    BY <1>1, <1>4
  <2>2. QED
    BY <1>1, <1>2, <1>4, <1>6, <2>1 DEF Pack
<1>7. QED
  BY <1>5, <1>6 DEF Before

(* Ids are integers.                                                       *)
LEMMA IdInteger ==
  ASSUME NEW n \in Nodes, NEW p \in Issue
  PROVE  IdOf(n, p) \in Int
<1>1. /\ p.timestamp \in Int /\ Machine(n) \in Int
      /\ DatacenterSpan * WorkerSpan \in Int
      /\ p.sequence \in Int /\ SeqSpan \in Int
  BY MachineRange, SpanPositive, BoundAssumption DEF Issue
<1>2. Pack(p.timestamp, Machine(n), DatacenterSpan * WorkerSpan) \in Int
  BY <1>1 DEF Pack
<1>3. QED
  BY <1>1, <1>2, SignedIdentity DEF IdOf, Pack, Issue

(* Equal ids come from the same node.                                      *)
LEMMA IdNode ==
  ASSUME NEW m \in Nodes, NEW n \in Nodes, NEW p \in Issue, NEW q \in Issue,
         IdOf(m, p) = IdOf(n, q)
  PROVE  m = n
<1> DEFINE K == DatacenterSpan * WorkerSpan
           hp == Pack(p.timestamp, Machine(m), K)
           hq == Pack(q.timestamp, Machine(n), K)
<1>1. /\ p.timestamp \in Int /\ q.timestamp \in Int
      /\ p.sequence \in 0..(SeqSpan - 1) /\ q.sequence \in 0..(SeqSpan - 1)
      /\ SeqSpan \in Nat \ {0}
  BY BoundAssumption DEF Issue
<1>2. Pack(hp, p.sequence, SeqSpan) = Pack(hq, q.sequence, SeqSpan)
  BY SignedIdentity DEF IdOf, Issue
<1>3. Machine(m) \in 0..(K - 1) /\ Machine(n) \in 0..(K - 1) /\ K \in Nat \ {0}
  BY MachineRange, SpanPositive
<1>4. hp \in Int /\ hq \in Int
  BY <1>1, <1>3 DEF Pack
<1>5. hp = hq
  BY <1>1, <1>2, <1>4, PackInjective
<1>6. Machine(m) = Machine(n)
  BY <1>1, <1>3, <1>5, PackInjective
<1>7. QED
  BY <1>6, MachineInjective

-----------------------------------------------------------------------------
(* The type invariant, read for one node.                                  *)
LEMMA Typed ==
  ASSUME TypeOK, NEW n \in Nodes
  PROVE  /\ clock[n] \in 0..MaxClock
         /\ lastTimestamp[n] \in Int /\ lastTimestamp[n] >= -1
         /\ sequence[n] \in 0..(SeqSpan - 1)
         /\ pc[n] \in {"idle", "spin"}
         /\ Len(issued[n]) \in Nat
         /\ \A i \in 1..Len(issued[n]) :
               /\ issued[n][i] \in Issue
               /\ issued[n][i].timestamp \in 0..MaxClock
               /\ issued[n][i].sequence \in 0..(SeqSpan - 1)
<1>1. /\ clock[n] \in 0..MaxClock
      /\ lastTimestamp[n] \in {-1} \cup (0..MaxClock)
      /\ sequence[n] \in 0..(SeqSpan - 1)
      /\ pc[n] \in {"idle", "spin"}
      /\ issued[n] \in Seq(Issue)
  BY DEF TypeOK, NoTimestamp
<1>2. lastTimestamp[n] \in Int /\ lastTimestamp[n] >= -1
  BY <1>1
<1>3. Len(issued[n]) \in Nat /\ \A i \in 1..Len(issued[n]) : issued[n][i] \in Issue
  BY <1>1
<1>4. QED
  BY <1>1, <1>2, <1>3 DEF Issue

(* What a returned issue does to the record of its node: it is new, behind *)
(* nothing, and typed.                                                     *)
LEMMA ReturnKeepsOrder ==
  ASSUME NEW n \in Nodes, NEW t \in 0..MaxClock, NEW s \in 0..(SeqSpan - 1),
         IInv, Return(n, t, s), pc' \in [Nodes -> {"idle", "spin"}],
         clock' = clock, backs' = backs,
         \A i \in 1..Len(issued[n]) :
            \/ issued[n][i].timestamp < t
            \/ issued[n][i].timestamp = t /\ issued[n][i].sequence < s,
         t <= clock[n],
         \A k \in Nodes : k # n => pc'[k] = pc[k],
         pc'[n] = "idle"
  PROVE  IInv'
<1> DEFINE new == [timestamp |-> t, sequence |-> s]
<1>1. new \in Issue
  BY DEF Issue
<1>2. TypeOK'
  <2>1. \A k \in Nodes : Append(issued[k], new) \in Seq(Issue)
    BY <1>1 DEF IInv, TypeOK
  <2>2. QED
    BY <2>1 DEF IInv, TypeOK, Return
<1>3. ASSUME NEW k \in Nodes, k # n
      PROVE  /\ issued'[k] = issued[k]
             /\ lastTimestamp'[k] = lastTimestamp[k]
             /\ sequence'[k] = sequence[k]
             /\ pc'[k] = pc[k]
  BY <1>3 DEF IInv, TypeOK, Return
<1>4. /\ issued'[n] = Append(issued[n], new)
      /\ lastTimestamp'[n] = t
      /\ sequence'[n] = s
      /\ issued[n] \in Seq(Issue)
  BY DEF IInv, TypeOK, Return
<1>5. /\ Len(issued'[n]) = Len(issued[n]) + 1
      /\ \A i \in 1..Len(issued[n]) : issued'[n][i] = issued[n][i]
      /\ issued'[n][Len(issued[n]) + 1] = new
      /\ Len(issued[n]) \in Nat
  BY <1>4, <1>1
<1>6. Behind(n)'
  <2> SUFFICES ASSUME NEW i \in 1..Len(issued'[n])
               PROVE  \/ issued'[n][i].timestamp < t
                      \/ issued'[n][i].timestamp = t /\ issued'[n][i].sequence <= s
    BY <1>4 DEF Behind
  <2>1. CASE i = Len(issued[n]) + 1
    BY <2>1, <1>5
  <2>2. CASE i \in 1..Len(issued[n])
    <3>1. /\ issued[n][i].sequence \in 0..(SeqSpan - 1)
          /\ issued'[n][i] = issued[n][i]
      BY <2>2, <1>5, Typed DEF IInv
    <3>2. \/ issued[n][i].timestamp < t
          \/ issued[n][i].timestamp = t /\ issued[n][i].sequence < s
      BY <2>2
    <3>3. QED
      BY <3>1, <3>2
  <2>3. QED
    BY <2>1, <2>2, <1>5
<1>7. Ordered(n)'
  <2> SUFFICES ASSUME NEW i \in 1..Len(issued'[n]), NEW j \in 1..Len(issued'[n]), i < j
               PROVE  Before(issued'[n][i], issued'[n][j])
    BY DEF Ordered
  <2>1. i \in 1..Len(issued[n])
    BY <1>5
  <2>2. CASE j = Len(issued[n]) + 1
    BY <2>1, <2>2, <1>5 DEF Before
  <2>3. CASE j \in 1..Len(issued[n])
    BY <2>1, <2>3, <1>5 DEF IInv, Ordered
  <2>4. QED
    BY <2>2, <2>3, <1>5
<1>8. ASSUME NEW k \in Nodes, k # n
      PROVE  Behind(k)' /\ Ordered(k)'
  <2>1. /\ issued'[k] = issued[k] /\ clock'[k] = clock[k]
        /\ lastTimestamp'[k] = lastTimestamp[k]
        /\ sequence'[k] = sequence[k] /\ pc'[k] = pc[k]
    BY <1>8, <1>3
  <2>2. Behind(k) /\ Ordered(k)
    BY DEF IInv
  <2>3. Behind(k)'
    BY <2>1, <2>2 DEF Behind
  <2>4. Ordered(k)'
    BY <2>1, <2>2 DEF Ordered
  <2>5. QED
    BY <2>3, <2>4
<1>9. \A k \in Nodes : k \notin Adjusted => lastTimestamp'[k] <= clock'[k]
  BY <1>3, <1>4 DEF IInv
<1>10. \A k \in Nodes : pc'[k] = "spin" => sequence'[k] = 0 /\ lastTimestamp'[k] # NoTimestamp
  BY <1>3 DEF IInv
<1>11. QED
  BY <1>2, <1>6, <1>7, <1>8, <1>9, <1>10 DEF IInv

(* Nothing is issued at first.                                             *)
LEMMA InitIInv == Init => IInv
<1> SUFFICES ASSUME Init PROVE IInv
  OBVIOUS
<1>1. TypeOK
  BY BoundAssumption DEF Init, TypeOK, NoTimestamp
<1>2. \A n \in Nodes : Len(issued[n]) = 0 /\ pc[n] = "idle" /\ lastTimestamp[n] = -1
  BY DEF Init, NoTimestamp
<1>3. \A n \in Nodes : Behind(n) /\ Ordered(n)
  <2> SUFFICES ASSUME NEW n \in Nodes PROVE Behind(n) /\ Ordered(n)
    OBVIOUS
  <2>1. 1..Len(issued[n]) = {}
    BY <1>2
  <2>2. QED
    BY <2>1 DEF Behind, Ordered
<1>4. \A n \in Nodes : lastTimestamp[n] <= clock[n]
  <2> SUFFICES ASSUME NEW n \in Nodes PROVE lastTimestamp[n] <= clock[n]
    OBVIOUS
  <2>1. clock[n] \in 0..MaxClock /\ MaxClock \in Nat
    BY <1>1, Typed, BoundAssumption
  <2>2. QED
    BY <1>2, <2>1
<1>5. QED
  BY <1>1, <1>2, <1>3, <1>4 DEF IInv

(* nextId, the clocks and restarts keep the invariant.                     *)
LEMMA NextIInv ==
  ASSUME OneDisturbance, IInv, [Next]_vars
  PROVE  IInv'
<1> USE BoundAssumption DEF NoTimestamp
<1>1. ASSUME NEW n \in Nodes, NextIdNewMilli(n)
      PROVE  IInv'
  <2>1. clock[n] \in 0..MaxClock /\ pc[n] = "idle" /\ clock[n] > lastTimestamp[n]
    BY <1>1 DEF NextIdNewMilli, IInv, TypeOK
  <2>2. ASSUME NEW i \in 1..Len(issued[n])
        PROVE  issued[n][i].timestamp < clock[n]
    BY <2>1, Typed DEF IInv, Behind
  <2>3. QED
    <3>1. /\ clock' = clock /\ backs' = backs /\ clock[n] <= clock[n]
          /\ pc' \in [Nodes -> {"idle", "spin"}] /\ pc'[n] = "idle"
          /\ \A k \in Nodes : k # n => pc'[k] = pc[k]
      BY <1>1, <2>1 DEF NextIdNewMilli, IInv, TypeOK
    <3>2. QED
      BY <1>1, <2>1, <2>2, <3>1, ReturnKeepsOrder DEF NextIdNewMilli
<1>2. ASSUME NEW n \in Nodes, NextIdSameMilli(n)
      PROVE  IInv'
  <2> DEFINE next == (sequence[n] + 1) % SeqSpan
  <2>1. /\ clock[n] \in 0..MaxClock /\ pc[n] = "idle" /\ clock[n] = lastTimestamp[n]
        /\ sequence[n] \in 0..(SeqSpan - 1)
    BY <1>2 DEF NextIdSameMilli, IInv, TypeOK
  <2>2. next \in 0..(SeqSpan - 1) /\ (next # 0 => next = sequence[n] + 1)
    BY <2>1
  <2>3. CASE next # 0 /\ Return(n, clock[n], next) /\ UNCHANGED pc
    <3>1. ASSUME NEW i \in 1..Len(issued[n])
          PROVE  \/ issued[n][i].timestamp < clock[n]
                 \/ issued[n][i].timestamp = clock[n] /\ issued[n][i].sequence < next
      <4>1. /\ issued[n][i].timestamp \in 0..MaxClock
            /\ issued[n][i].sequence \in 0..(SeqSpan - 1)
        BY Typed DEF IInv
      <4>2. \/ issued[n][i].timestamp < clock[n]
            \/ issued[n][i].timestamp = clock[n] /\ issued[n][i].sequence <= sequence[n]
        BY <2>1 DEF IInv, Behind
      <4>3. QED
        BY <2>1, <2>2, <2>3, <4>1, <4>2
    <3>2. QED
      <4>1. /\ clock' = clock /\ backs' = backs /\ clock[n] <= clock[n]
            /\ pc' \in [Nodes -> {"idle", "spin"}] /\ pc'[n] = "idle"
            /\ \A k \in Nodes : k # n => pc'[k] = pc[k]
        BY <1>2, <2>1, <2>3 DEF NextIdSameMilli, IInv, TypeOK
      <4>2. QED
        BY <2>1, <2>2, <2>3, <3>1, <4>1, ReturnKeepsOrder
  <2>4. CASE /\ next = 0
             /\ sequence' = [sequence EXCEPT ![n] = 0]
             /\ pc' = [pc EXCEPT ![n] = "spin"]
             /\ UNCHANGED <<lastTimestamp, issued>>
    <3>1. UNCHANGED <<clock, backs>>
      BY <1>2 DEF NextIdSameMilli
    <3>2. TypeOK'
      BY <2>4, <3>1 DEF IInv, TypeOK
    <3>3. ASSUME NEW k \in Nodes
          PROVE  Behind(k)' /\ Ordered(k)'
      <4>1. CASE k = n
        BY <4>1, <2>4, <3>1 DEF IInv, TypeOK, Behind, Ordered
      <4>2. CASE k # n
        BY <4>2, <2>4, <3>1 DEF IInv, TypeOK, Behind, Ordered
      <4>3. QED
        BY <4>1, <4>2
    <3>4. QED
      BY <2>1, <2>4, <3>1, <3>2, <3>3 DEF IInv, TypeOK
  <2>5. QED
    BY <1>2, <2>3, <2>4 DEF NextIdSameMilli
<1>3. ASSUME NEW n \in Nodes, TilNextMillis(n)
      PROVE  IInv'
  <2>1. /\ clock[n] \in 0..MaxClock /\ sequence[n] \in 0..(SeqSpan - 1)
        /\ pc[n] = "spin" /\ clock[n] > lastTimestamp[n]
    BY <1>3 DEF TilNextMillis, IInv, TypeOK
  <2>2. ASSUME NEW i \in 1..Len(issued[n])
        PROVE  issued[n][i].timestamp < clock[n]
    BY <2>1, Typed DEF IInv, Behind
  <2>3. QED
    <3>1. /\ clock' = clock /\ backs' = backs /\ clock[n] <= clock[n]
          /\ pc' \in [Nodes -> {"idle", "spin"}] /\ pc'[n] = "idle"
          /\ \A k \in Nodes : k # n => pc'[k] = pc[k]
      BY <1>3, <2>1 DEF TilNextMillis, IInv, TypeOK
    <3>2. QED
      BY <1>3, <2>1, <2>2, <3>1, ReturnKeepsOrder DEF TilNextMillis
<1>4. ASSUME NEW n \in Nodes, Tick(n)
      PROVE  IInv'
  <2>1. TypeOK'
    BY <1>4 DEF IInv, TypeOK, Tick
  <2>2. \A k \in Nodes : clock'[k] >= clock[k]
    BY <1>4 DEF IInv, TypeOK, Tick
  <2>3. ASSUME NEW k \in Nodes
        PROVE  Behind(k)' /\ Ordered(k)'
    <3>1. clock'[k] \in Int
      BY <2>1 DEF TypeOK
    <3>2. QED
      BY <1>4, <2>2, <3>1, Typed DEF IInv, Tick, Behind, Ordered
  <2>4. QED
    BY <1>4, <2>1, <2>2, <2>3 DEF IInv, TypeOK, Tick
<1>5. ASSUME NEW n \in Nodes, SetBack(n)
      PROVE  IInv'
  <2>1. n \in Adjusted /\ TypeOK'
    BY <1>5 DEF IInv, TypeOK, SetBack
  <2>2. ASSUME NEW k \in Nodes
        PROVE  k \notin Adjusted => clock'[k] = clock[k]
    BY <1>5, <2>1 DEF IInv, TypeOK, SetBack
  <2>3. ASSUME NEW k \in Nodes
        PROVE  Behind(k)' /\ Ordered(k)'
    BY <1>5, <2>2 DEF IInv, SetBack, Behind, Ordered
  <2>4. QED
    BY <1>5, <2>1, <2>2, <2>3 DEF IInv, SetBack
<1>6. ASSUME NEW n \in Nodes, Restart(n)
      PROVE  IInv'
  <2>1. n \notin Adjusted /\ TypeOK'
    BY <1>6 DEF IInv, TypeOK, Restart, OneDisturbance
  <2>2. /\ issued' = issued /\ clock'[n] = clock[n] + 1 /\ lastTimestamp'[n] = -1
        /\ clock[n] \in 0..MaxClock /\ lastTimestamp[n] <= clock[n]
        /\ lastTimestamp[n] \in {-1} \cup (0..MaxClock)
    BY <1>6, <2>1 DEF IInv, TypeOK, Restart
  <2>3. Behind(n)' /\ Ordered(n)'
    <3>1. ASSUME NEW i \in 1..Len(issued[n])
          PROVE  issued[n][i].timestamp < clock'[n]
      <4>1. issued[n][i].timestamp \in 0..MaxClock
        BY Typed DEF IInv
      <4>2. \/ issued[n][i].timestamp < clock[n]
            \/ issued[n][i].timestamp < lastTimestamp[n]
            \/ issued[n][i].timestamp = lastTimestamp[n]
        BY DEF IInv, Behind
      <4>3. QED
        BY <2>2, <4>1, <4>2
    <3>2. QED
      BY <2>1, <2>2, <3>1 DEF IInv, Behind, Ordered
  <2>4. ASSUME NEW k \in Nodes, k # n
        PROVE  /\ Behind(k)' /\ Ordered(k)'
               /\ k \notin Adjusted => lastTimestamp'[k] <= clock'[k]
               /\ pc'[k] = "spin" => sequence'[k] = 0 /\ lastTimestamp'[k] # -1
    BY <1>6, <2>1, <2>4 DEF IInv, TypeOK, Restart, Behind, Ordered
  <2>5. pc'[n] = "idle" /\ lastTimestamp'[n] <= clock'[n]
    BY <1>6, <2>2 DEF IInv, TypeOK, Restart
  <2>6. QED
    BY <2>1, <2>3, <2>4, <2>5 DEF IInv
<1>7. CASE UNCHANGED vars
  BY <1>7 DEF vars, IInv, TypeOK, Behind, Ordered
<1>8. QED
  BY <1>1, <1>2, <1>3, <1>4, <1>5, <1>6, <1>7 DEF Next

-----------------------------------------------------------------------------
(* The generator's fields and what it returned have their types, however   *)
(* often clocks are set back and processes restarted: no sequence outgrows *)
(* its bits, and no field but the initial lastTimestamp is -1.              *)
THEOREM SnowFlakeType == Spec => []TypeOK
<1>1. Init => TypeOK
  BY InitIInv DEF IInv
<1>2. ASSUME TypeOK, [Next]_vars PROVE TypeOK'
  <2>1. ASSUME NEW n \in Nodes, NEW t \in 0..MaxClock, NEW s \in 0..(SeqSpan - 1), Return(n, t, s),
               pc' \in [Nodes -> {"idle", "spin"}], clock' = clock, backs' = backs
        PROVE  TypeOK'
    <3> DEFINE new == [timestamp |-> t, sequence |-> s]
    <3>1. new \in Issue
      BY DEF Issue
    <3>2. \A k \in Nodes : Append(issued[k], new) \in Seq(Issue)
      BY <1>2, <3>1 DEF TypeOK
    <3>3. QED
      BY <1>2, <2>1, <3>2 DEF TypeOK, Return
  <2>2. ASSUME NEW n \in Nodes, NextIdNewMilli(n) PROVE TypeOK'
    <3>1. Return(n, clock[n], 0) /\ UNCHANGED <<clock, backs, pc>>
      BY <2>2 DEF NextIdNewMilli
    <3>2. clock[n] \in 0..MaxClock /\ 0 \in 0..(SeqSpan - 1) /\ pc \in [Nodes -> {"idle", "spin"}]
      BY <1>2, BoundAssumption DEF TypeOK
    <3>3. QED
      BY <2>1, <3>1, <3>2
  <2>3. ASSUME NEW n \in Nodes, NextIdSameMilli(n) PROVE TypeOK'
    <3> DEFINE next == (sequence[n] + 1) % SeqSpan
    <3>1. clock[n] \in 0..MaxClock /\ next \in 0..(SeqSpan - 1) /\ pc \in [Nodes -> {"idle", "spin"}]
      BY <1>2, BoundAssumption DEF TypeOK
    <3>2. CASE Return(n, clock[n], next) /\ UNCHANGED <<clock, backs, pc>>
      BY <2>1, <3>1, <3>2
    <3>3. CASE /\ sequence' = [sequence EXCEPT ![n] = 0] /\ pc' = [pc EXCEPT ![n] = "spin"]
               /\ UNCHANGED <<clock, backs, lastTimestamp, issued>>
      BY <1>2, <3>1, <3>3, BoundAssumption DEF TypeOK
    <3>4. QED
      BY <2>3, <3>2, <3>3 DEF NextIdSameMilli
  <2>4. ASSUME NEW n \in Nodes, TilNextMillis(n) PROVE TypeOK'
    <3>1. /\ Return(n, clock[n], sequence[n]) /\ UNCHANGED <<clock, backs>>
          /\ pc' = [pc EXCEPT ![n] = "idle"]
      BY <2>4 DEF TilNextMillis
    <3>2. /\ clock[n] \in 0..MaxClock /\ sequence[n] \in 0..(SeqSpan - 1)
          /\ pc' \in [Nodes -> {"idle", "spin"}]
      BY <1>2, <3>1 DEF TypeOK
    <3>3. QED
      BY <2>1, <3>1, <3>2
  <2>5. ASSUME NEW n \in Nodes, Tick(n) \/ SetBack(n) \/ Restart(n) PROVE TypeOK'
    <3>1. CASE Tick(n)
      BY <1>2, <3>1, BoundAssumption DEF TypeOK, Tick
    <3>2. CASE SetBack(n)
      BY <1>2, <3>2, BoundAssumption DEF TypeOK, SetBack
    <3>3. CASE Restart(n)
      BY <1>2, <3>3, BoundAssumption DEF TypeOK, Restart, NoTimestamp
    <3>4. QED
      BY <2>5, <3>1, <3>2, <3>3
  <2>6. CASE UNCHANGED vars
    BY <1>2, <2>6 DEF TypeOK, vars
  <2>7. QED
    BY <1>2, <2>2, <2>3, <2>4, <2>5, <2>6 DEF Next
<1>3. QED
  BY <1>1, <1>2, PTL DEF Spec

(* The position invariant behind the two results below holds in every      *)
(* state that nextId, the clocks and restarts can reach.                   *)
THEOREM SnowFlakeInvariant ==
  ASSUME OneDisturbance
  PROVE  Spec => []IInv
<1>1. Init => IInv
  BY InitIInv
<1>2. IInv /\ [Next]_vars => IInv'
  BY NextIInv
<1>3. QED
  BY <1>1, <1>2, PTL DEF Spec

(* A node's ids increase in the order nextId returns them.                 *)
THEOREM SnowFlakeIncreasing ==
  ASSUME OneDisturbance
  PROVE  Spec => []IncreasingIds
<1>1. IInv => IncreasingIds
  <2> SUFFICES ASSUME IInv, NEW n \in Nodes,
                      NEW i \in 1..Len(issued[n]), NEW j \in 1..Len(issued[n]), i < j
               PROVE  IdOf(n, issued[n][i]) < IdOf(n, issued[n][j])
    BY DEF IncreasingIds
  <2>1. issued[n][i] \in Issue /\ issued[n][j] \in Issue
    BY DEF IInv, TypeOK
  <2>2. Before(issued[n][i], issued[n][j])
    BY DEF IInv, Ordered
  <2>3. QED
    BY <2>1, <2>2, IdOrder
<1>2. QED
  BY <1>1, SnowFlakeInvariant, PTL

(* No id is returned twice in the whole deployment: the class comment's    *)
(* promise, under OneDisturbance.                                          *)
THEOREM SnowFlakeUnique ==
  ASSUME OneDisturbance
  PROVE  Spec => []UniqueIds
<1>1. IInv => UniqueIds
  <2> SUFFICES ASSUME IInv, NEW m \in Nodes, NEW n \in Nodes,
                      NEW i \in 1..Len(issued[m]), NEW j \in 1..Len(issued[n]),
                      IdOf(m, issued[m][i]) = IdOf(n, issued[n][j])
               PROVE  m = n /\ i = j
    BY DEF UniqueIds
  <2>1. issued[m][i] \in Issue /\ issued[n][j] \in Issue
    BY DEF IInv, TypeOK
  <2>2. m = n
    BY <2>1, IdNode
  <2>3. ~(i < j)
    <3>1. i < j => IdOf(m, issued[m][i]) < IdOf(m, issued[m][j])
      BY <2>1, <2>2, IdOrder DEF IInv, Ordered
    <3>2. IdOf(m, issued[m][i]) \in Int
      BY <2>1, IdInteger
    <3>3. QED
      BY <2>2, <3>1, <3>2
  <2>4. ~(j < i)
    <3>1. j < i => IdOf(m, issued[m][j]) < IdOf(m, issued[m][i])
      BY <2>1, <2>2, IdOrder DEF IInv, Ordered
    <3>2. IdOf(m, issued[m][i]) \in Int
      BY <2>1, IdInteger
    <3>3. QED
      BY <2>2, <3>1, <3>2
  <2>5. QED
    BY <2>2, <2>3, <2>4
<1>2. QED
  BY <1>1, SnowFlakeInvariant, PTL
=============================================================================
