----------------------------- MODULE SnowFlake -----------------------------
(***************************************************************************)
(* The 64-bit id generator of spring-boot-starter-commons                  *)
(* (utils/SnowFlake.java).  Every node of the deployment runs one          *)
(* generator; nextId() is a synchronized method, so a call is one step     *)
(* except where it spins in tilNextMillis, still holding the monitor,      *)
(* while the operating system's clock moves under it.                      *)
(*                                                                         *)
(* Time is the offset from twepoch in milliseconds.  Bit fields are given  *)
(* by their number of values: SeqSpan stands for 1 << sequenceBits and so  *)
(* on, TimeHalf for the 41 bits that separate an id's timestamp from the   *)
(* sign bit.                                                               *)
(***************************************************************************)
EXTENDS Integers, Sequences

CONSTANTS
  Nodes,          \* the processes that own a generator
  WorkerId,       \* WorkerId[n], DatacenterId[n]: the constructor's arguments
  DatacenterId,
  WorkerSpan,     \* maxWorkerId + 1
  DatacenterSpan, \* maxDatacenterId + 1
  SeqSpan,        \* sequenceMask + 1
  TimeHalf,       \* 1 << 41: timestamps below it give positive ids
  Restarting,     \* the processes that may stop and start again
  Adjusted,       \* the nodes whose clock may be set back
  MaxBack,        \* bound: how often a clock is set back in a behaviour
  MaxClock        \* bound: the last millisecond of a behaviour

(* The constructor (lines 98-107) refuses an id outside its field; that    *)
(* two nodes never share both ids is the deployment's duty.                *)
ASSUME IdentityAssumption ==
  /\ WorkerSpan \in Nat \ {0}
  /\ DatacenterSpan \in Nat \ {0}
  /\ WorkerId \in [Nodes -> 0..(WorkerSpan - 1)]
  /\ DatacenterId \in [Nodes -> 0..(DatacenterSpan - 1)]
  /\ \A m, n \in Nodes :
        WorkerId[m] = WorkerId[n] /\ DatacenterId[m] = DatacenterId[n] => m = n

(* The bounds, and the field widths: a behaviour ends before the 41 bits   *)
(* of its timestamps are used up (the "69 years" of line 12).              *)
ASSUME BoundAssumption ==
  /\ SeqSpan \in Nat \ {0}
  /\ TimeHalf \in Nat \ {0}
  /\ Restarting \subseteq Nodes
  /\ Adjusted \subseteq Nodes
  /\ MaxBack \in Nat
  /\ MaxClock \in Nat
  /\ MaxClock < TimeHalf

VARIABLES
  clock,          \* clock[n]: System.currentTimeMillis() - twepoch
  backs,          \* how often some clock was set back
  lastTimestamp,  \* the generator's fields
  sequence,
  pc,             \* pc[n] = "spin": a caller is in tilNextMillis, "idle": none is in nextId
  issued          \* issued[n]: what n's calls returned, in order

vars == <<clock, backs, lastTimestamp, sequence, pc, issued>>

NoTimestamp == -1

Issue == [timestamp : 0..MaxClock, sequence : 0..(SeqSpan - 1)]

(***************************************************************************)
(* The returned value.  (high << bits) | low is high * span + low because  *)
(* every low part is smaller than its span, and the left shift keeps 42    *)
(* bits of the timestamp, the highest of which is the sign.                *)
(***************************************************************************)
Pack(high, low, span) == high * span + low

Signed(t) ==
  LET r == t % (2 * TimeHalf) IN IF r < TimeHalf THEN r ELSE r - 2 * TimeHalf

(* Mutant: datacenterIdShift forgets workerIdBits.                         *)
MachineNarrow(n) == Pack(DatacenterId[n], WorkerId[n], 1)

Machine(n) == Pack(DatacenterId[n], WorkerId[n], WorkerSpan)

IdOf(n, issue) ==
  Pack(Pack(Signed(issue.timestamp), Machine(n), DatacenterSpan * WorkerSpan),
       issue.sequence, SeqSpan)

-----------------------------------------------------------------------------
Init ==
  /\ clock \in [Nodes -> 0..MaxClock]
  /\ backs = 0
  /\ lastTimestamp = [n \in Nodes |-> NoTimestamp]
  /\ sequence = [n \in Nodes |-> 0]
  /\ pc = [n \in Nodes |-> "idle"]
  /\ issued = [n \in Nodes |-> <<>>]

(* The end of nextId: remember the timestamp, return the id.               *)
Return(n, timestamp, seq) ==
  /\ lastTimestamp' = [lastTimestamp EXCEPT ![n] = timestamp]
  /\ sequence' = [sequence EXCEPT ![n] = seq]
  /\ issued' = [issued EXCEPT ![n] =
                  Append(@, [timestamp |-> timestamp, sequence |-> seq])]

(* Mutant: the comparison of lines 120-123 is missing.                     *)
NextIdNoRefusal(n) ==
  /\ pc[n] = "idle"
  /\ clock[n] # lastTimestamp[n]
  /\ Return(n, clock[n], 0)
  /\ UNCHANGED <<clock, backs, pc>>

(* A new millisecond: the sequence starts again.                           *)
NextIdNewMilli(n) ==
  /\ pc[n] = "idle"
  /\ clock[n] > lastTimestamp[n]
  /\ Return(n, clock[n], 0)
  /\ UNCHANGED <<clock, backs, pc>>

(* Mutant: the increment of line 127 without its mask.                     *)
NextIdNoMask(n) ==
  /\ pc[n] = "idle"
  /\ clock[n] = lastTimestamp[n]
  /\ Return(n, clock[n], sequence[n] + 1)
  /\ UNCHANGED <<clock, backs, pc>>

(* The same millisecond: the masked increment.  When it wraps, the caller  *)
(* goes on to tilNextMillis with the sequence already at 0.                *)
NextIdSameMilli(n) ==
  /\ pc[n] = "idle"
  /\ clock[n] = lastTimestamp[n]
  /\ LET next == (sequence[n] + 1) % SeqSpan IN
       \/ /\ next # 0
          /\ Return(n, clock[n], next)
          /\ UNCHANGED pc
       \/ /\ next = 0
          /\ sequence' = [sequence EXCEPT ![n] = 0]
          /\ pc' = [pc EXCEPT ![n] = "spin"]
          /\ UNCHANGED <<lastTimestamp, issued>>
  /\ UNCHANGED <<clock, backs>>

(* Mutant: the loop of line 157 with # for <=.                              *)
TilExactMilli(n) ==
  /\ pc[n] = "spin"
  /\ clock[n] = lastTimestamp[n] + 1
  /\ Return(n, clock[n], sequence[n])
  /\ pc' = [pc EXCEPT ![n] = "idle"]
  /\ UNCHANGED <<clock, backs>>

(* A clock behind lastTimestamp makes nextId throw before it changes a     *)
(* field: no step of the model.  The loop of tilNextMillis ends at the     *)
(* first reading that is past lastTimestamp.                               *)
TilNextMillis(n) ==
  /\ pc[n] = "spin"
  /\ clock[n] > lastTimestamp[n]
  /\ Return(n, clock[n], sequence[n])
  /\ pc' = [pc EXCEPT ![n] = "idle"]
  /\ UNCHANGED <<clock, backs>>

(* timeGen(): the operating system's clock advances, or is set back.       *)
Tick(n) ==
  /\ clock[n] < MaxClock
  /\ clock' = [clock EXCEPT ![n] = @ + 1]
  /\ UNCHANGED <<backs, lastTimestamp, sequence, pc, issued>>

SetBack(n) ==
  /\ n \in Adjusted
  /\ backs < MaxBack
  /\ \E t \in 0..MaxClock :
        /\ t < clock[n]
        /\ clock' = [clock EXCEPT ![n] = t]
  /\ backs' = backs + 1
  /\ UNCHANGED <<lastTimestamp, sequence, pc, issued>>

(* The process stops, with whoever was spinning in it, and a new one       *)
(* constructs its generator at least a millisecond later.                  *)
Restart(n) ==
  /\ n \in Restarting
  /\ clock[n] < MaxClock
  /\ clock' = [clock EXCEPT ![n] = @ + 1]
  /\ lastTimestamp' = [lastTimestamp EXCEPT ![n] = NoTimestamp]
  /\ sequence' = [sequence EXCEPT ![n] = 0]
  /\ pc' = [pc EXCEPT ![n] = "idle"]
  /\ UNCHANGED <<backs, issued>>

Next ==
  \E n \in Nodes :
     \/ NextIdNewMilli(n)
     \/ NextIdSameMilli(n)
     \/ TilNextMillis(n)
     \/ Tick(n)
     \/ SetBack(n)
     \/ Restart(n)

Spec == Init /\ [][Next]_vars

(* Clocks move on, and a spinning thread is scheduled.                     *)
Fairness == \A n \in Nodes : WF_vars(Tick(n)) /\ WF_vars(TilNextMillis(n))

FairSpec == Spec /\ Fairness

-----------------------------------------------------------------------------
TypeOK ==
  /\ clock \in [Nodes -> 0..MaxClock]
  /\ backs \in 0..MaxBack
  /\ lastTimestamp \in [Nodes -> {NoTimestamp} \cup (0..MaxClock)]
  /\ sequence \in [Nodes -> 0..(SeqSpan - 1)]
  /\ pc \in [Nodes -> {"idle", "spin"}]
  /\ issued \in [Nodes -> Seq(Issue)]

(* No two calls of nextId, on whichever nodes, return the same id.         *)
UniqueIds ==
  \A m, n \in Nodes : \A i \in 1..Len(issued[m]) : \A j \in 1..Len(issued[n]) :
     IdOf(m, issued[m][i]) = IdOf(n, issued[n][j]) => m = n /\ i = j

(* A node's ids increase in the order its calls return, over clock set     *)
(* backs (which nextId answers by refusing) and over restarts.             *)
IncreasingIds ==
  \A n \in Nodes : \A i, j \in 1..Len(issued[n]) :
     i < j => IdOf(n, issued[n][i]) < IdOf(n, issued[n][j])

(* A caller that waits in tilNextMillis, and keeps every other caller out, *)
(* gets its id once the clock may still move past lastTimestamp.           *)
SpinEnds ==
  \A n \in Nodes :
     (pc[n] = "spin" /\ lastTimestamp[n] < MaxClock) ~> pc[n] = "idle"

=============================================================================
