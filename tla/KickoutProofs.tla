---------------------------- MODULE KickoutProofs ----------------------------
(***************************************************************************)
(* For any number of nodes, sessions and requests at a time: what          *)
(* overlapping requests can never do to the shared deque, how long a kick  *)
(* can go unnoticed, and what holds of the account while requests do not   *)
(* overlap and no copy runs out under one, stale copies included.          *)
(***************************************************************************)
EXTENDS Kickout, SequenceTheorems, FiniteSetTheorems, TLAPS

(* The elements of a sequence.                                              *)
LEMMA Elements ==
  ASSUME NEW S, NEW d \in Seq(S)
  PROVE  /\ DOMAIN d = 1..Len(d) /\ Len(d) \in Nat
         /\ \A i \in 1..Len(d) : d[i] \in ToSet(d) /\ d[i] \in S
         /\ \A x \in ToSet(d) : x \in S /\ \E i \in 1..Len(d) : x = d[i]
BY LenProperties, ElementOfSeq DEF ToSet

(* What the push does to the deque: the session comes first, the others    *)
(* move by one.                                                            *)
LEMMA Pushed ==
  ASSUME NEW S, NEW d \in Seq(S), NEW s \in S
  PROVE  /\ <<s>> \o d \in Seq(S) /\ Len(<<s>> \o d) = Len(d) + 1
         /\ (<<s>> \o d)[1] = s
         /\ \A i \in 1..Len(d) : (<<s>> \o d)[i + 1] = d[i]
         /\ ToSet(<<s>> \o d) = ToSet(d) \cup {s}
<1> DEFINE e == <<s>> \o d
<1>1. /\ e \in Seq(S) /\ Len(e) = Len(d) + 1
      /\ e[1] = s
      /\ \A i \in 1..Len(d) : e[i + 1] = d[i]
  <2>1. <<s>> \in Seq(S) /\ Len(<<s>>) = 1 /\ <<s>>[1] = s
    OBVIOUS
  <2>2. Len(d) \in Nat
    OBVIOUS
  <2>3. QED
    BY <2>1, <2>2, ConcatProperties
<1> HIDE DEF e
<1>2. ASSUME NEW x \in ToSet(e) PROVE x \in ToSet(d) \cup {s}
  <2>1. PICK i \in 1..Len(e) : x = e[i]
    BY <1>1, Elements
  <2>2. CASE i = 1
    BY <1>1, <2>1, <2>2
  <2>3. CASE i # 1
    <3>1. i - 1 \in 1..Len(d) /\ (i - 1) + 1 = i
      BY <1>1, <2>1, <2>3, Elements
    <3>2. x = d[i - 1]
      BY <1>1, <2>1, <3>1
    <3>3. QED
      BY <3>1, <3>2, Elements
  <2>4. QED
    BY <2>2, <2>3
<1>3. ASSUME NEW x \in ToSet(d) PROVE x \in ToSet(e)
  <2>1. PICK i \in 1..Len(d) : x = d[i]
    BY Elements
  <2>2. i + 1 \in 1..Len(e) /\ e[i + 1] = x
    BY <1>1, <2>1, Elements
  <2>3. QED
    BY <1>1, <2>2, Elements
<1>4. s \in ToSet(e)
  <2>1. 1 \in 1..Len(e)
    BY <1>1, Elements
  <2>2. QED
    BY <1>1, <2>1, Elements
<1>5. ToSet(e) = ToSet(d) \cup {s}
  BY <1>2, <1>3, <1>4
<1>6. QED
  BY <1>1, <1>5 DEF e

(* A deque stays injective when a new session is pushed.                    *)
LEMMA StillInjective ==
  ASSUME NEW S, NEW d \in Seq(S), NEW s \in S, IsInjective(d), s \notin ToSet(d)
  PROVE  IsInjective(<<s>> \o d)
<1> DEFINE e == <<s>> \o d
<1>1. \A i, j \in 1..Len(d) : d[i] # s /\ (d[i] = d[j] => i = j)
  BY Elements DEF IsInjective
<1>2. /\ e \in Seq(S) /\ Len(e) = Len(d) + 1
      /\ \A i \in 1..Len(d) : e[i + 1] = d[i]
      /\ e[1] = s
  BY Pushed
<1> HIDE DEF e
<1>3. DOMAIN e = 1..(Len(d) + 1) /\ Len(d) \in Nat
  BY <1>2, Elements
<1>4. \A i \in 1..(Len(d) + 1) : i = 1 \/ (i - 1 \in 1..Len(d) /\ e[i] = d[i - 1])
  <2>1. ASSUME NEW i \in 1..(Len(d) + 1), i # 1 PROVE i - 1 \in 1..Len(d) /\ (i - 1) + 1 = i
    BY <1>3, <2>1
  <2>2. QED
    BY <1>2, <2>1
<1>5. IsInjective(e)
  <2>1. SUFFICES ASSUME NEW i \in 1..(Len(d) + 1), NEW j \in 1..(Len(d) + 1), e[i] = e[j] PROVE i = j
    BY <1>3 DEF IsInjective
  <2>2. CASE i = 1 \/ j = 1
    <3>1. e[1] = s
      BY <1>2
    <3>2. QED
      BY <1>1, <1>4, <2>1, <2>2, <3>1
  <2>3. CASE i # 1 /\ j # 1
    <3>1. i - 1 = j - 1
      BY <1>1, <1>4, <2>1, <2>3
    <3>2. QED
      BY <3>1
  <2>4. QED
    BY <2>2, <2>3
<1>6. QED
  BY <1>5 DEF e

(* A step of the loop takes one end off.                                    *)
LEMMA Shortened ==
  ASSUME NEW S, NEW d \in Seq(S), Len(d) > 0, NEW e, NEW k \in {0, 1}, NEW x,
         \/ e = Front(d) /\ k = 0 /\ x = Last(d)
         \/ e = Tail(d) /\ k = 1 /\ x = Head(d)
  PROVE  /\ e \in Seq(S) /\ Len(e) = Len(d) - 1
         /\ \A i \in 1..Len(e) : e[i] = d[i + k]
         /\ x \in ToSet(d)
         /\ ToSet(d) = ToSet(e) \cup {x}
         /\ IsInjective(d) => IsInjective(e) /\ x \notin ToSet(e)
<1>1. /\ e \in Seq(S) /\ Len(e) = Len(d) - 1
      /\ \A i \in 1..Len(e) : e[i] = d[i + k]
  <2>1. CASE e = Front(d) /\ k = 0
    <3>1. \A i \in 1..(Len(d) - 1) : d[i] \in S
      BY Elements
    <3>2. Len(d) - 1 \in Nat
      BY Elements
    <3>3. /\ SubSeq(d, 1, Len(d) - 1) \in Seq(S)
          /\ Len(SubSeq(d, 1, Len(d) - 1)) = Len(d) - 1
          /\ \A i \in 1..(Len(d) - 1) : SubSeq(d, 1, Len(d) - 1)[i] = d[i]
      <4>1. /\ SubSeq(d, 1, Len(d) - 1) \in Seq(S)
            /\ Len(SubSeq(d, 1, Len(d) - 1)) = IF 1 <= Len(d) - 1 THEN (Len(d) - 1) - 1 + 1 ELSE 0
            /\ \A i \in 1..((Len(d) - 1) - 1 + 1) : SubSeq(d, 1, Len(d) - 1)[i] = d[1 + i - 1]
        BY <3>1, <3>2, SubSeqProperties
      <4>2. \A i \in 1..(Len(d) - 1) : i \in 1..((Len(d) - 1) - 1 + 1) /\ 1 + i - 1 = i
        BY <3>2
      <4>3. \A i \in 1..(Len(d) - 1) : SubSeq(d, 1, Len(d) - 1)[i] = d[i]
        <5>1. SUFFICES ASSUME NEW i \in 1..(Len(d) - 1) PROVE SubSeq(d, 1, Len(d) - 1)[i] = d[i]
          OBVIOUS
        <5>2. SubSeq(d, 1, Len(d) - 1)[i] = d[1 + i - 1]
          BY <4>1, <4>2
        <5>3. 1 + i - 1 = i
          OBVIOUS
        <5>4. QED
          BY <5>2, <5>3
      <4>4. Len(SubSeq(d, 1, Len(d) - 1)) = Len(d) - 1
        <5>1. \A n \in Nat : (IF 1 <= n THEN n - 1 + 1 ELSE 0) = n
          OBVIOUS
        <5>2. QED
          BY <3>2, <4>1, <5>1
      <4>5. QED
        BY <4>1, <4>3, <4>4
    <3>4. \A i \in 1..Len(e) : i + k = i
      BY <2>1
    <3>5. QED
      BY <2>1, <3>3, <3>4 DEF Front
  <2>2. CASE e = Tail(d) /\ k = 1
    BY <2>2, HeadTailProperties
  <2>3. QED
    BY <2>1, <2>2
<1>2. x = d[IF k = 0 THEN Len(d) ELSE 1]
  BY Elements DEF Last
<1>3. x \in ToSet(d)
  BY <1>2, Elements
<1>4. ASSUME NEW y \in ToSet(e) PROVE y \in ToSet(d)
  <2>1. PICK i \in 1..Len(e) : y = e[i]
    BY <1>1, Elements
  <2>2. i + k \in 1..Len(d) /\ d[i + k] = y
    BY <1>1, <2>1, Elements
  <2>3. QED
    BY <2>2, Elements
<1>5. ASSUME NEW y \in ToSet(d), y # x PROVE y \in ToSet(e)
  <2>1. PICK i \in 1..Len(d) : y = d[i]
    BY Elements
  <2>2. i - k \in 1..Len(e) /\ (i - k) + k = i
    BY <1>1, <1>2, <1>5, <2>1, Elements
  <2>3. e[i - k] = y
    BY <1>1, <2>1, <2>2
  <2>4. QED
    BY <1>1, <2>2, <2>3, Elements
<1>6. ASSUME IsInjective(d) PROVE IsInjective(e) /\ x \notin ToSet(e)
  <2>1. \A i \in 1..Len(e) : i + k \in 1..Len(d) /\ i + k # (IF k = 0 THEN Len(d) ELSE 1)
    BY <1>1, Elements
  <2>2. IsInjective(e)
    <3>1. SUFFICES ASSUME NEW i \in 1..Len(e), NEW j \in 1..Len(e), e[i] = e[j] PROVE i = j
      BY <1>1, Elements DEF IsInjective
    <3>2. d[i + k] = d[j + k] /\ i + k \in DOMAIN d /\ j + k \in DOMAIN d
      BY <1>1, <2>1, <3>1, Elements
    <3>3. i + k = j + k
      BY <1>6, <3>2 DEF IsInjective
    <3>4. QED
      BY <3>3
  <2>3. x \notin ToSet(e)
    <3>1. SUFFICES ASSUME NEW i \in 1..Len(e), x = e[i] PROVE FALSE
      BY <1>1, Elements
    <3>2. d[i + k] = d[IF k = 0 THEN Len(d) ELSE 1]
      BY <1>1, <1>2, <3>1
    <3>3. (IF k = 0 THEN Len(d) ELSE 1) \in DOMAIN d /\ i + k \in DOMAIN d
      BY <2>1, Elements
    <3>4. QED
      BY <1>6, <2>1, <3>2, <3>3 DEF IsInjective
  <2>4. QED
    BY <2>2, <2>3
<1>7. QED
  BY <1>1, <1>3, <1>4, <1>5, <1>6

(* How many elements a sequence has.                                        *)
LEMMA ElementCount ==
  ASSUME NEW S, NEW d \in Seq(S)
  PROVE  /\ IsFiniteSet(ToSet(d)) /\ Cardinality(ToSet(d)) <= Len(d)
         /\ IsInjective(d) => Cardinality(ToSet(d)) = Len(d)
<1>1. /\ IsFiniteSet(1..Len(d)) /\ Cardinality(1..Len(d)) = Len(d)
      /\ DOMAIN d = 1..Len(d) /\ Len(d) \in Nat
  BY FS_Interval, Elements
<1>2. d \in Surjection(1..Len(d), ToSet(d))
  BY <1>1, Elements DEF Surjection, ToSet
<1>3. /\ IsFiniteSet(ToSet(d)) /\ Cardinality(ToSet(d)) <= Len(d)
      /\ Cardinality(ToSet(d)) = Len(d) <=> d \in Injection(1..Len(d), ToSet(d))
  BY <1>1, <1>2, FS_Surjection
<1>4. IsInjective(d) => d \in Injection(1..Len(d), ToSet(d))
  BY <1>1, <1>2 DEF Injection, IsInjective, Surjection
<1>5. QED
  BY <1>3, <1>4

-----------------------------------------------------------------------------
Quiet == ~disturbed

(* Whoever has a session, somebody has logged in to it; a request has an    *)
(* object; a deque is well formed but for its length.                       *)
Known ==
  /\ \A n \in Nodes, s \in Sessions : copy[n][s] # "none" => redis[s] # "new"
  /\ \A t \in Threads : pc[t] # "idle" =>
       /\ node[t] \in Nodes /\ session[t] \in Sessions
       /\ redis[session[t]] # "new"
       /\ mine[t] # "none"
       /\ mine[t] = "cached" => copy[node[t]][session[t]] # "none"
  /\ \A t \in Threads : IsInjective(deque[t]) /\ \A s \in ToSet(deque[t]) : redis[s] # "new"
  /\ \A t \in Threads : pc[t] = "idle" => mine[t] = "none" /\ deque[t] = <<>>

(* A copy is no older than the time to live.  One that has not seen the     *)
(* kick or the logout is at least as old as that.                           *)
Lag ==
  /\ \A n \in Nodes, s \in Sessions :
       /\ age[n][s] <= TimeToLive
       /\ copy[n][s] = "live" /\ redis[s] \in Out => age[n][s] >= outAge[s]
  /\ \A s \in Sessions : redis[s] \notin Out => outAge[s] = 0

WorkingLive == \A s \in working : redis[s] = "live"

(* Without disturbance one request is in the filter or behind it, and its   *)
(* object is the one in its node's memory.                                  *)
Alone ==
  Quiet =>
     /\ \A t, u \in Threads : pc[t] # "idle" /\ pc[u] # "idle" => t = u
     /\ \A t \in Threads : pc[t] # "idle" => mine[t] = "cached"

(* The sessions that work are in the deque, or in the copy that will        *)
(* replace it; so is the request's own session, unless its node has learnt  *)
(* that it is kicked out, and then the request is not let through.          *)
Covered ==
  Quiet =>
     /\ working \subseteq ToSet(cache)
     /\ \A t \in Threads : pc[t] = "push" => deque[t] = cache
     /\ \A t \in Threads : pc[t] = "kick" =>
          /\ working \subseteq ToSet(deque[t])
          /\ View(t) = "live" => session[t] \in ToSet(deque[t])
     /\ \A t \in Threads : pc[t] \in {"check", "serve"} =>
          (View(t) = "live" => session[t] \in ToSet(cache))
     /\ \A t \in Threads : pc[t] = "serve" => View(t) = "live"

(* The deque has the sessions in the reverse order of their entries.        *)
Ordered(d) == \A i, j \in DOMAIN d : i < j => d[i] \in since[d[j]]
InOrder == Quiet => Ordered(cache) /\ \A t \in Threads : Ordered(deque[t])

IInv ==
  TypeOK /\ DequeWellFormed /\ Known /\ Lag /\ WorkingLive /\ Alone /\ Covered /\ InOrder

-----------------------------------------------------------------------------
(* Empty deques, no copies, nobody logged in.                              *)
LEMMA InitIInv == Init => IInv
<1> SUFFICES ASSUME Init PROVE IInv
  OBVIOUS
<1> USE KickoutAssumption DEF Init
<1>1. ToSet(<<>>) = {} /\ <<>> \in Seq(Sessions) /\ IsInjective(<<>>) /\ Len(<<>>) = 0 /\ DOMAIN <<>> = {}
  BY DEF ToSet, IsInjective
<1>2. TypeOK
  <2>1. age \in [Nodes -> [Sessions -> 0..(TimeToLive + 1)]] /\ outAge \in [Sessions -> 0..(TimeToLive + 1)]
    OBVIOUS
  <2>2. copy \in [Nodes -> [Sessions -> {"none", "live", "kicked"}]]
    OBVIOUS
  <2>3. QED
    BY <1>1, <2>1, <2>2 DEF TypeOK
<1>3. DequeWellFormed
  BY <1>1 DEF DequeWellFormed
<1>4. Known
  BY <1>1 DEF Known
<1>5. Lag /\ WorkingLive
  BY DEF Lag, WorkingLive, Out
<1>6. Alone /\ Covered
  BY <1>1 DEF Alone, Covered
<1>7. InOrder
  BY <1>1 DEF InOrder, Ordered
<1>8. QED
  BY <1>2, <1>3, <1>4, <1>5, <1>6, <1>7 DEF IInv

(* What the sessions' store is after saveSession.                           *)
LEMMA Saved ==
  ASSUME IInv, NEW s \in Sessions, NEW c \in {"live", "kicked", "gone"}, Save(s, c)
  PROVE  /\ \A x \in Sessions : redis'[x] = IF x = s THEN c ELSE redis[x]
         /\ redis' \in [Sessions -> {"new", "live", "kicked", "gone"}]
         /\ outAge' \in [Sessions -> 0..(TimeToLive + 1)]
         /\ \A x \in Sessions : redis[x] # "new" => redis'[x] # "new"
         /\ \A x \in Sessions : redis'[x] \notin Out => outAge'[x] = 0
         /\ \A x \in Sessions : redis'[x] \in Out => outAge'[x] = outAge[x]
<1> USE KickoutAssumption DEF IInv, TypeOK
<1>1. \A x \in Sessions : redis'[x] = IF x = s THEN c ELSE redis[x]
  BY DEF Save
<1>2. \A x \in Sessions : outAge'[x] = IF x = s /\ c \notin Out THEN 0 ELSE outAge[x]
  BY DEF Save
<1>3. redis' \in [Sessions -> {"new", "live", "kicked", "gone"}]
  BY DEF Save
<1>4. outAge' \in [Sessions -> 0..(TimeToLive + 1)]
  BY DEF Save
<1>5. QED
  BY <1>1, <1>2, <1>3, <1>4 DEF Lag, Out

(* ... and after saveSession, on a node that has copied it or not: Lag.     *)
LEMMA SavedLag ==
  ASSUME IInv, NEW s \in Sessions, NEW c \in {"live", "kicked", "gone"}, Save(s, c), age' = age,
         \A n \in Nodes, x \in Sessions : copy'[n][x] = "live" => copy[n][x] = "live"
  PROVE  Lag'
<1>1. /\ \A x \in Sessions : redis'[x] \notin Out => outAge'[x] = 0
      /\ \A x \in Sessions : redis'[x] \in Out => outAge'[x] = outAge[x]
  BY Saved
<1>2. \A n \in Nodes, x \in Sessions : age[n][x] \in Nat
  BY KickoutAssumption DEF IInv, TypeOK
<1>3. \A x \in Sessions : redis[x] \notin Out => outAge[x] = 0
  BY DEF IInv, Lag
<1>4. ASSUME NEW n \in Nodes, NEW x \in Sessions, copy'[n][x] = "live", redis'[x] \in Out
      PROVE  age[n][x] >= outAge'[x]
  <2>1. CASE redis[x] \in Out
    BY <1>1, <1>4, <2>1 DEF IInv, Lag
  <2>2. CASE redis[x] \notin Out
    BY <1>1, <1>2, <1>3, <1>4, <2>2
  <2>3. QED
    BY <2>1, <2>2
<1>5. QED
  BY <1>1, <1>4 DEF IInv, Lag

(* What delete leaves of a session.                                         *)
LEMMA Deleted ==
  ASSUME IInv, NEW n \in Nodes, NEW s \in Sessions, Delete(n, s)
  PROVE  /\ \A x \in Sessions : redis'[x] = IF x = s THEN "gone" ELSE redis[x]
         /\ redis' \in [Sessions -> {"new", "live", "kicked", "gone"}]
         /\ outAge' \in [Sessions -> 0..(TimeToLive + 1)]
         /\ copy' \in [Nodes -> [Sessions -> {"none", "live", "kicked"}]]
         /\ age' \in [Nodes -> [Sessions -> 0..(TimeToLive + 1)]]
         /\ \A x \in Sessions : redis[x] # "new" => redis'[x] # "new"
         /\ \A m \in Nodes, x \in Sessions :
              copy'[m][x] = IF m = n /\ x = s THEN "none" ELSE copy[m][x]
         /\ working' = working \ {s}
         /\ Lag' /\ WorkingLive'
<1> USE KickoutAssumption DEF Delete
<1>1. /\ \A x \in Sessions : redis'[x] = IF x = s THEN "gone" ELSE redis[x]
      /\ redis' \in [Sessions -> {"new", "live", "kicked", "gone"}]
      /\ outAge' \in [Sessions -> 0..(TimeToLive + 1)]
      /\ \A x \in Sessions : redis[x] # "new" => redis'[x] # "new"
      /\ \A x \in Sessions : redis'[x] \notin Out => outAge'[x] = 0
      /\ \A x \in Sessions : redis'[x] \in Out => outAge'[x] = outAge[x]
  BY Saved
<1>2. /\ copy' \in [Nodes -> [Sessions -> {"none", "live", "kicked"}]]
      /\ \A m \in Nodes, x \in Sessions :
           copy'[m][x] = IF m = n /\ x = s THEN "none" ELSE copy[m][x]
  BY DEF IInv, TypeOK
<1>3. /\ age' \in [Nodes -> [Sessions -> 0..(TimeToLive + 1)]]
      /\ \A m \in Nodes, x \in Sessions :
           age'[m][x] = IF m = n /\ x = s THEN 0 ELSE age[m][x]
  BY DEF IInv, TypeOK
<1>4. Lag'
  <2>1. \A m \in Nodes, x \in Sessions : age'[m][x] <= TimeToLive
    BY <1>3 DEF IInv, Lag
  <2>2. ASSUME NEW m \in Nodes, NEW x \in Sessions, copy'[m][x] = "live", redis'[x] \in Out
        PROVE  age'[m][x] >= outAge'[x]
    <3>1. copy[m][x] = "live" /\ age'[m][x] = age[m][x] /\ age[m][x] \in Nat /\ outAge'[x] = outAge[x]
      BY <1>1, <1>2, <1>3, <2>2 DEF IInv, TypeOK
    <3>2. CASE redis[x] \in Out
      BY <3>1, <3>2 DEF IInv, Lag
    <3>3. CASE redis[x] \notin Out
      <4>1. outAge[x] = 0
        BY <3>3 DEF IInv, Lag
      <4>2. QED
        BY <3>1, <4>1
    <3>4. QED
      BY <3>2, <3>3
  <2>3. QED
    BY <1>1, <2>1, <2>2 DEF Lag
<1>5. WorkingLive'
  BY <1>1 DEF IInv, WorkingLive, TypeOK
<1>6. QED
  BY <1>1, <1>2, <1>3, <1>4, <1>5

(* A login changes no copy and no deque.                                   *)
LEMMA LoginStep ==
  ASSUME IInv, NEW s \in Sessions, Login(s)
  PROVE  IInv'
<1>1. /\ \A x \in Sessions : redis'[x] = IF x = s THEN "live" ELSE redis[x]
      /\ redis' \in [Sessions -> {"new", "live", "kicked", "gone"}]
      /\ outAge' \in [Sessions -> 0..(TimeToLive + 1)]
      /\ \A x \in Sessions : redis[x] # "new" => redis'[x] # "new"
  BY Saved DEF Login
<1>2. UNCHANGED <<settings, cache, memory, working, pc, request, mine, deque, since, disturbed>>
  BY DEF Login
<1>3. Lag'
  BY <1>2, SavedLag DEF Login, memory
<1>4. TypeOK'
  BY <1>1, <1>2 DEF IInv, TypeOK, settings, memory, request
<1>5. DequeWellFormed' /\ Known'
  <2>1. ToSet(cache) \subseteq Sessions /\ \A t \in Threads : ToSet(deque[t]) \subseteq Sessions
    BY Elements DEF IInv, TypeOK
  <2>2. DequeWellFormed'
    BY <1>1, <1>2, <2>1 DEF IInv, DequeWellFormed, settings
  <2>3. Known'
    BY <1>1, <1>2, <2>1 DEF IInv, Known, memory, request
  <2>4. QED
    BY <2>2, <2>3
<1>6. WorkingLive'
  BY <1>1, <1>2 DEF IInv, WorkingLive, TypeOK
<1>7. Alone' /\ Covered' /\ InOrder'
  BY <1>2 DEF IInv, Alone, Covered, InOrder, Quiet, View, Ordered, memory, request
<1>8. QED
  BY <1>3, <1>4, <1>5, <1>6, <1>7 DEF IInv

(* A session whose key expires no longer works.                            *)
LEMMA ExpireStep ==
  ASSUME IInv, NEW s \in Sessions, Expire(s)
  PROVE  IInv'
<1>1. /\ \A x \in Sessions : redis'[x] = IF x = s THEN "gone" ELSE redis[x]
      /\ redis' \in [Sessions -> {"new", "live", "kicked", "gone"}]
      /\ outAge' \in [Sessions -> 0..(TimeToLive + 1)]
      /\ \A x \in Sessions : redis[x] # "new" => redis'[x] # "new"
  BY Saved DEF Expire
<1>2. /\ UNCHANGED <<settings, cache, memory, pc, request, mine, deque, since, disturbed>>
      /\ working' = working \ {s}
  BY DEF Expire
<1>3. Lag'
  BY <1>2, SavedLag DEF Expire, memory
<1>4. TypeOK'
  BY <1>1, <1>2 DEF IInv, TypeOK, settings, memory, request
<1>5. DequeWellFormed' /\ Known'
  <2>1. ToSet(cache) \subseteq Sessions /\ \A t \in Threads : ToSet(deque[t]) \subseteq Sessions
    BY Elements DEF IInv, TypeOK
  <2>2. DequeWellFormed'
    BY <1>1, <1>2, <2>1 DEF IInv, DequeWellFormed, settings
  <2>3. Known'
    BY <1>1, <1>2, <2>1 DEF IInv, Known, memory, request
  <2>4. QED
    BY <2>2, <2>3
<1>6. WorkingLive'
  BY <1>1, <1>2 DEF IInv, WorkingLive, TypeOK
<1>7. Alone' /\ Covered' /\ InOrder'
  BY <1>2 DEF IInv, Alone, Covered, InOrder, Quiet, View, Ordered, memory, request
<1>8. QED
  BY <1>3, <1>4, <1>5, <1>6, <1>7 DEF IInv

(* A logout is a disturbance if a request is running.                       *)
LEMMA LogoutStep ==
  ASSUME IInv, NEW n \in Nodes, NEW s \in Sessions, Logout(n, s)
  PROVE  IInv'
<1>1. /\ redis' \in [Sessions -> {"new", "live", "kicked", "gone"}]
      /\ outAge' \in [Sessions -> 0..(TimeToLive + 1)]
      /\ copy' \in [Nodes -> [Sessions -> {"none", "live", "kicked"}]]
      /\ age' \in [Nodes -> [Sessions -> 0..(TimeToLive + 1)]]
      /\ \A x \in Sessions : redis[x] # "new" => redis'[x] # "new"
      /\ \A m \in Nodes, x \in Sessions :
           copy'[m][x] = IF m = n /\ x = s THEN "none" ELSE copy[m][x]
      /\ working' = working \ {s}
      /\ Lag' /\ WorkingLive'
  BY Deleted DEF Logout
<1>2. /\ UNCHANGED <<settings, cache, pc, request, deque, since>>
      /\ disturbed' \in BOOLEAN
      /\ Quiet' => Quiet /\ \A t \in Threads : pc[t] = "idle"
  BY DEF Logout, Overlap, Quiet, IInv, TypeOK
<1>3. \A t \in Threads : mine'[t] = IF mine[t] = "cached" /\ node[t] = n /\ session[t] = s
                                    THEN "stopped" ELSE mine[t]
  BY DEF Logout, Left
<1>4. TypeOK'
  <2>1. mine' \in [Threads -> {"none", "cached", "live", "kicked", "stopped"}]
    BY DEF Logout, Left, IInv, TypeOK
  <2>2. working' \subseteq Sessions
    BY <1>1 DEF IInv, TypeOK
  <2>3. QED
    BY <1>1, <1>2, <2>1, <2>2 DEF IInv, TypeOK, settings, request
<1>5. DequeWellFormed' /\ Known'
  <2>1. ToSet(cache) \subseteq Sessions /\ \A t \in Threads : ToSet(deque[t]) \subseteq Sessions
    BY Elements DEF IInv, TypeOK
  <2>2. DequeWellFormed'
    BY <1>1, <1>2, <2>1 DEF IInv, DequeWellFormed, settings
  <2>3. ASSUME NEW t \in Threads, pc[t] # "idle"
        PROVE  /\ node[t] \in Nodes /\ session[t] \in Sessions
               /\ redis'[session[t]] # "new"
               /\ mine'[t] # "none"
               /\ mine'[t] = "cached" => copy'[node[t]][session[t]] # "none"
    <3>1. /\ node[t] \in Nodes /\ session[t] \in Sessions /\ redis[session[t]] # "new" /\ mine[t] # "none"
          /\ mine[t] = "cached" => copy[node[t]][session[t]] # "none"
      BY <2>3 DEF IInv, Known
    <3>2. QED
      BY <1>1, <1>3, <3>1
  <2>4. \A t \in Threads : IsInjective(deque[t]) /\ \A x \in ToSet(deque[t]) : redis'[x] # "new"
    BY <1>1, <2>1 DEF IInv, Known
  <2>5. ASSUME NEW m \in Nodes, NEW x \in Sessions, copy'[m][x] # "none"
        PROVE  redis'[x] # "new"
    <3>1. copy[m][x] # "none"
      BY <1>1, <2>5
    <3>2. redis[x] # "new"
      BY <3>1 DEF IInv, Known
    <3>3. QED
      BY <1>1, <3>2
  <2>6. \A t \in Threads : pc[t] = "idle" => mine'[t] = "none" /\ deque[t] = <<>>
    BY <1>3 DEF IInv, Known
  <2>7. Known'
    BY <1>2, <2>3, <2>4, <2>5, <2>6 DEF Known, request
  <2>8. QED
    BY <2>2, <2>7
<1>6. Alone' /\ Covered' /\ InOrder'
  BY <1>1, <1>2 DEF IInv, Alone, Covered, InOrder, Ordered
<1>7. QED
  BY <1>1, <1>4, <1>5, <1>6 DEF IInv

(* A request begins with what its node has or reads of the session.         *)
LEMMA GetDequeStep ==
  ASSUME IInv, NEW t \in Threads, NEW n \in Nodes, NEW s \in Sessions, GetDeque(t, n, s)
  PROVE  IInv'
<1>1. /\ UNCHANGED <<settings, cache, age, store, since>>
      /\ pc[t] = "idle"
      /\ disturbed' \in BOOLEAN
      /\ Quiet' => Quiet /\ \A u \in Threads : pc[u] = "idle"
  BY DEF GetDeque, Overlap, Quiet, IInv, TypeOK
<1>2. /\ pc'[t] = "push" /\ node'[t] = n /\ session'[t] = s /\ mine'[t] = "cached" /\ deque'[t] = cache
      /\ \A u \in Threads \ {t} :
           pc'[u] = pc[u] /\ node'[u] = node[u] /\ session'[u] = session[u] /\ mine'[u] = mine[u] /\ deque'[u] = deque[u]
  BY DEF GetDeque, Goto, IInv, TypeOK
<1>3. /\ redis[s] # "new"
      /\ Read(n, s) \in {"live", "kicked"}
      /\ Read(n, s) = "live" => copy[n][s] = "live" \/ redis[s] = "live"
  BY DEF GetDeque, Found, Read, IInv, TypeOK, Known
<1>4. \A m \in Nodes, x \in Sessions : copy'[m][x] = IF m = n /\ x = s THEN Read(n, s) ELSE copy[m][x]
  BY DEF GetDeque, IInv, TypeOK
<1>5. TypeOK'
  <2>1. copy' \in [Nodes -> [Sessions -> {"none", "live", "kicked"}]]
    BY <1>3 DEF GetDeque, IInv, TypeOK
  <2>2. /\ pc' \in [Threads -> {"idle", "push", "kick", "check", "serve"}]
        /\ node' \in [Threads -> Nodes \cup {NoNode}]
        /\ session' \in [Threads -> Sessions \cup {NoSession}]
        /\ mine' \in [Threads -> {"none", "cached", "live", "kicked", "stopped"}]
        /\ deque' \in [Threads -> Seq(Sessions)]
    BY DEF GetDeque, Goto, IInv, TypeOK
  <2>3. QED
    BY <1>1, <2>1, <2>2 DEF IInv, TypeOK, settings, store
<1>6. DequeWellFormed' /\ WorkingLive'
  BY <1>1 DEF IInv, DequeWellFormed, WorkingLive, settings, store
<1>7. Known'
  <2>1. \A m \in Nodes, x \in Sessions : copy'[m][x] # "none" => redis'[x] # "new"
    BY <1>1, <1>3, <1>4 DEF IInv, Known, store
  <2>2. \A u \in Threads : pc'[u] # "idle" =>
          /\ node'[u] \in Nodes /\ session'[u] \in Sessions
          /\ redis'[session'[u]] # "new"
          /\ mine'[u] # "none"
          /\ mine'[u] = "cached" => copy'[node'[u]][session'[u]] # "none"
    BY <1>1, <1>2, <1>3, <1>4 DEF IInv, Known, store
  <2>3. \A u \in Threads : IsInjective(deque'[u]) /\ \A x \in ToSet(deque'[u]) : redis'[x] # "new"
    BY <1>1, <1>2 DEF IInv, Known, DequeWellFormed, store
  <2>4. \A u \in Threads : pc'[u] = "idle" => mine'[u] = "none" /\ deque'[u] = <<>>
    BY <1>2 DEF IInv, Known
  <2>5. QED
    BY <2>1, <2>2, <2>3, <2>4 DEF Known
<1>8. Lag'
  <2>1. age[n][s] \in Nat /\ outAge[s] \in Nat
    BY DEF IInv, TypeOK
  <2>2. copy'[n][s] = "live" /\ redis[s] \in Out => age[n][s] >= outAge[s]
    BY <1>3, <1>4 DEF IInv, Lag, Out
  <2>3. QED
    BY <1>1, <1>4, <2>2 DEF IInv, Lag, store
<1>9. Alone'
  BY <1>1, <1>2 DEF IInv, Alone
<1>10. Covered'
  BY <1>1, <1>2 DEF IInv, Covered, store
<1>11. InOrder'
  BY <1>1, <1>2 DEF IInv, InOrder, Ordered
<1>12. QED
  BY <1>5, <1>6, <1>7, <1>8, <1>9, <1>10, <1>11 DEF IInv

(* Steps that take only one request further: its place and its deque.       *)
LEMMA OneRequest ==
  ASSUME IInv, NEW t \in Threads, pc[t] # "idle"
  PROVE  /\ node[t] \in Nodes /\ session[t] \in Sessions /\ redis[session[t]] # "new"
         /\ deque[t] \in Seq(Sessions) /\ IsInjective(deque[t])
         /\ ToSet(deque[t]) \subseteq Sessions
         /\ ToSet(cache) \subseteq Sessions
         /\ View(t) \in {"live", "kicked", "stopped"}
         /\ Quiet => mine[t] = "cached" /\ View(t) = copy[node[t]][session[t]]
         /\ Quiet => \A u \in Threads \ {t} : pc[u] = "idle"
<1>1. node[t] \in Nodes /\ session[t] \in Sessions /\ redis[session[t]] # "new" /\ IsInjective(deque[t])
  BY DEF IInv, Known
<1>2. deque[t] \in Seq(Sessions) /\ ToSet(deque[t]) \subseteq Sessions /\ ToSet(cache) \subseteq Sessions
  BY Elements DEF IInv, TypeOK
<1>3. View(t) \in {"live", "kicked", "stopped"}
  <2>1. mine[t] \in {"cached", "live", "kicked", "stopped"}
    BY DEF IInv, TypeOK, Known
  <2>2. mine[t] = "cached" => copy[node[t]][session[t]] \in {"live", "kicked"}
    BY <1>1 DEF IInv, TypeOK, Known
  <2>3. QED
    BY <2>1, <2>2 DEF View
<1>4. /\ Quiet => mine[t] = "cached" /\ View(t) = copy[node[t]][session[t]]
      /\ Quiet => \A u \in Threads \ {t} : pc[u] = "idle"
  BY DEF IInv, Alone, View
<1>5. QED
  BY <1>1, <1>2, <1>3, <1>4

(* The session goes first in the copy, and has now entered last.            *)
LEMMA PushStep ==
  ASSUME IInv, NEW t \in Threads, Push(t)
  PROVE  IInv'
<1> DEFINE s == session[t]
           d == deque[t]
           enters == s \notin ToSet(d) /\ View(t) = "live"
<1>1. /\ pc[t] = "push"
      /\ UNCHANGED <<settings, cache, memory, store, request, mine, disturbed>>
      /\ deque' = [deque EXCEPT ![t] = IF enters THEN <<s>> \o @ ELSE @]
      /\ since' = IF enters THEN Since(s) ELSE since
      /\ pc' = [pc EXCEPT ![t] = "kick"]
  BY DEF Push, Goto
<1>2. /\ s \in Sessions /\ redis[s] # "new"
      /\ d \in Seq(Sessions) /\ IsInjective(d) /\ ToSet(d) \subseteq Sessions
      /\ ToSet(cache) \subseteq Sessions
      /\ Quiet => \A u \in Threads \ {t} : pc[u] = "idle"
  BY <1>1, OneRequest
<1>3. /\ pc'[t] = "kick" /\ deque'[t] = IF enters THEN <<s>> \o d ELSE d
      /\ \A u \in Threads \ {t} : pc'[u] = pc[u] /\ deque'[u] = deque[u]
      /\ pc' \in [Threads -> {"idle", "push", "kick", "check", "serve"}]
  BY <1>1 DEF IInv, TypeOK
<1>4. /\ <<s>> \o d \in Seq(Sessions) /\ Len(<<s>> \o d) = Len(d) + 1
      /\ (<<s>> \o d)[1] = s
      /\ \A i \in 1..Len(d) : (<<s>> \o d)[i + 1] = d[i]
      /\ ToSet(<<s>> \o d) = ToSet(d) \cup {s}
      /\ enters => IsInjective(<<s>> \o d)
  BY <1>2, Pushed, StillInjective
<1>5. /\ View(t)' = View(t)
      /\ s' = s
  BY <1>1 DEF View, memory, request
<1> HIDE DEF enters
<1>6. TypeOK'
  <2>1. deque' \in [Threads -> Seq(Sessions)]
    BY <1>1, <1>2, <1>4 DEF IInv, TypeOK
  <2>2. since' \in [Sessions -> SUBSET Sessions]
    BY <1>1, <1>2 DEF IInv, TypeOK, Since
  <2>3. QED
    BY <1>1, <1>3, <2>1, <2>2 DEF IInv, TypeOK, settings, memory, store, request
<1>7. DequeWellFormed' /\ Lag' /\ WorkingLive'
  BY <1>1 DEF IInv, DequeWellFormed, Lag, WorkingLive, settings, memory, store
<1>8. Known'
  <2>1. IsInjective(deque'[t]) /\ \A x \in ToSet(deque'[t]) : redis[x] # "new"
    BY <1>1, <1>2, <1>3, <1>4 DEF IInv, Known
  <2>2. QED
    BY <1>1, <1>3, <2>1 DEF IInv, Known, memory, store, request
<1>9. Alone'
  BY <1>1, <1>3 DEF IInv, Alone, Quiet
<1>10. Covered'
  <2> SUFFICES ASSUME Quiet PROVE Covered'
    BY <1>1 DEF Covered, Quiet
  <2>1. working \subseteq ToSet(cache) /\ d = cache
    BY <1>1 DEF IInv, Covered
  <2>2. working \subseteq ToSet(deque'[t]) /\ (View(t) = "live" => s \in ToSet(deque'[t]))
    BY <1>3, <1>4, <2>1 DEF enters
  <2>3. \A u \in Threads : pc'[u] # "idle" => u = t
    BY <1>2, <1>3
  <2>4. QED
    BY <1>1, <1>3, <1>5, <2>1, <2>2, <2>3 DEF Covered, store
<1>11. InOrder'
  <2> SUFFICES ASSUME Quiet PROVE InOrder'
    BY <1>1 DEF InOrder, Quiet
  <2>1. d = cache /\ Ordered(cache)
    BY <1>1 DEF IInv, Covered, InOrder
  <2>2. CASE ~enters
    BY <1>1, <1>3, <2>1, <2>2 DEF IInv, InOrder, Ordered
  <2>3. CASE enters
    <3>1. since' = [u \in Sessions |-> IF u = s THEN {} ELSE since[u] \cup {s}] /\ s \notin ToSet(d)
      BY <1>1, <2>3 DEF enters, Since
    <3>2. \A x \in Sessions : x # s => since[x] \subseteq since'[x] /\ s \in since'[x]
      BY <3>1
    <3>3. DOMAIN d = 1..Len(d) /\ Len(d) \in Nat /\ \A i \in 1..Len(d) : d[i] \in Sessions /\ d[i] # s
      BY <1>2, <3>1, Elements
    <3>4. \A i, j \in 1..Len(d) : i < j => d[i] \in since'[d[j]]
      BY <2>1, <3>2, <3>3 DEF Ordered
    <3>5. Ordered(cache)'
      BY <1>1, <2>1, <3>3, <3>4 DEF Ordered
    <3> DEFINE e == <<s>> \o d
    <3>6. DOMAIN e = 1..(Len(d) + 1) /\ e[1] = s /\ \A i \in 1..Len(d) : e[i + 1] = d[i]
      BY <1>4, Elements
    <3> HIDE DEF e
    <3>7. \A i, j \in DOMAIN e : i < j => e[i] \in since'[e[j]]
      <4>1. SUFFICES ASSUME NEW i \in 1..(Len(d) + 1), NEW j \in 1..(Len(d) + 1), i < j
                     PROVE  e[i] \in since'[e[j]]
        BY <3>6
      <4>2. j - 1 \in 1..Len(d) /\ (j - 1) + 1 = j
        BY <3>3, <4>1
      <4>3. e[j] = d[j - 1] /\ d[j - 1] \in Sessions /\ d[j - 1] # s
        BY <3>3, <3>6, <4>2
      <4>4. CASE i = 1
        BY <3>2, <3>6, <4>3, <4>4
      <4>5. CASE i # 1
        <5>1. i - 1 \in 1..Len(d) /\ (i - 1) + 1 = i /\ i - 1 < j - 1
          BY <3>3, <4>1, <4>5
        <5>2. e[i] = d[i - 1]
          BY <3>6, <5>1
        <5>3. QED
          BY <3>4, <4>2, <4>3, <5>1, <5>2
      <4>6. QED
        BY <4>4, <4>5
    <3>8. deque'[t] = e
      BY <1>3, <2>3 DEF e
    <3>9. Ordered(deque[t])'
      BY <3>7, <3>8 DEF Ordered
    <3>10. ASSUME NEW u \in Threads \ {t} PROVE Ordered(deque[u])'
      <4>1. deque'[u] = <<>>
        BY <1>2, <1>3 DEF IInv, Known
      <4>2. QED
        BY <4>1 DEF Ordered
    <3>11. QED
      BY <1>1, <3>5, <3>9, <3>10 DEF InOrder
  <2>4. QED
    BY <2>2, <2>3
<1>12. QED
  BY <1>6, <1>7, <1>8, <1>9, <1>10, <1>11 DEF IInv

(* A request whose session is deleted ends, and its object leaves the       *)
(* node's memory in the state c.                                            *)
LEMMA LeaveStep ==
  ASSUME IInv, NEW t \in Threads, pc[t] # "idle",
         NEW c \in {"none", "live", "kicked", "stopped"},
         c = "none" => copy[node[t]][session[t]] = "none",
         Delete(node[t], session[t]),
         Finish(t, Left(node[t], session[t], c)),
         UNCHANGED <<settings, cache, since, disturbed>>
  PROVE  IInv'
<1> DEFINE n == node[t]
           s == session[t]
<1>1. n \in Nodes /\ s \in Sessions /\ (Quiet => \A u \in Threads \ {t} : pc[u] = "idle")
  BY OneRequest
<1>2. /\ redis' \in [Sessions -> {"new", "live", "kicked", "gone"}]
      /\ outAge' \in [Sessions -> 0..(TimeToLive + 1)]
      /\ copy' \in [Nodes -> [Sessions -> {"none", "live", "kicked"}]]
      /\ age' \in [Nodes -> [Sessions -> 0..(TimeToLive + 1)]]
      /\ \A x \in Sessions : redis[x] # "new" => redis'[x] # "new"
      /\ \A m \in Nodes, x \in Sessions :
           copy'[m][x] = IF m = n /\ x = s THEN "none" ELSE copy[m][x]
      /\ working' = working \ {s}
      /\ Lag' /\ WorkingLive'
  BY <1>1, Deleted
<1>3. /\ pc'[t] = "idle" /\ mine'[t] = "none" /\ deque'[t] = <<>>
      /\ \A u \in Threads \ {t} :
           /\ pc'[u] = pc[u] /\ node'[u] = node[u] /\ session'[u] = session[u] /\ deque'[u] = deque[u]
           /\ mine'[u] = IF mine[u] = "cached" /\ node[u] = n /\ session[u] = s THEN c ELSE mine[u]
  BY DEF Finish, Left, Goto, IInv, TypeOK
<1>4. TypeOK'
  <2>1. /\ pc' \in [Threads -> {"idle", "push", "kick", "check", "serve"}]
        /\ node' \in [Threads -> Nodes \cup {NoNode}]
        /\ session' \in [Threads -> Sessions \cup {NoSession}]
        /\ deque' \in [Threads -> Seq(Sessions)]
    BY EmptySeq DEF Finish, Goto, IInv, TypeOK
  <2>2. mine' \in [Threads -> {"none", "cached", "live", "kicked", "stopped"}]
    BY DEF Finish, Left, IInv, TypeOK
  <2>3. working' \subseteq Sessions
    BY <1>2 DEF IInv, TypeOK
  <2>4. QED
    BY <1>2, <2>1, <2>2, <2>3 DEF IInv, TypeOK, settings
<1> HIDE DEF n, s
<1>5. DequeWellFormed'
  <2>1. ToSet(cache) \subseteq Sessions
    BY Elements DEF IInv, TypeOK
  <2>2. QED
    BY <1>2, <2>1 DEF IInv, DequeWellFormed, settings
<1>6. Known'
  <2>1. ASSUME NEW m \in Nodes, NEW x \in Sessions, copy'[m][x] # "none"
        PROVE  redis'[x] # "new"
    <3>1. copy[m][x] # "none"
      BY <1>2, <2>1
    <3>2. redis[x] # "new"
      BY <3>1 DEF IInv, Known
    <3>3. QED
      BY <1>2, <3>2
  <2>2. ASSUME NEW u \in Threads, pc'[u] # "idle"
        PROVE  /\ node'[u] \in Nodes /\ session'[u] \in Sessions
               /\ redis'[session'[u]] # "new"
               /\ mine'[u] # "none"
               /\ mine'[u] = "cached" => copy'[node'[u]][session'[u]] # "none"
    <3>1. u # t /\ pc[u] # "idle" /\ node'[u] = node[u] /\ session'[u] = session[u]
      BY <1>3, <2>2
    <3>2. /\ node[u] \in Nodes /\ session[u] \in Sessions /\ redis[session[u]] # "new" /\ mine[u] # "none"
          /\ mine[u] = "cached" => copy[node[u]][session[u]] # "none"
      BY <3>1 DEF IInv, Known
    <3>3. mine'[u] = IF mine[u] = "cached" /\ node[u] = n /\ session[u] = s THEN c ELSE mine[u]
      BY <1>3, <3>1
    <3>4. CASE mine[u] = "cached" /\ node[u] = n /\ session[u] = s
      <4>1. c # "none" /\ mine'[u] = c /\ c # "cached"
        BY <3>2, <3>3, <3>4 DEF n, s
      <4>2. QED
        BY <1>2, <3>1, <3>2, <4>1
    <3>5. CASE ~(mine[u] = "cached" /\ node[u] = n /\ session[u] = s)
      BY <1>2, <3>1, <3>2, <3>3, <3>5
    <3>6. QED
      BY <3>4, <3>5
  <2>3. \A u \in Threads : IsInjective(deque'[u]) /\ \A x \in ToSet(deque'[u]) : redis'[x] # "new"
    <3>1. \A u \in Threads : ToSet(deque[u]) \subseteq Sessions
      BY Elements DEF IInv, TypeOK
    <3>2. IsInjective(<<>>) /\ ToSet(<<>>) = {}
      BY DEF IsInjective, ToSet
    <3>3. \A u \in Threads : IsInjective(deque[u]) /\ \A x \in ToSet(deque[u]) : redis[x] # "new"
      BY DEF IInv, Known
    <3>4. \A u \in Threads : \A x \in ToSet(deque[u]) : redis'[x] # "new"
      BY <1>2, <3>1, <3>3
    <3>5. QED
      BY <1>3, <3>2, <3>3, <3>4
  <2>4. \A u \in Threads : pc'[u] = "idle" => mine'[u] = "none" /\ deque'[u] = <<>>
    BY <1>3 DEF IInv, Known
  <2>5. QED
    BY <2>1, <2>2, <2>3, <2>4 DEF Known
<1>7. Quiet' => Quiet /\ \A u \in Threads : pc'[u] = "idle" /\ deque'[u] = <<>>
  BY <1>1, <1>3 DEF Quiet, IInv, Known
<1>8. Alone' /\ Covered'
  BY <1>2, <1>7 DEF IInv, Alone, Covered
<1>9. InOrder'
  BY <1>7 DEF IInv, InOrder, Ordered
<1>10. QED
  BY <1>2, <1>4, <1>5, <1>6, <1>8, <1>9 DEF IInv

(* The session is found stopped: in the filter or behind it.                *)
LEMMA InvalidStep ==
  ASSUME IInv, NEW t \in Threads, pc[t] # "idle", Invalid(t),
         UNCHANGED <<settings, cache, since, disturbed>>
  PROVE  IInv'
<1>1. copy[node[t]][session[t]] \in {"none", "live", "kicked"}
  BY OneRequest DEF IInv, TypeOK
<1>2. Delete(node[t], session[t]) /\ Finish(t, Left(node[t], session[t], copy[node[t]][session[t]]))
  BY DEF Invalid
<1>3. QED
  BY <1>1, <1>2, LeaveStep

(* The test of the kickout attribute logs a session out.                    *)
LEMMA KickedOutStep ==
  ASSUME IInv, NEW t \in Threads, KickedOut(t)
  PROVE  IInv'
<1> DEFINE c == IF mine[t] = "cached" THEN "stopped" ELSE copy[node[t]][session[t]]
<1>1. pc[t] # "idle" /\ Delete(node[t], session[t]) /\ Finish(t, Left(node[t], session[t], c))
      /\ UNCHANGED <<settings, cache, since, disturbed>>
  BY DEF KickedOut
<1>2. copy[node[t]][session[t]] \in {"none", "live", "kicked"}
  BY <1>1, OneRequest DEF IInv, TypeOK
<1>3. c \in {"none", "live", "kicked", "stopped"} /\ (c = "none" => copy[node[t]][session[t]] = "none")
  BY <1>2
<1> HIDE DEF c
<1>4. QED
  BY <1>1, <1>3, LeaveStep

(* What one turn of the loop takes from the copy.                           *)
LEMMA OneTurn ==
  ASSUME IInv, NEW t \in Threads, Kick(t)
  PROVE  LET d == deque[t]
             e == deque'[t]
             v == Victim(d)
             k == IF kickoutAfter THEN 1 ELSE 0
         IN /\ d \in Seq(Sessions) /\ e \in Seq(Sessions)
            /\ Len(e) = Len(d) - 1 /\ Len(d) > maxSession /\ maxSession \in Nat
            /\ \A i \in 1..Len(e) : e[i] = d[i + k]
            /\ v = d[IF kickoutAfter THEN 1 ELSE Len(d)]
            /\ v \in ToSet(d) /\ v \in Sessions
            /\ ToSet(d) = ToSet(e) \cup {v}
            /\ IsInjective(e) /\ v \notin ToSet(e)
            /\ \A u \in Threads : u # t => deque'[u] = deque[u]
<1> DEFINE d == deque[t]
           e == Remaining(d)
           v == Victim(d)
           k == IF kickoutAfter THEN 1 ELSE 0
<1>1. /\ d \in Seq(Sessions) /\ maxSession \in Nat /\ Len(d) \in Nat
      /\ Len(d) > maxSession /\ IsInjective(d)
  BY KickoutAssumption, Elements DEF IInv, TypeOK, Known, Kick, TooMany
<1>2. Len(d) > 0
  BY <1>1
<1>3. /\ k \in {0, 1}
      /\ \/ e = Front(d) /\ k = 0 /\ v = Last(d)
         \/ e = Tail(d) /\ k = 1 /\ v = Head(d)
  <2>1. CASE kickoutAfter
    BY <2>1 DEF Remaining, Victim
  <2>2. CASE ~kickoutAfter
    BY <2>2 DEF Remaining, Victim
  <2>3. QED
    BY <2>1, <2>2
<1>4. v = d[IF kickoutAfter THEN 1 ELSE Len(d)]
  BY DEF Victim, Last
<1> HIDE DEF e, v, k
<1>5. /\ e \in Seq(Sessions) /\ Len(e) = Len(d) - 1
      /\ \A i \in 1..Len(e) : e[i] = d[i + k]
      /\ v \in ToSet(d)
      /\ ToSet(d) = ToSet(e) \cup {v}
      /\ IsInjective(e) /\ v \notin ToSet(e)
  <2>1. CASE e = Front(d) /\ k = 0 /\ v = Last(d)
    BY <1>1, <1>2, <1>3, <2>1, Shortened
  <2>2. CASE e = Tail(d) /\ k = 1 /\ v = Head(d)
    <3>1. Len(Tail(d)) = Len(d) - 1 /\ Tail(d) \in Seq(Sessions)
      BY <1>1, <1>2
    <3>2. /\ \A i \in 1..Len(Tail(d)) : Tail(d)[i] = d[i + 1]
          /\ Head(d) \in ToSet(d)
          /\ ToSet(d) = ToSet(Tail(d)) \cup {Head(d)}
          /\ IsInjective(Tail(d)) /\ Head(d) \notin ToSet(Tail(d))
      BY <1>1, <1>2, Shortened
    <3>3. QED
      BY <2>2, <3>1, <3>2
  <2>3. QED
    BY <1>3, <2>1, <2>2
<1>6. deque'[t] = e /\ \A u \in Threads : u # t => deque'[u] = deque[u]
  BY DEF Kick, IInv, TypeOK, e
<1>7. v \in Sessions
  BY <1>1, <1>5, Elements
<1>8. QED
  BY <1>1, <1>4, <1>5, <1>6, <1>7 DEF k, v

(* A round of the loop takes an entry off the end that kickoutAfter         *)
(* chooses; its session does not work afterwards, found or not.             *)
LEMMA KickStep ==
  ASSUME IInv, NEW t \in Threads, Kick(t)
  PROVE  IInv'
<1> DEFINE d == deque[t]
           e == deque'[t]
           v == Victim(d)
           k == IF kickoutAfter THEN 1 ELSE 0
           n == node[t]
<1>1. /\ d \in Seq(Sessions) /\ e \in Seq(Sessions)
      /\ Len(e) = Len(d) - 1 /\ \A i \in 1..Len(e) : e[i] = d[i + k]
      /\ v \in Sessions
      /\ ToSet(d) = ToSet(e) \cup {v}
      /\ IsInjective(e) /\ v \notin ToSet(e)
      /\ \A u \in Threads : u # t => deque'[u] = deque[u]
  BY OneTurn
<1>2. /\ pc[t] = "kick"
      /\ UNCHANGED <<settings, cache, age, pc, request, mine, since, disturbed>>
      /\ \/ /\ Found(n, v)
            /\ copy' = [copy EXCEPT ![n][v] = "kicked"]
            /\ Save(v, "kicked")
            /\ working' = working \ {v}
         \/ ~Found(n, v) /\ UNCHANGED <<copy, store>>
  BY DEF Kick
<1> HIDE DEF v
<1>3. /\ n \in Nodes /\ session[t] \in Sessions /\ redis[session[t]] # "new"
      /\ Quiet => mine[t] = "cached"
      /\ Quiet => \A u \in Threads \ {t} : pc[u] = "idle"
  BY <1>2, OneRequest
<1> HIDE DEF n
<1>4. /\ redis' \in [Sessions -> {"new", "live", "kicked", "gone"}]
      /\ outAge' \in [Sessions -> 0..(TimeToLive + 1)]
      /\ \A x \in Sessions : redis[x] # "new" => redis'[x] # "new"
      /\ \A x \in Sessions : redis'[x] = "live" <=> redis[x] = "live" /\ ~(x = v /\ Found(n, v))
  <2>1. CASE Found(n, v)
    BY <1>1, <1>2, <2>1, Saved
  <2>2. CASE ~Found(n, v)
    BY <1>2, <2>2 DEF IInv, TypeOK, store
  <2>3. QED
    BY <2>1, <2>2
<1>5. /\ copy' \in [Nodes -> [Sessions -> {"none", "live", "kicked"}]]
      /\ \A m \in Nodes, x \in Sessions :
           copy'[m][x] = IF Found(n, v) /\ m = n /\ x = v THEN "kicked" ELSE copy[m][x]
  <2>1. copy \in [Nodes -> [Sessions -> {"none", "live", "kicked"}]]
    BY DEF IInv, TypeOK
  <2>2. CASE Found(n, v)
    <3>1. copy' = [copy EXCEPT ![n][v] = "kicked"]
      BY <1>2, <2>2
    <3>2. QED
      BY <1>1, <1>3, <2>1, <2>2, <3>1
  <2>3. CASE ~Found(n, v)
    BY <1>2, <2>1, <2>3
  <2>4. QED
    BY <2>2, <2>3
<1>6. working' = working \ {v}
  BY <1>2 DEF Found, IInv, WorkingLive, store
<1>7. Lag'
  <2>1. CASE Found(n, v)
    BY <1>1, <1>2, <1>5, <2>1, SavedLag
  <2>2. CASE ~Found(n, v)
    BY <1>2, <2>2 DEF IInv, Lag, store
  <2>3. QED
    BY <2>1, <2>2
<1>8. WorkingLive'
  <2>1. working \subseteq Sessions
    BY DEF IInv, TypeOK
  <2>2. QED
    BY <1>4, <1>6, <2>1 DEF IInv, WorkingLive
<1>9. TypeOK'
  <2>1. deque' \in [Threads -> Seq(Sessions)]
    BY <1>1 DEF Kick, IInv, TypeOK
  <2>2. QED
    BY <1>2, <1>4, <1>5, <1>6, <2>1 DEF IInv, TypeOK, settings, request
<1>10. DequeWellFormed'
  <2>1. ToSet(cache) \subseteq Sessions
    BY Elements DEF IInv, TypeOK
  <2>2. QED
    BY <1>2, <1>4, <2>1 DEF IInv, DequeWellFormed, settings
<1>11. Known'
  <2>1. \A m \in Nodes, x \in Sessions : copy'[m][x] # "none" => redis'[x] # "new"
    <3>1. Found(n, v) => redis[v] # "new"
      BY <1>1, <1>3 DEF Found, IInv, Known
    <3>2. QED
      BY <1>4, <1>5, <3>1 DEF IInv, Known
  <2>2. \A u \in Threads : ToSet(deque[u]) \subseteq Sessions
    BY Elements DEF IInv, TypeOK
  <2>3. \A u \in Threads : IsInjective(deque'[u]) /\ \A x \in ToSet(deque'[u]) : redis'[x] # "new"
    BY <1>1, <1>4, <2>2 DEF IInv, Known
  <2>4. ASSUME NEW u \in Threads, pc'[u] # "idle"
        PROVE  /\ node'[u] \in Nodes /\ session'[u] \in Sessions
               /\ redis'[session'[u]] # "new"
               /\ mine'[u] # "none"
               /\ mine'[u] = "cached" => copy'[node'[u]][session'[u]] # "none"
    <3>1. /\ pc[u] # "idle" /\ node'[u] = node[u] /\ session'[u] = session[u] /\ mine'[u] = mine[u]
      BY <1>2, <2>4 DEF request
    <3>2. QED
      BY <1>4, <1>5, <3>1 DEF IInv, Known
  <2>5. \A u \in Threads : pc'[u] = "idle" => mine'[u] = "none" /\ deque'[u] = <<>>
    BY <1>1, <1>2 DEF IInv, Known
  <2>6. QED
    BY <2>1, <2>3, <2>4, <2>5 DEF Known
<1>12. Alone'
  BY <1>2 DEF IInv, Alone, Quiet
<1>13. Covered'
  <2> SUFFICES ASSUME Quiet PROVE Covered'
    BY <1>2 DEF Covered, Quiet
  <2>1. working \subseteq ToSet(cache) /\ working \subseteq ToSet(d)
    BY <1>2 DEF IInv, Covered
  <2>2. working' \subseteq ToSet(cache) /\ working' \subseteq ToSet(e)
    BY <1>1, <1>6, <2>1
  <2>3. View(t)' = copy'[n][session[t]] /\ View(t) = copy[n][session[t]]
    BY <1>2, <1>3 DEF View, request, n
  <2>4. View(t)' = "live" => session[t] \in ToSet(e)
    <3>1. SUFFICES ASSUME copy'[n][session[t]] = "live" PROVE session[t] \in ToSet(e)
      BY <2>3
    <3>2. copy[n][session[t]] = "live" /\ (session[t] = v => ~Found(n, v))
      BY <1>3, <1>5, <3>1
    <3>3. session[t] # v
      BY <3>2 DEF Found
    <3>4. session[t] \in ToSet(d)
      BY <1>2, <2>3, <3>2 DEF IInv, Covered
    <3>5. QED
      BY <1>1, <3>3, <3>4
  <2>5. \A u \in Threads : pc'[u] # "idle" => u = t /\ pc'[u] = "kick"
    BY <1>2, <1>3
  <2>6. session'[t] = session[t] /\ cache' = cache
    BY <1>2 DEF request
  <2>7. QED
    BY <2>2, <2>4, <2>5, <2>6 DEF Covered
<1>14. InOrder'
  <2> SUFFICES ASSUME Quiet PROVE InOrder'
    BY <1>2 DEF InOrder, Quiet
  <2>1. Ordered(cache)' /\ Ordered(d) /\ \A u \in Threads \ {t} : Ordered(deque[u])'
    BY <1>1, <1>2 DEF IInv, InOrder, Ordered
  <2>2. \A i \in DOMAIN e : i \in 1..Len(e) /\ i + k \in DOMAIN d
    BY <1>1, Elements
  <2>3. \A i, j \in DOMAIN e : i < j => e[i] \in since[e[j]]
    <3>1. SUFFICES ASSUME NEW i \in DOMAIN e, NEW j \in DOMAIN e, i < j PROVE e[i] \in since[e[j]]
      OBVIOUS
    <3>2. i + k < j + k /\ i + k \in DOMAIN d /\ j + k \in DOMAIN d
      BY <2>2, <3>1
    <3>3. e[i] = d[i + k] /\ e[j] = d[j + k]
      BY <1>1, <2>2
    <3>4. QED
      BY <2>1, <3>2, <3>3 DEF Ordered
  <2>4. since' = since
    BY <1>2
  <2>5. Ordered(deque[t])'
    BY <2>3, <2>4 DEF Ordered
  <2>6. QED
    BY <2>1, <2>5 DEF InOrder
<1>15. QED
  BY <1>7, <1>8, <1>9, <1>10, <1>11, <1>12, <1>13, <1>14 DEF IInv

(* The copy becomes the deque, whatever that has become meanwhile.          *)
LEMMA PutDequeStep ==
  ASSUME IInv, NEW t \in Threads, PutDeque(t)
  PROVE  IInv'
<1> DEFINE d == deque[t]
<1>1. /\ pc[t] = "kick" /\ ~TooMany(d) /\ cache' = d
      /\ UNCHANGED <<settings, memory, store, request, mine, since, disturbed>>
  BY DEF PutDeque
<1>2. /\ pc'[t] = "check" /\ deque'[t] = <<>>
      /\ \A u \in Threads \ {t} : pc'[u] = pc[u] /\ deque'[u] = deque[u]
      /\ pc' \in [Threads -> {"idle", "push", "kick", "check", "serve"}]
      /\ deque' \in [Threads -> Seq(Sessions)]
  BY EmptySeq DEF PutDeque, Goto, IInv, TypeOK
<1>3. /\ d \in Seq(Sessions) /\ IsInjective(d) /\ \A x \in ToSet(d) : redis[x] # "new"
      /\ Quiet => \A u \in Threads \ {t} : pc[u] = "idle"
  BY <1>1, OneRequest DEF IInv, Known
<1>4. Len(d) \in Nat /\ maxSession \in Nat /\ Len(d) <= maxSession
  BY <1>1, <1>3, KickoutAssumption DEF TooMany, IInv, TypeOK
<1>5. View(t)' = View(t) /\ session' = session
  BY <1>1 DEF View, memory, request
<1>6. TypeOK'
  BY <1>1, <1>2, <1>3 DEF IInv, TypeOK, settings, memory, store, request
<1>7. DequeWellFormed'
  BY <1>1, <1>3, <1>4 DEF DequeWellFormed, settings, store
<1>8. Lag' /\ WorkingLive'
  BY <1>1 DEF IInv, Lag, WorkingLive, memory, store
<1>9. Known'
  <2>1. IsInjective(<<>>) /\ ToSet(<<>>) = {}
    BY DEF IsInjective, ToSet
  <2>2. QED
    BY <1>1, <1>2, <2>1 DEF IInv, Known, memory, store, request
<1>10. Alone'
  BY <1>1, <1>2 DEF IInv, Alone, Quiet
<1>11. Covered'
  <2> SUFFICES ASSUME Quiet PROVE Covered'
    BY <1>1 DEF Covered, Quiet
  <2>1. working \subseteq ToSet(d) /\ (View(t) = "live" => session[t] \in ToSet(d))
    BY <1>1 DEF IInv, Covered
  <2>2. \A u \in Threads : pc'[u] # "idle" => u = t /\ pc'[u] = "check"
    BY <1>2, <1>3
  <2>3. QED
    BY <1>1, <1>5, <2>1, <2>2 DEF Covered, store
<1>12. InOrder'
  <2> SUFFICES ASSUME Quiet PROVE InOrder'
    BY <1>1 DEF InOrder, Quiet
  <2>1. Ordered(d) /\ \A u \in Threads : Ordered(deque[u])
    BY DEF IInv, InOrder
  <2>2. Ordered(cache)' /\ \A u \in Threads \ {t} : Ordered(deque[u])'
    BY <1>1, <1>2, <2>1 DEF Ordered
  <2>3. Ordered(deque[t])'
    BY <1>2 DEF Ordered
  <2>4. QED
    BY <2>2, <2>3 DEF InOrder
<1>13. QED
  BY <1>6, <1>7, <1>8, <1>9, <1>10, <1>11, <1>12 DEF IInv

(* A session that is let through is in the deque.                           *)
LEMMA PassStep ==
  ASSUME IInv, NEW t \in Threads, Pass(t)
  PROVE  IInv'
<1>1. /\ pc[t] = "check" /\ View(t) = "live"
      /\ working' = working \cup {s \in {session[t]} : redis[s] = "live"}
      /\ UNCHANGED <<settings, cache, memory, redis, outAge, request, mine, deque, since, disturbed>>
  BY DEF Pass
<1>2. /\ pc'[t] = "serve" /\ \A u \in Threads \ {t} : pc'[u] = pc[u]
      /\ pc' \in [Threads -> {"idle", "push", "kick", "check", "serve"}]
  BY DEF Pass, Goto, IInv, TypeOK
<1>3. session[t] \in Sessions /\ (Quiet => \A u \in Threads \ {t} : pc[u] = "idle")
  BY <1>1, OneRequest
<1>4. View(t)' = View(t) /\ session' = session
  BY <1>1 DEF View, memory, request
<1>5. TypeOK'
  BY <1>1, <1>2, <1>3 DEF IInv, TypeOK, settings, memory, request
<1>6. DequeWellFormed' /\ Lag' /\ WorkingLive'
  BY <1>1 DEF IInv, DequeWellFormed, Lag, WorkingLive, settings, memory
<1>7. Known'
  BY <1>1, <1>2 DEF IInv, Known, memory, request
<1>8. Alone'
  BY <1>1, <1>2 DEF IInv, Alone, Quiet
<1>9. Covered'
  <2> SUFFICES ASSUME Quiet PROVE Covered'
    BY <1>1 DEF Covered, Quiet
  <2>1. working \subseteq ToSet(cache) /\ session[t] \in ToSet(cache)
    BY <1>1 DEF IInv, Covered
  <2>2. \A u \in Threads : pc'[u] # "idle" => u = t /\ pc'[u] = "serve"
    BY <1>2, <1>3
  <2>3. QED
    BY <1>1, <1>4, <2>1, <2>2 DEF Covered
<1>10. InOrder'
  BY <1>1 DEF IInv, InOrder, Quiet, Ordered
<1>11. QED
  BY <1>5, <1>6, <1>7, <1>8, <1>9, <1>10 DEF IInv

(* Whatever a stale node writes back: its session is in the deque.          *)
LEMMA WriteStep ==
  ASSUME IInv, NEW t \in Threads, Write(t)
  PROVE  IInv'
<1> DEFINE s == session[t]
<1>1. /\ pc[t] = "serve" /\ Save(s, View(t))
      /\ working' = IF View(t) = "live" THEN working \cup {s} ELSE working \ {s}
      /\ UNCHANGED <<settings, cache, memory, pc, request, mine, deque, since, disturbed>>
  BY DEF Write
<1>2. /\ s \in Sessions /\ View(t) \in {"live", "kicked"}
      /\ Quiet => \A u \in Threads \ {t} : pc[u] = "idle"
  BY <1>1, OneRequest DEF Write
<1>3. /\ \A x \in Sessions : redis'[x] = IF x = s THEN View(t) ELSE redis[x]
      /\ redis' \in [Sessions -> {"new", "live", "kicked", "gone"}]
      /\ outAge' \in [Sessions -> 0..(TimeToLive + 1)]
      /\ \A x \in Sessions : redis[x] # "new" => redis'[x] # "new"
  BY <1>1, <1>2, Saved
<1>4. Lag'
  BY <1>1, <1>2, SavedLag DEF memory
<1>5. TypeOK'
  <2>1. working' \subseteq Sessions
    BY <1>1, <1>2 DEF IInv, TypeOK
  <2>2. QED
    BY <1>1, <1>3, <2>1 DEF IInv, TypeOK, settings, memory, request
<1>6. WorkingLive'
  BY <1>1, <1>2, <1>3 DEF IInv, WorkingLive, TypeOK
<1>7. DequeWellFormed' /\ Known'
  <2>1. ToSet(cache) \subseteq Sessions /\ \A u \in Threads : ToSet(deque[u]) \subseteq Sessions
    BY Elements DEF IInv, TypeOK
  <2>2. DequeWellFormed'
    BY <1>1, <1>3, <2>1 DEF IInv, DequeWellFormed, settings
  <2>3. Known'
    BY <1>1, <1>3, <2>1 DEF IInv, Known, memory, request
  <2>4. QED
    BY <2>2, <2>3
<1>8. Alone' /\ InOrder'
  BY <1>1 DEF IInv, Alone, InOrder, Quiet, Ordered
<1>9. Covered'
  <2> SUFFICES ASSUME Quiet PROVE Covered'
    BY <1>1 DEF Covered, Quiet
  <2>1. working \subseteq ToSet(cache) /\ View(t) = "live" /\ s \in ToSet(cache)
    BY <1>1 DEF IInv, Covered
  <2>2. \A u \in Threads : pc'[u] # "idle" => u = t /\ pc'[u] = "serve"
    BY <1>1, <1>2
  <2>3. View(t)' = View(t) /\ s' = s
    BY <1>1 DEF View, memory, request
  <2>4. working' \subseteq ToSet(cache)
    BY <1>1, <2>1
  <2>5. QED
    BY <1>1, <2>1, <2>2, <2>3, <2>4 DEF Covered
<1>10. QED
  BY <1>4, <1>5, <1>6, <1>7, <1>8, <1>9 DEF IInv

(* A request ends.                                                         *)
LEMMA EndRequestStep ==
  ASSUME IInv, NEW t \in Threads, EndRequest(t)
  PROVE  IInv'
<1>1. UNCHANGED <<settings, cache, memory, store, since, disturbed>>
  BY DEF EndRequest
<1>2. /\ pc'[t] = "idle" /\ mine'[t] = "none" /\ deque'[t] = <<>>
      /\ \A u \in Threads \ {t} :
           pc'[u] = pc[u] /\ node'[u] = node[u] /\ session'[u] = session[u] /\ deque'[u] = deque[u] /\ mine'[u] = mine[u]
  BY DEF EndRequest, Finish, Goto, IInv, TypeOK
<1>3. /\ pc[t] # "idle"
      /\ Quiet => \A u \in Threads \ {t} : pc[u] = "idle"
  BY OneRequest DEF EndRequest
<1>4. TypeOK'
  <2>1. /\ pc' \in [Threads -> {"idle", "push", "kick", "check", "serve"}]
        /\ node' \in [Threads -> Nodes \cup {NoNode}]
        /\ session' \in [Threads -> Sessions \cup {NoSession}]
        /\ deque' \in [Threads -> Seq(Sessions)]
        /\ mine' \in [Threads -> {"none", "cached", "live", "kicked", "stopped"}]
    BY EmptySeq DEF EndRequest, Finish, Goto, IInv, TypeOK
  <2>2. QED
    BY <1>1, <2>1 DEF IInv, TypeOK, settings, memory, store
<1>5. DequeWellFormed' /\ Lag' /\ WorkingLive'
  BY <1>1 DEF IInv, DequeWellFormed, Lag, WorkingLive, settings, memory, store
<1>6. Known'
  <2>1. IsInjective(<<>>) /\ ToSet(<<>>) = {}
    BY DEF IsInjective, ToSet
  <2>2. QED
    BY <1>1, <1>2, <2>1 DEF IInv, Known, memory, store
<1>7. Quiet' => Quiet /\ \A u \in Threads : pc'[u] = "idle" /\ deque'[u] = <<>>
  BY <1>1, <1>2, <1>3 DEF Quiet, IInv, Known
<1>8. Alone' /\ Covered' /\ InOrder'
  BY <1>1, <1>7 DEF IInv, Alone, Covered, InOrder, Ordered, store
<1>9. QED
  BY <1>4, <1>5, <1>6, <1>8 DEF IInv

(* A tick of the clock: copies run out, and if a request works on one, that *)
(* is a disturbance.                                                        *)
LEMMA TickStep ==
  ASSUME IInv, Tick
  PROVE  IInv'
<1> DEFINE lapsed == {t \in Threads : mine[t] = "cached" /\ RunsOut(node[t], session[t])}
<1>1. /\ UNCHANGED <<settings, cache, redis, working, pc, request, deque, since>>
      /\ copy' = [n \in Nodes |-> [s \in Sessions |-> IF RunsOut(n, s) THEN "none" ELSE copy[n][s]]]
      /\ age' = [n \in Nodes |-> [s \in Sessions |->
                   IF copy'[n][s] = "none" THEN 0 ELSE Saturate(age[n][s])]]
      /\ outAge' = [s \in Sessions |-> IF redis[s] \in Out THEN Saturate(outAge[s]) ELSE 0]
      /\ mine' = [t \in Threads |-> IF t \in lapsed THEN View(t) ELSE mine[t]]
      /\ disturbed' = (disturbed \/ lapsed # {})
  BY DEF Tick
<1>2. /\ copy \in [Nodes -> [Sessions -> {"none", "live", "kicked"}]]
      /\ age \in [Nodes -> [Sessions -> 0..(TimeToLive + 1)]]
      /\ outAge \in [Sessions -> 0..(TimeToLive + 1)] /\ TimeToLive \in Nat
  BY KickoutAssumption DEF IInv, TypeOK
<1>3. \A n \in Nodes, s \in Sessions :
        /\ copy'[n][s] = IF RunsOut(n, s) THEN "none" ELSE copy[n][s]
        /\ age'[n][s] = IF copy'[n][s] = "none" THEN 0 ELSE Saturate(age[n][s])
  BY <1>1
<1>4. ASSUME NEW n \in Nodes, NEW s \in Sessions
      PROVE  /\ copy'[n][s] \in {"none", "live", "kicked"}
             /\ copy'[n][s] # "none" => copy'[n][s] = copy[n][s] /\ age'[n][s] = age[n][s] + 1
             /\ age'[n][s] \in 0..(TimeToLive + 1) /\ age'[n][s] <= TimeToLive
  <2>1. age[n][s] \in 0..(TimeToLive + 1) /\ copy[n][s] \in {"none", "live", "kicked"}
    BY <1>2
  <2>2. CASE copy'[n][s] = "none"
    BY <1>2, <1>3, <2>2
  <2>3. CASE copy'[n][s] # "none"
    <3>1. copy'[n][s] = copy[n][s] /\ age'[n][s] = Saturate(age[n][s]) /\ ~(age[n][s] >= TimeToLive)
      BY <1>3, <2>3 DEF RunsOut
    <3>2. age'[n][s] = age[n][s] + 1 /\ age'[n][s] \in 0..(TimeToLive + 1) /\ age'[n][s] <= TimeToLive
      BY <1>2, <2>1, <3>1 DEF Saturate
    <3>3. QED
      BY <2>1, <3>1, <3>2
  <2>4. QED
    BY <2>2, <2>3
<1>5. /\ outAge' \in [Sessions -> 0..(TimeToLive + 1)]
      /\ \A s \in Sessions : redis[s] \notin Out => outAge'[s] = 0
      /\ \A s \in Sessions : redis[s] \in Out => outAge'[s] <= outAge[s] + 1
  BY <1>1, <1>2 DEF Saturate
<1>6. \A t \in lapsed : pc[t] # "idle" /\ View(t) \in {"live", "kicked"}
  <2>1. SUFFICES ASSUME NEW t \in Threads, mine[t] = "cached" PROVE pc[t] # "idle" /\ View(t) \in {"live", "kicked"}
    OBVIOUS
  <2>2. pc[t] # "idle"
    BY <2>1 DEF IInv, Known
  <2>3. copy[node[t]][session[t]] \in {"live", "kicked"}
    BY <1>2, <2>1, <2>2 DEF IInv, Known
  <2>4. QED
    BY <2>1, <2>2, <2>3 DEF View
<1>7. TypeOK'
  <2>1. copy' \in [Nodes -> [Sessions -> {"none", "live", "kicked"}]]
    BY <1>1, <1>3, <1>4
  <2>2. age' \in [Nodes -> [Sessions -> 0..(TimeToLive + 1)]]
    BY <1>1, <1>3, <1>4
  <2>3. mine' \in [Threads -> {"none", "cached", "live", "kicked", "stopped"}]
    <3>1. mine \in [Threads -> {"none", "cached", "live", "kicked", "stopped"}]
      BY DEF IInv, TypeOK
    <3> HIDE DEF lapsed
    <3>2. QED
      BY <1>1, <1>6, <3>1
  <2>4. disturbed' \in BOOLEAN
    BY <1>1
  <2>5. QED
    BY <1>1, <1>5, <2>1, <2>2, <2>3, <2>4 DEF IInv, TypeOK, settings, request
<1>8. DequeWellFormed' /\ WorkingLive'
  BY <1>1 DEF IInv, DequeWellFormed, WorkingLive, settings
<1>9. Lag'
  <2>1. ASSUME NEW n \in Nodes, NEW s \in Sessions, copy'[n][s] = "live", redis[s] \in Out
        PROVE  age'[n][s] >= outAge'[s]
    <3>1. copy[n][s] = "live" /\ age'[n][s] = age[n][s] + 1
      BY <1>4, <2>1
    <3>2. age[n][s] >= outAge[s]
      BY <2>1, <3>1 DEF IInv, Lag
    <3>3. age[n][s] \in Nat /\ outAge[s] \in Nat /\ outAge'[s] \in Nat /\ outAge'[s] <= outAge[s] + 1
      BY <1>2, <1>5, <2>1
    <3>4. QED
      BY <3>1, <3>2, <3>3
  <2>2. QED
    BY <1>1, <1>4, <1>5, <2>1 DEF Lag
<1>10. Known'
  <2>1. ASSUME NEW t \in Threads, pc[t] # "idle"
        PROVE  /\ node[t] \in Nodes /\ session[t] \in Sessions
               /\ redis[session[t]] # "new"
               /\ mine'[t] # "none"
               /\ mine'[t] = "cached" => copy'[node[t]][session[t]] # "none"
    <3>1. /\ node[t] \in Nodes /\ session[t] \in Sessions /\ redis[session[t]] # "new" /\ mine[t] # "none"
          /\ mine[t] = "cached" => copy[node[t]][session[t]] # "none"
      BY <2>1 DEF IInv, Known
    <3>2. CASE t \in lapsed
      <4>1. mine'[t] = View(t) /\ View(t) \in {"live", "kicked"}
        BY <1>1, <1>6, <3>2
      <4>2. QED
        BY <3>1, <4>1
    <3>3. CASE t \notin lapsed
      BY <1>1, <1>3, <3>1, <3>3
    <3>4. QED
      BY <3>2, <3>3
  <2>2. \A n \in Nodes, s \in Sessions : copy'[n][s] # "none" => redis[s] # "new"
    BY <1>4 DEF IInv, Known
  <2>3. \A t \in Threads : pc[t] = "idle" => mine'[t] = "none"
    BY <1>1, <1>6 DEF IInv, Known
  <2>4. QED
    BY <1>1, <2>1, <2>2, <2>3 DEF IInv, Known, request
<1>11. Quiet' => Quiet /\ lapsed = {}
  BY <1>1 DEF Quiet
<1>12. ASSUME Quiet', NEW t \in Threads, pc[t] # "idle" PROVE mine'[t] = "cached" /\ View(t)' = View(t)
  <2>1. mine[t] = "cached" /\ node[t] \in Nodes /\ session[t] \in Sessions
    BY <1>11, <1>12, OneRequest
  <2>2. mine'[t] = "cached" /\ ~RunsOut(node[t], session[t])
    BY <1>1, <1>11, <1>12, <2>1
  <2>3. copy'[node[t]][session[t]] = copy[node[t]][session[t]]
    BY <1>3, <2>1, <2>2
  <2>4. node' = node /\ session' = session
    BY <1>1 DEF request
  <2>5. QED
    BY <2>1, <2>2, <2>3, <2>4 DEF View
<1> HIDE DEF lapsed
<1>13. Alone'
  BY <1>1, <1>11, <1>12 DEF IInv, Alone
<1>14. Covered'
  BY <1>1, <1>11, <1>12 DEF IInv, Covered, request
<1>15. InOrder'
  BY <1>1, <1>11 DEF IInv, InOrder, Ordered
<1>16. QED
  BY <1>7, <1>8, <1>9, <1>10, <1>13, <1>14, <1>15 DEF IInv

(* All steps.                                                              *)
LEMMA IInvStep ==
  ASSUME IInv, [Next]_vars
  PROVE  IInv'
<1>1. ASSUME UNCHANGED vars PROVE IInv'
  <2> USE <1>1 DEF IInv, vars, settings, memory, store, request
  <2>1. TypeOK' /\ DequeWellFormed' /\ Known' /\ Lag' /\ WorkingLive'
    BY DEF TypeOK, DequeWellFormed, Known, Lag, WorkingLive
  <2>2. Alone' /\ Covered' /\ InOrder'
    BY DEF Alone, Covered, InOrder, Quiet, View, Ordered
  <2>3. QED
    BY <2>1, <2>2
<1>2. ASSUME NEW t \in Threads, PushThrows(t) \/ CheckThrows(t) \/ WriteThrows(t) PROVE IInv'
  <2>1. /\ pc[t] # "idle" /\ Invalid(t)
        /\ UNCHANGED <<settings, cache, since, disturbed>>
    BY <1>2 DEF PushThrows, CheckThrows, WriteThrows
  <2>2. QED
    BY <2>1, InvalidStep
<1>3. QED
  BY <1>1, <1>2, TickStep, LoginStep, ExpireStep, LogoutStep, GetDequeStep, PushStep, KickStep, PutDequeStep,
     PassStep, KickedOutStep, WriteStep, EndRequestStep
  DEF Next

(* The invariant holds always.                                             *)
LEMMA KickoutInvariant == Spec => []IInv
<1>1. QED
  BY InitIInv, IInvStep, PTL DEF Spec

-----------------------------------------------------------------------------
(* The filter's state keeps its types: no session id in a deque is null.    *)
THEOREM KickoutType == Spec => []TypeOK
<1>1. IInv => TypeOK
  BY DEF IInv
<1>2. QED
  BY <1>1, KickoutInvariant, PTL

(* However requests overlap, the deque that onAccessDenied puts into the    *)
(* cache has no session twice, at most maxSession of them, and only         *)
(* sessions that somebody has logged in to.                                 *)
THEOREM KickoutDequeWellFormed == Spec => []DequeWellFormed
<1>1. IInv => DequeWellFormed
  BY DEF IInv
<1>2. QED
  BY <1>1, KickoutInvariant, PTL

(* As long as no two requests of the account have overlapped and no copy    *)
(* has run out under one, at most maxSession of the sessions that           *)
(* onAccessDenied let through are neither kicked out nor gone, on any       *)
(* number of nodes with copies as old as the time to live.                  *)
THEOREM KickoutAtMostMaxSession == Spec => []AtMostMaxSession
<1>1. IInv => AtMostMaxSession
  <2> SUFFICES ASSUME IInv, Quiet
               PROVE  Cardinality(working) <= maxSession
    BY DEF AtMostMaxSession, Quiet
  <2>1. cache \in Seq(Sessions) /\ Len(cache) \in Nat /\ Len(cache) <= maxSession /\ maxSession \in Nat
    BY KickoutAssumption DEF IInv, TypeOK, DequeWellFormed
  <2>2. IsFiniteSet(ToSet(cache)) /\ Cardinality(ToSet(cache)) <= Len(cache)
    BY <2>1, ElementCount
  <2>3. working \subseteq ToSet(cache)
    BY DEF IInv, Covered
  <2>4. Cardinality(working) <= Cardinality(ToSet(cache)) /\ IsFiniteSet(working)
    BY <2>2, <2>3, FS_Subset
  <2>5. Cardinality(working) \in Nat /\ Cardinality(ToSet(cache)) \in Nat
    BY <2>2, <2>4, FS_CardinalityType
  <2>6. QED
    BY <2>1, <2>2, <2>4, <2>5
<1>2. QED
  BY <1>1, KickoutInvariant, PTL

(* Only a turn of the loop kicks a live session out: its victim.            *)
LEMMA KickedByKick ==
  ASSUME IInv, [Next]_vars, NEW s \in Sessions, Kicked(s), Quiet
  PROVE  \E t \in Threads : Kick(t) /\ s = Victim(deque[t])
<1> USE DEF Kicked
<1>1. redis \in [Sessions -> {"new", "live", "kicked", "gone"}] /\ redis' # redis
  BY DEF IInv, TypeOK
<1>2. ASSUME NEW u \in Sessions, Login(u) \/ Expire(u) PROVE FALSE
  BY <1>1, <1>2 DEF Login, Expire, Save
<1>3. ASSUME NEW n \in Nodes, NEW u \in Sessions, Delete(n, u) PROVE FALSE
  BY <1>1, <1>3 DEF Delete, Save
<1>4. ASSUME NEW t \in Threads, NEW n \in Nodes, NEW u \in Sessions, GetDeque(t, n, u) PROVE FALSE
  BY <1>1, <1>4 DEF GetDeque, store
<1>5. ASSUME NEW t \in Threads, Push(t) \/ PutDeque(t) \/ Pass(t) \/ EndRequest(t) \/ Tick \/ UNCHANGED vars PROVE FALSE
  BY <1>1, <1>5 DEF Push, PutDeque, Pass, EndRequest, Tick, vars, store
<1>6. ASSUME NEW t \in Threads, PushThrows(t) \/ CheckThrows(t) \/ WriteThrows(t) \/ KickedOut(t) PROVE FALSE
  <2>1. pc[t] # "idle" /\ Delete(node[t], session[t])
    BY <1>6 DEF PushThrows, CheckThrows, WriteThrows, KickedOut, Invalid
  <2>2. node[t] \in Nodes /\ session[t] \in Sessions
    BY <2>1, OneRequest
  <2>3. QED
    BY <1>3, <2>1, <2>2
<1>7. ASSUME NEW t \in Threads, Kick(t) PROVE s = Victim(deque[t])
  BY <1>1, <1>7 DEF Kick, Save, store
<1>8. ~UNCHANGED vars /\ ~Tick
  BY <1>1 DEF vars, store, Tick
<1>9. ASSUME NEW t \in Threads, Write(t) PROVE FALSE
  <2>1. View(t) = "live" /\ Save(session[t], "live")
    BY <1>9 DEF Write, IInv, Covered
  <2>2. QED
    BY <1>1, <2>1 DEF Save
<1>10. QED
  BY <1>2, <1>3, <1>4, <1>5, <1>6, <1>7, <1>8, <1>9 DEF Next, Logout

(* While nothing disturbs them, the loop of onAccessDenied kicks out the    *)
(* session that entered first of those that work, or, if so configured,     *)
(* the one that entered last.                                               *)
THEOREM KickoutInOrder == Spec => KickedInOrder
<1> DEFINE InTurn ==
      \A s \in Sessions : Kicked(s) /\ ~disturbed =>
         \A u \in working \ {s} : IF kickoutAfter THEN s \in since[u] ELSE u \in since[s]
<1>1. ASSUME IInv, [Next]_vars PROVE InTurn
  <2> SUFFICES ASSUME NEW s \in Sessions, Kicked(s), Quiet, NEW u \in working \ {s}
               PROVE  IF kickoutAfter THEN s \in since[u] ELSE u \in since[s]
    BY DEF Quiet
  <2>1. PICK t \in Threads : Kick(t) /\ s = Victim(deque[t])
    BY <1>1, KickedByKick
  <2> DEFINE d == deque[t]
  <2>2. d \in Seq(Sessions) /\ s = d[IF kickoutAfter THEN 1 ELSE Len(d)]
    BY <1>1, <2>1, OneTurn
  <2>3. working \subseteq ToSet(d) /\ Ordered(d)
    BY <1>1, <2>1 DEF Kick, IInv, Covered, InOrder
  <2>4. PICK i \in 1..Len(d) : u = d[i]
    BY <2>2, <2>3, Elements
  <2>5. DOMAIN d = 1..Len(d) /\ Len(d) \in Nat
    BY <2>2, Elements
  <2> HIDE DEF d
  <2>6. CASE kickoutAfter
    <3>1. s = d[1] /\ 1 < i /\ 1 \in DOMAIN d /\ i \in DOMAIN d
      BY <2>2, <2>4, <2>5, <2>6
    <3>2. QED
      BY <2>3, <2>4, <2>6, <3>1 DEF Ordered
  <2>7. CASE ~kickoutAfter
    <3>1. s = d[Len(d)] /\ i < Len(d) /\ Len(d) \in DOMAIN d /\ i \in DOMAIN d
      BY <2>2, <2>4, <2>5, <2>7
    <3>2. QED
      BY <2>3, <2>4, <2>7, <3>1 DEF Ordered
  <2>8. QED
    BY <2>6, <2>7
<1>2. QED
  BY <1>1, KickoutInvariant, PTL DEF Spec, KickedInOrder

(* However requests overlap: a request never starts with a session that it  *)
(* takes for live although Redis has had it kicked out, logged out or       *)
(* expired for longer than timeToLiveSeconds.                               *)
THEOREM KickoutNoOverstay == Spec => NoOverstay
<1> DEFINE Overstays(t) ==
      /\ pc[t] = "idle" /\ pc'[t] = "push" /\ View(t)' = "live"
      /\ ~(redis[session'[t]] = "live" \/ outAge[session'[t]] <= TimeToLive)
<1>1. ASSUME IInv, [Next]_vars, NEW t \in Threads PROVE ~Overstays(t)
  <2> SUFFICES ASSUME Overstays(t) PROVE FALSE
    OBVIOUS
  <2>1. PICK n \in Nodes, s \in Sessions : GetDeque(t, n, s)
    <3>1. pc[t] = "idle" /\ pc'[t] = "push" /\ pc' # pc
      OBVIOUS
    <3>2. ASSUME NEW u \in Threads,
                 \/ Push(u) \/ PushThrows(u) \/ Kick(u) \/ PutDeque(u) \/ Pass(u) \/ KickedOut(u)
                 \/ CheckThrows(u) \/ Write(u) \/ WriteThrows(u) \/ EndRequest(u)
          PROVE  FALSE
      <4>1. pc' = pc \/ (\E l \in {"idle", "kick", "check", "serve"} : pc' = [pc EXCEPT ![u] = l])
        BY <3>2 DEF Push, PushThrows, Kick, PutDeque, Pass, KickedOut, CheckThrows, Write, WriteThrows,
             EndRequest, Invalid, Finish, Goto
      <4>2. pc \in [Threads -> {"idle", "push", "kick", "check", "serve"}]
        BY <1>1 DEF IInv, TypeOK
      <4>3. QED
        BY <3>1, <4>1, <4>2
    <3>3. ASSUME NEW n \in Nodes, NEW s \in Sessions, Login(s) \/ Expire(s) \/ Logout(n, s) \/ Tick \/ UNCHANGED vars
          PROVE  FALSE
      BY <3>1, <3>3 DEF Login, Expire, Logout, Tick, vars
    <3>4. ASSUME NEW u \in Threads, NEW n \in Nodes, NEW s \in Sessions, GetDeque(u, n, s) PROVE u = t
      BY <1>1, <3>1, <3>4 DEF GetDeque, Goto, IInv, TypeOK
    <3>5. ASSUME NEW s \in Sessions, Login(s) \/ Expire(s) PROVE FALSE
      BY <3>1, <3>5 DEF Login, Expire
    <3>6. ~UNCHANGED vars /\ ~Tick
      BY <3>1 DEF vars, Tick
    <3>7. QED
      BY <1>1, <3>2, <3>3, <3>4, <3>5, <3>6 DEF Next
  <2>2. session'[t] = s /\ View(t)' = Read(n, s) /\ redis[s] # "new"
    <3>1. session'[t] = s /\ node'[t] = n /\ mine'[t] = "cached" /\ copy'[n][s] = Read(n, s)
      BY <1>1, <2>1 DEF GetDeque, IInv, TypeOK
    <3>2. redis[s] # "new"
      BY <1>1, <2>1 DEF GetDeque, Found, IInv, Known
    <3>3. QED
      BY <3>1, <3>2 DEF View
  <2>3. Read(n, s) = "live" /\ redis[s] # "live" /\ ~(outAge[s] <= TimeToLive)
    BY <2>2
  <2>4. copy[n][s] = "live" /\ redis[s] \in Out
    BY <1>1, <2>2, <2>3 DEF Read, Out, IInv, TypeOK
  <2>5. age[n][s] <= TimeToLive /\ age[n][s] >= outAge[s]
    BY <1>1, <2>4 DEF IInv, Lag
  <2>6. age[n][s] \in Nat /\ outAge[s] \in Nat /\ TimeToLive \in Nat
    BY <1>1, KickoutAssumption DEF IInv, TypeOK
  <2>7. QED
    BY <2>3, <2>5, <2>6
<1>2. ASSUME IInv, [Next]_vars
      PROVE  \A t \in Threads : pc[t] = "idle" /\ pc'[t] = "push" /\ View(t)' = "live" =>
               redis[session'[t]] = "live" \/ outAge[session'[t]] <= TimeToLive
  BY <1>1, <1>2
<1>3. QED
  BY <1>2, KickoutInvariant, PTL DEF Spec, NoOverstay
=============================================================================
