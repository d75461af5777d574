-------------------------- MODULE EditHistoryProofs --------------------------
(***************************************************************************)
(* For any size of the history, unlimited too, any documents and any edits *)
(* significant or not: undo and redo lead exactly where the edits lead.    *)
(***************************************************************************)
EXTENDS EditHistory, SequenceTheorems, WellFoundedInduction, TLAPS

IsEdit(e) ==
  /\ e = [before |-> e.before, after |-> e.after, significant |-> e.significant,
          undone |-> e.undone, redone |-> e.redone]
  /\ e.significant \in BOOLEAN /\ e.undone \in BOOLEAN /\ e.redone \in BOOLEAN

(* A sequence of edits, whatever their documents are.                       *)
IsHistory(h) == h \in Seq({h[k] : k \in DOMAIN h}) /\ \A k \in DOMAIN h : IsEdit(h[k])

(* The edits up to i are in effect, the others can be brought back.         *)
Marked(h, i) ==
  \A k \in DOMAIN h :
    IF k <= i THEN ~h[k].undone ELSE h[k].undone /\ ~h[k].redone

(* Each edit was made where the one before it has led to.                   *)
Chained(h) == \A k \in 1..(Len(h) - 1) : h[k].after = h[k + 1].before

(* The user is in document d, between the edits i and i + 1.                *)
Between(h, i, d) ==
  /\ i > 0 => d = h[i].after
  /\ i < Len(h) => d = h[i + 1].before

Good(h, i, d) ==
  /\ IsHistory(h) /\ i \in 0..Len(h)
  /\ Size > 0 => Len(h) <= Size
  /\ Marked(h, i) /\ Chained(h) /\ Between(h, i, d)

IInv == Good(history, indexOfNextAdd, doc)

-----------------------------------------------------------------------------
(* A set of natural numbers has a least element, a bounded one a greatest.  *)
LEMMA Least ==
  ASSUME NEW T \in SUBSET Nat, T # {}
  PROVE  \E x \in T : \A y \in T : x <= y
<1> DEFINE R == OpToRel(<, Nat)
<1>1. IsWellFoundedOn(R, Nat)
  BY NatLessThanWellFounded
<1>2. \A x, y \in Nat : y < x => <<y, x>> \in R
  BY DEF OpToRel
<1> HIDE DEF R
<1>3. PICK x \in T : \A y \in T : <<y, x>> \notin R
  BY <1>1, WFMin
<1>4. x \in Nat /\ \A y \in T : y \in Nat /\ ~(y < x)
  BY <1>2, <1>3
<1>5. \A y \in T : x <= y
  BY <1>4
<1>6. QED
  BY <1>5

LEMMA Greatest ==
  ASSUME NEW n \in Nat, NEW T \in SUBSET (0..n), T # {}
  PROVE  \E x \in T : \A y \in T : y <= x
<1> DEFINE U == {n - x : x \in T}
<1>1. U \in SUBSET Nat /\ U # {}
  <2>1. \A x \in T : n - x \in Nat
    OBVIOUS
  <2>2. PICK x \in T : TRUE
    OBVIOUS
  <2>3. n - x \in U
    OBVIOUS
  <2>4. QED
    BY <2>1, <2>3
<1>2. PICK u \in U : \A v \in U : u <= v
  <2> HIDE DEF U
  <2> QED BY <1>1, Least
<1>3. PICK x \in T : u = n - x
  OBVIOUS
<1>4. \A y \in T : n - x <= n - y
  BY <1>2, <1>3
<1>5. QED
  BY <1>4

LEMMA MaxIs ==
  ASSUME NEW n \in Nat, NEW T \in SUBSET (0..n), T # {}
  PROVE  Max(T) \in T /\ \A y \in T : y <= Max(T)
<1>1. \E x \in T : \A y \in T : x >= y
  BY Greatest
<1>2. QED
  BY <1>1 DEF Max

LEMMA MinIs ==
  ASSUME NEW T \in SUBSET Nat, T # {}
  PROVE  Min(T) \in T /\ \A y \in T : Min(T) <= y
<1>1. \E x \in T : \A y \in T : x <= y
  BY Least
<1>2. QED
  BY <1>1 DEF Min

-----------------------------------------------------------------------------
(* undoableEditHappened keeps a good history good, and the new edit is the  *)
(* last one: the edits that are kept are the ones in effect, from the       *)
(* second one on if the history is full.                                    *)
LEMMA HappenedGood ==
  ASSUME Size \in Nat, NEW h, NEW i, NEW d, Good(h, i, d),
         NEW to, NEW s \in BOOLEAN, NEW r, r = Happened(h, i, NewEdit(d, to, s))
  PROVE  Good(r, Len(r), to) /\ r # << >>
<1> DEFINE S == {h[k] : k \in DOMAIN h}
           edit == NewEdit(d, to, s)
           E == S \cup {edit}
           kept == SubSeq(h, 1, i)
           full == Size > 0 /\ Len(kept) = Size
           room == IF full THEN Tail(kept) ELSE kept
           off == IF full THEN 1 ELSE 0
<1>1. h \in Seq(S) /\ i \in 0..Len(h) /\ Len(h) \in Nat /\ DOMAIN h = 1..Len(h) /\ i \in Nat
  BY DEF Good, IsHistory
<1>2. /\ kept \in Seq(S) /\ Len(kept) = i
      /\ \A k \in 1..i : kept[k] = h[k]
  <2>1. \A k \in 1..i : h[k] \in S
    BY <1>1
  <2> HIDE DEF S
  <2>2. /\ kept \in Seq(S) /\ Len(kept) = IF 1 <= i THEN i - 1 + 1 ELSE 0
        /\ \A k \in 1..(i - 1 + 1) : kept[k] = h[1 + k - 1]
    BY <1>1, <2>1, SubSeqProperties
  <2>3. QED
    BY <1>1, <2>2
<1>3. /\ room \in Seq(S) /\ Len(room) = i - off
      /\ \A k \in 1..(i - off) : room[k] = h[k + off]
  <2> HIDE DEF S, kept
  <2>1. CASE full
    <3>1. kept # << >> /\ i = Size
      BY <1>2, <2>1
    <3>2. /\ Tail(kept) \in Seq(S) /\ Len(Tail(kept)) = Len(kept) - 1
          /\ \A k \in 1..Len(Tail(kept)) : Tail(kept)[k] = kept[k + 1]
      BY <1>2, <3>1, HeadTailProperties
    <3>3. QED
      BY <1>1, <1>2, <2>1, <3>2
  <2>2. CASE ~full
    BY <1>1, <1>2, <2>2
  <2>3. QED
    BY <2>1, <2>2
<1>4. r = Append(room, edit)
  BY DEF Happened
<1>5. i - off \in Nat /\ (Size > 0 => i - off < Size) /\ off \in {0, 1}
  BY <1>1, <1>2 DEF Good
<1>6. /\ r \in Seq(E) /\ Len(r) = i - off + 1 /\ r # << >>
      /\ \A k \in 1..(i - off) : r[k] = h[k + off]
      /\ r[i - off + 1] = edit
  <2> DEFINE n == i - off
  <2>1. room \in Seq(E) /\ edit \in E
    BY <1>3
  <2> HIDE DEF E, edit, room, off
  <2>2. /\ Append(room, edit) \in Seq(E) /\ Append(room, edit) # << >>
        /\ Len(Append(room, edit)) = Len(room) + 1
        /\ \A k \in 1..Len(room) : Append(room, edit)[k] = room[k]
        /\ Append(room, edit)[Len(room) + 1] = edit
    BY <2>1, AppendProperties
  <2>3. QED
    BY <1>3, <1>4, <1>5, <2>2
<1> DEFINE n == i - off
<1> HIDE DEF kept, full, room
<1>7. edit.before = d /\ edit.after = to /\ ~edit.undone /\ IsEdit(edit)
  BY DEF NewEdit, IsEdit
<1>8. n \in Nat /\ n + off = i /\ off \in Nat /\ Len(r) = n + 1 /\ DOMAIN r = 1..(n + 1)
  BY <1>1, <1>5, <1>6
<1>9. \A k \in 1..n : k + off \in 1..i /\ k + off \in DOMAIN h /\ r[k] = h[k + off]
  BY <1>1, <1>6, <1>8
<1>10. r[n + 1] = edit
  BY <1>6
<1> HIDE DEF n, off, edit, E, S
<1>11. IsHistory(r)
  <2>1. \A k \in DOMAIN r : IsEdit(r[k])
    <3>1. SUFFICES ASSUME NEW k \in 1..(n + 1) PROVE IsEdit(r[k])
      BY <1>8
    <3>2. CASE k = n + 1
      BY <1>7, <1>10, <3>2
    <3>3. CASE k # n + 1
      <4>1. k \in 1..n
        BY <1>8, <3>3
      <4>2. QED
        BY <1>9, <4>1 DEF Good, IsHistory
    <3>4. QED
      BY <3>2, <3>3
  <2>2. r \in Seq({r[k] : k \in DOMAIN r})
    BY <1>6, SeqDef
  <2>3. QED
    BY <2>1, <2>2 DEF IsHistory
<1>12. Marked(r, Len(r))
  <2>1. SUFFICES ASSUME NEW k \in 1..(n + 1) PROVE ~r[k].undone
    BY <1>8 DEF Marked
  <2>2. CASE k = n + 1
    BY <1>7, <1>10, <2>2
  <2>3. CASE k # n + 1
    <3>1. k \in 1..n
      BY <1>8, <2>3
    <3>2. k + off \in DOMAIN h /\ k + off <= i /\ r[k] = h[k + off]
      BY <1>1, <1>9, <3>1
    <3>3. QED
      BY <3>2 DEF Good, Marked
  <2>4. QED
    BY <2>2, <2>3
<1>13. Chained(r)
  <2>1. SUFFICES ASSUME NEW k \in 1..n PROVE r[k].after = r[k + 1].before
    BY <1>8 DEF Chained
  <2>2. r[k] = h[k + off] /\ k + off \in 1..i
    BY <1>9
  <2>3. CASE k = n
    <3>1. r[k].after = h[i].after /\ i > 0
      BY <1>8, <2>2, <2>3
    <3>2. QED
      BY <1>7, <1>10, <2>3, <3>1 DEF Good, Between
  <2>4. CASE k # n
    <3>1. k + 1 \in 1..n /\ k + 1 + off = k + off + 1
      BY <1>8, <2>4
    <3>2. r[k + 1] = h[k + off + 1] /\ k + off + 1 \in 1..i
      BY <1>9, <3>1
    <3>3. k + off \in 1..(Len(h) - 1)
      BY <1>1, <2>2, <3>2
    <3>4. QED
      BY <2>2, <3>2, <3>3 DEF Good, Chained
  <2>5. QED
    BY <2>3, <2>4
<1>14. Between(r, Len(r), to)
  BY <1>7, <1>8, <1>10 DEF Between
<1>15. (Size > 0 => Len(r) <= Size) /\ Len(r) \in 0..Len(r)
  BY <1>5, <1>8 DEF n
<1>16. QED
  BY <1>6, <1>11, <1>12, <1>13, <1>14, <1>15 DEF Good

-----------------------------------------------------------------------------
(* Undoing the edits before the index, each in the document the one after   *)
(* it was made in, leads to where the first of them was made.               *)
LEMMA BackIs ==
  ASSUME IInv, NEW first \in 1..indexOfNextAdd
  PROVE  Back(first, indexOfNextAdd) = history[first].before
<1> DEFINE last == indexOfNextAdd
           S == (first - 1)..last
           Body(f) == [i \in S |-> IF i = last THEN doc ELSE Undone(f[i + 1], history[i + 1])]
           W == [i \in S |-> IF i = last THEN doc ELSE history[i + 1].before]
           at == CHOOSE f : f = Body(f)
<1>1. /\ last \in 1..Len(history) /\ Len(history) \in Nat /\ DOMAIN history = 1..Len(history)
      /\ last \in Nat /\ first \in Nat /\ 1 <= first /\ first <= last
  BY DEF IInv, Good, IsHistory
<1>2. \A i \in S : i # last => /\ i + 1 \in S /\ i + 1 \in 1..last
                              /\ Undone(W[i + 1], history[i + 1]) = history[i + 1].before
  <2>1. SUFFICES ASSUME NEW i \in S, i # last
                 PROVE  /\ i + 1 \in S /\ i + 1 \in 1..last
                        /\ Undone(W[i + 1], history[i + 1]) = history[i + 1].before
    OBVIOUS
  <2>2. i + 1 \in S /\ i + 1 \in 1..last /\ i \in Int
    BY <1>1, <2>1
  <2>3. ~history[i + 1].undone
    BY <1>1, <2>2 DEF IInv, Good, Marked
  <2>4. W[i + 1] = history[i + 1].after
    <3>1. CASE i + 1 = last
      BY <1>1, <2>2, <3>1 DEF IInv, Good, Between
    <3>2. CASE i + 1 # last
      <4>1. i + 1 \in 1..(Len(history) - 1)
        BY <1>1, <2>2, <3>2
      <4>2. history[i + 1].after = history[i + 1 + 1].before
        BY <4>1 DEF IInv, Good, Chained
      <4>3. QED
        BY <2>2, <3>2, <4>2
    <3>3. QED
      BY <3>1, <3>2
  <2> HIDE DEF W, S
  <2>5. QED
    BY <2>2, <2>3, <2>4 DEF Undone
<1>3. W = Body(W)
  <2>1. \A i \in S : W[i] = IF i = last THEN doc ELSE Undone(W[i + 1], history[i + 1])
    BY <1>2
  <2>2. QED
    BY <2>1
<1>4. at = Body(at)
  <2> HIDE DEF W, Body
  <2>1. \E f : f = Body(f)
    BY <1>3
  <2>2. QED
    BY <2>1
<1>5. \A i \in S : at[i] = IF i = last THEN doc ELSE Undone(at[i + 1], history[i + 1])
  <2> HIDE DEF at, S
  <2>1. QED
    BY <1>4
<1> HIDE DEF at, Body
<1>6. \A i \in S : at[i] = W[i]
  <2> DEFINE T == {k \in Nat : last - k \in S /\ at[last - k] # W[last - k]}
  <2>1. SUFFICES ASSUME T # {} PROVE FALSE
    <3>1. SUFFICES ASSUME NEW i \in S, at[i] # W[i] PROVE FALSE
      OBVIOUS
    <3>2. last - i \in Nat /\ last - (last - i) = i
      BY <1>1
    <3>3. last - i \in T
      BY <3>1, <3>2
    <3>4. QED
      BY <2>1, <3>3
  <2>2. PICK k \in T : \A m \in T : k <= m
    <3>1. T \in SUBSET Nat
      OBVIOUS
    <3> HIDE DEF T
    <3>2. QED
      BY <2>1, <3>1, Least
  <2>3. k \in Nat /\ last - k \in S /\ at[last - k] # W[last - k]
    OBVIOUS
  <2>4. k # 0
    BY <1>1, <1>5, <2>3
  <2>5. k - 1 \in Nat /\ k - 1 \notin T /\ last - (k - 1) = last - k + 1 /\ last - k # last
    <3>1. k - 1 \in Nat /\ ~(k <= k - 1)
      BY <2>3, <2>4
    <3>2. last - (k - 1) = last - k + 1 /\ last - k # last
      BY <1>1, <2>3, <2>4
    <3> HIDE DEF T
    <3>3. k - 1 \notin T
      BY <2>2, <3>1
    <3>4. QED
      BY <3>1, <3>2, <3>3
  <2>6. last - k + 1 \in S
    BY <1>2, <2>3, <2>5
  <2>7. at[last - k + 1] = W[last - k + 1]
    BY <2>5, <2>6
  <2>8. at[last - k] = Undone(W[last - k + 1], history[last - k + 1])
    BY <1>5, <2>3, <2>5, <2>7
  <2>9. QED
    BY <1>2, <2>3, <2>5, <2>8
<1>7. first - 1 \in S /\ first - 1 # last /\ first - 1 + 1 = first
  BY <1>1
<1>8. at[first - 1] = history[first].before
  BY <1>6, <1>7
<1>9. QED
  BY <1>8 DEF Back, at, Body

(* Redoing the edits from the index on, likewise, leads where the last of   *)
(* them led.                                                                *)
LEMMA ForthIs ==
  ASSUME IInv, NEW last \in (indexOfNextAdd + 1)..Len(history)
  PROVE  Forth(indexOfNextAdd + 1, last) = history[last].after
<1> DEFINE first == indexOfNextAdd + 1
           S == (first - 1)..last
           Body(f) == [i \in S |-> IF i = first - 1 THEN doc ELSE Redone(f[i - 1], history[i])]
           W == [i \in S |-> IF i = first - 1 THEN doc ELSE history[i].after]
           at == CHOOSE f : f = Body(f)
<1>1. /\ Len(history) \in Nat /\ DOMAIN history = 1..Len(history) /\ first - 1 = indexOfNextAdd
      /\ first \in Nat /\ last \in Nat /\ 1 <= first /\ first <= last /\ last <= Len(history)
  BY DEF IInv, Good, IsHistory
<1>2. \A i \in S : i # first - 1 => /\ i - 1 \in S /\ i \in first..last
                                   /\ Redone(W[i - 1], history[i]) = history[i].after
  <2>1. SUFFICES ASSUME NEW i \in S, i # first - 1
                 PROVE  /\ i - 1 \in S /\ i \in first..last
                        /\ Redone(W[i - 1], history[i]) = history[i].after
    OBVIOUS
  <2>2. i - 1 \in S /\ i \in first..last /\ i \in Int
    BY <1>1, <2>1
  <2>3. ~history[i].redone
    BY <1>1, <2>2 DEF IInv, Good, Marked
  <2>4. W[i - 1] = history[i].before
    <3>1. CASE i = first
      BY <1>1, <2>2, <3>1 DEF IInv, Good, Between
    <3>2. CASE i # first
      <4>1. i - 1 \in 1..(Len(history) - 1) /\ i - 1 + 1 = i /\ i - 1 # first - 1
        BY <1>1, <2>2, <3>2
      <4>2. history[i - 1].after = history[i].before
        BY <4>1 DEF IInv, Good, Chained
      <4>3. QED
        BY <2>2, <4>1, <4>2
    <3>3. QED
      BY <3>1, <3>2
  <2> HIDE DEF W, S
  <2>5. QED
    BY <2>2, <2>3, <2>4 DEF Redone
<1>3. W = Body(W)
  <2>1. \A i \in S : W[i] = IF i = first - 1 THEN doc ELSE Redone(W[i - 1], history[i])
    BY <1>2
  <2>2. QED
    BY <2>1
<1>4. at = Body(at)
  <2> HIDE DEF W, Body
  <2>1. \E f : f = Body(f)
    BY <1>3
  <2>2. QED
    BY <2>1
<1>5. \A i \in S : at[i] = IF i = first - 1 THEN doc ELSE Redone(at[i - 1], history[i])
  <2> HIDE DEF at, S
  <2>1. QED
    BY <1>4
<1> HIDE DEF at, Body
<1>6. \A i \in S : at[i] = W[i]
  <2> DEFINE T == {k \in S : at[k] # W[k]}
  <2>1. SUFFICES ASSUME T # {} PROVE FALSE
    OBVIOUS
  <2>2. PICK k \in T : \A m \in T : k <= m
    <3>1. T \in SUBSET Nat
      BY <1>1
    <3> HIDE DEF T
    <3>2. QED
      BY <2>1, <3>1, Least
  <2>3. k \in S /\ k \in Int /\ at[k] # W[k]
    BY <1>1
  <2>4. k # first - 1
    BY <1>5, <2>3
  <2>5. k - 1 \in S
    BY <1>2, <2>3, <2>4
  <2>6. k - 1 \notin T
    BY <2>2, <2>3
  <2>7. at[k - 1] = W[k - 1]
    BY <2>5, <2>6
  <2>8. at[k] = Redone(W[k - 1], history[k])
    BY <1>5, <2>3, <2>4, <2>7
  <2>9. QED
    BY <1>2, <2>3, <2>4, <2>8
<1>7. last \in S /\ last # first - 1
  BY <1>1
<1>8. at[last] = history[last].after
  BY <1>6, <1>7
<1>9. QED
  BY <1>8 DEF Forth, at, Body

-----------------------------------------------------------------------------
(* A history in which only marks have changed.                              *)
LEMMA Remarked ==
  ASSUME NEW h, IsHistory(h), Chained(h), NEW r,
         r = [k \in DOMAIN h |-> r[k]],
         \A k \in DOMAIN h : /\ IsEdit(r[k])
                             /\ r[k].before = h[k].before /\ r[k].after = h[k].after
  PROVE  IsHistory(r) /\ Chained(r) /\ Len(r) = Len(h) /\ DOMAIN r = DOMAIN h
<1>1. Len(h) \in Nat /\ DOMAIN h = 1..Len(h)
  BY DEF IsHistory
<1> DEFINE E == {r[k] : k \in DOMAIN h}
<1>2. DOMAIN r = 1..Len(h) /\ r \in [1..Len(h) -> E]
  BY <1>1
<1>3. r \in Seq(E)
  BY <1>1, <1>2, SeqDef
<1>4. Len(r) = Len(h)
  BY <1>1, <1>2, <1>3
<1>5. IsHistory(r)
  BY <1>1, <1>2, <1>3 DEF IsHistory
<1>6. Chained(r)
  <2>1. SUFFICES ASSUME NEW k \in 1..(Len(h) - 1) PROVE r[k].after = r[k + 1].before
    BY <1>4 DEF Chained
  <2>2. k \in DOMAIN h /\ k + 1 \in DOMAIN h
    BY <1>1
  <2>3. h[k].after = h[k + 1].before
    BY DEF Chained
  <2>4. QED
    BY <2>2, <2>3
<1>7. QED
  BY <1>1, <1>2, <1>4, <1>5, <1>6

(* Undo keeps the history good.                                             *)
LEMMA UndoStep == IInv /\ Undo => IInv'
<1> SUFFICES ASSUME IInv, Undo PROVE IInv'
  OBVIOUS
<1> DEFINE last == indexOfNextAdd
           marks == {i \in 1..last : history[i].significant}
           first == IF marks = {} THEN 1 ELSE Max(marks)
<1>1. /\ Len(history) \in Nat /\ DOMAIN history = 1..Len(history) /\ last \in Nat
      /\ last <= Len(history) /\ last > 0
  <2>1. last > 0
    BY DEF Undo
  <2>2. QED
    BY <2>1 DEF IInv, Good, IsHistory
<1>2. first \in 1..last
  <2>1. CASE marks = {}
    BY <1>1, <2>1
  <2>2. CASE marks # {}
    <3>1. marks \in SUBSET (0..last)
      BY <1>1
    <3> HIDE DEF marks
    <3>2. Max(marks) \in marks
      BY <1>1, <2>2, <3>1, MaxIs
    <3>3. QED
      BY <2>2, <3>2 DEF marks
  <2>3. QED
    BY <2>1, <2>2
<1>3. /\ indexOfNextAdd' = first - 1
      /\ history' = [i \in DOMAIN history |->
                       IF i \notin first..last \/ history[i].undone THEN history[i]
                       ELSE Turned(history[i], TRUE)]
      /\ doc' = Back(first, last)
  BY DEF Undo
<1> HIDE DEF first, marks
<1>4. doc' = history[first].before
  BY <1>2, <1>3, BackIs
<1>5. \A i \in DOMAIN history :
        LET e == Turned(history[i], TRUE)
        IN  /\ IsEdit(e) /\ e.before = history[i].before /\ e.after = history[i].after
            /\ e.undone /\ ~e.redone
  <2>1. \A i \in DOMAIN history : history[i].significant \in BOOLEAN
    BY DEF IInv, Good, IsHistory, IsEdit
  <2>2. QED
    BY <2>1 DEF Turned, IsEdit
<1>6. \A i \in DOMAIN history :
        /\ IsEdit(history'[i])
        /\ history'[i].before = history[i].before /\ history'[i].after = history[i].after
  <2>1. \A i \in DOMAIN history : IsEdit(history[i])
    BY DEF IInv, Good, IsHistory
  <2>2. QED
    BY <1>3, <1>5, <2>1
<1>7. IsHistory(history') /\ Chained(history') /\ Len(history') = Len(history) /\ DOMAIN history' = DOMAIN history
  <2>1. history' = [i \in DOMAIN history |-> history'[i]]
    BY <1>3
  <2>2. QED
    BY <1>6, <2>1, Remarked DEF IInv, Good
<1>8. Marked(history', first - 1)
  <2>1. SUFFICES ASSUME NEW i \in DOMAIN history
                 PROVE  IF i <= first - 1 THEN ~history'[i].undone
                        ELSE history'[i].undone /\ ~history'[i].redone
    BY <1>7 DEF Marked
  <2>2. IF i <= last THEN ~history[i].undone ELSE history[i].undone /\ ~history[i].redone
    BY DEF IInv, Good, Marked
  <2>3. CASE i \in first..last
    <3>1. i <= last /\ ~(i <= first - 1)
      BY <1>1, <1>2, <2>3
    <3>2. ~history[i].undone
      BY <2>2, <3>1
    <3>3. history'[i] = Turned(history[i], TRUE)
      BY <1>3, <2>3, <3>2
    <3>4. history'[i].undone /\ ~history'[i].redone
      BY <1>5, <3>3
    <3>5. QED
      BY <3>1, <3>4
  <2>4. CASE i \notin first..last
    <3>1. history'[i] = history[i]
      BY <1>3, <2>4
    <3>2. QED
      BY <1>1, <1>2, <2>2, <2>4, <3>1
  <2>5. QED
    BY <2>3, <2>4
<1>9. Between(history', first - 1, doc')
  <2>1. first \in DOMAIN history /\ doc' = history'[first].before
    BY <1>1, <1>2, <1>4, <1>6
  <2>2. first - 1 > 0 => doc' = history'[first - 1].after
    <3>1. SUFFICES ASSUME first - 1 > 0 PROVE doc' = history'[first - 1].after
      OBVIOUS
    <3>2. first - 1 \in 1..(Len(history') - 1) /\ first - 1 + 1 = first
      BY <1>1, <1>2, <1>7, <3>1
    <3>3. QED
      BY <1>7, <2>1, <3>2 DEF Chained
  <2>3. first - 1 + 1 = first
    BY <1>1, <1>2
  <2>4. QED
    BY <2>1, <2>2, <2>3 DEF Between
<1>10. first - 1 \in 0..Len(history') /\ (Size > 0 => Len(history') <= Size)
  BY <1>1, <1>2, <1>7 DEF IInv, Good
<1>11. QED
  BY <1>3, <1>7, <1>8, <1>9, <1>10 DEF IInv, Good

(* Redo keeps the history good.                                             *)
LEMMA RedoStep == IInv /\ Redo => IInv'
<1> SUFFICES ASSUME IInv, Redo PROVE IInv'
  OBVIOUS
<1> DEFINE first == indexOfNextAdd + 1
           marks == {i \in first..Len(history) : history[i].significant}
           last == IF marks = {} THEN Len(history) ELSE Min(marks)
<1>1. /\ Len(history) \in Nat /\ DOMAIN history = 1..Len(history) /\ first \in Nat
      /\ 1 <= first /\ first <= Len(history) /\ indexOfNextAdd = first - 1
  <2>1. first <= Len(history)
    BY DEF Redo
  <2>2. QED
    BY <2>1 DEF IInv, Good, IsHistory
<1>2. last \in first..Len(history)
  <2>1. CASE marks = {}
    BY <1>1, <2>1
  <2>2. CASE marks # {}
    <3>1. marks \in SUBSET Nat
      BY <1>1
    <3> HIDE DEF marks
    <3>2. Min(marks) \in marks
      BY <2>2, <3>1, MinIs
    <3>3. QED
      BY <2>2, <3>2 DEF marks
  <2>3. QED
    BY <2>1, <2>2
<1>3. /\ indexOfNextAdd' = last
      /\ history' = [i \in DOMAIN history |->
                       IF i \notin first..last \/ history[i].redone THEN history[i]
                       ELSE Turned(history[i], FALSE)]
      /\ doc' = Forth(first, last)
  BY DEF Redo
<1> HIDE DEF last, marks
<1>4. doc' = history[last].after
  BY <1>2, <1>3, ForthIs
<1>5. \A i \in DOMAIN history :
        LET e == Turned(history[i], FALSE)
        IN  /\ IsEdit(e) /\ e.before = history[i].before /\ e.after = history[i].after
            /\ ~e.undone
  <2>1. \A i \in DOMAIN history : history[i].significant \in BOOLEAN
    BY DEF IInv, Good, IsHistory, IsEdit
  <2>2. QED
    BY <2>1 DEF Turned, IsEdit
<1>6. \A i \in DOMAIN history :
        /\ IsEdit(history'[i])
        /\ history'[i].before = history[i].before /\ history'[i].after = history[i].after
  <2>1. \A i \in DOMAIN history : IsEdit(history[i])
    BY DEF IInv, Good, IsHistory
  <2>2. QED
    BY <1>3, <1>5, <2>1
<1>7. IsHistory(history') /\ Chained(history') /\ Len(history') = Len(history) /\ DOMAIN history' = DOMAIN history
  <2>1. history' = [i \in DOMAIN history |-> history'[i]]
    BY <1>3
  <2>2. QED
    BY <1>6, <2>1, Remarked DEF IInv, Good
<1>8. Marked(history', last)
  <2>1. SUFFICES ASSUME NEW i \in DOMAIN history
                 PROVE  IF i <= last THEN ~history'[i].undone
                        ELSE history'[i].undone /\ ~history'[i].redone
    BY <1>7 DEF Marked
  <2>2. IF i <= first - 1 THEN ~history[i].undone ELSE history[i].undone /\ ~history[i].redone
    BY <1>1 DEF IInv, Good, Marked
  <2>3. CASE i \in first..last
    <3>1. i <= last /\ ~(i <= first - 1)
      BY <1>1, <1>2, <2>3
    <3>2. ~history[i].redone
      BY <2>2, <3>1
    <3>3. history'[i] = Turned(history[i], FALSE)
      BY <1>3, <2>3, <3>2
    <3>4. ~history'[i].undone
      BY <1>5, <3>3
    <3>5. QED
      BY <3>1, <3>4
  <2>4. CASE i \notin first..last
    <3>1. history'[i] = history[i]
      BY <1>3, <2>4
    <3>2. QED
      BY <1>1, <1>2, <2>2, <2>4, <3>1
  <2>5. QED
    BY <2>3, <2>4
<1>9. Between(history', last, doc')
  <2>1. last \in DOMAIN history /\ doc' = history'[last].after
    BY <1>1, <1>2, <1>4, <1>6
  <2>2. last < Len(history') => doc' = history'[last + 1].before
    <3>1. SUFFICES ASSUME last < Len(history') PROVE doc' = history'[last + 1].before
      OBVIOUS
    <3>2. last \in 1..(Len(history') - 1)
      BY <1>1, <1>2, <1>7, <3>1
    <3>3. QED
      BY <1>7, <2>1, <3>2 DEF Chained
  <2>3. QED
    BY <2>1, <2>2 DEF Between
<1>10. last \in 0..Len(history') /\ (Size > 0 => Len(history') <= Size)
  BY <1>1, <1>2, <1>7 DEF IInv, Good
<1>11. QED
  BY <1>3, <1>7, <1>8, <1>9, <1>10 DEF IInv, Good

(* An operation keeps it good, whether it reports one edit or two.          *)
LEMMA OneEditStep ==
  ASSUME Size \in Nat, IInv, OneEdit
  PROVE  IInv'
<1>1. Good(history', Len(history'), doc')
  <2>1. Latest.significant \in BOOLEAN
    BY DEF OneEdit
  <2>2. history' = Happened(history, indexOfNextAdd, NewEdit(doc, doc', Latest.significant))
    BY DEF OneEdit
  <2>3. Good(history, indexOfNextAdd, doc)
    BY DEF IInv
  <2>4. QED
    BY <2>1, <2>2, <2>3, HappenedGood
<1>2. indexOfNextAdd' = Len(history')
  BY DEF OneEdit
<1>3. QED
  BY <1>1, <1>2 DEF IInv

LEMMA TwoEditsStep ==
  ASSUME Size \in Nat, IInv, TwoEdits
  PROVE  IInv'
<1> DEFINE to == Latest.before
           h == Happened(history, indexOfNextAdd, NewEdit(doc, to, FALSE))
<1>1. history' = Happened(h, Len(h), NewEdit(to, doc', TRUE)) /\ indexOfNextAdd' = Len(history')
  BY DEF TwoEdits
<1>2. Good(h, Len(h), to)
  <2>1. Good(history, indexOfNextAdd, doc)
    BY DEF IInv
  <2> HIDE DEF to
  <2>2. QED
    BY <2>1, HappenedGood
<1> HIDE DEF to, h
<1>3. Good(history', Len(history'), doc')
  BY <1>1, <1>2, HappenedGood
<1>4. QED
  BY <1>1, <1>3 DEF IInv

(* So does every step, and the empty history is good.                       *)
LEMMA Inductive ==
  ASSUME Size \in Nat
  PROVE  (Init => IInv) /\ (IInv /\ [Next]_vars => IInv')
<1>1. Init => IInv
  <2>1. SUFFICES ASSUME Init PROVE IInv
    OBVIOUS
  <2>2. history = << >> /\ indexOfNextAdd = 0
    BY <2>1 DEF Init
  <2>3. /\ \A S : << >> \in Seq(S)
        /\ Len(<< >>) = 0 /\ DOMAIN << >> = {}
    <3>1. \A S : << >> \in Seq(S)
      BY EmptySeq
    <3>2. << >> \in Seq({}) /\ Len(<< >>) = 0
      BY <3>1, EmptySeq
    <3>3. DOMAIN << >> = {}
      BY <3>2
    <3>4. QED
      BY <3>1, <3>2, <3>3
  <2>4. IsHistory(history) /\ Marked(history, 0) /\ Chained(history) /\ Between(history, 0, doc)
    BY <2>2, <2>3 DEF IsHistory, Marked, Chained, Between
  <2>5. QED
    BY <2>2, <2>3, <2>4 DEF IInv, Good
<1>2. IInv /\ [Next]_vars => IInv'
  <2>1. SUFFICES ASSUME IInv, [Next]_vars PROVE IInv'
    OBVIOUS
  <2>2. CASE OneEdit
    BY <2>1, <2>2, OneEditStep
  <2>3. CASE TwoEdits
    BY <2>1, <2>3, TwoEditsStep
  <2>4. CASE Undo
    BY <2>1, <2>4, UndoStep
  <2>5. CASE Redo
    BY <2>1, <2>5, RedoStep
  <2>6. CASE UNCHANGED vars
    BY <2>1, <2>6 DEF vars, IInv
  <2>7. QED
    BY <2>1, <2>2, <2>3, <2>4, <2>5, <2>6 DEF Next
<1>3. QED
  BY <1>1, <1>2

-----------------------------------------------------------------------------
(* The history never outgrows its size, if that is not 0, and exactly the   *)
(* edits before the index are in effect: mxUndoableEdit never ignores an    *)
(* undo or a redo of mxUndoManager for being done twice.                    *)
THEOREM HistoryType ==
  ASSUME Size \in Nat
  PROVE  HistorySpec => []TypeOK
<1>1. IInv => TypeOK
  BY DEF IInv, Good, Marked, TypeOK
<1>2. Init => IInv
  BY Inductive
<1>3. IInv /\ [Next]_vars => IInv'
  BY Inductive
<1>4. QED
  BY <1>1, <1>2, <1>3, PTL DEF HistorySpec

(* The user always is between the edit that undo would take back and the    *)
(* one that redo would bring back: after undo he has what the edit was made *)
(* in, after redo what it led to, over any number of edits.                 *)
THEOREM HistoryExact ==
  ASSUME Size \in Nat
  PROVE  HistorySpec => []Exact
<1>1. IInv => Exact
  BY DEF IInv, Good, Between, Exact
<1>2. Init => IInv
  BY Inductive
<1>3. IInv /\ [Next]_vars => IInv'
  BY Inductive
<1>4. QED
  BY <1>1, <1>2, <1>3, PTL DEF HistorySpec
=============================================================================
