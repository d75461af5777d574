----------------------------- MODULE EditHistory -----------------------------
(***************************************************************************)
(* What the undo history of the diagram editor (mxUndoManager) promises as *)
(* long as every edit keeps its own promise: undone in the document it led *)
(* to, or redone in the one it was made in, it leads to the other one.     *)
(* Anywhere else, or if it is done twice, the result is Lost.              *)
(***************************************************************************)
EXTENDS Integers, Sequences, FiniteSetsExt

CONSTANTS Size, Lost

VARIABLES
  doc,            \* what the user has in front of him
  history,        \* mxUndoManager.history: the edits
  indexOfNextAdd  \* mxUndoManager.indexOfNextAdd

vars == <<doc, history, indexOfNextAdd>>

Init == history = << >> /\ indexOfNextAdd = 0

NewEdit(before, after, significant) ==
  [before |-> before, after |-> after, significant |-> significant,
   undone |-> FALSE, redone |-> FALSE]

\* undoableEditHappened for one edit: trim(), and room for it unless the size
\* is unlimited (0).
Happened(h, i, edit) ==
  LET kept == SubSeq(h, 1, i)
  IN  Append(IF Size > 0 /\ Len(kept) = Size THEN Tail(kept) ELSE kept, edit)

\* What an operation reports ends up last.
Latest == history'[Len(history')]

\* An operation reports one edit.
OneEdit ==
  /\ history' # << >> /\ indexOfNextAdd' = Len(history')
  /\ Latest.significant \in BOOLEAN
  /\ history' = Happened(history, indexOfNextAdd, NewEdit(doc, doc', Latest.significant))

\* The view reports an edit of its own before the operation does (processChange).
TwoEdits ==
  /\ history' # << >> /\ indexOfNextAdd' = Len(history')
  /\ LET h == Happened(history, indexOfNextAdd, NewEdit(doc, Latest.before, FALSE))
     IN  history' = Happened(h, Len(h), NewEdit(Latest.before, doc', TRUE))

\* mxUndoableEdit.undo and redo, each at most once.
Undone(d, edit) ==
  IF edit.undone THEN d ELSE IF d = edit.after THEN edit.before ELSE Lost
Redone(d, edit) ==
  IF edit.redone THEN d ELSE IF d = edit.before THEN edit.after ELSE Lost
Turned(edit, undone) ==
  [before |-> edit.before, after |-> edit.after, significant |-> edit.significant,
   undone |-> undone, redone |-> ~undone]

\* Where undoing the edits from the last down to the first leads, and redoing
\* them from the first up to the last.
Back(first, last) ==
  LET at[i \in (first - 1)..last] ==
        IF i = last THEN doc ELSE Undone(at[i + 1], history[i + 1])
  IN  at[first - 1]
Forth(first, last) ==
  LET at[i \in (first - 1)..last] ==
        IF i = first - 1 THEN doc ELSE Redone(at[i - 1], history[i])
  IN  at[last]

\* Edits are taken back up to a significant one, or to the first.
Undo ==
  LET last == indexOfNextAdd
      marks == {i \in 1..last : history[i].significant}
      first == IF marks = {} THEN 1 ELSE Max(marks)
  IN  /\ last > 0
      /\ indexOfNextAdd' = first - 1
      /\ history' = [i \in DOMAIN history |->
                       IF i \notin first..last \/ history[i].undone THEN history[i]
                       ELSE Turned(history[i], TRUE)]
      /\ doc' = Back(first, last)

\* Edits are brought back up to a significant one, or to the last.
Redo ==
  LET first == indexOfNextAdd + 1
      marks == {i \in first..Len(history) : history[i].significant}
      last == IF marks = {} THEN Len(history) ELSE Min(marks)
  IN  /\ first <= Len(history)
      /\ indexOfNextAdd' = last
      /\ history' = [i \in DOMAIN history |->
                       IF i \notin first..last \/ history[i].redone THEN history[i]
                       ELSE Turned(history[i], FALSE)]
      /\ doc' = Forth(first, last)

Next == OneEdit \/ TwoEdits \/ Undo \/ Redo

HistorySpec == Init /\ [][Next]_vars

-----------------------------------------------------------------------------
\* The history is no longer than its size and the index points into it; the
\* edits before the index, and only those, are in effect.
TypeOK ==
  /\ Size > 0 => Len(history) <= Size
  /\ indexOfNextAdd \in 0..Len(history)
  /\ \A i \in DOMAIN history :
       IF i <= indexOfNextAdd THEN ~history[i].undone
       ELSE history[i].undone /\ ~history[i].redone

\* The user is where the edit before the index led to, and where the edit
\* after it was made.
Exact ==
  /\ indexOfNextAdd > 0 => doc = history[indexOfNextAdd].after
  /\ indexOfNextAdd < Len(history) => doc = history[indexOfNextAdd + 1].before
=============================================================================
