---------------------------- MODULE DiagramEditor ----------------------------
(***************************************************************************)
(* The gateway's diagram editor (MXGraph.js, leftpanel.js) on top of the   *)
(* graph model: the operations of mxGraph that the page offers, the view's *)
(* current root, and the undo history that both the model and the view     *)
(* report to.                                                              *)
(*                                                                         *)
(* The page runs in one thread and every operation brackets its changes in *)
(* beginUpdate and endUpdate, so an operation is one step: it makes its    *)
(* calls to the graph (update'), and Commit, which is a conjunct of every  *)
(* operation, carries them out, notifies the graph and hands one edit to   *)
(* the history.                                                            *)
(***************************************************************************)
EXTENDS GraphModel

CONSTANTS
  Vertex, Group,  \* cells dropped or appended; cells that Ctrl-G creates
  Root, Layer,    \* the two cells of an empty model
  Saved,          \* root of the tree that restore() decodes, None to leave it out
  SavedTree,      \* its cells below each other: SavedTree[c] is the parent of c
  Labels,         \* labels typed by the user, the first of them is the initial one
  Ops,            \* the operations this instance offers
  Size,           \* mxUndoManager.size
  MaxEdits        \* bound on the operations that are not undo or redo

ASSUME DiagramEditorAssumption ==
  /\ Size \in Nat \ {0}
  /\ MaxEdits \in Nat
  /\ {Root, Layer} \cup Vertex \cup Group \cup EdgeCell \subseteq Cell

VARIABLES
  model,        \* graph.getModel()
  currentRoot,  \* graph.view.currentRoot: the group the user has entered
  undo,         \* historyManager: history, indexOfNextAdd and, to state the
                \* properties, the documents between the edits
  lastNode,     \* nodes[nodes.length - 1] of append()
  edits,        \* operations so far
  clipboard,    \* mxClipboard.cells, as a picture of them; no cells at first
  update        \* the calls of the latest operation

vars == <<model, currentRoot, undo, lastNode, edits, clipboard, update>>

-----------------------------------------------------------------------------
(* What the user has in front of him: for every cell of the diagram its    *)
(* children in their order, its ends, the edges attached to it and its     *)
(* label; and the group entered.  The order in which a vertex lists its    *)
(* edges is not part of it.                                                *)

Document(m, view) ==
  [root |-> m.root, view |-> view,
   cells |-> [c \in Descendants(m, m.root) |->
                <<m.children[c], m.term[c], ToSet(m.edges[c]), m.value[c]>>]]

-----------------------------------------------------------------------------
(* mxUndoManager and mxUndoableEdit. *)

NewEdit(changes, significant) ==
  [changes |-> changes, significant |-> significant, undone |-> FALSE, redone |-> FALSE]

\* Mutant: trim() is forgotten, edits that were taken back stay in the history.
EditHappenedUntrimmed(h, edit, doc) ==
  LET full == Len(h.history) = Size
      Room(s) == IF full THEN Tail(s) ELSE s
      history == Append(Room(h.history), edit)
  IN  [history |-> history, indexOfNextAdd |-> Len(history), docs |-> Append(Room(h.docs), doc)]

\* undoableEditHappened: what was undone is dropped, then the oldest edit when
\* the history is full.
UndoableEditHappened(h, edit, doc) ==
  LET kept == SubSeq(h.history, 1, h.indexOfNextAdd)
      docs == SubSeq(h.docs, 1, h.indexOfNextAdd + 1)
      full == Len(kept) = Size
      Room(s) == IF full THEN Tail(s) ELSE s
      history == Append(Room(kept), edit)
  IN  [history |-> history, indexOfNextAdd |-> Len(history), docs |-> Append(Room(docs), doc)]

\* Executes changes in the given order; each one then holds what it replaced.
\* A change of the view swaps its current root.
Replay(s, changes) ==
  LET Step(acc, ch) ==
        IF ch.type = "view"
        THEN [acc EXCEPT !.view = ch.previous,
                         !.changes = Append(@, [ch EXCEPT !.previous = acc.view])]
        ELSE LET Done(r) == [acc EXCEPT !.model = r.model, !.changes = Append(@, r.change)]
             IN  Done(ExecuteChange(acc.model, ch))
  IN  FoldLeft(Step, [model |-> s.model, view |-> s.view, changes |-> << >>], changes)

\* mxGraphView.setCurrentRoot: the edits of the view are not significant.
SetCurrentRoot(s, r, doc) ==
  IF s.view = r THEN s
  ELSE LET edit == NewEdit(<<[type |-> "view", previous |-> s.view]>>, FALSE)
       IN  [s EXCEPT !.view = r,
                     !.undo = UndoableEditHappened(@, edit, [doc EXCEPT !.view = r])]

\* processChange on every change: when the current root itself has left the
\* model the view goes home, and reports that before the model's own edit.  It
\* would also go home from inside a collapsed cell, which the page has none of.
Notify(s, changes, doc) ==
  LET gone == \E i \in DOMAIN changes :
                /\ changes[i].type = "child"
                /\ changes[i].cell = s.view
                /\ ~InModel(s.model, s.model.parent[changes[i].cell])
  IN  IF gone THEN SetCurrentRoot(s, None, doc) ELSE s

\* Mutant: mxUndoableEdit.undo carries the changes out first to last.
UndoEditForwards(s, i) ==
  LET edit == s.undo.history[i]
      Done(r) == [edit EXCEPT !.changes = r.changes, !.undone = TRUE, !.redone = FALSE]
      After(r) == [model |-> r.model, view |-> r.view,
                   undo |-> [s.undo EXCEPT !.history[i] = Done(r), !.indexOfNextAdd = i - 1]]
  IN  After(Replay(s, edit.changes))

\* mxUndoableEdit.undo: last change first, and at most once.
UndoEdit(s, i) ==
  LET edit == s.undo.history[i]
      Done(r) == [edit EXCEPT !.changes = Reverse(r.changes), !.undone = TRUE, !.redone = FALSE]
      After(r) == [model |-> r.model, view |-> r.view,
                   undo |-> [s.undo EXCEPT !.history[i] = Done(r), !.indexOfNextAdd = i - 1]]
  IN  IF edit.undone THEN [s EXCEPT !.undo.indexOfNextAdd = i - 1]
      ELSE After(Replay(s, Reverse(edit.changes)))

\* mxUndoableEdit.redo: first change first.
RedoEdit(s, i) ==
  LET edit == s.undo.history[i]
      Done(r) == [edit EXCEPT !.changes = r.changes, !.undone = FALSE, !.redone = TRUE]
      After(r) == [model |-> r.model, view |-> r.view,
                   undo |-> [s.undo EXCEPT !.history[i] = Done(r), !.indexOfNextAdd = i]]
  IN  IF edit.redone THEN [s EXCEPT !.undo.indexOfNextAdd = i]
      ELSE After(Replay(s, edit.changes))

\* Mutant: the loop goes on whatever the edit.
RECURSIVE UndoLoopOn(_)
UndoLoopOn(s) ==
  IF s.undo.indexOfNextAdd = 0 THEN s ELSE UndoLoopOn(UndoEdit(s, s.undo.indexOfNextAdd))

\* mxUndoManager.undo: edits are taken back up to a significant one.
RECURSIVE UndoLoop(_)
UndoLoop(s) ==
  LET i == s.undo.indexOfNextAdd
      Notified(t) == Notify(t, t.undo.history[i].changes, Document(t.model, None))
      GoOn(t) == IF s.undo.history[i].significant THEN t ELSE UndoLoop(t)
  IN  IF i = 0 THEN s ELSE GoOn(Notified(UndoEdit(s, i)))

\* mxUndoManager.redo; n is the length of the history at the start.
RECURSIVE RedoLoop(_, _)
RedoLoop(s, n) ==
  LET i == s.undo.indexOfNextAdd + 1
      Notified(t) == Notify(t, t.undo.history[i].changes, Document(t.model, None))
      GoOn(t) == IF s.undo.history[i].significant THEN t ELSE RedoLoop(t, n)
  IN  IF i > n THEN s ELSE GoOn(Notified(RedoEdit(s, i)))

\* endUpdate at level 0: an empty edit is not reported.  The listeners of the
\* change run before the edit reaches the history.
EndUpdate(s, st) ==
  IF st.edit = << >> THEN s
  ELSE LET before == s.undo.docs[s.undo.indexOfNextAdd + 1]
           Report(n) == [n EXCEPT !.undo =
                           UndoableEditHappened(@, NewEdit(st.edit, TRUE), Document(n.model, n.view))]
       IN  Report(Notify([s EXCEPT !.model = st.model], st.edit, before))

-----------------------------------------------------------------------------
(* The operations of mxGraph that several actions share. *)

\* cellsAdded for cells that come from elsewhere
CellsAdded(st, cells, p) ==
  LET n == Len(st.model.children[p])
      One(s, k) == Add(s, p, cells[k], n + k - 1)
  IN  FoldLeft(One, st, [k \in DOMAIN cells |-> k])

\* getAllEdges: the edges of the cells and of all they contain
AllEdges(m, cells) ==
  LET Below(c) == FlattenSeq([i \in DOMAIN Subtree(m, c) |-> m.edges[Subtree(m, c)[i]]])
  IN  FlattenSeq([i \in DOMAIN cells |-> Below(cells[i])])

\* addAllEdges, each cell once
AddAllEdges(m, cells) ==
  LET Once(acc, c) == IF c \in ToSet(acc) THEN acc ELSE Append(acc, c)
  IN  FoldLeft(Once, << >>, cells \o AllEdges(m, cells))

\* cellsRemoved: its callers pass all attached edges along, so no edge is left
\* to be disconnected.
CellsRemoved(st, cells) == FoldLeft(RemoveCell, st, cells)

RemoveCells(st, cells) == CellsRemoved(st, AddAllEdges(st.model, cells))

\* getEdgeValidationError with the page's settings: no dangling edges, no
\* loops, no second edge in the same direction.
EdgeValid(m, e, src, tgt) ==
  /\ src # None /\ tgt # None /\ src # tgt
  /\ \A d \in ToSet(m.edges[src]) \ {e} : ~(m.term[d][TRUE] = src /\ m.term[d][FALSE] = tgt)

\* importCells: clones are made of what the picture shows; an edge among the
\* topmost ones that is not valid is dropped, yet its ends go on listing it.
ImportCells(st, pic, clone, p) ==
  LET tops == [i \in DOMAIN pic.cells |-> clone[pic.cells[i]]]
      Valid(m) == SelectSeq(tops, LAMBDA c :
                    c \in EdgeCell => EdgeValid(m, c, m.term[c][TRUE], m.term[c][FALSE]))
      Into(s) == CellsAdded(s, Valid(s.model), p)
  IN  Into([st EXCEPT !.model = CloneCells(@, pic, clone)])

\* The calls that an operation makes between beginUpdate and endUpdate.
AddCells(cells, p) == [fn |-> "cellsAdded", cells |-> cells, parent |-> p]
DropCells(cells)   == [fn |-> "removeCells", cells |-> cells]
Terminal(e, v, s)  == [fn |-> "setTerminal", edge |-> e, end |-> v, isSource |-> s]
Change(ch)         == [fn |-> "execute", change |-> ch]
Import(pic, clone, p) == [fn |-> "importCells", picture |-> pic, clone |-> clone, parent |-> p]

\* insertEdge: the edge is added first, then its ends are connected.
InsertEdgeCell(e, p, src, tgt) ==
  <<AddCells(<<e>>, p)>> \o
  (IF src = None THEN << >> ELSE <<Terminal(e, src, TRUE)>>) \o <<Terminal(e, tgt, FALSE)>>

Perform(st, call) ==
  CASE call.fn = "cellsAdded"  -> CellsAdded(st, call.cells, call.parent)
    [] call.fn = "removeCells" -> RemoveCells(st, call.cells)
    [] call.fn = "importCells" -> ImportCells(st, call.picture, call.clone, call.parent)
    [] call.fn = "setTerminal" -> SetTerminal(st, call.edge, call.end, call.isSource)
    [] call.fn = "execute"     -> Execute(st, call.change)

-----------------------------------------------------------------------------
(* The page. *)

Init ==
  LET parent == [c \in Cell |-> IF c = Layer THEN Root
                                ELSE IF c \in DOMAIN SavedTree THEN SavedTree[c] ELSE None]
      blank == [root |-> Root, parent |-> parent,
                children |-> [p \in Cell |-> SetToSeq({c \in Cell : parent[c] = p})],
                term |-> [c \in Cell |-> [s \in BOOLEAN |-> None]],
                edges |-> [c \in Cell |-> << >>],
                id |-> [c \in Cell |-> None], nextId |-> 0, cells |-> [i \in Ids |-> None],
                value |-> [c \in Cell |-> Head(Labels)]]
      decoded == IF Saved = None THEN blank ELSE CellAdded(blank, Saved)
      fresh == [decoded EXCEPT !.nextId = 0, !.cells = [i \in Ids |-> None]]
  IN  /\ model = CellAdded(fresh, Root)
      /\ currentRoot = None
      /\ undo = [history |-> << >>, indexOfNextAdd |-> 0, docs |-> <<Document(model, None)>>]
      /\ lastNode = None
      /\ edits = 0
      /\ clipboard = Picture(model, << >>)
      /\ update = << >>

Page == [model |-> model, view |-> currentRoot, undo |-> undo]

\* The page after an operation.
Becomes(s) == model' = s.model /\ currentRoot' = s.view /\ undo' = s.undo

Offered(op) == op \in Ops /\ edits < MaxEdits /\ edits' = edits + 1

\* The calls of an operation on the model are carried out and reported as one
\* edit.
Commit == Becomes(EndUpdate(Page, FoldLeft(Perform, Begin(model), update')))

getDefaultParent ==
  IF currentRoot # None THEN currentRoot ELSE Head(model.children[model.root])

\* Objects to be created by "new mxCell" or by cloning: they have no id and, not
\* being clones that were dropped, no ends and no label.
Unborn(S) ==
  {c \in S : /\ model.id[c] = None /\ model.value[c] = Head(Labels)
             /\ \A s \in BOOLEAN : model.term[c][s] = None}
New(S) == CHOOSE c \in Unborn(S) : TRUE

\* Cells that can be selected: what the view shows, and what an earlier undo or
\* redo has selected anywhere in the model.
Selectable ==
  (Vertex \cup Group \cup EdgeCell) \cap
  (Descendants(model, model.root) \cup
   (IF currentRoot = None THEN {} ELSE Descendants(model, currentRoot)))

\* What can be pointed at: the cells below the view's root.
Displayed ==
  LET top == IF currentRoot = None THEN model.root ELSE currentRoot
  IN  {c \in Selectable : top \in ToSet(Tail(Path(model, c)))}

\* One cell, two, or with Ctrl-A all that the default parent holds.
Selections ==
  {<<c>> : c \in Selectable} \cup {s \in Selectable \X Selectable : s[1] # s[2]} \cup
  ({model.children[getDefaultParent]} \ {<< >>})

\* leftpanel.js: an element of the side bar is dropped on the diagram.
DropVertex ==
  /\ Offered("drop") /\ Unborn(Vertex) # {}
  /\ update' = <<AddCells(<<New(Vertex)>>, getDefaultParent)>>
  /\ UNCHANGED <<lastNode, clipboard>>

\* append(): a vertex and an edge from the one appended before, if any.
AppendNode ==
  /\ Offered("append") /\ Unborn(Vertex) # {} /\ Unborn(EdgeCell) # {}
  /\ lastNode' = New(Vertex)
  /\ update' = <<AddCells(<<New(Vertex)>>, getDefaultParent)>> \o
               InsertEdgeCell(New(EdgeCell), getDefaultParent, lastNode, New(Vertex))
  /\ UNCHANGED clipboard

\* mxConnectionHandler.connect: groups are not connectable.
ConnectVertices(src, tgt) ==
  /\ Offered("connect") /\ Unborn(EdgeCell) # {} /\ EdgeValid(model, None, src, tgt)
  /\ LET siblings == /\ model.parent[src] = model.parent[tgt]
                     /\ model.parent[model.parent[src]] # model.root
         p == IF siblings THEN model.parent[src] ELSE getDefaultParent
     IN  update' = InsertEdgeCell(New(EdgeCell), p, src, tgt)
  /\ UNCHANGED <<lastNode, clipboard>>

\* mxEdgeHandler.connect: one end of an edge is dragged to another vertex.
Reconnect(e, v, isSource) ==
  /\ Offered("reconnect")
  /\ v # model.term[e][isSource]
  /\ IF isSource THEN EdgeValid(model, e, v, model.term[e][FALSE]) ELSE EdgeValid(model, e, model.term[e][TRUE], v)
  /\ update' = <<Terminal(e, v, isSource)>>
  /\ UNCHANGED <<lastNode, clipboard>>

\* The Delete key and the context menu: graph.removeCells().
DeleteSelection(cells) ==
  /\ Offered("delete")
  /\ update' = <<DropCells(cells)>>
  /\ UNCHANGED <<lastNode, clipboard>>

\* Ctrl-G: the selected children of one parent move into a new group.
GroupSelection(p, S) ==
  /\ Offered("group") /\ Unborn(Group) # {} /\ S \ EdgeCell # {}
  /\ LET g == New(Group)
         sorted == SelectSeq(model.children[p], LAMBDA c : c \in S)
     IN  update' = <<AddCells(<<g>>, p), AddCells(sorted, g)>>
  /\ UNCHANGED <<lastNode, clipboard>>

\* Ctrl-U: the children move up, the emptied cell and its edges are removed.
Ungroup(g) ==
  /\ Offered("ungroup") /\ model.children[g] # << >>
  /\ update' = <<AddCells(model.children[g], model.parent[g]), DropCells(<<g>>)>>
  /\ UNCHANGED <<lastNode, clipboard>>

\* A vertex is dragged into a cell with children, or out to the default parent.
MoveInto(c, target) ==
  /\ Offered("move")
  /\ target # model.parent[c] /\ ~IsAncestor(model, c, target)
  /\ target = getDefaultParent \/ (target \notin EdgeCell /\ model.children[target] # << >>)
  /\ update' = <<AddCells(<<c>>, target)>>
  /\ UNCHANGED <<lastNode, clipboard>>

\* A vertex is dropped on an edge: a new edge leads to it, the old one leaves it.
SplitEdge(e, c) ==
  /\ Offered("split") /\ Unborn(EdgeCell) # {}
  /\ LET src == model.term[e][TRUE]
         p   == model.parent[e]
     IN  /\ EdgeValid(model, e, src, c)
         /\ ~IsAncestor(model, c, src) /\ ~IsAncestor(model, c, model.term[e][FALSE])
         /\ update' = <<AddCells(<<c>>, p)>> \o InsertEdgeCell(New(EdgeCell), p, src, c)
                      \o <<Terminal(e, c, TRUE)>>
  /\ UNCHANGED <<lastNode, clipboard>>

\* F2 and typing: graph.labelChanged
EditLabel(c, label) ==
  /\ Offered("label") /\ label # model.value[c]
  /\ update' = <<Change(ValueChange(c, label))>>
  /\ UNCHANGED <<lastNode, clipboard>>

\* Ctrl-X: what is cut is copied first.
Cut(cells) ==
  /\ Offered("cut")
  /\ LET top == TopmostCells(model, cells)
     IN  clipboard' = Picture(model, top) /\ update' = <<DropCells(top)>>
  /\ UNCHANGED lastNode

\* Ctrl-V: the clipboard's cells are cloned again into the default parent.
Paste ==
  LET all == ToSet(clipboard.order)
      Kinds == {Vertex, Group, EdgeCell}
      Nth(S, c) == SelectInSeq(SetToSeq(S), LAMBDA d : d = c)
      Made(K, c) == SetToSeq(Unborn(K))[Nth(all \cap K, c)]
      clone == [c \in all |-> Made(CHOOSE K \in Kinds : c \in K, c)]
  IN  /\ Offered("paste") /\ all # {}
      /\ \A K \in Kinds : Cardinality(all \cap K) <= Cardinality(Unborn(K))
      /\ update' = <<Import(clipboard, clone, getDefaultParent)>>
      /\ UNCHANGED <<lastNode, clipboard>>

\* Ctrl-C; an empty selection empties the clipboard.  A copy that leaves it as it
\* is counts for nothing.
Copy(cells) ==
  /\ Offered("copy")
  /\ clipboard' = Picture(model, TopmostCells(model, cells))
  /\ clipboard' # clipboard
  /\ UNCHANGED <<model, currentRoot, undo, lastNode, update>>

\* restore(): the saved tree replaces the root of the model.
Restore ==
  /\ Offered("restore") /\ Saved # None
  /\ \A i \in DOMAIN undo.docs : undo.docs[i].root # Saved
  /\ update' = <<Change(RootChange(Saved))>>
  /\ UNCHANGED <<lastNode, clipboard>>

\* Page Down: enterGroup
EnterGroup(c) ==
  /\ Offered("enter") /\ c # currentRoot
  /\ Becomes(SetCurrentRoot(Page, c, Document(model, c)))
  /\ UNCHANGED <<lastNode, clipboard, update>>

\* Page Up: exitGroup, to the parent or, below a layer, to the whole diagram.
ExitGroup ==
  /\ Offered("exit") /\ currentRoot # None
  /\ LET next == model.parent[currentRoot]
         to == IF next = model.root \/ model.parent[next] = model.root THEN None ELSE next
     IN  /\ next # None
         /\ Becomes(SetCurrentRoot(Page, to, Document(model, to)))
  /\ UNCHANGED <<lastNode, clipboard, update>>

\* Home key
Home ==
  /\ Offered("home") /\ currentRoot # None
  /\ Becomes(SetCurrentRoot(Page, None, Document(model, None)))
  /\ UNCHANGED <<lastNode, clipboard, update>>

\* Ctrl-Z, Ctrl-Y
Undo ==
  /\ undo.indexOfNextAdd > 0
  /\ Becomes(UndoLoop(Page))
  /\ UNCHANGED <<lastNode, edits, clipboard, update>>

Redo ==
  /\ undo.indexOfNextAdd < Len(undo.history)
  /\ Becomes(RedoLoop(Page, Len(undo.history)))
  /\ UNCHANGED <<lastNode, edits, clipboard, update>>

Operation ==
  \/ DropVertex \/ AppendNode
  \/ \E s, t \in Vertex \cap Displayed : ConnectVertices(s, t)
  \/ \E e \in EdgeCell \cap Displayed, v \in Vertex \cap Displayed, s \in BOOLEAN : Reconnect(e, v, s)
  \/ \E cells \in Selections : DeleteSelection(cells)
  \/ \E p \in Cell : \E S \in SUBSET (ToSet(model.children[p]) \cap Selectable) : GroupSelection(p, S)
  \/ \E g \in Selectable : Ungroup(g)
  \/ \E c \in Displayed \ EdgeCell, target \in Displayed \cup {getDefaultParent} : MoveInto(c, target)
  \/ \E e \in EdgeCell \cap Displayed, c \in Vertex \cap Displayed : SplitEdge(e, c)
  \/ \E c \in Displayed, l \in ToSet(Labels) : EditLabel(c, l)
  \/ \E cells \in Selections : Cut(cells)
  \/ Paste \/ Restore

Next ==
  \/ Operation /\ Commit
  \/ \E cells \in Selections \cup {<< >>} : Copy(cells)
  \/ \E c \in Selectable \ EdgeCell : EnterGroup(c)
  \/ ExitGroup \/ Home \/ Undo \/ Redo

Spec == Init /\ [][Next]_vars

-----------------------------------------------------------------------------
(* Properties. *)

Changes ==
  [type : {"child"}, cell : Cell, previous : Cell \cup {None}, previousIndex : Nat] \cup
  [type : {"terminal"}, cell : EdgeCell, previous : Cell \cup {None}, source : BOOLEAN] \cup
  [type : {"value"}, cell : Cell, previous : ToSet(Labels)] \cup
  [type : {"root"}, previous : Cell] \cup
  [type : {"view"}, previous : Cell \cup {None}]

\* The history is no longer than its size, the index points into it, and the
\* edits before the index are the ones that are in effect.
TypeOK ==
  /\ model.root \in Cell /\ model.nextId \in Nat
  /\ currentRoot \in Cell \cup {None} /\ lastNode \in Vertex \cup {None}
  /\ Len(undo.history) <= Size /\ undo.indexOfNextAdd \in 0..Len(undo.history)
  /\ Len(undo.docs) = Len(undo.history) + 1
  /\ \A i \in DOMAIN undo.history :
       /\ ToSet(undo.history[i].changes) \subseteq Changes
       /\ undo.history[i].undone = (i > undo.indexOfNextAdd)

\* Undo and redo lead exactly to the document that lay between two edits when
\* they were made: tree, order of children, ends of all edges, labels, root and
\* the group entered, whatever the edits did and however often one goes back
\* and forth (mxUndoManager, the execute functions of the changes).
UndoRedoExact == Document(model, currentRoot) = undo.docs[undo.indexOfNextAdd + 1]

\* The history keeps what EditHistory promises, through operations that report
\* one edit or two, or none: each step of undo and redo is the one that depends
\* on the edits' marks only, and the documents come back exactly, although an
\* edit is no more than a list of changes (mxUndoManager, processChange).
History == INSTANCE EditHistory
             WITH Lost <- None,
                  doc <- Document(model, currentRoot),
                  history <- [i \in DOMAIN undo.history |->
                                [before |-> undo.docs[i], after |-> undo.docs[i + 1],
                                 significant |-> undo.history[i].significant,
                                 undone |-> undo.history[i].undone,
                                 redone |-> undo.history[i].redone]],
                  indexOfNextAdd <- undo.indexOfNextAdd
KeepsHistory == History!HistorySpec

\* Ctrl-Z takes back one edit of the model together with the moves of the view
\* made since, Ctrl-Y brings back one together with the moves made before it:
\* never two edits of the model, and never the history itself (the loops of
\* mxUndoManager.undo and redo over edits that are not significant).
OneEditPerStep ==
  [][edits' = edits =>
       LET lo == Min({undo.indexOfNextAdd, undo'.indexOfNextAdd})
           hi == Max({undo.indexOfNextAdd, undo'.indexOfNextAdd})
       IN  /\ undo'.docs = undo.docs
           /\ Quantify(lo + 1 .. hi, LAMBDA i : undo.history[i].significant) <= 1]_vars

\* Parents and lists of children describe the same tree: a cell is listed once,
\* by its parent, and by nobody else (mxCell.insert, remove).
TreeConsistent ==
  \A p, c \in Cell :
    Quantify(DOMAIN model.children[p], LAMBDA i : model.children[p][i] = c)
      = IF model.parent[c] = p THEN 1 ELSE 0

\* An edge of the diagram is listed exactly once by each of its ends, and of the
\* edges that ever were in it a cell of the diagram lists only those that are and
\* end at it, also after the edge or a group around it was deleted and brought
\* back (mxChildChange.connect) and in what was pasted (restoreClone).
EndsListed ==
  \A v \in Cell, e \in EdgeCell :
    InModel(model, e) \/ (InModel(model, v) /\ model.id[e] # None) =>
    Quantify(DOMAIN model.edges[v], LAMBDA i : model.edges[v][i] = e)
      = IF InModel(model, e) /\ v \in {model.term[e][s] : s \in BOOLEAN} THEN 1 ELSE 0

\* The dictionary holds the cells of the diagram under their ids and nothing
\* else: ids are unique, getCell finds every cell of the diagram and no deleted
\* one (cellAdded, cellRemoved, rootChanged).
DictionaryExact ==
  LET shown == Descendants(model, model.root)
  IN  /\ \A c \in shown : model.id[c] # None /\ model.cells[model.id[c]] = c
      /\ \A i \in Ids : model.cells[i] \in shown \cup {None}
=============================================================================
