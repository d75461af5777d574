----------------------------- MODULE GraphModel -----------------------------
(***************************************************************************)
(* The graph model of the gateway's diagram editor (mxGraphModel, mxCell): *)
(* a tree of cells below a root, edges that connect vertices, a dictionary *)
(* from ids to cells, and the changes through which all of it is edited.   *)
(* A change carries what it replaces: executing it once more takes it      *)
(* back, which is all that undo and redo do.                               *)
(*                                                                         *)
(* A model m is a record:                                                  *)
(*   root, parent, children   the tree; children are ordered               *)
(*   term[e][s]               the source (s = TRUE) or target of edge e    *)
(*   edges[v]                 the edges that v believes to be attached     *)
(*   id, cells, nextId        ids of the cells and the dictionary of ids   *)
(*   value                    the label of a cell                          *)
(* Geometry and style are left out: their changes have the shape of the    *)
(* label's.  So is the collapsed mark: the page makes no cell foldable.    *)
(***************************************************************************)
EXTENDS Integers, SequencesExt

CONSTANTS
  Cell,     \* every cell object the instance may create
  EdgeCell, \* those of them that are edges
  None,     \* JavaScript's null
  MaxId     \* bound on the ids createId hands out

ASSUME GraphModelAssumption ==
  None \notin Cell /\ EdgeCell \subseteq Cell /\ MaxId \in Nat

Ids == 0..MaxId

-----------------------------------------------------------------------------
(* The tree. *)

\* The cell and its ancestors, bottom up.
Path(m, c) ==
  LET up[d \in Cell] ==
        IF m.parent[d] = None THEN <<d>> ELSE <<d>> \o up[m.parent[d]]
  IN  IF c = None THEN << >> ELSE up[c]

IsAncestor(m, p, c) == p \in ToSet(Path(m, c))

\* mxGraphModel.contains
InModel(m, c) == IsAncestor(m, m.root, c)

\* The cell and its descendants, parents before their children.
Subtree(m, c) ==
  LET pre[d \in Cell] ==
        <<d>> \o FlattenSeq([i \in DOMAIN m.children[d] |-> pre[m.children[d][i]]])
  IN  pre[c]

Descendants(m, c) == ToSet(Subtree(m, c))

\* The position of c below its parent, counted from 0 as in the source.
IndexOf(m, c) == SelectInSeq(m.children[m.parent[c]], LAMBDA d : d = c) - 1

\* mxCell.removeFromParent
RemoveFromParent(m, c) ==
  IF m.parent[c] = None THEN m
  ELSE [m EXCEPT !.children[m.parent[c]] = RemoveFirst(@, c),
                 !.parent[c] = None]

\* Mutant: mxCell.insert without removeFromParent.
InsertChildOnly(m, p, c, i) ==
  [m EXCEPT !.parent[c] = p, !.children[p] = InsertAt(@, Min({i, Len(@)}) + 1, c)]

\* mxCell.insert: the child leaves its old parent before the index is used,
\* and splice() appends when the index lies beyond the end.
InsertChild(m, p, c, i) ==
  LET Put(out) == [out EXCEPT !.parent[c] = p,
                              !.children[p] = InsertAt(@, Min({i, Len(@)}) + 1, c)]
  IN  Put(RemoveFromParent(m, c))

-----------------------------------------------------------------------------
(* The dictionary of ids. *)

\* Mutant: createId without a look at the dictionary.
NewIdUnchecked(m) == m.nextId

\* createId, repeated as long as the id is taken.
NewId(m) == Min({i \in Ids : i >= m.nextId /\ m.cells[i] = None})

\* cellAdded without its recursion: a cell keeps the id it has unless another
\* cell of the dictionary has it.
CellAddedOne(m, c) ==
  LET kept == IF m.id[c] = None THEN FALSE ELSE m.cells[m.id[c]] \in {None, c}
      i    == IF kept THEN m.id[c] ELSE NewId(m)
  IN  [m EXCEPT !.id[c] = i,
                !.cells[i] = c,
                !.nextId = Max({@, IF kept THEN i ELSE i + 1})]

CellAdded(m, c) == FoldLeft(CellAddedOne, m, Subtree(m, c))

\* cellRemoved: the entries under the ids of the whole subtree go, whatever
\* cell they hold.
CellRemoved(m, c) ==
  LET gone == {m.id[d] : d \in Descendants(m, c)}
  IN  [m EXCEPT !.cells = [i \in Ids |-> IF i \in gone THEN None ELSE @[i]]]

-----------------------------------------------------------------------------
(* The ends of an edge. *)

\* mxCell.removeEdge: a loop stays listed as long as its other end is here.
RemoveEdge(m, v, e, isSource) ==
  [m EXCEPT !.edges[v] = IF m.term[e][~isSource] # v THEN RemoveFirst(@, e) ELSE @,
            !.term[e][isSource] = None]

\* mxCell.insertEdge
InsertEdge(m, v, e, isSource) ==
  LET old == m.term[e][isSource]
      Listed(out) == out.term[e][~isSource] = v /\ e \in ToSet(out.edges[v])
      Put(out) == [out EXCEPT !.term[e][isSource] = v,
                              !.edges[v] = IF Listed(out) THEN @ ELSE Append(@, e)]
  IN  Put(IF old = None THEN m ELSE RemoveEdge(m, old, e, isSource))

TerminalForCellChanged(m, e, v, isSource) ==
  CASE v # None -> InsertEdge(m, v, e, isSource)
    [] v = None /\ m.term[e][isSource] # None ->
         RemoveEdge(m, m.term[e][isSource], e, isSource)
    [] OTHER -> m

\* mxChildChange.connect for one cell: both ends are taken out of, or put back
\* into, the lists of their terminals; the edge itself remembers its ends.
ConnectOne(m, c, isConnect) ==
  LET At(n, s) == IF m.term[c][s] = None THEN n
                  ELSE TerminalForCellChanged(n, c, IF isConnect THEN m.term[c][s] ELSE None, s)
  IN  [At(At(m, TRUE), FALSE) EXCEPT !.term[c] = m.term[c]]

\* Mutant: only the cell itself, not what it contains.
ConnectFlat(m, c, isConnect) == ConnectOne(m, c, isConnect)

Connect(m, c, isConnect) ==
  FoldLeft(LAMBDA n, d : ConnectOne(n, d, isConnect), m, Subtree(m, c))

-----------------------------------------------------------------------------
(* Changes. *)

\* A change of the parent, of an end, of the label, of the root of the model.
ChildChange(c, p, i)      == [type |-> "child", cell |-> c, previous |-> p, previousIndex |-> i]
TerminalChange(e, v, s)   == [type |-> "terminal", cell |-> e, previous |-> v, source |-> s]
ValueChange(c, v)         == [type |-> "value", cell |-> c, previous |-> v]
RootChange(r)             == [type |-> "root", previous |-> r]

ParentForCellChanged(m, c, p, i) ==
  LET previous == m.parent[c]
      Inserted == IF p = previous /\ IndexOf(m, c) = i THEN m ELSE InsertChild(m, p, c, i)
      Known(moved) == IF InModel(moved, previous) THEN moved ELSE CellAdded(moved, c)
  IN  IF p = None THEN CellRemoved(RemoveFromParent(m, c), c) ELSE Known(Inserted)

\* Mutant: the index the cell had is not kept.
ChildChangeNoIndex(m, ch) ==
  LET c == ch.cell
      p == ch.previous
      Out == IF p = None THEN Connect(m, c, FALSE) ELSE m
      Back(moved) == IF p = None THEN moved ELSE Connect(moved, c, TRUE)
  IN  [model |-> Back(ParentForCellChanged(Out, c, p, ch.previousIndex)),
       change |-> [ch EXCEPT !.previous = m.parent[c]]]

\* mxChildChange.execute: a cell is disconnected before it leaves, and
\* connected again after it has come.
ExecuteChild(m, ch) ==
  LET c == ch.cell
      p == ch.previous
      Out == IF p = None THEN Connect(m, c, FALSE) ELSE m
      Back(moved) == IF p = None THEN moved ELSE Connect(moved, c, TRUE)
  IN  [model |-> Back(ParentForCellChanged(Out, c, p, ch.previousIndex)),
       change |-> [ch EXCEPT !.previous = m.parent[c],
                             !.previousIndex = IF m.parent[c] = None THEN 0 ELSE IndexOf(m, c)]]

\* mxTerminalChange.execute
ExecuteTerminal(m, ch) ==
  [model |-> TerminalForCellChanged(m, ch.cell, ch.previous, ch.source),
   change |-> [ch EXCEPT !.previous = m.term[ch.cell][ch.source]]]

\* mxValueChange.execute
ExecuteValue(m, ch) ==
  [model |-> [m EXCEPT !.value[ch.cell] = ch.previous],
   change |-> [ch EXCEPT !.previous = m.value[ch.cell]]]

\* mxRootChange.execute and rootChanged: ids are counted anew.
ExecuteRoot(m, ch) ==
  LET empty == [m EXCEPT !.root = ch.previous, !.nextId = 0, !.cells = [i \in Ids |-> None]]
  IN  [model |-> CellAdded(empty, ch.previous),
       change |-> [ch EXCEPT !.previous = m.root]]

ExecuteChange(m, ch) ==
  CASE ch.type = "child"    -> ExecuteChild(m, ch)
    [] ch.type = "terminal" -> ExecuteTerminal(m, ch)
    [] ch.type = "value"    -> ExecuteValue(m, ch)
    [] ch.type = "root"     -> ExecuteRoot(m, ch)

-----------------------------------------------------------------------------
(* Transactions.  A transaction st is the model and the changes carried     *)
(* out since the outermost beginUpdate.                                     *)

Begin(m) == [model |-> m, edit |-> << >>]

\* mxGraphModel.execute inside an update
Execute(st, ch) ==
  LET Record(r) == [model |-> r.model, edit |-> Append(st.edit, r.change)]
  IN  Record(ExecuteChange(st.model, ch))

\* The deepest cell above both (or one of them when it is above the other)
\* that is not a root.
NearestCommonAncestor(m, c, d) ==
  LET common == SelectSeq(Path(m, c), LAMBDA x : IsAncestor(m, x, d) /\ m.parent[x] # None)
  IN  IF common = << >> THEN None ELSE Head(common)

\* The cell an edge belongs to: where its ends meet, except that an edge is
\* never taken into another layer.  The add() of the source ends with this
\* change, because nothing is attached to an edge or contained in it.
UpdateEdgeParent(st, e, root) ==
  LET m   == st.model
      src == m.term[e][TRUE]
      tgt == m.term[e][FALSE]
      Meet == CASE ~(IsAncestor(m, root, src) /\ IsAncestor(m, root, tgt)) -> None
                [] src = tgt -> m.parent[src]
                [] OTHER -> NearestCommonAncestor(m, src, tgt)
      Moves(to) == /\ to # None
                   /\ m.parent[e] # to
                   /\ m.parent[to] # m.root \/ IsAncestor(m, to, e)
      MoveTo(to) == IF Moves(to) THEN Execute(st, ChildChange(e, to, Len(m.children[to]))) ELSE st
  IN  MoveTo(Meet)

\* Children are addressed by position while edges may leave the list: the
\* number of rounds is fixed at the start, a position may then be empty.
RECURSIVE UpdateEdgeParents(_, _, _)
UpdateEdgeParents(st, c, root) ==
  LET Child(s, i) == IF i > Len(s.model.children[c]) THEN s
                     ELSE UpdateEdgeParents(s, s.model.children[c][i], root)
      Edge(s, e) == IF IsAncestor(s.model, root, e) THEN UpdateEdgeParent(s, e, root) ELSE s
      Edges(s) == FoldLeft(Edge, s, s.model.edges[c])
  IN  Edges(FoldLeft(Child, st, [i \in DOMAIN st.model.children[c] |-> i]))

\* mxGraphModel.add
Add(st, p, c, i) ==
  LET Then(s) == IF st.model.parent[c] = p THEN s
                 ELSE UpdateEdgeParents(s, c, Last(Path(s.model, c)))
  IN  IF c = p \/ p = None THEN st ELSE Then(Execute(st, ChildChange(c, p, i)))

\* mxGraphModel.remove for a cell that is not the root
RemoveCell(st, c) ==
  IF st.model.parent[c] = None THEN st ELSE Execute(st, ChildChange(c, None, 0))

\* mxGraphModel.setTerminal
SetTerminal(st, e, v, isSource) ==
  LET Then(s) == IF st.model.term[e][isSource] = v THEN s
                 ELSE UpdateEdgeParent(s, e, s.model.root)
  IN  Then(Execute(st, TerminalChange(e, v, isSource)))

-----------------------------------------------------------------------------
(* Clones. *)

\* getTopmostCells: those of the cells that are in no other of them.
TopmostCells(m, cells) ==
  SelectSeq(cells, LAMBDA c : \A d \in ToSet(cells) \ {c} : ~IsAncestor(m, d, c))

\* What a clone of cells looks like, each cloned cell named by its original.
\* An end that is not cloned along is lost.
Picture(m, cells) ==
  LET order == FlattenSeq([i \in DOMAIN cells |-> Subtree(m, cells[i])])
      all == ToSet(order)
      Kept(v) == IF v \in all THEN v ELSE None
  IN  [cells |-> cells, order |-> order,
       children |-> [c \in all |-> m.children[c]],
       term |-> [c \in all |-> [s \in BOOLEAN |-> Kept(m.term[c][s])]],
       value |-> [c \in all |-> m.value[c]]]

\* restoreClone for one cell
RestoreClone(m, pic, clone, c) ==
  LET At(n, s) == IF pic.term[c][s] = None THEN n
                  ELSE InsertEdge(n, clone[pic.term[c][s]], clone[c], s)
  IN  At(At(m, TRUE), FALSE)

\* mxGraphModel.cloneCells: the objects clone[c] are made after the picture,
\* children first, then the ends.  They are in no diagram yet.
CloneCells(m, pic, clone) ==
  LET Child(n, p, d) == InsertChild(n, clone[p], clone[d], Len(n.children[clone[p]]))
      Copied(n, c) == [n EXCEPT !.value[clone[c]] = pic.value[c]]
      One(n, c) == FoldLeft(LAMBDA k, d : Child(k, c, d), Copied(n, c), pic.children[c])
  IN  FoldLeft(LAMBDA n, c : RestoreClone(n, pic, clone, c), FoldLeft(One, m, pic.order), pic.order)
=============================================================================
