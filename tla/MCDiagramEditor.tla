-------------------------- MODULE MCDiagramEditor --------------------------
EXTENDS DiagramEditor

CONSTANTS root, layer, root2, layer2, v1, v2, v3, v4, v5, e1, e2, e3, e4, g1, g2, none

MCLabels == <<"a", "b">>

\* restore() decodes a root, a layer and one vertex
MCSavedTree == (layer2 :> root2) @@ (v3 :> layer2)

\* The state without the calls of the latest operation, which nothing reads later.
PageState == <<model, currentRoot, undo, lastNode, edits, clipboard>>
=============================================================================
