SPECIFICATION Spec
CONSTANTS
  root = root
  layer = layer
  root2 = root2
  layer2 = layer2
  v1 = v1
  v2 = v2
  v3 = v3
  v4 = v4
  v5 = v5
  e1 = e1
  e2 = e2
  e3 = e3
  e4 = e4
  g1 = g1
  g2 = g2
  none = none
  None = none
  Cell = {root, layer, root2, layer2, v1, v2, v3, e1, g1}
  EdgeCell = {e1}
  MaxId = 16
  Vertex = {v1, v2}
  Group = {g1}
  Root = root
  Layer = layer
  Saved = root2
  SavedTree <- MCSavedTree
  Labels <- MCLabels
  Ops = {"drop", "connect", "delete", "group", "ungroup", "move", "label", "restore", "enter", "exit", "home"}
  Size = 3
  MaxEdits = 5
PROPERTIES OneEditPerStep KeepsHistory
VIEW PageState
