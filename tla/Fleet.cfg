SPECIFICATION Spec
CONSTANTS
  c1 = c1
  c2 = c2
  Client = {c1, c2}
  Compose <- ComposeFile
  External <- ByHand
  Asked <- Ids
  Numbered <- Nodes
  Faults = {}
SYMMETRY Symmetry
INVARIANTS TypeOK NodeIdNamesOne
