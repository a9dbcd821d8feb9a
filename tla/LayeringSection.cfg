SPECIFICATION Spec
CONSTANTS
  Segments = {"*", "0", "1", "a", "k", "x", "y", "Limit", "Flags", "Enabled", "Tags", "Quiet"}
  Numbers = {0, 1, 2, 7}
  Unexported = {}
  Depth = 5
  MaxLayers = 2
  Stacks <- Sections2
INVARIANTS MergeNeverPanics
