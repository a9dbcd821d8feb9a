SPECIFICATION Spec
CONSTANTS
  w1 = w1  w2 = w2
  Segments <- MCSegments
  Root <- MCRoot
  Absent <- MCAbsent
  Numbers = {1}
  Sources <- MCSources
  Wrappers = {w1, w2}
  MaxAllocs = 10
  MaxWrites = 2
SYMMETRY SwapWrappers
INVARIANTS ProvenanceSurvivesSet
PROPERTIES StackNeverChanges SetShowsInCopiesOnly
