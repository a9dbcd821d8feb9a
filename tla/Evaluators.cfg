SPECIFICATION Spec
CONSTANTS
  None = None
  greet = greet  Greet = Greet  f = f  h = h  k = k
  g1 = g1  g2 = g2
  w1 = w1  w2 = w2
  Names = {greet, Greet}
  Lower <- MCLower
  Fns = {f, h}
  NestedFns = {h}
  Registrations <- MCRegistrations
  Keys = {k}
  Requests <- MCRequests
  Wrappers = {w1, w2}
  Configs <- MCConfigs
  Capacity = 1
  Goroutines = {g1, g2}
  JsEval = TRUE
SYMMETRY Swap
INVARIANTS CacheIsTransparent PanicsOnlyOnFirstUse ErrorDescribesEvaluation
PROPERTIES FunctionsFixed
