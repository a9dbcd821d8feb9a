SPECIFICATION Spec
CONSTANTS
  c1 = c1  c2 = c2
  capture = capture  sink = sink  user = user
  Calls = {c1, c2}
  Hooks = {capture, sink, user}
  Fallible = {user}
  KindOf <- MCKindOf
  ProgramMaps = {"m"}
  Lists <- MCLists
  Requests <- MCRequests
  Replacements = {Nil}
  Nil = Nil
  MaxHooks = 3
  MaxWrites = 1
SYMMETRY SwapCalls
INVARIANTS ProgramMapsUntouched RecordsOwnEvent EveryHookHears
PROPERTIES RecordsAreFinal
CONSTRAINT Separate
