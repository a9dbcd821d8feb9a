SPECIFICATION Spec
CONSTANTS
  Outer = Outer
  Inner = Inner
  Sum = Sum
  Other = Other
  None = None
  Goroutines = {"caller", "registrar", "copier"}
  Functions = {Outer, Inner, Sum, Other}
  Symbols <- MCSymbols
  Lowered <- MCLowered
  Body <- MCBody
  Program <- MCProgram
  Seed <- MCSeed
INVARIANTS RegistrationsStand CopiesAreOfAMoment
PROPERTIES EveryCallReturns
CHECK_DEADLOCK FALSE
