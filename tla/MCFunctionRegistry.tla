-------------------------- MODULE MCFunctionRegistry --------------------------
(* Three goroutines: one calls a function that calls another and registers *)
(* one, one registers the same name in other letters and calls it, and one *)
(* registers a third and copies.                                           *)
EXTENDS FunctionRegistry

CONSTANTS Outer, Inner, Sum, Other

Registering(s, f) == [op |-> "register", name |-> s, fn |-> f]
Calling(s)        == [op |-> "call", name |-> s, fn |-> None]
Copying(op)       == [op |-> op, name |-> None, fn |-> None]

MCSymbols == {"outer", "inner", "Sum", "sum", "last"}
MCLowered == [s \in MCSymbols |-> IF s = "Sum" THEN "sum" ELSE s]

MCBody ==
  [f \in {Outer, Inner, Sum, Other} |->
     IF f = Outer THEN <<Calling("inner"), Registering("Sum", Sum)>> ELSE << >>]

MCSeed == [s \in {"outer", "inner"} |-> IF s = "outer" THEN Outer ELSE Inner]

MCProgram ==
  [g \in {"caller", "registrar", "copier"} |->
     IF g = "caller" THEN <<Calling("outer"), Copying("names")>>
     ELSE IF g = "registrar"
     THEN <<Calling("last"), Registering("sum", Other), Calling("Sum"), Registering("last", Inner)>>
     ELSE <<Registering("last", None), Registering(None, Other), Copying("clone"),
            Calling("last")>>]
=============================================================================
