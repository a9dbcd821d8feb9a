----------------------------- MODULE ScopeStack -----------------------------
(***************************************************************************)
(* Scopes, layers and NewStack (scope_stack.go), and the priority          *)
(* ResolveWithDefaults picks for its defaults layer (pkg/state/types.go).  *)
(* A layer is a record with at least a name and a prio; the rest of it is  *)
(* carried along.                                                          *)
(***************************************************************************)
EXTENDS Integers, Sequences, FiniteSets

CONSTANTS MinInt, MaxInt   \* the range of Go's int

ASSUME IntRange == MinInt \in Int /\ MaxInt \in Int /\ MinInt < 0 /\ 0 < MaxInt

NoName       == ""
DefaultsName == "defaults"

StackErrors == {"name required", "duplicate name", "priority order"}

-----------------------------------------------------------------------------
(* NewStack looks at the layers in the order given: an empty name or one   *)
(* already seen ends the loop, whichever comes first.                      *)
Repeats(layers, i) == \E j \in 1..(i - 1) : layers[j].name = layers[i].name

Unacceptable(layers) ==
  {i \in DOMAIN layers : layers[i].name = NoName \/ Repeats(layers, i)}

First(indices) == CHOOSE i \in indices : \A j \in indices : i <= j

NameError(layers) ==
  IF layers[First(Unacceptable(layers))].name = NoName
  THEN "name required" ELSE "duplicate name"

WeakerFirst(a, b) == a.prio < b.prio

StrongerFirst(a, b) == a.prio > b.prio

Tied(layers) ==
  \E i, j \in DOMAIN layers : i # j /\ layers[i].prio = layers[j].prio

Elements(layers) == {layers[i] : i \in DOMAIN layers}

(* sort.Slice; where no two are tied there is one way to sort them.        *)
Sorted(layers) ==
  CHOOSE s \in [DOMAIN layers -> Elements(layers)] :
    \A i, j \in DOMAIN layers : i < j => StrongerFirst(s[i], s[j])

NewStack(layers) ==
  IF Unacceptable(layers) # {}
  THEN [err |-> NameError(layers), layers |-> << >>]
  ELSE IF Tied(layers)
  THEN [err |-> "priority order", layers |-> << >>]
  ELSE [err |-> "none", layers |-> Sorted(layers)]

-----------------------------------------------------------------------------
(* int arithmetic wraps.                                                   *)
Decrement(p) == IF p = MinInt THEN MaxInt ELSE p - 1

Priorities(scopes) == {scopes[i].prio : i \in DOMAIN scopes}

DefaultsBelowFirst(scopes) == IF scopes = << >> THEN 0 ELSE Decrement(scopes[1].prio)

(* One below the lowest requested priority, and then down to the first     *)
(* value no requested scope has.                                           *)
DefaultsPriority(scopes) ==
  IF scopes = << >> THEN 0
  ELSE LET taken == Priorities(scopes)
           down[p \in MinInt..MaxInt] ==
             IF p \in taken THEN down[Decrement(p)] ELSE p
       IN  down[Decrement(CHOOSE p \in taken : \A q \in taken : p <= q)]
=============================================================================
