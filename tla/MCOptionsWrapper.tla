--------------------------- MODULE MCOptionsWrapper ---------------------------
(* Two sources, two segments and two wrappers.                             *)
EXTENDS OptionsWrapper, TLC

CONSTANTS w1, w2

MCSegments == {"a", "b"}
MCRoot     == "root"
MCAbsent   == 0

(* Two sections to merge, and a number only the weak source has.           *)
Section(t) == Branch([NoSub EXCEPT ![t] = 1])
Strong     == [s \in MCSegments |-> IF s = "a" THEN Section("a") ELSE Leaf(MCAbsent)]
Weak       == [s \in MCSegments |-> IF s = "a" THEN Section("b") ELSE Leaf(1)]

MCSources == <<Strong, Weak>>

SwapWrappers == Permutations({w1, w2})
=============================================================================
