------------------------------ MODULE Layering ------------------------------
(***************************************************************************)
(* MergeLayers (layering/merge.go): the snapshots of a stack, strongest    *)
(* first, folded into one value from the weakest up.                       *)
(***************************************************************************)
EXTENDS Values

CONSTANTS
  Stacks,     \* the sequences of snapshots to merge
  MaxLayers   \* bound: the length of a stack

ASSUME StacksAssumption ==
  /\ MaxLayers \in Nat
  /\ \A s \in Stacks : /\ Len(s) \in 1..MaxLayers /\ DOMAIN s = 1..Len(s)
                       /\ \A i \in 1..Len(s) : s[i] \in Upto[Depth]

VARIABLES layers,   \* the snapshots, strongest first
          todo,     \* how many layers are still to be merged on top
          merged    \* the value so far

vars == <<layers, todo, merged>>

-----------------------------------------------------------------------------
GivesWay(v) == v.kind = "invalid" \/ IsNil(v)

ByParts == {"ptr", "iface", "struct", "array"}

(* Nothing or nil gives way to the weaker value.  Pointers, interfaces,    *)
(* structs and arrays merge part by part, maps key by key; slices and      *)
(* scalars of the stronger value win as they are, zero or not.             *)
MergeBy(n, sub, strong, weak) ==
  LET below == IF weak.kind = "map" THEN Segs(weak) ELSE {}
  IN  IF GivesWay(strong) THEN CloneUpto[n][weak]
      ELSE IF strong.kind \in ByParts
      THEN Build(strong, [x \in Segs(strong) |-> sub[strong.at[x]][At(weak, strong, x)]])
      ELSE IF strong.kind = "map"
      THEN Build(strong, [x \in Segs(strong) \cup below |->
             IF x \in Segs(strong) \cap below
             THEN sub[strong.at[x]][CloneUpto[n - 1][weak.at[x]]]
             ELSE CloneUpto[n - 1][IF x \in below THEN weak.at[x] ELSE strong.at[x]]])
      ELSE CloneUpto[n][strong]

MergeUpto[n \in 0..Depth] ==
  [strong \in Outcomes(n) |-> [weak \in Outcomes(n) |->
     MergeBy(n, MergeUpto[n - 1], strong, weak)]]

(* As a JSON merge patch: what is nil in a map erases the key.             *)
PatchUpto[n \in 0..Depth] ==
  [strong \in Outcomes(n) |-> [weak \in Outcomes(n) |->
     IF GivesWay(strong) THEN weak
     ELSE IF strong.kind = "struct"
     THEN Build(strong, [x \in Segs(strong) |->
                           PatchUpto[n - 1][strong.at[x]][At(weak, strong, x)]])
     ELSE IF strong.kind = "map"
     THEN Build(strong, [x \in {y \in Segs(strong) \cup Segs(weak) : ~IsNil(Part(strong, y))} |->
                           IF x \in Segs(strong) THEN strong.at[x] ELSE weak.at[x]])
     ELSE strong]]

MergePatch(strong, weak)   == PatchUpto[Depth][strong][weak]
MergeShallow(strong, weak) == CloneValue(IF GivesWay(strong) THEN weak ELSE strong)
MergeValue(strong, weak)   == MergeUpto[Depth][strong][weak]

(* MergeLayers starts from a clone of the weakest layer ...                *)
Init ==
  /\ layers \in Stacks
  /\ todo = Len(layers) - 1
  /\ merged = CloneValue(layers[Len(layers)])

(* ... and puts the next stronger one on top, until reflect panics.        *)
MergeNext ==
  /\ todo > 0
  /\ merged # Panic
  /\ merged' = MergeValue(layers[todo], merged)
  /\ todo' = todo - 1
  /\ UNCHANGED layers

Complete == todo = 0 /\ merged # Panic

Finished == (Complete \/ merged = Panic) /\ UNCHANGED vars

Next == MergeNext \/ Finished

Spec == Init /\ [][Next]_vars

-----------------------------------------------------------------------------
(* What layering is meant to compute, all layers at once: at every place   *)
(* in the tree, the strongest layer that has something there decides; if   *)
(* that is a composite other than a slice, each of its parts is the        *)
(* overlay of that part in it and in the layers below it that are alike.   *)
(* vs has for each layer what is there, or Invalid.                        *)
There(vs) == {i \in DOMAIN vs : vs[i] # Invalid}
Live(vs)  == {i \in There(vs) : ~IsNil(vs[i])}

First(is) == CHOOSE i \in is : \A j \in is : i <= j
Last(is)  == CHOOSE i \in is : \A j \in is : j <= i

Agreeing(vs) ==
  {i \in Live(vs) : \A j \in Live(vs) : j <= i => Alike(vs[First(Live(vs))], vs[j])}

(* A part of an array that ends earlier in one layer is not looked for     *)
(* below that one.                                                         *)
Suppliers(vs, x) ==
  {i \in Agreeing(vs) :
     vs[i].kind = "map" \/ \A j \in Agreeing(vs) : j <= i => x \in Segs(vs[j])}

Parts(vs, x) == [i \in DOMAIN vs |-> IF i \in Suppliers(vs, x) THEN Part(vs[i], x) ELSE Invalid]

OverlayBy(sub, vs) ==
  LET top == vs[First(Live(vs))]
  IN  IF There(vs) = {} THEN Invalid
      ELSE IF Live(vs) = {} THEN vs[Last(There(vs))]
      ELSE IF top.kind \in {"scalar", "slice"} THEN top
      ELSE Of(top.kind, [x \in {y \in Segments : There(Parts(vs, y)) # {}} |-> sub[Parts(vs, x)]])

Columns(n) == [1..MaxLayers -> Upto[n] \cup {Invalid}]
OverlayUpto[n \in 0..Depth] == [vs \in Columns(n) |-> OverlayBy(OverlayUpto[n - 1], vs)]

Layered(k) ==
  [i \in 1..MaxLayers |-> IF i \in k..Len(layers) THEN layers[i] ELSE Invalid]
Overlay == OverlayUpto[Depth][Layered(1)]

-----------------------------------------------------------------------------
(* When reflect has no zero Value to store.  A whole value has nil in maps *)
(* and slices only: it can be put on top of anything.  Values of one       *)
(* struct, array or map type may have nil where all of them have           *)
(* something, and so on inside them.                                       *)
Whole[n \in 0..Depth] ==
  IF n = 0 THEN Leaves
  ELSE Leaves \cup {v \in Nodes(Whole[n - 1]) :
                     v.kind \in ByParts => \A x \in Segs(v) : ~IsNil(v.at[x])}

OfOneType(vs) ==
  \A v, w \in vs : /\ v.kind = w.kind /\ v.kind \in {"struct", "array", "map"}
                   /\ v.kind # "map" => Segs(v) = Segs(w)

FitUpto[n \in 0..Depth] ==
  [vs \in SUBSET Upto[n] |->
     \/ vs \subseteq Whole[n]
     \/ /\ n # 0 /\ OfOneType(vs)
        /\ \A x \in Segments : FitUpto[n - 1][{v.at[x] : v \in {w \in vs : x \in Segs(w)}}]]

FitTogether(stack) == FitUpto[Depth][{stack[i] : i \in DOMAIN stack}]

-----------------------------------------------------------------------------
(* Merging does not panic (merge.go 74).                                   *)
MergeNeverPanics == merged # Panic

(* Merging pairwise from the weakest layer up gives the same value as      *)
(* looking at all layers at once, and does not panic.  In the overlay a    *)
(* scalar of a stronger layer wins also if it is zero: what is missing is  *)
(* what is nil or not there (merge.go 120).                                *)
MergeIsOverlay == merged # Panic /\ (Complete => merged = Overlay)

(* The weaker layers fill in the fields that a struct of settings leaves   *)
(* at zero, as in the README's LayerWith example (README.md 331).          *)
ZerosGiveWay ==
  Complete /\ merged.kind = "struct" =>
    \A x \in Segs(merged) : merged.at[x] = Scalar(0) =>
      \A i \in DOMAIN layers : x \in Segs(layers[i]) => layers[i].at[x] = Scalar(0)
=============================================================================
