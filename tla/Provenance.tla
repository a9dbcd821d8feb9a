----------------------------- MODULE Provenance -----------------------------
(***************************************************************************)
(* The wrapper Stack.Merge makes of what MergeLayers has merged: Get,      *)
(* ResolveWithTrace and FlattenWithProvenance.  Value is merged, and the   *)
(* layers are kept.                                                        *)
(***************************************************************************)
EXTENDS Layering

(* navigateSegment works on the dynamic value: interfaces are unwrapped,   *)
(* then any number of pointers.  Invalid is the error return.              *)
Dynamic(v) == IF v.kind = "iface" THEN Part(v, Elem) ELSE v

Found(v) == [ok |-> TRUE, value |-> v]
Missed   == [ok |-> FALSE]

NavigateUpto[n \in 0..Depth] ==
  [v \in Outcomes(n) |-> [path \in Seq(Segments) |->
     IF path = << >> THEN Found(v)
     ELSE IF v.kind = "ptr" /\ Holds(v) THEN NavigateUpto[n - 1][Part(v, Elem)][path]
     ELSE IF v.kind \in {"map", "slice", "array", "struct"} /\ Head(path) \in Segs(v)
             /\ Settable(v, Head(path))
     THEN NavigateUpto[n - 1][Dynamic(v.at[Head(path)])][Tail(path)]
     ELSE Missed]]

NavigateSegments(v, path) == NavigateUpto[Depth][Dynamic(v)][path]

(* flattenValue: a path per leaf, where nil is a leaf, an empty slice is   *)
(* one and an empty map is not.  The values here are trees, so that its    *)
(* seen set of pointers never cuts a branch.                               *)
FlattenUpto[n \in 0..Depth] ==
  [v \in Outcomes(n) |->
     IF v.kind \in {"ptr", "iface"} /\ Holds(v) THEN FlattenUpto[n - 1][Part(v, Elem)]
     ELSE IF Holds(v) /\ (Segs(v) # {} \/ v.kind \in {"map", "struct"})
     THEN UNION {{<<x>> \o path : path \in FlattenUpto[n - 1][v.at[x]]} :
                   x \in {y \in Segs(v) : Settable(v, y)}}
     ELSE {<< >>}]

CollectPaths(v) == FlattenUpto[Depth][v] \ {<< >>}

-----------------------------------------------------------------------------
Get(path) == NavigateSegments(merged, path)

InLayer(i, path) == NavigateSegments(layers[i], path)

Weakest(hits)   == Last(hits)
Strongest(hits) == First(hits)

(* The first layer the path leads anywhere in decides, and if there is     *)
(* none, the merged value.                                                 *)
ResolveWithTrace(path) ==
  LET hits == {i \in DOMAIN layers : InLayer(i, path).ok}
  IN  IF hits = {} THEN Get(path) ELSE InLayer(Strongest(hits), path)

(* One entry per path of the merged value: the first layer in its trace    *)
(* that has the path, or else the last one, which then reports no value.   *)
FlattenWithProvenance ==
  {LET hits == {i \in DOMAIN layers : InLayer(i, p).ok}
   IN  IF hits = {} THEN [path |-> p, layer |-> Len(layers), found |-> Missed]
       ELSE [path |-> p, layer |-> Strongest(hits), found |-> InLayer(Strongest(hits), p)] :
   p \in CollectPaths(merged)}

-----------------------------------------------------------------------------
(* Merging from the top down - each layer beneath what the stronger ones   *)
(* have given - makes no difference where every part has one type          *)
(* throughout, as the fields of a struct do.  (In a map[string]any it      *)
(* does: a scalar between two maps cuts off the weaker one, or not.)       *)
OneKind(vs) ==
  \A v, w \in vs : /\ v.kind = w.kind
                   /\ v.kind \in ByParts /\ Holds(v) /\ Holds(w) => Segs(v) = Segs(w)

OneTypeUpto[n \in 0..Depth] ==
  [vs \in SUBSET Upto[n] |->
     /\ OneKind(vs)
     /\ n # 0 => \A x \in UNION {Segs(v) : v \in vs} :
                   OneTypeUpto[n - 1][{v.at[x] : v \in {w \in vs : x \in Segs(w)}}]]

TopDown[j \in 1..Len(layers)] ==
  IF j = 1 THEN layers[1] ELSE MergeValue(TopDown[j - 1], layers[j])

RegroupingIsHarmless ==
  Complete /\ OneTypeUpto[Depth][{layers[i] : i \in DOMAIN layers}] =>
    merged = TopDown[Len(layers)]

(* Where no layer has an explicit nil, each path FlattenWithProvenance     *)
(* lists comes with its effective value, the one Get and ResolveWithTrace  *)
(* return, and with the strongest layer in which the path leads anywhere.  *)
NilFree[n \in 0..Depth] ==
  {Scalar(k) : k \in Numbers} \cup IF n = 0 THEN {} ELSE Nodes(NilFree[n - 1])

FlattenNamesSupplier ==
  Complete /\ (\A i \in DOMAIN layers : layers[i] \in NilFree[Depth]) =>
    \A e \in FlattenWithProvenance :
      /\ e.found = Get(e.path) /\ ResolveWithTrace(e.path) = Get(e.path)
      /\ \A i \in 1..(e.layer - 1) : ~InLayer(i, e.path).ok

(* Values a path leads through: what a pointer or an interface holds is no *)
(* interface.  Go has none in an interface; for a pointer to one,          *)
(* flattenValue lists paths that navigateSegment does not follow.          *)
Proper[n \in 0..Depth] ==
  Leaves \cup IF n = 0 THEN {}
              ELSE {v \in Nodes(Proper[n - 1]) : v.kind \in {"ptr", "iface"} =>
                      Segs(v) = {Elem} /\ v.at[Elem].kind # "iface"}
=============================================================================
