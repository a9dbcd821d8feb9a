----------------------------- MODULE MCLayering -----------------------------
(* Snapshots for Layering.  Maps are map[string]any, as decoded JSON is;   *)
(* the structs are typed settings with the optional kinds of field.        *)
EXTENDS SchemaDescriptors

Ptr(v) == Of("ptr", [x \in {Elem} |-> v])
Any(v) == Of("iface", [x \in {Elem} |-> v])
NilAny == Nil("iface")

MapsOver(keys, vals) == {Of("map", m) : m \in UNION {[ks -> vals] : ks \in SUBSET keys}}

Stack2(s) == {<<a, b>> : a, b \in s}
Stack3(s) == {<<a, b, c>> : a, b, c \in s}

(* A single key "a" that is missing, nil, a scalar, a slice - one with an  *)
(* empty map in it among them - or a map.                                  *)
Counts  == {Any(Scalar(1)), Any(Scalar(2))}
SliceOf(is, v) == Any(Of("slice", [x \in is |-> v]))
Slices   == {SliceOf(is, Any(Scalar(7))) : is \in {{}, {"0"}, {"0", "1"}}}
              \cup {SliceOf({"0"}, Any(Of("map", [x \in {} |-> Invalid])))}
SubMaps  == {Any(m) : m \in MapsOver({"x", "y"}, Counts \cup {NilAny})}
Dynamic3 == Stack3(MapsOver({"a"}, Counts \cup {NilAny} \cup Slices \cup SubMaps))

(* Structs, two fields at a time.                                          *)
IntPtrs    == {Nil("ptr"), Ptr(Scalar(0)), Ptr(Scalar(1))}
IntSlices  == {Nil("slice"), Of("slice", [x \in {} |-> Invalid]),
               Of("slice", [x \in {"0"} |-> Scalar(1)])}
PtrMaps    == {Nil("map")} \cup MapsOver({"k"}, {Nil("ptr"), Ptr(Scalar(1)), Ptr(Scalar(2))})
Ints       == {Scalar(0), Scalar(1)}
Struct1(f, vals) == {Of("struct", [x \in {f} |-> v]) : v \in vals}
Struct2(f, fv, g, gv) ==
  {Of("struct", [x \in {f, g} |-> IF x = f THEN v ELSE w]) : v \in fv, w \in gv}
SubPtrs    == {Nil("ptr")} \cup {Ptr(s) : s \in Struct1("Limit", Ints)}

Typed3 ==
  UNION {Stack3(Struct2("Limit", Ints, "Flags", PtrMaps)),
         Stack3(Struct2("Enabled", IntPtrs, "Tags", IntSlices)),
         Stack3(Struct2("Quiet", SubPtrs, "Limit", Ints))}

AllStacks == Dynamic3 \cup Typed3

(* An optional section that has an optional field of its own.              *)
Sections2 ==
  Stack2(Struct1("Quiet", {Nil("ptr")} \cup {Ptr(s) : s \in Struct1("Tags", IntSlices)}))

(* The README's AppOptions: two numbers, each of which may be left at zero.*)
AppOptions3 == Stack3(Struct2("Limit", Ints, "Quiet", Ints))

(* What the theorems about layering assume of the snapshots.               *)
ASSUME StacksFit ==
  \A s \in AllStacks :
    /\ FitTogether(s) /\ \A i \in DOMAIN s : s[i] \in Proper[Depth]
    /\ (\E i \in DOMAIN s : s[i].kind = "map") => \A i \in DOMAIN s : s[i] \in Decoded[Depth]
=============================================================================
