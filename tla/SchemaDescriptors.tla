-------------------------- MODULE SchemaDescriptors --------------------------
(***************************************************************************)
(* The descriptors Schema() gives, unless another generator is set, of     *)
(* what Stack.Merge made: a path and a type for each leaf of a             *)
(* map[string]any.  A path is the sequence of its keys, which have no dots.*)
(***************************************************************************)
EXTENDS Provenance

TypeName(v) ==
  CASE v.kind = "invalid" -> "nil"
    [] v.kind = "map"     -> "map[string]any"
    [] v.kind = "slice"   -> "[]any"
    [] OTHER              -> v.kind

ElementType(v) == IF Segs(v) = {} THEN "any" ELSE TypeName(Dynamic(v.at["0"]))

FieldDescriptor(path, type) == [path |-> path, type |-> type, element |-> ""]
SliceDescriptor(path, type) == [path |-> path, type |-> "slice", element |-> type]
Beneath(x, d) == [path |-> <<x>> \o d.path, type |-> d.type, element |-> d.element]

(* Nil gives no descriptor, an empty map one of its own, and what is       *)
(* neither a map nor a slice one with its type.                            *)
DescribeUpto[n \in 0..Depth] ==
  [v \in Outcomes(n) |->
     IF v.kind = "iface" /\ Holds(v) THEN DescribeUpto[n - 1][Part(v, Elem)]
     ELSE IF v.kind \in {"iface", "invalid"} THEN {}
     ELSE IF v.kind = "map" /\ Segs(v) # {}
     THEN UNION {{Beneath(x, d) : d \in DescribeUpto[n - 1][v.at[x]]} : x \in Segs(v)}
     ELSE IF v.kind = "slice" THEN {SliceDescriptor(<< >>, ElementType(v))}
     ELSE {FieldDescriptor(<< >>, TypeName(v))}]

DeriveAtTop(value) ==
  IF Dynamic(value).kind = "map"
  THEN {FieldDescriptor(<<x>>, TypeName(Dynamic(Dynamic(value).at[x]))) :
          x \in Segs(Dynamic(value))}
  ELSE {}

(* Only a map or a slice has a descriptor without a path.                  *)
DeriveFieldDescriptors(value) ==
  IF Dynamic(value).kind \in {"map", "slice"} THEN DescribeUpto[Depth][value] ELSE {}

Schema == DeriveFieldDescriptors(merged)

-----------------------------------------------------------------------------
(* The schema and the provenance of a merged map describe one value: what  *)
(* a descriptor names is there; each path FlattenWithProvenance lists is   *)
(* described, or is inside a slice that is, or leads to nil; and what is   *)
(* described is listed, or something inside it is, unless it is the map    *)
(* itself or nothing but empty maps (schema.go:36-77 against               *)
(* options.go:358-449).                                                    *)
InSlice(d, p) ==
  d.type = "slice" /\ Len(d.path) <= Len(p) /\ \A i \in 1..Len(d.path) : p[i] = d.path[i]

SchemaFitsProvenance ==
  Complete /\ merged.kind = "map" =>
    LET paths == CollectPaths(merged)
    IN  /\ \A d \in Schema : Get(d.path).ok
        /\ \A p \in paths :
             Get(p).value.kind = "invalid" \/ \E d \in Schema : d.path = p \/ InSlice(d, p)
        /\ \A d \in Schema :
             \/ d.path = << >> \/ FlattenUpto[Depth][Get(d.path).value] = {}
             \/ \E p \in paths : d.path = p \/ InSlice(d, p)

(* Values as decoding JSON makes them: maps, slices and scalars in         *)
(* interfaces, and nil.                                                    *)
Decoded[n \in 0..Depth] ==
  {Scalar(k) : k \in Numbers} \cup {Nil(kind) : kind \in {"iface", "map", "slice"}}
    \cup IF n = 0 THEN {}
         ELSE {v \in Nodes(Decoded[n - 1]) :
                /\ v.kind \in {"iface", "map", "slice"}
                /\ v.kind = "iface" => Segs(v) = {Elem} /\ v.at[Elem].kind # "iface"}
=============================================================================
