----------------------------- MODULE SchemaGraph -----------------------------
(***************************************************************************)
(* buildSchemaGraph: from a Go value and its type to a schema graph.       *)
(*                                                                         *)
(* A type is a name in Types, whose definition has a kind: "scalar" (with  *)
(* its schema type and format), "ptr", "slice", "array" (elem), "map"      *)
(* (elem, key), "iface", or "struct" with its fields in order.  A value is *)
(* a record [dyn, at, keys]: the dynamic type in an interface, and what is *)
(* below: in at the fields of a struct in order, or first the first        *)
(* element or what a pointer or an interface holds, in keys the entries of *)
(* a map.  Nothing below is a nil pointer, map, slice or interface.        *)
(*                                                                         *)
(* The recursion over types and values is a function of its depth.         *)
(***************************************************************************)
EXTENDS Naturals, Sequences, FiniteSets

CONSTANTS
  Types,     \* the definitions of the types
  GoValues,  \* the values, the zero reflect.Value and those below among them
  KeyOrder,  \* the keys, as sort.Strings orders them
  Configs,   \* what Generate is called with: [type, value]
  MaxDepth   \* bound: the steps from a type or a value to what is in it

NoType  == "none"
Invalid == [dyn |-> NoType, at |-> <<>>, keys |-> <<>>]   \* the zero reflect.Value
Holds(v, k) == k \in DOMAIN v.at
At(v, k)    == IF Holds(v, k) THEN v.at[k] ELSE Invalid

TypeNames == DOMAIN Types

ASSUME SchemaAssumption ==
  /\ MaxDepth \in Nat
  /\ Invalid \in GoValues
  /\ \A v \in GoValues :
       /\ v.dyn \in TypeNames
       /\ \A i \in DOMAIN v.at : v.at[i] \in GoValues
       /\ \A k \in DOMAIN v.keys : v.keys[k] \in GoValues
  /\ \A t \in TypeNames :
       /\ Types[t].kind \in {"scalar", "ptr", "slice", "array", "map", "iface", "struct"}
       /\ Types[t].kind \in {"ptr", "slice", "array", "map"} => Types[t].elem \in TypeNames
       /\ Types[t].kind = "struct" =>
            \A i \in DOMAIN Types[t].fields : Types[t].fields[i].type \in TypeNames
  /\ Configs \subseteq [type : TypeNames, value : GoValues]

-----------------------------------------------------------------------------
(* Nodes; props is in the order of the keys, required says how often a     *)
(* name is on the list.                                                    *)

Node(type, format) ==
  [type |-> type, meta |-> [format |-> format, tag |-> ""], props |-> <<>>,
   required |-> <<>>, items |-> <<>>, marshals |-> TRUE]
ObjectNode == Node("object", "")
Failure    == Node("error", "")
IsFailure(node) == node.type = "error"

Ordered(keys) == SelectSeq(KeyOrder, LAMBDA k : k \in keys)

(* The properties of an object, from a function of its keys.               *)
WithProps(f) ==
  LET keys == Ordered(DOMAIN f)
  IN  [ObjectNode EXCEPT !.props = [i \in 1..Len(keys) |-> [key |-> keys[i], node |-> f[keys[i]]]],
                         !.marshals = \A k \in DOMAIN f : f[k].marshals]

(* applyFieldMetadata: a format tag replaces the format of the type, the   *)
(* default, the enum and the rest are one tag (a fresh node has none); one *)
(* that does not parse is an error, one with NaN in it does not marshal.   *)
Tagged(node, field) ==
  IF field.tag = "bad" THEN Failure
  ELSE [node EXCEPT
          !.meta = [format |-> IF field.format = "" THEN node.meta.format ELSE field.format,
                    tag    |-> field.tag],
          !.marshals = node.marshals /\ field.tag # "NaN"]

Listed(field)     == field.exported /\ ~field.skip
IsRequired(field) == ~field.omitempty /\ Types[field.type].kind # "ptr"

(* A later field of the same name replaces an earlier one.                 *)
NamedBy(fields, key) ==
  CHOOSE i \in DOMAIN fields :
    /\ Listed(fields[i]) /\ fields[i].name = key
    /\ \A j \in DOMAIN fields : Listed(fields[j]) /\ fields[j].name = key => j <= i

RequiredNames(fields, which) ==
  [k \in {fields[i].name : i \in which} |-> Cardinality({i \in which : fields[i].name = k})]

(* A struct that is being built already is an object without properties.   *)
BuildStruct(sub, v, t, visited) ==
  LET fields == Types[t].fields
      shown  == {i \in DOMAIN fields : Listed(fields[i])}
      keys   == {fields[i].name : i \in shown}
      below  == [i \in shown |-> sub[At(v, i)][fields[i].type][visited \cup {t}]]
      built  == [i \in shown |->
                   IF IsFailure(below[i]) THEN Failure ELSE Tagged(below[i], fields[i])]
  IN  IF t \in visited THEN ObjectNode
      ELSE IF \E i \in shown : IsFailure(built[i]) THEN Failure
      ELSE [WithProps([k \in keys |-> built[NamedBy(fields, k)]]) EXCEPT
              !.required = RequiredNames(fields, {i \in shown : IsRequired(fields[i])})]

(* A map is an object of the keys it has; its key type must be a string.   *)
BuildMap(sub, v, t, visited) ==
  LET built == [k \in DOMAIN v.keys |-> sub[v.keys[k]][Types[t].elem][visited]]
  IN  IF Types[t].key # "string" \/ \E k \in DOMAIN built : IsFailure(built[k]) THEN Failure
      ELSE WithProps(built)

(* An array has the schema of its first element, or of a zero element.     *)
BuildSliceFilled(sub, v, t, visited) ==
  [Node("array", "") EXCEPT !.items =
     IF Holds(v, 1) THEN <<sub[At(v, 1)][Types[t].elem][visited]>> ELSE <<>>]
BuildSlice(sub, v, t, visited) ==
  LET item == sub[At(v, 1)][Types[t].elem][visited]
  IN  IF IsFailure(item) THEN item
      ELSE [Node("array", "") EXCEPT !.items = <<item>>, !.marshals = item.marshals]

(* build, with sub for what it makes one step below.                       *)
BuildBy(sub, v, t, visited) ==
  CASE Types[t].kind = "ptr"    -> sub[At(v, 1)][Types[t].elem][visited]
    [] Types[t].kind = "iface"  -> IF Holds(v, 1) THEN sub[v.at[1]][v.dyn][visited] ELSE ObjectNode
    [] Types[t].kind = "scalar" -> Node(Types[t].type, Types[t].format)
    [] Types[t].kind = "struct" -> BuildStruct(sub, v, t, visited)
    [] Types[t].kind = "map"    -> BuildMap(sub, v, t, visited)
    [] Types[t].kind \in {"slice", "array"} -> BuildSlice(sub, v, t, visited)

BuildUpto[n \in 0..MaxDepth] ==
  [v \in GoValues |-> [t \in TypeNames |-> [visited \in SUBSET TypeNames |->
     IF n = 0 THEN Failure ELSE BuildBy(BuildUpto[n - 1], v, t, visited)]]]

BuildSchemaGraph(value, type) == BuildUpto[MaxDepth][value][type][{}]

(* The graphs that are made, with the type each is made of.                *)
Made   == {[type |-> c.type, graph |-> BuildSchemaGraph(c.value, c.type)] : c \in Configs}
Graphs == {m.graph : m \in {made \in Made : ~IsFailure(made.graph)}}

-----------------------------------------------------------------------------
(* Types whose values all have one shape: no map or interface in them.     *)
Parts(t) ==
  CASE Types[t].kind \in {"ptr", "slice", "array"} -> {Types[t].elem}
    [] Types[t].kind = "struct" ->
         LET fields == Types[t].fields
         IN  {fields[i].type : i \in {j \in DOMAIN fields : Listed(fields[j])}}
    [] OTHER -> {}

OneShapeUpto[n \in 0..MaxDepth] ==
  [t \in TypeNames |->
     /\ Types[t].kind \notin {"map", "iface"}
     /\ n # 0 => \A s \in Parts(t) : OneShapeUpto[n - 1][s]]
OneShape == {t \in TypeNames : OneShapeUpto[MaxDepth][t]}
=============================================================================
