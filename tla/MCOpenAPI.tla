------------------------------ MODULE MCOpenAPI ------------------------------
(* Go types and values whose graphs have repeated and nested schemas, keys *)
(* that sanitise alike, recursion, nil pointers, and a default of NaN.     *)
EXTENDS OpenAPIDocument

Digit == <<"1", "2", "3">>
KeyA == <<"a">>
KeyB == <<"b">>
KeyC == <<"c">>
KeyDot  == <<".">>
KeyA_B  == <<"a", "_", "b">>
KeyAdB  == <<"a", ".", "b">>
KeyAsB  == <<"a", "-", "b">>
KeyA_B1 == <<"a", "_", "b", "1">>
Key1    == <<"1">>
MCKeyOrder == <<KeyDot, Key1, KeyA, KeyAsB, KeyAdB, KeyA_B, KeyA_B1, KeyB, KeyC>>

Field(name, type) ==
  [name |-> name, type |-> type, format |-> "", tag |-> "",
   exported |-> TRUE, skip |-> FALSE, omitempty |-> FALSE]
Scalar(type)  == [kind |-> "scalar", type |-> type, format |-> ""]
Struct(fields) == [kind |-> "struct", fields |-> fields]
Of(kind, elem) == [kind |-> kind, elem |-> elem]
Map(elem, key) == [kind |-> "map", elem |-> elem, key |-> key]

MCTypes ==
  [none |-> [kind |-> "iface"],
   int |-> Scalar("integer"), str |-> Scalar("string"), float |-> Scalar("number"),
   any |-> [kind |-> "iface"], anymap |-> Map("any", "string"), anys |-> Of("slice", "any"),
   intmap |-> Map("int", "int"),
   pair  |-> Struct(<<Field(KeyA, "int"), [Field(KeyB, "str") EXCEPT !.format = "email"]>>),
   ppair |-> Of("ptr", "pair"),
   pairs |-> Of("slice", "ppair"),
   tree  |-> Struct(<<Field(KeyA, "ppair"), Field(KeyB, "trees"), Field(KeyC, "pair"),
                      [Field(KeyDot, "pairs") EXCEPT !.omitempty = TRUE],
                      [Field(KeyA_B, "any") EXCEPT !.skip = TRUE],
                      [Field(KeyA_B1, "any") EXCEPT !.exported = FALSE]>>),
   ptree |-> Of("ptr", "tree"),
   trees |-> Of("array", "ptree"),
   nan   |-> Struct(<<[Field(KeyA, "float") EXCEPT !.tag = "NaN"], Field(KeyB, "pair"),
                      Field(KeyC, "pairs")>>),
   bad   |-> Struct(<<[Field(KeyA, "int") EXCEPT !.tag = "bad"]>>),
   twice |-> Struct(<<Field(KeyA, "int"), Field(KeyA, "str"), Field(KeyC, "int")>>)]

(* Values.                                                                 *)
Leaf            == Invalid
With(at)        == [Leaf EXCEPT !.at = at]
Entries(f)      == [Leaf EXCEPT !.keys = f]
Dyn(type, v)    == [With(<<v>>) EXCEPT !.dyn = type]
AnInt           == Dyn("int", Leaf)
AStr            == Dyn("str", Leaf)
AMap(at)        == Dyn("anymap", Entries(at))
AList(first)    == Dyn("anys", With(<<first>>))
One(k, v)       == [x \in {k} |-> v]
Two(j, v, k, w) == [x \in {j, k} |-> IF x = j THEN v ELSE w]
HostPort        == AMap(Two(KeyA, AStr, KeyB, AnInt))
Deep(v)         == AMap(One(KeyB, AMap(One(KeyC, v))))

Config(type, v) == [type |-> type, value |-> v]
MapConfig(at)   == Config("anymap", Entries(at))

MCConfigs == {
  Config("none", Leaf), Config("int", Leaf), Config("intmap", Leaf), Config("bad", Leaf),
  MapConfig(<<>>),
  MapConfig([k \in {KeyA, KeyB, KeyC} |-> IF k = KeyC THEN AList(HostPort) ELSE HostPort]),
  MapConfig([k \in {KeyA, KeyB, KeyC} |->
               IF k = KeyC THEN AMap(One(KeyC, AnInt)) ELSE Deep(AnInt)]),
  MapConfig([k \in {KeyAdB, KeyAsB, KeyA_B, KeyA_B1, KeyA, KeyB, KeyC} |->
               CASE k \in {KeyAdB, KeyC} -> AMap(One(KeyA, AnInt))
                 [] k \in {KeyA_B, KeyB} -> AMap(One(KeyA, AStr))
                 [] k = KeyAsB           -> AMap(One(KeyB, AStr))
                 [] OTHER                -> AList(AStr)]),
  MapConfig([k \in {KeyDot, Key1, KeyA, KeyB} |->
               IF k \in {KeyDot, KeyB} THEN HostPort ELSE AList(AList(AnInt))]),
  Config("tree", Leaf),
  Config("tree", With(<<Leaf, With(<<With(<<With(<<>>)>>)>>), Leaf, Leaf>>)),
  Config("tree", With(<<With(<<Leaf>>), Leaf, Leaf, With(<<With(<<Leaf>>)>>)>>)),
  Config("pairs", Leaf), Config("pairs", With(<<With(<<Leaf>>)>>)),
  Config("nan", Leaf), Config("ppair", Leaf), Config("ppair", With(<<Leaf>>)),
  Config("twice", Leaf),
  MapConfig(Two(KeyA, Dyn("nan", Leaf), KeyB, Dyn("nan", Leaf))) }

RECURSIVE ValuesBelow(_)
ValuesBelow(vals) ==
  LET Under(v) == {v.at[i] : i \in DOMAIN v.at} \cup {v.keys[k] : k \in DOMAIN v.keys}
      more == vals \cup UNION {Under(v) : v \in vals}
  IN  IF more = vals THEN vals ELSE ValuesBelow(more)
MCValues == ValuesBelow({Leaf} \cup {c.value : c \in MCConfigs})

(* The depth is enough: nothing fails but what has an error in it.         *)
ASSUME DepthSuffices ==
  \A m \in Made : IsFailure(m.graph) <=> m.type \in {"intmap", "bad"}

RECURSIVE WithBelow(_)
WithBelow(nodes) ==
  LET Under(n) == {n.props[i].node : i \in DOMAIN n.props}
                    \cup {n.items[i] : i \in DOMAIN n.items}
      more == nodes \cup UNION {Under(n) : n \in nodes}
  IN  IF more = nodes THEN nodes ELSE WithBelow(more)
MCNodes == WithBelow(Graphs)

MCRootNames == {<<"R", "o", "o", "t">>, <<"A", ".", "a", "-">>, <<"_">>}
MCIllegal   == {".", "-", " "}
=============================================================================
