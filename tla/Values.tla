------------------------------- MODULE Values -------------------------------
(***************************************************************************)
(* Go values as layering/merge.go sees them through reflect: a kind and,   *)
(* for everything but a scalar, the values it holds.  A composite value    *)
(* holds a value or nothing at each segment: struct field names, map keys, *)
(* slice indices written as in a path, and the single segment Elem for     *)
(* what a pointer or a (non-nil) interface holds.  Two values of one kind  *)
(* are of one type, except structs: those with the same fields are.        *)
(***************************************************************************)
EXTENDS Integers, Sequences

CONSTANTS
  Segments,    \* the segments there are, Elem among them
  Numbers,     \* the scalars, 0 among them
  Unexported,  \* the field names other packages cannot set
  Depth        \* bound: how deep values are nested

ASSUME ValuesAssumption == Depth \in Nat

Elem == "*"

Invalid == [kind |-> "invalid"]   \* the zero reflect.Value: nothing there
Panic   == [kind |-> "panic"]     \* reflect panicked

Nilable   == {"ptr", "iface", "map", "slice"}
Composite == Nilable \cup {"struct", "array"}

Scalar(n)    == [kind |-> "scalar", n |-> n]
Nil(kind)    == [kind |-> kind, nil |-> TRUE]
Of(kind, at) == [kind |-> kind, nil |-> FALSE,
                 at |-> [x \in Segments |-> IF x \in DOMAIN at THEN at[x] ELSE Invalid]]

IsNil(v)  == v.kind \in Composite /\ v.nil
Holds(v)  == v.kind \in Composite /\ ~v.nil
Segs(v)   == IF Holds(v) THEN {x \in Segments : v.at[x] # Invalid} ELSE {}

(* The values that are nested at most n deep, and what reflect makes.      *)
Leaves == {Scalar(n) : n \in Numbers} \cup {Nil(kind) : kind \in Nilable}
Nodes(parts) == [kind : Composite, nil : {FALSE}, at : [Segments -> parts \cup {Invalid}]]
Upto[n \in 0..Depth] == IF n = 0 THEN Leaves ELSE Leaves \cup Nodes(Upto[n - 1])
Outcomes(n) == Upto[n] \cup {Invalid, Panic}

(* A struct's type is its fields.                                          *)
Alike(v, w) == v.kind = w.kind /\ (v.kind = "struct" => Segs(v) = Segs(w))

(* What v holds at x, and what w does if it is like v.                     *)
Part(v, x)  == IF x \in Segs(v) THEN v.at[x] ELSE Invalid
At(w, v, x) == IF Alike(v, w) THEN Part(w, x) ELSE Invalid

Settable(v, x) == ~(v.kind = "struct" /\ x \in Unexported)

(* A new value of v's type with the parts given: reflect panics when asked *)
(* to store the zero Value, and a field that cannot be set keeps its zero. *)
Build(v, at) ==
  LET set == {x \in DOMAIN at : Settable(v, x)}
  IN  IF \E x \in set : at[x].kind \in {"invalid", "panic"} THEN Panic
      ELSE Of(v.kind, [x \in DOMAIN at |-> IF x \in set THEN at[x] ELSE Scalar(0)])

(* sub clones what is nested less deep.                                    *)
CloneBy(sub, v) ==
  IF Holds(v) THEN Build(v, [x \in Segs(v) |-> sub[v.at[x]]]) ELSE v
CloneUpto[n \in 0..Depth] == [v \in Outcomes(n) |-> CloneBy(CloneUpto[n - 1], v)]
CloneValue(v) == CloneUpto[Depth][v]
=============================================================================
