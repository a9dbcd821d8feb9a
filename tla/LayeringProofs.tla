--------------------------- MODULE LayeringProofs ---------------------------
(***************************************************************************)
(* Folding a stack pairwise gives the overlay of its layers, from either   *)
(* end; it panics only for layers that do not fit together; and what the   *)
(* wrapper tells of the merged value, by path, by layer and by descriptor, *)
(* is one and the same.                                                    *)
(*                                                                         *)
(* The heart of the matter: at every segment, what the fold has so far is  *)
(* the overlay of the parts of the layers below, so that merging one more  *)
(* layer and overlaying one more layer go on with the same two values.     *)
(***************************************************************************)
EXTENDS SchemaDescriptors, Induction

-----------------------------------------------------------------------------
(* What the recursive definitions are, rank by rank.                       *)
RanksOf(n) == Upto[n] = IF n = 0 THEN Leaves ELSE Leaves \cup Nodes(Upto[n - 1])

LEMMA UptoIs == \A n \in 0..Depth : RanksOf(n)
<1> DEFINE B(n, y) ==
             IF n = 0 THEN Leaves ELSE Leaves \cup Nodes(y)
           Out(f, m) == f = [n \in 0..m |-> B(n, f[n - 1])]
           T == {m \in Nat : \E f : Out(f, m)}
<1>1. \A y, z : B(0, y) = B(0, z)
  OBVIOUS
<1>2. Upto = CHOOSE f : Out(f, Depth)
  BY DEF Upto
<1> HIDE DEF B
<1>3. 0 \in T
  <2> DEFINE f == [n \in 0..0 |-> B(0, 0)]
  <2>1. \A n \in 0..0 : f[n] = B(n, f[n - 1])
    BY <1>1
  <2>2. Out(f, 0)
    BY <2>1
  <2> QED BY <2>2
<1>4. ASSUME NEW m \in Nat, m \in T PROVE m + 1 \in T
  <2>1. PICK f : Out(f, m)
    BY <1>4
  <2> DEFINE g == [n \in 0..(m + 1) |-> IF n = m + 1 THEN B(m + 1, f[m]) ELSE f[n]]
  <2>2. ASSUME NEW n \in 0..(m + 1) PROVE g[n] = B(n, g[n - 1])
    <3>1. CASE n = m + 1
      BY <3>1
    <3>2. CASE n # m + 1 /\ n # 0
      <4>1. n \in 0..m /\ n - 1 \in 0..(m + 1) /\ n - 1 # m + 1
        BY <3>2
      <4>2. g[n] = f[n] /\ g[n - 1] = f[n - 1]
        BY <3>2, <4>1
      <4>3. f[n] = B(n, f[n - 1])
        BY <2>1, <4>1
      <4> QED BY <4>2, <4>3
    <3>3. CASE n = 0
      <4>1. g[n] = f[n] /\ f[n] = B(n, f[n - 1])
        BY <2>1, <3>3
      <4>2. B(n, f[n - 1]) = B(n, g[n - 1])
        BY <1>1, <3>3
      <4> QED BY <4>1, <4>2
    <3> QED BY <3>1, <3>2, <3>3
  <2>3. Out(g, m + 1)
    BY <2>2
  <2> HIDE DEF Out, g
  <2> QED BY <2>3
<1>5. Depth \in T
  <2> HIDE DEF T
  <2> QED BY <1>3, <1>4, Induct, ValuesAssumption
<1>6. Out(Upto, Depth)
  <2> HIDE DEF Out
  <2> QED BY <1>2, <1>5
<1>7. \A n \in 0..Depth : Upto[n] = B(n, Upto[n - 1])
  BY <1>6
<1> QED BY <1>7 DEF B, RanksOf

-----------------------------------------------------------------------------
(* Cloning.                                                                *)
LEMMA LeafIs ==
  ASSUME NEW v \in Outcomes(0)
  PROVE  ~Holds(v) /\ Segs(v) = {}
<1>1. Upto[0] = Leaves
  <2>1. 0 \in 0..Depth
    BY ValuesAssumption
  <2>2. RanksOf(0)
    BY <2>1, UptoIs
  <2> QED BY <2>2 DEF RanksOf
<1> QED BY <1>1 DEF Outcomes, Leaves, Invalid, Panic, Scalar, Nil, Holds, Composite, Nilable, Segs

ClonedAt(n) ==
  CloneUpto[n] = [v \in Outcomes(n) |-> CloneBy(CloneUpto[n - 1], v)]

LEMMA CloneUptoIs == \A n \in 0..Depth : ClonedAt(n)
<1> DEFINE B(n, y) ==
             [v \in Outcomes(n) |-> CloneBy(y, v)]
           Out(f, m) == f = [n \in 0..m |-> B(n, f[n - 1])]
           T == {m \in Nat : \E f : Out(f, m)}
<1>1. \A y, z : B(0, y) = B(0, z)
  <2>1. \A y : B(0, y) = [v \in Outcomes(0) |-> v]
    BY LeafIs DEF CloneBy
  <2> HIDE DEF B
  <2> QED BY <2>1
<1>2. CloneUpto = CHOOSE f : Out(f, Depth)
  BY DEF CloneUpto
<1> HIDE DEF B
<1>3. 0 \in T
  <2> DEFINE f == [n \in 0..0 |-> B(0, 0)]
  <2>1. \A n \in 0..0 : f[n] = B(n, f[n - 1])
    BY <1>1
  <2>2. Out(f, 0)
    BY <2>1
  <2> QED BY <2>2
<1>4. ASSUME NEW m \in Nat, m \in T PROVE m + 1 \in T
  <2>1. PICK f : Out(f, m)
    BY <1>4
  <2> DEFINE g == [n \in 0..(m + 1) |-> IF n = m + 1 THEN B(m + 1, f[m]) ELSE f[n]]
  <2>2. ASSUME NEW n \in 0..(m + 1) PROVE g[n] = B(n, g[n - 1])
    <3>1. CASE n = m + 1
      BY <3>1
    <3>2. CASE n # m + 1 /\ n # 0
      <4>1. n \in 0..m /\ n - 1 \in 0..(m + 1) /\ n - 1 # m + 1
        BY <3>2
      <4>2. g[n] = f[n] /\ g[n - 1] = f[n - 1]
        BY <3>2, <4>1
      <4>3. f[n] = B(n, f[n - 1])
        BY <2>1, <4>1
      <4> QED BY <4>2, <4>3
    <3>3. CASE n = 0
      <4>1. g[n] = f[n] /\ f[n] = B(n, f[n - 1])
        BY <2>1, <3>3
      <4>2. B(n, f[n - 1]) = B(n, g[n - 1])
        BY <1>1, <3>3
      <4> QED BY <4>1, <4>2
    <3> QED BY <3>1, <3>2, <3>3
  <2>3. Out(g, m + 1)
    BY <2>2
  <2> HIDE DEF Out, g
  <2> QED BY <2>3
<1>5. Depth \in T
  <2> HIDE DEF T
  <2> QED BY <1>3, <1>4, Induct, ValuesAssumption
<1>6. Out(CloneUpto, Depth)
  <2> HIDE DEF Out
  <2> QED BY <1>2, <1>5
<1>7. \A n \in 0..Depth : CloneUpto[n] = B(n, CloneUpto[n - 1])
  BY <1>6
<1> QED BY <1>7 DEF B, ClonedAt

(* A value and its parts.                                                  *)
LEMMA KindsAre ==
  ASSUME NEW n \in 0..Depth, NEW v \in Upto[n]
  PROVE  v.kind \in Composite \cup {"scalar"} /\ v # Invalid /\ v # Panic
<1>1. v \in Leaves \/ v \in Nodes(Upto[n - 1])
  BY UptoIs DEF RanksOf
<1>2. v.kind \in Composite \cup {"scalar"}
  <2>1. CASE v \in {Scalar(k) : k \in Numbers}
    BY <2>1 DEF Scalar
  <2>2. CASE v \in {Nil(kind) : kind \in Nilable}
    BY <2>2 DEF Nil, Composite
  <2>3. CASE v \in Nodes(Upto[n - 1])
    BY <2>3 DEF Nodes
  <2> QED BY <1>1, <2>1, <2>2, <2>3 DEF Leaves
<1> QED BY <1>2 DEF Invalid, Panic, Composite, Nilable

LEMMA NodeIs ==
  ASSUME NEW n \in 0..Depth, NEW v \in Outcomes(n), Holds(v)
  PROVE  /\ n - 1 \in 0..Depth /\ v \in Upto[n]
         /\ v = [kind |-> v.kind, nil |-> FALSE, at |-> v.at] /\ v.kind \in Composite
         /\ v.at \in [Segments -> Upto[n - 1] \cup {Invalid}]
<1>1. n # 0
  BY LeafIs
<1>2. v \notin Leaves /\ v # Invalid /\ v # Panic
  BY DEF Holds, Leaves, Scalar, Nil, Composite, Nilable, Invalid, Panic
<1>3. v \in Nodes(Upto[n - 1]) /\ v \in Upto[n]
  BY <1>1, <1>2, UptoIs DEF RanksOf, Outcomes
<1>4. n - 1 \in 0..Depth
  BY <1>1, ValuesAssumption
<1> QED BY <1>3, <1>4 DEF Nodes

LEMMA PartIs ==
  ASSUME NEW n \in 0..Depth, NEW v \in Outcomes(n), NEW x \in Segs(v)
  PROVE  /\ n - 1 \in 0..Depth /\ x \in Segments
         /\ v.at[x] \in Upto[n - 1] /\ v.at[x] \in Outcomes(n - 1)
         /\ Part(v, x) = v.at[x] /\ v.at[x] # Invalid
<1>1. Holds(v) /\ x \in Segments /\ v.at[x] # Invalid
  BY DEF Segs
<1>2. n - 1 \in 0..Depth /\ v.at \in [Segments -> Upto[n - 1] \cup {Invalid}]
  BY <1>1, NodeIs
<1> QED BY <1>1, <1>2 DEF Part, Outcomes

(* Where every field can be set, Build stores what it is given.            *)
LEMMA BuildIs ==
  ASSUME Unexported = {}, NEW v, NEW at
  PROVE  Build(v, at) = IF \E x \in DOMAIN at : at[x].kind \in {"invalid", "panic"}
                        THEN Panic ELSE Of(v.kind, at)
<1> DEFINE set == {x \in DOMAIN at : Settable(v, x)}
           new == [x \in DOMAIN at |-> IF x \in set THEN at[x] ELSE Scalar(0)]
<1>1. set = DOMAIN at
  BY DEF Settable
<1>2. DOMAIN new = DOMAIN at /\ \A x \in DOMAIN at : new[x] = at[x]
  BY <1>1
<1> HIDE DEF new
<1>3. [x \in Segments |-> IF x \in DOMAIN new THEN new[x] ELSE Invalid]
        = [x \in Segments |-> IF x \in DOMAIN at THEN at[x] ELSE Invalid]
  BY <1>2
<1>4. Of(v.kind, new) = Of(v.kind, at)
  BY <1>3 DEF Of
<1>5. Build(v, at) = IF \E x \in set : at[x].kind \in {"invalid", "panic"}
                     THEN Panic ELSE Of(v.kind, new)
  BY DEF Build, new
<1> QED BY <1>1, <1>4, <1>5

(* A value is what it holds.                                               *)
LEMMA SameParts ==
  ASSUME NEW n \in 0..Depth, NEW v \in Upto[n], Holds(v), NEW at,
         DOMAIN at = Segs(v), \A x \in Segs(v) : at[x] = v.at[x]
  PROVE  Of(v.kind, at) = v
<1> DEFINE all == [x \in Segments |-> IF x \in DOMAIN at THEN at[x] ELSE Invalid]
<1>1. /\ v = [kind |-> v.kind, nil |-> FALSE, at |-> v.at]
      /\ v.at \in [Segments -> Upto[n - 1] \cup {Invalid}]
  BY NodeIs DEF Outcomes
<1>2. \A x \in Segments : x \notin Segs(v) => v.at[x] = Invalid
  BY DEF Segs
<1>3. \A x \in Segments : all[x] = v.at[x]
  BY <1>2
<1>4. all = v.at
  BY <1>1, <1>3
<1> HIDE DEF all
<1>5. Of(v.kind, at) = [kind |-> v.kind, nil |-> FALSE, at |-> all]
  BY DEF Of, all
<1> QED BY <1>1, <1>4, <1>5

(* A clone is equal to its original.                                       *)
LEMMA CloneIs ==
  ASSUME Unexported = {}
  PROVE  \A n \in 0..Depth : \A v \in Outcomes(n) : CloneUpto[n][v] = v
<1> DEFINE T == {n \in Nat : n <= Depth => \A v \in Outcomes(n) : CloneUpto[n][v] = v}
<1>1. ASSUME NEW n \in 0..Depth, NEW v \in Outcomes(n), ~Holds(v)
      PROVE  CloneUpto[n][v] = v
  BY <1>1, CloneUptoIs DEF ClonedAt, CloneBy
<1>2. 0 \in T
  BY <1>1, LeafIs, ValuesAssumption
<1>3. ASSUME NEW m \in Nat, m \in T PROVE m + 1 \in T
  <2> DEFINE n == m + 1
  <2> SUFFICES ASSUME n <= Depth, NEW v \in Outcomes(n), Holds(v) PROVE CloneUpto[n][v] = v
    BY <1>1, ValuesAssumption
  <2>1. n \in 0..Depth /\ n - 1 = m /\ m \in 0..Depth
    BY ValuesAssumption
  <2> DEFINE at == [x \in Segs(v) |-> CloneUpto[n - 1][v.at[x]]]
  <2>2. CloneUpto[n][v] = Build(v, at)
    BY <2>1, CloneUptoIs DEF ClonedAt, CloneBy
  <2>3. \A x \in Segs(v) : at[x] = v.at[x]
    <3> TAKE x \in Segs(v)
    <3>1. v.at[x] \in Outcomes(m)
      BY <2>1, PartIs
    <3> QED BY <1>3, <2>1, <3>1
  <2>4. \A x \in Segs(v) : v.at[x].kind \notin {"invalid", "panic"}
    <3> TAKE x \in Segs(v)
    <3>1. v.at[x] \in Upto[m]
      BY <2>1, PartIs
    <3> QED BY <2>1, <3>1, KindsAre DEF Composite, Nilable
  <2>5. v \in Upto[n] /\ DOMAIN at = Segs(v)
    BY <2>1, NodeIs
  <2> HIDE DEF at, n
  <2>6. Build(v, at) = Of(v.kind, at)
    BY <2>3, <2>4, <2>5, BuildIs
  <2> QED BY <2>1, <2>2, <2>3, <2>5, <2>6, SameParts
<1>4. Nat \subseteq T
  <2> HIDE DEF T
  <2> QED BY <1>2, <1>3, Induct
<1> QED BY <1>4

-----------------------------------------------------------------------------
(* The least and the greatest of the layers.                               *)
LEMMA FirstIs ==
  ASSUME NEW is \in SUBSET (1..MaxLayers), is # {}
  PROVE  First(is) \in is /\ \A j \in is : First(is) <= j
<1>1. \E i \in is : \A j \in is : i <= j
  <2>1. is \in SUBSET Nat
    BY StacksAssumption
  <2> QED BY <2>1, Least
<1> QED BY <1>1 DEF First

LEMMA LastIs ==
  ASSUME NEW is \in SUBSET (1..MaxLayers), is # {}
  PROVE  Last(is) \in is /\ \A j \in is : j <= Last(is)
<1>1. \E i \in is : \A j \in is : j <= i
  <2>1. 1 \in Int /\ MaxLayers \in Int
    BY StacksAssumption
  <2> QED BY <2>1, Greatest
<1> QED BY <1>1 DEF Last

(* What there is in a column of layers.                                    *)
LEMMA LiveAre ==
  ASSUME NEW n \in 0..Depth, NEW vs \in Columns(n)
  PROVE  /\ DOMAIN vs = 1..MaxLayers
         /\ There(vs) \in SUBSET (1..MaxLayers) /\ Live(vs) \subseteq There(vs)
         /\ \A i \in There(vs) : vs[i] \in Upto[n]
         /\ \A i \in Live(vs) : ~IsNil(vs[i])
BY DEF Columns, There, Live

LEMMA TopIs ==
  ASSUME NEW n \in 0..Depth, NEW vs \in Columns(n), Live(vs) # {}
  PROVE  /\ First(Live(vs)) \in Live(vs) /\ \A j \in Live(vs) : First(Live(vs)) <= j
         /\ vs[First(Live(vs))] \in Upto[n]
         /\ vs[First(Live(vs))].kind # "scalar" => Holds(vs[First(Live(vs))])
<1>1. Live(vs) \in SUBSET (1..MaxLayers)
  BY LiveAre
<1>2. First(Live(vs)) \in Live(vs) /\ \A j \in Live(vs) : First(Live(vs)) <= j
  BY <1>1, FirstIs
<1>3. vs[First(Live(vs))] \in Upto[n] /\ ~IsNil(vs[First(Live(vs))])
  BY <1>2, LiveAre
<1> DEFINE top == vs[First(Live(vs))]
<1>4. top.kind \in Composite \cup {"scalar"}
  BY <1>3, KindsAre
<1>5. top.kind # "scalar" => Holds(top)
  BY <1>3, <1>4 DEF IsNil, Holds
<1> QED BY <1>2, <1>3, <1>5

-----------------------------------------------------------------------------
(* Merging and the overlay.                                                *)
MergedAt(n) ==
  MergeUpto[n] = [strong \in Outcomes(n) |-> [weak \in Outcomes(n) |->
                    MergeBy(n, MergeUpto[n - 1], strong, weak)]]

LEMMA MergeUptoIs == \A n \in 0..Depth : MergedAt(n)
<1> DEFINE B(n, y) ==
             [strong \in Outcomes(n) |-> [weak \in Outcomes(n) |-> MergeBy(n, y, strong, weak)]]
           Out(f, m) == f = [n \in 0..m |-> B(n, f[n - 1])]
           T == {m \in Nat : \E f : Out(f, m)}
<1>1. \A y, z : B(0, y) = B(0, z)
  <2>1. \A s \in Outcomes(0) : s.kind \notin ByParts \cup {"map"} \/ GivesWay(s)
    BY LeafIs DEF Holds, GivesWay, IsNil, ByParts, Composite, Nilable
  <2>2. ASSUME NEW y, NEW z, NEW s \in Outcomes(0), NEW w
        PROVE  MergeBy(0, y, s, w) = MergeBy(0, z, s, w)
    <3>1. CASE GivesWay(s)
      BY <3>1 DEF MergeBy
    <3>2. CASE ~GivesWay(s)
      <4>1. s.kind \notin ByParts /\ s.kind # "map"
        BY <2>1, <3>2
      <4>2. \A u : MergeBy(0, u, s, w) = CloneUpto[0][s]
        BY <3>2, <4>1 DEF MergeBy
      <4> QED BY <4>2
    <3> QED BY <3>1, <3>2
  <2>3. \A y, z : \A s \in Outcomes(0) : \A w : MergeBy(0, y, s, w) = MergeBy(0, z, s, w)
    BY <2>2
  <2> QED BY <2>3
<1>2. MergeUpto = CHOOSE f : Out(f, Depth)
  BY DEF MergeUpto
<1> HIDE DEF B
<1>3. 0 \in T
  <2> DEFINE f == [n \in 0..0 |-> B(0, 0)]
  <2>1. \A n \in 0..0 : f[n] = B(n, f[n - 1])
    BY <1>1
  <2>2. Out(f, 0)
    BY <2>1
  <2> QED BY <2>2
<1>4. ASSUME NEW m \in Nat, m \in T PROVE m + 1 \in T
  <2>1. PICK f : Out(f, m)
    BY <1>4
  <2> DEFINE g == [n \in 0..(m + 1) |-> IF n = m + 1 THEN B(m + 1, f[m]) ELSE f[n]]
  <2>2. ASSUME NEW n \in 0..(m + 1) PROVE g[n] = B(n, g[n - 1])
    <3>1. CASE n = m + 1
      BY <3>1
    <3>2. CASE n # m + 1 /\ n # 0
      <4>1. n \in 0..m /\ n - 1 \in 0..(m + 1) /\ n - 1 # m + 1
        BY <3>2
      <4>2. g[n] = f[n] /\ g[n - 1] = f[n - 1]
        BY <3>2, <4>1
      <4>3. f[n] = B(n, f[n - 1])
        BY <2>1, <4>1
      <4> QED BY <4>2, <4>3
    <3>3. CASE n = 0
      <4>1. g[n] = f[n] /\ f[n] = B(n, f[n - 1])
        BY <2>1, <3>3
      <4>2. B(n, f[n - 1]) = B(n, g[n - 1])
        BY <1>1, <3>3
      <4> QED BY <4>1, <4>2
    <3> QED BY <3>1, <3>2, <3>3
  <2>3. Out(g, m + 1)
    BY <2>2
  <2> HIDE DEF Out, g
  <2> QED BY <2>3
<1>5. Depth \in T
  <2> HIDE DEF T
  <2> QED BY <1>3, <1>4, Induct, ValuesAssumption
<1>6. Out(MergeUpto, Depth)
  <2> HIDE DEF Out
  <2> QED BY <1>2, <1>5
<1>7. \A n \in 0..Depth : MergeUpto[n] = B(n, MergeUpto[n - 1])
  BY <1>6
<1> QED BY <1>7 DEF B, MergedAt

OverlaidAt(n) == OverlayUpto[n] = [vs \in Columns(n) |-> OverlayBy(OverlayUpto[n - 1], vs)]

LEMMA OverlayUptoIs == \A n \in 0..Depth : OverlaidAt(n)
<1> DEFINE B(n, y) ==
             [vs \in Columns(n) |-> OverlayBy(y, vs)]
           Out(f, m) == f = [n \in 0..m |-> B(n, f[n - 1])]
           T == {m \in Nat : \E f : Out(f, m)}
<1>1. \A y, z : B(0, y) = B(0, z)
  <2>1. ASSUME NEW vs \in Columns(0), Live(vs) # {} PROVE vs[First(Live(vs))].kind = "scalar"
    <3>1. 0 \in 0..Depth
      BY ValuesAssumption
    <3> QED BY <2>1, <3>1, TopIs, LeafIs DEF Outcomes
  <2>2. \A y, z : \A vs \in Columns(0) : OverlayBy(y, vs) = OverlayBy(z, vs)
    BY <2>1 DEF OverlayBy
  <2> QED BY <2>2
<1>2. OverlayUpto = CHOOSE f : Out(f, Depth)
  BY DEF OverlayUpto
<1> HIDE DEF B
<1>3. 0 \in T
  <2> DEFINE f == [n \in 0..0 |-> B(0, 0)]
  <2>1. \A n \in 0..0 : f[n] = B(n, f[n - 1])
    BY <1>1
  <2>2. Out(f, 0)
    BY <2>1
  <2> QED BY <2>2
<1>4. ASSUME NEW m \in Nat, m \in T PROVE m + 1 \in T
  <2>1. PICK f : Out(f, m)
    BY <1>4
  <2> DEFINE g == [n \in 0..(m + 1) |-> IF n = m + 1 THEN B(m + 1, f[m]) ELSE f[n]]
  <2>2. ASSUME NEW n \in 0..(m + 1) PROVE g[n] = B(n, g[n - 1])
    <3>1. CASE n = m + 1
      BY <3>1
    <3>2. CASE n # m + 1 /\ n # 0
      <4>1. n \in 0..m /\ n - 1 \in 0..(m + 1) /\ n - 1 # m + 1
        BY <3>2
      <4>2. g[n] = f[n] /\ g[n - 1] = f[n - 1]
        BY <3>2, <4>1
      <4>3. f[n] = B(n, f[n - 1])
        BY <2>1, <4>1
      <4> QED BY <4>2, <4>3
    <3>3. CASE n = 0
      <4>1. g[n] = f[n] /\ f[n] = B(n, f[n - 1])
        BY <2>1, <3>3
      <4>2. B(n, f[n - 1]) = B(n, g[n - 1])
        BY <1>1, <3>3
      <4> QED BY <4>1, <4>2
    <3> QED BY <3>1, <3>2, <3>3
  <2>3. Out(g, m + 1)
    BY <2>2
  <2> HIDE DEF Out, g
  <2> QED BY <2>3
<1>5. Depth \in T
  <2> HIDE DEF T
  <2> QED BY <1>3, <1>4, Induct, ValuesAssumption
<1>6. Out(OverlayUpto, Depth)
  <2> HIDE DEF Out
  <2> QED BY <1>2, <1>5
<1>7. \A n \in 0..Depth : OverlayUpto[n] = B(n, OverlayUpto[n - 1])
  BY <1>6
<1> QED BY <1>7 DEF B, OverlaidAt
-----------------------------------------------------------------------------
(* The overlay of a column.                                                *)
Top(vs) == vs[First(Live(vs))]
Scalars == {"scalar", "slice"}   \* the kinds whose value wins as it is

LEMMA PartsAre ==
  ASSUME NEW n \in 0..Depth, n - 1 \in 0..Depth, NEW vs \in Columns(n), NEW x \in Segments
  PROVE  Parts(vs, x) \in Columns(n - 1)
<1> SUFFICES ASSUME NEW i \in 1..MaxLayers, i \in Suppliers(vs, x)
             PROVE  Part(vs[i], x) \in Upto[n - 1] \cup {Invalid}
  <2>1. DOMAIN vs = 1..MaxLayers
    BY LiveAre
  <2> QED BY <2>1 DEF Parts, Columns
<1>1. vs[i] \in Outcomes(n)
  BY LiveAre DEF Suppliers, Agreeing, Outcomes
<1>2. CASE x \in Segs(vs[i])
  BY <1>1, <1>2, PartIs
<1>3. CASE x \notin Segs(vs[i])
  BY <1>3 DEF Part
<1> QED BY <1>2, <1>3

LEMMA TopHolds ==
  ASSUME NEW n \in 0..Depth, NEW vs \in Columns(n), Live(vs) # {}, Top(vs).kind \notin Scalars
  PROVE  /\ n - 1 \in 0..Depth /\ Holds(Top(vs)) /\ Top(vs) \in Upto[n]
         /\ Top(vs).kind \in Composite
<1>1. Top(vs) \in Upto[n] /\ Holds(Top(vs))
  BY TopIs DEF Top, Scalars
<1>2. Top(vs) \in Outcomes(n)
  BY <1>1 DEF Outcomes
<1> QED BY <1>1, <1>2, NodeIs

OverlayOk(n) ==
  \A vs \in Columns(n) :
    OverlayUpto[n][vs] \in IF There(vs) = {} THEN {Invalid} ELSE Upto[n]

LEMMA OverlaidIs ==
  ASSUME NEW n \in 0..Depth, NEW vs \in Columns(n)
  PROVE  OverlayUpto[n][vs] = OverlayBy(OverlayUpto[n - 1], vs)
BY OverlayUptoIs DEF OverlaidAt

(* An overlay of what there is, is a value.                                *)
LEMMA OverlaysAre == \A n \in 0..Depth : OverlayOk(n)
<1> DEFINE T == {n \in Nat : n <= Depth => OverlayOk(n)}
<1>1. ASSUME NEW n \in 0..Depth, NEW vs \in Columns(n),
             Live(vs) = {} \/ Top(vs).kind \in Scalars
      PROVE  OverlayUpto[n][vs] \in IF There(vs) = {} THEN {Invalid} ELSE Upto[n]
  <2>1. OverlayUpto[n][vs] = IF There(vs) = {} THEN Invalid
                             ELSE IF Live(vs) = {} THEN vs[Last(There(vs))] ELSE Top(vs)
    BY <1>1, OverlaidIs DEF OverlayBy, Top, Scalars
  <2>2. There(vs) # {} => vs[Last(There(vs))] \in Upto[n]
    BY LiveAre, LastIs
  <2>3. Live(vs) # {} => Top(vs) \in Upto[n]
    BY TopIs DEF Top
  <2> QED BY <2>1, <2>2, <2>3
<1>2. 0 \in T
  <2>1. ASSUME NEW vs \in Columns(0), Live(vs) # {} PROVE Top(vs).kind \in Scalars
    <3>1. 0 \in 0..Depth
      BY ValuesAssumption
    <3> QED BY <2>1, <3>1, TopHolds
  <2> QED BY <1>1, <2>1, ValuesAssumption DEF OverlayOk
<1>3. ASSUME NEW m \in Nat, m \in T PROVE m + 1 \in T
  <2> DEFINE n == m + 1
  <2> SUFFICES ASSUME n <= Depth, NEW vs \in Columns(n),
                      Live(vs) # {}, Top(vs).kind \notin Scalars
               PROVE  There(vs) # {} /\ OverlayUpto[n][vs] \in Upto[n]
    BY <1>1, ValuesAssumption DEF OverlayOk
  <2>1. n \in 0..Depth /\ n - 1 = m /\ m \in 0..Depth /\ n # 0
    BY ValuesAssumption
  <2>2. There(vs) # {}
    BY DEF Live
  <2> DEFINE dom == {y \in Segments : There(Parts(vs, y)) # {}}
             at == [x \in dom |-> OverlayUpto[m][Parts(vs, x)]]
             all == [x \in Segments |-> IF x \in DOMAIN at THEN at[x] ELSE Invalid]
  <2>3. OverlayUpto[n][vs] = Of(Top(vs).kind, at)
    <3>1. OverlayUpto[n][vs] = OverlayBy(OverlayUpto[m], vs)
      BY <2>1, OverlaidIs
    <3> QED BY <2>2, <3>1 DEF OverlayBy, Top, Scalars
  <2>4. \A x \in dom : at[x] \in Upto[m]
    <3> TAKE x \in dom
    <3>1. Parts(vs, x) \in Columns(m)
      BY <2>1, PartsAre
    <3> QED BY <1>3, <2>1, <3>1 DEF OverlayOk
  <2>5. all \in [Segments -> Upto[m] \cup {Invalid}]
    BY <2>4
  <2>6. Top(vs).kind \in Composite
    BY <2>1, TopHolds
  <2>7. Of(Top(vs).kind, at) = [kind |-> Top(vs).kind, nil |-> FALSE, at |-> all]
    BY DEF Of
  <2> HIDE DEF n, at, all
  <2>8. Of(Top(vs).kind, at) \in Nodes(Upto[m])
    BY <2>5, <2>6, <2>7 DEF Nodes
  <2>9. Upto[n] = Leaves \cup Nodes(Upto[m])
    BY <2>1, UptoIs DEF RanksOf
  <2> QED BY <2>2, <2>3, <2>8, <2>9
<1>4. Nat \subseteq T
  <2> HIDE DEF T
  <2> QED BY <1>2, <1>3, Induct
<1> QED BY <1>4

(* The parts of an overlay are the overlays of the parts.                  *)
LEMMA OverlayPart ==
  ASSUME NEW n \in 0..Depth, NEW vs \in Columns(n), Live(vs) # {}, Top(vs).kind \notin Scalars
  PROVE  /\ OverlayUpto[n][vs] \in Upto[n]
         /\ OverlayUpto[n][vs].kind = Top(vs).kind /\ Holds(OverlayUpto[n][vs])
         /\ \A x \in Segments :
              /\ OverlayUpto[n][vs].at[x] = OverlayUpto[n - 1][Parts(vs, x)]
              /\ x \in Segs(OverlayUpto[n][vs]) <=> There(Parts(vs, x)) # {}
<1> DEFINE dom == {y \in Segments : There(Parts(vs, y)) # {}}
           at == [x \in dom |-> OverlayUpto[n - 1][Parts(vs, x)]]
           all == [x \in Segments |-> IF x \in DOMAIN at THEN at[x] ELSE Invalid]
           out == OverlayUpto[n][vs]
<1>1. n - 1 \in 0..Depth /\ Top(vs).kind \in Composite
  BY TopHolds
<1>2. There(vs) # {}
  BY DEF Live
<1>3. out = Of(Top(vs).kind, at)
  <2>1. out = OverlayBy(OverlayUpto[n - 1], vs)
    BY OverlaidIs
  <2> QED BY <1>2, <2>1 DEF OverlayBy, Top, Scalars
<1>4. Of(Top(vs).kind, at) = [kind |-> Top(vs).kind, nil |-> FALSE, at |-> all]
  BY DEF Of
<1>5. ASSUME NEW x \in Segments
      PROVE  /\ all[x] = OverlayUpto[n - 1][Parts(vs, x)]
             /\ all[x] # Invalid <=> There(Parts(vs, x)) # {}
  <2>1. Parts(vs, x) \in Columns(n - 1)
    BY <1>1, PartsAre
  <2>2. OverlayUpto[n - 1][Parts(vs, x)] \in
          IF There(Parts(vs, x)) = {} THEN {Invalid} ELSE Upto[n - 1]
    BY <1>1, <2>1, OverlaysAre DEF OverlayOk
  <2>3. \A v \in Upto[n - 1] : v # Invalid
    BY <1>1, KindsAre
  <2> QED BY <2>2, <2>3
<1> HIDE DEF all, at
<1>6. out.kind = Top(vs).kind /\ out.nil = FALSE /\ out.at = all
  BY <1>3, <1>4
<1>7. out \in Upto[n]
  BY <1>2, OverlaysAre DEF OverlayOk
<1> HIDE DEF out
<1>8. Holds(out)
  BY <1>1, <1>6 DEF Holds
<1>9. Segs(out) = {x \in Segments : all[x] # Invalid}
  BY <1>6, <1>8 DEF Segs
<1>10. \A x \in Segments :
         /\ out.at[x] = OverlayUpto[n - 1][Parts(vs, x)]
         /\ x \in Segs(out) <=> There(Parts(vs, x)) # {}
  BY <1>5, <1>6, <1>9
<1> QED BY <1>6, <1>7, <1>8, <1>10 DEF out
LEMMA SameFunctions ==
  ASSUME NEW S, NEW C, NEW f \in [S -> C], NEW g \in [S -> C], \A i \in S : f[i] = g[i]
  PROVE  f = g
OBVIOUS

LEMMA SameColumns ==
  ASSUME NEW n, NEW vs \in Columns(n), NEW us \in Columns(n),
         \A i \in 1..MaxLayers : vs[i] = us[i]
  PROVE  vs = us
<1> DEFINE C == Upto[n] \cup {Invalid}
           S == 1..MaxLayers
<1>1. vs \in [S -> C] /\ us \in [S -> C] /\ \A i \in S : vs[i] = us[i]
  BY DEF Columns
<1> HIDE DEF C, S
<1> QED BY <1>1, SameFunctions

IsNode(v, kind) ==
  v = [kind |-> kind, nil |-> FALSE, at |-> v.at] /\ v.at = [x \in Segments |-> v.at[x]]

LEMMA NodesAre ==
  ASSUME NEW n \in 0..Depth, NEW v \in Upto[n], Holds(v)
  PROVE  IsNode(v, v.kind)
<1>1. v \in Outcomes(n)
  BY DEF Outcomes
<1>2. /\ v = [kind |-> v.kind, nil |-> FALSE, at |-> v.at]
      /\ v.at \in [Segments -> Upto[n - 1] \cup {Invalid}]
  BY <1>1, NodeIs
<1> QED BY <1>2 DEF IsNode

(* A node is known by its kind and by what it has at each segment.         *)
LEMMA SameNodes ==
  ASSUME NEW kind, NEW v, NEW w, IsNode(v, kind), IsNode(w, kind),
         \A x \in Segments : v.at[x] = w.at[x]
  PROVE  v = w
<1>1. v.at = w.at
  BY DEF IsNode
<1> QED BY <1>1 DEF IsNode

(* The overlay of a column in which one layer only has something.          *)
Alone(n) ==
  \A vs \in Columns(n) : \A k \in 1..MaxLayers :
    There(vs) = {k} => OverlayUpto[n][vs] = vs[k]

LEMMA OneAlone == \A n \in 0..Depth : Alone(n)
<1> DEFINE T == {n \in Nat : n <= Depth => Alone(n)}
<1>1. ASSUME NEW n \in 0..Depth, NEW vs \in Columns(n), NEW k \in 1..MaxLayers,
             There(vs) = {k}, Live(vs) = {} \/ Top(vs).kind \in Scalars
      PROVE  OverlayUpto[n][vs] = vs[k]
  <2>1. OverlayUpto[n][vs] = IF Live(vs) = {} THEN vs[Last(There(vs))] ELSE Top(vs)
    BY <1>1, OverlaidIs DEF OverlayBy, Top, Scalars
  <2>2. Last(There(vs)) = k
    BY <1>1, LastIs
  <2>3. Live(vs) # {} => First(Live(vs)) = k
    BY <1>1, TopIs, LiveAre
  <2> QED BY <2>1, <2>2, <2>3 DEF Top
<1>2. 0 \in T
  <2>1. ASSUME NEW vs \in Columns(0), Live(vs) # {} PROVE Top(vs).kind \in Scalars
    <3>1. 0 \in 0..Depth
      BY ValuesAssumption
    <3> QED BY <2>1, <3>1, TopHolds
  <2> QED BY <1>1, <2>1, ValuesAssumption DEF Alone
<1>3. ASSUME NEW m \in Nat, m \in T PROVE m + 1 \in T
  <2> DEFINE n == m + 1
  <2> SUFFICES ASSUME n <= Depth, NEW vs \in Columns(n), NEW k \in 1..MaxLayers,
                      There(vs) = {k}, Live(vs) # {}, Top(vs).kind \notin Scalars
               PROVE  OverlayUpto[n][vs] = vs[k]
    BY <1>1, ValuesAssumption DEF Alone
  <2>1. n \in 0..Depth /\ n - 1 = m /\ m \in 0..Depth
    BY ValuesAssumption
  <2>2. Live(vs) = {k} /\ First(Live(vs)) = k
    BY <2>1, TopIs, LiveAre
  <2>3. Holds(vs[k]) /\ vs[k] \in Upto[n] /\ Top(vs) = vs[k]
    BY <2>1, <2>2, TopHolds DEF Top
  <2>4. Agreeing(vs) = {k}
    BY <2>2 DEF Agreeing, Alike
  <2>5. vs[k] \in Outcomes(n)
    BY <2>3 DEF Outcomes
  <2> HIDE DEF n
  <2>6. ASSUME NEW x \in Segments
        PROVE  OverlayUpto[m][Parts(vs, x)] = vs[k].at[x]
    <3>1. Parts(vs, x) \in Columns(m)
      BY <2>1, PartsAre
    <3>2. DOMAIN vs = 1..MaxLayers
      BY <2>1, LiveAre
    <3>3. Suppliers(vs, x) \subseteq {k} /\ (x \in Segs(vs[k]) => k \in Suppliers(vs, x))
      BY <2>4 DEF Suppliers
    <3>4. CASE x \in Segs(vs[k])
      <4>1. Part(vs[k], x) = vs[k].at[x] /\ vs[k].at[x] # Invalid
        BY <2>1, <2>5, <3>4, PartIs
      <4>2. There(Parts(vs, x)) = {k} /\ Parts(vs, x)[k] = vs[k].at[x]
        BY <3>2, <3>3, <3>4, <4>1 DEF There, Parts
      <4> QED BY <1>3, <2>1, <3>1, <4>2 DEF Alone
    <3>5. CASE x \notin Segs(vs[k])
      <4>1. Part(vs[k], x) = Invalid
        BY <3>5 DEF Part
      <4>2. There(Parts(vs, x)) = {}
        BY <3>2, <3>3, <4>1 DEF There, Parts
      <4>3. OverlayUpto[m][Parts(vs, x)] = Invalid
        BY <2>1, <3>1, <4>2, OverlaysAre DEF OverlayOk
      <4>4. vs[k].at[x] = Invalid
        BY <2>3, <3>5 DEF Segs
      <4> QED BY <4>3, <4>4
    <3> QED BY <3>4, <3>5
  <2> DEFINE out == OverlayUpto[n][vs]
  <2>7. /\ out \in Upto[n] /\ Holds(out) /\ out.kind = vs[k].kind
        /\ \A x \in Segments : out.at[x] = OverlayUpto[n - 1][Parts(vs, x)]
    BY <2>1, <2>3, OverlayPart
  <2> HIDE DEF out
  <2>8. \A x \in Segments : out.at[x] = vs[k].at[x]
    BY <2>1, <2>6, <2>7
  <2>9. out = vs[k]
    <3>1. IsNode(out, vs[k].kind) /\ IsNode(vs[k], vs[k].kind)
      BY <2>1, <2>3, <2>7, NodesAre
    <3> QED BY <2>8, <3>1, SameNodes
  <2> QED BY <2>9 DEF out
<1>4. Nat \subseteq T
  <2> HIDE DEF T
  <2> QED BY <1>2, <1>3, Induct
<1> QED BY <1>4

(* Layers with nothing but nil do not count in an overlay.                 *)
LEMMA SameLive ==
  ASSUME NEW vs, NEW us, DOMAIN vs = DOMAIN us, Live(vs) = Live(us),
         \A i \in Live(vs) : vs[i] = us[i], Live(vs) # {}, First(Live(vs)) \in Live(vs)
  PROVE  /\ Top(vs) = Top(us)
         /\ \A x : Parts(vs, x) = Parts(us, x)
<1>1. Top(vs) = Top(us)
  BY DEF Top
<1>2. Agreeing(vs) = Agreeing(us)
  BY DEF Agreeing
<1>3. ASSUME NEW x PROVE Parts(vs, x) = Parts(us, x)
  <2>1. Suppliers(vs, x) = Suppliers(us, x)
    BY <1>2 DEF Suppliers, Agreeing
  <2>2. \A i \in Suppliers(vs, x) : vs[i] = us[i]
    BY DEF Suppliers, Agreeing
  <2> QED BY <2>1, <2>2 DEF Parts
<1> QED BY <1>1, <1>3

-----------------------------------------------------------------------------
(* A layer on top of the others: us is vs with s at k.                     *)
OnTop(n, k, s, vs, us) ==
  /\ k \in 1..MaxLayers /\ s \in Upto[n] /\ vs \in Columns(n) /\ us \in Columns(n)
  /\ \A i \in 1..k : vs[i] = Invalid
  /\ us[k] = s /\ \A i \in 1..MaxLayers : i # k => us[i] = vs[i]

TopFits(k, s, vs, us) ==
  /\ Live(us) = Live(vs) \cup {k} /\ \A i \in Live(vs) : k < i /\ us[i] = vs[i]
  /\ First(Live(us)) = k /\ Top(us) = s /\ There(us) # {}

LEMMA TopIsOnTop ==
  ASSUME NEW n \in 0..Depth, NEW k, NEW s, NEW vs, NEW us, OnTop(n, k, s, vs, us),
         ~GivesWay(s)
  PROVE  TopFits(k, s, vs, us)
<1>1. DOMAIN vs = 1..MaxLayers /\ DOMAIN us = 1..MaxLayers /\ k \in 1..MaxLayers
  BY LiveAre DEF OnTop
<1>2. s # Invalid /\ ~IsNil(s)
  BY DEF GivesWay, Invalid
<1>3. Live(us) = Live(vs) \cup {k}
  BY <1>1, <1>2 DEF Live, There, OnTop
<1>4. \A i \in Live(vs) : k < i /\ us[i] = vs[i]
  BY <1>1, StacksAssumption DEF Live, There, OnTop
<1>5. \A i \in Live(us) : k <= i
  <2>1. \A i \in Live(us) : i = k \/ k < i
    BY <1>3, <1>4
  <2>2. Live(us) \subseteq Nat /\ k \in Nat
    BY <1>1, LiveAre, StacksAssumption DEF OnTop
  <2> QED BY <2>1, <2>2
<1>6. First(Live(us)) \in Live(us) /\ \A j \in Live(us) : First(Live(us)) <= j
  BY <1>3, TopIs DEF OnTop
<1>7. First(Live(us)) = k
  <2>1. First(Live(us)) <= k /\ k <= First(Live(us))
    BY <1>3, <1>5, <1>6
  <2>2. First(Live(us)) \in Nat /\ k \in Nat
    BY <1>1, <1>6, LiveAre, StacksAssumption DEF OnTop
  <2> QED BY <2>1, <2>2
<1> QED BY <1>3, <1>4, <1>7 DEF Top, OnTop, Live, TopFits

(* What is not a map has, in an overlay, the parts its first layer has.    *)
LEMMA SegsOfTop ==
  ASSUME NEW n \in 0..Depth, NEW vs \in Columns(n), Live(vs) # {}, Top(vs).kind \notin Scalars,
         Top(vs).kind # "map"
  PROVE  Segs(OverlayUpto[n][vs]) = Segs(Top(vs))
<1> DEFINE t == First(Live(vs))
<1>1. /\ DOMAIN vs = 1..MaxLayers /\ Live(vs) \subseteq 1..MaxLayers
      /\ t \in Live(vs) /\ \A j \in Live(vs) : t <= j
  BY LiveAre, TopIs
<1>2. Top(vs) = vs[t] /\ vs[t] \in Outcomes(n)
  BY TopHolds DEF Top, Outcomes
<1> HIDE DEF t
<1>3. Agreeing(vs) \subseteq Live(vs) /\ t \in Agreeing(vs)
      /\ \A i \in Agreeing(vs) : vs[i].kind = vs[t].kind
  <2>1. \A i \in Agreeing(vs) : Alike(vs[t], vs[i])
    <3>1. \A i \in Live(vs) : i <= i
      BY <1>1, StacksAssumption
    <3> QED BY <3>1 DEF Agreeing, t
  <2>2. t \in Agreeing(vs)
    <3>1. \A j \in Live(vs) : j <= t => j = t
      BY <1>1, StacksAssumption
    <3> QED BY <1>1, <3>1 DEF Agreeing, Alike, t
  <2> QED BY <2>1, <2>2 DEF Agreeing, Alike
<1>4. ASSUME NEW x \in Segments
      PROVE  There(Parts(vs, x)) # {} <=> x \in Segs(vs[t])
  <2>1. CASE x \in Segs(vs[t])
    <3>1. \A j \in Agreeing(vs) : j <= t => j = t
      BY <1>1, <1>3, StacksAssumption
    <3>2. t \in Suppliers(vs, x)
      BY <1>3, <2>1, <3>1 DEF Suppliers
    <3>3. Part(vs[t], x) # Invalid
      BY <1>2, <2>1, PartIs
    <3>4. t \in There(Parts(vs, x))
      BY <1>1, <3>2, <3>3 DEF There, Parts
    <3> QED BY <2>1, <3>4
  <2>2. CASE x \notin Segs(vs[t])
    <3>1. \A i \in Agreeing(vs) : t <= i /\ vs[i].kind # "map"
      BY <1>1, <1>2, <1>3
    <3>2. Suppliers(vs, x) = {}
      BY <1>3, <2>2, <3>1 DEF Suppliers
    <3>3. There(Parts(vs, x)) = {}
      BY <3>2 DEF There, Parts
    <3> QED BY <2>2, <3>3
  <2> QED BY <2>1, <2>2
<1>5. \A x \in Segments : x \in Segs(OverlayUpto[n][vs]) <=> x \in Segs(vs[t])
  <2> TAKE x \in Segments
  <2>1. x \in Segs(OverlayUpto[n][vs]) <=> There(Parts(vs, x)) # {}
    BY OverlayPart
  <2> QED BY <1>4, <2>1
<1>6. Segs(OverlayUpto[n][vs]) \subseteq Segments /\ Segs(vs[t]) \subseteq Segments
  BY DEF Segs
<1> QED BY <1>2, <1>5, <1>6

(* The layers below count if they agree with the one on top.               *)
LEMMA AgreeingOnTop ==
  ASSUME NEW n \in 0..Depth, NEW k, NEW s, NEW vs, NEW us, OnTop(n, k, s, vs, us),
         ~GivesWay(s)
  PROVE  Agreeing(us) = {k} \cup IF Live(vs) # {} /\ Alike(s, Top(vs)) THEN Agreeing(vs) ELSE {}
<1> DEFINE t == First(Live(vs))
<1>1. /\ Live(us) = Live(vs) \cup {k} /\ \A i \in Live(vs) : k < i /\ us[i] = vs[i]
      /\ First(Live(us)) = k /\ us[k] = s
  <2>1. TopFits(k, s, vs, us)
    BY TopIsOnTop
  <2> QED BY <2>1 DEF TopFits, OnTop
<1>2. Live(vs) \subseteq 1..MaxLayers /\ k \in 1..MaxLayers
  BY LiveAre DEF OnTop
<1>3. \A i \in Live(us) :
        i \in Agreeing(us) <=> \A j \in Live(us) : j <= i => Alike(s, us[j])
  BY <1>1 DEF Agreeing
<1>4. k \in Agreeing(us)
  <2>1. \A j \in Live(us) : j <= k => j = k
    BY <1>1, <1>2, StacksAssumption
  <2> QED BY <1>1, <1>3, <2>1 DEF Alike
<1>5. Agreeing(us) \subseteq Live(vs) \cup {k} /\ Agreeing(vs) \subseteq Live(vs)
  BY <1>1 DEF Agreeing
<1>6. ASSUME Live(vs) # {} PROVE t \in Live(vs) /\ \A j \in Live(vs) : t <= j
  BY <1>6, TopIs DEF OnTop
<1>7. ASSUME NEW i \in Live(vs)
      PROVE  i \in Agreeing(us) <=> Alike(s, Top(vs)) /\ i \in Agreeing(vs)
  <2>1. Top(vs) = vs[t] /\ us[t] = vs[t] /\ t \in Live(vs) /\ t <= i
    BY <1>1, <1>6, <1>7 DEF Top
  <2>2. i \in Agreeing(vs) <=> \A j \in Live(vs) : j <= i => Alike(vs[t], vs[j])
    BY DEF Agreeing
  <2> HIDE DEF t
  <2>3. i \in Agreeing(us) <=> \A j \in Live(vs) : j <= i => Alike(s, vs[j])
    <3>1. Alike(s, us[k])
      BY <1>1 DEF Alike
    <3> QED BY <1>1, <1>3, <3>1
  <2> QED BY <2>1, <2>2, <2>3 DEF Alike
<1> QED BY <1>4, <1>5, <1>7
(* At x, what the layers below k have that may count.                      *)
Under(us, k, x) == [i \in DOMAIN us |-> IF i = k THEN Invalid ELSE Parts(us, x)[i]]

(* An overlay is a composite of a kind only if its first live layer is.    *)
LEMMA OverlayHolds ==
  ASSUME NEW n \in 0..Depth, NEW vs \in Columns(n), Holds(OverlayUpto[n][vs]),
         OverlayUpto[n][vs].kind \notin Scalars
  PROVE  Live(vs) # {} /\ Top(vs).kind \notin Scalars
<1>1. OverlayUpto[n][vs] = OverlayBy(OverlayUpto[n - 1], vs)
  BY OverlaidIs
<1>2. There(vs) # {}
  BY <1>1 DEF OverlayBy, Holds, Invalid, Composite, Nilable
<1>3. Last(There(vs)) \in There(vs)
  BY <1>2, LiveAre, LastIs
<1>4. Live(vs) # {}
  <2> SUFFICES ASSUME Live(vs) = {} PROVE FALSE
    OBVIOUS
  <2>1. OverlayUpto[n][vs] = vs[Last(There(vs))]
    BY <1>1, <1>2 DEF OverlayBy
  <2>2. IsNil(vs[Last(There(vs))])
    BY <1>3 DEF Live
  <2> QED BY <2>1, <2>2 DEF IsNil, Holds
<1>5. Top(vs).kind \in Scalars => OverlayUpto[n][vs] = Top(vs)
  BY <1>1, <1>2, <1>4 DEF OverlayBy, Top, Scalars
<1> QED BY <1>4, <1>5

UnderFits(n, k, s, vs, us, x) ==
  /\ Under(us, k, x) \in Columns(n - 1) /\ Parts(us, x)[k] = Part(s, x)
  /\ \A i \in 1..k : Under(us, k, x)[i] = Invalid
  /\ OverlayUpto[n - 1][Under(us, k, x)] = At(OverlayUpto[n][vs], s, x)

(* What merging takes from the value below is the overlay of those.    *)
LEMMA UnderIs ==
  ASSUME NEW n \in 0..Depth, NEW k, NEW s, NEW vs, NEW us, OnTop(n, k, s, vs, us),
         Holds(s), s.kind \notin Scalars, n - 1 \in 0..Depth,
         NEW x \in Segments, s.kind = "map" \/ x \in Segs(s)
  PROVE  UnderFits(n, k, s, vs, us, x)
<1> DEFINE w == OverlayUpto[n][vs]
           like == Live(vs) # {} /\ Alike(s, Top(vs))
<1>1. /\ k \in 1..MaxLayers /\ us[k] = s /\ vs \in Columns(n) /\ us \in Columns(n)
      /\ DOMAIN us = 1..MaxLayers /\ DOMAIN vs = 1..MaxLayers
  BY LiveAre DEF OnTop
<1>2. ~GivesWay(s)
  BY DEF GivesWay, Holds, IsNil, Composite, Nilable
<1>3. \A i \in Live(vs) : k < i /\ us[i] = vs[i]
  <2>1. TopFits(k, s, vs, us)
    BY <1>2, TopIsOnTop
  <2> QED BY <2>1 DEF TopFits
<1>4. Agreeing(us) = {k} \cup IF like THEN Agreeing(vs) ELSE {}
  BY <1>2, AgreeingOnTop
<1>5. Live(vs) \subseteq 1..MaxLayers /\ Agreeing(vs) \subseteq Live(vs)
  BY <1>1, LiveAre DEF Agreeing
<1>6. Parts(us, x) \in Columns(n - 1)
  BY <1>1, PartsAre
<1>7. Under(us, k, x) \in Columns(n - 1)
  BY <1>1, <1>6 DEF Under, Columns
<1>8. \A i \in Agreeing(us) : k <= i /\ (i = k \/ ~(i <= k))
  <2>1. \A i \in Agreeing(us) : i = k \/ k < i
    BY <1>3, <1>4, <1>5
  <2>2. \A i \in Agreeing(us) : i \in Nat
    BY <1>1, <1>4, <1>5, StacksAssumption
  <2>3. k \in Nat
    BY <1>1, StacksAssumption
  <2> QED BY <2>1, <2>2, <2>3
<1>9. k \in Suppliers(us, x)
  BY <1>1, <1>4, <1>8 DEF Suppliers
<1>10. Parts(us, x)[k] = Part(s, x)
  BY <1>1, <1>9 DEF Parts
<1>11. \A i \in 1..k : Under(us, k, x)[i] = Invalid
  <2> TAKE i \in 1..k
  <2>1. i \in DOMAIN us
    BY <1>1, StacksAssumption
  <2>2. i # k => i \notin Suppliers(us, x)
    <3>1. i <= k
      BY <1>1, StacksAssumption
    <3> QED BY <1>8, <3>1 DEF Suppliers
  <2> QED BY <2>1, <2>2 DEF Under, Parts
<1>12. CASE like
  <2>1. Top(vs).kind = s.kind
    BY <1>12 DEF Alike
  <2>2. /\ w.kind = s.kind /\ Holds(w)
        /\ w.at[x] = OverlayUpto[n - 1][Parts(vs, x)]
    BY <1>1, <1>12, <2>1, OverlayPart
  <2>3. s.kind # "map" => Segs(w) = Segs(Top(vs))
    BY <1>1, <1>12, <2>1, SegsOfTop
  <2> HIDE DEF w
  <2>4. Alike(s, w)
    BY <1>12, <2>2, <2>3 DEF Alike
  <2>5. At(w, s, x) = w.at[x]
    BY <2>2, <2>4 DEF At, Part, Segs
  <2>6. ASSUME NEW i \in Agreeing(vs)
        PROVE  i \in Suppliers(us, x) <=> i \in Suppliers(vs, x)
    <3>1. us[i] = vs[i] /\ i \in Agreeing(us)
      BY <1>3, <1>4, <1>5, <1>12
    <3>2. \A j \in Agreeing(vs) : us[j] = vs[j]
      BY <1>3, <1>5
    <3>3. CASE s.kind = "map"
      <4>1. vs[i].kind = Top(vs).kind
        <5>1. Live(vs) \subseteq Nat
          BY <1>5, StacksAssumption
        <5>2. i <= i /\ i \in Live(vs)
          BY <1>5, <5>1
        <5> QED BY <5>2 DEF Agreeing, Alike, Top
      <4> QED BY <2>1, <3>1, <3>3, <4>1 DEF Suppliers
    <3>4. CASE s.kind # "map"
      <4>1. x \in Segs(us[k])
        BY <1>1, <3>4
      <4>2. Agreeing(us) = {k} \cup Agreeing(vs)
        BY <1>4, <1>12
      <4> QED BY <3>1, <3>2, <4>1, <4>2 DEF Suppliers
    <3> QED BY <3>3, <3>4
  <2>7. k \notin Agreeing(vs)
    <3>1. k \in Nat
      BY <1>1, StacksAssumption
    <3> QED BY <1>3, <1>5, <3>1
  <2>8. \A i \in DOMAIN us : i # k => (i \in Suppliers(us, x) <=> i \in Suppliers(vs, x))
    <3>1. Suppliers(us, x) \subseteq {k} \cup Agreeing(vs) /\ Suppliers(vs, x) \subseteq Agreeing(vs)
      BY <1>4, <1>12 DEF Suppliers
    <3> QED BY <2>6, <3>1
  <2>9. Under(us, k, x) = Parts(vs, x)
    <3>1. \A i \in Suppliers(vs, x) : us[i] = vs[i] /\ i # k
      BY <1>3, <1>5, <2>7 DEF Suppliers
    <3>2. \A i \in DOMAIN us : Under(us, k, x)[i] = Parts(vs, x)[i]
      <4> TAKE i \in DOMAIN us
      <4>1. CASE i = k
        BY <1>1, <3>1, <4>1 DEF Under, Parts
      <4>2. CASE i # k
        BY <1>1, <2>8, <3>1, <4>2 DEF Under, Parts
      <4> QED BY <4>1, <4>2
    <3> QED BY <1>1, <3>2 DEF Under, Parts
  <2>10. OverlayUpto[n - 1][Under(us, k, x)] = At(w, s, x)
    BY <2>2, <2>5, <2>9
  <2> QED BY <1>7, <1>10, <1>11, <2>10 DEF w, UnderFits
<1>13. CASE ~like
  <2>1. Suppliers(us, x) \subseteq {k}
    BY <1>4, <1>13 DEF Suppliers
  <2>2. There(Under(us, k, x)) = {}
    BY <1>1, <2>1 DEF There, Under, Parts
  <2>3. OverlayUpto[n - 1][Under(us, k, x)] = Invalid
    BY <1>7, <2>2, OverlaysAre DEF OverlayOk
  <2>4. ASSUME Alike(s, w), x \in Segs(w) PROVE FALSE
    <3>1. Holds(w) /\ w.kind = s.kind /\ (s.kind = "struct" => Segs(s) = Segs(w))
      BY <2>4 DEF Alike, Segs
    <3>2. Live(vs) # {} /\ Top(vs).kind \notin Scalars
      BY <1>1, <3>1, OverlayHolds
    <3>3. w.kind = Top(vs).kind
      BY <1>1, <3>2, OverlayPart
    <3>4. s.kind = "struct" => Segs(w) = Segs(Top(vs))
      BY <1>1, <3>1, <3>2, <3>3, SegsOfTop
    <3> HIDE DEF w
    <3>5. Alike(s, Top(vs))
      BY <3>1, <3>3, <3>4 DEF Alike
    <3> QED BY <1>13, <3>2, <3>5
  <2>5. At(w, s, x) = Invalid
    BY <2>4 DEF At, Part
  <2> QED BY <1>7, <1>10, <1>11, <2>3, <2>5 DEF w, UnderFits
<1> QED BY <1>12, <1>13
LEMMA MergedIs ==
  ASSUME NEW n \in 0..Depth, NEW s \in Upto[n], NEW w \in Outcomes(n)
  PROVE  MergeUpto[n][s][w] = MergeBy(n, MergeUpto[n - 1], s, w)
<1>1. s \in Outcomes(n)
  BY DEF Outcomes
<1>2. MergedAt(n)
  BY MergeUptoIs
<1> DEFINE B(a, b) == MergeBy(n, MergeUpto[n - 1], a, b)
<1>3. MergeUpto[n] = [a \in Outcomes(n) |-> [b \in Outcomes(n) |-> B(a, b)]]
  BY <1>2 DEF MergedAt
<1> HIDE DEF B
<1>4. MergeUpto[n][s][w] = B(s, w)
  BY <1>1, <1>3
<1> QED BY <1>4 DEF B

LEMMA WeakIs ==
  ASSUME NEW n \in 0..Depth, NEW vs \in Columns(n)
  PROVE  OverlayUpto[n][vs] \in Outcomes(n)
BY OverlaysAre DEF OverlayOk, Outcomes

(* Nothing and nil give way; a scalar or a slice wins as it is.            *)
LEMMA MergeWhole ==
  ASSUME Unexported = {}, NEW n \in 0..Depth, NEW k, NEW s, NEW vs, NEW us,
         OnTop(n, k, s, vs, us), GivesWay(s) \/ s.kind \in Scalars,
         MergeUpto[n][s][OverlayUpto[n][vs]] # Invalid
  PROVE  MergeUpto[n][s][OverlayUpto[n][vs]] = OverlayUpto[n][us]
<1> DEFINE w == OverlayUpto[n][vs]
<1>1. /\ k \in 1..MaxLayers /\ us[k] = s /\ vs \in Columns(n) /\ us \in Columns(n)
      /\ DOMAIN us = 1..MaxLayers /\ DOMAIN vs = 1..MaxLayers
      /\ s \in Upto[n] /\ s \in Outcomes(n) /\ w \in Outcomes(n)
  BY LiveAre, WeakIs DEF OnTop, Outcomes
<1>2. MergeUpto[n][s][w] = MergeBy(n, MergeUpto[n - 1], s, w)
  BY <1>1, MergedIs
<1>3. CloneUpto[n][w] = w /\ CloneUpto[n][s] = s
  BY <1>1, CloneIs
<1>4. w = OverlayBy(OverlayUpto[n - 1], vs)
  BY <1>1, OverlaidIs
<1>5. OverlayUpto[n][us] = OverlayBy(OverlayUpto[n - 1], us)
  BY <1>1, OverlaidIs
<1>6. CASE GivesWay(s)
  <2>1. MergeUpto[n][s][w] = w
    BY <1>2, <1>3, <1>6 DEF MergeBy
  <2>2. There(vs) # {}
    BY <1>4, <2>1 DEF OverlayBy
  <2>3. IsNil(s) /\ s # Invalid
    BY <1>1, <1>6, KindsAre DEF GivesWay, Composite, Nilable
  <2>4. Live(us) = Live(vs) /\ \A i \in Live(us) : us[i] = vs[i]
    BY <1>1, <2>3 DEF Live, There, OnTop
  <2>5. There(us) = There(vs) \cup {k}
    BY <1>1, <2>3 DEF There, OnTop
  <2>6. CASE Live(vs) = {}
    <3>1. Last(There(vs)) \in There(vs) /\ \A j \in There(vs) : j <= Last(There(vs))
      BY <1>1, <2>2, LiveAre, LastIs
    <3>2. Last(There(us)) \in There(us) /\ \A j \in There(us) : j <= Last(There(us))
      BY <1>1, <2>5, LiveAre, LastIs
    <3>3. \A j \in There(vs) : k < j
      BY <1>1, StacksAssumption DEF There, OnTop
    <3>4. There(us) \subseteq Nat
      BY <1>1, StacksAssumption DEF There
    <3>5. Last(There(us)) = Last(There(vs)) /\ Last(There(vs)) # k
      <4> DEFINE a == Last(There(vs))
                 b == Last(There(us))
      <4>1. k < a /\ a <= b
        BY <2>5, <3>1, <3>2, <3>3
      <4>2. a \in Nat /\ b \in Nat /\ k \in Nat
        BY <2>5, <3>1, <3>2, <3>4
      <4>3. b \in There(vs)
        BY <2>5, <3>2, <4>1, <4>2
      <4>4. b <= a
        BY <3>1, <4>3
      <4> QED BY <4>1, <4>2, <4>4
    <3>6. us[Last(There(us))] = vs[Last(There(vs))]
      BY <1>1, <3>1, <3>5 DEF There, OnTop
    <3>7. There(us) # {}
      BY <2>5
    <3> QED BY <1>4, <1>5, <2>1, <2>2, <2>4, <2>6, <3>6, <3>7 DEF OverlayBy
  <2>7. CASE Live(vs) # {}
    <3>1. First(Live(vs)) \in Live(vs)
      BY <1>1, <2>7, TopIs
    <3>2. Top(vs) = Top(us) /\ \A x : Parts(vs, x) = Parts(us, x)
      BY <1>1, <2>4, <2>7, <3>1, SameLive
    <3>3. There(us) # {}
      BY <2>5
    <3> DEFINE at(cs) == [x \in {y \in Segments : There(Parts(cs, y)) # {}} |->
                            OverlayUpto[n - 1][Parts(cs, x)]]
    <3>4. at(us) = at(vs)
      BY <3>2
    <3>5. w = IF Top(vs).kind \in Scalars THEN Top(vs) ELSE Of(Top(vs).kind, at(vs))
      BY <1>4, <2>2, <2>7 DEF OverlayBy, Top, Scalars
    <3>6. OverlayUpto[n][us] = IF Top(us).kind \in Scalars THEN Top(us) ELSE Of(Top(us).kind, at(us))
      BY <1>5, <2>4, <2>7, <3>3 DEF OverlayBy, Top, Scalars
    <3> HIDE DEF at
    <3> QED BY <2>1, <3>2, <3>4, <3>5, <3>6
  <2> QED BY <2>6, <2>7
<1>7. CASE ~GivesWay(s)
  <2>1. MergeUpto[n][s][w] = s
    BY <1>2, <1>3, <1>7 DEF MergeBy, ByParts, Scalars
  <2>2. Live(us) # {} /\ Top(us) = s /\ There(us) # {}
    <3>1. TopFits(k, s, vs, us)
      BY <1>7, TopIsOnTop
    <3> QED BY <3>1 DEF TopFits
  <2> QED BY <1>5, <1>7, <2>1, <2>2 DEF OverlayBy, Top, Scalars
<1> QED BY <1>6, <1>7

(* What a merge builds, part by part.                                      *)
MergeFits(n, s, w) ==
  LET m == MergeUpto[n][s][w]
      part(x) == MergeUpto[n - 1][s.at[x]][At(w, s, x)]
  IN  /\ Holds(m) /\ m.kind = s.kind
      /\ IsNode(m, s.kind)
      /\ \A x \in Segs(s) : At(w, s, x) # Invalid \/ s.kind # "map" =>
           part(x) \notin {Invalid, Panic} /\ m.at[x] = part(x)
      /\ \A x \in Segments \ Segs(s) :
           m.at[x] = IF s.kind = "map" THEN At(w, s, x) ELSE Invalid
      /\ \A x \in Segs(s) : At(w, s, x) = Invalid /\ s.kind = "map" => m.at[x] = s.at[x]

LEMMA MergedPart ==
  ASSUME Unexported = {}, NEW n \in 0..Depth, NEW s \in Upto[n], NEW w \in Outcomes(n),
         Holds(s), s.kind \notin Scalars, MergeUpto[n][s][w] # Panic, n - 1 \in 0..Depth
  PROVE  MergeFits(n, s, w)
<1> DEFINE m == MergeUpto[n][s][w]
           part(x) == MergeUpto[n - 1][s.at[x]][At(w, s, x)]
           below == IF w.kind = "map" THEN Segs(w) ELSE {}
           struct == [x \in Segs(s) |-> part(x)]
           map == [x \in Segs(s) \cup below |->
             IF x \in Segs(s) \cap below
             THEN MergeUpto[n - 1][s.at[x]][CloneUpto[n - 1][w.at[x]]]
             ELSE CloneUpto[n - 1][IF x \in below THEN w.at[x] ELSE s.at[x]]]
<1>1. m = MergeBy(n, MergeUpto[n - 1], s, w)
  BY MergedIs
<1>2. ~GivesWay(s) /\ s.kind \in ByParts \cup {"map"} /\ s.kind \in Composite
  BY DEF GivesWay, Holds, IsNil, Composite, Nilable, ByParts, Scalars
<1>3. ASSUME NEW at, DOMAIN at \subseteq Segments, m = Build(s, at)
      PROVE  /\ Holds(m) /\ m.kind = s.kind
             /\ IsNode(m, s.kind)
             /\ \A x \in DOMAIN at : at[x] \notin {Invalid, Panic} /\ m.at[x] = at[x]
             /\ \A x \in Segments \ DOMAIN at : m.at[x] = Invalid
  <2>1. m = Of(s.kind, at) /\ \A x \in DOMAIN at : at[x].kind \notin {"invalid", "panic"}
    BY <1>3, BuildIs
  <2> DEFINE all == [x \in Segments |-> IF x \in DOMAIN at THEN at[x] ELSE Invalid]
  <2>2. Of(s.kind, at) = [kind |-> s.kind, nil |-> FALSE, at |-> all]
    BY DEF Of
  <2>3. \A x \in DOMAIN at : at[x] \notin {Invalid, Panic}
    BY <2>1 DEF Invalid, Panic
  <2>4. /\ \A x \in DOMAIN at : all[x] = at[x]
        /\ \A x \in Segments \ DOMAIN at : all[x] = Invalid
    BY <1>3
  <2> HIDE DEF all, m
  <2>5. m.kind = s.kind /\ m.nil = FALSE /\ m.at = all
    BY <2>1, <2>2
  <2>6. all = [x \in Segments |-> all[x]]
    BY DEF all
  <2>7. IsNode(m, s.kind)
    BY <2>1, <2>2, <2>5, <2>6 DEF IsNode
  <2> QED BY <1>2, <2>3, <2>4, <2>5, <2>7 DEF Holds
<1>4. Segs(s) \subseteq Segments /\ Segs(w) \subseteq Segments
  BY DEF Segs
<1>5. CASE s.kind # "map"
  <2>1. m = Build(s, struct)
    BY <1>1, <1>2, <1>5 DEF MergeBy
  <2>2. DOMAIN struct = Segs(s) /\ \A x \in Segs(s) : struct[x] = part(x)
    OBVIOUS
  <2> HIDE DEF struct, m, part, map
  <2>3. /\ Holds(m) /\ m.kind = s.kind
        /\ IsNode(m, s.kind)
        /\ \A x \in Segs(s) : part(x) \notin {Invalid, Panic} /\ m.at[x] = part(x)
        /\ \A x \in Segments \ Segs(s) : m.at[x] = Invalid
    BY <1>3, <1>4, <2>1, <2>2
  <2> QED BY <1>5, <2>3 DEF m, part, MergeFits
<1>6. CASE s.kind = "map"
  <2>1. m = Build(s, map)
    BY <1>1, <1>2, <1>6 DEF MergeBy, ByParts
  <2>2. \A x \in Segments : At(w, s, x) = IF x \in below THEN w.at[x] ELSE Invalid
    BY <1>6 DEF At, Alike, Part
  <2>3. \A x \in below : /\ w.at[x] # Invalid /\ CloneUpto[n - 1][w.at[x]] = w.at[x]
    <3> TAKE x \in below
    <3>1. w.at[x] \in Outcomes(n - 1) /\ w.at[x] # Invalid
      BY PartIs
    <3> QED BY <3>1, CloneIs
  <2>4. \A x \in Segs(s) : CloneUpto[n - 1][s.at[x]] = s.at[x]
    <3> TAKE x \in Segs(s)
    <3>1. s \in Outcomes(n)
      BY DEF Outcomes
    <3>2. s.at[x] \in Outcomes(n - 1)
      BY <3>1, PartIs
    <3> QED BY <3>2, CloneIs
  <2>5. below \subseteq Segments
    BY <1>4
  <2>6. \A x \in Segs(s) \cup below :
          map[x] = IF x \notin below THEN s.at[x]
                   ELSE IF x \notin Segs(s) THEN w.at[x] ELSE part(x)
    BY <2>2, <2>3, <2>4, <2>5
  <2>7. DOMAIN map = Segs(s) \cup below
    OBVIOUS
  <2> HIDE DEF struct, m, part, map, below
  <2>8. /\ Holds(m) /\ m.kind = s.kind
        /\ IsNode(m, s.kind)
        /\ \A x \in Segs(s) \cup below : map[x] \notin {Invalid, Panic} /\ m.at[x] = map[x]
        /\ \A x \in Segments \ (Segs(s) \cup below) : m.at[x] = Invalid
    BY <1>3, <1>4, <2>1, <2>5, <2>7
  <2>9. \A x \in Segs(s) : At(w, s, x) # Invalid =>
          part(x) \notin {Invalid, Panic} /\ m.at[x] = part(x)
    BY <1>4, <2>2, <2>6, <2>8
  <2>10. \A x \in Segments \ Segs(s) : m.at[x] = At(w, s, x)
    BY <2>2, <2>6, <2>8
  <2>11. \A x \in Segs(s) : At(w, s, x) = Invalid => m.at[x] = s.at[x]
    BY <1>4, <2>2, <2>3, <2>6, <2>8
  <2> QED BY <1>6, <2>8, <2>9, <2>10, <2>11 DEF m, part, MergeFits
<1> QED BY <1>5, <1>6
(* Merging a layer onto the overlay of those below gives the overlay of    *)
(* them all.                                                               *)
Overlays(n) ==
  \A k, s, vs, us :
    OnTop(n, k, s, vs, us) =>
      MergeUpto[n][s][OverlayUpto[n][vs]] \in {Invalid, Panic, OverlayUpto[n][us]}

LEMMA MergeOverlays ==
  ASSUME Unexported = {}
  PROVE  \A n \in 0..Depth : Overlays(n)
<1> DEFINE T == {n \in Nat : n <= Depth => Overlays(n)}
<1>1. ASSUME NEW n \in 0..Depth, NEW k, NEW s, NEW vs, NEW us, OnTop(n, k, s, vs, us),
             GivesWay(s) \/ s.kind \in Scalars
      PROVE  MergeUpto[n][s][OverlayUpto[n][vs]] \in {Invalid, Panic, OverlayUpto[n][us]}
  BY <1>1, MergeWhole
<1>2. ASSUME NEW n \in 0..Depth, NEW s \in Upto[n], ~GivesWay(s), s.kind \notin Scalars
      PROVE  Holds(s) /\ n - 1 \in 0..Depth /\ s \in Outcomes(n)
  <2>1. s.kind \in Composite \cup {"scalar"}
    BY KindsAre
  <2>2. Holds(s) /\ s \in Outcomes(n)
    BY <1>2, <2>1 DEF GivesWay, IsNil, Holds, Scalars, Outcomes
  <2> QED BY <2>2, NodeIs
<1>3. 0 \in T
  <2>1. 0 \in 0..Depth
    BY ValuesAssumption
  <2>2. \A s \in Upto[0] : GivesWay(s) \/ s.kind \in Scalars
    BY <1>2, <2>1
  <2>3. Overlays(0)
    BY <1>1, <2>1, <2>2 DEF Overlays, OnTop
  <2> QED BY <2>3
<1>4. ASSUME NEW q \in Nat, q \in T PROVE q + 1 \in T
  <2> DEFINE n == q + 1
  <2>1. ASSUME n <= Depth, NEW k, NEW s, NEW vs, NEW us, OnTop(n, k, s, vs, us),
               ~GivesWay(s), s.kind \notin Scalars,
               MergeUpto[n][s][OverlayUpto[n][vs]] # Panic
        PROVE  MergeUpto[n][s][OverlayUpto[n][vs]] = OverlayUpto[n][us]
    <3> DEFINE w == OverlayUpto[n][vs]
               m == MergeUpto[n][s][w]
               out == OverlayUpto[n][us]
               part(x) == MergeUpto[q][s.at[x]][At(w, s, x)]
    <3>1. n \in 0..Depth /\ n - 1 = q /\ q \in 0..Depth
      BY <2>1, ValuesAssumption
    <3>0. OnTop(n, k, s, vs, us) /\ ~GivesWay(s) /\ s.kind \notin Scalars /\ m # Panic
      BY <2>1
    <3>2. s \in Upto[n] /\ vs \in Columns(n) /\ us \in Columns(n) /\ us[k] = s /\ k \in 1..MaxLayers
      BY <3>0 DEF OnTop
    <3> HIDE DEF n
    <3>3. Holds(s) /\ s \in Outcomes(n)
      BY <1>2, <3>0, <3>1, <3>2
    <3>4. w \in Outcomes(n)
      BY <3>1, <3>2, WeakIs
    <3>5. Live(us) # {} /\ Top(us) = s
      <4>1. TopFits(k, s, vs, us)
        BY <3>0, <3>1, TopIsOnTop
      <4> QED BY <4>1 DEF TopFits
    <3>6. /\ out.kind = s.kind /\ Holds(out)
          /\ \A x \in Segments :
               /\ out.at[x] = OverlayUpto[q][Parts(us, x)]
               /\ x \in Segs(out) <=> There(Parts(us, x)) # {}
      BY <3>0, <3>1, <3>2, <3>5, OverlayPart
    <3> DEFINE Is ==
             /\ Holds(m) /\ m.kind = s.kind
             /\ IsNode(m, s.kind)
             /\ \A x \in Segs(s) : At(w, s, x) # Invalid \/ s.kind # "map" =>
                  part(x) \notin {Invalid, Panic} /\ m.at[x] = part(x)
             /\ \A x \in Segments \ Segs(s) :
                  m.at[x] = IF s.kind = "map" THEN At(w, s, x) ELSE Invalid
             /\ \A x \in Segs(s) : At(w, s, x) = Invalid /\ s.kind = "map" => m.at[x] = s.at[x]
    <3>7. Is
      <4>1. MergeFits(n, s, w)
        BY <3>0, <3>1, <3>2, <3>3, <3>4, MergedPart
      <4> QED BY <3>1, <4>1 DEF MergeFits
    <3> HIDE DEF Is
    <3>8. ASSUME NEW x \in Segments, s.kind = "map" \/ x \in Segs(s)
          PROVE  /\ Under(us, k, x) \in Columns(q) /\ Parts(us, x)[k] = Part(s, x)
                 /\ \A i \in 1..k : Under(us, k, x)[i] = Invalid
                 /\ OverlayUpto[q][Under(us, k, x)] = At(w, s, x)
      <4>1. s.kind = "map" \/ x \in Segs(s)
        BY <3>8
      <4> HIDE DEF w, m, out, part
      <4>2. UnderFits(n, k, s, vs, us, x)
        BY <3>0, <3>1, <3>3, <4>1, UnderIs
      <4> QED BY <3>1, <4>2 DEF UnderFits, w
    <3>9. ASSUME NEW x \in Segments
          PROVE  /\ Parts(us, x) \in Columns(q) /\ DOMAIN Parts(us, x) = 1..MaxLayers
                 /\ DOMAIN us = 1..MaxLayers
      BY <3>1, <3>2, PartsAre, LiveAre
    <3> HIDE DEF w, m, out, part
    <3>10. ASSUME NEW x \in Segs(s), At(w, s, x) # Invalid \/ s.kind # "map"
           PROVE  m.at[x] = out.at[x]
      <4>1. x \in Segments /\ Part(s, x) = s.at[x] /\ s.at[x] \in Upto[q]
        BY <3>1, <3>3, <3>10, PartIs
      <4>2. OnTop(q, k, s.at[x], Under(us, k, x), Parts(us, x))
        BY <3>2, <3>8, <3>9, <4>1 DEF OnTop, Under
      <4>3. MergeUpto[q][s.at[x]][OverlayUpto[q][Under(us, k, x)]]
              \in {Invalid, Panic, OverlayUpto[q][Parts(us, x)]}
        BY <1>4, <3>1, <4>2 DEF Overlays
      <4>4. part(x) \in {Invalid, Panic, out.at[x]}
        BY <3>6, <3>8, <4>1, <4>3 DEF part
      <4>5. part(x) \notin {Invalid, Panic} /\ m.at[x] = part(x)
        BY <3>7, <3>10 DEF Is
      <4> QED BY <4>4, <4>5
    <3>11. ASSUME NEW x \in Segs(s), At(w, s, x) = Invalid, s.kind = "map"
           PROVE  m.at[x] = out.at[x]
      <4>1. x \in Segments /\ Part(s, x) = s.at[x] /\ s.at[x] # Invalid
        BY <3>1, <3>3, <3>11, PartIs
      <4>2. There(Under(us, k, x)) = {}
        <5>1. OverlayUpto[q][Under(us, k, x)] = Invalid
          BY <3>8, <3>11, <4>1
        <5>2. \A v \in Upto[q] : v # Invalid
          BY <3>1, KindsAre
        <5>3. Under(us, k, x) \in Columns(q)
          BY <3>8, <3>11, <4>1
        <5> QED BY <3>1, <5>1, <5>2, <5>3, OverlaysAre DEF OverlayOk
      <4>3. There(Parts(us, x)) = {k}
        <5>1. Parts(us, x)[k] # Invalid
          BY <3>8, <3>11, <4>1
        <5>2. \A i \in 1..MaxLayers : i # k => Parts(us, x)[i] = Invalid
          BY <3>9, <4>1, <4>2 DEF There, Under
        <5> QED BY <3>2, <3>9, <4>1, <5>1, <5>2 DEF There
      <4>4. OverlayUpto[q][Parts(us, x)] = Parts(us, x)[k]
        BY <3>1, <3>2, <3>9, <4>1, <4>3, OneAlone DEF Alone
      <4>5. m.at[x] = s.at[x]
        BY <3>7, <3>11 DEF Is
      <4> QED BY <3>6, <3>8, <3>11, <4>1, <4>4, <4>5
    <3>12. ASSUME NEW x \in Segments \ Segs(s), s.kind = "map"
           PROVE  m.at[x] = out.at[x]
      <4>1. Parts(us, x)[k] = Invalid
        BY <3>8, <3>12 DEF Part
      <4>2. Under(us, k, x) = Parts(us, x)
        <5>1. \A i \in 1..MaxLayers : Under(us, k, x)[i] = Parts(us, x)[i]
          BY <3>9, <4>1 DEF Under
        <5>2. Under(us, k, x) \in Columns(q) /\ Parts(us, x) \in Columns(q)
          BY <3>8, <3>9, <3>12
        <5> HIDE DEF Under, Parts
        <5> QED BY <5>1, <5>2, SameColumns
      <4>3. m.at[x] = At(w, s, x)
        BY <3>7, <3>12 DEF Is
      <4> QED BY <3>6, <3>8, <3>12, <4>2, <4>3
    <3>13. ASSUME NEW x \in Segments \ Segs(s), s.kind # "map"
           PROVE  m.at[x] = out.at[x]
      <4>1. m.at[x] = Invalid
        BY <3>7, <3>13 DEF Is
      <4>2. Segs(out) = Segs(s)
        BY <3>0, <3>1, <3>2, <3>5, <3>13, SegsOfTop DEF out
      <4> QED BY <3>6, <3>13, <4>1, <4>2 DEF Segs
    <3>14. \A x \in Segments : m.at[x] = out.at[x]
      BY <3>10, <3>11, <3>12, <3>13
    <3>15. m = out
      <4>1. out \in Upto[n]
        BY <3>0, <3>1, <3>2, <3>5, OverlayPart DEF out
      <4>2. IsNode(m, s.kind)
        BY <3>7 DEF Is
      <4>3. IsNode(out, s.kind)
        BY <3>1, <3>6, <4>1, NodesAre
      <4> QED BY <3>14, <4>2, <4>3, SameNodes
    <3> QED BY <3>15 DEF m, w, out
  <2>2. \A k, s, vs, us : OnTop(n, k, s, vs, us) /\ n <= Depth => s \in Upto[n] /\ n \in 0..Depth
    BY ValuesAssumption DEF OnTop
  <2> HIDE DEF n
  <2>3. n <= Depth => Overlays(n)
    BY <1>1, <2>1, <2>2 DEF Overlays
  <2>4. n \in Nat
    BY DEF n
  <2> QED BY <2>3, <2>4 DEF n
<1>5. Nat \subseteq T
  <2> HIDE DEF T
  <2> QED BY <1>3, <1>4, Induct
<1> QED BY <1>5
(* Merging onto something gives something.                                 *)
LEMMA MergeStays ==
  ASSUME Unexported = {}, NEW n \in 0..Depth, NEW s \in Upto[n], NEW w \in Upto[n]
  PROVE  MergeUpto[n][s][w] # Invalid
<1>1. w \in Outcomes(n) /\ s \in Outcomes(n) /\ s # Invalid /\ w # Invalid
  BY KindsAre DEF Outcomes
<1>2. MergeUpto[n][s][w] = MergeBy(n, MergeUpto[n - 1], s, w)
  BY <1>1, MergedIs
<1>3. CloneUpto[n][w] = w /\ CloneUpto[n][s] = s
  BY <1>1, CloneIs
<1>4. s.kind \in Composite \cup {"scalar"}
  BY KindsAre
<1>5. ASSUME NEW at PROVE Build(s, at) # Invalid
  <2>1. Panic # Invalid
    BY DEF Panic, Invalid
  <2>2. Of(s.kind, at).kind = s.kind /\ Invalid.kind = "invalid"
    BY DEF Of, Invalid
  <2>3. Of(s.kind, at) # Invalid
    BY <1>4, <2>2 DEF Composite, Nilable
  <2> QED BY <2>1, <2>3, BuildIs
<1> QED BY <1>1, <1>2, <1>3, <1>5 DEF MergeBy

-----------------------------------------------------------------------------
(* What has been merged so far is the overlay of the layers it came from.  *)
LayeringInv ==
  /\ layers \in Stacks
  /\ todo \in 0..(Len(layers) - 1)
  /\ merged \in {Panic, OverlayUpto[Depth][Layered(todo + 1)]}

LEMMA LayersAre ==
  ASSUME layers \in Stacks
  PROVE  /\ Len(layers) \in 1..MaxLayers /\ MaxLayers \in Nat /\ Depth \in 0..Depth
         /\ \A i \in 1..Len(layers) : layers[i] \in Upto[Depth]
         /\ \A k : Layered(k) \in Columns(Depth)
<1>1. /\ Len(layers) \in 1..MaxLayers /\ MaxLayers \in Nat /\ Depth \in 0..Depth
      /\ \A i \in 1..Len(layers) : layers[i] \in Upto[Depth]
  BY StacksAssumption, ValuesAssumption
<1>2. ASSUME NEW k PROVE Layered(k) \in Columns(Depth)
  <2>1. \A i \in k..Len(layers) : i \in 1..MaxLayers => layers[i] \in Upto[Depth]
    BY <1>1
  <2> QED BY <2>1 DEF Layered, Columns
<1> QED BY <1>1, <1>2

LEMMA LayeringInit == Unexported = {} /\ Init => LayeringInv
<1> SUFFICES ASSUME Unexported = {}, Init PROVE LayeringInv
  OBVIOUS
<1> DEFINE k == Len(layers)
<1>1. /\ layers \in Stacks /\ k \in 1..MaxLayers /\ MaxLayers \in Nat /\ Depth \in 0..Depth
      /\ layers[k] \in Upto[Depth] /\ Layered(k) \in Columns(Depth)
  BY LayersAre DEF Init
<1>2. todo = k - 1 /\ merged = CloneUpto[Depth][layers[k]]
  BY DEF Init, CloneValue
<1>3. merged = layers[k]
  BY <1>1, <1>2, CloneIs DEF Outcomes
<1>4. layers[k] # Invalid
  BY <1>1, KindsAre
<1>5. Layered(k)[k] = layers[k] /\ There(Layered(k)) = {k}
  BY <1>1, <1>4 DEF Layered, There
<1>6. OverlayUpto[Depth][Layered(k)] = layers[k]
  BY <1>1, <1>5, OneAlone DEF Alone
<1>7. todo + 1 = k /\ todo \in 0..(k - 1)
  BY <1>1, <1>2
<1> HIDE DEF k
<1> QED BY <1>1, <1>3, <1>6, <1>7 DEF LayeringInv, k

LEMMA LayeringStep == Unexported = {} /\ LayeringInv /\ [Next]_vars => LayeringInv'
<1> SUFFICES ASSUME Unexported = {}, LayeringInv, [Next]_vars PROVE LayeringInv'
  OBVIOUS
<1>1. CASE MergeNext
  <2> DEFINE k == todo
             s == layers[k]
             vs == Layered(k + 1)
             us == Layered(k)
  <2>1. /\ Len(layers) \in 1..MaxLayers /\ MaxLayers \in Nat /\ Depth \in 0..Depth
        /\ \A i \in 1..Len(layers) : layers[i] \in Upto[Depth]
        /\ vs \in Columns(Depth) /\ us \in Columns(Depth)
    BY LayersAre DEF LayeringInv
  <2>2. k \in 1..(Len(layers) - 1)
    BY <1>1, <2>1 DEF MergeNext, LayeringInv
  <2>3. OnTop(Depth, k, s, vs, us)
    BY <2>1, <2>2 DEF OnTop, Layered
  <2>4. merged = OverlayUpto[Depth][vs] /\ merged' = MergeUpto[Depth][s][merged]
    BY <1>1 DEF MergeNext, LayeringInv, MergeValue
  <2>5. merged' # Invalid
    <3>1. vs[Len(layers)] = layers[Len(layers)] /\ Len(layers) \in 1..MaxLayers
      BY <2>1, <2>2 DEF Layered
    <3>2. There(vs) # {}
      <4>1. layers[Len(layers)] # Invalid
        BY <2>1, KindsAre
      <4>2. DOMAIN vs = 1..MaxLayers
        BY <2>1, LiveAre
      <4> QED BY <3>1, <4>1, <4>2 DEF There
    <3>3. merged \in Upto[Depth]
      BY <2>1, <2>4, <3>2, OverlaysAre DEF OverlayOk
    <3>4. s \in Upto[Depth]
      BY <2>1, <2>2
    <3> QED BY <2>1, <2>4, <3>3, <3>4, MergeStays
  <2>6. merged' \in {Panic, OverlayUpto[Depth][us]}
    BY <2>1, <2>3, <2>4, <2>5, MergeOverlays DEF Overlays
  <2>7. layers' = layers /\ todo' \in 0..(Len(layers) - 1) /\ todo' + 1 = todo
    BY <1>1, <2>1, <2>2 DEF MergeNext
  <2>8. Layered(todo + 1)' = Layered(todo)
    BY <2>7 DEF Layered
  <2> QED BY <2>6, <2>7, <2>8 DEF LayeringInv
<1>2. CASE Finished
  BY <1>2 DEF Finished, vars, LayeringInv, Layered
<1>3. CASE UNCHANGED vars
  BY <1>3 DEF vars, LayeringInv, Layered
<1> QED BY <1>1, <1>2, <1>3 DEF Next

(* Where the code can set every field, MergeLayers - a stack folded        *)
(* pairwise, from the weakest layer up - gives the overlay of all layers   *)
(* at once, however deep and whatever the snapshots, unless reflect        *)
(* panics on the way.                                                      *)
THEOREM MergeIsTheOverlay ==
  ASSUME Unexported = {}
  PROVE  Spec => [](MergeNeverPanics => MergeIsOverlay)
<1>1. Init => LayeringInv
  BY LayeringInit
<1>2. LayeringInv /\ [Next]_vars => LayeringInv'
  BY LayeringStep
<1>3. LayeringInv => (MergeNeverPanics => MergeIsOverlay)
  BY DEF LayeringInv, MergeNeverPanics, MergeIsOverlay, Complete, Overlay
<1> QED BY <1>1, <1>2, <1>3, PTL DEF Spec

-----------------------------------------------------------------------------
(* Merging what fits together does not panic.                              *)
WholesAt(n) ==
  Whole[n] = IF n = 0 THEN Leaves
             ELSE Leaves \cup {v \in Nodes(Whole[n - 1]) :
                                v.kind \in ByParts => \A x \in Segs(v) : ~IsNil(v.at[x])}

LEMMA WholeIs == \A n \in 0..Depth : WholesAt(n)
<1> DEFINE B(n, y) ==
             IF n = 0 THEN Leaves
             ELSE Leaves \cup {v \in Nodes(y) :
                                v.kind \in ByParts => \A x \in Segs(v) : ~IsNil(v.at[x])}
           Out(f, m) == f = [n \in 0..m |-> B(n, f[n - 1])]
           T == {m \in Nat : \E f : Out(f, m)}
<1>1. \A y, z : B(0, y) = B(0, z)
  OBVIOUS
<1>2. Whole = CHOOSE f : Out(f, Depth)
  BY DEF Whole
<1> HIDE DEF B
<1>3. 0 \in T
  <2> DEFINE f == [n \in 0..0 |-> B(0, 0)]
  <2>1. \A n \in 0..0 : f[n] = B(n, f[n - 1])
    BY <1>1
  <2>2. Out(f, 0)
    BY <2>1
  <2> QED BY <2>2
<1>4. ASSUME NEW m \in Nat, m \in T PROVE m + 1 \in T
  <2>1. PICK f : Out(f, m)
    BY <1>4
  <2> DEFINE g == [n \in 0..(m + 1) |-> IF n = m + 1 THEN B(m + 1, f[m]) ELSE f[n]]
  <2>2. ASSUME NEW n \in 0..(m + 1) PROVE g[n] = B(n, g[n - 1])
    <3>1. CASE n = m + 1
      BY <3>1
    <3>2. CASE n # m + 1 /\ n # 0
      <4>1. n \in 0..m /\ n - 1 \in 0..(m + 1) /\ n - 1 # m + 1
        BY <3>2
      <4>2. g[n] = f[n] /\ g[n - 1] = f[n - 1]
        BY <3>2, <4>1
      <4>3. f[n] = B(n, f[n - 1])
        BY <2>1, <4>1
      <4> QED BY <4>2, <4>3
    <3>3. CASE n = 0
      <4>1. g[n] = f[n] /\ f[n] = B(n, f[n - 1])
        BY <2>1, <3>3
      <4>2. B(n, f[n - 1]) = B(n, g[n - 1])
        BY <1>1, <3>3
      <4> QED BY <4>1, <4>2
    <3> QED BY <3>1, <3>2, <3>3
  <2>3. Out(g, m + 1)
    BY <2>2
  <2> HIDE DEF Out, g
  <2> QED BY <2>3
<1>5. Depth \in T
  <2> HIDE DEF T
  <2> QED BY <1>3, <1>4, Induct, ValuesAssumption
<1>6. Out(Whole, Depth)
  <2> HIDE DEF Out
  <2> QED BY <1>2, <1>5
<1>7. \A n \in 0..Depth : Whole[n] = B(n, Whole[n - 1])
  BY <1>6
<1> QED BY <1>7 DEF B, WholesAt

FitAt(n) ==
  FitUpto[n] =
    [vs \in SUBSET Upto[n] |->
       \/ vs \subseteq Whole[n]
       \/ /\ n # 0 /\ OfOneType(vs)
          /\ \A x \in Segments : FitUpto[n - 1][{v.at[x] : v \in {w \in vs : x \in Segs(w)}}]]

LEMMA FitUptoIs == \A n \in 0..Depth : FitAt(n)
<1> DEFINE B(n, y) ==
             [vs \in SUBSET Upto[n] |->
                \/ vs \subseteq Whole[n]
                \/ /\ n # 0 /\ OfOneType(vs)
                   /\ \A x \in Segments : y[{v.at[x] : v \in {w \in vs : x \in Segs(w)}}]]
           Out(f, m) == f = [n \in 0..m |-> B(n, f[n - 1])]
           T == {m \in Nat : \E f : Out(f, m)}
<1>1. \A y, z : B(0, y) = B(0, z)
  BY DEF B
<1>2. FitUpto = CHOOSE f : Out(f, Depth)
  BY DEF FitUpto
<1> HIDE DEF B
<1>3. 0 \in T
  <2> DEFINE f == [n \in 0..0 |-> B(0, 0)]
  <2>1. \A n \in 0..0 : f[n] = B(n, f[n - 1])
    BY <1>1
  <2>2. Out(f, 0)
    BY <2>1
  <2> QED BY <2>2
<1>4. ASSUME NEW m \in Nat, m \in T PROVE m + 1 \in T
  <2>1. PICK f : Out(f, m)
    BY <1>4
  <2> DEFINE g == [n \in 0..(m + 1) |-> IF n = m + 1 THEN B(m + 1, f[m]) ELSE f[n]]
  <2>2. ASSUME NEW n \in 0..(m + 1) PROVE g[n] = B(n, g[n - 1])
    <3>1. CASE n = m + 1
      BY <3>1
    <3>2. CASE n # m + 1 /\ n # 0
      <4>1. n \in 0..m /\ n - 1 \in 0..(m + 1) /\ n - 1 # m + 1
        BY <3>2
      <4>2. g[n] = f[n] /\ g[n - 1] = f[n - 1]
        BY <3>2, <4>1
      <4>3. f[n] = B(n, f[n - 1])
        BY <2>1, <4>1
      <4> QED BY <4>2, <4>3
    <3>3. CASE n = 0
      <4>1. g[n] = f[n] /\ f[n] = B(n, f[n - 1])
        BY <2>1, <3>3
      <4>2. B(n, f[n - 1]) = B(n, g[n - 1])
        BY <1>1, <3>3
      <4> QED BY <4>1, <4>2
    <3> QED BY <3>1, <3>2, <3>3
  <2>3. Out(g, m + 1)
    BY <2>2
  <2> HIDE DEF Out, g
  <2> QED BY <2>3
<1>5. Depth \in T
  <2> HIDE DEF T
  <2> QED BY <1>3, <1>4, Induct, ValuesAssumption
<1>6. Out(FitUpto, Depth)
  <2> HIDE DEF Out
  <2> QED BY <1>2, <1>5
<1>7. \A n \in 0..Depth : FitUpto[n] = B(n, FitUpto[n - 1])
  BY <1>6
<1> QED BY <1>7 DEF B, FitAt

(* Whole values are values, and are made of whole values.                  *)
LEMMA WholePart ==
  ASSUME NEW n \in 0..Depth, NEW v \in Whole[n], Holds(v)
  PROVE  /\ n - 1 \in 0..Depth /\ v.kind \in Composite
         /\ v.at \in [Segments -> Whole[n - 1] \cup {Invalid}]
         /\ \A x \in Segs(v) : v.at[x] \in Whole[n - 1]
         /\ v.kind \in ByParts => \A x \in Segs(v) : ~IsNil(v.at[x])
<1>1. v \notin Leaves
  BY DEF Holds, Leaves, Scalar, Nil, Composite, Nilable
<1>2. n # 0 /\ v \in Nodes(Whole[n - 1])
      /\ (v.kind \in ByParts => \A x \in Segs(v) : ~IsNil(v.at[x]))
  BY <1>1, WholeIs DEF WholesAt
<1>3. n - 1 \in 0..Depth
  BY <1>2, ValuesAssumption
<1>4. v.at \in [Segments -> Whole[n - 1] \cup {Invalid}] /\ v.kind \in Composite
  BY <1>2 DEF Nodes
<1>5. \A x \in Segs(v) : v.at[x] \in Whole[n - 1]
  BY <1>4 DEF Segs
<1> QED BY <1>2, <1>3, <1>4, <1>5

LEMMA WholesAre == \A n \in 0..Depth : Whole[n] \subseteq Upto[n]
<1> DEFINE T == {n \in Nat : n <= Depth => Whole[n] \subseteq Upto[n]}
<1>1. 0 \in T
  <2>1. 0 \in 0..Depth
    BY ValuesAssumption
  <2> QED BY <2>1, WholeIs, UptoIs DEF WholesAt, RanksOf
<1>2. ASSUME NEW m \in Nat, m \in T PROVE m + 1 \in T
  <2> DEFINE n == m + 1
  <2> SUFFICES ASSUME n <= Depth PROVE Whole[n] \subseteq Upto[n]
    OBVIOUS
  <2>1. n \in 0..Depth /\ n - 1 = m /\ m \in 0..Depth /\ n # 0
    BY ValuesAssumption
  <2>2. Whole[m] \subseteq Upto[m]
    BY <1>2, <2>1
  <2> HIDE DEF n
  <2>3. Whole[n] \subseteq Leaves \cup Nodes(Whole[m]) /\ Upto[n] = Leaves \cup Nodes(Upto[m])
    BY <2>1, WholeIs, UptoIs DEF WholesAt, RanksOf
  <2>4. Nodes(Whole[m]) \subseteq Nodes(Upto[m])
    BY <2>2 DEF Nodes
  <2> QED BY <2>3, <2>4
<1>3. Nat \subseteq T
  <2> HIDE DEF T
  <2> QED BY <1>1, <1>2, Induct
<1> QED BY <1>3

(* What is built from whole parts is whole.                                *)
LEMMA WholeBuilt ==
  ASSUME Unexported = {}, NEW n \in 0..Depth, n - 1 \in 0..Depth, NEW s, s.kind \in Composite,
         NEW at, DOMAIN at \subseteq Segments, \A x \in DOMAIN at : at[x] \in Whole[n - 1],
         s.kind \in ByParts => \A x \in DOMAIN at : ~IsNil(at[x])
  PROVE  /\ Build(s, at) \in Whole[n] /\ Build(s, at).kind = s.kind /\ ~IsNil(Build(s, at))
<1> DEFINE all == [x \in Segments |-> IF x \in DOMAIN at THEN at[x] ELSE Invalid]
           v == Of(s.kind, at)
<1>1. \A x \in DOMAIN at : at[x].kind \notin {"invalid", "panic"}
  <2> TAKE x \in DOMAIN at
  <2>1. at[x] \in Upto[n - 1]
    BY WholesAre
  <2> QED BY <2>1, KindsAre DEF Composite, Nilable
<1>2. Build(s, at) = v
  BY <1>1, BuildIs
<1>3. v = [kind |-> s.kind, nil |-> FALSE, at |-> all]
  BY DEF Of
<1>4. all \in [Segments -> Whole[n - 1] \cup {Invalid}]
  OBVIOUS
<1>5. \A x \in Segments : x \in DOMAIN at => all[x] = at[x]
  OBVIOUS
<1>6. \A x \in Segments : x \notin DOMAIN at => all[x] = Invalid
  OBVIOUS
<1> HIDE DEF all, v
<1>7. v.kind = s.kind /\ ~IsNil(v) /\ v.at = all /\ v \in Nodes(Whole[n - 1])
  BY <1>3, <1>4 DEF IsNil, Nodes
<1>8. Segs(v) \subseteq DOMAIN at
  BY <1>6, <1>7 DEF Segs
<1>9. s.kind \in ByParts => \A x \in Segs(v) : ~IsNil(v.at[x])
  BY <1>5, <1>7, <1>8
<1>10. n # 0
  BY ValuesAssumption
<1>11. v \in Whole[n]
  BY <1>7, <1>9, <1>10, WholeIs DEF WholesAt
<1> QED BY <1>2, <1>7, <1>11

(* A whole value is put on top of anything whole, or of nothing.           *)
StaysWhole(n) ==
  \A s \in Whole[n] : \A w \in Whole[n] \cup {Invalid} :
    w # Invalid \/ ~IsNil(s) =>
      MergeUpto[n][s][w] \in Whole[n] /\ (~IsNil(s) => ~IsNil(MergeUpto[n][s][w]))

LEMMA MergeWholes ==
  ASSUME Unexported = {}
  PROVE  \A n \in 0..Depth : StaysWhole(n)
<1> DEFINE T == {n \in Nat : n <= Depth => StaysWhole(n)}
<1>1. ASSUME NEW n \in 0..Depth, NEW s \in Whole[n], NEW w \in Whole[n] \cup {Invalid}
      PROVE  /\ s \in Upto[n] /\ s \in Outcomes(n) /\ w \in Outcomes(n)
             /\ s.kind \in Composite \cup {"scalar"}
             /\ MergeUpto[n][s][w] = MergeBy(n, MergeUpto[n - 1], s, w)
             /\ CloneUpto[n][s] = s /\ CloneUpto[n][w] = w
  <2>1. s \in Upto[n] /\ s \in Outcomes(n) /\ w \in Outcomes(n)
    BY <1>1, WholesAre DEF Outcomes
  <2>2. s.kind \in Composite \cup {"scalar"}
    BY <2>1, KindsAre
  <2> QED BY <2>1, <2>2, MergedIs, CloneIs
<1>2. ASSUME NEW n \in 0..Depth, NEW s \in Whole[n], NEW w \in Whole[n] \cup {Invalid},
             w # Invalid \/ ~IsNil(s), GivesWay(s) \/ s.kind \in Scalars
      PROVE  MergeUpto[n][s][w] \in Whole[n] /\ (~IsNil(s) => ~IsNil(MergeUpto[n][s][w]))
  <2>1. /\ MergeUpto[n][s][w] = MergeBy(n, MergeUpto[n - 1], s, w)
        /\ CloneUpto[n][s] = s /\ CloneUpto[n][w] = w /\ s.kind \in Composite \cup {"scalar"}
    BY <1>1
  <2>2. CASE GivesWay(s)
    <3>1. IsNil(s)
      BY <2>1, <2>2 DEF GivesWay, Composite, Nilable
    <3> QED BY <1>2, <2>1, <2>2, <3>1 DEF MergeBy
  <2>3. CASE ~GivesWay(s)
    BY <1>2, <2>1, <2>3 DEF MergeBy, Scalars, ByParts
  <2> QED BY <2>2, <2>3
<1>3. ASSUME NEW n \in 0..Depth, NEW s \in Whole[n], ~GivesWay(s), s.kind \notin Scalars
      PROVE  Holds(s)
  <2>1. s \in Upto[n]
    BY WholesAre
  <2>2. s.kind \in Composite \cup {"scalar"}
    BY <2>1, KindsAre
  <2> QED BY <1>3, <2>2 DEF GivesWay, IsNil, Holds, Scalars
<1>4. 0 \in T
  <2>1. 0 \in 0..Depth
    BY ValuesAssumption
  <2>2. \A s \in Whole[0] : GivesWay(s) \/ s.kind \in Scalars
    <3> SUFFICES ASSUME NEW s \in Whole[0], Holds(s) PROVE FALSE
      BY <1>3, <2>1
    <3>1. s \in Outcomes(0)
      BY <2>1, WholesAre DEF Outcomes
    <3> QED BY <3>1, LeafIs
  <2>3. StaysWhole(0)
    BY <1>2, <2>1, <2>2 DEF StaysWhole
  <2> QED BY <2>3
<1>5. ASSUME NEW m \in Nat, m \in T PROVE m + 1 \in T
  <2> DEFINE n == m + 1
  <2>1. ASSUME n <= Depth, NEW s \in Whole[n], NEW w \in Whole[n] \cup {Invalid},
               w # Invalid \/ ~IsNil(s), ~GivesWay(s), s.kind \notin Scalars
        PROVE  MergeUpto[n][s][w] \in Whole[n] /\ (~IsNil(s) => ~IsNil(MergeUpto[n][s][w]))
    <3>1. n \in 0..Depth /\ n - 1 = m /\ m \in 0..Depth
      BY <2>1, ValuesAssumption
    <3>0. s \in Whole[n] /\ w \in Whole[n] \cup {Invalid} /\ ~GivesWay(s) /\ s.kind \notin Scalars
      BY <2>1
    <3> HIDE DEF n
    <3>2. StaysWhole(m)
      BY <1>5, <3>1
    <3>3. Holds(s)
      BY <1>3, <3>0, <3>1
    <3>4. /\ s.kind \in Composite /\ \A x \in Segs(s) : s.at[x] \in Whole[m]
          /\ s.kind \in ByParts => \A x \in Segs(s) : ~IsNil(s.at[x])
      BY <3>0, <3>1, <3>3, WholePart
    <3>5. \A x \in Segs(w) : w.at[x] \in Whole[m]
      <4>1. CASE Holds(w)
        <5>1. w \in Whole[n]
          BY <3>0, <4>1 DEF Holds, Invalid, Composite, Nilable
        <5> QED BY <3>1, <4>1, <5>1, WholePart
      <4>2. CASE ~Holds(w)
        BY <4>2 DEF Segs
      <4> QED BY <4>1, <4>2
    <3>6. \A v \in Whole[m] : v # Invalid /\ CloneUpto[m][v] = v
      <4> TAKE v \in Whole[m]
      <4>1. v \in Upto[m] /\ v \in Outcomes(m)
        BY <3>1, WholesAre DEF Outcomes
      <4> QED BY <3>1, <4>1, KindsAre, CloneIs
    <3>7. Segs(s) \subseteq Segments /\ Segs(w) \subseteq Segments
      BY DEF Segs
    <3> DEFINE below == IF w.kind = "map" THEN Segs(w) ELSE {}
               struct == [x \in Segs(s) |-> MergeUpto[m][s.at[x]][At(w, s, x)]]
               map == [x \in Segs(s) \cup below |->
                 IF x \in Segs(s) \cap below
                 THEN MergeUpto[m][s.at[x]][CloneUpto[m][w.at[x]]]
                 ELSE CloneUpto[m][IF x \in below THEN w.at[x] ELSE s.at[x]]]
    <3>8. MergeUpto[n][s][w] = IF s.kind \in ByParts THEN Build(s, struct) ELSE Build(s, map)
      <4>1. MergeUpto[n][s][w] = MergeBy(n, MergeUpto[m], s, w)
        BY <1>1, <3>0, <3>1
      <4>2. s.kind \in ByParts \/ s.kind = "map"
        BY <3>0, <3>4 DEF Composite, Nilable, ByParts, Scalars
      <4> QED BY <3>0, <3>1, <4>1, <4>2 DEF MergeBy
    <3>9. CASE s.kind \in ByParts
      <4>1. ASSUME NEW x \in Segs(s)
            PROVE  struct[x] \in Whole[m] /\ ~IsNil(struct[x])
        <5>1. At(w, s, x) \in Whole[m] \cup {Invalid}
          BY <3>5 DEF At, Part
        <5>2. s.at[x] \in Whole[m] /\ ~IsNil(s.at[x])
          BY <3>4, <3>9
        <5> QED BY <3>2, <5>1, <5>2 DEF StaysWhole
      <4>2. DOMAIN struct = Segs(s)
        OBVIOUS
      <4> HIDE DEF struct
      <4>3. Build(s, struct) \in Whole[n] /\ ~IsNil(Build(s, struct))
        BY <3>1, <3>4, <3>7, <4>1, <4>2, WholeBuilt
      <4> QED BY <3>8, <3>9, <4>3
    <3>10. CASE s.kind \notin ByParts
      <4>1. ASSUME NEW x \in Segs(s) \cup below
            PROVE  map[x] \in Whole[m]
        <5>1. CASE x \in Segs(s) \cap below
          <6>1. s.at[x] \in Whole[m] /\ w.at[x] \in Whole[m]
            BY <3>4, <3>5, <5>1
          <6>2. MergeUpto[m][s.at[x]][w.at[x]] \in Whole[m]
            BY <3>2, <3>6, <6>1 DEF StaysWhole
          <6> QED BY <3>6, <5>1, <6>1, <6>2
        <5>2. CASE x \notin Segs(s) \cap below
          BY <3>4, <3>5, <3>6, <4>1, <5>2
        <5> QED BY <5>1, <5>2
      <4>2. DOMAIN map = Segs(s) \cup below /\ Segs(s) \cup below \subseteq Segments
        BY <3>7
      <4> HIDE DEF map
      <4>3. Build(s, map) \in Whole[n] /\ ~IsNil(Build(s, map))
        BY <3>1, <3>4, <3>10, <4>1, <4>2, WholeBuilt
      <4> QED BY <3>8, <3>10, <4>3
    <3> QED BY <3>9, <3>10
  <2>2. n <= Depth => n \in 0..Depth
    BY ValuesAssumption
  <2> HIDE DEF n
  <2>3. n <= Depth => StaysWhole(n)
    BY <1>2, <2>1, <2>2 DEF StaysWhole
  <2>4. n \in Nat
    BY DEF n
  <2> QED BY <2>3, <2>4 DEF n
<1>6. Nat \subseteq T
  <2> HIDE DEF T
  <2> QED BY <1>4, <1>5, Induct
<1> QED BY <1>6

Ats(vs, x) == {v.at[x] : v \in {w \in vs : x \in Segs(w)}}

LEMMA FitIs ==
  ASSUME NEW n \in 0..Depth, NEW vs \in SUBSET Upto[n]
  PROVE  FitUpto[n][vs] <=>
           \/ vs \subseteq Whole[n]
           \/ n # 0 /\ OfOneType(vs) /\ \A x \in Segments : FitUpto[n - 1][Ats(vs, x)]
<1>1. FitAt(n)
  BY FitUptoIs
<1> DEFINE B(us) == \/ us \subseteq Whole[n]
                    \/ n # 0 /\ OfOneType(us) /\ \A x \in Segments : FitUpto[n - 1][Ats(us, x)]
<1>2. FitUpto[n] = [us \in SUBSET Upto[n] |-> B(us)]
  BY <1>1 DEF FitAt, Ats
<1> HIDE DEF B
<1>3. FitUpto[n][vs] = B(vs)
  BY <1>2
<1> QED BY <1>3 DEF B

LEMMA AtsAre ==
  ASSUME NEW n \in 0..Depth, n - 1 \in 0..Depth, NEW vs \in SUBSET Upto[n], NEW x \in Segments
  PROVE  Ats(vs, x) \in SUBSET Upto[n - 1]
<1> SUFFICES ASSUME NEW v \in vs, x \in Segs(v) PROVE v.at[x] \in Upto[n - 1]
  BY DEF Ats
<1>1. v \in Outcomes(n)
  BY DEF Outcomes
<1> QED BY <1>1, PartIs

(* Two values that fit together can be merged, and the outcome fits in.    *)
Fitting(n) ==
  \A vs \in SUBSET Upto[n] :
    FitUpto[n][vs] => \A s, w \in vs : /\ MergeUpto[n][s][w] \in Upto[n]
                                       /\ FitUpto[n][vs \cup {MergeUpto[n][s][w]}]

LEMMA MergeFitting ==
  ASSUME Unexported = {}
  PROVE  \A n \in 0..Depth : Fitting(n)
<1> DEFINE T == {n \in Nat : n <= Depth => Fitting(n)}
<1>1. ASSUME NEW n \in 0..Depth, NEW vs \in SUBSET Upto[n], vs \subseteq Whole[n],
             NEW s \in vs, NEW w \in vs
      PROVE  MergeUpto[n][s][w] \in Upto[n] /\ FitUpto[n][vs \cup {MergeUpto[n][s][w]}]
  <2> DEFINE m == MergeUpto[n][s][w]
  <2>1. w \in Upto[n] /\ w # Invalid
    BY <1>1, KindsAre
  <2>2. m \in Whole[n]
    <3>1. StaysWhole(n)
      BY MergeWholes
    <3>2. s \in Whole[n] /\ w \in Whole[n]
      BY <1>1
    <3> QED BY <2>1, <3>1, <3>2 DEF StaysWhole
  <2>3. m \in Upto[n]
    BY <2>2, WholesAre
  <2> HIDE DEF m
  <2>4. vs \cup {m} \subseteq Whole[n] /\ vs \cup {m} \in SUBSET Upto[n]
    BY <1>1, <2>2, <2>3
  <2>5. FitUpto[n][vs \cup {m}]
    BY <2>4, FitIs
  <2> QED BY <2>3, <2>5 DEF m
<1>2. 0 \in T
  <2>1. 0 \in 0..Depth
    BY ValuesAssumption
  <2>2. \A vs \in SUBSET Upto[0] : FitUpto[0][vs] => vs \subseteq Whole[0]
    BY <2>1, FitIs
  <2> QED BY <1>1, <2>1, <2>2 DEF Fitting
<1>3. ASSUME NEW q \in Nat, q \in T PROVE q + 1 \in T
  <2> DEFINE n == q + 1
  <2>1. ASSUME n <= Depth, NEW vs \in SUBSET Upto[n], FitUpto[n][vs], NEW s \in vs, NEW w \in vs,
               ~(vs \subseteq Whole[n])
        PROVE  MergeUpto[n][s][w] \in Upto[n] /\ FitUpto[n][vs \cup {MergeUpto[n][s][w]}]
    <3> DEFINE m == MergeUpto[n][s][w]
    <3>1. n \in 0..Depth /\ n - 1 = q /\ q \in 0..Depth /\ n # 0
      BY <2>1, ValuesAssumption
    <3>0. vs \in SUBSET Upto[n] /\ FitUpto[n][vs] /\ ~(vs \subseteq Whole[n])
      BY <2>1
    <3> HIDE DEF n
    <3>2. OfOneType(vs) /\ \A x \in Segments : FitUpto[q][Ats(vs, x)]
      BY <3>0, <3>1, FitIs
    <3>3. Fitting(q)
      BY <1>3, <3>1
    <3>4. /\ s \in Upto[n] /\ w \in Upto[n] /\ s \in Outcomes(n) /\ w \in Outcomes(n)
          /\ s.kind = w.kind /\ s.kind \in {"struct", "array", "map"}
          /\ s.kind # "map" => Segs(s) = Segs(w)
      BY <3>0, <3>2 DEF OfOneType, Outcomes
    <3>5. m = MergeBy(n, MergeUpto[q], s, w) /\ CloneUpto[n][w] = w
      BY <3>1, <3>4, MergedIs, CloneIs
    <3>6. ASSUME GivesWay(s) PROVE m = w
      BY <3>5, <3>6 DEF MergeBy
    <3>7. ASSUME ~GivesWay(s)
          PROVE  m \in Upto[n] /\ FitUpto[n][vs \cup {m}]
      <4>1. Holds(s)
        BY <3>4, <3>7 DEF GivesWay, IsNil, Holds, Composite, Nilable
      <4> DEFINE joint == Segs(s) \cap Segs(w)
                 part(x) == IF x \in joint THEN MergeUpto[q][s.at[x]][w.at[x]]
                            ELSE IF x \in Segs(s) THEN s.at[x] ELSE w.at[x]
                 at == [x \in Segs(s) \cup Segs(w) |-> part(x)]
                 all == [x \in Segments |-> IF x \in DOMAIN at THEN at[x] ELSE Invalid]
      <4>2. ASSUME NEW x \in Segs(s)
            PROVE  x \in Segments /\ s.at[x] \in Upto[q] /\ s.at[x] \in Outcomes(q)
                   /\ s.at[x] \in Ats(vs, x)
        BY <3>1, <3>4, PartIs DEF Ats
      <4>3. ASSUME NEW x \in Segs(w)
            PROVE  x \in Segments /\ w.at[x] \in Upto[q] /\ w.at[x] \in Outcomes(q)
                   /\ w.at[x] \in Ats(vs, x)
        BY <3>1, <3>4, PartIs DEF Ats
      <4>4. ASSUME NEW x \in Segs(s) \cup Segs(w)
            PROVE  x \in Segments /\ part(x) \in Upto[q] /\ FitUpto[q][Ats(vs, x) \cup {part(x)}]
        <5>1. x \in Segments
          BY <4>2, <4>3
        <5>2. Ats(vs, x) \in SUBSET Upto[q] /\ FitUpto[q][Ats(vs, x)]
          BY <3>0, <3>1, <3>2, <5>1, AtsAre
        <5>3. CASE x \in joint
          <6> DEFINE p == MergeUpto[q][s.at[x]][w.at[x]]
          <6>1. s.at[x] \in Ats(vs, x) /\ w.at[x] \in Ats(vs, x)
            BY <4>2, <4>3, <5>3
          <6>2. p \in Upto[q] /\ FitUpto[q][Ats(vs, x) \cup {p}]
            BY <3>3, <5>2, <6>1 DEF Fitting
          <6> QED BY <5>1, <5>3, <6>2
        <5>4. CASE x \notin joint
          <6>1. part(x) \in Ats(vs, x)
            BY <4>2, <4>3, <4>4, <5>4
          <6>2. Ats(vs, x) \cup {part(x)} = Ats(vs, x)
            BY <6>1
          <6> HIDE DEF part
          <6> QED BY <5>1, <5>2, <6>1, <6>2
        <5> QED BY <5>3, <5>4
      <4>5. m = Build(s, at)
        <5>1. \A x \in Segs(w) : CloneUpto[q][w.at[x]] = w.at[x]
          BY <3>1, <4>3, CloneIs
        <5>2. \A x \in Segs(s) : CloneUpto[q][s.at[x]] = s.at[x]
          BY <3>1, <4>2, CloneIs
        <5>3. CASE s.kind = "map"
          <6> DEFINE map == [x \in Segs(s) \cup Segs(w) |->
                 IF x \in Segs(s) \cap Segs(w)
                 THEN MergeUpto[q][s.at[x]][CloneUpto[q][w.at[x]]]
                 ELSE CloneUpto[q][IF x \in Segs(w) THEN w.at[x] ELSE s.at[x]]]
          <6>1. m = Build(s, map)
            BY <3>1, <3>4, <3>5, <3>7, <5>3 DEF MergeBy, ByParts
          <6>2. \A x \in Segs(s) \cup Segs(w) : map[x] = at[x]
            BY <5>1, <5>2
          <6>3. map = at
            BY <6>2
          <6> QED BY <6>1, <6>3
        <5>4. CASE s.kind # "map"
          <6> DEFINE struct == [x \in Segs(s) |-> MergeUpto[q][s.at[x]][At(w, s, x)]]
          <6>1. m = Build(s, struct)
            BY <3>1, <3>4, <3>5, <3>7, <5>4 DEF MergeBy, ByParts
          <6>2. Segs(s) = Segs(w)
            BY <3>4, <5>4
          <6>3. \A x \in Segs(s) : At(w, s, x) = w.at[x]
            BY <3>4, <6>2 DEF At, Alike, Part
          <6>4. struct = at
            BY <6>2, <6>3
          <6> QED BY <6>1, <6>4
        <5> QED BY <5>3, <5>4
      <4>6. m = Of(s.kind, at)
        <5>1. \A x \in DOMAIN at : at[x].kind \notin {"invalid", "panic"}
          <6> TAKE x \in DOMAIN at
          <6>1. at[x] = part(x) /\ part(x) \in Upto[q]
            BY <4>4
          <6> QED BY <3>1, <6>1, KindsAre DEF Composite, Nilable
        <5> HIDE DEF at, m
        <5> QED BY <4>5, <5>1, BuildIs
      <4>7. m = [kind |-> s.kind, nil |-> FALSE, at |-> all]
        BY <4>6 DEF Of
      <4>8. \A x \in Segments : all[x] = IF x \in Segs(s) \cup Segs(w) THEN part(x) ELSE Invalid
        OBVIOUS
      <4> HIDE DEF part
      <4>9. all \in [Segments -> Upto[q] \cup {Invalid}]
        BY <4>4, <4>8
      <4> HIDE DEF all, at, m
      <4>10. m.kind = s.kind /\ m.at = all /\ m.nil = FALSE /\ m \in Nodes(Upto[q]) /\ Holds(m)
        BY <3>4, <4>7, <4>9 DEF Nodes, Holds, Composite, Nilable
      <4>11. m \in Upto[n]
        BY <3>1, <4>10, UptoIs DEF RanksOf
      <4>12. Segs(m) = Segs(s) \cup Segs(w)
        <5>1. \A x \in Segs(s) \cup Segs(w) : part(x) # Invalid /\ x \in Segments
          <6> TAKE x \in Segs(s) \cup Segs(w)
          <6>1. part(x) \in Upto[q] /\ x \in Segments
            BY <4>4
          <6> QED BY <3>1, <6>1, KindsAre
        <5>2. Segs(m) = {x \in Segments : all[x] # Invalid}
          BY <4>10 DEF Segs
        <5> QED BY <4>8, <5>1, <5>2
      <4>13. OfOneType(vs \cup {m})
        BY <3>2, <3>4, <4>10, <4>12 DEF OfOneType
      <4>14. ASSUME NEW x \in Segments
             PROVE  FitUpto[q][Ats(vs \cup {m}, x)]
        <5>1. CASE x \in Segs(s) \cup Segs(w)
          <6>1. Ats(vs \cup {m}, x) = Ats(vs, x) \cup {part(x)}
            BY <4>8, <4>10, <4>12, <5>1 DEF Ats
          <6> QED BY <4>4, <5>1, <6>1
        <5>2. CASE x \notin Segs(s) \cup Segs(w)
          <6>1. Ats(vs \cup {m}, x) = Ats(vs, x)
            BY <4>12, <5>2 DEF Ats
          <6> QED BY <3>2, <6>1
        <5> QED BY <5>1, <5>2
      <4>15. vs \cup {m} \in SUBSET Upto[n]
        BY <3>0, <4>11
      <4>16. FitUpto[n][vs \cup {m}]
        BY <3>1, <4>13, <4>14, <4>15, FitIs
      <4> QED BY <4>11, <4>16
    <3>8. CASE GivesWay(s)
      <4>1. m = w /\ vs \cup {w} = vs
        BY <3>6, <3>8
      <4> HIDE DEF m
      <4>2. m \in Upto[n] /\ FitUpto[n][vs \cup {m}]
        BY <3>0, <3>4, <4>1
      <4> QED BY <4>2 DEF m
    <3> QED BY <3>7, <3>8
  <2>2. n <= Depth => n \in 0..Depth
    BY ValuesAssumption
  <2> HIDE DEF n
  <2>3. n <= Depth => Fitting(n)
    BY <1>1, <2>1, <2>2 DEF Fitting
  <2>4. n \in Nat
    BY DEF n
  <2> QED BY <2>3, <2>4 DEF n
<1>4. Nat \subseteq T
  <2> HIDE DEF T
  <2> QED BY <1>2, <1>3, Induct
<1> QED BY <1>4

(* The layers fit together with what has been merged of them so far.       *)
FitInv ==
  /\ layers \in Stacks /\ todo \in 0..(Len(layers) - 1)
  /\ \E vs \in SUBSET Upto[Depth] :
       FitUpto[Depth][vs] /\ merged \in vs /\ \A i \in DOMAIN layers : layers[i] \in vs

LEMMA FitInit ==
  Unexported = {} /\ (\A s \in Stacks : FitTogether(s)) /\ Init => FitInv
<1> SUFFICES ASSUME Unexported = {}, \A s \in Stacks : FitTogether(s), Init PROVE FitInv
  OBVIOUS
<1> DEFINE vs == {layers[i] : i \in DOMAIN layers}
           k == Len(layers)
<1>1. layers \in Stacks /\ DOMAIN layers = 1..k /\ k \in 1..MaxLayers /\ Depth \in 0..Depth
      /\ MaxLayers \in Nat
  BY StacksAssumption, ValuesAssumption DEF Init
<1>2. vs \in SUBSET Upto[Depth] /\ k \in DOMAIN layers
  <2>1. \A i \in 1..k : layers[i] \in Upto[Depth]
    BY <1>1, StacksAssumption
  <2> QED BY <1>1, <2>1
<1>3. merged = layers[k]
  <2>1. layers[k] \in Outcomes(Depth)
    BY <1>2 DEF Outcomes
  <2> QED BY <1>1, <2>1, CloneIs DEF Init, CloneValue
<1>4. FitUpto[Depth][vs]
  BY <1>1 DEF FitTogether
<1>5. merged \in vs /\ \A i \in DOMAIN layers : layers[i] \in vs
  BY <1>2, <1>3
<1>6. todo \in 0..(k - 1)
  BY <1>1 DEF Init
<1> HIDE DEF vs
<1> QED BY <1>1, <1>2, <1>4, <1>5, <1>6 DEF FitInv

LEMMA FitStep == Unexported = {} /\ FitInv /\ [Next]_vars => FitInv'
<1> SUFFICES ASSUME Unexported = {}, FitInv, [Next]_vars PROVE FitInv'
  OBVIOUS
<1>1. CASE MergeNext
  <2> DEFINE s == layers[todo]
             m == MergeUpto[Depth][s][merged]
  <2>1. Depth \in 0..Depth /\ Len(layers) \in Nat /\ DOMAIN layers = 1..Len(layers)
    BY StacksAssumption, ValuesAssumption DEF FitInv
  <2>2. PICK vs \in SUBSET Upto[Depth] :
          FitUpto[Depth][vs] /\ merged \in vs /\ \A i \in DOMAIN layers : layers[i] \in vs
    BY DEF FitInv
  <2>3. todo \in DOMAIN layers /\ todo - 1 \in 0..(Len(layers) - 1)
    BY <1>1, <2>1 DEF MergeNext, FitInv
  <2>4. merged' = m /\ layers' = layers /\ todo' = todo - 1
    BY <1>1 DEF MergeNext, MergeValue
  <2>5. s \in vs
    BY <2>2, <2>3
  <2>6. m \in Upto[Depth] /\ FitUpto[Depth][vs \cup {m}]
    <3>1. Fitting(Depth)
      BY <2>1, MergeFitting
    <3> QED BY <2>2, <2>5, <3>1 DEF Fitting
  <2> HIDE DEF s, m
  <2>7. vs \cup {m} \in SUBSET Upto[Depth]
    BY <2>6
  <2>8. merged' \in vs \cup {m} /\ \A i \in DOMAIN layers' : layers'[i] \in vs \cup {m}
    BY <2>2, <2>4
  <2> QED BY <2>3, <2>4, <2>6, <2>7, <2>8 DEF FitInv
<1>2. CASE Finished
  BY <1>2 DEF Finished, vars, FitInv
<1>3. CASE UNCHANGED vars
  BY <1>3 DEF vars, FitInv
<1> QED BY <1>1, <1>2, <1>3 DEF Next

(* Snapshots that fit together - of one struct type whose optional fields  *)
(* hold nothing optional in turn, or maps of decoded JSON, or anything     *)
(* between - are merged without a panic, and to the overlay of all layers. *)
THEOREM MergingIsTotal ==
  ASSUME Unexported = {}, \A s \in Stacks : FitTogether(s)
  PROVE  Spec => []MergeIsOverlay
<1>1. Init => FitInv
  BY FitInit
<1>2. FitInv /\ [Next]_vars => FitInv'
  BY FitStep
<1>3. FitInv => MergeNeverPanics
  <2> SUFFICES ASSUME FitInv PROVE merged # Panic
    BY DEF MergeNeverPanics
  <2>1. merged \in Upto[Depth] /\ Depth \in 0..Depth
    BY ValuesAssumption DEF FitInv
  <2> QED BY <2>1, KindsAre
<1>4. Spec => [](MergeNeverPanics => MergeIsOverlay)
  BY MergeIsTheOverlay
<1> QED BY <1>1, <1>2, <1>3, <1>4, PTL DEF Spec

-----------------------------------------------------------------------------
(* Navigation and flattening.                                              *)
Containers == {"map", "slice", "array", "struct"}

NavigatedAt(n) ==
  NavigateUpto[n] =
    [v \in Outcomes(n) |-> [path \in Seq(Segments) |->
                IF path = << >> THEN Found(v)
                ELSE IF v.kind = "ptr" /\ Holds(v) THEN NavigateUpto[n - 1][Part(v, Elem)][path]
                ELSE IF v.kind \in Containers /\ Head(path) \in Segs(v)
                        /\ Settable(v, Head(path))
                THEN NavigateUpto[n - 1][Dynamic(v.at[Head(path)])][Tail(path)]
                ELSE Missed]]

LEMMA NavigateUptoIs == \A n \in 0..Depth : NavigatedAt(n)
<1> DEFINE B(n, y) ==
             [v \in Outcomes(n) |-> [path \in Seq(Segments) |->
                IF path = << >> THEN Found(v)
                ELSE IF v.kind = "ptr" /\ Holds(v) THEN y[Part(v, Elem)][path]
                ELSE IF v.kind \in Containers /\ Head(path) \in Segs(v)
                        /\ Settable(v, Head(path))
                THEN y[Dynamic(v.at[Head(path)])][Tail(path)]
                ELSE Missed]]
           Out(f, m) == f = [n \in 0..m |-> B(n, f[n - 1])]
           T == {m \in Nat : \E f : Out(f, m)}
<1>1. \A y, z : B(0, y) = B(0, z)
  <2>1. \A v \in Outcomes(0) : ~Holds(v) /\ Segs(v) = {}
    BY LeafIs
  <2> QED BY <2>1
<1>2. NavigateUpto = CHOOSE f : Out(f, Depth)
  BY DEF NavigateUpto, Containers
<1> HIDE DEF B
<1>3. 0 \in T
  <2> DEFINE f == [n \in 0..0 |-> B(0, 0)]
  <2>1. \A n \in 0..0 : f[n] = B(n, f[n - 1])
    BY <1>1
  <2>2. Out(f, 0)
    BY <2>1
  <2> QED BY <2>2
<1>4. ASSUME NEW m \in Nat, m \in T PROVE m + 1 \in T
  <2>1. PICK f : Out(f, m)
    BY <1>4
  <2> DEFINE g == [n \in 0..(m + 1) |-> IF n = m + 1 THEN B(m + 1, f[m]) ELSE f[n]]
  <2>2. ASSUME NEW n \in 0..(m + 1) PROVE g[n] = B(n, g[n - 1])
    <3>1. CASE n = m + 1
      BY <3>1
    <3>2. CASE n # m + 1 /\ n # 0
      <4>1. n \in 0..m /\ n - 1 \in 0..(m + 1) /\ n - 1 # m + 1
        BY <3>2
      <4>2. g[n] = f[n] /\ g[n - 1] = f[n - 1]
        BY <3>2, <4>1
      <4>3. f[n] = B(n, f[n - 1])
        BY <2>1, <4>1
      <4> QED BY <4>2, <4>3
    <3>3. CASE n = 0
      <4>1. g[n] = f[n] /\ f[n] = B(n, f[n - 1])
        BY <2>1, <3>3
      <4>2. B(n, f[n - 1]) = B(n, g[n - 1])
        BY <1>1, <3>3
      <4> QED BY <4>1, <4>2
    <3> QED BY <3>1, <3>2, <3>3
  <2>3. Out(g, m + 1)
    BY <2>2
  <2> HIDE DEF Out, g
  <2> QED BY <2>3
<1>5. Depth \in T
  <2> HIDE DEF T
  <2> QED BY <1>3, <1>4, Induct, ValuesAssumption
<1>6. Out(NavigateUpto, Depth)
  <2> HIDE DEF Out
  <2> QED BY <1>2, <1>5
<1>7. \A n \in 0..Depth : NavigateUpto[n] = B(n, NavigateUpto[n - 1])
  BY <1>6
<1> QED BY <1>7 DEF B, NavigatedAt

FlattenedAt(n) ==
  FlattenUpto[n] =
    [v \in Outcomes(n) |->
                IF v.kind \in {"ptr", "iface"} /\ Holds(v) THEN FlattenUpto[n - 1][Part(v, Elem)]
                ELSE IF Holds(v) /\ (Segs(v) # {} \/ v.kind \in {"map", "struct"})
                THEN UNION {{<<x>> \o path : path \in FlattenUpto[n - 1][v.at[x]]} :
                              x \in {z \in Segs(v) : Settable(v, z)}}
                ELSE {<< >>}]

LEMMA FlattenUptoIs == \A n \in 0..Depth : FlattenedAt(n)
<1> DEFINE B(n, y) ==
             [v \in Outcomes(n) |->
                IF v.kind \in {"ptr", "iface"} /\ Holds(v) THEN y[Part(v, Elem)]
                ELSE IF Holds(v) /\ (Segs(v) # {} \/ v.kind \in {"map", "struct"})
                THEN UNION {{<<x>> \o path : path \in y[v.at[x]]} :
                              x \in {z \in Segs(v) : Settable(v, z)}}
                ELSE {<< >>}]
           Out(f, m) == f = [n \in 0..m |-> B(n, f[n - 1])]
           T == {m \in Nat : \E f : Out(f, m)}
<1>1. \A y, z : B(0, y) = B(0, z)
  <2>1. \A v \in Outcomes(0) : ~Holds(v)
    BY LeafIs
  <2> QED BY <2>1
<1>2. FlattenUpto = CHOOSE f : Out(f, Depth)
  BY DEF FlattenUpto
<1> HIDE DEF B
<1>3. 0 \in T
  <2> DEFINE f == [n \in 0..0 |-> B(0, 0)]
  <2>1. \A n \in 0..0 : f[n] = B(n, f[n - 1])
    BY <1>1
  <2>2. Out(f, 0)
    BY <2>1
  <2> QED BY <2>2
<1>4. ASSUME NEW m \in Nat, m \in T PROVE m + 1 \in T
  <2>1. PICK f : Out(f, m)
    BY <1>4
  <2> DEFINE g == [n \in 0..(m + 1) |-> IF n = m + 1 THEN B(m + 1, f[m]) ELSE f[n]]
  <2>2. ASSUME NEW n \in 0..(m + 1) PROVE g[n] = B(n, g[n - 1])
    <3>1. CASE n = m + 1
      BY <3>1
    <3>2. CASE n # m + 1 /\ n # 0
      <4>1. n \in 0..m /\ n - 1 \in 0..(m + 1) /\ n - 1 # m + 1
        BY <3>2
      <4>2. g[n] = f[n] /\ g[n - 1] = f[n - 1]
        BY <3>2, <4>1
      <4>3. f[n] = B(n, f[n - 1])
        BY <2>1, <4>1
      <4> QED BY <4>2, <4>3
    <3>3. CASE n = 0
      <4>1. g[n] = f[n] /\ f[n] = B(n, f[n - 1])
        BY <2>1, <3>3
      <4>2. B(n, f[n - 1]) = B(n, g[n - 1])
        BY <1>1, <3>3
      <4> QED BY <4>1, <4>2
    <3> QED BY <3>1, <3>2, <3>3
  <2>3. Out(g, m + 1)
    BY <2>2
  <2> HIDE DEF Out, g
  <2> QED BY <2>3
<1>5. Depth \in T
  <2> HIDE DEF T
  <2> QED BY <1>3, <1>4, Induct, ValuesAssumption
<1>6. Out(FlattenUpto, Depth)
  <2> HIDE DEF Out
  <2> QED BY <1>2, <1>5
<1>7. \A n \in 0..Depth : FlattenUpto[n] = B(n, FlattenUpto[n - 1])
  BY <1>6
<1> QED BY <1>7 DEF B, FlattenedAt

NilFreeAt(n) ==
  NilFree[n] =
    {Scalar(k) : k \in Numbers} \cup IF n = 0 THEN {} ELSE Nodes(NilFree[n - 1])

LEMMA NilFreeIs == \A n \in 0..Depth : NilFreeAt(n)
<1> DEFINE B(n, y) ==
             {Scalar(k) : k \in Numbers} \cup IF n = 0 THEN {} ELSE Nodes(y)
           Out(f, m) == f = [n \in 0..m |-> B(n, f[n - 1])]
           T == {m \in Nat : \E f : Out(f, m)}
<1>1. \A y, z : B(0, y) = B(0, z)
  OBVIOUS
<1>2. NilFree = CHOOSE f : Out(f, Depth)
  BY DEF NilFree
<1> HIDE DEF B
<1>3. 0 \in T
  <2> DEFINE f == [n \in 0..0 |-> B(0, 0)]
  <2>1. \A n \in 0..0 : f[n] = B(n, f[n - 1])
    BY <1>1
  <2>2. Out(f, 0)
    BY <2>1
  <2> QED BY <2>2
<1>4. ASSUME NEW m \in Nat, m \in T PROVE m + 1 \in T
  <2>1. PICK f : Out(f, m)
    BY <1>4
  <2> DEFINE g == [n \in 0..(m + 1) |-> IF n = m + 1 THEN B(m + 1, f[m]) ELSE f[n]]
  <2>2. ASSUME NEW n \in 0..(m + 1) PROVE g[n] = B(n, g[n - 1])
    <3>1. CASE n = m + 1
      BY <3>1
    <3>2. CASE n # m + 1 /\ n # 0
      <4>1. n \in 0..m /\ n - 1 \in 0..(m + 1) /\ n - 1 # m + 1
        BY <3>2
      <4>2. g[n] = f[n] /\ g[n - 1] = f[n - 1]
        BY <3>2, <4>1
      <4>3. f[n] = B(n, f[n - 1])
        BY <2>1, <4>1
      <4> QED BY <4>2, <4>3
    <3>3. CASE n = 0
      <4>1. g[n] = f[n] /\ f[n] = B(n, f[n - 1])
        BY <2>1, <3>3
      <4>2. B(n, f[n - 1]) = B(n, g[n - 1])
        BY <1>1, <3>3
      <4> QED BY <4>1, <4>2
    <3> QED BY <3>1, <3>2, <3>3
  <2>3. Out(g, m + 1)
    BY <2>2
  <2> HIDE DEF Out, g
  <2> QED BY <2>3
<1>5. Depth \in T
  <2> HIDE DEF T
  <2> QED BY <1>3, <1>4, Induct, ValuesAssumption
<1>6. Out(NilFree, Depth)
  <2> HIDE DEF Out
  <2> QED BY <1>2, <1>5
<1>7. \A n \in 0..Depth : NilFree[n] = B(n, NilFree[n - 1])
  BY <1>6
<1> QED BY <1>7 DEF B, NilFreeAt

ProperAt(n) ==
  Proper[n] =
    Leaves \cup IF n = 0 THEN {}
                         ELSE {v \in Nodes(Proper[n - 1]) : v.kind \in {"ptr", "iface"} =>
                                 Segs(v) = {Elem} /\ v.at[Elem].kind # "iface"}

LEMMA ProperIs == \A n \in 0..Depth : ProperAt(n)
<1> DEFINE B(n, y) ==
             Leaves \cup IF n = 0 THEN {}
                         ELSE {v \in Nodes(y) : v.kind \in {"ptr", "iface"} =>
                                 Segs(v) = {Elem} /\ v.at[Elem].kind # "iface"}
           Out(f, m) == f = [n \in 0..m |-> B(n, f[n - 1])]
           T == {m \in Nat : \E f : Out(f, m)}
<1>1. \A y, z : B(0, y) = B(0, z)
  OBVIOUS
<1>2. Proper = CHOOSE f : Out(f, Depth)
  BY DEF Proper
<1> HIDE DEF B
<1>3. 0 \in T
  <2> DEFINE f == [n \in 0..0 |-> B(0, 0)]
  <2>1. \A n \in 0..0 : f[n] = B(n, f[n - 1])
    BY <1>1
  <2>2. Out(f, 0)
    BY <2>1
  <2> QED BY <2>2
<1>4. ASSUME NEW m \in Nat, m \in T PROVE m + 1 \in T
  <2>1. PICK f : Out(f, m)
    BY <1>4
  <2> DEFINE g == [n \in 0..(m + 1) |-> IF n = m + 1 THEN B(m + 1, f[m]) ELSE f[n]]
  <2>2. ASSUME NEW n \in 0..(m + 1) PROVE g[n] = B(n, g[n - 1])
    <3>1. CASE n = m + 1
      BY <3>1
    <3>2. CASE n # m + 1 /\ n # 0
      <4>1. n \in 0..m /\ n - 1 \in 0..(m + 1) /\ n - 1 # m + 1
        BY <3>2
      <4>2. g[n] = f[n] /\ g[n - 1] = f[n - 1]
        BY <3>2, <4>1
      <4>3. f[n] = B(n, f[n - 1])
        BY <2>1, <4>1
      <4> QED BY <4>2, <4>3
    <3>3. CASE n = 0
      <4>1. g[n] = f[n] /\ f[n] = B(n, f[n - 1])
        BY <2>1, <3>3
      <4>2. B(n, f[n - 1]) = B(n, g[n - 1])
        BY <1>1, <3>3
      <4> QED BY <4>1, <4>2
    <3> QED BY <3>1, <3>2, <3>3
  <2>3. Out(g, m + 1)
    BY <2>2
  <2> HIDE DEF Out, g
  <2> QED BY <2>3
<1>5. Depth \in T
  <2> HIDE DEF T
  <2> QED BY <1>3, <1>4, Induct, ValuesAssumption
<1>6. Out(Proper, Depth)
  <2> HIDE DEF Out
  <2> QED BY <1>2, <1>5
<1>7. \A n \in 0..Depth : Proper[n] = B(n, Proper[n - 1])
  BY <1>6
<1> QED BY <1>7 DEF B, ProperAt

(* A path begins with a segment and goes on, or is at its end.             *)
LEMMA PathIs ==
  ASSUME NEW x \in Segments, NEW q \in Seq(Segments)
  PROVE  /\ <<x>> \o q \in Seq(Segments) /\ <<x>> \o q # << >>
         /\ Head(<<x>> \o q) = x /\ Tail(<<x>> \o q) = q
<1> DEFINE p == <<x>> \o q
<1>1. <<x>> \in Seq(Segments) /\ Len(<<x>>) = 1 /\ <<x>>[1] = x
  OBVIOUS
<1>2. p \in Seq(Segments) /\ Len(p) = 1 + Len(q) /\ Len(q) \in Nat
  BY <1>1
<1>3. \A i \in 1..Len(p) : p[i] = IF i <= 1 THEN x ELSE q[i - 1]
  BY <1>1, <1>2
<1>4. p # << >>
  BY <1>2
<1>5. Head(p) = x
  BY <1>1, <1>2
<1>6. Tail(p) = q
  <2>1. Tail(p) = [i \in 1..Len(q) |-> p[i + 1]]
    BY <1>2, <1>4
  <2>2. \A i \in 1..Len(q) : p[i + 1] = q[i]
    BY <1>2, <1>3
  <2>3. q = [i \in 1..Len(q) |-> q[i]]
    OBVIOUS
  <2> QED BY <2>1, <2>2, <2>3
<1> QED BY <1>2, <1>4, <1>5, <1>6

Join(x, q) == <<x>> \o q
End == << >>

LEMMA JoinIs ==
  ASSUME NEW x \in Segments, NEW q \in Seq(Segments)
  PROVE  /\ Join(x, q) \in Seq(Segments) /\ Join(x, q) # End
         /\ Head(Join(x, q)) = x /\ Tail(Join(x, q)) = q
BY PathIs DEF Join, End

LEMMA EndIs == End \in Seq(Segments)
BY DEF End

(* Values nested less deep are among those nested deeper.                  *)
LEMMA UptoGrows == \A n \in 0..Depth : n - 1 \in 0..Depth => Upto[n - 1] \subseteq Upto[n]
<1> DEFINE T == {n \in Nat : n + 1 <= Depth => Upto[n] \subseteq Upto[n + 1]}
<1>1. \A n \in 0..Depth : RanksOf(n)
  BY UptoIs
<1>2. 0 \in T
  <2> SUFFICES ASSUME 1 <= Depth PROVE Upto[0] \subseteq Upto[0 + 1]
    OBVIOUS
  <2>1. 0 \in 0..Depth /\ 1 \in 0..Depth
    BY ValuesAssumption
  <2>2. Upto[0] = Leaves
    BY <1>1, <2>1 DEF RanksOf
  <2>3. Upto[1] = Leaves \cup Nodes(Upto[1 - 1])
    <3>1. RanksOf(1) /\ 1 # 0
      BY <1>1, <2>1
    <3> QED BY <3>1 DEF RanksOf
  <2>4. 0 + 1 = 1
    OBVIOUS
  <2> QED BY <2>2, <2>3, <2>4
<1>3. ASSUME NEW m \in Nat, m \in T PROVE m + 1 \in T
  <2> SUFFICES ASSUME (m + 1) + 1 <= Depth PROVE Upto[m + 1] \subseteq Upto[(m + 1) + 1]
    OBVIOUS
  <2>1. m + 1 \in 0..Depth /\ m + 2 \in 0..Depth /\ (m + 1) + 1 = m + 2
        /\ (m + 1) - 1 = m /\ (m + 2) - 1 = m + 1 /\ m + 1 # 0 /\ m + 2 # 0
    BY ValuesAssumption
  <2>2. Upto[m + 1] = Leaves \cup Nodes(Upto[m]) /\ Upto[m + 2] = Leaves \cup Nodes(Upto[m + 1])
    BY <1>1, <2>1 DEF RanksOf
  <2>3. Upto[m] \subseteq Upto[m + 1]
    BY <1>3, <2>1, ValuesAssumption
  <2>4. Nodes(Upto[m]) \subseteq Nodes(Upto[m + 1])
    BY <2>3 DEF Nodes
  <2> QED BY <2>1, <2>2, <2>4
<1>4. Nat \subseteq T
  <2> HIDE DEF T
  <2> QED BY <1>2, <1>3, Induct
<1>5. ASSUME NEW n \in 0..Depth, n - 1 \in 0..Depth PROVE Upto[n - 1] \subseteq Upto[n]
  <2>1. n - 1 \in T /\ (n - 1) + 1 = n /\ n <= Depth
    BY <1>4, <1>5, ValuesAssumption
  <2> QED BY <2>1
<1> QED BY <1>5

LEMMA OutcomesGrow ==
  ASSUME NEW n \in 0..Depth, n - 1 \in 0..Depth
  PROVE  Outcomes(n - 1) \subseteq Outcomes(n)
BY UptoGrows DEF Outcomes

LEMMA DynamicIs ==
  ASSUME NEW n \in 0..Depth, NEW v \in Outcomes(n)
  PROVE  /\ Dynamic(v) \in Outcomes(n) /\ Part(v, Elem) \in Outcomes(n)
         /\ Holds(v) => Part(v, Elem) \in Outcomes(n - 1)
<1>1. CASE Elem \in Segs(v)
  <2>1. Part(v, Elem) \in Outcomes(n - 1) /\ n - 1 \in 0..Depth
    BY <1>1, PartIs
  <2> QED BY <2>1, OutcomesGrow DEF Dynamic
<1>2. CASE Elem \notin Segs(v)
  BY <1>2 DEF Dynamic, Part, Outcomes
<1> QED BY <1>1, <1>2

(* navigateSegments, whatever the depth the value is taken to have.        *)
Walk(n, v, p) == NavigateUpto[n][Dynamic(v)][p]

LEMMA NavigatesAs ==
  ASSUME NEW n \in 0..Depth, NEW v \in Outcomes(n), NEW p \in Seq(Segments)
  PROVE  NavigateUpto[n][v][p] =
           IF p = End THEN Found(v)
           ELSE IF v.kind = "ptr" /\ Holds(v) THEN NavigateUpto[n - 1][Part(v, Elem)][p]
           ELSE IF v.kind \in Containers /\ Head(p) \in Segs(v) /\ Settable(v, Head(p))
           THEN NavigateUpto[n - 1][Dynamic(v.at[Head(p)])][Tail(p)]
           ELSE Missed
<1> DEFINE B(u, q) ==
             IF q = << >> THEN Found(u)
             ELSE IF u.kind = "ptr" /\ Holds(u) THEN NavigateUpto[n - 1][Part(u, Elem)][q]
             ELSE IF u.kind \in Containers /\ Head(q) \in Segs(u) /\ Settable(u, Head(q))
             THEN NavigateUpto[n - 1][Dynamic(u.at[Head(q)])][Tail(q)]
             ELSE Missed
<1>1. NavigateUpto[n] = [u \in Outcomes(n) |-> [q \in Seq(Segments) |-> B(u, q)]]
  BY NavigateUptoIs DEF NavigatedAt
<1> HIDE DEF B
<1>2. NavigateUpto[n][v][p] = B(v, p)
  BY <1>1
<1> QED BY <1>2 DEF B, End

SameWalks(n) ==
  \A v \in Outcomes(n - 1) : \A p \in Seq(Segments) :
    NavigateUpto[n][v][p] = NavigateUpto[n - 1][v][p]

LEMMA WalksAgree == \A n \in 0..Depth : n - 1 \in 0..Depth => SameWalks(n)
<1> DEFINE T == {n \in Nat : n + 1 <= Depth => SameWalks(n + 1)}
<1>1. 0 \in T
  <2> SUFFICES ASSUME 1 <= Depth PROVE SameWalks(1)
    OBVIOUS
  <2>1. 0 \in 0..Depth /\ 1 \in 0..Depth /\ 1 - 1 = 0
    BY ValuesAssumption
  <2>2. ASSUME NEW v \in Outcomes(0), NEW p \in Seq(Segments)
        PROVE  NavigateUpto[1][v][p] = NavigateUpto[0][v][p]
    <3>1. v \in Outcomes(1)
      BY <2>1, OutcomesGrow
    <3>2. ~Holds(v) /\ Segs(v) = {}
      BY LeafIs
    <3>3. NavigateUpto[1][v][p] = IF p = End THEN Found(v) ELSE Missed
      BY <2>1, <3>1, <3>2, NavigatesAs
    <3>4. NavigateUpto[0][v][p] = IF p = End THEN Found(v) ELSE Missed
      BY <2>1, <3>2, NavigatesAs
    <3> QED BY <3>3, <3>4
  <2> QED BY <2>1, <2>2 DEF SameWalks
<1>2. ASSUME NEW m \in Nat, m \in T PROVE m + 1 \in T
  <2> DEFINE n == m + 1
  <2> SUFFICES ASSUME n + 1 <= Depth PROVE SameWalks(n + 1)
    OBVIOUS
  <2>1. /\ n \in 0..Depth /\ n + 1 \in 0..Depth /\ n - 1 \in 0..Depth /\ (n + 1) - 1 = n
        /\ n - 1 = m
    BY ValuesAssumption
  <2>2. SameWalks(n)
    BY <1>2, <2>1, ValuesAssumption
  <2> HIDE DEF n
  <2>3. ASSUME NEW v \in Outcomes(n), NEW p \in Seq(Segments)
        PROVE  NavigateUpto[n + 1][v][p] = NavigateUpto[n][v][p]
    <3>1. v \in Outcomes(n + 1)
      BY <2>1, OutcomesGrow
    <3>2. NavigateUpto[n + 1][v][p] =
            IF p = End THEN Found(v)
            ELSE IF v.kind = "ptr" /\ Holds(v) THEN NavigateUpto[n][Part(v, Elem)][p]
            ELSE IF v.kind \in Containers /\ Head(p) \in Segs(v) /\ Settable(v, Head(p))
            THEN NavigateUpto[n][Dynamic(v.at[Head(p)])][Tail(p)]
            ELSE Missed
      BY <2>1, <3>1, NavigatesAs
    <3>3. NavigateUpto[n][v][p] =
            IF p = End THEN Found(v)
            ELSE IF v.kind = "ptr" /\ Holds(v) THEN NavigateUpto[n - 1][Part(v, Elem)][p]
            ELSE IF v.kind \in Containers /\ Head(p) \in Segs(v) /\ Settable(v, Head(p))
            THEN NavigateUpto[n - 1][Dynamic(v.at[Head(p)])][Tail(p)]
            ELSE Missed
      BY <2>1, NavigatesAs
    <3>4. Holds(v) => NavigateUpto[n][Part(v, Elem)][p] = NavigateUpto[n - 1][Part(v, Elem)][p]
      <4> SUFFICES ASSUME Holds(v)
                   PROVE  NavigateUpto[n][Part(v, Elem)][p] = NavigateUpto[n - 1][Part(v, Elem)][p]
        OBVIOUS
      <4>1. Part(v, Elem) \in Outcomes(n - 1)
        BY <2>1, DynamicIs
      <4> QED BY <2>2, <4>1 DEF SameWalks
    <3>5. p # End /\ Head(p) \in Segs(v) =>
            NavigateUpto[n][Dynamic(v.at[Head(p)])][Tail(p)]
              = NavigateUpto[n - 1][Dynamic(v.at[Head(p)])][Tail(p)]
      <4> SUFFICES ASSUME p # End, Head(p) \in Segs(v)
                   PROVE  NavigateUpto[n][Dynamic(v.at[Head(p)])][Tail(p)]
                            = NavigateUpto[n - 1][Dynamic(v.at[Head(p)])][Tail(p)]
        OBVIOUS
      <4>1. v.at[Head(p)] \in Outcomes(n - 1)
        BY <2>1, PartIs
      <4>2. Dynamic(v.at[Head(p)]) \in Outcomes(n - 1)
        BY <2>1, <4>1, DynamicIs
      <4>3. Tail(p) \in Seq(Segments)
        BY DEF End
      <4> QED BY <2>2, <4>2, <4>3 DEF SameWalks
    <3> QED BY <3>2, <3>3, <3>4, <3>5
  <2> QED BY <2>1, <2>3 DEF SameWalks
<1>3. Nat \subseteq T
  <2> HIDE DEF T
  <2> QED BY <1>1, <1>2, Induct
<1>4. ASSUME NEW n \in 0..Depth, n - 1 \in 0..Depth PROVE SameWalks(n)
  <2>1. n - 1 \in T /\ (n - 1) + 1 = n /\ n <= Depth
    BY <1>3, <1>4, ValuesAssumption
  <2> QED BY <2>1
<1> QED BY <1>4

(* One step of a walk: through what points or holds, or into a part.       *)
LEMMA WalkEnds ==
  ASSUME NEW n \in 0..Depth, NEW v \in Outcomes(n)
  PROVE  Walk(n, v, End) = Found(Dynamic(v))
BY DynamicIs, EndIs, NavigatesAs DEF Walk

LEMMA WalkThrough ==
  ASSUME NEW n \in 0..Depth, n - 1 \in 0..Depth, NEW v \in Outcomes(n), NEW p \in Seq(Segments),
         Holds(v), v.kind \in {"ptr", "iface"}, Elem \in Segs(v), v.at[Elem].kind # "iface",
         v.kind = "ptr" => p # End
  PROVE  Walk(n, v, p) = Walk(n - 1, v.at[Elem], p)
<1>1. v.at[Elem] \in Outcomes(n - 1) /\ Part(v, Elem) = v.at[Elem]
  BY PartIs
<1>2. Dynamic(v.at[Elem]) = v.at[Elem]
  BY DEF Dynamic
<1>3. CASE v.kind = "ptr"
  <2>1. Dynamic(v) = v
    BY <1>3 DEF Dynamic
  <2>2. NavigateUpto[n][v][p] = NavigateUpto[n - 1][Part(v, Elem)][p]
    BY <1>3, NavigatesAs
  <2> QED BY <1>1, <1>2, <2>1, <2>2 DEF Walk
<1>4. CASE v.kind = "iface"
  <2>1. Dynamic(v) = v.at[Elem]
    BY <1>1, <1>4 DEF Dynamic
  <2>2. SameWalks(n)
    BY WalksAgree
  <2>3. NavigateUpto[n][v.at[Elem]][p] = NavigateUpto[n - 1][v.at[Elem]][p]
    BY <1>1, <2>2 DEF SameWalks
  <2> QED BY <1>2, <2>1, <2>3 DEF Walk
<1> QED BY <1>3, <1>4

LEMMA WalkInto ==
  ASSUME Unexported = {}, NEW n \in 0..Depth, n - 1 \in 0..Depth, NEW v \in Outcomes(n),
         v.kind \in Containers, NEW x \in Segments, NEW q \in Seq(Segments)
  PROVE  Walk(n, v, Join(x, q)) = IF x \in Segs(v) THEN Walk(n - 1, v.at[x], q) ELSE Missed
<1>1. Dynamic(v) = v /\ v.kind # "ptr"
  BY DEF Dynamic, Containers
<1>2. Settable(v, x)
  BY DEF Settable
<1>3. /\ Join(x, q) \in Seq(Segments) /\ Join(x, q) # End
      /\ Head(Join(x, q)) = x /\ Tail(Join(x, q)) = q
  BY JoinIs
<1> DEFINE p == Join(x, q)
<1> HIDE DEF p
<1>4. NavigateUpto[n][v][p] =
        IF p = End THEN Found(v)
        ELSE IF v.kind = "ptr" /\ Holds(v) THEN NavigateUpto[n - 1][Part(v, Elem)][p]
        ELSE IF v.kind \in Containers /\ Head(p) \in Segs(v) /\ Settable(v, Head(p))
        THEN NavigateUpto[n - 1][Dynamic(v.at[Head(p)])][Tail(p)]
        ELSE Missed
  BY <1>3, NavigatesAs DEF p
<1>5. p # End /\ Head(p) = x /\ Tail(p) = q
  BY <1>3 DEF p
<1>6. NavigateUpto[n][v][p] = IF x \in Segs(v) THEN NavigateUpto[n - 1][Dynamic(v.at[x])][q] ELSE Missed
  BY <1>1, <1>2, <1>4, <1>5
<1> QED BY <1>1, <1>6 DEF Walk, p

LEMMA WalkNowhere ==
  ASSUME NEW n \in 0..Depth, NEW v \in Outcomes(n), v.kind = "scalar",
         NEW p \in Seq(Segments), p # End
  PROVE  Walk(n, v, p) = Missed
<1>1. Dynamic(v) = v /\ v.kind # "ptr" /\ v.kind \notin Containers
  BY DEF Dynamic, Containers
<1> QED BY <1>1, NavigatesAs DEF Walk

(* The paths of a value are those of its parts.                            *)
LEMMA FlattensAs ==
  ASSUME NEW n \in 0..Depth, NEW v \in Outcomes(n)
  PROVE  FlattenUpto[n][v] =
           IF v.kind \in {"ptr", "iface"} /\ Holds(v) THEN FlattenUpto[n - 1][Part(v, Elem)]
           ELSE IF Holds(v) /\ (Segs(v) # {} \/ v.kind \in {"map", "struct"})
           THEN UNION {{Join(x, q) : q \in FlattenUpto[n - 1][v.at[x]]} :
                         x \in {z \in Segs(v) : Settable(v, z)}}
           ELSE {End}
<1> DEFINE B(u) ==
             IF u.kind \in {"ptr", "iface"} /\ Holds(u) THEN FlattenUpto[n - 1][Part(u, Elem)]
             ELSE IF Holds(u) /\ (Segs(u) # {} \/ u.kind \in {"map", "struct"})
             THEN UNION {{<<x>> \o path : path \in FlattenUpto[n - 1][u.at[x]]} :
                           x \in {z \in Segs(u) : Settable(u, z)}}
             ELSE {<< >>}
<1>1. FlattenUpto[n] = [u \in Outcomes(n) |-> B(u)]
  BY FlattenUptoIs DEF FlattenedAt
<1> HIDE DEF B
<1>2. FlattenUpto[n][v] = B(v)
  BY <1>1
<1> QED BY <1>2 DEF B, Join, End

LEMMA FlattensInto ==
  ASSUME NEW n \in 0..Depth, NEW v \in Outcomes(n), NEW p \in FlattenUpto[n][v],
         Holds(v), v.kind \notin {"ptr", "iface"}, Segs(v) # {} \/ v.kind \in {"map", "struct"}
  PROVE  \E x \in Segs(v) : \E q \in FlattenUpto[n - 1][v.at[x]] : p = Join(x, q)
<1> DEFINE S(x) == {Join(x, q) : q \in FlattenUpto[n - 1][v.at[x]]}
           D == {z \in Segs(v) : Settable(v, z)}
<1>1. FlattenUpto[n][v] = UNION {S(x) : x \in D}
  BY FlattensAs
<1>2. \E x \in Segs(v) : p \in S(x)
  <2> HIDE DEF S
  <2> QED BY <1>1
<1> QED BY <1>2

FlatsFit(n) ==
  \A v \in Outcomes(n) : FlattenUpto[n][v] \subseteq Seq(Segments)

LEMMA FlatsAre == \A n \in 0..Depth : FlatsFit(n)
<1> DEFINE T == {n \in Nat : n <= Depth => FlatsFit(n)}
<1>1. 0 \in T
  <2>1. 0 \in 0..Depth
    BY ValuesAssumption
  <2>2. \A v \in Outcomes(0) : FlattenUpto[0][v] = {End}
    BY <2>1, LeafIs, FlattensAs
  <2> QED BY <2>2, EndIs DEF FlatsFit
<1>2. ASSUME NEW m \in Nat, m \in T PROVE m + 1 \in T
  <2> DEFINE n == m + 1
  <2> SUFFICES ASSUME n <= Depth, NEW v \in Outcomes(n), NEW p \in FlattenUpto[n][v]
               PROVE  p \in Seq(Segments)
    BY DEF FlatsFit
  <2>1. n \in 0..Depth /\ n - 1 = m /\ m \in 0..Depth
    BY ValuesAssumption
  <2>2. FlatsFit(m)
    BY <1>2, <2>1
  <2> HIDE DEF n
  <2>3. CASE v.kind \in {"ptr", "iface"} /\ Holds(v)
    <3>1. Part(v, Elem) \in Outcomes(m) /\ p \in FlattenUpto[m][Part(v, Elem)]
      BY <2>1, <2>3, DynamicIs, FlattensAs
    <3> QED BY <2>2, <3>1 DEF FlatsFit
  <2>4. CASE ~(v.kind \in {"ptr", "iface"} /\ Holds(v)) /\ Holds(v)
             /\ (Segs(v) # {} \/ v.kind \in {"map", "struct"})
    <3>1. PICK x \in Segs(v) : \E q \in FlattenUpto[m][v.at[x]] : p = Join(x, q)
      BY <2>1, <2>4, FlattensInto
    <3>2. x \in Segments /\ v.at[x] \in Outcomes(m)
      BY <2>1, PartIs
    <3>3. PICK q \in FlattenUpto[m][v.at[x]] : p = Join(x, q)
      BY <3>1
    <3>4. q \in Seq(Segments)
      BY <2>2, <3>2 DEF FlatsFit
    <3> QED BY <3>2, <3>3, <3>4, JoinIs
  <2>5. CASE ~Holds(v) \/ (Segs(v) = {} /\ v.kind \notin {"map", "struct", "ptr", "iface"})
    <3>1. FlattenUpto[n][v] = {End}
      BY <2>1, <2>5, FlattensAs
    <3> QED BY <3>1, EndIs
  <2> QED BY <2>3, <2>4, <2>5
<1>3. Nat \subseteq T
  <2> HIDE DEF T
  <2> QED BY <1>1, <1>2, Induct
<1> QED BY <1>3

(* Values without nil that a path leads through.                           *)
Clear(n) == Proper[n] \cap NilFree[n]
Pointing == {"ptr", "iface"}

LEMMA NilFreesAre == \A n \in 0..Depth : NilFree[n] \subseteq Upto[n]
<1> DEFINE T == {n \in Nat : n <= Depth => NilFree[n] \subseteq Upto[n]}
<1>1. {Scalar(k) : k \in Numbers} \subseteq Leaves
  BY DEF Leaves
<1>2. 0 \in T
  <2>1. 0 \in 0..Depth
    BY ValuesAssumption
  <2>2. NilFree[0] = {Scalar(k) : k \in Numbers} \cup {}
    BY <2>1, NilFreeIs DEF NilFreeAt
  <2>3. Upto[0] = Leaves
    BY <2>1, UptoIs DEF RanksOf
  <2> QED BY <1>1, <2>2, <2>3
<1>3. ASSUME NEW m \in Nat, m \in T PROVE m + 1 \in T
  <2> DEFINE n == m + 1
  <2> SUFFICES ASSUME n <= Depth PROVE NilFree[n] \subseteq Upto[n]
    OBVIOUS
  <2>1. n \in 0..Depth /\ n - 1 = m /\ m \in 0..Depth /\ n # 0
    BY ValuesAssumption
  <2>2. NilFree[m] \subseteq Upto[m]
    BY <1>3, <2>1
  <2> HIDE DEF n
  <2>3. NilFree[n] = {Scalar(k) : k \in Numbers} \cup Nodes(NilFree[m])
    BY <2>1, NilFreeIs DEF NilFreeAt
  <2>4. Upto[n] = Leaves \cup Nodes(Upto[m])
    BY <2>1, UptoIs DEF RanksOf
  <2>5. Nodes(NilFree[m]) \subseteq Nodes(Upto[m])
    BY <2>2 DEF Nodes
  <2> QED BY <1>1, <2>3, <2>4, <2>5
<1>4. Nat \subseteq T
  <2> HIDE DEF T
  <2> QED BY <1>2, <1>3, Induct
<1> QED BY <1>4

LEMMA ClearIs ==
  ASSUME NEW n \in 0..Depth, NEW v \in Clear(n)
  PROVE  /\ v \in Upto[n] /\ v \in Outcomes(n) /\ ~IsNil(v) /\ v # Invalid
         /\ v.kind = "scalar" \/ (Holds(v) /\ v.kind \in Composite)
         /\ \A x \in Segs(v) : v.at[x] \in Clear(n - 1)
         /\ v.kind \in Pointing => Elem \in Segs(v) /\ Segs(v) = {Elem} /\ v.at[Elem].kind # "iface"
<1>1. v \in Upto[n] /\ v \in Outcomes(n) /\ v # Invalid
  BY NilFreesAre, KindsAre DEF Clear, Outcomes
<1>2. v \in {Scalar(k) : k \in Numbers} \/ (n # 0 /\ v \in Nodes(NilFree[n - 1]))
  <2>1. NilFreeAt(n) /\ v \in NilFree[n]
    BY NilFreeIs DEF Clear
  <2> QED BY <2>1 DEF NilFreeAt
<1>3. CASE v \in {Scalar(k) : k \in Numbers}
  <2>1. v.kind = "scalar"
    BY <1>3 DEF Scalar
  <2>2. ~IsNil(v) /\ Segs(v) = {} /\ v.kind \notin Pointing
    BY <2>1 DEF IsNil, Segs, Holds, Composite, Nilable, Pointing
  <2> QED BY <1>1, <2>1, <2>2
<1>4. CASE n # 0 /\ v \in Nodes(NilFree[n - 1])
  <2>1. /\ v.kind \in Composite /\ v.nil = FALSE
        /\ v.at \in [Segments -> NilFree[n - 1] \cup {Invalid}]
    BY <1>4 DEF Nodes
  <2>2. v \notin Leaves
    BY <2>1 DEF Leaves, Scalar, Nil, Composite, Nilable
  <2>3. /\ v \in Nodes(Proper[n - 1])
        /\ v.kind \in {"ptr", "iface"} => Segs(v) = {Elem} /\ v.at[Elem].kind # "iface"
    <3>1. ProperAt(n) /\ v \in Proper[n]
      BY ProperIs DEF Clear
    <3> QED BY <1>4, <2>2, <3>1 DEF ProperAt
  <2>4. v.at \in [Segments -> Proper[n - 1] \cup {Invalid}]
    BY <2>3 DEF Nodes
  <2>5. Holds(v) /\ ~IsNil(v)
    BY <2>1 DEF Holds, IsNil
  <2>6. \A x \in Segs(v) : v.at[x] \in Clear(n - 1)
    BY <2>1, <2>4 DEF Segs, Clear
  <2> QED BY <1>1, <2>1, <2>3, <2>5, <2>6 DEF Pointing
<1> QED BY <1>2, <1>3, <1>4

(* Each path of such a value leads somewhere in it.                        *)
Leads(n) ==
  \A v \in Clear(n) : \A p \in FlattenUpto[n][v] : Walk(n, v, p).ok

LEMMA PathsLead ==
  ASSUME Unexported = {}
  PROVE  \A n \in 0..Depth : Leads(n)
<1> DEFINE T == {n \in Nat : n <= Depth => Leads(n)}
<1>1. ASSUME NEW n \in 0..Depth, NEW v \in Clear(n) PROVE Walk(n, v, End).ok
  <2>1. Walk(n, v, End) = Found(Dynamic(v))
    BY ClearIs, WalkEnds
  <2> QED BY <2>1 DEF Found
<1>2. ASSUME NEW n \in 0..Depth, NEW v \in Clear(n), NEW p \in FlattenUpto[n][v],
             n # 0 => Leads(n - 1)
      PROVE  Walk(n, v, p).ok
  <2>1. /\ v \in Outcomes(n) /\ p \in Seq(Segments)
        /\ v.kind = "scalar" \/ (Holds(v) /\ v.kind \in Composite)
        /\ \A x \in Segs(v) : v.at[x] \in Clear(n - 1)
        /\ v.kind \in Pointing => Elem \in Segs(v) /\ v.at[Elem].kind # "iface"
    BY ClearIs, FlatsAre DEF FlatsFit
  <2>2. Holds(v) => n # 0 /\ n - 1 \in 0..Depth
    BY <2>1, NodeIs, ValuesAssumption
  <2>3. CASE p = End
    BY <1>1, <2>3
  <2>4. CASE p # End /\ v.kind \in Pointing
    <3>1. Holds(v) /\ n - 1 \in 0..Depth /\ Leads(n - 1)
      BY <1>2, <2>1, <2>2, <2>4 DEF Pointing
    <3>2. Part(v, Elem) = v.at[Elem] /\ v.at[Elem] \in Clear(n - 1)
      BY <2>1, <2>4 DEF Part
    <3>3. p \in FlattenUpto[n - 1][v.at[Elem]]
      BY <2>1, <2>4, <3>1, <3>2, FlattensAs DEF Pointing
    <3>4. Walk(n, v, p) = Walk(n - 1, v.at[Elem], p)
      BY <2>1, <2>4, <3>1, WalkThrough DEF Pointing
    <3> QED BY <3>1, <3>2, <3>3, <3>4 DEF Leads
  <2>5. CASE p # End /\ v.kind \notin Pointing
    <3>1. Holds(v) /\ (Segs(v) # {} \/ v.kind \in {"map", "struct"})
      <4> SUFFICES ASSUME ~(Holds(v) /\ (Segs(v) # {} \/ v.kind \in {"map", "struct"}))
                   PROVE  FlattenUpto[n][v] = {End}
        BY <2>5
      <4>1. ~(v.kind \in {"ptr", "iface"} /\ Holds(v))
        BY <2>5 DEF Pointing
      <4> QED BY <2>1, <4>1, FlattensAs
    <3>2. PICK x \in Segs(v) : \E q \in FlattenUpto[n - 1][v.at[x]] : p = Join(x, q)
      BY <2>1, <2>5, <3>1, FlattensInto DEF Pointing
    <3>3. PICK q \in FlattenUpto[n - 1][v.at[x]] : p = Join(x, q)
      BY <3>2
    <3>4. n - 1 \in 0..Depth /\ Leads(n - 1) /\ v.at[x] \in Clear(n - 1) /\ x \in Segments
      BY <1>2, <2>1, <2>2, <3>1 DEF Segs
    <3>5. q \in Seq(Segments) /\ Walk(n - 1, v.at[x], q).ok
      BY <3>4, FlatsAre, ClearIs DEF FlatsFit, Leads
    <3>6. v.kind \in Containers
      BY <2>1, <2>5, <3>1 DEF Pointing, Holds, Composite, Nilable, Containers
    <3>7. Walk(n, v, Join(x, q)) = Walk(n - 1, v.at[x], q)
      BY <2>1, <3>4, <3>5, <3>6, WalkInto
    <3> QED BY <3>3, <3>5, <3>7
  <2> QED BY <2>3, <2>4, <2>5
<1>3. 0 \in T
  BY <1>2, ValuesAssumption DEF Leads
<1>4. ASSUME NEW m \in Nat, m \in T PROVE m + 1 \in T
  <2> SUFFICES ASSUME m + 1 <= Depth PROVE Leads(m + 1)
    OBVIOUS
  <2>1. m + 1 \in 0..Depth /\ (m + 1) - 1 = m /\ Leads(m)
    BY <1>4, ValuesAssumption
  <2> QED BY <1>2, <2>1 DEF Leads
<1>5. Nat \subseteq T
  <2> HIDE DEF T
  <2> QED BY <1>3, <1>4, Induct
<1> QED BY <1>5

(* What layers without nil have at a place, where one of them has          *)
(* something.                                                              *)
ClearColumns(n) ==
  {vs \in Columns(n) : There(vs) # {} /\ \A i \in There(vs) : vs[i] \in Clear(n)}

LEMMA ClearTop ==
  ASSUME NEW n \in 0..Depth, NEW vs \in ClearColumns(n)
  PROVE  /\ vs \in Columns(n) /\ There(vs) # {} /\ Live(vs) # {} /\ Live(vs) = There(vs)
         /\ There(vs) \in SUBSET (1..MaxLayers)
         /\ Top(vs) \in Clear(n) /\ First(Live(vs)) \in There(vs)
         /\ \A j \in There(vs) : vs[j] \in Clear(n) /\ First(Live(vs)) <= j
<1>1. vs \in Columns(n) /\ There(vs) # {} /\ \A i \in There(vs) : vs[i] \in Clear(n)
  BY DEF ClearColumns
<1>2. Live(vs) = There(vs)
  BY <1>1, ClearIs DEF Live
<1>3. First(Live(vs)) \in Live(vs) /\ \A j \in Live(vs) : First(Live(vs)) <= j
  BY <1>1, <1>2, TopIs
<1>4. There(vs) \in SUBSET (1..MaxLayers)
  BY <1>1, LiveAre
<1> QED BY <1>1, <1>2, <1>3, <1>4 DEF Top

(* Which layers supply a part, and what they supply.                       *)
LEMMA PartsThere ==
  ASSUME NEW n \in 0..Depth, NEW vs \in Columns(n), NEW x \in Segments
  PROVE  \A i \in 1..MaxLayers :
           /\ i \in There(Parts(vs, x)) <=> i \in Suppliers(vs, x) /\ x \in Segs(vs[i])
           /\ i \in There(Parts(vs, x)) => Parts(vs, x)[i] = vs[i].at[x]
<1> TAKE i \in 1..MaxLayers
<1>1. DOMAIN vs = 1..MaxLayers
  BY LiveAre
<1>2. Parts(vs, x)[i] = (IF i \in Suppliers(vs, x) THEN Part(vs[i], x) ELSE Invalid)
      /\ DOMAIN Parts(vs, x) = 1..MaxLayers
  BY <1>1 DEF Parts
<1>3. i \in There(Parts(vs, x)) <=> Parts(vs, x)[i] # Invalid
  BY <1>2 DEF There
<1>4. x \in Segs(vs[i]) => Part(vs[i], x) = vs[i].at[x] /\ vs[i].at[x] # Invalid
  BY DEF Part, Segs
<1>5. x \notin Segs(vs[i]) => Part(vs[i], x) = Invalid
  BY DEF Part
<1> QED BY <1>2, <1>3, <1>4, <1>5

LEMMA SuppliersAre ==
  ASSUME NEW n \in 0..Depth, NEW vs \in Columns(n), NEW x, NEW k \in Suppliers(vs, x)
  PROVE  /\ k \in Live(vs) /\ k \in 1..MaxLayers /\ vs[k].kind = Top(vs).kind
         /\ \A i \in Live(vs) : i < k => i \in Suppliers(vs, x)
<1>1. /\ k \in Live(vs) /\ \A j \in Live(vs) : j <= k => Alike(Top(vs), vs[j])
      /\ vs[k].kind = "map" \/ \A j \in Agreeing(vs) : j <= k => x \in Segs(vs[j])
  BY DEF Suppliers, Agreeing, Top
<1>2. Live(vs) \subseteq 1..MaxLayers /\ 1..MaxLayers \subseteq Int
  BY LiveAre, StacksAssumption
<1>3. vs[k].kind = Top(vs).kind
  BY <1>1, <1>2 DEF Alike
<1>4. ASSUME NEW i \in Live(vs), i < k PROVE i \in Suppliers(vs, x)
  <2>1. i \in Int /\ k \in Int /\ i <= k /\ \A j \in Live(vs) : j \in Int /\ (j <= i => j <= k)
    BY <1>1, <1>2, <1>4
  <2>2. Agreeing(vs) \subseteq Live(vs)
    BY DEF Agreeing
  <2>3. i \in Agreeing(vs)
    BY <1>1, <2>1 DEF Agreeing, Top
  <2>4. vs[i].kind = vs[k].kind
    BY <1>1, <1>3, <2>1 DEF Alike
  <2>5. vs[i].kind = "map" \/ \A j \in Agreeing(vs) : j <= i => x \in Segs(vs[j])
    BY <1>1, <2>1, <2>2, <2>4
  <2> QED BY <2>3, <2>5 DEF Suppliers
<1> QED BY <1>1, <1>2, <1>3, <1>4

LEMMA TopSupplies ==
  ASSUME NEW n \in 0..Depth, NEW vs \in Columns(n), Live(vs) # {}, NEW x \in Segs(Top(vs))
  PROVE  First(Live(vs)) \in Suppliers(vs, x)
<1> DEFINE k == First(Live(vs))
<1>1. k \in Live(vs) /\ \A j \in Live(vs) : k <= j
  BY TopIs
<1>2. Live(vs) \subseteq 1..MaxLayers /\ 1..MaxLayers \subseteq Int
  BY LiveAre, StacksAssumption
<1>3. \A j \in Live(vs) : j <= k => j = k
  BY <1>1, <1>2
<1>4. k \in Agreeing(vs)
  BY <1>1, <1>3 DEF Agreeing, Alike
<1>5. \A j \in Agreeing(vs) : j <= k => x \in Segs(vs[j])
  BY <1>3 DEF Agreeing, Top
<1> QED BY <1>4, <1>5 DEF Suppliers

LEMMA ClearParts ==
  ASSUME NEW n \in 0..Depth, NEW vs \in ClearColumns(n), Top(vs).kind \notin Scalars,
         NEW x \in Segments, There(Parts(vs, x)) # {}
  PROVE  n - 1 \in 0..Depth /\ Parts(vs, x) \in ClearColumns(n - 1)
<1>1. vs \in Columns(n) /\ Live(vs) # {} /\ \A j \in There(vs) : vs[j] \in Clear(n)
  BY ClearTop
<1>2. n - 1 \in 0..Depth
  BY <1>1, TopHolds
<1>3. Parts(vs, x) \in Columns(n - 1)
  BY <1>1, <1>2, PartsAre
<1>4. ASSUME NEW i \in There(Parts(vs, x)) PROVE Parts(vs, x)[i] \in Clear(n - 1)
  <2>1. i \in 1..MaxLayers
    BY <1>2, <1>3, LiveAre
  <2>2. i \in Suppliers(vs, x) /\ x \in Segs(vs[i]) /\ Parts(vs, x)[i] = vs[i].at[x]
    BY <1>1, <2>1, PartsThere
  <2>3. i \in Live(vs)
    BY <1>1, <2>2, SuppliersAre
  <2>4. vs[i] \in Clear(n)
    BY <1>1, <2>3 DEF Live
  <2> QED BY <2>2, <2>4, ClearIs
<1> QED BY <1>2, <1>3, <1>4 DEF ClearColumns

LEMMA KindOfTop ==
  ASSUME NEW n \in 0..Depth, NEW vs \in ClearColumns(n)
  PROVE  /\ OverlayUpto[n][vs].kind = Top(vs).kind /\ OverlayUpto[n][vs] \in Upto[n]
         /\ Top(vs).kind \in Scalars => OverlayUpto[n][vs] = Top(vs)
<1>1. vs \in Columns(n) /\ There(vs) # {} /\ Live(vs) # {}
  BY ClearTop
<1>2. OverlayUpto[n][vs] \in Upto[n]
  BY <1>1, OverlaysAre DEF OverlayOk
<1>3. CASE Top(vs).kind \in Scalars
  <2>1. OverlayUpto[n][vs] = Top(vs)
    BY <1>1, <1>3, OverlaidIs DEF OverlayBy, Top, Scalars
  <2> QED BY <1>2, <2>1
<1>4. CASE Top(vs).kind \notin Scalars
  BY <1>1, <1>2, <1>4, OverlayPart
<1> QED BY <1>3, <1>4

(* What points or holds: all that is listed is under its Elem.             *)
LEMMA PointsAt ==
  ASSUME NEW n \in 0..Depth, NEW vs \in ClearColumns(n), Top(vs).kind \in Pointing,
         NEW w, w = OverlayUpto[n][vs]
  PROVE  /\ Holds(w) /\ w \in Outcomes(n) /\ w \in Upto[n] /\ w.kind = Top(vs).kind
         /\ n - 1 \in 0..Depth /\ Elem \in Segments /\ Segs(w) = {Elem}
         /\ Parts(vs, Elem) \in ClearColumns(n - 1)
         /\ First(Live(vs)) \in There(Parts(vs, Elem))
         /\ w.at[Elem] = OverlayUpto[n - 1][Parts(vs, Elem)]
         /\ FlattenUpto[n][w] = FlattenUpto[n - 1][w.at[Elem]]
<1> DEFINE k == First(Live(vs))
<1>1. /\ vs \in Columns(n) /\ There(vs) # {} /\ Live(vs) # {} /\ Top(vs) \in Clear(n)
      /\ k \in There(vs) /\ k \in 1..MaxLayers /\ Live(vs) = There(vs)
      /\ \A j \in There(vs) : vs[j] \in Clear(n)
  BY ClearTop
<1>2. Top(vs).kind \notin Scalars
  BY DEF Pointing, Scalars
<1>3. /\ w \in Upto[n] /\ w.kind = Top(vs).kind /\ Holds(w)
      /\ \A x \in Segments :
           /\ w.at[x] = OverlayUpto[n - 1][Parts(vs, x)]
           /\ x \in Segs(w) <=> There(Parts(vs, x)) # {}
  BY <1>1, <1>2, OverlayPart
<1>4. Segs(Top(vs)) = {Elem} /\ Elem \in Segments /\ n - 1 \in 0..Depth
  <2>1. Segs(Top(vs)) = {Elem}
    BY <1>1, ClearIs
  <2> QED BY <1>1, <1>2, <2>1, TopHolds DEF Segs
<1>5. k \in Suppliers(vs, Elem) /\ Elem \in Segs(vs[k])
  BY <1>1, <1>4, TopSupplies DEF Top
<1>6. k \in There(Parts(vs, Elem))
  BY <1>1, <1>4, <1>5, PartsThere
<1>7. Parts(vs, Elem) \in ClearColumns(n - 1)
  BY <1>2, <1>4, <1>6, ClearParts
<1>8. ASSUME NEW x \in Segs(w) PROVE x = Elem
  <2>1. x \in Segments /\ There(Parts(vs, x)) # {}
    BY <1>3 DEF Segs
  <2>2. PICK i \in There(Parts(vs, x)) : TRUE
    BY <2>1
  <2>3. i \in 1..MaxLayers
    BY <1>1, <1>4, <2>1, PartsAre, LiveAre
  <2>4. i \in Suppliers(vs, x) /\ x \in Segs(vs[i])
    BY <1>1, <2>1, <2>3, PartsThere
  <2>5. i \in Live(vs) /\ vs[i].kind = Top(vs).kind
    BY <1>1, <2>4, SuppliersAre
  <2>6. vs[i] \in Clear(n) /\ vs[i].kind \in Pointing
    BY <1>1, <2>5
  <2> QED BY <2>4, <2>6, ClearIs
<1>9. Elem \in Segs(w)
  BY <1>3, <1>4, <1>6
<1>10. FlattenUpto[n][w] = FlattenUpto[n - 1][w.at[Elem]]
  <2>1. w \in Outcomes(n) /\ Part(w, Elem) = w.at[Elem] /\ w.kind \in {"ptr", "iface"}
    BY <1>3, <1>9 DEF Part, Outcomes, Pointing
  <2> QED BY <1>3, <2>1, FlattensAs
<1>11. w \in Outcomes(n) /\ Segs(w) = {Elem}
  BY <1>3, <1>8, <1>9 DEF Outcomes
<1>12. w.at[Elem] = OverlayUpto[n - 1][Parts(vs, Elem)]
  BY <1>3, <1>4
<1> HIDE DEF k
<1> QED BY <1>3, <1>4, <1>6, <1>7, <1>10, <1>11, <1>12 DEF k

(* Where a path ends in the overlay, that is the strongest layer.          *)
EndsAtTop(n) ==
  \A vs \in ClearColumns(n) :
    End \in FlattenUpto[n][OverlayUpto[n][vs]] => OverlayUpto[n][vs] = Top(vs)

LEMMA EndsAgree == \A n \in 0..Depth : EndsAtTop(n)
<1> DEFINE T == {n \in Nat : n <= Depth => EndsAtTop(n)}
<1>1. ASSUME NEW n \in 0..Depth, NEW vs \in ClearColumns(n), NEW w, w = OverlayUpto[n][vs],
             End \in FlattenUpto[n][w], n # 0 => EndsAtTop(n - 1)
      PROVE  w = Top(vs)
  <2>1. /\ vs \in Columns(n) /\ There(vs) # {} /\ Live(vs) # {} /\ Top(vs) \in Clear(n)
        /\ Live(vs) = There(vs) /\ There(vs) \in SUBSET (1..MaxLayers)
    BY ClearTop
  <2>2. w.kind = Top(vs).kind /\ w \in Upto[n] /\ (Top(vs).kind \in Scalars => w = Top(vs))
    BY <1>1, KindOfTop
  <2>3. w \in Outcomes(n) /\ Top(vs) \in Outcomes(n) /\ Top(vs) \in Upto[n]
    BY <2>1, <2>2, ClearIs DEF Outcomes
  <2>4. CASE Top(vs).kind \in Pointing
    <3> DEFINE cs == Parts(vs, Elem)
               k == First(Live(vs))
    <3>1. /\ Holds(w) /\ n - 1 \in 0..Depth /\ Elem \in Segments /\ Segs(w) = {Elem}
          /\ cs \in ClearColumns(n - 1) /\ k \in There(cs)
          /\ w.at[Elem] = OverlayUpto[n - 1][cs]
          /\ FlattenUpto[n][w] = FlattenUpto[n - 1][w.at[Elem]]
      BY <1>1, <2>4, PointsAt
    <3>2. n # 0
      BY <3>1, ValuesAssumption
    <3>3. w.at[Elem] = Top(cs)
      BY <1>1, <3>1, <3>2 DEF EndsAtTop
    <3>4. Live(cs) = There(cs) /\ There(cs) \in SUBSET (1..MaxLayers)
          /\ First(Live(cs)) \in There(cs) /\ \A j \in There(cs) : First(Live(cs)) <= j
      BY <3>1, ClearTop
    <3>5. There(cs) \subseteq Live(vs)
      <4> SUFFICES ASSUME NEW i \in There(cs) PROVE i \in Live(vs)
        OBVIOUS
      <4>1. i \in Suppliers(vs, Elem)
        BY <2>1, <3>1, <3>4, PartsThere
      <4> QED BY <2>1, <4>1, SuppliersAre
    <3>6. k \in Live(vs) /\ \A j \in Live(vs) : k <= j
      BY <2>1, TopIs
    <3>7. First(Live(cs)) = k
      <4>1. First(Live(cs)) <= k /\ k <= First(Live(cs))
        BY <3>1, <3>4, <3>5, <3>6
      <4>2. k \in Int /\ First(Live(cs)) \in Int
        BY <3>1, <3>4, StacksAssumption
      <4> QED BY <4>1, <4>2
    <3>8. cs[k] = Top(vs).at[Elem] /\ Segs(Top(vs)) = {Elem}
      <4>1. cs[k] = vs[k].at[Elem]
        BY <2>1, <3>1, <3>4, PartsThere
      <4> QED BY <2>1, <2>4, <4>1, ClearIs DEF Top
    <3>9. w.at[Elem] = Top(vs).at[Elem]
      BY <3>3, <3>7, <3>8 DEF Top
    <3>10. Holds(Top(vs))
      BY <3>8 DEF Segs
    <3>11. \A x \in Segments : w.at[x] = Top(vs).at[x]
      BY <3>1, <3>8, <3>9, <3>10 DEF Segs
    <3>12. IsNode(w, Top(vs).kind) /\ IsNode(Top(vs), Top(vs).kind)
      BY <2>2, <2>3, <3>1, <3>10, NodesAre
    <3> QED BY <3>11, <3>12, SameNodes
  <2>5. CASE Top(vs).kind \notin Pointing \cup Scalars
    <3>1. /\ Holds(Top(vs)) /\ Holds(w) /\ n - 1 \in 0..Depth
          /\ \A x \in Segments : x \in Segs(w) <=> There(Parts(vs, x)) # {}
      BY <1>1, <2>1, <2>5, TopHolds, OverlayPart
    <3>2. Segs(w) = {} /\ w.kind \notin {"map", "struct"}
      <4> SUFFICES ASSUME Segs(w) # {} \/ w.kind \in {"map", "struct"} PROVE FALSE
        OBVIOUS
      <4>1. w.kind \notin {"ptr", "iface"}
        BY <2>2, <2>5 DEF Pointing
      <4>2. PICK x \in Segs(w) : \E q \in FlattenUpto[n - 1][w.at[x]] : End = Join(x, q)
        BY <1>1, <2>3, <3>1, <4>1, FlattensInto
      <4>3. PICK q \in FlattenUpto[n - 1][w.at[x]] : End = Join(x, q)
        BY <4>2
      <4>4. x \in Segments /\ w.at[x] \in Outcomes(n - 1)
        BY <2>3, PartIs
      <4>5. q \in Seq(Segments)
        BY <3>1, <4>4, FlatsAre DEF FlatsFit
      <4> QED BY <4>3, <4>4, <4>5, JoinIs
    <3>3. Segs(Top(vs)) = {}
      <4> SUFFICES ASSUME NEW x \in Segs(Top(vs)) PROVE FALSE
        OBVIOUS
      <4>1. x \in Segments
        BY DEF Segs
      <4>2. First(Live(vs)) \in Suppliers(vs, x) /\ First(Live(vs)) \in 1..MaxLayers
        BY <2>1, TopSupplies, SuppliersAre
      <4>3. x \in Segs(vs[First(Live(vs))])
        BY DEF Top
      <4>4. First(Live(vs)) \in There(Parts(vs, x))
        BY <2>1, <4>1, <4>2, <4>3, PartsThere
      <4> QED BY <3>1, <3>2, <4>1, <4>4
    <3>4. \A x \in Segments : w.at[x] = Top(vs).at[x]
      BY <3>1, <3>2, <3>3 DEF Segs
    <3>5. IsNode(w, Top(vs).kind) /\ IsNode(Top(vs), Top(vs).kind)
      BY <2>2, <2>3, <3>1, NodesAre
    <3> QED BY <3>4, <3>5, SameNodes
  <2> QED BY <2>2, <2>4, <2>5
<1>2. 0 \in T
  BY <1>1, ValuesAssumption DEF EndsAtTop
<1>3. ASSUME NEW m \in Nat, m \in T PROVE m + 1 \in T
  <2> SUFFICES ASSUME m + 1 <= Depth PROVE EndsAtTop(m + 1)
    OBVIOUS
  <2>1. m + 1 \in 0..Depth /\ (m + 1) - 1 = m /\ EndsAtTop(m)
    BY <1>3, ValuesAssumption
  <2> QED BY <1>1, <2>1 DEF EndsAtTop
<1>4. Nat \subseteq T
  <2> HIDE DEF T
  <2> QED BY <1>2, <1>3, Induct
<1> QED BY <1>4

(* The strongest layer in which a path leads anywhere has the path's       *)
(* effective value.                                                        *)
Names(n, vs, w, p) ==
  \E k \in There(vs) : /\ Walk(n, vs[k], p).ok
                       /\ \A i \in There(vs) : i < k => ~Walk(n, vs[i], p).ok
                       /\ Walk(n, vs[k], p) = Walk(n, w, p)

NamesAll(n) ==
  \A vs \in ClearColumns(n) : \A p \in FlattenUpto[n][OverlayUpto[n][vs]] :
    Names(n, vs, OverlayUpto[n][vs], p)

(* If that is so of a part, it is so of the whole.                         *)
CarriesUp(n, vs, w, x, p, q) ==
  /\ \A i \in Suppliers(vs, x) :
       Walk(n, vs[i], p) = IF x \in Segs(vs[i]) THEN Walk(n - 1, vs[i].at[x], q) ELSE Missed
  /\ Walk(n, w, p) = Walk(n - 1, w.at[x], q)

LEMMA NamedByPart ==
  ASSUME NEW n \in 0..Depth, NEW vs \in ClearColumns(n), NEW w, NEW x \in Segments,
         NEW p, NEW q, CarriesUp(n, vs, w, x, p, q),
         There(Parts(vs, x)) \in SUBSET (1..MaxLayers),
         Names(n - 1, Parts(vs, x), w.at[x], q)
  PROVE  Names(n, vs, w, p)
<1> DEFINE cs == Parts(vs, x)
<1>1. PICK k \in There(cs) :
        /\ Walk(n - 1, cs[k], q).ok
        /\ \A i \in There(cs) : i < k => ~Walk(n - 1, cs[i], q).ok
        /\ Walk(n - 1, cs[k], q) = Walk(n - 1, w.at[x], q)
  BY DEF Names
<1>2. vs \in Columns(n) /\ Live(vs) = There(vs) /\ There(vs) \in SUBSET (1..MaxLayers)
  BY ClearTop
<1>3. k \in Suppliers(vs, x) /\ x \in Segs(vs[k]) /\ cs[k] = vs[k].at[x]
  BY <1>1, <1>2, PartsThere
<1>4. k \in There(vs) /\ \A i \in There(vs) : i < k => i \in Suppliers(vs, x)
  BY <1>2, <1>3, SuppliersAre
<1>5. Walk(n, vs[k], p) = Walk(n - 1, cs[k], q) /\ Walk(n, w, p) = Walk(n - 1, w.at[x], q)
  BY <1>3 DEF CarriesUp
<1>6. ASSUME NEW i \in There(vs), i < k PROVE ~Walk(n, vs[i], p).ok
  <2>1. i \in Suppliers(vs, x)
    BY <1>4, <1>6
  <2>2. Walk(n, vs[i], p) = IF x \in Segs(vs[i]) THEN Walk(n - 1, vs[i].at[x], q) ELSE Missed
    BY <2>1 DEF CarriesUp
  <2>3. CASE x \in Segs(vs[i])
    <3>1. i \in There(cs) /\ cs[i] = vs[i].at[x]
      BY <1>2, <2>1, <2>3, PartsThere
    <3> QED BY <1>1, <1>6, <2>2, <2>3, <3>1
  <2>4. CASE x \notin Segs(vs[i])
    BY <2>2, <2>4 DEF Missed
  <2> QED BY <2>3, <2>4
<1> QED BY <1>1, <1>4, <1>5, <1>6 DEF Names

(* If the strongest layer itself has the effective value, no layer comes   *)
(* before it.                                                              *)
LEMMA NamedByTop ==
  ASSUME NEW n \in 0..Depth, NEW vs \in ClearColumns(n), NEW w, NEW p,
         w = Top(vs), Walk(n, w, p).ok
  PROVE  Names(n, vs, w, p)
<1> DEFINE k == First(Live(vs))
<1>1. /\ k \in There(vs) /\ There(vs) \in SUBSET (1..MaxLayers)
      /\ \A j \in There(vs) : k <= j
  BY ClearTop
<1>2. vs[k] = w
  BY DEF Top
<1>3. \A i \in There(vs) : ~(i < k)
  BY <1>1, StacksAssumption
<1> HIDE DEF k
<1> QED BY <1>1, <1>2, <1>3 DEF Names

LEMMA NamesStep ==
  ASSUME Unexported = {}, NEW n \in 0..Depth, NEW vs \in ClearColumns(n),
         n # 0 => NamesAll(n - 1), NEW w, w = OverlayUpto[n][vs], NEW p \in FlattenUpto[n][w]
  PROVE  Names(n, vs, w, p)
<1>1. /\ vs \in Columns(n) /\ There(vs) # {} /\ Live(vs) # {} /\ Top(vs) \in Clear(n)
      /\ Live(vs) = There(vs) /\ There(vs) \in SUBSET (1..MaxLayers)
      /\ \A j \in There(vs) : vs[j] \in Clear(n)
  BY ClearTop
<1>2. /\ w.kind = Top(vs).kind /\ w \in Upto[n] /\ w \in Outcomes(n)
      /\ Top(vs).kind \in Scalars => w = Top(vs)
  BY KindOfTop DEF Outcomes
<1>3. p \in Seq(Segments)
  BY <1>2, FlatsAre DEF FlatsFit
<1>4. CASE p = End \/ Top(vs).kind \in Scalars
  <2>1. w = Top(vs)
    BY <1>2, <1>4, EndsAgree DEF EndsAtTop
  <2>2. Walk(n, w, p).ok
    BY <1>1, <2>1, PathsLead DEF Leads
  <2> QED BY <2>1, <2>2, NamedByTop
<1>5. CASE p # End /\ Top(vs).kind \in Pointing
  <2> DEFINE cs == Parts(vs, Elem)
  <2>1. /\ Holds(w) /\ n - 1 \in 0..Depth /\ Elem \in Segments /\ Segs(w) = {Elem}
        /\ cs \in ClearColumns(n - 1) /\ First(Live(vs)) \in There(cs)
        /\ w.at[Elem] = OverlayUpto[n - 1][cs]
        /\ FlattenUpto[n][w] = FlattenUpto[n - 1][w.at[Elem]]
    BY <1>5, PointsAt
  <2>2. n # 0 /\ NamesAll(n - 1)
    BY <2>1, ValuesAssumption
  <2>3. Names(n - 1, cs, w.at[Elem], p)
    BY <2>1, <2>2 DEF NamesAll
  <2>4. \A i \in Suppliers(vs, Elem) :
          vs[i] \in Clear(n) /\ vs[i].kind = w.kind
    BY <1>1, <1>2, SuppliersAre
  <2>5. ASSUME NEW i \in Suppliers(vs, Elem)
        PROVE  /\ Walk(n, vs[i], p) = Walk(n - 1, vs[i].at[Elem], p)
               /\ Elem \in Segs(vs[i])
    <3>1. /\ vs[i] \in Clear(n) /\ vs[i].kind \in {"ptr", "iface"}
      BY <1>2, <1>5, <2>4 DEF Pointing
    <3>2. /\ vs[i] \in Outcomes(n) /\ Elem \in Segs(vs[i]) /\ vs[i].at[Elem].kind # "iface"
          /\ Holds(vs[i])
      BY <3>1, ClearIs DEF Pointing
    <3> QED BY <1>3, <1>5, <2>1, <3>1, <3>2, WalkThrough
  <2>6. w.at[Elem].kind # "iface"
    <3>1. w.at[Elem].kind = Top(cs).kind /\ First(Live(cs)) \in There(cs)
          /\ There(cs) \in SUBSET (1..MaxLayers)
      BY <2>1, KindOfTop, ClearTop
    <3>2. /\ First(Live(cs)) \in Suppliers(vs, Elem)
          /\ Top(cs) = vs[First(Live(cs))].at[Elem]
      BY <1>1, <2>1, <3>1, PartsThere DEF Top
    <3>3. vs[First(Live(cs))] \in Clear(n) /\ vs[First(Live(cs))].kind \in Pointing
      BY <1>2, <1>5, <2>4, <3>2
    <3> QED BY <3>1, <3>2, <3>3, ClearIs
  <2>7. Walk(n, w, p) = Walk(n - 1, w.at[Elem], p)
    BY <1>2, <1>3, <1>5, <2>1, <2>6, WalkThrough DEF Pointing
  <2>8. CarriesUp(n, vs, w, Elem, p, p)
    BY <2>5, <2>7 DEF CarriesUp
  <2>9. There(cs) \in SUBSET (1..MaxLayers)
    BY <2>1, ClearTop
  <2> QED BY <2>1, <2>3, <2>8, <2>9, NamedByPart
<1>6. CASE p # End /\ Top(vs).kind \notin Pointing \cup Scalars
  <2>1. /\ Holds(w) /\ n - 1 \in 0..Depth
        /\ \A x \in Segments :
             /\ w.at[x] = OverlayUpto[n - 1][Parts(vs, x)]
             /\ x \in Segs(w) <=> There(Parts(vs, x)) # {}
    BY <1>1, <1>6, TopHolds, OverlayPart
  <2>2. Segs(w) # {} \/ w.kind \in {"map", "struct"}
    <3> SUFFICES ASSUME ~(Segs(w) # {} \/ w.kind \in {"map", "struct"})
                 PROVE  FlattenUpto[n][w] = {End}
      BY <1>6
    <3>1. ~(w.kind \in {"ptr", "iface"} /\ Holds(w))
      BY <1>2, <1>6 DEF Pointing
    <3> QED BY <1>2, <3>1, FlattensAs
  <2>3. w.kind \notin {"ptr", "iface"} /\ w.kind \in Containers
    BY <1>2, <1>6, <2>1 DEF Pointing, Scalars, Containers, Holds, Composite, Nilable
  <2>4. PICK x \in Segs(w) : \E q \in FlattenUpto[n - 1][w.at[x]] : p = Join(x, q)
    BY <1>2, <2>1, <2>2, <2>3, FlattensInto
  <2>5. PICK q \in FlattenUpto[n - 1][w.at[x]] : p = Join(x, q)
    BY <2>4
  <2> DEFINE cs == Parts(vs, x)
  <2>6. x \in Segments /\ w.at[x] = OverlayUpto[n - 1][cs] /\ w.at[x] \in Outcomes(n - 1)
        /\ There(cs) # {}
    BY <1>2, <2>1, PartIs
  <2>7. cs \in ClearColumns(n - 1) /\ There(cs) \in SUBSET (1..MaxLayers)
    <3>1. cs \in ClearColumns(n - 1)
      BY <1>6, <2>6, ClearParts
    <3> QED BY <2>1, <3>1, ClearTop
  <2>8. q \in Seq(Segments)
    BY <2>1, <2>6, FlatsAre DEF FlatsFit
  <2>9. Names(n - 1, cs, w.at[x], q)
    <3>1. n # 0 /\ NamesAll(n - 1)
      BY <2>1, ValuesAssumption
    <3> QED BY <2>6, <2>7, <3>1 DEF NamesAll
  <2>10. ASSUME NEW i \in Suppliers(vs, x)
         PROVE  Walk(n, vs[i], Join(x, q))
                  = IF x \in Segs(vs[i]) THEN Walk(n - 1, vs[i].at[x], q) ELSE Missed
    <3>1. vs[i].kind = w.kind /\ vs[i] \in Clear(n)
      BY <1>1, <1>2, SuppliersAre
    <3>2. vs[i] \in Outcomes(n) /\ vs[i].kind \in Containers
      BY <2>3, <3>1, ClearIs
    <3> QED BY <2>1, <2>6, <2>8, <3>2, WalkInto
  <2>11. Walk(n, w, Join(x, q)) = Walk(n - 1, w.at[x], q)
    BY <1>2, <2>1, <2>3, <2>6, <2>8, WalkInto
  <2>12. CarriesUp(n, vs, w, x, p, q)
    BY <2>5, <2>10, <2>11 DEF CarriesUp
  <2> QED BY <2>6, <2>7, <2>9, <2>12, NamedByPart
<1> QED BY <1>4, <1>5, <1>6

LEMMA NamesAre ==
  ASSUME Unexported = {}
  PROVE  \A n \in 0..Depth : NamesAll(n)
<1> DEFINE T == {n \in Nat : n <= Depth => NamesAll(n)}
<1>1. ASSUME NEW n \in 0..Depth, n # 0 => NamesAll(n - 1) PROVE NamesAll(n)
  BY <1>1, NamesStep DEF NamesAll
<1>2. 0 \in T
  BY <1>1, ValuesAssumption
<1>3. ASSUME NEW m \in Nat, m \in T PROVE m + 1 \in T
  <2> SUFFICES ASSUME m + 1 <= Depth PROVE NamesAll(m + 1)
    OBVIOUS
  <2>1. m + 1 \in 0..Depth /\ (m + 1) - 1 = m /\ NamesAll(m)
    BY <1>3, ValuesAssumption
  <2> QED BY <1>1, <2>1
<1>4. Nat \subseteq T
  <2> HIDE DEF T
  <2> QED BY <1>2, <1>3, Induct
<1> QED BY <1>4

(* The layers as a column, and the traces through them.                    *)
LEMMA LayersTrace ==
  ASSUME Unexported = {}, LayeringInv, Complete,
         \A s \in Stacks : \A i \in DOMAIN s : s[i] \in Proper[Depth],
         \A i \in DOMAIN layers : layers[i] \in NilFree[Depth],
         NEW p \in CollectPaths(merged)
  PROVE  \E k \in DOMAIN layers : /\ InLayer(k, p).ok /\ InLayer(k, p) = Get(p)
                                  /\ \A i \in DOMAIN layers : i < k => ~InLayer(i, p).ok
<1> DEFINE vs == Layered(1)
           w == OverlayUpto[Depth][vs]
<1>1. /\ layers \in Stacks /\ Depth \in 0..Depth /\ MaxLayers \in Nat
      /\ Len(layers) \in 1..MaxLayers /\ DOMAIN layers = 1..Len(layers)
      /\ \A i \in 1..Len(layers) : layers[i] \in Upto[Depth]
      /\ vs \in Columns(Depth)
  BY LayersAre, StacksAssumption DEF LayeringInv
<1>2. merged = w /\ todo = 0
  BY DEF LayeringInv, Complete
<1>3. \A i \in 1..Len(layers) : vs[i] = layers[i] /\ layers[i] \in Clear(Depth)
  BY <1>1 DEF Layered, Clear
<1>4. There(vs) = 1..Len(layers)
  <2>1. \A i \in 1..MaxLayers : vs[i] = IF i \in 1..Len(layers) THEN layers[i] ELSE Invalid
    BY DEF Layered
  <2>2. \A i \in 1..Len(layers) : layers[i] # Invalid
    BY <1>1, KindsAre
  <2>3. DOMAIN vs = 1..MaxLayers
    BY <1>1, LiveAre
  <2> QED BY <1>1, <2>1, <2>2, <2>3 DEF There
<1>5. vs \in ClearColumns(Depth)
  BY <1>1, <1>3, <1>4 DEF ClearColumns
<1>6. p \in FlattenUpto[Depth][w]
  BY <1>2 DEF CollectPaths
<1> HIDE DEF vs, w
<1>7. Names(Depth, vs, w, p)
  BY <1>1, <1>5, <1>6, NamesAre DEF NamesAll, w
<1>8. PICK k \in There(vs) : /\ Walk(Depth, vs[k], p).ok
                             /\ \A i \in There(vs) : i < k => ~Walk(Depth, vs[i], p).ok
                             /\ Walk(Depth, vs[k], p) = Walk(Depth, w, p)
  BY <1>7 DEF Names
<1>9. \A i \in 1..Len(layers) : InLayer(i, p) = Walk(Depth, vs[i], p)
  BY <1>3 DEF InLayer, NavigateSegments, Walk
<1>10. Get(p) = Walk(Depth, w, p)
  BY <1>2 DEF Get, NavigateSegments, Walk
<1> QED BY <1>1, <1>4, <1>8, <1>9, <1>10

LEMMA SupplierNamed ==
  ASSUME Unexported = {}, LayeringInv,
         \A s \in Stacks : \A i \in DOMAIN s : s[i] \in Proper[Depth]
  PROVE  FlattenNamesSupplier
<1> SUFFICES ASSUME Complete, \A i \in DOMAIN layers : layers[i] \in NilFree[Depth],
                    NEW e \in FlattenWithProvenance
             PROVE  /\ e.found = Get(e.path) /\ ResolveWithTrace(e.path) = Get(e.path)
                    /\ \A i \in 1..(e.layer - 1) : ~InLayer(i, e.path).ok
  BY DEF FlattenNamesSupplier
<1>1. PICK p \in CollectPaths(merged) :
        e = LET hits == {i \in DOMAIN layers : InLayer(i, p).ok}
            IN  IF hits = {} THEN [path |-> p, layer |-> Len(layers), found |-> Missed]
                ELSE [path |-> p, layer |-> Strongest(hits), found |-> InLayer(Strongest(hits), p)]
  BY DEF FlattenWithProvenance
<1> DEFINE hits == {i \in DOMAIN layers : InLayer(i, p).ok}
<1>2. PICK k \in DOMAIN layers : /\ InLayer(k, p).ok /\ InLayer(k, p) = Get(p)
                                 /\ \A i \in DOMAIN layers : i < k => ~InLayer(i, p).ok
  BY LayersTrace
<1>3. DOMAIN layers = 1..Len(layers) /\ Len(layers) \in 1..MaxLayers /\ MaxLayers \in Nat
  BY StacksAssumption DEF LayeringInv
<1>4. Strongest(hits) = k
  <2>1. hits \in SUBSET (1..MaxLayers) /\ k \in hits
    BY <1>2, <1>3
  <2>2. First(hits) \in hits /\ \A j \in hits : First(hits) <= j
    BY <2>1, FirstIs
  <2>3. ~(First(hits) < k)
    BY <1>2, <2>2
  <2>4. First(hits) \in Int /\ k \in Int
    BY <1>3, <2>1, <2>2
  <2> HIDE DEF hits
  <2> QED BY <2>1, <2>2, <2>3, <2>4 DEF Strongest
<1>5. hits # {}
  BY <1>2
<1>6. e = [path |-> p, layer |-> k, found |-> InLayer(k, p)]
  BY <1>1, <1>4, <1>5
<1>7. ResolveWithTrace(p) = InLayer(k, p)
  BY <1>4, <1>5 DEF ResolveWithTrace
<1>8. \A i \in 1..(k - 1) : ~InLayer(i, p).ok
  BY <1>2, <1>3
<1> QED BY <1>2, <1>6, <1>7, <1>8

(* However many layers without an explicit nil are merged, and however     *)
(* deep they are nested: FlattenWithProvenance names for every path the    *)
(* strongest layer in which it leads anywhere, with the value Get and      *)
(* ResolveWithTrace return for it.                                         *)
THEOREM ProvenanceNamesSupplier ==
  ASSUME Unexported = {}, \A s \in Stacks : \A i \in DOMAIN s : s[i] \in Proper[Depth]
  PROVE  Spec => []FlattenNamesSupplier
<1>1. Init => LayeringInv
  BY LayeringInit
<1>2. LayeringInv /\ [Next]_vars => LayeringInv'
  BY LayeringStep
<1>3. LayeringInv => FlattenNamesSupplier
  BY SupplierNamed
<1> QED BY <1>1, <1>2, <1>3, PTL DEF Spec

-----------------------------------------------------------------------------
(* Regrouping.                                                             *)
OneTypeAt(n) ==
  OneTypeUpto[n] =
    [vs \in SUBSET Upto[n] |->
                /\ OneKind(vs)
                /\ n # 0 => \A x \in UNION {Segs(v) : v \in vs} :
                              OneTypeUpto[n - 1][{v.at[x] : v \in {w \in vs : x \in Segs(w)}}]]

LEMMA OneTypeUptoIs == \A n \in 0..Depth : OneTypeAt(n)
<1> DEFINE B(n, y) ==
             [vs \in SUBSET Upto[n] |->
                /\ OneKind(vs)
                /\ n # 0 => \A x \in UNION {Segs(v) : v \in vs} :
                              y[{v.at[x] : v \in {w \in vs : x \in Segs(w)}}]]
           Out(f, m) == f = [n \in 0..m |-> B(n, f[n - 1])]
           T == {m \in Nat : \E f : Out(f, m)}
<1>1. \A y, z : B(0, y) = B(0, z)
  OBVIOUS
<1>2. OneTypeUpto = CHOOSE f : Out(f, Depth)
  BY DEF OneTypeUpto
<1> HIDE DEF B
<1>3. 0 \in T
  <2> DEFINE f == [n \in 0..0 |-> B(0, 0)]
  <2>1. \A n \in 0..0 : f[n] = B(n, f[n - 1])
    BY <1>1
  <2>2. Out(f, 0)
    BY <2>1
  <2> QED BY <2>2
<1>4. ASSUME NEW m \in Nat, m \in T PROVE m + 1 \in T
  <2>1. PICK f : Out(f, m)
    BY <1>4
  <2> DEFINE g == [n \in 0..(m + 1) |-> IF n = m + 1 THEN B(m + 1, f[m]) ELSE f[n]]
  <2>2. ASSUME NEW n \in 0..(m + 1) PROVE g[n] = B(n, g[n - 1])
    <3>1. CASE n = m + 1
      BY <3>1
    <3>2. CASE n # m + 1 /\ n # 0
      <4>1. n \in 0..m /\ n - 1 \in 0..(m + 1) /\ n - 1 # m + 1
        BY <3>2
      <4>2. g[n] = f[n] /\ g[n - 1] = f[n - 1]
        BY <3>2, <4>1
      <4>3. f[n] = B(n, f[n - 1])
        BY <2>1, <4>1
      <4> QED BY <4>2, <4>3
    <3>3. CASE n = 0
      <4>1. g[n] = f[n] /\ f[n] = B(n, f[n - 1])
        BY <2>1, <3>3
      <4>2. B(n, f[n - 1]) = B(n, g[n - 1])
        BY <1>1, <3>3
      <4> QED BY <4>1, <4>2
    <3> QED BY <3>1, <3>2, <3>3
  <2>3. Out(g, m + 1)
    BY <2>2
  <2> HIDE DEF Out, g
  <2> QED BY <2>3
<1>5. Depth \in T
  <2> HIDE DEF T
  <2> QED BY <1>3, <1>4, Induct, ValuesAssumption
<1>6. Out(OneTypeUpto, Depth)
  <2> HIDE DEF Out
  <2> QED BY <1>2, <1>5
<1>7. \A n \in 0..Depth : OneTypeUpto[n] = B(n, OneTypeUpto[n - 1])
  BY <1>6
<1> QED BY <1>7 DEF B, OneTypeAt

LEMMA TopDownIs ==
  ASSUME Len(layers) \in Nat \ {0}
  PROVE  \A j \in 1..Len(layers) :
           TopDown[j] = IF j = 1 THEN layers[1] ELSE MergeValue(TopDown[j - 1], layers[j])
<1> DEFINE B(j, y) == IF j = 1 THEN layers[1] ELSE MergeValue(y, layers[j])
           Out(f, m) == f = [j \in 1..m |-> B(j, f[j - 1])]
           T == {m \in Nat : \E f : Out(f, m)}
<1>1. \A y, z : B(1, y) = B(1, z)
  OBVIOUS
<1>2. TopDown = CHOOSE f : Out(f, Len(layers))
  BY DEF TopDown
<1> HIDE DEF B
<1>3. 0 \in T
  <2> DEFINE f == [j \in 1..0 |-> B(1, 0)]
  <2>1. \A j \in 1..0 : f[j] = B(j, f[j - 1])
    OBVIOUS
  <2>2. Out(f, 0)
    BY <2>1
  <2> QED BY <2>2
<1>4. ASSUME NEW m \in Nat, m \in T PROVE m + 1 \in T
  <2>1. PICK f : Out(f, m)
    BY <1>4
  <2> DEFINE g == [j \in 1..(m + 1) |-> IF j = m + 1 THEN B(m + 1, f[m]) ELSE f[j]]
  <2>2. ASSUME NEW j \in 1..(m + 1) PROVE g[j] = B(j, g[j - 1])
    <3>1. CASE j = 1
      <4>1. g[1] = IF 1 = m + 1 THEN B(m + 1, f[m]) ELSE f[1]
        BY <3>1
      <4>2. 1 # m + 1 => f[1] = B(1, f[1 - 1])
        BY <2>1
      <4> QED BY <1>1, <3>1, <4>1, <4>2
    <3>2. CASE j # 1 /\ j # m + 1
      <4>1. j \in 1..m /\ j - 1 \in 1..(m + 1) /\ j - 1 # m + 1
        BY <3>2
      <4>2. g[j] = f[j] /\ g[j - 1] = f[j - 1]
        BY <3>2, <4>1
      <4>3. f[j] = B(j, f[j - 1])
        BY <2>1, <4>1
      <4> QED BY <4>2, <4>3
    <3>3. CASE j # 1 /\ j = m + 1
      <4>1. j - 1 = m /\ m \in 1..(m + 1) /\ m # m + 1
        BY <3>3
      <4> QED BY <3>3, <4>1
    <3> QED BY <3>1, <3>2, <3>3
  <2>3. Out(g, m + 1)
    BY <2>2
  <2> HIDE DEF Out, g
  <2> QED BY <2>3
<1>5. Len(layers) \in T
  <2> HIDE DEF T
  <2> QED BY <1>3, <1>4, Induct
<1>6. Out(TopDown, Len(layers))
  <2> HIDE DEF Out
  <2> QED BY <1>2, <1>5
<1>7. \A j \in 1..Len(layers) : TopDown[j] = B(j, TopDown[j - 1])
  BY <1>6
<1> QED BY <1>7 DEF B

LEMMA OneTypeIs ==
  ASSUME NEW n \in 0..Depth, NEW vs \in SUBSET Upto[n]
  PROVE  OneTypeUpto[n][vs] <=>
           /\ OneKind(vs)
           /\ n # 0 => \A x \in UNION {Segs(v) : v \in vs} : OneTypeUpto[n - 1][Ats(vs, x)]
<1>1. OneTypeAt(n)
  BY OneTypeUptoIs
<1> DEFINE B(us) == /\ OneKind(us)
                    /\ n # 0 => \A x \in UNION {Segs(v) : v \in us} : OneTypeUpto[n - 1][Ats(us, x)]
<1>2. OneTypeUpto[n] = [us \in SUBSET Upto[n] |-> B(us)]
  BY <1>1 DEF OneTypeAt, Ats
<1> HIDE DEF B
<1>3. OneTypeUpto[n][vs] = B(vs)
  BY <1>2
<1> QED BY <1>3 DEF B

(* What fits together fits together part by part.                          *)
LEMMA FitParts ==
  ASSUME NEW n \in 0..Depth, n - 1 \in 0..Depth, NEW vs \in SUBSET Upto[n], FitUpto[n][vs],
         NEW x \in Segments
  PROVE  Ats(vs, x) \in SUBSET Upto[n - 1] /\ FitUpto[n - 1][Ats(vs, x)]
<1>1. Ats(vs, x) \in SUBSET Upto[n - 1]
  BY AtsAre
<1>2. CASE vs \subseteq Whole[n]
  <2>1. ASSUME NEW v \in vs, x \in Segs(v) PROVE v.at[x] \in Whole[n - 1]
    <3>1. v \in Whole[n] /\ Holds(v)
      BY <1>2, <2>1 DEF Segs
    <3> QED BY <2>1, <3>1, WholePart
  <2>2. Ats(vs, x) \subseteq Whole[n - 1]
    BY <2>1 DEF Ats
  <2> QED BY <1>1, <2>2, FitIs
<1>3. CASE ~(vs \subseteq Whole[n])
  BY <1>1, <1>3, FitIs
<1> QED BY <1>2, <1>3

(* A value put on nothing is that value, unless reflect panics.            *)
OnNothing(n) ==
  \A v \in Upto[n] :
    MergeUpto[n][v][Invalid] \notin {Invalid, Panic} => MergeUpto[n][v][Invalid] = v

LEMMA MergeOnNothing ==
  ASSUME Unexported = {}
  PROVE  \A n \in 0..Depth : OnNothing(n)
<1> DEFINE T == {n \in Nat : n <= Depth => OnNothing(n)}
<1>1. ASSUME NEW n \in 0..Depth, NEW v \in Upto[n], NEW m, m = MergeUpto[n][v][Invalid],
             m \notin {Invalid, Panic}, n # 0 => OnNothing(n - 1)
      PROVE  m = v
  <2>1. /\ v \in Outcomes(n) /\ Invalid \in Outcomes(n) /\ v.kind \in Composite \cup {"scalar"}
        /\ CloneUpto[n][v] = v /\ CloneUpto[n][Invalid] = Invalid
    BY KindsAre, CloneIs DEF Outcomes
  <2>2. m = MergeBy(n, MergeUpto[n - 1], v, Invalid)
    BY <1>1, <2>1, MergedIs
  <2>3. ~GivesWay(v)
    BY <1>1, <2>1, <2>2 DEF MergeBy
  <2>4. CASE v.kind \in Scalars
    BY <2>1, <2>2, <2>3, <2>4 DEF MergeBy, ByParts, Scalars
  <2>5. CASE v.kind \notin Scalars
    <3>1. Holds(v) /\ n - 1 \in 0..Depth /\ n # 0
      <4>1. Holds(v)
        BY <2>1, <2>3, <2>5 DEF GivesWay, IsNil, Holds, Scalars
      <4> QED BY <2>1, <4>1, NodeIs, ValuesAssumption
    <3>2. MergeFits(n, v, Invalid)
      BY <1>1, <2>1, <2>5, <3>1, MergedPart
    <3>3. \A x : At(Invalid, v, x) = Invalid
      <4>1. ~Alike(v, Invalid)
        BY <2>1 DEF Alike, Invalid, Composite, Nilable
      <4> QED BY <4>1 DEF At
    <3>4. /\ Holds(m) /\ m.kind = v.kind /\ IsNode(m, v.kind)
          /\ \A x \in Segs(v) : v.kind # "map" =>
               /\ MergeUpto[n - 1][v.at[x]][Invalid] \notin {Invalid, Panic}
               /\ m.at[x] = MergeUpto[n - 1][v.at[x]][Invalid]
          /\ \A x \in Segments \ Segs(v) : m.at[x] = Invalid
          /\ \A x \in Segs(v) : v.kind = "map" => m.at[x] = v.at[x]
      BY <1>1, <3>2, <3>3 DEF MergeFits
    <3>5. \A x \in Segs(v) : m.at[x] = v.at[x]
      <4> TAKE x \in Segs(v)
      <4>1. v.at[x] \in Upto[n - 1]
        BY <2>1, PartIs
      <4>2. OnNothing(n - 1)
        BY <1>1, <3>1
      <4> QED BY <3>4, <4>1, <4>2 DEF OnNothing
    <3>6. \A x \in Segments : m.at[x] = v.at[x]
      BY <3>1, <3>4, <3>5 DEF Segs
    <3>7. IsNode(v, v.kind)
      BY <3>1, NodesAre
    <3> QED BY <3>4, <3>6, <3>7, SameNodes
  <2> QED BY <2>4, <2>5
<1>2. 0 \in T
  BY <1>1, ValuesAssumption DEF OnNothing
<1>3. ASSUME NEW q \in Nat, q \in T PROVE q + 1 \in T
  <2> SUFFICES ASSUME q + 1 <= Depth PROVE OnNothing(q + 1)
    OBVIOUS
  <2>1. q + 1 \in 0..Depth /\ (q + 1) - 1 = q /\ OnNothing(q)
    BY <1>3, ValuesAssumption
  <2> QED BY <1>1, <2>1 DEF OnNothing
<1>4. Nat \subseteq T
  <2> HIDE DEF T
  <2> QED BY <1>2, <1>3, Induct
<1> QED BY <1>4

(* Values that fit together and have one type throughout.                  *)
Matching(n, vs) == vs \in SUBSET Upto[n] /\ FitUpto[n][vs] /\ OneTypeUpto[n][vs]

LEMMA MatchingParts ==
  ASSUME NEW n \in 0..Depth, n - 1 \in 0..Depth, NEW vs, Matching(n, vs),
         NEW x \in Segments, Ats(vs, x) # {}
  PROVE  Matching(n - 1, Ats(vs, x))
<1>1. x \in UNION {Segs(v) : v \in vs}
  BY DEF Ats
<1>2. n # 0
  BY ValuesAssumption
<1>3. OneTypeUpto[n - 1][Ats(vs, x)]
  BY <1>1, <1>2, OneTypeIs DEF Matching
<1> QED BY <1>3, FitParts DEF Matching

(* What two of them have at a place.                                       *)
Both(n, u, v) == IF u = Invalid THEN v ELSE IF v = Invalid THEN u ELSE MergeUpto[n][u][v]

Mixes(n, m, s, w) ==
  \A x \in Segments : Part(m, x) = Both(n - 1, Part(s, x), Part(w, x))

MergesTo(n, vs, s, w, m) ==
  /\ s \in Upto[n] /\ w \in Upto[n] /\ m \in Upto[n] /\ m.kind = s.kind /\ w.kind = s.kind
  /\ FitUpto[n][vs \cup {m}] /\ vs \cup {m} \in SUBSET Upto[n]
  /\ IsNil(s) => m = w
  /\ s.kind \in Scalars /\ ~IsNil(s) => m = s
  /\ s.kind \notin Scalars => Mixes(n, m, s, w) /\ (Holds(s) => Holds(m))
  /\ s.kind \in ByParts /\ Holds(s) => Segs(m) = Segs(s)

LEMMA MatchingMerge ==
  ASSUME Unexported = {}, NEW n \in 0..Depth, NEW vs, Matching(n, vs), NEW s \in vs, NEW w \in vs
  PROVE  MergesTo(n, vs, s, w, MergeUpto[n][s][w])
<1> SUFFICES ASSUME NEW m, m = MergeUpto[n][s][w] PROVE MergesTo(n, vs, s, w, m)
  OBVIOUS
<1>1. /\ vs \in SUBSET Upto[n] /\ FitUpto[n][vs] /\ OneKind(vs)
  BY OneTypeIs DEF Matching
<1>2. /\ s \in Upto[n] /\ w \in Upto[n] /\ s \in Outcomes(n) /\ w \in Outcomes(n) /\ w.kind = s.kind
      /\ s.kind \in Composite \cup {"scalar"}
      /\ CloneUpto[n][s] = s /\ CloneUpto[n][w] = w
  <2>1. s \in Upto[n] /\ w \in Upto[n] /\ w.kind = s.kind
    BY <1>1 DEF OneKind
  <2> QED BY <2>1, KindsAre, CloneIs DEF Outcomes
<1>3. m \in Upto[n] /\ FitUpto[n][vs \cup {m}] /\ vs \cup {m} \in SUBSET Upto[n]
  <2>1. Fitting(n)
    BY MergeFitting
  <2>2. MergeUpto[n][s][w] \in Upto[n] /\ FitUpto[n][vs \cup {MergeUpto[n][s][w]}]
    BY <1>1, <2>1 DEF Fitting
  <2> QED BY <1>1, <2>2
<1>4. m = MergeBy(n, MergeUpto[n - 1], s, w)
  BY <1>2, MergedIs
<1>5. CASE IsNil(s)
  <2>1. m = w
    BY <1>2, <1>4, <1>5 DEF MergeBy, GivesWay
  <2>2. ~Holds(s) /\ Segs(s) = {}
    BY <1>5 DEF IsNil, Holds, Segs
  <2>3. Mixes(n, m, s, w)
    BY <2>1, <2>2 DEF Mixes, Both, Part
  <2> QED BY <1>2, <1>3, <2>1, <2>2, <2>3, <1>5 DEF MergesTo
<1>6. CASE ~IsNil(s) /\ s.kind \in Scalars
  <2>1. ~GivesWay(s)
    BY <1>2, <1>6 DEF GivesWay, Composite, Nilable
  <2>2. m = s
    BY <1>2, <1>4, <1>6, <2>1 DEF MergeBy, Scalars, ByParts
  <2>3. s.kind \notin ByParts
    BY <1>6 DEF Scalars, ByParts
  <2> QED BY <1>2, <1>3, <1>6, <2>2, <2>3 DEF MergesTo
<1>7. CASE ~IsNil(s) /\ s.kind \notin Scalars
  <2>1. Holds(s) /\ n - 1 \in 0..Depth
    <3>1. Holds(s)
      BY <1>2, <1>7 DEF IsNil, Holds, Scalars
    <3> QED BY <1>2, <3>1, NodeIs
  <2>2. m # Panic /\ m # Invalid
    BY <1>3, KindsAre
  <2>3. MergeFits(n, s, w)
    BY <1>2, <1>7, <2>1, <2>2, MergedPart
  <2>4. \A x : At(w, s, x) = Part(w, x)
    <3>1. Alike(s, w)
      <4>1. CASE Holds(w)
        BY <1>1, <1>2, <2>1, <4>1 DEF Alike, OneKind, ByParts
      <4>2. CASE ~Holds(w)
        <5>1. w.kind # "struct"
          <6>1. w \in Leaves \/ w \in Nodes(Upto[n - 1])
            BY <1>2, UptoIs DEF RanksOf
          <6>2. w \notin Nodes(Upto[n - 1])
            BY <4>2 DEF Nodes, Holds
          <6> QED BY <6>1, <6>2 DEF Leaves, Scalar, Nil, Nilable
        <5> QED BY <1>2, <5>1 DEF Alike
      <4> QED BY <4>1, <4>2
    <3> QED BY <3>1 DEF At
  <2> DEFINE part(x) == MergeUpto[n - 1][s.at[x]][Part(w, x)]
  <2>5. /\ Holds(m) /\ m.kind = s.kind
        /\ \A x \in Segs(s) : Part(w, x) # Invalid \/ s.kind # "map" =>
             part(x) \notin {Invalid, Panic} /\ m.at[x] = part(x)
        /\ \A x \in Segments \ Segs(s) :
             m.at[x] = IF s.kind = "map" THEN Part(w, x) ELSE Invalid
        /\ \A x \in Segs(s) : Part(w, x) = Invalid /\ s.kind = "map" => m.at[x] = s.at[x]
    BY <1>2, <2>3, <2>4 DEF MergeFits
  <2>6. \A x \in Segments : Part(m, x) = m.at[x]
    BY <2>5 DEF Part, Segs
  <2>7. \A x \in Segments : Part(s, x) = s.at[x] /\ (x \in Segs(s) <=> s.at[x] # Invalid)
    BY <2>1 DEF Part, Segs
  <2>8. s.kind \in ByParts \/ s.kind = "map"
    BY <1>2, <1>7 DEF Composite, Nilable, Scalars, ByParts
  <2>9. ASSUME NEW x \in Segments PROVE Part(m, x) = Both(n - 1, Part(s, x), Part(w, x))
    <3>1. CASE x \in Segs(s) /\ Part(w, x) # Invalid
      <4>1. Part(m, x) = part(x)
        BY <2>5, <2>6, <3>1
      <4> QED BY <2>7, <3>1, <4>1 DEF Both
    <3>2. CASE x \in Segs(s) /\ Part(w, x) = Invalid
      <4>1. m.at[x] = s.at[x]
        <5>1. CASE s.kind = "map"
          BY <2>5, <3>2, <5>1
        <5>2. CASE s.kind # "map"
          <6>1. s.at[x] \in Upto[n - 1]
            BY <1>2, <3>2, PartIs
          <6>2. /\ MergeUpto[n - 1][s.at[x]][Invalid] \notin {Invalid, Panic}
                /\ m.at[x] = MergeUpto[n - 1][s.at[x]][Invalid]
            BY <2>5, <3>2, <5>2
          <6>3. OnNothing(n - 1)
            BY <2>1, MergeOnNothing
          <6> QED BY <6>1, <6>2, <6>3 DEF OnNothing
        <5> QED BY <5>1, <5>2
      <4> QED BY <2>6, <2>7, <3>2, <4>1 DEF Both
    <3>3. CASE x \notin Segs(s)
      <4>1. m.at[x] = Part(w, x)
        <5>1. CASE s.kind = "map"
          BY <2>5, <3>3, <5>1
        <5>2. CASE s.kind # "map"
          <6>1. Part(w, x) = Invalid
            <7>1. x \notin Segs(w)
              BY <1>1, <1>2, <2>1, <2>8, <3>3, <5>2 DEF OneKind, Segs
            <7> QED BY <7>1 DEF Part
          <6> QED BY <2>5, <3>3, <5>2, <6>1
        <5> QED BY <5>1, <5>2
      <4> QED BY <2>6, <2>7, <3>3, <4>1 DEF Both
    <3> QED BY <3>1, <3>2, <3>3
  <2>10. Mixes(n, m, s, w)
    BY <2>9 DEF Mixes
  <2>11. s.kind \in ByParts => Segs(m) = Segs(s)
    <3> SUFFICES ASSUME s.kind \in ByParts PROVE Segs(m) = Segs(s)
      OBVIOUS
    <3>1. s.kind # "map"
      BY DEF ByParts
    <3>2. \A x \in Segments : m.at[x] # Invalid <=> x \in Segs(s)
      BY <2>5, <3>1
    <3> QED BY <2>1, <2>5, <3>2 DEF Segs
  <2> QED BY <1>2, <1>3, <1>7, <2>5, <2>10, <2>11 DEF MergesTo
<1> QED BY <1>5, <1>6, <1>7

(* The outcome of a merge matches what it was made of.                     *)
StaysMatching(n) ==
  \A vs : Matching(n, vs) => \A s, w \in vs : Matching(n, vs \cup {MergeUpto[n][s][w]})

LEMMA MergesMatch ==
  ASSUME Unexported = {}
  PROVE  \A n \in 0..Depth : StaysMatching(n)
<1> DEFINE T == {n \in Nat : n <= Depth => StaysMatching(n)}
<1>1. ASSUME NEW n \in 0..Depth, NEW vs, Matching(n, vs), NEW s \in vs, NEW w \in vs,
             NEW m, m = MergeUpto[n][s][w], n # 0 => StaysMatching(n - 1)
      PROVE  Matching(n, vs \cup {m})
  <2>1. /\ s \in Upto[n] /\ w \in Upto[n] /\ m \in Upto[n] /\ m.kind = s.kind /\ w.kind = s.kind
        /\ FitUpto[n][vs \cup {m}] /\ vs \cup {m} \in SUBSET Upto[n]
        /\ IsNil(s) => m = w
        /\ s.kind \in Scalars /\ ~IsNil(s) => m = s
        /\ s.kind \notin Scalars => Mixes(n, m, s, w) /\ (Holds(s) => Holds(m))
        /\ s.kind \in ByParts /\ Holds(s) => Segs(m) = Segs(s)
    <3>1. MergesTo(n, vs, s, w, m)
      BY <1>1, MatchingMerge
    <3> QED BY <3>1 DEF MergesTo
  <2>2. CASE m \in vs
    <3>1. vs \cup {m} = vs
      BY <2>2
    <3> QED BY <1>1, <3>1
  <2>3. CASE m \notin vs
    <3>1. Holds(s) /\ s.kind \notin Scalars
      <4>1. s.kind \in Composite \cup {"scalar"}
        BY <2>1, KindsAre
      <4> QED BY <2>1, <2>3, <4>1 DEF IsNil, Holds, Scalars
    <3>2. n - 1 \in 0..Depth /\ n # 0
      <4>1. s \in Outcomes(n)
        BY <2>1 DEF Outcomes
      <4> QED BY <3>1, <4>1, NodeIs, ValuesAssumption
    <3>3. vs \in SUBSET Upto[n] /\ OneKind(vs)
      BY <1>1, OneTypeIs DEF Matching
    <3>4. OneKind(vs \cup {m})
      <4>1. \A v \in vs : v.kind = s.kind /\ (v.kind \in ByParts /\ Holds(v) => Segs(v) = Segs(s))
        BY <3>1, <3>3 DEF OneKind
      <4> QED BY <2>1, <3>1, <3>3, <4>1 DEF OneKind
    <3>5. ASSUME NEW x \in UNION {Segs(v) : v \in vs \cup {m}}
          PROVE  OneTypeUpto[n - 1][Ats(vs \cup {m}, x)]
      <4>0. x \in Segments
        BY DEF Segs
      <4>1. CASE x \notin Segs(m)
        <5>1. Ats(vs \cup {m}, x) = Ats(vs, x) /\ Ats(vs, x) # {}
          BY <3>5, <4>1 DEF Ats
        <5>2. Matching(n - 1, Ats(vs, x))
          BY <1>1, <3>2, <4>0, <5>1, MatchingParts
        <5> QED BY <5>1, <5>2 DEF Matching
      <4>2. CASE x \in Segs(m)
        <5>1. Ats(vs \cup {m}, x) = Ats(vs, x) \cup {m.at[x]}
          BY <4>2 DEF Ats
        <5>2. m.at[x] = Both(n - 1, Part(s, x), Part(w, x)) /\ m.at[x] # Invalid
          BY <2>1, <3>1, <4>0, <4>2 DEF Mixes, Part, Segs
        <5>3. /\ Part(s, x) # Invalid => Part(s, x) \in Ats(vs, x)
              /\ Part(w, x) # Invalid => Part(w, x) \in Ats(vs, x)
          BY DEF Part, Ats
        <5>4. Ats(vs, x) # {}
          BY <5>2, <5>3 DEF Both
        <5>5. Matching(n - 1, Ats(vs, x))
          BY <1>1, <3>2, <4>0, <5>4, MatchingParts
        <5>6. CASE Part(s, x) # Invalid /\ Part(w, x) # Invalid
          <6>1. m.at[x] = MergeUpto[n - 1][Part(s, x)][Part(w, x)]
            BY <5>2, <5>6 DEF Both
          <6>2. Matching(n - 1, Ats(vs, x) \cup {m.at[x]})
            BY <1>1, <3>2, <5>3, <5>5, <5>6, <6>1 DEF StaysMatching
          <6> QED BY <5>1, <6>2 DEF Matching
        <5>7. CASE ~(Part(s, x) # Invalid /\ Part(w, x) # Invalid)
          <6>1. m.at[x] \in Ats(vs, x)
            BY <5>2, <5>3, <5>7 DEF Both
          <6>2. Ats(vs, x) \cup {m.at[x]} = Ats(vs, x)
            BY <6>1
          <6> QED BY <5>1, <5>5, <6>2 DEF Matching
        <5> QED BY <5>6, <5>7
      <4> QED BY <4>1, <4>2
    <3>6. OneTypeUpto[n][vs \cup {m}]
      BY <2>1, <3>4, <3>5, OneTypeIs
    <3> QED BY <2>1, <3>6 DEF Matching
  <2> QED BY <2>2, <2>3
<1>2. 0 \in T
  BY <1>1, ValuesAssumption DEF StaysMatching
<1>3. ASSUME NEW q \in Nat, q \in T PROVE q + 1 \in T
  <2> SUFFICES ASSUME q + 1 <= Depth PROVE StaysMatching(q + 1)
    OBVIOUS
  <2>1. q + 1 \in 0..Depth /\ (q + 1) - 1 = q /\ StaysMatching(q)
    BY <1>3, ValuesAssumption
  <2> DEFINE n == q + 1
  <2> HIDE DEF n
  <2>2. n \in 0..Depth /\ StaysMatching(n - 1)
    BY <2>1 DEF n
  <2>3. ASSUME NEW vs, Matching(n, vs), NEW s \in vs, NEW w \in vs
        PROVE  Matching(n, vs \cup {MergeUpto[n][s][w]})
    BY <1>1, <2>2, <2>3
  <2>4. StaysMatching(n)
    BY <2>3 DEF StaysMatching
  <2> QED BY <2>4 DEF n
<1>4. Nat \subseteq T
  <2> HIDE DEF T
  <2> QED BY <1>2, <1>3, Induct
<1> QED BY <1>4

(* Merging matching values is associative.                                 *)
Associates(n) ==
  \A vs : Matching(n, vs) =>
    \A a, b, c \in vs :
      MergeUpto[n][a][MergeUpto[n][b][c]] = MergeUpto[n][MergeUpto[n][a][b]][c]

LEMMA BothAssociates ==
  ASSUME Unexported = {}, NEW n \in 0..Depth, NEW us, Matching(n, us), Associates(n),
         NEW u \in us \cup {Invalid}, NEW v \in us \cup {Invalid}, NEW z \in us \cup {Invalid}
  PROVE  Both(n, u, Both(n, v, z)) = Both(n, Both(n, u, v), z)
<1>1. \A a, b \in us : MergeUpto[n][a][b] # Invalid
  <2> TAKE a, b \in us
  <2>1. MergesTo(n, us, a, b, MergeUpto[n][a][b])
    BY MatchingMerge
  <2> QED BY <2>1, KindsAre DEF MergesTo
<1>2. CASE u = Invalid \/ v = Invalid \/ z = Invalid
  BY <1>1, <1>2 DEF Both
<1>3. CASE u # Invalid /\ v # Invalid /\ z # Invalid
  <2>1. MergeUpto[n][u][MergeUpto[n][v][z]] = MergeUpto[n][MergeUpto[n][u][v]][z]
    BY <1>3 DEF Associates
  <2> QED BY <1>1, <1>3, <2>1 DEF Both
<1> QED BY <1>2, <1>3

LEMMA MergeAssociates ==
  ASSUME Unexported = {}
  PROVE  \A n \in 0..Depth : Associates(n)
<1> DEFINE T == {n \in Nat : n <= Depth => Associates(n)}
<1>1. ASSUME NEW n \in 0..Depth, NEW vs, Matching(n, vs), NEW a \in vs, NEW b \in vs, NEW c \in vs,
             n # 0 => Associates(n - 1),
             NEW ab, ab = MergeUpto[n][a][b], NEW bc, bc = MergeUpto[n][b][c],
             NEW l, l = MergeUpto[n][a][bc], NEW r, r = MergeUpto[n][ab][c]
      PROVE  l = r
  <2>1. /\ a \in Upto[n] /\ ab \in Upto[n] /\ ab.kind = a.kind /\ b.kind = a.kind
        /\ IsNil(a) => ab = b
        /\ a.kind \in Scalars /\ ~IsNil(a) => ab = a
        /\ a.kind \notin Scalars => Mixes(n, ab, a, b) /\ (Holds(a) => Holds(ab))
    <3>1. MergesTo(n, vs, a, b, ab)
      BY <1>1, MatchingMerge
    <3> QED BY <3>1 DEF MergesTo
  <2>2. b.kind \notin Scalars => Mixes(n, bc, b, c)
    <3>1. MergesTo(n, vs, b, c, bc)
      BY <1>1, MatchingMerge
    <3> QED BY <3>1 DEF MergesTo
  <2>3. Matching(n, vs \cup {bc}) /\ Matching(n, vs \cup {ab})
    BY <1>1, MergesMatch DEF StaysMatching
  <2>4. /\ l \in Upto[n] /\ l.kind = a.kind
        /\ IsNil(a) => l = bc
        /\ a.kind \in Scalars /\ ~IsNil(a) => l = a
        /\ a.kind \notin Scalars => Mixes(n, l, a, bc) /\ (Holds(a) => Holds(l))
    <3>1. a \in vs \cup {bc} /\ bc \in vs \cup {bc}
      OBVIOUS
    <3>2. MergesTo(n, vs \cup {bc}, a, bc, l)
      BY <1>1, <2>3, <3>1, MatchingMerge
    <3> QED BY <3>2 DEF MergesTo
  <2>5. /\ r \in Upto[n] /\ r.kind = ab.kind
        /\ ab.kind \in Scalars /\ ~IsNil(ab) => r = ab
        /\ ab.kind \notin Scalars => Mixes(n, r, ab, c) /\ (Holds(ab) => Holds(r))
    <3>1. ab \in vs \cup {ab} /\ c \in vs \cup {ab}
      OBVIOUS
    <3>2. MergesTo(n, vs \cup {ab}, ab, c, r)
      BY <1>1, <2>3, <3>1, MatchingMerge
    <3> QED BY <3>2 DEF MergesTo
  <2>6. CASE IsNil(a)
    BY <1>1, <2>1, <2>4, <2>6
  <2>7. CASE ~IsNil(a) /\ a.kind \in Scalars
    BY <2>1, <2>4, <2>5, <2>7
  <2>8. CASE ~IsNil(a) /\ a.kind \notin Scalars
    <3>1. Holds(a)
      <4>1. a.kind \in Composite \cup {"scalar"}
        BY <2>1, KindsAre
      <4> QED BY <2>8, <4>1 DEF IsNil, Holds, Scalars
    <3>2. n - 1 \in 0..Depth /\ n # 0
      <4>1. a \in Outcomes(n)
        BY <2>1 DEF Outcomes
      <4> QED BY <3>1, <4>1, NodeIs, ValuesAssumption
    <3>3. Holds(l) /\ Holds(r)
      BY <2>1, <2>4, <2>5, <2>8, <3>1
    <3>4. ASSUME NEW x \in Segments PROVE l.at[x] = r.at[x]
      <4> DEFINE u == Part(a, x)
                 v == Part(b, x)
                 z == Part(c, x)
                 us == Ats(vs, x)
      <4>1. /\ Part(bc, x) = Both(n - 1, v, z) /\ Part(ab, x) = Both(n - 1, u, v)
            /\ Part(l, x) = Both(n - 1, u, Part(bc, x)) /\ Part(r, x) = Both(n - 1, Part(ab, x), z)
        BY <2>1, <2>2, <2>4, <2>5, <2>8 DEF Mixes
      <4>2. u \in us \cup {Invalid} /\ v \in us \cup {Invalid} /\ z \in us \cup {Invalid}
        BY DEF Part, Ats
      <4>3. l.at[x] = Part(l, x) /\ r.at[x] = Part(r, x)
        BY <3>3 DEF Part, Segs
      <4> HIDE DEF u, v, z
      <4>4. CASE us # {}
        <5>1. Matching(n - 1, us)
          BY <1>1, <3>2, <4>4, MatchingParts
        <5> HIDE DEF us
        <5>2. Associates(n - 1)
          BY <1>1, <3>2
        <5>3. Both(n - 1, u, Both(n - 1, v, z)) = Both(n - 1, Both(n - 1, u, v), z)
          BY <3>2, <4>2, <5>1, <5>2, BothAssociates
        <5> QED BY <4>1, <4>3, <5>3
      <4>5. CASE us = {}
        <5>1. u = Invalid /\ v = Invalid /\ z = Invalid
          BY <4>2, <4>5
        <5> QED BY <4>1, <4>3, <5>1 DEF Both
      <4> QED BY <4>4, <4>5
    <3>5. IsNode(l, a.kind) /\ IsNode(r, a.kind)
      BY <2>1, <2>4, <2>5, <3>3, NodesAre
    <3> QED BY <3>4, <3>5, SameNodes
  <2> QED BY <2>6, <2>7, <2>8
<1>2. 0 \in T
  BY <1>1, ValuesAssumption DEF Associates
<1>3. ASSUME NEW q \in Nat, q \in T PROVE q + 1 \in T
  <2> SUFFICES ASSUME q + 1 <= Depth PROVE Associates(q + 1)
    OBVIOUS
  <2>1. q + 1 \in 0..Depth /\ (q + 1) - 1 = q /\ Associates(q)
    BY <1>3, ValuesAssumption
  <2> QED BY <1>1, <2>1 DEF Associates
<1>4. Nat \subseteq T
  <2> HIDE DEF T
  <2> QED BY <1>2, <1>3, Induct
<1> QED BY <1>4

(* What the layers from k on merge to.                                     *)
Rest(k) == OverlayUpto[Depth][Layered(k)]

LEMMA RestIs ==
  ASSUME Unexported = {}, layers \in Stacks
  PROVE  /\ Rest(Len(layers)) = layers[Len(layers)]
         /\ \A k \in 1..(Len(layers) - 1) :
              MergeUpto[Depth][layers[k]][Rest(k + 1)] \in {Invalid, Panic, Rest(k)}
<1> DEFINE len == Len(layers)
<1>1. /\ len \in 1..MaxLayers /\ MaxLayers \in Nat /\ Depth \in 0..Depth
      /\ \A i \in 1..len : layers[i] \in Upto[Depth]
      /\ \A k : Layered(k) \in Columns(Depth)
  BY LayersAre
<1>2. Rest(len) = layers[len]
  <2>1. layers[len] # Invalid
    BY <1>1, KindsAre
  <2>2. Layered(len)[len] = layers[len] /\ There(Layered(len)) = {len}
    BY <1>1, <2>1 DEF Layered, There
  <2> QED BY <1>1, <2>2, OneAlone DEF Alone, Rest
<1>3. ASSUME NEW k \in 1..(len - 1)
      PROVE  MergeUpto[Depth][layers[k]][Rest(k + 1)] \in {Invalid, Panic, Rest(k)}
  <2> DEFINE s == layers[k]
             vs == Layered(k + 1)
             us == Layered(k)
  <2>1. s \in Upto[Depth] /\ vs \in Columns(Depth) /\ us \in Columns(Depth) /\ k \in 1..MaxLayers
    BY <1>1
  <2>2. OnTop(Depth, k, s, vs, us)
    BY <1>1, <2>1 DEF OnTop, Layered
  <2> HIDE DEF s, vs, us
  <2>3. MergeUpto[Depth][s][OverlayUpto[Depth][vs]] \in {Invalid, Panic, OverlayUpto[Depth][us]}
    BY <1>1, <2>2, MergeOverlays DEF Overlays
  <2> QED BY <2>3 DEF Rest, s, vs, us
<1> QED BY <1>2, <1>3

(* Everything merged on either way is in one set that matches.             *)
Holding(k, vs) ==
  /\ Matching(Depth, vs)
  /\ \A i \in 1..Len(layers) : layers[i] \in vs /\ (k <= i => Rest(i) \in vs)

LEMMA MergedHolding ==
  ASSUME Unexported = {}, NEW k, NEW vs, Holding(k, vs), NEW a \in vs, NEW b \in vs
  PROVE  /\ MergeUpto[Depth][a][b] \notin {Invalid, Panic}
         /\ Holding(k, vs \cup {MergeUpto[Depth][a][b]})
<1> DEFINE m == MergeUpto[Depth][a][b]
<1>1. Depth \in 0..Depth /\ Matching(Depth, vs)
  BY ValuesAssumption DEF Holding
<1>2. MergesTo(Depth, vs, a, b, m)
  BY <1>1, MatchingMerge
<1>3. m \notin {Invalid, Panic}
  BY <1>1, <1>2, KindsAre DEF MergesTo
<1>4. Matching(Depth, vs \cup {m})
  BY <1>1, MergesMatch DEF StaysMatching
<1> HIDE DEF m
<1>5. Holding(k, vs \cup {m})
  BY <1>4 DEF Holding
<1> QED BY <1>3, <1>5 DEF m

LEMMA RestsHeld ==
  ASSUME Unexported = {}, layers \in Stacks, NEW all, Matching(Depth, all),
         \A i \in 1..Len(layers) : layers[i] \in all
  PROVE  \E vs : Holding(1, vs)
<1> DEFINE len == Len(layers)
           T == {m \in Nat : m < len => \E vs : Holding(len - m, vs)}
<1>1. len \in Nat /\ len >= 1
  BY StacksAssumption
<1>2. 0 \in T
  <2>1. Rest(len) = layers[len]
    BY RestIs
  <2>2. \A i \in 1..len : len <= i => i = len
    BY <1>1
  <2>3. Holding(len, all)
    BY <2>1, <2>2 DEF Holding
  <2>4. len - 0 = len
    BY <1>1
  <2> QED BY <2>3, <2>4
<1>3. ASSUME NEW m \in Nat, m \in T PROVE m + 1 \in T
  <2> SUFFICES ASSUME m + 1 < len PROVE \E vs : Holding(len - (m + 1), vs)
    OBVIOUS
  <2> DEFINE k == len - (m + 1)
  <2>1. k \in 1..(len - 1) /\ k + 1 = len - m /\ k + 1 \in 1..len /\ k \in 1..len /\ m < len
    BY <1>1
  <2>2. PICK vs : Holding(k + 1, vs)
    BY <1>3, <2>1
  <2> HIDE DEF k
  <2>3. layers[k] \in vs /\ Rest(k + 1) \in vs
    BY <2>1, <2>2 DEF Holding
  <2> DEFINE r == MergeUpto[Depth][layers[k]][Rest(k + 1)]
  <2>4. r \in {Invalid, Panic, Rest(k)}
    BY <2>1, RestIs
  <2>5. r \notin {Invalid, Panic} /\ Holding(k + 1, vs \cup {r})
    BY <2>2, <2>3, MergedHolding
  <2>6. r = Rest(k)
    BY <2>4, <2>5
  <2> HIDE DEF r
  <2>7. Holding(k, vs \cup {r})
    <3>1. \A i \in 1..len : k <= i => i = k \/ k + 1 <= i
      BY <2>1
    <3> QED BY <2>5, <2>6, <3>1 DEF Holding
  <2> QED BY <2>7 DEF k
<1>4. Nat \subseteq T
  <2> HIDE DEF T
  <2> QED BY <1>2, <1>3, Induct
<1>5. len - 1 \in T /\ len - 1 < len /\ len - (len - 1) = 1
  BY <1>1, <1>4
<1> QED BY <1>5

(* From the top down: what j layers have given, on top of what the others  *)
(* give, is what they all give.                                            *)
Descends(j, vs) ==
  /\ Holding(1, vs) /\ TopDown[j] \in vs
  /\ Rest(1) = IF j = Len(layers) THEN TopDown[j] ELSE MergeUpto[Depth][TopDown[j]][Rest(j + 1)]

LEMMA DescendsOne ==
  ASSUME Unexported = {}, layers \in Stacks, NEW vs, Holding(1, vs)
  PROVE  Descends(1, vs)
<1>1. Len(layers) \in Nat \ {0}
  BY StacksAssumption
<1>2. TopDown[1] = layers[1]
  BY <1>1, TopDownIs
<1>3. layers[1] \in vs
  BY <1>1 DEF Holding
<1>4. CASE Len(layers) = 1
  <2>1. Rest(1) = layers[1]
    BY <1>4, RestIs
  <2> QED BY <1>2, <1>3, <1>4, <2>1 DEF Descends
<1>5. CASE Len(layers) # 1
  <2>1. 1 \in 1..(Len(layers) - 1) /\ 1 + 1 \in 1..Len(layers) /\ 1 <= 1 + 1
    <3> DEFINE len == Len(layers)
    <3>1. len \in Nat /\ len # 0 /\ len # 1
      BY <1>1, <1>5
    <3> HIDE DEF len
    <3>2. 1 \in 1..(len - 1) /\ 1 + 1 \in 1..len /\ 1 <= 1 + 1
      BY <3>1
    <3> QED BY <3>2 DEF len
  <2>2. Rest(1 + 1) \in vs
    BY <2>1 DEF Holding
  <2>3. MergeUpto[Depth][layers[1]][Rest(1 + 1)] \notin {Invalid, Panic}
    BY <1>3, <2>2, MergedHolding
  <2>4. MergeUpto[Depth][layers[1]][Rest(1 + 1)] = Rest(1)
    BY <2>1, <2>3, RestIs
  <2> QED BY <1>2, <1>3, <1>5, <2>4 DEF Descends
<1> QED BY <1>4, <1>5

LEMMA DescendsNext ==
  ASSUME Unexported = {}, layers \in Stacks, NEW j \in 1..Len(layers), j # Len(layers),
         NEW vs, Descends(j, vs)
  PROVE  \E us : Descends(j + 1, us)
<1> DEFINE len == Len(layers)
           a == TopDown[j]
           b == layers[j + 1]
           m == MergeUpto[Depth][a][b]
           us == vs \cup {m}
<1>1. /\ len \in Nat \ {0} /\ j + 1 \in 1..len /\ j + 1 # 1 /\ (j + 1) - 1 = j /\ j \in Nat
      /\ 1 <= j + 1 /\ Depth \in 0..Depth
  BY StacksAssumption, ValuesAssumption
<1>2. TopDown[j + 1] = m
  BY <1>1, TopDownIs DEF MergeValue
<1>3. Holding(1, vs) /\ a \in vs /\ Rest(1) = MergeUpto[Depth][a][Rest(j + 1)]
  BY DEF Descends
<1>4. b \in vs /\ Rest(j + 1) \in vs
  BY <1>1, <1>3 DEF Holding
<1>5. Holding(1, us)
  BY <1>3, <1>4, MergedHolding
<1> HIDE DEF a, b, us
<1>6. CASE j + 1 = len
  <2>1. Rest(j + 1) = b
    BY <1>6, RestIs DEF b
  <2>2. Descends(j + 1, us)
    BY <1>2, <1>3, <1>5, <1>6, <2>1 DEF Descends, us
  <2> QED BY <2>2
<1>7. CASE j + 1 # len
  <2> DEFINE k == j + 1
  <2>1. k \in 1..(len - 1) /\ k + 1 \in 1..len /\ 1 <= k + 1
    BY <1>1, <1>7
  <2> HIDE DEF k
  <2>2. Rest(k + 1) \in vs
    BY <1>3, <2>1 DEF Holding
  <2>3. MergeUpto[Depth][b][Rest(k + 1)] = Rest(k)
    <3>1. MergeUpto[Depth][b][Rest(k + 1)] \notin {Invalid, Panic}
      BY <1>3, <1>4, <2>2, MergedHolding
    <3>2. MergeUpto[Depth][b][Rest(k + 1)] \in {Invalid, Panic, Rest(k)}
      BY <2>1, RestIs DEF b, k
    <3> QED BY <3>1, <3>2
  <2>4. MergeUpto[Depth][a][MergeUpto[Depth][b][Rest(k + 1)]] = MergeUpto[Depth][m][Rest(k + 1)]
    <3>1. Matching(Depth, vs)
      BY <1>3 DEF Holding
    <3>2. Associates(Depth)
      BY <1>1, MergeAssociates
    <3> QED BY <1>3, <1>4, <2>2, <3>1, <3>2 DEF Associates
  <2>5. Rest(1) = MergeUpto[Depth][m][Rest(k + 1)]
    BY <1>3, <2>3, <2>4 DEF k
  <2>6. TopDown[k] = m /\ k # len
    BY <1>2, <1>7 DEF k
  <2> HIDE DEF m
  <2>7. Descends(k, us)
    BY <1>5, <2>5, <2>6 DEF Descends, us
  <2> QED BY <2>7 DEF k
<1> QED BY <1>6, <1>7

LEMMA TopDownIsRest ==
  ASSUME Unexported = {}, layers \in Stacks, NEW vs, Holding(1, vs)
  PROVE  Rest(1) = TopDown[Len(layers)]
<1> DEFINE T == {m \in Nat : m + 1 <= Len(layers) => \E us : Descends(m + 1, us)}
<1>1. Len(layers) \in Nat /\ Len(layers) >= 1
  BY StacksAssumption
<1>2. 0 \in T
  BY DescendsOne
<1>3. ASSUME NEW m \in Nat, m \in T PROVE m + 1 \in T
  <2> SUFFICES ASSUME (m + 1) + 1 <= Len(layers) PROVE \E us : Descends((m + 1) + 1, us)
    OBVIOUS
  <2> DEFINE j == m + 1
  <2>1. j \in 1..Len(layers) /\ j # Len(layers)
    BY <1>1
  <2>2. PICK us : Descends(j, us)
    BY <1>3, <2>1
  <2> HIDE DEF j
  <2>3. \E ws : Descends(j + 1, ws)
    BY <2>1, <2>2, DescendsNext
  <2> QED BY <2>3 DEF j
<1>4. Nat \subseteq T
  <2> HIDE DEF T
  <2> QED BY <1>2, <1>3, Induct
<1>5. Len(layers) - 1 \in T /\ (Len(layers) - 1) + 1 = Len(layers)
  BY <1>1, <1>4
<1>6. \E us : Descends(Len(layers), us)
  BY <1>1, <1>5
<1> QED BY <1>6 DEF Descends

LEMMA Regrouped ==
  ASSUME Unexported = {}, \A s \in Stacks : FitTogether(s), LayeringInv
  PROVE  RegroupingIsHarmless
<1> DEFINE all == {layers[i] : i \in DOMAIN layers}
<1> SUFFICES ASSUME Complete, OneTypeUpto[Depth][all] PROVE merged = TopDown[Len(layers)]
  BY DEF RegroupingIsHarmless
<1>1. layers \in Stacks /\ merged = Rest(1)
  BY DEF LayeringInv, Complete, Rest
<1>2. DOMAIN layers = 1..Len(layers) /\ \A i \in 1..Len(layers) : layers[i] \in Upto[Depth]
  BY <1>1, StacksAssumption
<1>3. Matching(Depth, all)
  <2>1. FitUpto[Depth][all]
    BY <1>1 DEF FitTogether
  <2>2. all \in SUBSET Upto[Depth]
    BY <1>2
  <2> QED BY <2>1, <2>2 DEF Matching
<1>4. \A i \in 1..Len(layers) : layers[i] \in all
  BY <1>2
<1> HIDE DEF all
<1>5. \E vs : Holding(1, vs)
  BY <1>1, <1>3, <1>4, RestsHeld
<1> QED BY <1>1, <1>5, TopDownIsRest

(* Merging values of one type throughout is associative, so that it does   *)
(* not matter from which end a stack of snapshots is merged, however many  *)
(* there are.                                                              *)
THEOREM MergingEitherWay ==
  ASSUME Unexported = {}, \A s \in Stacks : FitTogether(s)
  PROVE  Spec => []RegroupingIsHarmless
<1>1. Init => LayeringInv
  BY LayeringInit
<1>2. LayeringInv /\ [Next]_vars => LayeringInv'
  BY LayeringStep
<1>3. LayeringInv => RegroupingIsHarmless
  BY Regrouped
<1> QED BY <1>1, <1>2, <1>3, PTL DEF Spec

-----------------------------------------------------------------------------
(* The descriptors of decoded values.                                      *)
DescribedAt(n) ==
  DescribeUpto[n] =
    [v \in Outcomes(n) |->
                IF v.kind = "iface" /\ Holds(v) THEN DescribeUpto[n - 1][Part(v, Elem)]
                ELSE IF v.kind \in {"iface", "invalid"} THEN {}
                ELSE IF v.kind = "map" /\ Segs(v) # {}
                THEN UNION {{Beneath(x, d) : d \in DescribeUpto[n - 1][v.at[x]]} : x \in Segs(v)}
                ELSE IF v.kind = "slice" THEN {SliceDescriptor(<< >>, ElementType(v))}
                ELSE {FieldDescriptor(<< >>, TypeName(v))}]

LEMMA DescribeUptoIs == \A n \in 0..Depth : DescribedAt(n)
<1> DEFINE B(n, y) ==
             [v \in Outcomes(n) |->
                IF v.kind = "iface" /\ Holds(v) THEN y[Part(v, Elem)]
                ELSE IF v.kind \in {"iface", "invalid"} THEN {}
                ELSE IF v.kind = "map" /\ Segs(v) # {}
                THEN UNION {{Beneath(x, d) : d \in y[v.at[x]]} : x \in Segs(v)}
                ELSE IF v.kind = "slice" THEN {SliceDescriptor(<< >>, ElementType(v))}
                ELSE {FieldDescriptor(<< >>, TypeName(v))}]
           Out(f, m) == f = [n \in 0..m |-> B(n, f[n - 1])]
           T == {m \in Nat : \E f : Out(f, m)}
<1>1. \A y, z : B(0, y) = B(0, z)
  <2>1. \A v \in Outcomes(0) : ~Holds(v) /\ Segs(v) = {}
    BY LeafIs
  <2> QED BY <2>1
<1>2. DescribeUpto = CHOOSE f : Out(f, Depth)
  BY DEF DescribeUpto
<1> HIDE DEF B
<1>3. 0 \in T
  <2> DEFINE f == [n \in 0..0 |-> B(0, 0)]
  <2>1. \A n \in 0..0 : f[n] = B(n, f[n - 1])
    BY <1>1
  <2>2. Out(f, 0)
    BY <2>1
  <2> QED BY <2>2
<1>4. ASSUME NEW m \in Nat, m \in T PROVE m + 1 \in T
  <2>1. PICK f : Out(f, m)
    BY <1>4
  <2> DEFINE g == [n \in 0..(m + 1) |-> IF n = m + 1 THEN B(m + 1, f[m]) ELSE f[n]]
  <2>2. ASSUME NEW n \in 0..(m + 1) PROVE g[n] = B(n, g[n - 1])
    <3>1. CASE n = m + 1
      BY <3>1
    <3>2. CASE n # m + 1 /\ n # 0
      <4>1. n \in 0..m /\ n - 1 \in 0..(m + 1) /\ n - 1 # m + 1
        BY <3>2
      <4>2. g[n] = f[n] /\ g[n - 1] = f[n - 1]
        BY <3>2, <4>1
      <4>3. f[n] = B(n, f[n - 1])
        BY <2>1, <4>1
      <4> QED BY <4>2, <4>3
    <3>3. CASE n = 0
      <4>1. g[n] = f[n] /\ f[n] = B(n, f[n - 1])
        BY <2>1, <3>3
      <4>2. B(n, f[n - 1]) = B(n, g[n - 1])
        BY <1>1, <3>3
      <4> QED BY <4>1, <4>2
    <3> QED BY <3>1, <3>2, <3>3
  <2>3. Out(g, m + 1)
    BY <2>2
  <2> HIDE DEF Out, g
  <2> QED BY <2>3
<1>5. Depth \in T
  <2> HIDE DEF T
  <2> QED BY <1>3, <1>4, Induct, ValuesAssumption
<1>6. Out(DescribeUpto, Depth)
  <2> HIDE DEF Out
  <2> QED BY <1>2, <1>5
<1>7. \A n \in 0..Depth : DescribeUpto[n] = B(n, DescribeUpto[n - 1])
  BY <1>6
<1> QED BY <1>7 DEF B, DescribedAt

DecodedAt(n) ==
  Decoded[n] =
    {Scalar(k) : k \in Numbers} \cup {Nil(kind) : kind \in {"iface", "map", "slice"}}
      \cup IF n = 0 THEN {}
           ELSE {v \in Nodes(Decoded[n - 1]) :
                  /\ v.kind \in {"iface", "map", "slice"}
                  /\ v.kind = "iface" => Segs(v) = {Elem} /\ v.at[Elem].kind # "iface"}

LEMMA DecodedIs == \A n \in 0..Depth : DecodedAt(n)
<1> DEFINE B(n, y) ==
             {Scalar(k) : k \in Numbers} \cup {Nil(kind) : kind \in {"iface", "map", "slice"}}
      \cup IF n = 0 THEN {}
           ELSE {v \in Nodes(y) :
                  /\ v.kind \in {"iface", "map", "slice"}
                  /\ v.kind = "iface" => Segs(v) = {Elem} /\ v.at[Elem].kind # "iface"}
           Out(f, m) == f = [n \in 0..m |-> B(n, f[n - 1])]
           T == {m \in Nat : \E f : Out(f, m)}
<1>1. \A y, z : B(0, y) = B(0, z)
  OBVIOUS
<1>2. Decoded = CHOOSE f : Out(f, Depth)
  BY DEF Decoded
<1> HIDE DEF B
<1>3. 0 \in T
  <2> DEFINE f == [n \in 0..0 |-> B(0, 0)]
  <2>1. \A n \in 0..0 : f[n] = B(n, f[n - 1])
    BY <1>1
  <2>2. Out(f, 0)
    BY <2>1
  <2> QED BY <2>2
<1>4. ASSUME NEW m \in Nat, m \in T PROVE m + 1 \in T
  <2>1. PICK f : Out(f, m)
    BY <1>4
  <2> DEFINE g == [n \in 0..(m + 1) |-> IF n = m + 1 THEN B(m + 1, f[m]) ELSE f[n]]
  <2>2. ASSUME NEW n \in 0..(m + 1) PROVE g[n] = B(n, g[n - 1])
    <3>1. CASE n = m + 1
      BY <3>1
    <3>2. CASE n # m + 1 /\ n # 0
      <4>1. n \in 0..m /\ n - 1 \in 0..(m + 1) /\ n - 1 # m + 1
        BY <3>2
      <4>2. g[n] = f[n] /\ g[n - 1] = f[n - 1]
        BY <3>2, <4>1
      <4>3. f[n] = B(n, f[n - 1])
        BY <2>1, <4>1
      <4> QED BY <4>2, <4>3
    <3>3. CASE n = 0
      <4>1. g[n] = f[n] /\ f[n] = B(n, f[n - 1])
        BY <2>1, <3>3
      <4>2. B(n, f[n - 1]) = B(n, g[n - 1])
        BY <1>1, <3>3
      <4> QED BY <4>1, <4>2
    <3> QED BY <3>1, <3>2, <3>3
  <2>3. Out(g, m + 1)
    BY <2>2
  <2> HIDE DEF Out, g
  <2> QED BY <2>3
<1>5. Depth \in T
  <2> HIDE DEF T
  <2> QED BY <1>3, <1>4, Induct, ValuesAssumption
<1>6. Out(Decoded, Depth)
  <2> HIDE DEF Out
  <2> QED BY <1>2, <1>5
<1>7. \A n \in 0..Depth : Decoded[n] = B(n, Decoded[n - 1])
  BY <1>6
<1> QED BY <1>7 DEF B, DecodedAt

(* The descriptors of a value are those of its parts.                      *)
LEMMA DescribesAs ==
  ASSUME NEW n \in 0..Depth, NEW v \in Outcomes(n)
  PROVE  DescribeUpto[n][v] =
           IF v.kind = "iface" /\ Holds(v) THEN DescribeUpto[n - 1][Part(v, Elem)]
           ELSE IF v.kind \in {"iface", "invalid"} THEN {}
           ELSE IF v.kind = "map" /\ Segs(v) # {}
           THEN UNION {{Beneath(x, d) : d \in DescribeUpto[n - 1][v.at[x]]} : x \in Segs(v)}
           ELSE IF v.kind = "slice" THEN {SliceDescriptor(End, ElementType(v))}
           ELSE {FieldDescriptor(End, TypeName(v))}
<1> DEFINE B(u) ==
             IF u.kind = "iface" /\ Holds(u) THEN DescribeUpto[n - 1][Part(u, Elem)]
             ELSE IF u.kind \in {"iface", "invalid"} THEN {}
             ELSE IF u.kind = "map" /\ Segs(u) # {}
             THEN UNION {{Beneath(x, d) : d \in DescribeUpto[n - 1][u.at[x]]} : x \in Segs(u)}
             ELSE IF u.kind = "slice" THEN {SliceDescriptor(<< >>, ElementType(u))}
             ELSE {FieldDescriptor(<< >>, TypeName(u))}
<1>1. DescribeUpto[n] = [u \in Outcomes(n) |-> B(u)]
  BY DescribeUptoIs DEF DescribedAt
<1> HIDE DEF B
<1>2. DescribeUpto[n][v] = B(v)
  BY <1>1
<1> QED BY <1>2 DEF B, End

(* What a map describes is a descriptor of a part, under its key.          *)
LEMMA DescribesParts ==
  ASSUME NEW n \in 0..Depth, NEW v \in Outcomes(n), v.kind = "map", Segs(v) # {}
  PROVE  /\ \A d \in DescribeUpto[n][v] :
              \E x \in Segs(v) : \E e \in DescribeUpto[n - 1][v.at[x]] : d = Beneath(x, e)
         /\ \A x \in Segs(v) : \A e \in DescribeUpto[n - 1][v.at[x]] :
              Beneath(x, e) \in DescribeUpto[n][v]
<1> DEFINE S(x) == {Beneath(x, d) : d \in DescribeUpto[n - 1][v.at[x]]}
<1>1. DescribeUpto[n][v] = UNION {S(x) : x \in Segs(v)}
  BY DescribesAs
<1>2. ASSUME NEW d \in DescribeUpto[n][v]
      PROVE  \E x \in Segs(v) : d \in S(x)
  <2> HIDE DEF S
  <2> QED BY <1>1
<1>3. ASSUME NEW x \in Segs(v), NEW e \in S(x)
      PROVE  e \in DescribeUpto[n][v]
  <2> HIDE DEF S
  <2> QED BY <1>1, <1>3
<1> QED BY <1>2, <1>3

(* What a decoded value is made of.                                        *)
LEMMA DecodedUpto == \A n \in 0..Depth : Decoded[n] \subseteq Upto[n]
<1> DEFINE T == {n \in Nat : n <= Depth => Decoded[n] \subseteq Upto[n]}
           Ground == {Scalar(k) : k \in Numbers} \cup {Nil(kind) : kind \in {"iface", "map", "slice"}}
<1>1. Ground \subseteq Leaves
  BY DEF Leaves, Nilable
<1>2. 0 \in T
  <2>1. 0 \in 0..Depth
    BY ValuesAssumption
  <2>2. Decoded[0] = Ground
    BY <2>1, DecodedIs DEF DecodedAt
  <2>3. Upto[0] = Leaves
    BY <2>1, UptoIs DEF RanksOf
  <2> QED BY <1>1, <2>2, <2>3
<1>3. ASSUME NEW m \in Nat, m \in T PROVE m + 1 \in T
  <2> DEFINE n == m + 1
  <2> SUFFICES ASSUME n <= Depth PROVE Decoded[n] \subseteq Upto[n]
    OBVIOUS
  <2>1. n \in 0..Depth /\ n - 1 = m /\ m \in 0..Depth /\ n # 0
    BY ValuesAssumption
  <2>2. Decoded[m] \subseteq Upto[m]
    BY <1>3, <2>1
  <2> HIDE DEF n
  <2>3. Decoded[n] \subseteq Ground \cup Nodes(Decoded[m])
    BY <2>1, DecodedIs DEF DecodedAt
  <2>4. Nodes(Decoded[m]) \subseteq Nodes(Upto[m])
    BY <2>2 DEF Nodes
  <2>5. Upto[n] = Leaves \cup Nodes(Upto[m])
    BY <2>1, UptoIs DEF RanksOf
  <2> HIDE DEF Ground
  <2> QED BY <1>1, <2>3, <2>4, <2>5
<1>4. Nat \subseteq T
  <2> HIDE DEF T
  <2> QED BY <1>2, <1>3, Induct
<1> QED BY <1>4

DecodedKinds == {"iface", "map", "slice"}

LEMMA DecodedParts ==
  ASSUME NEW n \in 0..Depth, NEW v \in Decoded[n]
  PROVE  /\ v \in Upto[n] /\ v \in Outcomes(n) /\ v.kind \in DecodedKinds \cup {"scalar"}
         /\ v.kind # "scalar" => Holds(v) \/ (~Holds(v) /\ IsNil(v))
         /\ v.kind = "scalar" => ~Holds(v)
         /\ Holds(v) => n - 1 \in 0..Depth
         /\ \A x \in Segs(v) : v.at[x] \in Decoded[n - 1]
         /\ v.kind = "iface" /\ Holds(v) => Segs(v) = {Elem} /\ v.at[Elem].kind # "iface"
<1>1. v \in Upto[n] /\ v \in Outcomes(n)
  BY DecodedUpto DEF Outcomes
<1>2. CASE v \in {Scalar(k) : k \in Numbers} \cup {Nil(kind) : kind \in {"iface", "map", "slice"}}
  <2>1. v.kind \in DecodedKinds \cup {"scalar"} /\ ~Holds(v) /\ (v.kind # "scalar" => IsNil(v))
    BY <1>2 DEF Scalar, Nil, Holds, IsNil, DecodedKinds, Composite, Nilable
  <2>2. Segs(v) = {}
    BY <2>1 DEF Segs
  <2> QED BY <1>1, <2>1, <2>2
<1>3. CASE v \notin {Scalar(k) : k \in Numbers} \cup {Nil(kind) : kind \in {"iface", "map", "slice"}}
  <2>1. /\ n # 0 /\ v \in Nodes(Decoded[n - 1]) /\ v.kind \in DecodedKinds
        /\ v.kind = "iface" => Segs(v) = {Elem} /\ v.at[Elem].kind # "iface"
    BY <1>3, DecodedIs DEF DecodedAt, DecodedKinds
  <2>2. v.nil = FALSE /\ v.at \in [Segments -> Decoded[n - 1] \cup {Invalid}] /\ v.kind \in Composite
    BY <2>1 DEF Nodes
  <2>3. Holds(v) /\ v.kind # "scalar"
    BY <2>1, <2>2 DEF Holds, DecodedKinds
  <2>4. Segs(v) = {x \in Segments : v.at[x] # Invalid}
    BY <2>3 DEF Segs
  <2>5. \A x \in Segs(v) : v.at[x] \in Decoded[n - 1]
    BY <2>2, <2>4
  <2>6. n - 1 \in 0..Depth
    BY <2>1, ValuesAssumption
  <2> QED BY <1>1, <2>1, <2>3, <2>5, <2>6
<1> QED BY <1>2, <1>3

(* A node over decoded parts, of the kinds there are, is decoded.          *)
LEMMA DecodedNode ==
  ASSUME NEW n \in 0..Depth, n - 1 \in 0..Depth, NEW m, NEW kind \in {"iface", "map"}, IsNode(m, kind),
         \A x \in Segments : m.at[x] \in Decoded[n - 1] \cup {Invalid},
         kind = "iface" => Segs(m) = {Elem} /\ m.at[Elem].kind # "iface"
  PROVE  m \in Decoded[n]
<1>1. /\ m = [kind |-> kind, nil |-> FALSE, at |-> m.at] /\ m.at = [x \in Segments |-> m.at[x]]
  BY DEF IsNode
<1>2. m.at \in [Segments -> Decoded[n - 1] \cup {Invalid}]
  BY <1>1
<1>3. m \in Nodes(Decoded[n - 1]) /\ m.kind = kind
  <2> DEFINE f == m.at
             P == Decoded[n - 1] \cup {Invalid}
  <2>1. f \in [Segments -> P] /\ m = [kind |-> kind, nil |-> FALSE, at |-> f] /\ kind \in Composite
    BY <1>1, <1>2 DEF Composite, Nilable
  <2> HIDE DEF f, P
  <2>2. m \in [kind : Composite, nil : {FALSE}, at : [Segments -> P]] /\ m.kind = kind
    BY <2>1
  <2> QED BY <2>2 DEF Nodes, P
<1>4. n # 0
  OBVIOUS
<1> QED BY <1>3, <1>4, DecodedIs DEF DecodedAt

(* Merging decoded values gives decoded ones, of the kind one of them has. *)
StaysDecoded(n, s, w) ==
  MergeUpto[n][s][w] \notin {Panic, Invalid} =>
    MergeUpto[n][s][w] \in Decoded[n] /\ MergeUpto[n][s][w].kind \in {s.kind, w.kind}

MergesDecoded(n) ==
  \A s \in Decoded[n] : \A w \in Decoded[n] \cup {Invalid} : StaysDecoded(n, s, w)

LEMMA AtDecoded ==
  ASSUME NEW n \in 0..Depth, n - 1 \in 0..Depth, NEW s \in Decoded[n], NEW w \in Decoded[n] \cup {Invalid}, NEW x
  PROVE  /\ At(w, s, x) \in Decoded[n - 1] \cup {Invalid}
         /\ s.kind = "iface" => At(w, s, x).kind # "iface"
<1>1. CASE At(w, s, x) = Invalid
  BY <1>1 DEF Invalid
<1>2. CASE At(w, s, x) # Invalid
  <2>1. Alike(s, w) /\ x \in Segs(w) /\ At(w, s, x) = w.at[x]
    BY <1>2 DEF At, Part
  <2>2. Holds(w) /\ w # Invalid
    BY <2>1 DEF Segs, Holds, Invalid, Composite, Nilable
  <2>3. w.at[x] \in Decoded[n - 1] /\ (w.kind = "iface" => Segs(w) = {Elem} /\ w.at[Elem].kind # "iface")
    BY <2>1, <2>2, DecodedParts
  <2> QED BY <2>1, <2>3 DEF Alike
<1> QED BY <1>1, <1>2

LEMMA MergeDecodes ==
  ASSUME Unexported = {}
  PROVE  \A n \in 0..Depth : MergesDecoded(n)
<1> DEFINE T == {n \in Nat : n <= Depth => MergesDecoded(n)}
<1>1. ASSUME NEW n \in 0..Depth, n # 0 => MergesDecoded(n - 1),
             NEW s \in Decoded[n], NEW w \in Decoded[n] \cup {Invalid}
      PROVE  StaysDecoded(n, s, w)
  <2> DEFINE m == MergeUpto[n][s][w]
  <2> SUFFICES ASSUME m \notin {Panic, Invalid}
               PROVE  m \in Decoded[n] /\ m.kind \in {s.kind, w.kind}
    BY DEF StaysDecoded
  <2>1. /\ s \in Upto[n] /\ s \in Outcomes(n) /\ w \in Outcomes(n) /\ s.kind \in DecodedKinds \cup {"scalar"}
        /\ s.kind # "scalar" => Holds(s) \/ IsNil(s)
    BY DecodedParts DEF Outcomes
  <2>2. m = MergeBy(n, MergeUpto[n - 1], s, w)
    BY <2>1, MergedIs
  <2>3. CASE GivesWay(s)
    <3>1. m = w
      BY <2>1, <2>2, <2>3, CloneIs DEF MergeBy
    <3> QED BY <3>1
  <2>4. CASE ~GivesWay(s) /\ s.kind \in Scalars
    <3>1. m = s
      BY <2>1, <2>2, <2>4, CloneIs DEF MergeBy, Scalars, ByParts
    <3> QED BY <3>1
  <2>5. CASE ~GivesWay(s) /\ s.kind \notin Scalars
    <3>1. Holds(s) /\ s.kind \in {"iface", "map"}
      BY <2>1, <2>5 DEF GivesWay, Scalars, DecodedKinds
    <3>2. n - 1 \in 0..Depth /\ n # 0
      BY <3>1, DecodedParts
    <3>3. MergeFits(n, s, w)
      BY <2>1, <2>5, <3>1, <3>2, MergedPart
    <3>4. /\ Holds(m) /\ m.kind = s.kind /\ IsNode(m, s.kind)
          /\ \A x \in Segs(s) : At(w, s, x) # Invalid \/ s.kind # "map" =>
               /\ MergeUpto[n - 1][s.at[x]][At(w, s, x)] \notin {Invalid, Panic}
               /\ m.at[x] = MergeUpto[n - 1][s.at[x]][At(w, s, x)]
          /\ \A x \in Segments \ Segs(s) :
               m.at[x] = IF s.kind = "map" THEN At(w, s, x) ELSE Invalid
          /\ \A x \in Segs(s) : At(w, s, x) = Invalid /\ s.kind = "map" => m.at[x] = s.at[x]
      BY <3>3 DEF MergeFits
    <3> HIDE DEF m
    <3>5. \A x \in Segs(s) : s.at[x] \in Decoded[n - 1]
      BY DecodedParts
    <3>6. ASSUME NEW x \in Segs(s), At(w, s, x) # Invalid \/ s.kind # "map"
          PROVE  m.at[x] \in Decoded[n - 1] /\ m.at[x].kind \in {s.at[x].kind, At(w, s, x).kind}
      <4>1. s.at[x] \in Decoded[n - 1] /\ At(w, s, x) \in Decoded[n - 1] \cup {Invalid}
        BY <3>2, <3>5, AtDecoded
      <4>2. StaysDecoded(n - 1, s.at[x], At(w, s, x))
        BY <1>1, <3>2, <4>1 DEF MergesDecoded
      <4>3. /\ MergeUpto[n - 1][s.at[x]][At(w, s, x)] \notin {Invalid, Panic}
            /\ m.at[x] = MergeUpto[n - 1][s.at[x]][At(w, s, x)]
        BY <3>4, <3>6
      <4> QED BY <4>2, <4>3 DEF StaysDecoded
    <3>7. ASSUME NEW x \in Segments
          PROVE  m.at[x] \in Decoded[n - 1] \cup {Invalid}
      <4>1. At(w, s, x) \in Decoded[n - 1] \cup {Invalid}
        BY <3>2, AtDecoded
      <4>2. CASE x \in Segs(s) /\ (At(w, s, x) # Invalid \/ s.kind # "map")
        BY <3>6, <4>2
      <4>3. CASE x \in Segs(s) /\ ~(At(w, s, x) # Invalid \/ s.kind # "map")
        BY <3>4, <3>5, <4>3
      <4>4. CASE x \notin Segs(s)
        BY <3>4, <4>1, <4>4
      <4> QED BY <4>2, <4>3, <4>4
    <3>8. ASSUME s.kind = "iface"
          PROVE  Segs(m) = {Elem} /\ m.at[Elem].kind # "iface"
      <4>1. Segs(s) = {Elem} /\ s.at[Elem].kind # "iface"
        BY <3>1, <3>8, DecodedParts
      <4>2. Elem \in Segments
        BY <4>1 DEF Segs
      <4>3. \A x \in Segments \ {Elem} : m.at[x] = Invalid
        BY <3>4, <3>8, <4>1
      <4>4. m.at[Elem] \in Decoded[n - 1] /\ m.at[Elem].kind \in {s.at[Elem].kind, At(w, s, Elem).kind}
        BY <3>6, <3>8, <4>1
      <4>5. m.at[Elem] # Invalid
        BY <3>2, <4>4, DecodedParts DEF Outcomes, DecodedKinds, Invalid
      <4>6. Segs(m) = {Elem}
        BY <3>4, <4>2, <4>3, <4>5 DEF Segs
      <4>7. At(w, s, Elem).kind # "iface"
        BY <3>2, <3>8, AtDecoded
      <4> QED BY <4>1, <4>4, <4>6, <4>7
    <3>9. m \in Decoded[n]
      <4>1. s.kind \in {"iface", "map"} /\ IsNode(m, s.kind)
        BY <3>1, <3>4
      <4> QED BY <3>2, <3>7, <3>8, <4>1, DecodedNode
    <3> QED BY <3>4, <3>9
  <2> QED BY <2>3, <2>4, <2>5
<1>2. 0 \in T
  <2>1. 0 \in 0..Depth
    BY ValuesAssumption
  <2> QED BY <1>1, <2>1 DEF MergesDecoded
<1>3. ASSUME NEW m \in Nat, m \in T PROVE m + 1 \in T
  <2> DEFINE n == m + 1
  <2> SUFFICES ASSUME n <= Depth PROVE MergesDecoded(n)
    OBVIOUS
  <2>1. n \in 0..Depth /\ n - 1 = m
    BY ValuesAssumption
  <2>2. MergesDecoded(n - 1)
    BY <1>3, <2>1, ValuesAssumption
  <2> HIDE DEF n
  <2> QED BY <1>1, <2>1, <2>2 DEF MergesDecoded
<1>4. Nat \subseteq T
  <2> HIDE DEF T
  <2> QED BY <1>2, <1>3, Induct
<1> QED BY <1>4

(* An overlay is of the kind of one of its layers.                         *)
LEMMA KindOfOverlay ==
  ASSUME NEW n \in 0..Depth, NEW vs \in Columns(n), There(vs) # {}
  PROVE  \E i \in There(vs) : OverlayUpto[n][vs].kind = vs[i].kind
<1>1. /\ There(vs) \in SUBSET (1..MaxLayers) /\ Live(vs) \subseteq There(vs)
  BY LiveAre
<1>2. OverlayUpto[n][vs] = OverlayBy(OverlayUpto[n - 1], vs)
  BY OverlaidIs
<1>3. CASE Live(vs) = {}
  <2>1. Last(There(vs)) \in There(vs)
    BY <1>1, LastIs
  <2>2. OverlayUpto[n][vs] = vs[Last(There(vs))]
    BY <1>2, <1>3 DEF OverlayBy
  <2> QED BY <2>1, <2>2
<1>4. CASE Live(vs) # {} /\ Top(vs).kind \in Scalars
  <2>1. First(Live(vs)) \in There(vs)
    BY <1>1, <1>4, TopIs
  <2>2. OverlayUpto[n][vs] = vs[First(Live(vs))]
    BY <1>2, <1>4 DEF OverlayBy, Top, Scalars
  <2> QED BY <2>1, <2>2
<1>5. CASE Live(vs) # {} /\ Top(vs).kind \notin Scalars
  <2>1. First(Live(vs)) \in There(vs)
    BY <1>1, <1>5, TopIs
  <2>2. OverlayUpto[n][vs].kind = vs[First(Live(vs))].kind
    BY <1>5, OverlayPart DEF Top
  <2> QED BY <2>1, <2>2
<1> QED BY <1>3, <1>4, <1>5

(* Merging decoded layers, what has been merged so far is decoded.         *)
DecodedInv ==
  (\A i \in DOMAIN layers : layers[i] \in Decoded[Depth]) => merged \in Decoded[Depth] \cup {Panic}

LEMMA DecodedInit ==
  ASSUME Unexported = {}, Init
  PROVE  DecodedInv
<1>1. Depth \in 0..Depth
  BY ValuesAssumption
<1>2. layers \in Stacks /\ Len(layers) \in DOMAIN layers /\ merged = CloneValue(layers[Len(layers)])
  BY StacksAssumption DEF Init
<1>3. layers[Len(layers)] \in Outcomes(Depth)
  BY <1>2, StacksAssumption DEF Outcomes
<1>4. merged = layers[Len(layers)]
  BY <1>1, <1>2, <1>3, CloneIs DEF CloneValue
<1> QED BY <1>2, <1>4 DEF DecodedInv

LEMMA DecodedStep ==
  ASSUME Unexported = {}, LayeringInv, DecodedInv, [Next]_vars
  PROVE  DecodedInv'
<1>1. CASE MergeNext
  <2>1. /\ todo \in DOMAIN layers /\ merged # Panic /\ layers' = layers
        /\ merged' = MergeUpto[Depth][layers[todo]][merged]
    BY <1>1, StacksAssumption DEF MergeNext, LayeringInv, MergeValue
  <2> SUFFICES ASSUME \A i \in DOMAIN layers : layers[i] \in Decoded[Depth]
               PROVE  merged' \in Decoded[Depth] \cup {Panic}
    BY <2>1 DEF DecodedInv
  <2>2. layers[todo] \in Decoded[Depth] /\ merged \in Decoded[Depth] /\ Depth \in 0..Depth
    BY <2>1, ValuesAssumption DEF DecodedInv
  <2>3. StaysDecoded(Depth, layers[todo], merged)
    BY <2>2, MergeDecodes DEF MergesDecoded
  <2>4. layers[todo] \in Upto[Depth] /\ merged \in Upto[Depth]
    BY <2>2, DecodedParts
  <2>5. merged' # Invalid
    BY <2>1, <2>2, <2>4, MergeStays
  <2> QED BY <2>1, <2>3, <2>5 DEF StaysDecoded
<1>2. CASE Finished
  BY <1>2 DEF Finished, vars, DecodedInv
<1>3. CASE UNCHANGED vars
  BY <1>3 DEF vars, DecodedInv
<1> QED BY <1>1, <1>2, <1>3 DEF Next

(* The paths of a value do not depend on the depth it is taken to have.    *)
SameFlats(n) ==
  \A v \in Outcomes(n - 1) : FlattenUpto[n][v] = FlattenUpto[n - 1][v]

LEMMA FlatsAgree == \A n \in 0..Depth : n - 1 \in 0..Depth => SameFlats(n)
<1> DEFINE T == {n \in Nat : n + 1 <= Depth => SameFlats(n + 1)}
<1>1. 0 \in T
  <2> SUFFICES ASSUME 1 <= Depth PROVE SameFlats(1)
    OBVIOUS
  <2>1. 0 \in 0..Depth /\ 1 \in 0..Depth /\ 1 - 1 = 0
    BY ValuesAssumption
  <2>2. ASSUME NEW v \in Outcomes(0)
        PROVE  FlattenUpto[1][v] = FlattenUpto[0][v]
    <3>1. v \in Outcomes(1) /\ ~Holds(v)
      BY <2>1, LeafIs, OutcomesGrow
    <3> QED BY <2>1, <3>1, FlattensAs
  <2> QED BY <2>1, <2>2 DEF SameFlats
<1>2. ASSUME NEW m \in Nat, m \in T PROVE m + 1 \in T
  <2> DEFINE n == m + 1
  <2> SUFFICES ASSUME n + 1 <= Depth PROVE SameFlats(n + 1)
    OBVIOUS
  <2>1. n \in 0..Depth /\ n + 1 \in 0..Depth /\ n - 1 \in 0..Depth /\ (n + 1) - 1 = n /\ n - 1 = m
    BY ValuesAssumption
  <2>2. SameFlats(n)
    BY <1>2, <2>1, ValuesAssumption
  <2> HIDE DEF n
  <2>3. ASSUME NEW v \in Outcomes(n)
        PROVE  FlattenUpto[n + 1][v] = FlattenUpto[n][v]
    <3> DEFINE k == n + 1
               f == FlattenUpto[k - 1]
               g == FlattenUpto[n - 1]
               S(h, x) == {Join(x, q) : q \in h[v.at[x]]}
               D == {z \in Segs(v) : Settable(v, z)}
    <3>1. k \in 0..Depth /\ v \in Outcomes(k) /\ f = FlattenUpto[n]
      BY <2>1, OutcomesGrow
    <3> HIDE DEF k
    <3>2. FlattenUpto[k][v] =
            IF v.kind \in {"ptr", "iface"} /\ Holds(v) THEN f[Part(v, Elem)]
            ELSE IF Holds(v) /\ (Segs(v) # {} \/ v.kind \in {"map", "struct"})
            THEN UNION {S(f, x) : x \in D} ELSE {End}
      BY <3>1, FlattensAs
    <3>3. FlattenUpto[n][v] =
            IF v.kind \in {"ptr", "iface"} /\ Holds(v) THEN g[Part(v, Elem)]
            ELSE IF Holds(v) /\ (Segs(v) # {} \/ v.kind \in {"map", "struct"})
            THEN UNION {S(g, x) : x \in D} ELSE {End}
      BY <2>1, FlattensAs
    <3>4. Holds(v) => f[Part(v, Elem)] = g[Part(v, Elem)]
      BY <2>1, <2>2, <3>1, DynamicIs DEF SameFlats
    <3>5. ASSUME NEW x \in D PROVE S(f, x) = S(g, x)
      <4>1. v.at[x] \in Outcomes(n - 1)
        BY <2>1, PartIs
      <4>2. f[v.at[x]] = g[v.at[x]]
        BY <2>2, <3>1, <4>1 DEF SameFlats
      <4> QED BY <4>2
    <3> HIDE DEF S, f, g, D
    <3>6. UNION {S(f, x) : x \in D} = UNION {S(g, x) : x \in D}
      BY <3>5
    <3> QED BY <3>2, <3>3, <3>4, <3>6 DEF k
  <2> QED BY <2>1, <2>3 DEF SameFlats
<1>3. Nat \subseteq T
  <2> HIDE DEF T
  <2> QED BY <1>1, <1>2, Induct
<1>4. ASSUME NEW n \in 0..Depth, n - 1 \in 0..Depth PROVE SameFlats(n)
  <2>1. n - 1 \in T /\ (n - 1) + 1 = n /\ n <= Depth
    BY <1>3, <1>4, ValuesAssumption
  <2> QED BY <2>1
<1> QED BY <1>4

FlatAsWhole(n) ==
  \A v \in Outcomes(n) : v \in Outcomes(Depth) /\ FlattenUpto[Depth][v] = FlattenUpto[n][v]

LEMMA FlatsOfDepth == \A n \in 0..Depth : FlatAsWhole(n)
<1> DEFINE T == {k \in Nat : k <= Depth => FlatAsWhole(Depth - k)}
<1>1. 0 \in T
  BY ValuesAssumption DEF FlatAsWhole
<1>2. ASSUME NEW m \in Nat, m \in T PROVE m + 1 \in T
  <2> DEFINE n == Depth - m
  <2> SUFFICES ASSUME m + 1 <= Depth PROVE FlatAsWhole(Depth - (m + 1))
    OBVIOUS
  <2>1. n \in 0..Depth /\ n - 1 \in 0..Depth /\ Depth - (m + 1) = n - 1
    BY ValuesAssumption
  <2>2. FlatAsWhole(n)
    BY <1>2, ValuesAssumption
  <2>3. SameFlats(n)
    BY <2>1, FlatsAgree
  <2> HIDE DEF n
  <2>4. Outcomes(n - 1) \subseteq Outcomes(n)
    BY <2>1, OutcomesGrow
  <2>5. FlatAsWhole(n - 1)
    BY <2>2, <2>3, <2>4 DEF FlatAsWhole, SameFlats
  <2> QED BY <2>1, <2>5
<1>3. Nat \subseteq T
  <2> HIDE DEF T
  <2> QED BY <1>1, <1>2, Induct
<1>4. ASSUME NEW n \in 0..Depth PROVE FlatAsWhole(n)
  <2>1. Depth - n \in T /\ Depth - n <= Depth /\ Depth - (Depth - n) = n
    BY <1>3, ValuesAssumption
  <2> QED BY <2>1
<1> QED BY <1>4

(* Whether a descriptor is of a path, or of a slice the path leads into.   *)
Fits(d, p) == d.path = p \/ InSlice(d, p)

LEMMA FitsBeneath ==
  ASSUME NEW x \in Segments, NEW d, d.path \in Seq(Segments), NEW p \in Seq(Segments), Fits(d, p)
  PROVE  Fits(Beneath(x, d), Join(x, p))
<1>1. Beneath(x, d).path = Join(x, d.path) /\ Beneath(x, d).type = d.type
  BY DEF Beneath, Join
<1> DEFINE r == d.path
           b == Beneath(x, d)
<1>2. b.path = Join(x, r) /\ b.type = d.type /\ r = d.path /\ r \in Seq(Segments)
  BY <1>1
<1> HIDE DEF r, b
<1>3. CASE r = p
  BY <1>2, <1>3 DEF Fits, b
<1>4. CASE InSlice(d, p)
  <2>1. d.type = "slice" /\ Len(r) <= Len(p) /\ \A i \in 1..Len(r) : p[i] = r[i]
    BY <1>2, <1>4 DEF InSlice
  <2>2. Len(Join(x, r)) = Len(r) + 1 /\ Len(Join(x, p)) = Len(p) + 1
    BY <1>2 DEF Join
  <2>3. ASSUME NEW i \in 1..(Len(r) + 1) PROVE Join(x, p)[i] = Join(x, r)[i]
    <3>1. CASE i = 1
      BY <1>2, <3>1 DEF Join
    <3>2. CASE i # 1
      <4>1. i - 1 \in 1..Len(r) /\ i - 1 \in 1..Len(p)
        BY <1>2, <2>1, <3>2
      <4>2. Join(x, r)[i] = r[i - 1] /\ Join(x, p)[i] = p[i - 1]
        BY <1>2, <3>2, <4>1 DEF Join
      <4> QED BY <2>1, <4>1, <4>2
    <3> QED BY <3>1, <3>2
  <2>4. Len(Join(x, r)) <= Len(Join(x, p))
    BY <1>2, <2>1, <2>2
  <2>5. InSlice(b, Join(x, p))
    BY <1>2, <2>1, <2>2, <2>3, <2>4 DEF InSlice
  <2> QED BY <2>5 DEF Fits, b
<1> QED BY <1>2, <1>3, <1>4 DEF Fits

LEMMA SliceFits ==
  ASSUME NEW d, d.path = End, d.type = "slice", NEW p \in Seq(Segments)
  PROVE  Fits(d, p)
<1>1. Len(d.path) = 0 /\ Len(p) \in Nat
  BY DEF End
<1> QED BY <1>1 DEF Fits, InSlice

(* Each path of a decoded value leads somewhere in it, and is described    *)
(* unless that is nil.                                                     *)
IsDescribed(n, v, p) ==
  /\ Walk(n, v, p).ok
  /\ Walk(n, v, p).value.kind = "invalid" \/ \E d \in DescribeUpto[n][v] : Fits(d, p)

PathsDescribed(n) ==
  \A v \in Decoded[n] : \A p \in FlattenUpto[n][v] : IsDescribed(n, v, p)

(* Each descriptor of a decoded value is of something in it, and that or   *)
(* something inside it has a path, if it has any leaves.                   *)
IsListed(n, v, d) ==
  /\ d.path \in Seq(Segments) /\ Walk(n, v, d.path).ok
  /\ \/ FlattenUpto[Depth][Walk(n, v, d.path).value] = {}
     \/ \E p \in FlattenUpto[n][v] : Fits(d, p)

DescribedListed(n) ==
  \A v \in Decoded[n] : \A d \in DescribeUpto[n][v] : IsListed(n, v, d)

(* What a decoded value is: nil, a scalar or a slice; an interface; or a   *)
(* map.                                                                    *)
LEMMA DecodedEnds ==
  ASSUME NEW n \in 0..Depth, NEW v \in Decoded[n], ~Holds(v)
  PROVE  /\ FlattenUpto[n][v] = {End} /\ Walk(n, v, End).ok
         /\ v.kind = "iface" => Walk(n, v, End).value.kind = "invalid" /\ DescribeUpto[n][v] = {}
         /\ v.kind # "iface" => /\ DescribeUpto[n][v] # {}
                                /\ \A d \in DescribeUpto[n][v] : d.path = End
<1>1. v \in Outcomes(n) /\ v.kind \in DecodedKinds \cup {"scalar"} /\ Segs(v) = {}
  BY DecodedParts DEF Segs
<1>2. FlattenUpto[n][v] = {End}
  BY <1>1, FlattensAs
<1>3. Walk(n, v, End) = Found(Dynamic(v))
  BY <1>1, WalkEnds
<1>4. v.kind = "iface" => Dynamic(v).kind = "invalid"
  BY <1>1 DEF Dynamic, Part, Invalid
<1>5. v.kind = "iface" => DescribeUpto[n][v] = {}
  BY <1>1, DescribesAs
<1>6. v.kind # "iface" => DescribeUpto[n][v] \in {{SliceDescriptor(End, ElementType(v))}, {FieldDescriptor(End, TypeName(v))}}
  BY <1>1, DescribesAs DEF DecodedKinds
<1>7. SliceDescriptor(End, ElementType(v)).path = End /\ FieldDescriptor(End, TypeName(v)).path = End
  BY DEF SliceDescriptor, FieldDescriptor
<1> QED BY <1>2, <1>3, <1>4, <1>5, <1>6, <1>7 DEF Found

LEMMA DecodedThrough ==
  ASSUME NEW n \in 0..Depth, NEW v \in Decoded[n], Holds(v), v.kind = "iface"
  PROVE  /\ n - 1 \in 0..Depth /\ v.at[Elem] \in Decoded[n - 1]
         /\ FlattenUpto[n][v] = FlattenUpto[n - 1][v.at[Elem]]
         /\ DescribeUpto[n][v] = DescribeUpto[n - 1][v.at[Elem]]
         /\ \A p \in Seq(Segments) : Walk(n, v, p) = Walk(n - 1, v.at[Elem], p)
<1>1. /\ n - 1 \in 0..Depth /\ Segs(v) = {Elem} /\ v.at[Elem].kind # "iface" /\ v \in Outcomes(n)
      /\ v.at[Elem] \in Decoded[n - 1] /\ Elem \in Segs(v)
  BY DecodedParts
<1>2. Part(v, Elem) = v.at[Elem]
  BY <1>1 DEF Part
<1>3. FlattenUpto[n][v] = FlattenUpto[n - 1][v.at[Elem]]
  BY <1>1, <1>2, FlattensAs
<1>4. DescribeUpto[n][v] = DescribeUpto[n - 1][v.at[Elem]]
  BY <1>1, <1>2, DescribesAs
<1>5. \A p \in Seq(Segments) : Walk(n, v, p) = Walk(n - 1, v.at[Elem], p)
  BY <1>1, WalkThrough
<1> QED BY <1>1, <1>3, <1>4, <1>5

LEMMA DecodedInto ==
  ASSUME Unexported = {}, NEW n \in 0..Depth, NEW v \in Decoded[n], Holds(v), v.kind \in {"map", "slice"}
  PROVE  /\ n - 1 \in 0..Depth /\ v \in Outcomes(n)
         /\ \A x \in Segs(v) : /\ x \in Segments /\ v.at[x] \in Decoded[n - 1]
                               /\ FlattenUpto[n - 1][v.at[x]] \subseteq Seq(Segments)
                               /\ \A q \in Seq(Segments) : Walk(n, v, Join(x, q)) = Walk(n - 1, v.at[x], q)
         /\ v.kind = "map" \/ Segs(v) # {} =>
              /\ \A p \in FlattenUpto[n][v] :
                   \E x \in Segs(v) : \E q \in FlattenUpto[n - 1][v.at[x]] : p = Join(x, q)
              /\ \A x \in Segs(v) : \A q \in FlattenUpto[n - 1][v.at[x]] : Join(x, q) \in FlattenUpto[n][v]
         /\ v.kind = "slice" /\ Segs(v) = {} => FlattenUpto[n][v] = {End}
<1>1. n - 1 \in 0..Depth /\ v \in Outcomes(n) /\ v.kind \in Containers
  BY DecodedParts DEF Containers
<1>2. ASSUME NEW x \in Segs(v)
      PROVE  /\ x \in Segments /\ v.at[x] \in Decoded[n - 1]
             /\ FlattenUpto[n - 1][v.at[x]] \subseteq Seq(Segments)
  <2>1. x \in Segments /\ v.at[x] \in Outcomes(n - 1)
    BY <1>1, PartIs
  <2>2. FlatsFit(n - 1)
    BY <1>1, FlatsAre
  <2> QED BY <2>1, <2>2, DecodedParts DEF FlatsFit
<1>3. ASSUME NEW x \in Segs(v), NEW q \in Seq(Segments)
      PROVE  Walk(n, v, Join(x, q)) = Walk(n - 1, v.at[x], q)
  BY <1>1, <1>2, WalkInto
<1>4. ASSUME v.kind = "map" \/ Segs(v) # {}, NEW p \in FlattenUpto[n][v]
      PROVE  \E x \in Segs(v) : \E q \in FlattenUpto[n - 1][v.at[x]] : p = Join(x, q)
  BY <1>1, <1>4, FlattensInto
<1>5. ASSUME v.kind = "map" \/ Segs(v) # {}, NEW x \in Segs(v), NEW q \in FlattenUpto[n - 1][v.at[x]]
      PROVE  Join(x, q) \in FlattenUpto[n][v]
  <2> DEFINE S(y) == {Join(y, r) : r \in FlattenUpto[n - 1][v.at[y]]}
             D == {z \in Segs(v) : Settable(v, z)}
  <2>1. FlattenUpto[n][v] = UNION {S(y) : y \in D}
    BY <1>1, <1>5, FlattensAs
  <2>2. x \in D
    BY DEF Settable
  <2>3. Join(x, q) \in S(x)
    OBVIOUS
  <2> HIDE DEF S, D
  <2> QED BY <2>1, <2>2, <2>3
<1>6. ASSUME v.kind = "slice", Segs(v) = {}
      PROVE  FlattenUpto[n][v] = {End}
  BY <1>1, <1>6, FlattensAs
<1> QED BY <1>1, <1>2, <1>3, <1>4, <1>5, <1>6

(* A slice is described as one, whatever is in it.                         *)
LEMMA SliceIs ==
  ASSUME NEW n \in 0..Depth, NEW v \in Decoded[n], Holds(v), v.kind = "slice"
  PROVE  /\ \E d \in DescribeUpto[n][v] : d.path = End /\ d.type = "slice"
         /\ \A d \in DescribeUpto[n][v] : d.path = End /\ d.type = "slice"
         /\ Walk(n, v, End) = Found(v)
<1>1. v \in Outcomes(n)
  BY DecodedParts
<1>2. DescribeUpto[n][v] = {SliceDescriptor(End, ElementType(v))}
  BY <1>1, DescribesAs
<1>3. Walk(n, v, End) = Found(v)
  BY <1>1, WalkEnds DEF Dynamic
<1> QED BY <1>2, <1>3 DEF SliceDescriptor

LEMMA DescribedStep ==
  ASSUME Unexported = {}, NEW n \in 0..Depth, n # 0 => PathsDescribed(n - 1) /\ DescribedListed(n - 1),
         NEW v \in Decoded[n], NEW p \in FlattenUpto[n][v]
  PROVE  IsDescribed(n, v, p)
<1>1. v.kind \in DecodedKinds \cup {"scalar"} /\ (v.kind = "scalar" => ~Holds(v))
  BY DecodedParts
<1>2. CASE ~Holds(v)
  <2>1. p = End /\ Walk(n, v, p).ok
    BY <1>2, DecodedEnds
  <2> QED BY <1>2, <2>1, DecodedEnds DEF IsDescribed, Fits
<1>3. CASE Holds(v) /\ v.kind = "iface"
  <2>1. /\ n - 1 \in 0..Depth /\ n # 0 /\ v.at[Elem] \in Decoded[n - 1]
        /\ p \in FlattenUpto[n - 1][v.at[Elem]]
        /\ DescribeUpto[n][v] = DescribeUpto[n - 1][v.at[Elem]]
    BY <1>3, DecodedThrough
  <2>2. FlatsFit(n)
    BY FlatsAre
  <2>3. p \in Seq(Segments)
    BY <2>2, DecodedParts DEF FlatsFit
  <2>4. Walk(n, v, p) = Walk(n - 1, v.at[Elem], p)
    BY <1>3, <2>3, DecodedThrough
  <2>5. IsDescribed(n - 1, v.at[Elem], p)
    BY <2>1 DEF PathsDescribed
  <2> QED BY <2>1, <2>4, <2>5 DEF IsDescribed
<1>4. CASE Holds(v) /\ v.kind \in {"map", "slice"} /\ (v.kind = "map" \/ Segs(v) # {})
  <2>1. PICK x \in Segs(v) : \E q \in FlattenUpto[n - 1][v.at[x]] : p = Join(x, q)
    BY <1>4, DecodedInto
  <2>2. PICK q \in FlattenUpto[n - 1][v.at[x]] : p = Join(x, q)
    BY <2>1
  <2>3. /\ n - 1 \in 0..Depth /\ n # 0 /\ x \in Segments /\ v.at[x] \in Decoded[n - 1] /\ v \in Outcomes(n)
        /\ q \in Seq(Segments) /\ Walk(n, v, p) = Walk(n - 1, v.at[x], q)
    BY <1>4, <2>2, DecodedInto
  <2>4. IsDescribed(n - 1, v.at[x], q)
    BY <2>3 DEF PathsDescribed
  <2>5. CASE v.kind = "slice"
    <3>1. p \in Seq(Segments)
      BY <2>2, <2>3, JoinIs
    <3>2. PICK d \in DescribeUpto[n][v] : d.path = End /\ d.type = "slice"
      BY <1>4, <2>5, SliceIs
    <3>3. Fits(d, p)
      BY <3>1, <3>2, SliceFits
    <3> QED BY <2>3, <2>4, <3>3 DEF IsDescribed
  <2>6. CASE v.kind = "map" /\ Walk(n - 1, v.at[x], q).value.kind = "invalid"
    BY <2>3, <2>4, <2>6 DEF IsDescribed
  <2>7. CASE v.kind = "map" /\ Walk(n - 1, v.at[x], q).value.kind # "invalid"
    <3>1. PICK e \in DescribeUpto[n - 1][v.at[x]] : Fits(e, q)
      BY <2>4, <2>7 DEF IsDescribed
    <3>2. Beneath(x, e) \in DescribeUpto[n][v]
      BY <2>3, <2>7, DescribesParts
    <3>4. e.path \in Seq(Segments)
      BY <2>3 DEF DescribedListed, IsListed
    <3>5. Fits(Beneath(x, e), p)
      BY <2>2, <2>3, <3>1, <3>4, FitsBeneath
    <3> QED BY <2>3, <2>4, <3>2, <3>5 DEF IsDescribed
  <2> QED BY <1>4, <2>5, <2>6, <2>7
<1>5. CASE Holds(v) /\ v.kind = "slice" /\ Segs(v) = {}
  <2>1. p = End
    BY <1>5, DecodedInto
  <2> QED BY <1>5, <2>1, SliceIs DEF IsDescribed, Fits, Found
<1> QED BY <1>1, <1>2, <1>3, <1>4, <1>5 DEF DecodedKinds

LEMMA ListedStep ==
  ASSUME Unexported = {}, NEW n \in 0..Depth, n # 0 => DescribedListed(n - 1),
         NEW v \in Decoded[n], NEW d \in DescribeUpto[n][v]
  PROVE  IsListed(n, v, d)
<1>1. v.kind \in DecodedKinds \cup {"scalar"} /\ (v.kind = "scalar" => ~Holds(v)) /\ v \in Outcomes(n)
  BY DecodedParts
<1>2. CASE ~Holds(v)
  <2>1. d.path = End /\ Walk(n, v, End).ok /\ FlattenUpto[n][v] = {End}
    BY <1>2, DecodedEnds
  <2> QED BY <2>1, EndIs DEF IsListed, Fits
<1>3. CASE Holds(v) /\ v.kind = "iface"
  <2>1. /\ n - 1 \in 0..Depth /\ n # 0 /\ v.at[Elem] \in Decoded[n - 1]
        /\ FlattenUpto[n][v] = FlattenUpto[n - 1][v.at[Elem]]
        /\ d \in DescribeUpto[n - 1][v.at[Elem]]
    BY <1>3, DecodedThrough
  <2>2. IsListed(n - 1, v.at[Elem], d)
    BY <2>1 DEF DescribedListed
  <2>3. d.path \in Seq(Segments)
    BY <2>2 DEF IsListed
  <2>4. Walk(n, v, d.path) = Walk(n - 1, v.at[Elem], d.path)
    BY <1>3, <2>3, DecodedThrough
  <2> QED BY <2>1, <2>2, <2>4 DEF IsListed
<1>4. CASE Holds(v) /\ v.kind = "map" /\ Segs(v) # {}
  <2>1. PICK x \in Segs(v) : \E e \in DescribeUpto[n - 1][v.at[x]] : d = Beneath(x, e)
    BY <1>1, <1>4, DescribesParts
  <2>2. PICK e \in DescribeUpto[n - 1][v.at[x]] : d = Beneath(x, e)
    BY <2>1
  <2>3. /\ n - 1 \in 0..Depth /\ n # 0 /\ x \in Segments /\ v.at[x] \in Decoded[n - 1]
        /\ FlattenUpto[n - 1][v.at[x]] \subseteq Seq(Segments)
    BY <1>4, DecodedInto
  <2>4. IsListed(n - 1, v.at[x], e)
    BY <2>2, <2>3 DEF DescribedListed
  <2>5. e.path \in Seq(Segments) /\ d.path = Join(x, e.path)
    BY <2>2, <2>4 DEF IsListed, Beneath, Join
  <2>6. Walk(n, v, d.path) = Walk(n - 1, v.at[x], e.path) /\ d.path \in Seq(Segments)
    BY <1>4, <2>3, <2>5, DecodedInto, JoinIs
  <2>7. CASE FlattenUpto[Depth][Walk(n - 1, v.at[x], e.path).value] = {}
    BY <2>4, <2>6, <2>7 DEF IsListed
  <2>8. CASE FlattenUpto[Depth][Walk(n - 1, v.at[x], e.path).value] # {}
    <3>1. PICK q \in FlattenUpto[n - 1][v.at[x]] : Fits(e, q)
      BY <2>4, <2>8 DEF IsListed
    <3>2. Join(x, q) \in FlattenUpto[n][v]
      BY <1>4, DecodedInto
    <3>3. Fits(d, Join(x, q))
      BY <2>2, <2>3, <2>5, <3>1, FitsBeneath
    <3> QED BY <2>4, <2>6, <3>2, <3>3 DEF IsListed
  <2> QED BY <2>7, <2>8
<1>5. CASE Holds(v) /\ v.kind = "map" /\ Segs(v) = {}
  <2>1. DescribeUpto[n][v] = {FieldDescriptor(End, TypeName(v))}
    <3> DEFINE S(x) == {Beneath(x, e) : e \in DescribeUpto[n - 1][v.at[x]]}
               U == UNION {S(x) : x \in Segs(v)}
               F == {FieldDescriptor(End, TypeName(v))}
    <3>1. DescribeUpto[n][v] =
            IF v.kind = "iface" /\ Holds(v) THEN DescribeUpto[n - 1][Part(v, Elem)]
            ELSE IF v.kind \in {"iface", "invalid"} THEN {}
            ELSE IF v.kind = "map" /\ Segs(v) # {} THEN U
            ELSE IF v.kind = "slice" THEN {SliceDescriptor(End, ElementType(v))}
            ELSE F
      BY <1>1, DescribesAs
    <3> HIDE DEF U, F
    <3>2. DescribeUpto[n][v] = F
      BY <1>5, <3>1
    <3> QED BY <3>2 DEF F
  <2>2. d.path = End
    <3>1. FieldDescriptor(End, TypeName(v)).path = End
      BY DEF FieldDescriptor
    <3>2. d = FieldDescriptor(End, TypeName(v))
      BY <2>1
    <3> QED BY <3>1, <3>2
  <2>3. Walk(n, v, End) = Found(v)
    BY <1>1, <1>5, WalkEnds DEF Dynamic
  <2>4. FlattenUpto[n][v] = {}
    BY <1>5, DecodedInto
  <2>5. FlattenUpto[Depth][v] = {}
    BY <1>1, <2>4, FlatsOfDepth DEF FlatAsWhole
  <2> QED BY <2>2, <2>3, <2>5, EndIs DEF IsListed, Found
<1>6. CASE Holds(v) /\ v.kind = "slice"
  <2>1. d.path = End /\ d.type = "slice" /\ Walk(n, v, End) = Found(v)
    BY <1>6, SliceIs
  <2>2. CASE FlattenUpto[n][v] = {}
    <3>1. FlattenUpto[Depth][v] = {}
      BY <1>1, <2>2, FlatsOfDepth DEF FlatAsWhole
    <3> QED BY <2>1, <3>1, EndIs DEF IsListed, Found
  <2>3. CASE FlattenUpto[n][v] # {}
    <3>1. PICK p \in FlattenUpto[n][v] : TRUE
      BY <2>3
    <3>2. FlatsFit(n)
      BY FlatsAre
    <3>3. p \in Seq(Segments)
      BY <1>1, <3>2 DEF FlatsFit
    <3>4. Fits(d, p)
      BY <2>1, <3>3, SliceFits
    <3> QED BY <2>1, <3>4, EndIs DEF IsListed, Found
  <2> QED BY <2>2, <2>3
<1> QED BY <1>1, <1>2, <1>3, <1>4, <1>5, <1>6 DEF DecodedKinds

LEMMA DescriptorsFit ==
  ASSUME Unexported = {}
  PROVE  \A n \in 0..Depth : PathsDescribed(n) /\ DescribedListed(n)
<1> DEFINE T == {n \in Nat : n <= Depth => PathsDescribed(n) /\ DescribedListed(n)}
<1>1. ASSUME NEW n \in 0..Depth, n # 0 => PathsDescribed(n - 1) /\ DescribedListed(n - 1)
      PROVE  PathsDescribed(n) /\ DescribedListed(n)
  <2>1. ASSUME NEW v \in Decoded[n], NEW p \in FlattenUpto[n][v] PROVE IsDescribed(n, v, p)
    BY <1>1, DescribedStep
  <2>2. ASSUME NEW v \in Decoded[n], NEW d \in DescribeUpto[n][v] PROVE IsListed(n, v, d)
    BY <1>1, ListedStep
  <2> QED BY <2>1, <2>2 DEF PathsDescribed, DescribedListed
<1>2. 0 \in T
  <2>1. 0 \in 0..Depth
    BY ValuesAssumption
  <2> QED BY <1>1, <2>1
<1>3. ASSUME NEW m \in Nat, m \in T PROVE m + 1 \in T
  <2> DEFINE n == m + 1
  <2> SUFFICES ASSUME n <= Depth PROVE PathsDescribed(n) /\ DescribedListed(n)
    OBVIOUS
  <2>1. n \in 0..Depth /\ n - 1 = m
    BY ValuesAssumption
  <2>2. PathsDescribed(n - 1) /\ DescribedListed(n - 1)
    BY <1>3, <2>1, ValuesAssumption
  <2> HIDE DEF n
  <2> QED BY <1>1, <2>1, <2>2
<1>4. Nat \subseteq T
  <2> HIDE DEF T
  <2> QED BY <1>2, <1>3, Induct
<1> QED BY <1>4

LEMMA SchemaFits ==
  ASSUME Unexported = {}, LayeringInv, DecodedInv,
         \A s \in Stacks : (\E i \in DOMAIN s : s[i].kind = "map") =>
                             \A i \in DOMAIN s : s[i] \in Decoded[Depth]
  PROVE  SchemaFitsProvenance
<1> SUFFICES ASSUME Complete, merged.kind = "map" PROVE SchemaFitsProvenance
  BY DEF SchemaFitsProvenance
<1> DEFINE n == Depth
<1>0. n \in 0..Depth /\ n = Depth
  BY ValuesAssumption
<1>1. merged \in Decoded[n]
  <2>1. layers \in Stacks /\ merged # Panic /\ Depth \in 0..Depth
    BY ValuesAssumption DEF LayeringInv, Complete
  <2>2. merged = OverlayUpto[Depth][Layered(1)]
    <3>1. todo + 1 = 1
      BY DEF Complete
    <3> QED BY <3>1, <2>1 DEF LayeringInv
  <2>3. Layered(1) \in Columns(Depth)
    BY <2>1, LayersAre
  <2>4. There(Layered(1)) # {}
    <3>1. OverlayOk(Depth)
      BY <2>1, OverlaysAre
    <3>2. merged # Invalid
      BY DEF Invalid
    <3> QED BY <2>2, <2>3, <3>1, <3>2 DEF OverlayOk
  <2>5. PICK i \in There(Layered(1)) : merged.kind = Layered(1)[i].kind
    BY <2>1, <2>2, <2>3, <2>4, KindOfOverlay
  <2>6. i \in DOMAIN layers /\ Layered(1)[i] = layers[i]
    BY <2>1, <2>5, StacksAssumption DEF There, Layered
  <2>7. \A j \in DOMAIN layers : layers[j] \in Decoded[Depth]
    BY <2>1, <2>5, <2>6
  <2> QED BY <2>1, <2>7 DEF DecodedInv
<1>2. /\ Schema = DescribeUpto[n][merged]
      /\ CollectPaths(merged) = FlattenUpto[n][merged] \ {End}
      /\ \A p : Get(p) = Walk(n, merged, p)
  BY DEF Schema, DeriveFieldDescriptors, Dynamic, CollectPaths, Get, NavigateSegments, Walk, End
<1>3. PathsDescribed(n) /\ DescribedListed(n)
  BY <1>0, DescriptorsFit
<1>4. ASSUME NEW d \in Schema
      PROVE  /\ Get(d.path).ok
             /\ \/ d.path = End \/ FlattenUpto[n][Get(d.path).value] = {}
                \/ \E p \in CollectPaths(merged) : Fits(d, p)
  <2>1. IsListed(n, merged, d)
    BY <1>1, <1>2, <1>3 DEF DescribedListed
  <2>2. d.path \in Seq(Segments) /\ Get(d.path).ok
    BY <1>2, <2>1 DEF IsListed
  <2> SUFFICES ASSUME d.path # End, FlattenUpto[n][Get(d.path).value] # {}
               PROVE  \E p \in CollectPaths(merged) : Fits(d, p)
    BY <2>2
  <2>3. PICK p \in FlattenUpto[n][merged] : Fits(d, p)
    BY <1>0, <1>2, <2>1 DEF IsListed
  <2>4. p # End
    <3> SUFFICES ASSUME p = End PROVE FALSE
      OBVIOUS
    <3>1. Len(d.path) <= 0
      BY <2>3 DEF Fits, InSlice, End
    <3> QED BY <2>2, <3>1 DEF End
  <2> QED BY <1>2, <2>3, <2>4
<1>5. ASSUME NEW p \in CollectPaths(merged)
      PROVE  Get(p).value.kind = "invalid" \/ \E d \in Schema : Fits(d, p)
  <2>1. IsDescribed(n, merged, p)
    BY <1>1, <1>2, <1>3 DEF PathsDescribed
  <2> QED BY <1>2, <2>1 DEF IsDescribed
<1> HIDE DEF n
<1> QED BY <1>0, <1>4, <1>5 DEF SchemaFitsProvenance, Fits, End

(* Where the maps that are merged are decoded JSON, of any depth and in    *)
(* any number, Schema and FlattenWithProvenance describe one value: each   *)
(* descriptor names something that is there, and each listed path that     *)
(* does not lead to nil is described, and the other way round.             *)
THEOREM SchemaAndProvenanceAgree ==
  ASSUME Unexported = {},
         \A s \in Stacks : (\E i \in DOMAIN s : s[i].kind = "map") =>
                             \A i \in DOMAIN s : s[i] \in Decoded[Depth]
  PROVE  Spec => []SchemaFitsProvenance
<1>1. Init => LayeringInv /\ DecodedInv
  BY LayeringInit, DecodedInit
<1>2. LayeringInv /\ DecodedInv /\ [Next]_vars => LayeringInv' /\ DecodedInv'
  BY LayeringStep, DecodedStep
<1>3. LayeringInv /\ DecodedInv => SchemaFitsProvenance
  BY SchemaFits
<1> QED BY <1>1, <1>2, <1>3, PTL DEF Spec
=============================================================================
