---------------------------- MODULE OptionsWrapper ----------------------------
(***************************************************************************)
(* Who shares a map with whom: Options[map[string]any] wrappers, the stack *)
(* they are merged from, the layers they keep for provenance and the maps  *)
(* the program built itself, under Set, Clone, WithValue, LayerWith,       *)
(* Merge and writes into the maps that Get and ResolveWithTrace hand out.  *)
(*                                                                         *)
(* Maps live in a heap.  A snapshot is a root map whose entries are        *)
(* numbers or maps of numbers.  The address of a map is the allocation it  *)
(* was made in and its place in the snapshot: Root, or the segment it was  *)
(* put under.                                                              *)
(***************************************************************************)
EXTENDS Naturals, Sequences

CONSTANTS
  Segments,    \* the path segments in use
  Root,        \* the place of a root map
  Numbers,     \* the values other than maps
  Absent,      \* no entry
  Sources,     \* what is in the maps the program has built, strongest first
  Wrappers,    \* names for the *Options a program can hold
  MaxAllocs,   \* bound: allocations in a run
  MaxWrites    \* bound: writes in a run

ASSUME WrapperAssumption ==
  /\ Root \notin Segments
  /\ Absent \notin Numbers
  /\ MaxAllocs \in Nat /\ MaxWrites \in Nat
  /\ Len(Sources) \in 1..MaxAllocs /\ DOMAIN Sources = 1..Len(Sources)

VARIABLES
  heap,     \* the maps
  next,     \* the next allocation
  stack,    \* Stack.layers: the roots of its snapshots, strongest first
  opts,     \* the wrappers
  held,     \* maps the program got from Get, ResolveWithTrace and Layers
  writes    \* how many writes there have been

vars == <<heap, next, stack, opts, held, writes>>

-----------------------------------------------------------------------------
Addresses == (0..MaxAllocs) \X (Segments \cup {Root})
Nowhere   == <<0, Root>>
RootOf(n) == <<n, Root>>

Num(n) == [n |-> n, at |-> Nowhere]
Ref(a) == [n |-> Absent, at |-> a]
IsMap(entry) == entry.at # Nowhere
NoEntry == Num(Absent)

Empty == [s \in Segments |-> NoEntry]

(* The maps that can be reached from a root, and what they hold: a tree is *)
(* a map of entries [n, map, sub].                                         *)
Subs(a)  == {heap[a][s].at : s \in {x \in Segments : IsMap(heap[a][x])}}
Reach(a) == {a} \cup Subs(a)

NoSub     == [t \in Segments |-> Absent]
Leaf(n)   == [n |-> n, map |-> FALSE, sub |-> NoSub]
Branch(m) == [n |-> Absent, map |-> TRUE, sub |-> m]
Tree(a) ==
  [s \in Segments |->
     LET e == heap[a][s]
     IN  IF IsMap(e) THEN Branch([t \in Segments |-> heap[e.at][t].n]) ELSE Leaf(e.n)]

(* Clone of the layering package: a fresh map for every map of the tree.   *)
Cells(n, tree) == {RootOf(n)} \cup {<<n, s>> : s \in {x \in Segments : tree[x].map}}

Planted(n, tree) ==
  [a \in Cells(n, tree) |->
     IF a = RootOf(n)
     THEN [s \in Segments |-> IF tree[s].map THEN Ref(<<n, s>>) ELSE Num(tree[s].n)]
     ELSE [t \in Segments |-> Num(tree[a[2]].sub[t])]]

CloneOf(n, a) == Planted(n, Tree(a))

(* MergeLayers of such trees; it makes all its maps itself.                *)
MergeTwo(strong, weak) ==
  [s \in Segments |->
     IF strong[s] = Leaf(Absent) THEN weak[s]
     ELSE IF strong[s].map /\ weak[s].map
     THEN Branch([t \in Segments |-> IF strong[s].sub[t] # Absent THEN strong[s].sub[t]
                                                                 ELSE weak[s].sub[t]])
     ELSE strong[s]]

MergeLayers(trees) ==
  LET merged[i \in 1..Len(trees)] ==
        IF i = Len(trees) THEN trees[i] ELSE MergeTwo(trees[i], merged[i + 1])
  IN  merged[1]

Merged(roots) == MergeLayers([i \in DOMAIN roots |-> Tree(roots[i])])

Added(cells) == [a \in Addresses |-> IF a \in DOMAIN cells THEN cells[a] ELSE heap[a]]

(* Clones of several roots, in the allocations from n on.                  *)
ClonesOf(n, roots) ==
  [a \in UNION {DOMAIN CloneOf(n + i - 1, roots[i]) : i \in DOMAIN roots} |->
     CloneOf(a[1], roots[a[1] - n + 1])[a]]

RootsFrom(n, k) == [i \in 1..k |-> RootOf(n + i - 1)]

Enter(a, s, entry) ==
  [heap EXCEPT ![a] = [x \in Segments |-> IF x = s THEN entry ELSE heap[a][x]]]

SourceRoots == {RootOf(i) : i \in DOMAIN Sources}

(* Where the map of a wrapper comes from, a history: it was given one of   *)
(* the program's, or a map was made for a wrapper.  Copies inherit it.     *)
Given(root) == <<"given", root>>
Made(w)     == <<"made", w>>

Wrapper(value, layers, from) ==
  [live |-> TRUE, value |-> value, layers |-> layers, from |-> from]

NoWrapper == [live |-> FALSE, value |-> Nowhere, layers |-> << >>, from |-> << >>]

Init ==
  /\ heap = [a \in Addresses |->
               IF a[1] \in DOMAIN Sources /\ a \in Cells(a[1], Sources[a[1]])
               THEN Planted(a[1], Sources[a[1]])[a] ELSE Empty]
  /\ next = Len(Sources) + 1
  /\ stack = << >>
  /\ opts = [w \in Wrappers |-> NoWrapper]
  /\ held = {}
  /\ writes = 0

-----------------------------------------------------------------------------
Room(k) == next + k <= MaxAllocs + 1

(* NewLayer for each source, and NewStack.                                 *)
BuildStack ==
  /\ stack = << >>
  /\ Room(Len(Sources))
  /\ heap' = Added(ClonesOf(next, RootsFrom(1, Len(Sources))))
  /\ stack' = RootsFrom(next, Len(Sources))
  /\ next' = next + Len(Sources)
  /\ UNCHANGED <<opts, held, writes>>

(* Stack.Layers: clones again.                                             *)
StackLayers ==
  /\ stack # << >>
  /\ Room(Len(stack))
  /\ heap' = Added(ClonesOf(next, stack))
  /\ held' = held \cup {RootOf(next + i - 1) : i \in DOMAIN stack}
  /\ next' = next + Len(stack)
  /\ UNCHANGED <<stack, opts, writes>>

MergeKeepsStack(w) ==
  /\ ~opts[w].live
  /\ stack # << >>
  /\ Room(1)
  /\ heap' = Added(Planted(next, Merged(stack)))
  /\ opts' = [opts EXCEPT ![w] = Wrapper(RootOf(next), stack, Made(w))]
  /\ next' = next + 1
  /\ UNCHANGED <<stack, held, writes>>

MergeInPlace(w) ==
  LET k == Len(stack)
      merged == Planted(next + k - 1, Merged(stack))
      kept == ClonesOf(next, stack)
  IN  /\ ~opts[w].live
      /\ stack # << >>
      /\ Room(k)
      /\ heap' = Added([a \in DOMAIN kept \cup DOMAIN merged |->
                          IF a \in DOMAIN merged THEN merged[a] ELSE kept[a]])
      /\ opts' = [opts EXCEPT ![w] = Wrapper(RootOf(next + k - 1), RootsFrom(next, k), Made(w))]
      /\ next' = next + k
      /\ UNCHANGED <<stack, held, writes>>

(* Stack.Merge: a merged value, and a clone of each snapshot to keep.      *)
Merge(w) ==
  LET k == Len(stack)
      merged == Planted(next + k, Merged(stack))
      kept == ClonesOf(next, stack)
  IN  /\ ~opts[w].live
      /\ stack # << >>
      /\ Room(k + 1)
      /\ heap' = Added([a \in DOMAIN kept \cup DOMAIN merged |->
                          IF a \in DOMAIN merged THEN merged[a] ELSE kept[a]])
      /\ opts' = [opts EXCEPT ![w] = Wrapper(RootOf(next + k), RootsFrom(next, k), Made(w))]
      /\ next' = next + k + 1
      /\ UNCHANGED <<stack, held, writes>>

(* New takes the map as it is.                                             *)
New(w) ==
  /\ ~opts[w].live
  /\ \E root \in SourceRoots : opts' = [opts EXCEPT ![w] = Wrapper(root, << >>, Given(root))]
  /\ UNCHANGED <<heap, next, stack, held, writes>>

(* Clone copies the wrapper and its list of layers, not the maps.          *)
Clone(w, v) ==
  /\ opts[w].live /\ ~opts[v].live
  /\ opts' = [opts EXCEPT ![v] = opts[w]]
  /\ UNCHANGED <<heap, next, stack, held, writes>>

WithValue(w, v) ==
  /\ opts[w].live /\ ~opts[v].live
  /\ \E root \in SourceRoots :
       opts' = [opts EXCEPT ![v] = Wrapper(root, opts[w].layers, Given(root))]
  /\ UNCHANGED <<heap, next, stack, held, writes>>

LayerWithFew(w, v) ==
  /\ opts[w].live /\ ~opts[v].live
  /\ \/ /\ opts' = [opts EXCEPT ![v] = Wrapper(opts[w].value, opts[w].layers, Made(v))]
        /\ UNCHANGED <<heap, next>>
     \/ /\ Room(1)
        /\ \E root \in SourceRoots :
             heap' = Added(Planted(next, Merged(<<root, opts[w].value>>)))
        /\ opts' = [opts EXCEPT ![v] = Wrapper(RootOf(next), opts[w].layers, Made(v))]
        /\ next' = next + 1
  /\ UNCHANGED <<stack, held, writes>>

(* LayerWith merges what it is given on top of the value, and otherwise    *)
(* copies the wrapper, the kept layers included.                           *)
LayerWith(w, v) ==
  /\ opts[w].live /\ ~opts[v].live
  /\ Room(1)
  /\ \E above \in {<< >>} \cup {<<root>> : root \in SourceRoots} :
       heap' = Added(Planted(next, Merged(Append(above, opts[w].value))))
  /\ opts' = [opts EXCEPT ![v] = Wrapper(RootOf(next), opts[w].layers, Made(v))]
  /\ next' = next + 1
  /\ UNCHANGED <<stack, held, writes>>

(* Set of a path of one segment puts the value there, whatever was there.  *)
SetShort(w, s, n) ==
  /\ opts[w].live /\ writes < MaxWrites
  /\ heap' = Enter(opts[w].value, s, Num(n))
  /\ writes' = writes + 1
  /\ UNCHANGED <<next, stack, opts, held>>

(* Set of a path of two segments goes through the map at the first, which  *)
(* it makes if there is nothing, and returns an error at a number.         *)
SetThrough(w, s, t, n) ==
  LET m == heap[opts[w].value]
  IN  /\ opts[w].live /\ writes < MaxWrites
      /\ IsMap(m[s])
      /\ heap' = Enter(m[s].at, t, Num(n))
      /\ writes' = writes + 1
      /\ UNCHANGED <<next, stack, opts, held>>

SetMaking(w, s, t, n) ==
  LET root == opts[w].value
  IN  /\ opts[w].live /\ writes < MaxWrites
      /\ heap[root][s] = NoEntry
      /\ Room(1)
      /\ heap' = [Enter(root, s, Ref(<<next, s>>)) EXCEPT
                   ![<<next, s>>] = [x \in Segments |-> IF x = t THEN Num(n) ELSE NoEntry]]
      /\ next' = next + 1
      /\ writes' = writes + 1
      /\ UNCHANGED <<stack, opts, held>>

Set(w) ==
  \E s \in Segments, n \in Numbers :
    SetShort(w, s, n) \/ \E t \in Segments : SetThrough(w, s, t, n) \/ SetMaking(w, s, t, n)

MapsAt(roots, s) == {heap[a][s].at : a \in {r \in roots : IsMap(heap[r][s])}}

(* Get of a path that leads to a map hands out that map ...                *)
Get(w, s) ==
  /\ opts[w].live
  /\ held' = held \cup MapsAt({opts[w].value}, s)
  /\ UNCHANGED <<heap, next, stack, opts, writes>>

(* ... and ResolveWithTrace those the kept layers have there; if none has  *)
(* anything, it does as Get.                                               *)
Trace(w, s) ==
  LET kept == {opts[w].layers[i] : i \in DOMAIN opts[w].layers}
  IN  /\ opts[w].live
      /\ held' = held \cup MapsAt(IF \A root \in kept : heap[root][s] = NoEntry
                                  THEN {opts[w].value} ELSE kept, s)
      /\ UNCHANGED <<heap, next, stack, opts, writes>>

(* The program writes into a map it built or was handed.                   *)
CallerWrites ==
  /\ writes < MaxWrites
  /\ \E a \in UNION {Reach(r) : r \in SourceRoots \cup held}, s \in Segments, n \in Numbers :
       heap' = Enter(a, s, Num(n))
  /\ writes' = writes + 1
  /\ UNCHANGED <<next, stack, opts, held>>

Next ==
  \/ BuildStack \/ StackLayers \/ CallerWrites
  \/ \E w \in Wrappers :
       \/ Merge(w) \/ New(w) \/ Set(w)
       \/ \E v \in Wrappers : Clone(w, v) \/ WithValue(w, v) \/ LayerWith(w, v)
       \/ \E s \in Segments : Get(w, s) \/ Trace(w, s)

Spec == Init /\ [][Next]_vars

-----------------------------------------------------------------------------
Live == {w \in Wrappers : opts[w].live}

KeptBy(w) == {opts[w].layers[i] : i \in DOMAIN opts[w].layers}

Roots ==
  SourceRoots \cup {stack[i] : i \in DOMAIN stack}
    \cup {opts[w].value : w \in Live} \cup UNION {KeptBy(w) : w \in Live}

(* Two snapshots never share a map, also not below their roots: what is    *)
(* written into one source, stack, kept layer or value cannot show in      *)
(* another, however they were cloned and merged (scope_stack.go 133-135,   *)
(* merge.go 187-189).  It says nothing of wrappers with one value.         *)
NoSharedMaps == \A x, y \in Roots : x # y => Reach(x) \cap Reach(y) = {}

(* Set on a wrapper shows in its clones, and in wrappers that were given   *)
(* the same map: Clone is shallow, and New and WithValue take a map as it  *)
(* is (options.go 46-66).  It shows in no other wrapper, as Merge and      *)
(* LayerWith make their own value even if there is nothing to merge        *)
(* (options_layer.go 17-20).                                               *)
SetShowsInCopiesOnly ==
  [][\A w \in Live : Set(w) =>
       \A v \in Live : Tree(opts[v].value)' =
         IF opts[v].from = opts[w].from THEN Tree(opts[w].value)' ELSE Tree(opts[v].value)]_vars

(* A stack is immutable once built: neither the maps it was built from nor *)
(* what Layers, Merge or a wrapper of it handed out reach its snapshots.   *)
StackNeverChanges ==
  [][stack # << >> =>
       stack' = stack /\ \A i \in DOMAIN stack : Tree(stack[i])' = Tree(stack[i])]_vars

(* The layers a wrapper keeps stay those of the stack until the program    *)
(* writes into a map it was handed: Set on the wrapper, on its copies or   *)
(* on others of the same stack does not touch them.                        *)
ProvenanceSurvivesSet ==
  \A w \in Live : \A i \in DOMAIN opts[w].layers :
    \/ Tree(opts[w].layers[i]) = Tree(stack[i])
    \/ Reach(opts[w].layers[i]) \cap held # {}
=============================================================================
