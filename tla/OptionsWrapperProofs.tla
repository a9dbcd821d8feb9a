------------------------- MODULE OptionsWrapperProofs -------------------------
(***************************************************************************)
(* No snapshot shares a map with another, and nothing reaches the          *)
(* snapshots of a stack, for any number of segments, sources, wrappers,    *)
(* allocations and writes.                                                 *)
(*                                                                         *)
(* What carries the proof is where a map can be: under one parent, at the  *)
(* segment its address names, in an allocation that has happened.          *)
(* And the layers a wrapper keeps stay those of the stack until the        *)
(* program writes into a map it was handed.                                *)
(***************************************************************************)
EXTENDS OptionsWrapper, TLAPS

Allocated(a, n) == a \in Addresses /\ a[1] \in 1..(n - 1)

AllocatedRoot(a, n) == Allocated(a, n) /\ a[2] = Root

(* References are to allocated maps at the place their address names, from *)
(* root maps only.                                                         *)
RefsPlaced ==
  \A a \in Addresses : \A s \in Segments : IsMap(heap[a][s]) =>
    /\ a[2] = Root
    /\ Allocated(heap[a][s].at, next)
    /\ heap[a][s].at[2] = s

RefsUnique ==
  \A a, b \in Addresses : \A s \in Segments :
    IsMap(heap[a][s]) /\ heap[a][s].at = heap[b][s].at => a = b

HeapInv ==
  /\ DOMAIN heap = Addresses
  /\ next \in 1..(MaxAllocs + 1)
  /\ RefsPlaced
  /\ RefsUnique

(* The roots others than the stack have, and all they can get at.          *)
Owned == SourceRoots \cup {opts[w].value : w \in Live} \cup UNION {KeptBy(w) : w \in Live}

Reached == UNION {Reach(r) : r \in Owned \cup held}

StackCells == UNION {Reach(stack[i]) : i \in DOMAIN stack}

IsWrapper(r) ==
  r = [live |-> r.live, value |-> r.value, layers |-> r.layers, from |-> r.from]

AreWrappers(f) == DOMAIN f = Wrappers /\ \A w \in Wrappers : IsWrapper(f[w])

RootsInv ==
  /\ AreWrappers(opts)
  /\ Len(stack) \in Nat /\ DOMAIN stack = 1..Len(stack)
  /\ \A r \in Owned \cup {stack[i] : i \in DOMAIN stack} : AllocatedRoot(r, next)
  /\ \A a \in held : Allocated(a, next)

StackPrivate == StackCells \cap (Owned \cup held) = {}

WrapperInv == HeapInv /\ RootsInv /\ StackPrivate

(* What every step but the building of the stack does: it changes only     *)
(* what others than the stack get at, or is new, and hands out no other.   *)
Proper ==
  /\ HeapInv' /\ next <= next' /\ AreWrappers(opts') /\ stack' = stack
  /\ \A a : Allocated(a, next) /\ a \notin Reached => heap'[a] = heap[a]
  /\ \A x \in Owned' : x \in Owned \/ (AllocatedRoot(x, next') /\ x[1] >= next)
  /\ \A x \in held' : x \in Reached \/ (Allocated(x, next') /\ x[1] >= next)

-----------------------------------------------------------------------------
LEMMA WrapperFields ==
  \A value, layers, from :
    /\ IsWrapper(Wrapper(value, layers, from))
    /\ Wrapper(value, layers, from).live
    /\ Wrapper(value, layers, from).value = value
    /\ Wrapper(value, layers, from).layers = layers
    /\ Wrapper(value, layers, from).from = from
BY DEF IsWrapper, Wrapper

(* Freshly allocated cells, each root with the maps under it.              *)
Fresh(cells, n, m) ==
  /\ DOMAIN cells \subseteq Addresses
  /\ \A a \in DOMAIN cells : a[1] \in n..(m - 1)
  /\ \A a \in DOMAIN cells : \A s \in Segments : IsMap(cells[a][s]) =>
       a[2] = Root /\ cells[a][s].at = <<a[1], s>>

LEMMA NumIsNoMap == \A n : ~IsMap(Num(n))
  BY DEF IsMap, Num

LEMMA PlantedFresh ==
  ASSUME NEW n \in 1..MaxAllocs, NEW tree
  PROVE  /\ Fresh(Planted(n, tree), n, n + 1)
         /\ RootOf(n) \in DOMAIN Planted(n, tree)
         /\ DOMAIN Planted(n, tree) = Cells(n, tree)
<1>1. MaxAllocs \in Nat /\ Root \notin Segments
  BY WrapperAssumption
<1>2. DOMAIN Planted(n, tree) = Cells(n, tree)
  BY DEF Planted
<1>3. Cells(n, tree) \subseteq Addresses /\ \A a \in Cells(n, tree) : a[1] = n
  BY <1>1 DEF Cells, Addresses, RootOf
<1>4. ASSUME NEW a \in Cells(n, tree), NEW s \in Segments, IsMap(Planted(n, tree)[a][s])
      PROVE  a[2] = Root /\ Planted(n, tree)[a][s].at = <<a[1], s>>
  <2>1. CASE a = RootOf(n)
    <3>1. Planted(n, tree)[a][s] = IF tree[s].map THEN Ref(<<n, s>>) ELSE Num(tree[s].n)
      BY <2>1 DEF Planted
    <3>2. Planted(n, tree)[a][s] = Ref(<<n, s>>)
      BY <1>4, <3>1, NumIsNoMap
    <3> QED BY <2>1, <3>2 DEF Ref, RootOf
  <2>2. CASE a # RootOf(n)
    <3>1. Planted(n, tree)[a][s] = Num(tree[a[2]].sub[s])
      BY <2>2 DEF Planted
    <3> QED BY <1>4, <3>1, NumIsNoMap
  <2> QED BY <2>1, <2>2
<1>5. RootOf(n) \in DOMAIN Planted(n, tree)
  BY <1>2 DEF Cells
<1>6. \A a \in DOMAIN Planted(n, tree) : a[1] \in n..(n + 1 - 1)
  BY <1>1, <1>2, <1>3
<1> QED BY <1>2, <1>3, <1>4, <1>5, <1>6 DEF Fresh

LEMMA ClonesFresh ==
  ASSUME NEW n \in Nat \ {0}, NEW roots, NEW k \in Nat, DOMAIN roots = 1..k,
         n + k <= MaxAllocs + 1
  PROVE  /\ Fresh(ClonesOf(n, roots), n, n + k)
         /\ \A i \in 1..k : RootOf(n + i - 1) \in DOMAIN ClonesOf(n, roots)
<1>1. MaxAllocs \in Nat
  BY WrapperAssumption
<1>2. ASSUME NEW i \in 1..k
      PROVE  /\ n + i - 1 \in 1..MaxAllocs
             /\ DOMAIN CloneOf(n + i - 1, roots[i]) = Cells(n + i - 1, Tree(roots[i]))
             /\ Fresh(CloneOf(n + i - 1, roots[i]), n + i - 1, n + i)
             /\ RootOf(n + i - 1) \in DOMAIN CloneOf(n + i - 1, roots[i])
  <2>1. n + i - 1 \in 1..MaxAllocs /\ n + i - 1 + 1 = n + i
    BY <1>1
  <2> QED BY <2>1, PlantedFresh DEF CloneOf
<1>3. ASSUME NEW a \in DOMAIN ClonesOf(n, roots)
      PROVE  \E i \in 1..k : /\ a \in DOMAIN CloneOf(n + i - 1, roots[i])
                             /\ a[1] = n + i - 1
                             /\ ClonesOf(n, roots)[a] = CloneOf(n + i - 1, roots[i])[a]
  <2>1. PICK i \in 1..k : a \in DOMAIN CloneOf(n + i - 1, roots[i])
    BY DEF ClonesOf
  <2>2. a[1] = n + i - 1
    BY <1>2, <2>1 DEF Fresh
  <2>3. a[1] - n + 1 = i
    BY <2>2
  <2> QED BY <2>1, <2>2, <2>3 DEF ClonesOf
<1>4. DOMAIN ClonesOf(n, roots) \subseteq Addresses
  BY <1>2, <1>3 DEF Fresh
<1>5. \A a \in DOMAIN ClonesOf(n, roots) : a[1] \in n..(n + k - 1)
  BY <1>3
<1>6. ASSUME NEW a \in DOMAIN ClonesOf(n, roots), NEW s \in Segments,
             IsMap(ClonesOf(n, roots)[a][s])
      PROVE  a[2] = Root /\ ClonesOf(n, roots)[a][s].at = <<a[1], s>>
  BY <1>2, <1>3, <1>6 DEF Fresh
<1>7. \A i \in 1..k : RootOf(n + i - 1) \in DOMAIN ClonesOf(n, roots)
  BY <1>2 DEF ClonesOf
<1> QED BY <1>4, <1>5, <1>6, <1>7 DEF Fresh

LEMMA FreshUnion ==
  ASSUME NEW n \in Nat, NEW k \in Nat, NEW m \in Nat, n <= k, k <= m, NEW f, NEW g,
         Fresh(f, n, k), Fresh(g, k, m)
  PROVE  Fresh([a \in DOMAIN f \cup DOMAIN g |-> IF a \in DOMAIN g THEN g[a] ELSE f[a]], n, m)
<1> DEFINE h == [a \in DOMAIN f \cup DOMAIN g |-> IF a \in DOMAIN g THEN g[a] ELSE f[a]]
<1>1. DOMAIN h \subseteq Addresses
  BY DEF Fresh
<1>2. ASSUME NEW a \in DOMAIN h PROVE a[1] \in n..(m - 1)
  <2>1. CASE a \in DOMAIN g
    BY <2>1 DEF Fresh
  <2>2. CASE a \in DOMAIN f
    BY <2>2 DEF Fresh
  <2> QED BY <2>1, <2>2
<1>3. ASSUME NEW a \in DOMAIN h, NEW s \in Segments, IsMap(h[a][s])
      PROVE  a[2] = Root /\ h[a][s].at = <<a[1], s>>
  BY <1>3 DEF Fresh
<1> HIDE DEF h
<1>4. Fresh(h, n, m)
  BY <1>1, <1>2, <1>3 DEF Fresh
<1> QED BY <1>4 DEF h

(* An allocation leaves what is there alone, and keeps the heap in order.  *)
LEMMA Allocate ==
  ASSUME HeapInv, NEW cells, NEW m \in Nat, m >= next, m <= MaxAllocs + 1,
         Fresh(cells, next, m), heap' = Added(cells), next' = m
  PROVE  /\ HeapInv'
         /\ \A a : Allocated(a, next) => Allocated(a, next') /\ heap'[a] = heap[a]
<1>1. DOMAIN heap' = Addresses /\ next \in Nat /\ MaxAllocs \in Nat
  BY WrapperAssumption DEF Added, HeapInv
<1>2. ASSUME NEW a \in Addresses
      PROVE  heap'[a] = IF a \in DOMAIN cells THEN cells[a] ELSE heap[a]
  BY DEF Added
<1>3. ASSUME NEW a, Allocated(a, next) PROVE Allocated(a, next') /\ heap'[a] = heap[a]
  <2>1. a \in Addresses /\ a[1] \in 1..(next - 1)
    BY <1>3 DEF Allocated
  <2>2. a \notin DOMAIN cells
    BY <1>1, <2>1 DEF Fresh
  <2> QED BY <1>1, <1>2, <2>1, <2>2 DEF Allocated
<1>4. ASSUME NEW a \in DOMAIN cells, NEW s \in Segments, IsMap(cells[a][s])
      PROVE  /\ a[2] = Root /\ cells[a][s].at = <<a[1], s>>
             /\ <<a[1], s>> \in Addresses /\ a[1] \in next..(m - 1)
  BY <1>1, <1>4 DEF Fresh, Addresses, HeapInv
<1>5. RefsPlaced'
  <2> SUFFICES ASSUME NEW a \in Addresses, NEW s \in Segments, IsMap(heap'[a][s])
               PROVE  a[2] = Root /\ Allocated(heap'[a][s].at, next') /\ heap'[a][s].at[2] = s
    BY DEF RefsPlaced
  <2>1. CASE a \in DOMAIN cells
    <3>1. heap'[a][s] = cells[a][s]
      BY <1>2, <2>1
    <3>2. a[2] = Root /\ heap'[a][s].at = <<a[1], s>> /\ <<a[1], s>> \in Addresses
            /\ a[1] \in next..(m - 1)
      BY <1>4, <2>1, <3>1
    <3>3. a[1] \in 1..(m - 1)
      BY <1>1, <3>2 DEF HeapInv
    <3> QED BY <1>1, <3>2, <3>3 DEF Allocated
  <2>2. CASE a \notin DOMAIN cells
    <3>1. heap'[a][s] = heap[a][s]
      BY <1>2, <2>2
    <3>2. a[2] = Root /\ Allocated(heap[a][s].at, next) /\ heap[a][s].at[2] = s
      BY <3>1 DEF HeapInv, RefsPlaced
    <3> QED BY <1>3, <3>1, <3>2
  <2> QED BY <2>1, <2>2
<1>6. RefsUnique'
  <2> SUFFICES ASSUME NEW a \in Addresses, NEW b \in Addresses, NEW s \in Segments,
                      IsMap(heap'[a][s]), heap'[a][s].at = heap'[b][s].at
               PROVE  a = b
    BY DEF RefsUnique, IsMap
  <2>0. IsMap(heap'[b][s])
    BY DEF IsMap
  <2>1. ASSUME NEW c \in Addresses, IsMap(heap'[c][s])
        PROVE  /\ c \in DOMAIN cells => heap'[c][s].at = <<c[1], s>> /\ c[2] = Root /\ c[1] >= next
               /\ c \notin DOMAIN cells => heap'[c][s] = heap[c][s] /\ heap[c][s].at[1] < next
    <3>1. CASE c \in DOMAIN cells
      <4>1. IsMap(cells[c][s]) /\ heap'[c][s] = cells[c][s]
        BY <1>2, <2>1, <3>1
      <4>2. c[2] = Root /\ heap'[c][s].at = <<c[1], s>> /\ c[1] \in next..(m - 1)
        BY <1>4, <3>1, <4>1
      <4>3. c[1] >= next
        BY <1>1, <4>2
      <4> QED BY <3>1, <4>2, <4>3
    <3>2. CASE c \notin DOMAIN cells
      <4>1. IsMap(heap[c][s]) /\ heap'[c][s] = heap[c][s]
        BY <1>2, <2>1, <3>2
      <4>2. Allocated(heap[c][s].at, next)
        BY <4>1 DEF HeapInv, RefsPlaced
      <4> QED BY <1>1, <3>2, <4>1, <4>2 DEF Allocated
    <3> QED BY <3>1, <3>2
  <2>2. a = <<a[1], a[2]>> /\ b = <<b[1], b[2]>> /\ a[1] \in Nat /\ b[1] \in Nat
    BY <1>1 DEF Addresses
  <2>3. CASE a \in DOMAIN cells /\ b \in DOMAIN cells
    BY <2>0, <2>1, <2>2, <2>3
  <2>4. CASE a \notin DOMAIN cells /\ b \notin DOMAIN cells
    BY <2>0, <2>1, <2>4 DEF HeapInv, RefsUnique
  <2>5. CASE (a \in DOMAIN cells) # (b \in DOMAIN cells)
    BY <1>1, <2>0, <2>1, <2>2, <2>5
  <2> QED BY <2>3, <2>4, <2>5
<1> QED BY <1>1, <1>3, <1>5, <1>6 DEF HeapInv

(* A write that puts no reference in keeps the heap in order.              *)
LEMMA NoNewRefs ==
  ASSUME HeapInv, DOMAIN heap' = Addresses, next' = next,
         \A a \in Addresses : \A s \in Segments :
           IsMap(heap'[a][s]) => heap'[a][s] = heap[a][s]
  PROVE  HeapInv'
<1>1. RefsPlaced'
  BY DEF HeapInv, RefsPlaced
<1>2. RefsUnique'
  <2> SUFFICES ASSUME NEW a \in Addresses, NEW b \in Addresses, NEW s \in Segments,
                      IsMap(heap'[a][s]), heap'[a][s].at = heap'[b][s].at
               PROVE  a = b
    BY DEF RefsUnique, IsMap
  <2>1. IsMap(heap'[b][s])
    BY DEF IsMap
  <2> QED BY <2>1 DEF HeapInv, RefsUnique
<1> QED BY <1>1, <1>2 DEF HeapInv

LEMMA Write ==
  ASSUME HeapInv, NEW a \in Addresses, NEW s \in Segments, NEW n,
         heap' = Enter(a, s, Num(n)), next' = next
  PROVE  HeapInv' /\ \A b \in Addresses : b # a => heap'[b] = heap[b]
<1>1. /\ DOMAIN heap' = Addresses
      /\ \A b \in Addresses : b # a => heap'[b] = heap[b]
      /\ \A t \in Segments : heap'[a][t] = IF t = s THEN Num(n) ELSE heap[a][t]
  BY DEF HeapInv, Enter
<1>2. ASSUME NEW b \in Addresses, NEW t \in Segments, IsMap(heap'[b][t])
      PROVE  heap'[b][t] = heap[b][t]
  BY <1>1, <1>2, NumIsNoMap
<1> QED BY <1>1, <1>2, NoNewRefs

(* Nothing the others get at is part of the stack.                         *)
LEMMA Separate ==
  ASSUME WrapperInv
  PROVE  /\ Reached \cap StackCells = {}
         /\ \A a \in Reached \cup StackCells : Allocated(a, next)
<1>1. ASSUME NEW r \in Owned \cup held \cup {stack[i] : i \in DOMAIN stack}
      PROVE  Allocated(r, next) /\ r \in Addresses
  BY DEF WrapperInv, RootsInv, AllocatedRoot, Allocated
<1>2. ASSUME NEW r \in Addresses, NEW a \in Subs(r)
      PROVE  /\ Allocated(a, next)
             /\ \E s \in Segments : IsMap(heap[r][s]) /\ heap[r][s].at = a /\ a[2] = s
  BY DEF Subs, WrapperInv, HeapInv, RefsPlaced
<1>3. ASSUME NEW r \in Owned \cup held, NEW i \in DOMAIN stack, NEW a \in Reach(r)
      PROVE  a \notin Reach(stack[i])
  <2>1. a \in Reach(stack[i]) => a \in StackCells
    BY DEF StackCells
  <2>2. stack[i] \in StackCells
    BY DEF StackCells, Reach
  <2>3. CASE a = r
    BY <2>1, <2>3 DEF WrapperInv, StackPrivate
  <2>4. CASE a \in Subs(r)
    <3>1. PICK s \in Segments : IsMap(heap[r][s]) /\ heap[r][s].at = a /\ a[2] = s
      BY <1>1, <1>2, <2>4
    <3>2. stack[i] # a
      BY <3>1, WrapperAssumption DEF WrapperInv, RootsInv, AllocatedRoot
    <3>3. ASSUME a \in Subs(stack[i]) PROVE FALSE
      <4>1. PICK t \in Segments : IsMap(heap[stack[i]][t]) /\ heap[stack[i]][t].at = a /\ a[2] = t
        BY <1>1, <1>2, <3>3
      <4>2. r = stack[i]
        BY <1>1, <3>1, <4>1 DEF WrapperInv, HeapInv, RefsUnique
      <4> QED BY <2>2, <4>2 DEF WrapperInv, StackPrivate
    <3> QED BY <3>2, <3>3 DEF Reach
  <2> QED BY <2>3, <2>4 DEF Reach
<1>4. Reached \cap StackCells = {}
  BY <1>3 DEF Reached, StackCells
<1>5. ASSUME NEW r \in Owned \cup held \cup {stack[i] : i \in DOMAIN stack}, NEW a \in Reach(r)
      PROVE  Allocated(a, next)
  BY <1>1, <1>2 DEF Reach
<1>6. ASSUME NEW a \in Reached \cup StackCells PROVE Allocated(a, next)
  BY <1>5 DEF Reached, StackCells
<1> QED BY <1>4, <1>6

(* So such a step keeps the invariant, and every snapshot of the stack.    *)
LEMMA ProperKeeps ==
  ASSUME WrapperInv, Proper
  PROVE  /\ WrapperInv'
         /\ stack' = stack
         /\ \A i \in DOMAIN stack : Tree(stack[i])' = Tree(stack[i])
<1>1. \A a \in StackCells : heap'[a] = heap[a]
  BY Separate DEF Proper
<1>2. next \in Nat /\ next' \in Nat /\ next <= next'
  BY WrapperAssumption DEF WrapperInv, HeapInv, Proper
<1>3. ASSUME NEW a, Allocated(a, next) PROVE Allocated(a, next')
  BY <1>2, <1>3 DEF Allocated
<1>4. ASSUME NEW i \in DOMAIN stack
      PROVE  /\ heap'[stack[i]] = heap[stack[i]]
             /\ \A s \in Segments : IsMap(heap[stack[i]][s]) =>
                  heap'[heap[stack[i]][s].at] = heap[heap[stack[i]][s].at]
  BY <1>1 DEF StackCells, Reach, Subs
<1>5. StackCells' = StackCells
  <2>1. \A i \in DOMAIN stack : Reach(stack[i])' = Reach(stack[i])
    BY <1>4 DEF Reach, Subs, Proper
  <2> QED BY <2>1 DEF StackCells, Proper
<1>6. RootsInv'
  <2>1. ASSUME NEW r \in Owned' \cup {stack[i] : i \in DOMAIN stack} PROVE AllocatedRoot(r, next')
    BY <1>3 DEF Proper, WrapperInv, RootsInv, AllocatedRoot
  <2>2. ASSUME NEW a \in held' PROVE Allocated(a, next')
    BY <1>3, Separate DEF Proper
  <2> QED BY <2>1, <2>2 DEF Proper, WrapperInv, RootsInv
<1>7. StackPrivate'
  <2>1. ASSUME NEW a \in StackCells PROVE a \notin Owned' \cup held'
    <3>1. Allocated(a, next) /\ a \notin Reached /\ a \notin Owned
      BY Separate DEF WrapperInv, StackPrivate
    <3>2. ~(a[1] >= next)
      BY <1>2, <3>1 DEF Allocated
    <3> QED BY <3>1, <3>2 DEF Proper
  <2> QED BY <1>5, <2>1 DEF StackPrivate
<1>8. \A i \in DOMAIN stack : Tree(stack[i])' = Tree(stack[i])
  BY <1>4 DEF Tree, Proper
<1> QED BY <1>6, <1>7, <1>8 DEF Proper, WrapperInv

-----------------------------------------------------------------------------
LEMMA NextIsNat ==
  ASSUME WrapperInv
  PROVE  next \in Nat \ {0} /\ MaxAllocs \in Nat /\ next <= MaxAllocs + 1
BY WrapperAssumption DEF WrapperInv, HeapInv

LEMMA OwnedAndHeldReached == Owned \cup held \subseteq Reached
BY DEF Reached, Reach

(* What a step that changes one wrapper, or none, adds to the roots.       *)
LEMMA OneWrapper ==
  ASSUME WrapperInv, NEW w \in Wrappers, NEW r, IsWrapper(r),
         opts' = [opts EXCEPT ![w] = r]
  PROVE  /\ AreWrappers(opts')
         /\ \A x \in Owned' : \/ x \in Owned \/ x = r.value
                              \/ \E i \in DOMAIN r.layers : x = r.layers[i]
<1>1. /\ DOMAIN opts' = Wrappers /\ opts'[w] = r
      /\ \A v \in Wrappers : v # w => opts'[v] = opts[v]
  BY DEF WrapperInv, RootsInv, AreWrappers
<1>2. AreWrappers(opts')
  BY <1>1 DEF WrapperInv, RootsInv, AreWrappers
<1> QED BY <1>1, <1>2 DEF Owned, Live, KeptBy

LEMMA SameWrappers ==
  ASSUME WrapperInv, opts' = opts
  PROVE  AreWrappers(opts') /\ Owned' = Owned
BY DEF WrapperInv, RootsInv, AreWrappers, Owned, Live, KeptBy

(* A step that allocates.                                                  *)
LEMMA Allocates ==
  ASSUME WrapperInv, NEW cells, NEW k \in Nat, Room(k),
         Fresh(cells, next, next + k), heap' = Added(cells), next' = next + k
  PROVE  /\ HeapInv' /\ next <= next'
         /\ \A a : Allocated(a, next) => heap'[a] = heap[a]
         /\ \A a \in DOMAIN cells : Allocated(a, next') /\ a[1] >= next
<1>1. next \in Nat \ {0} /\ next + k \in Nat /\ next + k >= next /\ next + k <= MaxAllocs + 1
  BY NextIsNat DEF Room
<1>2. HeapInv' /\ \A a : Allocated(a, next) => heap'[a] = heap[a]
  BY <1>1, Allocate DEF WrapperInv
<1>3. ASSUME NEW a \in DOMAIN cells PROVE Allocated(a, next') /\ a[1] >= next
  <2>1. a \in Addresses /\ a[1] \in next..(next + k - 1)
    BY <1>1, <1>3 DEF Fresh
  <2> QED BY <1>1, <2>1 DEF Allocated
<1> QED BY <1>1, <1>2, <1>3

LEMMA ClonesOfStack ==
  ASSUME WrapperInv, Room(Len(stack))
  PROVE  /\ Fresh(ClonesOf(next, stack), next, next + Len(stack))
         /\ \A i \in DOMAIN stack : RootOf(next + i - 1) \in DOMAIN ClonesOf(next, stack)
<1>1. next \in Nat \ {0} /\ Len(stack) \in Nat /\ DOMAIN stack = 1..Len(stack)
      /\ next + Len(stack) <= MaxAllocs + 1
  BY NextIsNat DEF Room, WrapperInv, RootsInv
<1> QED BY <1>1, ClonesFresh

LEMMA StackLayersProper == ASSUME WrapperInv, StackLayers PROVE Proper
<1>1. Len(stack) \in Nat
  BY DEF WrapperInv, RootsInv
<1>2. /\ Fresh(ClonesOf(next, stack), next, next + Len(stack))
      /\ \A i \in DOMAIN stack : RootOf(next + i - 1) \in DOMAIN ClonesOf(next, stack)
  BY ClonesOfStack DEF StackLayers
<1>3. /\ HeapInv' /\ next <= next'
      /\ \A a : Allocated(a, next) => heap'[a] = heap[a]
      /\ \A a \in DOMAIN ClonesOf(next, stack) : Allocated(a, next') /\ a[1] >= next
  BY <1>1, <1>2, Allocates DEF StackLayers
<1>4. AreWrappers(opts') /\ Owned' = Owned
  BY SameWrappers DEF StackLayers
<1>5. \A x \in held' : x \in Reached \/ (Allocated(x, next') /\ x[1] >= next)
  BY <1>2, <1>3, OwnedAndHeldReached DEF StackLayers
<1> QED BY <1>3, <1>4, <1>5 DEF Proper, StackLayers

LEMMA MergeProper == ASSUME WrapperInv, NEW w \in Wrappers, Merge(w) PROVE Proper
<1> DEFINE k == Len(stack)
           merged == Planted(next + k, Merged(stack))
           kept == ClonesOf(next, stack)
           cells == [a \in DOMAIN kept \cup DOMAIN merged |->
                       IF a \in DOMAIN merged THEN merged[a] ELSE kept[a]]
           wrapper == Wrapper(RootOf(next + k), RootsFrom(next, k), Made(w))
<1>1. /\ k \in Nat /\ DOMAIN stack = 1..k /\ next \in Nat \ {0} /\ MaxAllocs \in Nat
      /\ next + k + 1 <= MaxAllocs + 1 /\ Room(k) /\ Room(k + 1)
  BY NextIsNat DEF WrapperInv, RootsInv, Merge, Room
<1>2. /\ Fresh(kept, next, next + k)
      /\ \A i \in 1..k : RootOf(next + i - 1) \in DOMAIN kept
  BY <1>1, ClonesOfStack
<1>3. Fresh(merged, next + k, next + k + 1) /\ RootOf(next + k) \in DOMAIN merged
  BY <1>1, PlantedFresh
<1>4. Fresh(cells, next, next + (k + 1))
  <2>1. next + k \in Nat /\ next + k + 1 = next + (k + 1)
    BY <1>1
  <2> HIDE DEF kept, merged, k
  <2> QED BY <1>1, <1>2, <1>3, <2>1, FreshUnion
<1>5. heap' = Added(cells) /\ next' = next + (k + 1) /\ opts' = [opts EXCEPT ![w] = wrapper]
  BY <1>1 DEF Merge
<1>6. /\ HeapInv' /\ next <= next'
      /\ \A a : Allocated(a, next) => heap'[a] = heap[a]
      /\ \A a \in DOMAIN cells : Allocated(a, next') /\ a[1] >= next
  <2> HIDE DEF cells
  <2> QED BY <1>1, <1>4, <1>5, Allocates
<1>7. /\ AreWrappers(opts')
      /\ \A x \in Owned' : \/ x \in Owned \/ x = RootOf(next + k)
                           \/ \E i \in 1..k : x = RootOf(next + i - 1)
  <2>1. /\ AreWrappers(opts')
        /\ \A x \in Owned' : \/ x \in Owned \/ x = wrapper.value
                             \/ \E i \in DOMAIN wrapper.layers : x = wrapper.layers[i]
    <3>1. IsWrapper(wrapper)
      BY WrapperFields
    <3> HIDE DEF wrapper
    <3> QED BY <1>5, <3>1, OneWrapper
  <2>2. wrapper.value = RootOf(next + k) /\ wrapper.layers = RootsFrom(next, k)
    BY WrapperFields
  <2> HIDE DEF wrapper
  <2> QED BY <2>1, <2>2 DEF RootsFrom
<1>8. ASSUME NEW x \in Owned', x \notin Owned PROVE AllocatedRoot(x, next') /\ x[1] >= next
  <2>1. x \in DOMAIN cells /\ x[2] = Root
    BY <1>2, <1>3, <1>7, <1>8 DEF RootOf
  <2> QED BY <1>6, <2>1 DEF AllocatedRoot
<1>9. \A x \in held' : x \in Reached
  BY OwnedAndHeldReached DEF Merge
<1> QED BY <1>6, <1>7, <1>8, <1>9 DEF Proper, Merge

LEMMA NewProper == ASSUME WrapperInv, NEW w \in Wrappers, New(w) PROVE Proper
<1>1. PICK root \in SourceRoots :
        opts' = [opts EXCEPT ![w] = Wrapper(root, << >>, Given(root))]
  BY DEF New
<1> DEFINE r == Wrapper(root, << >>, Given(root))
<1>2. /\ AreWrappers(opts')
      /\ \A x \in Owned' : x \in Owned \/ x = r.value \/ \E i \in DOMAIN r.layers : x = r.layers[i]
  <2>1. IsWrapper(r) /\ opts' = [opts EXCEPT ![w] = r]
    BY <1>1, WrapperFields
  <2> HIDE DEF r
  <2> QED BY <2>1, OneWrapper
<1>3. \A x \in Owned' : x \in Owned
  BY <1>2, WrapperFields DEF Owned
<1>4. HeapInv' /\ next <= next'
  BY NextIsNat DEF New, WrapperInv, HeapInv, RefsPlaced, RefsUnique
<1> QED BY <1>2, <1>3, <1>4, OwnedAndHeldReached DEF Proper, New

(* Clone and WithValue give the new wrapper roots there are already.       *)
LEMMA CopyProper ==
  ASSUME WrapperInv, NEW w \in Wrappers, NEW v \in Wrappers, Clone(w, v) \/ WithValue(w, v)
  PROVE  Proper
<1>1. opts[w].live /\ opts[w].value \in Owned /\ IsWrapper(opts[w])
  BY DEF Clone, WithValue, Owned, Live, WrapperInv, RootsInv, AreWrappers
<1>2. PICK r : /\ opts' = [opts EXCEPT ![v] = r] /\ IsWrapper(r)
               /\ r.value \in Owned /\ r.layers = opts[w].layers
  <2>1. CASE Clone(w, v)
    BY <1>1, <2>1 DEF Clone
  <2>2. CASE WithValue(w, v)
    <3>1. PICK root \in SourceRoots :
            opts' = [opts EXCEPT ![v] = Wrapper(root, opts[w].layers, Given(root))]
      BY <2>2 DEF WithValue
    <3>2. PICK r : r = Wrapper(root, opts[w].layers, Given(root))
      OBVIOUS
    <3>3. IsWrapper(r) /\ r.value = root /\ r.layers = opts[w].layers
      BY <3>2, WrapperFields
    <3> QED BY <3>1, <3>2, <3>3 DEF Owned
  <2> QED BY <2>1, <2>2
<1>3. /\ AreWrappers(opts')
      /\ \A x \in Owned' : x \in Owned \/ x = r.value \/ \E i \in DOMAIN r.layers : x = r.layers[i]
  BY <1>2, OneWrapper
<1>4. \A i \in DOMAIN opts[w].layers : opts[w].layers[i] \in Owned
  BY DEF Clone, WithValue, Owned, Live, KeptBy
<1>5. HeapInv' /\ next <= next'
  BY NextIsNat DEF Clone, WithValue, WrapperInv, HeapInv, RefsPlaced, RefsUnique
<1> QED BY <1>2, <1>3, <1>4, <1>5, OwnedAndHeldReached DEF Proper, Clone, WithValue

LEMMA LayerWithProper ==
  ASSUME WrapperInv, NEW w \in Wrappers, NEW v \in Wrappers, LayerWith(w, v)
  PROVE  Proper
<1>1. PICK tree : heap' = Added(Planted(next, tree))
  BY DEF LayerWith
<1>2. next \in 1..MaxAllocs
  BY NextIsNat DEF LayerWith, Room
<1>3. /\ Fresh(Planted(next, tree), next, next + 1)
      /\ RootOf(next) \in DOMAIN Planted(next, tree)
  BY <1>2, PlantedFresh
<1>4. /\ HeapInv' /\ next <= next'
      /\ \A a : Allocated(a, next) => heap'[a] = heap[a]
      /\ \A a \in DOMAIN Planted(next, tree) : Allocated(a, next') /\ a[1] >= next
  BY <1>1, <1>3, Allocates DEF LayerWith
<1>5. /\ opts[w].live
      /\ \A i \in DOMAIN opts[w].layers : opts[w].layers[i] \in Owned
  BY DEF LayerWith, Owned, Live, KeptBy
<1>6. PICK r : /\ opts' = [opts EXCEPT ![v] = r] /\ IsWrapper(r)
               /\ r.layers = opts[w].layers /\ r.value = RootOf(next)
  <2> DEFINE r == Wrapper(RootOf(next), opts[w].layers, Made(v))
  <2>1. IsWrapper(opts[w])
    BY DEF WrapperInv, RootsInv, AreWrappers
  <2>2. IsWrapper(r) /\ r.value = RootOf(next) /\ r.layers = opts[w].layers
    BY <2>1, WrapperFields
  <2> QED BY <2>2 DEF LayerWith
<1>7. /\ AreWrappers(opts')
      /\ \A x \in Owned' : x \in Owned \/ x = r.value \/ \E i \in DOMAIN r.layers : x = r.layers[i]
  BY <1>6, OneWrapper
<1>8. AllocatedRoot(r.value, next') /\ r.value[1] >= next
  BY <1>3, <1>4, <1>6 DEF AllocatedRoot, RootOf
<1> QED BY <1>4, <1>5, <1>6, <1>7, <1>8, OwnedAndHeldReached DEF Proper, LayerWith

(* A write into a map that others than the stack get at.                   *)
LEMMA WriteProper ==
  ASSUME WrapperInv, NEW a \in Reached, NEW s \in Segments, NEW n,
         heap' = Enter(a, s, Num(n)), UNCHANGED <<next, stack, opts, held>>
  PROVE  Proper
<1>1. a \in Addresses
  BY Separate DEF Allocated
<1>2. HeapInv' /\ \A b \in Addresses : b # a => heap'[b] = heap[b]
  BY <1>1, Write DEF WrapperInv
<1>3. AreWrappers(opts') /\ Owned' = Owned
  BY SameWrappers
<1> QED BY <1>2, <1>3, NextIsNat, OwnedAndHeldReached DEF Proper, Allocated

LEMMA ValueReached ==
  ASSUME NEW w \in Wrappers, opts[w].live
  PROVE  /\ opts[w].value \in Reached /\ opts[w].value \in Owned
         /\ \A s \in Segments : IsMap(heap[opts[w].value][s]) => heap[opts[w].value][s].at \in Reached
<1>1. opts[w].value \in Owned
  BY DEF Owned, Live
<1> QED BY <1>1 DEF Reached, Reach, Subs

LEMMA SetMakingProper ==
  ASSUME WrapperInv, NEW w \in Wrappers, NEW s \in Segments, NEW t \in Segments, NEW n,
         SetMaking(w, s, t, n)
  PROVE  Proper
<1> DEFINE root == opts[w].value
           made == <<next, s>>
<1>1. root \in Reached /\ AllocatedRoot(root, next)
  BY ValueReached DEF SetMaking, WrapperInv, RootsInv
<1>2. next \in Nat \ {0} /\ next' = next + 1 /\ next' <= MaxAllocs + 1 /\ MaxAllocs \in Nat
  BY NextIsNat DEF SetMaking, Room
<1>3. made \in Addresses /\ made # root /\ Allocated(made, next') /\ ~Allocated(made, next)
  BY <1>1, <1>2, WrapperAssumption DEF Addresses, Allocated, AllocatedRoot
<1>4. /\ DOMAIN heap' = Addresses
      /\ \A a \in Addresses : a # root /\ a # made => heap'[a] = heap[a]
      /\ \A x \in Segments : heap'[root][x] = IF x = s THEN Ref(made) ELSE heap[root][x]
      /\ \A x \in Segments : ~IsMap(heap'[made][x])
  <2>1. heap' = [Enter(root, s, Ref(made)) EXCEPT
                   ![made] = [x \in Segments |-> IF x = t THEN Num(n) ELSE NoEntry]]
    BY DEF SetMaking
  <2>2. \A x \in Segments : ~IsMap((IF x = t THEN Num(n) ELSE NoEntry))
    BY NumIsNoMap DEF NoEntry
  <2>3. DOMAIN heap = Addresses /\ root \in Addresses
    BY <1>1 DEF WrapperInv, HeapInv, AllocatedRoot, Allocated
  <2> QED BY <1>3, <2>1, <2>2, <2>3 DEF Enter
<1> HIDE DEF root
<1>5. ASSUME NEW a \in Addresses, NEW x \in Segments, IsMap(heap'[a][x])
      PROVE  \/ heap'[a][x] = heap[a][x] /\ IsMap(heap[a][x])
             \/ a = root /\ x = s /\ heap'[a][x].at = made
  BY <1>3, <1>4, <1>5 DEF Ref
<1>6. ASSUME NEW a, Allocated(a, next) PROVE Allocated(a, next')
  BY <1>2, <1>6 DEF Allocated
<1>7. RefsPlaced'
  <2> SUFFICES ASSUME NEW a \in Addresses, NEW x \in Segments, IsMap(heap'[a][x])
               PROVE  a[2] = Root /\ Allocated(heap'[a][x].at, next') /\ heap'[a][x].at[2] = x
    BY DEF RefsPlaced
  <2> QED BY <1>1, <1>3, <1>5, <1>6 DEF WrapperInv, HeapInv, RefsPlaced, AllocatedRoot
<1>8. RefsUnique'
  <2> SUFFICES ASSUME NEW a \in Addresses, NEW b \in Addresses, NEW x \in Segments,
                      IsMap(heap'[a][x]), heap'[a][x].at = heap'[b][x].at
               PROVE  a = b
    BY DEF RefsUnique, IsMap
  <2>1. IsMap(heap'[b][x])
    BY DEF IsMap
  <2>2. \A c \in Addresses : IsMap(heap[c][x]) => heap[c][x].at # made
    BY <1>3 DEF WrapperInv, HeapInv, RefsPlaced
  <2> QED BY <1>5, <2>1, <2>2 DEF WrapperInv, HeapInv, RefsUnique
<1>9. AreWrappers(opts') /\ Owned' = Owned /\ stack' = stack /\ held' = held
  BY SameWrappers DEF SetMaking
<1>10. HeapInv'
  BY <1>2, <1>4, <1>7, <1>8 DEF HeapInv
<1>11. \A a : Allocated(a, next) /\ a \notin Reached => heap'[a] = heap[a]
  BY <1>1, <1>3, <1>4 DEF Allocated
<1> QED BY <1>2, <1>9, <1>10, <1>11, OwnedAndHeldReached DEF Proper

LEMMA SetProper == ASSUME WrapperInv, NEW w \in Wrappers, Set(w) PROVE Proper
<1>1. PICK s \in Segments, n \in Numbers :
        SetShort(w, s, n) \/ \E t \in Segments : SetThrough(w, s, t, n) \/ SetMaking(w, s, t, n)
  BY DEF Set
<1>2. CASE SetShort(w, s, n)
  BY <1>2, ValueReached, WriteProper DEF SetShort
<1>3. ASSUME NEW t \in Segments, SetThrough(w, s, t, n) PROVE Proper
  BY <1>3, ValueReached, WriteProper DEF SetThrough
<1>4. ASSUME NEW t \in Segments, SetMaking(w, s, t, n) PROVE Proper
  BY <1>4, SetMakingProper
<1> QED BY <1>1, <1>2, <1>3, <1>4

LEMMA CallerWritesProper == ASSUME WrapperInv, CallerWrites PROVE Proper
<1>1. PICK a \in UNION {Reach(r) : r \in SourceRoots \cup held}, s \in Segments, n \in Numbers :
        heap' = Enter(a, s, Num(n))
  BY DEF CallerWrites
<1>2. a \in Reached
  BY DEF Reached, Owned
<1> QED BY <1>1, <1>2, WriteProper DEF CallerWrites

(* Get and Trace hand out maps under roots that are owned.                 *)
LEMMA HandOutProper ==
  ASSUME WrapperInv, NEW w \in Wrappers, NEW s \in Segments, Get(w, s) \/ Trace(w, s)
  PROVE  Proper
<1>1. ASSUME NEW roots, roots \subseteq Owned PROVE MapsAt(roots, s) \subseteq Reached
  BY <1>1 DEF MapsAt, Reached, Reach, Subs
<1>2. opts[w].value \in Owned /\ {opts[w].layers[i] : i \in DOMAIN opts[w].layers} \subseteq Owned
  BY DEF Get, Trace, Owned, Live, KeptBy
<1>3. PICK roots : roots \subseteq Owned /\ held' = held \cup MapsAt(roots, s)
  BY <1>2 DEF Get, Trace
<1>4. AreWrappers(opts') /\ Owned' = Owned
  BY SameWrappers DEF Get, Trace
<1>5. HeapInv' /\ next <= next'
  BY NextIsNat DEF Get, Trace, WrapperInv, HeapInv, RefsPlaced, RefsUnique
<1> QED BY <1>1, <1>3, <1>4, <1>5, OwnedAndHeldReached DEF Proper, Get, Trace

LEMMA StutterProper == ASSUME WrapperInv, UNCHANGED vars PROVE Proper
<1>1. AreWrappers(opts') /\ Owned' = Owned
  BY SameWrappers DEF vars
<1>2. HeapInv' /\ next <= next'
  BY NextIsNat DEF vars, WrapperInv, HeapInv, RefsPlaced, RefsUnique
<1> QED BY <1>1, <1>2, OwnedAndHeldReached DEF Proper, vars

(* The stack is made of clones: nobody else has them.                      *)
LEMMA BuildStackKeeps == ASSUME WrapperInv, BuildStack PROVE WrapperInv'
<1> DEFINE k == Len(Sources)
           cells == ClonesOf(next, RootsFrom(1, k))
<1>1. /\ k \in Nat /\ next \in Nat \ {0} /\ MaxAllocs \in Nat /\ next + k <= MaxAllocs + 1
      /\ DOMAIN RootsFrom(1, k) = 1..k
  BY NextIsNat, WrapperAssumption DEF BuildStack, Room, RootsFrom
<1>2. /\ Fresh(cells, next, next + k)
      /\ \A i \in 1..k : RootOf(next + i - 1) \in DOMAIN cells
  BY <1>1, ClonesFresh
<1>3. /\ HeapInv' /\ next <= next'
      /\ \A a : Allocated(a, next) => heap'[a] = heap[a]
      /\ \A a \in DOMAIN cells : Allocated(a, next') /\ a[1] >= next
  BY <1>1, <1>2, Allocates DEF BuildStack
<1>4. stack' = [i \in 1..k |-> RootOf(next + i - 1)]
  BY DEF BuildStack, RootsFrom
<1>5. Len(stack') = k /\ DOMAIN stack' = 1..k
  BY <1>1, <1>4
<1>6. AreWrappers(opts') /\ Owned' = Owned
  BY SameWrappers DEF BuildStack
<1>7. ASSUME NEW a, Allocated(a, next) PROVE Allocated(a, next') /\ ~(a[1] >= next)
  BY <1>1, <1>3, <1>7 DEF Allocated, BuildStack
<1>8. ASSUME NEW i \in 1..k
      PROVE  stack'[i] \in DOMAIN cells /\ AllocatedRoot(stack'[i], next') /\ stack'[i][1] >= next
  BY <1>2, <1>3, <1>4 DEF AllocatedRoot, RootOf
<1>9. RootsInv'
  <2>1. \A r \in Owned : AllocatedRoot(r, next')
    BY <1>7 DEF WrapperInv, RootsInv, AllocatedRoot
  <2>2. \A a \in held : Allocated(a, next')
    BY <1>7 DEF WrapperInv, RootsInv
  <2> QED BY <1>1, <1>5, <1>6, <1>8, <2>1, <2>2 DEF RootsInv, BuildStack
<1>10. StackPrivate'
  <2>1. ASSUME NEW i \in 1..k, NEW s \in Segments, IsMap(heap'[stack'[i]][s])
        PROVE  heap'[stack'[i]][s].at[1] >= next
    <3>1. heap'[stack'[i]] = cells[stack'[i]]
      BY <1>2, <1>8 DEF BuildStack, Added, Fresh
    <3>2. heap'[stack'[i]][s].at = <<stack'[i][1], s>>
      BY <1>2, <1>8, <2>1, <3>1 DEF Fresh
    <3> QED BY <1>8, <3>2
  <2>2. \A a \in StackCells' : a[1] >= next
    BY <1>5, <1>8, <2>1 DEF StackCells, Reach, Subs, IsMap
  <2>3. \A a \in Owned' \cup held' : Allocated(a, next)
    BY <1>6 DEF WrapperInv, RootsInv, AllocatedRoot, BuildStack
  <2> QED BY <1>7, <2>2, <2>3 DEF StackPrivate
<1> QED BY <1>3, <1>9, <1>10 DEF WrapperInv

LEMMA WrapperInit == Init => WrapperInv
<1> SUFFICES ASSUME Init PROVE WrapperInv
  OBVIOUS
<1> DEFINE k == Len(Sources)
<1>1. k \in 1..MaxAllocs /\ MaxAllocs \in Nat /\ DOMAIN Sources = 1..k /\ next = k + 1
  BY WrapperAssumption DEF Init
<1>2. ASSUME NEW a \in Addresses, NEW s \in Segments, IsMap(heap[a][s])
      PROVE  a[1] \in 1..k /\ a[2] = Root /\ heap[a][s].at = <<a[1], s>>
  <2>1. ~IsMap(Empty[s])
    BY NumIsNoMap DEF Empty, NoEntry
  <2>2. /\ a[1] \in 1..k /\ a \in Cells(a[1], Sources[a[1]])
        /\ heap[a] = Planted(a[1], Sources[a[1]])[a]
    BY <1>1, <1>2, <2>1 DEF Init
  <2>3. Fresh(Planted(a[1], Sources[a[1]]), a[1], a[1] + 1)
    BY <1>1, <2>2, PlantedFresh
  <2> QED BY <1>2, <2>2, <2>3 DEF Fresh, Planted
<1>3. HeapInv
  <2>1. RefsPlaced
    BY <1>1, <1>2 DEF RefsPlaced, Allocated, Addresses
  <2>2. RefsUnique
    <3> SUFFICES ASSUME NEW a \in Addresses, NEW b \in Addresses, NEW s \in Segments,
                        IsMap(heap[a][s]), heap[a][s].at = heap[b][s].at
                 PROVE  a = b
      BY DEF RefsUnique
    <3>1. IsMap(heap[b][s])
      BY DEF IsMap
    <3>2. a[1] = b[1] /\ a[2] = b[2]
      BY <1>2, <3>1
    <3> QED BY <3>2 DEF Addresses
  <2> QED BY <1>1, <2>1, <2>2 DEF HeapInv, Init
<1>4. /\ Live = {} /\ held = {} /\ Owned = SourceRoots /\ StackCells = {}
      /\ stack = << >> /\ AreWrappers(opts)
  <2>1. stack = << >> /\ held = {} /\ opts = [w \in Wrappers |-> NoWrapper]
    BY DEF Init
  <2>2. Live = {} /\ AreWrappers(opts)
    BY <2>1 DEF Live, NoWrapper, AreWrappers, IsWrapper
  <2>3. Owned = SourceRoots
    BY <2>2 DEF Owned
  <2>4. StackCells = {}
    BY <2>1 DEF StackCells
  <2> QED BY <2>1, <2>2, <2>3, <2>4
<1>5. \A r \in SourceRoots : AllocatedRoot(r, next)
  BY <1>1 DEF SourceRoots, RootOf, AllocatedRoot, Allocated, Addresses
<1>6. RootsInv
  BY <1>4, <1>5 DEF RootsInv
<1> QED BY <1>3, <1>4, <1>6 DEF WrapperInv, StackPrivate

LEMMA WrapperStep ==
  ASSUME WrapperInv, [Next]_vars
  PROVE  Proper \/ BuildStack
<1>1. CASE StackLayers
  BY <1>1, StackLayersProper
<1>2. CASE CallerWrites
  BY <1>2, CallerWritesProper
<1>3. ASSUME NEW w \in Wrappers, Merge(w) \/ New(w) \/ Set(w) PROVE Proper
  BY <1>3, MergeProper, NewProper, SetProper
<1>4. ASSUME NEW w \in Wrappers, NEW v \in Wrappers,
             Clone(w, v) \/ WithValue(w, v) \/ LayerWith(w, v)
      PROVE  Proper
  BY <1>4, CopyProper, LayerWithProper
<1>5. ASSUME NEW w \in Wrappers, NEW s \in Segments, Get(w, s) \/ Trace(w, s) PROVE Proper
  BY <1>5, HandOutProper
<1>6. CASE UNCHANGED vars
  BY <1>6, StutterProper
<1> QED BY <1>1, <1>2, <1>3, <1>4, <1>5, <1>6 DEF Next

LEMMA WrapperKeeps == WrapperInv /\ [Next]_vars => WrapperInv'
BY WrapperStep, ProperKeeps, BuildStackKeeps

LEMMA InvShares == WrapperInv => NoSharedMaps
<1> SUFFICES ASSUME WrapperInv, NEW x \in Roots, NEW y \in Roots, x # y,
                    NEW a \in Reach(x), a \in Reach(y)
             PROVE  FALSE
  BY DEF NoSharedMaps
<1>1. AllocatedRoot(x, next) /\ AllocatedRoot(y, next)
  BY DEF Roots, Owned, WrapperInv, RootsInv
<1>2. ASSUME NEW r \in Addresses, NEW b \in Subs(r)
      PROVE  \E s \in Segments : IsMap(heap[r][s]) /\ heap[r][s].at = b /\ b[2] = s
  BY DEF Subs, WrapperInv, HeapInv, RefsPlaced
<1>3. a \in Subs(x) /\ a \in Subs(y)
  BY <1>1, <1>2, WrapperAssumption DEF Reach, AllocatedRoot, Allocated
<1>4. PICK s \in Segments : IsMap(heap[x][s]) /\ heap[x][s].at = a /\ a[2] = s
  BY <1>1, <1>2, <1>3 DEF AllocatedRoot, Allocated
<1>5. PICK t \in Segments : IsMap(heap[y][t]) /\ heap[y][t].at = a /\ a[2] = t
  BY <1>1, <1>2, <1>3 DEF AllocatedRoot, Allocated
<1> QED BY <1>1, <1>4, <1>5 DEF WrapperInv, HeapInv, RefsUnique, AllocatedRoot, Allocated

(* No two of the sources, the stack's snapshots, the wrappers' values and  *)
(* the layers they keep ever share a map, however they were cloned, merged *)
(* and written to.                                                         *)
THEOREM NothingShared == Spec => []NoSharedMaps
<1>1. Spec => []WrapperInv
  BY WrapperInit, WrapperKeeps, PTL DEF Spec
<1> QED BY <1>1, InvShares, PTL

(* A stack that has been built never changes, whatever is written into the *)
(* sources, the wrappers and the maps that were handed out.                *)
THEOREM StackIsImmutable == Spec => StackNeverChanges
<1>1. WrapperInv /\ [Next]_vars =>
        [stack # << >> => stack' = stack /\ \A i \in DOMAIN stack : Tree(stack[i])' = Tree(stack[i])]_vars
  BY WrapperStep, ProperKeeps DEF BuildStack
<1>2. Spec => []WrapperInv
  BY WrapperInit, WrapperKeeps, PTL DEF Spec
<1> QED BY <1>1, <1>2, PTL DEF Spec, StackNeverChanges
-----------------------------------------------------------------------------
(* Which wrappers have one map: those that came by it in the same way.     *)

MadeFor(w) == opts[w].from \in {Made(v) : v \in Live} /\ opts[w].value \notin SourceRoots

OriginInv ==
  /\ \A w \in Live : opts[w].from = Given(opts[w].value) \/ MadeFor(w)
  /\ \A v, w \in Live : (opts[v].from = opts[w].from) <=> (opts[v].value = opts[w].value)

(* A wrapper that is new has what another has, a map of the program, or a  *)
(* map nobody has.                                                         *)
LEMMA OriginOfNew ==
  ASSUME WrapperInv, OriginInv, NEW v \in Wrappers, ~opts[v].live, NEW r, r.live,
         opts' = [opts EXCEPT ![v] = r],
         \/ \E w \in Live : r.from = opts[w].from /\ r.value = opts[w].value
         \/ r.value \in SourceRoots /\ r.from = Given(r.value)
         \/ r.value[1] >= next /\ r.from = Made(v)
  PROVE  OriginInv'
<1>1. /\ opts'[v] = r /\ \A w \in Wrappers : w # v => opts'[w] = opts[w]
      /\ Live' = Live \cup {v} /\ v \notin Live
  <2>1. opts'[v] = r /\ \A w \in Wrappers : w # v => opts'[w] = opts[w]
    BY DEF WrapperInv, RootsInv, AreWrappers
  <2> QED BY <2>1 DEF Live
<1>2. \A x \in SourceRoots \cup {opts[w].value : w \in Live} : ~(x[1] >= next)
  BY NextIsNat DEF WrapperInv, RootsInv, Owned, AllocatedRoot, Allocated
<1>3. /\ \A x, y : Given(x) # Made(y)
      /\ \A x, y : Given(x) = Given(y) => x = y
      /\ \A x, y : Made(x) = Made(y) => x = y
  BY DEF Given, Made
<1>4. ASSUME NEW w \in Live' PROVE opts'[w].from = Given(opts'[w].value) \/ MadeFor(w)'
  <2>1. CASE w # v
    BY <1>1, <2>1 DEF OriginInv, MadeFor
  <2>2. CASE w = v
    <3>1. ASSUME NEW u \in Live, r.from = opts[u].from, r.value = opts[u].value
          PROVE  r.from = Given(r.value)
                   \/ (r.from \in {Made(x) : x \in Live} /\ r.value \notin SourceRoots)
      BY <3>1 DEF OriginInv, MadeFor
    <3> QED BY <1>1, <1>2, <2>2, <3>1 DEF MadeFor
  <2> QED BY <2>1, <2>2
<1>5. ASSUME NEW w \in Live PROVE (opts[w].from = r.from) <=> (opts[w].value = r.value)
  <2>1. CASE \E u \in Live : r.from = opts[u].from /\ r.value = opts[u].value
    BY <2>1 DEF OriginInv
  <2>2. CASE r.value \in SourceRoots /\ r.from = Given(r.value)
    <3>1. CASE opts[w].from = Given(opts[w].value)
      BY <1>3, <2>2, <3>1
    <3>2. CASE MadeFor(w)
      BY <1>3, <2>2, <3>2 DEF MadeFor
    <3> QED BY <3>1, <3>2 DEF OriginInv
  <2>3. CASE r.value[1] >= next /\ r.from = Made(v)
    <3>1. opts[w].value # r.value
      BY <1>2, <2>3
    <3>2. opts[w].from # r.from
      BY <1>1, <1>3, <2>3 DEF OriginInv, MadeFor
    <3> QED BY <3>1, <3>2
  <2> QED BY <2>1, <2>2, <2>3
<1>6. ASSUME NEW u \in Live', NEW w \in Live'
      PROVE  (opts'[u].from = opts'[w].from) <=> (opts'[u].value = opts'[w].value)
  <2>1. CASE u # v /\ w # v
    BY <1>1, <2>1 DEF OriginInv
  <2>2. CASE u = v /\ w # v
    BY <1>1, <1>5, <2>2
  <2>3. CASE u # v /\ w = v
    BY <1>1, <1>5, <2>3
  <2> QED BY <2>1, <2>2, <2>3
<1> QED BY <1>4, <1>6 DEF OriginInv

LEMMA OriginInit == Init => OriginInv
<1> SUFFICES ASSUME Init PROVE OriginInv
  OBVIOUS
<1>1. Live = {}
  BY DEF Init, Live, NoWrapper
<1> QED BY <1>1 DEF OriginInv

LEMMA OriginStep == WrapperInv /\ OriginInv /\ [Next]_vars => OriginInv'
<1> SUFFICES ASSUME WrapperInv, OriginInv, [Next]_vars PROVE OriginInv'
  OBVIOUS
<1>1. CASE opts' = opts
  <2>1. Live' = Live /\ \A w : MadeFor(w)' <=> MadeFor(w)
    BY <1>1 DEF Live, MadeFor
  <2> QED BY <1>1, <2>1 DEF OriginInv
<1>2. ASSUME NEW w \in Wrappers, Merge(w) PROVE OriginInv'
  <2> DEFINE r == Wrapper(RootOf(next + Len(stack)), RootsFrom(next, Len(stack)), Made(w))
  <2>1. ~opts[w].live /\ opts' = [opts EXCEPT ![w] = r]
    BY <1>2 DEF Merge
  <2>2. r.live /\ r.from = Made(w) /\ r.value = RootOf(next + Len(stack))
    BY WrapperFields
  <2>3. r.value[1] >= next
    BY <2>2, NextIsNat DEF RootOf, WrapperInv, RootsInv
  <2> HIDE DEF r
  <2> QED BY <2>1, <2>2, <2>3, OriginOfNew
<1>3. ASSUME NEW v \in Wrappers, New(v) PROVE OriginInv'
  <2>1. PICK root \in SourceRoots :
          opts' = [opts EXCEPT ![v] = Wrapper(root, << >>, Given(root))]
    BY <1>3 DEF New
  <2> DEFINE r == Wrapper(root, << >>, Given(root))
  <2>2. r.live /\ r.from = Given(root) /\ r.value = root
    BY WrapperFields
  <2>3. opts' = [opts EXCEPT ![v] = r] /\ ~opts[v].live
    BY <1>3, <2>1 DEF New
  <2> HIDE DEF r
  <2> QED BY <2>2, <2>3, OriginOfNew
<1>4. ASSUME NEW w \in Wrappers, NEW v \in Wrappers, Clone(w, v) PROVE OriginInv'
  <2>1. w \in Live /\ opts[w].live /\ ~opts[v].live /\ opts' = [opts EXCEPT ![v] = opts[w]]
    BY <1>4 DEF Clone, Live
  <2> QED BY <2>1, OriginOfNew
<1>5. ASSUME NEW w \in Wrappers, NEW v \in Wrappers, WithValue(w, v) PROVE OriginInv'
  <2>1. PICK root \in SourceRoots :
          opts' = [opts EXCEPT ![v] = Wrapper(root, opts[w].layers, Given(root))]
    BY <1>5 DEF WithValue
  <2> DEFINE r == Wrapper(root, opts[w].layers, Given(root))
  <2>2. r.live /\ r.from = Given(root) /\ r.value = root
    BY WrapperFields
  <2>3. opts' = [opts EXCEPT ![v] = r] /\ ~opts[v].live
    BY <1>5, <2>1 DEF WithValue
  <2> HIDE DEF r
  <2> QED BY <2>2, <2>3, OriginOfNew
<1>6. ASSUME NEW w \in Wrappers, NEW v \in Wrappers, LayerWith(w, v) PROVE OriginInv'
  <2> DEFINE r == Wrapper(RootOf(next), opts[w].layers, Made(v))
  <2>1. r.live /\ r.from = Made(v) /\ r.value = RootOf(next)
        /\ opts' = [opts EXCEPT ![v] = r] /\ ~opts[v].live
    BY <1>6, WrapperFields DEF LayerWith
  <2>2. r.value[1] >= next
    BY <2>1, NextIsNat DEF RootOf
  <2> HIDE DEF r
  <2> QED BY <2>1, <2>2, OriginOfNew
<1>7. \/ opts' = opts
      \/ \E w \in Wrappers : Merge(w) \/ New(w)
      \/ \E w, v \in Wrappers : Clone(w, v) \/ WithValue(w, v) \/ LayerWith(w, v)
  BY DEF Next, vars, BuildStack, StackLayers, CallerWrites, Set, SetShort, SetThrough, SetMaking,
         Get, Trace
<1> QED BY <1>1, <1>2, <1>3, <1>4, <1>5, <1>6, <1>7

(* Set writes into the maps of the wrapper's value only, or makes one.     *)
LEMMA SetReaches ==
  ASSUME WrapperInv, NEW w \in Live, Set(w)
  PROVE  /\ opts' = opts
         /\ \A a : Allocated(a, next) /\ a \notin Reach(opts[w].value) => heap'[a] = heap[a]
<1>1. PICK s \in Segments, n \in Numbers :
        SetShort(w, s, n) \/ \E t \in Segments : SetThrough(w, s, t, n) \/ SetMaking(w, s, t, n)
  BY DEF Set
<1>2. DOMAIN heap = Addresses /\ opts[w].value \in Reach(opts[w].value)
  BY DEF WrapperInv, HeapInv, Reach
<1>3. CASE SetShort(w, s, n)
  BY <1>2, <1>3 DEF SetShort, Enter, Allocated
<1>4. ASSUME NEW t \in Segments, SetThrough(w, s, t, n)
      PROVE  /\ opts' = opts
             /\ \A a : Allocated(a, next) /\ a \notin Reach(opts[w].value) => heap'[a] = heap[a]
  <2>1. heap[opts[w].value][s].at \in Reach(opts[w].value)
    BY <1>4 DEF SetThrough, Reach, Subs
  <2> QED BY <1>2, <1>4, <2>1 DEF SetThrough, Enter, Allocated
<1>5. ASSUME NEW t \in Segments, SetMaking(w, s, t, n)
      PROVE  /\ opts' = opts
             /\ \A a : Allocated(a, next) /\ a \notin Reach(opts[w].value) => heap'[a] = heap[a]
  <2> DEFINE made == <<next, s>>
             root == opts[w].value
  <2>1. /\ heap' = [Enter(root, s, Ref(made)) EXCEPT
                      ![made] = [x \in Segments |-> IF x = t THEN Num(n) ELSE NoEntry]]
        /\ opts' = opts
    BY <1>5 DEF SetMaking
  <2>2. ~Allocated(made, next)
    BY NextIsNat DEF Allocated
  <2>3. ASSUME NEW a, Allocated(a, next), a \notin Reach(root) PROVE heap'[a] = heap[a]
    <3>1. a \in Addresses /\ a # made /\ a # root
      BY <1>2, <2>2, <2>3 DEF Allocated
    <3> HIDE DEF made, root
    <3> QED BY <1>2, <2>1, <3>1 DEF Enter
  <2> QED BY <2>1, <2>3
<1> QED BY <1>1, <1>3, <1>4, <1>5

(* Set shows in the clones of the wrapper and in wrappers that were given  *)
(* the same map, and in no wrapper that Merge or LayerWith made a value.   *)
THEOREM SetShowsInCopies == Spec => SetShowsInCopiesOnly
<1>1. ASSUME WrapperInv, OriginInv, NEW w \in Live, Set(w), NEW v \in Live
      PROVE  Tree(opts[v].value)' =
               IF opts[v].from = opts[w].from THEN Tree(opts[w].value)' ELSE Tree(opts[v].value)
  <2>1. /\ opts' = opts
        /\ \A a : Allocated(a, next) /\ a \notin Reach(opts[w].value) => heap'[a] = heap[a]
    BY <1>1, SetReaches
  <2>2. CASE opts[v].from = opts[w].from
    <3>1. opts'[v].value = opts'[w].value
      BY <1>1, <2>1, <2>2 DEF OriginInv
    <3> QED BY <2>2, <3>1 DEF Tree
  <2>3. CASE opts[v].from # opts[w].from
    <3>1. PICK r : r = opts[v].value
      OBVIOUS
    <3>2. r # opts[w].value /\ r \in Roots /\ opts[w].value \in Roots
      BY <1>1, <2>3, <3>1 DEF OriginInv, Roots
    <3>3. Reach(r) \cap Reach(opts[w].value) = {}
      BY <1>1, <3>2, InvShares DEF NoSharedMaps
    <3>4. r \in Owned
      BY <3>1 DEF Owned
    <3>5. \A a \in Reach(r) : Allocated(a, next)
      BY <1>1, <3>4, Separate DEF Reached
    <3>6. \A a \in Reach(r) : heap'[a] = heap[a]
      BY <2>1, <3>3, <3>5
    <3>7. Tree(r)' = Tree(r)
      BY <3>6 DEF Tree, Reach, Subs
    <3>8. Tree(opts[v].value)' = Tree(r)'
      BY <2>1, <3>1 DEF Tree
    <3> QED BY <2>3, <3>1, <3>7, <3>8
  <2> QED BY <2>2, <2>3
<1>2. WrapperInv /\ OriginInv /\ [Next]_vars =>
        [\A w \in Live : Set(w) =>
           \A v \in Live : Tree(opts[v].value)' =
             IF opts[v].from = opts[w].from THEN Tree(opts[w].value)' ELSE Tree(opts[v].value)]_vars
  BY <1>1
<1>3. Init => WrapperInv /\ OriginInv
  BY WrapperInit, OriginInit
<1>4. WrapperInv /\ OriginInv /\ [Next]_vars => WrapperInv' /\ OriginInv'
  BY WrapperKeeps, OriginStep
<1> QED BY <1>2, <1>3, <1>4, PTL DEF Spec, SetShowsInCopiesOnly

-----------------------------------------------------------------------------
(* The layers a wrapper keeps.  They are clones of the stack's snapshots   *)
(* that only other wrappers keep, so that a write reaches one of them only *)
(* through a map the program was handed.                                   *)

Used      == SourceRoots \cup {opts[w].value : w \in Live}
KeptRoots == UNION {KeptBy(w) : w \in Live}
Writable  == UNION {Reach(r) : r \in Used \cup held}

KeptInv ==
  /\ KeptRoots \cap Used = {}
  /\ \A w \in Live : DOMAIN opts[w].layers \subseteq DOMAIN stack
  /\ ProvenanceSurvivesSet

(* The layers a wrapper gets are none, those of another, or fresh clones.  *)
LayersFrom(w) ==
  \/ DOMAIN opts'[w].layers = {}
  \/ \E v \in Live : opts'[w].layers = opts[v].layers
  \/ /\ DOMAIN opts'[w].layers = DOMAIN stack
     /\ \A i \in DOMAIN stack : Tree(opts[w].layers[i])' = Tree(stack[i])

Careful ==
  /\ held \subseteq held'
  /\ \A a : Allocated(a, next) /\ a \notin Writable => heap'[a] = heap[a]
  /\ \A w \in Live' : LayersFrom(w)
  /\ KeptRoots' \cap Used' = {}

LEMMA TreeShape ==
  ASSUME NEW a
  PROVE  /\ Tree(a) = [s \in Segments |-> Tree(a)[s]]
         /\ \A s \in Segments :
              \/ Tree(a)[s] = Leaf(Tree(a)[s].n)
              \/ Tree(a)[s] = Branch([t \in Segments |-> Tree(a)[s].sub[t]])
<1>1. ASSUME NEW s \in Segments
      PROVE  Tree(a)[s] = IF IsMap(heap[a][s])
                          THEN Branch([t \in Segments |-> heap[heap[a][s].at][t].n])
                          ELSE Leaf(heap[a][s].n)
  BY DEF Tree
<1>2. Tree(a) = [s \in Segments |-> Tree(a)[s]]
  BY DEF Tree
<1>3. ASSUME NEW s \in Segments
      PROVE  \/ Tree(a)[s] = Leaf(Tree(a)[s].n)
             \/ Tree(a)[s] = Branch([t \in Segments |-> Tree(a)[s].sub[t]])
  <2>1. CASE IsMap(heap[a][s])
    <3> DEFINE m == [t \in Segments |-> heap[heap[a][s].at][t].n]
    <3>1. Tree(a)[s] = Branch(m) /\ Branch(m).sub = m
      BY <1>1, <2>1 DEF Branch
    <3>2. [t \in Segments |-> m[t]] = m
      OBVIOUS
    <3> HIDE DEF m
    <3> QED BY <3>1, <3>2
  <2>2. CASE ~IsMap(heap[a][s])
    <3>1. Tree(a)[s] = Leaf(heap[a][s].n)
      BY <1>1, <2>2
    <3> QED BY <3>1 DEF Leaf
  <2> QED BY <2>1, <2>2
<1> QED BY <1>2, <1>3

(* A clone has the tree of what was cloned.                                *)
LEMMA CloneHasTree ==
  ASSUME NEW a, NEW n \in 1..MaxAllocs,
         \A x \in Cells(n, Tree(a)) : heap'[x] = CloneOf(n, a)[x]
  PROVE  Tree(RootOf(n))' = Tree(a)
<1> DEFINE tree == Tree(a)
<1>1. n # 0 /\ Root \notin Segments
  BY WrapperAssumption
<1>2. /\ tree = [s \in Segments |-> tree[s]]
      /\ \A s \in Segments :
           tree[s] = Leaf(tree[s].n) \/ tree[s] = Branch([t \in Segments |-> tree[s].sub[t]])
  BY TreeShape
<1>3. \A x \in Cells(n, tree) : heap'[x] = Planted(n, tree)[x]
  BY DEF CloneOf
<1> HIDE DEF tree
<1>4. ASSUME NEW s \in Segments
      PROVE  heap'[RootOf(n)][s] = IF tree[s].map THEN Ref(<<n, s>>) ELSE Num(tree[s].n)
  <2>1. RootOf(n) \in Cells(n, tree)
    BY DEF Cells
  <2> QED BY <1>3, <2>1 DEF Planted
<1>5. ASSUME NEW s \in Segments
      PROVE  tree[s] = IF IsMap(heap'[RootOf(n)][s])
                       THEN Branch([t \in Segments |-> heap'[heap'[RootOf(n)][s].at][t].n])
                       ELSE Leaf(heap'[RootOf(n)][s].n)
  <2>1. CASE tree[s] = Leaf(tree[s].n)
    <3>1. ~tree[s].map
      BY <2>1 DEF Leaf
    <3>2. heap'[RootOf(n)][s] = Num(tree[s].n)
      BY <1>4, <3>1
    <3>3. heap'[RootOf(n)][s].n = tree[s].n
      BY <3>2 DEF Num
    <3> QED BY <2>1, <3>2, <3>3, NumIsNoMap
  <2>2. CASE tree[s] = Branch([t \in Segments |-> tree[s].sub[t]])
    <3>1. tree[s].map
      BY <2>2 DEF Branch
    <3>2. heap'[RootOf(n)][s] = Ref(<<n, s>>)
      BY <1>4, <3>1
    <3>3. heap'[RootOf(n)][s].at = <<n, s>> /\ IsMap(heap'[RootOf(n)][s])
      BY <1>1, <3>2 DEF Ref, IsMap, Nowhere
    <3>4. <<n, s>> \in Cells(n, tree) /\ <<n, s>> # RootOf(n)
      BY <1>1, <3>1 DEF Cells, RootOf
    <3>5. \A t \in Segments : heap'[<<n, s>>][t] = Num(tree[s].sub[t])
      <4>1. PICK x : x = <<n, s>>
        OBVIOUS
      <4>2. x \in Cells(n, tree) /\ x # RootOf(n) /\ x[2] = s
        BY <3>4, <4>1
      <4>3. heap'[x] = [t \in Segments |-> Num(tree[x[2]].sub[t])]
        BY <1>3, <4>2 DEF Planted
      <4> QED BY <4>1, <4>2, <4>3
    <3>6. \A x : Num(x).n = x
      BY DEF Num
    <3>7. ASSUME NEW t \in Segments PROVE heap'[<<n, s>>][t].n = tree[s].sub[t]
      <4>1. heap'[<<n, s>>][t] = Num(tree[s].sub[t])
        BY <3>5
      <4> QED BY <3>6, <4>1
    <3> QED BY <2>2, <3>3, <3>7
  <2> QED BY <1>2, <2>1, <2>2
<1>6. Tree(RootOf(n))' = [s \in Segments |-> tree[s]]
  BY <1>5 DEF Tree
<1> QED BY <1>2, <1>6 DEF tree

-----------------------------------------------------------------------------
(* A kept layer whose maps nobody was handed is out of reach of writes; of *)
(* one that was handed out, the root is, unless it is what was handed out. *)
LEMMA KeptApart ==
  ASSUME WrapperInv, KeptInv, NEW r \in KeptRoots
  PROVE  /\ AllocatedRoot(r, next) /\ \A a \in Reach(r) : Allocated(a, next)
         /\ r \in held \/ r \notin Writable
         /\ Reach(r) \cap held = {} => Reach(r) \cap Writable = {}
<1>1. /\ AllocatedRoot(r, next) /\ r \notin Used
      /\ \A x \in Used : AllocatedRoot(x, next)
      /\ \A x \in held : Allocated(x, next)
  BY DEF KeptInv, WrapperInv, RootsInv, Owned, Used, KeptRoots
<1>2. ASSUME NEW x, Allocated(x, next), NEW b \in Subs(x)
      PROVE  /\ Allocated(b, next) /\ x[2] = Root /\ b[2] # Root
             /\ \E s \in Segments : IsMap(heap[x][s]) /\ heap[x][s].at = b /\ b[2] = s
  <2>1. \E s \in Segments : IsMap(heap[x][s]) /\ heap[x][s].at = b
    BY DEF Subs
  <2> QED BY <1>2, <2>1, WrapperAssumption DEF WrapperInv, HeapInv, RefsPlaced, Allocated
<1>3. ASSUME NEW x, Allocated(x, next), NEW b \in Subs(r), b \in Subs(x) PROVE x = r
  BY <1>1, <1>2, <1>3 DEF WrapperInv, HeapInv, RefsUnique, AllocatedRoot, Allocated
<1>4. \A a \in Reach(r) : Allocated(a, next)
  BY <1>1, <1>2 DEF Reach, AllocatedRoot
<1>5. ASSUME r \in Writable PROVE r \in held
  <2>1. PICK x \in Used \cup held : r \in Reach(x)
    BY <1>5 DEF Writable
  <2>2. Allocated(x, next) /\ r[2] = Root
    BY <1>1 DEF AllocatedRoot
  <2>3. r = x
    BY <1>2, <2>1, <2>2 DEF Reach
  <2> QED BY <1>1, <2>3
<1>6. ASSUME Reach(r) \cap held = {}, NEW a \in Reach(r), a \in Writable PROVE FALSE
  <2>1. PICK x \in Used \cup held : a \in Reach(x)
    BY <1>6 DEF Writable
  <2>2. Allocated(x, next) /\ x # r /\ r \notin held
    BY <1>1, <1>6 DEF AllocatedRoot, Reach
  <2>3. a \in Subs(r)
    BY <1>5, <1>6, <2>2 DEF Reach
  <2>4. a # x
    BY <1>1, <1>2, <1>6, <2>3 DEF AllocatedRoot
  <2> QED BY <1>3, <2>1, <2>2, <2>3, <2>4 DEF Reach
<1> QED BY <1>1, <1>4, <1>5, <1>6

LEMMA LayerStays ==
  ASSUME WrapperInv, KeptInv, Careful, NEW r \in KeptRoots
  PROVE  /\ Reach(r) \cap held # {} => Reach(r)' \cap held' # {}
         /\ Reach(r) \cap held = {} => Tree(r)' = Tree(r)
<1>1. /\ Allocated(r, next) /\ \A a \in Reach(r) : Allocated(a, next)
      /\ r \in held \/ r \notin Writable
      /\ Reach(r) \cap held = {} => Reach(r) \cap Writable = {}
  BY KeptApart DEF AllocatedRoot
<1>2. ASSUME Reach(r) \cap held # {} PROVE Reach(r)' \cap held' # {}
  <2>1. CASE r \in held
    BY <2>1 DEF Careful, Reach
  <2>2. CASE r \notin held
    <3>1. heap'[r] = heap[r]
      BY <1>1, <2>2 DEF Careful
    <3>2. Reach(r)' = Reach(r)
      BY <3>1 DEF Reach, Subs
    <3> QED BY <1>2, <3>2 DEF Careful
  <2> QED BY <2>1, <2>2
<1>3. ASSUME Reach(r) \cap held = {} PROVE Tree(r)' = Tree(r)
  <2>1. \A a \in Reach(r) : heap'[a] = heap[a]
    BY <1>1, <1>3 DEF Careful
  <2>2. heap'[r] = heap[r] /\ \A s \in Segments :
          IsMap(heap[r][s]) => heap'[heap[r][s].at] = heap[heap[r][s].at]
    BY <2>1 DEF Reach, Subs
  <2> QED BY <2>2 DEF Tree
<1> QED BY <1>2, <1>3

LEMMA CarefulKeeps ==
  ASSUME WrapperInv, KeptInv, Proper, Careful
  PROVE  KeptInv'
<1>1. stack' = stack /\ \A i \in DOMAIN stack : Tree(stack[i])' = Tree(stack[i])
  BY ProperKeeps
<1>2. ASSUME NEW w \in Live'
      PROVE  /\ DOMAIN opts'[w].layers \subseteq DOMAIN stack
             /\ \A i \in DOMAIN opts'[w].layers :
                  \/ Tree(opts[w].layers[i])' = Tree(stack[i])'
                  \/ Reach(opts[w].layers[i])' \cap held' # {}
  <2>1. CASE DOMAIN opts'[w].layers = {}
    BY <2>1
  <2>2. CASE DOMAIN opts'[w].layers = DOMAIN stack
             /\ \A i \in DOMAIN stack : Tree(opts[w].layers[i])' = Tree(stack[i])
    BY <1>1, <2>2
  <2>3. ASSUME NEW v \in Live, opts'[w].layers = opts[v].layers
        PROVE  /\ DOMAIN opts'[w].layers \subseteq DOMAIN stack
               /\ \A i \in DOMAIN opts'[w].layers :
                    \/ Tree(opts[w].layers[i])' = Tree(stack[i])'
                    \/ Reach(opts[w].layers[i])' \cap held' # {}
    <3>1. DOMAIN opts[v].layers \subseteq DOMAIN stack
      BY DEF KeptInv
    <3>2. ASSUME NEW i \in DOMAIN opts[v].layers
          PROVE  \/ Tree(opts[w].layers[i])' = Tree(stack[i])'
                 \/ Reach(opts[w].layers[i])' \cap held' # {}
      <4>0. PICK r : r = opts[v].layers[i]
        OBVIOUS
      <4>1. r \in KeptRoots
        BY <4>0 DEF KeptRoots, KeptBy
      <4>2. Tree(r) = Tree(stack[i]) \/ Reach(r) \cap held # {}
        BY <4>0 DEF KeptInv, ProvenanceSurvivesSet
      <4>3. opts'[w].layers[i] = r
        BY <2>3, <4>0
      <4>4. Tree(stack[i])' = Tree(stack[i])
        BY <1>1, <3>1
      <4>5. Tree(r)' = Tree(r) \/ Reach(r)' \cap held' # {}
        BY <4>1, LayerStays
      <4>6. Reach(r) \cap held # {} => Reach(r)' \cap held' # {}
        BY <4>1, LayerStays
      <4>7. Tree(r)' = Tree(stack[i])' \/ Reach(r)' \cap held' # {}
        BY <4>2, <4>4, <4>5, <4>6
      <4>8. Tree(opts[w].layers[i])' = Tree(r)' /\ Reach(opts[w].layers[i])' = Reach(r)'
        BY <4>3 DEF Tree, Reach, Subs
      <4> QED BY <4>7, <4>8
    <3> QED BY <2>3, <3>1, <3>2
  <2> QED BY <2>1, <2>2, <2>3 DEF Careful, LayersFrom
<1>3. ProvenanceSurvivesSet'
  BY <1>2 DEF ProvenanceSurvivesSet
<1> QED BY <1>1, <1>2, <1>3 DEF KeptInv, Careful

-----------------------------------------------------------------------------
(* Every step is careful.                                                  *)

LEMMA NothingGained ==
  ASSUME WrapperInv, KeptInv, opts' = opts
  PROVE  /\ Used' = Used /\ KeptRoots' = KeptRoots /\ KeptRoots' \cap Used' = {}
         /\ \A w \in Live' : LayersFrom(w)
<1>1. Live' = Live /\ Used' = Used /\ KeptRoots' = KeptRoots
  BY DEF Live, Used, KeptRoots, KeptBy
<1> QED BY <1>1 DEF LayersFrom, KeptInv

LEMMA UsedIsWritable == Used \cup held \subseteq Writable
  BY DEF Writable, Reach

LEMMA StackLayersCareful == ASSUME WrapperInv, KeptInv, StackLayers PROVE Careful
<1>1. Len(stack) \in Nat
  BY DEF WrapperInv, RootsInv
<1>2. Fresh(ClonesOf(next, stack), next, next + Len(stack))
  BY ClonesOfStack DEF StackLayers
<1>3. \A a : Allocated(a, next) => heap'[a] = heap[a]
  BY <1>1, <1>2, Allocates DEF StackLayers
<1> QED BY <1>3, NothingGained DEF Careful, StackLayers

LEMMA WriteCareful ==
  ASSUME WrapperInv, KeptInv, NEW a \in Writable, NEW s \in Segments, NEW n,
         heap' = Enter(a, s, Num(n)), UNCHANGED <<next, stack, opts, held>>
  PROVE  Careful
<1>1. \A b \in Addresses : b # a => heap'[b] = heap[b]
  BY DEF Enter, WrapperInv, HeapInv
<1> QED BY <1>1, NothingGained DEF Careful, Allocated

LEMMA SetCareful == ASSUME WrapperInv, KeptInv, NEW w \in Wrappers, Set(w) PROVE Careful
<1>1. PICK s \in Segments, n \in Numbers :
        SetShort(w, s, n) \/ \E t \in Segments : SetThrough(w, s, t, n) \/ SetMaking(w, s, t, n)
  BY DEF Set
<1>2. opts[w].live
  BY <1>1 DEF SetShort, SetThrough, SetMaking
<1>3. opts[w].value \in Used
  BY <1>2 DEF Used, Live
<1>4. opts[w].value \in Writable
  BY <1>3, UsedIsWritable
<1>5. CASE SetShort(w, s, n)
  BY <1>4, <1>5, WriteCareful DEF SetShort
<1>6. ASSUME NEW t \in Segments, SetThrough(w, s, t, n) PROVE Careful
  <2>1. IsMap(heap[opts[w].value][s])
    BY <1>6 DEF SetThrough
  <2>2. heap[opts[w].value][s].at \in Writable
    BY <1>3, <2>1 DEF Writable, Reach, Subs
  <2> QED BY <1>6, <2>2, WriteCareful DEF SetThrough
<1>7. ASSUME NEW t \in Segments, SetMaking(w, s, t, n) PROVE Careful
  <2> DEFINE made == <<next, s>>
             root == opts[w].value
  <2>1. /\ heap' = [Enter(root, s, Ref(made)) EXCEPT
                      ![made] = [x \in Segments |-> IF x = t THEN Num(n) ELSE NoEntry]]
        /\ UNCHANGED <<stack, opts, held>>
    BY <1>7 DEF SetMaking
  <2>2. ~Allocated(made, next)
    BY NextIsNat DEF Allocated
  <2>3. ASSUME NEW b, Allocated(b, next), b \notin Writable PROVE heap'[b] = heap[b]
    <3>1. b \in Addresses /\ b # made /\ b # root
      BY <1>4, <2>2, <2>3 DEF Allocated
    <3> HIDE DEF made, root
    <3> QED BY <2>1, <3>1 DEF Enter, WrapperInv, HeapInv
  <2> QED BY <2>1, <2>3, NothingGained DEF Careful
<1> QED BY <1>1, <1>5, <1>6, <1>7

LEMMA CallerWritesCareful == ASSUME WrapperInv, KeptInv, CallerWrites PROVE Careful
<1>1. PICK a \in UNION {Reach(r) : r \in SourceRoots \cup held}, s \in Segments, n \in Numbers :
        heap' = Enter(a, s, Num(n))
  BY DEF CallerWrites
<1>2. a \in Writable
  BY DEF Writable, Used
<1> QED BY <1>1, <1>2, WriteCareful DEF CallerWrites

LEMMA HandOutCareful ==
  ASSUME WrapperInv, KeptInv, NEW w \in Wrappers, NEW s \in Segments, Get(w, s) \/ Trace(w, s)
  PROVE  Careful
BY NothingGained DEF Careful, Get, Trace

LEMMA StutterCareful == ASSUME WrapperInv, KeptInv, UNCHANGED vars PROVE Careful
BY NothingGained DEF Careful, vars

(* A copy keeps what its original kept, or nothing.                        *)
LEMMA CopyCareful ==
  ASSUME WrapperInv, KeptInv, NEW v \in Wrappers, NEW r, r.live,
         opts' = [opts EXCEPT ![v] = r],
         DOMAIN r.layers = {} \/ \E w \in Live : r.layers = opts[w].layers,
         r.value \in Used \/ r.value[1] >= next,
         held' = held, \A a : Allocated(a, next) => heap'[a] = heap[a]
  PROVE  Careful
<1>1. /\ DOMAIN opts' = Wrappers /\ opts'[v] = r
      /\ \A w \in Wrappers : w # v => opts'[w] = opts[w]
  BY DEF WrapperInv, RootsInv, AreWrappers
<1>2. \A w \in Live' : LayersFrom(w)
  BY <1>1 DEF LayersFrom, Live
<1>3. ASSUME NEW x \in KeptRoots' PROVE x \in KeptRoots
  <2>1. PICK w \in Live' : x \in KeptBy(w)'
    BY <1>3 DEF KeptRoots
  <2>2. PICK i \in DOMAIN opts'[w].layers : x = opts'[w].layers[i]
    BY <2>1 DEF KeptBy
  <2>3. CASE w = v
    BY <1>1, <2>2, <2>3 DEF KeptRoots, KeptBy
  <2>4. CASE w # v
    BY <1>1, <2>2, <2>4 DEF KeptRoots, KeptBy, Live
  <2> QED BY <2>3, <2>4
<1>4. ASSUME NEW x \in Used' PROVE x \in Used \/ x[1] >= next
  BY <1>1 DEF Used, Live
<1>5. \A x \in KeptRoots : ~(x[1] >= next)
  BY KeptApart, NextIsNat DEF AllocatedRoot, Allocated
<1>6. KeptRoots' \cap Used' = {}
  BY <1>3, <1>4, <1>5 DEF KeptInv
<1> QED BY <1>2, <1>6 DEF Careful

LEMMA CopiesCareful ==
  ASSUME WrapperInv, KeptInv, NEW w \in Wrappers, NEW v \in Wrappers,
         New(v) \/ Clone(w, v) \/ WithValue(w, v) \/ LayerWith(w, v)
  PROVE  Careful
<1>1. CASE New(v)
  <2>1. PICK root \in SourceRoots :
          opts' = [opts EXCEPT ![v] = Wrapper(root, << >>, Given(root))]
    BY <1>1 DEF New
  <2> DEFINE r == Wrapper(root, << >>, Given(root))
  <2>2. r.live /\ r.value \in Used /\ DOMAIN r.layers = {} /\ opts' = [opts EXCEPT ![v] = r]
    BY <2>1, WrapperFields DEF Used
  <2> HIDE DEF r
  <2> QED BY <1>1, <2>2, CopyCareful DEF New
<1>2. CASE Clone(w, v)
  <2>1. w \in Live /\ opts[w].live /\ opts[w].value \in Used
    BY <1>2 DEF Clone, Live, Used
  <2> QED BY <1>2, <2>1, CopyCareful DEF Clone
<1>3. CASE WithValue(w, v)
  <2>1. PICK root \in SourceRoots :
          opts' = [opts EXCEPT ![v] = Wrapper(root, opts[w].layers, Given(root))]
    BY <1>3 DEF WithValue
  <2> DEFINE r == Wrapper(root, opts[w].layers, Given(root))
  <2>2. r.live /\ r.value = root /\ r.layers = opts[w].layers /\ w \in Live /\ root \in Used
    BY <1>3, WrapperFields DEF WithValue, Live, Used
  <2>3. opts' = [opts EXCEPT ![v] = r]
    BY <2>1
  <2> HIDE DEF r
  <2> QED BY <1>3, <2>2, <2>3, CopyCareful DEF WithValue
<1>4. CASE LayerWith(w, v)
  <2>1. PICK tree : heap' = Added(Planted(next, tree))
    BY <1>4 DEF LayerWith
  <2>2. next \in 1..MaxAllocs
    BY <1>4, NextIsNat DEF LayerWith, Room
  <2>3. Fresh(Planted(next, tree), next, next + 1)
    BY <2>2, PlantedFresh
  <2>4. \A a : Allocated(a, next) => heap'[a] = heap[a]
    BY <1>4, <2>1, <2>3, Allocates DEF LayerWith
  <2> DEFINE r == Wrapper(RootOf(next), opts[w].layers, Made(v))
  <2>5. r.live /\ r.value = RootOf(next) /\ r.layers = opts[w].layers /\ w \in Live
    BY <1>4, WrapperFields DEF LayerWith, Live
  <2>6. opts' = [opts EXCEPT ![v] = r] /\ held' = held
    BY <1>4 DEF LayerWith
  <2>7. r.value[1] >= next
    BY <2>2, <2>5 DEF RootOf
  <2> HIDE DEF r
  <2> QED BY <2>4, <2>5, <2>6, <2>7, CopyCareful
<1> QED BY <1>1, <1>2, <1>3, <1>4

(* Merge keeps fresh clones of the snapshots.                              *)
LEMMA MergeCareful == ASSUME WrapperInv, KeptInv, NEW w \in Wrappers, Merge(w) PROVE Careful
<1> DEFINE k == Len(stack)
           merged == Planted(next + k, Merged(stack))
           kept == ClonesOf(next, stack)
           cells == [a \in DOMAIN kept \cup DOMAIN merged |->
                       IF a \in DOMAIN merged THEN merged[a] ELSE kept[a]]
           wrapper == Wrapper(RootOf(next + k), RootsFrom(next, k), Made(w))
<1>1. /\ k \in Nat /\ DOMAIN stack = 1..k /\ next \in Nat \ {0} /\ MaxAllocs \in Nat
      /\ next + k + 1 <= MaxAllocs + 1 /\ Room(k) /\ Room(k + 1)
  BY NextIsNat DEF WrapperInv, RootsInv, Merge, Room
<1>2. Fresh(kept, next, next + k)
  BY <1>1, ClonesOfStack
<1>3. Fresh(merged, next + k, next + k + 1)
  BY <1>1, PlantedFresh
<1>4. Fresh(cells, next, next + (k + 1))
  <2>1. next + k \in Nat /\ next + k + 1 = next + (k + 1)
    BY <1>1
  <2> HIDE DEF kept, merged, k
  <2> QED BY <1>1, <1>2, <1>3, <2>1, FreshUnion
<1>5. heap' = Added(cells) /\ next' = next + (k + 1) /\ opts' = [opts EXCEPT ![w] = wrapper]
        /\ held' = held
  BY <1>1 DEF Merge
<1>6. \A a : Allocated(a, next) => heap'[a] = heap[a]
  <2> HIDE DEF cells
  <2> QED BY <1>1, <1>4, <1>5, Allocates
<1>7. ASSUME NEW i \in DOMAIN stack, NEW r, r = RootOf(next + i - 1)
      PROVE  Tree(r)' = Tree(stack[i])
  <2>1. PICK n : n = next + i - 1
    OBVIOUS
  <2>2. n \in 1..MaxAllocs /\ n - next + 1 = i /\ n # next + k
    BY <1>1, <2>1
  <2>3. ASSUME NEW x \in Cells(n, Tree(stack[i])) PROVE heap'[x] = CloneOf(n, stack[i])[x]
    <3>1. x[1] = n
      BY DEF Cells, RootOf
    <3>2. x \in DOMAIN CloneOf(n, stack[i])
      BY DEF CloneOf, Planted
    <3>3. x \in DOMAIN kept /\ kept[x] = CloneOf(n, stack[i])[x]
      BY <2>1, <2>2, <3>1, <3>2 DEF ClonesOf
    <3>4. x \notin DOMAIN merged
      BY <1>1, <1>3, <2>2, <3>1 DEF Fresh
    <3>5. x \in Addresses /\ x \in DOMAIN cells /\ cells[x] = kept[x]
      BY <1>2, <3>3, <3>4 DEF Fresh
    <3> HIDE DEF cells
    <3> QED BY <1>5, <3>3, <3>5 DEF Added
  <2>4. PICK a : a = stack[i]
    OBVIOUS
  <2>5. \A x \in Cells(n, Tree(a)) : heap'[x] = CloneOf(n, a)[x]
    BY <2>3, <2>4
  <2>6. Tree(RootOf(n))' = Tree(a)
    BY <2>2, <2>5, CloneHasTree
  <2> QED BY <1>7, <2>1, <2>4, <2>6
<1>8. /\ DOMAIN opts' = Wrappers /\ opts'[w] = wrapper
      /\ \A v \in Wrappers : v # w => opts'[v] = opts[v]
  BY <1>5 DEF WrapperInv, RootsInv, AreWrappers
<1>9. /\ opts'[w].value = RootOf(next + k) /\ DOMAIN opts'[w].layers = DOMAIN stack
      /\ \A i \in DOMAIN stack : opts'[w].layers[i] = RootOf(next + i - 1)
  BY <1>1, <1>8, WrapperFields DEF RootsFrom
<1> HIDE DEF wrapper, cells, kept, merged
<1>10. \A v \in Live' : LayersFrom(v)
  <2> SUFFICES ASSUME NEW v \in Live' PROVE LayersFrom(v)
    OBVIOUS
  <2>1. CASE v # w
    BY <1>8, <2>1 DEF LayersFrom, Live
  <2>2. CASE v = w
    <3>1. ASSUME NEW i \in DOMAIN stack, NEW r, r = opts'[w].layers[i]
          PROVE  Tree(r)' = Tree(stack[i])
      BY <1>7, <1>9, <3>1
    <3>2. ASSUME NEW i \in DOMAIN stack PROVE Tree(opts[v].layers[i])' = Tree(stack[i])
      <4>1. PICK r : r = opts'[w].layers[i]
        OBVIOUS
      <4>2. Tree(opts[v].layers[i])' = Tree(r)'
        BY <2>2, <4>1 DEF Tree
      <4> QED BY <3>1, <4>1, <4>2
    <3> QED BY <1>9, <2>2, <3>2 DEF LayersFrom
  <2> QED BY <2>1, <2>2
<1>11. KeptRoots' \cap Used' = {}
  <2>1. ASSUME NEW x \in KeptRoots'
        PROVE  x \in KeptRoots \/ \E i \in DOMAIN stack : x = RootOf(next + i - 1)
    BY <1>8, <1>9 DEF KeptRoots, KeptBy, Live
  <2>2. ASSUME NEW x \in Used' PROVE x \in Used \/ x = RootOf(next + k)
    BY <1>8, <1>9 DEF Used, Live
  <2>3. \A x \in KeptRoots \cup Used : x[1] < next
    BY NextIsNat DEF WrapperInv, RootsInv, Owned, KeptRoots, Used, AllocatedRoot, Allocated
  <2>4. \A i \in DOMAIN stack : RootOf(next + i - 1)[1] \in next..(next + k - 1)
    BY <1>1 DEF RootOf
  <2>5. RootOf(next + k)[1] = next + k
    BY DEF RootOf
  <2> QED BY <1>1, <2>1, <2>2, <2>3, <2>4, <2>5 DEF KeptInv
<1> QED BY <1>5, <1>6, <1>10, <1>11 DEF Careful

(* There is no wrapper with layers before there is a stack.                *)
LEMMA BuildStackKept == ASSUME WrapperInv, KeptInv, BuildStack PROVE KeptInv'
<1>1. DOMAIN stack = {} /\ opts' = opts
  BY DEF BuildStack
<1>2. Live' = Live /\ \A w \in Live : DOMAIN opts[w].layers = {}
  BY <1>1 DEF KeptInv, Live
<1>3. ProvenanceSurvivesSet' /\ KeptRoots' \cap Used' = {}
  BY <1>1, <1>2 DEF ProvenanceSurvivesSet, KeptRoots, KeptBy
<1> QED BY <1>1, <1>2, <1>3 DEF KeptInv

LEMMA KeptInit == Init => KeptInv
<1> SUFFICES ASSUME Init PROVE KeptInv
  OBVIOUS
<1>1. Live = {}
  BY DEF Init, Live, NoWrapper
<1> QED BY <1>1 DEF KeptInv, ProvenanceSurvivesSet, KeptRoots

LEMMA KeptStep == WrapperInv /\ KeptInv /\ [Next]_vars => KeptInv'
<1> SUFFICES ASSUME WrapperInv, KeptInv, [Next]_vars PROVE KeptInv'
  OBVIOUS
<1>1. Careful \/ BuildStack
  <2>1. ASSUME NEW w \in Wrappers, New(w) PROVE Careful
    BY <2>1, CopiesCareful
  <2>2. ASSUME NEW w \in Wrappers, NEW v \in Wrappers,
               Clone(w, v) \/ WithValue(w, v) \/ LayerWith(w, v)
        PROVE  Careful
    BY <2>2, CopiesCareful
  <2> QED BY <2>1, <2>2, StackLayersCareful, CallerWritesCareful, MergeCareful, SetCareful,
             HandOutCareful, StutterCareful DEF Next
<1>2. Proper \/ BuildStack
  BY WrapperStep
<1> QED BY <1>1, <1>2, CarefulKeeps, BuildStackKept

(* The layers a wrapper keeps for provenance stay those of the stack until *)
(* the program writes into a map it was handed.                            *)
THEOREM KeptLayersStay == Spec => []ProvenanceSurvivesSet
<1>2. Spec => [](WrapperInv /\ KeptInv)
  <2>1. Init => WrapperInv /\ KeptInv
    BY WrapperInit, KeptInit
  <2>2. WrapperInv /\ KeptInv /\ [Next]_vars => WrapperInv' /\ KeptInv'
    BY WrapperKeeps, KeptStep
  <2> QED BY <2>1, <2>2, PTL DEF Spec
<1>3. KeptInv => ProvenanceSurvivesSet
  BY DEF KeptInv
<1> QED BY <1>2, <1>3, PTL
=============================================================================
