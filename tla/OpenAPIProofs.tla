---------------------------- MODULE OpenAPIProofs ----------------------------
(***************************************************************************)
(* What holds of the body and the components of an OpenAPI document for    *)
(* any schema graph, any root component and any property names, and of the *)
(* rest of the document for any options with any texts.                    *)
(***************************************************************************)
EXTENDS OpenAPIDocument, Induction, TLAPS

(* Sequences, as the walk uses them.                                       *)
LEMMA SequenceOf ==
  ASSUME NEW S, NEW s \in Seq(S)
  PROVE  IsSeq(s)
<1>1. Len(s) \in Nat /\ s \in [1..Len(s) -> Elems(s)]
  BY DEF Elems
<1> QED BY <1>1 DEF IsSeq

LEMMA MadeFrom ==
  ASSUME NEW n \in Nat, NEW f, f = [i \in 1..n |-> f[i]]
  PROVE  IsSeq(f) /\ Elems(f) = {f[i] : i \in 1..n}
<1> DEFINE S == {f[i] : i \in 1..n}
<1>1. f \in [1..n -> S]
  OBVIOUS
<1> HIDE DEF S
<1>2. f \in Seq(S) /\ Len(f) = n
  BY <1>1
<1> QED BY <1>2, SequenceOf DEF Elems

LEMMA BothElems ==
  ASSUME NEW S, NEW s \in Seq(S), NEW t \in Seq(S)
  PROVE  /\ IsSeq(s \o t)
         /\ Elems(s \o t) = Elems(s) \cup Elems(t)
<1>1. s \o t \in Seq(S) /\ Len(s \o t) = Len(s) + Len(t)
  OBVIOUS
<1>2. IsSeq(s \o t)
  BY <1>1, SequenceOf
<1>3. \A x \in Elems(s \o t) : x \in Elems(s) \cup Elems(t)
  BY <1>1 DEF Elems
<1>4. \A x \in Elems(s) : x \in Elems(s \o t)
  BY <1>1 DEF Elems
<1>5. ASSUME NEW i \in 1..Len(t) PROVE t[i] \in Elems(s \o t)
  <2>1. Len(s) + i \in 1..Len(s \o t) /\ (s \o t)[Len(s) + i] = t[i]
    BY <1>1
  <2> QED BY <2>1 DEF Elems
<1> QED BY <1>2, <1>3, <1>4, <1>5 DEF Elems

LEMMA JoinElems ==
  ASSUME NEW s, NEW t, IsSeq(s), IsSeq(t)
  PROVE  /\ IsSeq(s \o t)
         /\ Elems(s \o t) = Elems(s) \cup Elems(t)
<1> DEFINE S == Elems(s) \cup Elems(t)
<1>1. s \in Seq(S) /\ t \in Seq(S)
  BY DEF IsSeq, Elems
<1> HIDE DEF S
<1> QED BY <1>1, BothElems

LEMMA HeadAndTail ==
  ASSUME NEW t, IsSeq(t), t # <<>>
  PROVE  /\ IsSeq(Tail(t))
         /\ Head(t) \in Elems(t)
         /\ Elems(t) = {Head(t)} \cup Elems(Tail(t))
<1>1. t \in Seq(Elems(t))
  BY DEF IsSeq
<1>2. Len(t) \in Nat /\ Len(t) > 0 /\ Len(Tail(t)) = Len(t) - 1 /\ Head(t) = t[1]
  BY <1>1
<1>3. \A i \in 1..Len(t) - 1 : Tail(t)[i] = t[i + 1]
  BY <1>1, <1>2
<1>4. IsSeq(Tail(t))
  <2> DEFINE S == Elems(t)
  <2>1. Tail(t) \in Seq(S)
    BY <1>1, <1>2
  <2> HIDE DEF S
  <2> QED BY <2>1, SequenceOf
<1>5. \A i \in 1..Len(t) : t[i] \in {Head(t)} \cup Elems(Tail(t))
  <2> TAKE i \in 1..Len(t)
  <2>1. CASE i = 1
    BY <1>2, <2>1
  <2>2. CASE i # 1
    <3>1. i - 1 \in 1..Len(Tail(t)) /\ Tail(t)[i - 1] = t[i]
      BY <1>2, <1>3, <2>2
    <3> QED BY <3>1 DEF Elems
  <2> QED BY <2>1, <2>2
<1>6. \A i \in 1..Len(Tail(t)) : Tail(t)[i] \in Elems(t)
  BY <1>2, <1>3 DEF Elems
<1>7. Head(t) \in Elems(t)
  BY <1>2 DEF Elems
<1> QED BY <1>4, <1>5, <1>6, <1>7 DEF Elems

-----------------------------------------------------------------------------
(* What is below a schema.                                                 *)
IsBelow(v, u) ==
  \/ \E i \in DOMAIN v.node.props :
       u = Below(v, v.node.props[i].node, v.node.props[i].key, v.node.props[i].key)
  \/ \E i \in DOMAIN v.node.items : u = Below(v, v.node.items[i], Item, ItemKey)

LEMMA ChildrenAre ==
  ASSUME NEW v, v.node \in Nodes
  PROVE  /\ IsSeq(Children(v))
         /\ \A u : u \in Elems(Children(v)) <=> IsBelow(v, u)
         /\ \A u \in Elems(Children(v)) : u.node \in Nodes
<1>1. /\ IsSeq(v.node.props) /\ IsSeq(v.node.items)
      /\ \A i \in DOMAIN v.node.props : v.node.props[i].node \in Nodes
      /\ \A i \in DOMAIN v.node.items : v.node.items[i] \in Nodes
  BY GraphAssumption
<1>2. /\ Len(v.node.props) \in Nat /\ DOMAIN v.node.props = 1..Len(v.node.props)
      /\ Len(v.node.items) \in Nat /\ DOMAIN v.node.items = 1..Len(v.node.items)
  BY <1>1 DEF IsSeq
<1>3. /\ IsSeq(Properties(v))
      /\ \A u : u \in Elems(Properties(v)) <=>
           \E i \in DOMAIN v.node.props :
             u = Below(v, v.node.props[i].node, v.node.props[i].key, v.node.props[i].key)
  BY <1>2, MadeFrom DEF Properties
<1>4. /\ IsSeq(Items(v))
      /\ \A u : u \in Elems(Items(v)) <=>
           \E i \in DOMAIN v.node.items : u = Below(v, v.node.items[i], Item, ItemKey)
  BY <1>2, MadeFrom DEF Items
<1>5. IsSeq(Children(v)) /\ Elems(Children(v)) = Elems(Properties(v)) \cup Elems(Items(v))
  BY <1>3, <1>4, JoinElems DEF Children
<1>6. \A u : u \in Elems(Children(v)) <=> IsBelow(v, u)
  BY <1>3, <1>4, <1>5 DEF IsBelow
<1>7. \A u : IsBelow(v, u) => u.node \in Nodes
  BY <1>1 DEF IsBelow, Below, Visit
<1> QED BY <1>5, <1>6, <1>7

-----------------------------------------------------------------------------
(* The invariant.  todo is a sequence of calls for nodes, and what is      *)
(* placed is nodes.                                                        *)
Walks ==
  /\ root \in Nodes
  /\ IsSeq(todo) /\ \A v \in Elems(todo) : v.node \in Nodes
  /\ \A r \in placed : r.node \in Nodes
  /\ pc = "begin" => todo = <<>> /\ placed = {} /\ entries = [d \in {} |-> Nil]
                      /\ usedNames = {} /\ rootRef = Nil
  /\ pc = "done" => todo = <<>>

EntryFields == {"name", "count", "force", "schema"}
Entries == \A d \in DOMAIN entries : entries[d] = [f \in EntryFields |-> entries[d][f]]

(* What schemaFor has returned: a reference to a node that has an entry    *)
(* that is referred to; or the node itself, which has an entry then.       *)
RefersToIt(r) ==
  /\ ~r.as.inline /\ r.node \in DOMAIN entries
  /\ Refers(entries[r.node]) /\ r.as.ref = entries[r.node].name
Written(r) ==
  r.as.inline /\ (Composite(r.node) /\ HasDigest(r.node) => r.node \in DOMAIN entries)
Places == \A r \in placed : RefersToIt(r) \/ Written(r)

(* Only the root is forced; what comes up twice has a place that refers.   *)
RootIsForced ==
  /\ rootRef # Nil => rootName # Nil /\ HasDigest(root)
  /\ pc # "begin" /\ rootName # Nil /\ HasDigest(root) =>
       /\ root \in DOMAIN entries /\ entries[root].force
       /\ entries[root].name = rootRef /\ rootRef = Safe(rootName)
TwiceIsUsed ==
  rootName = Nil =>
    \A d \in DOMAIN entries : Refers(entries[d]) =>
      \E r \in placed : ~r.as.inline /\ r.as.ref = entries[d].name

(* What is not placed yet is still to be visited.                          *)
ToCome(path, node) ==
  There(path, node) \/ \E v \in Elems(todo) : v.path = path /\ v.node = node
Complete ==
  pc # "begin" /\ rootName = Nil =>
    /\ ToCome(<<>>, root)
    /\ \A r \in placed : r.as.inline =>
         /\ \A i \in DOMAIN r.node.props :
              ToCome(Append(r.path, r.node.props[i].key), r.node.props[i].node)
         /\ \A i \in DOMAIN r.node.items : ToCome(Append(r.path, Item), r.node.items[i])

Published ==
  pc = "done" =>
    components = {[name |-> entries[d].name, schema |-> entries[d].schema] :
                    d \in {x \in DOMAIN entries : Refers(entries[x])}}

WalkInv ==
  /\ Walks /\ Entries /\ TypeOK /\ NamesAreUnique /\ Places /\ WrittenOnce
  /\ RootIsForced /\ TwiceIsUsed /\ Complete /\ Published

LEMMA WalkInvInit == Init => WalkInv
<1> SUFFICES ASSUME Init PROVE WalkInv
  OBVIOUS
<1>1. Elems(<<>>) = {} /\ IsSeq(<<>>)
  BY DEF Elems, IsSeq
<1>2. Walks
  BY <1>1, GraphAssumption DEF Init, Walks
<1>3. DOMAIN entries = {} /\ placed = {}
  BY DEF Init
<1>4. Entries /\ TypeOK /\ NamesAreUnique
  BY <1>3 DEF Init, Entries, TypeOK, EntriesOK, NamesAreUnique
<1>5. Places /\ WrittenOnce /\ RootIsForced /\ TwiceIsUsed /\ Complete /\ Published
  BY <1>3 DEF Init, Places, WrittenOnce, RootIsForced, TwiceIsUsed, Complete, Published
<1> QED BY <1>2, <1>4, <1>5 DEF WalkInv

-----------------------------------------------------------------------------
(* The registry: a node that is registered for the first time takes a name *)
(* that is free, the first one exactly the name it asks for.               *)
LEMMA Registered ==
  ASSUME WalkInv, NEW node, NEW hint, NEW force \in BOOLEAN, HasDigest(node),
         node \notin DOMAIN entries, RegisterNew(node, hint, force)
  PROVE  /\ Entries' /\ EntriesOK' /\ NamesAreUnique'
         /\ DOMAIN entries' = DOMAIN entries \cup {node}
         /\ \A d \in DOMAIN entries : entries'[d] = entries[d]
         /\ entries'[node].force = force /\ entries'[node].count = 1
         /\ entries'[node].name \in usedNames'
         /\ usedNames \subseteq usedNames'
         /\ rootRef' = IF force THEN entries'[node].name ELSE rootRef
         /\ usedNames = {} => entries'[node].name = Safe(hint)
<1>1. PICK name : /\ UniqueName(name, hint)
                  /\ usedNames' = usedNames \cup {name}
                  /\ entries' = [d \in DOMAIN entries \cup {node} |->
                                   IF d = node
                                   THEN [name |-> name, count |-> 1, force |-> force,
                                         schema |-> IF force THEN node ELSE Nil]
                                   ELSE entries[d]]
                  /\ rootRef' = IF force THEN name ELSE rootRef
  BY DEF RegisterNew
<1>2. name \notin usedNames
  BY <1>1 DEF UniqueName
<1>3. usedNames = {} => name = Safe(hint)
  <2>1. SUFFICES ASSUME usedNames = {} PROVE name = Safe(hint)
    OBVIOUS
  <2>2. PICK k \in 0..MaxSuffix : /\ name = Candidate(Safe(hint), k)
                                  /\ \A j \in 0..k - 1 : Candidate(Safe(hint), j) \in usedNames
    BY <1>1 DEF UniqueName
  <2>3. k = 0
    BY <2>1, <2>2, OpenAPIAssumption
  <2> QED BY <2>2, <2>3 DEF Candidate
<1>4. DOMAIN entries' = DOMAIN entries \cup {node}
  BY <1>1
<1>5. \A d \in DOMAIN entries : entries'[d] = entries[d]
  BY <1>1
<1>6. entries'[node] = [name |-> name, count |-> 1, force |-> force,
                        schema |-> IF force THEN node ELSE Nil]
  BY <1>1
<1>7. Entries'
  BY <1>4, <1>5, <1>6 DEF Entries, EntryFields, WalkInv
<1>8. EntriesOK'
  BY <1>1, <1>4, <1>5, <1>6 DEF EntriesOK, WalkInv, TypeOK, Refers
<1>9. NamesAreUnique'
  BY <1>2, <1>4, <1>5, <1>6 DEF NamesAreUnique, WalkInv, TypeOK, EntriesOK
<1> QED BY <1>1, <1>3, <1>4, <1>5, <1>6, <1>7, <1>8, <1>9

(* A node that is there already keeps its name, and is referred to now.    *)
LEMMA RegisteredAgain ==
  ASSUME WalkInv, NEW node \in DOMAIN entries,
         entries' = [entries EXCEPT ![node] = Again(node)], usedNames' = usedNames
  PROVE  /\ Entries' /\ EntriesOK' /\ NamesAreUnique'
         /\ DOMAIN entries' = DOMAIN entries
         /\ \A d \in DOMAIN entries : /\ entries'[d].name = entries[d].name
                                      /\ entries'[d].force = entries[d].force
                                      /\ Refers(entries[d]) => Refers(entries'[d])
         /\ \A d \in DOMAIN entries \ {node} : entries'[d] = entries[d]
         /\ Refers(entries'[node]) /\ Refers(Again(node))
<1> DEFINE e == entries[node]
           new == Again(node)
<1>1. /\ e = [f \in EntryFields |-> e[f]] /\ e.count \in Nat \ {0} /\ HasDigest(node)
      /\ e.schema = IF Refers(e) THEN node ELSE Nil
      /\ e.name \in usedNames /\ e.force \in BOOLEAN
  BY DEF WalkInv, Entries, TypeOK, EntriesOK
<1>2. /\ new = [f \in EntryFields |-> new[f]]
      /\ new.name = e.name /\ new.force = e.force /\ new.count = e.count + 1
  BY <1>1 DEF Again, EntryFields
<1>3. Refers(new)
  BY <1>1, <1>2 DEF Refers
<1>4. new.schema = node
  <2>1. CASE e.schema = Nil
    <3>1. Refers([e EXCEPT !.count = e.count + 1])
      BY <1>1 DEF Refers, EntryFields
    <3> QED BY <1>1, <2>1, <3>1 DEF Again, EntryFields
  <2>2. CASE e.schema # Nil
    BY <1>1, <2>2 DEF Again, EntryFields
  <2> QED BY <2>1, <2>2
<1> HIDE DEF new
<1>5. /\ DOMAIN entries' = DOMAIN entries /\ entries'[node] = new
      /\ \A d \in DOMAIN entries \ {node} : entries'[d] = entries[d]
  BY DEF new
<1>6. Entries'
  BY <1>2, <1>5 DEF Entries, WalkInv
<1>7. EntriesOK'
  BY <1>1, <1>2, <1>3, <1>4, <1>5 DEF EntriesOK, WalkInv, TypeOK
<1>8. NamesAreUnique'
  BY <1>2, <1>5 DEF NamesAreUnique, WalkInv
<1> QED BY <1>2, <1>3, <1>5, <1>6, <1>7, <1>8 DEF new

-----------------------------------------------------------------------------
(* The walk: the calls that are left ...                                   *)
LEMMA Continues ==
  ASSUME WalkInv, todo # <<>>, NEW more, IsSeq(more), \A v \in Elems(more) : v.node \in Nodes,
         Continue(more)
  PROVE  /\ IsSeq(todo') /\ \A v \in Elems(todo') : v.node \in Nodes
         /\ Elems(todo') = Elems(more) \cup Elems(Tail(todo))
         /\ Elems(todo) = {Head(todo)} \cup Elems(Tail(todo))
         /\ Head(todo).node \in Nodes
<1>1. IsSeq(todo) /\ \A v \in Elems(todo) : v.node \in Nodes
  BY DEF WalkInv, Walks
<1>2. /\ IsSeq(Tail(todo)) /\ Head(todo) \in Elems(todo)
      /\ Elems(todo) = {Head(todo)} \cup Elems(Tail(todo))
  BY <1>1, HeadAndTail
<1>3. IsSeq(todo') /\ Elems(todo') = Elems(more) \cup Elems(Tail(todo))
  BY <1>2, JoinElems DEF Continue
<1> QED BY <1>1, <1>2, <1>3

(* ... hold whatever has no place yet.                                     *)
LEMMA StaysComplete ==
  ASSUME WalkInv, NEW v, NEW what, v.node \in Nodes, pc # "begin",
         root' = root, rootName' = rootName, Place(v, what),
         Elems(todo) \subseteq {v} \cup Elems(todo'),
         what.inline => Elems(Children(v)) \subseteq Elems(todo')
  PROVE  Complete'
<1> SUFFICES ASSUME rootName = Nil PROVE Complete'
  BY DEF Complete
<1> DEFINE here == [path |-> v.path, node |-> v.node, as |-> what]
<1>1. placed' = placed \cup {here}
  BY DEF Place
<1>2. ASSUME NEW path, NEW node, ToCome(path, node) PROVE ToCome(path, node)'
  <2>1. CASE There(path, node)
    BY <1>1, <2>1 DEF There, ToCome
  <2>2. CASE \E w \in Elems(todo) : w.path = path /\ w.node = node
    <3> PICK w \in Elems(todo) : w.path = path /\ w.node = node
      BY <2>2
    <3>1. CASE w = v
      <4>1. here \in placed' /\ here.path = path /\ here.node = node
        BY <1>1, <3>1
      <4> QED BY <4>1 DEF There, ToCome
    <3>2. CASE w # v
      <4>1. w \in Elems(todo')
        BY <3>2
      <4> QED BY <4>1 DEF ToCome, Elems
    <3> QED BY <3>1, <3>2
  <2> QED BY <1>2, <2>1, <2>2 DEF ToCome
<1>3. Complete
  BY DEF WalkInv
<1>4. ToCome(<<>>, root)'
  <2>1. ToCome(<<>>, root)
    BY <1>3 DEF Complete
  <2> QED BY <1>2, <2>1
<1>5. ASSUME NEW r \in placed', r.as.inline
      PROVE  /\ \A i \in DOMAIN r.node.props :
                  ToCome(Append(r.path, r.node.props[i].key), r.node.props[i].node)'
             /\ \A i \in DOMAIN r.node.items : ToCome(Append(r.path, Item), r.node.items[i])'
  <2>1. CASE r \in placed
    BY <1>2, <1>3, <1>5, <2>1 DEF Complete
  <2>2. CASE r = here
    <3>1. ASSUME NEW u, IsBelow(v, u) PROVE ToCome(u.path, u.node)'
      <4>1. u \in Elems(todo')
        BY <1>5, <2>2, <3>1, ChildrenAre
      <4> QED BY <4>1 DEF ToCome, Elems
    <3>2. ASSUME NEW i \in DOMAIN r.node.props
          PROVE  ToCome(Append(r.path, r.node.props[i].key), r.node.props[i].node)'
      <4> DEFINE u == Below(v, v.node.props[i].node, v.node.props[i].key, v.node.props[i].key)
      <4>1. IsBelow(v, u)
        BY <2>2 DEF IsBelow
      <4>2. /\ u.path = Append(r.path, r.node.props[i].key)
            /\ u.node = r.node.props[i].node
        BY <2>2 DEF Below, Visit
      <4> HIDE DEF u
      <4> QED BY <3>1, <4>1, <4>2
    <3>3. ASSUME NEW i \in DOMAIN r.node.items
          PROVE  ToCome(Append(r.path, Item), r.node.items[i])'
      <4> DEFINE u == Below(v, v.node.items[i], Item, ItemKey)
      <4>1. IsBelow(v, u)
        BY <2>2 DEF IsBelow
      <4>2. u.path = Append(r.path, Item) /\ u.node = r.node.items[i]
        BY <2>2 DEF Below, Visit
      <4> HIDE DEF u
      <4> QED BY <3>1, <4>1, <4>2
    <3> QED BY <3>2, <3>3
  <2> QED BY <1>1, <2>1, <2>2
<1> QED BY <1>4, <1>5 DEF Complete

LEMMA PlainStep ==
  ASSUME WalkInv, pc = "walk", todo # <<>>, VisitPlain(Head(todo))
  PROVE  WalkInv'
<1> DEFINE v == Head(todo)
<1>0. v.node \in Nodes
  BY HeadAndTail DEF WalkInv, Walks
<1>1. /\ ~(Composite(v.node) /\ HasDigest(v.node)) /\ Place(v, Inline) /\ Continue(Children(v))
      /\ UNCHANGED <<root, rootName, rootRef, entries, usedNames, components, pc>>
  BY DEF VisitPlain
<1>2. IsSeq(Children(v)) /\ \A u \in Elems(Children(v)) : u.node \in Nodes
  BY <1>0, ChildrenAre
<1> HIDE DEF v
<1>3. /\ IsSeq(todo') /\ \A u \in Elems(todo') : u.node \in Nodes
      /\ Elems(Children(v)) \subseteq Elems(todo')
      /\ Elems(todo) \subseteq {v} \cup Elems(todo')
  BY <1>1, <1>2, Continues DEF v
<1>4. \A r \in placed' : \/ r \in placed
                         \/ r = [path |-> v.path, node |-> v.node, as |-> Inline]
  BY <1>1 DEF Place
<1>5. placed \subseteq placed'
  BY <1>1 DEF Place
<1>6. Walks'
  BY <1>0, <1>1, <1>3, <1>4 DEF WalkInv, Walks
<1>7. Places' /\ WrittenOnce'
  <2>1. \A r \in placed' : r \in placed \/ (r.node = v.node /\ r.as.inline)
    BY <1>4 DEF Inline
  <2>2. Places'
    BY <1>1, <2>1 DEF WalkInv, Places, RefersToIt, Written
  <2>3. WrittenOnce'
    BY <1>1, <2>1 DEF WalkInv, WrittenOnce
  <2> QED BY <2>2, <2>3
<1>8. TwiceIsUsed'
  BY <1>1, <1>5 DEF WalkInv, TwiceIsUsed
<1>9. Complete'
  BY <1>0, <1>1, <1>3, StaysComplete
<1>10. Entries' /\ TypeOK' /\ NamesAreUnique' /\ RootIsForced' /\ Published'
  BY <1>1 DEF WalkInv, Entries, TypeOK, EntriesOK, NamesAreUnique, RootIsForced, Published
<1> QED BY <1>6, <1>7, <1>8, <1>9, <1>10 DEF WalkInv

LEMMA NewStep ==
  ASSUME WalkInv, pc = "walk", todo # <<>>, VisitNew(Head(todo))
  PROVE  WalkInv'
<1> DEFINE v == Head(todo)
<1>0. v.node \in Nodes
  BY HeadAndTail DEF WalkInv, Walks
<1>1. /\ Composite(v.node) /\ HasDigest(v.node) /\ v.node \notin DOMAIN entries
      /\ RegisterNew(v.node, v.hint, FALSE)
      /\ Place(v, Inline) /\ Continue(Children(v))
      /\ UNCHANGED <<root, rootName, components, pc>>
  BY DEF VisitNew, Known
<1>2. IsSeq(Children(v)) /\ \A u \in Elems(Children(v)) : u.node \in Nodes
  BY <1>0, ChildrenAre
<1> HIDE DEF v
<1>3. /\ IsSeq(todo') /\ \A u \in Elems(todo') : u.node \in Nodes
      /\ Elems(Children(v)) \subseteq Elems(todo')
      /\ Elems(todo) \subseteq {v} \cup Elems(todo')
  BY <1>1, <1>2, Continues DEF v
<1>4. /\ Entries' /\ EntriesOK' /\ NamesAreUnique'
      /\ DOMAIN entries' = DOMAIN entries \cup {v.node}
      /\ \A d \in DOMAIN entries : entries'[d] = entries[d]
      /\ entries'[v.node].force = FALSE /\ entries'[v.node].count = 1
      /\ usedNames \subseteq usedNames' /\ rootRef' = rootRef
  BY <1>1, Registered
<1>5. ~Refers(entries'[v.node])
  BY <1>4 DEF Refers
<1>6. \A r \in placed' : r \in placed \/ (r.node = v.node /\ r.as.inline)
  BY <1>1 DEF Place, Inline
<1>7. placed \subseteq placed'
  BY <1>1 DEF Place
<1>8. Walks'
  BY <1>0, <1>1, <1>3, <1>6 DEF WalkInv, Walks
<1>9. Places'
  BY <1>4, <1>6 DEF WalkInv, Places, RefersToIt, Written
<1>10. WrittenOnce'
  <2>1. \A r \in placed : r.as.inline /\ Composite(r.node) /\ HasDigest(r.node) => r.node # v.node
    BY <1>1 DEF WalkInv, Places, RefersToIt, Written
  <2>2. \A r, s \in placed' : r \notin placed /\ s \notin placed => r = s
    BY <1>1 DEF Place
  <2> QED BY <1>6, <2>1, <2>2 DEF WalkInv, WrittenOnce
<1>11. TwiceIsUsed'
  BY <1>1, <1>4, <1>5, <1>7 DEF WalkInv, TwiceIsUsed
<1>12. Complete'
  BY <1>0, <1>1, <1>3, StaysComplete
<1>13. TypeOK' /\ RootIsForced' /\ Published'
  BY <1>1, <1>4 DEF WalkInv, TypeOK, RootIsForced, Published
<1> QED BY <1>4, <1>8, <1>9, <1>10, <1>11, <1>12, <1>13 DEF WalkInv

LEMMA AgainStep ==
  ASSUME WalkInv, pc = "walk", todo # <<>>, VisitAgain(Head(todo))
  PROVE  WalkInv'
<1> DEFINE v == Head(todo)
           ref == RefTo(entries[v.node].name)
<1>0. v.node \in Nodes
  BY HeadAndTail DEF WalkInv, Walks
<1>1. /\ Composite(v.node) /\ HasDigest(v.node) /\ v.node \in DOMAIN entries
      /\ entries' = [entries EXCEPT ![v.node] = Again(v.node)]
      /\ Place(v, IF Refers(Again(v.node)) THEN ref ELSE Inline)
      /\ Continue(IF Refers(Again(v.node)) THEN <<>> ELSE Children(v))
      /\ UNCHANGED <<root, rootName, rootRef, usedNames, components, pc>>
  BY DEF VisitAgain, Known
<1> HIDE DEF v
<1>2. /\ Entries' /\ EntriesOK' /\ NamesAreUnique'
      /\ DOMAIN entries' = DOMAIN entries
      /\ \A d \in DOMAIN entries : /\ entries'[d].name = entries[d].name
                                   /\ entries'[d].force = entries[d].force
                                   /\ Refers(entries[d]) => Refers(entries'[d])
      /\ \A d \in DOMAIN entries \ {v.node} : entries'[d] = entries[d]
      /\ Refers(entries'[v.node]) /\ Refers(Again(v.node))
  BY <1>1, RegisteredAgain
<1>a. /\ v.node \in DOMAIN entries
      /\ UNCHANGED <<root, rootName, rootRef, usedNames, components, pc>>
  BY <1>1
<1>b. /\ DOMAIN entries' = DOMAIN entries
      /\ \A d \in DOMAIN entries : /\ entries'[d].name = entries[d].name
                                   /\ entries'[d].force = entries[d].force
                                   /\ Refers(entries[d]) => Refers(entries'[d])
  BY <1>2
<1>3. Place(v, ref) /\ Continue(<<>>)
  BY <1>1, <1>2
<1>4. ~ref.inline /\ ref.ref = entries[v.node].name
  BY DEF RefTo
<1> HIDE DEF ref
<1>5. /\ IsSeq(todo') /\ \A u \in Elems(todo') : u.node \in Nodes
      /\ Elems(todo) \subseteq {v} \cup Elems(todo')
  <2>1. IsSeq(<<>>) /\ Elems(<<>>) = {}
    BY DEF IsSeq, Elems
  <2> QED BY <1>3, <2>1, Continues DEF v
<1>6. placed' = IF rootName = Nil THEN placed \cup {[path |-> v.path, node |-> v.node, as |-> ref]}
                ELSE placed
  BY <1>3 DEF Place
<1>7. \A r \in placed' : \/ r \in placed
                         \/ /\ r.node = v.node /\ ~r.as.inline
                            /\ r.as.ref = entries[v.node].name
  BY <1>4, <1>6
<1>8. Walks'
  BY <1>0, <1>a, <1>5, <1>7 DEF WalkInv, Walks
<1>9. Places' /\ WrittenOnce'
  <2>1. Places'
    <3>1. ASSUME NEW r \in placed' PROVE RefersToIt(r)' \/ Written(r)'
      <4>1. CASE r \in placed
        BY <1>b, <4>1 DEF WalkInv, Places, RefersToIt, Written
      <4>2. CASE r \notin placed
        BY <1>a, <1>b, <1>2, <1>7, <4>2 DEF RefersToIt
      <4> QED BY <4>1, <4>2
    <3> QED BY <3>1 DEF Places
  <2>2. WrittenOnce'
    BY <1>7 DEF WalkInv, WrittenOnce
  <2> QED BY <2>1, <2>2
<1>10. TwiceIsUsed'
  <2> SUFFICES ASSUME rootName = Nil, NEW d \in DOMAIN entries, Refers(entries'[d])
               PROVE  \E r \in placed' : ~r.as.inline /\ r.as.ref = entries[d].name
    BY <1>a, <1>b DEF TwiceIsUsed
  <2>1. CASE d = v.node
    <3>1. [path |-> v.path, node |-> v.node, as |-> ref] \in placed'
      BY <1>6
    <3> QED BY <1>4, <2>1, <3>1
  <2>2. CASE d # v.node
    BY <1>2, <1>6, <2>2 DEF WalkInv, TwiceIsUsed
  <2> QED BY <2>1, <2>2
<1>11. Complete'
  BY <1>0, <1>a, <1>3, <1>4, <1>5, StaysComplete
<1>12. TypeOK'
  BY <1>a, <1>2 DEF WalkInv, TypeOK
<1>13. RootIsForced'
  BY <1>a, <1>b DEF WalkInv, RootIsForced
<1>14. Published'
  BY <1>a DEF Published
<1> QED BY <1>2, <1>8, <1>9, <1>10, <1>11, <1>12, <1>13, <1>14 DEF WalkInv

-----------------------------------------------------------------------------
(* The other steps.                                                        *)
LEMMA OptionStep ==
  ASSUME WalkInv, NEW name \in RootNames \cup {Nil}, WithRootComponent(name)
  PROVE  WalkInv'
<1>1. /\ pc = "begin" /\ rootName' = name /\ placed = {} /\ DOMAIN entries = {} /\ rootRef = Nil
      /\ UNCHANGED <<root, rootRef, todo, entries, usedNames, placed, components, pc>>
  BY DEF WithRootComponent, WalkInv, Walks
<1>2. Walks' /\ Entries' /\ NamesAreUnique' /\ Places' /\ WrittenOnce' /\ TypeOK'
  BY <1>1 DEF WalkInv, Walks, Entries, NamesAreUnique, Places, RefersToIt, Written, WrittenOnce,
              TypeOK, EntriesOK
<1>3. RootIsForced' /\ TwiceIsUsed' /\ Complete' /\ Published'
  BY <1>1 DEF RootIsForced, TwiceIsUsed, Complete, Published
<1> QED BY <1>2, <1>3 DEF WalkInv

LEMMA InlineStep ==
  ASSUME WalkInv, BeginInline
  PROVE  WalkInv'
<1> DEFINE v == Visit(root, <<>>, <<"R", "o", "o", "t">>)
<1>1. /\ pc = "begin" /\ rootName = Nil /\ placed = {} /\ DOMAIN entries = {} /\ rootRef = Nil
      /\ todo' = <<v>> /\ pc' = "walk" /\ root \in Nodes
      /\ UNCHANGED <<root, rootName, rootRef, entries, usedNames, placed, components>>
  BY DEF BeginInline, WalkInv, Walks
<1>2. v.path = <<>> /\ v.node = root
  BY DEF Visit
<1> HIDE DEF v
<1>3. IsSeq(todo') /\ Elems(todo') = {v}
  BY <1>1 DEF IsSeq, Elems
<1>4. Walks'
  BY <1>1, <1>2, <1>3 DEF Walks
<1>5. Entries' /\ NamesAreUnique' /\ Places' /\ WrittenOnce' /\ TypeOK'
  BY <1>1 DEF WalkInv, Entries, NamesAreUnique, Places, WrittenOnce, TypeOK, EntriesOK
<1>6. RootIsForced' /\ TwiceIsUsed' /\ Published'
  BY <1>1 DEF RootIsForced, TwiceIsUsed, Published
<1>7. Complete'
  <2>1. ToCome(<<>>, root)'
    BY <1>1, <1>2, <1>3 DEF ToCome, Elems
  <2> QED BY <1>1, <2>1 DEF Complete
<1> QED BY <1>4, <1>5, <1>6, <1>7 DEF WalkInv

LEMMA ReferencedStep ==
  ASSUME WalkInv, BeginReferenced
  PROVE  WalkInv'
<1> DEFINE v == Visit(root, <<>>, rootName)
<1>1. /\ pc = "begin" /\ rootName # Nil /\ placed = {} /\ DOMAIN entries = {} /\ rootRef = Nil
      /\ usedNames = {} /\ todo' = Children(v) /\ pc' = "walk" /\ root \in Nodes
      /\ UNCHANGED <<root, rootName, placed, components>>
  BY DEF BeginReferenced, WalkInv, Walks
<1>2. v.node = root
  BY DEF Visit
<1> HIDE DEF v
<1>3. IsSeq(todo') /\ \A u \in Elems(todo') : u.node \in Nodes
  BY <1>1, <1>2, ChildrenAre
<1>4. Walks' /\ Places' /\ WrittenOnce' /\ TwiceIsUsed' /\ Complete' /\ Published'
  BY <1>1, <1>3 DEF Walks, Places, WrittenOnce, TwiceIsUsed, Complete, Published
<1>5. CASE HasDigest(root)
  <2>1. RegisterNew(root, rootName, TRUE) /\ root \notin DOMAIN entries
    BY <1>1, <1>5 DEF BeginReferenced
  <2>2. /\ Entries' /\ EntriesOK' /\ NamesAreUnique'
        /\ DOMAIN entries' = DOMAIN entries \cup {root}
        /\ entries'[root].force = TRUE /\ entries'[root].name \in usedNames'
        /\ rootRef' = entries'[root].name /\ entries'[root].name = Safe(rootName)
    BY <1>1, <1>5, <2>1, Registered
  <2>3. TypeOK'
    BY <1>1, <2>2 DEF WalkInv, TypeOK
  <2>4. RootIsForced'
    BY <1>1, <1>5, <2>2 DEF RootIsForced, HasDigest
  <2> QED BY <1>4, <2>2, <2>3, <2>4 DEF WalkInv
<1>6. CASE ~HasDigest(root)
  <2>1. UNCHANGED <<entries, usedNames, rootRef>>
    BY <1>6 DEF BeginReferenced
  <2>2. Entries' /\ NamesAreUnique' /\ TypeOK'
    BY <1>1, <2>1 DEF WalkInv, Entries, NamesAreUnique, TypeOK, EntriesOK
  <2>3. RootIsForced'
    BY <1>1, <1>6, <2>1 DEF RootIsForced, HasDigest
  <2> QED BY <1>4, <2>2, <2>3 DEF WalkInv
<1> QED BY <1>5, <1>6

LEMMA PublishStep ==
  ASSUME WalkInv, Publish
  PROVE  WalkInv'
<1>1. /\ pc = "walk" /\ todo = <<>> /\ pc' = "done"
      /\ components' = {[name |-> entries[d].name, schema |-> entries[d].schema] :
                          d \in {x \in DOMAIN entries : Refers(entries[x])}}
      /\ UNCHANGED <<root, rootName, rootRef, todo, entries, usedNames, placed>>
  BY DEF Publish, PublishAll
<1>2. Walks' /\ Entries' /\ NamesAreUnique' /\ WrittenOnce' /\ TypeOK'
  BY <1>1 DEF WalkInv, Walks, Entries, NamesAreUnique, WrittenOnce, TypeOK, EntriesOK
<1>3. Places' /\ TwiceIsUsed'
  BY <1>1 DEF WalkInv, Places, RefersToIt, Written, TwiceIsUsed
<1>4. RootIsForced' /\ Published'
  BY <1>1 DEF WalkInv, RootIsForced, Published
<1>5. Complete'
  BY <1>1 DEF WalkInv, Complete, ToCome, There, Elems
<1> QED BY <1>2, <1>3, <1>4, <1>5 DEF WalkInv

LEMMA WalkInvStep == WalkInv /\ [Next]_vars => WalkInv'
<1> SUFFICES ASSUME WalkInv, [Next]_vars PROVE WalkInv'
  OBVIOUS
<1>1. ASSUME NEW name \in RootNames \cup {Nil}, WithRootComponent(name) PROVE WalkInv'
  BY <1>1, OptionStep
<1>2. CASE BeginInline
  BY <1>2, InlineStep
<1>3. CASE BeginReferenced
  BY <1>3, ReferencedStep
<1>4. CASE Walk
  BY <1>4, PlainStep, NewStep, AgainStep DEF Walk
<1>5. CASE Publish
  BY <1>5, PublishStep
<1>6. CASE UNCHANGED vars
  BY <1>6 DEF vars, WalkInv, Walks, Entries, TypeOK, EntriesOK, NamesAreUnique, Places, RefersToIt,
              Written, WrittenOnce, RootIsForced, TwiceIsUsed, Complete, ToCome, There, Published
<1> QED BY <1>1, <1>2, <1>3, <1>4, <1>5, <1>6 DEF Next, Finished

-----------------------------------------------------------------------------
(* What is published for an entry that is referred to.                     *)
LEMMA Led ==
  ASSUME WalkInv, pc = "done", NEW node \in DOMAIN entries, Refers(entries[node])
  PROVE  Leads(entries[node].name, node)
<1>1. \A d \in DOMAIN entries : Refers(entries[d]) => entries[d].schema = d
  BY DEF WalkInv, TypeOK, EntriesOK
<1>2. components = {[name |-> entries[d].name, schema |-> entries[d].schema] :
                      d \in {x \in DOMAIN entries : Refers(entries[x])}}
  BY DEF WalkInv, Published
<1>3. [name |-> entries[node].name, schema |-> node] \in components
  BY <1>1, <1>2
<1>4. ASSUME NEW c \in components, c.name = entries[node].name PROVE c.schema = node
  <2>1. PICK d \in DOMAIN entries : /\ Refers(entries[d])
                                    /\ c = [name |-> entries[d].name, schema |-> entries[d].schema]
    BY <1>2
  <2>2. d = node
    BY <1>4, <2>1 DEF WalkInv, NamesAreUnique
  <2> QED BY <1>1, <2>1, <2>2
<1> QED BY <1>3, <1>4 DEF Leads

(* The options change nothing the walk reads but before it starts, and     *)
(* putting the document together changes nothing the walk wrote.           *)
LEMMA DocumentWalks == DocSpec => Spec
<1>1. DocInit => Init
  BY DEF DocInit
<1>2. [DocNext]_docVars => [Next]_vars
  BY DEF DocNext, docVars, Configure, Assemble
<1> QED BY <1>1, <1>2, PTL DEF DocSpec, Spec

LEMMA WalkInvAlways == DocSpec => []WalkInv
<1> QED BY DocumentWalks, WalkInvInit, WalkInvStep, PTL DEF Spec

(* The registry and the builder keep their types (components.go:8-18).     *)
THEOREM RegistryTypeOK == DocSpec => []TypeOK
<1>1. WalkInv => TypeOK
  BY DEF WalkInv
<1> QED BY WalkInvAlways, <1>1, PTL

(* No two schemas share a component name, whatever the properties and the  *)
(* root component are called (components.go:76-110).                       *)
THEOREM ComponentNamesAreUnique == DocSpec => []NamesAreUnique
<1>1. WalkInv => NamesAreUnique
  BY DEF WalkInv
<1> QED BY WalkInvAlways, <1>1, PTL

(* Every reference in a document leads to the schema that belongs there    *)
(* (components.go:36-74, document.go:74-85).                               *)
THEOREM EveryRefResolves == DocSpec => []RefsResolve
<1>1. WalkInv => RefsResolve
  <2> SUFFICES ASSUME WalkInv, pc = "done" PROVE RefsResolve
    BY DEF RefsResolve
  <2>1. \A r \in placed : r.as.inline \/ Leads(r.as.ref, r.node)
    BY Led DEF WalkInv, Places, RefersToIt, Written
  <2>2. ASSUME rootRef # Nil PROVE Leads(rootRef, root)
    <3>1. root \in DOMAIN entries /\ entries[root].force /\ entries[root].name = rootRef
      BY <2>2 DEF WalkInv, RootIsForced
    <3> QED BY <3>1, Led DEF Refers
  <2>3. rootName # Nil /\ HasDigest(root) => rootRef = Safe(rootName)
    BY DEF WalkInv, RootIsForced
  <2> QED BY <2>1, <2>2, <2>3 DEF RefsResolve
<1> QED BY WalkInvAlways, <1>1, PTL

(* Without a root component, no component is published for nothing         *)
(* (components.go:96-110).                                                 *)
THEOREM EveryComponentIsUsed == DocSpec => []ComponentsAreUsed
<1>1. WalkInv => ComponentsAreUsed
  BY DEF WalkInv, Published, TwiceIsUsed, ComponentsAreUsed
<1> QED BY WalkInvAlways, <1>1, PTL

(* No object or array schema is written out twice in the body              *)
(* (document.go:146-151).                                                  *)
THEOREM SchemasAreWrittenOnce == DocSpec => []WrittenOnce
<1>1. WalkInv => WrittenOnce
  BY DEF WalkInv
<1> QED BY WalkInvAlways, <1>1, PTL

(* A body that is written out has everything in the graph, however deep    *)
(* (document.go:138-199).                                                  *)
THEOREM TheBodyIsComplete == DocSpec => []NothingLeftOut
<1>1. WalkInv => NothingLeftOut
  <2> SUFFICES ASSUME WalkInv, pc = "done", rootName = Nil PROVE NothingLeftOut
    BY DEF NothingLeftOut
  <2>1. Elems(todo) = {}
    BY DEF WalkInv, Walks, Elems
  <2>2. \A path, node : ToCome(path, node) => There(path, node)
    BY <2>1 DEF ToCome
  <2> QED BY <2>2 DEF WalkInv, Complete, NothingLeftOut
<1> QED BY WalkInvAlways, <1>1, PTL

-----------------------------------------------------------------------------
(* The options.  Whatever is needed is there from the start, and an option *)
(* can replace it but not take it away.                                    *)
ConfigFields ==
  {"openAPIVersion", "title", "version", "description", "path", "method", "operationID",
   "summary", "contentType", "responses"}
Needed == {"openAPIVersion", "title", "version", "path", "method", "operationID", "contentType"}
IsConfig(c) ==
  /\ c = [f \in ConfigFields |-> c[f]]
  /\ \A f \in Needed : c[f] # ""
  /\ c.method # "PUT" /\ DOMAIN c.responses # {}

ConfigInv == IsConfig(config) /\ EveryConfigurationIsValid

LEMMA KeepKeeps ==
  ASSUME NEW old, NEW text, old # ""
  PROVE  Keep(old, text) # ""
BY DEF Keep

LEMMA KeepMethod ==
  ASSUME NEW old, NEW text, old # "", old # "PUT"
  PROVE  Keep(old, ToLower(text)) # "" /\ Keep(old, ToLower(text)) # "PUT"
BY DEF Keep, ToLower

(* Each kind of option is a record update.                                 *)
LEMMA InfoStays ==
  ASSUME NEW title, NEW version, NEW description, IsConfig(config),
         WithInfo(title, version, description)
  PROVE  IsConfig(config')
<1> DEFINE t == Keep(config.title, title)
           v == Keep(config.version, version)
<1>1. t # "" /\ v # ""
  BY KeepKeeps DEF IsConfig, Needed
<1>2. config' = [config EXCEPT !.title = t, !.version = v, !.description = description]
  BY DEF WithInfo
<1> HIDE DEF t, v
<1> QED BY <1>1, <1>2 DEF IsConfig, ConfigFields, Needed

LEMMA OperationStays ==
  ASSUME NEW path, NEW method, NEW id, NEW summary, IsConfig(config),
         WithOperation(path, method, id, summary)
  PROVE  IsConfig(config')
<1> DEFINE p == Keep(config.path, path)
           m == Keep(config.method, ToLower(method))
           o == Keep(config.operationID, id)
<1>1. p # "" /\ o # ""
  BY KeepKeeps DEF IsConfig, Needed
<1>2. m # "" /\ m # "PUT"
  BY KeepMethod DEF IsConfig, Needed
<1>3. config' = [config EXCEPT !.path = p, !.method = m, !.operationID = o, !.summary = summary]
  BY DEF WithOperation
<1> HIDE DEF p, m, o
<1> QED BY <1>1, <1>2, <1>3 DEF IsConfig, ConfigFields, Needed

LEMMA ResponseStays ==
  ASSUME NEW status, NEW text, IsConfig(config), WithResponse(status, text)
  PROVE  IsConfig(config')
<1> DEFINE had == IF status \in DOMAIN config.responses THEN config.responses[status] ELSE ""
           all == [s \in DOMAIN config.responses \cup {status} |->
                     IF s = status THEN Keep(had, text) ELSE config.responses[s]]
<1>1. config' = [config EXCEPT !.responses = all]
  BY Zenon DEF WithResponse
<1>2. DOMAIN all # {}
  OBVIOUS
<1> HIDE DEF all
<1>3. config = [f \in ConfigFields |-> config[f]] /\ "responses" \in ConfigFields
  BY DEF IsConfig, ConfigFields
<1>4. config' = [f \in ConfigFields |-> config'[f]] /\ config'["responses"] = all
  BY <1>1, <1>3
<1>5. \A f \in Needed : f # "responses" /\ f \in ConfigFields
  BY DEF Needed, ConfigFields
<1>6. \A f \in Needed : config'[f] = config[f]
  BY <1>1, <1>3, <1>5
<1> QED BY <1>2, <1>4, <1>6 DEF IsConfig, Needed

LEMMA OptionStays ==
  ASSUME IsConfig(config), Configure
  PROVE  IsConfig(config')
<1>1. CASE \E text \in Texts : WithOpenAPIVersion(text)
  <2>1. PICK text : config' = [config EXCEPT !.openAPIVersion = Keep(config.openAPIVersion, text)]
    BY <1>1 DEF WithOpenAPIVersion
  <2>2. Keep(config.openAPIVersion, text) # ""
    BY KeepKeeps DEF IsConfig, Needed
  <2> QED BY <2>1, <2>2 DEF IsConfig, ConfigFields, Needed
<1>2. CASE \E text \in Texts : WithContentType(text)
  <2>1. PICK text : config' = [config EXCEPT !.contentType = Keep(config.contentType, text)]
    BY <1>2 DEF WithContentType
  <2>2. Keep(config.contentType, text) # ""
    BY KeepKeeps DEF IsConfig, Needed
  <2> QED BY <2>1, <2>2 DEF IsConfig, ConfigFields, Needed
<1>3. CASE \E title, version, description : WithInfo(title, version, description)
  BY <1>3, InfoStays
<1>4. CASE \E path, method, id, summary : WithOperation(path, method, id, summary)
  BY <1>4, OperationStays
<1>5. CASE \E status, text : WithResponse(status, text)
  BY <1>5, ResponseStays
<1> QED BY <1>1, <1>2, <1>3, <1>4, <1>5 DEF Configure

(* The document: with such a configuration validateDocument has nothing to *)
(* object to.                                                              *)
LEMMA AssembledIsValid ==
  ASSUME IsConfig(config), Assemble
  PROVE  EveryConfigurationIsValid'
<1> DEFINE doc == [error |-> FALSE, openapi |-> config.openAPIVersion, info |-> BuildInfo,
                   paths |-> BuildPaths, components |-> components]
<1>1. Valid(doc)
  BY DEF Valid, BuildInfo, IsConfig, Needed
<1>2. document' = doc
  BY <1>1 DEF Assemble, Assembled
<1>3. /\ ~doc.error /\ doc.paths.path = config.path
      /\ doc.paths.operationID = OperationID /\ doc.paths.contentType = config.contentType
      /\ doc.paths.method = MethodName /\ doc.paths.responses = config.responses
  BY DEF BuildPaths
<1>4. OperationID # "" /\ MethodName = config.method /\ ToLower(MethodName) = MethodName
  BY DEF OperationID, MethodName, ToLower, IsConfig, Needed
<1>5. config.path # "" /\ config.contentType # "" /\ DOMAIN config.responses # {}
  BY DEF IsConfig, Needed
<1> HIDE DEF doc
<1> QED BY <1>2, <1>3, <1>4, <1>5 DEF EveryConfigurationIsValid

LEMMA ConfigInvInit == DocInit => ConfigInv
<1> SUFFICES ASSUME DocInit PROVE ConfigInv
  OBVIOUS
<1>1. IsConfig(DefaultGeneratorConfig)
  <2> DEFINE all == [s \in {"204"} |-> "OK"]
             c == [openAPIVersion |-> "3.0.3", title |-> "Options Schema", version |-> "1.0.0",
                   description |-> "", path |-> "/config", method |-> "post",
                   operationID |-> "post:/config", summary |-> "",
                   contentType |-> "application/json", responses |-> all]
  <2>1. DOMAIN all # {}
    OBVIOUS
  <2> HIDE DEF all
  <2>2. c = [f \in ConfigFields |-> c[f]]
    BY DEF ConfigFields
  <2>3. \A f \in Needed : c[f] # ""
    <3>1. /\ c["openAPIVersion"] # "" /\ c["title"] # "" /\ c["version"] # "" /\ c["path"] # ""
          /\ c["method"] # "" /\ c["operationID"] # "" /\ c["contentType"] # ""
      OBVIOUS
    <3> HIDE DEF c
    <3> QED BY <3>1 DEF Needed
  <2>4. c.method # "PUT" /\ DOMAIN c.responses # {}
    BY <2>1
  <2>5. c = DefaultGeneratorConfig
    BY DEF all, DefaultGeneratorConfig
  <2> HIDE DEF c
  <2> QED BY <2>2, <2>3, <2>4, <2>5 DEF IsConfig
<1>2. IsConfig(config)
  BY <1>1 DEF DocInit
<1>3. EveryConfigurationIsValid
  BY DEF DocInit, EveryConfigurationIsValid
<1> QED BY <1>2, <1>3 DEF ConfigInv

LEMMA ConfigInvStep == ConfigInv /\ [DocNext]_docVars => ConfigInv'
<1> SUFFICES ASSUME ConfigInv, [DocNext]_docVars PROVE ConfigInv'
  OBVIOUS
<1>1. CASE Configure
  <2>1. IsConfig(config)'
    BY <1>1, OptionStays DEF ConfigInv, IsConfig, ConfigFields, Needed
  <2>2. EveryConfigurationIsValid'
    BY <1>1 DEF Configure, ConfigInv, EveryConfigurationIsValid
  <2> QED BY <2>1, <2>2 DEF ConfigInv
<1>2. CASE Assemble
  <2>1. config' = config
    BY <1>2 DEF Assemble
  <2>2. EveryConfigurationIsValid'
    BY <1>2, AssembledIsValid DEF ConfigInv
  <2> QED BY <2>1, <2>2 DEF ConfigInv, IsConfig
<1>3. CASE UNCHANGED <<config, given, document>>
  BY <1>3 DEF ConfigInv, IsConfig, EveryConfigurationIsValid
<1> QED BY <1>1, <1>2, <1>3 DEF DocNext, docVars

(* No options, with whatever texts and in whatever number and order, keep  *)
(* Generate from putting a valid document together (config.go,             *)
(* document.go:57-135 and 236-288).                                        *)
THEOREM DocumentsAreValid == DocSpec => []EveryConfigurationIsValid
<1>1. ConfigInv => EveryConfigurationIsValid
  BY DEF ConfigInv
<1> QED BY ConfigInvInit, ConfigInvStep, <1>1, PTL DEF DocSpec

-----------------------------------------------------------------------------
(* The recursion of build is what it says at each depth.                   *)
BuildAt(n) ==
  BuildUpto[n] =
    [v \in GoValues |-> [t \in TypeNames |-> [visited \in SUBSET TypeNames |->
       IF n = 0 THEN Failure ELSE BuildBy(BuildUpto[n - 1], v, t, visited)]]]

LEMMA BuildUptoIs == \A n \in 0..MaxDepth : BuildAt(n)
<1> DEFINE B(n, y) ==
             [v \in GoValues |-> [t \in TypeNames |-> [visited \in SUBSET TypeNames |->
                IF n = 0 THEN Failure ELSE BuildBy(y, v, t, visited)]]]
           Out(f, m) == f = [n \in 0..m |-> B(n, f[n - 1])]
           T == {m \in Nat : \E f : Out(f, m)}
<1>1. \A y, z : B(0, y) = B(0, z)
  OBVIOUS
<1>2. BuildUpto = CHOOSE f : Out(f, MaxDepth)
  BY DEF BuildUpto
<1> HIDE DEF B
<1>3. 0 \in T
  <2> DEFINE f == [n \in 0..0 |-> B(0, 0)]
  <2>1. \A n \in 0..0 : f[n] = B(n, f[n - 1])
    BY <1>1
  <2>2. Out(f, 0)
    BY <2>1
  <2> QED BY <2>2
<1>4. ASSUME NEW m \in Nat, m \in T PROVE m + 1 \in T
  <2>1. PICK f : Out(f, m)
    BY <1>4
  <2> DEFINE g == [n \in 0..(m + 1) |-> IF n = m + 1 THEN B(m + 1, f[m]) ELSE f[n]]
  <2>2. ASSUME NEW n \in 0..(m + 1) PROVE g[n] = B(n, g[n - 1])
    <3>1. CASE n = m + 1
      BY <3>1
    <3>2. CASE n # m + 1 /\ n # 0
      <4>1. n \in 0..m /\ n - 1 \in 0..(m + 1) /\ n - 1 # m + 1
        BY <3>2
      <4>2. g[n] = f[n] /\ g[n - 1] = f[n - 1]
        BY <3>2, <4>1
      <4>3. f[n] = B(n, f[n - 1])
        BY <2>1, <4>1
      <4> QED BY <4>2, <4>3
    <3>3. CASE n = 0
      <4>1. g[n] = f[n] /\ f[n] = B(n, f[n - 1])
        BY <2>1, <3>3
      <4>2. B(n, f[n - 1]) = B(n, g[n - 1])
        BY <1>1, <3>3
      <4> QED BY <4>1, <4>2
    <3> QED BY <3>1, <3>2, <3>3
  <2>3. Out(g, m + 1)
    BY <2>2
  <2> HIDE DEF Out, g
  <2> QED BY <2>3
<1>5. MaxDepth \in T
  <2> HIDE DEF T
  <2> QED BY <1>3, <1>4, Induct, SchemaAssumption
<1>6. Out(BuildUpto, MaxDepth)
  <2> HIDE DEF Out
  <2> QED BY <1>2, <1>5
<1>7. \A n \in 0..MaxDepth : BuildUpto[n] = B(n, BuildUpto[n - 1])
  BY <1>6
<1> QED BY <1>7 DEF B, BuildAt

LEMMA BuildIs ==
  ASSUME NEW n \in 0..MaxDepth, NEW v \in GoValues, NEW t \in TypeNames,
         NEW visited \in SUBSET TypeNames
  PROVE  BuildUpto[n][v][t][visited] =
           IF n = 0 THEN Failure ELSE BuildBy(BuildUpto[n - 1], v, t, visited)
<1> DEFINE F(x, y, z) == IF n = 0 THEN Failure ELSE BuildBy(BuildUpto[n - 1], x, y, z)
           U == BuildUpto[n]
<1>1. BuildAt(n)
  BY BuildUptoIs
<1>2. U = [x \in GoValues |-> [y \in TypeNames |-> [z \in SUBSET TypeNames |-> F(x, y, z)]]]
  BY <1>1 DEF BuildAt
<1> HIDE DEF F, U
<1>3. U[v][t][visited] = F(v, t, visited)
  BY <1>2
<1> QED BY <1>3 DEF F, U

(* The same of OneShapeUpto.                                               *)
ShapeAt(n) ==
  OneShapeUpto[n] =
    [t \in TypeNames |->
       /\ Types[t].kind \notin {"map", "iface"}
       /\ n # 0 => \A s \in Parts(t) : OneShapeUpto[n - 1][s]]

LEMMA OneShapeUptoIs == \A n \in 0..MaxDepth : ShapeAt(n)
<1> DEFINE B(n, y) ==
             [t \in TypeNames |->
                /\ Types[t].kind \notin {"map", "iface"}
                /\ n # 0 => \A s \in Parts(t) : y[s]]
           Out(f, m) == f = [n \in 0..m |-> B(n, f[n - 1])]
           T == {m \in Nat : \E f : Out(f, m)}
<1>1. \A y, z : B(0, y) = B(0, z)
  OBVIOUS
<1>2. OneShapeUpto = CHOOSE f : Out(f, MaxDepth)
  BY DEF OneShapeUpto
<1> HIDE DEF B
<1>3. 0 \in T
  <2> DEFINE f == [n \in 0..0 |-> B(0, 0)]
  <2>1. \A n \in 0..0 : f[n] = B(n, f[n - 1])
    BY <1>1
  <2>2. Out(f, 0)
    BY <2>1
  <2> QED BY <2>2
<1>4. ASSUME NEW m \in Nat, m \in T PROVE m + 1 \in T
  <2>1. PICK f : Out(f, m)
    BY <1>4
  <2> DEFINE g == [n \in 0..(m + 1) |-> IF n = m + 1 THEN B(m + 1, f[m]) ELSE f[n]]
  <2>2. ASSUME NEW n \in 0..(m + 1) PROVE g[n] = B(n, g[n - 1])
    <3>1. CASE n = m + 1
      BY <3>1
    <3>2. CASE n # m + 1 /\ n # 0
      <4>1. n \in 0..m /\ n - 1 \in 0..(m + 1) /\ n - 1 # m + 1
        BY <3>2
      <4>2. g[n] = f[n] /\ g[n - 1] = f[n - 1]
        BY <3>2, <4>1
      <4>3. f[n] = B(n, f[n - 1])
        BY <2>1, <4>1
      <4> QED BY <4>2, <4>3
    <3>3. CASE n = 0
      <4>1. g[n] = f[n] /\ f[n] = B(n, f[n - 1])
        BY <2>1, <3>3
      <4>2. B(n, f[n - 1]) = B(n, g[n - 1])
        BY <1>1, <3>3
      <4> QED BY <4>1, <4>2
    <3> QED BY <3>1, <3>2, <3>3
  <2>3. Out(g, m + 1)
    BY <2>2
  <2> HIDE DEF Out, g
  <2> QED BY <2>3
<1>5. MaxDepth \in T
  <2> HIDE DEF T
  <2> QED BY <1>3, <1>4, Induct, SchemaAssumption
<1>6. Out(OneShapeUpto, MaxDepth)
  <2> HIDE DEF Out
  <2> QED BY <1>2, <1>5
<1>7. \A n \in 0..MaxDepth : OneShapeUpto[n] = B(n, OneShapeUpto[n - 1])
  BY <1>6
<1> QED BY <1>7 DEF B, ShapeAt

(* A builder for what is one step below does not look at values.           *)
LooksAway(sub, s) ==
  \A v, w \in GoValues : \A visited \in SUBSET TypeNames : sub[v][s][visited] = sub[w][s][visited]

LEMMA AtIs ==
  ASSUME NEW v \in GoValues, NEW i
  PROVE  At(v, i) \in GoValues
  BY SchemaAssumption DEF At, Holds

LEMMA SameStruct ==
  ASSUME NEW sub, NEW t \in TypeNames, Types[t].kind = "struct",
         \A s \in Parts(t) : LooksAway(sub, s),
         NEW v \in GoValues, NEW w \in GoValues, NEW visited \in SUBSET TypeNames
  PROVE  BuildStruct(sub, v, t, visited) = BuildStruct(sub, w, t, visited)
<1> DEFINE fields == Types[t].fields
           shown == {i \in DOMAIN fields : Listed(fields[i])}
           below(x) == [i \in shown |-> sub[At(x, i)][fields[i].type][visited \cup {t}]]
           R(b) ==
             LET keys == {fields[i].name : i \in shown}
                 built == [i \in shown |-> IF IsFailure(b[i]) THEN Failure ELSE Tagged(b[i], fields[i])]
             IN  IF t \in visited THEN ObjectNode
                 ELSE IF \E i \in shown : IsFailure(built[i]) THEN Failure
                 ELSE [WithProps([k \in keys |-> built[NamedBy(fields, k)]]) EXCEPT
                        !.required = RequiredNames(fields, {i \in shown : IsRequired(fields[i])})]
<1>1. ASSUME NEW i \in shown
      PROVE  sub[At(v, i)][fields[i].type][visited \cup {t}]
               = sub[At(w, i)][fields[i].type][visited \cup {t}]
  <2>1. fields[i].type \in Parts(t)
    BY DEF Parts
  <2>2. visited \cup {t} \in SUBSET TypeNames
    OBVIOUS
  <2> QED BY <2>1, <2>2, AtIs DEF LooksAway
<1>2. below(v) = below(w)
  BY <1>1
<1>3. /\ BuildStruct(sub, v, t, visited) = R(below(v))
      /\ BuildStruct(sub, w, t, visited) = R(below(w))
  BY DEF BuildStruct
<1> HIDE DEF R, below
<1> QED BY <1>2, <1>3

LEMMA SameBuild ==
  ASSUME NEW sub, NEW t \in TypeNames, Types[t].kind \notin {"map", "iface"},
         \A s \in Parts(t) : LooksAway(sub, s),
         NEW v \in GoValues, NEW w \in GoValues, NEW visited \in SUBSET TypeNames
  PROVE  BuildBy(sub, v, t, visited) = BuildBy(sub, w, t, visited)
<1>1. Types[t].kind \in {"scalar", "ptr", "slice", "array", "struct"}
  BY SchemaAssumption
<1>2. CASE Types[t].kind = "struct"
  <2>1. /\ BuildBy(sub, v, t, visited) = BuildStruct(sub, v, t, visited)
        /\ BuildBy(sub, w, t, visited) = BuildStruct(sub, w, t, visited)
    BY <1>2 DEF BuildBy
  <2> QED BY <1>2, <2>1, SameStruct
<1>3. CASE Types[t].kind = "scalar"
  BY <1>3 DEF BuildBy
<1>4. CASE Types[t].kind \in {"ptr", "slice", "array"}
  <2>1. Types[t].elem \in Parts(t)
    BY <1>4 DEF Parts
  <2> DEFINE item(x) == sub[At(x, 1)][Types[t].elem][visited]
             S(y) == IF IsFailure(y) THEN y
                     ELSE [Node("array", "") EXCEPT !.items = <<y>>, !.marshals = y.marshals]
  <2>2. item(v) = item(w)
    BY <2>1, AtIs DEF LooksAway
  <2>3. CASE Types[t].kind = "ptr"
    <3>1. BuildBy(sub, v, t, visited) = item(v) /\ BuildBy(sub, w, t, visited) = item(w)
      BY <2>3 DEF BuildBy
    <3> QED BY <2>2, <3>1
  <2>4. CASE Types[t].kind \in {"slice", "array"}
    <3>1. /\ BuildBy(sub, v, t, visited) = BuildSlice(sub, v, t, visited)
          /\ BuildBy(sub, w, t, visited) = BuildSlice(sub, w, t, visited)
      BY <2>4 DEF BuildBy
    <3>2. /\ BuildSlice(sub, v, t, visited) = S(item(v))
          /\ BuildSlice(sub, w, t, visited) = S(item(w))
      BY DEF BuildSlice
    <3> HIDE DEF S, item
    <3> QED BY <2>2, <3>1, <3>2
  <2> QED BY <1>4, <2>3, <2>4
<1> QED BY <1>1, <1>2, <1>3, <1>4

(* By induction on the depth, what is built of a type with one shape does  *)
(* not depend on the value it is built from.                               *)
LEMMA ShapeDecides ==
  \A n \in 0..MaxDepth : \A t \in TypeNames : OneShapeUpto[n][t] => LooksAway(BuildUpto[n], t)
<1> DEFINE Good(n) == \A t \in TypeNames : OneShapeUpto[n][t] => LooksAway(BuildUpto[n], t)
           T == {n \in Nat : n <= MaxDepth => Good(n)}
<1>1. MaxDepth \in Nat
  BY SchemaAssumption
<1>2. 0 \in T
  <2>1. \A v \in GoValues : \A t \in TypeNames : \A visited \in SUBSET TypeNames :
          BuildUpto[0][v][t][visited] = Failure
    BY <1>1, BuildIs
  <2>2. Good(0)
    BY <2>1 DEF LooksAway
  <2> HIDE DEF Good
  <2> QED BY <2>2
<1>3. ASSUME NEW m \in Nat, m \in T PROVE m + 1 \in T
  <2>1. SUFFICES ASSUME m + 1 <= MaxDepth PROVE Good(m + 1)
    <3> HIDE DEF Good
    <3> QED OBVIOUS
  <2>2. Good(m)
    <3> HIDE DEF Good
    <3> QED BY <1>1, <1>3, <2>1
  <2> DEFINE k == m + 1
  <2>3. k \in 0..MaxDepth /\ k # 0 /\ k - 1 = m /\ m \in 0..MaxDepth
    BY <1>1, <2>1
  <2> HIDE DEF k
  <2>4. SUFFICES ASSUME NEW t \in TypeNames, OneShapeUpto[k][t] PROVE LooksAway(BuildUpto[k], t)
    BY DEF k
  <2>5. Types[t].kind \notin {"map", "iface"} /\ \A s \in Parts(t) : OneShapeUpto[m][s]
    <3>1. ShapeAt(k)
      BY <2>3, OneShapeUptoIs
    <3>2. OneShapeUpto[k][t] = (/\ Types[t].kind \notin {"map", "iface"}
                                /\ k # 0 => \A s \in Parts(t) : OneShapeUpto[k - 1][s])
      BY <3>1, Zenon DEF ShapeAt
    <3> QED BY <2>3, <2>4, <3>2
  <2>6. Parts(t) \subseteq TypeNames
    BY SchemaAssumption DEF Parts
  <2>7. \A s \in Parts(t) : LooksAway(BuildUpto[m], s)
    BY <2>2, <2>5, <2>6
  <2>8. ASSUME NEW v \in GoValues, NEW w \in GoValues, NEW visited \in SUBSET TypeNames
        PROVE  BuildUpto[k][v][t][visited] = BuildUpto[k][w][t][visited]
    <3>1. /\ BuildUpto[k][v][t][visited] = BuildBy(BuildUpto[m], v, t, visited)
          /\ BuildUpto[k][w][t][visited] = BuildBy(BuildUpto[m], w, t, visited)
      BY <2>3, <2>4, BuildIs
    <3> QED BY <2>5, <2>7, <3>1, SameBuild
  <2> QED BY <2>8 DEF LooksAway
<1>4. Nat \subseteq T
  <2> HIDE DEF T
  <2> QED BY <1>2, <1>3, Induct
<1>5. \A n \in 0..MaxDepth : Good(n)
  <2> HIDE DEF Good
  <2> QED BY <1>1, <1>4
<1> QED BY <1>5

(* For any Go types, also recursive ones, and any values of them: if a     *)
(* type has no maps or interfaces in it, the generator's schema graph of a *)
(* configuration is the same whatever the configuration holds.             *)
THEOREM SchemaFollowsType == DocSpec => []SchemaIsOfTheType
<1>1. SchemaIsOfTheType
  <2> SUFFICES ASSUME NEW m \in Made, NEW n \in Made, m.type = n.type, m.type \in OneShape
               PROVE  m.graph = n.graph
    BY DEF SchemaIsOfTheType
  <2>1. PICK c \in Configs : m = [type |-> c.type, graph |-> BuildSchemaGraph(c.value, c.type)]
    BY DEF Made
  <2>2. PICK d \in Configs : n = [type |-> d.type, graph |-> BuildSchemaGraph(d.value, d.type)]
    BY DEF Made
  <2>3. /\ c.type \in TypeNames /\ c.value \in GoValues /\ d.value \in GoValues
        /\ c.type = d.type /\ OneShapeUpto[MaxDepth][c.type] /\ MaxDepth \in 0..MaxDepth
    BY <2>1, <2>2, SchemaAssumption DEF OneShape
  <2>4. {} \in SUBSET TypeNames
    OBVIOUS
  <2>5. BuildSchemaGraph(c.value, c.type) = BuildSchemaGraph(d.value, d.type)
    BY <2>3, <2>4, ShapeDecides DEF LooksAway, BuildSchemaGraph
  <2> QED BY <2>1, <2>2, <2>5
<1> QED BY <1>1, PTL
=============================================================================
