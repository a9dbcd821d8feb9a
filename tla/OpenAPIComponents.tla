-------------------------- MODULE OpenAPIComponents --------------------------
(***************************************************************************)
(* One run of the OpenAPI generator over a schema graph: which parts of it *)
(* are written out where they stand, which become a reference, and what is *)
(* published under components/schemas.                                     *)
(*                                                                         *)
(* A node is [type, meta, props, items, marshals]: props is the sequence   *)
(* of its properties [key, node] in the order of their keys, items has the *)
(* item schema of an array or nothing, meta stands for all other fields.   *)
(* A node is its own digest: two nodes have one SHA-256 when they marshal  *)
(* to one text.  A key or a name is a sequence of characters.              *)
(***************************************************************************)
EXTENDS Naturals, Sequences

CONSTANTS
  Nodes,      \* the nodes of the schema graphs
  Roots,      \* the graphs to generate from
  RootNames,  \* arguments of WithRootComponent
  Digits,     \* the digits from 1 on, as characters
  Illegal,    \* the characters a component name must not have
  Nil,        \* no name, no schema, no reference
  MaxSuffix   \* bound: the number behind a name

ASSUME OpenAPIAssumption == MaxSuffix \in Nat /\ MaxSuffix <= Len(Digits)

Elems(s) == {s[i] : i \in 1..Len(s)}
IsSeq(s) == s \in Seq(Elems(s))

(* What is below a node is a node.                                         *)
ASSUME GraphAssumption ==
  /\ Roots \subseteq Nodes
  /\ \A n \in Nodes :
       /\ IsSeq(n.props) /\ \A i \in DOMAIN n.props : n.props[i].node \in Nodes
       /\ IsSeq(n.items) /\ \A i \in DOMAIN n.items : n.items[i] \in Nodes

VARIABLES
  root,       \* the graph
  rootName,   \* generatorConfig.rootComponent
  rootRef,    \* what the request body refers to
  todo,       \* the calls of schemaFor still to be made, in order
  entries,    \* componentRegistry.entries: by digest
  usedNames,  \* componentRegistry.usedNames
  placed,     \* the places of the body, and what schemaFor has returned there
  components, \* what componentsMap has published
  pc

vars == <<root, rootName, rootRef, todo, entries, usedNames, placed, components, pc>>

-----------------------------------------------------------------------------
(* Names.                                                                  *)

Underscore == "_"

(* A run of illegal characters becomes one underscore.                     *)
Legalised(s) ==
  LET Stays(i) == s[i] \notin Illegal \/ i = 1 \/ s[i - 1] \notin Illegal
      at       == SelectSeq([i \in 1..Len(s) |-> i], Stays)
  IN  [j \in 1..Len(at) |-> IF s[at[j]] \in Illegal THEN Underscore ELSE s[at[j]]]

Trim(s, chars) ==
  LET core == {i \in 1..Len(s) : s[i] \notin chars}
  IN  IF core = {} THEN <<>>
      ELSE SubSeq(s, CHOOSE i \in core : \A j \in core : i <= j,
                     CHOOSE i \in core : \A j \in core : i >= j)
TrimUnderscores(s) == Trim(s, {Underscore})
TrimSpace(s)       == Trim(s, {" "})

SanitizeComponentName(s) ==
  LET t == TrimUnderscores(Legalised(s))
  IN  IF t # <<>> /\ (Head(t) = "0" \/ \E i \in 1..Len(Digits) : Head(t) = Digits[i])
      THEN <<Underscore>> \o t ELSE t

NoName == <<"S", "c", "h", "e", "m", "a">>
Safe(hint) ==
  LET s == SanitizeComponentName(hint) IN IF s = <<>> THEN NoName ELSE s

Candidate(safe, k) == IF k = 0 THEN safe ELSE Append(safe, Digits[k])

(* uniqueName: the first candidate that is not taken.                      *)
NumberedOnce(name, hint) ==
  LET safe == Safe(hint)
  IN  name = IF safe \in usedNames THEN Candidate(safe, 1) ELSE safe
UniqueName(name, hint) ==
  \E k \in 0..MaxSuffix :
    /\ name = Candidate(Safe(hint), k) /\ name \notin usedNames
    /\ \A j \in 0..k - 1 : Candidate(Safe(hint), j) \in usedNames

CombineComponentName(hint, key) ==
  LET parts == SelectSeq(<<TrimSpace(hint), TrimSpace(key)>>, LAMBDA part : part # <<>>)
  IN  CASE Len(parts) = 0 -> NoName
        [] Len(parts) = 1 -> parts[1]
        [] OTHER          -> parts[1] \o <<Underscore>> \o parts[2]

-----------------------------------------------------------------------------
(* The registry.                                                           *)

Composite(node) == node.type \in {"object", "array"}
HasDigest(node) == node.marshals
Known(node)     == node \in DOMAIN entries

RefersThird(e) == e.force \/ e.count >= 3
Refers(e) == e.force \/ e.count >= 2

(* registerInternal of a node it has not seen ...                          *)
RegisterNew(node, hint, force) ==
  \E name \in {Candidate(Safe(hint), k) : k \in 0..MaxSuffix} :
    /\ UniqueName(name, hint)
    /\ usedNames' = usedNames \cup {name}
    /\ entries' = [d \in DOMAIN entries \cup {node} |->
                     IF d = node
                     THEN [name |-> name, count |-> 1, force |-> force,
                           schema |-> IF force THEN node ELSE Nil]
                     ELSE entries[d]]
    /\ rootRef' = IF force THEN name ELSE rootRef

(* ... and of one it has seen.                                             *)
Again(node) ==
  LET e   == entries[node]
      now == [e EXCEPT !.count = e.count + 1]
  IN  [now EXCEPT !.schema = IF e.schema = Nil /\ Refers(now) THEN node ELSE e.schema]

-----------------------------------------------------------------------------
(* The walk.  Item is the place of an item schema.                         *)

Item    == <<"[]">>
ItemKey == <<"i", "t", "e", "m">>

Visit(node, path, hint) == [node |-> node, path |-> path, hint |-> hint]

Below(v, node, place, key) ==
  Visit(node, Append(v.path, place), CombineComponentName(v.hint, key))
Properties(v) ==
  LET props == v.node.props
  IN  [i \in 1..Len(props) |-> Below(v, props[i].node, props[i].key, props[i].key)]
Items(v) == [i \in 1..Len(v.node.items) |-> Below(v, v.node.items[i], Item, ItemKey)]

ChildrenNoItems(v) == Properties(v)
Children(v)        == Properties(v) \o Items(v)

Inline   == [inline |-> TRUE, ref |-> <<>>]
RefTo(n) == [inline |-> FALSE, ref |-> n]

(* What schemaFor returns goes into the body; registerDescendants drops it. *)
Place(v, what) ==
  placed' = IF rootName = Nil THEN placed \cup {[path |-> v.path, node |-> v.node, as |-> what]}
            ELSE placed

Init ==
  /\ root \in Roots /\ rootName = Nil
  /\ rootRef = Nil /\ todo = <<>> /\ usedNames = {} /\ components = {} /\ pc = "begin"
  /\ entries = [d \in {} |-> Nil] /\ placed = {}

WithRootComponent(name) ==
  /\ pc = "begin"
  /\ rootName' = name
  /\ UNCHANGED <<root, rootRef, todo, entries, usedNames, placed, components, pc>>

BeginInline ==
  /\ pc = "begin" /\ rootName = Nil
  /\ todo' = <<Visit(root, <<>>, <<"R", "o", "o", "t">>)>>
  /\ pc' = "walk"
  /\ UNCHANGED <<root, rootName, rootRef, entries, usedNames, placed, components>>

(* forceReference of the root, and registerDescendants.                    *)
BeginReferenced ==
  /\ pc = "begin" /\ rootName # Nil
  /\ IF HasDigest(root) THEN RegisterNew(root, rootName, TRUE)
     ELSE UNCHANGED <<entries, usedNames, rootRef>>
  /\ todo' = Children(Visit(root, <<>>, rootName))
  /\ pc' = "walk"
  /\ UNCHANGED <<root, rootName, placed, components>>

Continue(more) == todo' = more \o Tail(todo)

(* schemaFor of a node that is not registered, ...                         *)
VisitPlain(v) ==
  /\ ~Composite(v.node) \/ ~HasDigest(v.node)
  /\ Place(v, Inline)
  /\ Continue(Children(v))
  /\ UNCHANGED <<root, rootName, rootRef, entries, usedNames, components, pc>>

(* ... of one that is met for the first time, ...                          *)
VisitNew(v) ==
  /\ Composite(v.node) /\ HasDigest(v.node) /\ ~Known(v.node)
  /\ RegisterNew(v.node, v.hint, FALSE)
  /\ Place(v, Inline)
  /\ Continue(Children(v))
  /\ UNCHANGED <<root, rootName, components, pc>>

(* ... and of one that is there already.                                   *)
VisitAgain(v) ==
  /\ Composite(v.node) /\ HasDigest(v.node) /\ Known(v.node)
  /\ entries' = [entries EXCEPT ![v.node] = Again(v.node)]
  /\ Place(v, IF Refers(Again(v.node)) THEN RefTo(entries[v.node].name) ELSE Inline)
  /\ Continue(IF Refers(Again(v.node)) THEN <<>> ELSE Children(v))
  /\ UNCHANGED <<root, rootName, rootRef, usedNames, components, pc>>

Walk ==
  /\ pc = "walk" /\ todo # <<>>
  /\ \/ VisitPlain(Head(todo))
     \/ VisitNew(Head(todo))
     \/ VisitAgain(Head(todo))

(* componentsMap; what is referred to has its schema (EntriesOK).          *)
PublishAll(digests) ==
  /\ pc = "walk" /\ todo = <<>>
  /\ components' = {[name |-> entries[d].name, schema |-> entries[d].schema] : d \in digests}
  /\ pc' = "done"
  /\ UNCHANGED <<root, rootName, rootRef, todo, entries, usedNames, placed>>
PublishEvery == PublishAll(DOMAIN entries)
PublishThird == PublishAll({d \in DOMAIN entries : RefersThird(entries[d])})
Publish      == PublishAll({d \in DOMAIN entries : Refers(entries[d])})

Finished == pc = "done" /\ UNCHANGED vars

Next ==
  \/ \E name \in RootNames \cup {Nil} : WithRootComponent(name)
  \/ BeginInline \/ BeginReferenced \/ Walk \/ Publish \/ Finished

Spec == Init /\ [][Next]_vars

-----------------------------------------------------------------------------
(* The variables keep their types (componentRegistry and componentEntry in *)
(* components.go, openAPIDocumentBuilder in document.go): every entry has  *)
(* the name it took, has been met at least once, and holds no schema but   *)
(* its own, which it has as soon as it is referred to.                     *)
EntriesOK ==
  \A d \in DOMAIN entries :
    /\ HasDigest(d) /\ entries[d].name \in usedNames
    /\ entries[d].count \in Nat \ {0} /\ entries[d].force \in BOOLEAN
    /\ entries[d].schema = IF Refers(entries[d]) THEN d ELSE Nil

TypeOK ==
  /\ rootName \in RootNames \cup {Nil} /\ rootRef \in usedNames \cup {Nil}
  /\ pc \in {"begin", "walk", "done"}
  /\ EntriesOK

(* However property names are spelled, no two schemas that differ share a  *)
(* component name, so that none overwrites another when they are published *)
(* (uniqueName and componentsMap, components.go:76-110).                   *)
NamesAreUnique ==
  \A d, e \in DOMAIN entries : entries[d].name = entries[e].name => d = e

(* A finished document has, for each reference it holds, one component of  *)
(* that name, and it is the schema that belongs at the place of the        *)
(* reference (registerInternal, components.go:44-73; buildPaths).  A root  *)
(* component has the name WithRootComponent was given, made legal, which   *)
(* no property or item schema can have taken before (document.go:30-32).   *)
Leads(name, node) ==
  /\ [name |-> name, schema |-> node] \in components
  /\ \A c \in components : c.name = name => c.schema = node
RefsResolve ==
  pc = "done" =>
    /\ \A r \in placed : r.as.inline \/ Leads(r.as.ref, r.node)
    /\ rootRef # Nil => Leads(rootRef, root)
    /\ rootName # Nil /\ HasDigest(root) => rootRef = Safe(rootName)

(* In a body that is written out, every component is used: some place      *)
(* refers to it (componentsMap leaves out what came up once only).         *)
ComponentsAreUsed ==
  pc = "done" /\ rootName = Nil =>
    \A c \in components : \E r \in placed : ~r.as.inline /\ r.as.ref = c.name

(* An object or array schema is written out at one place of the body at    *)
(* most; wherever it comes up again there is a reference (schemaFor,       *)
(* document.go:146-151).                                                   *)
WrittenOnce ==
  \A r, s \in placed :
    /\ r.as.inline /\ s.as.inline /\ r.node = s.node
    /\ Composite(r.node) /\ HasDigest(r.node)
    => r = s

(* Nothing of the graph is left out of a body that is written out: the     *)
(* root is there, and so is, below each schema that is not a reference,    *)
(* every property and the item schema (schemaFor, document.go:138-199).    *)
There(path, node) == \E r \in placed : r.path = path /\ r.node = node
NothingLeftOut ==
  pc = "done" /\ rootName = Nil =>
    /\ There(<<>>, root)
    /\ \A r \in placed : r.as.inline =>
         /\ \A i \in DOMAIN r.node.props :
              There(Append(r.path, r.node.props[i].key), r.node.props[i].node)
         /\ \A i \in DOMAIN r.node.items : There(Append(r.path, Item), r.node.items[i])

=============================================================================
