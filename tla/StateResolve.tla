---------------------------- MODULE StateResolve ----------------------------
(***************************************************************************)
(* Resolver.Resolve and ResolveWithDefaults (pkg/state/types.go) reading   *)
(* scope by scope from the Store that concurrent Mutate calls write        *)
(* (StateStore), and building the stack of what they found (ScopeStack).   *)
(*                                                                         *)
(* A requested scope is a record: its name, its priority and the ref Load  *)
(* is called with.  Load and the clone NewLayer takes of what it returned  *)
(* are two steps: a Mutate that shares the stored snapshot runs between.   *)
(***************************************************************************)
EXTENDS StateStore, ScopeStack, RefIdentifier

CONSTANTS
  Requests,  \* the scope lists a reader may ask for
  OwnerOf    \* the scope and the domain each ref stands for

(* A scope list is far too short to take every int as a priority.          *)
ASSUME RequestsAssumption ==
  /\ Requests \subseteq Seq([name : STRING, prio : MinInt..MaxInt, ref : Refs])
  /\ \A r \in Requests : Priorities(r) # MinInt..MaxInt

(* MemoryStore keeps a record under the identifier of its ref.             *)
ASSUME OwnersAssumption ==
  StoreKind = "memory" =>
    \A r \in Refs : LET id == Identifier(OwnerOf[r])
                   IN  KeyOf[r] = IF id = NoIdentifier THEN NoKey ELSE id

VARIABLES
  rpc,       \* where the reader is
  scopes,    \* the scopes argument
  defaults,  \* TRUE in ResolveWithDefaults
  todo,      \* index of the next scope to load
  layers,    \* the local variable layers
  answer,    \* "none" while it runs, "ok", or the error
  stack,     \* the layers of the Options returned, strongest first
  present,   \* history: the keys that held a record when the reader began
  settled    \* history: the calls that had reported success by then

rvars == <<rpc, scopes, defaults, todo, layers, answer, stack, present, settled>>

KeyFor(scope) == KeyOf[scope.ref]

DefaultsLayer ==
  [name |-> DefaultsName, prio |-> DefaultsPriority(scopes), key |-> NoKey,
   cell |-> NoCell, snap |-> {}, sid |-> NoCall]

ResolveInit ==
  /\ Init
  /\ rpc = "idle"
  /\ scopes \in Requests
  /\ defaults \in BOOLEAN
  /\ todo = 1
  /\ layers = << >>
  /\ answer = "none"
  /\ stack = << >>
  /\ present = {}
  /\ settled = {}

-----------------------------------------------------------------------------
RAnswer(what) ==
  /\ rpc' = "done"
  /\ answer' = what
  /\ UNCHANGED <<scopes, defaults, todo, layers, present, settled>>

(* Resolve wants a scope; ResolveWithDefaults keeps one name to itself.    *)
RRejects ==
  /\ rpc = "idle"
  /\ IF defaults
     THEN /\ \E i \in DOMAIN scopes : scopes[i].name = DefaultsName
          /\ RAnswer("reserved")
     ELSE /\ scopes = << >>
          /\ RAnswer("no scopes")
  /\ UNCHANGED stack

RBegin ==
  /\ rpc = "idle"
  /\ IF defaults THEN \A i \in DOMAIN scopes : scopes[i].name # DefaultsName
                 ELSE scopes # << >>
  /\ rpc' = "load"
  /\ present' = {k \in Keys : Has(k)}
  /\ settled' = {c \in Calls : outcome[c] = "ok"}
  /\ UNCHANGED <<scopes, defaults, todo, layers, answer, stack>>

(* Any Load error ends the call; the layers loaded so far are dropped.     *)
RLoadFails ==
  /\ rpc = "load"
  /\ todo <= Len(scopes)
  /\ KeyFor(scopes[todo]) = NoKey \/ External
  /\ RAnswer("load")
  /\ UNCHANGED stack

RSkipBreaks ==
  /\ rpc = "load"
  /\ todo <= Len(scopes)
  /\ KeyFor(scopes[todo]) \in Keys
  /\ ~Has(KeyFor(scopes[todo]))
  /\ todo' = Len(scopes) + 1
  /\ UNCHANGED <<rpc, scopes, defaults, layers, answer, stack, present, settled>>

(* A scope without a record is no layer.                                   *)
RSkip ==
  /\ rpc = "load"
  /\ todo <= Len(scopes)
  /\ KeyFor(scopes[todo]) \in Keys
  /\ ~Has(KeyFor(scopes[todo]))
  /\ todo' = todo + 1
  /\ UNCHANGED <<rpc, scopes, defaults, layers, answer, stack, present, settled>>

(* Load returns the record as it is now: in the last element of layers     *)
(* only the cell is known yet, its content is read by RClone.              *)
RLoad ==
  /\ rpc = "load"
  /\ todo <= Len(scopes)
  /\ LET s == scopes[todo]
         k == KeyFor(s)
     IN  /\ k \in Keys /\ Has(k)
         /\ layers' = Append(layers,
              [name |-> s.name, prio |-> s.prio, key |-> k, cell |-> rec[k].cell,
               snap |-> {}, sid |-> rec[k].sid])
  /\ todo' = todo + 1
  /\ rpc' = "clone"
  /\ UNCHANGED <<scopes, defaults, answer, stack, present, settled>>

(* NewLayer deep-copies the snapshot.                                      *)
RClone ==
  /\ rpc = "clone"
  /\ layers' = [layers EXCEPT ![Len(layers)].snap = heap[layers[Len(layers)].cell]]
  /\ rpc' = "load"
  /\ UNCHANGED <<scopes, defaults, todo, answer, stack, present, settled>>

AllLayers == IF defaults THEN Append(layers, DefaultsLayer) ELSE layers

(* NewStack and Merge over what was found.                                 *)
RStack ==
  /\ rpc = "load"
  /\ todo > Len(scopes)
  /\ LET built == NewStack(AllLayers)
     IN  IF AllLayers = << >> THEN RAnswer("no layers") /\ UNCHANGED stack
         ELSE /\ RAnswer(IF built.err = "none" THEN "ok" ELSE built.err)
              /\ stack' = built.layers

RStep == RLoadFails \/ RSkip \/ RLoad \/ RClone \/ RStack

Reader == RRejects \/ RBegin \/ RStep

ResolveNext ==
  \/ (\E c \in Calls : Begin(c) \/ Step(c)) /\ UNCHANGED rvars
  \/ Reader /\ UNCHANGED vars
  \/ Finished /\ rpc = "done" /\ UNCHANGED rvars

ResolveSpec == ResolveInit /\ [][ResolveNext]_<<vars, rvars>>

-----------------------------------------------------------------------------
Cloned == IF rpc = "clone" THEN Len(layers) - 1 ELSE Len(layers)

(* A reader only ever sees writes whose Save has succeeded, never those of *)
(* a Mutate that is still running or has failed.                           *)
NoDirtyRead == \A i \in 1..Cloned : layers[i].snap \subseteq saved

(* The SnapshotID a layer reports in traces and schemas names a write that *)
(* is in the layer's data, although other calls save and mutate between    *)
(* the Load that returned the ID and the clone of the data.                *)
ProvenanceNamesData ==
  \A i \in 1..Cloned : layers[i].sid # NoCall => layers[i].sid \in layers[i].snap

(* What a Mutate reported as done before Resolve was called is in the      *)
(* layer Resolve builds for that key.                                      *)
ReadsSettledWrites ==
  \A i \in 1..Cloned : \A c \in settled :
     Key(c) = layers[i].key => c \in layers[i].snap

(* Neither a Mutate nor a Resolve is handed what was written for another   *)
(* scope, or for another domain of its own: not in the snapshot it loads,  *)
(* and not in the one it returns (types.go 43-61, memory_store.go 24-49).  *)
NoForeignWrites ==
  LET SameOwner(r, s) == SameRecord(OwnerOf[r], OwnerOf[s])
  IN  /\ \A c \in Calls : \A d \in base[c] \cup result[c] : SameOwner(ref[d], ref[c])
      /\ \A i \in 1..Cloned : \A j \in DOMAIN scopes :
           layers[i].key = KeyFor(scopes[j]) =>
             \A d \in layers[i].snap : SameOwner(ref[d], scopes[j].ref)

(* A scope that had a record all along is not dropped from the stack.      *)
NoScopeDropped ==
  answer = "ok" => \A i \in DOMAIN scopes :
     KeyFor(scopes[i]) \in present => \E j \in DOMAIN stack : stack[j].key = KeyFor(scopes[i])

(* A stack lists every loaded layer once, strictly from the strongest down *)
(* - in whatever order the scopes were requested (scope_stack.go 150-163). *)
StackOrdered ==
  answer = "ok" =>
    /\ \A i, j \in DOMAIN stack : i < j => stack[i].prio > stack[j].prio
    /\ \A i, j \in DOMAIN stack : i # j => stack[i].name # stack[j].name
    /\ {stack[i] : i \in DOMAIN stack} = {AllLayers[i] : i \in DOMAIN AllLayers}

(* The defaults are the weakest layer of the stack.  The code searches     *)
(* their priority below all that are requested, and int arithmetic wraps   *)
(* (types.go 120-129).                                                     *)
DefaultsAreWeakest ==
  answer = "ok" /\ defaults => stack[Len(stack)].name = DefaultsName

(* Whatever priorities the requested scopes have, the lowest int among     *)
(* them, the defaults never break a request: ResolveWithDefaults reports a *)
(* stack error only if the loaded layers alone already have one.  They are *)
(* the weakest layer of the stack if nothing is requested at the lowest    *)
(* int; below that is no room, and the search for a priority wraps.        *)
DefaultsFitAnyRequest ==
  /\ answer \in StackErrors => NewStack(layers).err = answer
  /\ MinInt \notin Priorities(scopes) => DefaultsAreWeakest
=============================================================================
