# TLA+ models of go-options

go-options wraps a snapshot of application settings (`Options[T]`), layers several snapshots by
scope (system, tenant, user, ...), and keeps such snapshots in a store behind a `Resolver[T]` that
reads them scope by scope and changes them one at a time. These modules model the parts of it whose
behaviour is hard to see from a test: concurrent `Mutate` and `Resolve` calls over one store, the
order and the priorities of a stack, what layering computes, which wrappers share their maps,
evaluation by wrappers that share a program cache, the fan-out of activity events to hooks, and the
references and components of a generated OpenAPI document.

Contents: [the system](#the-system), [modules](#modules), [how the models follow the
code](#how-the-models-follow-the-code), [runs](#runs), [proofs](#proofs),
[known deviations](#known-deviations), [not modelled](#what-is-not-modelled), [plan](#plan).

## The system

| Component | Code | State | Operations | Talks to |
|---|---|---|---|---|
| State resolver, writing | `pkg/state/types.go` 153-223 | none of its own; per call a snapshot and its `Meta` | `Mutate` | `Store`, the caller's `fn`, `Validate` of `T`, stacks |
| State resolver, reading | `pkg/state/types.go` 63-151 | none; per call the layers found so far | `Resolve`, `ResolveWithDefaults` | `Store`, stacks, layering |
| `MemoryStore` | `pkg/state/memory_store.go` | `records`: snapshot and `Meta` under a key, behind a mutex | `Load`, `Save` | `Ref.Identifier` |
| `Ref.Identifier` | `pkg/state/types.go` 36-61 | none | from a domain and a scope to a storage key | - |
| Scopes, layers, stacks | `scope_stack.go`, `scope_helpers.go` | immutable once built | `NewScope`, `NewLayer`, `NewStack`, `Merge` | layering, the wrapper |
| Layering | `layering/merge.go` | none | `MergeLayers`, `Clone` | - |
| Options wrapper | `options.go`, `types.go`, `options_layer.go`, `trace.go` | `Value`, the kept layers, the evaluator, the schema generator | `Get`, `Set`, `Clone`, `WithValue`, `LayerWith`, `ResolveWithTrace`, `FlattenWithProvenance`, `Schema` | layering, evaluators |
| Evaluation | `evaluate.go`, `*_evaluator.go`, `options_cache.go`, `evaluator_errors.go`, `evaluator_logging.go` | the default evaluator set on first use; a program cache that several evaluators may share | `Evaluate`, `EvaluateWith`, `Compile` | third-party engines, the registry, the logger |
| Function registry | `function_registry.go` | functions by name, behind an RWMutex | `Register`, `Call`, `Clone`, `Names` | evaluators |
| Activity | `pkg/activity`, `options_activity.go` | the enabled flag and the hooks | `Notify`, `Emit`, building and normalising events | user hooks, a sink |
| Schema descriptors | `schema.go` | none | `Generate` of the default generator | the wrapper's value |
| OpenAPI schema | `schema/openapi` | during one call: the component registry and the names taken | options, `Generate` | reflection |
| Hydrate | `internal/hydrate/decoder.go` | none | the decode pipeline and its hooks | JSON |

### Which behaviours are hard, and what makes each component correct

* **Mutate** is a read-modify-write without a lock across it: `Load`, an ETag comparison, `fn`,
  `Validate`, `Save`, and then building the result, which can still fail. It is correct if it
  behaves like one atomic step or fails without a trace; if no update is lost between two callers;
  if a stale caller is told; and if the `Meta` it stores and returns describes the snapshot it
  stores and returns.
* **MemoryStore** returns the stored snapshot as it is. For a struct that is a copy, for a map or
  a pointer it is the stored object itself, which `fn` then writes into.
* **Resolve** loads its scopes one after the other while other goroutines run `Mutate`, and clones
  a snapshot some time after it has loaded it. It is correct if it reads saved data only, drops no
  scope, and reports an ID together with the data of that ID.
* **Stacks** must come out in the same strict order however the scopes were listed, with the
  defaults of `ResolveWithDefaults` at the end of it; the priority for them is computed with
  wrapping arithmetic and a search for a free value.
* **Layering** folds pairwise what is meant as one overlay of all layers, through `reflect`,
  which panics when it is handed the zero `Value`. The wrapper keeps the layers for provenance and
  must not contradict the merged value.
* **Wrappers** are copied by `Clone`, `WithValue` and `LayerWith`, merged from a stack, and changed
  in place by `Set`; `New`, `Get` and `ResolveWithTrace` pass maps on without copying. It is correct
  if a stack stays what it was, if writing to one snapshot does not show in another, and if the
  layers kept for provenance still describe the value.
* **Evaluation** makes a default evaluator on first use and stores it in the wrapper without
  synchronisation; evaluators of different wrappers and engines share a program cache whose key is
  the expression; a registry is cloned while functions are registered in it; errors are wrapped at
  up to three places, the first of which completes an error it finds. It is correct if none of this
  shows in what `Evaluate` returns.
* **The function registry** is read and written under an RWMutex by goroutines and by the registered
  functions themselves, while they run. It is correct if no call waits for ever, if one of several
  registrations of a name wins for good, and if a copy is the registry of one moment.
* **Keys** join a scope's name, id and domain by slashes. They are correct if two scopes never share
  a record.
* **Activity**: events are built, normalised and handed to one hook after the other, by several
  goroutines, while hooks fail, keep the event and write into it, and while the program changes its
  own slices and maps. The copies that are made of metadata are shallow. It is correct if every configured
  hook is called once, in order, with every error reported; if no hook changes an entry of a map of
  the program; if what lies deeper is only written by those who were handed it; and if the entries of
  what was recorded stay.
* **Descriptors** enumerate the paths of a value that `FlattenWithProvenance` enumerates too, by a
  recursion of its own. The two must agree.
* **The OpenAPI generator** decides during its walk, by how often a schema has come up so far,
  whether to write it out or refer to it, and after the walk what to publish. It is correct if every
  reference leads to the schema that belongs there, under names that two schemas never share; if
  every component is used, no schema is written out twice, and none is left out; and if options in
  any order leave a valid document.

`PROJECT.json` lists the hazards with their lines.

## Modules

| Module | What it is |
|---|---|
| `AtomicMutate` | What `Mutate` promises: per key a set of committed calls; a call reads, then commits or fails in one step. |
| `StateStore` | `Resolver.Mutate` step by step for concurrent callers over one `Store`: `MemoryStore`, with snapshots that are copied or shared, or a compare-and-swap store as the `Store` interface allows. |
| `StateStoreAtomic` | The refinement mapping from `StateStore` to `AtomicMutate`. |
| `ScopeStack` | `NewStack`'s validation and order, and `defaultsPriority`. |
| `StateResolve` | `Resolve` and `ResolveWithDefaults`, composed with `StateStore` and `ScopeStack`. |
| `Values` | Go values as trees over the `reflect` kinds, and `cloneValue`. |
| `Layering` | `mergeValue` and the fold of `MergeLayers`, and the overlay it is meant to compute. |
| `Provenance` | `Get`, `ResolveWithTrace` and `FlattenWithProvenance` of the wrapper whose value `Layering` has merged. |
| `OptionsWrapper` | Wrappers, a stack, kept layers and the program's own maps on one heap: `New`, `Set`, `Get`, `Clone`, `WithValue`, `LayerWith`, `ResolveWithTrace`, and what `NewLayer`, `NewStack`, `Layers` and `Merge` copy. |
| `Evaluators` | `Evaluate` and `EvaluateWith` step by step for concurrent goroutines: the function registries, the default evaluator, the expr, CEL and JS adapters over one program cache, and the error wrapping. |
| `FunctionRegistry` | `Register`, `Call`, `Clone` and `Names` step by step under the RWMutex, for goroutines and for functions that use the registry while they run. |
| `RefIdentifier` | `Ref.Identifier` as a function of name, id and domain. |
| `SchemaDescriptors` | The default generator's descriptors of a merged map, on top of `Provenance`. |
| `ActivityHooks` | Emissions through the emitter, a wrapper's hooks or a slice of the program, hook by hook, with `CaptureHook` and the `usersink` adapter, and who shares which slice, map and object inside a map. |
| `SchemaGraph` | `buildSchemaGraph`: from a Go type and value to a schema graph. |
| `OpenAPIComponents` | The generator's walk over a schema graph, with the registry of components, their names and references. |
| `OpenAPIDocument` | `Generate` as a whole: the options, the walk of `OpenAPIComponents`, the assembled document and its validation. |
| `MCStateStore`, `MCStateResolve`, `MCLayering`, `MCOptionsWrapper`, `MCEvaluators`, `MCFunctionRegistry`, `MCActivityHooks`, `MCOpenAPI` | Small instances for TLC. |
| `StateStoreProofs`, `StateResolveProofs`, `LayeringProofs`, `OptionsWrapperProofs`, `EvaluatorsProofs`, `ActivityHooksProofs`, `OpenAPIProofs` | The theorems about the module each is named after. `StateStoreProofs` has the refinement to `AtomicMutate` too, `StateResolveProofs` what holds of `ScopeStack` and `RefIdentifier`, and `OpenAPIProofs` is about `OpenAPIDocument` with `OpenAPIComponents` and `SchemaGraph`. |
| `Induction` | Induction, recursion, and least and greatest elements for the proofs, with sets and functions in place of operators. |

`StateResolve` composes `StateStore` (the store and the writers) with `ScopeStack` (what `NewStack`
makes of the layers); its keys are those `RefIdentifier` gives for `OwnerOf`, the scope and domain of
each ref, when the store is `MemoryStore` (`OwnersAssumption`).
`Evaluators` has the operations of `FunctionRegistry` as single steps, and so depends on what is checked
of them there: copies are of one moment, registrations stay.
`Provenance` and `SchemaDescriptors` read the value `Layering` has merged. `OpenAPIDocument` puts
`SchemaGraph` before the walk of `OpenAPIComponents`, which starts from the graphs it makes (`RootsAssumption`).

## How the models follow the code

**One action per step between which another goroutine can run.** In `Mutate` these are the call
itself (`Begin`), the checks of the ref (`Reject`), the `Store.Load` with the ETag comparison that
follows it on local data (`LoadMissing`, `LoadFound`, `LoadStale`, `LoadFails`), `fn`
(`ApplyInPlace`, `ApplyReplace`, `MutatorFails`), the validation (`Validate`, `ValidateFails`),
`Store.Save` (`Save`, `SaveConflict`, `SaveFails`) and the construction of the result (`Return`,
which takes a clone of the snapshot at that moment). `Load` and `Save` of `MemoryStore` hold its
mutex, so each is atomic.

**A snapshot is the set of calls whose write it contains.** That is what the properties tell apart:
a lost update is a missing element, a dirty read an element that was never saved, a validation
failure an element of `BadCalls`. The snapshot lives in a heap cell. `Load` of a shared snapshot
returns the stored cell; `fn` writes into the cell it was given, or allocates the call's own cell
and assigns it to `*snapshot`.

**Meta** is its ETag and its SnapshotID. `mergeMeta` treats an empty field as "keep what was
loaded"; an ETag of 0 is the empty string. `UpdatedAt` and `Extra` are merged by the same rule and
never read, so they are left out. A caller states the ETag it has just read (with `seen`, a
history variable, for the snapshot it stood for) or none, and chooses a SnapshotID of its own or
none. Callers that make up an ETag are not modelled.

**Two stores.** `MemoryStore` stores the ETag it is given. The interface is made for stores
outside the process too; `"cas"` models one that stamps a fresh ETag on every save, refuses a save
whose ETag is not the current one, and can be down. Its definitions are marked external.

**Concurrent writes into one Go map** can abort the program. The models do not stop there; they
explore what the interleaving does to the data, which is the same for a `T` that guards its own
methods with a lock.

**Resolve** has one action per loop iteration (`RSkip`, `RLoad`, `RLoadFails`) and one for the
clone `NewLayer` takes (`RClone`), then `RStack`. A requested scope is its name, its priority and
the ref it is loaded under. `Priorities` are a three-bit `int` that wraps as Go's does.

**Values** are trees: a node has a kind (`scalar`, `slice`, `array`, `map`, `struct`, `ptr`,
`iface`, and `invalid` for the zero `reflect.Value`), a nil flag and its children by segment.
`mergeValue` is translated case by case; the panic of `field.Set(invalid)` is a value of its own.
Scalars are numbers; sharing of one pointer by two fields is not represented, and of types only
what tells apart structs. `cloneValue`, `mergeValue`, `navigateSegments`, `flattenValue` and
`deriveFieldDescriptors` recurse into what a value holds; `CloneUpto`, `MergeUpto`, `NavigateUpto`,
`FlattenUpto` and `DescribeUpto` are functions of how deep the values are nested, so that they can be
reasoned about, and so is `OverlayUpto`, the overlay of a column: what each layer has at one place of
the tree.

Some properties hold for some snapshots only, which these sets describe: `FitTogether` says when
`reflect` never has to store the zero `Value` (each layer is `Whole`, with nil in maps and slices only,
or the layers are of one struct, array or map type and fit together field by field); `OneTypeUpto` that
what the layers have at one place is of one type throughout; `NilFree` that a layer has no nil;
`Proper` that no pointer and no interface holds an interface; `Decoded` that a value is one that
decoding JSON makes. `TopDown` is the other order of the fold: each layer beneath what the stronger ones
have given.

**Wrappers of maps** live in a heap of maps. A snapshot is a root map whose entries are numbers or
maps of numbers, so two levels: enough for a map to be shared while its root is not, which is what
a shallow copy gets wrong. A map's address is the allocation it was made in and its place in the
snapshot (the root, or the segment it was put under); it can be moved to by reference from another
root, so sharing stays expressible. `cloneValue` allocates every map of the tree anew; `Clone` and
`WithValue` copy the wrapper, not the maps; `New` takes the program's map as it is. `Set` is three
actions, for the three ways through its loop that change something; when it meets a number it
returns an error before it has changed anything. The program writes into maps it built, or was
handed by `Get`, `ResolveWithTrace` or `Layers` (`CallerWrites`, external), always numbers: that it
puts a map of one wrapper into another by itself is its own doing. Maps are never nil. A history,
`from`, says where the map of a wrapper comes from: given by the program to `New` or `WithValue`, or
made by `Merge` or `LayerWith`; a clone inherits it.

**Evaluation.** An expression is one symbol, since that is where the engines' treatment of the
cache differs: a snapshot key, a registered function under its own name (`direct`) or through
`call`, or text that does not parse. `Compiles`, `Binds`, `MissingKey` and `Failure` say what each
engine does with it, as far as the adapters decide it: CEL is given the variables and functions when
it compiles and binds the functions of the compiling evaluator; expr is given the registered
functions (`exprlang.Function`) when it compiles with `loadOrCompile` and looks up the rest in the
environment when it runs; JS looks everything up when it runs. The steps are those between which
another goroutine can change what is read next: reading the evaluator (`Resolve`, `ResolveTorn`,
`MakeDefault`), storing it (`Store`, once for each word of the interface, in either order, which is
what the data race at `types.go:174` allows), `Get` (`Hit`, `Miss`), compiling and `Set`
(`Compile`, `CompileFails`), and running with what follows (`Execute`). A goroutine that panics is
recovered by its caller and may evaluate again. The cache is the program's own: it is safe for
concurrent use, keeps at most `Capacity` programs and drops what it likes. A function that calls
`Evaluate` itself may fail with a complete `EvaluationError` (`NestedFns`). An `EvaluationError`
with empty fields, built by a function by hand or got from an evaluator used without a wrapper, would
be filled in with the data of this evaluation, and stay so for the next; it is outside the model.

**The registry** is under an RWMutex as Go's documentation has it: `writer` is set as soon as `Lock`
is called and keeps out new readers (`RLock`) while it waits for those there are (`GetLock`). Each
goroutine has a stack of calls (`frames`), the functions it runs among them, which make calls of their
own (`MakeCall`). `Clone` and `Names` go through the map entry by entry (`CopyEntry`). `past` and
`accepted` are histories. A nil registry, on which every call returns at once, is left out.

**Keys** are sequences of characters, since the question is what a slash in an id or a domain does
to them. A scope's name is one symbol; no id (missing, empty or not a string) is the empty sequence,
and a ref without identifier has the empty key, for the two error returns of `Identifier`.

**Activity.** A slice of hooks is a reference to an array, named after the holder it was made for:
`cloneHooks` makes a new array, `Emit` and a plain `Notify` read the one they are given, and
`ProgramWritesSlice` writes into one (unless a goroutine is emitting from it, which would be a data
race of the program's own). A cell is a `Metadata` map together with the `Recipients` slice, which
the code copies in the same places, or an object inside such a map: one of the program's, which is
nested in its map or reported as old or new value, or an event's `scope_metadata`. A cell's entries are
marks that say who wrote into it, and references to objects. `cloneMap` copies entries, so a copy
(`Clone`, `CloneIn`) refers to the same objects; a hook that keeps an event may write into its map and
into whatever it can reach from there (`AndBelow`). One step of an
emission is the part up to the first hook (`EmitThroughEmitter`, `NotifyThroughWrapper`,
`NotifyThroughList`: building the event, `NormalizeEvent`, the early returns) and then the call of
one hook: a nil hook (`SkipNil`), `CaptureHook` under its mutex (`Capture`), the `usersink` adapter
with its sink (`Log`), or a hook of the program (`UserHook`), which may keep the event and write
into it at any later time (`HookWrites`). Texts are empty, blank or a word, as `TrimSpace` tells
them apart.

**The schema graph.** A Go type is a definition by kind, a value the keys, fields or elements it
has; `BuildBy` follows `build`, with `BuildStruct`, `BuildMap` and `BuildSlice`, given what is made one
step below, and `BuildUpto` is the recursion as a function of its depth. A `format` tag replaces the
format of the type; what the other tags put into a schema is one mark. A node is its own digest: two
nodes have one SHA-256 if they marshal to one
text, and a node whose default is NaN marshals to none, so it is never registered. The walk
keeps the calls of `schemaFor` still to be made as a list (`todo`), in the order of the recursion;
`placed` records, for each place in the body, whether the schema was written out there or referred
to; `Publish` is `componentsMap`. Keys and names are sequences of characters, because sanitising
makes different ones equal.

**The document.** An option's text is empty or not. `Configure` applies one option at a time, in any
order; `Assemble` puts the document together and validates it as `validateDocument` does.

**Descriptors** are taken from the merged map of `Layering`, the only type the default generator
looks into; type names are the kinds.

**Fairness.** The one liveness property, `EveryCallReturns` of `FunctionRegistry`, assumes that a
goroutine that can go on all the time does so in the end (weak fairness of each goroutine's steps),
which is what Go's scheduler provides. It does not assume that a lock is handed out fairly beyond
that: the goroutines' programs are finite, and so no one is overtaken for ever.

**Deadlock** is checked in every run but `function_registry`: when every call has returned, only the
explicit `Finished` stutters. In `function_registry` goroutines that have finished take no step, and that
none stops before is what `EveryCallReturns` says. The runs check one type invariant, that of `StateStore`;
what else the invariants need of types is part of them.

## Runs

| Run | Module | Expected | What it shows |
|---|---|---|---|
| `memory_value` | `MCStateResolve` | pass | `MemoryStore` of plain values, with a reader: stored snapshots validate (`StoredValid`), a reader sees saved writes only (`NoDirtyRead`), no scope that had a record is dropped (`NoScopeDropped`), the stack is one strict order (`StackOrdered`), the defaults never make a request fail that would succeed without them, the lowest int among its priorities or not, and are the end of the stack unless it is (`DefaultsFitAnyRequest`), and neither a Mutate nor a Resolve is handed what was written for another scope or domain (`NoForeignWrites`). |
| `memory_shared` | `MCStateResolve` | pass | `MemoryStore` of maps: although a failing call leaves its write behind, IDs stay with their data in the store (`AuditIdNamesWrite`) and in what a reader reports (`ProvenanceNamesData`). |
| `compare_and_swap` | `MCStateResolve` | pass | A compare-and-swap store: `Mutate` implements `AtomicMutate` (`MutateIsAtomic`), loses no update (`NoLostUpdate`), leaves no trace of an error (`ErrorLeavesNoTrace`), keeps its variables within their types (`TypeOK`), conflicts only with a reason (`NoSpuriousConflict`), returns an ETag that can be passed to the next call (`ReturnedTagNamesResult`); a `Resolve` sees every write reported before it began (`ReadsSettledWrites`). |
| `layering` | `MCLayering` | pass | The pairwise fold is the overlay of all layers and does not panic (`MergeIsOverlay`), gives the same from the top down where the layers are of one type throughout (`RegroupingIsHarmless`), provenance names the layer that supplies the value where no layer has an explicit nil (`FlattenNamesSupplier`), and the descriptors of the merged map name the paths provenance lists (`SchemaFitsProvenance`). TLC also finds that these snapshots are such as the theorems about layering assume (`StacksFit`). |
| `options_wrapper` | `MCOptionsWrapper` | pass | `Set` on a wrapper shows in the wrappers cloned from it or given the same map, and in no others (`SetShowsInCopiesOnly`); a stack never changes (`StackNeverChanges`); the kept layers stay those of the stack until the program itself writes into a map it got from them (`ProvenanceSurvivesSet`). |
| `evaluators` | `MCEvaluators` | pass | A shared program cache does not change a result, except through functions that differ between the wrappers that share it (`CacheIsTransparent`); a torn default evaluator can only be met on first use (`PanicsOnlyOnFirstUse`); a wrapper's functions never change (`FunctionsFixed`); an error describes one evaluation and is complete (`ErrorDescribesEvaluation`). |
| `function_registry` | `MCFunctionRegistry` | pass | Functions may call and register while others wait to register: every call returns (`EveryCallReturns`). Of two registrations under names that differ in case one is accepted and stays (`RegistrationsStand`). What `Clone` and `Names` return is the registry of one moment (`CopiesAreOfAMoment`). |
| `activity` | `MCActivityHooks` | pass | Every hook that was configured is called once, in order, and every error is reported (`EveryHookHears`). Nothing a hook or the adapter writes changes an entry of a map of the program, and into an object in it only a hook writes that was handed it (`ProgramMapsUntouched`); a record has the entries of its own event and those that earlier hooks of that emission added, and its `scope_metadata` is that emission's (`RecordsOwnEvent`); its entries do not change any more (`RecordsAreFinal`). |
| `openapi` | `MCOpenAPI` | pass | Component names are unique (`NamesAreUnique`), every reference leads to its schema (`RefsResolve`), every component of a body that is written out is used (`ComponentsAreUsed`), no schema is written out twice (`WrittenOnce`), nothing is left out (`NothingLeftOut`); a schema follows from the type, whatever is nil or empty (`SchemaIsOfTheType`); every combination of options gives a valid document (`EveryConfigurationIsValid`). |
| `memory_shared_dirty` | `MCStateStore` | violation | see [known deviations](#known-deviations) |
| `layering_section` | `MCLayering` | violation | " |
| `layering_zero` | `MCLayering` | violation | " |

**Bounds.** Two calls, two keys (one with a record, one without) and five refs: a good one per key,
one without identifier, one with an unnamed scope, one without a domain. Every error of `Mutate` is
between two calls or within one, and a lost update needs two writers; the runs that look for a
third party's view (`MCStateStore`) have three calls on one key. One of the calls is in `BadCalls`
so that validation can fail. A reader asks for up to two scopes, in both orders, with equal names,
equal priorities, an unsupported ref, the reserved name, and the lowest and the second lowest priority;
`memory_value` has all these requests, the other two the pairs. Two layers are the least that has
an order; with the defaults it is three. Layering has three layers, the least in which the fold
differs from one merge: a key that is missing, nil, a scalar, a slice (one with an empty map in it
among them) or a map of up to two keys, and structs of two optional fields at a time. `Segments` and
`Numbers` are those the snapshots use,
`Depth` is how deep the deepest is nested, `MaxLayers` how long the longest stack is.
`MCOptionsWrapper` has two sources that share a section
(so that merging goes into it) and two wrappers, which are interchangeable; `MaxAllocs` lets a run
build the stack, merge it, and then merge again, layer or list the layers, and `MaxWrites` lets one
write make a map and the next write into it. One number is enough to see a write, as it replaces an
absence or a map. `MCEvaluators` has two goroutines, each of which evaluates again and again, so that
one can come back while the other is still storing its evaluator; two wrappers, made with four
configurations or cloned from each other: the least that shares a cache; one function name in two
spellings. A cache of one program is enough, as no step reads two entries. `MCActivityHooks` has two
emissions at once, the least that can mix up two events, and three hooks, one of each kind, in two
orders: a hook that keeps events before a sink and a capturing one, and the same with nil in the
sink's place. The requests share a map of the program with an object in it, or have no metadata at all;
one has that map for its own metadata and for its scope's, and the object as its new value, so that
objects of both kinds occur. A hook may fail, and the program writes once, into a slice, a map or an
object. Both questions about activity at once would be too large, so the constraint `Separate` explores
two kinds of states: failing hooks and written slices while the program's maps are empty, no event has
an object in it and none is kept; and maps and objects, shared and written to, while every event has an object,
no hook has failed and the slices stay as they are.
`MCFunctionRegistry` has a goroutine that runs a function which calls one and registers one, a
second that registers the same name in other letters, and a third that registers and copies: the
least with a reader inside a reader, a waiting writer and a race for one name. `MCOpenAPI` has the
graphs of nineteen Go values, two of which it refuses: scalars, maps, structs, slices and arrays with
schemas that come up up to
four times, at one level and inside each other, recursive types, keys that sanitise to one name or
to nothing, a NaN default, nil pointers and empty slices beside full ones. It has three root names
(one that loses characters, one that loses all) or none, two options (each overwrites what another
has set), and name suffixes up to 3, which no graph exhausts, for otherwise `Walk` could not go on
and the run would report a deadlock. `MaxDepth` is more than any of the values and types needs: nothing
fails but what has an error in it (`DepthSuffices`). The refs of `memory_value` are of a tenant and a
user of one id and domain, whose keys differ in the scope's name only, and of scopes without a key.

## Proofs

TLAPS checks these for every value of the constants. What they assume of the constants is named in
the modules: the kinds of constant are disjoint and functions have their domains (`StoreAssumption`,
`NoViewAssumption`, `RequestsAssumption`, `StacksAssumption`, `ValuesAssumption`,
`WrapperAssumption`, `EvaluatorsAssumption`, `ActivityAssumption`, `OpenAPIAssumption`,
`SchemaAssumption`), what is below a schema node is a node (`GraphAssumption`), the graphs are those
`SchemaGraph` makes (`RootsAssumption`), and `MemoryStore` keeps records under the identifiers of their
refs (`OwnersAssumption`). `RequestsAssumption` also says that no request has
a scope for every `int`, since `defaultsPriority` would then search without end; no list in memory
does. TLC evaluates all of them in the runs.

| Theorem | Assumes | Shows |
|---|---|---|
| `TypeCorrect` | - | `TypeOK` of `StateStore` |
| `ErrorsLeaveNoTrace` | `Load` hands out copies | `ErrorLeavesNoTrace` and `StoredValid` |
| `StoredSnapshotsAreValid` | `Load` hands out copies | `StoredValid` |
| `AuditIdsAreRight` | - | `AuditIdNamesWrite` and `ErrorMeansUnsaved`, also for shared snapshots |
| `SavedCallsSucceed` | - | `ErrorMeansUnsaved` |
| `NoUpdateIsLost` | a compare-and-swap store | `NoLostUpdate` |
| `MutateImplementsAtomic` | a compare-and-swap store | `Spec => MutateIsAtomic` |
| `ReturnedTagsName` | a compare-and-swap store | `ReturnedTagNamesResult` |
| `ConflictsHaveReasons` | a compare-and-swap store | `NoSpuriousConflict` |
| `ReadsAreClean` | `Load` hands out copies | `NoDirtyRead`, for `ResolveSpec` |
| `ProvenanceIsTrue` | - | `ProvenanceNamesData`, for `ResolveSpec` |
| `SettledWritesAreRead` | a compare-and-swap store | `ReadsSettledWrites`, for `ResolveSpec` |
| `StackIsOrdered` | - | `StackOrdered`, for `ResolveSpec` |
| `DefaultsFit` | - | `DefaultsFitAnyRequest`, for `ResolveSpec` |
| `NoScopeIsDropped` | - | `NoScopeDropped`, for `ResolveSpec` |
| `KeysTellApart` | ids have no slash | two refs with one key mean one domain of one scope |
| `NothingForeignIsRead` | `MemoryStore`; ids have no slash | `NoForeignWrites`, for `ResolveSpec` |
| `MergeIsTheOverlay` | no field is unexported | `MergeIsOverlay`, unless `reflect` has panicked |
| `MergingIsTotal` | no field is unexported; the layers of a stack fit together | `MergeIsOverlay`: `reflect` does not panic |
| `MergingEitherWay` | the same | `RegroupingIsHarmless` |
| `ProvenanceNamesSupplier` | no field is unexported; no pointer or interface holds an interface | `FlattenNamesSupplier` |
| `SchemaAndProvenanceAgree` | no field is unexported; the maps that are merged are decoded JSON | `SchemaFitsProvenance` |
| `NothingShared` | - | `NoSharedMaps` |
| `StackIsImmutable` | - | `StackNeverChanges` |
| `SetShowsInCopies` | - | `SetShowsInCopiesOnly` |
| `KeptLayersStay` | - | `ProvenanceSurvivesSet` |
| `TornOnFirstUseOnly` | - | `PanicsOnlyOnFirstUse` |
| `ErrorsDescribe` | - | `ErrorDescribesEvaluation` |
| `FunctionsStay` | - | `FunctionsFixed` |
| `CacheDoesNotShow` | - | `CacheIsTransparent` |
| `ProgramKeepsItsMaps` | - | `ProgramMapsUntouched` |
| `RecordsAreOwn` | - | `RecordsOwnEvent` |
| `RecordsStayAsTheyAre` | - | `RecordsAreFinal` |
| `HooksAreHeard` | - | `EveryHookHears` |
| `RegistryTypeOK` | - | `TypeOK` of `OpenAPIComponents` |
| `ComponentNamesAreUnique` | - | `NamesAreUnique` |
| `EveryRefResolves` | - | `RefsResolve` |
| `EveryComponentIsUsed` | - | `ComponentsAreUsed` |
| `SchemasAreWrittenOnce` | - | `WrittenOnce` |
| `TheBodyIsComplete` | - | `NothingLeftOut` |
| `DocumentsAreValid` | - | `EveryConfigurationIsValid` |
| `SchemaFollowsType` | - | `SchemaIsOfTheType` |

`ErrorLeavesNoTrace` says nothing about a call that is still running, so it is not inductive. Its
invariant `CopyInv` adds that each call works in a cell of its own (`OwnCell`), that the store only
refers to cells of calls that have saved (`StoredCells`), that no call fails after its save
(`SavedLate`), and that a cell holds only saved writes and its owner's (`CellContents`).

For shared snapshots none of that holds. `SharedInv` says instead that a call's own cell is private
until its save, and that a loaded SnapshotID names a write in the cell it was loaded with; the
lemma `WritesGrow` shows that the cells others can reach only ever grow, which keeps an ID true
while data is written under it.

`CasInv` extends `CopyInv` with what an ETag stands for: tags are never handed out twice (`Tags`),
so as long as a record carries the ETag a call loaded (or its caller stated), it holds the snapshot
that was loaded (or seen) with it. `SaveCommits` then says that a successful `Save` turns the
content of its key into that content plus the call, which is the commit step of `AtomicMutate`;
every other step maps to its read, its failure or a stutter.

`NoSharedMaps` is not inductive, because it does not say which maps have been allocated.
`WrapperInv` says that every reference is to an allocated map, at the place its address names
(`RefsPlaced`), and held by one parent only (`RefsUnique`); that all roots are allocated root maps;
and that what others can get at never includes a map of the stack (`StackPrivate`). The lemma
`WrapperStep` shows that every step but the building of the stack is `Proper`: it changes only what
others than the stack reach, or what is new, and hands out nothing else. `ProperKeeps` draws both
conclusions from that, the invariant and the immutability of the stack.

`SetShowsInCopiesOnly` needs `OriginInv`: two wrappers have one map as value exactly if that map has one
origin, be it a source or the wrapper it was made for. With `NoSharedMaps` different values then have
no map in common, and `Set` writes into maps of the value only.

`PanicsOnlyOnFirstUse` speaks of the goroutine that panics; `TornInv` of what the race has left in
the wrapper. A wrapper that is used holds both words of its evaluator (`UsedIsWhole`); a goroutine
that has its evaluator works in such a wrapper; one that is still storing holds both words itself,
and those it has stored are set (`Stored`); and a late goroutine is in a used wrapper. No step takes
a word away (`Gains`), so other goroutines' steps keep this (`OthersKeep`), and only a goroutine
that has its evaluator returns and makes its wrapper used. `Clone` may copy half an evaluator,
but then its original is not used and nor is the clone.

`ErrorDescribesEvaluation` is inductive with the shape of the state (`Shape`), because only
`CompileFails` and `Execute` let a goroutine return (`OnlyTwoReturn`). What makes it true is that an
adapter sees either a bare error or the complete one of a nested evaluation (`RunErrors`), and that
the adapter and `Evaluate`, which fill in one after the other, describe the same evaluation
(`FilledTwice`).

`ReturnedTagNamesResult` and `ConflictsHaveReasons` rest on `CasInv` and `ReportInv`. The tag a call has
returned is its record's as long as the record holds what that call saved (`TagsNameRecords`), every
call in a history has saved (`HistoriesSaved`), and a call whose tag is not the record's, be it the
tag its caller stated (`SeenBehind`) or the one it loaded (`BaseBehind`), was overtaken by a call that
saved the same key.

A reader changes nothing, so every behaviour of `ResolveSpec` is one of `Spec` (`ResolveIsMutate`)
and all theorems about `Mutate` hold of it. `ReaderInv` says that what the reader has loaded and not
yet cloned is a cell the store has had; `StoredGrow` that such cells only gain writes. With copies
they hold saved writes only, and whoever saved before the read began is in what is loaded later if
the store compares and swaps.

The order of a stack is what `NewStack` has made of all layers that were found. `Sorted` is
the one way to put layers of different priorities in falling order, stated by a `CHOOSE`; `Sortable`
shows that there is one, by taking each layer to the place of its rank, and `SortedIs` what follows
for the chosen one. `StackInv` connects it with
the loop: each layer comes from a requested scope (`LayersOfScopes`), an answer is `NewStack`'s
(`Answered`), each scope before `todo` that had a record has its layer (`ScopesSeen`), and records
never go away (`StillThere`, `RecordsStay`).

`defaultsPriority` is a search downwards from the priority below the lowest requested one.
`DefaultsAreFree` shows that it comes to an end and that the priority it returns is taken by no scope.
So no request fails because of the defaults. If the lowest requested priority is not the lowest `int`
the search ends where it begins, below all others; if it is, subtraction wraps, and the defaults come
out in the middle of the stack or on top, which is why `DefaultsFitAnyRequest` claims their place only
without it (see [known deviations](#known-deviations)).

`MergeIsTheOverlay` has as invariant (`LayeringInv`) that what is merged so far is the overlay of the
layers merged so far. `MergeOverlays` is its step: with a layer `s` on top of a column of layers
(`OnTop`), merging `s` onto the overlay of the column gives the overlay of both. It goes by induction
on the depth. What gives way or wins as it is, is `MergeWhole`. For the rest, `UnderIs` says that the
part of the weaker value that `mergeValue` goes on with is the overlay of the parts that the layers
below `s` contribute: if the column agrees with `s`, its first layer decides which of its layers
count, with and without `s`; if not, neither side takes anything from it. `OneAlone` covers the map
keys only `s` has, and `CloneIs` that a clone equals its original. Where a part is missing `Build`
panics, and the run `layering_section` shows that this happens; the theorem is about what comes out
otherwise. It assumes that no field is unexported because `mergeValue` zeroes those.

`MergingIsTotal` says when it does not happen. Its invariant (`FitInv`) is that the layers and what is
merged of them so far fit together. A whole layer merges with anything that fits (`Whole` is
preserved), and of layers of one type, what two of them have at one place fits together again, so that
the claim goes down to the parts. For snapshots that come with no type of their own, such as decoded
JSON, it is enough that each is whole.

`ProvenanceNamesSupplier` compares three ways through one tree: the path in the layers, in the merged
value, and among the paths that are listed. `Walk` is `navigateSegments` from a value; it takes one
step at a time (`WalkInto`, `WalkThrough`), the same at every depth (`WalksAgree`). For layers without
nil, a path of the overlay goes into a part; the layers that supply the part are those above which
no layer cuts it off (`SuppliersAre`), and the first of them that has the path is the first layer at
all that has it (`NamedByPart`). Where the path ends, the value is that of the top layer
(`EndsAgree`). `NamesAre` is the induction on the depth.

`MergingEitherWay` rests on associativity: for values of one type at each place (`Matching`), merging
gives such a value again (`MergesMatch`) and can be bracketed either way (`MergeAssociates`). By
`MergeIsTheOverlay`, what the layers from `k` on merge to is the overlay of them (`Rest`), and merging
them from the top down onto nothing gives the same (`TopDownIsRest`, going down `RestsHeld`).

`SchemaAndProvenanceAgree` has as invariant (`DecodedInv`) that merging decoded layers gives decoded
values or panics, which holds as a merge has the kind of one of the two (`MergeDecodes`). For decoded
values it goes by induction on the depth over both recursions at once: each path leads somewhere and is
described (`PathsDescribed`), each descriptor names something and it or something in it is listed
(`DescribedListed`).

`KeysTellApart` compares two identifiers up to their first slash, then up to the second, as ids have
none: scope, id and domain agree one after the other. `NothingForeignIsRead` builds on it: `KeyedInv` says
that every cell belongs to one key, that of the call that allocated it, and holds only writes of calls
of that key, that a record's cell is of its key and a call works in a cell of its own key, whether `Load`
copies or shares; `LayersKeyed` says the same of what a Resolve has loaded. What is read under a key was
written under it, and two refs of one key are of one scope and domain.

`ProvenanceSurvivesSet` is about layers that several wrappers keep. `KeptInv` adds that no kept map is
a source or the value of a wrapper. Every step is `Careful`: it writes only into what sources, values
and held maps reach or into new maps, and gives a wrapper no layers, those of another wrapper, or
fresh clones of the stack's. So a kept layer changes only through a map the program was handed.

`FunctionsFixed` needs to know which registries may still be written. `RegistryInv` says that all
registries that are referred to are those of wrappers that exist, that as long as a default evaluator
may be made every registry made for it so far is a copy of the configured one (`DefaultsAgree`), and
so is the one a goroutine is about to store (`StoringAgree`).

`CacheIsTransparent` speaks of calls that have returned, of wrappers that need not be the one that
compiled the program, and of the functions at that time. `CacheInv` adds what happens before: a
cached program has a registry no later step changes (`Settled`) and the functions of a wrapper that
uses the cache; a goroutine runs a program of its own or such a one; and run with agreeing functions
it does what a fresh one would (`RunAsFresh`, `SharersFit`). `Onward` is what every step leaves of
the wrappers there are, which carries each part over the steps of the other goroutines.

The theorems about activity have one invariant, `MapInv`: the shape of the state (`Shapes`), that the
event of an emission has a map no other emission has, which holds what it held at first and what
hooks called since then wrote (`EventOwn`), the same of a record and the hooks before it
(`RecordOwn`), what can be in an object and who can reach it, and that the program's maps are as it
left them (`ProgramMapsUntouched`). `RecordsAreFinal` is the second half of `MapStep`.

`EveryHookHears` needs more: that the arrays of
the option and of the emitter, which the program cannot write, have what these were configured with
(`SlicesInv`), and that what an emission has called and the errors it has collected
are those of the hooks up to where it stands (`Progress`). With `MapInv` they are `HookInv`.
The configured hooks are those of a sequence that are not nil; `Select` picks them by a function that
recurses over the length, about which `Induction!Recursion` allows to reason.

Those about the OpenAPI document have `WalkInv`. It says where the walk is (`Walks`), what an entry of
the registry is (`Entries`, `NamesAreUnique`), what is in a finished place: the schema itself or a
reference to it (`Places`, `WrittenOnce`), that a schema seen twice or forced is published
(`TwiceIsUsed`, `RootIsForced`, `Published`), and that everything of the graph is placed, on the way
or still to come (`Complete`). They are theorems of `OpenAPIDocument`'s `DocSpec`, which the run
checks: `DocumentWalks` shows that each of its steps is a step of `OpenAPIComponents` or leaves the
walk alone. `DocumentsAreValid` has `ConfigInv`: no option, in any order, empties one of the texts
that are needed, makes the method one that is refused, or takes away all responses.
`SchemaFollowsType` goes by induction on the depth (`ShapeDecides`): if what is built one step below is
the same for any two values (`LooksAway`), so is what `build` makes of it, kind by kind (`SameBuild`,
`SameStruct`). It holds for recursive types too, and for any fields, tags and names. Maps and interfaces
are left out, whose schema the code takes from the value.

The library's induction theorems have an operator as parameter, which the provers cannot instantiate.
`Induction` derives what the proofs need from the well-foundedness of strict inclusion among finite
sets, for sets of numbers instead of predicates: `Induct`, `Least`, `Greatest`, `Lowest`, `Recursion`
(a function on an initial segment with a given start and step), and `Loops`.

Proved and in no run: `ErrorMeansUnsaved`, `NoSharedMaps` and the `TypeOK` of `OpenAPIComponents`, which
stand behind properties that are.

Only model-checked: what is said of `FunctionRegistry`, whose `EveryCallReturns` is about fairness and so
beyond the prover, and what the cfgs bound, such as `DepthSuffices` and `StacksFit`. Every other
property of a passing run is a theorem.

## Known deviations

The first three have a run that finds each.

* A `Mutate` on a `MemoryStore` of maps that fails has changed the stored snapshot already
  (`memory_shared_dirty`; `memory_store.go:38`, `types.go:182`).
* Merging an optional section that has a nil slice, map or pointer over a layer without that
  section panics (`layering_section`; `merge.go:74`).
* The README's `LayerWith` example is not what the code does: a zero scalar of a stronger layer
  wins (`layering_zero`; `merge.go:120`, `README.md:331`).

Others have no run of their own, since they follow from a definition of the models or are about what
the models leave out:

* `MemoryStore` keeps the ETag it is given, so the ETag check accepts a caller that has read an
  older snapshot (`memory_store.go:48`).
* After `Set` on a wrapper `Merge` has returned, `ResolveWithTrace` and `FlattenWithProvenance`
  still report the value of the kept layer (`options.go:147`). The same holds
  for the wrappers `WithValue` and `LayerWith` return.
* `defaultsPriority` wraps when a requested scope has the lowest int as its priority, and the defaults
  become the strongest layer (`types.go:122`). `memory_value` has such a request; `DefaultsFitAnyRequest` says
  what holds for it.
* A program cache shared by wrappers with different functions makes one call the functions of the
  other: programs are kept by the text of the expression only (`expr_evaluator.go:90`,
  `cel_evaluator.go:84`; the README offers the cache as memoisation, `README.md:314`).
  `CacheIsTransparent` is about sharers that agree on their functions.
* `Validate` with a pointer receiver is never called for a wrapper of a struct, because the value is
  not addressable (`options.go:78`; `README.md:128` promises it).
* All hooks of one `Notify` get the same normalised map (`hooks.go:67`): a hook that writes shows its
  write to later ones. And `cloneMap` (`hooks.go:104`) copies the top level only: an object nested in
  the program's metadata, its old and new values and an event's `scope_metadata` are shared by the
  program, the hooks and the records, so that a hook that writes into one changes it for all of them,
  in records already taken too. `ProgramMapsUntouched`, `RecordsOwnEvent` and `RecordsAreFinal` say
  what is left: entries are safe, and an object is written by those only that were handed it.
* `MergeLayers` of an interface type (`MergeLayers[any]`) panics in its final conversion
  (`merge.go:19`); `Complete` is about values that have a type of their own.
* With a root component name the body is written out, and schemas that come up twice in it are
  published as components to which nothing in the body refers (`document.go:201`, `graph.go:80`).
* A root whose schema cannot be marshalled, as with a NaN default, has an empty digest and comes out as
  an empty object (`graph.go:146`). `WithRootComponent` publishes under the sanitised name, not the
  given one. The fallback of `operationID` is never used, as the configuration always has an id
  (`document.go:127`; `config.go:43`).
* A type of slice that contains itself is followed without end (`graph.go:332`; `visited` has structs
  only), the keys of a map with a named string type make `MapIndex` panic (`graph.go:321`), and two
  fields of one JSON name are both listed in `required`.
* A pointer to an interface is followed by `FlattenWithProvenance` but not by `Get`: the paths inside it
  are listed and lead nowhere (`options.go:378` against `options.go:308`). Hence `Proper`. The error
  that `FlattenWithProvenance` returns there (`options.go:176`) is an entry `Missed` in the models.
* The error for a scope without a name that `NewStack` could return to `Mutate` comes with the loaded
  Meta (`types.go:199`); the checks before `Load` keep it from happening.
* A slice with nothing but empty maps in it has a descriptor, but no path is listed for it
  (`options.go:429`; `schema.go:57`).
* Two refs have one key when an id has a slash (`types.go:57`); hence the premise of `KeysTellApart`.
* The default generator's descriptors of a struct are empty, and for nil it returns an object
  schema where `README.md:281` describes a null type.

Outside the bounds of the passing runs, and stated here because they limit the properties:
`ResolveWithTrace` returns a value for a path the merged value does not have when a stronger layer
has put a scalar over a map (`options.go:143`; `FlattenNamesSupplier` is about the paths of the
merged value); `Set` on a wrapper whose map is nil panics (`options.go:220`);
`FlattenWithProvenance` names a layer whose field is a nil pointer or an explicit nil as supplier
(`options.go:143`; hence the precondition of `FlattenNamesSupplier`); `Clone` zeroes unexported
struct fields such as those of a `time.Time` (`merge.go:151`; `Unexported` is empty in the runs).
A wrapper cloned by one goroutine during its first evaluation by another can copy half of the
evaluator and then panic on every evaluation; `PanicsOnlyOnFirstUse` is about wrappers of which one
evaluation has returned. A function registered as `equalsIgnoreCase` is a symbol only as
`equalsignorecase` (`function_registry.go:78`), which `Symbol` follows. With an explicit
evaluator the wrapper's own `WithCustomFunction` and `WithProgramCache` have no effect
(`evaluate.go:72`), and so it is in `New`.

## What is not modelled

The expression engines, JSON and its text, and the example programs: third-party code, formatting, or
programs that print what the library does. A `Resolver` without a store, a `Mutate` without a mutator
and a nil registry or emitter are refused at once and left out. `Hydrate` is an internal, sequential
pipeline without state
between calls, used by its own tests only. Contexts: `MemoryStore` ignores them and `Resolver` only
passes them on. Compiled rules and the evaluation logger. The list of scopes `WithScopeSchema` adds to
a schema, which copies names and priorities. `ApplyDefaults` and the validation of `Load`, which depend
on a Go type's method set and zero value and change no state.

## Plan

1. State: `StateStore`, `StateStoreAtomic`, `ScopeStack`, `StateResolve`, `RefIdentifier`. Done.
2. Values and wrappers: `Layering`, `OptionsWrapper`, `SchemaDescriptors`. Done.
3. `Evaluators`, `FunctionRegistry`. Done, except for compiled rules (`Compile` and `CompiledRule.Evaluate`).
4. `ActivityHooks`; `SchemaGraph`, `OpenAPIComponents`, `OpenAPIDocument`. Done.
5. Proofs. Done for the theorems above.
