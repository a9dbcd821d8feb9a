------------------------------ MODULE Evaluators ------------------------------
(***************************************************************************)
(* Evaluate and EvaluateWith on wrappers that share a program cache, by    *)
(* several goroutines: the registry of functions a wrapper clones, the     *)
(* default evaluator it makes on first use, the three evaluators' way      *)
(* through the cache, and the error that is completed on the way out.      *)
(*                                                                         *)
(* An expression is one symbol: a key of the snapshot ("key"), a function  *)
(* called by its own name ("direct") or through call(name) ("call"), or    *)
(* text no engine parses ("broken").  What an engine does with it is the   *)
(* engine's; it is modelled from what the adapters hand to it.             *)
(***************************************************************************)
EXTENDS Naturals, FiniteSets, SequencesExt

CONSTANTS
  None,        \* nil, the empty string, no entry
  Names,       \* names of functions, as they are written
  Lower,       \* strings.ToLower on Names
  Fns,         \* functions
  NestedFns,   \* those that fail with the EvaluationError of an Evaluate they call
  Registrations, \* what the program registers: records [name, fn]
  Keys,        \* keys of a snapshot
  Requests,    \* what is evaluated: records [expr, keys, ctx] of an expression
               \* [form, name], the keys of the snapshot and, for EvaluateWith,
               \* a context [scope, scopeName]
  Wrappers,    \* names for the *Options a program can hold
  Configs,     \* the options of New: records [engine, cached, functions, scope]
  Capacity,    \* how many programs the cache keeps
  Goroutines,  \* each runs one evaluation at a time
  JsEval       \* whether the js_eval build tag is set

Exprs == {r.expr : r \in Requests}

VARIABLES
  registries,  \* the functions of each registry, by name
  opts,        \* the wrappers
  cache,       \* the ProgramCache: the program stored for each expression
  calls        \* what each goroutine is doing

vars == <<registries, opts, cache, calls>>

-----------------------------------------------------------------------------
(* Registries: the one the program holds, the one in a wrapper's           *)
(* configuration, and the one in the evaluator made for a wrapper.         *)
Shared       == <<"shared">>
Configured(w) == <<"configured", w>>
Evaluating(w) == <<"evaluating", w>>

Cells   == {Shared} \cup {Configured(w) : w \in Wrappers} \cup {Evaluating(w) : w \in Wrappers}
Empty   == [n \in Names |-> None]

(* Register, which returns an error and changes nothing when the name is   *)
(* taken.                                                                  *)
Registered(functions, n, f) ==
  IF functions[Lower[n]] # None THEN functions
  ELSE [functions EXCEPT ![Lower[n]] = f]

(* The functions of a registry, if there is one.                           *)
FunctionsIn(cell) == IF cell = None THEN {} ELSE {registries[cell]}

(* What call(name) finds, and the symbol an adapter adds for each function *)
(* under its registered name.                                              *)
Call(cell, name)   == IF cell = None THEN None ELSE registries[cell][Lower[name]]
Symbol(cell, name) == IF cell = None THEN None ELSE registries[cell][name]

Lookup(cell, expr) ==
  IF expr.form = "call" THEN Call(cell, expr.name) ELSE Symbol(cell, expr.name)

(* The options of New in order.  [name |-> None] is WithFunctionRegistry,  *)
(* which replaces what was there by a clone of Shared; any other is        *)
(* WithCustomFunction, which drops the error of Register.                  *)
IsRegistry(option) == option.name = None

ApplyOption(functions, option) ==
  IF IsRegistry(option) THEN registries[Shared]
  ELSE Registered(functions, option.name, option.fn)

ApplyOptions(options) == FoldLeft(ApplyOption, Empty, options)

-----------------------------------------------------------------------------
(* Engines.  A program knows the engine that compiled it and the registry  *)
(* of the evaluator that did.                                              *)
Program(engine, cell) == [engine |-> engine, registry |-> cell]

(* expr allows undefined variables, goja looks them up at run time; CEL    *)
(* checks an expression against the variables and functions it was given.  *)
Compiles(engine, cell, keys, expr) ==
  /\ expr.form # "broken"
  /\ engine = "cel" => /\ expr.form = "key"    => expr.name \in keys
                       /\ expr.form = "direct" => Lookup(cell, expr) # None
                       /\ expr.form = "call"   => cell # None

(* What is bound when the program is compiled, and not when it runs: the   *)
(* direct functions of expr that were registered then, all those of CEL.   *)
Binds(engine, expr) ==
  \/ engine = "expr" /\ expr.form = "direct"
  \/ engine = "cel"  /\ expr.form \in {"direct", "call"}

Callee(program, cell, expr) ==
  IF /\ Binds(program.engine, expr)
     /\ program.engine = "expr" => Lookup(program.registry, expr) # None
  THEN program.registry ELSE cell

Answer(value) == [value |-> value, err |-> None]
Fails(err)    == [value |-> None, err |-> err]

Plain  == [engine |-> None, expr |-> None, scope |-> None]
Nested == [engine |-> "nested", expr |-> [form |-> "nested"], scope |-> "nested"]

(* A key the snapshot lacks is nil in expr and an error in CEL and JS.  An *)
(* error of a function is passed on as text by CEL, as it is by the others.*)
MissingKey(engine)  == IF engine = "expr" THEN Answer(None) ELSE Fails(Plain)
Failure(engine, fn) == Fails(IF engine = "cel" THEN Plain ELSE Nested)

(* The program run by an evaluator with the registry in cell.              *)
Run(program, cell, keys, expr) ==
  LET fn == IF expr.form = "key" THEN None ELSE Lookup(Callee(program, cell, expr), expr) IN
  CASE expr.form = "key" ->
         IF expr.name \in keys THEN Answer(expr.name) ELSE MissingKey(program.engine)
    [] expr.form # "key" /\ fn = None -> Fails(Plain)
    [] expr.form # "key" /\ fn \in NestedFns -> Failure(program.engine, fn)
    [] OTHER -> Answer(fn)

-----------------------------------------------------------------------------
(* wrapEvaluationError: an error that is an EvaluationError already keeps  *)
(* what it says and has its empty fields filled in.                        *)
WrapKeeps(err, engine, expr, scope) ==
  IF err = Plain THEN [engine |-> engine, expr |-> expr, scope |-> scope] ELSE err

FillIn(err, engine, expr, scope) ==
  [engine |-> IF err.engine = None THEN engine ELSE err.engine,
   expr   |-> IF err.expr   = None THEN expr   ELSE err.expr,
   scope  |-> IF err.scope  = None THEN scope  ELSE err.scope]

(* withDefaultScope and scopeLabel: the first scope that has a name.       *)
ScopeLabel(ctx, scope) ==
  Head(SelectSeq(<<ctx.scope, scope, ctx.scopeName, "unknown">>, LAMBDA label : label # None))

-----------------------------------------------------------------------------
(* A wrapper's evaluator is a Go interface: two words, its type (for which *)
(* its engine stands) and its data, which a goroutine may find half        *)
(* written.  used tells whether an evaluation of it has returned.          *)
NoWrapper == [built |-> FALSE, engine |-> None, data |-> None, functions |-> None,
              cached |-> FALSE, scope |-> None, used |-> FALSE]

Data == [registry : Cells \cup {None}, cached : BOOLEAN]

(* What the fields of an EvaluationError may hold.                         *)
Engines == {None, "expr", "nested"} \cup {config.engine : config \in Configs}
Scopes  == {None} \cup {config.scope : config \in Configs}
Labels  == {None, "nested"} \cup {ScopeLabel(r.ctx, scope) : r \in Requests, scope \in Scopes}
Errors  == [engine : Engines, expr : {None, Nested.expr} \cup Exprs, scope : Labels]

ASSUME EvaluatorsAssumption ==
  /\ Lower \in [Names -> Names]
  /\ \A n \in Names : Lower[Lower[n]] = Lower[n]
  /\ NestedFns \subseteq Fns
  /\ None \notin Names \cup Fns \cup Keys
  /\ None \notin Data \cup Cells \cup {"expr", "nested"}
  /\ None \notin Errors \cup {Nested.expr}
  /\ \A config \in Configs : config.cached \in BOOLEAN
  /\ Capacity \in Nat
  /\ JsEval \in BOOLEAN

NoCall == [pc |-> "idle", w |-> None, expr |-> None, keys |-> {}, label |-> None,
           late |-> FALSE, words |-> {}, engine |-> None, data |-> None,
           program |-> None, value |-> None, err |-> None]

Init ==
  /\ registries = [c \in Cells |-> Empty]
  /\ opts  = [w \in Wrappers |-> NoWrapper]
  /\ cache = [e \in Exprs |-> None]
  /\ calls = [g \in Goroutines |-> NoCall]

(* The program registers a function in the registry it holds.              *)
Register(n, f) ==
  /\ registries' = [registries EXCEPT ![Shared] = Registered(@, n, f)]
  /\ UNCHANGED <<opts, cache, calls>>

(* Without the js_eval tag NewJSEvaluator returns nil.                     *)
EvaluatorFor(engine) == IF engine = "js" /\ ~JsEval THEN None ELSE engine

(* Which registry New leaves in the configuration; as a mutant, the one it *)
(* was given and not a clone.                                              *)
GivenFunctions(w, config) ==
  IF config.functions = <<>> THEN None
  ELSE IF IsRegistry(Last(config.functions)) THEN Shared
  ELSE Configured(w)

ConfigFunctions(w, config) ==
  IF config.functions = <<>> THEN None ELSE Configured(w)

(* New, and before it the constructor of an explicit evaluator, which is   *)
(* given the same cache and registry and clones the registry itself.       *)
New(w, config) ==
  LET engine == EvaluatorFor(config.engine)
      given  == \E i \in DOMAIN config.functions : IsRegistry(config.functions[i]) IN
  /\ ~opts[w].built
  /\ registries' = [registries EXCEPT
       ![Configured(w)] = ApplyOptions(config.functions),
       ![Evaluating(w)] = IF engine # None /\ given THEN registries[Shared] ELSE Empty]
  /\ opts' = [opts EXCEPT ![w] =
       [built     |-> TRUE,
        engine    |-> engine,
        data      |-> IF engine = None THEN None
                      ELSE [registry |-> IF given THEN Evaluating(w) ELSE None,
                            cached   |-> config.cached],
        functions |-> ConfigFunctions(w, config),
        cached    |-> config.cached,
        scope     |-> config.scope,
        used      |-> FALSE]]
  /\ UNCHANGED <<cache, calls>>

(* Clone and WithValue copy the wrapper, both words of its evaluator with  *)
(* it.                                                                     *)
Clone(v, w) ==
  /\ opts[w].built /\ ~opts[v].built
  /\ opts' = [opts EXCEPT ![v] = opts[w]]
  /\ UNCHANGED <<registries, cache, calls>>

-----------------------------------------------------------------------------
(* One evaluation.                                                         *)
Begin(g, w, request) ==
  /\ calls[g].pc \in {"idle", "returned", "panicked"}
  /\ opts[w].built
  /\ calls' = [calls EXCEPT ![g] = [NoCall EXCEPT
       !.pc = "resolve", !.w = w, !.expr = request.expr, !.keys = request.keys,
       !.label = ScopeLabel(request.ctx, opts[w].scope), !.late = opts[w].used]]
  /\ UNCHANGED <<registries, opts, cache>>

(* resolveEvaluator finds an evaluator.                                    *)
Resolve(g) ==
  LET w == calls[g].w IN
  /\ calls[g].pc = "resolve"
  /\ opts[w].engine # None /\ opts[w].data # None
  /\ calls' = [calls EXCEPT ![g].pc = "lookup", ![g].engine = opts[w].engine,
                            ![g].data = opts[w].data]
  /\ UNCHANGED <<registries, opts, cache>>

(* It finds the type word of an evaluator another goroutine is storing and *)
(* calls a method on the nil pointer beside it.                            *)
ResolveTorn(g) ==
  LET w == calls[g].w IN
  /\ calls[g].pc = "resolve"
  /\ opts[w].engine # None /\ opts[w].data = None
  /\ calls' = [calls EXCEPT ![g].pc = "panicked"]
  /\ UNCHANGED <<registries, opts, cache>>

(* It finds none and makes an expr evaluator with a clone of the           *)
(* configured registry.                                                    *)
MakeDefault(g) ==
  LET w    == calls[g].w
      cell == opts[w].functions IN
  /\ calls[g].pc = "resolve"
  /\ opts[w].engine = None
  /\ registries' = IF cell = None THEN registries
                   ELSE [registries EXCEPT ![Evaluating(w)] = registries[cell]]
  /\ calls' = [calls EXCEPT
       ![g].pc = "store", ![g].words = {"engine", "data"}, ![g].engine = "expr",
       ![g].data = [registry |-> IF cell = None THEN None ELSE Evaluating(w),
                    cached   |-> opts[w].cached]]
  /\ UNCHANGED <<opts, cache>>

(* withEvaluator that clears the interface first, as a mutant.             *)
StoreCleared(g, word) ==
  LET call == calls[g] IN
  /\ call.pc = "store" /\ word \in call.words
  /\ opts' = [opts EXCEPT
       ![call.w].engine = IF word = "engine" THEN call.engine ELSE @,
       ![call.w].data   = IF word = "data" THEN call.data ELSE None]
  /\ calls' = [calls EXCEPT ![g].words = @ \ {word},
                            ![g].pc = IF call.words = {word} THEN "lookup" ELSE "store"]
  /\ UNCHANGED <<registries, cache>>

(* withEvaluator stores the two words of the interface, in either order.   *)
Store(g, word) ==
  LET call == calls[g] IN
  /\ call.pc = "store" /\ word \in call.words
  /\ opts' = [opts EXCEPT
       ![call.w].engine = IF word = "engine" THEN call.engine ELSE @,
       ![call.w].data   = IF word = "data" THEN call.data ELSE @]
  /\ calls' = [calls EXCEPT ![g].words = @ \ {word},
                            ![g].pc = IF call.words = {word} THEN "lookup" ELSE "store"]
  /\ UNCHANGED <<registries, cache>>

(* The cached program is used if it is of this engine; as a mutant,        *)
(* whatever it is.                                                         *)
UsableAny(call) == call.data.cached /\ cache[call.expr] # None

Usable(call) ==
  /\ call.data.cached
  /\ cache[call.expr] # None
  /\ cache[call.expr].engine = call.engine

Hit(g) ==
  /\ calls[g].pc = "lookup"
  /\ Usable(calls[g])
  /\ calls' = [calls EXCEPT ![g].pc = "run", ![g].program = cache[calls[g].expr]]
  /\ UNCHANGED <<registries, opts, cache>>

Miss(g) ==
  /\ calls[g].pc = "lookup"
  /\ ~Usable(calls[g])
  /\ calls' = [calls EXCEPT ![g].pc = "compile"]
  /\ UNCHANGED <<registries, opts, cache>>

(* Set of the ProgramCache, which the program supplies: it keeps at most   *)
(* Capacity programs, and drops others when it likes.                      *)
Put(expr, program) ==
  \E evicted \in SUBSET ({expr} \cup {e \in Exprs : cache[e] # None}) :
    /\ cache' = [e \in Exprs |-> IF e \in evicted THEN None
                                ELSE IF e = expr THEN program ELSE cache[e]]
    /\ Cardinality({e \in Exprs : cache'[e] # None}) <= Capacity

Compile(g) ==
  LET call    == calls[g]
      program == Program(call.engine, call.data.registry) IN
  /\ call.pc = "compile"
  /\ Compiles(call.engine, call.data.registry, call.keys, call.expr)
  /\ IF call.data.cached THEN Put(call.expr, program) ELSE UNCHANGED cache
  /\ calls' = [calls EXCEPT ![g].pc = "run", ![g].program = program]
  /\ UNCHANGED <<registries, opts>>

(* Evaluate wraps what the evaluator returned once more: without an engine *)
(* of its own, but with the scope loadOrCompile does not know.             *)
Return(g, value, err) ==
  /\ calls' = [calls EXCEPT
       ![g].pc = "returned", ![g].late = FALSE, ![g].program = None, ![g].value = value,
       ![g].err = IF err = None THEN None
                  ELSE FillIn(err, None, calls[g].expr, calls[g].label)]
  /\ opts' = [opts EXCEPT ![calls[g].w].used = TRUE]
  /\ UNCHANGED <<registries, cache>>

CompileFails(g) ==
  LET call == calls[g] IN
  /\ call.pc = "compile"
  /\ ~Compiles(call.engine, call.data.registry, call.keys, call.expr)
  /\ Return(g, None, FillIn(Plain, call.engine, call.expr, None))

Execute(g) ==
  LET call   == calls[g]
      result == Run(call.program, call.data.registry, call.keys, call.expr) IN
  /\ call.pc = "run"
  /\ Return(g, result.value,
            IF result.err = None THEN None
            ELSE FillIn(result.err, call.engine, call.expr, call.label))

Evaluate(g) ==
  \/ \E w \in Wrappers, request \in Requests : Begin(g, w, request)
  \/ Resolve(g) \/ ResolveTorn(g) \/ MakeDefault(g)
  \/ \E word \in {"engine", "data"} : Store(g, word)
  \/ Hit(g) \/ Miss(g) \/ Compile(g) \/ CompileFails(g) \/ Execute(g)

Next ==
  \/ \E r \in Registrations : Register(r.name, r.fn)
  \/ \E w \in Wrappers, config \in Configs : New(w, config)
  \/ \E v, w \in Wrappers : Clone(v, w)
  \/ \E g \in Goroutines : Evaluate(g)

Spec == Init /\ [][Next]_vars

-----------------------------------------------------------------------------
(* The registry, the cache setting and the engine the evaluator of a       *)
(* wrapper has, or will have once it is made.                              *)
RegistryOf(w) == IF opts[w].data # None THEN opts[w].data.registry ELSE opts[w].functions
CachedIn(w)   == IF opts[w].data # None THEN opts[w].data.cached ELSE opts[w].cached
EngineOf(w)   == IF opts[w].engine # None THEN opts[w].engine ELSE "expr"

SharersAgree(engine) ==
  \A v, w \in {u \in Wrappers : opts[u].built /\ CachedIn(u) /\ EngineOf(u) = engine} :
    FunctionsIn(RegistryOf(v)) = FunctionsIn(RegistryOf(w))

(* What the evaluation would have returned with an empty cache.            *)
Fresh(call) ==
  LET cell == call.data.registry IN
  IF Compiles(call.engine, cell, call.keys, call.expr)
  THEN Run(Program(call.engine, cell), cell, call.keys, call.expr)
  ELSE Fails(Plain)

AsFresh(call) ==
  /\ call.value = Fresh(call).value
  /\ (call.err = None) <=> (Fresh(call).err = None)

(* A shared program cache does not show: an evaluation returns what it     *)
(* would have returned had it compiled the expression itself, whichever    *)
(* engines, snapshots and goroutines filled the cache, as long as the      *)
(* evaluators of its engine that share the cache have the same functions,  *)
(* or the engine binds nothing of the expression when it compiles it.      *)
CacheIsTransparent ==
  \A g \in Goroutines :
    /\ calls[g].pc = "returned"
    /\ Binds(calls[g].engine, calls[g].expr) => SharersAgree(calls[g].engine)
    => AsFresh(calls[g])

(* A wrapper's functions are those it was made with: registering a         *)
(* function later, making the default evaluator and cloning the wrapper    *)
(* leave them alone.                                                       *)
FunctionsFixed ==
  [][\A w \in Wrappers :
       opts[w].built => FunctionsIn(RegistryOf(w))' = FunctionsIn(RegistryOf(w))]_vars

(* The unsynchronised store of the default evaluator can only hurt on      *)
(* first use: once an evaluation of a wrapper has returned, later ones on  *)
(* it, and on clones taken since, do not panic, even while goroutines that *)
(* started together with the first are still storing their own.            *)
PanicsOnlyOnFirstUse ==
  \A g \in Goroutines : ~(calls[g].pc = "panicked" /\ calls[g].late)

(* An error Evaluate returns names the engine, the expression and the      *)
(* scope of one evaluation: this one, on every path through the adapters,  *)
(* or the one a function made and passed its error on; never a mixture,    *)
(* and never with a field left empty.                                      *)
ErrorDescribesEvaluation ==
  \A g \in Goroutines :
    calls[g].pc = "returned" /\ calls[g].err # None =>
      calls[g].err \in
        {Nested, [engine |-> calls[g].engine, expr |-> calls[g].expr, scope |-> calls[g].label]}
=============================================================================
