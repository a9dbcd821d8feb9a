--------------------------- MODULE EvaluatorsProofs ---------------------------
(***************************************************************************)
(* The default evaluator can be torn on first use only, errors describe    *)
(* one evaluation, functions stay those a wrapper was made with and the    *)
(* shared program cache does not show, for any number of wrappers,         *)
(* goroutines, functions and expressions.                                  *)
(***************************************************************************)
EXTENDS Evaluators, TLAPS

WrapperFields == {"built", "engine", "data", "functions", "cached", "scope", "used"}
CallFields    == {"pc", "w", "expr", "keys", "label", "late", "words", "engine", "data",
                  "program", "value", "err"}

IsWrapper(r) == r = [f \in WrapperFields |-> r[f]]
IsCall(c)    == c = [f \in CallFields |-> c[f]]

AreWrappers(f) == DOMAIN f = Wrappers /\ \A w \in Wrappers : IsWrapper(f[w])
AreCalls(f)    == DOMAIN f = Goroutines /\ \A g \in Goroutines : IsCall(f[g])

Cached(f)      == \A w \in Wrappers : f[w].cached \in BOOLEAN

Shape == DOMAIN registries = Cells /\ AreWrappers(opts) /\ Cached(opts) /\ AreCalls(calls)

(* The goroutine g alone goes on, in wrapper w.                            *)
Only(g, next) == \A x \in Goroutines : x # g => next[x] = calls[x]

(* The wrapper w stays as it is, but for being used.                       *)
Keeps(w, next) ==
  /\ next[w].built = opts[w].built /\ next[w].functions = opts[w].functions
  /\ next[w].engine = opts[w].engine /\ next[w].data = opts[w].data
  /\ next[w].cached = opts[w].cached /\ next[w].scope = opts[w].scope

(* The error of a call that returns err to Evaluate.                       *)
Reported(call, err) ==
  IF err = None THEN None ELSE FillIn(err, None, call.expr, call.label)

(* Every step keeps the variables functions of records.                    *)
LEMMA ShapeHolds == Init => Shape
<1> SUFFICES ASSUME Init PROVE Shape
  OBVIOUS
<1>1. IsWrapper(NoWrapper) /\ IsCall(NoCall)
  BY DEF IsWrapper, WrapperFields, IsCall, CallFields, NoWrapper, NoCall
<1>2. DOMAIN registries = Cells
  BY DEF Init
<1>3. AreWrappers(opts)
  BY <1>1 DEF Init, AreWrappers
<1>4. AreCalls(calls)
  BY <1>1 DEF Init, AreCalls
<1>5. Cached(opts)
  BY DEF Init, NoWrapper, Cached
<1> QED
  BY <1>2, <1>3, <1>4, <1>5 DEF Shape

(* A goroutine's call may be replaced.                                     *)
LEMMA CallReplaced ==
  ASSUME Shape, NEW g \in Goroutines, NEW c, IsCall(c), calls' = [calls EXCEPT ![g] = c]
  PROVE  AreCalls(calls')
<1>1. DOMAIN calls' = Goroutines
  BY DEF Shape, AreCalls
<1>2. \A x \in Goroutines : calls'[x] = IF x = g THEN c ELSE calls[x]
  BY DEF Shape, AreCalls
<1>3. \A x \in Goroutines : IsCall(calls'[x])
  BY <1>2 DEF Shape, AreCalls
<1> QED
  BY <1>1, <1>3 DEF AreCalls

(* What Return does to the two variables it changes.                       *)
LEMMA ReturnStep ==
  ASSUME Shape, NEW g \in Goroutines, NEW value, NEW err, Return(g, value, err)
  PROVE  /\ Shape'
         /\ Only(g, calls')
         /\ calls'[g].pc = "returned" /\ calls'[g].late = FALSE
         /\ calls'[g].engine = calls[g].engine /\ calls'[g].expr = calls[g].expr
         /\ calls'[g].label = calls[g].label /\ calls'[g].data = calls[g].data
         /\ calls'[g].keys = calls[g].keys /\ calls'[g].value = value
         /\ registries' = registries /\ cache' = cache
         /\ \A w \in Wrappers :
              /\ Keeps(w, opts')
              /\ opts'[w].used = IF w = calls[g].w THEN TRUE ELSE opts[w].used
<1> DEFINE error == Reported(calls[g], err)
<1>1. calls' = [calls EXCEPT ![g].pc = "returned", ![g].late = FALSE, ![g].program = None,
                             ![g].value = value, ![g].err = error]
  BY DEF Return, Reported
<1>2. opts' = [opts EXCEPT ![calls[g].w].used = TRUE]
  BY DEF Return
<1> HIDE DEF error
<1>3. AreCalls(calls')
  <2> DEFINE c == [calls[g] EXCEPT !.pc = "returned", !.late = FALSE, !.program = None,
                                   !.value = value, !.err = error]
  <2>1. calls' = [calls EXCEPT ![g] = c]
    BY <1>1
  <2>2. IsCall(calls[g])
    BY DEF Shape, AreCalls
  <2>3. IsCall(c)
    BY <2>2 DEF IsCall, CallFields
  <2> QED
    BY <2>1, <2>3, CallReplaced
<1>4. AreWrappers(opts')
  BY <1>2 DEF Shape, AreWrappers, IsWrapper, WrapperFields
<1>5. registries' = registries /\ cache' = cache
  BY DEF Return
<1>c. Cached(opts')
  BY <1>2 DEF Shape, AreWrappers, IsWrapper, WrapperFields, Cached
<1>6. Shape'
  BY <1>3, <1>4, <1>5, <1>c DEF Shape, Cached
<1>7. /\ Only(g, calls')
      /\ calls'[g].pc = "returned" /\ calls'[g].late = FALSE
      /\ calls'[g].engine = calls[g].engine /\ calls'[g].expr = calls[g].expr
      /\ calls'[g].label = calls[g].label /\ calls'[g].data = calls[g].data
      /\ calls'[g].keys = calls[g].keys /\ calls'[g].value = value
  BY <1>1 DEF Only, Shape, AreCalls, IsCall, CallFields
<1>8. \A w \in Wrappers :
        /\ Keeps(w, opts')
        /\ opts'[w].used = IF w = calls[g].w THEN TRUE ELSE opts[w].used
  BY <1>2 DEF Shape, AreWrappers, IsWrapper, WrapperFields, Keeps
<1> QED
  BY <1>5, <1>6, <1>7, <1>8

(* The error it leaves.                                                    *)
LEMMA ReturnError ==
  ASSUME Shape, NEW g \in Goroutines, NEW value, NEW err, Return(g, value, err)
  PROVE  calls'[g].err = Reported(calls[g], err)
<1> DEFINE error == Reported(calls[g], err)
<1>1. calls' = [calls EXCEPT ![g].pc = "returned", ![g].late = FALSE, ![g].program = None,
                             ![g].value = value, ![g].err = error]
  BY DEF Return, Reported
<1> HIDE DEF error
<1>2. calls'[g].err = error
  BY <1>1 DEF Shape, AreCalls, IsCall, CallFields
<1> QED
  BY <1>2 DEF error

(* What Store does to the wrapper.                                         *)
LEMMA StoreStep ==
  ASSUME Shape, NEW g \in Goroutines, NEW word, Store(g, word)
  PROVE  /\ AreWrappers(opts') /\ Cached(opts')
         /\ \A v \in Wrappers : v # calls[g].w => opts'[v] = opts[v]
         /\ calls[g].w \in Wrappers =>
              LET w == calls[g].w IN
              /\ opts'[w].built = opts[w].built /\ opts'[w].used = opts[w].used
              /\ opts'[w].functions = opts[w].functions
              /\ opts'[w].cached = opts[w].cached /\ opts'[w].scope = opts[w].scope
              /\ opts'[w].engine = IF word = "engine" THEN calls[g].engine ELSE opts[w].engine
              /\ opts'[w].data = IF word = "data" THEN calls[g].data ELSE opts[w].data
<1> DEFINE w == calls[g].w
           engine == IF word = "engine" THEN calls[g].engine ELSE opts[w].engine
           data   == IF word = "data" THEN calls[g].data ELSE opts[w].data
<1>1. opts' = [opts EXCEPT ![w].engine = engine, ![w].data = data]
  BY DEF Store, Shape, AreWrappers, IsWrapper, WrapperFields
<1> HIDE DEF w, engine, data
<1>2. AreWrappers(opts')
  BY <1>1 DEF Shape, AreWrappers, IsWrapper, WrapperFields
<1>3. Cached(opts')
  BY <1>1 DEF Shape, AreWrappers, IsWrapper, WrapperFields, Cached
<1>4. \A v \in Wrappers : v # w => opts'[v] = opts[v]
  BY <1>1 DEF Shape, AreWrappers
<1>5. ASSUME w \in Wrappers
      PROVE  /\ opts'[w].built = opts[w].built /\ opts'[w].used = opts[w].used
             /\ opts'[w].functions = opts[w].functions
             /\ opts'[w].cached = opts[w].cached /\ opts'[w].scope = opts[w].scope
             /\ opts'[w].engine = engine /\ opts'[w].data = data
  BY <1>1, <1>5 DEF Shape, AreWrappers, IsWrapper, WrapperFields
<1> QED
  BY <1>2, <1>3, <1>4, <1>5 DEF w, engine, data

LEMMA ShapeStep == ASSUME Shape, [Next]_vars PROVE Shape'
<1> USE DEF Shape, AreWrappers, AreCalls, Cached
<1>1. CASE UNCHANGED vars
  BY <1>1 DEF vars, IsWrapper, WrapperFields, IsCall, CallFields
<1>2. ASSUME NEW r \in Registrations, Register(r.name, r.fn) PROVE Shape'
  BY <1>2 DEF Register, IsWrapper, WrapperFields, IsCall, CallFields
<1>3. ASSUME NEW w \in Wrappers, NEW config \in Configs, New(w, config) PROVE Shape'
  <2>1. config.cached \in BOOLEAN
    BY EvaluatorsAssumption
  <2> QED BY <1>3, <2>1 DEF New, IsWrapper, WrapperFields, IsCall, CallFields
<1>4. ASSUME NEW v \in Wrappers, NEW w \in Wrappers, Clone(v, w) PROVE Shape'
  BY <1>4 DEF Clone, IsWrapper, WrapperFields, IsCall, CallFields
<1>5. ASSUME NEW g \in Goroutines, Evaluate(g) PROVE Shape'
  <2>1. ASSUME NEW w \in Wrappers, NEW request \in Requests, Begin(g, w, request) PROVE Shape'
    BY <2>1 DEF Begin, NoCall, IsWrapper, WrapperFields, IsCall, CallFields
  <2>2. CASE Resolve(g)
    BY <2>2 DEF Resolve, IsWrapper, WrapperFields, IsCall, CallFields
  <2>3. CASE ResolveTorn(g)
    BY <2>3 DEF ResolveTorn, IsWrapper, WrapperFields, IsCall, CallFields
  <2>4. CASE MakeDefault(g)
    <3> DEFINE cell == opts[calls[g].w].functions
               data == [registry |-> IF cell = None THEN None ELSE Evaluating(calls[g].w),
                        cached   |-> opts[calls[g].w].cached]
               c    == [calls[g] EXCEPT !.pc = "store", !.words = {"engine", "data"},
                                        !.engine = "expr", !.data = data]
    <3>1. calls' = [calls EXCEPT ![g] = c]
      BY <2>4 DEF MakeDefault
    <3>2. IsCall(calls[g])
      OBVIOUS
    <3>3. IsCall(c)
      <4> HIDE DEF data
      <4> QED
        BY <3>2 DEF IsCall, CallFields
    <3> HIDE DEF c
    <3>4. AreCalls(calls')
      BY <3>1, <3>3, CallReplaced
    <3>5. opts' = opts /\ DOMAIN registries' = Cells
      BY <2>4 DEF MakeDefault
    <3> QED
      BY <3>4, <3>5
  <2>5. ASSUME NEW word \in {"engine", "data"}, Store(g, word) PROVE Shape'
    <3>1. AreWrappers(opts') /\ Cached(opts')
      BY <2>5, StoreStep
    <3>2. registries' = registries /\ AreCalls(calls')
      BY <2>5 DEF Store, IsCall, CallFields
    <3> QED
      BY <3>1, <3>2
  <2>6. CASE Hit(g)
    BY <2>6 DEF Hit, IsWrapper, WrapperFields, IsCall, CallFields
  <2>7. CASE Miss(g)
    BY <2>7 DEF Miss, IsWrapper, WrapperFields, IsCall, CallFields
  <2>8. CASE Compile(g)
    BY <2>8 DEF Compile, IsWrapper, WrapperFields, IsCall, CallFields
  <2>9. CASE CompileFails(g)
    BY <2>9, ReturnStep DEF CompileFails
  <2>10. CASE Execute(g)
    BY <2>10, ReturnStep DEF Execute
  <2> QED
    BY <1>5, <2>1, <2>2, <2>3, <2>4, <2>5, <2>6, <2>7, <2>8, <2>9, <2>10 DEF Evaluate
<1> QED
  BY <1>1, <1>2, <1>3, <1>4, <1>5 DEF Next

-----------------------------------------------------------------------------
(* Errors.  Only CompileFails and Execute make a goroutine return.         *)
LEMMA OnlyTwoReturn ==
  ASSUME Shape, [Next]_vars, NEW x \in Goroutines, calls'[x].pc = "returned"
  PROVE  calls'[x] = calls[x] \/ CompileFails(x) \/ Execute(x)
<1> USE DEF Shape, AreCalls, IsCall, CallFields
<1>1. CASE UNCHANGED vars
  BY <1>1 DEF vars
<1>2. ASSUME NEW r \in Registrations, Register(r.name, r.fn) PROVE calls' = calls
  BY <1>2 DEF Register
<1>3. ASSUME NEW w \in Wrappers, NEW config \in Configs, New(w, config) PROVE calls' = calls
  BY <1>3 DEF New
<1>4. ASSUME NEW v \in Wrappers, NEW w \in Wrappers, Clone(v, w) PROVE calls' = calls
  BY <1>4 DEF Clone
<1>5. ASSUME NEW g \in Goroutines, Evaluate(g)
      PROVE  calls'[x] = calls[x] \/ CompileFails(x) \/ Execute(x)
  <2>1. ASSUME NEW w \in Wrappers, NEW request \in Requests, Begin(g, w, request)
        PROVE  calls'[x] = calls[x]
    <3>1. calls'[g].pc = "resolve"
      BY <2>1 DEF Begin, NoCall
    <3> QED
      BY <2>1, <3>1 DEF Begin
  <2>2. CASE Resolve(g) \/ ResolveTorn(g) \/ MakeDefault(g)
    BY <2>2 DEF Resolve, ResolveTorn, MakeDefault
  <2>3. CASE \E word \in {"engine", "data"} : Store(g, word)
    BY <2>3 DEF Store
  <2>4. CASE Hit(g) \/ Miss(g) \/ Compile(g)
    BY <2>4 DEF Hit, Miss, Compile
  <2>5. CASE CompileFails(g)
    <3>1. \E value, err : Return(g, value, err)
      BY <2>5 DEF CompileFails
    <3>2. Only(g, calls')
      BY <3>1, ReturnStep
    <3> QED
      BY <2>5, <3>2 DEF Only
  <2>6. CASE Execute(g)
    <3>1. \E value, err : Return(g, value, err)
      BY <2>6 DEF Execute
    <3>2. Only(g, calls')
      BY <3>1, ReturnStep
    <3> QED
      BY <2>6, <3>2 DEF Only
  <2> QED
    BY <1>5, <2>1, <2>2, <2>3, <2>4, <2>5, <2>6 DEF Evaluate
<1> QED
  BY <1>1, <1>2, <1>3, <1>4, <1>5 DEF Next

(* An adapter sees no error, an error without a description, or the        *)
(* complete one of a nested evaluation.                                    *)
LEMMA RunErrors ==
  ASSUME NEW program, NEW cell, NEW keys, NEW expr
  PROVE  Run(program, cell, keys, expr).err \in {None, Plain, Nested}
<1> DEFINE callee == IF expr.form = "key" THEN None
                     ELSE Lookup(Callee(program, cell, expr), expr)
<1>1. \A v : Answer(v).err = None /\ \A e : Fails(e).err = e
  BY DEF Answer, Fails
<1>2. MissingKey(program.engine).err \in {None, Plain}
  BY <1>1 DEF MissingKey
<1>3. Failure(program.engine, callee).err \in {Plain, Nested}
  BY <1>1 DEF Failure
<1> HIDE DEF callee
<1>4. Run(program, cell, keys, expr) \in
        {Answer(expr.name), MissingKey(program.engine), Fails(Plain),
         Failure(program.engine, callee), Answer(callee)}
  BY DEF Run, callee
<1> QED
  BY <1>1, <1>2, <1>3, <1>4

(* Filling in twice gives one description: that of the evaluation if the   *)
(* error had none, and what it had if it was complete.                     *)
LEMMA FilledTwice ==
  ASSUME NEW engine, NEW expr, NEW label
  PROVE  /\ FillIn(FillIn(Plain, engine, expr, None), None, expr, label)
              = [engine |-> engine, expr |-> expr, scope |-> label]
         /\ FillIn(FillIn(Plain, engine, expr, label), None, expr, label)
              = [engine |-> engine, expr |-> expr, scope |-> label]
         /\ FillIn(FillIn(Nested, engine, expr, label), None, expr, label) = Nested
<1>1. None # "nested" /\ None # Nested.expr
  BY EvaluatorsAssumption DEF Errors, Engines, Labels, Nested
<1>2. FillIn(Nested, engine, expr, label) = Nested /\ FillIn(Nested, None, expr, label) = Nested
  BY <1>1 DEF FillIn, Nested
<1> QED
  BY <1>2 DEF FillIn, Plain

LEMMA ErrorStep ==
  ASSUME Shape, ErrorDescribesEvaluation, [Next]_vars PROVE ErrorDescribesEvaluation'
<1> DEFINE described(c) ==
      c.pc = "returned" /\ c.err # None =>
        c.err \in {Nested, [engine |-> c.engine, expr |-> c.expr, scope |-> c.label]}
<1> SUFFICES ASSUME NEW x \in Goroutines, calls'[x].pc = "returned"
             PROVE  described(calls'[x])
  BY DEF ErrorDescribesEvaluation
<1>1. described(calls[x])
  BY DEF ErrorDescribesEvaluation
<1>2. CASE CompileFails(x)
  <2> DEFINE err == FillIn(Plain, calls[x].engine, calls[x].expr, None)
  <2>1. Return(x, None, err)
    BY <1>2 DEF CompileFails
  <2> HIDE DEF err
  <2>2. calls'[x].err = Reported(calls[x], err)
    BY <2>1, ReturnError
  <2>3. calls'[x].engine = calls[x].engine /\ calls'[x].expr = calls[x].expr
        /\ calls'[x].label = calls[x].label
    BY <2>1, ReturnStep
  <2>4. FillIn(err, None, calls[x].expr, calls[x].label)
          = [engine |-> calls[x].engine, expr |-> calls[x].expr, scope |-> calls[x].label]
    BY FilledTwice DEF err
  <2> QED
    BY <2>2, <2>3, <2>4 DEF Reported
<1>3. CASE Execute(x)
  <2> DEFINE result == Run(calls[x].program, calls[x].data.registry, calls[x].keys, calls[x].expr)
             err    == IF result.err = None THEN None
                       ELSE FillIn(result.err, calls[x].engine, calls[x].expr, calls[x].label)
  <2>1. Return(x, result.value, err)
    BY <1>3 DEF Execute
  <2>2. result.err \in {None, Plain, Nested}
    BY RunErrors
  <2> HIDE DEF result, err
  <2>3. calls'[x].err = Reported(calls[x], err)
    BY <2>1, ReturnError
  <2>4. calls'[x].engine = calls[x].engine /\ calls'[x].expr = calls[x].expr
        /\ calls'[x].label = calls[x].label
    BY <2>1, ReturnStep
  <2> DEFINE this == [engine |-> calls[x].engine, expr |-> calls[x].expr,
                      scope |-> calls[x].label]
  <2>5. err = None \/ FillIn(err, None, calls[x].expr, calls[x].label) \in {Nested, this}
    <3>1. FillIn(FillIn(Plain, calls[x].engine, calls[x].expr, calls[x].label),
                 None, calls[x].expr, calls[x].label) = this
      BY FilledTwice
    <3>2. FillIn(FillIn(Nested, calls[x].engine, calls[x].expr, calls[x].label),
                 None, calls[x].expr, calls[x].label) = Nested
      BY FilledTwice
    <3> HIDE DEF this
    <3> QED
      BY <2>2, <3>1, <3>2 DEF err
  <2> QED
    BY <2>3, <2>4, <2>5 DEF Reported
<1> QED
  BY <1>1, <1>2, <1>3, OnlyTwoReturn

(* An error Evaluate returns describes one evaluation completely: this     *)
(* one, or the nested one whose error a function passed on.                *)
THEOREM ErrorsDescribe == Spec => []ErrorDescribesEvaluation
<1>1. Init => ErrorDescribesEvaluation
  BY DEF Init, NoCall, ErrorDescribesEvaluation
<1> QED
  BY <1>1, ShapeHolds, ShapeStep, ErrorStep, PTL DEF Spec

-----------------------------------------------------------------------------
(* Torn evaluators.                                                        *)
Whole(w) == opts[w].engine # None /\ opts[w].data # None

Evaluator == {"lookup", "compile", "run"}   \* where a goroutine has its evaluator
Busy      == {"resolve", "store"} \cup Evaluator

(* A wrapper that is used is whole, a goroutine that has an evaluator has  *)
(* found or left a whole one, and a late goroutine is in a used wrapper.   *)
UsedIsWhole == \A w \in Wrappers : opts[w].used => opts[w].built /\ Whole(w)

Stored(c) ==
  /\ c.words \subseteq {"engine", "data"}
  /\ c.engine # None /\ c.data # None
  /\ "engine" \notin c.words => opts[c.w].engine # None
  /\ "data" \notin c.words => opts[c.w].data # None

CallInv(c) ==
  /\ c.pc \in Busy => /\ c.w \in Wrappers /\ opts[c.w].built
                      /\ c.late => opts[c.w].used
  /\ c.pc = "store" => Stored(c)
  /\ c.pc \in Evaluator => Whole(c.w)
  /\ ~(c.pc = "panicked" /\ c.late)

TornInv == UsedIsWhole /\ \A g \in Goroutines : CallInv(calls[g])

(* What a wrapper has gained it keeps.                                     *)
Gains(w, next) ==
  /\ next[w].built
  /\ opts[w].used => next[w].used
  /\ opts[w].engine # None => next[w].engine # None
  /\ opts[w].data # None => next[w].data # None

(* A step that leaves the calls alone.                                     *)
LEMMA CallsKeep ==
  ASSUME TornInv, calls' = calls,
         \A w \in Wrappers : opts[w].built => Gains(w, opts'), UsedIsWhole'
  PROVE  TornInv'
<1> SUFFICES ASSUME NEW g \in Goroutines PROVE CallInv(calls[g])'
  BY DEF TornInv
<1>1. CallInv(calls[g])
  BY DEF TornInv
<1> QED
  BY <1>1 DEF CallInv, Gains, Stored, Whole, Busy, Evaluator

(* A step of one goroutine.                                                *)
LEMMA OthersKeep ==
  ASSUME TornInv, NEW g \in Goroutines, Only(g, calls'),
         \A w \in Wrappers : opts[w].built => Gains(w, opts'), UsedIsWhole',
         CallInv(calls[g])'
  PROVE  TornInv'
<1> SUFFICES ASSUME NEW x \in Goroutines, x # g PROVE CallInv(calls[x])'
  BY DEF TornInv
<1>1. CallInv(calls[x]) /\ calls'[x] = calls[x]
  BY DEF TornInv, Only
<1> QED
  BY <1>1 DEF CallInv, Gains, Stored, Whole, Busy, Evaluator

LEMMA TornStep == ASSUME Shape, TornInv, [Next]_vars PROVE TornInv'
<1>0. Shape'
  BY ShapeStep
<1>a. UsedIsWhole /\ \A g \in Goroutines : CallInv(calls[g])
  BY DEF TornInv
<1>b. ASSUME opts' = opts
      PROVE  UsedIsWhole' /\ \A w \in Wrappers : opts[w].built => Gains(w, opts')
  BY <1>a, <1>b DEF UsedIsWhole, Whole, Gains
<1>1. CASE UNCHANGED vars
  BY <1>1, <1>b, CallsKeep DEF vars
<1>2. ASSUME NEW r \in Registrations, Register(r.name, r.fn) PROVE TornInv'
  BY <1>2, <1>b, CallsKeep DEF Register
<1>3. ASSUME NEW w \in Wrappers, NEW config \in Configs, New(w, config) PROVE TornInv'
  <2>1. ~opts[w].built /\ calls' = calls
    BY <1>3 DEF New
  <2>2. \A v \in Wrappers : v # w => opts'[v] = opts[v]
    BY <1>3 DEF New, Shape, AreWrappers
  <2>3. opts'[w].used = FALSE
    BY <1>3 DEF New, Shape, AreWrappers
  <2>4. UsedIsWhole'
    BY <1>a, <2>2, <2>3 DEF UsedIsWhole, Whole
  <2>5. \A v \in Wrappers : opts[v].built => Gains(v, opts')
    BY <2>1, <2>2 DEF Gains
  <2> QED
    BY <2>1, <2>4, <2>5, CallsKeep
<1>4. ASSUME NEW v \in Wrappers, NEW w \in Wrappers, Clone(v, w) PROVE TornInv'
  <2>1. ~opts[v].built /\ opts[w].built /\ calls' = calls
    BY <1>4 DEF Clone
  <2>2. \A u \in Wrappers : opts'[u] = IF u = v THEN opts[w] ELSE opts[u]
    BY <1>4 DEF Clone, Shape, AreWrappers
  <2>3. UsedIsWhole'
    BY <1>a, <2>2 DEF UsedIsWhole, Whole
  <2>4. \A u \in Wrappers : opts[u].built => Gains(u, opts')
    BY <2>1, <2>2 DEF Gains
  <2> QED
    BY <2>1, <2>3, <2>4, CallsKeep
<1>5. ASSUME NEW g \in Goroutines, Evaluate(g) PROVE TornInv'
  <2>a. CallInv(calls[g])
    BY <1>a
  <2>b. ASSUME opts' = opts, Only(g, calls'), CallInv(calls[g])' PROVE TornInv'
    BY <2>b, <1>b, OthersKeep
  <2>1. ASSUME NEW w \in Wrappers, NEW request \in Requests, Begin(g, w, request) PROVE TornInv'
    <3>1. /\ opts[w].built /\ opts' = opts /\ Only(g, calls')
          /\ calls'[g].pc = "resolve" /\ calls'[g].w = w /\ calls'[g].late = opts[w].used
      BY <2>1 DEF Begin, Only, NoCall, Shape, AreCalls
    <3>2. CallInv(calls[g])'
      BY <3>1 DEF CallInv, Busy, Evaluator
    <3> QED
      BY <3>1, <3>2, <2>b
  <2>2. CASE Resolve(g)
    <3>1. /\ calls[g].pc = "resolve" /\ Whole(calls[g].w) /\ opts' = opts /\ Only(g, calls')
          /\ calls'[g].pc = "lookup" /\ calls'[g].w = calls[g].w
          /\ calls'[g].late = calls[g].late
      BY <2>2 DEF Resolve, Only, Whole, Shape, AreCalls, IsCall, CallFields
    <3>2. CallInv(calls[g])'
      BY <3>1, <2>a DEF CallInv, Busy, Evaluator, Whole
    <3> QED
      BY <3>1, <3>2, <2>b
  <2>3. CASE ResolveTorn(g)
    <3>1. /\ calls[g].pc = "resolve" /\ ~Whole(calls[g].w) /\ opts' = opts /\ Only(g, calls')
          /\ calls'[g].pc = "panicked" /\ calls'[g].late = calls[g].late
      BY <2>3 DEF ResolveTorn, Only, Whole, Shape, AreCalls, IsCall, CallFields
    <3>2. ~calls[g].late
      BY <3>1, <2>a, <1>a DEF CallInv, Busy, UsedIsWhole
    <3>3. CallInv(calls[g])'
      BY <3>1, <3>2 DEF CallInv, Busy, Evaluator
    <3> QED
      BY <3>1, <3>3, <2>b
  <2>4. CASE MakeDefault(g)
    <3>1. /\ calls[g].pc = "resolve" /\ opts' = opts /\ Only(g, calls')
          /\ calls'[g].pc = "store" /\ calls'[g].w = calls[g].w
          /\ calls'[g].late = calls[g].late /\ calls'[g].words = {"engine", "data"}
          /\ calls'[g].engine = "expr"
          /\ calls'[g].data = [registry |-> IF opts[calls[g].w].functions = None THEN None
                                            ELSE Evaluating(calls[g].w),
                               cached   |-> opts[calls[g].w].cached]
      BY <2>4 DEF MakeDefault, Only, Shape, AreCalls, IsCall, CallFields
    <3>2. calls[g].w \in Wrappers
      BY <3>1, <2>a DEF CallInv, Busy
    <3>3. calls'[g].data \in Data
      BY <3>1, <3>2 DEF Data, Cells, Shape, Cached
    <3>4. calls'[g].data # None /\ calls'[g].engine # None
      BY <3>1, <3>3, EvaluatorsAssumption
    <3>5. CallInv(calls[g])'
      BY <3>1, <3>4, <2>a DEF CallInv, Stored, Busy, Evaluator
    <3> QED
      BY <3>1, <3>5, <2>b
  <2>5. ASSUME NEW word \in {"engine", "data"}, Store(g, word) PROVE TornInv'
    <3> DEFINE w == calls[g].w
    <3>1. /\ calls[g].pc = "store" /\ Only(g, calls')
          /\ calls'[g].pc = IF calls[g].words = {word} THEN "lookup" ELSE "store"
          /\ calls'[g].w = w /\ calls'[g].late = calls[g].late
          /\ calls'[g].words = calls[g].words \ {word}
          /\ calls'[g].engine = calls[g].engine /\ calls'[g].data = calls[g].data
      BY <2>5 DEF Store, Only, Shape, AreCalls, IsCall, CallFields
    <3>2. w \in Wrappers /\ opts[w].built /\ Stored(calls[g])
      BY <3>1, <2>a DEF CallInv, Busy
    <3>3. /\ \A v \in Wrappers : v # w => opts'[v] = opts[v]
          /\ opts'[w].built = opts[w].built /\ opts'[w].used = opts[w].used
          /\ opts'[w].engine = IF word = "engine" THEN calls[g].engine ELSE opts[w].engine
          /\ opts'[w].data = IF word = "data" THEN calls[g].data ELSE opts[w].data
      BY <2>5, <3>2, StoreStep
    <3> HIDE DEF w
    <3>4. \A v \in Wrappers : opts[v].built => Gains(v, opts')
      BY <3>2, <3>3 DEF Gains, Stored
    <3>5. UsedIsWhole'
      BY <3>2, <3>3, <1>a DEF UsedIsWhole, Whole, Stored
    <3>6. Stored(calls[g])'
      BY <3>1, <3>2, <3>3 DEF Stored, w
    <3>7. CASE calls[g].words = {word}
      <4>1. calls'[g].words = {}
        BY <3>1, <3>7
      <4>2. Whole(calls[g].w)'
        BY <3>6, <4>1 DEF Stored, Whole
      <4>3. CallInv(calls[g])'
        BY <3>1, <3>2, <3>3, <3>7, <4>2, <2>a DEF CallInv, Busy, Evaluator, w
      <4> QED
        BY <3>1, <3>4, <3>5, <4>3, OthersKeep
    <3>8. CASE calls[g].words # {word}
      <4>1. CallInv(calls[g])'
        BY <3>1, <3>2, <3>3, <3>6, <3>8, <2>a DEF CallInv, Busy, Evaluator, w
      <4> QED
        BY <3>1, <3>4, <3>5, <4>1, OthersKeep
    <3> QED
      BY <3>7, <3>8
  <2>6. CASE Hit(g) \/ Miss(g) \/ Compile(g)
    <3>1. /\ calls[g].pc \in Evaluator /\ opts' = opts /\ Only(g, calls')
          /\ calls'[g].pc \in {"run", "compile"} /\ calls'[g].w = calls[g].w
          /\ calls'[g].late = calls[g].late
      BY <2>6 DEF Hit, Miss, Compile, Only, Evaluator, Shape, AreCalls, IsCall, CallFields
    <3>2. CallInv(calls[g])'
      BY <3>1, <2>a DEF CallInv, Busy, Evaluator, Whole
    <3> QED
      BY <3>1, <3>2, <2>b
  <2>7. ASSUME NEW value, NEW err, calls[g].pc \in Evaluator, Return(g, value, err)
        PROVE  TornInv'
    <3>1. calls'[g].pc = "returned" /\ Only(g, calls')
      BY <2>7, ReturnStep
    <3>6. \A w \in Wrappers :
            /\ Keeps(w, opts')
            /\ opts'[w].used = IF w = calls[g].w THEN TRUE ELSE opts[w].used
      BY <2>7, ReturnStep
    <3>2. Whole(calls[g].w) /\ opts[calls[g].w].built
      BY <2>7, <2>a DEF CallInv, Busy
    <3>3. UsedIsWhole'
      BY <3>6, <3>2, <1>a DEF UsedIsWhole, Whole, Keeps
    <3>4. \A w \in Wrappers : opts[w].built => Gains(w, opts')
      BY <3>6 DEF Gains, Keeps
    <3>5. CallInv(calls[g])'
      BY <3>1 DEF CallInv, Busy, Evaluator
    <3> QED
      BY <3>1, <3>3, <3>4, <3>5, OthersKeep
  <2>8. CASE CompileFails(g)
    BY <2>8, <2>7 DEF CompileFails, Evaluator
  <2>9. CASE Execute(g)
    BY <2>9, <2>7 DEF Execute, Evaluator
  <2> QED
    BY <1>5, <2>1, <2>2, <2>3, <2>4, <2>5, <2>6, <2>8, <2>9 DEF Evaluate
<1> QED
  BY <1>1, <1>2, <1>3, <1>4, <1>5 DEF Next

(* Once an evaluation of a wrapper has returned, no later one panics on a  *)
(* half written evaluator.                                                 *)
THEOREM TornOnFirstUseOnly == Spec => []PanicsOnlyOnFirstUse
<1>1. Init => TornInv
  BY DEF Init, NoCall, NoWrapper, TornInv, UsedIsWhole, CallInv, Busy, Evaluator
<1>2. TornInv => PanicsOnlyOnFirstUse
  BY DEF TornInv, CallInv, PanicsOnlyOnFirstUse
<1> QED
  BY <1>1, <1>2, ShapeHolds, ShapeStep, TornStep, PTL DEF Spec

-----------------------------------------------------------------------------
(***************************************************************************)
(* The functions of a wrapper.  The registry it has is one of a wrapper    *)
(* that exists (a clone shares those of its original), and as long as its  *)
(* default evaluator may still be made, every registry made for that so    *)
(* far is a copy of the configured one.                                    *)
(***************************************************************************)
InConfig(cell) == cell = None \/ \E u \in Wrappers : opts[u].built /\ cell = Configured(u)
InEval(cell)   == cell = None \/ \E u \in Wrappers : opts[u].built /\ cell = Evaluating(u)

SameAs(functions, data) == data # None => FunctionsIn(data.registry) = FunctionsIn(functions)

Refers(v, w) == opts[v].built /\ opts[v].data # None /\ opts[v].data.registry = Evaluating(w)

RegistriesExist ==
  \A w \in Wrappers : opts[w].built =>
    /\ InConfig(opts[w].functions)
    /\ opts[w].data # None => InEval(opts[w].data.registry)

DefaultsAgree ==
  \A w \in Wrappers : opts[w].built /\ opts[w].engine = None =>
    /\ SameAs(opts[w].functions, opts[w].data)
    /\ \A v \in Wrappers : Refers(v, w) =>
         {registries[Evaluating(w)]} = FunctionsIn(opts[w].functions)

StoringAgree ==
  \A g \in Goroutines : calls[g].pc = "store" =>
    LET w == calls[g].w IN
    /\ w \in Wrappers /\ opts[w].built
    /\ calls[g].data.registry \in {None, Evaluating(w)}
    /\ SameAs(opts[w].functions, calls[g].data)
    /\ SameAs(opts[w].functions, opts[w].data)

RegistryInv == RegistriesExist /\ DefaultsAgree /\ StoringAgree

SameFunctions ==
  \A w \in Wrappers : opts[w].built => FunctionsIn(RegistryOf(w))' = FunctionsIn(RegistryOf(w))

LEMMA CellsApart ==
  \A u, v \in Wrappers :
    /\ Configured(u) # Evaluating(v) /\ Configured(u) # Shared /\ Evaluating(u) # Shared
    /\ Configured(u) = Configured(v) => u = v
    /\ Evaluating(u) = Evaluating(v) => u = v
    /\ Configured(u) \in Cells /\ Evaluating(u) \in Cells
    /\ Configured(u) # None /\ Evaluating(u) # None
<1>1. None \notin Cells
  BY EvaluatorsAssumption
<1>2. \A u \in Wrappers : Configured(u) \in Cells /\ Evaluating(u) \in Cells
  BY DEF Cells
<1> QED BY <1>1, <1>2 DEF Configured, Evaluating, Shared

Fn(regs, cell) == IF cell = None THEN {} ELSE {regs[cell]}

(* A registry that is referred to keeps what it holds if the cells of the  *)
(* wrappers that exist do.                                                 *)
LEMMA CellsKeep ==
  ASSUME RegistryInv, NEW w \in Wrappers, opts[w].built,
         \A u \in Wrappers : opts[u].built =>
           registries'[Configured(u)] = registries[Configured(u)],
         \A u \in Wrappers : opts[u].built /\ Refers(w, u) =>
           registries'[Evaluating(u)] = registries[Evaluating(u)]
  PROVE  /\ Fn(registries', opts[w].functions) = FunctionsIn(opts[w].functions)
         /\ opts[w].data # None =>
              Fn(registries', opts[w].data.registry) = FunctionsIn(opts[w].data.registry)
<1>1. InConfig(opts[w].functions) /\ (opts[w].data # None => InEval(opts[w].data.registry))
  BY DEF RegistryInv, RegistriesExist
<1> QED BY <1>1 DEF FunctionsIn, Fn, InConfig, InEval, Refers

LEMMA PrimedFunctions == \A cell : FunctionsIn(cell)' = Fn(registries', cell)
  BY DEF FunctionsIn, Fn

(* Most steps leave wrappers and registries alone, except for the one the  *)
(* program holds.                                                          *)
LEMMA NothingMoves ==
  ASSUME RegistryInv,
         \A u \in Wrappers : /\ registries'[Configured(u)] = registries[Configured(u)]
                             /\ registries'[Evaluating(u)] = registries[Evaluating(u)],
         \A w \in Wrappers :
           /\ opts'[w].built = opts[w].built /\ opts'[w].functions = opts[w].functions
           /\ opts'[w].engine = opts[w].engine /\ opts'[w].data = opts[w].data,
         \A g \in Goroutines : calls'[g].pc = "store" => calls'[g] = calls[g]
  PROVE  RegistryInv' /\ SameFunctions
<1> USE PrimedFunctions
<1>1. \A w \in Wrappers : opts[w].built =>
        /\ Fn(registries', opts[w].functions) = FunctionsIn(opts[w].functions)
        /\ opts[w].data # None =>
             Fn(registries', opts[w].data.registry) = FunctionsIn(opts[w].data.registry)
  BY CellsKeep
<1>2. RegistriesExist'
  BY DEF RegistryInv, RegistriesExist, InConfig, InEval
<1>3. DefaultsAgree'
  BY <1>1 DEF RegistryInv, DefaultsAgree, SameAs, Refers
<1>4. StoringAgree'
  <2> SUFFICES ASSUME NEW g \in Goroutines, calls'[g].pc = "store"
               PROVE  LET w == calls[g].w IN
                      /\ w \in Wrappers /\ opts[w].built
                      /\ calls[g].data.registry \in {None, Evaluating(w)}
                      /\ SameAs(opts[w].functions, calls[g].data)'
                      /\ SameAs(opts[w].functions, opts[w].data)'
    BY DEF StoringAgree
  <2> DEFINE w == calls[g].w
  <2>1. /\ w \in Wrappers /\ opts[w].built /\ calls'[g] = calls[g]
        /\ calls[g].data.registry \in {None, Evaluating(w)}
        /\ SameAs(opts[w].functions, calls[g].data)
        /\ SameAs(opts[w].functions, opts[w].data)
    BY DEF RegistryInv, StoringAgree
  <2>2. Fn(registries', calls[g].data.registry) = FunctionsIn(calls[g].data.registry)
    BY <2>1 DEF Fn, FunctionsIn
  <2> QED BY <1>1, <2>1, <2>2 DEF SameAs
<1>5. SameFunctions
  BY <1>1 DEF SameFunctions, RegistryOf
<1> QED BY <1>2, <1>3, <1>4, <1>5 DEF RegistryInv

LEMMA RegistryStep ==
  ASSUME Shape, TornInv, RegistryInv, [Next]_vars
  PROVE  RegistryInv' /\ SameFunctions
<1> DEFINE Goal == RegistryInv' /\ SameFunctions
<1> USE PrimedFunctions
<1>a. RegistriesExist /\ DefaultsAgree /\ StoringAgree
  BY DEF RegistryInv
<1>1. CASE UNCHANGED vars
  BY <1>1, NothingMoves DEF vars
<1>2. ASSUME NEW r \in Registrations, Register(r.name, r.fn) PROVE Goal
  <2>1. opts' = opts /\ calls' = calls
    BY <1>2 DEF Register
  <2>2. \A cell \in Cells : cell # Shared => registries'[cell] = registries[cell]
    BY <1>2 DEF Register, Shape
  <2> QED BY <2>1, <2>2, CellsApart, NothingMoves
<1>3. ASSUME NEW w \in Wrappers, NEW config \in Configs, New(w, config) PROVE Goal
  <2>1. ~opts[w].built /\ calls' = calls
    BY <1>3 DEF New
  <2>2. \A v \in Wrappers : v # w => opts'[v] = opts[v]
    BY <1>3 DEF New, Shape, AreWrappers
  <2>3. /\ opts'[w].built = TRUE /\ opts'[w].functions \in {None, Configured(w)}
        /\ opts'[w].data # None => opts'[w].data.registry \in {None, Evaluating(w)}
        /\ opts'[w].engine = None => opts'[w].data = None
    BY <1>3 DEF New, Shape, AreWrappers, ConfigFunctions
  <2>4. \A cell \in Cells : cell \notin {Configured(w), Evaluating(w)} =>
          registries'[cell] = registries[cell]
    BY <1>3 DEF New, Shape
  <2>5. \A u \in Wrappers : opts[u].built =>
          /\ registries'[Configured(u)] = registries[Configured(u)]
          /\ registries'[Evaluating(u)] = registries[Evaluating(u)]
    BY <2>1, <2>4, CellsApart
  <2>6. \A v \in Wrappers : opts[v].built =>
          /\ Fn(registries', opts[v].functions) = FunctionsIn(opts[v].functions)
          /\ opts[v].data # None =>
               Fn(registries', opts[v].data.registry) = FunctionsIn(opts[v].data.registry)
    BY <2>5, CellsKeep
  <2>7. RegistriesExist'
    BY <1>a, <2>1, <2>2, <2>3 DEF RegistriesExist, InConfig, InEval
  <2>8. \A v \in Wrappers : opts[v].built => ~Refers(v, w)
    BY <1>a, <2>1, CellsApart DEF RegistriesExist, InEval, Refers
  <2>9. DefaultsAgree'
    <3> SUFFICES ASSUME NEW v \in Wrappers, opts'[v].built, opts'[v].engine = None
                 PROVE  /\ SameAs(opts[v].functions, opts[v].data)'
                        /\ \A x \in Wrappers : Refers(x, v)' =>
                             {registries'[Evaluating(v)]} = Fn(registries', opts'[v].functions)
      BY DEF DefaultsAgree
    <3>1. CASE v = w
      <4>1. \A x \in Wrappers : ~Refers(x, v)'
        BY <2>2, <2>3, <2>8, <3>1 DEF Refers
      <4> QED BY <2>3, <3>1, <4>1 DEF SameAs
    <3>2. CASE v # w
      <4>1. opts'[v] = opts[v] /\ opts[v].built
        BY <2>2, <3>2
      <4>2. \A x \in Wrappers : Refers(x, v)' => Refers(x, v)
        BY <2>2, <2>3, <3>2, CellsApart DEF Refers
      <4>3. registries'[Evaluating(v)] = registries[Evaluating(v)]
        BY <2>5, <4>1
      <4> QED BY <1>a, <2>6, <4>1, <4>2, <4>3 DEF DefaultsAgree, SameAs
    <3> QED BY <3>1, <3>2
  <2>10. StoringAgree'
    <3> SUFFICES ASSUME NEW g \in Goroutines, calls[g].pc = "store"
                 PROVE  LET v == calls[g].w IN
                        /\ v \in Wrappers /\ opts'[v].built
                        /\ calls[g].data.registry \in {None, Evaluating(v)}
                        /\ SameAs(opts[v].functions, calls[g].data)'
                        /\ SameAs(opts[v].functions, opts[v].data)'
      BY <2>1 DEF StoringAgree
    <3> DEFINE v == calls[g].w
    <3>1. /\ v \in Wrappers /\ opts[v].built
          /\ calls[g].data.registry \in {None, Evaluating(v)}
          /\ SameAs(opts[v].functions, calls[g].data)
          /\ SameAs(opts[v].functions, opts[v].data)
      BY <1>a DEF StoringAgree
    <3>2. opts'[v] = opts[v] /\ calls'[g] = calls[g]
      BY <2>1, <2>2, <3>1
    <3>3. Fn(registries', calls[g].data.registry) = FunctionsIn(calls[g].data.registry)
      BY <2>5, <3>1 DEF Fn, FunctionsIn
    <3> QED BY <2>6, <3>1, <3>2, <3>3 DEF SameAs
  <2>11. SameFunctions
    BY <2>1, <2>2, <2>6 DEF SameFunctions, RegistryOf
  <2> QED BY <2>7, <2>9, <2>10, <2>11 DEF RegistryInv
<1>4. ASSUME NEW v \in Wrappers, NEW w \in Wrappers, Clone(v, w) PROVE Goal
  <2>1. ~opts[v].built /\ opts[w].built /\ calls' = calls /\ registries' = registries
    BY <1>4 DEF Clone
  <2>2. \A u \in Wrappers : opts'[u] = IF u = v THEN opts[w] ELSE opts[u]
    BY <1>4 DEF Clone, Shape, AreWrappers
  <2>3. RegistriesExist'
    BY <1>a, <2>1, <2>2 DEF RegistriesExist, InConfig, InEval
  <2>4. \A u \in Wrappers : ~Refers(u, v)'
    BY <1>a, <2>1, <2>2, CellsApart DEF RegistriesExist, InEval, Refers
  <2>5. \A x, u \in Wrappers : Refers(x, u)' => Refers(x, u) \/ Refers(w, u)
    BY <2>1, <2>2 DEF Refers
  <2>a. \A cell : FunctionsIn(cell)' = FunctionsIn(cell)
    BY <2>1 DEF FunctionsIn
  <2>b. \A functions, data : SameAs(functions, data)' <=> SameAs(functions, data)
    BY <2>a DEF SameAs
  <2>6. DefaultsAgree'
    <3> SUFFICES ASSUME NEW u \in Wrappers, opts'[u].built, opts'[u].engine = None
                 PROVE  /\ SameAs(opts'[u].functions, opts'[u].data)
                        /\ \A x \in Wrappers : Refers(x, u)' =>
                             {registries[Evaluating(u)]} = FunctionsIn(opts'[u].functions)
      BY <2>1, <2>a, <2>b DEF DefaultsAgree, SameAs
    <3>1. CASE u = v
      BY <1>a, <2>1, <2>2, <2>4, <3>1 DEF DefaultsAgree
    <3>2. CASE u # v
      BY <1>a, <2>1, <2>2, <2>5, <3>2 DEF DefaultsAgree
    <3> QED BY <3>1, <3>2
  <2>7. StoringAgree'
    BY <1>a, <2>1, <2>2, <2>b DEF StoringAgree, SameAs
  <2>8. SameFunctions
    BY <2>1, <2>2 DEF SameFunctions, RegistryOf, FunctionsIn
  <2> QED BY <2>3, <2>6, <2>7, <2>8 DEF RegistryInv
<1>5. ASSUME NEW g \in Goroutines, MakeDefault(g) PROVE Goal
  <2> DEFINE w == calls[g].w
             cell == opts[w].functions
  <2>1. /\ calls[g].pc = "resolve" /\ opts[w].engine = None /\ opts' = opts
        /\ registries' = IF cell = None THEN registries
                         ELSE [registries EXCEPT ![Evaluating(w)] = registries[cell]]
    BY <1>5 DEF MakeDefault
  <2>2. /\ Only(g, calls') /\ calls'[g].w = w
        /\ calls'[g].data.registry = IF cell = None THEN None ELSE Evaluating(w)
    BY <1>5 DEF MakeDefault, Only, Shape, AreCalls, IsCall, CallFields
  <2>3. w \in Wrappers /\ opts[w].built
    BY <2>1 DEF TornInv, CallInv, Busy
  <2> HIDE DEF w, cell
  <2>4. InConfig(cell)
    BY <1>a, <2>3 DEF RegistriesExist, cell
  <2>5. /\ \A u \in Wrappers : registries'[Configured(u)] = registries[Configured(u)]
        /\ \A u \in Wrappers : u # w => registries'[Evaluating(u)] = registries[Evaluating(u)]
        /\ registries'[Evaluating(w)] =
             IF cell = None THEN registries[Evaluating(w)] ELSE registries[cell]
    BY <2>1, <2>3, CellsApart DEF Shape
  <2>6. \A v \in Wrappers : Refers(v, w) => registries'[Evaluating(w)] = registries[Evaluating(w)]
    BY <1>a, <2>1, <2>3, <2>5 DEF DefaultsAgree, FunctionsIn, cell
  <2>7. \A v \in Wrappers : opts[v].built =>
          /\ Fn(registries', opts[v].functions) = FunctionsIn(opts[v].functions)
          /\ opts[v].data # None =>
               Fn(registries', opts[v].data.registry) = FunctionsIn(opts[v].data.registry)
    BY <2>5, <2>6, CellsKeep
  <2>8. RegistriesExist'
    BY <1>a, <2>1 DEF RegistriesExist, InConfig, InEval
  <2>9. DefaultsAgree'
    <3> SUFFICES ASSUME NEW u \in Wrappers, opts[u].built, opts[u].engine = None
                 PROVE  /\ SameAs(opts[u].functions, opts[u].data)'
                        /\ \A v \in Wrappers : Refers(v, u) =>
                             {registries'[Evaluating(u)]} = Fn(registries', opts[u].functions)
      BY <2>1 DEF DefaultsAgree, Refers
    <3>1. SameAs(opts[u].functions, opts[u].data)'
      BY <1>a, <2>1, <2>7 DEF DefaultsAgree, SameAs
    <3>2. ASSUME NEW v \in Wrappers, Refers(v, u)
          PROVE  registries'[Evaluating(u)] = registries[Evaluating(u)]
      BY <2>5, <2>6, <3>2
    <3> QED BY <1>a, <2>7, <3>1, <3>2 DEF DefaultsAgree
  <2>10. Fn(registries', calls'[g].data.registry) = FunctionsIn(cell)
    BY <2>2, <2>3, <2>5, CellsApart DEF Fn, FunctionsIn
  <2>11. Fn(registries', cell) = FunctionsIn(cell)
    BY <2>3, <2>7 DEF cell
  <2>12. StoringAgree'
    <3> SUFFICES ASSUME NEW x \in Goroutines, calls'[x].pc = "store"
                 PROVE  LET v == calls'[x].w IN
                        /\ v \in Wrappers /\ opts[v].built
                        /\ calls'[x].data.registry \in {None, Evaluating(v)}
                        /\ Fn(registries', calls'[x].data.registry)
                             = Fn(registries', opts[v].functions)
                        /\ opts[v].data # None =>
                             Fn(registries', opts[v].data.registry)
                               = Fn(registries', opts[v].functions)
      BY <2>1 DEF StoringAgree, SameAs
    <3>1. CASE x = g
      <4>1. opts[w].data # None => FunctionsIn(opts[w].data.registry) = FunctionsIn(cell)
        BY <1>a, <2>1, <2>3 DEF DefaultsAgree, SameAs, cell
      <4> QED BY <2>2, <2>3, <2>7, <2>10, <2>11, <3>1, <4>1 DEF cell
    <3>2. CASE x # g
      <4> DEFINE v == calls[x].w
      <4>1. calls'[x] = calls[x]
        BY <2>2, <3>2 DEF Only
      <4>2. /\ v \in Wrappers /\ opts[v].built
            /\ calls[x].data.registry \in {None, Evaluating(v)}
            /\ SameAs(opts[v].functions, calls[x].data)
            /\ SameAs(opts[v].functions, opts[v].data)
        BY <1>a, <4>1 DEF StoringAgree
      <4>3. CallInv(calls[x]) /\ calls[x].pc = "store"
        BY <4>1 DEF TornInv
      <4>4. calls[x].data # None
        BY <4>3 DEF CallInv, Stored
      <4>5. Fn(registries', calls[x].data.registry) = FunctionsIn(opts[v].functions)
        <5>1. CASE v = w
          BY <2>5, <4>2, <4>4, <5>1 DEF Fn, FunctionsIn, SameAs, cell
        <5>2. CASE v # w
          BY <2>5, <4>2, <4>4, <5>2 DEF Fn, FunctionsIn, SameAs
        <5> QED BY <5>1, <5>2
      <4> QED BY <2>7, <4>1, <4>2, <4>5 DEF SameAs
    <3> QED BY <3>1, <3>2
  <2>13. SameFunctions
    BY <2>1, <2>7 DEF SameFunctions, RegistryOf
  <2> QED BY <2>8, <2>9, <2>12, <2>13 DEF RegistryInv
<1>6. ASSUME NEW g \in Goroutines, NEW word \in {"engine", "data"}, Store(g, word) PROVE Goal
  <2> DEFINE w == calls[g].w
  <2>1. /\ calls[g].pc = "store" /\ registries' = registries /\ Only(g, calls')
        /\ calls'[g].w = w /\ calls'[g].data = calls[g].data
    BY <1>6 DEF Store, Only, Shape, AreCalls, IsCall, CallFields
  <2>2. /\ w \in Wrappers /\ opts[w].built
        /\ calls[g].data.registry \in {None, Evaluating(w)}
        /\ SameAs(opts[w].functions, calls[g].data)
        /\ SameAs(opts[w].functions, opts[w].data)
    BY <1>a, <2>1 DEF StoringAgree
  <2>3. /\ \A v \in Wrappers : v # w => opts'[v] = opts[v]
        /\ opts'[w].built = opts[w].built
        /\ opts'[w].functions = opts[w].functions
        /\ opts'[w].engine = IF word = "engine" THEN calls[g].engine ELSE opts[w].engine
        /\ opts'[w].data = IF word = "data" THEN calls[g].data ELSE opts[w].data
    BY <1>6, <2>2, StoreStep
  <2> HIDE DEF w
  <2>4. CallInv(calls[g])
    BY DEF TornInv
  <2>5. calls[g].engine # None /\ calls[g].data # None
    BY <2>1, <2>4 DEF CallInv, Stored
  <2>6. RegistriesExist'
    <3>1. \A v \in Wrappers :
            /\ opts'[v].built = opts[v].built /\ opts'[v].functions = opts[v].functions
            /\ opts'[v].data = opts[v].data
               \/ (v = w /\ opts'[v].data.registry \in {None, Evaluating(w)})
      BY <2>2, <2>3
    <3>2. \A cell : (InConfig(cell) => InConfig(cell)') /\ (InEval(cell) => InEval(cell)')
      BY <3>1 DEF InConfig, InEval
    <3>3. InEval(None) /\ InEval(Evaluating(w))
      BY <2>2 DEF InEval
    <3> QED BY <1>a, <3>1, <3>2, <3>3 DEF RegistriesExist
  <2>7. opts'[w].data # None =>
          FunctionsIn(opts'[w].data.registry) = FunctionsIn(opts[w].functions)
    BY <2>2, <2>3, <2>5 DEF SameAs
  <2>8. DefaultsAgree'
    <3> SUFFICES ASSUME NEW u \in Wrappers, opts'[u].built, opts'[u].engine = None
                 PROVE  /\ SameAs(opts'[u].functions, opts'[u].data)
                        /\ \A v \in Wrappers : Refers(v, u)' =>
                             {registries[Evaluating(u)]} = FunctionsIn(opts'[u].functions)
      BY <2>1 DEF DefaultsAgree, SameAs, FunctionsIn
    <3>1. opts[u].built /\ opts[u].engine = None /\ opts'[u].functions = opts[u].functions
      BY <2>3, <2>5
    <3>2. SameAs(opts'[u].functions, opts'[u].data)
      BY <1>a, <2>3, <2>7, <3>1 DEF DefaultsAgree, SameAs
    <3>3. ASSUME NEW v \in Wrappers, Refers(v, u)'
          PROVE  {registries[Evaluating(u)]} = FunctionsIn(opts'[u].functions)
      <4>1. CASE Refers(v, u)
        BY <1>a, <3>1, <4>1 DEF DefaultsAgree
      <4>2. CASE ~Refers(v, u)
        <5>1. v = w /\ opts'[w].data = calls[g].data
          BY <2>3, <3>3, <4>2 DEF Refers
        <5>2. u = w /\ calls[g].data.registry = Evaluating(w)
          BY <2>2, <3>3, <5>1, CellsApart DEF Refers
        <5> QED BY <2>2, <2>5, <3>1, <5>2, CellsApart DEF SameAs, FunctionsIn
      <4> QED BY <4>1, <4>2
    <3> QED BY <3>2, <3>3
  <2>9. StoringAgree'
    <3> SUFFICES ASSUME NEW x \in Goroutines, calls'[x].pc = "store"
                 PROVE  LET v == calls'[x].w IN
                        /\ v \in Wrappers /\ opts'[v].built
                        /\ calls'[x].data.registry \in {None, Evaluating(v)}
                        /\ SameAs(opts'[v].functions, calls'[x].data)
                        /\ SameAs(opts'[v].functions, opts'[v].data)
      BY <2>1 DEF StoringAgree, SameAs, FunctionsIn
    <3>1. CASE x = g
      BY <2>1, <2>2, <2>3, <2>7, <3>1 DEF SameAs
    <3>2. CASE x # g
      <4>1. calls'[x] = calls[x]
        BY <2>1, <3>2 DEF Only
      <4>2. LET v == calls[x].w IN
              /\ v \in Wrappers /\ opts[v].built
              /\ calls[x].data.registry \in {None, Evaluating(v)}
              /\ SameAs(opts[v].functions, calls[x].data)
              /\ SameAs(opts[v].functions, opts[v].data)
        BY <1>a, <4>1 DEF StoringAgree
      <4> QED BY <2>3, <2>7, <4>1, <4>2 DEF SameAs
    <3> QED BY <3>1, <3>2
  <2>10. SameFunctions
    <3> SUFFICES ASSUME NEW v \in Wrappers, opts[v].built
                 PROVE  FunctionsIn(RegistryOf(v)') = FunctionsIn(RegistryOf(v))
      BY <2>1 DEF SameFunctions, FunctionsIn
    <3>1. CASE v # w
      BY <2>3, <3>1 DEF RegistryOf
    <3>2. CASE v = w
      BY <2>2, <2>3, <2>7, <3>2 DEF RegistryOf, SameAs
    <3> QED BY <3>1, <3>2
  <2> QED BY <2>6, <2>8, <2>9, <2>10 DEF RegistryInv
<1>7. ASSUME NEW g \in Goroutines, registries' = registries, opts' = opts, Only(g, calls'),
             calls'[g].pc # "store"
      PROVE  Goal
  BY <1>7, NothingMoves DEF Only
<1>8. ASSUME NEW g \in Goroutines, NEW value, NEW err, Return(g, value, err) PROVE Goal
  <2>1. /\ registries' = registries /\ Only(g, calls') /\ calls'[g].pc = "returned"
        /\ \A w \in Wrappers : Keeps(w, opts')
    BY <1>8, ReturnStep
  <2>2. \A x \in Goroutines : calls'[x].pc = "store" => calls'[x] = calls[x]
    BY <2>1 DEF Only
  <2> QED BY <2>1, <2>2, NothingMoves DEF Keeps
<1>9. ASSUME NEW g \in Goroutines, Evaluate(g) PROVE Goal
  <2>1. ASSUME NEW w \in Wrappers, NEW request \in Requests, Begin(g, w, request) PROVE Goal
    <3>1. registries' = registries /\ opts' = opts /\ Only(g, calls') /\ calls'[g].pc = "resolve"
      BY <2>1 DEF Begin, Only, NoCall, Shape, AreCalls
    <3> QED BY <3>1, <1>7
  <2>2. CASE Resolve(g) \/ ResolveTorn(g) \/ Hit(g) \/ Miss(g) \/ Compile(g)
    <3>1. registries' = registries /\ opts' = opts /\ Only(g, calls') /\ calls'[g].pc # "store"
      BY <2>2 DEF Resolve, ResolveTorn, Hit, Miss, Compile, Only, Shape, AreCalls, IsCall,
         CallFields
    <3> QED BY <3>1, <1>7
  <2>3. CASE CompileFails(g) \/ Execute(g)
    BY <2>3, <1>8 DEF CompileFails, Execute
  <2> QED BY <1>5, <1>6, <1>9, <2>1, <2>2, <2>3 DEF Evaluate
<1> QED BY <1>1, <1>2, <1>3, <1>4, <1>9 DEF Next

(* A wrapper's functions stay those it was made with.                      *)
THEOREM FunctionsStay == Spec => FunctionsFixed
<1>1. Init => TornInv /\ RegistryInv
  BY DEF Init, NoCall, NoWrapper, TornInv, UsedIsWhole, CallInv, Busy, Evaluator, RegistryInv,
     RegistriesExist, DefaultsAgree, StoringAgree
<1>2. Shape /\ TornInv /\ RegistryInv /\ [Next]_vars
        => Shape' /\ TornInv' /\ RegistryInv' /\ SameFunctions
  BY ShapeStep, TornStep, RegistryStep
<1>3. SameFunctions => [\A w \in Wrappers :
        opts[w].built => FunctionsIn(RegistryOf(w))' = FunctionsIn(RegistryOf(w))]_vars
  BY DEF SameFunctions
<1> QED BY <1>1, <1>2, <1>3, ShapeHolds, PTL DEF Spec, FunctionsFixed

-----------------------------------------------------------------------------
(***************************************************************************)
(* The shared cache.  A program that is cached was compiled by a wrapper   *)
(* that shares the cache, with the functions it still has: nothing writes  *)
(* into the registry of an evaluator once a goroutine or a program has it. *)
(***************************************************************************)
(* No later step changes the registry in this cell.                        *)
Settled(cell) ==
  \/ cell = None
  \/ \E u \in Wrappers :
       /\ opts[u].built /\ cell = Evaluating(u)
       /\ opts[u].engine = None => {registries[cell]} = FunctionsIn(opts[u].functions)

WrappersOK ==
  \A w \in Wrappers : opts[w].built =>
    /\ opts[w].engine \in Engines /\ opts[w].scope \in Scopes
    /\ opts[w].data # None => opts[w].data.cached = opts[w].cached

Compilable(p, e) == \E keys : Compiles(p.engine, p.registry, keys, e)

FromSharer(p, e) ==
  /\ Settled(p.registry) /\ Compilable(p, e)
  /\ \E u \in Wrappers :
       /\ opts[u].built /\ opts[u].cached /\ EngineOf(u) = p.engine
       /\ FunctionsIn(p.registry) = FunctionsIn(RegistryOf(u))

CacheOK ==
  DOMAIN cache = Exprs /\ \A e \in Exprs : \A p \in {cache[e]} \ {None} : FromSharer(p, e)

HasEvaluator(c) ==
  /\ c.engine = EngineOf(c.w) /\ c.data.cached = opts[c.w].cached
  /\ Settled(c.data.registry)
  /\ FunctionsIn(c.data.registry) = FunctionsIn(RegistryOf(c.w))

HasProgram(c) ==
  /\ c.program.engine = c.engine /\ Compilable(c.program, c.expr)
  /\ \/ c.program.registry = c.data.registry
     \/ c.data.cached /\ FromSharer(c.program, c.expr)

Transparent(c) == (Binds(c.engine, c.expr) => SharersAgree(c.engine)) => AsFresh(c)

CallOK(c) ==
  /\ c.pc \in Busy =>
       c.w \in Wrappers /\ opts[c.w].built /\ c.expr \in Exprs /\ c.label \in Labels
  /\ c.pc \in {"store"} \cup Evaluator => HasEvaluator(c)
  /\ c.pc = "store" => c.engine = "expr" /\ opts[c.w].engine \in {None, "expr"}
  /\ c.pc = "run" => HasProgram(c)
  /\ c.pc = "returned" => Settled(c.data.registry) /\ Transparent(c)

Running == {calls[g] : g \in Goroutines}
CacheInv == WrappersOK /\ CacheOK /\ \A c \in Running : CallOK(c)

(* What every step leaves of the wrappers there are.                       *)
Onward ==
  \A u \in Wrappers : opts[u].built =>
    /\ opts'[u].built /\ opts'[u].cached = opts[u].cached
    /\ opts'[u].functions = opts[u].functions /\ EngineOf(u)' = EngineOf(u)
    /\ opts'[u].engine = None => opts[u].engine = None
    /\ registries'[Configured(u)] = registries[Configured(u)]
    /\ \/ registries'[Evaluating(u)] = registries[Evaluating(u)]
       \/ /\ opts[u].engine = None /\ opts[u].functions # None
          /\ registries'[Evaluating(u)] = registries[opts[u].functions]

-----------------------------------------------------------------------------
(* What running a program gives, once the function it calls is known.      *)
Outcome(engine, fn, keys, expr) ==
  CASE expr.form = "key" ->
         IF expr.name \in keys THEN Answer(expr.name) ELSE MissingKey(engine)
    [] expr.form # "key" /\ fn = None -> Fails(Plain)
    [] expr.form # "key" /\ fn \in NestedFns -> Failure(engine, fn)
    [] OTHER -> Answer(fn)

Called(p, cell, expr) == IF expr.form = "key" THEN None ELSE Lookup(Callee(p, cell, expr), expr)

LEMMA RunIs ==
  \A p, cell, keys, expr :
    Run(p, cell, keys, expr) = Outcome(p.engine, Called(p, cell, expr), keys, expr)
BY DEF Run, Outcome, Called

LEMMA SameLookup ==
  ASSUME NEW a, NEW b, NEW expr, FunctionsIn(a) = FunctionsIn(b)
  PROVE  Lookup(a, expr) = Lookup(b, expr)
BY DEF Lookup, Call, Symbol, FunctionsIn

(* A program of the same engine with the same functions, if it binds any,  *)
(* does what one compiled for this evaluation does.                        *)
LEMMA RunAsFresh ==
  ASSUME NEW p, NEW c, p.engine = c.engine, Compilable(p, c.expr),
         Binds(c.engine, c.expr) => FunctionsIn(p.registry) = FunctionsIn(c.data.registry)
  PROVE  Run(p, c.data.registry, c.keys, c.expr) = Fresh(c)
<1> DEFINE cell == c.data.registry
           own  == Program(c.engine, cell)
           e    == c.expr
<1>1. PICK keys : Compiles(c.engine, p.registry, keys, e)
  BY DEF Compilable
<1>2. own.engine = c.engine /\ own.registry = cell
  BY DEF Program
<1>3. Callee(own, cell, e) = cell
  BY <1>2 DEF Callee
<1>4. Binds(c.engine, e) => Lookup(p.registry, e) = Lookup(cell, e)
  BY SameLookup
<1>5. Binds(c.engine, e) => (p.registry = None <=> cell = None)
  BY DEF FunctionsIn
<1>6. Called(p, cell, e) = Called(own, cell, e)
  <2>1. Callee(p, cell, e) = cell \/ (Callee(p, cell, e) = p.registry /\ Binds(c.engine, e))
    BY DEF Callee
  <2> QED BY <1>3, <1>4, <2>1 DEF Called
<1>7. Run(p, cell, c.keys, e) = Run(own, cell, c.keys, e)
  BY <1>2, <1>6, RunIs
<1>8. CASE Compiles(c.engine, cell, c.keys, e)
  BY <1>7, <1>8 DEF Fresh
<1>9. CASE ~Compiles(c.engine, cell, c.keys, e)
  <2>1. c.engine = "cel" /\ e.form = "key" /\ e.name \notin c.keys
    BY <1>1, <1>4, <1>5, <1>9 DEF Compiles, Binds
  <2>2. Run(p, cell, c.keys, e) = MissingKey("cel")
    BY <2>1, RunIs DEF Outcome
  <2> QED BY <1>9, <2>2 DEF Fresh, MissingKey
<1> QED BY <1>8, <1>9

-----------------------------------------------------------------------------
(* What a step keeps.                                                      *)

LEMMA SettledStays ==
  ASSUME RegistryInv, Onward, NEW cell, Settled(cell)
  PROVE  Settled(cell)' /\ Fn(registries', cell) = FunctionsIn(cell)
<1>1. CASE cell = None
  BY <1>1 DEF Settled, Fn, FunctionsIn
<1>2. ASSUME NEW u \in Wrappers, opts[u].built, cell = Evaluating(u),
             opts[u].engine = None => {registries[cell]} = FunctionsIn(opts[u].functions)
      PROVE  Settled(cell)' /\ Fn(registries', cell) = FunctionsIn(cell)
  <2>1. cell # None
    BY <1>2, CellsApart
  <2>2. InConfig(opts[u].functions)
    BY <1>2 DEF RegistryInv, RegistriesExist
  <2>3. Fn(registries', opts[u].functions) = FunctionsIn(opts[u].functions)
    BY <2>2 DEF Onward, InConfig, Fn, FunctionsIn
  <2>4. registries'[cell] = registries[cell]
    BY <1>2 DEF Onward, FunctionsIn
  <2>5. opts'[u].engine = None => {registries'[cell]} = Fn(registries', opts'[u].functions)
    BY <1>2, <2>3, <2>4 DEF Onward
  <2>6. Settled(cell)'
    BY <1>2, <2>5, PrimedFunctions DEF Settled, Onward
  <2> QED BY <2>1, <2>4, <2>6 DEF Fn, FunctionsIn
<1> QED BY <1>1, <1>2 DEF Settled

LEMMA LookupStays ==
  ASSUME RegistryInv, Onward, NEW cell, Settled(cell), NEW expr
  PROVE  Lookup(cell, expr)' = Lookup(cell, expr)
<1>1. cell # None => registries'[cell] = registries[cell]
  BY SettledStays DEF Fn, FunctionsIn
<1> QED BY <1>1 DEF Lookup, Call, Symbol

LEMMA CompilesStays ==
  ASSUME RegistryInv, Onward, NEW cell, Settled(cell), NEW engine, NEW keys, NEW expr
  PROVE  Compiles(engine, cell, keys, expr)' <=> Compiles(engine, cell, keys, expr)
BY LookupStays DEF Compiles

LEMMA CompilableStays ==
  ASSUME RegistryInv, Onward, NEW p, NEW expr, Settled(p.registry), Compilable(p, expr)
  PROVE  Compilable(p, expr)'
<1>1. PICK keys : Compiles(p.engine, p.registry, keys, expr)
  BY DEF Compilable
<1>2. Compiles(p.engine, p.registry, keys, expr)'
  BY <1>1, CompilesStays
<1> QED BY <1>2 DEF Compilable

LEMMA FreshStays ==
  ASSUME RegistryInv, Onward, NEW c, Settled(c.data.registry)
  PROVE  Fresh(c)' = Fresh(c)
<1> DEFINE cell == c.data.registry
           own  == Program(c.engine, cell)
<1>1. own.engine = c.engine /\ own.registry = cell
  BY DEF Program
<1>2. Lookup(cell, c.expr)' = Lookup(cell, c.expr)
  BY LookupStays
<1>3. Callee(own, cell, c.expr) = cell /\ Callee(own, cell, c.expr)' = cell
  BY <1>1 DEF Callee
<1>4. Called(own, cell, c.expr)' = Called(own, cell, c.expr)
  <2>1. Called(own, cell, c.expr) = IF c.expr.form = "key" THEN None ELSE Lookup(cell, c.expr)
    BY <1>3 DEF Called
  <2>2. Called(own, cell, c.expr)'
          = IF c.expr.form = "key" THEN None ELSE Lookup(cell, c.expr)'
    BY <1>1 DEF Called, Callee
  <2> QED BY <1>2, <2>1, <2>2
<1>5. Run(own, cell, c.keys, c.expr)' = Run(own, cell, c.keys, c.expr)
  <2>1. Run(own, cell, c.keys, c.expr)
          = Outcome(own.engine, Called(own, cell, c.expr), c.keys, c.expr)
    BY RunIs
  <2>2. Run(own, cell, c.keys, c.expr)'
          = Outcome(own.engine, Called(own, cell, c.expr)', c.keys, c.expr)
    BY DEF Run, Outcome, Called
  <2> QED BY <1>4, <2>1, <2>2
<1>6. Compiles(c.engine, cell, c.keys, c.expr)' <=> Compiles(c.engine, cell, c.keys, c.expr)
  BY CompilesStays
<1> QED BY <1>5, <1>6 DEF Fresh

LEMMA AgreedBefore ==
  ASSUME WrappersOK, WrappersOK', Onward, SameFunctions, NEW engine, SharersAgree(engine)'
  PROVE  SharersAgree(engine)
<1>1. ASSUME NEW u \in Wrappers, opts[u].built
      PROVE  /\ CachedIn(u) = opts[u].cached /\ CachedIn(u)' = opts'[u].cached
             /\ opts'[u].built /\ opts'[u].cached = opts[u].cached /\ EngineOf(u)' = EngineOf(u)
             /\ FunctionsIn(RegistryOf(u))' = FunctionsIn(RegistryOf(u))
  BY <1>1 DEF WrappersOK, Onward, SameFunctions, CachedIn
<1> SUFFICES ASSUME NEW v \in Wrappers, NEW w \in Wrappers,
                    opts[v].built, CachedIn(v), EngineOf(v) = engine,
                    opts[w].built, CachedIn(w), EngineOf(w) = engine
             PROVE  FunctionsIn(RegistryOf(v)) = FunctionsIn(RegistryOf(w))
  BY DEF SharersAgree
<1>2. /\ opts'[v].built /\ CachedIn(v)' /\ EngineOf(v)' = engine
      /\ opts'[w].built /\ CachedIn(w)' /\ EngineOf(w)' = engine
  BY <1>1
<1>3. FunctionsIn(RegistryOf(v))' = FunctionsIn(RegistryOf(w))'
  BY <1>2 DEF SharersAgree
<1> QED BY <1>1, <1>3

LEMMA SharerStays ==
  ASSUME RegistryInv, Onward, SameFunctions, NEW p, NEW e, FromSharer(p, e)
  PROVE  FromSharer(p, e)'
<1>1. Settled(p.registry)' /\ Compilable(p, e)' /\ FunctionsIn(p.registry)' = FunctionsIn(p.registry)
  BY SettledStays, CompilableStays, PrimedFunctions DEF FromSharer
<1>2. PICK u \in Wrappers :
        /\ opts[u].built /\ opts[u].cached /\ EngineOf(u) = p.engine
        /\ FunctionsIn(p.registry) = FunctionsIn(RegistryOf(u))
  BY DEF FromSharer
<1>3. /\ opts'[u].built /\ opts'[u].cached /\ EngineOf(u)' = p.engine
      /\ FunctionsIn(RegistryOf(u))' = FunctionsIn(RegistryOf(u))
  BY <1>2 DEF Onward, SameFunctions
<1> QED BY <1>1, <1>2, <1>3 DEF FromSharer

LEMMA EvaluatorStays ==
  ASSUME RegistryInv, Onward, SameFunctions, NEW c, HasEvaluator(c),
         c.w \in Wrappers, opts[c.w].built
  PROVE  HasEvaluator(c)'
<1>1. /\ Settled(c.data.registry)'
      /\ FunctionsIn(c.data.registry)' = FunctionsIn(c.data.registry)
  BY SettledStays, PrimedFunctions DEF HasEvaluator
<1>2. /\ EngineOf(c.w)' = EngineOf(c.w) /\ opts'[c.w].cached = opts[c.w].cached
      /\ FunctionsIn(RegistryOf(c.w))' = FunctionsIn(RegistryOf(c.w))
  BY DEF Onward, SameFunctions
<1> QED BY <1>1, <1>2 DEF HasEvaluator

LEMMA ProgramStays ==
  ASSUME RegistryInv, Onward, SameFunctions, NEW c, HasEvaluator(c), HasProgram(c)
  PROVE  HasProgram(c)'
<1>1. Settled(c.program.registry)
  BY DEF HasProgram, HasEvaluator, FromSharer
<1>2. Compilable(c.program, c.expr)'
  BY <1>1, CompilableStays DEF HasProgram
<1> QED BY <1>2, SharerStays DEF HasProgram

LEMMA ReturnedStays ==
  ASSUME RegistryInv, WrappersOK, WrappersOK', Onward, SameFunctions, NEW c,
         Settled(c.data.registry), Transparent(c)
  PROVE  Settled(c.data.registry)' /\ Transparent(c)'
<1>1. Settled(c.data.registry)' /\ Fresh(c)' = Fresh(c)
  BY SettledStays, FreshStays
<1>2. Binds(c.engine, c.expr)' <=> Binds(c.engine, c.expr)
  BY DEF Binds
<1>3. AsFresh(c)' <=> AsFresh(c)
  BY <1>1 DEF AsFresh
<1>4. SharersAgree(c.engine)' => SharersAgree(c.engine)
  BY AgreedBefore
<1> QED BY <1>1, <1>2, <1>3, <1>4 DEF Transparent

LEMMA CallStays ==
  ASSUME RegistryInv, WrappersOK, WrappersOK', Onward, SameFunctions, NEW c, CallOK(c)
  PROVE  CallOK(c)'
<1>1. c.pc \in Busy =>
        c.w \in Wrappers /\ opts'[c.w].built /\ c.expr \in Exprs /\ c.label \in Labels
  BY DEF CallOK, Onward
<1>2. c.pc \in {"store"} \cup Evaluator => HasEvaluator(c)'
  BY EvaluatorStays DEF CallOK, Busy
<1>3. c.pc = "run" => HasProgram(c)'
  BY ProgramStays DEF CallOK, Evaluator
<1>4. c.pc = "returned" => Settled(c.data.registry)' /\ Transparent(c)'
  BY ReturnedStays DEF CallOK
<1>5. c.pc = "store" => c.engine = "expr" /\ opts'[c.w].engine \in {None, "expr"}
  BY DEF CallOK, Onward, EngineOf, Busy
<1> QED BY <1>1, <1>2, <1>3, <1>4, <1>5 DEF CallOK

-----------------------------------------------------------------------------
(* Every step leaves the wrappers there are as Onward says.                *)
LEMMA QuietStep ==
  ASSUME CacheInv,
         \A u \in Wrappers :
           /\ Keeps(u, opts')
           /\ registries'[Configured(u)] = registries[Configured(u)]
           /\ registries'[Evaluating(u)] = registries[Evaluating(u)]
  PROVE  Onward /\ WrappersOK'
<1>1. Onward
  BY DEF Onward, EngineOf, Keeps
<1>2. WrappersOK'
  BY DEF CacheInv, WrappersOK, Keeps
<1> QED BY <1>1, <1>2

LEMMA OnwardStep ==
  ASSUME Shape, TornInv, RegistryInv, CacheInv, [Next]_vars PROVE Onward /\ WrappersOK'
<1> DEFINE Goal == Onward /\ WrappersOK'
<1>a. WrappersOK /\ \A g \in Goroutines : CallOK(calls[g])
  BY DEF CacheInv, Running
<1>1. ASSUME opts' = opts, registries' = registries PROVE Goal
  BY <1>1, QuietStep DEF Keeps
<1>2. CASE UNCHANGED vars
  BY <1>1, <1>2 DEF vars
<1>3. ASSUME NEW r \in Registrations, Register(r.name, r.fn) PROVE Goal
  <2>1. opts' = opts /\ \A cell \in Cells : cell # Shared => registries'[cell] = registries[cell]
    BY <1>3 DEF Register, Shape
  <2> QED BY <2>1, CellsApart, QuietStep DEF Keeps
<1>4. ASSUME NEW w \in Wrappers, NEW config \in Configs, New(w, config) PROVE Goal
  <2>1. ~opts[w].built /\ \A u \in Wrappers : u # w => opts'[u] = opts[u]
    BY <1>4 DEF New, Shape, AreWrappers
  <2>2. \A cell \in Cells : cell \notin {Configured(w), Evaluating(w)} =>
          registries'[cell] = registries[cell]
    BY <1>4 DEF New, Shape
  <2>3. \A u \in Wrappers : opts[u].built =>
          /\ registries'[Configured(u)] = registries[Configured(u)]
          /\ registries'[Evaluating(u)] = registries[Evaluating(u)]
    BY <2>1, <2>2, CellsApart
  <2>4. /\ opts'[w].engine = EvaluatorFor(config.engine) /\ opts'[w].scope = config.scope
        /\ opts'[w].data # None => opts'[w].data.cached = opts'[w].cached
    BY <1>4 DEF New, Shape, AreWrappers
  <2>5. opts'[w].engine \in Engines /\ opts'[w].scope \in Scopes
    BY <2>4 DEF EvaluatorFor, Engines, Scopes
  <2>6. WrappersOK'
    BY <1>a, <2>1, <2>4, <2>5 DEF WrappersOK
  <2>7. Onward
    BY <2>1, <2>3 DEF Onward, EngineOf
  <2> QED BY <2>6, <2>7
<1>5. ASSUME NEW v \in Wrappers, NEW w \in Wrappers, Clone(v, w) PROVE Goal
  <2>1. ~opts[v].built /\ opts[w].built /\ registries' = registries
    BY <1>5 DEF Clone
  <2>2. \A u \in Wrappers : opts'[u] = IF u = v THEN opts[w] ELSE opts[u]
    BY <1>5 DEF Clone, Shape, AreWrappers
  <2>3. Onward
    BY <2>1, <2>2 DEF Onward, EngineOf
  <2>4. WrappersOK'
    BY <1>a, <2>1, <2>2 DEF WrappersOK
  <2> QED BY <2>3, <2>4
<1>6. ASSUME NEW g \in Goroutines, MakeDefault(g) PROVE Goal
  <2> DEFINE w == calls[g].w
             cell == opts[w].functions
  <2>1. /\ calls[g].pc = "resolve" /\ opts[w].engine = None /\ opts' = opts
        /\ registries' = IF cell = None THEN registries
                         ELSE [registries EXCEPT ![Evaluating(w)] = registries[cell]]
    BY <1>6 DEF MakeDefault
  <2>2. w \in Wrappers
    BY <2>1 DEF TornInv, CallInv, Busy
  <2> HIDE DEF w, cell
  <2>3. /\ \A u \in Wrappers : registries'[Configured(u)] = registries[Configured(u)]
        /\ \A u \in Wrappers : u # w => registries'[Evaluating(u)] = registries[Evaluating(u)]
        /\ \/ registries'[Evaluating(w)] = registries[Evaluating(w)]
           \/ cell # None /\ registries'[Evaluating(w)] = registries[cell]
    BY <2>1, <2>2, CellsApart DEF Shape
  <2>4. Onward
    BY <2>1, <2>3 DEF Onward, EngineOf, cell
  <2>5. WrappersOK'
    BY <1>a, <2>1 DEF WrappersOK
  <2> QED BY <2>4, <2>5
<1>7. ASSUME NEW g \in Goroutines, NEW word \in {"engine", "data"}, Store(g, word) PROVE Goal
  <2>1. calls[g].pc = "store" /\ registries' = registries /\ CallOK(calls[g])
    BY <1>7, <1>a DEF Store
  <2>0. PICK w \in Wrappers : w = calls[g].w
    BY <2>1 DEF CallOK, Busy
  <2>2. /\ opts[w].built /\ HasEvaluator(calls[g])
        /\ calls[g].engine = "expr" /\ opts[w].engine \in {None, "expr"}
    BY <2>0, <2>1 DEF CallOK, Busy
  <2>3. /\ \A v \in Wrappers : v # w => opts'[v] = opts[v]
        /\ opts'[w].built = opts[w].built /\ opts'[w].functions = opts[w].functions
        /\ opts'[w].cached = opts[w].cached /\ opts'[w].scope = opts[w].scope
        /\ opts'[w].engine = IF word = "engine" THEN calls[g].engine ELSE opts[w].engine
        /\ opts'[w].data = IF word = "data" THEN calls[g].data ELSE opts[w].data
    BY <1>7, <2>0, StoreStep
  <2>4. calls[g].data.cached = opts[w].cached
    BY <2>0, <2>2 DEF HasEvaluator
  <2>5. None # "expr"
    BY EvaluatorsAssumption
  <2>6. EngineOf(w)' = EngineOf(w)
    BY <2>2, <2>3 DEF EngineOf
  <2>7. Onward
    BY <2>1, <2>2, <2>3, <2>5, <2>6 DEF Onward, EngineOf
  <2>8. WrappersOK'
    BY <1>a, <2>2, <2>3, <2>4 DEF WrappersOK, Engines
  <2> QED BY <2>7, <2>8
<1>8. ASSUME NEW g \in Goroutines, NEW value, NEW err, Return(g, value, err) PROVE Goal
  BY <1>8, ReturnStep, QuietStep
<1>9. ASSUME NEW g \in Goroutines, Evaluate(g) PROVE Goal
  <2>1. CASE \/ \E w \in Wrappers, request \in Requests : Begin(g, w, request)
             \/ Resolve(g) \/ ResolveTorn(g) \/ Hit(g) \/ Miss(g) \/ Compile(g)
    BY <1>1, <2>1 DEF Begin, Resolve, ResolveTorn, Hit, Miss, Compile
  <2>2. CASE CompileFails(g) \/ Execute(g)
    BY <1>8, <2>2 DEF CompileFails, Execute
  <2> QED BY <1>6, <1>7, <1>9, <2>1, <2>2 DEF Evaluate
<1> QED BY <1>2, <1>3, <1>4, <1>5, <1>9 DEF Next

(* A program just compiled is one of a wrapper that shares the cache.      *)
LEMMA OwnProgram ==
  ASSUME NEW c, CallOK(c), c.pc = "compile", c.data.cached,
         Compiles(c.engine, c.data.registry, c.keys, c.expr)
  PROVE  FromSharer(Program(c.engine, c.data.registry), c.expr)
<1> DEFINE p == Program(c.engine, c.data.registry)
<1>1. p.engine = c.engine /\ p.registry = c.data.registry
  BY DEF Program
<1>2. HasEvaluator(c) /\ c.w \in Wrappers /\ opts[c.w].built
  BY DEF CallOK, Evaluator, Busy
<1>3. Compilable(p, c.expr)
  BY <1>1 DEF Compilable
<1>4. Settled(p.registry)
  BY <1>1, <1>2 DEF HasEvaluator
<1>5. /\ opts[c.w].cached /\ EngineOf(c.w) = p.engine
      /\ FunctionsIn(p.registry) = FunctionsIn(RegistryOf(c.w))
  BY <1>1, <1>2 DEF HasEvaluator
<1> HIDE DEF p
<1>6. FromSharer(p, c.expr)
  BY <1>2, <1>3, <1>4, <1>5 DEF FromSharer
<1> QED BY <1>6 DEF p

LEMMA CacheStays ==
  ASSUME RegistryInv, CacheInv, Onward, SameFunctions, cache' = cache PROVE CacheOK'
BY SharerStays DEF CacheInv, CacheOK

LEMMA CacheStep ==
  ASSUME RegistryInv, CacheInv, Onward, SameFunctions, [Next]_vars PROVE CacheOK'
<1>1. CASE cache' = cache
  BY <1>1, CacheStays
<1>2. ASSUME NEW g \in Goroutines, Compile(g) PROVE CacheOK'
  <2>1. PICK c \in Running : c = calls[g]
    BY DEF Running
  <2>2. CallOK(c)
    BY DEF CacheInv
  <2>3. PICK p : p = Program(c.engine, c.data.registry)
    OBVIOUS
  <2>4. c.pc = "compile" /\ Compiles(c.engine, c.data.registry, c.keys, c.expr)
    BY <1>2, <2>1 DEF Compile
  <2>5. CASE ~c.data.cached
    BY <1>1, <1>2, <2>1, <2>5 DEF Compile
  <2>6. CASE c.data.cached
    <3>1. FromSharer(p, c.expr)
      BY <2>2, <2>3, <2>4, <2>6, OwnProgram
    <3>2. FromSharer(p, c.expr)'
      BY <3>1, SharerStays
    <3>3. Put(c.expr, p)
      BY <1>2, <2>1, <2>3, <2>6 DEF Compile
    <3>4. /\ DOMAIN cache' = Exprs
          /\ \A e \in Exprs : cache'[e] \in {None, cache[e]} \/ (e = c.expr /\ cache'[e] = p)
      BY <3>3 DEF Put
    <3>5. ASSUME NEW e \in Exprs, NEW q, q = cache'[e], q # None PROVE FromSharer(q, e)'
      <4>1. CASE q = cache[e]
        <5>1. FromSharer(q, e)
          BY <3>5, <4>1 DEF CacheInv, CacheOK
        <5> QED BY <5>1, SharerStays
      <4>2. CASE q # cache[e]
        BY <3>2, <3>4, <3>5, <4>2
      <4> QED BY <4>1, <4>2
    <3> QED BY <3>4, <3>5 DEF CacheOK
  <2> QED BY <2>5, <2>6
<1>3. CASE UNCHANGED vars
  BY <1>1, <1>3 DEF vars
<1>4. ASSUME NEW g \in Goroutines, Evaluate(g) PROVE cache' = cache \/ Compile(g)
  BY <1>4 DEF Evaluate, Begin, Resolve, ResolveTorn, MakeDefault, Store, Hit, Miss,
     CompileFails, Execute, Return
<1>5. CASE \/ \E r \in Registrations : Register(r.name, r.fn)
           \/ \E w \in Wrappers, config \in Configs : New(w, config)
           \/ \E v, w \in Wrappers : Clone(v, w)
  BY <1>1, <1>5 DEF Register, New, Clone
<1> QED BY <1>1, <1>2, <1>3, <1>4, <1>5 DEF Next

(* An evaluation moves one goroutine.                                      *)
LEMMA EvaluateOnly == ASSUME Shape, NEW g \in Goroutines, Evaluate(g) PROVE Only(g, calls')
<1>1. ASSUME NEW w \in Wrappers, NEW request \in Requests, Begin(g, w, request)
      PROVE  Only(g, calls')
  BY <1>1 DEF Begin, Only, Shape, AreCalls
<1>2. CASE Resolve(g) \/ ResolveTorn(g) \/ MakeDefault(g)
  BY <1>2 DEF Resolve, ResolveTorn, MakeDefault, Only, Shape, AreCalls
<1>3. CASE \E word \in {"engine", "data"} : Store(g, word)
  BY <1>3 DEF Store, Only, Shape, AreCalls
<1>4. CASE Hit(g) \/ Miss(g) \/ Compile(g)
  BY <1>4 DEF Hit, Miss, Compile, Only, Shape, AreCalls
<1>5. CASE CompileFails(g) \/ Execute(g)
  <2>1. \E value, err : Return(g, value, err)
    BY <1>5 DEF CompileFails, Execute
  <2> QED BY <2>1, ReturnStep
<1> QED BY <1>1, <1>2, <1>3, <1>4, <1>5 DEF Evaluate

(* c is the call d a little later.                                         *)
Later(c, d) ==
  /\ c.w = d.w /\ c.expr = d.expr /\ c.keys = d.keys /\ c.label = d.label
  /\ c.engine = d.engine /\ c.data = d.data

LEMMA LaterHas ==
  ASSUME NEW c, NEW d, Later(c, d), HasEvaluator(d) PROVE HasEvaluator(c)
BY DEF Later, HasEvaluator

LEMMA LaterKept ==
  ASSUME NEW c, NEW d, Later(c, d), HasEvaluator(d)' PROVE HasEvaluator(c)'
BY DEF Later, HasEvaluator

(* What a goroutine finds in its wrapper is an evaluator of it.            *)
LEMMA FoundEvaluator ==
  ASSUME RegistryInv, WrappersOK, NEW c, c.w \in Wrappers, opts[c.w].built,
         opts[c.w].engine # None, opts[c.w].data # None,
         c.engine = opts[c.w].engine, c.data = opts[c.w].data
  PROVE  HasEvaluator(c)
<1> DEFINE cell == c.data.registry
<1>1. cell = None \/ \E u \in Wrappers : opts[u].built /\ cell = Evaluating(u)
  BY DEF RegistryInv, RegistriesExist, InEval
<1>2. ASSUME NEW u \in Wrappers, opts[u].built, cell = Evaluating(u), opts[u].engine = None
      PROVE  {registries[cell]} = FunctionsIn(opts[u].functions)
  BY <1>2 DEF RegistryInv, DefaultsAgree, Refers
<1>3. Settled(cell)
  BY <1>1, <1>2 DEF Settled
<1>4. c.engine = EngineOf(c.w) /\ c.data.cached = opts[c.w].cached
  BY DEF EngineOf, WrappersOK
<1>5. FunctionsIn(cell) = FunctionsIn(RegistryOf(c.w))
  BY DEF RegistryOf
<1> QED BY <1>3, <1>4, <1>5 DEF HasEvaluator

(* The evaluations of wrappers that share programs, and agree, find the    *)
(* functions a program was compiled with.                                  *)
LEMMA SharersFit ==
  ASSUME WrappersOK, NEW d, CallOK(d), d.pc = "run",
         Binds(d.engine, d.expr) => SharersAgree(d.engine)
  PROVE  Run(d.program, d.data.registry, d.keys, d.expr) = Fresh(d)
<1>1. /\ HasEvaluator(d) /\ HasProgram(d) /\ d.w \in Wrappers /\ opts[d.w].built
  BY DEF CallOK, Evaluator, Busy
<1>2. d.program.engine = d.engine /\ Compilable(d.program, d.expr)
  BY <1>1 DEF HasProgram
<1>3. ASSUME Binds(d.engine, d.expr), d.data.cached, FromSharer(d.program, d.expr)
      PROVE  FunctionsIn(d.program.registry) = FunctionsIn(d.data.registry)
  <2>1. PICK u \in Wrappers :
          /\ opts[u].built /\ opts[u].cached /\ EngineOf(u) = d.engine
          /\ FunctionsIn(d.program.registry) = FunctionsIn(RegistryOf(u))
    BY <1>2, <1>3 DEF FromSharer
  <2>2. /\ EngineOf(d.w) = d.engine /\ opts[d.w].cached
        /\ FunctionsIn(d.data.registry) = FunctionsIn(RegistryOf(d.w))
    BY <1>1, <1>3 DEF HasEvaluator
  <2>3. CachedIn(u) /\ CachedIn(d.w)
    BY <1>1, <2>1, <2>2 DEF CachedIn, WrappersOK
  <2> QED BY <1>1, <1>3, <2>1, <2>2, <2>3 DEF SharersAgree
<1>4. Binds(d.engine, d.expr) =>
        FunctionsIn(d.program.registry) = FunctionsIn(d.data.registry)
  BY <1>1, <1>3 DEF HasProgram
<1> QED BY <1>2, <1>4, RunAsFresh

(* The error of a failed evaluation is never nil.                          *)
LEMMA ErrorIsThere ==
  ASSUME WrappersOK, NEW d, CallOK(d), d.pc \in Evaluator
  PROVE  /\ Plain # None /\ Nested # None
         /\ [engine |-> d.engine, expr |-> d.expr, scope |-> d.label] # None
<1>1. d.engine \in Engines
  BY DEF CallOK, HasEvaluator, Busy, Evaluator, EngineOf, WrappersOK, Engines
<1>2. d.expr \in Exprs /\ d.label \in Labels
  BY DEF CallOK, Busy, Evaluator
<1>3. [engine |-> d.engine, expr |-> d.expr, scope |-> d.label] \in Errors
  BY <1>1, <1>2 DEF Errors
<1>4. Plain \in Errors /\ Nested \in Errors
  BY DEF Plain, Nested, Errors, Engines, Labels
<1> QED BY <1>3, <1>4, EvaluatorsAssumption

(* What an evaluation returns.                                             *)
LEMMA ReturnedFresh ==
  ASSUME Shape, WrappersOK, NEW g \in Goroutines, CompileFails(g) \/ Execute(g),
         NEW d, d = calls[g], CallOK(d), NEW c, c = calls'[g]
  PROVE  Later(c, d) /\ c.pc = "returned" /\ d.pc \in Evaluator /\ Transparent(c)
<1>1. d.pc \in Evaluator
  BY DEF CompileFails, Execute, Evaluator
<1> DEFINE own == [engine |-> d.engine, expr |-> d.expr, scope |-> d.label]
<1>2. Plain # None /\ Nested # None /\ own # None
  BY <1>1, ErrorIsThere
<1>3. ASSUME NEW value, NEW err, Return(g, value, err)
      PROVE  /\ c.pc = "returned" /\ c.value = value /\ c.err = Reported(d, err)
             /\ Later(c, d)
  <2>1. /\ c.pc = "returned" /\ c.engine = d.engine /\ c.expr = d.expr
        /\ c.label = d.label /\ c.data = d.data /\ c.keys = d.keys /\ c.value = value
    BY <1>3, ReturnStep
  <2>2. c.err = Reported(d, err)
    BY <1>3, ReturnError
  <2>3. c.w = d.w
    BY <1>3 DEF Return, Shape, AreCalls, IsCall, CallFields
  <2> QED BY <2>1, <2>2, <2>3 DEF Later
<1>4. Later(c, d) => Fresh(c) = Fresh(d)
  BY DEF Later, Fresh
<1>5. CASE CompileFails(g)
  <2> DEFINE err == FillIn(Plain, d.engine, d.expr, None)
  <2>1. Return(g, None, err) /\ ~Compiles(d.engine, d.data.registry, d.keys, d.expr)
    BY <1>5 DEF CompileFails
  <2>2. FillIn(err, None, d.expr, d.label) = own
    BY FilledTwice
  <2> HIDE DEF err, own
  <2>3. /\ c.pc = "returned" /\ c.value = None /\ c.err = Reported(d, err) /\ Later(c, d)
    BY <1>3, <2>1
  <2>4. err # None => c.err # None
    BY <1>2, <2>2, <2>3 DEF Reported
  <2>5. err # None
    <3>1. err = [engine |-> d.engine, expr |-> d.expr, scope |-> None]
      BY DEF err, FillIn, Plain
    <3>2. err \in Errors
      <4>1. d.engine \in Engines
        BY <1>1 DEF CallOK, HasEvaluator, Busy, Evaluator, EngineOf, WrappersOK, Engines
      <4>2. d.expr \in Exprs /\ None \in Labels
        BY <1>1 DEF CallOK, Busy, Evaluator, Labels
      <4> QED BY <3>1, <4>1, <4>2 DEF Errors
    <3> QED BY <3>2, EvaluatorsAssumption
  <2>6. Fresh(d) = Fails(Plain)
    BY <2>1 DEF Fresh
  <2>7. AsFresh(c)
    BY <1>2, <1>4, <2>3, <2>4, <2>5, <2>6 DEF AsFresh, Fails
  <2> QED BY <1>1, <2>3, <2>7 DEF Transparent
<1>6. CASE Execute(g)
  <2>0. PICK result : result = Run(d.program, d.data.registry, d.keys, d.expr)
    OBVIOUS
  <2> DEFINE err == IF result.err = None THEN None
                    ELSE FillIn(result.err, d.engine, d.expr, d.label)
  <2>1. Return(g, result.value, err) /\ d.pc = "run"
    BY <1>6, <2>0 DEF Execute
  <2>2. result.err \in {None, Plain, Nested}
    BY <2>0, RunErrors
  <2>3. FillIn(Plain, d.engine, d.expr, d.label) = own
    BY DEF FillIn, Plain
  <2>4. FillIn(Nested, d.engine, d.expr, d.label) = Nested
    BY EvaluatorsAssumption DEF FillIn, Nested
  <2>5. FillIn(own, None, d.expr, d.label) = own /\ FillIn(Nested, None, d.expr, d.label) = Nested
    <3>1. FillIn(FillIn(Plain, d.engine, d.expr, d.label), None, d.expr, d.label) = own
      BY FilledTwice
    <3>2. FillIn(FillIn(Nested, d.engine, d.expr, d.label), None, d.expr, d.label) = Nested
      BY FilledTwice
    <3> HIDE DEF own
    <3> QED BY <2>3, <2>4, <3>1, <3>2
  <2> HIDE DEF own
  <2>6. result.err = None <=> Reported(d, err) = None
    BY <1>2, <2>2, <2>3, <2>4, <2>5 DEF Reported
  <2> HIDE DEF err
  <2>7. /\ c.pc = "returned" /\ c.value = result.value /\ c.err = Reported(d, err)
        /\ Later(c, d)
    BY <1>3, <2>1
  <2>8. ASSUME Binds(c.engine, c.expr) => SharersAgree(c.engine) PROVE AsFresh(c)
    <3>1. Binds(d.engine, d.expr) => SharersAgree(d.engine)
      BY <2>7, <2>8 DEF Later
    <3>2. result = Fresh(d)
      BY <2>0, <2>1, <3>1, SharersFit
    <3> QED BY <1>4, <2>6, <2>7, <3>2 DEF AsFresh
  <2> QED BY <1>1, <2>7, <2>8 DEF Transparent
<1> QED BY <1>5, <1>6

LEMMA CallStep ==
  ASSUME Shape, TornInv, TornInv', RegistryInv, RegistryInv', SameFunctions, CacheInv,
         Onward, WrappersOK', [Next]_vars, NEW c \in Running'
  PROVE  CallOK(c)'
<1>1. PICK g \in Goroutines : c = calls'[g]
  BY DEF Running
<1>2. PICK d \in Running : d = calls[g]
  BY DEF Running
<1>3. WrappersOK /\ CallOK(d)
  BY DEF CacheInv
<1>4. CallOK(d)'
  BY <1>3, CallStays
<1>5. CASE c = d
  BY <1>4, <1>5
<1>6. ASSUME c # d PROVE Evaluate(g)
  <2>1. calls' # calls
    BY <1>1, <1>2, <1>6
  <2>2. PICK x \in Goroutines : Evaluate(x)
    BY <2>1 DEF Next, Register, New, Clone, vars
  <2>3. Only(x, calls')
    BY <2>2, EvaluateOnly
  <2> QED BY <1>1, <1>2, <1>6, <2>2, <2>3 DEF Only
<1>7. ASSUME NEW w \in Wrappers, NEW request \in Requests, Begin(g, w, request)
      PROVE  CallOK(c)'
  <2>1. /\ c.pc = "resolve" /\ c.w = w /\ c.expr = request.expr
        /\ c.label = ScopeLabel(request.ctx, opts[w].scope) /\ opts[w].built /\ opts' = opts
    BY <1>1, <1>7 DEF Begin, NoCall, Shape, AreCalls
  <2>2. c.expr \in Exprs /\ c.label \in Labels
    BY <1>3, <2>1 DEF Exprs, Labels, WrappersOK
  <2> QED BY <2>1, <2>2 DEF CallOK, Evaluator
<1>8. CASE Resolve(g)
  <2>1. /\ c.pc = "lookup" /\ c.w = d.w /\ c.expr = d.expr /\ c.label = d.label
        /\ c.engine = opts[d.w].engine /\ c.data = opts[d.w].data /\ d.pc = "resolve"
        /\ opts[d.w].engine # None /\ opts[d.w].data # None
    BY <1>1, <1>2, <1>8 DEF Resolve, Shape, AreCalls, IsCall, CallFields
  <2>2. d.w \in Wrappers /\ opts[d.w].built
    BY <1>3, <2>1 DEF CallOK, Busy
  <2>3. HasEvaluator(c)
    BY <1>3, <2>1, <2>2, FoundEvaluator
  <2>4. HasEvaluator(c)'
    BY <2>1, <2>2, <2>3, EvaluatorStays
  <2> QED BY <1>4, <2>1, <2>4 DEF CallOK, Busy, Evaluator
<1>9. CASE ResolveTorn(g)
  <2>1. c.pc = "panicked"
    BY <1>1, <1>9 DEF ResolveTorn, Shape, AreCalls, IsCall, CallFields
  <2> QED BY <2>1 DEF CallOK, Busy, Evaluator
<1>10. CASE MakeDefault(g)
  <2>1. /\ c.pc = "store" /\ c.w = d.w /\ c.expr = d.expr /\ c.label = d.label
        /\ c.engine = "expr" /\ d.pc = "resolve" /\ opts[d.w].engine = None /\ opts' = opts
        /\ c.data = [registry |-> IF opts[d.w].functions = None THEN None
                                  ELSE Evaluating(d.w),
                     cached   |-> opts[d.w].cached]
    BY <1>1, <1>2, <1>10 DEF MakeDefault, Shape, AreCalls, IsCall, CallFields
  <2>2. d.w \in Wrappers /\ opts[d.w].built
    BY <1>3, <2>1 DEF CallOK, Busy
  <2>3. c.data # None
    BY <1>1, <2>1 DEF TornInv, CallInv, Stored
  <2>4. /\ FunctionsIn(c.data.registry)' = FunctionsIn(opts[d.w].functions)'
        /\ opts[d.w].data # None =>
             FunctionsIn(opts[d.w].data.registry)' = FunctionsIn(opts[d.w].functions)'
    BY <1>1, <2>1, <2>3, PrimedFunctions DEF RegistryInv, StoringAgree, SameAs
  <2>5. FunctionsIn(c.data.registry)' = FunctionsIn(RegistryOf(d.w))'
    BY <2>1, <2>4, PrimedFunctions DEF RegistryOf
  <2>6. Settled(c.data.registry)'
    <3>1. c.data.registry # None =>
            /\ c.data.registry = Evaluating(d.w)
            /\ {registries'[c.data.registry]} = Fn(registries', opts'[d.w].functions)
      BY <2>1, <2>4, PrimedFunctions DEF Fn
    <3> QED BY <2>1, <2>2, <3>1, PrimedFunctions DEF Settled
  <2>7. HasEvaluator(c)'
    BY <2>1, <2>5, <2>6 DEF HasEvaluator, EngineOf
  <2> QED BY <1>4, <2>1, <2>7 DEF CallOK, Busy, Evaluator
<1>11. ASSUME NEW word \in {"engine", "data"}, Store(g, word) PROVE CallOK(c)'
  <2>1. Later(c, d) /\ c.pc \in {"store", "lookup"} /\ d.pc = "store"
    BY <1>1, <1>2, <1>11 DEF Store, Later, Shape, AreCalls, IsCall, CallFields
  <2>2. HasEvaluator(c)'
    BY <1>4, <2>1, LaterKept DEF CallOK
  <2> QED BY <1>4, <2>1, <2>2 DEF CallOK, Busy, Evaluator, Later
<1>12. CASE Hit(g) \/ Miss(g) \/ Compile(g)
  <2>1. /\ Later(c, d) /\ c.pc \in {"run", "compile"} /\ d.pc \in Evaluator
        /\ Miss(g) => c.pc = "compile"
    BY <1>1, <1>2, <1>12 DEF Hit, Miss, Compile, Later, Evaluator, Shape, AreCalls, IsCall,
       CallFields
  <2>2. HasEvaluator(c)
    BY <1>3, <2>1, LaterHas DEF CallOK
  <2>3. HasEvaluator(c)'
    BY <1>4, <2>1, LaterKept DEF CallOK
  <2>4. ASSUME Hit(g) PROVE HasProgram(c)
    <3>1. /\ c.program = cache[d.expr] /\ d.data.cached /\ cache[d.expr] # None
          /\ cache[d.expr].engine = d.engine
      BY <1>1, <1>2, <2>4 DEF Hit, Usable, Shape, AreCalls, IsCall, CallFields
    <3>2. d.expr \in Exprs
      BY <1>3, <2>1 DEF CallOK, Busy
    <3>3. FromSharer(c.program, c.expr)
      BY <2>1, <3>1, <3>2 DEF CacheInv, CacheOK, Later
    <3>4. Compilable(c.program, c.expr)
      BY <3>3 DEF FromSharer
    <3> QED BY <2>1, <3>1, <3>3, <3>4 DEF HasProgram, Later
  <2>5. ASSUME Compile(g) PROVE HasProgram(c)
    <3>1. /\ c.program = Program(d.engine, d.data.registry)
          /\ Compiles(d.engine, d.data.registry, d.keys, d.expr)
      BY <1>1, <1>2, <2>5 DEF Compile, Shape, AreCalls, IsCall, CallFields
    <3>2. c.program.engine = c.engine /\ c.program.registry = c.data.registry
      BY <2>1, <3>1 DEF Program, Later
    <3>3. Compilable(c.program, c.expr)
      BY <2>1, <3>1, <3>2 DEF Compilable, Later
    <3> QED BY <3>2, <3>3 DEF HasProgram
  <2>6. c.pc = "run" => HasProgram(c)'
    BY <1>12, <2>1, <2>2, <2>4, <2>5, ProgramStays
  <2> QED BY <1>4, <2>1, <2>3, <2>6 DEF CallOK, Busy, Evaluator, Later
<1>13. CASE CompileFails(g) \/ Execute(g)
  <2>1. Later(c, d) /\ c.pc = "returned" /\ d.pc \in Evaluator /\ Transparent(c)
    BY <1>1, <1>2, <1>3, <1>13, ReturnedFresh
  <2>2. Settled(c.data.registry)
    BY <1>3, <2>1 DEF CallOK, HasEvaluator, Later
  <2>3. Settled(c.data.registry)' /\ Transparent(c)'
    BY <1>3, <2>1, <2>2, ReturnedStays
  <2> QED BY <2>1, <2>3 DEF CallOK, Busy, Evaluator
<1> QED BY <1>5, <1>6, <1>7, <1>8, <1>9, <1>10, <1>11, <1>12, <1>13 DEF Evaluate

(* An evaluation through a shared program cache returns what it would have *)
(* returned with an empty one, if the evaluators that share it agree.      *)
THEOREM CacheDoesNotShow == Spec => []CacheIsTransparent
<1> DEFINE Inv == Shape /\ TornInv /\ RegistryInv /\ CacheInv
<1>1. Init => Inv
  <2> SUFFICES ASSUME Init PROVE Inv
    OBVIOUS
  <2>1. TornInv /\ RegistryInv
    BY DEF Init, NoCall, NoWrapper, TornInv, UsedIsWhole, CallInv, Busy, Evaluator,
       RegistryInv, RegistriesExist, DefaultsAgree, StoringAgree
  <2>2. WrappersOK /\ CacheOK
    BY DEF Init, NoWrapper, WrappersOK, CacheOK
  <2>3. \A c \in Running : CallOK(c)
    BY DEF Init, Running, NoCall, CallOK, Busy, Evaluator
  <2> QED BY <2>1, <2>2, <2>3, ShapeHolds DEF CacheInv
<1>2. Inv /\ [Next]_vars => Inv'
  <2> SUFFICES ASSUME Inv, [Next]_vars PROVE Inv'
    OBVIOUS
  <2>1. Shape' /\ TornInv' /\ RegistryInv' /\ SameFunctions
    BY ShapeStep, TornStep, RegistryStep
  <2>2. Onward /\ WrappersOK'
    BY OnwardStep
  <2>3. CacheOK'
    BY <2>1, <2>2, CacheStep
  <2>4. \A c \in Running' : CallOK(c)'
    BY <2>1, <2>2, CallStep
  <2> QED BY <2>1, <2>2, <2>3, <2>4 DEF CacheInv
<1>3. Inv => CacheIsTransparent
  BY DEF CacheInv, Running, CallOK, Transparent, CacheIsTransparent
<1> QED BY <1>1, <1>2, <1>3, PTL DEF Spec

=============================================================================
