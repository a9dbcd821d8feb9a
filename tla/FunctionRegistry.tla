--------------------------- MODULE FunctionRegistry ---------------------------
(***************************************************************************)
(* FunctionRegistry (function_registry.go) among goroutines: Register,     *)
(* Call, Clone and Names step by step under its RWMutex, with functions    *)
(* that use the registry themselves while they run.  Evaluators has the    *)
(* same operations as single steps.                                        *)
(***************************************************************************)
EXTENDS Naturals, Sequences

CONSTANTS
  Goroutines,
  Symbols,    \* the names the program registers and calls functions by
  Lowered,    \* what strings.ToLower makes of each
  Functions,
  None,       \* no function, no name, no goroutine
  Body,       \* the calls each function makes, in order
  Program,    \* the calls each goroutine makes, in order
  Seed        \* what is registered at first, as a function of lowered names

Calls ==
  [op : {"register"}, name : Symbols \cup {None}, fn : Functions \cup {None}]
    \cup [op : {"call"}, name : Symbols, fn : {None}]
    \cup [op : {"clone", "names"}, name : {None}, fn : {None}]

ASSUME RegistryAssumption ==
  /\ None \notin Functions \cup Symbols \cup Goroutines
  /\ Lowered \in [Symbols -> Symbols]
  /\ Body \in [Functions -> Seq(Calls)] /\ Program \in [Goroutines -> Seq(Calls)]
  /\ DOMAIN Seed \subseteq Symbols /\ \A key \in DOMAIN Seed : Seed[key] \in Functions

VARIABLES
  functions,  \* FunctionRegistry.functions
  writer,     \* the goroutine that has called mu.Lock, from then on until Unlock
  readers,    \* how often each goroutine has mu locked for reading
  frames,     \* what each goroutine is in, the outermost call first
  past,       \* the registries there have been, this one last; a history
  accepted    \* the registrations that returned without an error; a history

vars == <<functions, writer, readers, frames, past, accepted>>

-----------------------------------------------------------------------------
(* A call on its way: its arguments, where it is, the calls the function   *)
(* it runs has yet to make, the names it has yet to copy and the entries   *)
(* it has copied, and which registry it was called on.                     *)
Frame(call, at, rest) ==
  [op |-> call.op, name |-> call.name, fn |-> call.fn, at |-> at, rest |-> rest,
   todo |-> {}, copy |-> {}, since |-> Len(past)]

Top(g)   == frames[g][Len(frames[g])]
Below(g) == SubSeq(frames[g], 1, Len(frames[g]) - 1)

In(g, ops, at) == frames[g] # << >> /\ Top(g).op \in ops /\ Top(g).at = at

Become(g, frame) == frames' = [frames EXCEPT ![g] = Append(Below(g), frame)]
Goto(g, at) == Become(g, [Top(g) EXCEPT !.at = at])
Return(g)   == frames' = [frames EXCEPT ![g] = Below(g)]

KeyOf(name) == Lowered[name]
Found(name) == IF KeyOf(name) \in DOMAIN functions THEN functions[KeyOf(name)] ELSE None

(* A goroutine runs its program as if a function.                          *)
Init ==
  /\ functions = Seed
  /\ writer = None
  /\ readers = [g \in Goroutines |-> 0]
  /\ past = <<Seed>>
  /\ frames = [g \in Goroutines |->
       <<Frame([op |-> "call", name |-> None, fn |-> None], "running", Program[g])>>]
  /\ accepted = {}

(* sync.RWMutex: Lock keeps out new readers from the moment it is called,  *)
(* and waits for those there are.                                          *)
RLock(g) ==
  /\ writer = None
  /\ readers' = [readers EXCEPT ![g] = @ + 1]
  /\ UNCHANGED writer

RUnlock(g) == readers' = [readers EXCEPT ![g] = @ - 1] /\ UNCHANGED writer

Unread == \A g \in Goroutines : readers[g] = 0

-----------------------------------------------------------------------------
(* What a goroutine runs makes its next call.                              *)
MakeCall(g) ==
  /\ In(g, {"call"}, "running")
  /\ Top(g).rest # << >>
  /\ frames' = [frames EXCEPT ![g] =
       Below(g) \o <<[Top(g) EXCEPT !.rest = Tail(@)], Frame(Head(Top(g).rest), "called", << >>)>>]
  /\ UNCHANGED <<functions, writer, readers, past, accepted>>

IsEntry(frame) == frame.fn # None /\ frame.name # None

(* Register returns an error for no function and for no name.              *)
RefuseEntry(g) ==
  /\ In(g, {"register"}, "called")
  /\ ~IsEntry(Top(g))
  /\ Return(g)
  /\ UNCHANGED <<functions, writer, readers, past, accepted>>

CallLock(g) ==
  /\ In(g, {"register"}, "called")
  /\ IsEntry(Top(g))
  /\ writer = None
  /\ writer' = g
  /\ Goto(g, "waiting")
  /\ UNCHANGED <<functions, readers, past, accepted>>

GetLock(g) ==
  /\ In(g, {"register"}, "waiting")
  /\ Unread
  /\ Goto(g, "checking")
  /\ UNCHANGED <<functions, writer, readers, past, accepted>>

CheckDuplicate(g) ==
  /\ In(g, {"register"}, "checking")
  /\ Goto(g, IF Found(Top(g).name) = None THEN "storing" ELSE "refused")
  /\ UNCHANGED <<functions, writer, readers, past, accepted>>

StoreFunction(g) ==
  LET key == KeyOf(Top(g).name)
      now == [k \in DOMAIN functions \cup {key} |-> IF k = key THEN Top(g).fn ELSE functions[k]]
  IN  /\ In(g, {"register"}, "storing")
      /\ functions' = now
      /\ past' = Append(past, now)
      /\ Goto(g, "stored")
      /\ UNCHANGED <<writer, readers, accepted>>

Refuse(g) == In(g, {"register"}, "refused") /\ Return(g) /\ UNCHANGED accepted

Accept(g) ==
  /\ In(g, {"register"}, "stored")
  /\ Return(g)
  /\ accepted' = accepted \cup {<<KeyOf(Top(g).name), Top(g).fn>>}

(* The deferred Unlock, for either outcome.                                *)
ReleaseLock(g) ==
  /\ Refuse(g) \/ Accept(g)
  /\ writer' = None
  /\ UNCHANGED <<functions, readers, past>>

RegisterAsReader(g) ==
  \/ RefuseEntry(g) \/ CheckDuplicate(g) \/ StoreFunction(g)
  \/ /\ In(g, {"register"}, "called")
     /\ IsEntry(Top(g))
     /\ RLock(g)
     /\ Goto(g, "checking")
     /\ UNCHANGED <<functions, past, accepted>>
  \/ /\ Refuse(g) \/ Accept(g)
     /\ RUnlock(g)
     /\ UNCHANGED <<functions, past>>

Register(g) ==
  \/ RefuseEntry(g) \/ CallLock(g) \/ GetLock(g)
  \/ CheckDuplicate(g) \/ StoreFunction(g) \/ ReleaseLock(g)

-----------------------------------------------------------------------------
Look(g) ==
  /\ In(g, {"call"}, "called")
  /\ RLock(g)
  /\ Become(g, [Top(g) EXCEPT !.at = "looked", !.fn = Found(Top(g).name)])
  /\ UNCHANGED <<functions, past, accepted>>

Start(g) ==
  /\ In(g, {"call"}, "looked")
  /\ Top(g).fn # None
  /\ Become(g, [Top(g) EXCEPT !.at = "running", !.rest = Body[Top(g).fn]])
  /\ UNCHANGED <<functions, past, accepted>>

ReportMissing(g) ==
  /\ In(g, {"call"}, "looked")
  /\ Top(g).fn = None
  /\ Return(g)
  /\ UNCHANGED <<functions, past, accepted>>

FinishRun(g) ==
  /\ In(g, {"call"}, "running")
  /\ Top(g).rest = << >>
  /\ Return(g)
  /\ UNCHANGED <<functions, past, accepted>>

(* As with a deferred RUnlock.                                             *)
CallHoldingLock(g) ==
  \/ Look(g)
  \/ (Start(g) /\ UNCHANGED <<writer, readers>>)
  \/ (ReportMissing(g) /\ RUnlock(g))
  \/ (FinishRun(g) /\ IF Top(g).name = None THEN UNCHANGED <<writer, readers>> ELSE RUnlock(g))

(* Call gives the lock back, and only then runs the function it has found, *)
(* or returns an error for none.                                           *)
Call(g) ==
  \/ Look(g)
  \/ ((Start(g) \/ ReportMissing(g)) /\ RUnlock(g))
  \/ (FinishRun(g) /\ UNCHANGED <<writer, readers>>)

-----------------------------------------------------------------------------
(* Clone ranges over the entries, and Names over the names.  A range goes  *)
(* through a map in no order, and meets what is put there meanwhile or not.*)
Range(g) ==
  /\ In(g, {"clone", "names"}, "called")
  /\ Become(g, [Top(g) EXCEPT !.at = "copying", !.todo = DOMAIN functions])
  /\ UNCHANGED <<functions, past, accepted>>

EntryOf(op, key, registry) == <<key, IF op = "clone" THEN registry[key] ELSE None>>

CopyEntry(g) ==
  /\ In(g, {"clone", "names"}, "copying")
  /\ \E key \in DOMAIN functions :
       /\ \A entry \in Top(g).copy : entry[1] # key
       /\ Become(g, [Top(g) EXCEPT !.todo = @ \ {key},
                                   !.copy = @ \cup {EntryOf(Top(g).op, key, functions)}])
  /\ UNCHANGED <<functions, writer, readers, past, accepted>>

ReturnCopy(g) ==
  /\ In(g, {"clone", "names"}, "copying")
  /\ Top(g).todo = {}
  /\ Return(g)
  /\ UNCHANGED <<functions, past, accepted>>

CopyUnlocked(g) ==
  CopyEntry(g) \/ ((Range(g) \/ ReturnCopy(g)) /\ UNCHANGED <<writer, readers>>)

Copy(g) == CopyEntry(g) \/ (Range(g) /\ RLock(g)) \/ (ReturnCopy(g) /\ RUnlock(g))

Step(g) == MakeCall(g) \/ Register(g) \/ Call(g) \/ Copy(g)

Next == \E g \in Goroutines : Step(g)

(* A goroutine that can go on does so at some time.                        *)
Spec == Init /\ [][Next]_vars /\ \A g \in Goroutines : WF_vars(Step(g))

-----------------------------------------------------------------------------
(* Functions may use the registry they are in, also while others wait to   *)
(* register: Call has given the lock back before it runs one               *)
(* (function_registry.go 107-113), so that no goroutine waits for ever.    *)
EveryCallReturns == \A g \in Goroutines : <>(frames[g] = << >>)

(* Of all registrations under names that differ in case only, by whatever  *)
(* goroutine, one is accepted, and every Call from then on runs its        *)
(* function: the check for a duplicate and the store are one step          *)
(* (function_registry.go 73-83).                                           *)
RegistrationsStand ==
  /\ \A entry \in accepted : functions[entry[1]] = entry[2]
  /\ \A g \in Goroutines : \A i \in 2..Len(frames[g]) :
       frames[g][i].at = "running" => frames[g][i].fn = Found(frames[g][i].name)

(* What Clone and Names return is the registry as it was at one moment of  *)
(* the call, though they go through it entry by entry while others         *)
(* register (function_registry.go 91-98, 121-126).                         *)
CopiesAreOfAMoment ==
  \A g \in Goroutines :
    In(g, {"clone", "names"}, "copying") /\ Top(g).todo = {} =>
      \E i \in Top(g).since..Len(past) :
        Top(g).copy = {EntryOf(Top(g).op, key, past[i]) : key \in DOMAIN past[i]}
=============================================================================
