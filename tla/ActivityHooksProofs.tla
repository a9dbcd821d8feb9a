------------------------- MODULE ActivityHooksProofs -------------------------
(***************************************************************************)
(* What holds of the metadata of activity events, and of who hears of      *)
(* them, for any number of emissions, hooks, maps and slices of hooks.     *)
(***************************************************************************)
EXTENDS ActivityHooks, Induction

(* No two cells that are made for different things are the same.           *)
LEMMA CellsDiffer ==
  ASSUME NEW m \in ProgramMaps, NEW c \in Calls, NEW d \in Calls, NEW i \in Nat, NEW j \in Nat
  PROVE  /\ InProgram(m) # Built(c) /\ InProgram(m) # Normal(c) /\ InProgram(m) # Record(c, i)
         /\ Built(c) # Normal(d) /\ Built(c) # Record(d, i) /\ Normal(c) # Record(d, i)
         /\ Built(c) = Built(d) => c = d
         /\ Normal(c) = Normal(d) => c = d
         /\ Record(c, i) = Record(d, j) => c = d /\ i = j
         /\ ScopeOf(c) = ScopeOf(d) => c = d
         /\ ScopeOf(c) \notin {InProgram(m), Built(d), Normal(d), Record(d, i), Inner(m)}
         /\ Inner(m) \notin {InProgram(m), Built(c), Normal(c), Record(c, i)}
  BY DEF InProgram, Built, Normal, Record, ScopeOf, Inner

LEMMA ObjectsDiffer ==
  ASSUME NEW x \in Objects
  PROVE  /\ \A m \in ProgramMaps : x # InProgram(m)
         /\ \A c \in Calls : x # Built(c) /\ x # Normal(c)
         /\ \A c \in Calls, i \in Nat : x # Record(c, i)
<1>1. CASE x \in Inners
  <2>1. PICK m \in ProgramMaps : x = Inner(m)
    BY <1>1 DEF Inners
  <2> QED BY <2>1 DEF InProgram, Built, Normal, Record, Inner
<1>2. CASE x \notin Inners
  <2>1. PICK c \in Calls : x = ScopeOf(c)
    BY <1>2 DEF Objects
  <2> QED BY <2>1 DEF InProgram, Built, Normal, Record, ScopeOf
<1> QED BY <1>1, <1>2

LEMMA AreCells ==
  /\ \A m \in ProgramMaps : InProgram(m) \in Cells
  /\ \A c \in Calls : Built(c) \in Cells /\ Normal(c) \in Cells
  /\ \A c \in Calls, i \in 1..MaxHooks : Record(c, i) \in Cells
  /\ \A m \in ProgramMaps : Inner(m) \in Inners /\ Inner(m) \in Objects
  /\ \A c \in Calls : ScopeOf(c) \in Objects
  /\ Inners \subseteq Objects /\ Objects \subseteq Cells
  BY DEF Cells, Objects, Inners

LEMMA MarksAreNoObjects ==
  /\ Marks \cap Objects = {} /\ Entries = Marks \cup Objects
  /\ \A c \in Calls : ScopeOf(c) \notin Inners
  /\ By("program") \in Marks /\ By("details") \in Marks /\ By("code") \in Marks
  /\ \A h \in Hooks : By(h) \in Marks /\ By(h) \notin {By("program"), By("details"), By("code")}
  BY ActivityAssumption DEF Marks, Objects, Inners, By, Inner, ScopeOf, Entries

-----------------------------------------------------------------------------
(* The state of an emission, with its fields.                              *)
CallFields == {"pc", "at", "event", "errs", "heard", "start"}
IsCall(r)  == r = [f \in CallFields |-> r[f]]

HookCalls  == [hook : Hooks, failed : BOOLEAN]
MarksBy(c) == {By(h) : h \in HeardBy(c)}
Before(r)  == {By(call[r.call].heard[i].hook) : i \in 1..r.at - 1}
Own(r)     == IF KindOf[call[r.call].heard[r.at].hook] = "sink" THEN Code(r.call) ELSE {}

Shapes ==
  /\ entries \in [Cells -> SUBSET Entries]
  /\ call = [c \in Calls |-> call[c]]
  /\ kept = [h \in Hooks |-> kept[h]]
  /\ \A c \in Calls : /\ IsCall(call[c])
                      /\ call[c].heard \in Seq(HookCalls)
                      /\ call[c].pc = "idle" => call[c].heard = <<>>

(* The event of an emission has a map of its own, or none; it holds what   *)
(* the event held when it was emitted and what hooks that have been called *)
(* wrote; only those can have kept it.                                     *)
EventOwn ==
  /\ \A c \in Calls :
       LET has == In(entries, call[c].event.metadata)
       IN  /\ call[c].event.metadata \in {Normal(c), Nil}
           /\ call[c].pc # "idle" => call[c].start \subseteq has
           /\ call[c].pc # "idle" => has \ call[c].start \subseteq MarksBy(c)
  /\ \A h \in Hooks : \A cell \in kept[h] :
       \E c \in Calls : cell = Normal(c) /\ cell = call[c].event.metadata /\ h \in HeardBy(c)

(* A record has a map of its own, or none, made when its hook was called.  *)
RecordOwn ==
  \A r \in recorded :
    /\ r.call \in Calls /\ r.at \in 1..Len(call[r.call].heard) /\ r.at \in 1..MaxHooks
    /\ r.cell \in {Record(r.call, r.at), Nil}
    /\ call[r.call].start \subseteq In(entries, r.cell)
    /\ In(entries, r.cell) \ call[r.call].start \subseteq Before(r) \cup Own(r)

(* An event is emitted with objects of the program and its own scope's     *)
(* metadata; in that may be an object of the program, in those is none.    *)
ObjectsOwn ==
  /\ \A m \in ProgramMaps : entries[Inner(m)] \subseteq Marks
  /\ \A c \in Calls : call[c].start \cap Objects \subseteq Inners \cup {ScopeOf(c)}
  /\ \A c \in Calls :
       entries[ScopeOf(c)] \subseteq {By("program")} \cup Inners \cup MarksBy(c)

(* What a step leaves of the records there are.                            *)
Final == \A r \in recorded : r \in recorded' /\ In(entries', r.cell) = In(entries, r.cell)

(* The entries of the program's maps, and what hooks wrote below them.     *)
MapsKept ==
  /\ \A m \in ProgramMaps : entries[InProgram(m)] \subseteq {By("program"), Inner(m)}
  /\ \A c \in Calls :
       entries[Built(c)] \subseteq {By("program"), By("details"), ScopeOf(c)} \cup Inners
HandedOn ==
  \A m \in ProgramMaps, h \in Hooks :
    By(h) \in entries[Inner(m)] => \E c \in Calls : h \in HeardBy(c) /\ Inner(m) \in Handed(c)

MapInv == Shapes /\ EventOwn /\ RecordOwn /\ ObjectsOwn /\ MapsKept /\ HandedOn

-----------------------------------------------------------------------------
LEMMA MapInit == Init => MapInv
<1> SUFFICES ASSUME Init PROVE MapInv
  OBVIOUS
<1>1. \A c \in Calls : call[c] = Idle
  BY DEF Init
<1>2. IsCall(Idle) /\ Idle.heard = <<>> /\ Idle.event.metadata = Nil /\ Idle.pc = "idle"
  BY DEF Idle, NoEvent, IsCall, CallFields
<1>3. Shapes
  <2>1. entries \in [Cells -> SUBSET Entries] /\ kept = [h \in Hooks |-> kept[h]]
    <3>1. PICK full \in SUBSET ProgramMaps :
            entries = [x \in Cells |-> {Inner(m) : m \in {n \in full : x = InProgram(n)}}]
      BY DEF Init
    <3>2. \A x \in Cells : {Inner(m) : m \in {n \in full : x = InProgram(n)}} \in SUBSET Entries
      BY AreCells DEF Entries
    <3> HIDE DEF Init
    <3>3. entries \in [Cells -> SUBSET Entries]
      BY <3>1, <3>2
    <3>4. kept = [h \in Hooks |-> kept[h]]
      BY DEF Init
    <3> QED BY <3>3, <3>4
  <2>2. call = [c \in Calls |-> call[c]]
    BY DEF Init
  <2>3. <<>> \in Seq(HookCalls)
    OBVIOUS
  <2>4. \A c \in Calls : IsCall(call[c]) /\ call[c].heard = <<>>
    BY <1>1, <1>2
  <2> QED BY <2>1, <2>2, <2>3, <2>4 DEF Shapes
<1>4. EventOwn
  BY <1>1, <1>2 DEF EventOwn, Init
<1>5. RecordOwn
  BY DEF RecordOwn, Init
<1>6. PICK full \in SUBSET ProgramMaps :
         entries = [x \in Cells |-> {Inner(m) : m \in {n \in full : x = InProgram(n)}}]
  BY DEF Init
<1>7. \A x \in Cells : entries[x] = {Inner(m) : m \in {n \in full : x = InProgram(n)}}
  BY <1>6
<1>8. \A x \in Objects : entries[x] = {}
  <2> TAKE x \in Objects
  <2>1. {n \in full : x = InProgram(n)} = {} /\ x \in Cells
    BY AreCells, ObjectsDiffer
  <2> QED BY <1>7, <2>1
<1>9. ObjectsOwn
  <2>1. Idle.start = {}
    BY DEF Idle
  <2>2. \A c \in Calls : call[c].start = {}
    BY <1>1, <2>1
  <2> QED BY <1>8, <2>2, AreCells DEF ObjectsOwn
<1>10. MapsKept
  <2>1. \A m \in ProgramMaps : entries[InProgram(m)] \subseteq {Inner(m)}
    <3> TAKE m \in ProgramMaps
    <3>1. \A n \in ProgramMaps : InProgram(m) = InProgram(n) => n = m
      BY DEF InProgram
    <3> QED BY <1>7, <3>1, AreCells
  <2>2. \A c \in Calls : entries[Built(c)] = {}
    <3> TAKE c \in Calls
    <3>1. {n \in full : Built(c) = InProgram(n)} = {}
      BY DEF InProgram, Built
    <3> QED BY <1>7, <3>1, AreCells
  <2> QED BY <2>1, <2>2 DEF MapsKept
<1>11. HandedOn
  BY <1>8, AreCells DEF HandedOn
<1> QED
  BY <1>3, <1>4, <1>5, <1>9, <1>10, <1>11 DEF MapInv

-----------------------------------------------------------------------------
(* What an emission hands to hooks it goes on handing them.                *)
LEMMA HandedGrows ==
  ASSUME MapInv, NEW d \in Calls, call'[d].start = call[d].start,
         \A x \in Inners \cup {ScopeOf(d)} : entries[x] \subseteq entries'[x]
  PROVE  Handed(d) \subseteq Handed(d)'
<1>1. call[d].start \cap Objects \subseteq Inners \cup {ScopeOf(d)}
  BY DEF MapInv, ObjectsOwn
<1> QED BY <1>1 DEF Handed, AndBelow

LEMMA WritersWereHanded ==
  ASSUME MapInv,
         \A m \in ProgramMaps, h \in Hooks : By(h) \in entries'[Inner(m)] => By(h) \in entries[Inner(m)],
         \A x \in Inners : entries[x] \subseteq entries'[x],
         \A d \in Calls : HeardBy(d) \subseteq HeardBy(d)',
         \A d \in Calls : HeardBy(d) # {} =>
            call'[d].start = call[d].start /\ entries[ScopeOf(d)] \subseteq entries'[ScopeOf(d)]
  PROVE  HandedOn'
<1> SUFFICES ASSUME NEW m \in ProgramMaps, NEW h \in Hooks, By(h) \in entries'[Inner(m)]
             PROVE  \E c \in Calls : h \in HeardBy(c)' /\ Inner(m) \in Handed(c)'
  BY DEF HandedOn
<1>1. PICK c \in Calls : h \in HeardBy(c) /\ Inner(m) \in Handed(c)
  BY DEF MapInv, HandedOn
<1>2. Handed(c) \subseteq Handed(c)'
  BY <1>1, HandedGrows
<1> QED BY <1>1, <1>2

LEMMA ObjectsStay ==
  ASSUME MapInv, \A x \in Objects : entries'[x] = entries[x],
         \A d \in Calls : call'[d].start = call[d].start /\ HeardBy(d) \subseteq HeardBy(d)'
  PROVE  ObjectsOwn' /\ HandedOn'
<1>1. \A c \in Calls : MarksBy(c) \subseteq MarksBy(c)'
  BY DEF MarksBy
<1>2. ObjectsOwn'
  BY <1>1, AreCells DEF MapInv, ObjectsOwn
<1> QED BY <1>2, AreCells, WritersWereHanded

(* What a hook can reach from the events it has kept was handed to it.     *)
LEMMA Reached ==
  ASSUME MapInv, NEW h \in Hooks, NEW cell \in AndBelow(AndBelow(kept[h]))
  PROVE  \E c \in Calls :
           /\ h \in HeardBy(c)
           /\ \/ cell = Normal(c)
              \/ cell \in Handed(c) /\ cell \in Inners \cup {ScopeOf(c)}
<1>0. \A c \in Calls : MarksBy(c) \subseteq Marks
  <2> TAKE c \in Calls
  <2>1. call[c].heard \in Seq(HookCalls)
    BY DEF MapInv, Shapes
  <2>2. \A i \in 1..Len(call[c].heard) : call[c].heard[i] \in HookCalls
    BY <2>1
  <2> QED BY <2>2, MarksAreNoObjects DEF MarksBy, HeardBy, HookCalls
<1>1. \A c \in Calls : Handed(c) \subseteq Inners \cup {ScopeOf(c)}
  <2> SUFFICES ASSUME NEW c \in Calls, NEW x \in Handed(c) PROVE x \in Inners \cup {ScopeOf(c)}
    OBVIOUS
  <2>1. call[c].start \cap Objects \subseteq Inners \cup {ScopeOf(c)}
    BY DEF MapInv, ObjectsOwn
  <2>2. CASE x \in call[c].start \cap Objects
    BY <2>1, <2>2
  <2>3. CASE x \notin call[c].start \cap Objects
    <3>1. PICK y \in call[c].start \cap Objects : x \in entries[y] /\ x \in Objects
      BY <2>3 DEF Handed, AndBelow
    <3>2. CASE y \in Inners
      <4>1. PICK m \in ProgramMaps : y = Inner(m)
        BY <3>2 DEF Inners
      <4> QED BY <3>1, <4>1, MarksAreNoObjects DEF MapInv, ObjectsOwn
    <3>3. CASE y = ScopeOf(c)
      <4>1. entries[y] \subseteq {By("program")} \cup Inners \cup MarksBy(c)
        BY <3>3 DEF MapInv, ObjectsOwn
      <4> QED BY <1>0, <3>1, <4>1, MarksAreNoObjects
    <3> QED BY <2>1, <3>1, <3>2, <3>3
  <2> QED BY <2>2, <2>3
<1>2. \A x \in kept[h] : \E c \in Calls :
         /\ x = Normal(c) /\ h \in HeardBy(c)
         /\ entries[x] \cap Objects \subseteq call[c].start \cap Objects
  <2> SUFFICES ASSUME NEW x \in kept[h]
               PROVE  \E c \in Calls :
                        /\ x = Normal(c) /\ h \in HeardBy(c)
                        /\ entries[x] \cap Objects \subseteq call[c].start \cap Objects
    OBVIOUS
  <2>1. PICK c \in Calls : x = Normal(c) /\ x = call[c].event.metadata /\ h \in HeardBy(c)
    BY DEF MapInv, EventOwn
  <2>2. x # Nil /\ call[c].pc # "idle"
    <3>1. x # Nil
      BY <2>1, AreCells, ActivityAssumption
    <3>2. Len(<<>>) = 0 /\ 1..0 = {}
      OBVIOUS
    <3>3. call[c].heard # <<>>
      BY <2>1, <3>2 DEF HeardBy
    <3> QED BY <3>1, <3>3 DEF MapInv, Shapes
  <2>3. entries[x] \ call[c].start \subseteq MarksBy(c)
    BY <2>1, <2>2 DEF MapInv, EventOwn, In
  <2> QED BY <1>0, <2>1, <2>3, MarksAreNoObjects
<1>3. \A x \in AndBelow(kept[h]) : \E c \in Calls :
         /\ h \in HeardBy(c)
         /\ x = Normal(c) \/ x \in call[c].start \cap Objects
  BY <1>2 DEF AndBelow
<1>4. \A x \in AndBelow(AndBelow(kept[h])) : \E c \in Calls :
         /\ h \in HeardBy(c)
         /\ x = Normal(c) \/ x \in Handed(c)
  <2> SUFFICES ASSUME NEW x \in AndBelow(AndBelow(kept[h]))
               PROVE  \E c \in Calls : h \in HeardBy(c) /\ (x = Normal(c) \/ x \in Handed(c))
    OBVIOUS
  <2>1. CASE x \in AndBelow(kept[h])
    BY <1>3, <2>1 DEF Handed, AndBelow
  <2>2. CASE x \notin AndBelow(kept[h])
    <3>1. PICK y \in AndBelow(kept[h]) : x \in entries[y] /\ x \in Objects
      BY <2>2 DEF AndBelow
    <3>2. y \notin kept[h]
      BY <2>2, <3>1 DEF AndBelow
    <3>3. y \in Objects
      BY <3>1, <3>2 DEF AndBelow
    <3>4. PICK c \in Calls : h \in HeardBy(c) /\ (y = Normal(c) \/ y \in call[c].start \cap Objects)
      BY <1>3, <3>1
    <3>5. y # Normal(c)
      BY <3>3, ObjectsDiffer
    <3> QED BY <3>1, <3>4, <3>5 DEF Handed, AndBelow
  <2> QED BY <2>1, <2>2
<1> QED BY <1>1, <1>4

-----------------------------------------------------------------------------
(* What an emission emits: the event it builds, or the program's.          *)
LEMMA Emitted ==
  ASSUME MapInv, NEW c \in Calls, NEW in \in Requests
  PROVE  LET m == EntriesOf(c, in)
             x == EventOf(c, in).metadata
         IN  /\ m \in [Cells -> SUBSET Entries]
             /\ \A cell \in Cells : cell \notin {Built(c), ScopeOf(c)} => m[cell] = entries[cell]
             /\ m[Built(c)] \subseteq {By("program"), By("details"), ScopeOf(c)} \cup Inners
             /\ m[ScopeOf(c)] \subseteq {By("program")} \cup Inners \cup MarksBy(c)
             /\ In(m, x) \subseteq {By("program"), By("details"), ScopeOf(c)} \cup Inners
<1> DEFINE Allowed == {By("program"), By("details"), ScopeOf(c)} \cup Inners
<1>1. /\ entries \in [Cells -> SUBSET Entries] /\ Built(c) \in Cells /\ ScopeOf(c) \in Cells
      /\ Built(c) # ScopeOf(c)
  BY AreCells DEF MapInv, Shapes, Built, ScopeOf
<1>2. /\ entries[Built(c)] \subseteq Allowed
      /\ entries[ScopeOf(c)] \subseteq {By("program")} \cup Inners \cup MarksBy(c)
  BY DEF MapInv, MapsKept, ObjectsOwn
<1>3. \A x \in {in.metadata, in.scope} : x = Nil \/ \E m \in ProgramMaps : x = InProgram(m)
  BY ActivityAssumption
<1>4. \A x \in {in.metadata, in.scope, Nil} : In(entries, x) \subseteq {By("program")} \cup Inners
  BY <1>3, AreCells DEF In, MapInv, MapsKept
<1>5. Allowed \subseteq Entries
  BY AreCells, MarksAreNoObjects
<1>6. CASE in.built
  <2>1. In(entries, ScopeGiven(in)) \subseteq {By("program")} \cup Inners
    BY <1>4 DEF ScopeGiven
  <2>2. Added(c, in) \subseteq Allowed
    BY ActivityAssumption DEF Added, Given, Clone
  <2> DEFINE m0 == [entries EXCEPT ![ScopeOf(c)] = In(entries, ScopeGiven(in))]
             top == In(entries, in.metadata) \cup Added(c, in)
  <2>3. EntriesOf(c, in) = [m0 EXCEPT ![Built(c)] = top]
    BY <1>6 DEF EntriesOf, BuiltIn, CloneIn
  <2>4. top \subseteq Allowed
    BY <1>4, <2>2
  <2>5. EventOf(c, in).metadata \in {Built(c), Nil}
    BY <1>6 DEF EventOf, BuildOptionsEvent, Clone
  <2> HIDE DEF top, Allowed
  <2>6. /\ m0 \in [Cells -> SUBSET Entries]
        /\ m0[ScopeOf(c)] = In(entries, ScopeGiven(in))
        /\ \A cell \in Cells : cell # ScopeOf(c) => m0[cell] = entries[cell]
    BY <1>1, <2>1, AreCells, MarksAreNoObjects
  <2> HIDE DEF m0
  <2>7. /\ EntriesOf(c, in) \in [Cells -> SUBSET Entries]
        /\ EntriesOf(c, in)[Built(c)] = top
        /\ EntriesOf(c, in)[ScopeOf(c)] = In(entries, ScopeGiven(in))
        /\ \A cell \in Cells :
             cell \notin {Built(c), ScopeOf(c)} => EntriesOf(c, in)[cell] = entries[cell]
    BY <1>1, <1>5, <2>3, <2>4, <2>6
  <2>8. In(EntriesOf(c, in), EventOf(c, in).metadata) \subseteq top
    BY <2>5, <2>7 DEF In
  <2> QED BY <2>1, <2>4, <2>7, <2>8 DEF Allowed
<1>7. CASE ~in.built
  <2>1. EntriesOf(c, in) = entries /\ EventOf(c, in).metadata = in.metadata
    BY <1>7 DEF EntriesOf, EventOf, RawEvent
  <2> QED BY <1>1, <1>2, <1>4, <2>1
<1> QED BY <1>6, <1>7

LEMMA BeginKeeps ==
  ASSUME MapInv, NEW c \in Calls, NEW in \in Requests, NEW list,
         call[c].pc = "idle", Begin(c, in, list)
  PROVE  MapInv' /\ Final
<1> DEFINE m == EntriesOf(c, in)
           x == EventOf(c, in).metadata
           start == In(m, x)
           event == NormalizeEvent(m, EventOf(c, in), Normal(c))
           pcNext == IF list # <<>> /\ Complete(event) THEN "notify" ELSE "done"
           Allowed == {By("program"), By("details"), ScopeOf(c)} \cup Inners
<1>1. /\ m \in [Cells -> SUBSET Entries] /\ m[Built(c)] \subseteq Allowed
      /\ \A cell \in Cells : cell \notin {Built(c), ScopeOf(c)} => m[cell] = entries[cell]
      /\ start \subseteq Allowed /\ start \subseteq Entries
      /\ m[ScopeOf(c)] \subseteq {By("program")} \cup Inners \cup MarksBy(c)
  <2>1. Allowed \subseteq Entries
    BY AreCells, MarksAreNoObjects
  <2> QED BY <2>1, Emitted
<1>2. Normal(c) \in Cells /\ Normal(c) # Nil
  BY AreCells, ActivityAssumption
<1>3. entries' = [m EXCEPT ![Normal(c)] = start] /\ UNCHANGED <<recorded, kept>>
  BY DEF Begin, NormalizeIn, CloneIn
<1>4. event.metadata = IF start = {} THEN Nil ELSE Normal(c)
  BY DEF NormalizeEvent, Clone
<1>5. call' = [call EXCEPT ![c] = [@ EXCEPT !.pc = pcNext, !.event = event, !.start = start]]
  BY DEF Begin
<1> HIDE DEF m, x, start, event, Allowed
<1>6. /\ IsCall(call[c]) /\ call = [d \in Calls |-> call[d]]
      /\ call[c].heard = <<>> /\ \A d \in Calls : call[d].heard \in Seq(HookCalls)
  BY DEF MapInv, Shapes
<1>7. /\ IsCall(call'[c]) /\ call'[c].heard = <<>> /\ call'[c].pc # "idle"
      /\ call'[c].event = event /\ call'[c].start = start
  BY <1>5, <1>6 DEF IsCall, CallFields
<1>8. call' = [d \in Calls |-> call'[d]] /\ \A d \in Calls : d # c => call'[d] = call[d]
  BY <1>5, <1>6
<1>9. /\ entries' \in [Cells -> SUBSET Entries]
      /\ entries'[Normal(c)] = start
      /\ \A cell \in Cells :
           cell \notin {Built(c), Normal(c), ScopeOf(c)} => entries'[cell] = entries[cell]
      /\ entries'[Built(c)] \subseteq Allowed
      /\ entries'[ScopeOf(c)] \subseteq {By("program")} \cup Inners \cup MarksBy(c)
  <2>1. Built(c) # Normal(c) /\ ScopeOf(c) # Normal(c) /\ ScopeOf(c) \in Cells /\ Built(c) \in Cells
    BY AreCells DEF Built, Normal, ScopeOf
  <2> QED BY <1>1, <1>2, <1>3, <2>1
<1>10. Shapes'
  <2>1. \A d \in Calls : IsCall(call'[d]) /\ call'[d].heard \in Seq(HookCalls)
                           /\ (call'[d].pc = "idle" => call'[d].heard = <<>>)
    <3>1. SUFFICES ASSUME NEW d \in Calls
                   PROVE  IsCall(call'[d]) /\ call'[d].heard \in Seq(HookCalls)
                            /\ (call'[d].pc = "idle" => call'[d].heard = <<>>)
      OBVIOUS
    <3>2. CASE d = c
      BY <1>6, <1>7, <3>2
    <3>3. CASE d # c
      BY <1>8, <3>3 DEF MapInv, Shapes
    <3> QED BY <3>2, <3>3
  <2>2. kept' = [h \in Hooks |-> kept'[h]]
    BY <1>3 DEF MapInv, Shapes
  <2> QED BY <1>8, <1>9, <2>1, <2>2 DEF Shapes, IsCall
<1>11. EventOwn'
  <2>1. \A d \in Calls :
          LET has == In(entries', call'[d].event.metadata)
          IN  /\ call'[d].event.metadata \in {Normal(d), Nil}
              /\ call'[d].pc # "idle" => call'[d].start \subseteq has
              /\ call'[d].pc # "idle" => has \ call'[d].start \subseteq MarksBy(d)'
    <3> SUFFICES ASSUME NEW d \in Calls
                 PROVE  LET has == In(entries', call'[d].event.metadata)
                        IN  /\ call'[d].event.metadata \in {Normal(d), Nil}
                            /\ call'[d].pc # "idle" => call'[d].start \subseteq has
                            /\ call'[d].pc # "idle" => has \ call'[d].start \subseteq MarksBy(d)'
      OBVIOUS
    <3>1. CASE d = c
      <4>1. In(entries', event.metadata) = start
        BY <1>2, <1>4, <1>9 DEF In
      <4> QED BY <1>4, <1>7, <3>1, <4>1
    <3>2. CASE d # c
      <4>1. call'[d] = call[d] /\ MarksBy(d)' = MarksBy(d)
        BY <1>8, <3>2 DEF HeardBy, MarksBy
      <4>2. Normal(d) \in Cells /\ Normal(d) \notin {Built(c), Normal(c), ScopeOf(c)}
        BY AreCells, CellsDiffer, <3>2 DEF Normal, Built, ScopeOf
      <4>3. In(entries', call[d].event.metadata) = In(entries, call[d].event.metadata)
        BY <1>9, <4>2 DEF In, MapInv, EventOwn
      <4> QED BY <4>1, <4>3 DEF MapInv, EventOwn
    <3> QED BY <3>1, <3>2
  <2>2. \A h \in Hooks : \A cell \in kept'[h] :
          \E d \in Calls : cell = Normal(d) /\ cell = call'[d].event.metadata /\ h \in HeardBy(d)'
    <3> SUFFICES ASSUME NEW h \in Hooks, NEW cell \in kept[h]
                 PROVE  \E d \in Calls :
                          cell = Normal(d) /\ cell = call'[d].event.metadata /\ h \in HeardBy(d)'
      BY <1>3
    <3>1. PICK d \in Calls : cell = Normal(d) /\ cell = call[d].event.metadata /\ h \in HeardBy(d)
      BY DEF MapInv, EventOwn
    <3>2. d # c
      BY <1>6, <3>1 DEF HeardBy
    <3> QED BY <1>8, <3>1, <3>2 DEF HeardBy
  <2> QED BY <2>1, <2>2 DEF EventOwn, HeardBy, MarksBy
<1>12. RecordOwn' /\ Final
  <2> SUFFICES ASSUME NEW r \in recorded
               PROVE  /\ r.call \in Calls /\ r.at \in 1..Len(call'[r.call].heard)
                      /\ r.at \in 1..MaxHooks /\ r.cell \in {Record(r.call, r.at), Nil}
                      /\ call'[r.call].start \subseteq In(entries', r.cell)
                      /\ In(entries', r.cell) \ call'[r.call].start \subseteq Before(r)' \cup Own(r)'
                      /\ In(entries', r.cell) = In(entries, r.cell)
    BY <1>3 DEF RecordOwn, Final
  <2>1. /\ r.call \in Calls /\ r.at \in 1..Len(call[r.call].heard) /\ r.at \in 1..MaxHooks
        /\ r.cell \in {Record(r.call, r.at), Nil}
        /\ call[r.call].start \subseteq In(entries, r.cell)
        /\ In(entries, r.cell) \ call[r.call].start \subseteq Before(r) \cup Own(r)
    BY DEF MapInv, RecordOwn
  <2>2. r.call # c
    <3>1. Len(<<>>) = 0 /\ ~ r.at \in 1..0
      BY <2>1
    <3> QED BY <1>6, <2>1, <3>1
  <2>3. call'[r.call] = call[r.call]
    BY <1>8, <2>1, <2>2
  <2>4. Before(r)' = Before(r) /\ Own(r)' = Own(r)
    BY <2>3 DEF Before, Own, Code
  <2>5. Record(r.call, r.at) \in Cells /\ Record(r.call, r.at) \notin {Built(c), Normal(c), ScopeOf(c)}
    BY <2>1, AreCells, CellsDiffer DEF Record, Built, Normal, ScopeOf
  <2>6. In(entries', r.cell) = In(entries, r.cell)
    BY <1>9, <2>1, <2>5 DEF In
  <2> QED BY <2>1, <2>3, <2>4, <2>6
<1>13. MapsKept'
  <2>1. \A p \in ProgramMaps :
          InProgram(p) \in Cells /\ InProgram(p) \notin {Built(c), Normal(c), ScopeOf(c)}
    BY AreCells DEF InProgram, Built, Normal, ScopeOf
  <2>2. \A d \in Calls :
          d # c => Built(d) \in Cells /\ Built(d) \notin {Built(c), Normal(c), ScopeOf(c)}
    BY AreCells DEF Built, Normal, ScopeOf
  <2>3. \A p \in ProgramMaps : entries'[InProgram(p)] \subseteq {By("program"), Inner(p)}
    BY <1>9, <2>1 DEF MapInv, MapsKept
  <2>4. \A d \in Calls :
          entries'[Built(d)] \subseteq {By("program"), By("details"), ScopeOf(d)} \cup Inners
    BY <1>9, <2>2 DEF MapInv, MapsKept, Allowed
  <2> QED BY <2>3, <2>4 DEF MapsKept
<1>14. /\ \A y \in Inners : entries'[y] = entries[y]
       /\ \A d \in Calls : d # c => entries'[ScopeOf(d)] = entries[ScopeOf(d)]
  <2>1. \A y \in Inners : y \in Cells /\ y \notin {Built(c), Normal(c), ScopeOf(c)}
    BY AreCells DEF Inners, Inner, Built, Normal, ScopeOf
  <2>2. \A d \in Calls :
          d # c => ScopeOf(d) \in Cells /\ ScopeOf(d) \notin {Built(c), Normal(c), ScopeOf(c)}
    BY AreCells DEF Built, Normal, ScopeOf
  <2> QED BY <1>9, <2>1, <2>2
<1>15. \A d \in Calls : HeardBy(d)' = HeardBy(d) /\ MarksBy(d)' = MarksBy(d)
  BY <1>6, <1>7, <1>8 DEF HeardBy, MarksBy
<1>16. ObjectsOwn'
  <2>1. \A m1 \in ProgramMaps : entries'[Inner(m1)] \subseteq Marks
    BY <1>14, AreCells DEF MapInv, ObjectsOwn
  <2>2. \A d \in Calls : call'[d].start \cap Objects \subseteq Inners \cup {ScopeOf(d)}
    <3>1. Allowed \cap Objects \subseteq Inners \cup {ScopeOf(c)}
      BY MarksAreNoObjects DEF Allowed
    <3> QED BY <1>1, <1>7, <1>8, <3>1 DEF MapInv, ObjectsOwn
  <2>3. \A d \in Calls :
          entries'[ScopeOf(d)] \subseteq {By("program")} \cup Inners \cup MarksBy(d)'
    BY <1>9, <1>14, <1>15 DEF MapInv, ObjectsOwn
  <2> QED BY <2>1, <2>2, <2>3 DEF ObjectsOwn
<1>17. HandedOn'
  <2>1. HeardBy(c) = {}
    <3>1. Len(<<>>) = 0 /\ 1..0 = {}
      OBVIOUS
    <3> QED BY <1>6, <3>1 DEF HeardBy
  <2> QED BY <1>8, <1>14, <1>15, <2>1, AreCells, WritersWereHanded
<1> QED
  BY <1>10, <1>11, <1>12, <1>13, <1>16, <1>17 DEF MapInv

-----------------------------------------------------------------------------
(* What the call of a hook does to the emission.                           *)
LEMMA HeardGrows ==
  ASSUME MapInv, NEW c \in Calls, Current(c) \in Hooks, NEW failed \in BOOLEAN,
         call[c].pc = "notify", Heard(c, failed)
  PROVE  /\ call' = [d \in Calls |-> call'[d]]
         /\ \A d \in Calls : d # c => call'[d] = call[d] /\ HeardBy(d)' = HeardBy(d)
         /\ \A d \in Calls : /\ IsCall(call'[d]) /\ call'[d].heard \in Seq(HookCalls)
                             /\ call'[d].pc = call[d].pc /\ call'[d].event = call[d].event
                             /\ call'[d].start = call[d].start
                             /\ call'[d].pc = "idle" => call'[d].heard = <<>>
                             /\ Len(call[d].heard) \in Nat
                             /\ Len(call'[d].heard) >= Len(call[d].heard)
                             /\ \A i \in 1..Len(call[d].heard) :
                                  call'[d].heard[i] = call[d].heard[i]
         /\ Len(call'[c].heard) = Turn(c) /\ call'[c].heard[Turn(c)].hook = Current(c)
         /\ HeardBy(c)' = HeardBy(c) \cup {Current(c)}
<1>1. /\ call = [d \in Calls |-> call[d]]
      /\ \A d \in Calls : /\ IsCall(call[d]) /\ call[d].heard \in Seq(HookCalls)
                          /\ call[d].pc = "idle" => call[d].heard = <<>>
  BY DEF MapInv, Shapes
<1> DEFINE entry == [hook |-> Current(c), failed |-> failed]
           next == call[c].at + 1
           errs == IF failed THEN Append(call[c].errs, Current(c)) ELSE call[c].errs
           heard == Append(call[c].heard, entry)
<1>2. call' = [call EXCEPT ![c] = [@ EXCEPT !.at = next, !.errs = errs, !.heard = heard]]
  BY DEF Heard
<1>3. entry \in HookCalls /\ entry.hook = Current(c)
  BY DEF HookCalls
<1> HIDE DEF entry, next, errs
<1>4. /\ heard \in Seq(HookCalls) /\ Len(heard) = Len(call[c].heard) + 1
      /\ heard[Len(call[c].heard) + 1] = entry /\ Len(call[c].heard) \in Nat
      /\ \A i \in 1..Len(call[c].heard) : heard[i] = call[c].heard[i]
  BY <1>1, <1>3
<1> HIDE DEF heard
<1>5. /\ IsCall(call'[c]) /\ call'[c].heard = heard /\ call'[c].pc = call[c].pc
      /\ call'[c].event = call[c].event /\ call'[c].start = call[c].start
  BY <1>1, <1>2 DEF IsCall, CallFields
<1>6. call' = [d \in Calls |-> call'[d]] /\ \A d \in Calls : d # c => call'[d] = call[d]
  BY <1>1, <1>2
<1>7. \A d \in Calls : d # c => HeardBy(d)' = HeardBy(d)
  BY <1>6 DEF HeardBy
<1>8. HeardBy(c)' = HeardBy(c) \cup {Current(c)}
  <2>1. 1..Len(heard) = 1..Len(call[c].heard) \cup {Len(call[c].heard) + 1}
    BY <1>4
  <2>2. HeardBy(c)' = {heard[i].hook : i \in 1..Len(heard)}
    BY <1>5 DEF HeardBy
  <2>3. {heard[i].hook : i \in 1..Len(heard)}
          = {heard[i].hook : i \in 1..Len(call[c].heard)} \cup {Current(c)}
    BY <1>3, <1>4, <2>1
  <2>4. {heard[i].hook : i \in 1..Len(call[c].heard)} = HeardBy(c)
    BY <1>4 DEF HeardBy
  <2> QED BY <2>2, <2>3, <2>4
<1>9. \A d \in Calls : /\ IsCall(call'[d]) /\ call'[d].heard \in Seq(HookCalls)
                       /\ call'[d].pc = call[d].pc /\ call'[d].event = call[d].event
                       /\ call'[d].start = call[d].start
                       /\ call'[d].pc = "idle" => call'[d].heard = <<>>
                       /\ Len(call[d].heard) \in Nat
                       /\ Len(call'[d].heard) >= Len(call[d].heard)
                       /\ \A i \in 1..Len(call[d].heard) : call'[d].heard[i] = call[d].heard[i]
  <2> TAKE d \in Calls
  <2>1. Len(call[d].heard) \in Nat
    BY <1>1
  <2>2. CASE d = c
    BY <1>4, <1>5, <2>2
  <2>3. CASE d # c
    BY <1>1, <1>6, <2>1, <2>3
  <2> QED BY <2>2, <2>3
<1> QED
  BY <1>3, <1>4, <1>5, <1>6, <1>7, <1>8, <1>9 DEF Turn

(* Records that are left alone stay right while their emission goes on.    *)
LEMMA RecordsStay ==
  ASSUME MapInv, Final, NEW r \in recorded,
         \A d \in Calls : /\ call'[d].event = call[d].event /\ call'[d].start = call[d].start
                          /\ Len(call[d].heard) \in Nat /\ Len(call'[d].heard) \in Nat
                          /\ Len(call'[d].heard) >= Len(call[d].heard)
                          /\ \A i \in 1..Len(call[d].heard) : call'[d].heard[i] = call[d].heard[i]
  PROVE  /\ r.call \in Calls /\ r.at \in 1..Len(call'[r.call].heard) /\ r.at \in 1..MaxHooks
         /\ r.cell \in {Record(r.call, r.at), Nil}
         /\ call'[r.call].start \subseteq In(entries', r.cell)
         /\ In(entries', r.cell) \ call'[r.call].start \subseteq Before(r)' \cup Own(r)'
<1>1. /\ r.call \in Calls /\ r.at \in 1..Len(call[r.call].heard) /\ r.at \in 1..MaxHooks
      /\ r.cell \in {Record(r.call, r.at), Nil}
      /\ call[r.call].start \subseteq In(entries, r.cell)
      /\ In(entries, r.cell) \ call[r.call].start \subseteq Before(r) \cup Own(r)
  BY DEF MapInv, RecordOwn
<1>2. r.at \in 1..Len(call'[r.call].heard)
  BY <1>1
<1>3. \A i \in 1..r.at - 1 : i \in 1..Len(call[r.call].heard)
  <2>1. Len(call[r.call].heard) \in Nat
    BY <1>1
  <2> QED BY <1>1, <2>1
<1>4. Before(r)' = Before(r)
  <2>1. \A i \in 1..r.at - 1 : call'[r.call].heard[i] = call[r.call].heard[i]
    BY <1>1, <1>3
  <2> QED BY <2>1 DEF Before
<1>5. Own(r)' = Own(r)
  BY <1>1 DEF Own, Code
<1>6. In(entries', r.cell) = In(entries, r.cell)
  BY DEF Final
<1> QED BY <1>1, <1>2, <1>4, <1>5, <1>6

LEMMA TurnIsCell ==
  ASSUME MapInv, NEW c \in Calls, Turn(c) <= MaxHooks
  PROVE  Turn(c) \in 1..MaxHooks /\ Record(c, Turn(c)) \in Cells /\ Record(c, Turn(c)) # Nil
<1>1. Len(call[c].heard) \in Nat
  BY DEF MapInv, Shapes
<1>2. Turn(c) \in 1..MaxHooks
  BY <1>1, ActivityAssumption DEF Turn
<1> QED BY <1>2, AreCells, ActivityAssumption

(* The calls of CaptureHook and of the sink: what they have in common.     *)
LEMMA RecordKeeps ==
  ASSUME MapInv, NEW c \in Calls, NEW failed \in BOOLEAN, NEW kind, AtHook(c, kind),
         Heard(c, failed), NEW data \in SUBSET Entries, NEW cell \in {Record(c, Turn(c)), Nil},
         entries' = [entries EXCEPT ![Record(c, Turn(c))] = data],
         cell = Nil => data = {},
         recorded' = recorded \cup {[call |-> c, at |-> Turn(c), cell |-> cell]},
         kept' = kept,
         In(entries, call[c].event.metadata) \subseteq data,
         data \subseteq In(entries, call[c].event.metadata)
                    \cup IF kind = "sink" THEN Code(c) ELSE {}
  PROVE  MapInv' /\ Final
<1> DEFINE n == Turn(c)
           new == [call |-> c, at |-> n, cell |-> cell]
<1>1. /\ call[c].pc = "notify" /\ Current(c) \in Hooks /\ KindOf[Current(c)] = kind
      /\ n <= MaxHooks
  BY DEF AtHook
<1>2. /\ call' = [d \in Calls |-> call'[d]]
      /\ \A d \in Calls : d # c => call'[d] = call[d] /\ HeardBy(d)' = HeardBy(d)
      /\ \A d \in Calls : /\ IsCall(call'[d]) /\ call'[d].heard \in Seq(HookCalls)
                          /\ call'[d].pc = call[d].pc /\ call'[d].event = call[d].event
                          /\ call'[d].start = call[d].start
                          /\ call'[d].pc = "idle" => call'[d].heard = <<>>
                          /\ Len(call[d].heard) \in Nat
                          /\ Len(call'[d].heard) >= Len(call[d].heard)
                          /\ \A i \in 1..Len(call[d].heard) : call'[d].heard[i] = call[d].heard[i]
      /\ Len(call'[c].heard) = n /\ call'[c].heard[n].hook = Current(c)
      /\ HeardBy(c)' = HeardBy(c) \cup {Current(c)}
  BY <1>1, HeardGrows
<1>3. n \in 1..MaxHooks /\ n = Len(call[c].heard) + 1
  BY <1>1, <1>2, ActivityAssumption DEF Turn
<1>4. Record(c, n) \in Cells /\ Record(c, n) # Nil
  BY <1>3, AreCells, ActivityAssumption
<1> HIDE DEF n
<1>5. /\ entries' \in [Cells -> SUBSET Entries] /\ entries'[Record(c, n)] = data
      /\ \A x \in Cells : x # Record(c, n) => entries'[x] = entries[x]
  BY <1>4 DEF MapInv, Shapes, n
<1>6. Shapes'
  BY <1>2, <1>5 DEF MapInv, Shapes, IsCall
<1>7. \A d \in Calls : Normal(d) \in Cells /\ Normal(d) # Record(c, n)
  BY <1>3, AreCells, CellsDiffer DEF Normal, Record
<1>8. EventOwn'
  <2>1. \A d \in Calls : In(entries', call[d].event.metadata) = In(entries, call[d].event.metadata)
    BY <1>5, <1>7 DEF In, MapInv, EventOwn
  <2>2. \A d \in Calls : HeardBy(d) \subseteq HeardBy(d)' /\ MarksBy(d) \subseteq MarksBy(d)'
    BY <1>2 DEF MarksBy
  <2>3. \A d \in Calls :
          /\ call[d].event.metadata \in {Normal(d), Nil}
          /\ call[d].pc # "idle" => call[d].start \subseteq In(entries, call[d].event.metadata)
          /\ call[d].pc # "idle" =>
               In(entries, call[d].event.metadata) \ call[d].start \subseteq MarksBy(d)
    BY DEF MapInv, EventOwn
  <2>4. \A d \in Calls :
          LET has == In(entries', call'[d].event.metadata)
          IN  /\ call'[d].event.metadata \in {Normal(d), Nil}
              /\ call'[d].pc # "idle" => call'[d].start \subseteq has
              /\ call'[d].pc # "idle" => has \ call'[d].start \subseteq MarksBy(d)'
    <3> TAKE d \in Calls
    <3>1. /\ call'[d].pc = call[d].pc /\ call'[d].event = call[d].event
          /\ call'[d].start = call[d].start
      BY <1>2
    <3> QED BY <2>1, <2>2, <2>3, <3>1
  <2>5. \A h \in Hooks : \A x \in kept'[h] :
          \E d \in Calls : x = Normal(d) /\ x = call'[d].event.metadata /\ h \in HeardBy(d)'
    BY <1>2, <2>2 DEF MapInv, EventOwn
  <2> QED BY <2>4, <2>5 DEF EventOwn, HeardBy, MarksBy
<1>9. Final
  <2> SUFFICES ASSUME NEW r \in recorded PROVE In(entries', r.cell) = In(entries, r.cell)
    BY DEF Final
  <2>1. /\ r.call \in Calls /\ r.at \in 1..Len(call[r.call].heard) /\ r.at \in 1..MaxHooks
        /\ r.cell \in {Record(r.call, r.at), Nil}
    BY DEF MapInv, RecordOwn
  <2>2. r.call = c => r.at # n
    BY <1>2, <1>3, <2>1
  <2>3. Record(r.call, r.at) \in Cells /\ Record(r.call, r.at) # Record(c, n)
    BY <1>3, <2>1, <2>2, AreCells DEF Record
  <2> QED BY <1>5, <2>1, <2>3 DEF In
<1>10. \A d \in Calls : Len(call'[d].heard) \in Nat
  BY <1>2
<1>11. RecordOwn'
  <2>1. \A r \in recorded :
          /\ r.call \in Calls /\ r.at \in 1..Len(call'[r.call].heard) /\ r.at \in 1..MaxHooks
          /\ r.cell \in {Record(r.call, r.at), Nil}
          /\ call'[r.call].start \subseteq In(entries', r.cell)
          /\ In(entries', r.cell) \ call'[r.call].start \subseteq Before(r)' \cup Own(r)'
    BY <1>2, <1>9, <1>10, RecordsStay
  <2>2. In(entries', cell) = data
    BY <1>4, <1>5 DEF In, n
  <2>3. MarksBy(c) \subseteq {By(call'[c].heard[i].hook) : i \in 1..n - 1}
    <3>1. \A i \in 1..Len(call[c].heard) : i \in 1..n - 1 /\ call'[c].heard[i] = call[c].heard[i]
      BY <1>2, <1>3
    <3> QED BY <3>1 DEF HeardBy, MarksBy
  <2>4. /\ call[c].start \subseteq In(entries, call[c].event.metadata)
        /\ In(entries, call[c].event.metadata) \ call[c].start \subseteq MarksBy(c)
    BY <1>1 DEF MapInv, EventOwn
  <2>5. ASSUME NEW r, r = new
        PROVE  /\ r.call \in Calls /\ r.at \in 1..Len(call'[r.call].heard) /\ r.at \in 1..MaxHooks
               /\ r.cell \in {Record(r.call, r.at), Nil}
               /\ call'[r.call].start \subseteq In(entries', r.cell)
               /\ In(entries', r.cell) \ call'[r.call].start \subseteq Before(r)' \cup Own(r)'
    <3>1. r.call = c /\ r.at = n /\ r.cell = cell
      BY <2>5
    <3>2. Before(r)' = {By(call'[c].heard[i].hook) : i \in 1..n - 1}
      BY <3>1 DEF Before
    <3>3. Own(r)' = IF kind = "sink" THEN Code(c) ELSE {}
      BY <1>1, <1>2, <3>1 DEF Own, Code
    <3>4. /\ call'[c].start \subseteq In(entries', cell)
          /\ In(entries', cell) \ call'[c].start \subseteq Before(r)' \cup Own(r)'
      BY <1>2, <2>2, <2>3, <2>4, <3>2, <3>3
    <3>5. n \in 1..Len(call'[c].heard) /\ cell \in {Record(c, n), Nil}
      BY <1>2, <1>3 DEF n
    <3> QED BY <1>3, <3>1, <3>4, <3>5
  <2>6. \A r \in recorded' : r \in recorded \/ r = new
    BY DEF n
  <2> HIDE DEF new
  <2> QED BY <2>1, <2>5, <2>6 DEF RecordOwn, Before, Own, Code
<1>12. MapsKept'
  <2>1. \A m \in ProgramMaps : InProgram(m) \in Cells /\ InProgram(m) # Record(c, n)
    BY <1>3, AreCells, CellsDiffer DEF InProgram, Record
  <2>2. \A d \in Calls : Built(d) \in Cells /\ Built(d) # Record(c, n)
    BY <1>3, AreCells, CellsDiffer DEF Built, Record
  <2> QED BY <1>5, <2>1, <2>2 DEF MapInv, MapsKept
<1>13. ObjectsOwn' /\ HandedOn'
  <2>1. \A x \in Objects : x \in Cells /\ x # Record(c, n)
    BY <1>3, AreCells DEF Objects, Inners, Inner, ScopeOf, Record
  <2> QED BY <1>2, <1>5, <2>1, ObjectsStay
<1> QED BY <1>6, <1>8, <1>9, <1>11, <1>12, <1>13 DEF MapInv

LEMMA CaptureKeeps ==
  ASSUME MapInv, NEW c \in Calls, NEW failed \in BOOLEAN, Capture(c, failed)
  PROVE  MapInv' /\ Final
<1> DEFINE cell == Clone(entries, call[c].event.metadata, Record(c, Turn(c)))
           data == In(entries, call[c].event.metadata)
<1>1. data \in SUBSET Entries
  BY AreCells DEF MapInv, Shapes, EventOwn, In
<1>2. cell \in {Record(c, Turn(c)), Nil} /\ (cell = Nil => data = {} \/ Record(c, Turn(c)) = Nil)
  BY DEF Clone
<1>3. /\ AtHook(c, "capture") /\ Heard(c, failed) /\ kept' = kept
      /\ entries' = [entries EXCEPT ![Record(c, Turn(c))] = data]
      /\ recorded' = recorded \cup {[call |-> c, at |-> Turn(c), cell |-> cell]}
  BY DEF Capture, NormalizeEvent, NormalizeIn, CloneIn, Keep
<1>4. Record(c, Turn(c)) # Nil
  BY <1>3, TurnIsCell DEF AtHook
<1> HIDE DEF cell, data
<1>5. data \subseteq In(entries, call[c].event.metadata)
        \cup IF "capture" = "sink" THEN Code(c) ELSE {}
  BY DEF data
<1>6. In(entries, call[c].event.metadata) \subseteq data
  BY DEF data
<1> QED BY <1>1, <1>2, <1>3, <1>4, <1>5, <1>6, RecordKeeps

LEMMA LogKeeps ==
  ASSUME MapInv, NEW c \in Calls, NEW failed \in BOOLEAN, Log(c, failed)
  PROVE  MapInv' /\ Final
<1> DEFINE cell == SinkData(c, call[c].event.metadata)
           data == In(entries, call[c].event.metadata) \cup Code(c)
<1>1. data \in SUBSET Entries
  <2>1. In(entries, call[c].event.metadata) \subseteq Entries
    BY AreCells DEF MapInv, Shapes, EventOwn, In
  <2> QED BY <2>1, MarksAreNoObjects DEF Code, Given
<1>2. cell \in {Record(c, Turn(c)), Nil} /\ (cell = Nil => data = {} \/ Record(c, Turn(c)) = Nil)
  BY DEF SinkData, Clone, Code, Given
<1>3. /\ AtHook(c, "sink") /\ Heard(c, failed) /\ kept' = kept
      /\ entries' = [entries EXCEPT ![Record(c, Turn(c))] = data]
      /\ recorded' = recorded \cup {[call |-> c, at |-> Turn(c), cell |-> cell]}
  BY DEF Log, SinkIn, Keep
<1>4. Record(c, Turn(c)) # Nil
  BY <1>3, TurnIsCell DEF AtHook
<1>5. data \subseteq In(entries, call[c].event.metadata)
        \cup IF "sink" = "sink" THEN Code(c) ELSE {}
  OBVIOUS
<1>6. In(entries, call[c].event.metadata) \subseteq data
  OBVIOUS
<1> HIDE DEF cell, data
<1> QED BY <1>1, <1>2, <1>3, <1>4, <1>5, <1>6, RecordKeeps

LEMMA UserHookKeeps ==
  ASSUME MapInv, NEW c \in Calls, NEW failed \in BOOLEAN, NEW keeps \in BOOLEAN,
         UserHook(c, keeps, failed)
  PROVE  MapInv' /\ Final
<1> DEFINE cell == call[c].event.metadata
<1>1. /\ call[c].pc = "notify" /\ Current(c) \in Hooks /\ Heard(c, failed)
      /\ UNCHANGED <<entries, recorded>> /\ (keeps => cell # Nil)
      /\ kept' = IF keeps THEN [kept EXCEPT ![Current(c)] = @ \cup {cell}] ELSE kept
  BY DEF UserHook, AtHook
<1>2. /\ call' = [d \in Calls |-> call'[d]]
      /\ \A d \in Calls : d # c => call'[d] = call[d] /\ HeardBy(d)' = HeardBy(d)
      /\ \A d \in Calls : /\ IsCall(call'[d]) /\ call'[d].heard \in Seq(HookCalls)
                          /\ call'[d].pc = call[d].pc /\ call'[d].event = call[d].event
                          /\ call'[d].start = call[d].start
                          /\ call'[d].pc = "idle" => call'[d].heard = <<>>
                          /\ Len(call[d].heard) \in Nat
                          /\ Len(call'[d].heard) >= Len(call[d].heard)
                          /\ \A i \in 1..Len(call[d].heard) : call'[d].heard[i] = call[d].heard[i]
      /\ HeardBy(c)' = HeardBy(c) \cup {Current(c)}
  BY <1>1, HeardGrows
<1>3. Shapes'
  BY <1>1, <1>2 DEF MapInv, Shapes, IsCall
<1>4. \A d \in Calls : HeardBy(d) \subseteq HeardBy(d)' /\ MarksBy(d) \subseteq MarksBy(d)'
  BY <1>2 DEF MarksBy
<1>5. EventOwn'
  <2>1. \A d \in Calls :
          LET has == In(entries', call'[d].event.metadata)
          IN  /\ call'[d].event.metadata \in {Normal(d), Nil}
              /\ call'[d].pc # "idle" => call'[d].start \subseteq has
              /\ call'[d].pc # "idle" => has \ call'[d].start \subseteq MarksBy(d)'
    <3> TAKE d \in Calls
    <3>1. /\ call'[d].pc = call[d].pc /\ call'[d].event = call[d].event
          /\ call'[d].start = call[d].start
      BY <1>2
    <3> QED BY <1>1, <1>4, <3>1 DEF MapInv, EventOwn, In
  <2>2. \A h \in Hooks : \A x \in kept'[h] :
          \E d \in Calls : x = Normal(d) /\ x = call'[d].event.metadata /\ h \in HeardBy(d)'
    <3> SUFFICES ASSUME NEW h \in Hooks, NEW x \in kept'[h]
                 PROVE  \E d \in Calls :
                          x = Normal(d) /\ x = call'[d].event.metadata /\ h \in HeardBy(d)'
      OBVIOUS
    <3>1. CASE x \in kept[h]
      BY <1>2, <1>4, <3>1 DEF MapInv, EventOwn
    <3>2. CASE x \notin kept[h]
      <4>1. h = Current(c) /\ x = cell /\ keeps
        BY <1>1, <3>2 DEF MapInv, Shapes
      <4>2. x = Normal(c)
        BY <1>1, <4>1 DEF MapInv, EventOwn
      <4> QED BY <1>2, <4>1, <4>2
    <3> QED BY <3>1, <3>2
  <2> QED BY <2>1, <2>2 DEF EventOwn, HeardBy, MarksBy
<1>6. Final
  BY <1>1 DEF Final, In
<1>7. \A d \in Calls : Len(call'[d].heard) \in Nat
  BY <1>2
<1>8. RecordOwn'
  <2>1. \A r \in recorded :
          /\ r.call \in Calls /\ r.at \in 1..Len(call'[r.call].heard) /\ r.at \in 1..MaxHooks
          /\ r.cell \in {Record(r.call, r.at), Nil}
          /\ call'[r.call].start \subseteq In(entries', r.cell)
          /\ In(entries', r.cell) \ call'[r.call].start \subseteq Before(r)' \cup Own(r)'
    BY <1>2, <1>6, <1>7, RecordsStay
  <2> QED BY <1>1, <2>1 DEF RecordOwn, Before, Own, Code
<1>9. MapsKept'
  BY <1>1 DEF MapInv, MapsKept
<1>10. ObjectsOwn' /\ HandedOn'
  BY <1>1, <1>2, <1>4, ObjectsStay
<1> QED BY <1>3, <1>5, <1>6, <1>8, <1>9, <1>10 DEF MapInv

(* A hook writes into an event it has kept, into the scope's metadata in   *)
(* it, or into an object of the program below.                             *)
LEMMA HookWritesKeeps ==
  ASSUME MapInv, NEW h \in Hooks, NEW cell, HookWrites(h, cell)
  PROVE  MapInv' /\ Final
<1>1. /\ entries' = [entries EXCEPT ![cell] = @ \cup {By(h)}]
      /\ cell \in AndBelow(AndBelow(kept[h])) /\ UNCHANGED <<call, recorded, kept>>
  BY DEF HookWrites
<1>2. PICK c \in Calls :
        /\ h \in HeardBy(c)
        /\ cell = Normal(c) \/ (cell \in Handed(c) /\ cell \in Inners \cup {ScopeOf(c)})
  BY <1>1, Reached
<1>3. cell \in Cells /\ cell \in Objects \cup {Normal(c)} /\ By(h) \in Entries
  BY <1>2, AreCells, MarksAreNoObjects
<1>4. /\ entries' \in [Cells -> SUBSET Entries] /\ entries'[cell] = entries[cell] \cup {By(h)}
      /\ \A x \in Cells : x # cell => entries'[x] = entries[x]
      /\ \A x \in Cells : entries[x] \subseteq entries'[x]
  BY <1>1, <1>3 DEF MapInv, Shapes
<1>5. Shapes'
  BY <1>1, <1>4 DEF MapInv, Shapes, IsCall
<1>6. \A d \in Calls : HeardBy(d)' = HeardBy(d) /\ MarksBy(d)' = MarksBy(d)
  BY <1>1 DEF HeardBy, MarksBy
<1>7. By(h) \in MarksBy(c)
  BY <1>2 DEF MarksBy
<1>8. \A d \in Calls : Normal(d) \in Cells /\ (d # c => Normal(d) # cell)
  <2>1. \A d \in Calls : d # c => Normal(d) # Normal(c)
    BY DEF Normal
  <2>2. cell \in Objects => \A d \in Calls : Normal(d) # cell
    BY ObjectsDiffer
  <2> QED BY <1>3, <2>1, <2>2, AreCells
<1>9. EventOwn'
  <2>1. \A d \in Calls :
          LET has == In(entries', call'[d].event.metadata)
          IN  /\ call'[d].event.metadata \in {Normal(d), Nil}
              /\ call'[d].pc # "idle" => call'[d].start \subseteq has
              /\ call'[d].pc # "idle" => has \ call'[d].start \subseteq MarksBy(d)'
    <3> TAKE d \in Calls
    <3>1. /\ call[d].event.metadata \in {Normal(d), Nil}
          /\ call[d].pc # "idle" => call[d].start \subseteq In(entries, call[d].event.metadata)
          /\ call[d].pc # "idle" =>
               In(entries, call[d].event.metadata) \ call[d].start \subseteq MarksBy(d)
      BY DEF MapInv, EventOwn
    <3>2. In(entries, call[d].event.metadata) \subseteq In(entries', call[d].event.metadata)
      BY <1>4, <1>8, <3>1 DEF In
    <3>3. In(entries', call[d].event.metadata)
            \subseteq In(entries, call[d].event.metadata) \cup IF d = c THEN {By(h)} ELSE {}
      BY <1>4, <1>8, <3>1 DEF In
    <3> QED BY <1>1, <1>6, <1>7, <3>1, <3>2, <3>3
  <2>2. \A g \in Hooks : \A x \in kept'[g] :
          \E d \in Calls : x = Normal(d) /\ x = call'[d].event.metadata /\ g \in HeardBy(d)'
    BY <1>1, <1>6 DEF MapInv, EventOwn
  <2> QED BY <2>1, <2>2 DEF EventOwn, HeardBy, MarksBy
<1>10. Final
  <2> SUFFICES ASSUME NEW r \in recorded PROVE In(entries', r.cell) = In(entries, r.cell)
    BY <1>1 DEF Final
  <2>1. /\ r.call \in Calls /\ r.at \in 1..MaxHooks /\ r.cell \in {Record(r.call, r.at), Nil}
    BY DEF MapInv, RecordOwn
  <2>2. Record(r.call, r.at) \in Cells /\ Record(r.call, r.at) # cell
    BY <1>3, <2>1, AreCells, ObjectsDiffer DEF Record, Normal
  <2> QED BY <1>4, <2>1, <2>2 DEF In
<1>11. RecordOwn'
  <2> SUFFICES ASSUME NEW r \in recorded
               PROVE  /\ r.call \in Calls /\ r.at \in 1..Len(call'[r.call].heard)
                      /\ r.at \in 1..MaxHooks /\ r.cell \in {Record(r.call, r.at), Nil}
                      /\ call'[r.call].start \subseteq In(entries', r.cell)
                      /\ In(entries', r.cell) \ call'[r.call].start \subseteq Before(r)' \cup Own(r)'
    BY <1>1 DEF RecordOwn, Before, Own, Code
  <2>1. Before(r)' = Before(r) /\ Own(r)' = Own(r)
    BY <1>1 DEF Before, Own, Code
  <2> QED BY <1>1, <1>10, <2>1 DEF MapInv, RecordOwn, Final
<1>12. MapsKept'
  <2>1. \A m \in ProgramMaps : InProgram(m) \in Cells /\ InProgram(m) # cell
    <3>1. \A m \in ProgramMaps : InProgram(m) # Normal(c)
      BY DEF InProgram, Normal
    <3>2. cell \in Objects => \A m \in ProgramMaps : InProgram(m) # cell
      BY ObjectsDiffer
    <3> QED BY <1>3, <3>1, <3>2, AreCells
  <2>2. \A d \in Calls : Built(d) \in Cells /\ Built(d) # cell
    <3>1. \A d \in Calls : Built(d) # Normal(c)
      BY DEF Built, Normal
    <3>2. cell \in Objects => \A d \in Calls : Built(d) # cell
      BY ObjectsDiffer
    <3> QED BY <1>3, <3>1, <3>2, AreCells
  <2> QED BY <1>4, <2>1, <2>2 DEF MapInv, MapsKept
<1>13. ObjectsOwn'
  <2>1. \A m \in ProgramMaps : entries'[Inner(m)] \subseteq Marks
    BY <1>4, AreCells, MarksAreNoObjects DEF MapInv, ObjectsOwn
  <2>2. \A d \in Calls : d # c => ScopeOf(d) # cell
    BY <1>2 DEF ScopeOf, Normal, Inners, Inner
  <2>3. \A d \in Calls :
          entries'[ScopeOf(d)] \subseteq {By("program")} \cup Inners \cup MarksBy(d)'
    <3> TAKE d \in Calls
    <3>1. entries[ScopeOf(d)] \subseteq {By("program")} \cup Inners \cup MarksBy(d)
      BY DEF MapInv, ObjectsOwn
    <3>2. ScopeOf(d) \in Cells
      BY AreCells
    <3> QED BY <1>4, <1>6, <1>7, <2>2, <3>1, <3>2
  <2> QED BY <1>1, <2>1, <2>3 DEF MapInv, ObjectsOwn
<1>14. HandedOn'
  <2>1. \A d \in Calls : Handed(d) \subseteq Handed(d)'
    BY <1>1, <1>4, AreCells, HandedGrows
  <2> SUFFICES ASSUME NEW m \in ProgramMaps, NEW g \in Hooks, By(g) \in entries'[Inner(m)]
               PROVE  \E d \in Calls : g \in HeardBy(d)' /\ Inner(m) \in Handed(d)'
    BY DEF HandedOn
  <2>2. CASE By(g) \in entries[Inner(m)]
    BY <1>6, <2>1, <2>2 DEF MapInv, HandedOn
  <2>3. CASE By(g) \notin entries[Inner(m)]
    <3>1. Inner(m) = cell /\ By(g) = By(h)
      BY <1>4, <2>3, AreCells
    <3>2. g = h /\ cell # Normal(c)
      BY <3>1 DEF By, Inner, Normal
    <3> QED BY <1>2, <1>6, <2>1, <3>1, <3>2
  <2> QED BY <2>2, <2>3
<1> QED BY <1>5, <1>9, <1>10, <1>11, <1>12, <1>13, <1>14 DEF MapInv

(* Between two hooks, and when the program configures things, nothing is   *)
(* read or written.                                                        *)
LEMMA TurnKeeps ==
  ASSUME MapInv, NEW c \in Calls, SkipNil(c) \/ Return(c)
  PROVE  MapInv' /\ Final
<1>1. /\ call[c].pc = "notify" /\ UNCHANGED <<entries, recorded, kept>>
      /\ \/ call' = [call EXCEPT ![c].at = call[c].at + 1]
         \/ call' = [call EXCEPT ![c].pc = "done"]
  BY DEF SkipNil, Return
<1>2. /\ call' = [d \in Calls |-> call'[d]] /\ \A d \in Calls : d # c => call'[d] = call[d]
      /\ IsCall(call'[c]) /\ call'[c].pc # "idle" /\ call'[c].heard = call[c].heard
      /\ call'[c].event = call[c].event /\ call'[c].start = call[c].start
  <2>1. call = [d \in Calls |-> call[d]] /\ IsCall(call[c])
    BY DEF MapInv, Shapes
  <2>2. CASE call' = [call EXCEPT ![c].at = call[c].at + 1]
    BY <1>1, <2>1, <2>2 DEF IsCall, CallFields
  <2>3. CASE call' = [call EXCEPT ![c].pc = "done"]
    BY <1>1, <2>1, <2>3 DEF IsCall, CallFields
  <2> QED BY <1>1, <2>2, <2>3
<1>3. \A d \in Calls : /\ call'[d].heard = call[d].heard /\ call'[d].event = call[d].event
                       /\ call'[d].start = call[d].start /\ IsCall(call'[d])
                       /\ call'[d].pc = "idle" <=> call[d].pc = "idle"
  BY <1>1, <1>2 DEF MapInv, Shapes
<1>4. Shapes'
  BY <1>1, <1>2, <1>3 DEF MapInv, Shapes, IsCall
<1>5. \A d \in Calls : HeardBy(d)' = HeardBy(d) /\ MarksBy(d)' = MarksBy(d)
  BY <1>3 DEF HeardBy, MarksBy
<1>6. EventOwn'
  BY <1>1, <1>3, <1>5 DEF MapInv, EventOwn, In, HeardBy, MarksBy
<1>7. \A r \in recorded : r.call \in Calls
  BY DEF MapInv, RecordOwn
<1>8. \A r \in recorded : Before(r)' = Before(r) /\ Own(r)' = Own(r)
  BY <1>3, <1>7 DEF Before, Own, Code
<1>9. Final
  BY <1>1 DEF Final, In
<1>10. RecordOwn'
  <2> SUFFICES ASSUME NEW r \in recorded
               PROVE  /\ r.call \in Calls /\ r.at \in 1..Len(call'[r.call].heard)
                      /\ r.at \in 1..MaxHooks /\ r.cell \in {Record(r.call, r.at), Nil}
                      /\ call'[r.call].start \subseteq In(entries', r.cell)
                      /\ In(entries', r.cell) \ call'[r.call].start \subseteq Before(r)' \cup Own(r)'
    BY <1>1 DEF RecordOwn, Before, Own, Code
  <2> QED BY <1>3, <1>7, <1>8, <1>9 DEF MapInv, RecordOwn, Final
<1>11. MapsKept'
  BY <1>1 DEF MapInv, MapsKept
<1>12. ObjectsOwn' /\ HandedOn'
  BY <1>1, <1>3, <1>5, ObjectsStay
<1> QED BY <1>4, <1>6, <1>9, <1>10, <1>11, <1>12 DEF MapInv

LEMMA QuietKeeps ==
  ASSUME MapInv, UNCHANGED <<entries, call, recorded, kept>>
  PROVE  MapInv' /\ Final
<1>1. Shapes' /\ MapsKept'
  BY DEF MapInv, Shapes, MapsKept, IsCall
<1>2. EventOwn'
  BY DEF MapInv, EventOwn, In, HeardBy, MarksBy
<1>3. RecordOwn' /\ Final
  BY DEF MapInv, RecordOwn, Final, In, Before, Own, Code
<1>4. ObjectsOwn' /\ HandedOn'
  BY ObjectsStay DEF HeardBy
<1> QED BY <1>1, <1>2, <1>3, <1>4 DEF MapInv

LEMMA ProgramWritesMapKeeps ==
  ASSUME MapInv, NEW m \in ProgramMaps, NEW cell \in {InProgram(m), Inner(m)},
         ProgramWritesMap(cell)
  PROVE  MapInv' /\ Final
<1>1. /\ entries' = [entries EXCEPT ![cell] = @ \cup {By("program")}]
      /\ UNCHANGED <<call, recorded, kept>>
  BY DEF ProgramWritesMap
<1>2. cell \in Cells /\ By("program") \in Entries
  BY AreCells, MarksAreNoObjects
<1>3. /\ entries' \in [Cells -> SUBSET Entries]
      /\ entries'[cell] = entries[cell] \cup {By("program")}
      /\ \A x \in Cells : x # cell => entries'[x] = entries[x]
      /\ \A x \in Cells : entries[x] \subseteq entries'[x]
  BY <1>1, <1>2 DEF MapInv, Shapes
<1>4. Shapes'
  BY <1>1, <1>3 DEF MapInv, Shapes, IsCall
<1>5. \A c \in Calls : In(entries', call[c].event.metadata) = In(entries, call[c].event.metadata)
  <2>1. \A c \in Calls : Normal(c) \in Cells /\ Normal(c) # cell
    <3> TAKE c \in Calls
    <3>1. Normal(c) # InProgram(m) /\ Normal(c) # Inner(m)
      BY DEF Normal, InProgram, Inner
    <3> QED BY <3>1, AreCells
  <2> QED BY <1>3, <2>1 DEF In, MapInv, EventOwn
<1>6. \A c \in Calls : HeardBy(c)' = HeardBy(c) /\ MarksBy(c)' = MarksBy(c)
  BY <1>1 DEF HeardBy, MarksBy
<1>7. EventOwn'
  <2>1. \A c \in Calls :
          LET has == In(entries', call'[c].event.metadata)
          IN  /\ call'[c].event.metadata \in {Normal(c), Nil}
              /\ call'[c].pc # "idle" => call'[c].start \subseteq has
              /\ call'[c].pc # "idle" => has \ call'[c].start \subseteq MarksBy(c)'
    BY <1>1, <1>5, <1>6 DEF MapInv, EventOwn
  <2>2. \A h \in Hooks : \A x \in kept'[h] :
          \E c \in Calls : x = Normal(c) /\ x = call'[c].event.metadata /\ h \in HeardBy(c)'
    BY <1>1, <1>6 DEF MapInv, EventOwn
  <2> QED BY <2>1, <2>2 DEF EventOwn, HeardBy, MarksBy
<1>8. Final
  <2> SUFFICES ASSUME NEW r \in recorded PROVE In(entries', r.cell) = In(entries, r.cell)
    BY <1>1 DEF Final
  <2>1. /\ r.call \in Calls /\ r.at \in 1..MaxHooks /\ r.cell \in {Record(r.call, r.at), Nil}
    BY DEF MapInv, RecordOwn
  <2>2. Record(r.call, r.at) \in Cells /\ Record(r.call, r.at) # cell
    <3>1. Record(r.call, r.at) # InProgram(m) /\ Record(r.call, r.at) # Inner(m)
      BY DEF Record, InProgram, Inner
    <3> QED BY <2>1, <3>1, AreCells
  <2> QED BY <1>3, <2>1, <2>2 DEF In
<1>9. \A r \in recorded : Before(r)' = Before(r) /\ Own(r)' = Own(r)
  BY <1>1 DEF Before, Own, Code
<1>10. RecordOwn'
  BY <1>1, <1>8, <1>9 DEF MapInv, RecordOwn, Final, Before, Own, Code
<1>11. MapsKept'
  <2>1. \A p \in ProgramMaps : InProgram(p) \in Cells
    BY AreCells
  <2>2. \A c \in Calls : Built(c) \in Cells /\ Built(c) # cell
    <3> TAKE c \in Calls
    <3>1. Built(c) # InProgram(m) /\ Built(c) # Inner(m)
      BY DEF Built, InProgram, Inner
    <3> QED BY <3>1, AreCells
  <2> QED BY <1>3, <2>1, <2>2 DEF MapInv, MapsKept
<1>12. ObjectsOwn'
  <2>1. \A p \in ProgramMaps : entries'[Inner(p)] \subseteq Marks
    BY <1>3, AreCells, MarksAreNoObjects DEF MapInv, ObjectsOwn
  <2>2. \A c \in Calls : ScopeOf(c) \in Cells /\ ScopeOf(c) # cell
    <3> TAKE c \in Calls
    <3>1. ScopeOf(c) # InProgram(m) /\ ScopeOf(c) # Inner(m)
      BY DEF ScopeOf, InProgram, Inner
    <3> QED BY <3>1, AreCells
  <2> QED BY <1>1, <1>3, <1>6, <2>1, <2>2 DEF MapInv, ObjectsOwn
<1>13. HandedOn'
  <2>1. \A p \in ProgramMaps, h \in Hooks :
          By(h) \in entries'[Inner(p)] => By(h) \in entries[Inner(p)]
    BY <1>3, AreCells, MarksAreNoObjects
  <2> QED BY <1>1, <1>3, <1>6, <2>1, AreCells, WritersWereHanded
<1> QED BY <1>4, <1>7, <1>8, <1>10, <1>11, <1>12, <1>13 DEF MapInv

LEMMA MapStep == MapInv /\ [Next]_vars => MapInv' /\ Final
<1> SUFFICES ASSUME MapInv, [Next]_vars PROVE MapInv' /\ Final
  OBVIOUS
<1>1. CASE Configure
  BY <1>1, QuietKeeps DEF Configure, WithActivityHooks, ActivityHooks, NewEmitter
<1>2. CASE ProgramWrites
  <2>1. ASSUME NEW h, NEW i, NEW hook, ProgramWritesSlice(h, i, hook) PROVE MapInv' /\ Final
    BY <2>1, QuietKeeps DEF ProgramWritesSlice
  <2> QED BY <1>2, <2>1, ProgramWritesMapKeeps DEF ProgramWrites
<1>3. ASSUME NEW c \in Calls, Emission(c) PROVE MapInv' /\ Final
  <2>1. ASSUME NEW in \in Requests,
               EmitThroughEmitter(c, in) \/ NotifyThroughWrapper(c, in) \/ NotifyThroughList(c, in)
        PROVE  MapInv' /\ Final
    <3>1. call[c].pc = "idle" /\ \E list : Begin(c, in, list)
      BY <2>1 DEF EmitThroughEmitter, NotifyThroughWrapper, NotifyThroughList
    <3> QED BY <3>1, BeginKeeps
  <2> QED BY <1>3, <2>1, CaptureKeeps, LogKeeps, UserHookKeeps, TurnKeeps DEF Emission
<1>4. ASSUME NEW h \in Hooks, NEW cell \in Cells, HookWrites(h, cell) PROVE MapInv' /\ Final
  BY <1>4, HookWritesKeeps
<1>5. CASE Finished \/ UNCHANGED vars
  BY <1>5, QuietKeeps DEF Finished, vars
<1> QED BY <1>1, <1>2, <1>3, <1>4, <1>5 DEF Next

-----------------------------------------------------------------------------
(* No write of a hook, of the sink's adapter or of a Build function        *)
(* reaches a map of the program, and into an object in one only a hook     *)
(* writes that was handed it (hooks.go:92, options_events.go:55-68).       *)
THEOREM ProgramKeepsItsMaps == Spec => []ProgramMapsUntouched
<1>1. MapInv => ProgramMapsUntouched
  BY DEF MapInv, MapsKept, HandedOn, ProgramMapsUntouched
<1> QED BY MapInit, MapStep, <1>1, PTL DEF Spec

(* What a capture or a sink records is its event as it was emitted, and    *)
(* what the hooks before it added; the scope's metadata in it is its own   *)
(* emission's (capture.go:16, usersink hook.go:19).                        *)
THEOREM RecordsAreOwn == Spec => []RecordsOwnEvent
<1>1. ASSUME MapInv PROVE RecordsOwnEvent
  <2> SUFFICES ASSUME NEW r \in recorded
               PROVE  /\ call[r.call].start \subseteq In(entries, r.cell)
                      /\ In(entries, r.cell) \ call[r.call].start \subseteq Before(r) \cup Own(r)
                      /\ \A c \in Calls : ScopeOf(c) \in In(entries, r.cell) =>
                           c = r.call /\ entries[ScopeOf(c)] \subseteq
                             {By("program")} \cup Inners \cup {By(h) : h \in HeardBy(c)}
    BY DEF RecordsOwnEvent, Before, Own
  <2>1. /\ r.call \in Calls /\ r.at \in 1..Len(call[r.call].heard)
        /\ call[r.call].start \subseteq In(entries, r.cell)
        /\ In(entries, r.cell) \ call[r.call].start \subseteq Before(r) \cup Own(r)
    BY <1>1 DEF MapInv, RecordOwn
  <2>2. Before(r) \cup Own(r) \subseteq Marks
    <3>1. call[r.call].heard \in Seq(HookCalls)
      BY <1>1, <2>1 DEF MapInv, Shapes
    <3>2. \A i \in 1..r.at - 1 : i \in 1..Len(call[r.call].heard)
      <4>1. Len(call[r.call].heard) \in Nat
        BY <3>1
      <4> QED BY <2>1, <4>1
    <3>3. \A i \in 1..Len(call[r.call].heard) : call[r.call].heard[i] \in HookCalls
      BY <3>1
    <3> QED BY <3>2, <3>3, MarksAreNoObjects DEF Before, Own, Code, Given, HookCalls
  <2>3. ASSUME NEW c \in Calls, ScopeOf(c) \in In(entries, r.cell) PROVE c = r.call
    <3>1. ScopeOf(c) \in call[r.call].start \cap Objects
      BY <2>1, <2>2, <2>3, AreCells, MarksAreNoObjects
    <3>2. ScopeOf(c) \in Inners \cup {ScopeOf(r.call)}
      BY <1>1, <2>1, <3>1 DEF MapInv, ObjectsOwn
    <3> QED BY <3>2 DEF ScopeOf, Inners, Inner
  <2>4. \A c \in Calls :
          entries[ScopeOf(c)] \subseteq {By("program")} \cup Inners \cup {By(h) : h \in HeardBy(c)}
    BY <1>1 DEF MapInv, ObjectsOwn, MarksBy
  <2> QED BY <2>1, <2>3, <2>4
<1> QED BY MapInit, MapStep, <1>1, PTL DEF Spec

(* The entries of a record are final, though hooks go on writing into the  *)
(* events they have kept and into the objects in them (hooks.go:92,        *)
(* capture.go:19, usersink hook.go:40).                                    *)
THEOREM RecordsStayAsTheyAre == Spec => RecordsAreFinal
<1>1. MapInv /\ [Next]_vars
        => [\A r \in recorded : r \in recorded' /\ In(entries', r.cell) = In(entries, r.cell)]_vars
  BY MapStep DEF Final
<1> QED BY MapInit, MapStep, <1>1, PTL DEF Spec, RecordsAreFinal

-----------------------------------------------------------------------------
(* What the loop that picks elements starts from.                          *)
Nothing == <<>>

LEMMA NothingIs ==
  /\ \A S : Nothing \in Seq(S)
  /\ \A s : Nothing = SubSeq(s, 1, 0)
  /\ \A S : \A s \in Seq(S) : Len(s) = 0 => s = Nothing
<1>1. \A S : <<>> \in Seq(S)
  OBVIOUS
<1>2. \A s : <<>> = SubSeq(s, 1, 0)
  OBVIOUS
<1>3. \A S : \A s \in Seq(S) : Len(s) = 0 => s = <<>>
  OBVIOUS
<1> QED BY <1>1, <1>2, <1>3 DEF Nothing

(* The loop that picks elements of a sequence.                             *)
Picks(S, s, T) ==
  /\ Picked(s, T)[0] = Nothing
  /\ \A i \in 1..Len(s) :
       Picked(s, T)[i] = IF s[i] \in T THEN Append(Picked(s, T)[i - 1], s[i])
                                       ELSE Picked(s, T)[i - 1]
  /\ \A i \in 0..Len(s) : Picked(s, T)[i] \in Seq(S \cap T)

LEMMA PickedIs ==
  ASSUME NEW S, NEW s \in Seq(S), NEW T
  PROVE  Picks(S, s, T)
<1> DEFINE n == Len(s)
           Out(out) == out = [i \in 0..n |->
             IF i = 0 THEN Nothing ELSE IF s[i] \in T THEN Append(out[i - 1], s[i]) ELSE out[i - 1]]
           R == Seq(S \cap T)
           out == Picked(s, T)
<1>1. n \in Nat /\ \A i \in 1..n : s[i] \in S
  OBVIOUS
<1>2. \E f : Out(f)
  <2> DEFINE step == [i \in 1..n |-> [x \in R |-> IF s[i] \in T THEN Append(x, s[i]) ELSE x]]
  <2>1. step \in [1..n -> [R -> R]] /\ Nothing \in R
    BY <1>1, NothingIs
  <2>2. PICK f \in [0..n -> R] : f[0] = Nothing /\ \A i \in 1..n : f[i] = step[i][f[i - 1]]
    <3> HIDE DEF step, R, n
    <3>1. Loops(R, Nothing, n, step)
      BY <1>1, <2>1, Recursion
    <3> QED BY <3>1 DEF Loops
  <2>3. \A i \in 1..n : f[i] = IF s[i] \in T THEN Append(f[i - 1], s[i]) ELSE f[i - 1]
    <3>1. \A i \in 1..n : i - 1 \in 0..n
      BY <1>1
    <3> HIDE DEF R
    <3> QED BY <1>1, <2>2, <3>1
  <2>4. f = [i \in 0..n |-> f[i]]
    BY <2>2
  <2>5. \A i \in 0..n : i = 0 \/ i \in 1..n
    BY <1>1
  <2> HIDE DEF R, step, n
  <2>6. Out(f)
    BY <2>2, <2>3, <2>4, <2>5
  <2> QED BY <2>6
<1>3. Out(out)
  <2>1. out = CHOOSE f : Out(f)
    BY DEF Picked, Nothing
  <2> HIDE DEF Out, out
  <2> QED BY <1>2, <2>1
<1> HIDE DEF out
<1>4. /\ out[0] = Nothing
      /\ \A i \in 1..n : out[i] = IF s[i] \in T THEN Append(out[i - 1], s[i]) ELSE out[i - 1]
  <2>1. \A i \in 0..n : out[i] = IF i = 0 THEN Nothing ELSE
                           IF s[i] \in T THEN Append(out[i - 1], s[i]) ELSE out[i - 1]
    BY <1>3
  <2>2. 0 \in 0..n /\ \A i \in 1..n : i \in 0..n /\ i # 0
    BY <1>1
  <2> HIDE DEF n
  <2> QED BY <2>1, <2>2
<1>5. \A i \in 0..n : out[i] \in R
  <2> DEFINE G == {i \in Nat : i <= n => out[i] \in R}
  <2>1. 0 \in G
    BY <1>4, NothingIs
  <2>2. ASSUME NEW i \in Nat, i \in G PROVE i + 1 \in G
    <3> SUFFICES ASSUME i + 1 <= n PROVE out[i + 1] \in R
      OBVIOUS
    <3>1. out[i] \in R /\ i + 1 \in 1..n
      BY <1>1, <2>2
    <3>2. out[i + 1] = IF s[i + 1] \in T THEN Append(out[i], s[i + 1]) ELSE out[i]
      BY <1>4, <3>1
    <3>3. s[i + 1] \in S
      BY <1>1, <3>1
    <3> QED BY <3>1, <3>2, <3>3
  <2>3. Nat \subseteq G
    <3> HIDE DEF G
    <3> QED BY <2>1, <2>2, Induct
  <2> QED BY <1>1, <2>3
<1> QED BY <1>4, <1>5 DEF out, Picks

(* Picking goes by the elements alone: two sequences that agree up to some *)
(* round have picked the same by then.                                     *)
LEMMA PickedSame ==
  ASSUME NEW S, NEW s \in Seq(S), NEW t \in Seq(S), NEW T, NEW n \in 0..Len(s),
         n <= Len(t), \A i \in 1..n : s[i] = t[i]
  PROVE  Picked(s, T)[n] = Picked(t, T)[n]
<1> DEFINE G == {i \in Nat : i <= n => Picked(s, T)[i] = Picked(t, T)[i]}
<1>0. Len(s) \in Nat /\ Len(t) \in Nat /\ n \in Nat
  OBVIOUS
<1>1. Picks(S, s, T) /\ Picks(S, t, T)
  BY PickedIs
<1>2. 0 \in G
  BY <1>1 DEF Picks
<1>3. ASSUME NEW i \in Nat, i \in G PROVE i + 1 \in G
  <2> SUFFICES ASSUME i + 1 <= n PROVE Picked(s, T)[i + 1] = Picked(t, T)[i + 1]
    OBVIOUS
  <2>1. i + 1 \in 1..Len(s) /\ i + 1 \in 1..Len(t) /\ i + 1 \in 1..n /\ (i + 1) - 1 = i
    BY <1>0
  <2>2. Picked(s, T)[i] = Picked(t, T)[i] /\ s[i + 1] = t[i + 1]
    BY <1>0, <1>3, <2>1
  <2>3. /\ Picked(s, T)[i + 1] = IF s[i + 1] \in T THEN Append(Picked(s, T)[i], s[i + 1])
                                                  ELSE Picked(s, T)[i]
        /\ Picked(t, T)[i + 1] = IF t[i + 1] \in T THEN Append(Picked(t, T)[i], t[i + 1])
                                                  ELSE Picked(t, T)[i]
    BY <1>1, <2>1 DEF Picks
  <2> QED BY <2>2, <2>3
<1>4. Nat \subseteq G
  <2> HIDE DEF G
  <2> QED BY <1>2, <1>3, Induct
<1> QED BY <1>0, <1>4

LEMMA SelectAppend ==
  ASSUME NEW S, NEW s \in Seq(S), NEW x \in S, NEW T
  PROVE  Select(Append(s, x), T) = IF x \in T THEN Append(Select(s, T), x) ELSE Select(s, T)
<1> DEFINE t == Append(s, x)
           n == Len(s)
<1>1. t \in Seq(S) /\ Len(t) = n + 1 /\ n \in Nat /\ t[n + 1] = x /\ \A i \in 1..n : t[i] = s[i]
  OBVIOUS
<1> HIDE DEF t
<1>2. Picked(t, T)[n + 1] = IF t[n + 1] \in T THEN Append(Picked(t, T)[n], t[n + 1])
                                             ELSE Picked(t, T)[n]
  <2>1. Picks(S, t, T)
    BY <1>1, PickedIs
  <2>2. n + 1 \in 1..Len(t) /\ (n + 1) - 1 = n
    BY <1>1
  <2> QED BY <2>1, <2>2 DEF Picks
<1>3. Picked(t, T)[n] = Picked(s, T)[n]
  BY <1>1, PickedSame
<1> QED BY <1>1, <1>2, <1>3 DEF Select, t

(* All is picked where there is nothing else.                              *)
LEMMA SelectAll ==
  ASSUME NEW T, NEW s \in Seq(T)
  PROVE  Select(s, T) = s
<1> DEFINE G == {i \in Nat : i <= Len(s) => Picked(s, T)[i] = SubSeq(s, 1, i)}
<1>1. Picks(T, s, T)
  BY PickedIs
<1>2. 0 \in G
  BY <1>1, NothingIs DEF Picks
<1>3. ASSUME NEW i \in Nat, i \in G PROVE i + 1 \in G
  <2> SUFFICES ASSUME i + 1 <= Len(s) PROVE Picked(s, T)[i + 1] = SubSeq(s, 1, i + 1)
    OBVIOUS
  <2>1. i + 1 \in 1..Len(s) /\ s[i + 1] \in T /\ (i + 1) - 1 = i
    OBVIOUS
  <2>2. Picked(s, T)[i + 1] = Append(Picked(s, T)[i], s[i + 1])
    BY <1>1, <2>1 DEF Picks
  <2>3. Picked(s, T)[i] = SubSeq(s, 1, i)
    BY <1>3
  <2> QED BY <2>1, <2>2, <2>3
<1>4. Nat \subseteq G
  <2> HIDE DEF G
  <2> QED BY <1>2, <1>3, Induct
<1>5. Picked(s, T)[Len(s)] = SubSeq(s, 1, Len(s))
  BY <1>4
<1> QED BY <1>5 DEF Select

LEMMA NonNilIs ==
  ASSUME NEW s \in Seq(Hooks \cup {Nil})
  PROVE  /\ NonNil(s) \in Seq(Hooks)
         /\ Len(s) = 0 => NonNil(s) = Nothing
<1>1. Picks(Hooks \cup {Nil}, s, Hooks)
  BY PickedIs
<1>2. (Hooks \cup {Nil}) \cap Hooks = Hooks
  OBVIOUS
<1>3. Len(s) \in 0..Len(s)
  OBVIOUS
<1>4. NonNil(s) = Picked(s, Hooks)[Len(s)]
  BY DEF NonNil, Select
<1> QED BY <1>1, <1>2, <1>3, <1>4 DEF Picks

(* The hooks of the calls, and those that have failed.                     *)
Names(calls) == [i \in DOMAIN calls |-> calls[i].hook]
Failed == [hook : Hooks, failed : {TRUE}]

LEMMA NamesAre ==
  ASSUME NEW calls \in Seq(HookCalls), NEW x \in HookCalls
  PROVE  /\ Names(calls) \in Seq(Hooks) /\ Len(Names(calls)) = Len(calls)
         /\ Names(Append(calls, x)) = Append(Names(calls), x.hook)
<1> DEFINE n == Len(calls)
           more == Append(calls, x)
<1>1. /\ n \in Nat /\ DOMAIN calls = 1..n /\ \A i \in 1..n : calls[i] \in HookCalls
      /\ DOMAIN more = 1..(n + 1) /\ more[n + 1] = x /\ \A i \in 1..n : more[i] = calls[i]
  OBVIOUS
<1>2. \A y \in HookCalls : y.hook \in Hooks
  BY DEF HookCalls
<1> HIDE DEF n, more
<1>3. Names(calls) = [i \in 1..n |-> calls[i].hook]
  BY <1>1 DEF Names
<1>4. Names(calls) \in Seq(Hooks) /\ Len(Names(calls)) = n
  BY <1>1, <1>2, <1>3
<1>5. Names(more) = [i \in 1..(n + 1) |-> more[i].hook]
  BY <1>1 DEF Names
<1>6. Append(Names(calls), x.hook) = [i \in 1..(n + 1) |-> more[i].hook]
  BY <1>1, <1>2, <1>3, <1>4
<1> QED BY <1>4, <1>5, <1>6 DEF n, more

LEMMA NothingCalled ==
  /\ Nothing \in Seq(HookCalls)
  /\ Names(Nothing) = Nothing
  /\ Names(Select(Nothing, Failed)) = Nothing
<1>1. Nothing \in Seq(HookCalls) /\ Len(Nothing) = 0
  BY NothingIs DEF Nothing
<1>2. Names(Nothing) = Nothing
  BY DEF Names, Nothing
<1>3. Select(Nothing, Failed) = Nothing
  <2>1. Picks(HookCalls, Nothing, Failed)
    BY <1>1, PickedIs
  <2> QED BY <1>1, <2>1 DEF Select, Picks
<1> QED BY <1>1, <1>2, <1>3

(* Whose array a holder refers to; the arrays of the option and of the     *)
(* emitter are never written, and have what these were configured with.    *)
SlicesInv ==
  /\ arrays \in [Holders -> Seq(Hooks \cup {Nil})]
  /\ slice \in [Holders -> Holders \cup {Nil}]
  /\ meant \in [Holders -> Seq(Hooks)]
  /\ slice["list"] = "list"
  /\ \A h \in {"option", "returned", "emitter"} : slice[h] \in {h, Nil}
  /\ \A c \in Calls : /\ slice[c] \in {c, "list", "emitter", Nil}
                      /\ slice[c] = "emitter" => slice["emitter"] = "emitter"
  /\ slice["option"] # Nil => meant["option"] = arrays["option"]
  /\ slice["emitter"] # Nil =>
       /\ arrays["emitter"] \in Seq(Hooks)
       /\ meant["emitter"] = IF enabled THEN arrays["emitter"] ELSE Nothing

(* How far an emission has come in the slice it goes through.              *)
Progress(c) ==
  /\ slice[c] # Nil
  /\ call[c].at \in 1..(Len(Held(c)) + 1)
  /\ Names(call[c].heard) = Picked(Held(c), Hooks)[call[c].at - 1]
  /\ due[c] = NonNil(Held(c))

HearInv(c) ==
  /\ call[c].pc \in {"idle", "notify", "done"}
  /\ call[c].pc = "idle" => call[c].at = 1 /\ call[c].heard = Nothing
  /\ call[c].errs = Names(Select(call[c].heard, Failed))
  /\ call[c].pc = "notify" => Progress(c)
  /\ call[c].pc = "done" => Names(call[c].heard) = due[c]

HookInv ==
  /\ MapInv
  /\ SlicesInv
  /\ due = [c \in Calls |-> due[c]]
  /\ \A c \in Calls : HearInv(c)

LEMMA HookInit == Init => HookInv
<1> SUFFICES ASSUME Init PROVE HookInv
  OBVIOUS
<1>1. MapInv
  BY MapInit
<1>2. SlicesInv
  <2>1. PICK list \in Lists : arrays = [h \in Holders |-> IF h = "list" THEN list ELSE <<>>]
    BY DEF Init
  <2>2. list \in Seq(Hooks \cup {Nil})
    BY <2>1, ActivityAssumption
  <2>3. arrays \in [Holders -> Seq(Hooks \cup {Nil})]
    BY <2>1, <2>2
  <2>4. meant \in [Holders -> Seq(Hooks)]
    BY DEF Init
  <2>5. Slices \subseteq Holders /\ Calls \subseteq Holders /\ \A c \in Calls : c \notin Slices
    BY ActivityAssumption DEF Holders
  <2>6. slice = [h \in Holders |-> IF h = "list" THEN "list" ELSE Nil]
    BY DEF Init
  <2>7. /\ slice \in [Holders -> Holders \cup {Nil}] /\ slice["list"] = "list"
        /\ \A h \in {"option", "returned", "emitter"} : slice[h] = Nil
        /\ \A c \in Calls : slice[c] = Nil
    BY <2>5, <2>6 DEF Slices
  <2>8. Nil # "emitter"
    BY ActivityAssumption DEF Holders, Slices
  <2> QED BY <2>3, <2>4, <2>7, <2>8 DEF SlicesInv
<1>3. due = [c \in Calls |-> due[c]]
  BY DEF Init
<1>4. ASSUME NEW c \in Calls PROVE HearInv(c)
  <2>1. call[c] = Idle
    BY DEF Init
  <2>2. /\ Idle.pc = "idle" /\ Idle.at = 1 /\ Idle.heard = Nothing /\ Idle.errs = Nothing
    BY DEF Idle, Nothing
  <2> QED BY <2>1, <2>2, NothingCalled DEF HearInv
<1> QED BY <1>1, <1>2, <1>3, <1>4 DEF HookInv

(* An emission is where it was as long as the array it goes through is.    *)
LEMMA HearSame ==
  ASSUME NEW c \in Calls, HearInv(c), call'[c] = call[c], due'[c] = due[c],
         call[c].pc = "notify" => slice'[c] = slice[c] /\ arrays'[slice[c]] = arrays[slice[c]]
  PROVE  HearInv(c)'
<1>1. call[c].pc = "notify" => Progress(c)'
  BY DEF HearInv, Progress, Held
<1>2. /\ call'[c].pc \in {"idle", "notify", "done"}
      /\ call'[c].pc = "idle" => call'[c].at = 1 /\ call'[c].heard = Nothing
      /\ call'[c].errs = Names(Select(call'[c].heard, Failed))
      /\ call'[c].pc = "notify" => Progress(c)'
      /\ call'[c].pc = "done" => Names(call'[c].heard) = due'[c]
  BY <1>1 DEF HearInv
<1> QED BY <1>2 DEF HearInv, Names, Select, Picked

(* A clone has an array of its own, with hooks alone in it.                *)
LEMMA CloneStep ==
  ASSUME SlicesInv, NEW from \in Holders, NEW to \in Holders, slice[from] # Nil,
         CloneHooks(from, to)
  PROVE  /\ arrays' \in [Holders -> Seq(Hooks \cup {Nil})]
         /\ slice' \in [Holders -> Holders \cup {Nil}]
         /\ arrays'[to] = NonNil(Held(from)) /\ arrays'[to] \in Seq(Hooks) /\ slice'[to] = to
         /\ \A h \in Holders : h # to => arrays'[h] = arrays[h] /\ slice'[h] = slice[h]
         /\ Held(from) \in Seq(Hooks \cup {Nil})
<1>1. slice[from] \in Holders
  BY DEF SlicesInv
<1>2. Held(from) \in Seq(Hooks \cup {Nil})
  BY <1>1 DEF SlicesInv, Held
<1>3. NonNil(Held(from)) \in Seq(Hooks)
  BY <1>2, NonNilIs
<1>4. NonNil(Held(from)) \in Seq(Hooks \cup {Nil})
  BY <1>3
<1> HIDE DEF Holders
<1> QED BY <1>2, <1>3, <1>4 DEF CloneHooks, SlicesInv

(* An event is complete when it was built by the package, or when the      *)
(* program left none of the three fields out.                              *)
LEMMA CompleteIs ==
  ASSUME NEW c \in Calls, NEW in \in Requests, NEW m
  PROVE  Complete(NormalizeEvent(m, EventOf(c, in), Normal(c)))
           <=> in.built \/ {in.verb, in.objectType, in.objectID} = {Word}
<1> DEFINE given == EventOf(c, in)
           event == NormalizeEvent(m, given, Normal(c))
<1>1. /\ in.built \in BOOLEAN
      /\ {in.verb, in.objectType, in.objectID, in.path, in.snapshot} \subseteq Texts
  BY ActivityAssumption
<1>2. Complete(event) <=> /\ Trim(given.verb) # Empty /\ Trim(given.objectType) # Empty
                          /\ Trim(given.objectID) # Empty
  BY DEF Complete, NormalizeEvent
<1>3. \A t \in Texts : Trim(t) # Empty <=> t = Word
  BY DEF Texts, Trim, Empty, Blank, Word
<1>4. CASE in.built
  <2>1. ObjectID(in) = Word
    <3> DEFINE s == <<Trim(in.objectID), Trim(in.path), Trim(in.snapshot), Word>>
               T == Texts \ {Empty}
    <3>1. \A t \in Texts : Trim(t) \in {Empty, Word}
      BY DEF Texts, Trim, Empty, Blank, Word
    <3>2. s \in Seq({Empty, Word}) /\ Len(s) = 4 /\ s[4] = Word
      BY <1>1, <3>1
    <3>3. Word \in T /\ {Empty, Word} \cap T = {Word}
      BY DEF Texts, Empty, Blank, Word
    <3> HIDE DEF s, T
    <3>4. Picks({Empty, Word}, s, T)
      BY <3>2, PickedIs
    <3>5. Picked(s, T)[3] \in Seq({Word}) /\ Picked(s, T)[4] = Append(Picked(s, T)[3], Word)
      <4>1. 3 \in 0..Len(s) /\ 4 \in 1..Len(s) /\ 4 - 1 = 3
        BY <3>2
      <4>2. Picked(s, T)[3] \in Seq({Word})
        BY <3>3, <3>4, <4>1 DEF Picks
      <4>3. Picked(s, T)[4] = Append(Picked(s, T)[4 - 1], Word)
        BY <3>2, <3>3, <3>4, <4>1 DEF Picks
      <4> QED BY <4>1, <4>2, <4>3
    <3>6. Select(s, T) \in Seq({Word}) /\ Len(Select(s, T)) > 0
      BY <3>2, <3>5 DEF Select
    <3>7. Head(Select(s, T)) = Word
      BY <3>6
    <3> QED BY <3>7 DEF ObjectID, s, T
  <2>2. given.verb = Word /\ given.objectType = Word /\ given.objectID = Word
    BY <1>4, <2>1 DEF EventOf, BuildOptionsEvent
  <2> QED BY <1>2, <1>3, <1>4, <2>2 DEF Texts
<1>5. CASE ~in.built
  <2>1. given.verb = in.verb /\ given.objectType = in.objectType /\ given.objectID = in.objectID
    BY <1>5 DEF EventOf, RawEvent
  <2> QED BY <1>1, <1>2, <1>3, <1>5, <2>1
<1> QED BY <1>1, <1>4, <1>5

(* An emission begins with all the hooks before it, or is done with none.  *)
LEMMA BeginHears ==
  ASSUME MapInv, NEW c \in Calls, HearInv(c), call[c].pc = "idle",
         NEW in \in Requests, NEW list \in Seq(Hooks \cup {Nil}), Begin(c, in, list),
         due'[c] = Due(in, NonNil(list)),
         list # <<>> => slice'[c] # Nil /\ Held(c)' = list
  PROVE  HearInv(c)'
<1> DEFINE built == EventOf(c, in)
           event == NormalizeEvent(EntriesOf(c, in), built, Normal(c))
           goes  == list # <<>> /\ Complete(event)
           was   == call[c]
           now   == [was EXCEPT !.pc = IF goes THEN "notify" ELSE "done", !.event = event,
                                !.start = In(EntriesOf(c, in), built.metadata)]
<1>1. IsCall(was) /\ call = [d \in Calls |-> call[d]]
  BY DEF MapInv, Shapes
<1>2. call'[c] = now
  BY <1>1 DEF Begin
<1>3. /\ now.pc = (IF goes THEN "notify" ELSE "done") /\ now.at = was.at
      /\ now.heard = was.heard /\ now.errs = was.errs
  BY <1>1 DEF IsCall, CallFields
<1>4. was.at = 1 /\ was.heard = Nothing /\ was.errs = Names(Select(was.heard, Failed))
  BY DEF HearInv
<1> HIDE DEF was, now, goes
<1>5. ASSUME goes PROVE Progress(c)'
  <2>1. Held(c)' = list /\ slice'[c] # Nil
    BY <1>5 DEF goes
  <2>2. due'[c] = NonNil(list)
    BY <1>5, CompleteIs DEF goes, Due
  <2>3. Picked(list, Hooks)[0] = Nothing
    <3>1. Picks(Hooks \cup {Nil}, list, Hooks)
      BY PickedIs
    <3> QED BY <3>1 DEF Picks
  <2>4. call'[c].at = 1 /\ call'[c].heard = Nothing
    BY <1>2, <1>3, <1>4
  <2>5. Names(call'[c].heard) = Nothing
    BY <2>4, NothingCalled
  <2>6. Len(list) \in Nat
    OBVIOUS
  <2>7. /\ call'[c].at \in 1..(Len(Held(c)') + 1)
        /\ Names(call'[c].heard) = Picked(Held(c)', Hooks)[call'[c].at - 1]
        /\ due'[c] = NonNil(Held(c)')
    BY <2>1, <2>2, <2>3, <2>4, <2>5, <2>6
  <2> QED BY <2>1, <2>7 DEF Progress, Names, Picked, NonNil, Select
<1>6. ASSUME ~goes PROVE due'[c] = Nothing
  <2>1. CASE list = <<>>
    <3>1. NonNil(list) = Nothing
      BY <2>1, NonNilIs
    <3> QED BY <3>1 DEF Due, Nothing
  <2>2. CASE ~Complete(event)
    <3>1. Due(in, NonNil(list)) = Nothing
      BY <2>2, CompleteIs DEF Due, Nothing
    <3> QED BY <3>1
  <2> QED BY <1>6, <2>1, <2>2 DEF goes
<1>7. /\ call'[c].pc = (IF goes THEN "notify" ELSE "done")
      /\ call'[c].errs = Names(Select(call'[c].heard, Failed))
      /\ Names(call'[c].heard) = Nothing
  BY <1>2, <1>3, <1>4, NothingCalled
<1>8. /\ call'[c].pc \in {"idle", "notify", "done"}
      /\ call'[c].pc = "idle" => call'[c].at = 1 /\ call'[c].heard = Nothing
      /\ call'[c].errs = Names(Select(call'[c].heard, Failed))
      /\ call'[c].pc = "notify" => Progress(c)'
      /\ call'[c].pc = "done" => Names(call'[c].heard) = due'[c]
  BY <1>5, <1>6, <1>7
<1> QED BY <1>8 DEF HearInv, Names, Select, Picked

(* One round of the loop.                                                  *)
LEMMA RoundHears ==
  ASSUME MapInv, SlicesInv, NEW c \in Calls, HearInv(c), call[c].pc = "notify",
         call[c].at <= Len(Held(c)), NEW now, call'[c] = now,
         now.pc = "notify", now.at = call[c].at + 1,
         UNCHANGED <<arrays, slice, due>>,
         \/ /\ Current(c) \notin Hooks /\ now.heard = call[c].heard /\ now.errs = call[c].errs
         \/ /\ Current(c) \in Hooks
            /\ \E failed \in BOOLEAN :
                 /\ now.heard = Append(call[c].heard, [hook |-> Current(c), failed |-> failed])
                 /\ now.errs = IF failed THEN Append(call[c].errs, Current(c)) ELSE call[c].errs
  PROVE  HearInv(c)'
<1> DEFINE held == Held(c)
           at   == call[c].at
           was  == call[c].heard
<1>1. /\ slice[c] # Nil /\ at \in 1..(Len(held) + 1)
      /\ Names(was) = Picked(held, Hooks)[at - 1] /\ due[c] = NonNil(held)
      /\ call[c].errs = Names(Select(was, Failed)) /\ was \in Seq(HookCalls)
  BY DEF HearInv, Progress, MapInv, Shapes
<1>2. held \in Seq(Hooks \cup {Nil})
  <2>1. c \in Holders
    BY DEF Holders
  <2> QED BY <1>1, <2>1 DEF SlicesInv, Held
<1>3. at \in 1..Len(held) /\ Len(held) \in Nat
  BY <1>1, <1>2
<1>4. Picked(held, Hooks)[at] = IF held[at] \in Hooks THEN Append(Picked(held, Hooks)[at - 1], held[at])
                                                     ELSE Picked(held, Hooks)[at - 1]
  <2>1. Picks(Hooks \cup {Nil}, held, Hooks)
    BY <1>2, PickedIs
  <2> QED BY <1>3, <2>1 DEF Picks
<1>5. Current(c) = held[at]
  BY DEF Current
<1> HIDE DEF held, at, was
<1>6. /\ Names(now.heard) = Picked(held, Hooks)[at]
      /\ now.errs = Names(Select(now.heard, Failed))
  <2>1. CASE Current(c) \notin Hooks /\ now.heard = was /\ now.errs = call[c].errs
    BY <1>1, <1>4, <1>5, <2>1
  <2>2. ASSUME NEW failed \in BOOLEAN, Current(c) \in Hooks,
               now.heard = Append(was, [hook |-> Current(c), failed |-> failed]),
               now.errs = IF failed THEN Append(call[c].errs, Current(c)) ELSE call[c].errs
        PROVE  /\ Names(now.heard) = Picked(held, Hooks)[at]
               /\ now.errs = Names(Select(now.heard, Failed))
    <3> DEFINE x == [hook |-> Current(c), failed |-> failed]
    <3>1. x \in HookCalls /\ x.hook = Current(c) /\ (x \in Failed <=> failed)
      BY <2>2 DEF HookCalls, Failed
    <3>2. now.heard = Append(was, x)
      BY <2>2
    <3> HIDE DEF x
    <3>3. Names(now.heard) = Append(Names(was), Current(c))
      BY <1>1, <3>1, <3>2, NamesAre
    <3>4. Select(now.heard, Failed) = IF failed THEN Append(Select(was, Failed), x)
                                               ELSE Select(was, Failed)
      BY <1>1, <3>1, <3>2, SelectAppend
    <3>5. Select(was, Failed) \in Seq(HookCalls)
      <4>1. Picks(HookCalls, was, Failed)
        BY <1>1, PickedIs
      <4>2. Select(was, Failed) \in Seq(HookCalls \cap Failed)
        <5>1. Len(was) \in 0..Len(was)
          BY <1>1
        <5> QED BY <4>1, <5>1 DEF Picks, Select
      <4> HIDE DEF HookCalls, Failed
      <4> QED BY <4>2
    <3>6. Names(Append(Select(was, Failed), x)) = Append(Names(Select(was, Failed)), Current(c))
      BY <3>1, <3>5, NamesAre
    <3> QED BY <1>1, <1>4, <1>5, <2>2, <3>3, <3>4, <3>6
  <2> QED BY <2>1, <2>2 DEF was
<1>7. Progress(c)'
  <2>1. Held(c)' = held /\ call'[c].at - 1 = at /\ call'[c].at \in 1..(Len(held) + 1)
    BY <1>3 DEF Held, held, at
  <2>2. /\ call'[c].at \in 1..(Len(Held(c)') + 1)
        /\ Names(call'[c].heard) = Picked(Held(c)', Hooks)[call'[c].at - 1]
        /\ due'[c] = NonNil(Held(c)')
    BY <1>1, <1>6, <2>1
  <2> QED BY <1>1, <2>2 DEF Progress, Names, Picked, NonNil, Select
<1>8. /\ call'[c].pc \in {"idle", "notify", "done"}
      /\ call'[c].pc = "idle" => call'[c].at = 1 /\ call'[c].heard = Nothing
      /\ call'[c].errs = Names(Select(call'[c].heard, Failed))
      /\ call'[c].pc = "notify" => Progress(c)'
      /\ call'[c].pc = "done" => Names(call'[c].heard) = due'[c]
  BY <1>6, <1>7
<1> QED BY <1>8 DEF HearInv, Names, Select, Picked

LEMMA ReturnHears ==
  ASSUME MapInv, SlicesInv, NEW c \in Calls, HearInv(c), Return(c)
  PROVE  HearInv(c)'
<1> DEFINE was == call[c]
<1>1. IsCall(was) /\ call = [d \in Calls |-> call[d]]
  BY DEF MapInv, Shapes
<1>2. /\ was.pc = "notify" /\ was.at > Len(Held(c)) /\ due' = due
      /\ call'[c] = [was EXCEPT !.pc = "done"]
  BY <1>1 DEF Return
<1>3. Progress(c) /\ was.errs = Names(Select(was.heard, Failed))
  BY <1>2 DEF HearInv
<1>4. Held(c) \in Seq(Hooks \cup {Nil})
  <2>1. c \in Holders
    BY DEF Holders
  <2> QED BY <1>3, <2>1 DEF SlicesInv, Held, Progress
<1>5. was.at - 1 = Len(Held(c))
  BY <1>2, <1>3, <1>4 DEF Progress
<1>6. Names(was.heard) = due[c]
  BY <1>3, <1>5 DEF Progress, NonNil, Select
<1>7. call'[c].pc = "done" /\ call'[c].heard = was.heard /\ call'[c].errs = was.errs
  BY <1>1, <1>2 DEF IsCall, CallFields
<1>8. /\ call'[c].pc = "done"
      /\ call'[c].errs = Names(Select(call'[c].heard, Failed))
      /\ Names(call'[c].heard) = due'[c]
  BY <1>2, <1>3, <1>6, <1>7
<1> QED BY <1>8 DEF HearInv, Names, Select, Picked

(* The names of the holders are all different.                             *)
LEMMA HoldersDiffer ==
  /\ Slices \subseteq Holders /\ Calls \subseteq Holders
  /\ Nil \notin Holders
  /\ \A c \in Calls : c \notin Slices
  /\ \A h \in Slices : h # Nil
  BY ActivityAssumption DEF Holders

(* No array changes that an emission is going through.                     *)
Undisturbed(c) ==
  call[c].pc = "notify" => slice'[c] = slice[c] /\ arrays'[slice[c]] = arrays[slice[c]]

LEMMA CloneUndisturbs ==
  ASSUME SlicesInv, NEW from \in Holders, NEW to \in Holders, slice[from] # Nil,
         CloneHooks(from, to), NEW c \in Calls, c # to, HearInv(c),
         to \in Calls \/ (to \in {"option", "returned", "emitter"} /\ slice[to] = Nil)
  PROVE  Undisturbed(c)
<1> SUFFICES ASSUME call[c].pc = "notify"
             PROVE  slice'[c] = slice[c] /\ arrays'[slice[c]] = arrays[slice[c]]
  BY DEF Undisturbed
<1>1. slice[c] \in {c, "list", "emitter"} /\ (slice[c] = "emitter" => slice["emitter"] = "emitter")
  BY DEF HearInv, Progress, SlicesInv
<1>2. slice[c] \in Holders /\ slice[c] # to
  BY <1>1, HoldersDiffer DEF Slices
<1>3. c \in Holders
  BY HoldersDiffer
<1> QED BY <1>2, <1>3, CloneStep

LEMMA ConfigureKeeps ==
  ASSUME SlicesInv, \A c \in Calls : HearInv(c), Configure
  PROVE  SlicesInv' /\ \A c \in Calls : Undisturbed(c)
<1>1. \A h \in Slices : h \in Holders /\ h \notin Calls /\ h # Nil
  BY HoldersDiffer
<1>2. slice["list"] # Nil
  BY <1>1 DEF SlicesInv, Slices
<1>3. CASE WithActivityHooks
  <2>1. /\ slice["option"] = Nil /\ CloneHooks("list", "option") /\ enabled' = enabled
        /\ meant' = [meant EXCEPT !["option"] = NonNil(Held("list"))]
    BY <1>3 DEF WithActivityHooks
  <2>2. /\ arrays' \in [Holders -> Seq(Hooks \cup {Nil})]
        /\ slice' \in [Holders -> Holders \cup {Nil}]
        /\ arrays'["option"] = NonNil(Held("list")) /\ arrays'["option"] \in Seq(Hooks)
        /\ slice'["option"] = "option"
        /\ \A h \in Holders : h # "option" => arrays'[h] = arrays[h] /\ slice'[h] = slice[h]
    BY <1>1, <1>2, <2>1, CloneStep DEF Slices
  <2>3. /\ meant' \in [Holders -> Seq(Hooks)] /\ meant'["option"] = arrays'["option"]
        /\ meant'["emitter"] = meant["emitter"]
    BY <1>1, <2>1, <2>2 DEF SlicesInv, Slices
  <2>4. SlicesInv'
    BY <1>1, <2>1, <2>2, <2>3, HoldersDiffer DEF SlicesInv, Slices
  <2>5. \A c \in Calls : Undisturbed(c)
    BY <1>1, <1>2, <2>1, CloneUndisturbs DEF Slices
  <2> QED BY <2>4, <2>5
<1>4. CASE ActivityHooks
  <2>1. /\ slice["option"] # Nil /\ slice["returned"] = Nil /\ CloneHooks("option", "returned")
        /\ enabled' = enabled /\ meant' = meant
    BY <1>4 DEF ActivityHooks
  <2>2. /\ arrays' \in [Holders -> Seq(Hooks \cup {Nil})]
        /\ slice' \in [Holders -> Holders \cup {Nil}]
        /\ slice'["returned"] = "returned"
        /\ \A h \in Holders : h # "returned" => arrays'[h] = arrays[h] /\ slice'[h] = slice[h]
    BY <1>1, <2>1, CloneStep DEF Slices
  <2>3. SlicesInv'
    BY <1>1, <2>1, <2>2, HoldersDiffer DEF SlicesInv, Slices
  <2>4. \A c \in Calls : Undisturbed(c)
    BY <1>1, <2>1, CloneUndisturbs DEF Slices
  <2> QED BY <2>3, <2>4
<1>5. ASSUME NEW from \in {"list", "returned"}, NEW on \in BOOLEAN, NewEmitter(from, on)
      PROVE  SlicesInv' /\ \A c \in Calls : Undisturbed(c)
  <2>1. /\ slice["emitter"] = Nil /\ slice[from] # Nil /\ CloneHooks(from, "emitter")
        /\ enabled' = (on /\ arrays'["emitter"] # <<>>)
        /\ meant' = [meant EXCEPT !["emitter"] = IF on THEN NonNil(Held(from)) ELSE <<>>]
    BY <1>5 DEF NewEmitter
  <2>2. /\ arrays' \in [Holders -> Seq(Hooks \cup {Nil})]
        /\ slice' \in [Holders -> Holders \cup {Nil}]
        /\ arrays'["emitter"] = NonNil(Held(from)) /\ arrays'["emitter"] \in Seq(Hooks)
        /\ slice'["emitter"] = "emitter"
        /\ \A h \in Holders : h # "emitter" => arrays'[h] = arrays[h] /\ slice'[h] = slice[h]
    BY <1>1, <2>1, CloneStep DEF Slices
  <2>3. /\ meant' \in [Holders -> Seq(Hooks)]
        /\ meant'["emitter"] = IF on THEN arrays'["emitter"] ELSE Nothing
        /\ meant'["option"] = meant["option"]
    <3>1. Nothing \in Seq(Hooks) /\ "emitter" \in Holders /\ "option" \in Holders
      BY <1>1, NothingIs DEF Slices
    <3>2. meant' = [meant EXCEPT !["emitter"] = IF on THEN arrays'["emitter"] ELSE Nothing]
      BY <2>1, <2>2 DEF Nothing
    <3> QED BY <2>2, <3>1, <3>2 DEF SlicesInv
  <2>4. meant'["emitter"] = IF enabled' THEN arrays'["emitter"] ELSE Nothing
    <3>1. CASE on /\ arrays'["emitter"] # <<>>
      BY <2>1, <2>3, <3>1
    <3>2. CASE on /\ arrays'["emitter"] = <<>>
      <4>1. arrays'["emitter"] = Nothing
        BY <3>2 DEF Nothing
      <4> QED BY <2>1, <2>3, <4>1
    <3>3. CASE ~on
      BY <2>1, <2>3, <3>3
    <3> QED BY <3>1, <3>2, <3>3
  <2>5. SlicesInv'
    BY <1>1, <2>1, <2>2, <2>3, <2>4, HoldersDiffer DEF SlicesInv, Slices
  <2>6. \A c \in Calls : Undisturbed(c)
    BY <1>1, <2>1, CloneUndisturbs DEF Slices
  <2> QED BY <2>5, <2>6
<1> QED BY <1>3, <1>4, <1>5 DEF Configure

LEMMA ProgramWritesSliceKeeps ==
  ASSUME SlicesInv, \A c \in Calls : HearInv(c), NEW h \in {"list", "returned"}, NEW i,
         NEW hook \in Replacements, ProgramWritesSlice(h, i, hook)
  PROVE  SlicesInv' /\ \A c \in Calls : Undisturbed(c)
<1>1. /\ slice[h] # Nil /\ i \in 1..Len(Held(h)) /\ UNCHANGED <<slice, enabled, meant>>
      /\ \A c \in Calls : call[c].pc = "notify" => slice[c] # h
      /\ arrays' = [arrays EXCEPT ![slice[h]][i] = hook]
  BY DEF ProgramWritesSlice
<1>2. slice[h] = h /\ h \in Holders
  BY <1>1, HoldersDiffer DEF SlicesInv, Slices
<1>3. arrays[h] \in Seq(Hooks \cup {Nil}) /\ hook \in Hooks \cup {Nil} /\ i \in 1..Len(arrays[h])
  BY <1>1, <1>2, ActivityAssumption DEF SlicesInv, Held
<1>4. [arrays[h] EXCEPT ![i] = hook] \in Seq(Hooks \cup {Nil})
  BY <1>3
<1>5. /\ arrays' \in [Holders -> Seq(Hooks \cup {Nil})]
      /\ \A x \in Holders : x # h => arrays'[x] = arrays[x]
  <2>1. arrays' = [arrays EXCEPT ![h] = [arrays[h] EXCEPT ![i] = hook]]
    BY <1>1, <1>2
  <2> QED BY <1>2, <1>4, <2>1 DEF SlicesInv
<1>6. SlicesInv'
  <2>1. "option" \in Holders /\ "emitter" \in Holders /\ h # "option" /\ h # "emitter"
    BY HoldersDiffer DEF Slices
  <2> QED BY <1>1, <1>5, <2>1 DEF SlicesInv
<1>7. ASSUME NEW c \in Calls PROVE Undisturbed(c)
  <2>1. call[c].pc = "notify" => slice[c] \in Holders /\ slice[c] # h
    BY <1>1, HoldersDiffer DEF HearInv, Progress, SlicesInv
  <2> QED BY <1>1, <1>5, <2>1 DEF Undisturbed
<1> QED BY <1>6, <1>7

(* An emission begins.                                                     *)
LEMMA EmitKeeps ==
  ASSUME HookInv, NEW c \in Calls, NEW in \in Requests,
         EmitThroughEmitter(c, in) \/ NotifyThroughWrapper(c, in) \/ NotifyThroughList(c, in)
  PROVE  /\ SlicesInv' /\ HearInv(c)' /\ due' = [d \in Calls |-> due'[d]]
         /\ \A d \in Calls : d # c => call'[d] = call[d] /\ due'[d] = due[d] /\ Undisturbed(d)
<1> USE DEF HookInv
<1>1. /\ c \in Holders /\ c \notin Slices /\ \A h \in Slices : h \in Holders /\ h # Nil
      /\ "list" \in Slices /\ "option" \in Slices /\ "emitter" \in Slices /\ "returned" \in Slices
  BY HoldersDiffer DEF Slices
<1>2. ASSUME NEW list, Begin(c, in, list)
      PROVE  /\ enabled' = enabled /\ meant' = meant
             /\ \A d \in Calls : d # c => call'[d] = call[d]
  BY <1>2 DEF Begin, MapInv, Shapes
<1>3. ASSUME NEW x, due' = [due EXCEPT ![c] = x]
      PROVE  /\ due' = [d \in Calls |-> due'[d]] /\ due'[c] = x
             /\ \A d \in Calls : d # c => due'[d] = due[d]
  BY <1>3
<1>4. ASSUME NEW h \in {"list", "emitter"}, slice[h] = h, slice' = [slice EXCEPT ![c] = h],
             UNCHANGED <<arrays, enabled, meant>>
      PROVE  /\ SlicesInv' /\ slice'[c] # Nil /\ Held(c)' = arrays[h]
             /\ \A d \in Calls : d # c => Undisturbed(d)
  <2>1. /\ slice' \in [Holders -> Holders \cup {Nil}] /\ slice'[c] = h
        /\ \A x \in Holders : x # c => slice'[x] = slice[x]
    BY <1>1, <1>4 DEF SlicesInv
  <2>2. SlicesInv'
    BY <1>1, <1>4, <2>1, HoldersDiffer DEF SlicesInv
  <2>3. slice'[c] # Nil /\ Held(c)' = arrays[h]
    BY <1>1, <1>4, <2>1 DEF Held
  <2>4. \A d \in Calls : d # c => Undisturbed(d)
    BY <1>4, <2>1, HoldersDiffer DEF Undisturbed
  <2> QED BY <2>2, <2>3, <2>4
<1>5. CASE EmitThroughEmitter(c, in)
  <2> DEFINE list == IF enabled THEN Held("emitter") ELSE <<>>
  <2>1. /\ call[c].pc = "idle" /\ slice["emitter"] # Nil
        /\ slice' = [slice EXCEPT ![c] = slice["emitter"]] /\ Begin(c, in, list)
        /\ due' = [due EXCEPT ![c] = Due(in, meant["emitter"])] /\ arrays' = arrays
    BY <1>5 DEF EmitThroughEmitter
  <2>2. slice["emitter"] = "emitter"
    BY <1>1, <2>1 DEF SlicesInv
  <2>3. /\ SlicesInv' /\ slice'[c] # Nil /\ Held(c)' = arrays["emitter"]
        /\ \A d \in Calls : d # c => Undisturbed(d)
    BY <1>2, <1>4, <2>1, <2>2
  <2>4. /\ list \in Seq(Hooks) /\ list \in Seq(Hooks \cup {Nil})
        /\ list # <<>> => list = arrays["emitter"]
    BY <2>1, <2>2 DEF SlicesInv, Held
  <2>5. meant["emitter"] = list
    BY <2>1, <2>2 DEF SlicesInv, Held, Nothing
  <2>6. NonNil(list) = list
    <3> HIDE DEF list
    <3> QED BY <2>4, SelectAll DEF NonNil
  <2> HIDE DEF list
  <2>7. due'[c] = Due(in, NonNil(list))
    BY <1>3, <2>1, <2>5, <2>6
  <2>8. HearInv(c)'
    BY <2>1, <2>3, <2>4, <2>7, BeginHears
  <2> QED BY <1>2, <1>3, <2>1, <2>3, <2>8
<1>6. CASE NotifyThroughWrapper(c, in)
  <2> DEFINE list == arrays'[c]
  <2>1. /\ call[c].pc = "idle" /\ slice["option"] # Nil /\ CloneHooks("option", c)
        /\ Begin(c, in, list) /\ due' = [due EXCEPT ![c] = Due(in, meant["option"])]
    BY <1>6 DEF NotifyThroughWrapper
  <2>2. slice["option"] = "option"
    BY <1>1, <2>1 DEF SlicesInv
  <2>3. /\ arrays' \in [Holders -> Seq(Hooks \cup {Nil})]
        /\ slice' \in [Holders -> Holders \cup {Nil}]
        /\ list = NonNil(Held("option")) /\ list \in Seq(Hooks) /\ slice'[c] = c
        /\ \A h \in Holders : h # c => arrays'[h] = arrays[h] /\ slice'[h] = slice[h]
    BY <1>1, <2>1, CloneStep
  <2>4. SlicesInv'
    <3>1. enabled' = enabled /\ meant' = meant
      BY <1>2, <2>1
    <3>2. \A h \in Slices : arrays'[h] = arrays[h] /\ slice'[h] = slice[h]
      BY <1>1, <2>3
    <3>3. \A d \in Calls : d # c => slice'[d] = slice[d]
      BY <2>3, HoldersDiffer
    <3> HIDE DEF list
    <3> QED BY <1>1, <2>3, <3>1, <3>2, <3>3 DEF SlicesInv
  <2>5. \A d \in Calls : d # c => Undisturbed(d)
    BY <1>1, <2>1, CloneUndisturbs
  <2>6. Held(c)' = list /\ slice'[c] # Nil
    <3>1. slice'[c] = c /\ c # Nil
      BY <1>1, <2>3, HoldersDiffer
    <3> QED BY <3>1 DEF Held
  <2>7. meant["option"] = arrays["option"] /\ meant["option"] \in Seq(Hooks)
    BY <1>1, <2>1 DEF SlicesInv
  <2>8. list = meant["option"]
    BY <2>2, <2>3, <2>7, SelectAll DEF NonNil, Held
  <2> HIDE DEF list
  <2>9. list \in Seq(Hooks \cup {Nil}) /\ NonNil(list) = list
    BY <2>3, SelectAll DEF NonNil
  <2>10. due'[c] = Due(in, NonNil(list))
    BY <1>3, <2>1, <2>8, <2>9
  <2>11. HearInv(c)'
    BY <2>1, <2>6, <2>9, <2>10, BeginHears
  <2> QED BY <1>2, <1>3, <2>1, <2>4, <2>5, <2>11
<1>7. CASE NotifyThroughList(c, in)
  <2> DEFINE list == Held("list")
  <2>1. /\ call[c].pc = "idle" /\ slice' = [slice EXCEPT ![c] = "list"] /\ arrays' = arrays
        /\ Begin(c, in, list) /\ due' = [due EXCEPT ![c] = Due(in, NonNil(list))]
    BY <1>7 DEF NotifyThroughList
  <2>2. slice["list"] = "list" /\ list = arrays["list"] /\ list \in Seq(Hooks \cup {Nil})
    BY <1>1 DEF SlicesInv, Held
  <2>3. /\ SlicesInv' /\ slice'[c] # Nil /\ Held(c)' = list
        /\ \A d \in Calls : d # c => Undisturbed(d)
    BY <1>2, <1>4, <2>1, <2>2
  <2> HIDE DEF list
  <2>4. due'[c] = Due(in, NonNil(list))
    BY <1>3, <2>1
  <2>5. HearInv(c)'
    BY <2>1, <2>2, <2>3, <2>4, BeginHears
  <2> QED BY <1>2, <1>3, <2>1, <2>3, <2>5
<1> QED BY <1>5, <1>6, <1>7

(* An emission goes on.                                                    *)
LEMMA TurnHears ==
  ASSUME HookInv, NEW c \in Calls,
         \/ SkipNil(c) \/ Return(c)
         \/ \E failed \in BOOLEAN : \/ Capture(c, failed) \/ Log(c, failed)
                                    \/ \E keeps \in BOOLEAN : UserHook(c, keeps, failed)
  PROVE  /\ UNCHANGED <<arrays, slice, enabled, meant, due>> /\ HearInv(c)'
         /\ \A d \in Calls : d # c => call'[d] = call[d]
<1> USE DEF HookInv
<1>0. IsCall(call[c]) /\ call = [d \in Calls |-> call[d]]
  BY DEF MapInv, Shapes
<1>1. CASE Return(c)
  BY <1>0, <1>1, ReturnHears DEF Return
<1>2. CASE SkipNil(c)
  <2> DEFINE was == call[c]
             now == [was EXCEPT !.at = was.at + 1]
  <2>1. /\ was.pc = "notify" /\ was.at <= Len(Held(c)) /\ Current(c) = Nil
        /\ call' = [call EXCEPT ![c] = now] /\ UNCHANGED <<arrays, slice, enabled, meant, due>>
    BY <1>0, <1>2 DEF SkipNil
  <2>2. /\ now.pc = was.pc /\ now.at = was.at + 1 /\ now.heard = was.heard /\ now.errs = was.errs
    BY <1>0 DEF IsCall, CallFields
  <2> HIDE DEF now
  <2>3. call'[c] = now /\ \A d \in Calls : d # c => call'[d] = call[d]
    BY <1>0, <2>1
  <2>4. Current(c) \notin Hooks
    BY <2>1, ActivityAssumption
  <2>5. HearInv(c)'
    BY <2>1, <2>2, <2>3, <2>4, RoundHears
  <2> QED BY <2>1, <2>3, <2>5
<1>3. ASSUME NEW failed \in BOOLEAN, NEW kind, AtHook(c, kind), Heard(c, failed),
             UNCHANGED <<arrays, slice, enabled, meant, due>>
      PROVE  HearInv(c)' /\ \A d \in Calls : d # c => call'[d] = call[d]
  <2> DEFINE was == call[c]
             now == [was EXCEPT !.at = was.at + 1,
                       !.errs = IF failed THEN Append(was.errs, Current(c)) ELSE was.errs,
                       !.heard = Append(was.heard, [hook |-> Current(c), failed |-> failed])]
  <2>1. /\ was.pc = "notify" /\ was.at <= Len(Held(c)) /\ Current(c) \in Hooks
        /\ call' = [call EXCEPT ![c] = now]
    BY <1>3 DEF AtHook, Heard
  <2>2. /\ now.pc = was.pc /\ now.at = was.at + 1
        /\ now.heard = Append(was.heard, [hook |-> Current(c), failed |-> failed])
        /\ now.errs = IF failed THEN Append(was.errs, Current(c)) ELSE was.errs
    BY <1>0 DEF IsCall, CallFields
  <2> HIDE DEF now
  <2>3. call'[c] = now /\ \A d \in Calls : d # c => call'[d] = call[d]
    BY <1>0, <2>1
  <2>4. HearInv(c)'
    BY <1>3, <2>1, <2>2, <2>3, RoundHears
  <2> QED BY <2>3, <2>4
<1>4. CASE \E failed \in BOOLEAN : \/ Capture(c, failed) \/ Log(c, failed)
                                   \/ \E keeps \in BOOLEAN : UserHook(c, keeps, failed)
  BY <1>3, <1>4 DEF Capture, Log, UserHook
<1> QED BY <1>1, <1>2, <1>4

LEMMA HookStep ==
  ASSUME HookInv, [Next]_vars
  PROVE  HookInv'
<1> USE DEF HookInv
<1>0. MapInv'
  BY MapStep
<1>1. ASSUME SlicesInv', call' = call, due' = due, \A c \in Calls : Undisturbed(c)
      PROVE  HookInv'
  <2>1. \A c \in Calls : HearInv(c)'
    BY <1>1, HearSame DEF Undisturbed
  <2>2. due' = [c \in Calls |-> due'[c]]
    BY <1>1
  <2> QED BY <1>0, <1>1, <2>1, <2>2
<1>2. ASSUME UNCHANGED <<arrays, slice, enabled, meant>>
      PROVE  SlicesInv' /\ \A c \in Calls : Undisturbed(c)
  BY <1>2 DEF SlicesInv, Undisturbed
<1>3. CASE Configure
  <2>1. call' = call /\ due' = due
    BY <1>3 DEF Configure, WithActivityHooks, ActivityHooks, NewEmitter
  <2> QED BY <1>1, <1>3, <2>1, ConfigureKeeps
<1>4. CASE ProgramWrites
  <2>1. ASSUME NEW h \in {"list", "returned"}, NEW i, NEW hook \in Replacements,
               ProgramWritesSlice(h, i, hook)
        PROVE  HookInv'
    <3>1. call' = call /\ due' = due
      BY <2>1 DEF ProgramWritesSlice
    <3> QED BY <1>1, <2>1, <3>1, ProgramWritesSliceKeeps
  <2>2. ASSUME NEW cell, ProgramWritesMap(cell) PROVE HookInv'
    <3>1. UNCHANGED <<arrays, slice, enabled, meant, call, due>>
      BY <2>2 DEF ProgramWritesMap
    <3> QED BY <1>1, <1>2, <3>1
  <2> QED BY <1>4, <2>1, <2>2 DEF ProgramWrites
<1>5. ASSUME NEW c \in Calls, Emission(c) PROVE HookInv'
  <2>1. ASSUME NEW in \in Requests,
               EmitThroughEmitter(c, in) \/ NotifyThroughWrapper(c, in) \/ NotifyThroughList(c, in)
        PROVE  HookInv'
    <3>1. /\ SlicesInv' /\ HearInv(c)' /\ due' = [d \in Calls |-> due'[d]]
          /\ \A d \in Calls : d # c => call'[d] = call[d] /\ due'[d] = due[d] /\ Undisturbed(d)
      BY <2>1, EmitKeeps
    <3>2. \A d \in Calls : d # c => HearInv(d)'
      BY <3>1, HearSame DEF Undisturbed
    <3> QED BY <1>0, <3>1, <3>2
  <2>2. ASSUME \/ SkipNil(c) \/ Return(c)
               \/ \E failed \in BOOLEAN : \/ Capture(c, failed) \/ Log(c, failed)
                                          \/ \E keeps \in BOOLEAN : UserHook(c, keeps, failed)
        PROVE  HookInv'
    <3>1. /\ UNCHANGED <<arrays, slice, enabled, meant, due>> /\ HearInv(c)'
          /\ \A d \in Calls : d # c => call'[d] = call[d]
      BY <2>2, TurnHears
    <3>2. SlicesInv' /\ \A d \in Calls : Undisturbed(d)
      BY <1>2, <3>1
    <3>3. \A d \in Calls : d # c => HearInv(d)'
      BY <3>1, <3>2, HearSame DEF Undisturbed
    <3>4. due' = [d \in Calls |-> due'[d]]
      BY <3>1
    <3> QED BY <1>0, <3>1, <3>2, <3>3, <3>4
  <2> QED BY <1>5, <2>1, <2>2 DEF Emission
<1>6. ASSUME NEW h \in Hooks, NEW cell \in Cells, HookWrites(h, cell) PROVE HookInv'
  <2>1. UNCHANGED <<arrays, slice, enabled, meant, call, due>>
    BY <1>6 DEF HookWrites
  <2> QED BY <1>1, <1>2, <2>1
<1>7. CASE Finished \/ UNCHANGED vars
  <2>1. UNCHANGED <<arrays, slice, enabled, meant, call, due>>
    BY <1>7 DEF Finished, vars
  <2> QED BY <1>1, <1>2, <2>1
<1> QED BY <1>3, <1>4, <1>5, <1>6, <1>7 DEF Next

(* Every hook an emission is meant for is called once, in the order they   *)
(* were configured in, whatever the others return and whatever the program *)
(* has written into its slices since; the error joins those that failed    *)
(* (hooks.go:52-79, options_activity.go:5-16).                             *)
THEOREM HooksAreHeard == Spec => []EveryHookHears
<1>1. HookInv => EveryHookHears
  <2> SUFFICES ASSUME HookInv, NEW c \in Calls, call[c].pc = "done"
               PROVE  LET heard == call[c].heard
                          fails == Select(heard, [hook : Hooks, failed : {TRUE}])
                      IN  /\ [i \in DOMAIN heard |-> heard[i].hook] = due[c]
                          /\ call[c].errs = [i \in DOMAIN fails |-> fails[i].hook]
    BY DEF EveryHookHears
  <2>1. Names(call[c].heard) = due[c] /\ call[c].errs = Names(Select(call[c].heard, Failed))
    BY DEF HookInv, HearInv
  <2> QED BY <2>1 DEF Names, Failed
<1> QED BY <1>1, HookInit, HookStep, PTL DEF Spec
=============================================================================
