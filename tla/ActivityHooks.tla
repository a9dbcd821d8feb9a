---------------------------- MODULE ActivityHooks ----------------------------
(***************************************************************************)
(* Activity events and the hooks they are fanned out to: who is notified   *)
(* of what, and which maps the hooks, the sinks and the program share.     *)
(*                                                                         *)
(* Several goroutines emit at once, through the emitter, through the hooks *)
(* a wrapper was configured with, or through a slice of the program's own; *)
(* one of their steps is the call of one hook.  A slice is a reference to  *)
(* an array, named after the holder it was made for.  A cell is a map: the *)
(* Metadata of an event together with its Recipients, which are copied in  *)
(* the same places, or an object inside of a metadata map.  Its entries    *)
(* are marks of who wrote into it, and references to objects; a copy of a  *)
(* map has references to the same objects.                                 *)
(***************************************************************************)
EXTENDS Naturals, Sequences

CONSTANTS
  Calls,       \* emissions, each by a goroutine of its own
  Hooks,       \* the hooks there are
  KindOf,      \* "capture", "sink" or "user" for each hook
  Fallible,    \* the hooks that may return an error
  ProgramMaps, \* the program's metadata maps, each with an object of its own
  Lists,       \* what the program's slice of hooks may hold at first
  Requests,    \* what is emitted
  Replacements,\* what the program may put in a slice of its own later
  Nil,         \* no hook, no slice, no map
  MaxHooks,    \* bound: the length of a slice
  MaxWrites    \* bound: the program's writes

VARIABLES
  arrays,    \* the hooks in the array made for each holder
  slice,     \* whose array each holder refers to
  enabled,   \* Emitter.enabled
  entries,   \* what is in each cell
  call,      \* the emissions
  recorded,  \* what CaptureHook and the sink have kept
  writes,    \* how often the program has written
  kept,      \* cells of events that hooks still refer to
  meant,     \* history: the hooks the program configured a holder with
  due        \* history: the hooks each emission has to reach

vars == <<arrays, slice, enabled, entries, call, recorded, writes, kept, meant, due>>

-----------------------------------------------------------------------------
(* Text, as far as strings.TrimSpace tells it apart.                       *)
Empty == "empty"
Blank == "blank"
Word  == "word"
Texts == {Empty, Blank, Word}
Trim(t) == IF t = Blank THEN Empty ELSE t

(* A call is also the holder of the slice ActivityHooks returns to it.     *)
Slices  == {"list", "option", "returned", "emitter"}
Holders == Slices \cup Calls

(* The elements of s that are in T, after each round of a loop over s.     *)
Picked(s, T) ==
  LET out[i \in 0..Len(s)] ==
        IF i = 0 THEN <<>> ELSE IF s[i] \in T THEN Append(out[i - 1], s[i]) ELSE out[i - 1]
  IN  out
Select(s, T) == Picked(s, T)[Len(s)]

NonNil(s) == Select(s, Hooks)

InProgram(m) == <<"program", m, 0>>
Inner(m)     == <<"inner", m, 0>>
ScopeOf(c)   == <<"scope", c, 0>>
Built(c)     == <<"built", c, 0>>
Normal(c)    == <<"event", c, 0>>
Record(c, i) == <<"record", c, i>>

(* An object is the program's - nested in its map, or a value it reports - *)
(* or the scope_metadata of an event.                                      *)
Inners  == {Inner(m) : m \in ProgramMaps}
Objects == Inners \cup {ScopeOf(c) : c \in Calls}
Cells   == {InProgram(m) : m \in ProgramMaps} \cup {Built(c) : c \in Calls}
             \cup {Normal(c) : c \in Calls} \cup {Record(c, i) : c \in Calls, i \in 1..MaxHooks}
             \cup Objects
By(who) == <<"by", who, 0>>
Marks   == {By("program"), By("details"), By("code")} \cup {By(h) : h \in Hooks}
Entries == Marks \cup Objects

ASSUME ActivityAssumption ==
  /\ Nil \notin Hooks \cup Cells
  /\ Hooks \cap {"program", "details", "code"} = {}
  /\ MaxHooks \in Nat /\ MaxWrites \in Nat
  /\ Nil \notin Holders /\ Calls \cap Slices = {}
  /\ Lists \subseteq Seq(Hooks \cup {Nil}) /\ Replacements \subseteq Hooks \cup {Nil}
  /\ \A in \in Requests :
       /\ in.built \in BOOLEAN
       /\ {in.verb, in.objectType, in.objectID, in.path, in.snapshot} \subseteq Texts
       /\ {in.metadata, in.scope} \subseteq {InProgram(m) : m \in ProgramMaps} \cup {Nil}
       /\ in.value \in Inners \cup {Nil}

In(m, cell) == IF cell = Nil THEN {} ELSE m[cell]

(* cloneMap: nil for an empty map, otherwise a fresh map with the entries; *)
(* the objects among them are not copied.                                  *)
CloneShares(m, cell, fresh) == IF In(m, cell) = {} THEN Nil ELSE cell
Clone(m, cell, fresh)   == IF In(m, cell) = {} THEN Nil ELSE fresh
CloneIn(m, cell, fresh) == [m EXCEPT ![fresh] = In(m, cell)]

-----------------------------------------------------------------------------
(* Building and normalising events.                                        *)

(* What is put into the metadata: text, for a path, a scope (details) or a *)
(* snapshot id; a copy of the scope's metadata; the old or the new value.  *)
Given(is, entry) == IF is THEN {entry} ELSE {}
ScopeGiven(in)   == IF in.details THEN in.scope ELSE Nil
Added(c, in) ==
  Given(in.path # Empty \/ in.snapshot # Empty \/ in.details, By("details"))
    \cup Given(In(entries, ScopeGiven(in)) # {}, Clone(entries, ScopeGiven(in), ScopeOf(c)))
    \cup Given(in.value # Nil, in.value)

ObjectID(in) ==
  Head(Select(<<Trim(in.objectID), Trim(in.path), Trim(in.snapshot), Word>>, Texts \ {Empty}))

(* buildOptionsEvent, and the cells after it.                              *)
BuildOptionsEvent(c, in) ==
  [verb |-> Word, objectType |-> Word, objectID |-> ObjectID(in), code |-> Trim(in.code),
   metadata |-> IF Added(c, in) # {} THEN Built(c)
                ELSE Clone(entries, in.metadata, Built(c))]
BuiltIn(c, in) ==
  [CloneIn(entries, ScopeGiven(in), ScopeOf(c)) EXCEPT
     ![Built(c)] = In(entries, in.metadata) \cup Added(c, in)]

(* An event the program fills in itself.                                   *)
RawEvent(in) ==
  [verb |-> in.verb, objectType |-> in.objectType, objectID |-> in.objectID, code |-> in.code,
   metadata |-> in.metadata]

EventOf(c, in) == IF in.built THEN BuildOptionsEvent(c, in) ELSE RawEvent(in)
EntriesOf(c, in) == IF in.built THEN BuiltIn(c, in) ELSE entries

NormalizeEvent(m, e, fresh) ==
  [verb |-> Trim(e.verb), objectType |-> Trim(e.objectType), objectID |-> Trim(e.objectID),
   code |-> Trim(e.code), metadata |-> Clone(m, e.metadata, fresh)]
NormalizeIn(m, e, fresh) == CloneIn(m, e.metadata, fresh)

Complete(e) == e.verb # Empty /\ e.objectType # Empty /\ e.objectID # Empty

NoEvent ==
  [verb |-> Empty, objectType |-> Empty, objectID |-> Empty, code |-> Empty, metadata |-> Nil]
Idle ==
  [pc |-> "idle", at |-> 1, event |-> NoEvent, errs |-> <<>>, heard |-> <<>>, start |-> {}]

-----------------------------------------------------------------------------
Init ==
  /\ \E list \in Lists : arrays = [h \in Holders |-> IF h = "list" THEN list ELSE <<>>]
  /\ slice = [h \in Holders |-> IF h = "list" THEN "list" ELSE Nil]
  /\ enabled = FALSE
  /\ \E full \in SUBSET ProgramMaps :
       entries = [x \in Cells |-> {Inner(m) : m \in {n \in full : x = InProgram(n)}}]
  /\ call = [c \in Calls |-> Idle]
  /\ recorded = {}
  /\ writes = 0
  /\ kept = [h \in Hooks |-> {}]
  /\ meant = [h \in Holders |-> <<>>]
  /\ due = [c \in Calls |-> <<>>]

(* cloneActivityHooks and cloneHooks: the non-nil hooks, in a fresh array. *)
Held(from)          == arrays[slice[from]]
CloneHooks(from, to) ==
  /\ slice' = [slice EXCEPT ![to] = to]
  /\ arrays' = [arrays EXCEPT ![to] = NonNil(Held(from))]

(* The program makes the option and a wrapper with it.                     *)
WithActivityHooks ==
  /\ slice["option"] = Nil
  /\ CloneHooks("list", "option")
  /\ meant' = [meant EXCEPT !["option"] = NonNil(Held("list"))]
  /\ UNCHANGED <<enabled, entries, call, recorded, writes, kept, due>>

(* It asks the wrapper for its hooks.                                      *)
ActivityHooks ==
  /\ slice["option"] # Nil /\ slice["returned"] = Nil
  /\ CloneHooks("option", "returned")
  /\ UNCHANGED <<enabled, entries, call, recorded, writes, kept, meant, due>>

(* It makes an emitter from either slice.                                  *)
NewEmitter(from, on) ==
  /\ slice["emitter"] = Nil /\ slice[from] # Nil
  /\ CloneHooks(from, "emitter")
  /\ enabled' = (on /\ arrays'["emitter"] # <<>>)
  /\ meant' = [meant EXCEPT !["emitter"] = IF on THEN NonNil(Held(from)) ELSE <<>>]
  /\ UNCHANGED <<entries, call, recorded, writes, kept, due>>

Writes == writes < MaxWrites /\ writes' = writes + 1

(* It writes into a slice that is its own, unless it is emitting from it.  *)
ProgramWritesSlice(h, i, hook) ==
  /\ slice[h] # Nil /\ i \in 1..Len(Held(h))
  /\ \A c \in Calls : call[c].pc = "notify" => slice[c] # h
  /\ arrays' = [arrays EXCEPT ![slice[h]][i] = hook]
  /\ Writes
  /\ UNCHANGED <<slice, enabled, entries, call, recorded, kept, meant, due>>

(* It writes into a metadata map of its own, or into the object in it.     *)
ProgramWritesMap(cell) ==
  /\ entries' = [entries EXCEPT ![cell] = @ \cup {By("program")}]
  /\ Writes
  /\ UNCHANGED <<arrays, slice, enabled, call, recorded, kept, meant, due>>

-----------------------------------------------------------------------------
(* An emission up to the first hook: building the event, Emitter.Emit or   *)
(* ActivityHooks, and Hooks.Notify up to its loop.  Without hooks nothing  *)
(* is normalised, which nobody can tell from an unused copy.               *)

Begin(c, in, heard) ==
  LET built == EventOf(c, in)
      event == NormalizeEvent(EntriesOf(c, in), built, Normal(c))
      goes  == heard # <<>> /\ Complete(event)
  IN  /\ entries' = NormalizeIn(EntriesOf(c, in), built, Normal(c))
      /\ call' = [call EXCEPT ![c] =
                    [@ EXCEPT !.pc = IF goes THEN "notify" ELSE "done",
                              !.event = event,
                              !.start = In(EntriesOf(c, in), built.metadata)]]
      /\ UNCHANGED <<enabled, recorded, writes, kept, meant>>

(* The hooks an emission has to reach: those its event was meant for,      *)
(* unless the program left a field out that hooks rely on.                 *)
Due(in, list) ==
  IF in.built \/ {in.verb, in.objectType, in.objectID} = {Word} THEN list ELSE <<>>

EmitThroughEmitter(c, in) ==
  /\ call[c].pc = "idle" /\ slice["emitter"] # Nil
  /\ slice' = [slice EXCEPT ![c] = slice["emitter"]]
  /\ Begin(c, in, IF enabled THEN Held("emitter") ELSE <<>>)
  /\ due' = [due EXCEPT ![c] = Due(in, meant["emitter"])]
  /\ UNCHANGED arrays

NotifyThroughWrapper(c, in) ==
  /\ call[c].pc = "idle" /\ slice["option"] # Nil
  /\ CloneHooks("option", c)
  /\ Begin(c, in, arrays'[c])
  /\ due' = [due EXCEPT ![c] = Due(in, meant["option"])]

NotifyThroughList(c, in) ==
  /\ call[c].pc = "idle"
  /\ slice' = [slice EXCEPT ![c] = "list"]
  /\ Begin(c, in, Held("list"))
  /\ due' = [due EXCEPT ![c] = Due(in, NonNil(Held("list")))]
  /\ UNCHANGED arrays

(* One round of the loop of Hooks.Notify.                                  *)

Current(c)  == Held(c)[call[c].at]
Turn(c)     == Len(call[c].heard) + 1
AtHook(c, kind) ==
  /\ call[c].pc = "notify" /\ call[c].at <= Len(Held(c)) /\ Turn(c) <= MaxHooks
  /\ Current(c) \in Hooks /\ KindOf[Current(c)] = kind

(* The hook has been called, and the loop goes on whether it failed or not. *)
HeardStopsAtError(c, failed) ==
  LET now == call[c]
  IN  /\ failed => Current(c) \in Fallible
      /\ call' = [call EXCEPT ![c] =
           [now EXCEPT !.at = IF failed THEN Len(Held(c)) + 1 ELSE now.at + 1,
                       !.errs = IF failed THEN Append(now.errs, Current(c)) ELSE now.errs,
                       !.heard = Append(now.heard, [hook |-> Current(c), failed |-> failed])]]
Heard(c, failed) ==
  LET now == call[c]
  IN  /\ failed => Current(c) \in Fallible
      /\ call' = [call EXCEPT ![c] =
           [now EXCEPT !.at = now.at + 1,
                       !.errs = IF failed THEN Append(now.errs, Current(c)) ELSE now.errs,
                       !.heard = Append(now.heard, [hook |-> Current(c), failed |-> failed])]]

SkipNil(c) ==
  /\ call[c].pc = "notify" /\ call[c].at <= Len(Held(c)) /\ Current(c) = Nil
  /\ call' = [call EXCEPT ![c].at = @ + 1]
  /\ UNCHANGED <<arrays, slice, enabled, entries, recorded, writes, kept, meant, due>>

Keep(c, cell) == recorded' = recorded \cup {[call |-> c, at |-> Turn(c), cell |-> cell]}

(* CaptureHook, under its mutex.                                           *)
Capture(c, failed) ==
  LET event == NormalizeEvent(entries, call[c].event, Record(c, Turn(c)))
  IN  /\ AtHook(c, "capture")
      /\ entries' = NormalizeIn(entries, call[c].event, Record(c, Turn(c)))
      /\ Keep(c, event.metadata)
      /\ Heard(c, failed)
      /\ UNCHANGED <<arrays, slice, enabled, writes, kept, meant, due>>

(* usersink.Hook: the record it hands to the sink has Data of its own.     *)
(* Without a Sink it does what a user hook does that keeps nothing.        *)
Code(c) == Given(call[c].event.code # Empty, By("code"))
SinkDataOfEvent(c, cell) ==
  IF cell = Nil /\ call[c].event.code # Empty THEN Record(c, Turn(c)) ELSE cell
SinkData(c, cell) ==
  IF call[c].event.code = Empty THEN Clone(entries, cell, Record(c, Turn(c)))
  ELSE Record(c, Turn(c))
SinkInEvent(c, cell) ==
  LET data == In(entries, cell) \cup Code(c)
  IN  [entries EXCEPT ![Record(c, Turn(c))] = data,
                    ![IF cell = Nil THEN Record(c, Turn(c)) ELSE cell] = data]
SinkIn(c, cell) ==
  [entries EXCEPT ![Record(c, Turn(c))] = In(entries, cell) \cup Code(c)]

Log(c, failed) ==
  /\ AtHook(c, "sink")
  /\ Keep(c, SinkData(c, call[c].event.metadata))
  /\ entries' = SinkIn(c, call[c].event.metadata)
  /\ Heard(c, failed)
  /\ UNCHANGED <<arrays, slice, enabled, writes, kept, meant, due>>

(* A hook of the program may keep the event it is given.                   *)
UserHook(c, keeps, failed) ==
  /\ AtHook(c, "user")
  /\ keeps => call[c].event.metadata # Nil
  /\ kept' = IF keeps THEN [kept EXCEPT ![Current(c)] = @ \cup {call[c].event.metadata}] ELSE kept
  /\ Heard(c, failed)
  /\ UNCHANGED <<arrays, slice, enabled, entries, recorded, writes, meant, due>>

(* It writes into an event it has kept, or into an object that can be      *)
(* reached from there: before the next hook is called, or at any time.     *)
AndBelow(cells) == cells \cup {x \in Objects : \E y \in cells : x \in entries[y]}
HookWrites(h, cell) ==
  /\ cell \in AndBelow(AndBelow(kept[h]))
  /\ entries' = [entries EXCEPT ![cell] = @ \cup {By(h)}]
  /\ UNCHANGED <<arrays, slice, enabled, call, recorded, writes, kept, meant, due>>

Return(c) ==
  /\ call[c].pc = "notify" /\ call[c].at > Len(Held(c))
  /\ call' = [call EXCEPT ![c].pc = "done"]
  /\ UNCHANGED <<arrays, slice, enabled, entries, recorded, writes, kept, meant, due>>

-----------------------------------------------------------------------------
Configure ==
  \/ WithActivityHooks
  \/ ActivityHooks
  \/ \E from \in {"list", "returned"}, on \in BOOLEAN : NewEmitter(from, on)

ProgramWrites ==
  \/ \E h \in {"list", "returned"}, i \in 1..MaxHooks, hook \in Replacements :
       ProgramWritesSlice(h, i, hook)
  \/ \E m \in ProgramMaps : ProgramWritesMap(InProgram(m)) \/ ProgramWritesMap(Inner(m))

Emission(c) ==
  \/ \E in \in Requests :
       EmitThroughEmitter(c, in) \/ NotifyThroughWrapper(c, in) \/ NotifyThroughList(c, in)
  \/ SkipNil(c)
  \/ \E failed \in BOOLEAN :
       \/ Capture(c, failed)
       \/ Log(c, failed)
       \/ \E keeps \in BOOLEAN : UserHook(c, keeps, failed)
  \/ Return(c)

Finished == (\A c \in Calls : call[c].pc = "done") /\ UNCHANGED vars

Next ==
  \/ Configure
  \/ ProgramWrites
  \/ \E c \in Calls : Emission(c)
  \/ \E h \in Hooks, cell \in Cells : HookWrites(h, cell)
  \/ Finished

Spec == Init /\ [][Next]_vars

-----------------------------------------------------------------------------
(* When an emission returns, every hook that was configured when the       *)
(* option or the emitter was made has been called once, in order, whatever *)
(* the other hooks returned and whatever the program has done to its       *)
(* slices since, and the error joins exactly those that failed; an event   *)
(* built by one of the Build functions is never dropped (Hooks.Notify,     *)
(* hooks.go:52-79; options_activity.go:5-16; options_events.go:90-99).     *)
EveryHookHears ==
  \A c \in Calls : call[c].pc = "done" =>
    LET heard == call[c].heard
        fails == Select(heard, [hook : Hooks, failed : {TRUE}])
    IN  /\ [i \in DOMAIN heard |-> heard[i].hook] = due[c]
        /\ call[c].errs = [i \in DOMAIN fails |-> fails[i].hook]

(* The hooks an emission has called, and the objects its event hands them. *)
HeardBy(c) == {call[c].heard[i].hook : i \in 1..Len(call[c].heard)}
Handed(c)  == AndBelow(call[c].start \cap Objects)

(* No entry of a map of the program is changed by a hook, by the sink's    *)
(* adapter or by a Build function, not even of the map of an event the     *)
(* program holds (NormalizeEvent, hooks.go:92; buildOptionsEvent,          *)
(* options_events.go:55-68).  The objects in a map are handed on as they   *)
(* are; into one of them only a hook can have written that was called with *)
(* an event it was in.                                                     *)
ProgramMapsUntouched ==
  /\ \A m \in ProgramMaps : entries[InProgram(m)] \subseteq {By("program"), Inner(m)}
  /\ \A c \in Calls :
       entries[Built(c)] \subseteq {By("program"), By("details"), ScopeOf(c)} \cup Inners
  /\ \A m \in ProgramMaps, h \in Hooks :
       By(h) \in entries[Inner(m)] => \E c \in Calls : h \in HeardBy(c) /\ Inner(m) \in Handed(c)

(* A record's entries are those its own event had when it was emitted, and *)
(* besides only what hooks before it in the same emission wrote: nothing   *)
(* of another emission, of a later hook, or made for another sink          *)
(* (CaptureHook.Notify, capture.go:16; usersink hook.go:19).  Its          *)
(* scope_metadata, an object all records of the emission share, holds the  *)
(* entries of the scope and those of hooks of this emission, later ones    *)
(* too.                                                                    *)
RecordsOwnEvent ==
  \A r \in recorded :
    LET heard  == call[r.call].heard
        before == {By(heard[i].hook) : i \in 1..r.at - 1}
        own    == IF KindOf[heard[r.at].hook] = "sink" THEN Code(r.call) ELSE {}
        has    == In(entries, r.cell)
    IN  /\ call[r.call].start \subseteq has
        /\ has \ call[r.call].start \subseteq before \cup own
        /\ \A c \in Calls : ScopeOf(c) \in has =>
             /\ c = r.call
             /\ entries[ScopeOf(c)] \subseteq
                  {By("program")} \cup Inners \cup {By(h) : h \in HeardBy(c)}

(* The entries of what CaptureHook or the sink has recorded do not change  *)
(* any more, though hooks keep the event and write into it later; what the *)
(* objects among them hold may (cloneMap, hooks.go:104-113).               *)
RecordsAreFinal ==
  [][\A r \in recorded : r \in recorded' /\ In(entries', r.cell) = In(entries, r.cell)]_vars
=============================================================================
