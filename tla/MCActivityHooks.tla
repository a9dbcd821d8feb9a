-------------------------- MODULE MCActivityHooks --------------------------
(* A hook of the program before a sink and a capturing one, an event built *)
(* from blank input with a scope and a new value or without, and raw       *)
(* events, all of which share one metadata map.                            *)
EXTENDS ActivityHooks, TLC

CONSTANTS c1, c2, capture, sink, user

MCKindOf ==
  [h \in Hooks |->
     CASE h = capture -> "capture" [] h = sink -> "sink" [] h = user -> "user"]
NilBetween == <<user, Nil, capture>>
OneOfEach  == <<user, sink, capture>>
MCLists    == {NilBetween, OneOfEach}

Raw(id, code) ==
  [built |-> FALSE, verb |-> Word, objectType |-> Word, objectID |-> id, code |-> code,
   path |-> Empty, snapshot |-> Empty, details |-> FALSE, metadata |-> InProgram("m"),
   scope |-> Nil, value |-> Nil]
Update(path, value, code) ==
  [built |-> TRUE, verb |-> Empty, objectType |-> Empty, objectID |-> Blank, code |-> code,
   path |-> path, snapshot |-> Empty, details |-> TRUE, metadata |-> InProgram("m"),
   scope |-> InProgram("m"), value |-> value]

Bare(in) == [in EXCEPT !.metadata = Nil, !.scope = Nil, !.value = Nil]
MCRequests ==
  LET update == Update(Blank, Inner("m"), Word)
  IN  {Raw(Word, Blank), Raw(Blank, Word), update, Bare(update)}

(* Bound: hooks fail and slices are written to where the program's map is  *)
(* empty, no event has an object and none is kept; maps and objects are    *)
(* shared and written to where every event has one and the slices stay.    *)
HasObject(c) == call[c].start \cap Objects # {}
SharesObjects ==
  /\ \A c \in Calls : call[c].pc # "idle" => HasObject(c) /\ call[c].errs = <<>>
  /\ \A h \in Slices : slice[h] # Nil => arrays[h] = OneOfEach
SharesNone ==
  /\ \A c \in Calls : ~HasObject(c)
  /\ \A h \in Hooks : kept[h] = {}
  /\ entries[InProgram("m")] \cup entries[Inner("m")] = {}
Separate == SharesObjects \/ SharesNone

SwapCalls == Permutations(Calls)
=============================================================================
