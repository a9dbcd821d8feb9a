----------------------------- MODULE MCEvaluators -----------------------------
(***************************************************************************)
(* Small instances of Evaluators: one key, one function name in two        *)
(* spellings, wrappers of every engine.                                    *)
(***************************************************************************)
EXTENDS Evaluators, TLC

CONSTANTS greet, Greet, f, h, k, g1, g2, w1, w2

MCLower == (greet :> greet) @@ (Greet :> greet)

Background == [scope |-> None, scopeName |-> None]
Named      == [scope |-> None, scopeName |-> "named"]

Request(form, name, keys, ctx) ==
  [expr |-> [form |-> form, name |-> name], keys |-> keys, ctx |-> ctx]

MCRequests ==
  {Request("key", k, {k}, Background), Request("key", k, {}, Background),
   Request("direct", greet, {}, Background), Request("call", Greet, {}, Named),
   Request("broken", None, {}, Named)}

MCRegistrations == {[name |-> Greet, fn |-> f]}

Registry  == [name |-> None, fn |-> None]
Custom(x) == [name |-> Greet, fn |-> x]

MCConfigs ==
  {[engine |-> None, cached |-> TRUE, functions |-> <<Custom(h), Registry>>, scope |-> "user"],
   [engine |-> None, cached |-> FALSE, functions |-> <<>>, scope |-> None],
   [engine |-> "cel", cached |-> TRUE, functions |-> <<Registry, Custom(h)>>, scope |-> "user"],
   [engine |-> "js", cached |-> TRUE, functions |-> <<Registry>>, scope |-> None]}

Swap == Permutations({g1, g2}) \cup Permutations({w1, w2})
=============================================================================
