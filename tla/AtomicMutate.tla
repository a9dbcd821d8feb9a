---------------------------- MODULE AtomicMutate ----------------------------
(***************************************************************************)
(* What a caller of Resolver.Mutate (pkg/state/types.go) wants to be able  *)
(* to believe: a call either commits, in one indivisible step, its write   *)
(* on top of everything committed to that snapshot so far, or fails and    *)
(* changes nothing.  A call that states the version it has read (a         *)
(* conditional call) commits only on top of exactly what it has read.      *)
(*                                                                         *)
(* A snapshot is the set of calls whose write it contains.                 *)
(***************************************************************************)
CONSTANTS Calls,   \* the Mutate calls
          Keys,    \* the identifiers snapshots are stored under
          NoView   \* "the call is unconditional"

VARIABLES store,   \* the committed snapshot of every key
          status,  \* "pending", "committed" or "failed"
          view,    \* what a conditional call has read, NoView otherwise
          result   \* the snapshot a committed call handed back

vars == <<store, status, view, result>>

AtomicTypeOK ==
  /\ store \in [Keys -> SUBSET Calls]
  /\ status \in [Calls -> {"pending", "committed", "failed"}]
  /\ view \in [Calls -> SUBSET Calls \cup {NoView}]
  /\ result \in [Calls -> SUBSET Calls]

Init ==
  /\ store = [k \in Keys |-> {}]
  /\ status = [c \in Calls |-> "pending"]
  /\ view = [c \in Calls |-> NoView]
  /\ result = [c \in Calls |-> {}]

(* A caller reads a snapshot and makes its call conditional on it.         *)
Read(c) ==
  /\ status[c] = "pending"
  /\ view[c] = NoView
  /\ \E k \in Keys : view' = [view EXCEPT ![c] = store[k]]
  /\ UNCHANGED <<store, status, result>>

Commit(c, k) ==
  /\ status[c] = "pending"
  /\ view[c] \in {NoView, store[k]}
  /\ store' = [store EXCEPT ![k] = @ \cup {c}]
  /\ status' = [status EXCEPT ![c] = "committed"]
  /\ result' = [result EXCEPT ![c] = store[k] \cup {c}]
  /\ UNCHANGED view

Fail(c) ==
  /\ status[c] = "pending"
  /\ status' = [status EXCEPT ![c] = "failed"]
  /\ UNCHANGED <<store, view, result>>

Next ==
  \E c \in Calls :
    \/ Read(c)
    \/ \E k \in Keys : Commit(c, k)
    \/ Fail(c)

Spec == Init /\ [][Next]_vars
=============================================================================
