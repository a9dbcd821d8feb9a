-------------------------- MODULE StateStoreAtomic --------------------------
(***************************************************************************)
(* Mutate over a compare-and-swap store implements AtomicMutate: what is   *)
(* committed is what the records hold, a call commits at its Save, and the *)
(* callers that stated an ETag are the conditional ones.                   *)
(***************************************************************************)
EXTENDS StateStore

CONSTANT NoView   \* the call states no ETag

ASSUME NoViewAssumption == \A s \in SUBSET Calls : s # NoView

StatusOf(c) ==
  IF outcome[c] \in Failures THEN "failed"
  ELSE IF c \in saved THEN "committed" ELSE "pending"

ViewOf(c) == IF meta[c].etag # 0 THEN seen[c] ELSE NoView

ResultOf(c) ==
  IF outcome[c] = "ok" THEN result[c]
  ELSE IF c \in saved THEN heap[snap[c]] ELSE {}

Committed == [k \in Keys |-> Content(k)]
Statuses  == [c \in Calls |-> StatusOf(c)]
Views     == [c \in Calls |-> ViewOf(c)]
Results   == [c \in Calls |-> ResultOf(c)]

Atomic == INSTANCE AtomicMutate
            WITH store <- Committed, status <- Statuses, view <- Views, result <- Results

(* Every behaviour of the concurrent, step by step Mutate is one of the    *)
(* atomic read-modify-write a caller reasons with (types.go 153-206).      *)
MutateIsAtomic == Atomic!Spec
=============================================================================
