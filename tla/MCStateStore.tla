---------------------------- MODULE MCStateStore ----------------------------
(* MemoryStore with three calls on one seeded key.                         *)
EXTENDS StateStore

CONSTANTS c1, c2, c3, key, userRef

MCCalls == {c1, c2, c3}
MCKeyOf == [r \in {userRef} |-> key]
=============================================================================
