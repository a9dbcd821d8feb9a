--------------------------- MODULE StateStoreProofs ---------------------------
(***************************************************************************)
(* What holds of Resolver.Mutate for any number of calls, keys and refs.   *)
(***************************************************************************)
EXTENDS StateStoreAtomic, TLAPS

(* The variables of Mutate only ever hold values of their types.           *)
LEMMA TypeInit == Init => TypeOK
  BY StoreAssumption DEF Init, TypeOK, Record, NoRecord, Cells, Snapshots, Meta, EmptyMeta,
     SeedTag, PCs

LEMMA TypeStep == TypeOK /\ [Next]_vars => TypeOK'
<1> SUFFICES ASSUME TypeOK, [Next]_vars PROVE TypeOK'
  OBVIOUS
<1> USE StoreAssumption DEF TypeOK
<1>1. ASSUME NEW c \in Calls, Begin(c) PROVE TypeOK'
  BY <1>1 DEF Begin, Content, Has, Key, Meta, Record, Snapshots, PCs, Cells
<1>2. ASSUME NEW c \in Calls, Reject(c) PROVE TypeOK'
  BY <1>2 DEF Reject, FailWith, PCs, Failures
<1>3. ASSUME NEW c \in Calls, LoadFails(c) PROVE TypeOK'
  BY <1>3 DEF LoadFails, FailWith, PCs, Failures
<1>4. ASSUME NEW c \in Calls, LoadMissing(c) PROVE TypeOK'
  BY <1>4 DEF LoadMissing, PCs, Cells, Snapshots, Meta, EmptyMeta
<1>5. ASSUME NEW c \in Calls, Key(c) \in Keys, Has(Key(c)), TakeSnapshot(c)
      PROVE  /\ snap' \in [Calls -> Cells]
             /\ heap' \in [Cells -> Snapshots]
             /\ loaded' \in [Calls -> Meta]
             /\ base' \in [Calls -> Snapshots]
  BY <1>5 DEF TakeSnapshot, Has, MetaOf, Content, Record, Cells, Meta, Snapshots
<1>6. ASSUME NEW c \in Calls, LoadStale(c) PROVE TypeOK'
  BY <1>5, <1>6 DEF LoadStale, FailWith, MetaOf, Record, Meta, PCs, Failures
<1>7. ASSUME NEW c \in Calls, LoadFound(c) PROVE TypeOK'
  BY <1>5, <1>7 DEF LoadFound, PCs
<1>8. ASSUME NEW c \in Calls, ApplyInPlace(c) PROVE TypeOK'
  BY <1>8 DEF ApplyInPlace, PCs, Cells, Snapshots
<1>9. ASSUME NEW c \in Calls, ApplyReplace(c) PROVE TypeOK'
  BY <1>9 DEF ApplyReplace, PCs, Cells, Snapshots
<1>10. ASSUME NEW c \in Calls, MutatorFails(c) PROVE TypeOK'
  BY <1>10 DEF MutatorFails, FailWith, PCs, Failures, Cells, Snapshots
<1>11. ASSUME NEW c \in Calls, Validate(c) \/ ValidateFails(c) PROVE TypeOK'
  BY <1>11 DEF Validate, ValidateFails, FailWith, store, args, PCs, Failures
<1>12. ASSUME NEW c \in Calls, Save(c) PROVE TypeOK'
  <2>1. pc[c] = "save" /\ SavedRecord(c) \in Record
    BY <1>12 DEF Save, SavedRecord, SaveMeta, MergeMeta, Record, Meta, Cells
  <2> QED BY <1>12, <2>1 DEF Save, SavedRecord, Record, Meta, PCs
<1>13. ASSUME NEW c \in Calls, SaveConflict(c) \/ SaveFails(c) PROVE TypeOK'
  BY <1>13 DEF SaveConflict, SaveFails, FailWith, PCs, Failures
<1>14. ASSUME NEW c \in Calls, Return(c) PROVE TypeOK'
  BY <1>14 DEF Return, store, args, PCs, Failures, Cells, Snapshots
<1>15. CASE UNCHANGED vars
  BY <1>15 DEF vars
<1> QED
  BY <1>1, <1>2, <1>3, <1>4, <1>6, <1>7, <1>8, <1>9, <1>10, <1>11, <1>12, <1>13, <1>14,
     <1>15 DEF Next, Step, Finished

THEOREM TypeCorrect == Spec => []TypeOK
  BY TypeInit, TypeStep, PTL DEF Spec

-----------------------------------------------------------------------------
(***************************************************************************)
(* Stores that copy.  Each call works in a cell of its own, which becomes  *)
(* part of the store when its Save succeeds and is not written after that. *)
(***************************************************************************)
Working == {"apply", "validate", "save"}

OwnCell == \A c \in Calls : snap[c] = c

StoredCells ==
  \A k \in Keys :
    LET x == rec[k].cell
    IN  x = NoCell \/ x = k \/ (x \in saved /\ Key(x) = k)

SavedLate ==
  \A c \in Calls :
    /\ c \in saved <=> pc[c] = "return" \/ outcome[c] = "ok"
    /\ outcome[c] = "none" <=> pc[c] # "done"
    /\ pc[c] \in Working \/ c \in saved => ~Malformed(ref[c]) /\ Key(c) \in Keys

CellContents ==
  /\ \A k \in Keys : heap[k] = {}
  /\ \A c \in Calls : heap[c] \subseteq saved \cup {c}
  /\ \A c \in Calls : pc[c] = "save" \/ c \in saved => Valid(heap[c])

CopyInv == TypeOK /\ OwnCell /\ StoredCells /\ SavedLate /\ CellContents

(* Where the record of a key cannot be written, its content stays.         *)
LEMMA ContentStable ==
  ASSUME CopyInv, NEW c \in Calls, c \notin saved, rec' = rec,
         NEW s, heap' = [heap EXCEPT ![c] = s]
  PROVE  \A k \in Keys : Content(k)' = Content(k)
  BY StoreAssumption DEF CopyInv, TypeOK, StoredCells, Content, Has, Cells, Record

LEMMA CopyInit == Init => CopyInv
  BY TypeInit, StoreAssumption DEF CopyInv, Init, TypeOK, OwnCell, StoredCells, SavedLate,
     CellContents, NoRecord, Working, Valid, Cells

LEMMA CopyStep ==
  ASSUME ~SharesCell, CopyInv, [Next]_vars
  PROVE  CopyInv'
<1>1. TypeOK' /\ TypeOK
  BY TypeStep DEF CopyInv
<1> USE <1>1, StoreAssumption DEF CopyInv, OwnCell, StoredCells, SavedLate, CellContents,
    Working, Key
<1>2. ASSUME NEW c \in Calls, Begin(c) PROVE CopyInv'
  BY <1>2 DEF Begin, TypeOK
<1>3. ASSUME NEW c \in Calls, NEW why \in Failures, pc[c] # "done", c \notin saved,
             FailWith(c, why), UNCHANGED snap,
             \A x \in Cells \ {c} : heap'[x] = heap[x], heap'[c] \subseteq saved \cup {c}
      PROVE  CopyInv'
  <2>1. OwnCell' /\ StoredCells'
    BY <1>3 DEF FailWith, TypeOK
  <2>2. SavedLate'
    BY <1>3 DEF FailWith, TypeOK, Failures
  <2>3. saved' = saved /\ pc' = [pc EXCEPT ![c] = "done"]
    BY <1>3 DEF FailWith
  <2>4. /\ \A k \in Keys : heap'[k] = {}
        /\ \A d \in Calls : heap'[d] \subseteq saved \cup {d}
    BY <1>3 DEF Cells
  <2>5. ASSUME NEW d \in Calls, pc'[d] = "save" \/ d \in saved PROVE Valid(heap'[d])
    BY <1>3, <2>3, <2>5 DEF TypeOK, Cells
  <2> QED BY <2>1, <2>2, <2>3, <2>4, <2>5
<1>4. ASSUME NEW c \in Calls, Reject(c) \/ LoadFails(c) PROVE CopyInv'
  <2>1. PICK why \in Failures : FailWith(c, why)
    BY <1>4 DEF Reject, LoadFails, Failures
  <2>2. pc[c] = "called" /\ UNCHANGED <<snap, heap>>
    BY <1>4 DEF Reject, LoadFails
  <2>3. c \notin saved /\ pc[c] # "done"
    BY <2>2 DEF TypeOK
  <2> QED BY <1>3, <2>1, <2>2, <2>3
<1>5. ASSUME NEW k \in Keys PROVE Content(k) \subseteq saved
  BY <1>5 DEF Content, Has, TypeOK, Record, Cells
<1>6. ASSUME NEW c \in Calls, LoadStale(c) PROVE CopyInv'
  <2>1. heap' = [heap EXCEPT ![c] = Content(Key(c))] /\ UNCHANGED snap /\ Key(c) \in Keys
    BY <1>6 DEF LoadStale, TakeSnapshot, TypeOK
  <2>2. pc[c] = "called" /\ FailWith(c, "stale")
    BY <1>6 DEF LoadStale
  <2>3. c \notin saved /\ Content(Key(c)) \subseteq saved
    BY <1>5, <2>1, <2>2 DEF TypeOK
  <2>4. (\A x \in Cells \ {c} : heap'[x] = heap[x]) /\ heap'[c] \subseteq saved \cup {c}
    BY <2>1, <2>3 DEF TypeOK, Cells
  <2> QED BY <1>3, <2>1, <2>2, <2>3, <2>4 DEF Failures
<1>7. ASSUME NEW c \in Calls, LoadMissing(c) PROVE CopyInv'
  BY <1>7 DEF LoadMissing, TypeOK, Cells, Malformed
<1>8. ASSUME NEW c \in Calls, LoadFound(c) PROVE CopyInv'
  <2>1. heap' = [heap EXCEPT ![c] = Content(Key(c))] /\ UNCHANGED snap /\ Key(c) \in Keys
    BY <1>8 DEF LoadFound, TakeSnapshot, TypeOK
  <2> QED BY <1>8, <1>5, <2>1 DEF LoadFound, TypeOK, Cells
<1>9. ASSUME NEW c \in Calls, ApplyInPlace(c) \/ ApplyReplace(c) PROVE CopyInv'
  <2>1. /\ heap' = [heap EXCEPT ![c] = heap[c] \cup {c}]
        /\ pc[c] = "apply" /\ pc' = [pc EXCEPT ![c] = "validate"]
        /\ UNCHANGED <<rec, ref, snap, outcome, saved>>
    BY <1>9 DEF ApplyInPlace, ApplyReplace
  <2>2. OwnCell' /\ StoredCells' /\ SavedLate'
    BY <2>1 DEF TypeOK
  <2>3. c \notin saved
    BY <2>1 DEF TypeOK
  <2>4. CellContents'
    BY <2>1, <2>3 DEF TypeOK, Cells
  <2> QED BY <2>2, <2>4
<1>10. ASSUME NEW c \in Calls, MutatorFails(c) PROVE CopyInv'
  <2>1. pc[c] = "apply" /\ FailWith(c, "fnerr") /\ UNCHANGED snap
    BY <1>10 DEF MutatorFails
  <2>2. heap' = heap \/ heap' = [heap EXCEPT ![c] = heap[c] \cup {c}]
    BY <1>10 DEF MutatorFails
  <2>3. c \notin saved
    BY <2>1 DEF TypeOK
  <2>4. (\A x \in Cells \ {c} : heap'[x] = heap[x]) /\ heap'[c] \subseteq saved \cup {c}
    BY <2>2 DEF TypeOK, Cells
  <2> QED BY <1>3, <2>1, <2>3, <2>4 DEF Failures
<1>11. ASSUME NEW c \in Calls, Validate(c) PROVE CopyInv'
  BY <1>11 DEF Validate, store, args, TypeOK
<1>12. ASSUME NEW c \in Calls, ValidateFails(c) \/ SaveConflict(c) \/ SaveFails(c) PROVE CopyInv'
  <2>1. PICK why \in Failures : FailWith(c, why)
    BY <1>12 DEF ValidateFails, SaveConflict, SaveFails, Failures
  <2>2. pc[c] \in Working /\ UNCHANGED <<snap, heap>>
    BY <1>12 DEF ValidateFails, SaveConflict, SaveFails
  <2>3. c \notin saved /\ pc[c] # "done"
    BY <2>2 DEF TypeOK
  <2> QED BY <1>3, <2>1, <2>2, <2>3
<1>13. ASSUME NEW c \in Calls, Save(c) PROVE CopyInv'
  <2>1. OwnCell' /\ StoredCells'
    BY <1>13 DEF Save, SavedRecord, TypeOK
  <2>2. SavedLate' /\ CellContents'
    BY <1>13 DEF Save, TypeOK
  <2> QED BY <2>1, <2>2
<1>14. ASSUME NEW c \in Calls, Return(c) PROVE CopyInv'
  BY <1>14 DEF Return, store, args, TypeOK, Malformed
<1>15. CASE UNCHANGED vars
  BY <1>15 DEF vars, TypeOK
<1> QED
  BY <1>2, <1>4, <1>6, <1>7, <1>8, <1>9, <1>10, <1>11, <1>12, <1>13, <1>14, <1>15
     DEF Next, Step, Finished

(* A Mutate that reports an error has changed nothing, and no sequence of  *)
(* calls stores a snapshot Validate rejects, if Load hands out copies.     *)
THEOREM ErrorsLeaveNoTrace ==
  ASSUME ~SharesCell
  PROVE  Spec => [](ErrorLeavesNoTrace /\ StoredValid)
<1>1. CopyInv => ErrorLeavesNoTrace /\ StoredValid
  <2> SUFFICES ASSUME CopyInv, NEW k \in Keys, NEW c \in Content(k)
               PROVE  c \in Calls /\ c \notin BadCalls /\ outcome[c] \notin Failures
    BY DEF ErrorLeavesNoTrace, StoredValid
  <2>1. PICK x \in Calls : x \in saved /\ c \in heap[x]
    BY StoreAssumption DEF CopyInv, TypeOK, StoredCells, CellContents, Content, Has, Cells, Record
  <2>2. c \in saved /\ c \in Calls
    BY <2>1 DEF CopyInv, CellContents, TypeOK
  <2>3. outcome[c] \notin Failures
    BY <2>2 DEF CopyInv, SavedLate, Failures
  <2> QED BY <2>1, <2>2, <2>3 DEF CopyInv, CellContents, Valid
<1>2. CopyInv /\ [Next]_vars => CopyInv'
  BY CopyStep
<1> QED BY <1>1, <1>2, CopyInit, PTL DEF Spec

-----------------------------------------------------------------------------
(***************************************************************************)
(* Any store, sharing its snapshots or not.  A call's own cell is private  *)
(* to it until its Save, and what others can reach only ever grows: an ID  *)
(* travels together with a cell that contains the write it names.          *)
(***************************************************************************)
Private ==
  \A c \in Calls \ saved :
    /\ \A k \in Keys : rec[k].cell # c
    /\ \A d \in Calls \ {c} : snap[d] # c

IdsWritten ==
  \A c \in Calls :
    /\ meta[c].sid \in {NoCall, c}
    /\ pc[c] \in Working /\ loaded[c].sid # NoCall => loaded[c].sid \in heap[snap[c]]
    /\ pc[c] \in {"validate", "save"} => c \in heap[snap[c]]

SharedInv == TypeOK /\ SavedLate /\ Private /\ IdsWritten /\ AuditIdNamesWrite

(* No reachable cell shrinks.                                              *)
Grows(c) ==
  /\ \A k \in Keys : Has(k) => heap[rec[k].cell] \subseteq heap'[rec[k].cell]
  /\ \A d \in Calls \ {c} : heap[snap[d]] \subseteq heap'[snap[d]]

LEMMA WritesGrow ==
  ASSUME SharedInv, NEW c \in Calls,
         \/ heap' = heap
         \/ \E x \in Cells : heap' = [heap EXCEPT ![x] = heap[x] \cup {c}]
         \/ c \notin saved /\ \E s : heap' = [heap EXCEPT ![c] = s]
  PROVE  Grows(c)
  BY StoreAssumption DEF SharedInv, TypeOK, Private, Grows, Has, Record, Cells

LEMMA SharedInit == Init => SharedInv
  BY TypeInit, StoreAssumption
     DEF SharedInv, Init, SavedLate, Private, IdsWritten, AuditIdNamesWrite, NoRecord, EmptyMeta,
         Working

(* A step of c that saves nothing.                                         *)
LEMMA SharedUnsaved ==
  ASSUME SharedInv, TypeOK', SavedLate', NEW c \in Calls, c \notin saved,
         UNCHANGED <<rec, saved>>, Grows(c),
         \A d \in Calls \ {c} : /\ snap'[d] = snap[d] /\ pc'[d] = pc[d]
                                 /\ meta'[d] = meta[d] /\ loaded'[d] = loaded[d],
         snap'[c] = c \/ (\E k \in Keys : snap'[c] = rec[k].cell) \/ snap'[c] = snap[c],
         meta'[c].sid \in {NoCall, c},
         pc'[c] \in Working /\ loaded'[c].sid # NoCall => loaded'[c].sid \in heap'[snap'[c]],
         pc'[c] \in {"validate", "save"} => c \in heap'[snap'[c]]
  PROVE  SharedInv'
<1>1. Private'
  BY DEF SharedInv, Private
<1>2. IdsWritten'
  BY DEF SharedInv, IdsWritten, Grows
<1>3. AuditIdNamesWrite'
  <2>1. \A k \in Keys : Content(k) \subseteq Content(k)'
    BY DEF Grows, Content, Has
  <2> QED BY <2>1 DEF SharedInv, AuditIdNamesWrite
<1> QED BY <1>1, <1>2, <1>3 DEF SharedInv

LEMMA SavedLateStep ==
  ASSUME TypeOK, SavedLate, [Next]_vars
  PROVE  SavedLate'
<1> USE DEF TypeOK, SavedLate, Working, Key, Failures
<1>1. ASSUME NEW c \in Calls, Begin(c) PROVE SavedLate'
  BY <1>1 DEF Begin
<1>2. ASSUME NEW c \in Calls, NEW why \in Failures, pc[c] # "done", c \notin saved, FailWith(c, why)
      PROVE  SavedLate'
  BY <1>2 DEF FailWith
<1>3. ASSUME NEW c \in Calls, Reject(c) \/ LoadFails(c) \/ LoadStale(c) \/ MutatorFails(c)
                               \/ ValidateFails(c) \/ SaveConflict(c) \/ SaveFails(c)
      PROVE  SavedLate'
  <2>1. \E why \in Failures : FailWith(c, why)
    BY <1>3 DEF Reject, LoadFails, LoadStale, MutatorFails, ValidateFails, SaveConflict, SaveFails
  <2>2. pc[c] # "done" /\ pc[c] # "return"
    BY <1>3 DEF Reject, LoadFails, LoadStale, MutatorFails, ValidateFails, SaveConflict, SaveFails
  <2> QED BY <1>2, <2>1, <2>2
<1>4. ASSUME NEW c \in Calls, LoadMissing(c) \/ LoadFound(c) PROVE SavedLate'
  BY <1>4 DEF LoadMissing, LoadFound
<1>5. ASSUME NEW c \in Calls, ApplyInPlace(c) \/ ApplyReplace(c) PROVE SavedLate'
  BY <1>5 DEF ApplyInPlace, ApplyReplace
<1>6. ASSUME NEW c \in Calls, Validate(c) PROVE SavedLate'
  BY <1>6 DEF Validate, store, args
<1>7. ASSUME NEW c \in Calls, Save(c) PROVE SavedLate'
  BY <1>7 DEF Save
<1>8. ASSUME NEW c \in Calls, Return(c) PROVE SavedLate'
  BY <1>8 DEF Return, store, args, Malformed
<1>9. CASE UNCHANGED vars
  BY <1>9 DEF vars
<1> QED
  BY <1>1, <1>3, <1>4, <1>5, <1>6, <1>7, <1>8, <1>9 DEF Next, Step, Finished

LEMMA SharedStep ==
  ASSUME SharedInv, [Next]_vars
  PROVE  SharedInv'
<1>1. TypeOK /\ TypeOK' /\ SavedLate /\ SavedLate'
  BY TypeStep, SavedLateStep DEF SharedInv
<1>2. \A c \in Calls : c \in saved => pc[c] \in {"return", "done"}
  BY <1>1 DEF SavedLate, TypeOK
<1>3. ASSUME NEW c \in Calls, Begin(c) PROVE SharedInv'
  <2>1. c \notin saved /\ Grows(c)
    BY <1>2, <1>3, WritesGrow DEF Begin
  <2> QED BY <1>1, <1>3, <2>1, SharedUnsaved DEF Begin, TypeOK, Working
<1>4. ASSUME NEW c \in Calls, Reject(c) \/ LoadFails(c) \/ ValidateFails(c) \/ SaveConflict(c)
                               \/ SaveFails(c) \/ MutatorFails(c)
      PROVE  SharedInv'
  <2>1. /\ c \notin saved /\ UNCHANGED <<rec, saved, snap, meta, loaded>>
        /\ pc' = [pc EXCEPT ![c] = "done"]
    BY <1>2, <1>4
       DEF FailWith, Reject, LoadFails, ValidateFails, SaveConflict, SaveFails, MutatorFails
  <2>2. heap' = heap \/ \E x \in Cells : heap' = [heap EXCEPT ![x] = heap[x] \cup {c}]
    BY <1>1, <1>4
       DEF Reject, LoadFails, ValidateFails, SaveConflict, SaveFails, MutatorFails, TypeOK
  <2>3. Grows(c)
    BY <2>2, WritesGrow
  <2> QED BY <1>1, <2>1, <2>3, SharedUnsaved DEF SharedInv, IdsWritten, TypeOK, Working
<1>5. ASSUME NEW c \in Calls, LoadMissing(c) PROVE SharedInv'
  <2>1. c \notin saved /\ Grows(c)
    BY <1>2, <1>5, WritesGrow DEF LoadMissing
  <2> QED
    BY <1>1, <1>5, <2>1, SharedUnsaved DEF LoadMissing, SharedInv, IdsWritten, EmptyMeta, TypeOK
<1>6. ASSUME NEW c \in Calls, LoadStale(c) \/ LoadFound(c) PROVE SharedInv'
  <2>1. /\ c \notin saved /\ TakeSnapshot(c) /\ UNCHANGED <<rec, saved, meta>>
        /\ Key(c) \in Keys /\ Has(Key(c))
        /\ pc' \in {[pc EXCEPT ![c] = "apply"], [pc EXCEPT ![c] = "done"]}
    BY <1>2, <1>6 DEF LoadStale, LoadFound, FailWith
  <2>2. /\ heap' = heap \/ heap' = [heap EXCEPT ![c] = Content(Key(c))]
        /\ snap'[c] \in {c, rec[Key(c)].cell} /\ loaded'[c].sid = rec[Key(c)].sid
        /\ heap'[snap'[c]] = Content(Key(c))
        /\ \A d \in Calls \ {c} : snap'[d] = snap[d] /\ loaded'[d] = loaded[d]
    BY <1>1, <2>1 DEF TakeSnapshot, TypeOK, MetaOf, Content, Cells
  <2>3. Grows(c)
    BY <2>1, <2>2, WritesGrow
  <2>4. loaded'[c].sid # NoCall => loaded'[c].sid \in heap'[snap'[c]]
    BY <2>1, <2>2 DEF SharedInv, AuditIdNamesWrite
  <2> QED BY <1>1, <2>1, <2>2, <2>3, <2>4, SharedUnsaved DEF SharedInv, IdsWritten, TypeOK
<1>7. ASSUME NEW c \in Calls, ApplyInPlace(c) PROVE SharedInv'
  <2>1. c \notin saved /\ pc[c] \in Working
    BY <1>2, <1>7 DEF ApplyInPlace, Working
  <2>2. heap' = [heap EXCEPT ![snap[c]] = heap[snap[c]] \cup {c}] /\ snap[c] \in Cells
    BY <1>1, <1>7 DEF ApplyInPlace, TypeOK
  <2>3. Grows(c) /\ heap'[snap[c]] = heap[snap[c]] \cup {c}
    BY <1>1, <2>2, WritesGrow DEF TypeOK
  <2> QED
    BY <1>1, <1>7, <2>1, <2>3, SharedUnsaved DEF ApplyInPlace, SharedInv, IdsWritten, TypeOK
<1>8. ASSUME NEW c \in Calls, ApplyReplace(c) PROVE SharedInv'
  <2>1. c \notin saved /\ pc[c] \in Working
    BY <1>2, <1>8 DEF ApplyReplace, Working
  <2>2. heap' = [heap EXCEPT ![c] = heap[snap[c]] \cup {c}] /\ snap'[c] = c
    BY <1>1, <1>8 DEF ApplyReplace, TypeOK
  <2>3. Grows(c) /\ heap'[snap'[c]] = heap[snap[c]] \cup {c}
    BY <1>1, <2>1, <2>2, WritesGrow DEF TypeOK, Cells
  <2> QED
    BY <1>1, <1>8, <2>1, <2>2, <2>3, SharedUnsaved
       DEF ApplyReplace, SharedInv, IdsWritten, TypeOK
<1>9. ASSUME NEW c \in Calls, Validate(c) PROVE SharedInv'
  <2>1. c \notin saved /\ Grows(c) /\ pc[c] = "validate"
    BY <1>2, <1>9, WritesGrow DEF Validate, store
  <2> QED
    BY <1>1, <1>9, <2>1, SharedUnsaved
       DEF Validate, store, args, SharedInv, IdsWritten, TypeOK, Working
<1>10. ASSUME NEW c \in Calls, Save(c) PROVE SharedInv'
  <2>1. /\ UNCHANGED <<heap, meta, snap, loaded>> /\ saved' = saved \cup {c}
        /\ pc' = [pc EXCEPT ![c] = "return"] /\ pc[c] = "save"
        /\ rec' = [rec EXCEPT ![Key(c)] = SavedRecord(c)]
    BY <1>10 DEF Save
  <2>2. Private'
    BY <1>1, <1>2, <2>1 DEF SharedInv, Private, SavedRecord, TypeOK
  <2>3. IdsWritten'
    BY <1>1, <2>1 DEF SharedInv, IdsWritten, TypeOK, Working
  <2>4. SavedRecord(c).sid # NoCall => SavedRecord(c).sid \in heap[snap[c]]
    BY <2>1 DEF SharedInv, IdsWritten, SavedRecord, SaveMeta, MergeMeta, Working
  <2>5. SavedRecord(c).cell = snap[c] /\ snap[c] # NoCell
    BY <1>1, StoreAssumption DEF SavedRecord, TypeOK, Cells
  <2>6. ASSUME NEW k \in Keys, rec'[k].sid # NoCall PROVE rec'[k].sid \in Content(k)'
    <3>1. CASE k = Key(c)
      BY <1>1, <2>1, <2>4, <2>5, <2>6, <3>1 DEF Content, Has, TypeOK
    <3>2. CASE k # Key(c)
      BY <1>1, <2>1, <2>6, <3>2 DEF SharedInv, AuditIdNamesWrite, Content, Has, TypeOK
    <3> QED BY <3>1, <3>2
  <2> QED BY <1>1, <2>2, <2>3, <2>6 DEF SharedInv, AuditIdNamesWrite
<1>11. ASSUME NEW c \in Calls, Return(c) PROVE SharedInv'
  <2>1. /\ UNCHANGED <<rec, heap, meta, snap, loaded, saved>>
        /\ pc' = [pc EXCEPT ![c] = "done"]
    BY <1>11 DEF Return, store, args
  <2> QED
    BY <1>1, <2>1
       DEF SharedInv, Private, IdsWritten, AuditIdNamesWrite, Content, Has, TypeOK, Working
<1>12. CASE UNCHANGED vars
  BY <1>1, <1>12 DEF vars, SharedInv, Private, IdsWritten, AuditIdNamesWrite, Content, Has
<1> QED
  BY <1>3, <1>4, <1>5, <1>6, <1>7, <1>8, <1>9, <1>10, <1>11, <1>12 DEF Next, Step, Finished

(* Whatever the store, and even when calls write into snapshots they       *)
(* share: a record's SnapshotID names a write the record contains, and a   *)
(* call that reports an error has not saved.                               *)
THEOREM AuditIdsAreRight == Spec => [](AuditIdNamesWrite /\ ErrorMeansUnsaved)
<1>1. SharedInv => AuditIdNamesWrite /\ ErrorMeansUnsaved
  BY DEF SharedInv, SavedLate, TypeOK, ErrorMeansUnsaved, Failures
<1>2. SharedInv /\ [Next]_vars => SharedInv'
  BY SharedStep
<1> QED BY <1>1, <1>2, SharedInit, PTL DEF Spec

(* No sequence of calls stores a snapshot Validate rejects.                *)
THEOREM StoredSnapshotsAreValid ==
  ASSUME ~SharesCell
  PROVE  Spec => []StoredValid
BY ErrorsLeaveNoTrace, PTL

(* A call that has saved reports success, whatever the store.              *)
THEOREM SavedCallsSucceed == Spec => []ErrorMeansUnsaved
BY AuditIdsAreRight, PTL

-----------------------------------------------------------------------------
(***************************************************************************)
(* Mutate over a compare-and-swap store loses no update, and implements    *)
(* AtomicMutate, for any number of calls, keys and refs.                   *)
(*                                                                         *)
(* The heart of the matter: an ETag is never given out twice, so that a    *)
(* record whose ETag is the one a call has loaded still holds the snapshot *)
(* the call has loaded.                                                    *)
(***************************************************************************)

Tags ==
  /\ \A k \in Keys : rec[k].etag <= clock /\ (Has(k) <=> rec[k].etag # 0)
  /\ \A c \in Calls : loaded[c].etag <= clock /\ meta[c].etag <= clock

(* What the ETag a caller states stands for, as long as it is current.     *)
SeenIsCurrent ==
  \A c \in Calls : meta[c].etag # 0 =>
    /\ Key(c) \in Keys /\ Has(Key(c))
    /\ rec[Key(c)].etag = meta[c].etag => Content(Key(c)) = seen[c]

(* What the ETag a call has loaded stands for, as long as it is current.   *)
BaseIsCurrent ==
  \A c \in Calls : pc[c] \in Working =>
    /\ rec[Key(c)].etag = loaded[c].etag => Content(Key(c)) = base[c]
    /\ meta[c].etag # 0 => meta[c].etag = loaded[c].etag

Computed ==
  \A c \in Calls :
    /\ pc[c] = "apply" => heap[c] = base[c]
    /\ pc[c] \in {"validate", "save"} => heap[c] = base[c] \cup {c}

NotBegun == \A c \in Calls : pc[c] = "idle" => meta[c] = EmptyMeta

CasInv ==
  /\ CopyInv
  /\ Tags
  /\ SeenIsCurrent
  /\ BaseIsCurrent
  /\ Computed
  /\ NotBegun
  /\ NoLostUpdate

LEMMA CasInit == Init => CasInv
  BY CopyInit, StoreAssumption
     DEF CasInv, Init, Tags, SeenIsCurrent, BaseIsCurrent, Computed, NotBegun, NoLostUpdate,
         NoRecord, SeedTag, EmptyMeta, Working, Has, Content, Cells

(* A step that leaves the records alone and writes, if anything, the cell  *)
(* of a call that has not saved.                                           *)
LEMMA StoreUntouched ==
  ASSUME CasInv, rec' = rec, clock' = clock, saved' = saved, ref' = ref,
         NEW c \in Calls, c \notin saved,
         heap' = heap \/ \E s : heap' = [heap EXCEPT ![c] = s]
  PROVE  /\ \A k \in Keys : Content(k)' = Content(k) /\ (Has(k)' <=> Has(k))
         /\ NoLostUpdate'
<1>1. \A k \in Keys : Has(k)' <=> Has(k)
  BY DEF Has
<1>2. \A k \in Keys : Content(k)' = Content(k)
  BY ContentStable DEF CasInv, Content, Has
<1>3. \A d \in saved : Key(d) \in Keys /\ Key(d)' = Key(d)
  BY DEF CasInv, CopyInv, TypeOK, SavedLate, NoLostUpdate, Key, Content, Has
<1> QED BY <1>1, <1>2, <1>3 DEF CasInv, NoLostUpdate

(* What Save does to the record of its key.                                *)
LEMMA SaveCommits ==
  ASSUME StoreKind = "cas", CasInv, NEW c \in Calls, Save(c)
  PROVE  /\ Key(c) \in Keys
         /\ Key(c)' = Key(c)
         /\ heap[c] = Content(Key(c)) \cup {c}
         /\ meta[c].etag # 0 => Content(Key(c)) = seen[c]
         /\ Has(Key(c))' /\ Content(Key(c))' = heap[c]
         /\ \A k \in Keys \ {Key(c)} : Content(k)' = Content(k) /\ (Has(k)' <=> Has(k))
<1> USE DEF CasInv
<1>1. Key(c) \in Keys /\ Key(c)' = Key(c) /\ snap[c] = c
  BY DEF Save, CopyInv, SavedLate, Working, Key, OwnCell
<1>2. SaveMeta(c).etag = loaded[c].etag
  BY DEF Save, BaseIsCurrent, Working, SaveMeta, MergeMeta
<1>3. rec[Key(c)].etag = loaded[c].etag
  BY <1>2 DEF Save, Conflicts, External
<1>4. heap[c] = Content(Key(c)) \cup {c}
  BY <1>3 DEF Save, BaseIsCurrent, Computed, Working
<1>5. meta[c].etag # 0 => Content(Key(c)) = seen[c]
  BY <1>3 DEF Save, BaseIsCurrent, SeenIsCurrent, Working
<1>6. /\ rec' = [rec EXCEPT ![Key(c)] = SavedRecord(c)] /\ heap' = heap
      /\ SavedRecord(c).cell = c
  BY <1>1 DEF Save, SavedRecord
<1>7. Has(Key(c))' /\ Content(Key(c))' = heap[c]
  BY <1>1, <1>6, StoreAssumption DEF CopyInv, TypeOK, Has, Content
<1>8. \A k \in Keys \ {Key(c)} : Content(k)' = Content(k) /\ (Has(k)' <=> Has(k))
  BY <1>6 DEF CopyInv, TypeOK, Has, Content
<1> QED BY <1>1, <1>4, <1>5, <1>7, <1>8

LEMMA CasStep ==
  ASSUME StoreKind = "cas", CasInv, [Next]_vars
  PROVE  CasInv'
<1>1. CopyInv' /\ CopyInv
  BY CopyStep, StoreAssumption DEF CasInv
<1>2. TypeOK /\ TypeOK'
  BY <1>1 DEF CopyInv
<1> USE <1>2 DEF CasInv, Tags, SeenIsCurrent, BaseIsCurrent, Computed, NotBegun, Key, Working
<1>3. ASSUME NEW c \in Calls, Begin(c) PROVE CasInv'
  <2>1. c \notin saved
    BY <1>3 DEF Begin, CopyInv, SavedLate, TypeOK
  <2>2. /\ \A k \in Keys : Content(k)' = Content(k) /\ (Has(k)' <=> Has(k))
        /\ NoLostUpdate'
    BY <1>3, <2>1, StoreUntouched DEF Begin
  <2>3. Tags'
    BY <1>3, <2>2 DEF Begin, TypeOK, Record, Meta
  <2>4. SeenIsCurrent' /\ NotBegun'
    BY <1>3, <2>2 DEF Begin, TypeOK
  <2>5. BaseIsCurrent' /\ Computed'
    BY <1>1, <1>3, <2>2 DEF Begin, TypeOK, CopyInv, SavedLate
  <2> QED BY <1>1, <2>2, <2>3, <2>4, <2>5
<1>4. ASSUME NEW c \in Calls, c \notin saved, UNCHANGED <<rec, clock, ref, meta, seen, saved>>,
             heap' = heap \/ \E s : heap' = [heap EXCEPT ![c] = s],
             \A d \in Calls \ {c} : /\ pc'[d] = pc[d] /\ base'[d] = base[d]
                                     /\ loaded'[d] = loaded[d],
             pc'[c] # "idle", loaded'[c].etag <= clock,
             pc'[c] \in Working =>
               /\ rec[Key(c)].etag = loaded'[c].etag => Content(Key(c)) = base'[c]
               /\ meta[c].etag # 0 => meta[c].etag = loaded'[c].etag
               /\ heap'[c] = IF pc'[c] = "apply" THEN base'[c] ELSE base'[c] \cup {c}
      PROVE  CasInv'
  <2>1. /\ \A k \in Keys : Content(k)' = Content(k) /\ (Has(k)' <=> Has(k))
        /\ NoLostUpdate'
    BY <1>4, StoreUntouched
  <2>2. Tags' /\ SeenIsCurrent' /\ NotBegun'
    BY <1>4, <2>1
  <2>3. BaseIsCurrent'
    BY <1>1, <1>4, <2>1 DEF CopyInv, SavedLate
  <2>4. \A d \in Calls \ {c} : heap'[d] = heap[d]
    BY <1>4 DEF TypeOK, Cells
  <2>5. Computed'
    BY <1>4, <2>4
  <2> QED BY <1>1, <2>1, <2>2, <2>3, <2>5
<1>5. ASSUME NEW c \in Calls, Reject(c) \/ LoadFails(c) \/ LoadMissing(c) \/ LoadStale(c)
                               \/ LoadFound(c) PROVE CasInv'
  <2>1. c \notin saved /\ ~SharesCell
    BY <1>1, <1>5, StoreAssumption
       DEF CopyInv, SavedLate, TypeOK, Reject, LoadFails, LoadMissing, LoadStale, LoadFound
  <2>2. CASE Reject(c) \/ LoadFails(c)
    BY <1>4, <2>1, <2>2 DEF Reject, LoadFails, FailWith, TypeOK
  <2>3. CASE LoadMissing(c)
    <3>1. /\ heap' = [heap EXCEPT ![c] = {}] /\ heap'[c] = {} /\ base'[c] = {}
          /\ loaded'[c].etag = 0 /\ pc'[c] = "apply"
          /\ UNCHANGED <<rec, clock, ref, meta, seen, saved>>
          /\ \A d \in Calls \ {c} : /\ pc'[d] = pc[d] /\ base'[d] = base[d]
                                  /\ loaded'[d] = loaded[d]
      BY <2>3 DEF LoadMissing, TypeOK, EmptyMeta, Cells
    <3>2. Content(Key(c)) = {} /\ meta[c].etag = 0
      BY <2>3 DEF LoadMissing, Content, TypeOK, Meta
    <3>3. 0 <= clock
      BY DEF TypeOK
    <3> QED BY <1>4, <2>1, <3>1, <3>2, <3>3
  <2>4. CASE LoadStale(c)
    BY <1>4, <2>1, <2>4 DEF LoadStale, TakeSnapshot, MetaOf, FailWith, TypeOK
  <2>5. CASE LoadFound(c)
    <3>1. /\ heap' = [heap EXCEPT ![c] = Content(Key(c))]
          /\ heap'[c] = Content(Key(c)) /\ base'[c] = Content(Key(c))
          /\ loaded'[c].etag = rec[Key(c)].etag /\ pc'[c] = "apply"
          /\ UNCHANGED <<rec, clock, ref, meta, seen, saved>>
          /\ \A d \in Calls \ {c} : /\ pc'[d] = pc[d] /\ base'[d] = base[d]
                                  /\ loaded'[d] = loaded[d]
      BY <2>1, <2>5 DEF LoadFound, TakeSnapshot, MetaOf, TypeOK, Cells
    <3>2. Key(c) \in Keys /\ rec[Key(c)].etag # 0 /\ rec[Key(c)].etag <= clock
      BY <2>5 DEF LoadFound
    <3>3. meta[c].etag # 0 => meta[c].etag = rec[Key(c)].etag
      BY <2>5, <3>2 DEF LoadFound, Mismatch, MetaOf
    <3> QED BY <1>4, <2>1, <3>1, <3>2, <3>3
  <2> QED BY <1>5, <2>2, <2>3, <2>4, <2>5
<1>6. ASSUME NEW c \in Calls, ApplyInPlace(c) \/ ApplyReplace(c) \/ MutatorFails(c) PROVE CasInv'
  <2>1. c \notin saved /\ snap[c] = c
    BY <1>1, <1>6 DEF CopyInv, SavedLate, OwnCell, TypeOK, ApplyInPlace, ApplyReplace, MutatorFails
  <2>2. CASE ApplyInPlace(c)
    BY <1>4, <2>1, <2>2 DEF ApplyInPlace, TypeOK, Cells
  <2>3. CASE MutatorFails(c)
    <3>1. heap' = heap \/ heap' = [heap EXCEPT ![c] = heap[c] \cup {c}]
      BY <2>1, <2>3 DEF MutatorFails
    <3> QED BY <1>4, <2>1, <2>3, <3>1 DEF MutatorFails, FailWith, TypeOK
  <2> QED BY <1>6, <2>1, <2>2, <2>3 DEF ApplyReplace
<1>7. ASSUME NEW c \in Calls, Validate(c) \/ ValidateFails(c) \/ SaveConflict(c) \/ SaveFails(c)
      PROVE CasInv'
  <2>1. c \notin saved
    BY <1>1, <1>7 DEF CopyInv, SavedLate, TypeOK, Validate, ValidateFails, SaveConflict, SaveFails
  <2>2. CASE Validate(c)
    BY <1>4, <2>1, <2>2 DEF Validate, store, args, TypeOK
  <2>3. CASE ValidateFails(c) \/ SaveConflict(c) \/ SaveFails(c)
    BY <1>4, <2>1, <2>3 DEF ValidateFails, SaveConflict, SaveFails, FailWith, TypeOK
  <2> QED BY <1>7, <2>2, <2>3
<1>8. ASSUME NEW c \in Calls, Save(c) PROVE CasInv'
  <2>1. /\ Key(c) \in Keys
        /\ heap[c] = Content(Key(c)) \cup {c}
        /\ Has(Key(c))' /\ Content(Key(c))' = heap[c]
        /\ \A k \in Keys \ {Key(c)} : Content(k)' = Content(k) /\ (Has(k)' <=> Has(k))
    BY <1>8, SaveCommits
  <2>2. /\ rec'[Key(c)].etag = clock + 1 /\ clock' = clock + 1
        /\ \A k \in Keys \ {Key(c)} : rec'[k] = rec[k]
        /\ UNCHANGED <<heap, ref, meta, seen, loaded, base>>
        /\ saved' = saved \cup {c} /\ pc' = [pc EXCEPT ![c] = "return"]
    BY <1>8, <2>1 DEF Save, SavedRecord, External, TypeOK
  <2>3. Tags'
    <3>1. \A k \in Keys : rec'[k].etag <= clock' /\ (Has(k)' <=> rec'[k].etag # 0)
      BY <2>1, <2>2 DEF TypeOK, Record
    <3>2. \A d \in Calls : loaded'[d].etag <= clock' /\ meta'[d].etag <= clock'
      BY <2>2 DEF TypeOK, Meta
    <3> QED BY <3>1, <3>2
  <2>4. SeenIsCurrent'
    BY <2>1, <2>2 DEF TypeOK, Record, Meta
  <2>5. BaseIsCurrent'
    BY <1>1, <2>1, <2>2 DEF TypeOK, Record, Meta, CopyInv, SavedLate
  <2>6. Computed' /\ NotBegun'
    BY <2>2 DEF TypeOK
  <2>7. NoLostUpdate'
    <3>1. \A d \in saved : Key(d) \in Keys /\ Key(d)' = Key(d) /\ d \in Content(Key(d))
      BY <1>1, <2>2 DEF NoLostUpdate, CopyInv, SavedLate, TypeOK
    <3>2. Key(c)' = Key(c)
      BY <2>2
    <3> QED BY <2>1, <2>2, <3>1, <3>2 DEF NoLostUpdate
  <2> QED BY <1>1, <2>3, <2>4, <2>5, <2>6, <2>7
<1>9. ASSUME NEW c \in Calls, Return(c) PROVE CasInv'
  <2>1. UNCHANGED <<rec, heap, clock, ref, meta, seen, loaded, base, saved>>
        /\ pc' = [pc EXCEPT ![c] = "done"]
    BY <1>9 DEF Return, store, args
  <2>2. \A k \in Keys : Content(k)' = Content(k) /\ (Has(k)' <=> Has(k))
    BY <2>1 DEF Content, Has
  <2> QED BY <1>1, <2>1, <2>2 DEF TypeOK, NoLostUpdate, CopyInv, SavedLate
<1>10. CASE UNCHANGED vars
  BY <1>10, <1>1 DEF vars, Content, Has, NoLostUpdate
<1> QED
  BY <1>3, <1>5, <1>6, <1>7, <1>8, <1>9, <1>10 DEF Next, Step, Finished

(* Nobody's committed write is overwritten by a call that had not seen it. *)
THEOREM NoUpdateIsLost ==
  ASSUME StoreKind = "cas"
  PROVE  Spec => []NoLostUpdate
<1>1. CasInv /\ [Next]_vars => CasInv'
  BY CasStep
<1>2. CasInv => NoLostUpdate
  BY DEF CasInv
<1> QED BY <1>1, <1>2, CasInit, PTL DEF Spec

-----------------------------------------------------------------------------
(* What a step must leave alone for an abstract variable not to change.    *)
LEMMA Unmoved ==
  ASSUME CasInv, CasInv', NEW c \in Calls, c \notin saved, saved' = saved, ref' = ref,
         rec' = rec, clock' = clock, result' = result,
         heap' = heap \/ \E s : heap' = [heap EXCEPT ![c] = s],
         \A d \in Calls \ {c} : outcome'[d] = outcome[d],
         outcome[c] # "ok", outcome'[c] # "ok"
  PROVE  Committed' = Committed /\ Results' = Results
<1>1. Committed' = Committed
  BY StoreUntouched DEF Committed
<1>2. \A d \in Calls : d # c => heap'[d] = heap[d]
  BY StoreAssumption DEF CasInv, CopyInv, TypeOK, Cells
<1>3. \A d \in Calls : ResultOf(d)' = ResultOf(d)
  BY <1>2 DEF ResultOf, CasInv, CopyInv, OwnCell
<1> QED BY <1>1, <1>3 DEF Results

LEMMA AtomicStep ==
  ASSUME StoreKind = "cas", CasInv, CasInv', [Next]_vars
  PROVE  [Atomic!Next]_(Atomic!vars)
<1> USE DEF Atomic!vars
<1>1. TypeOK /\ TypeOK' /\ SavedLate /\ OwnCell /\ OwnCell'
  BY DEF CasInv, CopyInv
<1>2. ASSUME NEW c \in Calls, Begin(c) PROVE [Atomic!Next]_(Atomic!vars)
  <2>1. c \notin saved /\ outcome[c] = "none" /\ meta[c].etag = 0
    BY <1>1, <1>2 DEF Begin, SavedLate, TypeOK, CasInv, NotBegun, EmptyMeta
  <2>2. Committed' = Committed /\ Results' = Results
    BY <1>2, <2>1, Unmoved DEF Begin
  <2>3. Statuses' = Statuses
    BY <1>2 DEF Begin, Statuses, StatusOf
  <2>4. \A d \in Calls \ {c} : ViewOf(d)' = ViewOf(d)
    BY <1>1, <1>2 DEF Begin, ViewOf, TypeOK
  <2>5. CASE meta'[c].etag = 0
    <3>1. ViewOf(c)' = ViewOf(c)
      BY <2>1, <2>5 DEF ViewOf
    <3> QED BY <2>2, <2>3, <2>4, <3>1 DEF Views
  <2>6. CASE meta'[c].etag # 0
    <3>1. Key(c) \in Keys /\ seen'[c] = Content(Key(c))
      BY <1>1, <1>2, <2>6 DEF Begin, TypeOK
    <3>2. Views[c] = NoView /\ Views' = [Views EXCEPT ![c] = Committed[Key(c)]]
      BY <2>1, <2>4, <2>6, <3>1 DEF Views, ViewOf, Committed
    <3>3. Statuses[c] = "pending"
      BY <2>1 DEF Statuses, StatusOf, Failures
    <3> QED BY <2>2, <2>3, <3>1, <3>2, <3>3 DEF Atomic!Next, Atomic!Read
  <2> QED BY <2>5, <2>6
<1>3. ASSUME NEW c \in Calls, NEW why \in Failures, pc[c] # "done", c \notin saved,
             FailWith(c, why),
             heap' = heap \/ \E s : heap' = [heap EXCEPT ![c] = s]
      PROVE  [Atomic!Next]_(Atomic!vars)
  <2>1. outcome[c] = "none" /\ outcome' = [outcome EXCEPT ![c] = why]
    BY <1>1, <1>3 DEF FailWith, SavedLate
  <2>2. /\ outcome'[c] \in Failures /\ outcome'[c] # "ok"
        /\ \A d \in Calls \ {c} : outcome'[d] = outcome[d]
    BY <1>1, <2>1 DEF TypeOK, Failures
  <2>3. Committed' = Committed /\ Results' = Results
    BY <1>3, <2>1, <2>2, Unmoved DEF FailWith
  <2>4. Views' = Views
    BY <1>3 DEF FailWith, Views, ViewOf
  <2>5. Statuses[c] = "pending" /\ Statuses' = [Statuses EXCEPT ![c] = "failed"]
    BY <1>3, <2>1, <2>2 DEF FailWith, Statuses, StatusOf, Failures
  <2> QED BY <2>3, <2>4, <2>5 DEF Atomic!Next, Atomic!Fail
<1>4. ASSUME NEW c \in Calls, c \notin saved, outcome[c] # "ok",
             UNCHANGED <<rec, clock, ref, meta, seen, result, saved, outcome>>,
             heap' = heap \/ \E s : heap' = [heap EXCEPT ![c] = s]
      PROVE  [Atomic!Next]_(Atomic!vars)
  <2>1. Committed' = Committed /\ Results' = Results
    BY <1>4, Unmoved
  <2> QED BY <1>4, <2>1 DEF Views, ViewOf, Statuses, StatusOf
<1>5. ASSUME NEW c \in Calls, Reject(c) \/ LoadFails(c) \/ LoadMissing(c) \/ LoadStale(c)
                               \/ LoadFound(c)
      PROVE  [Atomic!Next]_(Atomic!vars)
  <2>1. pc[c] = "called" /\ c \notin saved /\ outcome[c] = "none" /\ ~SharesCell
    BY <1>1, <1>5, StoreAssumption
       DEF SavedLate, TypeOK, Reject, LoadFails, LoadMissing, LoadStale, LoadFound
  <2>2. heap' = heap \/ \E s : heap' = [heap EXCEPT ![c] = s]
    BY <1>5, <2>1 DEF Reject, LoadFails, LoadMissing, LoadStale, LoadFound, TakeSnapshot
  <2>3. CASE Reject(c) \/ LoadFails(c) \/ LoadStale(c)
    BY <1>3, <2>1, <2>2, <2>3 DEF Reject, LoadFails, LoadStale, Failures
  <2>4. CASE LoadMissing(c) \/ LoadFound(c)
    BY <1>4, <2>1, <2>2, <2>4 DEF LoadMissing, LoadFound
  <2> QED BY <1>5, <2>3, <2>4
<1>6. ASSUME NEW c \in Calls, ApplyInPlace(c) \/ ApplyReplace(c) \/ MutatorFails(c)
      PROVE  [Atomic!Next]_(Atomic!vars)
  <2>1. pc[c] = "apply" /\ c \notin saved /\ outcome[c] = "none" /\ snap[c] = c
    BY <1>1, <1>6 DEF SavedLate, OwnCell, TypeOK, ApplyInPlace, ApplyReplace, MutatorFails
  <2>2. heap' = heap \/ \E s : heap' = [heap EXCEPT ![c] = s]
    BY <1>6, <2>1 DEF ApplyInPlace, ApplyReplace, MutatorFails
  <2>3. CASE ApplyInPlace(c)
    BY <1>4, <2>1, <2>2, <2>3 DEF ApplyInPlace
  <2>4. CASE MutatorFails(c)
    BY <1>3, <2>1, <2>2, <2>4 DEF MutatorFails, Failures
  <2> QED BY <1>6, <2>1, <2>3, <2>4 DEF ApplyReplace
<1>7. ASSUME NEW c \in Calls, Validate(c) \/ ValidateFails(c) \/ SaveConflict(c) \/ SaveFails(c)
      PROVE  [Atomic!Next]_(Atomic!vars)
  <2>1. pc[c] \in {"validate", "save"} /\ c \notin saved /\ outcome[c] = "none" /\ heap' = heap
    BY <1>1, <1>7 DEF SavedLate, TypeOK, Validate, ValidateFails, SaveConflict, SaveFails, store
  <2>2. CASE Validate(c)
    BY <1>4, <2>1, <2>2 DEF Validate, store, args
  <2>3. CASE ValidateFails(c) \/ SaveConflict(c) \/ SaveFails(c)
    BY <1>3, <2>1, <2>3 DEF ValidateFails, SaveConflict, SaveFails, Failures
  <2> QED BY <1>7, <2>2, <2>3
<1>8. ASSUME NEW c \in Calls, Save(c) PROVE [Atomic!Next]_(Atomic!vars)
  <2>1. /\ Key(c) \in Keys
        /\ heap[c] = Content(Key(c)) \cup {c}
        /\ meta[c].etag # 0 => Content(Key(c)) = seen[c]
        /\ Content(Key(c))' = heap[c]
        /\ \A k \in Keys \ {Key(c)} : Content(k)' = Content(k)
    BY <1>8, SaveCommits
  <2>2. /\ UNCHANGED <<heap, ref, meta, seen, snap, outcome, result>>
        /\ saved' = saved \cup {c} /\ c \notin saved /\ outcome[c] = "none"
    BY <1>1, <1>8 DEF Save, SavedLate, TypeOK
  <2>3. Committed' = [Committed EXCEPT ![Key(c)] = Committed[Key(c)] \cup {c}]
    <3>1. Content(Key(c))' = Content(Key(c)) \cup {c}
      BY <2>1
    <3>2. Key(c)' = Key(c)
      BY <2>2 DEF Key
    <3> DEFINE k0 == Key(c)
    <3>3. \A k \in Keys : Committed'[k] = IF k = k0 THEN Content(k0) \cup {c} ELSE Committed[k]
      BY <2>1, <3>1, <3>2 DEF Committed
    <3> QED BY <2>1, <3>3 DEF Committed
  <2>4. Statuses[c] = "pending" /\ Statuses' = [Statuses EXCEPT ![c] = "committed"]
    BY <2>2 DEF Statuses, StatusOf, Failures
  <2>5. Views[c] \in {NoView, Committed[Key(c)]} /\ Views' = Views
    BY <2>1, <2>2 DEF Views, ViewOf, Committed
  <2>6. Results' = [Results EXCEPT ![c] = Committed[Key(c)] \cup {c}]
    BY <1>1, <2>1, <2>2 DEF Results, ResultOf, Committed, OwnCell
  <2> QED BY <2>1, <2>3, <2>4, <2>5, <2>6 DEF Atomic!Next, Atomic!Commit
<1>9. ASSUME NEW c \in Calls, Return(c) PROVE [Atomic!Next]_(Atomic!vars)
  <2>1. c \in saved /\ outcome[c] = "none" /\ ref[c] \notin Unnamed
    BY <1>1, <1>9 DEF Return, SavedLate, TypeOK, Malformed
  <2>2. /\ UNCHANGED <<rec, heap, ref, meta, seen, snap, saved>>
        /\ outcome' = [outcome EXCEPT ![c] = "ok"]
        /\ result' = [result EXCEPT ![c] = heap[snap[c]]]
    BY <1>9, <2>1 DEF Return, store, args
  <2>3. Committed' = Committed /\ Views' = Views
    BY <2>2 DEF Committed, Content, Has, Views, ViewOf
  <2>4. \A d \in Calls : StatusOf(d)' = StatusOf(d) /\ ResultOf(d)' = ResultOf(d)
    BY <1>1, <2>1, <2>2 DEF StatusOf, ResultOf, Failures, TypeOK
  <2> QED BY <2>3, <2>4 DEF Statuses, Results
<1>10. CASE UNCHANGED vars
  BY <1>10 DEF vars, Committed, Statuses, Views, Results, Content, Has, StatusOf, ViewOf, ResultOf
<1> QED
  BY <1>2, <1>5, <1>6, <1>7, <1>8, <1>9, <1>10 DEF Next, Step, Finished

(* Over a compare-and-swap store, the step by step Mutate is the atomic    *)
(* read-modify-write: each call commits once, on top of everything         *)
(* committed before and of exactly what its ETag stands for, or fails and  *)
(* leaves nothing behind.                                                  *)
THEOREM MutateImplementsAtomic ==
  ASSUME StoreKind = "cas"
  PROVE  Spec => MutateIsAtomic
<1>1. Init => Atomic!Init
  <2> SUFFICES ASSUME Init PROVE Atomic!Init
    OBVIOUS
  <2>1. \A k \in Keys : Content(k) = {}
    BY StoreAssumption DEF Init, Content, Has, NoRecord, Cells
  <2>2. \A c \in Calls : StatusOf(c) = "pending" /\ ViewOf(c) = NoView /\ ResultOf(c) = {}
    BY DEF Init, StatusOf, ViewOf, ResultOf, EmptyMeta, Failures
  <2> QED BY <2>1, <2>2 DEF Atomic!Init, Committed, Statuses, Views, Results
<1>2. CasInv /\ [Next]_vars => CasInv'
  BY CasStep
<1>3. CasInv /\ CasInv' /\ [Next]_vars => [Atomic!Next]_(Atomic!vars)
  BY AtomicStep
<1> QED BY <1>1, <1>2, <1>3, CasInit, PTL DEF Spec, MutateIsAtomic, Atomic!Spec

-----------------------------------------------------------------------------
(***************************************************************************)
(* The Meta a call returns, and the conflicts it reports.                  *)
(***************************************************************************)
TagsNameRecords ==
  \A c \in saved :
    /\ retmeta[c].etag <= clock
    /\ rec[Key(c)].etag = retmeta[c].etag <=> rec[Key(c)].cell = c
    /\ outcome[c] = "ok" => result[c] = heap[c]

(* c has been overtaken since its key held s.                              *)
Overtaken(c, s) == \E d \in saved \ {c} : Key(d) = Key(c) /\ d \notin s

HistoriesSaved ==
  \A c \in Calls : seen[c] \subseteq saved /\ (pc[c] \in Working => base[c] \subseteq saved)

SeenBehind ==
  \A c \in Calls \ saved :
    meta[c].etag # 0 /\ rec[Key(c)].etag # meta[c].etag => Overtaken(c, seen[c])

BaseBehind ==
  \A c \in Calls :
    pc[c] \in Working /\ rec[Key(c)].etag # loaded[c].etag => Overtaken(c, base[c])

ReportInv ==
  /\ TagsNameRecords
  /\ HistoriesSaved
  /\ SeenBehind
  /\ BaseBehind
  /\ NoSpuriousConflict

(* What the records hold has been saved.                                   *)
LEMMA ContentSaved ==
  ASSUME CopyInv, NEW k \in Keys
  PROVE  Content(k) \subseteq saved
BY StoreAssumption DEF CopyInv, TypeOK, StoredCells, CellContents, Content, Has, Cells, Record

LEMMA ReportInit == Init => ReportInv
  BY StoreAssumption
     DEF Init, ReportInv, TagsNameRecords, HistoriesSaved, SeenBehind, BaseBehind,
         NoSpuriousConflict, EmptyMeta, Working

(* A step of c that saves nothing.                                         *)
LEMMA ReportUnsaved ==
  ASSUME CasInv, ReportInv, NEW c \in Calls, c \notin saved,
         UNCHANGED <<rec, clock, ref, saved, result>>,
         heap' = heap \/ \E s : heap' = [heap EXCEPT ![c] = s],
         \A d \in Calls \ {c} : /\ pc'[d] = pc[d] /\ meta'[d] = meta[d] /\ base'[d] = base[d]
                                 /\ loaded'[d] = loaded[d] /\ outcome'[d] = outcome[d]
                                 /\ seen'[d] = seen[d] /\ retmeta'[d] = retmeta[d],
         seen'[c] \subseteq saved,
         meta'[c].etag # 0 /\ rec[Key(c)].etag # meta'[c].etag => Overtaken(c, seen'[c]),
         pc'[c] \in Working =>
           /\ base'[c] \subseteq saved
           /\ rec[Key(c)].etag # loaded'[c].etag => Overtaken(c, base'[c]),
         outcome'[c] = "stale" => Overtaken(c, seen'[c]),
         outcome'[c] = "conflict" => Overtaken(c, base'[c])
  PROVE  ReportInv'
<1>1. \A d \in Calls : Key(d)' = Key(d)
  BY DEF Key
<1>2. \A d \in Calls : d # c => heap'[d] = heap[d]
  BY DEF CasInv, CopyInv, TypeOK, Cells
<1>3. saved \subseteq Calls \ {c}
  BY DEF CasInv, CopyInv, TypeOK
<1>4. TagsNameRecords'
  BY <1>1, <1>2, <1>3 DEF ReportInv, TagsNameRecords
<1>5. HistoriesSaved'
  BY DEF ReportInv, HistoriesSaved
<1>6. SeenBehind'
  BY <1>1, <1>3 DEF ReportInv, SeenBehind, Overtaken
<1>7. BaseBehind'
  BY <1>1, <1>3 DEF ReportInv, BaseBehind, Overtaken
<1>8. NoSpuriousConflict'
  <2> SUFFICES ASSUME NEW d \in Calls, outcome'[d] \in {"stale", "conflict"}
               PROVE  \E e \in saved \ {d} :
                        /\ Key(e) = Key(d)
                        /\ e \notin IF outcome'[d] = "stale" THEN seen'[d] ELSE base'[d]
    BY <1>1, <1>3 DEF NoSpuriousConflict
  <2>1. CASE d = c
    BY <2>1 DEF Overtaken
  <2>2. CASE d # c
    BY <2>2 DEF ReportInv, NoSpuriousConflict
  <2> QED BY <2>1, <2>2
<1> QED BY <1>4, <1>5, <1>6, <1>7, <1>8 DEF ReportInv

LEMMA ReportStep ==
  ASSUME StoreKind = "cas", CasInv, ReportInv, [Next]_vars
  PROVE  ReportInv'
<1>1. TypeOK /\ SavedLate /\ OwnCell /\ CopyInv /\ ~SharesCell
  BY StoreAssumption DEF CasInv, CopyInv
<1>2. \A c \in Calls : c \in saved => pc[c] \in {"return", "done"}
  BY <1>1 DEF SavedLate, TypeOK
<1>3. ASSUME NEW c \in Calls, Begin(c) PROVE ReportInv'
  <2>1. c \notin saved /\ outcome[c] = "none"
    BY <1>1, <1>2, <1>3 DEF Begin, SavedLate
  <2>2. seen'[c] = {} \/ (Key(c) \in Keys /\ seen'[c] = Content(Key(c)))
    BY <1>1, <1>3 DEF Begin, TypeOK
  <2>3. meta'[c].etag = 0 \/ meta'[c].etag = rec[Key(c)].etag
    BY <1>1, <1>3 DEF Begin, TypeOK
  <2>4. seen'[c] \subseteq saved
    BY <1>1, <2>2, ContentSaved
  <2>5. /\ pc'[c] = "called" /\ UNCHANGED <<heap, rec, clock, ref, saved, result, outcome>>
        /\ \A d \in Calls \ {c} : /\ pc'[d] = pc[d] /\ meta'[d] = meta[d] /\ base'[d] = base[d]
                                  /\ loaded'[d] = loaded[d] /\ outcome'[d] = outcome[d]
                                  /\ seen'[d] = seen[d] /\ retmeta'[d] = retmeta[d]
    BY <1>1, <1>3 DEF Begin, TypeOK
  <2> QED BY <2>1, <2>3, <2>4, <2>5, ReportUnsaved DEF Working
<1>4. ASSUME NEW c \in Calls, pc[c] \notin {"idle", "return", "done"},
             UNCHANGED <<rec, clock, ref, meta, seen, saved, result>>,
             heap' = heap \/ \E s : heap' = [heap EXCEPT ![c] = s],
             \A d \in Calls \ {c} : /\ pc'[d] = pc[d] /\ base'[d] = base[d]
                                     /\ loaded'[d] = loaded[d] /\ outcome'[d] = outcome[d]
                                     /\ retmeta'[d] = retmeta[d],
             pc'[c] \in Working =>
               \/ base'[c] \subseteq saved /\ rec[Key(c)].etag = loaded'[c].etag
               \/ pc[c] \in Working /\ base'[c] = base[c] /\ loaded'[c] = loaded[c],
             outcome'[c] = "stale" => Overtaken(c, seen[c]),
             outcome'[c] = "conflict" => Overtaken(c, base'[c])
      PROVE  ReportInv'
  <2>1. c \notin saved
    BY <1>2, <1>4
  <2>2. meta[c].etag # 0 /\ rec[Key(c)].etag # meta[c].etag => Overtaken(c, seen[c])
    BY <2>1 DEF ReportInv, SeenBehind
  <2>3. seen[c] \subseteq saved
    BY DEF ReportInv, HistoriesSaved
  <2>4. pc'[c] \in Working =>
          /\ base'[c] \subseteq saved
          /\ rec[Key(c)].etag # loaded'[c].etag => Overtaken(c, base'[c])
    BY <1>4 DEF ReportInv, HistoriesSaved, BaseBehind
  <2> QED BY <1>4, <2>1, <2>2, <2>3, <2>4, ReportUnsaved
<1>5. ASSUME NEW c \in Calls, NEW why, FailWith(c, why),
             pc[c] \notin {"idle", "return", "done"},
             heap' = heap \/ \E s : heap' = [heap EXCEPT ![c] = s],
             \A d \in Calls \ {c} : /\ base'[d] = base[d] /\ loaded'[d] = loaded[d]
                                     /\ retmeta'[d] = retmeta[d],
             why = "stale" => Overtaken(c, seen[c]),
             why = "conflict" => Overtaken(c, base'[c])
      PROVE  ReportInv'
  <2>1. /\ UNCHANGED <<rec, clock, ref, meta, seen, saved, result>>
        /\ pc'[c] = "done" /\ outcome'[c] = why
        /\ \A d \in Calls \ {c} : pc'[d] = pc[d] /\ outcome'[d] = outcome[d]
    BY <1>1, <1>5 DEF FailWith, TypeOK
  <2> QED BY <1>4, <1>5, <2>1 DEF Working
<1>6. ASSUME NEW c \in Calls, Reject(c) \/ LoadFails(c) PROVE ReportInv'
  BY <1>5, <1>6 DEF Reject, LoadFails
<1>7. ASSUME NEW c \in Calls, LoadStale(c) PROVE ReportInv'
  <2>1. meta[c].etag # 0 /\ rec[Key(c)].etag # meta[c].etag
    BY <1>7 DEF LoadStale, Mismatch, MetaOf
  <2>2. c \notin saved
    BY <1>2, <1>7 DEF LoadStale
  <2>3. Overtaken(c, seen[c])
    BY <2>1, <2>2 DEF ReportInv, SeenBehind
  <2>4. /\ FailWith(c, "stale") /\ pc[c] = "called"
        /\ heap' = [heap EXCEPT ![c] = Content(Key(c))]
        /\ \A d \in Calls \ {c} : /\ base'[d] = base[d] /\ loaded'[d] = loaded[d]
                                  /\ retmeta'[d] = retmeta[d]
    BY <1>1, <1>7 DEF LoadStale, TakeSnapshot, TypeOK
  <2> QED BY <1>5, <2>3, <2>4
<1>8. ASSUME NEW c \in Calls, LoadMissing(c) \/ LoadFound(c) PROVE ReportInv'
  <2>1. /\ pc[c] = "called" /\ pc'[c] = "apply" /\ Key(c) \in Keys /\ outcome[c] = "none"
        /\ UNCHANGED <<rec, clock, ref, meta, seen, saved, result, outcome, retmeta>>
        /\ \E s : heap' = [heap EXCEPT ![c] = s]
        /\ \A d \in Calls \ {c} : /\ pc'[d] = pc[d] /\ base'[d] = base[d]
                                  /\ loaded'[d] = loaded[d]
    BY <1>1, <1>8 DEF LoadMissing, LoadFound, TakeSnapshot, TypeOK, SavedLate
  <2>2. base'[c] \subseteq saved /\ rec[Key(c)].etag = loaded'[c].etag
    <3>1. CASE LoadMissing(c)
      <4>1. base'[c] = {} /\ loaded'[c].etag = 0
        BY <1>1, <3>1 DEF LoadMissing, EmptyMeta, TypeOK
      <4>2. rec[Key(c)].etag = 0
        BY <2>1, <3>1 DEF LoadMissing, CasInv, Tags
      <4> QED BY <4>1, <4>2
    <3>2. CASE LoadFound(c)
      <4>1. base'[c] = Content(Key(c)) /\ loaded'[c].etag = rec[Key(c)].etag
        BY <1>1, <3>2 DEF LoadFound, TakeSnapshot, MetaOf, TypeOK
      <4> QED BY <1>1, <2>1, <4>1, ContentSaved
    <3> QED BY <1>8, <3>1, <3>2
  <2> QED BY <1>4, <2>1, <2>2
<1>9. ASSUME NEW c \in Calls, ApplyInPlace(c) \/ ApplyReplace(c) \/ Validate(c) PROVE ReportInv'
  <2>1. /\ pc[c] \in {"apply", "validate"} /\ outcome[c] = "none" /\ snap[c] = c
        /\ UNCHANGED <<rec, clock, ref, meta, seen, saved, result, outcome, retmeta, base, loaded>>
        /\ \A d \in Calls \ {c} : pc'[d] = pc[d]
    BY <1>1, <1>9
       DEF ApplyInPlace, ApplyReplace, Validate, store, args, TypeOK, SavedLate, OwnCell
  <2>2. heap' = heap \/ \E s : heap' = [heap EXCEPT ![c] = s]
    BY <1>9, <2>1 DEF ApplyInPlace, ApplyReplace, Validate, store
  <2> QED BY <1>4, <2>1, <2>2 DEF Working
<1>10. ASSUME NEW c \in Calls, MutatorFails(c) \/ ValidateFails(c) \/ SaveFails(c)
       PROVE  ReportInv'
  <2>1. /\ pc[c] \in Working /\ snap[c] = c /\ UNCHANGED <<base, loaded>>
        /\ \E why : FailWith(c, why) /\ why \notin {"stale", "conflict"}
        /\ \A d \in Calls \ {c} : retmeta'[d] = retmeta[d]
    BY <1>1, <1>10 DEF MutatorFails, ValidateFails, SaveFails, TypeOK, OwnCell, Working
  <2>2. heap' = heap \/ \E s : heap' = [heap EXCEPT ![c] = s]
    BY <1>10, <2>1 DEF MutatorFails, ValidateFails, SaveFails
  <2> QED BY <1>5, <2>1, <2>2 DEF Working
<1>11. ASSUME NEW c \in Calls, SaveConflict(c) PROVE ReportInv'
  <2>1. /\ pc[c] = "save" /\ FailWith(c, "conflict") /\ UNCHANGED <<heap, base, loaded>>
        /\ \A d \in Calls \ {c} : retmeta'[d] = retmeta[d]
    BY <1>1, <1>11 DEF SaveConflict, TypeOK
  <2>2. SaveMeta(c).etag = loaded[c].etag
    BY <2>1 DEF CasInv, BaseIsCurrent, Working, SaveMeta, MergeMeta
  <2>3. rec[Key(c)].etag # loaded[c].etag
    BY <1>11, <2>2 DEF SaveConflict, Conflicts
  <2>4. Overtaken(c, base[c])
    BY <2>1, <2>3 DEF ReportInv, BaseBehind, Working
  <2> QED BY <1>5, <2>1, <2>4
<1>12. ASSUME NEW c \in Calls, Save(c) PROVE ReportInv'
  <2>1. /\ pc[c] = "save" /\ pc' = [pc EXCEPT ![c] = "return"] /\ saved' = saved \cup {c}
        /\ UNCHANGED <<heap, ref, meta, seen, snap, loaded, outcome, result, base>>
        /\ c \notin saved /\ outcome[c] = "none" /\ Key(c) \in Keys
    BY <1>1, <1>2, <1>12 DEF Save, SavedLate, Working
  <2>2. /\ rec'[Key(c)] = SavedRecord(c) /\ retmeta'[c].etag = clock + 1 /\ clock' = clock + 1
        /\ \A k \in Keys \ {Key(c)} : rec'[k] = rec[k]
        /\ \A d \in Calls \ {c} : retmeta'[d] = retmeta[d]
    BY <1>1, <1>12, <2>1 DEF Save, SavedRecord, External, TypeOK
  <2>3. SavedRecord(c).cell = c /\ SavedRecord(c).etag = clock + 1
    BY <1>1 DEF SavedRecord, OwnCell, External
  <2>4. \A d \in Calls : Key(d)' = Key(d)
    BY <2>1 DEF Key
  <2>5. \A d \in saved : d \in Calls /\ d # c /\ Key(d) \in Keys
    BY <1>1, <2>1 DEF SavedLate, TypeOK
  <2>6. ASSUME NEW d \in saved
        PROVE  /\ retmeta'[d].etag <= clock'
               /\ rec'[Key(d)].etag = retmeta'[d].etag <=> rec'[Key(d)].cell = d
               /\ outcome[d] = "ok" => result[d] = heap[d]
    <3>1. /\ retmeta[d].etag <= clock
          /\ rec[Key(d)].etag = retmeta[d].etag <=> rec[Key(d)].cell = d
          /\ outcome[d] = "ok" => result[d] = heap[d]
      BY DEF ReportInv, TagsNameRecords
    <3>2. retmeta'[d] = retmeta[d] /\ retmeta[d].etag \in Nat /\ clock \in Nat
      BY <1>1, <2>2, <2>5 DEF TypeOK, Meta
    <3>3. CASE Key(d) = Key(c)
      BY <2>2, <2>3, <2>5, <3>1, <3>2, <3>3
    <3>4. CASE Key(d) # Key(c)
      BY <2>2, <2>5, <3>1, <3>2, <3>4
    <3> QED BY <3>3, <3>4
  <2>7. TagsNameRecords'
    <3>1. clock' <= clock'
      BY <1>1, <2>2 DEF TypeOK
    <3> QED BY <2>1, <2>2, <2>3, <2>4, <2>5, <2>6, <3>1 DEF TagsNameRecords
  <2>8. HistoriesSaved'
    BY <1>1, <2>1 DEF ReportInv, HistoriesSaved, TypeOK, Working
  <2>9. \A d \in Calls \ {c} : Key(d) = Key(c) =>
          /\ Overtaken(d, seen[d])' 
          /\ pc[d] \in Working => Overtaken(d, base[d])'
    BY <2>1, <2>4 DEF ReportInv, HistoriesSaved, Overtaken
  <2>10. \A d \in Calls : /\ Overtaken(d, seen[d]) => Overtaken(d, seen[d])'
                          /\ Overtaken(d, base[d]) => Overtaken(d, base[d])'
    BY <2>1, <2>4, <2>5 DEF Overtaken
  <2>11. SeenBehind'
    <3> SUFFICES ASSUME NEW d \in Calls \ saved', meta[d].etag # 0, rec'[Key(d)].etag # meta[d].etag
                 PROVE  Overtaken(d, seen[d])'
      BY <2>1, <2>4 DEF SeenBehind
    <3>1. d # c /\ Key(d) \in Keys
      BY <2>1 DEF CasInv, SeenIsCurrent
    <3>2. CASE Key(d) = Key(c)
      BY <2>9, <3>1, <3>2
    <3>3. CASE Key(d) # Key(c)
      BY <2>1, <2>2, <2>10, <3>1, <3>3 DEF ReportInv, SeenBehind
    <3> QED BY <3>2, <3>3
  <2>12. BaseBehind'
    <3> SUFFICES ASSUME NEW d \in Calls, pc'[d] \in Working, rec'[Key(d)].etag # loaded[d].etag
                 PROVE  Overtaken(d, base[d])'
      BY <2>1, <2>4 DEF BaseBehind
    <3>1. d # c /\ pc[d] \in Working /\ Key(d) \in Keys
      BY <1>1, <2>1 DEF TypeOK, Working, SavedLate
    <3>2. CASE Key(d) = Key(c)
      BY <2>9, <3>1, <3>2
    <3>3. CASE Key(d) # Key(c)
      BY <2>2, <2>10, <3>1, <3>3 DEF ReportInv, BaseBehind
    <3> QED BY <3>2, <3>3
  <2>13. NoSpuriousConflict'
    BY <2>1, <2>4, <2>5 DEF ReportInv, NoSpuriousConflict
  <2> QED BY <2>7, <2>8, <2>11, <2>12, <2>13 DEF ReportInv
<1>13. ASSUME NEW c \in Calls, Return(c) PROVE ReportInv'
  <2>1. c \in saved /\ ref[c] \notin Unnamed
    BY <1>1, <1>13 DEF Return, SavedLate, TypeOK, Malformed
  <2>2. /\ UNCHANGED <<rec, heap, clock, ref, meta, seen, loaded, retmeta, base, saved>>
        /\ pc' = [pc EXCEPT ![c] = "done"] /\ outcome' = [outcome EXCEPT ![c] = "ok"]
        /\ result' = [result EXCEPT ![c] = heap[c]]
    BY <1>1, <1>13, <2>1 DEF Return, store, args, OwnCell
  <2>3. \A d \in Calls : Key(d)' = Key(d)
    BY <2>2 DEF Key
  <2>4. \A d \in saved : d \in Calls
    BY <1>1 DEF TypeOK
  <2>5. TagsNameRecords'
    BY <1>1, <2>2, <2>3, <2>4 DEF ReportInv, TagsNameRecords, TypeOK
  <2>6. HistoriesSaved' /\ SeenBehind' /\ BaseBehind'
    BY <1>1, <2>2, <2>3, <2>4
       DEF ReportInv, HistoriesSaved, SeenBehind, BaseBehind, Overtaken, TypeOK, Working
  <2>7. NoSpuriousConflict'
    BY <1>1, <2>2, <2>3, <2>4 DEF ReportInv, NoSpuriousConflict, TypeOK
  <2> QED BY <2>5, <2>6, <2>7 DEF ReportInv
<1>14. CASE UNCHANGED vars
  BY <1>14 DEF vars, ReportInv, TagsNameRecords, HistoriesSaved, SeenBehind, BaseBehind,
     NoSpuriousConflict, Overtaken, Key
<1> QED
  BY <1>3, <1>6, <1>7, <1>8, <1>9, <1>10, <1>11, <1>12, <1>13, <1>14 DEF Next, Step, Finished

(* The ETag Mutate returns is the record's for exactly as long as the      *)
(* record is the one it saved, which holds what it returned.               *)
THEOREM ReturnedTagsName ==
  ASSUME StoreKind = "cas"
  PROVE  Spec => []ReturnedTagNamesResult
<1>1. CasInv /\ ReportInv /\ [Next]_vars => CasInv' /\ ReportInv'
  BY CasStep, ReportStep
<1>2. CasInv /\ ReportInv => ReturnedTagNamesResult
  <2> SUFFICES ASSUME CasInv, ReportInv, NEW c \in Calls, outcome[c] = "ok"
               PROVE  /\ rec[Key(c)].etag = retmeta[c].etag <=> rec[Key(c)].cell = c
                      /\ rec[Key(c)].cell = c => Content(Key(c)) = result[c]
    BY DEF ReturnedTagNamesResult
  <2>1. c \in saved /\ c # NoCell
    BY StoreAssumption DEF CasInv, CopyInv, SavedLate
  <2> QED BY <2>1 DEF ReportInv, TagsNameRecords, Content, Has
<1> QED BY <1>1, <1>2, CasInit, ReportInit, PTL DEF Spec

(* A call that is told of a stale ETag or of a conflict was overtaken.     *)
THEOREM ConflictsHaveReasons ==
  ASSUME StoreKind = "cas"
  PROVE  Spec => []NoSpuriousConflict
<1>1. CasInv /\ ReportInv /\ [Next]_vars => CasInv' /\ ReportInv'
  BY CasStep, ReportStep
<1>2. ReportInv => NoSpuriousConflict
  BY DEF ReportInv
<1> QED BY <1>1, <1>2, CasInit, ReportInit, PTL DEF Spec
=============================================================================
