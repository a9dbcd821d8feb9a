-------------------------- MODULE StateResolveProofs --------------------------
(***************************************************************************)
(* What a Resolve reads while any number of Mutate calls go on.            *)
(*                                                                         *)
(* The reader takes no part in a Mutate, so all that is proved of          *)
(* StateStore goes on to hold beside it.  What it has loaded it reads a    *)
(* while later: by then the record may be another, and others may have     *)
(* written into the cell, which is why a cell that was stored once must    *)
(* never lose anything.                                                    *)
(***************************************************************************)
EXTENDS StateResolve, StateStoreProofs, Induction

rall == <<vars, rvars>>

Layers == [name : STRING, prio : MinInt..MaxInt, key : Keys, cell : Cells,
           snap : Snapshots, sid : Calls \cup {NoCall}]

ReaderType ==
  /\ rpc \in {"idle", "load", "clone", "done"}
  /\ scopes \in Requests
  /\ todo \in Nat \ {0}
  /\ layers \in Seq(Layers)

(* Cells that were part of the store at some time.                         *)
Stored == Keys \cup saved

Pending == layers[Len(layers)]

ReaderInv ==
  /\ ReaderType
  /\ rpc = "clone" => Len(layers) > 0 /\ Pending.cell \in Stored
  /\ settled \subseteq saved

-----------------------------------------------------------------------------
(* A step of the system is a step of Mutate, or leaves its variables.      *)
LEMMA StoreSteps == [ResolveNext]_rall => [Next]_vars
  BY DEF ResolveNext, rall, Next, Finished

LEMMA ResolveIsMutate == ResolveSpec => Spec
<1>1. ResolveInit => Init
  BY DEF ResolveInit
<1> QED BY <1>1, StoreSteps, PTL DEF ResolveSpec, Spec, rall

(* What has been stored once is only ever added to.                        *)
LEMMA StoredGrow ==
  ASSUME SharedInv, [Next]_vars
  PROVE  /\ ref' = ref
         /\ saved \subseteq saved'
         /\ \A x \in Stored : heap[x] \subseteq heap'[x]
<1>1. TypeOK /\ \A c \in Calls : c \in saved => pc[c] \in {"return", "done"}
  BY DEF SharedInv, SavedLate, TypeOK
<1>2. \A c \in Calls \ saved : c \notin Stored
  BY StoreAssumption DEF Stored
<1>3. Stored \subseteq Cells
  BY <1>1 DEF Stored, Cells, TypeOK
<1>4. ASSUME NEW c \in Calls,
             \/ heap' = heap
             \/ \E x \in Cells : heap' = [heap EXCEPT ![x] = heap[x] \cup {c}]
             \/ c \notin saved /\ \E s : heap' = [heap EXCEPT ![c] = s]
      PROVE  \A x \in Stored : heap[x] \subseteq heap'[x]
  BY <1>1, <1>2, <1>3, <1>4 DEF TypeOK
<1>5. ASSUME NEW c \in Calls, Begin(c) \/ Reject(c) \/ LoadFails(c) \/ Validate(c)
                               \/ ValidateFails(c) \/ Save(c) \/ SaveConflict(c) \/ SaveFails(c)
                               \/ Return(c)
      PROVE  heap' = heap /\ ref' = ref /\ saved \subseteq saved'
  BY <1>5 DEF Begin, Reject, LoadFails, Validate, ValidateFails, Save, SaveConflict, SaveFails,
     Return, FailWith, store, args
<1>6. ASSUME NEW c \in Calls, LoadMissing(c) \/ LoadStale(c) \/ LoadFound(c) \/ ApplyReplace(c)
      PROVE  /\ ref' = ref /\ saved' = saved /\ c \notin saved
             /\ heap' = heap \/ \E s : heap' = [heap EXCEPT ![c] = s]
  BY <1>1, <1>6 DEF LoadMissing, LoadStale, LoadFound, ApplyReplace, TakeSnapshot, FailWith
<1>7. ASSUME NEW c \in Calls, ApplyInPlace(c) \/ MutatorFails(c)
      PROVE  /\ ref' = ref /\ saved' = saved
             /\ heap' = heap \/ \E x \in Cells : heap' = [heap EXCEPT ![x] = heap[x] \cup {c}]
  BY <1>1, <1>7 DEF ApplyInPlace, MutatorFails, FailWith, TypeOK
<1>8. ASSUME NEW c \in Calls, Begin(c) \/ Step(c)
      PROVE  ref' = ref /\ saved \subseteq saved' /\ \A x \in Stored : heap[x] \subseteq heap'[x]
  <2>1. CASE Begin(c) \/ Reject(c) \/ LoadFails(c) \/ Validate(c) \/ ValidateFails(c) \/ Save(c)
               \/ SaveConflict(c) \/ SaveFails(c) \/ Return(c)
    BY <1>5, <2>1
  <2>2. CASE LoadMissing(c) \/ LoadStale(c) \/ LoadFound(c) \/ ApplyReplace(c)
    BY <1>4, <1>6, <2>2
  <2>3. CASE ApplyInPlace(c) \/ MutatorFails(c)
    BY <1>4, <1>7, <2>3
  <2> QED BY <1>8, <2>1, <2>2, <2>3 DEF Step
<1>9. CASE UNCHANGED vars
  BY <1>9 DEF vars
<1> QED BY <1>8, <1>9 DEF Next, Finished

-----------------------------------------------------------------------------
LEMMA ReaderInit == ResolveInit => ReaderInv
  BY DEF ResolveInit, Init, ReaderInv, ReaderType

(* The three ways a step of the system treats what has been read.          *)
ReadsNothing == layers' = layers /\ (rpc' = "clone" <=> rpc = "clone")

Loads ==
  /\ rpc = "load" /\ rpc' = "clone"
  /\ \E k \in Keys :
       /\ Has(k)
       /\ \E l \in Layers :
            /\ l.key = k /\ l.cell = rec[k].cell /\ l.sid = rec[k].sid
            /\ layers' = Append(layers, l)

Clones ==
  /\ rpc = "clone" /\ rpc' = "load"
  /\ layers' = [layers EXCEPT ![Len(layers)].snap = heap[Pending.cell]]

LEMMA ReaderSteps ==
  ASSUME SharedInv, ReaderInv, [ResolveNext]_rall
  PROVE  /\ ReadsNothing \/ ((Loads \/ Clones) /\ UNCHANGED vars)
         /\ settled' = settled \/ (settled' = {c \in Calls : outcome[c] = "ok"} /\ rpc = "idle"
                                   /\ UNCHANGED vars)
         /\ rpc' \in {"idle", "load", "clone", "done"} /\ scopes' = scopes
         /\ todo' \in Nat \ {0}
<1>1. ASSUME UNCHANGED rvars PROVE ReadsNothing /\ settled' = settled /\ rpc' = rpc
                                   /\ scopes' = scopes /\ todo' = todo
  BY <1>1 DEF rvars, ReadsNothing
<1>2. ASSUME RRejects \/ RLoadFails \/ RStack
      PROVE  ReadsNothing /\ settled' = settled /\ rpc' = "done" /\ scopes' = scopes /\ todo' = todo
  BY <1>2 DEF RRejects, RLoadFails, RStack, RAnswer, ReadsNothing
<1>3. ASSUME RBegin
      PROVE  /\ ReadsNothing /\ rpc = "idle" /\ rpc' = "load"
             /\ settled' = {c \in Calls : outcome[c] = "ok"} /\ scopes' = scopes /\ todo' = todo
  BY <1>3 DEF RBegin, ReadsNothing
<1>4. ASSUME RSkip
      PROVE  /\ ReadsNothing /\ settled' = settled /\ rpc' = "load" /\ scopes' = scopes
             /\ todo' = todo + 1
  BY <1>4 DEF RSkip, ReadsNothing
<1>5. ASSUME RLoad
      PROVE  Loads /\ settled' = settled /\ rpc' = "clone" /\ scopes' = scopes /\ todo' = todo + 1
  <2> DEFINE s == scopes[todo]
             k == KeyFor(s)
             l == [name |-> s.name, prio |-> s.prio, key |-> k, cell |-> rec[k].cell,
                   snap |-> {}, sid |-> rec[k].sid]
  <2>1. /\ rpc = "load" /\ rpc' = "clone" /\ todo <= Len(scopes) /\ k \in Keys /\ Has(k)
        /\ layers' = Append(layers, l) /\ settled' = settled /\ scopes' = scopes /\ todo' = todo + 1
    BY <1>5 DEF RLoad
  <2>2. s \in [name : STRING, prio : MinInt..MaxInt, ref : Refs]
    <3> DEFINE S == [name : STRING, prio : MinInt..MaxInt, ref : Refs]
    <3>1. scopes \in Seq(S)
      BY RequestsAssumption DEF ReaderInv, ReaderType
    <3> HIDE DEF S
    <3>2. todo \in 1..Len(scopes)
      BY <2>1, <3>1 DEF ReaderInv, ReaderType
    <3>3. s \in S
      BY <3>1, <3>2
    <3> QED BY <3>3 DEF S
  <2>3. rec[k].cell \in Cells /\ rec[k].sid \in Calls \cup {NoCall}
    BY <2>1 DEF SharedInv, TypeOK, Record, Has
  <2>4. l \in Layers
    BY <2>1, <2>2, <2>3 DEF Layers, Snapshots
  <2> QED BY <2>1, <2>4 DEF Loads
<1>6. ASSUME RClone
      PROVE  Clones /\ settled' = settled /\ rpc' = "load" /\ scopes' = scopes /\ todo' = todo
  BY <1>6 DEF RClone, Clones, Pending
<1> USE DEF ReaderInv, ReaderType
<1>7. CASE (\E c \in Calls : Begin(c) \/ Step(c)) /\ UNCHANGED rvars
  BY <1>1, <1>7
<1>8. CASE Reader /\ UNCHANGED vars
  BY <1>2, <1>3, <1>4, <1>5, <1>6, <1>8 DEF Reader, RStep
<1>9. CASE UNCHANGED rvars
  BY <1>1, <1>9
<1> QED BY <1>7, <1>8, <1>9 DEF ResolveNext, rall

(* What Clones does to the layers, and what it leaves of them.             *)
LEMMA CloneStep ==
  ASSUME SharedInv, ReaderInv, Clones
  PROVE  /\ layers' \in Seq(Layers) /\ Len(layers') = Len(layers)
         /\ Len(layers) \in 1..Len(layers)
         /\ \A i \in 1..Len(layers) : i # Len(layers) => layers'[i] = layers[i]
         /\ layers'[Len(layers)] = [Pending EXCEPT !.snap = heap[Pending.cell]]
         /\ Pending \in Layers
<1>1. layers \in Seq(Layers) /\ Len(layers) \in Nat /\ Len(layers) > 0
  BY DEF Clones, ReaderInv, ReaderType
<1>2. Pending \in Layers
  BY <1>1 DEF Pending
<1>3. heap[Pending.cell] \in Snapshots
  BY <1>2 DEF Layers, SharedInv, TypeOK
<1> DEFINE l == [Pending EXCEPT !.snap = heap[Pending.cell]]
<1>4. l \in Layers
  BY <1>2, <1>3 DEF Layers
<1>5. layers' = [layers EXCEPT ![Len(layers)] = l]
  BY <1>1 DEF Clones, Pending
<1> HIDE DEF l
<1>6. layers' \in Seq(Layers) /\ Len(layers') = Len(layers)
  BY <1>1, <1>4, <1>5
<1>7. layers'[Len(layers)] = l /\ \A i \in 1..Len(layers) : i # Len(layers) => layers'[i] = layers[i]
  BY <1>1, <1>5
<1> QED BY <1>1, <1>2, <1>6, <1>7 DEF l

(* What Loads appends.                                                     *)
LEMMA LoadStep ==
  ASSUME SharedInv, ReaderInv, Loads
  PROVE  /\ layers' \in Seq(Layers) /\ Len(layers') = Len(layers) + 1
         /\ \A i \in 1..Len(layers) : layers'[i] = layers[i]
         /\ \E k \in Keys : /\ Has(k) /\ Pending'.key = k
                            /\ Pending'.cell = rec[k].cell /\ Pending'.sid = rec[k].sid
         /\ Pending'.cell \in Stored
<1>1. PICK k \in Keys, l \in Layers :
        /\ Has(k) /\ l.key = k /\ l.cell = rec[k].cell /\ l.sid = rec[k].sid
        /\ layers' = Append(layers, l)
  BY DEF Loads
<1>2. layers \in Seq(Layers)
  BY DEF ReaderInv, ReaderType
<1>3. /\ layers' \in Seq(Layers) /\ Len(layers') = Len(layers) + 1
      /\ \A i \in 1..Len(layers) : layers'[i] = layers[i]
      /\ layers'[Len(layers')] = l
  BY <1>1, <1>2
<1>4. rec[k].cell \in Cells /\ rec[k].cell \notin Calls \ saved
  BY <1>1 DEF SharedInv, TypeOK, Private, Has, Record
<1>5. rec[k].cell \in Stored
  BY <1>4 DEF Stored, Cells
<1> QED BY <1>1, <1>3, <1>5 DEF Pending

LEMMA ReaderStep ==
  ASSUME SharedInv, ReaderInv, [ResolveNext]_rall
  PROVE  ReaderInv'
<1>1. saved \subseteq saved'
  BY StoreSteps, StoredGrow
<1>2. /\ rpc' \in {"idle", "load", "clone", "done"} /\ scopes' \in Requests
      /\ todo' \in Nat \ {0}
  BY ReaderSteps DEF ReaderInv, ReaderType
<1>3. settled' \subseteq saved'
  <2>1. {c \in Calls : outcome[c] = "ok"} \subseteq saved
    BY DEF SharedInv, SavedLate
  <2> QED BY <1>1, <2>1, ReaderSteps DEF ReaderInv
<1>4. /\ layers' \in Seq(Layers)
      /\ rpc' = "clone" => Len(layers') > 0 /\ Pending'.cell \in Stored'
  <2>1. Stored \subseteq Stored'
    BY <1>1 DEF Stored
  <2>2. CASE ReadsNothing
    BY <2>1, <2>2 DEF ReadsNothing, ReaderInv, ReaderType, Pending
  <2>3. CASE Loads
    BY <2>1, <2>3, LoadStep DEF ReaderInv, ReaderType
  <2>4. CASE Clones
    BY <2>4, CloneStep DEF Clones
  <2> QED BY <2>2, <2>3, <2>4, ReaderSteps
<1> QED BY <1>2, <1>3, <1>4 DEF ReaderInv, ReaderType

-----------------------------------------------------------------------------
(* A finished layer has been one before, or is the one cloned now.         *)
LEMMA ClonedStep ==
  ASSUME SharedInv, ReaderInv, [ResolveNext]_rall, NEW i \in 1..Cloned'
  PROVE  \/ i \in 1..Cloned /\ layers'[i] = layers[i]
         \/ /\ rpc = "clone" /\ Pending \in Layers /\ UNCHANGED vars
            /\ layers'[i] = [Pending EXCEPT !.snap = heap[Pending.cell]]
<1>1. Len(layers) \in Nat
  BY DEF ReaderInv, ReaderType
<1>2. CASE ReadsNothing
  BY <1>1, <1>2 DEF ReadsNothing, Cloned
<1>3. CASE Loads
  BY <1>1, <1>3, LoadStep DEF Loads, Cloned
<1>4. CASE Clones /\ UNCHANGED vars
  BY <1>1, <1>4, CloneStep DEF Clones, Cloned
<1> QED BY <1>2, <1>3, <1>4, ReaderSteps

(* A layer waiting to be cloned has been before, or was loaded now.        *)
LEMMA PendingStep ==
  ASSUME SharedInv, ReaderInv, [ResolveNext]_rall, rpc' = "clone"
  PROVE  \/ rpc = "clone" /\ Pending' = Pending /\ settled' = settled
         \/ /\ UNCHANGED <<vars, settled>>
            /\ \E k \in Keys : /\ Has(k) /\ Pending'.key = k
                              /\ Pending'.cell = rec[k].cell /\ Pending'.sid = rec[k].sid
<1>1. CASE ReadsNothing
  BY <1>1, ReaderSteps DEF ReadsNothing, Pending
<1>2. CASE Loads /\ UNCHANGED vars
  BY <1>2, LoadStep, ReaderSteps DEF Loads
<1>3. CASE Clones
  BY <1>3 DEF Clones
<1> QED BY <1>1, <1>2, <1>3, ReaderSteps

-----------------------------------------------------------------------------
(* A Resolve over a store that hands out copies never sees the write of a  *)
(* Mutate that has not saved.                                              *)
THEOREM ReadsAreClean ==
  ASSUME ~SharesCell
  PROVE  ResolveSpec => []NoDirtyRead
<1> DEFINE Inv == SharedInv /\ CopyInv /\ ReaderInv /\ NoDirtyRead
<1>1. ResolveInit => Inv
  BY SharedInit, CopyInit, ReaderInit DEF ResolveInit, NoDirtyRead, Cloned
<1>2. ASSUME Inv, [ResolveNext]_rall PROVE Inv'
  <2>1. SharedInv' /\ CopyInv' /\ ReaderInv'
    BY <1>2, StoreSteps, SharedStep, CopyStep, ReaderStep
  <2>2. saved \subseteq saved'
    BY <1>2, StoreSteps, StoredGrow
  <2>3. ASSUME NEW i \in 1..Cloned' PROVE layers'[i].snap \subseteq saved'
    <3>1. CASE i \in 1..Cloned /\ layers'[i] = layers[i]
      BY <1>2, <2>2, <3>1 DEF NoDirtyRead
    <3>2. CASE /\ rpc = "clone" /\ Pending \in Layers
               /\ layers'[i] = [Pending EXCEPT !.snap = heap[Pending.cell]]
      <4>1. layers'[i].snap = heap[Pending.cell]
        BY <3>2 DEF Layers
      <4>2. Pending.cell \in Stored
        BY <1>2, <3>2 DEF ReaderInv
      <4>3. heap[Pending.cell] \subseteq saved
        BY <1>2, <4>2 DEF CopyInv, CellContents, Stored, TypeOK
      <4> QED BY <2>2, <4>1, <4>3
    <3> QED BY <1>2, <3>1, <3>2, ClonedStep
  <2> QED BY <2>1, <2>3 DEF NoDirtyRead
<1> HIDE DEF Inv
<1>3. Inv => NoDirtyRead
  BY DEF Inv
<1> QED BY <1>1, <1>2, <1>3, PTL DEF ResolveSpec, rall

(* The SnapshotID a Resolve reports is that of a write in the layer it     *)
(* reports it for, whatever the store, and although others write into what *)
(* they share with it between its Load and its clone.                      *)
THEOREM ProvenanceIsTrue == ResolveSpec => []ProvenanceNamesData
<1> DEFINE PendingId ==
      rpc = "clone" /\ Pending.sid # NoCall => Pending.sid \in heap[Pending.cell]
<1> DEFINE Inv == SharedInv /\ ReaderInv /\ PendingId /\ ProvenanceNamesData
<1>1. ResolveInit => Inv
  BY SharedInit, ReaderInit DEF ResolveInit, ProvenanceNamesData, Cloned
<1>2. ASSUME Inv, [ResolveNext]_rall PROVE Inv'
  <2>1. SharedInv' /\ ReaderInv'
    BY <1>2, StoreSteps, SharedStep, ReaderStep
  <2>2. PendingId'
    <3> SUFFICES ASSUME rpc' = "clone", Pending'.sid # NoCall
                 PROVE  Pending'.sid \in heap'[Pending'.cell]
      OBVIOUS
    <3>1. CASE rpc = "clone" /\ Pending' = Pending
      BY <1>2, <3>1, StoreSteps, StoredGrow DEF ReaderInv
    <3>2. CASE /\ UNCHANGED vars
               /\ \E k \in Keys : /\ Has(k) /\ Pending'.cell = rec[k].cell
                                 /\ Pending'.sid = rec[k].sid
      BY <1>2, <3>2 DEF SharedInv, AuditIdNamesWrite, Content, vars
    <3> QED BY <1>2, <3>1, <3>2, PendingStep
  <2>3. ASSUME NEW i \in 1..Cloned', layers'[i].sid # NoCall
        PROVE  layers'[i].sid \in layers'[i].snap
    <3>1. CASE i \in 1..Cloned /\ layers'[i] = layers[i]
      BY <1>2, <2>3, <3>1 DEF ProvenanceNamesData
    <3>2. CASE /\ rpc = "clone" /\ Pending \in Layers
               /\ layers'[i] = [Pending EXCEPT !.snap = heap[Pending.cell]]
      BY <1>2, <2>3, <3>2 DEF Layers
    <3> QED BY <1>2, <3>1, <3>2, ClonedStep
  <2> QED BY <2>1, <2>2, <2>3 DEF ProvenanceNamesData
<1> HIDE DEF Inv
<1>3. Inv => ProvenanceNamesData
  BY DEF Inv
<1> QED BY <1>1, <1>2, <1>3, PTL DEF ResolveSpec, rall

(* Over a compare-and-swap store, a Resolve sees every write that was      *)
(* reported as done before it was called.                                  *)
THEOREM SettledWritesAreRead ==
  ASSUME StoreKind = "cas"
  PROVE  ResolveSpec => []ReadsSettledWrites
<1> DEFINE PendingSettled ==
      rpc = "clone" => \A c \in settled : Key(c) = Pending.key => c \in heap[Pending.cell]
<1> DEFINE Begun == rpc = "idle" => Len(layers) = 0
<1> DEFINE Inv == SharedInv /\ CasInv /\ ReaderInv /\ Begun /\ PendingSettled /\ ReadsSettledWrites
<1>1. ResolveInit => Inv
  BY SharedInit, CasInit, ReaderInit DEF ResolveInit, ReadsSettledWrites, Cloned
<1>2. ASSUME Inv, [ResolveNext]_rall PROVE Inv'
  <2>1. SharedInv' /\ CasInv' /\ ReaderInv'
    BY <1>2, StoreSteps, SharedStep, CasStep, ReaderStep
  <2>2. /\ \A c : Key(c)' = Key(c)
        /\ \A x \in Stored : heap[x] \subseteq heap'[x]
    BY <1>2, StoreSteps, StoredGrow DEF Key
  <2>3. Begun'
    BY <1>2 DEF ResolveNext, rall, rvars, Reader, RRejects, RBegin, RStep, RLoadFails, RSkip,
       RLoad, RClone, RStack, RAnswer
  <2>4. PendingSettled'
    <3> SUFFICES ASSUME rpc' = "clone", NEW c \in settled', Key(c) = Pending'.key
                 PROVE  c \in heap'[Pending'.cell]
      BY <2>2
    <3>1. CASE rpc = "clone" /\ Pending' = Pending /\ settled' = settled
      BY <1>2, <2>2, <3>1 DEF ReaderInv
    <3>2. CASE /\ UNCHANGED <<vars, settled>>
               /\ \E k \in Keys : /\ Has(k) /\ Pending'.key = k
                                 /\ Pending'.cell = rec[k].cell
      <4>1. c \in saved
        BY <1>2, <3>2 DEF ReaderInv
      <4>2. c \in Content(Key(c))
        BY <1>2, <4>1 DEF CasInv, NoLostUpdate
      <4> QED BY <3>2, <4>2 DEF Content, vars
    <3> QED BY <1>2, <3>1, <3>2, PendingStep
  <2>5. ASSUME NEW i \in 1..Cloned', NEW c \in settled', Key(c) = layers'[i].key
        PROVE  c \in layers'[i].snap
    <3>1. settled' = settled
      <4>1. CASE rpc = "idle"
        BY <1>2, <4>1, ClonedStep DEF Cloned
      <4> QED BY <1>2, <4>1, ReaderSteps
    <3>2. CASE i \in 1..Cloned /\ layers'[i] = layers[i]
      BY <1>2, <2>5, <3>1, <3>2 DEF ReadsSettledWrites
    <3>3. CASE /\ rpc = "clone" /\ Pending \in Layers
               /\ layers'[i] = [Pending EXCEPT !.snap = heap[Pending.cell]]
      BY <1>2, <2>5, <3>1, <3>3 DEF Layers
    <3> QED BY <1>2, <3>2, <3>3, ClonedStep
  <2> QED BY <2>1, <2>2, <2>3, <2>4, <2>5 DEF ReadsSettledWrites
<1> HIDE DEF Inv
<1>3. Inv => ReadsSettledWrites
  BY DEF Inv
<1> QED BY <1>1, <1>2, <1>3, PTL DEF ResolveSpec, rall

-----------------------------------------------------------------------------
(* How many layers are as strong as layer i, or stronger.                  *)
AsStrong(list, i) == {j \in DOMAIN list : list[j].prio >= list[i].prio}
Rank(list, i)     == Cardinality(AsStrong(list, i))

LEMMA Ranks ==
  ASSUME NEW L, \A l \in L : l.prio \in Int, NEW list \in Seq(L), ~Tied(list)
  PROVE  /\ \A i \in DOMAIN list : Rank(list, i) \in DOMAIN list
         /\ \A i, j \in DOMAIN list :
              Rank(list, i) < Rank(list, j) <=> list[i].prio > list[j].prio
<1> DEFINE n == Len(list)
<1>1. /\ n \in Nat /\ DOMAIN list = 1..n /\ IsFiniteSet(1..n) /\ Cardinality(1..n) = n
      /\ \A i \in 1..n : list[i].prio \in Int
  <2>1. n \in Nat /\ DOMAIN list = 1..n /\ \A i \in 1..n : list[i].prio \in Int
    OBVIOUS
  <2>2. IsFiniteSet(1..n) /\ Cardinality(1..n) = n
    BY <2>1, FS_Interval
  <2> QED BY <2>1, <2>2
<1>2. ASSUME NEW i \in 1..n
      PROVE  /\ AsStrong(list, i) \in SUBSET (1..n) /\ i \in AsStrong(list, i)
             /\ IsFiniteSet(AsStrong(list, i)) /\ Rank(list, i) \in 1..n
  <2>1. AsStrong(list, i) \in SUBSET (1..n) /\ i \in AsStrong(list, i)
    BY <1>1 DEF AsStrong
  <2>2. IsFiniteSet(AsStrong(list, i)) /\ Rank(list, i) \in Nat /\ Rank(list, i) <= n
    BY <1>1, <2>1, FS_Subset, FS_CardinalityType DEF Rank
  <2>3. Rank(list, i) # 0
    BY <2>1, <2>2, FS_EmptySet DEF Rank
  <2> QED BY <1>1, <2>1, <2>2, <2>3
<1>3. ASSUME NEW i \in 1..n, NEW j \in 1..n, list[i].prio > list[j].prio
      PROVE  Rank(list, i) < Rank(list, j)
  <2>1. AsStrong(list, i) \in SUBSET AsStrong(list, j)
    BY <1>1, <1>3 DEF AsStrong
  <2>2. j \notin AsStrong(list, i)
    BY <1>1, <1>3 DEF AsStrong
  <2>3. i \in AsStrong(list, i) /\ j \in AsStrong(list, j)
    BY <1>2
  <2>4. Rank(list, i) <= Rank(list, j) /\ Rank(list, i) # Rank(list, j)
    <3>1. IsFiniteSet(AsStrong(list, j)) /\ AsStrong(list, i) # AsStrong(list, j)
      BY <1>2, <2>2, <2>3
    <3> QED BY <2>1, <3>1, FS_Subset DEF Rank
  <2> QED BY <1>2, <2>4
<1>4. ASSUME NEW i \in 1..n, NEW j \in 1..n, Rank(list, i) < Rank(list, j)
      PROVE  list[i].prio > list[j].prio
  <2>1. CASE i = j
    BY <1>1, <1>2, <1>4, <2>1
  <2>2. CASE i # j
    <3>1. list[i].prio # list[j].prio
      BY <1>1, <2>2 DEF Tied
    <3>2. ~(list[i].prio < list[j].prio)
      BY <1>1, <1>2, <1>3, <1>4
    <3> QED BY <1>1, <3>1, <3>2
  <2> QED BY <2>1, <2>2
<1> QED BY <1>1, <1>2, <1>3, <1>4

(* There is a way to sort layers of different priorities.                  *)
LEMMA Sortable ==
  ASSUME NEW L, \A l \in L : l.prio \in Int, NEW list \in Seq(L), ~Tied(list)
  PROVE  \E s \in [DOMAIN list -> Elements(list)] :
           \A i, j \in DOMAIN list : i < j => StrongerFirst(s[i], s[j])
<1> DEFINE n == Len(list)
           rank == [i \in 1..n |-> Rank(list, i)]
<1>1. /\ n \in Nat /\ DOMAIN list = 1..n /\ IsFiniteSet(1..n)
      /\ \A i \in 1..n : list[i].prio \in Int
  BY FS_Interval
<1>2. rank \in Injection(1..n, 1..n)
  <2>1. \A i \in 1..n : Rank(list, i) \in 1..n
    BY <1>1, Ranks
  <2>2. ASSUME NEW i \in 1..n, NEW j \in 1..n, i # j PROVE Rank(list, i) # Rank(list, j)
    <3>1. list[i].prio > list[j].prio \/ list[j].prio > list[i].prio
      BY <1>1, <2>2 DEF Tied
    <3> QED BY <1>1, <2>1, <3>1, Ranks
  <2>3. rank \in [1..n -> 1..n]
    BY <2>1
  <2>4. \A i, j \in 1..n : rank[i] = rank[j] => i = j
    BY <2>2
  <2> QED BY <2>3, <2>4 DEF Injection, IsInjective
<1>3. rank \in Surjection(1..n, 1..n)
  <2> HIDE DEF rank, n
  <2> QED BY <1>1, <1>2, FS_Injection
<1>4. \A k \in 1..n : \E i \in 1..n : Rank(list, i) = k
  BY <1>3 DEF Surjection
<1> DEFINE at == [k \in 1..n |-> CHOOSE i \in 1..n : Rank(list, i) = k]
           s == [k \in 1..n |-> list[at[k]]]
<1>5. \A k \in 1..n : at[k] \in 1..n /\ Rank(list, at[k]) = k
  BY <1>4
<1>6. s \in [1..n -> Elements(list)]
  BY <1>1, <1>5 DEF Elements
<1>7. ASSUME NEW i \in 1..n, NEW j \in 1..n, i < j PROVE StrongerFirst(s[i], s[j])
  <2>1. /\ at[i] \in 1..n /\ at[j] \in 1..n /\ s[i] = list[at[i]] /\ s[j] = list[at[j]]
        /\ Rank(list, at[i]) < Rank(list, at[j])
    BY <1>5, <1>7
  <2> HIDE DEF at, s
  <2> QED BY <1>1, <2>1, Ranks DEF StrongerFirst
<1> QED BY <1>1, <1>6, <1>7

(* Sorted is such a way, and has all the layers.                           *)
LEMMA SortedIs ==
  ASSUME NEW L, \A l \in L : l.prio \in Int, NEW list \in Seq(L), ~Tied(list)
  PROVE  /\ DOMAIN Sorted(list) = DOMAIN list
         /\ \A i, j \in DOMAIN list : i < j => Sorted(list)[i].prio > Sorted(list)[j].prio
         /\ Elements(Sorted(list)) = Elements(list)
<1> DEFINE n == Len(list)
           s == Sorted(list)
<1>1. /\ n \in Nat /\ DOMAIN list = 1..n /\ IsFiniteSet(1..n) /\ Cardinality(1..n) = n
      /\ \A i \in 1..n : list[i].prio \in Int
  <2>1. n \in Nat /\ DOMAIN list = 1..n /\ \A i \in 1..n : list[i].prio \in Int
    OBVIOUS
  <2>2. IsFiniteSet(1..n) /\ Cardinality(1..n) = n
    BY <2>1, FS_Interval
  <2> QED BY <2>1, <2>2
<1>2. /\ s \in [1..n -> Elements(list)]
      /\ \A i, j \in 1..n : i < j => s[i].prio > s[j].prio
  BY <1>1, Sortable DEF Sorted, StrongerFirst
<1> HIDE DEF s
<1>3. list \in Surjection(1..n, Elements(list))
  <2>1. list \in [1..n -> Elements(list)]
    BY <1>1 DEF Elements
  <2>2. \A e \in Elements(list) : \E i \in 1..n : list[i] = e
    BY <1>1 DEF Elements
  <2> QED BY <2>1, <2>2 DEF Surjection
<1>4. list \in Injection(1..n, Elements(list))
  <2>1. \A i, j \in 1..n : list[i] = list[j] => i = j
    BY <1>1 DEF Tied
  <2> QED BY <1>3, <2>1 DEF Injection, IsInjective, Surjection
<1>5. IsFiniteSet(Elements(list)) /\ Cardinality(Elements(list)) = n
  BY <1>1, <1>3, <1>4, FS_Surjection
<1>6. s \in Injection(1..n, Elements(list))
  <2>1. \A e \in Elements(list) : e.prio \in Int
    BY <1>1 DEF Elements
  <2>2. ASSUME NEW i \in 1..n, NEW j \in 1..n, s[i] = s[j] PROVE i = j
    <3>1. ~(i < j) /\ ~(j < i)
      BY <1>2, <2>1, <2>2
    <3> QED BY <3>1
  <2> QED BY <1>2, <2>2 DEF Injection, IsInjective
<1>7. s \in Surjection(1..n, Elements(list))
  BY <1>1, <1>5, <1>6, FS_Injection
<1>8. Elements(s) = Elements(list)
  BY <1>2, <1>7 DEF Elements, Surjection
<1> QED BY <1>1, <1>2, <1>8 DEF s

LEMMA FirstIs ==
  ASSUME NEW T \in SUBSET Nat, T # {}
  PROVE  First(T) \in T
BY Least DEF First

(* What NewStack answers about a list, sorted or refused.                  *)
LEMMA StackIs ==
  ASSUME NEW L, \A l \in L : l.prio \in Int, NEW list \in Seq(L),
         NewStack(list).err = "none"
  PROVE  LET s == NewStack(list).layers
         IN  /\ s \in Seq(L) /\ Len(s) = Len(list)
             /\ \A i, j \in DOMAIN s : i < j => s[i].prio > s[j].prio
             /\ \A i, j \in DOMAIN s : i # j => s[i].name # s[j].name
             /\ Elements(s) = Elements(list)
<1> DEFINE s == NewStack(list).layers
<1>0. DOMAIN list = 1..Len(list) /\ Len(list) \in Nat /\ \A i \in 1..Len(list) : list[i] \in L
  OBVIOUS
<1>1. Unacceptable(list) = {} /\ ~Tied(list) /\ s = Sorted(list)
  BY DEF NewStack, NameError
<1> HIDE DEF s
<1>2. /\ DOMAIN s = 1..Len(list) /\ Len(list) \in Nat
      /\ \A i, j \in DOMAIN s : i < j => s[i].prio > s[j].prio
      /\ Elements(s) = Elements(list)
  BY <1>1, SortedIs
<1>3. s \in Seq(L) /\ Len(s) = Len(list)
  <2>1. \A i \in 1..Len(list) : s[i] \in L
    BY <1>0, <1>2 DEF Elements
  <2>2. s = [i \in 1..Len(list) |-> s[i]]
    <3>1. s \in [DOMAIN list -> Elements(list)]
      BY <1>1, Sortable DEF Sorted
    <3> QED BY <1>2, <3>1
  <2> QED BY <1>2, <2>1, <2>2
<1>4. ASSUME NEW i \in DOMAIN s, NEW j \in DOMAIN s, i # j PROVE s[i].name # s[j].name
  <2>1. s[i] # s[j]
    <3>1. s[i].prio \in Int /\ s[j].prio \in Int
      BY <1>3, <1>4
    <3>2. i < j \/ j < i
      BY <1>2, <1>4
    <3> QED BY <1>2, <3>1, <3>2
  <2>2. PICK a \in 1..Len(list), b \in 1..Len(list) : s[i] = list[a] /\ s[j] = list[b]
    <3>1. \A e \in Elements(list) : \E a \in 1..Len(list) : e = list[a]
      BY <1>0 DEF Elements
    <3>2. s[i] \in Elements(list) /\ s[j] \in Elements(list)
      <4>1. s[i] \in Elements(s) /\ s[j] \in Elements(s)
        BY <1>4 DEF Elements
      <4> QED BY <1>2, <4>1
    <3> QED BY <3>1, <3>2
  <2>3. a # b
    BY <2>1, <2>2
  <2>4. \A x, y \in 1..Len(list) : y < x => list[x].name # list[y].name
    BY <1>0, <1>1 DEF Unacceptable, Repeats
  <2> QED BY <2>2, <2>3, <2>4
<1> QED BY <1>2, <1>3, <1>4 DEF s

(* The priority of the defaults is one no scope has, and the lowest where  *)
(* the scopes leave room for it.                                           *)
LEMMA DefaultsAreFree ==
  ASSUME NEW list \in Seq([name : STRING, prio : MinInt..MaxInt, ref : Refs]),
         Priorities(list) # MinInt..MaxInt
  PROVE  /\ DefaultsPriority(list) \in (MinInt..MaxInt) \ Priorities(list)
         /\ MinInt \notin Priorities(list) =>
              \A p \in Priorities(list) : DefaultsPriority(list) < p
<1> DEFINE Ints == MinInt..MaxInt
           taken == Priorities(list)
           free == Ints \ taken
           under(p) == {q \in free : q < p}
           top(T) == CHOOSE q \in T : \A x \in T : x <= q
           Down(d) == d = [p \in Ints |-> IF p \in taken THEN d[Decrement(p)] ELSE p]
           down == CHOOSE d : Down(d)
<1>1. /\ MinInt \in Int /\ MaxInt \in Int /\ MinInt < 0 /\ 0 < MaxInt
      /\ taken \in SUBSET Ints /\ free # {} /\ free \in SUBSET Ints
  <2>1. \A i \in DOMAIN list : list[i].prio \in MinInt..MaxInt
    <3> DEFINE S == [name : STRING, prio : MinInt..MaxInt, ref : Refs]
    <3>0. list \in Seq(S)
      OBVIOUS
    <3>1. \A s \in S : s.prio \in MinInt..MaxInt
      OBVIOUS
    <3> HIDE DEF S
    <3> QED BY <3>0, <3>1
  <2> QED BY <2>1, IntRange DEF Priorities
<1>2. \A T \in SUBSET Ints : T # {} => top(T) \in T /\ \A x \in T : x <= top(T)
  BY <1>1, Greatest
<1>3. \A p \in Ints : Decrement(p) = IF p = MinInt THEN MaxInt ELSE p - 1
  BY DEF Decrement
<1>4. CASE list = << >>
  <2>1. DefaultsPriority(list) = 0 /\ taken = {}
    BY <1>4 DEF DefaultsPriority, Priorities
  <2> QED BY <1>1, <2>1
<1>5. CASE list # << >>
  <2>1. Down(down)
    <3> DEFINE g == [p \in Ints |-> IF p \notin taken THEN p
                                    ELSE IF under(p) # {} THEN top(under(p)) ELSE top(free)]
    <3>1. ASSUME NEW p \in Ints, p \in taken PROVE g[p] = g[Decrement(p)]
      <4>1. CASE p = MinInt
        <5>1. under(p) = {} /\ Decrement(p) = MaxInt /\ MaxInt \in Ints
          BY <1>1, <1>3, <4>1
        <5>2. g[p] = top(free)
          BY <3>1, <5>1
        <5>3. CASE MaxInt \in free
          <6>1. top(free) = MaxInt
            BY <1>1, <1>2, <5>3
          <6> QED BY <5>1, <5>2, <5>3, <6>1
        <5>4. CASE MaxInt \notin free
          <6>1. under(MaxInt) = free /\ MaxInt \in taken
            BY <1>1, <5>1, <5>4
          <6>2. g[MaxInt] = IF under(MaxInt) # {} THEN top(under(MaxInt)) ELSE top(free)
            BY <5>1, <6>1
          <6> HIDE DEF under, free, top, g
          <6> QED BY <5>1, <5>2, <6>1, <6>2
        <5> QED BY <5>3, <5>4
      <4>2. CASE p # MinInt
        <5>1. Decrement(p) = p - 1 /\ p - 1 \in Ints
          BY <1>1, <1>3, <4>2
        <5>2. CASE p - 1 \in free
          <6>1. p - 1 \in under(p) /\ under(p) \in SUBSET Ints /\ \A x \in under(p) : x <= p - 1
            BY <1>1, <5>2
          <6>2. top(under(p)) = p - 1
            BY <1>1, <1>2, <6>1
          <6> QED BY <3>1, <5>1, <5>2, <6>1, <6>2
        <5>3. CASE p - 1 \notin free
          <6>1. under(p) = under(p - 1) /\ p - 1 \in taken
            BY <1>1, <5>1, <5>3
          <6>2. \A q \in taken : q \in Ints =>
                  g[q] = IF under(q) # {} THEN top(under(q)) ELSE top(free)
            OBVIOUS
          <6> HIDE DEF under, free, top, g
          <6> QED BY <3>1, <5>1, <6>1, <6>2
        <5> QED BY <5>2, <5>3
      <4> QED BY <4>1, <4>2
    <3>2. Down(g)
      <4>1. \A p \in Ints : p \notin taken => g[p] = p
        OBVIOUS
      <4>2. g = [p \in Ints |-> g[p]]
        OBVIOUS
      <4> HIDE DEF g
      <4> QED BY <3>1, <4>1, <4>2
    <3> HIDE DEF g, Down
    <3> QED BY <3>2
  <2> DEFINE low == CHOOSE p \in taken : \A q \in taken : p <= q
  <2>2. DefaultsPriority(list) = down[Decrement(low)]
    BY <1>5 DEF DefaultsPriority
  <2>3. \A p \in Ints : down[p] = IF p \in taken THEN down[Decrement(p)] ELSE p
    BY <2>1
  <2> HIDE DEF down
  <2>4. low \in taken /\ \A q \in taken : low <= q
    <3>1. taken # {}
      <4>1. 1 \in DOMAIN list
        BY <1>5
      <4> QED BY <4>1 DEF Priorities
    <3> HIDE DEF taken
    <3> QED BY <1>1, <3>1, Lowest
  <2> HIDE DEF low
  <2>5. CASE low # MinInt
    <3>1. Decrement(low) = low - 1 /\ low - 1 \in Ints /\ low - 1 \notin taken
      BY <1>1, <1>3, <2>4, <2>5
    <3>2. DefaultsPriority(list) = low - 1
      BY <2>2, <2>3, <3>1
    <3> QED BY <1>1, <2>4, <3>1, <3>2
  <2>6. CASE low = MinInt
    <3> DEFINE t == top(free)
    <3>1. t \in free /\ \A x \in free : x <= t
      BY <1>1, <1>2
    <3> HIDE DEF t
    <3> DEFINE Up == {p \in t..MaxInt : down[p] # t}
    <3>2. Up = {}
      <4> SUFFICES ASSUME Up # {} PROVE FALSE
        OBVIOUS
      <4>1. PICK p \in Up : \A q \in Up : p <= q
        <5>1. t \in Int /\ Up \in SUBSET (t..MaxInt)
          BY <1>1, <3>1
        <5> HIDE DEF Up
        <5> QED BY <1>1, <5>1, Lowest
      <4>2. p # t
        BY <2>3, <3>1, <4>1
      <4>3. p \in taken /\ p - 1 \in t..MaxInt /\ p # MinInt /\ p \in Ints
        BY <1>1, <3>1, <4>1, <4>2
      <4>4. down[p] = down[p - 1]
        BY <1>3, <2>3, <4>3
      <4> QED BY <1>1, <3>1, <4>1, <4>3, <4>4
    <3>3. Decrement(low) = MaxInt /\ MaxInt \in t..MaxInt
      BY <1>1, <1>3, <2>6, <3>1
    <3>4. DefaultsPriority(list) = t
      BY <2>2, <3>2, <3>3
    <3> QED BY <2>4, <2>6, <3>1, <3>4
  <2> QED BY <2>5, <2>6
<1> QED BY <1>4, <1>5

-----------------------------------------------------------------------------
(* A record under a key stays: later saves replace it.                     *)
LEMMA RecordsStay ==
  ASSUME SharedInv, [Next]_vars, NEW k \in Keys, Has(k)
  PROVE  Has(k)'
<1>1. TypeOK
  BY DEF SharedInv
<1>2. ASSUME NEW c \in Calls, Begin(c) \/ Reject(c) \/ LoadFails(c) \/ LoadMissing(c)
               \/ LoadStale(c) \/ LoadFound(c) \/ ApplyReplace(c) \/ ApplyInPlace(c)
               \/ MutatorFails(c) \/ Validate(c) \/ ValidateFails(c) \/ SaveConflict(c)
               \/ SaveFails(c) \/ Return(c)
      PROVE  rec' = rec
  BY <1>2 DEF Begin, Reject, LoadFails, LoadMissing, LoadStale, LoadFound, ApplyReplace,
     ApplyInPlace, MutatorFails, Validate, ValidateFails, SaveConflict, SaveFails, Return,
     TakeSnapshot, FailWith, store
<1>3. ASSUME NEW c \in Calls, Save(c) PROVE Has(k)'
  <2>1. rec' = [rec EXCEPT ![Key(c)] = SavedRecord(c)]
    BY <1>3 DEF Save
  <2>2. SavedRecord(c).cell # NoCell
    BY <1>1, StoreAssumption DEF SavedRecord, TypeOK, Cells
  <2> QED BY <1>1, <2>1, <2>2 DEF Has, TypeOK
<1>4. CASE UNCHANGED vars
  BY <1>4 DEF vars, Has
<1> QED BY <1>2, <1>3, <1>4 DEF Next, Finished, Step, Has

(* What a Resolve has built its layers from, and what it answers.          *)
Scopes == [name : STRING, prio : MinInt..MaxInt, ref : Refs]

LayersOfScopes ==
  \A i \in DOMAIN layers : \E j \in DOMAIN scopes :
    layers[i].name = scopes[j].name /\ layers[i].prio = scopes[j].prio

Ran == rpc \in {"load", "clone"} \/ answer = "ok" \/ answer \in StackErrors

NameIsFree == Ran /\ defaults => \A j \in DOMAIN scopes : scopes[j].name # DefaultsName

Answered ==
  /\ answer = "ok" => NewStack(AllLayers) = [err |-> "none", layers |-> stack]
  /\ answer \in StackErrors => NewStack(AllLayers).err = answer
  /\ answer # "none" => rpc = "done"

ScopesSeen ==
  rpc \in {"load", "clone"} \/ answer = "ok" =>
    \A i \in DOMAIN scopes :
      (i < todo \/ answer = "ok") /\ KeyFor(scopes[i]) \in present =>
         \E j \in DOMAIN layers : layers[j].key = KeyFor(scopes[i])

StillThere == present \subseteq {k \in Keys : Has(k)}

Fresh == rpc = "idle" => todo = 1

StackInv ==
  /\ ReaderInv
  /\ Fresh
  /\ LayersOfScopes
  /\ NameIsFree
  /\ Answered
  /\ ScopesSeen
  /\ StillThere

LEMMA StackInit == ResolveInit => StackInv
<1> SUFFICES ASSUME ResolveInit PROVE StackInv
  OBVIOUS
<1>1. ReaderInv
  BY ReaderInit
<1>2. LayersOfScopes /\ NameIsFree /\ Answered /\ ScopesSeen /\ StillThere /\ Fresh
  BY DEF ResolveInit, Fresh, LayersOfScopes, NameIsFree, Answered, ScopesSeen, StillThere, Ran, StackErrors
<1> QED BY <1>1, <1>2 DEF StackInv

(* The scope the reader is at.                                             *)
LEMMA AtScope ==
  ASSUME ReaderInv, todo <= Len(scopes)
  PROVE  /\ todo \in DOMAIN scopes /\ scopes[todo] \in Scopes
         /\ \A i \in DOMAIN scopes : i < todo + 1 => i < todo \/ i = todo
<1>1. scopes \in Seq(Scopes) /\ todo \in Nat \ {0}
  BY RequestsAssumption DEF ReaderInv, ReaderType, Scopes
<1> QED BY <1>1

LEMMA StackStep ==
  ASSUME SharedInv, StackInv, [ResolveNext]_rall
  PROVE  StackInv'
<1>1. ReaderInv' /\ ReaderInv
  BY ReaderStep DEF StackInv
<1>2. scopes \in Seq(Scopes) /\ todo \in Nat \ {0} /\ layers \in Seq(Layers)
  BY <1>1, RequestsAssumption DEF ReaderInv, ReaderType, Scopes
<1>0. UNCHANGED vars /\ present' = present => StillThere'
  BY DEF StackInv, StillThere, Has, vars
<1>3. CASE UNCHANGED rvars
  <2>1. \A k \in Keys : Has(k) => Has(k)'
    BY StoreSteps, RecordsStay
  <2>2. StillThere'
    BY <1>3, <2>1 DEF StackInv, StillThere, rvars
  <2>3. LayersOfScopes' /\ NameIsFree' /\ Answered' /\ ScopesSeen' /\ Fresh'
    BY <1>3 DEF StackInv, Fresh, LayersOfScopes, NameIsFree, Answered, ScopesSeen, Ran, AllLayers,
       DefaultsLayer, rvars
  <2> QED BY <1>1, <2>2, <2>3 DEF StackInv
<1>4. CASE UNCHANGED vars /\ (RRejects \/ RLoadFails)
  <2>1. /\ rpc' = "done" /\ answer' \in {"reserved", "no scopes", "load"}
        /\ UNCHANGED <<scopes, defaults, todo, layers, present, stack>>
    BY <1>4 DEF RRejects, RLoadFails, RAnswer
  <2>2. LayersOfScopes' /\ NameIsFree' /\ Answered' /\ ScopesSeen' /\ Fresh'
    BY <2>1 DEF StackInv, LayersOfScopes, NameIsFree, Answered, ScopesSeen, Ran, StackErrors, Fresh
  <2> QED BY <1>0, <1>1, <1>4, <2>1, <2>2 DEF StackInv
<1>5. CASE UNCHANGED vars /\ RBegin
  <2>1. /\ rpc = "idle" /\ rpc' = "load" /\ present' = {k \in Keys : Has(k)}
        /\ defaults => \A i \in DOMAIN scopes : scopes[i].name # DefaultsName
        /\ UNCHANGED <<scopes, defaults, todo, layers, answer, stack>>
    BY <1>5 DEF RBegin
  <2>2. answer = "none" /\ todo = 1
    BY <2>1 DEF StackInv, Answered, Fresh
  <2>3. LayersOfScopes' /\ NameIsFree' /\ Answered' /\ Fresh'
    BY <2>1, <2>2 DEF StackInv, LayersOfScopes, NameIsFree, Answered, StackErrors, Fresh
  <2>4. ScopesSeen'
    <3>1. \A i \in DOMAIN scopes : ~(i < 1)
      BY <1>2
    <3> QED BY <2>1, <2>2, <3>1 DEF ScopesSeen
  <2>5. StillThere'
    BY <1>5, <2>1 DEF StillThere, Has, vars
  <2> QED BY <1>1, <2>3, <2>4, <2>5 DEF StackInv
<1>6. CASE UNCHANGED vars /\ RSkip
  <2>1. /\ rpc = "load" /\ rpc' = "load" /\ todo <= Len(scopes) /\ ~Has(KeyFor(scopes[todo]))
        /\ todo' = todo + 1 /\ UNCHANGED <<scopes, defaults, layers, answer, stack, present>>
    BY <1>6 DEF RSkip
  <2>2. LayersOfScopes' /\ NameIsFree' /\ Answered' /\ Fresh'
    BY <2>1 DEF StackInv, LayersOfScopes, NameIsFree, Answered, AllLayers, DefaultsLayer, Ran, Fresh
  <2>3. KeyFor(scopes[todo]) \notin present
    BY <2>1 DEF StackInv, StillThere
  <2>4. answer = "none"
    BY <2>1 DEF StackInv, Answered
  <2>5. \A i \in DOMAIN scopes : i < todo + 1 => i < todo \/ i = todo
    BY <1>1, <2>1, AtScope
  <2>6. ScopesSeen'
    BY <2>1, <2>3, <2>4, <2>5 DEF StackInv, ScopesSeen, KeyFor
  <2> QED BY <1>0, <1>1, <1>6, <2>1, <2>2, <2>6 DEF StackInv
<1>7. CASE UNCHANGED vars /\ RLoad
  <2> DEFINE s == scopes[todo]
             l == [name |-> s.name, prio |-> s.prio, key |-> KeyFor(s), cell |-> rec[KeyFor(s)].cell,
                   snap |-> {}, sid |-> rec[KeyFor(s)].sid]
  <2>1. /\ rpc = "load" /\ rpc' = "clone" /\ todo <= Len(scopes) /\ layers' = Append(layers, l)
        /\ todo' = todo + 1 /\ UNCHANGED <<scopes, defaults, answer, stack, present>>
    BY <1>7 DEF RLoad
  <2>2. /\ l.name = s.name /\ l.prio = s.prio /\ l.key = KeyFor(s)
    OBVIOUS
  <2>3. /\ todo \in DOMAIN scopes
        /\ \A i \in DOMAIN scopes : i < todo + 1 => i < todo \/ i = todo
    BY <1>1, <2>1, AtScope
  <2> HIDE DEF l
  <2>4. /\ DOMAIN layers' = DOMAIN layers \cup {Len(layers) + 1}
        /\ layers'[Len(layers) + 1] = l /\ \A i \in DOMAIN layers : layers'[i] = layers[i]
    BY <1>2, <2>1
  <2>5. answer = "none"
    BY <2>1 DEF StackInv, Answered
  <2>6. NameIsFree' /\ Answered' /\ Fresh'
    BY <2>1, <2>5 DEF StackInv, NameIsFree, Answered, Ran, Fresh, StackErrors
  <2>7. LayersOfScopes'
    BY <2>1, <2>2, <2>3, <2>4 DEF StackInv, LayersOfScopes
  <2>8. ScopesSeen'
    <3> SUFFICES ASSUME NEW i \in DOMAIN scopes, i < todo + 1, KeyFor(scopes[i]) \in present
                 PROVE  \E j \in DOMAIN layers' : layers'[j].key = KeyFor(scopes[i])
      BY <2>1, <2>5 DEF ScopesSeen, KeyFor
    <3>1. CASE i < todo
      BY <2>1, <2>4, <3>1 DEF StackInv, ScopesSeen
    <3>2. CASE i = todo
      BY <2>2, <2>4, <3>2
    <3> QED BY <2>3, <3>1, <3>2
  <2> QED BY <1>0, <1>1, <1>7, <2>1, <2>6, <2>7, <2>8 DEF StackInv
<1>8. CASE UNCHANGED vars /\ RClone
  <2>1. /\ rpc = "clone" /\ rpc' = "load"
        /\ UNCHANGED <<scopes, defaults, todo, answer, stack, present>>
    BY <1>8 DEF RClone
  <2>2. /\ DOMAIN layers' = DOMAIN layers
        /\ \A i \in DOMAIN layers : /\ layers'[i].name = layers[i].name
                                    /\ layers'[i].prio = layers[i].prio
                                    /\ layers'[i].key = layers[i].key
    <3>1. Clones
      BY <1>8 DEF RClone, Clones, Pending
    <3>2. /\ layers' \in Seq(Layers) /\ Len(layers') = Len(layers)
          /\ \A i \in 1..Len(layers) : i # Len(layers) => layers'[i] = layers[i]
          /\ layers'[Len(layers)] = [Pending EXCEPT !.snap = heap[Pending.cell]]
          /\ Pending \in Layers
      BY <1>1, <3>1, CloneStep
    <3>3. DOMAIN layers' = DOMAIN layers /\ DOMAIN layers = 1..Len(layers)
      BY <1>2, <3>2
    <3>4. \A l \in Layers : \A m : m = [l EXCEPT !.snap = heap[l.cell]] =>
            m.name = l.name /\ m.prio = l.prio /\ m.key = l.key
      BY DEF Layers
    <3>5. LET m == layers'[Len(layers)]
          IN  m.name = Pending.name /\ m.prio = Pending.prio /\ m.key = Pending.key
      BY <3>2, <3>4
    <3> QED BY <3>2, <3>3, <3>5 DEF Pending
  <2>3. answer = "none"
    BY <2>1 DEF StackInv, Answered
  <2>4. NameIsFree' /\ Answered' /\ Fresh'
    BY <2>1, <2>3 DEF StackInv, NameIsFree, Answered, Ran, Fresh, StackErrors
  <2>5. LayersOfScopes' /\ ScopesSeen'
    BY <2>1, <2>2 DEF StackInv, LayersOfScopes, ScopesSeen, KeyFor
  <2> QED BY <1>0, <1>1, <1>8, <2>1, <2>4, <2>5 DEF StackInv
<1>9. CASE UNCHANGED vars /\ RStack
  <2> DEFINE built == NewStack(AllLayers)
  <2>1. /\ rpc = "load" /\ rpc' = "done" /\ todo > Len(scopes)
        /\ UNCHANGED <<scopes, defaults, todo, layers, present>>
        /\ \/ answer' = "no layers"
           \/ /\ answer' = IF built.err = "none" THEN "ok" ELSE built.err
              /\ stack' = built.layers
    BY <1>9 DEF RStack, RAnswer
  <2>2. /\ built = [err |-> built.err, layers |-> built.layers]
        /\ built.err \in StackErrors \cup {"none"}
    BY DEF NewStack, NameError, StackErrors
  <2>3. AllLayers' = AllLayers
    BY <2>1 DEF AllLayers, DefaultsLayer
  <2> HIDE DEF built
  <2>4. Answered'
    <3>1. NewStack(AllLayers)' = built
      BY <2>3 DEF built
    <3>2. answer' = "ok" => built.err = "none" /\ stack' = built.layers
      BY <2>1, <2>2 DEF StackErrors
    <3>3. answer' \in StackErrors => built.err = answer'
      BY <2>1, <2>2 DEF StackErrors
    <3>4. answer' = "ok" => built = [err |-> "none", layers |-> stack']
      BY <2>2, <3>2
    <3> QED BY <2>1, <3>1, <3>3, <3>4 DEF Answered
  <2>5. LayersOfScopes' /\ NameIsFree' /\ Fresh'
    BY <2>1 DEF StackInv, LayersOfScopes, NameIsFree, Ran, Fresh
  <2>6. ScopesSeen'
    <3>1. \A i \in DOMAIN scopes : i < todo
      <4>1. DOMAIN scopes = 1..Len(scopes) /\ Len(scopes) \in Nat
        BY <1>2
      <4>2. todo \in Nat /\ todo > Len(scopes)
        BY <1>2, <2>1
      <4> QED BY <4>1, <4>2
    <3> QED BY <2>1, <3>1 DEF StackInv, ScopesSeen, KeyFor
  <2> QED BY <1>0, <1>1, <1>9, <2>1, <2>4, <2>5, <2>6 DEF StackInv
<1> QED BY <1>3, <1>4, <1>5, <1>6, <1>7, <1>8, <1>9
        DEF ResolveNext, Reader, RStep, rall

LEMMA StackAlways == ResolveSpec => [](SharedInv /\ StackInv)
<1>1. ResolveInit => SharedInv /\ StackInv
  BY SharedInit, StackInit DEF ResolveInit
<1>2. SharedInv /\ StackInv /\ [ResolveNext]_rall => (SharedInv /\ StackInv)'
  BY StoreSteps, SharedStep, StackStep
<1> QED BY <1>1, <1>2, PTL DEF ResolveSpec, rall

-----------------------------------------------------------------------------
(* The layers a stack is built from: those loaded, and the defaults below  *)
(* them, under a name and with a priority none of them has.                *)
Stackable == Layers \cup {DefaultsLayer}

LEMMA DefaultsLayerIs ==
  ASSUME StackInv
  PROVE  /\ DefaultsLayer.name = DefaultsName
         /\ DefaultsLayer.prio \in (MinInt..MaxInt) \ Priorities(scopes)
         /\ MinInt \notin Priorities(scopes) =>
              \A p \in Priorities(scopes) : DefaultsLayer.prio < p
<1>1. scopes \in Seq(Scopes) /\ Priorities(scopes) # MinInt..MaxInt
  BY RequestsAssumption DEF StackInv, ReaderInv, ReaderType, Scopes
<1>2. /\ DefaultsPriority(scopes) \in (MinInt..MaxInt) \ Priorities(scopes)
      /\ MinInt \notin Priorities(scopes) =>
           \A p \in Priorities(scopes) : DefaultsPriority(scopes) < p
  BY <1>1, DefaultsAreFree DEF Scopes
<1> QED BY <1>2 DEF DefaultsLayer

LEMMA AllLayersAre ==
  ASSUME StackInv
  PROVE  /\ layers \in Seq(Stackable)
         /\ AllLayers \in Seq(Stackable)
         /\ \A l \in Stackable : l.prio \in Int
<1>1. layers \in Seq(Layers)
  BY DEF StackInv, ReaderInv, ReaderType
<1>2. \A l \in Stackable : l.prio \in Int
  <2>1. \A l \in Layers : l.prio \in Int
    BY IntRange DEF Layers
  <2>2. DefaultsLayer.prio \in Int
    BY DefaultsLayerIs, IntRange
  <2> QED BY <2>1, <2>2 DEF Stackable
<1>3. Layers \subseteq Stackable /\ DefaultsLayer \in Stackable
  BY DEF Stackable
<1>4. layers \in Seq(Stackable)
  BY <1>1, <1>3
<1>5. AllLayers \in Seq(Stackable)
  BY <1>3, <1>4 DEF AllLayers
<1> QED BY <1>2, <1>4, <1>5

LEMMA LoadedLayersAre ==
  ASSUME StackInv, NEW i \in DOMAIN layers
  PROVE  /\ layers[i].prio \in Priorities(scopes)
         /\ layers[i].prio \in Int
         /\ Ran /\ defaults => layers[i].name # DefaultsName
<1>1. /\ layers[i].prio \in Priorities(scopes)
      /\ Ran /\ defaults => layers[i].name # DefaultsName
  BY DEF StackInv, LayersOfScopes, NameIsFree, Priorities
<1>2. layers[i].prio \in Int
  BY AllLayersAre
<1> QED BY <1>1, <1>2

(* What a Resolve returns lists every layer it loaded, and the defaults if *)
(* it has them, strictly from the strongest down, and no two of one name   *)
(* (scope_stack.go 136-163).                                               *)
THEOREM StackIsOrdered == ResolveSpec => []StackOrdered
<1>1. SharedInv /\ StackInv => StackOrdered
  <2> SUFFICES ASSUME StackInv, answer = "ok"
               PROVE  /\ \A i, j \in DOMAIN stack : i < j => stack[i].prio > stack[j].prio
                      /\ \A i, j \in DOMAIN stack : i # j => stack[i].name # stack[j].name
                      /\ Elements(stack) = Elements(AllLayers)
    BY DEF StackOrdered, Elements
  <2>1. NewStack(AllLayers).err = "none" /\ stack = NewStack(AllLayers).layers
    BY DEF StackInv, Answered
  <2>2. AllLayers \in Seq(Stackable) /\ \A l \in Stackable : l.prio \in Int
    BY AllLayersAre
  <2> HIDE DEF Stackable
  <2> QED BY <2>1, <2>2, StackIs
<1> QED BY <1>1, StackAlways, PTL

(* Under ResolveWithDefaults the defaults are never why a request fails,   *)
(* whatever its priorities, and they are the last of the stack unless a    *)
(* scope has the least of all ints as its priority (types.go 108-129).     *)
THEOREM DefaultsFit == ResolveSpec => []DefaultsFitAnyRequest
<1>1. ASSUME StackInv, answer = "ok", defaults, MinInt \notin Priorities(scopes)
      PROVE  stack[Len(stack)].name = DefaultsName
  <2>1. NewStack(AllLayers).err = "none" /\ stack = NewStack(AllLayers).layers
    BY <1>1 DEF StackInv, Answered
  <2>2. AllLayers \in Seq(Stackable) /\ \A l \in Stackable : l.prio \in Int
    BY <1>1, AllLayersAre
  <2>3. /\ stack \in Seq(Stackable) /\ Len(stack) = Len(AllLayers)
        /\ \A i, j \in DOMAIN stack : i < j => stack[i].prio > stack[j].prio
        /\ Elements(stack) = Elements(AllLayers)
    <3> HIDE DEF Stackable
    <3> QED BY <2>1, <2>2, StackIs
  <2>4. AllLayers = Append(layers, DefaultsLayer) /\ layers \in Seq(Stackable)
    BY <1>1, AllLayersAre DEF AllLayers
  <2>5. Elements(AllLayers) = Elements(layers) \cup {DefaultsLayer}
    BY <2>4 DEF Elements
  <2>6. \A e \in Elements(layers) : e.prio > DefaultsLayer.prio
    <3>1. DefaultsLayer.prio \in Int
      BY <1>1, DefaultsLayerIs, IntRange
    <3> QED BY <1>1, <3>1, DefaultsLayerIs, LoadedLayersAre DEF Elements
  <2>7. PICK k \in DOMAIN stack : stack[k] = DefaultsLayer
    BY <2>3, <2>5 DEF Elements
  <2>8. Len(stack) \in DOMAIN stack /\ k \in 1..Len(stack)
    BY <2>3, <2>7
  <2>9. stack[Len(stack)] \in Elements(layers) \cup {DefaultsLayer}
    BY <2>3, <2>5, <2>8 DEF Elements
  <2>10. DefaultsLayer.prio \in Int /\ stack[Len(stack)].prio \in Int
    BY <1>1, <2>2, <2>3, <2>8, DefaultsLayerIs, IntRange
  <2>11. ~(k < Len(stack))
    BY <2>3, <2>6, <2>7, <2>8, <2>9, <2>10
  <2>12. k = Len(stack)
    BY <2>8, <2>11
  <2> QED BY <1>1, <2>7, <2>12, DefaultsLayerIs
<1>2. ASSUME StackInv, answer \in StackErrors
      PROVE  NewStack(layers).err = answer
  <2>1. NewStack(AllLayers).err = answer
    BY <1>2 DEF StackInv, Answered
  <2>2. CASE ~defaults
    BY <2>1, <2>2 DEF AllLayers
  <2>3. CASE defaults
    <3> DEFINE n == Len(layers)
               all == AllLayers
    <3>1. /\ n \in Nat /\ DOMAIN layers = 1..n /\ DOMAIN all = 1..(n + 1)
          /\ all[n + 1] = DefaultsLayer /\ \A i \in 1..n : all[i] = layers[i]
      BY <1>2, <2>3, AllLayersAre DEF AllLayers
    <3>2. /\ DefaultsLayer.name = DefaultsName /\ DefaultsName # NoName
          /\ \A i \in 1..n : layers[i].name # DefaultsName /\ layers[i].prio # DefaultsLayer.prio
      BY <1>2, <2>3, <3>1, DefaultsLayerIs, LoadedLayersAre DEF Ran, DefaultsName, NoName
    <3> HIDE DEF all, n
    <3>3. Unacceptable(all) = Unacceptable(layers) /\ Unacceptable(layers) \in SUBSET (1..n)
      <4>1. ASSUME NEW i \in 1..n
            PROVE  i \in Unacceptable(all) <=> i \in Unacceptable(layers)
        BY <3>1 DEF Unacceptable, Repeats
      <4>2. n + 1 \notin Unacceptable(all)
        BY <3>1, <3>2 DEF Unacceptable, Repeats
      <4>3. Unacceptable(all) \subseteq 1..(n + 1) /\ Unacceptable(layers) \subseteq 1..n
        BY <3>1 DEF Unacceptable
      <4>4. \A i \in 1..(n + 1) : i \in 1..n \/ i = n + 1
        BY <3>1
      <4> HIDE DEF Unacceptable
      <4>5. \A i : i \in Unacceptable(all) <=> i \in Unacceptable(layers)
        BY <4>1, <4>2, <4>3, <4>4
      <4> QED BY <4>3, <4>5
    <3>4. Tied(all) <=> Tied(layers)
      BY <3>1, <3>2 DEF Tied
    <3>5. Unacceptable(layers) # {} => NameError(all) = NameError(layers)
      <4> SUFFICES ASSUME Unacceptable(layers) # {} PROVE NameError(all) = NameError(layers)
        OBVIOUS
      <4>1. First(Unacceptable(layers)) \in 1..n
        BY <3>1, <3>3, FirstIs
      <4> QED BY <3>1, <3>3, <4>1 DEF NameError
    <3>6. NewStack(all).err = NewStack(layers).err
      BY <3>3, <3>4, <3>5 DEF NewStack
    <3> QED BY <2>1, <3>6 DEF all
  <2> QED BY <2>2, <2>3
<1>3. SharedInv /\ StackInv => DefaultsFitAnyRequest
  BY <1>1, <1>2 DEF DefaultsFitAnyRequest, DefaultsAreWeakest
<1> QED BY <1>3, StackAlways, PTL

(* A scope whose key held a record when Resolve was called has a layer in  *)
(* what it returns, whatever is saved meanwhile (types.go 67-89).          *)
THEOREM NoScopeIsDropped == ResolveSpec => []NoScopeDropped
<1>1. SharedInv /\ StackInv => NoScopeDropped
  <2> SUFFICES ASSUME StackInv, answer = "ok", NEW i \in DOMAIN scopes,
                      KeyFor(scopes[i]) \in present
               PROVE  \E j \in DOMAIN stack : stack[j].key = KeyFor(scopes[i])
    BY DEF NoScopeDropped
  <2>1. PICK j \in DOMAIN layers : layers[j].key = KeyFor(scopes[i])
    BY DEF StackInv, ScopesSeen
  <2>2. layers[j] \in Elements(AllLayers)
    <3>1. layers \in Seq(Stackable)
      BY AllLayersAre
    <3>2. j \in DOMAIN AllLayers /\ AllLayers[j] = layers[j]
      BY <3>1 DEF AllLayers
    <3> QED BY <3>2 DEF Elements
  <2>3. Elements(stack) = Elements(AllLayers)
    <3>1. NewStack(AllLayers).err = "none" /\ stack = NewStack(AllLayers).layers
      BY DEF StackInv, Answered
    <3>2. AllLayers \in Seq(Stackable) /\ \A l \in Stackable : l.prio \in Int
      BY AllLayersAre
    <3> HIDE DEF Stackable
    <3> QED BY <3>1, <3>2, StackIs
  <2>4. \E k \in DOMAIN stack : stack[k] = layers[j]
    BY <2>2, <2>3 DEF Elements
  <2> QED BY <2>1, <2>4
<1> QED BY <1>1, StackAlways, PTL

-----------------------------------------------------------------------------
NoSlash(text) == \A i \in 1..Len(text) : text[i] # Slash

LEMMA SameText ==
  ASSUME NEW S, NEW s \in Seq(S), NEW t \in Seq(S), Len(s) = Len(t),
         \A i \in 1..Len(s) : s[i] = t[i]
  PROVE  s = t
  OBVIOUS

(* What comes before the first slash, and after it, can be told.           *)
LEMMA FirstSlash ==
  ASSUME NEW Chars, Slash \in Chars, NEW a \in Seq(Chars), NEW b \in Seq(Chars),
         NEW c \in Seq(Chars), NEW d \in Seq(Chars), NoSlash(a), NoSlash(c),
         a \o <<Slash>> \o b = c \o <<Slash>> \o d
  PROVE  a = c /\ b = d
<1> DEFINE l == a \o <<Slash>> \o b
           r == c \o <<Slash>> \o d
<1>1. /\ Len(l) = Len(a) + 1 + Len(b) /\ Len(r) = Len(c) + 1 + Len(d)
      /\ Len(a) \in Nat /\ Len(b) \in Nat /\ Len(c) \in Nat /\ Len(d) \in Nat
  OBVIOUS
<1>2. /\ \A i \in 1..Len(a) : l[i] = a[i]
      /\ l[Len(a) + 1] = Slash
      /\ \A i \in 1..Len(b) : l[Len(a) + 1 + i] = b[i]
  OBVIOUS
<1>3. /\ \A i \in 1..Len(c) : r[i] = c[i]
      /\ r[Len(c) + 1] = Slash
      /\ \A i \in 1..Len(d) : r[Len(c) + 1 + i] = d[i]
  OBVIOUS
<1>4. l = r
  OBVIOUS
<1> HIDE DEF l, r
<1>5. Len(a) = Len(c)
  <2>1. ~(Len(a) < Len(c))
    BY <1>1, <1>2, <1>3, <1>4 DEF NoSlash
  <2>2. ~(Len(c) < Len(a))
    BY <1>1, <1>2, <1>3, <1>4 DEF NoSlash
  <2> QED BY <1>1, <2>1, <2>2
<1>6. Len(b) = Len(d)
  BY <1>1, <1>4, <1>5
<1>7. \A i \in 1..Len(a) : a[i] = c[i]
  BY <1>2, <1>3, <1>4, <1>5
<1>8. \A i \in 1..Len(b) : b[i] = d[i]
  BY <1>2, <1>3, <1>4, <1>5, <1>6
<1>9. a = c
  BY <1>5, <1>7, SameText
<1>10. b = d
  BY <1>6, <1>8, SameText
<1> QED BY <1>9, <1>10

(* Refs whose ids have no slash have different keys unless they are of one *)
(* scope and one domain, whatever the domains are (types.go:43-61).        *)
THEOREM KeysTellApart ==
  ASSUME NEW Chars, Slash \in Chars, Entities \cup {"system"} \subseteq Chars, NEW refs,
         \A r \in refs : r.id \in Seq(Chars) /\ r.domain \in Seq(Chars) /\ NoSlash(r.id)
  PROVE  TellsApart(refs)
<1> SUFFICES ASSUME NEW r \in refs, NEW s \in refs, Identifier(r) # NoIdentifier,
                    Identifier(r) = Identifier(s)
             PROVE  SameRecord(r, s)
  BY DEF TellsApart
<1> DEFINE rest(x) == x.id \o <<Slash>> \o x.domain
<1>1. \A x \in refs :
        /\ x.name = "system" => Identifier(x) = <<"system", Slash>> \o x.domain
        /\ x.name \in Entities /\ x.id # NoText => Identifier(x) = <<x.name, Slash>> \o rest(x)
        /\ x.name # "system" /\ ~(x.name \in Entities /\ x.id # NoText)
             => Identifier(x) = NoIdentifier
  BY DEF Identifier, Entities
<1>2. ASSUME NEW p \in Chars, NEW q \in Chars, NEW t \in Seq(Chars), NEW u \in Seq(Chars),
             <<p, Slash>> \o t = <<q, Slash>> \o u
      PROVE  p = q /\ t = u
  <2>1. (<<p, Slash>> \o t)[1] = p /\ (<<q, Slash>> \o u)[1] = q
    OBVIOUS
  <2>2. /\ Len(<<p, Slash>> \o t) = 2 + Len(t) /\ Len(<<q, Slash>> \o u) = 2 + Len(u)
        /\ \A i \in 1..Len(t) : (<<p, Slash>> \o t)[2 + i] = t[i]
        /\ \A i \in 1..Len(u) : (<<q, Slash>> \o u)[2 + i] = u[i]
    OBVIOUS
  <2>3. Len(t) = Len(u) /\ \A i \in 1..Len(t) : t[i] = u[i]
    BY <1>2, <2>2
  <2> QED BY <1>2, <2>1, <2>3
<1>3. rest(r) \in Seq(Chars) /\ rest(s) \in Seq(Chars)
  OBVIOUS
<1>4. CASE r.name = "system" /\ s.name = "system"
  <2>1. <<"system", Slash>> \o r.domain = <<"system", Slash>> \o s.domain
    BY <1>1, <1>4
  <2>2. r.domain = s.domain
    BY <1>2, <2>1
  <2> QED BY <1>4, <2>2 DEF SameRecord
<1>5. CASE r.name \in Entities /\ r.id # NoText /\ s.name \in Entities /\ s.id # NoText
  <2>1. r.name = s.name /\ rest(r) = rest(s)
    <3> HIDE DEF rest
    <3>1. <<r.name, Slash>> \o rest(r) = <<s.name, Slash>> \o rest(s)
      BY <1>1, <1>5
    <3>2. r.name \in Chars /\ s.name \in Chars
      BY <1>5
    <3> QED BY <1>2, <1>3, <3>1, <3>2
  <2>2. r.id = s.id /\ r.domain = s.domain
    BY <2>1, FirstSlash
  <2> QED BY <2>1, <2>2 DEF SameRecord
<1>6. ASSUME NEW x \in refs, NEW y \in refs, x.name = "system",
             y.name \in Entities, y.id # NoText, Identifier(x) = Identifier(y)
      PROVE  FALSE
  <2>1. "system" \notin Entities /\ y.name \in Chars /\ "system" \in Chars
    BY <1>6 DEF Entities
  <2>2. rest(y) \in Seq(Chars)
    OBVIOUS
  <2> HIDE DEF rest
  <2>3. <<"system", Slash>> \o x.domain = <<y.name, Slash>> \o rest(y)
    BY <1>1, <1>6
  <2>4. y.name = "system"
    BY <1>2, <2>1, <2>2, <2>3
  <2> QED BY <1>6, <2>1, <2>4
<1> QED BY <1>1, <1>4, <1>5, <1>6

-----------------------------------------------------------------------------
(* Every cell belongs to one key: a seeded one to its own, that of a call  *)
(* to the key the call works under.                                        *)
KeyOfCell(x) == IF x \in Keys THEN x ELSE Key(x)

WrittenUnder(k) == {d \in Calls : Key(d) \in Keys /\ Key(d) = k}

CellsKeyed == \A x \in Cells : heap[x] \subseteq WrittenUnder(KeyOfCell(x))

RecordsKeyed == \A k \in Keys : Has(k) => KeyOfCell(rec[k].cell) = k

CallsKeyed ==
  \A c \in Calls :
    /\ KeyOfCell(snap[c]) = Key(c)
    /\ base[c] \cup result[c] \subseteq WrittenUnder(Key(c))

KeyedInv == CellsKeyed /\ RecordsKeyed /\ CallsKeyed

LEMMA KeyedInit == Init => KeyedInv
  BY StoreAssumption DEF Init, KeyedInv, CellsKeyed, RecordsKeyed, CallsKeyed, KeyOfCell, Has,
     NoRecord, Cells, Key

LEMMA KeysStay ==
  ASSUME ref' = ref
  PROVE  /\ \A c \in Calls : Key(c)' = Key(c)
         /\ \A x : KeyOfCell(x)' = KeyOfCell(x)
         /\ \A k : WrittenUnder(k)' = WrittenUnder(k)
<1>1. \A c : Key(c)' = Key(c)
  BY DEF Key
<1> QED BY <1>1 DEF KeyOfCell, WrittenUnder

LEMMA ContentKeyed ==
  ASSUME SharedInv, KeyedInv, NEW k \in Keys
  PROVE  Content(k) \subseteq WrittenUnder(k)
<1>1. CASE Has(k)
  <2>1. rec[k].cell \in Cells
    BY <1>1 DEF SharedInv, TypeOK, Record, Has
  <2> QED BY <1>1, <2>1 DEF KeyedInv, CellsKeyed, RecordsKeyed, Content
<1>2. CASE ~Has(k)
  BY <1>2 DEF Content
<1> QED BY <1>1, <1>2

(* A step of c keeps the cells and the records apart when what it puts     *)
(* into a cell was written under the key of the cell.                      *)
LEMMA KeyedMove ==
  ASSUME SharedInv, KeyedInv, ref' = ref, NEW c \in Calls,
         \/ rec' = rec
         \/ \E r : r.cell = snap[c] /\ rec' = [rec EXCEPT ![Key(c)] = r],
         \/ heap' = heap
         \/ \E x \in Cells : \E s :
              heap' = [heap EXCEPT ![x] = s] /\ s \subseteq WrittenUnder(KeyOfCell(x)),
         snap' = snap \/ \E x : snap' = [snap EXCEPT ![c] = x] /\ KeyOfCell(x) = Key(c),
         base' = base \/ \E s : base' = [base EXCEPT ![c] = s] /\ s \subseteq WrittenUnder(Key(c)),
         result' = result \/ result' = [result EXCEPT ![c] = heap[snap[c]]]
  PROVE  KeyedInv'
<1>1. TypeOK
  BY DEF SharedInv
<1>2. /\ \A d \in Calls : Key(d)' = Key(d)
      /\ \A x : KeyOfCell(x)' = KeyOfCell(x)
      /\ \A k : WrittenUnder(k)' = WrittenUnder(k)
  BY KeysStay
<1>3. /\ \A x \in Cells : heap[x] \subseteq WrittenUnder(KeyOfCell(x))
      /\ \A k \in Keys : rec[k].cell # NoCell => KeyOfCell(rec[k].cell) = k
      /\ \A d \in Calls : KeyOfCell(snap[d]) = Key(d)
                          /\ base[d] \cup result[d] \subseteq WrittenUnder(Key(d))
  BY DEF KeyedInv, CellsKeyed, RecordsKeyed, CallsKeyed, Has
<1>4. \A x \in Cells : heap'[x] \subseteq WrittenUnder(KeyOfCell(x))
  BY <1>1, <1>3 DEF TypeOK
<1>5. \A k \in Keys : rec'[k].cell # NoCell => KeyOfCell(rec'[k].cell) = k
  <2>1. CASE rec' = rec
    BY <1>3, <2>1
  <2>2. ASSUME NEW r, r.cell = snap[c], rec' = [rec EXCEPT ![Key(c)] = r]
        PROVE  \A k \in Keys : rec'[k].cell # NoCell => KeyOfCell(rec'[k].cell) = k
    <3>1. \A k \in Keys : rec'[k] = IF k = Key(c) THEN r ELSE rec[k]
      BY <1>1, <2>2 DEF TypeOK
    <3> QED BY <1>3, <2>2, <3>1
  <2> QED BY <2>1, <2>2
<1>6. \A d \in Calls : KeyOfCell(snap'[d]) = Key(d)
  BY <1>1, <1>3 DEF TypeOK
<1>7. \A d \in Calls : base'[d] \subseteq WrittenUnder(Key(d))
  BY <1>1, <1>3 DEF TypeOK
<1>8. \A d \in Calls : result'[d] \subseteq WrittenUnder(Key(d))
  <2>1. heap[snap[c]] \subseteq WrittenUnder(Key(c))
    BY <1>1, <1>3 DEF TypeOK
  <2> QED BY <1>1, <1>3, <2>1 DEF TypeOK
<1>9. CellsKeyed'
  BY <1>2, <1>4 DEF CellsKeyed, Cells
<1>10. RecordsKeyed'
  BY <1>2, <1>5 DEF RecordsKeyed, Has
<1>11. CallsKeyed'
  BY <1>2, <1>6, <1>7, <1>8 DEF CallsKeyed
<1> QED BY <1>9, <1>10, <1>11 DEF KeyedInv

LEMMA KeyedStep ==
  ASSUME SharedInv, KeyedInv, [Next]_vars
  PROVE  KeyedInv'
<1>1. TypeOK /\ ref' = ref
  BY StoredGrow DEF SharedInv
<1>2. \A c \in Calls : /\ KeyOfCell(c) = Key(c) /\ c \in Cells
                       /\ snap[c] \in Cells /\ KeyOfCell(snap[c]) = Key(c)
                       /\ heap[snap[c]] \subseteq WrittenUnder(Key(c))
  BY <1>1, StoreAssumption DEF KeyOfCell, Cells, KeyedInv, CellsKeyed, CallsKeyed, TypeOK
<1>3. \A c \in Calls : pc[c] \in Working => c \in WrittenUnder(Key(c))
  BY DEF SharedInv, SavedLate, WrittenUnder
<1>4. ASSUME NEW c \in Calls, Begin(c) \/ Reject(c) \/ LoadFails(c) \/ Validate(c)
                               \/ ValidateFails(c) \/ SaveConflict(c) \/ SaveFails(c)
      PROVE  UNCHANGED <<rec, heap, snap, base, result>>
  BY <1>4 DEF Begin, Reject, LoadFails, Validate, ValidateFails, SaveConflict, SaveFails,
     FailWith, store, args
<1>5. ASSUME NEW c \in Calls, LoadMissing(c)
      PROVE  /\ UNCHANGED <<rec, result>>
             /\ snap' = [snap EXCEPT ![c] = c] /\ heap' = [heap EXCEPT ![c] = {}]
             /\ base' = [base EXCEPT ![c] = {}]
  BY <1>5 DEF LoadMissing
<1>6. ASSUME NEW c \in Calls, LoadStale(c) \/ LoadFound(c)
      PROVE  UNCHANGED <<rec, result>> /\ Key(c) \in Keys /\ Has(Key(c)) /\ TakeSnapshot(c)
  BY <1>6 DEF LoadStale, LoadFound, FailWith
<1>7. ASSUME NEW c \in Calls, ApplyReplace(c)
      PROVE  /\ UNCHANGED <<rec, base, result>> /\ pc[c] \in Working
             /\ snap' = [snap EXCEPT ![c] = c]
             /\ heap' = [heap EXCEPT ![c] = heap[snap[c]] \cup {c}]
  BY <1>7 DEF ApplyReplace, Working
<1>8. ASSUME NEW c \in Calls, ApplyInPlace(c) \/ MutatorFails(c)
      PROVE  /\ UNCHANGED <<rec, snap, base, result>> /\ pc[c] \in Working
             /\ heap' = heap \/ heap' = [heap EXCEPT ![snap[c]] = heap[snap[c]] \cup {c}]
  BY <1>8, <1>1 DEF ApplyInPlace, MutatorFails, FailWith, Working, TypeOK
<1>9. ASSUME NEW c \in Calls, Save(c)
      PROVE  /\ UNCHANGED <<heap, snap, base, result>>
             /\ \E r : r.cell = snap[c] /\ rec' = [rec EXCEPT ![Key(c)] = r]
  <2>1. SavedRecord(c).cell = snap[c]
    BY DEF SavedRecord
  <2> QED BY <1>9, <2>1 DEF Save
<1>10. ASSUME NEW c \in Calls, Return(c)
       PROVE  UNCHANGED <<rec, heap, snap, base>> /\ result' = [result EXCEPT ![c] = heap[snap[c]]]
  BY <1>10 DEF Return, store, args
<1>11. ASSUME NEW c \in Calls, Begin(c) \/ Step(c) PROVE KeyedInv'
  <2>1. CASE Begin(c) \/ Reject(c) \/ LoadFails(c) \/ Validate(c)
               \/ ValidateFails(c) \/ SaveConflict(c) \/ SaveFails(c)
    BY <1>1, <1>4, <2>1, KeyedMove
  <2>2. CASE LoadMissing(c)
    <3>1. {} \subseteq WrittenUnder(KeyOfCell(c)) /\ {} \subseteq WrittenUnder(Key(c))
      OBVIOUS
    <3> QED BY <1>1, <1>2, <1>5, <2>2, <3>1, KeyedMove
  <2>3. CASE LoadStale(c) \/ LoadFound(c)
    <3>1. UNCHANGED <<rec, result>> /\ Key(c) \in Keys /\ Has(Key(c)) /\ TakeSnapshot(c)
      BY <1>6, <2>3
    <3>2. Content(Key(c)) \subseteq WrittenUnder(Key(c)) /\ KeyOfCell(rec[Key(c)].cell) = Key(c)
      BY <3>1, ContentKeyed DEF KeyedInv, RecordsKeyed
    <3>3. /\ heap' = heap \/ heap' = [heap EXCEPT ![c] = Content(Key(c))]
          /\ base' = [base EXCEPT ![c] = Content(Key(c))]
          /\ \E x : snap' = [snap EXCEPT ![c] = x] /\ KeyOfCell(x) = Key(c)
      BY <1>2, <3>1, <3>2 DEF TakeSnapshot
    <3>4. heap' = heap \/ \E x \in Cells : \E s :
             heap' = [heap EXCEPT ![x] = s] /\ s \subseteq WrittenUnder(KeyOfCell(x))
      BY <1>2, <3>2, <3>3
    <3> QED BY <1>1, <3>1, <3>2, <3>3, <3>4, KeyedMove
  <2>4. CASE ApplyReplace(c)
    <3>1. heap[snap[c]] \cup {c} \subseteq WrittenUnder(KeyOfCell(c))
      BY <1>2, <1>3, <1>7, <2>4
    <3> QED BY <1>1, <1>2, <1>7, <2>4, <3>1, KeyedMove
  <2>5. CASE ApplyInPlace(c) \/ MutatorFails(c)
    <3>1. heap[snap[c]] \cup {c} \subseteq WrittenUnder(KeyOfCell(snap[c]))
      BY <1>2, <1>3, <1>8, <2>5
    <3> QED BY <1>1, <1>2, <1>8, <2>5, <3>1, KeyedMove
  <2>6. CASE Save(c)
    BY <1>1, <1>9, <2>6, KeyedMove
  <2>7. CASE Return(c)
    BY <1>1, <1>10, <2>7, KeyedMove
  <2> QED BY <1>11, <2>1, <2>2, <2>3, <2>4, <2>5, <2>6, <2>7 DEF Step
<1>12. CASE UNCHANGED vars
  <2>1. UNCHANGED <<rec, heap, snap, base, result, ref>>
    BY <1>12 DEF vars
  <2> QED BY <2>1, KeysStay DEF KeyedInv, CellsKeyed, RecordsKeyed, CallsKeyed, Has, Cells
<1> QED BY <1>11, <1>12 DEF Next, Finished

(* The layers are of the keys they were loaded under.                      *)
LayersKeyed ==
  /\ rpc = "clone" => KeyOfCell(Pending.cell) = Pending.key
  /\ \A i \in 1..Cloned : layers[i].snap \subseteq WrittenUnder(layers[i].key)

LEMMA LayersKeyedStep ==
  ASSUME SharedInv, ReaderInv, KeyedInv, LayersKeyed, [ResolveNext]_rall
  PROVE  LayersKeyed'
<1>1. /\ \A x : KeyOfCell(x)' = KeyOfCell(x)
      /\ \A k : WrittenUnder(k)' = WrittenUnder(k)
  BY StoreSteps, StoredGrow, KeysStay
<1>2. ASSUME rpc' = "clone" PROVE KeyOfCell(Pending'.cell) = Pending'.key
  <2>1. CASE rpc = "clone" /\ Pending' = Pending
    BY <2>1 DEF LayersKeyed
  <2>2. CASE \E k \in Keys : Has(k) /\ Pending'.key = k /\ Pending'.cell = rec[k].cell
    BY <2>2 DEF KeyedInv, RecordsKeyed
  <2> QED BY <1>2, <2>1, <2>2, PendingStep
<1>3. ASSUME NEW i \in 1..Cloned' PROVE layers'[i].snap \subseteq WrittenUnder(layers'[i].key)
  <2>1. CASE i \in 1..Cloned /\ layers'[i] = layers[i]
    BY <2>1 DEF LayersKeyed
  <2>2. CASE /\ rpc = "clone" /\ Pending \in Layers
             /\ layers'[i] = [Pending EXCEPT !.snap = heap[Pending.cell]]
    <3>1. layers'[i].snap = heap[Pending.cell] /\ layers'[i].key = Pending.key
          /\ Pending.cell \in Cells
      BY <2>2 DEF Layers
    <3> QED BY <2>2, <3>1 DEF LayersKeyed, KeyedInv, CellsKeyed
  <2> QED BY <1>3, <2>1, <2>2, ClonedStep
<1>4. ASSUME rpc' = "clone" PROVE KeyOfCell(Pending.cell)' = Pending'.key
  BY <1>1, <1>2, <1>4
<1>5. ASSUME NEW i \in 1..Cloned' PROVE layers'[i].snap \subseteq WrittenUnder(layers[i].key)'
  BY <1>1, <1>3, <1>5
<1> QED BY <1>4, <1>5 DEF LayersKeyed

(* As long as the ids of the refs have no slash, what MemoryStore keeps    *)
(* for one scope and domain is read back for these only: by every Mutate,  *)
(* in what it returns, and by a Resolve.                                   *)
THEOREM NothingForeignIsRead ==
  ASSUME StoreKind = "memory",
         NEW Chars, Slash \in Chars, Entities \cup {"system"} \subseteq Chars,
         \A r \in Refs : /\ OwnerOf[r].id \in Seq(Chars) /\ OwnerOf[r].domain \in Seq(Chars)
                         /\ NoSlash(OwnerOf[r].id)
  PROVE  ResolveSpec => []NoForeignWrites
<1> DEFINE Inv == SharedInv /\ ReaderInv /\ KeyedInv /\ LayersKeyed
<1>1. ResolveInit => Inv
  BY SharedInit, ReaderInit, KeyedInit DEF ResolveInit, LayersKeyed, Cloned
<1>2. ASSUME Inv, [ResolveNext]_rall PROVE Inv'
  BY <1>2, StoreSteps, SharedStep, ReaderStep, KeyedStep, LayersKeyedStep
<1>3. ASSUME NEW r \in Refs, NEW s \in Refs, KeyOf[r] \in Keys, KeyOf[r] = KeyOf[s]
      PROVE  SameRecord(OwnerOf[r], OwnerOf[s])
  <2>1. /\ Identifier(OwnerOf[r]) # NoIdentifier
        /\ Identifier(OwnerOf[r]) = Identifier(OwnerOf[s])
    BY <1>3, StoreAssumption, OwnersAssumption
  <2> DEFINE owners == {OwnerOf[t] : t \in Refs}
  <2>2. \A o \in owners : o.id \in Seq(Chars) /\ o.domain \in Seq(Chars) /\ NoSlash(o.id)
    OBVIOUS
  <2>3. OwnerOf[r] \in owners /\ OwnerOf[s] \in owners
    OBVIOUS
  <2> HIDE DEF owners
  <2>4. TellsApart(owners)
    BY <2>2, KeysTellApart
  <2> QED BY <2>1, <2>3, <2>4 DEF TellsApart
<1>4. ASSUME Inv PROVE NoForeignWrites
  <2>1. ref \in [Calls -> Refs]
    BY <1>4 DEF SharedInv, TypeOK
  <2>2. ASSUME NEW c \in Calls, NEW d \in base[c] \cup result[c]
        PROVE  SameRecord(OwnerOf[ref[d]], OwnerOf[ref[c]])
    <3>1. d \in Calls /\ Key(d) \in Keys /\ Key(d) = Key(c)
      BY <1>4, <2>2 DEF KeyedInv, CallsKeyed, WrittenUnder
    <3> QED BY <1>3, <2>1, <3>1 DEF Key
  <2>3. ASSUME NEW i \in 1..Cloned, NEW j \in DOMAIN scopes, layers[i].key = KeyFor(scopes[j]),
               NEW d \in layers[i].snap
        PROVE  SameRecord(OwnerOf[ref[d]], OwnerOf[scopes[j].ref])
    <3>1. d \in Calls /\ Key(d) \in Keys /\ Key(d) = KeyFor(scopes[j])
      BY <1>4, <2>3 DEF LayersKeyed, WrittenUnder
    <3>2. scopes[j].ref \in Refs
      <4>1. scopes \in Seq(Scopes)
        BY <1>4, RequestsAssumption DEF ReaderInv, ReaderType, Scopes
      <4>2. scopes[j] \in Scopes
        BY <2>3, <4>1
      <4> QED BY <4>2 DEF Scopes
    <3> QED BY <1>3, <2>1, <3>1, <3>2 DEF Key, KeyFor
  <2> QED BY <2>2, <2>3 DEF NoForeignWrites
<1> HIDE DEF Inv
<1> QED BY <1>1, <1>2, <1>4, PTL DEF ResolveSpec, rall
=============================================================================
