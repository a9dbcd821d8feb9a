----------------------------- MODULE StateStore -----------------------------
(***************************************************************************)
(* Resolver.Mutate (pkg/state/types.go) run by concurrent callers over one *)
(* Store: the load - check - apply - validate - save - return sequence,    *)
(* one action per step between which another goroutine can run.            *)
(*                                                                         *)
(* A snapshot lives in a heap cell and is abstracted to the set of calls   *)
(* whose write it contains.  When T is a map or a pointer, MemoryStore.Load*)
(* hands out the stored cell itself (SharesCell); when T is a plain value, *)
(* or the store serialises, every Load and Save copies.                    *)
(*                                                                         *)
(* StoreKind is "memory" for MemoryStore, the store this repository ships, *)
(* and "cas" for the Store the interface is documented for: it stamps each *)
(* saved record with a fresh ETag, refuses a save whose ETag is not the    *)
(* current one, and can be down.                                           *)
(***************************************************************************)
EXTENDS Naturals

CONSTANTS
  Calls,       \* the Mutate calls, each made by a goroutine of its own
  Keys,        \* results of Ref.Identifier
  Refs,        \* the refs callers pass
  KeyOf,       \* Ref.Identifier, NoKey where it (or the store) has no key
  NoKey,
  Unnamed,     \* refs whose Scope.Name is empty
  NoDomain,    \* refs whose Domain is empty
  Seeded,      \* keys that hold a record from the start
  BadCalls,    \* calls whose write makes T's Validate fail
  StoreKind,   \* "memory" or "cas"
  SharesCell,  \* T is a reference type and Load does not copy
  NoCall,      \* the empty SnapshotID
  NoCell       \* no record under this key

ASSUME StoreAssumption ==
  /\ Calls \cap Keys = {}
  /\ NoKey \notin Keys
  /\ NoCall \notin Calls
  /\ NoCell \notin Calls \cup Keys
  /\ KeyOf \in [Refs -> Keys \cup {NoKey}]
  /\ Unnamed \subseteq Refs /\ NoDomain \subseteq Refs
  /\ Seeded \subseteq Keys
  /\ BadCalls \subseteq Calls
  /\ StoreKind \in {"memory", "cas"}
  /\ SharesCell \in BOOLEAN
  /\ SharesCell => StoreKind = "memory"

VARIABLES
  rec,      \* MemoryStore.records: the cell and the Meta under each key
  heap,     \* what each cell holds
  clock,    \* the last ETag an external store has handed out
  pc,       \* where each call is
  ref,      \* the ref argument
  meta,     \* the meta argument
  snap,     \* the local variable snapshot: a cell
  loaded,   \* the local variable loadedMeta
  outcome,  \* what the call returned: "none" while it runs
  result,   \* the value in the Options the call returned
  retmeta,  \* the Meta the call returned
  seen,     \* history: the snapshot when the caller read its ETag
  base,     \* history: the snapshot Load returned
  saved     \* history: the calls whose Save succeeded

store == <<rec, heap, clock>>
args  == <<ref, meta, seen>>
vars  == <<rec, heap, clock, pc, ref, meta, snap, loaded, outcome, result,
           retmeta, seen, base, saved>>

-----------------------------------------------------------------------------
(* The cell a call allocates is named after it, a seeded one after its key.*)
Cells     == Keys \cup Calls
Snapshots == SUBSET Calls

(* ETag 0 is the empty string; SnapshotID names the call that chose it.    *)
Meta      == [etag : Nat, sid : Calls \cup {NoCall}]
EmptyMeta == [etag |-> 0, sid |-> NoCall]
SeedTag   == 1

Record   == [cell : Cells \cup {NoCell}, etag : Nat, sid : Calls \cup {NoCall}]
NoRecord == [cell |-> NoCell, etag |-> 0, sid |-> NoCall]

Has(k)     == rec[k].cell # NoCell
MetaOf(k)  == [etag |-> rec[k].etag, sid |-> rec[k].sid]
Content(k) == IF Has(k) THEN heap[rec[k].cell] ELSE {}

Key(c) == KeyOf[ref[c]]

AnythingGoes(s) == TRUE

Valid(s) == s \cap BadCalls = {}

OverrideOnly(old, override) == override

MergeMeta(old, override) ==
  [etag |-> IF override.etag # 0 THEN override.etag ELSE old.etag,
   sid  |-> IF override.sid # NoCall THEN override.sid ELSE old.sid]

SaveMetaReloaded(c) == MergeMeta(MetaOf(Key(c)), meta[c])

SaveMeta(c) == MergeMeta(loaded[c], meta[c])

External == StoreKind = "cas"

PCs      == {"idle", "called", "apply", "validate", "save", "return", "done"}
Failures == {"rejected", "loaderr", "stale", "fnerr", "invalid", "saveerr",
             "conflict", "stackerr"}

TypeOK ==
  /\ rec \in [Keys -> Record]
  /\ heap \in [Cells -> Snapshots]
  /\ clock \in Nat
  /\ pc \in [Calls -> PCs]
  /\ ref \in [Calls -> Refs]
  /\ meta \in [Calls -> Meta]
  /\ snap \in [Calls -> Cells]
  /\ loaded \in [Calls -> Meta]
  /\ outcome \in [Calls -> {"none", "ok"} \cup Failures]
  /\ result \in [Calls -> Snapshots]
  /\ retmeta \in [Calls -> Meta]
  /\ seen \in [Calls -> Snapshots]
  /\ base \in [Calls -> Snapshots]
  /\ saved \in SUBSET Calls

-----------------------------------------------------------------------------
Init ==
  /\ rec = [k \in Keys |->
              IF k \in Seeded THEN [cell |-> k, etag |-> SeedTag, sid |-> NoCall]
                              ELSE NoRecord]
  /\ heap = [x \in Cells |-> {}]
  /\ clock = SeedTag
  /\ pc = [c \in Calls |-> "idle"]
  /\ ref \in [Calls -> Refs]
  /\ meta = [c \in Calls |-> EmptyMeta]
  /\ snap = [c \in Calls |-> c]
  /\ loaded = [c \in Calls |-> EmptyMeta]
  /\ outcome = [c \in Calls |-> "none"]
  /\ result = [c \in Calls |-> {}]
  /\ retmeta = [c \in Calls |-> EmptyMeta]
  /\ seen = [c \in Calls |-> {}]
  /\ base = [c \in Calls |-> {}]
  /\ saved = {}

(* The caller reads the record's ETag, or does not care, chooses a         *)
(* SnapshotID or none, and calls Mutate.                                   *)
Begin(c) ==
  /\ pc[c] = "idle"
  /\ \E id \in {NoCall, c}, conditional \in BOOLEAN :
       /\ conditional => Key(c) \in Keys /\ Has(Key(c))
       /\ meta' = [meta EXCEPT ![c] =
                     [etag |-> IF conditional THEN rec[Key(c)].etag ELSE 0,
                      sid  |-> id]]
       /\ seen' = [seen EXCEPT ![c] = IF conditional THEN Content(Key(c)) ELSE {}]
  /\ pc' = [pc EXCEPT ![c] = "called"]
  /\ UNCHANGED <<rec, heap, clock, ref, snap, loaded, outcome, result,
                 retmeta, base, saved>>

(* Every error return: nothing but the call's own outcome changes.         *)
FailWith(c, why) ==
  /\ pc' = [pc EXCEPT ![c] = "done"]
  /\ outcome' = [outcome EXCEPT ![c] = why]
  /\ UNCHANGED <<rec, clock, ref, meta, seen, result, saved>>

MalformedDomainOnly(r) == r \in NoDomain

Malformed(r) == r \in NoDomain \cup Unnamed

(* The checks before Load; a nil Store and a nil fn, refused here the same *)
(* way, are not among the calls.                                           *)
Reject(c) ==
  /\ pc[c] = "called"
  /\ Malformed(ref[c])
  /\ FailWith(c, "rejected")
  /\ UNCHANGED <<heap, snap, loaded, retmeta, base>>

(* Load fails: the ref has no identifier, or an external store is down.    *)
LoadFails(c) ==
  /\ pc[c] = "called"
  /\ ~Malformed(ref[c])
  /\ Key(c) = NoKey \/ External
  /\ FailWith(c, "loaderr")
  /\ UNCHANGED <<heap, snap, loaded, retmeta, base>>

LoadMissingNoZero(c) ==
  /\ pc[c] = "called"
  /\ ~Malformed(ref[c])
  /\ Key(c) \in Keys /\ ~Has(Key(c))
  /\ snap' = [snap EXCEPT ![c] = rec[Key(c)].cell]
  /\ pc' = [pc EXCEPT ![c] = "apply"]
  /\ UNCHANGED <<store, args, loaded, outcome, result, retmeta, base, saved>>

(* MemoryStore.Load of a key that has no record: zero T and an empty Meta. *)
LoadMissing(c) ==
  /\ pc[c] = "called"
  /\ ~Malformed(ref[c])
  /\ Key(c) \in Keys /\ ~Has(Key(c))
  /\ snap' = [snap EXCEPT ![c] = c]
  /\ heap' = [heap EXCEPT ![c] = {}]
  /\ loaded' = [loaded EXCEPT ![c] = EmptyMeta]
  /\ base' = [base EXCEPT ![c] = {}]
  /\ pc' = [pc EXCEPT ![c] = "apply"]
  /\ UNCHANGED <<rec, clock, ref, meta, seen, outcome, result, retmeta, saved>>

(* The optimistic check: an ETag the caller expects and one the record     *)
(* carries that are not the same.                                          *)
Mismatch(expected, current) ==
  expected.etag # 0 /\ current.etag # 0 /\ expected.etag # current.etag

TakeStoredCell(c) ==
  LET k == Key(c)
  IN  /\ snap' = [snap EXCEPT ![c] = rec[k].cell]
      /\ loaded' = [loaded EXCEPT ![c] = MetaOf(k)]
      /\ base' = [base EXCEPT ![c] = Content(k)]
      /\ UNCHANGED heap

TakeSnapshot(c) ==
  LET k == Key(c)
  IN  /\ snap' = [snap EXCEPT ![c] = IF SharesCell THEN rec[k].cell ELSE c]
      /\ heap' = IF SharesCell THEN heap ELSE [heap EXCEPT ![c] = Content(k)]
      /\ loaded' = [loaded EXCEPT ![c] = MetaOf(k)]
      /\ base' = [base EXCEPT ![c] = Content(k)]

LoadStale(c) ==
  /\ pc[c] = "called"
  /\ ~Malformed(ref[c])
  /\ Key(c) \in Keys /\ Has(Key(c))
  /\ Mismatch(meta[c], MetaOf(Key(c)))
  /\ TakeSnapshot(c)
  /\ retmeta' = [retmeta EXCEPT ![c] = MetaOf(Key(c))]
  /\ FailWith(c, "stale")

LoadFound(c) ==
  /\ pc[c] = "called"
  /\ ~Malformed(ref[c])
  /\ Key(c) \in Keys /\ Has(Key(c))
  /\ ~Mismatch(meta[c], MetaOf(Key(c)))
  /\ TakeSnapshot(c)
  /\ pc' = [pc EXCEPT ![c] = "apply"]
  /\ UNCHANGED <<rec, clock, ref, meta, seen, outcome, result, retmeta, saved>>

(* The mutator writes through the pointer it got: into the snapshot it was *)
(* given, or by assigning a new one to it.                                 *)
ApplyToCopy(c) ==
  /\ pc[c] = "apply"
  /\ pc' = [pc EXCEPT ![c] = "validate"]
  /\ UNCHANGED <<store, args, snap, loaded, outcome, result, retmeta, base, saved>>

ApplyInPlace(c) ==
  /\ pc[c] = "apply"
  /\ heap' = [heap EXCEPT ![snap[c]] = @ \cup {c}]
  /\ pc' = [pc EXCEPT ![c] = "validate"]
  /\ UNCHANGED <<rec, clock, ref, meta, seen, snap, loaded, outcome, result,
                 retmeta, base, saved>>

ApplyReplace(c) ==
  /\ pc[c] = "apply"
  /\ snap[c] # c
  /\ snap' = [snap EXCEPT ![c] = c]
  /\ heap' = [heap EXCEPT ![c] = heap[snap[c]] \cup {c}]
  /\ pc' = [pc EXCEPT ![c] = "validate"]
  /\ UNCHANGED <<rec, clock, ref, meta, seen, loaded, outcome, result,
                 retmeta, base, saved>>

(* The mutator returns an error, before or after it has written.           *)
MutatorFails(c) ==
  /\ pc[c] = "apply"
  /\ \/ UNCHANGED heap
     \/ heap' = [heap EXCEPT ![snap[c]] = @ \cup {c}]
  /\ retmeta' = [retmeta EXCEPT ![c] = loaded[c]]
  /\ FailWith(c, "fnerr")
  /\ UNCHANGED <<snap, loaded, base>>

(* opts.Load runs T's Validate on the mutated snapshot.                    *)
Validate(c) ==
  /\ pc[c] = "validate"
  /\ Valid(heap[snap[c]])
  /\ pc' = [pc EXCEPT ![c] = "save"]
  /\ UNCHANGED <<store, args, snap, loaded, outcome, result, retmeta, base, saved>>

ValidateFails(c) ==
  /\ pc[c] = "validate"
  /\ ~Valid(heap[snap[c]])
  /\ retmeta' = [retmeta EXCEPT ![c] = loaded[c]]
  /\ FailWith(c, "invalid")
  /\ UNCHANGED <<heap, snap, loaded, base>>

(* The record a successful Save leaves: the Meta as given, or with the     *)
(* fresh ETag of an external store.                                        *)
SavedRecord(c) ==
  [cell |-> snap[c],
   etag |-> IF External THEN clock + 1 ELSE SaveMeta(c).etag,
   sid  |-> SaveMeta(c).sid]

Conflicts(c) == External /\ SaveMeta(c).etag # rec[Key(c)].etag

SaveReturnsLoaded(c) ==
  /\ pc[c] = "save"
  /\ ~Conflicts(c)
  /\ rec' = [rec EXCEPT ![Key(c)] = SavedRecord(c)]
  /\ clock' = IF External THEN clock + 1 ELSE clock
  /\ retmeta' = [retmeta EXCEPT ![c] = loaded[c]]
  /\ saved' = saved \cup {c}
  /\ pc' = [pc EXCEPT ![c] = "return"]
  /\ UNCHANGED <<heap, ref, meta, seen, snap, loaded, outcome, result, base>>

Save(c) ==
  /\ pc[c] = "save"
  /\ ~Conflicts(c)
  /\ rec' = [rec EXCEPT ![Key(c)] = SavedRecord(c)]
  /\ clock' = IF External THEN clock + 1 ELSE clock
  /\ retmeta' = [retmeta EXCEPT ![c] =
                   [etag |-> SavedRecord(c).etag, sid |-> SavedRecord(c).sid]]
  /\ saved' = saved \cup {c}
  /\ pc' = [pc EXCEPT ![c] = "return"]
  /\ UNCHANGED <<heap, ref, meta, seen, snap, loaded, outcome, result, base>>

SaveConflict(c) ==
  /\ pc[c] = "save"
  /\ Conflicts(c)
  /\ retmeta' = [retmeta EXCEPT ![c] = loaded[c]]
  /\ FailWith(c, "conflict")
  /\ UNCHANGED <<heap, snap, loaded, base>>

SaveFails(c) ==
  /\ pc[c] = "save"
  /\ External
  /\ retmeta' = [retmeta EXCEPT ![c] = loaded[c]]
  /\ FailWith(c, "saveerr")
  /\ UNCHANGED <<heap, snap, loaded, base>>

(* NewLayer, NewStack and Merge: the returned wrapper holds a clone taken  *)
(* now.  NewStack refuses a scope that has no name, with the loaded Meta.  *)
Return(c) ==
  /\ pc[c] = "return"
  /\ outcome' = [outcome EXCEPT ![c] = IF ref[c] \in Unnamed THEN "stackerr" ELSE "ok"]
  /\ retmeta' = IF ref[c] \in Unnamed THEN [retmeta EXCEPT ![c] = loaded[c]] ELSE retmeta
  /\ result' = [result EXCEPT ![c] = heap[snap[c]]]
  /\ pc' = [pc EXCEPT ![c] = "done"]
  /\ UNCHANGED <<store, args, snap, loaded, base, saved>>

Step(c) ==
  \/ Reject(c) \/ LoadFails(c) \/ LoadMissing(c) \/ LoadStale(c) \/ LoadFound(c)
  \/ ApplyInPlace(c) \/ ApplyReplace(c) \/ MutatorFails(c)
  \/ Validate(c) \/ ValidateFails(c)
  \/ Save(c) \/ SaveConflict(c) \/ SaveFails(c)
  \/ Return(c)

Finished ==
  /\ \A c \in Calls : pc[c] = "done"
  /\ UNCHANGED vars

Next == (\E c \in Calls : Begin(c) \/ Step(c)) \/ Finished

Spec == Init /\ [][Next]_vars

-----------------------------------------------------------------------------
(* A call that reports an error has changed no stored snapshot: not by     *)
(* saving, and not by writing into a snapshot Load handed it.  (types.go   *)
(* 182-192: fn and Validate run before Save.)                              *)
ErrorLeavesNoTrace ==
  \A c \in Calls : outcome[c] \in Failures => \A k \in Keys : c \notin Content(k)

(* Save is the last thing that can fail: a call whose Save succeeded does  *)
(* not go on to report an error, whatever other calls do to the snapshot   *)
(* it shares with them before it returns (types.go 191-205).               *)
ErrorMeansUnsaved == \A c \in Calls : outcome[c] \in Failures => c \notin saved

(* Every stored snapshot satisfies T's Validate, however the calls that    *)
(* built it were interleaved (types.go 186-192).                           *)
StoredValid == \A k \in Keys : Content(k) \cap BadCalls = {}

(* A call that reported success is part of the snapshot ever after: no     *)
(* later call saves a snapshot it computed without it.  This is what       *)
(* forwarding the loaded ETag to Save (mergeMeta) buys a caller of a store *)
(* that compares and swaps, even if the caller states no ETag.             *)
NoLostUpdate == \A c \in saved : c \in Content(Key(c))

(* The Meta Mutate returns can be passed to the next call: its ETag is the *)
(* record's for exactly as long as the record is the one this call saved,  *)
(* and then the record holds what the returned Options hold.               *)
ReturnedTagNamesResult ==
  \A c \in Calls : outcome[c] = "ok" =>
     /\ rec[Key(c)].etag = retmeta[c].etag <=> rec[Key(c)].cell = c
     /\ rec[Key(c)].cell = c => Content(Key(c)) = result[c]

(* A record's SnapshotID names a write the record contains: a call that    *)
(* chooses none inherits the ID together with the snapshot it belongs to,  *)
(* never the ID of one record and the data of another (mergeMeta).         *)
AuditIdNamesWrite ==
  \A k \in Keys : rec[k].sid # NoCall => rec[k].sid \in Content(k)

(* A conflict or a stale ETag is only reported to a call that really was   *)
(* overtaken: some other call has saved this key since.                    *)
NoSpuriousConflict ==
  \A c \in Calls : outcome[c] \in {"stale", "conflict"} =>
     \E d \in saved \ {c} :
        /\ Key(d) = Key(c)
        /\ d \notin IF outcome[c] = "stale" THEN seen[c] ELSE base[c]
=============================================================================
