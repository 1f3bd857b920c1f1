--------------------------- MODULE SignatureIndex ---------------------------
(***************************************************************************)
(* The signature filters of the disk cache, one bloom filter for each      *)
(* partition of slots, kept in memory while fills, poisons, evictions,     *)
(* schema resets and the background builder change the rows and the        *)
(* coverage they summarise                                                 *)
(* (disk_cache/key_index.rs, disk_cache/key_index/signatures.rs and the    *)
(* callers in disk_cache/mod.rs and disk_cache/filler.rs).                 *)
(*                                                                         *)
(* A lookup trusts a complete filter to say "absent" without a query, so   *)
(* the filters may only lag behind the rows of slots that are not covered. *)
(*                                                                         *)
(* Every acquisition of the index lock, of the coverage lock and every     *)
(* query is one step.  A filter is the set of signatures it admits: false  *)
(* positives only cost a query and are left out.                           *)
(***************************************************************************)
EXTENDS Integers, FiniteSets

CONSTANTS
  MaxSlot,        \* slots are 0..MaxSlot
  Width,          \* partition_slots
  Sig,            \* signatures
  Source,         \* Source[s]: the signatures of slot s in the source store
  Fill,           \* concurrent fill_range tasks of one filler
  Poisoner,       \* readers that found an invalid row
  Keeper,         \* the filler loop when it evicts or rebuilds the schema
  Builder,        \* the signature index worker
  MaxEntries,     \* max_entries of KeyIndex
  MaxWriters,     \* the 128 tracked writers of KeyIndex::mutation
  None

Slot == 0..MaxSlot

Partition(s) == s \div Width

Partitions == {Partition(s) : s \in Slot}

Task == Fill \cup Poisoner \cup {Keeper}     \* holders of a Mutation guard

Ensurer == Fill \cup {Builder}               \* callers of signature_partition

ASSUME SignatureIndexAssumption ==
  /\ MaxSlot \in Nat /\ Width \in Nat \ {0}
  /\ MaxEntries \in Nat /\ MaxWriters \in Nat
  /\ Source \in [Slot -> SUBSET Sig]
  /\ IsFiniteSet(Fill) /\ IsFiniteSet(Poisoner)
  /\ Fill \cap Poisoner = {} /\ Keeper \notin Fill \cup Poisoner
  /\ Builder \notin Task /\ None \notin Ensurer

VARIABLES
  rows,           \* the signatures table, by slot
  coverage,       \* the in-memory coverage map, as a set (see SlotSet)
  present,        \* the partitions that have a SignatureEntry, and its fields:
  token, bloom, complete,
  serial,         \* State.serial
  tracked,        \* the tasks with a Writer in State.writers, and its fields:
  range,          \*   the slots it may write
  repair, updated,
  untracked,      \* the tasks counted by untracked_writers
  pc,
  published,      \* of a fill: what coverage_from_metadata let it publish
  tokens,         \* of an ensurer: generation per partition, 0 if not asked yet
  pending,        \* of an ensurer: scanned rows not yet in a filter
  building,       \* partition the builder works on
  floor,          \* new_floor of the eviction in progress, 0 for a reset
  alloc           \* the ensurer inside ensure_signature_partition, see below

index   == <<present, token, bloom, complete>>
writers == <<tracked, range, repair, updated, untracked>>
scans   == <<tokens, pending, building>>
vars    == <<rows, coverage, index, serial, writers, pc, published, scans, floor, alloc>>

\* The allocation mutex is held across two acquisitions of the index lock.
Unlocked == [owner |-> None, partition |-> Partition(0), serial |-> 0, empty |-> "unread"]

Covers(t, p) == \E s \in range[t] : Partition(s) = p

\* writer.signature_update, set by signature_fill right after the registration.
SignatureUpdate(t) == t \in Fill /\ pc[t] # "begun"

Repairing(p) ==
  \E t \in tracked \cap Fill : repair[t] /\ ~updated[t] /\ Covers(t, p)

\* The filter signature_candidates believes when it does not hold the hash.
Trusted(p) == p \in present /\ complete[p] /\ ~Repairing(p)

-----------------------------------------------------------------------------
(***************************************************************************)
(* Mutation guards.  A registration bumps the serial; over the limit it is *)
(* only counted, and every filter is dropped.                              *)
(***************************************************************************)
Mutation(t, slots) ==
  /\ serial' = serial + 1
  /\ range' = [range EXCEPT ![t] = slots]
  /\ IF Cardinality(tracked) >= MaxWriters
       THEN /\ untracked' = untracked \cup {t}
            /\ present' = {}
            /\ UNCHANGED tracked
       ELSE /\ tracked' = tracked \cup {t}
            /\ UNCHANGED <<untracked, present>>
  /\ UNCHANGED <<token, bloom, complete>>

InvalidateResetsBits(t) ==
  /\ serial' = serial + 1
  /\ complete' = [p \in Partitions |-> complete[p] /\ ~Covers(t, p)]
  /\ bloom' = [p \in Partitions |-> IF Covers(t, p) THEN {} ELSE bloom[p]]
  /\ UNCHANGED <<present, token>>

\* invalidate: a new generation, whose filters keep their bits but not the trust.
Invalidate(t) ==
  /\ serial' = serial + 1
  /\ complete' = [p \in Partitions |-> complete[p] /\ ~Covers(t, p)]
  /\ token' = [p \in Partitions |-> IF p \in present /\ Covers(t, p)
                                    THEN serial + 1 ELSE token[p]]
  /\ UNCHANGED <<present, bloom>>

DropKeepsTrust(t) ==
  /\ tracked' = tracked \ {t}
  /\ untracked' = untracked \ {t}
  /\ range' = [range EXCEPT ![t] = {}]
  /\ UNCHANGED <<index, serial>>

\* Drop for Mutation, with abandon_update.
DropMutation(t) ==
  /\ tracked' = tracked \ {t}
  /\ untracked' = untracked \ {t}
  /\ range' = [range EXCEPT ![t] = {}]
  /\ IF t \in tracked /\ SignatureUpdate(t) /\ ~updated[t]
       THEN Invalidate(t)
       ELSE UNCHANGED <<index, serial>>

-----------------------------------------------------------------------------
(***************************************************************************)
(* ensure_signature_partition.  Its first critical section returns the     *)
(* generation of an existing entry, refuses, or leaves with the allocation *)
(* mutex and the serial it saw; then it probes the coverage; its second    *)
(* critical section publishes the entry if the serial has not moved.       *)
(***************************************************************************)
RefusedWithoutBudget(p) ==
  \/ \E t \in tracked : ~SignatureUpdate(t) /\ Covers(t, p)
  \/ p \notin present /\ untracked # {}

Refused(p) ==
  \/ \E t \in tracked : ~SignatureUpdate(t) /\ Covers(t, p)
  \/ p \notin present /\ (Cardinality(present) >= MaxEntries \/ untracked # {})

Asking(x, p) ==
  IF x = Builder
    THEN pc[x] = "update" /\ p = building
    ELSE /\ pc[x] = "update" /\ Covers(x, p) /\ tokens[x][p] = 0
         /\ \A q \in Partitions : q < p /\ Covers(x, q) => tokens[x][q] # 0

AllocationFree == alloc = Unlocked

Ensure(x, p) ==
  /\ AllocationFree
  /\ Asking(x, p)
  /\ ~Refused(p)
  /\ IF p \in present
       THEN /\ tokens' = [tokens EXCEPT ![x][p] = token[p]]
            /\ UNCHANGED alloc
       ELSE /\ alloc' = [owner |-> x, partition |-> p, serial |-> serial,
                         empty |-> "unread"]
            /\ UNCHANGED tokens
  /\ UNCHANGED <<rows, coverage, index, serial, writers, pc, published,
                 pending, building, floor>>

\* The closure of signature_partition: a partition without coverage starts complete.
Probe(x) ==
  /\ alloc.owner = x /\ alloc.empty = "unread"
  /\ alloc' = [alloc EXCEPT !.empty =
                 IF \E s \in coverage : Partition(s) = alloc.partition
                 THEN "no" ELSE "yes"]
  /\ UNCHANGED <<rows, coverage, index, serial, writers, pc, published, scans, floor>>

SameGeneration == serial = alloc.serial /\ untracked = {}

Allocate(x) ==
  /\ alloc.owner = x /\ alloc.empty # "unread"
  /\ SameGeneration
  /\ serial' = serial + 1
  /\ present' = present \cup {alloc.partition}
  /\ token' = [token EXCEPT ![alloc.partition] = serial + 1]
  /\ bloom' = [bloom EXCEPT ![alloc.partition] = {}]
  /\ complete' = [complete EXCEPT ![alloc.partition] = (alloc.empty = "yes")]
  /\ tokens' = [tokens EXCEPT ![x][alloc.partition] = serial + 1]
  /\ alloc' = Unlocked
  /\ UNCHANGED <<rows, coverage, writers, pc, published, pending, building, floor>>

\* The filter could not be allocated, or the serial moved: the caller gets None.
AllocateFails(x) ==
  /\ alloc.owner = x
  /\ pc' = [pc EXCEPT ![x] = "failed"]
  /\ alloc' = Unlocked
  /\ UNCHANGED <<rows, coverage, index, serial, writers, published, scans, floor>>

(***************************************************************************)
(* stream_signature_hashes: one query, whose rows are inserted in batches; *)
(* every batch, the last and possibly empty one too, checks all the        *)
(* generations under the lock.                                             *)
(***************************************************************************)
ToScan(x) == IF x = Builder THEN {s \in Slot : Partition(s) = building} ELSE range[x]

Scan(x) ==
  /\ pc[x] = "update" /\ alloc.owner # x
  /\ \A s \in ToScan(x) : tokens[x][Partition(s)] # 0
  /\ pending' = [pending EXCEPT ![x] = {r \in Slot \X Sig :
                                          r[1] \in ToScan(x) /\ r[2] \in rows[r[1]]}]
  /\ pc' = [pc EXCEPT ![x] = "stream"]
  /\ UNCHANGED <<rows, coverage, index, serial, writers, published, tokens,
                 building, floor, alloc>>

GenerationsMatch(x) ==
  \A s \in ToScan(x) : /\ Partition(s) \in present
                       /\ token[Partition(s)] = tokens[x][Partition(s)]

InsertBatch(x, batch) ==
  /\ pc[x] = "stream"
  /\ batch \in SUBSET pending[x]
  /\ GenerationsMatch(x)
  /\ bloom' = [p \in Partitions |->
                 bloom[p] \cup {r[2] : r \in {q \in batch : Partition(q[1]) = p}}]
  /\ pending' = [pending EXCEPT ![x] = @ \ batch]
  /\ pc' = [pc EXCEPT ![x] = IF batch = pending[x] THEN "inserted" ELSE "stream"]
  /\ UNCHANGED <<rows, coverage, present, token, complete, serial, writers,
                 published, tokens, building, floor, alloc>>

\* Refusal, query error, changed generation or timeout before the last batch.
UpdateFails(x) ==
  /\ pc[x] \in {"update", "stream"} /\ alloc.owner # x
  /\ pc' = [pc EXCEPT ![x] = "failed"]
  /\ UNCHANGED <<rows, coverage, index, serial, writers, published, scans, floor, alloc>>

-----------------------------------------------------------------------------
(***************************************************************************)
(* fill_range.  The filler plans disjoint ranges of uncovered slots and    *)
(* neither evicts nor rebuilds the schema while a fill is in flight.       *)
(***************************************************************************)
FillRanges == {(lo..hi) : lo, hi \in Slot} \ {{}}

Planned(slots) ==
  /\ slots \cap coverage = {}
  /\ \A g \in Fill : slots \cap range[g] = {}

BeginFill(f, slots) ==
  /\ pc[f] = "idle" /\ pc[Keeper] = "idle"
  /\ Planned(slots)
  /\ Mutation(f, slots)
  /\ repair' = [repair EXCEPT ![f] = (slots \cap coverage # {})]
  /\ updated' = [updated EXCEPT ![f] = FALSE]
  /\ pc' = [pc EXCEPT ![f] = "begun"]
  /\ UNCHANGED <<rows, coverage, published, scans, floor, alloc>>

\* Mutation::signature_fill, a second acquisition of the lock.
SignatureFill(f) ==
  /\ pc[f] = "begun"
  /\ pc' = [pc EXCEPT ![f] = "forward"]
  /\ UNCHANGED <<rows, coverage, index, serial, writers, published, scans, floor, alloc>>

\* native_forward: rows become visible piece by piece.
Forward(f, s, g) ==
  /\ pc[f] = "forward" /\ s \in range[f] /\ g \in Source[s] \ rows[s]
  /\ rows' = [rows EXCEPT ![s] = @ \cup {g}]
  /\ UNCHANGED <<coverage, index, serial, writers, pc, published, scans, floor, alloc>>

\* validate_transaction_counts and coverage_from_metadata.
Validate(f, slots) ==
  /\ pc[f] = "forward" /\ slots \subseteq range[f]
  /\ \A s \in slots : rows[s] = Source[s]
  /\ published' = [published EXCEPT ![f] = slots]
  /\ tokens' = [tokens EXCEPT ![f] = [p \in Partitions |-> 0]]
  /\ pc' = [pc EXCEPT ![f] = "update"]
  /\ UNCHANGED <<rows, coverage, index, serial, writers, pending, building, floor, alloc>>

FinishIgnoringFailure(f) ==
  /\ pc[f] \in {"inserted", "failed"}
  /\ updated' = [updated EXCEPT ![f] = TRUE]
  /\ pc' = [pc EXCEPT ![f] = "publish"]
  /\ UNCHANGED <<rows, coverage, index, serial, tracked, range, repair, untracked,
                 published, scans, floor, alloc>>

\* finish_signatures: a failed update masks the partitions until the guard drops.
FinishSignatures(f) ==
  /\ pc[f] \in {"inserted", "failed"}
  /\ pc' = [pc EXCEPT ![f] = "publish"]
  /\ IF f \in tracked
       THEN /\ updated' = [updated EXCEPT ![f] = (pc[f] = "inserted")]
            /\ repair' = [repair EXCEPT ![f] = @ \/ pc[f] = "failed"]
            /\ IF pc[f] = "failed" THEN Invalidate(f) ELSE UNCHANGED <<index, serial>>
       ELSE UNCHANGED <<updated, repair, index, serial>>
  /\ UNCHANGED <<rows, coverage, tracked, range, untracked, published, scans,
                 floor, alloc>>

\* publish_range_coverage, once its rows are stored.
Publish(f) ==
  /\ pc[f] = "publish"
  /\ coverage' = coverage \cup published[f]
  /\ pc' = [pc EXCEPT ![f] = "done"]
  /\ UNCHANGED <<rows, index, serial, writers, published, scans, floor, alloc>>

\* An error of a query, or the filler is cancelled, at an await of fill_range.
AbandonFill(f) ==
  /\ pc[f] \in {"forward", "update", "stream", "publish"} /\ alloc.owner # f
  /\ pc' = [pc EXCEPT ![f] = "done"]
  /\ UNCHANGED <<rows, coverage, index, serial, writers, published, scans, floor, alloc>>

EndFill(f) ==
  /\ pc[f] = "done"
  /\ DropMutation(f)
  /\ pc' = [pc EXCEPT ![f] = "idle"]
  /\ published' = [published EXCEPT ![f] = {}]
  /\ pending' = [pending EXCEPT ![f] = {}]
  /\ tokens' = [tokens EXCEPT ![f] = [p \in Partitions |-> 0]]
  /\ UNCHANGED <<rows, coverage, repair, updated, building, floor, alloc>>

-----------------------------------------------------------------------------
(***************************************************************************)
(* build_signature_partition, run by one worker over the partitions of the *)
(* covered span.                                                           *)
(***************************************************************************)
InKeySpan(p) ==
  /\ \E s \in coverage : Partition(s) <= p
  /\ \E s \in coverage : p <= Partition(s)

BeginBuild(p) ==
  /\ pc[Builder] = "idle"
  /\ InKeySpan(p) /\ ~(p \in present /\ complete[p])
  /\ building' = p
  /\ tokens' = [tokens EXCEPT ![Builder] = [q \in Partitions |-> 0]]
  /\ pc' = [pc EXCEPT ![Builder] = "update"]
  /\ UNCHANGED <<rows, coverage, index, serial, writers, published, pending, floor, alloc>>

\* finish_signature_build.
EndBuild ==
  /\ pc[Builder] \in {"inserted", "failed"}
  /\ complete' = [complete EXCEPT ![building] =
                    @ \/ (pc[Builder] = "inserted" /\ building \in present
                          /\ token[building] = tokens[Builder][building])]
  /\ pc' = [pc EXCEPT ![Builder] = "idle"]
  /\ pending' = [pending EXCEPT ![Builder] = {}]
  /\ UNCHANGED <<rows, coverage, present, token, bloom, serial, writers, published,
                 tokens, building, floor, alloc>>

-----------------------------------------------------------------------------
(***************************************************************************)
(* poison_slot, by a reader of a slot that was covered when it began.      *)
(***************************************************************************)
BeginRead(t, s) ==
  /\ pc[t] = "idle" /\ s \in coverage
  /\ range' = [range EXCEPT ![t] = {s}]
  /\ pc' = [pc EXCEPT ![t] = "reading"]
  /\ UNCHANGED <<rows, coverage, index, serial, tracked, repair, updated, untracked,
                 published, scans, floor, alloc>>

BeginPoison(t) ==
  /\ pc[t] = "reading"
  /\ Mutation(t, range[t])
  /\ pc' = [pc EXCEPT ![t] = "begun"]
  /\ UNCHANGED <<rows, coverage, repair, updated, published, scans, floor, alloc>>

RemoveCoverage(t) ==
  /\ pc[t] = "begun"
  /\ coverage' = coverage \ range[t]
  /\ pc' = [pc EXCEPT ![t] = "done"]
  /\ UNCHANGED <<rows, index, serial, writers, published, scans, floor, alloc>>

EndPoison(t) ==
  /\ pc[t] = "done"
  /\ DropMutation(t)
  /\ pc' = [pc EXCEPT ![t] = "idle"]
  /\ UNCHANGED <<rows, coverage, repair, updated, published, scans, floor, alloc>>

-----------------------------------------------------------------------------
(***************************************************************************)
(* evict_below: partitions are dropped whole, then the filters, then the   *)
(* coverage.  A failed drop leaves the coverage behind.                    *)
(***************************************************************************)
FillsIdle == \A f \in Fill : pc[f] = "idle"

BeginEvictThroughFloor(newFloor) ==
  /\ pc[Keeper] = "idle" /\ FillsIdle /\ coverage # {}
  /\ Mutation(Keeper, 0..newFloor)
  /\ floor' = newFloor
  /\ pc' = [pc EXCEPT ![Keeper] = "begun"]
  /\ UNCHANGED <<rows, coverage, repair, updated, published, scans, alloc>>

BeginEvict(newFloor) ==
  /\ pc[Keeper] = "idle" /\ FillsIdle /\ coverage # {}
  /\ Mutation(Keeper, 0..(newFloor - 1))
  /\ floor' = newFloor
  /\ pc' = [pc EXCEPT ![Keeper] = "begun"]
  /\ UNCHANGED <<rows, coverage, repair, updated, published, scans, alloc>>

DropPartitions ==
  /\ pc[Keeper] = "begun" /\ floor > 0
  /\ rows' = [s \in Slot |-> IF Partition(s) < Partition(floor) THEN {} ELSE rows[s]]
  /\ pc' = [pc EXCEPT ![Keeper] = "dropped"]
  /\ UNCHANGED <<coverage, index, serial, writers, published, scans, floor, alloc>>

EvictSignatures ==
  /\ pc[Keeper] = "dropped" /\ floor > 0
  /\ present' = {p \in present : p >= Partition(floor)}
  /\ pc' = [pc EXCEPT ![Keeper] = "cleared"]
  /\ UNCHANGED <<rows, coverage, token, bloom, complete, serial, writers, published,
                 scans, floor, alloc>>

EvictCoverage ==
  /\ pc[Keeper] = "cleared" /\ floor > 0
  /\ coverage' = {s \in coverage : s >= floor}
  /\ pc' = [pc EXCEPT ![Keeper] = "done"]
  /\ UNCHANGED <<rows, index, serial, writers, published, scans, floor, alloc>>

(***************************************************************************)
(* The rebuild of refresh_schema: filters cleared, tables wiped, coverage  *)
(* reloaded from the new, empty tables.                                    *)
(***************************************************************************)
BeginReset ==
  /\ pc[Keeper] = "idle" /\ FillsIdle
  /\ Mutation(Keeper, Slot)
  /\ floor' = 0
  /\ pc' = [pc EXCEPT ![Keeper] = "begun"]
  /\ UNCHANGED <<rows, coverage, repair, updated, published, scans, alloc>>

ClearSignatures ==
  /\ pc[Keeper] = "begun" /\ floor = 0
  /\ serial' = serial + 1
  /\ present' = {}
  /\ pc' = [pc EXCEPT ![Keeper] = "dropped"]
  /\ UNCHANGED <<rows, coverage, token, bloom, complete, writers, published, scans,
                 floor, alloc>>

WipeTables ==
  /\ pc[Keeper] = "dropped" /\ floor = 0
  /\ rows' = [s \in Slot |-> {}]
  /\ pc' = [pc EXCEPT ![Keeper] = "cleared"]
  /\ UNCHANGED <<coverage, index, serial, writers, published, scans, floor, alloc>>

ReloadCoverage ==
  /\ pc[Keeper] = "cleared" /\ floor = 0
  /\ coverage' = {}
  /\ pc' = [pc EXCEPT ![Keeper] = "done"]
  /\ UNCHANGED <<rows, index, serial, writers, published, scans, floor, alloc>>

\* drop_partitions_below, initialize_cache_schema or reload_coverage fails.
KeeperFails ==
  /\ pc[Keeper] \in IF floor > 0 THEN {"begun"} ELSE {"dropped", "cleared"}
  /\ pc' = [pc EXCEPT ![Keeper] = "done"]
  /\ UNCHANGED <<rows, coverage, index, serial, writers, published, scans, floor, alloc>>

EndKeeper ==
  /\ pc[Keeper] = "done"
  /\ DropMutation(Keeper)
  /\ floor' = 0
  /\ pc' = [pc EXCEPT ![Keeper] = "idle"]
  /\ UNCHANGED <<rows, coverage, repair, updated, published, scans, alloc>>

-----------------------------------------------------------------------------
Init ==
  /\ rows = [s \in Slot |-> {}]
  /\ coverage = {}
  /\ present = {}
  /\ token = [p \in Partitions |-> 0]
  /\ bloom = [p \in Partitions |-> {}]
  /\ complete = [p \in Partitions |-> FALSE]
  /\ serial = 0
  /\ tracked = {} /\ untracked = {}
  /\ range = [t \in Task |-> {}]
  /\ repair = [f \in Fill |-> FALSE]
  /\ updated = [f \in Fill |-> FALSE]
  /\ pc = [x \in Task \cup {Builder} |-> "idle"]
  /\ published = [f \in Fill |-> {}]
  /\ tokens = [x \in Ensurer |-> [p \in Partitions |-> 0]]
  /\ pending = [x \in Ensurer |-> {}]
  /\ building = Partition(0)
  /\ floor = 0
  /\ alloc = Unlocked

EnsurerNext(x) ==
  \/ \E p \in Partitions : Ensure(x, p)
  \/ Probe(x)
  \/ Allocate(x)
  \/ AllocateFails(x)
  \/ Scan(x)
  \/ \E batch \in SUBSET pending[x] : InsertBatch(x, batch)
  \/ UpdateFails(x)

FillNext(f) ==
  \/ \E slots \in FillRanges : BeginFill(f, slots)
  \/ SignatureFill(f)
  \/ \E s \in Slot, g \in Sig : Forward(f, s, g)
  \/ \E slots \in SUBSET Slot : Validate(f, slots)
  \/ FinishSignatures(f)
  \/ Publish(f)
  \/ AbandonFill(f)
  \/ EndFill(f)

BuilderNext == (\E p \in Partitions : BeginBuild(p)) \/ EndBuild

PoisonerNext(t) ==
  \/ \E s \in Slot : BeginRead(t, s)
  \/ BeginPoison(t)
  \/ RemoveCoverage(t)
  \/ EndPoison(t)

KeeperNext ==
  \/ \E newFloor \in 1..(MaxSlot + 1) : BeginEvict(newFloor)
  \/ DropPartitions \/ EvictSignatures \/ EvictCoverage
  \/ BeginReset \/ ClearSignatures \/ WipeTables \/ ReloadCoverage
  \/ KeeperFails
  \/ EndKeeper

Next ==
  \/ \E x \in Ensurer : EnsurerNext(x)
  \/ \E f \in Fill : FillNext(f)
  \/ BuilderNext
  \/ \E t \in Poisoner : PoisonerNext(t)
  \/ KeeperNext

Spec == Init /\ [][Next]_vars

-----------------------------------------------------------------------------
TypeOK ==
  /\ rows \in [Slot -> SUBSET Sig] /\ coverage \in SUBSET Slot
  /\ present \in SUBSET Partitions /\ token \in [Partitions -> Nat]
  /\ bloom \in [Partitions -> SUBSET Sig] /\ complete \in [Partitions -> BOOLEAN]
  /\ serial \in Nat
  /\ tracked \in SUBSET Task /\ untracked \in SUBSET Task
  /\ range \in [Task -> SUBSET Slot]
  /\ repair \in [Fill -> BOOLEAN] /\ updated \in [Fill -> BOOLEAN]
  /\ pc \in [Task \cup {Builder} ->
               {"idle", "reading", "begun", "forward", "update", "stream", "inserted",
                "failed", "publish", "done", "dropped", "cleared"}]
  /\ published \in [Fill -> SUBSET Slot]
  /\ tokens \in [Ensurer -> [Partitions -> Nat]]
  /\ pending \in [Ensurer -> SUBSET (Slot \X Sig)]
  /\ building \in Partitions
  /\ floor \in 0..(MaxSlot + 1)
  /\ alloc \in [owner : Ensurer \cup {None}, partition : Partitions, serial : Nat,
                empty : {"unread", "yes", "no"}]

(***************************************************************************)
(* "Missing or changing filters always admit a query": a filter a lookup   *)
(* may trust admits every signature stored at a covered slot of its        *)
(* partition, whatever fills, poisons, evictions and builds are in flight. *)
(***************************************************************************)
NoFalseAbsence ==
  \A s \in coverage :
    Trusted(Partition(s)) => rows[s] \subseteq bloom[Partition(s)]

(***************************************************************************)
(* The memory budget: the filters of the map and the one that the holder   *)
(* of the allocation mutex is about to add are at most max_entries, though *)
(* the size is checked in one critical section and used in the next.       *)
(***************************************************************************)
WithinBudget ==
  Cardinality(present) + Cardinality({x \in Ensurer : alloc.owner = x}) <= MaxEntries

(***************************************************************************)
(* A generation is never reused: while a partition keeps its token, its    *)
(* filter only gains signatures, so a scan that checks the token at its    *)
(* last batch has lost none of its earlier ones.                           *)
(***************************************************************************)
GenerationKeepsBits ==
  [][\A p \in Partitions :
       p \in present' /\ token'[p] = token[p] => bloom[p] \subseteq bloom'[p]]_vars

-----------------------------------------------------------------------------
(***************************************************************************)
(* The strengthening of NoFalseAbsence that every step keeps as long as no *)
(* writer goes untracked (IndexProofs).                                    *)
(***************************************************************************)
Good(s) == rows[s] \subseteq bloom[Partition(s)]

\* A failed fill that has published s and will distrust its filter when it ends.
Masked(s) ==
  \E f \in tracked \cap Fill :
    SignatureUpdate(f) /\ repair[f] /\ ~updated[f] /\ s \in range[f]

AllTracked ==
  /\ untracked = {}
  /\ \A t \in Task : t \in tracked <=> pc[t] \notin {"idle", "reading"}

FillsAreApart ==
  /\ \A f \in Fill :
       /\ pc[f] = "idle" => range[f] = {}
       /\ pc[f] # "done" => range[f] \cap coverage = {}
       /\ published[f] \subseteq range[f]
       /\ pc[f] # "reading"
  /\ \A f, g \in Fill : f # g => range[f] \cap range[g] = {}
  /\ pc[Keeper] # "idle" => FillsIdle

GenerationsAreOld ==
  /\ \A p \in Partitions : token[p] <= serial
  /\ \A x \in Ensurer, p \in Partitions : tokens[x][p] <= serial
  /\ alloc.serial <= serial

\* An update that succeeded, and one that failed but goes on to publish.
UpdatesHold ==
  \A f \in Fill :
    /\ pc[f] \in {"begun", "forward", "update", "stream", "inserted", "failed"}
         => ~updated[f]
    /\ pc[f] = "publish" /\ ~updated[f] => repair[f]
    /\ pc[f] = "inserted" \/ (pc[f] = "publish" /\ updated[f])
         => \A s \in range[f] : Partition(s) \in present /\ Good(s)

SameToken(x, p) == p \in present /\ token[p] = tokens[x][p]

InFilterOrPending(x, s) ==
  \A g \in rows[s] : g \in bloom[Partition(s)] \/ <<s, g>> \in pending[x]

StreamsMissNothing ==
  \A f \in Fill : pc[f] = "stream" =>
    \A s \in range[f] : SameToken(f, Partition(s)) => InFilterOrPending(f, s)

BuildMissesNothing ==
  /\ pc[Builder] = "inserted" => pending[Builder] = {}
  /\ pc[Builder] \in {"stream", "inserted"} =>
       \A s \in coverage :
         Partition(s) = building /\ SameToken(Builder, building)
           => Masked(s) \/ InFilterOrPending(Builder, s)

AllocationIsFresh ==
  /\ alloc.owner = None => alloc = Unlocked
  /\ alloc.owner # None =>
       /\ pc[alloc.owner] = "update"
       /\ alloc.partition \notin present
       /\ alloc.empty = "yes" /\ alloc.serial = serial =>
            \A s \in coverage : Partition(s) = alloc.partition => Masked(s)

CompleteMeansCovered ==
  \A s \in coverage :
    Partition(s) \in present /\ complete[Partition(s)] => Good(s) \/ Masked(s)

IndInv ==
  /\ TypeOK /\ AllTracked /\ FillsAreApart /\ GenerationsAreOld /\ UpdatesHold
  /\ StreamsMissNothing /\ BuildMissesNothing /\ AllocationIsFresh
  /\ CompleteMeansCovered
=============================================================================
