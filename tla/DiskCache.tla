----------------------------- MODULE DiskCache -----------------------------
(***************************************************************************)
(* The disk cache of superbank-rpc: a local copy of recent slots, kept by  *)
(* one filler loop (disk_cache/filler.rs) and read by request handlers     *)
(* (disk_cache/mod.rs, disk_cache/key_reads.rs).                           *)
(*                                                                         *)
(* The tables outlive the process; the coverage map, min_retained, ready   *)
(* and the epochs of the key index do not.  A slot has one transaction and *)
(* one block row if the source produced a block for it, none if it was     *)
(* skipped.  Every query and every acquisition of a lock is one step.      *)
(*                                                                         *)
(* A reader asks of the epoch, the data epoch and the serial of the key    *)
(* index only whether they moved since it sampled them: the field moved is *)
(* the set of those that did.  The address filters are taken to be absent and  *)
(* the signature filters to be sound (SignatureIndex), so that a reader    *)
(* always queries.                                                         *)
(***************************************************************************)
EXTENDS Integers, FiniteSets, FiniteSetsExt

CONSTANTS
  MaxSlot,        \* slots are 0..MaxSlot
  Width,          \* partition_slots
  Fill,           \* concurrent fill_range tasks of the filler
  Reader,         \* concurrent requests
  Scenario,       \* configurations, sources and workloads, see below
  MaxVersion      \* bound on now_version

Slot == 0..MaxSlot

Partition(s) == s \div Width

RequestKind == {"address", "statuses", "pinned", "range", "block", "time"}

Disturbance == {"bytes", "crash", "schema", "reload fails", "drop fails"}

ASSUME DiskCacheAssumption ==
  /\ MaxSlot \in Nat /\ Width \in Nat \ {0} /\ MaxVersion \in Nat
  /\ \A w \in Scenario : /\ w.retain \in Nat \ {0} /\ w.last \in Slot /\ w.produced \subseteq Slot
                         /\ {w.fills, w.readers} \subseteq Nat
                         /\ w.kinds \subseteq RequestKind /\ w.upkeep \subseteq Disturbance

VARIABLES
  scenario,       \* chosen once: retain_slots, the last slot of the source and those with
                  \* a block, how many fills and requests run at once, the kinds of
                  \* requests and the disturbances that happen
  \* tables
  txs, blocks,    \* the slots whose rows are stored
  marks,          \* slot_coverage FINAL: status and version of every slot
  meta,           \* the fingerprint of superbank_meta
  tables,         \* FALSE while a failed rebuild leaves some table missing
  \* the source
  tip, fingerprint,
  \* memory
  coverage,       \* the coverage map, as a set (see SlotSet)
  minRetained, ready,
  schema,         \* the fingerprint of the snapshot held in memory
  clock,          \* now_version
  loop,           \* the filler loop: where it is, the caller of maybe_evict with
                  \* its head, floor and byte budget, whether a fill succeeded
  fill,           \* the fills: where, range, slots to publish, version
  reader          \* the requests: kind, where, slots, what was read, what moved

stored  == <<txs, blocks, marks, meta, tables>>
source  == <<scenario, tip, fingerprint>>
serving == <<coverage, minRetained, ready, schema>>
vars    == <<stored, source, serving, clock, loop, fill, reader>>

Retain == scenario.retain

Produced == scenario.produced

Kinds == scenario.kinds

Upkeep == scenario.upkeep

NoMark == [status |-> 0, version |-> 0]

Unmarked == [s \in Slot |-> NoMark]

NoFill == [pc |-> "idle", range |-> {}, publish |-> {}, version |-> 0]

Idle == [kind |-> "none", pc |-> "idle", slots |-> {}, seen |-> {}, mark |-> 0,
         version |-> 0, moved |-> {}]

AtTop == [pc |-> "top", caller |-> "none", head |-> 0, floor |-> 0, budget |-> "met",
          succeeded |-> FALSE]

-----------------------------------------------------------------------------
(***************************************************************************)
(* Queries on the shared state.                                            *)
(***************************************************************************)
CoversSlot(s) == ready /\ s >= minRetained /\ s \in coverage

\* contiguous_tip_span, as the set of its slots.
TipSpan == {s \in coverage : \A q \in s..Max(coverage) : q \in coverage}

CoveredSpan == IF coverage = {} THEN {} ELSE Min(coverage)..Max(coverage)

Stored(s) == s \in Produced => s \in txs /\ s \in blocks

Marked(s) == marks[s].status # 0

\* The slots of a registered Mutation; ranges are compared by partition.
Writing ==
  UNION {fill[f].range : f \in {g \in Fill : fill[g].pc # "begin"}}
  \cup UNION {reader[r].slots : r \in {q \in Reader : reader[q].pc \in {"remove", "stamp", "mark"}}}
  \cup (IF loop.pc \in {"drop txs", "drop blocks", "drop marks", "floor", "forget"}
        THEN 0..(loop.floor - 1) ELSE {})
  \cup (IF loop.pc \in {"wipe", "adopt", "reload"} \/ loop.caller = "rebuild" THEN Slot ELSE {})

WriterOverlaps(slots) == \E s \in slots, w \in Writing : Partition(s) = Partition(w)

\* What a writer of the coverage table does to FINAL: the newest version wins.
Mark(slots, status, version) ==
  marks' = [s \in Slot |-> IF s \in slots /\ version >= marks[s].version
                           THEN [status |-> status[s], version |-> version]
                           ELSE marks[s]]

Sampled(r) == reader[r].pc \in {"span", "query", "page", "status", "valid", "check"}

\* The readers once the counters moved under a step of reader me, which goes to pc.
BumpFrom(me, pc, counters) ==
  reader' = [r \in Reader |-> IF r = me THEN [reader[r] EXCEPT !.pc = pc]
                             ELSE IF Sampled(r) THEN [reader[r] EXCEPT !.moved = @ \cup counters]
                             ELSE reader[r]]

\* The same for the steps of the filler.
Bump(counters) ==
  reader' = [r \in Reader |-> IF Sampled(r) THEN [reader[r] EXCEPT !.moved = @ \cup counters]
                             ELSE reader[r]]

Invalidate == {"epoch", "data"}           \* invalidate_reads

Tick == clock < MaxVersion /\ clock' = clock + 1

-----------------------------------------------------------------------------
(***************************************************************************)
(* The source.                                                             *)
(***************************************************************************)
SourceAdvances ==
  /\ tip < scenario.last
  /\ tip' = tip + 1
  /\ UNCHANGED <<scenario, stored, fingerprint, serving, clock, loop, fill, reader>>

SchemaChanges ==
  /\ "schema" \in Upkeep /\ fingerprint = 0
  /\ fingerprint' = 1
  /\ UNCHANGED <<scenario, stored, tip, serving, clock, loop, fill, reader>>

-----------------------------------------------------------------------------
(***************************************************************************)
(* fill_range: transactions, then blocks, then the coverage marks, then    *)
(* the coverage map.                                                       *)
(***************************************************************************)
FillStep(f, from, to) == fill[f].pc = from /\ fill' = [fill EXCEPT ![f].pc = to]

\* The source has answered; begin_fill registers the Mutation.  No slot of the range
\* is covered, so that it is never a repair.
BeginFill(f) ==
  /\ FillStep(f, "begin", "txs")
  /\ Bump({"serial"})
  /\ UNCHANGED <<stored, source, serving, clock, loop>>

ForwardTransactions(f) ==
  /\ FillStep(f, "txs", "validate") /\ tables
  /\ \E landed \in SUBSET (fill[f].range \cap Produced) : txs' = txs \cup landed
  /\ UNCHANGED <<blocks, marks, meta, tables, source, serving, clock, loop, reader>>

\* Mutant: the counts are not compared.
CountsNotCompared(f) ==
  /\ FillStep(f, "validate", "blocks")
  /\ UNCHANGED <<stored, source, serving, clock, loop, reader>>

\* validate_transaction_counts, against the metadata of the source.
ValidateCounts(f) ==
  /\ FillStep(f, "validate", "blocks")
  /\ fill[f].range \cap Produced \subseteq txs
  /\ UNCHANGED <<stored, source, serving, clock, loop, reader>>

ForwardBlocks(f) ==
  /\ FillStep(f, "blocks", "stamp") /\ tables
  /\ blocks' = blocks \cup (fill[f].range \cap Produced)
  /\ UNCHANGED <<txs, marks, meta, tables, source, serving, clock, loop, reader>>

StampCoverage(f) ==
  /\ fill[f].pc = "stamp" /\ Tick
  /\ fill' = [fill EXCEPT ![f].pc = "marks", ![f].version = clock + 1]
  /\ UNCHANGED <<stored, source, serving, loop, reader>>

StoreCoverage(f) ==
  /\ FillStep(f, "marks", "publish") /\ tables
  /\ Mark(fill[f].publish, [s \in Slot |-> IF s \in Produced THEN 1 ELSE 2], fill[f].version)
  /\ UNCHANGED <<txs, blocks, meta, tables, source, serving, clock, loop, reader>>

PublishCoverage(f) ==
  /\ fill[f].pc = "publish"
  /\ coverage' = coverage \cup fill[f].publish
  /\ minRetained' = IF fill[f].publish = {} THEN minRetained ELSE Min(coverage')
  /\ fill' = [fill EXCEPT ![f] = NoFill]
  /\ loop' = [loop EXCEPT !.succeeded = TRUE]
  /\ UNCHANGED <<stored, source, ready, schema, clock, reader>>

\* An error at any await, also of an insert whose rows were stored.
FillFails(f) ==
  /\ fill[f].pc # "idle"
  /\ fill' = [fill EXCEPT ![f] = NoFill]
  /\ UNCHANGED <<stored, source, serving, clock, loop, reader>>

-----------------------------------------------------------------------------
(***************************************************************************)
(* The filler loop.                                                        *)
(***************************************************************************)
Go(to) == loop' = [loop EXCEPT !.pc = to]

CallEvict(caller) == loop' = [loop EXCEPT !.pc = "evict", !.caller = caller]

\* refresh_schema with an unchanged fingerprint, when the interval has elapsed.
RefreshUnchanged ==
  /\ loop.pc = "top" /\ fingerprint = schema /\ ~ready
  /\ CallEvict("refresh")
  /\ UNCHANGED <<stored, source, serving, clock, fill, reader>>

BeginRebuild ==
  /\ loop.pc = "top" /\ fingerprint # schema
  /\ ready' = FALSE
  /\ Bump(Invalidate)
  /\ Go("register")
  /\ UNCHANGED <<stored, source, coverage, minRetained, schema, clock, fill>>

\* The Mutation over every slot, and clear_signatures.
RegisterRebuild ==
  /\ loop.pc = "register"
  /\ Bump({"serial"})
  /\ Go("wipe")
  /\ UNCHANGED <<stored, source, serving, clock, fill>>

\* initialize_cache_schema: rebuild_owned_tables, the DDL and write_meta.  The tables go in one
\* step; a request that reads two of them may still find one before and the other after it.
RebuildTables ==
  /\ loop.pc = "wipe"
  /\ IF meta = fingerprint THEN UNCHANGED <<txs, blocks, marks>>
                           ELSE txs' = {} /\ blocks' = {} /\ marks' = Unmarked
  /\ meta' = fingerprint /\ tables' = TRUE
  /\ Go("adopt")
  /\ UNCHANGED <<source, serving, clock, fill, reader>>

\* It fails between two of its statements; the old fingerprint stays in the table.
RebuildFails ==
  /\ loop.pc = "wipe" /\ "reload fails" \in Upkeep /\ meta # fingerprint
  /\ tables' \in BOOLEAN
  /\ txs' = {} /\ blocks' = {} /\ marks' = Unmarked
  /\ Go("loop")
  /\ UNCHANGED <<meta, source, serving, clock, fill, reader>>

AdoptSchema ==
  /\ loop.pc = "adopt"
  /\ schema' = fingerprint
  /\ Go("reload")
  /\ UNCHANGED <<stored, source, coverage, minRetained, ready, clock, fill, reader>>

\* reload_coverage, in refresh_schema and in open.
ReloadCoverage ==
  /\ loop.pc = "reload"
  /\ coverage' = {s \in Slot : Marked(s)}
  /\ minRetained' = IF coverage' = {} THEN 0 ELSE Min(coverage')
  /\ CallEvict(IF loop.caller = "open" THEN "open" ELSE "rebuild")
  /\ UNCHANGED <<stored, source, ready, schema, clock, fill, reader>>

\* create_tables or reload_coverage fails and the loop sets ready to FALSE, which
\* it is already; a failed open is a restart.
ReloadFails ==
  /\ loop.pc \in {"adopt", "reload"} /\ loop.caller # "open" /\ "reload fails" \in Upkeep
  /\ Go("loop")
  /\ UNCHANGED <<stored, source, serving, clock, fill, reader>>

\* Back in the loop: maybe_evict comes first.
LoopEvicts ==
  /\ loop.pc \in {"top", "loop"}
  /\ CallEvict("loop")
  /\ UNCHANGED <<stored, source, serving, clock, fill, reader>>

(***************************************************************************)
(* maybe_evict.  The floor keeps retain_slots below the newest covered     *)
(* slot.  Over the byte budget it moves up to a partition boundary, and if *)
(* that was not enough past the newest covered slot.                       *)
(***************************************************************************)
WindowFloor(head) == Max({0, head - (Retain - 1)})

\* Mutant: the floor skips a whole partition.
PartitionFloorTooHigh(head) == (Partition(head) + 2) * Width

PartitionFloorAfter(head) == (Partition(head) + 1) * Width

ByteFloors(head) ==
  {floor \in {p * Width : p \in 0..(Partition(head) + 1)} : floor >= WindowFloor(head)}
  \cup {WindowFloor(head)}

EvictBelow(head, floor, budget) ==
  loop' = [loop EXCEPT !.pc = IF floor > minRetained THEN "invalidate" ELSE "evicted",
                       !.head = IF budget = "exceeded" THEN head ELSE 0, !.floor = floor, !.budget = budget]

NothingToEvict ==
  /\ loop.pc = "evict" /\ coverage = {}
  /\ Go("evicted")
  /\ UNCHANGED <<stored, source, serving, clock, fill, reader>>

EvictWindow ==
  /\ loop.pc = "evict" /\ coverage # {}
  /\ EvictBelow(Max(coverage), WindowFloor(Max(coverage)), "met")
  /\ UNCHANGED <<stored, source, serving, clock, fill, reader>>

EvictBytes ==
  /\ loop.pc = "evict" /\ coverage # {} /\ "bytes" \in Upkeep
  /\ \E floor \in ByteFloors(Max(coverage)) : EvictBelow(Max(coverage), floor, "exceeded")
  /\ UNCHANGED <<stored, source, serving, clock, fill, reader>>

PurgeBytes ==
  /\ loop.pc = "evicted" /\ loop.budget = "exceeded"
  /\ EvictBelow(loop.head, PartitionFloorAfter(loop.head), "purged")
  /\ UNCHANGED <<stored, source, serving, clock, fill, reader>>

BudgetStillExceeded ==
  /\ loop.pc = "evicted" /\ loop.budget = "purged"
  /\ ready' = FALSE
  /\ Go("not evicted")
  /\ UNCHANGED <<stored, source, coverage, minRetained, schema, clock, fill, reader>>

\* invalidate_for_eviction with eviction-safe hits, then the Mutation.
BeginEvict ==
  /\ loop.pc = "invalidate"
  /\ Bump({"epoch", "serial"})
  /\ Go("drop txs")
  /\ UNCHANGED <<stored, source, serving, clock, fill>>

Kept(slots) == {s \in slots : Partition(s) >= Partition(loop.floor)}

DropTransactions ==
  /\ loop.pc = "drop txs"
  /\ txs' = Kept(txs)
  /\ Go("drop blocks")
  /\ UNCHANGED <<blocks, marks, meta, tables, source, serving, clock, fill, reader>>

DropBlocks ==
  /\ loop.pc = "drop blocks"
  /\ blocks' = Kept(blocks)
  /\ Go("drop marks")
  /\ UNCHANGED <<txs, marks, meta, tables, source, serving, clock, fill, reader>>

DropMarks ==
  /\ loop.pc = "drop marks"
  /\ marks' = [s \in Slot |-> IF s \in Kept(Slot) THEN marks[s] ELSE NoMark]
  /\ Go("floor")
  /\ UNCHANGED <<txs, blocks, meta, tables, source, serving, clock, fill, reader>>

RaiseFloor ==
  /\ loop.pc = "floor"
  /\ minRetained' = loop.floor
  /\ Go("forget")
  /\ UNCHANGED <<stored, source, coverage, ready, schema, clock, fill, reader>>

ForgetCoverage ==
  /\ loop.pc = "forget"
  /\ coverage' = {s \in coverage : s >= loop.floor}
  /\ Go("evicted")
  /\ UNCHANGED <<stored, source, minRetained, ready, schema, clock, fill, reader>>

DropFails ==
  /\ loop.pc \in {"drop txs", "drop blocks", "drop marks"} /\ "drop fails" \in Upkeep
  /\ Go("not evicted")
  /\ UNCHANGED <<stored, source, serving, clock, fill, reader>>

\* What the caller of maybe_evict does with its result.
Evicted ==
  /\ loop.pc = "evicted"
  /\ ready' = (ready \/ loop.caller \in {"refresh", "rebuild", "open", "round"})
  /\ loop' = [AtTop EXCEPT !.pc = CASE loop.caller \in {"refresh", "rebuild"} -> "loop"
                                    [] loop.caller = "loop" -> "plan"
                                    [] OTHER -> "top"]
  /\ UNCHANGED <<stored, source, coverage, minRetained, schema, clock, fill, reader>>

\* Only the call for a round without ranges leaves ready as it is.
NotEvicted ==
  /\ loop.pc = "not evicted"
  /\ ready' = (ready /\ loop.caller = "no holes")
  /\ loop' = CASE loop.caller = "open"                   -> [AtTop EXCEPT !.pc = "reload", !.caller = "open"]
               [] loop.caller \in {"refresh", "rebuild"} -> [AtTop EXCEPT !.pc = "loop"]
               [] OTHER                                  -> AtTop
  /\ UNCHANGED <<stored, source, coverage, minRetained, schema, clock, fill, reader>>

-----------------------------------------------------------------------------
(***************************************************************************)
(* Planning a round and settling it.                                       *)
(***************************************************************************)
Window == Max({0, tip - (Retain - 1)})..tip

NoHoles ==
  /\ loop.pc = "plan"
  /\ CallEvict("no holes")
  /\ UNCHANGED <<stored, source, serving, clock, fill, reader>>

\* plan_ranges: disjoint runs of uncovered slots, any of which may be given up.
PlannedRounds ==
  {plan \in [Fill -> {lo..hi : lo, hi \in Window}] :
     /\ Cardinality({f \in Fill : plan[f] # {}}) \in 1..scenario.fills
     /\ \A f \in Fill : plan[f] \cap coverage = {}
     /\ \A f, g \in Fill : f # g => plan[f] \cap plan[g] = {}}

\* coverage_from_metadata: a skipped slot is proved by a later block of the source.
Provable(slots) ==
  {s \in slots : s \in Produced \/ \E p \in Produced : s < p /\ p <= tip}

StartRound ==
  /\ loop.pc = "plan"
  /\ \E plan \in PlannedRounds :
       fill' = [f \in Fill |->
                  IF plan[f] = {} THEN NoFill
                  ELSE [pc |-> "begin", range |-> plan[f], publish |-> Provable(plan[f]),
                        version |-> 0]]
  /\ Go("filling")
  /\ UNCHANGED <<stored, source, serving, clock, reader>>

SettleRound ==
  /\ loop.pc = "filling" /\ \A f \in Fill : fill[f].pc = "idle"
  /\ IF loop.succeeded
       THEN CallEvict("round") /\ UNCHANGED ready
       ELSE loop' = AtTop /\ ready' = FALSE
  /\ UNCHANGED <<stored, source, coverage, minRetained, schema, clock, fill, reader>>

(***************************************************************************)
(* The process stops at any point and open starts it again.                *)
(***************************************************************************)
Crash ==
  /\ "crash" \in Upkeep
  /\ coverage' = {} /\ minRetained' = 0 /\ ready' = FALSE
  /\ schema' = fingerprint
  /\ fill' = [f \in Fill |-> NoFill]
  /\ reader' = [r \in Reader |-> Idle]
  /\ IF meta = fingerprint THEN UNCHANGED <<txs, blocks, marks>>
                           ELSE txs' = {} /\ blocks' = {} /\ marks' = Unmarked
  /\ meta' = fingerprint /\ tables' = TRUE
  /\ loop' = [AtTop EXCEPT !.pc = "reload", !.caller = "open"]
  /\ UNCHANGED <<source, clock>>

-----------------------------------------------------------------------------
(***************************************************************************)
(* Requests.  Any of them may fail, at a query or at its deadline.         *)
(***************************************************************************)
At(r, kinds, pc) == reader[r].kind \in kinds /\ reader[r].pc = pc

ReaderGoes(r, to) == reader' = [reader EXCEPT ![r].pc = to]

GivesUp(r) == reader' = [reader EXCEPT ![r] = Idle]

OnlyReader == UNCHANGED <<stored, source, serving, clock, loop, fill>>

\* The first test of ready, or of covers_slot and the coverage for a block or a range.
BeginRequest(r, kind, slots) ==
  /\ reader[r].pc = "idle" /\ ready
  /\ Cardinality({q \in Reader : reader[q].pc # "idle"}) < scenario.readers
  /\ CASE kind = "range"  -> /\ slots # {} /\ slots \subseteq coverage
                             /\ \A s \in slots : s >= minRetained
       [] kind \in {"block", "time"} -> \E s \in coverage : slots = {s} /\ s >= minRetained
       [] kind = "pinned" -> \E s \in Slot : slots = {s}
       [] OTHER           -> slots = {}
  /\ reader' = [reader EXCEPT ![r] = [Idle EXCEPT !.kind = kind, !.slots = slots,
                                        !.pc = CASE kind = "block" -> "rows"
                                                 [] kind = "time"  -> "block status"
                                                 [] OTHER          -> "sample"]]
  /\ OnlyReader

\* epochs, or range_read_token.
Sample(r) ==
  /\ At(r, Kinds, "sample")
  /\ IF reader[r].kind = "range" /\ WriterOverlaps(reader[r].slots)
       THEN GivesUp(r)
       ELSE ReaderGoes(r, IF reader[r].kind = "range" THEN "query" ELSE "span")
  /\ OnlyReader

\* Mutant: a covered span with holes proves absence.
ReadSpanWithHoles(r) ==
  /\ At(r, {"statuses"}, "span")
  /\ reader' = [reader EXCEPT ![r].pc = "query", ![r].slots = CoveredSpan]
  /\ OnlyReader

\* tip_span tests ready; get_signature_statuses reads the covered span without it.
ReadSpan(r) ==
  /\ reader[r].pc = "span"
  /\ CASE At(r, {"address"}, "span") /\ ready /\ coverage # {} ->
            reader' = [reader EXCEPT ![r].pc = "query", ![r].slots = TipSpan]
       [] At(r, {"statuses"}, "span") /\ CoveredSpan = coverage ->
            reader' = [reader EXCEPT ![r].pc = "query", ![r].slots = coverage]
       [] At(r, {"pinned"}, "span") /\ (\A s \in reader[r].slots : CoversSlot(s)) ->
            ReaderGoes(r, "query")
       [] OTHER -> GivesUp(r)
  /\ OnlyReader

QueryTransactions(r) ==
  /\ At(r, {"address", "statuses", "pinned"}, "query")
  /\ reader' = [reader EXCEPT ![r].seen = reader[r].slots \cap txs,
                              ![r].pc = CASE reader[r].kind = "address" -> "page"
                                          [] reader[r].kind = "pinned" -> "status"
                                          [] OTHER -> "valid"]
  /\ OnlyReader

\* address_page: the tip span still contains the sampled one, the rows are covered.
BuildPage(r) ==
  /\ At(r, {"address"}, "page")
  /\ IF /\ ready /\ coverage # {} /\ reader[r].slots \subseteq TipSpan
        /\ \A s \in reader[r].seen : CoversSlot(s)
       THEN ReaderGoes(r, "valid")
       ELSE GivesUp(r)
  /\ OnlyReader

\* absent_at and slot_status; a transaction that was found skips it.
ReadPinnedStatus(r) ==
  /\ At(r, {"pinned"}, "status")
  /\ IF reader[r].seen # {} \/ \A s \in reader[r].slots : CoversSlot(s) /\ Marked(s)
       THEN ReaderGoes(r, "valid")
       ELSE GivesUp(r)
  /\ OnlyReader

\* Mutant: only readiness is tested again, not the epoch.
AnswerIgnoringEpoch(r) ==
  /\ At(r, {"address", "statuses", "pinned"}, "valid")
  /\ IF ready THEN ReaderGoes(r, "answered") ELSE GivesUp(r)
  /\ OnlyReader

\* Mutant: a pinned read is validated as if it had always found its row.
AnswerPinnedWhenReady(r) ==
  /\ At(r, {"address", "statuses", "pinned"}, "valid")
  /\ IF ready /\ (reader[r].kind = "pinned" \/ "epoch" \notin reader[r].moved)
       THEN ReaderGoes(r, "answered") ELSE GivesUp(r)
  /\ OnlyReader

\* valid_read, or read_change and transaction_outcome for a pinned transaction.
Answer(r) ==
  /\ At(r, {"address", "statuses", "pinned"}, "valid")
  /\ IF \/ ready /\ "epoch" \notin reader[r].moved
        \/ /\ reader[r].kind = "pinned" /\ reader[r].seen # {}
           /\ ready /\ "data" \notin reader[r].moved
           /\ \A s \in reader[r].seen : CoversSlot(s)
       THEN reader' = [reader EXCEPT ![r].pc = "answered",
                         ![r].slots = IF reader[r].kind = "statuses"
                                      THEN {s \in @ : s >= minRetained} ELSE @]
       ELSE GivesUp(r)
  /\ OnlyReader

\* Mutant: a slot without a coverage row counts as skipped.
QueryMarksWithGaps(r) ==
  /\ At(r, {"range"}, "query")
  /\ reader' = [reader EXCEPT ![r].pc = "check",
                  ![r].seen = {s \in reader[r].slots : marks[s].status = 1}]
  /\ OnlyReader

\* read_covered_interval: one query of the marks between two equal tokens.
QueryMarks(r) ==
  /\ At(r, {"range"}, "query")
  /\ IF \A s \in reader[r].slots : Marked(s)
       THEN reader' = [reader EXCEPT ![r].pc = "check",
                         ![r].seen = {s \in reader[r].slots : marks[s].status = 1}]
       ELSE GivesUp(r)
  /\ OnlyReader

CheckRange(r) ==
  /\ At(r, {"range"}, "check")
  /\ IF /\ ~WriterOverlaps(reader[r].slots) /\ reader[r].moved \cap {"epoch", "serial"} = {}
        /\ ready /\ \A s \in reader[r].slots : s >= minRetained /\ s \in coverage
       THEN ReaderGoes(r, "answered")
       ELSE GivesUp(r)
  /\ OnlyReader

Finish(r) ==
  /\ reader[r].pc \in {"sample", "span", "query", "page", "status", "valid", "check", "rows",
                       "block status", "time", "answered"}
  /\ GivesUp(r)
  /\ OnlyReader

-----------------------------------------------------------------------------
(***************************************************************************)
(* get_block reads the block row and the transactions concurrently, and    *)
(* poisons a covered slot whose rows do not match.                         *)
(***************************************************************************)
ReadBlockRow(r) ==
  /\ At(r, {"block"}, "rows") /\ "block" \notin reader[r].seen
  /\ reader' = IF reader[r].slots \subseteq blocks
               THEN [reader EXCEPT ![r].seen = @ \cup {"block"}]
               ELSE [reader EXCEPT ![r].pc = "block status"]
  /\ OnlyReader

ReadBlockTransactions(r) ==
  /\ At(r, {"block"}, "rows") /\ reader[r].seen \cap {"all", "missing"} = {}
  /\ reader' = [reader EXCEPT ![r].seen = @ \cup
                  {IF reader[r].slots \subseteq txs THEN "all" ELSE "missing"}]
  /\ OnlyReader

\* Mutant: a covered slot without a block row is skipped.
MissingRowIsSkipped(r) ==
  /\ At(r, {"block"}, "block status")
  /\ \E s \in reader[r].slots :
       IF CoversSlot(s) /\ Marked(s)
         THEN reader' = [reader EXCEPT ![r].pc = "answered", ![r].mark = 2]
         ELSE GivesUp(r)
  /\ OnlyReader

\* slot_status: of a block without a block row, and first of all for a block time.
ReadBlockStatus(r) ==
  /\ At(r, {"block", "time"}, "block status")
  /\ \E s \in reader[r].slots :
       CASE CoversSlot(s) /\ marks[s].status = 2 ->
              reader' = [reader EXCEPT ![r].pc = "answered", ![r].mark = 2]
         [] CoversSlot(s) /\ marks[s].status = 1 ->
              ReaderGoes(r, IF reader[r].kind = "time" THEN "time" ELSE "poison")
         [] OTHER -> GivesUp(r)
  /\ OnlyReader

AnswerBlock(r) ==
  /\ At(r, {"block"}, "rows") /\ "block" \in reader[r].seen
  /\ reader[r].seen \cap {"all", "missing"} # {}
  /\ reader' = [reader EXCEPT ![r].pc = IF "all" \in reader[r].seen THEN "answered" ELSE "poison",
                              ![r].mark = 1]
  /\ OnlyReader

\* TransactionDetails::None joins no read of the transactions.
AnswerMetadata(r) ==
  /\ At(r, {"block"}, "rows") /\ reader[r].seen = {"block"}
  /\ reader' = [reader EXCEPT ![r].pc = "answered", ![r].mark = 1]
  /\ OnlyReader

AnswerTime(r) ==
  /\ At(r, {"time"}, "time")
  /\ reader' = [reader EXCEPT ![r].mark = 1,
                  ![r].pc = IF reader[r].slots \subseteq blocks THEN "answered" ELSE "poison"]
  /\ OnlyReader

BeginPoison(r) ==
  /\ reader[r].pc = "poison"
  /\ BumpFrom(r, "register", Invalidate)
  /\ OnlyReader

RegisterPoison(r) ==
  /\ reader[r].pc = "register"
  /\ BumpFrom(r, "remove", {"serial"})
  /\ OnlyReader

PoisonCoverage(r) ==
  /\ reader[r].pc = "remove"
  /\ coverage' = coverage \ reader[r].slots
  /\ ReaderGoes(r, "stamp")
  /\ UNCHANGED <<stored, source, minRetained, ready, schema, clock, loop, fill>>

StampPoison(r) ==
  /\ reader[r].pc = "stamp" /\ Tick
  /\ reader' = [reader EXCEPT ![r].pc = "mark", ![r].version = clock + 1]
  /\ UNCHANGED <<stored, source, serving, loop, fill>>

\* The insert is stored, or fails and is only logged; the guard drops.
StorePoison(r) ==
  /\ reader[r].pc = "mark"
  /\ \/ tables /\ Mark(reader[r].slots, [s \in Slot |-> 0], reader[r].version)
     \/ "drop fails" \in Upkeep /\ UNCHANGED marks
  /\ GivesUp(r)
  /\ UNCHANGED <<txs, blocks, meta, tables, source, serving, clock, loop, fill>>

-----------------------------------------------------------------------------
\* open has just created the tables.
Init ==
  /\ scenario \in Scenario
  /\ txs = {} /\ blocks = {} /\ marks = Unmarked /\ meta = 0 /\ tables = TRUE
  /\ tip = 0 /\ fingerprint = 0
  /\ coverage = {} /\ minRetained = 0 /\ ready = TRUE /\ schema = 0
  /\ clock = 0
  /\ loop = AtTop
  /\ fill = [f \in Fill |-> NoFill]
  /\ reader = [r \in Reader |-> Idle]

FillNext(f) ==
  \/ BeginFill(f) \/ ForwardTransactions(f) \/ ValidateCounts(f) \/ ForwardBlocks(f)
  \/ StampCoverage(f) \/ StoreCoverage(f) \/ PublishCoverage(f)
  \/ FillFails(f)

LoopNext ==
  \/ RefreshUnchanged \/ BeginRebuild \/ RegisterRebuild \/ RebuildTables \/ RebuildFails
  \/ AdoptSchema \/ ReloadCoverage \/ ReloadFails
  \/ LoopEvicts \/ NothingToEvict \/ EvictWindow \/ EvictBytes \/ PurgeBytes
  \/ BudgetStillExceeded \/ BeginEvict \/ DropTransactions \/ DropBlocks \/ DropMarks
  \/ RaiseFloor \/ ForgetCoverage \/ DropFails \/ Evicted \/ NotEvicted
  \/ NoHoles \/ StartRound \/ SettleRound
  \/ Crash

ReaderNext(r) ==
  \/ \E kind \in Kinds, slots \in {lo..hi : lo, hi \in 0..scenario.last} : BeginRequest(r, kind, slots)
  \/ Sample(r) \/ ReadSpan(r) \/ QueryTransactions(r) \/ BuildPage(r) \/ ReadPinnedStatus(r)
  \/ Answer(r) \/ QueryMarks(r) \/ CheckRange(r) \/ Finish(r)
  \/ ReadBlockRow(r) \/ ReadBlockTransactions(r) \/ ReadBlockStatus(r) \/ AnswerBlock(r)
  \/ AnswerMetadata(r) \/ AnswerTime(r)
  \/ BeginPoison(r) \/ RegisterPoison(r) \/ PoisonCoverage(r) \/ StampPoison(r)
  \/ StorePoison(r)

Next ==
  \/ SourceAdvances \/ SchemaChanges
  \/ \E f \in Fill : FillNext(f)
  \/ LoopNext
  \/ \E r \in Reader : ReaderNext(r)

Spec == Init /\ [][Next]_vars

-----------------------------------------------------------------------------
(***************************************************************************)
(* Properties.                                                             *)
(***************************************************************************)
\* No floor passes the end of the last partition (partition_floor_after).
FloorWithinReach ==
  minRetained <= scenario.last + Width /\ loop.floor <= scenario.last + Width

Answered(kind) == {r \in Reader : reader[r].kind = kind /\ reader[r].pc = "answered"}

\* getSignaturesForAddress: a page that was answered lists every transaction of the
\* slots the disk tier claimed to cover.
AddressPagesComplete ==
  \A r \in Answered("address") : reader[r].seen = reader[r].slots \cap Produced

\* getSignatureStatuses: absence over a span is answered only where nothing is.
StatusAbsenceTrue ==
  \A r \in Answered("statuses") : reader[r].slots \cap Produced \subseteq reader[r].seen

\* getTransaction at a known slot: Absent only if the slot has no transaction.
PinnedAbsenceTrue ==
  \A r \in Answered("pinned") : reader[r].slots \cap Produced \subseteq reader[r].seen

\* getBlocks: an interval proved by read_covered_interval lists exactly its blocks.
RangeProofsTrue ==
  \A r \in Answered("range") : reader[r].seen = reader[r].slots \cap Produced

\* getBlock and getBlockTime: Skipped only for a slot the source skipped, Found only for a block.
BlockAnswersTrue ==
  \A r \in Answered("block") \cup Answered("time") :
    IF reader[r].mark = 2 THEN reader[r].slots \cap Produced = {} ELSE reader[r].slots \subseteq Produced

\* Nothing of the filler loop or of a poisoning request is under way.
Quiescent ==
  /\ loop.pc = "top" /\ \A f \in Fill : fill[f].pc = "idle"
  /\ \A r \in Reader : reader[r].pc \notin {"poison", "register", "remove", "stamp", "mark"}

\* What is served has its rows stored, whatever was interrupted before.
ServedIsStored ==
  Quiescent /\ ready => \A s \in coverage : s >= minRetained => Stored(s)

\* What is served has its rows stored through fills, poisons, rebuilds and restarts, as
\* long as no byte budget evicts and no refresh fails half way.
ServedUnlessInterrupted ==
  Upkeep \cap {"bytes", "reload fails"} = {} => ServedIsStored

\* getBlocks, getBlock and getBlockTime: a proved interval lists exactly the blocks of
\* the source, a slot is answered as skipped or found only where it is one, whatever
\* poison, eviction or rebuild passes between the snapshot and the answer.
BlocksTrue == RangeProofsTrue /\ BlockAnswersTrue

\* getTransaction and getSignatureStatuses: absence is answered only where nothing is,
\* although rows and marks change between the reads of a request.
AbsenceTrue == PinnedAbsenceTrue /\ StatusAbsenceTrue

\* Retention keeps what it serves: neither fills, poisons, rebuilds and restarts nor the
\* rounding of an eviction floor leave coverage without rows or a floor beyond the data.
RetentionSound == ServedUnlessInterrupted /\ FloorWithinReach
=============================================================================
