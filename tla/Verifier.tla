------------------------------ MODULE Verifier ------------------------------
(***************************************************************************)
(* The archive verifier (superbank-verify): windows of slots are fetched   *)
(* ahead, every block is checked on its own, the chain is walked from      *)
(* block to block, findings go to a report and progress to a checkpoint.   *)
(* The process may end between any two steps and is started again, for a   *)
(* live range with a later tip, or once the Alpenglow boundary is known.   *)
(*                                                                         *)
(* A hash is the sequence of the steps that led to it, so that different   *)
(* inputs never collide.  The tables are not changed at or below the tip   *)
(* they had, so a window is its bounds.  Lines of the report are a set: a  *)
(* window that is done again writes its lines again.                       *)
(***************************************************************************)
EXTENDS Integers, Sequences, SequencesExt, FiniteSetsExt

CONSTANTS
  Configs,             \* jobs and the tables they are run on, see config
  TicksPerSlot,        \* ticks_per_slot
  MaxEntryNumHashes,   \* MAX_ENTRY_NUM_HASHES
  MaxStarts            \* bound: how often the job is started

VARIABLES
  config,   \* the job's arguments and the rows the tables hold in the end
  db,       \* the newest slot ingested
  run,      \* the process
  stored    \* the checkpoint and the report file

vars == <<config, db, run, stored>>

\* A row of blocks_metadata with the entries and signatures of its slot:
\* [parent, hash, parent_hash, executed, entry_count, entries, signatures].
rows == config.rows
Table == {s \in DOMAIN rows : s <= db}

Larger(a, b) == IF a > b THEN a ELSE b
Smaller(a, b) == IF a < b THEN a ELSE b

-----------------------------------------------------------------------------
(* Verification of one block (verify/). *)

IsTick(e) == e.transaction_count = 0

next_hash(start, num_hashes, mixin) ==
  IF num_hashes = 0 /\ mixin = <<>> THEN start
  ELSE start \o [i \in 1 .. Larger(num_hashes - 1, 0) |-> <<>>] \o (IF mixin = <<>> THEN <<<<>>>> ELSE mixin)

expected_tick_count(slot, parent_slot) ==
  IF slot = 0 THEN TicksPerSlot ELSE Larger(slot - parent_slot, 0) * TicksPerSlot

value_at(slot) ==
  LET at == {i \in 1 .. Len(config.eras) : config.eras[i][1] <= slot}
  IN  IF at = {} THEN 0 ELSE config.eras[Max(at)][2]

check_ticks(slot, b, alpenglow) ==
  LET ticks == Cardinality({i \in 1 .. Len(b.entries) : IsTick(b.entries[i])})
  IN  IF ticks = (IF alpenglow THEN 1 ELSE expected_tick_count(slot, b.parent))
      THEN {} ELSE {"TickCountMismatch"}

check_last_entry(b) ==
  LET last == b.entries[Len(b.entries)]
  IN  (IF IsTick(last) THEN {} ELSE {"TrailingEntry"})
      \cup (IF last.hash = b.hash THEN {} ELSE {"BlockhashMismatch"})

\* Mutant of TickHashes: the count goes on behind a tick.
TickHashesNotReset(entries) ==
  LET count[i \in 0 .. Len(entries)] == IF i = 0 THEN 0 ELSE entries[i].num_hashes + count[i - 1]
  IN  count

\* tick_hash_count after each entry: it starts anew behind a tick.
TickHashes(entries) ==
  LET count[i \in 0 .. Len(entries)] ==
        IF i = 0 THEN 0
        ELSE entries[i].num_hashes + (IF i > 1 /\ IsTick(entries[i - 1]) THEN 0 ELSE count[i - 1])
  IN  count

check_hash_counts(slot, b, alpenglow) ==
  LET es == b.entries
      wrong(i) ==
        IF alpenglow THEN es[i].num_hashes # 1
        ELSE /\ value_at(slot) > 0 /\ IsTick(es[i])
             /\ es[i].num_hashes = 0 \/ TickHashes(es)[i] # value_at(slot)
  IN  IF \E i \in 1 .. Len(es) : wrong(i) THEN {"TickHashCountMismatch"} ELSE {}

check_transaction_ranges(b) ==
  LET es == b.entries
      expected[i \in 1 .. Len(es) + 1] ==
        IF i = 1 THEN 0 ELSE expected[i - 1] + es[i - 1].transaction_count
  IN  IF /\ \A i \in 1 .. Len(es) : es[i].starting_transaction_index = expected[i]
         /\ expected[Len(es) + 1] = b.executed
      THEN {} ELSE {"TxIndexMismatch"}

check_structure_in_era(slot, b, alpenglow) ==
  LET gap == \E i \in 1 .. Len(b.entries) : b.entries[i].entry_index # i - 1
      counted == b.entry_count = 0 \/ Len(b.entries) = b.entry_count
  IN  (IF counted THEN {} ELSE {"EntryCountMismatch"})
      \cup (IF gap THEN {"EntryIndexGap"}
            ELSE check_ticks(slot, b, alpenglow) \cup check_last_entry(b)
                 \cup check_hash_counts(slot, b, alpenglow) \cup check_transaction_ranges(b))

TransactionsOf(e) == e.starting_transaction_index .. e.starting_transaction_index + e.transaction_count - 1

\* The signatures of an entry in order, as one step of the hash chain.
entry_mixin(b, e) ==
  IF IsTick(e) THEN <<>>
  ELSE <<FlattenSeq([k \in 1 .. e.transaction_count |-> b.signatures[e.starting_transaction_index + k - 1]])>>

verify_entry(b, i) ==
  LET e == b.entries[i]
      prev == IF i = 1 THEN b.parent_hash ELSE b.entries[i - 1].hash
  IN  (IF e.num_hashes = 0 THEN {"ZeroNumHashesEntry"} ELSE {})
      \cup (CASE e.num_hashes > MaxEntryNumHashes -> {"NumHashesOutOfRange"}
              [] e.num_hashes <= MaxEntryNumHashes /\ ~(TransactionsOf(e) \subseteq DOMAIN b.signatures) ->
                   {"MissingTransactions"}
              [] OTHER -> IF next_hash(prev, e.num_hashes, entry_mixin(b, e)) = e.hash
                          THEN {} ELSE {"EntryHashMismatch"})

verify_hash_chain(b) == UNION {verify_entry(b, i) : i \in 1 .. Len(b.entries)}

verify_block_in_era(mode, slot, b, alpenglow) ==
  LET structure == check_structure_in_era(slot, b, alpenglow)
  IN  structure \cup (IF mode = "full" /\ "EntryIndexGap" \notin structure
                      THEN verify_hash_chain(b) ELSE {})

\* Mutant of verify_window: the last slot with ticks is taken for the first without.
VerifyWindowAtBoundary(job, slot) ==
  IF rows[slot].entries = <<>> THEN {"MissingEntries"}
  ELSE verify_block_in_era(job.mode, slot, rows[slot],
                           \E g \in ToSet(job.alpenglow_genesis_block) : slot >= g)

verify_window(job, slot) ==
  IF rows[slot].entries = <<>> THEN {"MissingEntries"}
  ELSE verify_block_in_era(job.mode, slot, rows[slot],
                           \E g \in ToSet(job.alpenglow_genesis_block) : slot > g)

-----------------------------------------------------------------------------
(* Classes, statuses and the exit code (report.rs). *)

UnverifiableCodes == {"MissingEntries", "MissingTransactions", "MissingParent", "MissingBlock", "AnchorNotChecked"}
WarnCodes == {"ZeroNumHashesEntry"}

class(code) ==
  CASE code \in UnverifiableCodes -> "Unverifiable"
    [] code \in WarnCodes -> "Warn"
    [] OTHER -> "Fail"

slot_status(codes) ==
  LET classes == {class(c) : c \in codes}
  IN  CASE "Fail" \in classes -> "failed"
        [] "Fail" \notin classes /\ "Unverifiable" \in classes -> "unverifiable"
        [] OTHER -> "ok"

RunCounters ==
  [ok |-> 0, failed |-> 0, unverifiable |-> 0, skipped |-> 0, missing |-> 0, orphan |-> 0, anchors |-> 0]

failure_count(k) == k.failed + k.orphan

exit_code(k) ==
  IF failure_count(k) > 0 THEN 2
  ELSE IF k.unverifiable + k.missing + k.anchors > 0 THEN 3 ELSE 0

Line(slot, code) == [slot |-> slot, code |-> code]

-----------------------------------------------------------------------------
(* ChainWalk (chain.rs).  An Option is a sequence of at most one value. *)

\* Mutant of from_checkpoint: anchors compared before the restart are forgotten.
FromCheckpointForgetful(floor, checked, pinned) ==
  [prev |-> <<>>, floor |-> floor, checked_anchors |-> {}, genesis_checked |-> FALSE]

from_checkpoint(floor, checked, pinned) ==
  [prev |-> <<>>, floor |-> floor, checked_anchors |-> checked, genesis_checked |-> pinned]

seed(walk, slot) ==
  IF walk.prev # <<>> THEN walk ELSE [walk EXCEPT !.prev = <<[slot |-> slot, hash |-> rows[slot].hash]>>]

\* The slots up to upper that the walk has not classified, as a later block with
\* parent claim sees them.
classify_interval(walk, upper, claim) ==
  LET lower == IF walk.prev = <<>> THEN walk.floor ELSE Larger(walk.prev[1].slot + 1, walk.floor)
  IN  [missing |-> lower .. Smaller(claim, upper), skipped |-> Larger(claim + 1, lower) .. upper]

check_linkage(walk, b) ==
  CASE walk.prev = <<>> -> {"MissingParent"}
    [] walk.prev # <<>> /\ b.parent = walk.prev[1].slot ->
         IF b.parent_hash = walk.prev[1].hash THEN {} ELSE {"ChainBreak"}
    [] walk.prev # <<>> /\ b.parent > walk.prev[1].slot -> {"MissingParent"}
    [] OTHER -> {"ParentSlotMismatch"}

\* What a block says about its place in the chain: slot 0, a parent that cannot be, or a link.
check_place(job, walk, slot, b) ==
  CASE slot = 0 ->
         (IF b.parent = 0 THEN {} ELSE {"ParentSlotMismatch"})
         \cup (IF \A pin \in ToSet(job.expected_genesis_hash) : b.parent_hash = pin THEN {} ELSE {"GenesisHashMismatch"})
    [] slot > 0 /\ b.parent >= slot -> {"ParentSlotMismatch"}
    [] OTHER -> check_linkage(walk, b)

observe_block(job, walk, slot) ==
  LET b == rows[slot]
      interval == IF slot = 0 \/ b.parent >= slot THEN [missing |-> {}, skipped |-> {}]
                  ELSE classify_interval(walk, slot - 1, b.parent)
      anchored == slot \in DOMAIN job.anchors
  IN  [interval |-> interval,
       codes |-> check_place(job, walk, slot, b)
                 \cup (IF anchored /\ job.anchors[slot] # b.hash THEN {"AnchorMismatch"} ELSE {}),
       walk |-> [walk EXCEPT
                   !.prev = <<[slot |-> slot, hash |-> b.hash]>>,
                   !.checked_anchors = IF anchored THEN @ \cup {slot} ELSE @,
                   !.genesis_checked = @ \/ (slot = 0 /\ job.expected_genesis_hash # <<>>)]]

MissingLine(interval) ==
  IF interval.missing = {} THEN {} ELSE {Line(Min(interval.missing), "MissingBlock")}

account_spans(k, interval) ==
  [k EXCEPT !.skipped = @ + Cardinality(interval.skipped), !.missing = @ + Cardinality(interval.missing)]

-----------------------------------------------------------------------------
(* The pipeline (runner.rs). *)

Down(starts) == [pc |-> "down", starts |-> starts]
Up == run.pc \in {"receive", "save", "tail", "finish"}

\* Mutant of matches_resume: the boundary is taken over whenever it becomes known.
MatchesResumeLate(saved, current, next_start) ==
  LET tip == IF config.full /\ current.end >= saved.end THEN current.end ELSE saved.end
      genesis == IF saved.alpenglow_genesis_block = <<>> THEN current.alpenglow_genesis_block
                 ELSE saved.alpenglow_genesis_block
  IN  [saved EXCEPT !.end = tip, !.alpenglow_genesis_block = genesis] = current

\* matches_resume: the same job, but for a later tip of a live range and a boundary
\* that becomes known before a slot behind it was accounted.
matches_resume(saved, current, next_start) ==
  LET tip == IF config.full /\ current.end >= saved.end THEN current.end ELSE saved.end
      genesis == IF /\ saved.alpenglow_genesis_block = <<>>
                    /\ \E g \in ToSet(current.alpenglow_genesis_block) : next_start <= g + 1
                 THEN current.alpenglow_genesis_block ELSE saved.alpenglow_genesis_block
  IN  [saved EXCEPT !.end = tip, !.alpenglow_genesis_block = genesis] = current

resolve_range ==
  IF config.full THEN [start |-> Min(Table), end |-> Max(Table)]
  ELSE [start |-> config.start, end |-> config.end]

Descriptor(settings, genesis) ==
  [start |-> resolve_range.start, end |-> resolve_range.end, alpenglow_genesis_block |-> genesis,
   mode |-> settings.mode, anchors |-> settings.anchors, expected_genesis_hash |-> settings.pin,
   audit |-> settings.audit]

\* run up to the spawn of the fetcher, continuing from cursor.
Begin(job, cursor, counters, checked, pinned) ==
  [pc |-> IF cursor > job.end THEN "done" ELSE "receive", starts |-> run.starts + 1, job |-> job,
   cursor |-> cursor, fetch |-> cursor, need_parent_seed |-> TRUE, windows |-> <<>>,
   walk |-> from_checkpoint(cursor, checked, pinned), counters |-> counters, aborted |-> FALSE]

Fresh(job) ==
  /\ run' = Begin(job, job.start, RunCounters, {}, FALSE)
  /\ stored' = [stored EXCEPT !.report = {}]

load_for_resume(job) ==
  LET c == stored.checkpoint[1]
  IN  IF matches_resume(c.descriptor, job, c.next_start)
      THEN /\ run' = Begin(job, c.next_start, c.counters, c.checked_anchors, c.genesis_checked)
           /\ stored' = [stored EXCEPT
                !.checkpoint[1].descriptor.alpenglow_genesis_block = job.alpenglow_genesis_block]
      ELSE run' = Down(run.starts + 1) /\ UNCHANGED stored

Start ==
  /\ ~Up /\ run.starts < MaxStarts
  /\ \E settings \in config.settings, genesis \in config.boundary :
       LET job == Descriptor(settings, genesis)
       IN  IF config.resume /\ stored.checkpoint # <<>> THEN load_for_resume(job) ELSE Fresh(job)
  /\ UNCHANGED <<config, db>>

\* A window as it is read: the first one with a block brings the block's parent.
fetch_window(start, end, need_parent_seed) ==
  LET blocks == {s \in Table : start <= s /\ s <= end}
      first == Min(blocks)
  IN  [failed |-> FALSE, start |-> start, end |-> end, empty |-> blocks = {},
       parent_seed |-> IF need_parent_seed /\ blocks # {} /\ first # 0 /\ rows[first].parent < start
                       THEN {rows[first].parent} \cap Table ELSE {}]

\* The fetcher: a window is put into the channel, which has room for fetch_ahead, or
\* waits to be.
Fetch ==
  /\ Up /\ run.fetch <= run.job.end /\ Len(run.windows) <= config.fetch_ahead
  /\ LET end == Smaller(run.job.end, run.fetch + config.window_slots - 1)
         window == fetch_window(run.fetch, end, run.need_parent_seed)
     IN  run' = [run EXCEPT
           !.windows = Append(@, window), !.need_parent_seed = @ /\ window.empty, !.fetch = end + 1]
  /\ UNCHANGED <<config, db, stored>>

FetchFails ==
  /\ Up /\ run.fetch <= run.job.end /\ Len(run.windows) <= config.fetch_ahead
  /\ run' = [run EXCEPT !.windows = Append(@, [failed |-> TRUE]), !.fetch = run.job.end + 1]
  /\ UNCHANGED <<config, db, stored>>

\* One block of a window: the chain's findings, the block's own, duplicates.
AccountBlock(job, state, slot) ==
  LET seen == observe_block(job, state.walk, slot)
      own == verify_window(job, slot)
      duplicate == IF job.audit /\ slot \in config.conflicts THEN {"DuplicateConflict"} ELSE {}
      missing == MissingLine(seen.interval)
      codes == seen.codes \cup own \cup duplicate \cup {l.code : l \in missing}
      k == account_spans(state.counters, seen.interval)
      counters == [k EXCEPT ![slot_status(codes)] = @ + 1]
  IN  [walk |-> seen.walk, counters |-> counters,
       report |-> state.report \cup missing \cup {Line(slot, c) : c \in seen.codes \cup own \cup duplicate},
       aborted |-> state.aborted \/ (config.max_failures > 0 /\ failure_count(counters) >= config.max_failures)]

\* The body of the receive loop up to report.flush.
ReceiveWindow ==
  /\ run.pc = "receive" /\ run.windows # <<>> /\ ~Head(run.windows).failed
  /\ LET w == Head(run.windows)
         slots == SetToSortSeq({s \in Table : w.start <= s /\ s <= w.end}, <)
         seeded == IF w.parent_seed = {} THEN run.walk ELSE seed(run.walk, Max(w.parent_seed))
         done == FoldLeft(LAMBDA state, s : AccountBlock(run.job, state, s),
                          [walk |-> seeded, counters |-> run.counters, report |-> stored.report,
                           aborted |-> run.aborted], slots)
         orphans == IF run.job.audit THEN {s \in config.conflicts : w.start <= s /\ s <= w.end} \ Table ELSE {}
     IN  /\ run' = [run EXCEPT !.pc = "save", !.windows = Tail(@), !.walk = done.walk, !.aborted = done.aborted,
                               !.counters = [done.counters EXCEPT !.orphan = @ + Cardinality(orphans)]]
         /\ stored' = [stored EXCEPT
                         !.report = done.report \cup {Line(s, "DuplicateConflict") : s \in orphans}]
  /\ UNCHANGED <<config, db>>

ReceiveFailure ==
  /\ run.pc = "receive" /\ run.windows # <<>> /\ Head(run.windows).failed
  /\ run' = Down(run.starts)
  /\ UNCHANGED <<config, db, stored>>

checkpoint_state(next_start) ==
  [descriptor |-> run.job, next_start |-> next_start, counters |-> run.counters,
   checked_anchors |-> run.walk.checked_anchors, genesis_checked |-> run.walk.genesis_checked]

\* Mutant of accounted_through: the slots of the window are taken to be accounted.
AccountedThroughWindow ==
  IF run.windows = <<>> THEN run.fetch ELSE Head(run.windows).start

\* Slots after the last block await the next block's claim: they are not passed.
accounted_through ==
  IF run.walk.prev = <<>> THEN run.cursor ELSE Larger(run.walk.prev[1].slot + 1, run.cursor)

Save ==
  /\ run.pc = "save"
  /\ stored' = IF config.checkpoint THEN [stored EXCEPT !.checkpoint = <<checkpoint_state(accounted_through)>>]
               ELSE stored
  /\ run' = [run EXCEPT !.pc = IF run.aborted THEN "aborted" ELSE "receive"]
  /\ UNCHANGED <<config, db>>

ReceiveEnd ==
  /\ run.pc = "receive" /\ run.windows = <<>> /\ run.fetch > run.job.end
  /\ run' = [run EXCEPT !.pc = "tail"]
  /\ UNCHANGED <<config, db, stored>>

\* The slots behind the last block, by the claim of the first block beyond the range.
observe_tail(walk, end) ==
  LET next == {s \in Table : s > end}
  IN  classify_interval(walk, end, IF next = {} THEN end ELSE rows[Min(next)].parent)

\* The tail, and the anchors no block met.
CloseRange ==
  /\ run.pc = "tail"
  /\ LET interval == observe_tail(run.walk, run.job.end)
         unchecked == DOMAIN run.job.anchors \ run.walk.checked_anchors
     IN  /\ run' = [run EXCEPT !.pc = "finish",
                      !.counters = [account_spans(@, interval) EXCEPT !.anchors = @ + Cardinality(unchecked)]]
         /\ stored' = [stored EXCEPT
              !.report = @ \cup MissingLine(interval) \cup {Line(s, "AnchorNotChecked") : s \in unchecked}]
  /\ UNCHANGED <<config, db>>

Finish ==
  /\ run.pc = "finish"
  /\ stored' = IF config.checkpoint THEN [stored EXCEPT !.checkpoint = <<checkpoint_state(run.job.end + 1)>>]
               ELSE stored
  /\ run' = [run EXCEPT !.pc = "done"]
  /\ UNCHANGED <<config, db>>

\* The process is killed, or ends because a file cannot be written.
Kill ==
  /\ Up
  /\ run' = Down(run.starts)
  /\ UNCHANGED <<config, db, stored>>

\* The ingestor writes the next block.
Ingest ==
  /\ DOMAIN rows \ Table # {}
  /\ db' = Min(DOMAIN rows \ Table)
  /\ UNCHANGED <<config, run, stored>>

Init ==
  /\ config \in Configs
  /\ db = config.tip
  /\ run = Down(0)
  /\ stored = [checkpoint |-> <<>>, report |-> {}]

Next ==
  \/ Start \/ Fetch \/ FetchFails \/ ReceiveWindow \/ ReceiveFailure \/ Save
  \/ ReceiveEnd \/ CloseRange \/ Finish \/ Kill \/ Ingest

Spec == Init /\ [][Next]_vars

-----------------------------------------------------------------------------
(* What the tables say about a slot, without walking them. *)

Sum(entries, I, field) == MapThenSumSet(LAMBDA i : entries[i][field], I)

\* The hash of e goes on from prev by its number of steps, the last with the signatures.
ChainedFrom(prev, b, e) ==
  LET first == Min(TransactionsOf(e))
      signed == FlattenSeq([k \in 1 .. Cardinality(TransactionsOf(e)) |-> b.signatures[first + k - 1]])
  IN  /\ IsPrefix(prev, e.hash)
      /\ Len(e.hash) - Len(prev) = IF IsTick(e) THEN e.num_hashes ELSE Larger(e.num_hashes, 1)
      /\ \A j \in Len(prev) + 1 .. Len(e.hash) :
           e.hash[j] = IF j = Len(e.hash) /\ ~IsTick(e) THEN signed ELSE <<>>

\* The entries of a block are a complete stream of its era, chained from the parent's hash.
SoundEntries(job, slot, b) ==
  LET es == b.entries
      I == 1 .. Len(es)
      ticks == {i \in I : IsTick(es[i])}
      since(i) == {j \in I : j <= i /\ \A t \in ticks : t < i => j > t}
      alpenglow == \E g \in ToSet(job.alpenglow_genesis_block) : g < slot
      covered == IF slot = 0 THEN 1 ELSE slot - b.parent
  IN  /\ \A i \in I : es[i].entry_index = i - 1
      /\ b.entry_count \in {0, Len(es)}
      /\ Cardinality(ticks) = IF alpenglow THEN 1 ELSE covered * TicksPerSlot
      /\ Len(es) \in ticks /\ es[Len(es)].hash = b.hash
      /\ alpenglow => \A i \in I : es[i].num_hashes = 1
      /\ ~alpenglow => \A k \in DOMAIN config.eras :
           /\ config.eras[k][1] <= slot /\ config.eras[k][2] # 0
           /\ k < Len(config.eras) => config.eras[k + 1][1] > slot
           => \A i \in ticks : es[i].num_hashes > 0 /\ Sum(es, since(i), "num_hashes") = config.eras[k][2]
      /\ \A i \in I : es[i].starting_transaction_index = Sum(es, 1 .. i - 1, "transaction_count")
      /\ b.executed = Sum(es, I, "transaction_count")
      /\ job.mode = "full" =>
           \A i \in I :
             /\ es[i].num_hashes <= MaxEntryNumHashes
             /\ TransactionsOf(es[i]) \subseteq DOMAIN b.signatures =>
                  ChainedFrom(IF i = 1 THEN b.parent_hash ELSE es[i - 1].hash, b, es[i])

\* A block contradicts its entries, the block before it or a pin.
Contradicted(job, slot) ==
  LET b == rows[slot]
  IN  \/ slot = 0 /\ (b.parent # 0 \/ \E pin \in ToSet(job.expected_genesis_hash) : b.parent_hash # pin)
      \/ slot # 0 /\ b.parent >= slot
      \/ slot # 0 /\ \E t \in Table : job.start <= t /\ b.parent < t /\ t < slot
      \/ slot # 0 /\ b.parent \in Table /\ rows[b.parent].hash # b.parent_hash
      \/ slot \in DOMAIN job.anchors /\ job.anchors[slot] # b.hash
      \/ job.audit /\ slot \in config.conflicts
      \/ b.entries # <<>> /\ ~SoundEntries(job, slot, b)

Unproven(job, slot) ==
  LET b == rows[slot]
  IN  \/ b.entries = <<>>
      \/ slot # 0 /\ b.parent \notin Table
      \/ /\ job.mode = "full"
         /\ \E i \in 1 .. Len(b.entries) : ~(TransactionsOf(b.entries[i]) \subseteq DOMAIN b.signatures)

\* A slot without a block is skipped if the next block's parent lies below it.
AbsentStatus(job, slot) ==
  LET next == Min({s \in Table : s > slot})
  IN  IF \A s \in Table : s < slot THEN "missing"
      ELSE IF next <= job.end /\ rows[next].parent >= next THEN "unclassified"
      ELSE IF rows[next].parent >= slot THEN "missing" ELSE "skipped"

Status(job, slot) ==
  IF slot \notin Table THEN AbsentStatus(job, slot)
  ELSE IF Contradicted(job, slot) THEN "failed"
  ELSE IF Unproven(job, slot) THEN "unverifiable" ELSE "ok"

With(job, slots, status) == {s \in slots : Status(job, s) = status}
Orphans(job, slots) == IF job.audit THEN (config.conflicts \cap slots) \ Table ELSE {}

\* counters hold every slot of slots once, with the status the tables give it.
Accounted(job, counters, slots) ==
  /\ \A status \in {"ok", "failed", "unverifiable", "skipped", "missing"} :
       counters[status] = Cardinality(With(job, slots, status))
  /\ counters.orphan >= Cardinality(Orphans(job, slots))

\* Every anchor lies at a block of the range.
AllCompared == DOMAIN run.job.anchors \subseteq {s \in Table : run.job.start <= s /\ s <= run.job.end}

-----------------------------------------------------------------------------
(* Properties. *)

\* "All slots strictly below this are fully accounted in `counters`" (checkpoint.rs):
\* however often the process was killed and wherever windows end, a checkpoint
\* counts every slot below next_start once and by the rules of its era, and the report
\* has the line of each.
CheckpointTrue ==
  stored.checkpoint # <<>> =>
    LET c == stored.checkpoint[1]
        slots == c.descriptor.start .. c.next_start - 1
    IN  /\ Accounted(c.descriptor, c.counters, slots)
        /\ \A s \in With(c.descriptor, slots, "failed") :
             \E l \in stored.report : l.slot = s /\ class(l.code) = "Fail"
        /\ \A s \in With(c.descriptor, slots, "unverifiable") :
             \E l \in stored.report : l.slot = s /\ class(l.code) = "Unverifiable"
        /\ c.checked_anchors = {s \in DOMAIN c.descriptor.anchors \cap Table : c.descriptor.start <= s /\ s < c.next_start}

\* The exit code of a run that was not aborted is that of the tables: a failure is never
\* lost to an interruption, and a clean exit means that every slot is proven or skipped.
ExitCodeTrue ==
  run.pc = "done" =>
    LET job == run.job
        slots == job.start .. job.end
        failures == With(job, slots, "failed") \cup Orphans(job, slots)
        gaps == With(job, slots, "unverifiable") \cup With(job, slots, "missing")
        code == exit_code(run.counters)
    IN  /\ Accounted(job, run.counters, slots)
        /\ (code = 2) = (failures # {})
        /\ code = 0 => gaps = {}
        /\ code = 3 => gaps # {} \/ ~AllCompared

\* "An anchor that never met a block proves nothing: surface it rather than letting
\* the operator believe it was compared" (runner.rs).
AnchorsSurfaced ==
  run.pc = "done" /\ exit_code(run.counters) = 0 => AllCompared
=============================================================================
