------------------------------ MODULE Archiver ------------------------------
(***************************************************************************)
(* The parquet archiver (superbank-solparq).  In server mode every         *)
(* configured archive kind has at most one run at a time and the kinds run *)
(* concurrently, against one ClickHouse and one store of bundles.  A run   *)
(* reads the bounds, plans a slot range, validates it, may repair and      *)
(* backfill it, exports it table by table, publishes the bundle, marks it  *)
(* done, deletes from ClickHouse what every kind has archived, and prunes  *)
(* old bundles.  It may fail, and the process may be killed, between any   *)
(* two of these.                                                           *)
(*                                                                         *)
(* The rows of one slot in one table are present or absent as a whole.     *)
(***************************************************************************)
EXTENDS Integers, Sequences, FiniteSets, FiniteSetsExt, SequencesExt

CONSTANTS
  Slots,      \* the slots of the chain
  Produced,   \* those a leader produced a block for
  Configs,    \* the configurations considered
  MaxCycles,  \* bound: runs started
  MaxFaults   \* bound: runs that fail, or kills of the process

Tables == {"transactions", "blocks_metadata"}

Between(a, b) == {s \in Slots : a <= s /\ s <= b}

\* A bundle holds every row of its range.
Whole(b) == \A t \in Tables : Produced \cap Between(b.start, b.end) \subseteq b.files[t]

\* The chain has a last slot; rows are of produced slots; bundles of an earlier
\* process were written as this one writes them.
ArchiverAssumption ==
  /\ Slots \subseteq Nat /\ Produced \subseteq Slots
  /\ Max(Slots) \in Slots /\ \A s \in Slots : s <= Max(Slots)
  /\ \A c \in Configs :
       /\ c.span \in [DOMAIN c.span -> Nat] /\ c.order \in Seq(c.kinds) /\ c.keep \in Nat
       /\ c.late \subseteq Tables \X Produced
       /\ \A b \in c.before :
            /\ b \in [kind : DOMAIN c.span, start : 0 .. Max(Slots), end : 0 .. Max(Slots),
                      files : [Tables -> SUBSET Slots], manifest : BOOLEAN, done : BOOLEAN]
            /\ b.start <= b.end
            /\ b.done => b.manifest
            /\ \A t \in Tables : b.files[t] \subseteq Between(b.start, b.end)
            /\ b.manifest => Whole(b)

VARIABLES
  config,     \* Config of this deployment
  db,         \* table -> slots whose rows are in ClickHouse
  mutations,  \* table -> slots an accepted ALTER ... DELETE has yet to remove
  late,       \* <<table, slot>> rows the ingestor has not written yet
  bundles,    \* the archive store
  job,        \* kind -> the run in progress
  server,     \* "up", "stopping" (after a signal) or "down"
  cycles, faults,
  written,    \* history: <<kind, table, slot>> a published bundle held
  spans,      \* history: <<kind, start, end>> of the published bundles
  ingested    \* history: <<table, slot>> ever in ClickHouse

vars == <<config, db, mutations, late, bundles, job, server, cycles, faults,
          written, spans, ingested>>

\* archive_tables, the two required ones: exports and deletes go in this order.
archive_tables == <<"transactions", "blocks_metadata">>

-----------------------------------------------------------------------------
(* Planning. *)

NoPlan == [start |-> 0, end |-> -1]

align_up(slot, n) == ((slot + n - 1) \div n) * n

slot_count(kind) == config.span[kind]

first_start_slot(kind, earliest) ==
  IF kind = "epoch" THEN align_up(earliest, slot_count(kind)) ELSE earliest

\* Bundles a listing shows: a local directory that was renamed into place, an
\* S3 prefix that has a manifest.  The done marker is not looked at.
list_archives(kind) == {b \in bundles : b.kind = kind /\ b.manifest}

latest_archive_name(kind) ==
  LET listed == list_archives(kind) IN
  IF listed = {} THEN NoPlan
  ELSE LET b == CHOOSE b \in listed : \A c \in listed : c.end <= b.end
       IN  [start |-> b.start, end |-> b.end]

archive_has_done_marker(kind, plan) ==
  \E b \in bundles : /\ b.kind = kind /\ b.done
                      /\ b.start = plan.start /\ b.end = plan.end

plan_next_archive(kind, bounds, last) ==
  LET from == IF last # NoPlan /\ config.continue
              THEN IF last.end < bounds.earliest
                   THEN first_start_slot(kind, bounds.earliest)
                   ELSE last.end + 1
              ELSE first_start_slot(kind, bounds.earliest)
      start == IF kind = "custom" /\ config.aligned
               THEN align_up(from, slot_count(kind)) ELSE from
      end == start + slot_count(kind) - 1
  IN  IF end > bounds.latest THEN NoPlan ELSE [start |-> start, end |-> end]

plan_archive_slot_range(bounds, range) ==
  IF range.start < bounds.earliest \/ range.end > bounds.latest
  THEN NoPlan ELSE range

\* Mutants: the kind that finished decides alone; the delete starts at slot zero.
SafeDeleteOwnEnd(current_end, names) ==
  IF ~config.delete \/ \E k \in config.kinds : names[k] = NoPlan THEN NoPlan
  ELSE [start |-> Min({names[k].start : k \in config.kinds} \cup {current_end}),
        end |-> current_end]

SafeDeleteFromZero(current_end, names) ==
  IF ~config.delete \/ \E k \in config.kinds : names[k] = NoPlan THEN NoPlan
  ELSE [start |-> 0,
        end |-> Min({current_end} \cup {names[k].end : k \in config.kinds})]

\* safe_delete_archived_data_range; NoPlan when nothing may be deleted.
safe_delete_archived_data_range(current_end, names) ==
  IF ~config.delete \/ \E k \in config.kinds : names[k] = NoPlan THEN NoPlan
  ELSE LET safe_end == Min({current_end} \cup {names[k].end : k \in config.kinds})
           floor    == Min({names[k].start : k \in config.kinds})
       IN  [start |-> IF config.zero THEN 0 ELSE Min({floor, safe_end}),
            end   |-> safe_end]

-----------------------------------------------------------------------------
(* Validation. *)

NoReport == [blocks |-> {}, produced |-> {}, error |-> FALSE,
             under |-> {}, over |-> {}]

\* fetch_transaction_mismatches: block rows whose declared count differs from
\* the distinct transaction rows of the slot.  A slot in config.extra has a row
\* more than its block declares.
transaction_undercounts(range) ==
  (range \cap db["blocks_metadata"]) \ db["transactions"]

transaction_overcounts(range) ==
  range \cap db["blocks_metadata"] \cap db["transactions"] \cap config.extra

missing_blocks(report) == report.produced \ report.blocks

has_data_warnings(report) ==
  missing_blocks(report) \cup report.under \cup report.over # {}

blocks_archive(report) ==
  \/ has_data_warnings(report)
  \/ report.error /\ ~config.allow_rpc_failure

backfill_target_slots(report) ==
  missing_blocks(report) \cup (IF config.undercounts THEN report.under ELSE {})

-----------------------------------------------------------------------------
(* A run: the stages are the awaits of run_once_for_kind_inner. *)

Idle == [stage |-> "idle", bounds |-> [earliest |-> 0, latest |-> -1],
         plan |-> NoPlan, round |-> "first", report |-> NoReport,
         files |-> [t \in Tables |-> {}], left |-> <<>>,
         names |-> <<>>, range |-> NoPlan]

PlanSlots(k) == Between(job[k].plan.start, job[k].plan.end)

IsPlanned(b, k) == b.kind = k /\ b.start = job[k].plan.start /\ b.end = job[k].plan.end

Go(k, r) == job' = [job EXCEPT ![k] = r]

Finish(k) == Go(k, Idle)

store == <<bundles, written, spans>>
click == <<db, mutations, late, ingested>>
ctl   == <<config, server, cycles, faults>>

\* schedule_archive_cycle and spawn_archive_task, up to the read of the bounds.
\* A table without transaction rows ends the run.
StartRun(k) ==
  /\ server = "up" /\ k \in config.kinds
  /\ job[k].stage = "idle" /\ cycles < MaxCycles
  /\ cycles' = cycles + 1
  /\ LET rows == db["transactions"] IN
     IF rows = {} THEN UNCHANGED job
     ELSE Go(k, [Idle EXCEPT !.stage = "bounds",
                  !.bounds = [earliest |-> Min(rows), latest |-> Max(rows)]])
  /\ UNCHANGED <<click, store, config, server, faults>>

\* The plan; a bundle of this name that is marked done needs no new export.
PlanRun(k) ==
  /\ job[k].stage = "bounds"
  /\ LET plan == IF config.range # NoPlan
                 THEN plan_archive_slot_range(job[k].bounds, config.range)
                 ELSE plan_next_archive(k, job[k].bounds, latest_archive_name(k))
         done == archive_has_done_marker(k, plan)
     IN  CASE plan = NoPlan -> Finish(k)
           [] plan # NoPlan /\ done /\ config.dry -> Finish(k)
           [] plan # NoPlan /\ done /\ ~config.dry ->
                Go(k, [job[k] EXCEPT !.stage = "names", !.plan = plan])
           [] plan # NoPlan /\ ~done ->
                Go(k, [job[k] EXCEPT !.stage = "blocks", !.plan = plan])
  /\ UNCHANGED <<click, store, ctl>>

\* validate_archive_range reads the block slots, then getBlocks, then the
\* mismatches; ClickHouse changes in between.
ReadBlockSlots(k) ==
  /\ job[k].stage = "blocks"
  /\ Go(k, [job[k] EXCEPT !.stage = "rpc",
             !.report = [NoReport EXCEPT !.blocks = PlanSlots(k) \cap db["blocks_metadata"]]])
  /\ UNCHANGED <<click, store, ctl>>

FetchProducedSlots(k) ==
  /\ job[k].stage = "rpc"
  /\ \E fails \in BOOLEAN :
       Go(k, [job[k] EXCEPT !.stage = "counts", !.report.error = fails,
               !.report.produced = IF fails THEN {} ELSE PlanSlots(k) \cap Produced])
  /\ UNCHANGED <<click, store, ctl>>

\* What follows a validation: repair of overcounts (once), backfill of gaps
\* (once), then the gate.
NextStage(round, report) ==
  CASE /\ round = "first" /\ config.repair /\ ~config.dry
       /\ report.over # {} -> "repair"
    [] /\ round \in {"first", "repaired"} /\ config.backfill /\ ~config.dry
       /\ ~(round = "first" /\ config.repair /\ report.over # {})
       /\ backfill_target_slots(report) # {} -> "backfill"
    [] OTHER -> "gate"

ReadMismatches(k) ==
  /\ job[k].stage = "counts"
  /\ LET report == [job[k].report EXCEPT
                      !.under = transaction_undercounts(PlanSlots(k)),
                      !.over  = transaction_overcounts(PlanSlots(k))]
     IN  Go(k, [job[k] EXCEPT !.report = report,
                 !.stage = NextStage(job[k].round, report)])
  /\ UNCHANGED <<click, store, ctl>>

\* deduplicate_partition for every epoch with an overcount: it collapses equal
\* rows, which the count of distinct rows had not counted twice.
RepairOvercounts(k) ==
  /\ job[k].stage = "repair"
  /\ Go(k, [job[k] EXCEPT !.stage = "blocks", !.round = "repaired"])
  /\ UNCHANGED <<click, store, ctl>>

\* run_backfill: the ingestor writes the targets, all or, failing, some of them.
Backfill(k) ==
  /\ job[k].stage = "backfill"
  /\ \E slots \in SUBSET backfill_target_slots(job[k].report) :
       /\ db' = [t \in Tables |-> db[t] \cup slots]
       /\ mutations' = [t \in Tables |-> mutations[t] \ slots]
       /\ late' = late \ (Tables \X slots)
       /\ ingested' = ingested \cup (Tables \X slots)
  /\ Go(k, [job[k] EXCEPT !.stage = "blocks", !.round = "backfilled"])
  /\ UNCHANGED <<store, ctl>>

\* The gate: warnings end the run unless forced; without server mode and
\* without dry run the operator is asked.  A dry run stops here.
PassGate(k) ==
  /\ job[k].stage = "gate"
  /\ \/ ~blocks_archive(job[k].report)
     \/ config.force
     \/ ~config.server /\ ~config.dry          \* the operator says yes
  /\ ~config.dry
  /\ Go(k, [job[k] EXCEPT !.stage = "remove"])
  /\ UNCHANGED <<click, store, ctl>>

StopAtGate(k) ==
  /\ job[k].stage = "gate"
  /\ \/ config.dry
     \/ blocks_archive(job[k].report) /\ ~config.force
  /\ Finish(k)
  /\ UNCHANGED <<click, store, ctl>>

\* A bundle with some of its files and markers gone.
Remains(b, left) ==
  [b EXCEPT !.manifest = left[1], !.done = left[2],
            !.files = [t \in Tables |-> IF t \in left[3] THEN b.files[t] ELSE {}]]

\* What a removal that stops half way leaves of a bundle.  A local directory
\* loses its files in any order and keeps its name, by which it is listed; on S3
\* the done marker, whose name sorts first, goes first and the manifest may go.
Damaged(b) ==
  LET names == IF config.s3 THEN {b.manifest, FALSE} ELSE {b.manifest}
      marks == IF config.s3 THEN {FALSE} ELSE {b.done, FALSE}
  IN  {Remains(b, left) : left \in names \X marks \X SUBSET Tables}

\* remove_archive_bundle, then a fresh staging directory (local).
RemoveBundle(k) ==
  /\ job[k].stage = "remove"
  /\ bundles' = {b \in bundles : ~IsPlanned(b, k)}
  /\ Go(k, [job[k] EXCEPT !.stage = "export", !.left = archive_tables])
  /\ UNCHANGED <<click, written, spans, ctl>>

\* One table: a ClickHouse snapshot of the range, to the staging directory or
\* straight to its S3 key.
ExportTable(k) ==
  /\ job[k].stage = "export" /\ job[k].left # <<>>
  /\ LET t == Head(job[k].left)
         rows == PlanSlots(k) \cap db[t]
         old == {b \in bundles : IsPlanned(b, k)}
         files == [job[k].files EXCEPT ![t] = rows]
     IN  /\ Go(k, [job[k] EXCEPT !.left = Tail(@), !.files = files])
         /\ bundles' = IF ~config.s3 THEN bundles
                       ELSE (bundles \ old) \cup
                            {[kind |-> k, start |-> job[k].plan.start,
                              end |-> job[k].plan.end, files |-> files,
                              manifest |-> FALSE, done |-> FALSE]}
  /\ UNCHANGED <<click, written, spans, ctl>>

Rows(k, files) == {r \in {k} \X Tables \X Slots : r[3] \in files[r[2]]}

\* The staging directory renamed into place, or the S3 manifest written last.
PublishBundle(k) ==
  /\ job[k].stage = "export" /\ job[k].left = <<>>
  /\ LET b == [kind |-> k, start |-> job[k].plan.start, end |-> job[k].plan.end,
               files |-> job[k].files, manifest |-> TRUE, done |-> FALSE]
     IN  /\ bundles' = {c \in bundles : ~IsPlanned(c, k)} \cup {b}
         /\ written' = written \cup Rows(k, job[k].files)
         /\ spans' = spans \cup {<<k, b.start, b.end>>}
  /\ Go(k, [job[k] EXCEPT !.stage = "mark"])
  /\ UNCHANGED <<click, ctl>>

WriteDoneMarker(k) ==
  /\ job[k].stage = "mark"
  /\ bundles' = {IF IsPlanned(b, k) THEN [b EXCEPT !.done = TRUE] ELSE b : b \in bundles}
  /\ Go(k, [job[k] EXCEPT !.stage = "names"])
  /\ UNCHANGED <<click, written, spans, ctl>>

\* maybe_delete_archived_data_range lists one kind after the other.
ListNames(k) ==
  /\ job[k].stage = "names"
  /\ \/ /\ ~config.delete
        /\ Go(k, [job[k] EXCEPT !.stage = "cleanup"])
     \/ /\ config.delete
        /\ LET known == job[k].names
               kind  == config.order[Len(known) + 1]
               names == Append(known, latest_archive_name(kind))
               byKind == [q \in config.kinds |->
                            names[CHOOSE i \in DOMAIN config.order : config.order[i] = q]]
               range == safe_delete_archived_data_range(job[k].plan.end, byKind)
           IN  IF Len(names) < Len(config.order)
               THEN Go(k, [job[k] EXCEPT !.names = names])
               ELSE IF range = NoPlan
               THEN Go(k, [job[k] EXCEPT !.stage = "cleanup"])
               ELSE Go(k, [job[k] EXCEPT !.stage = "delete", !.range = range,
                            !.left = archive_tables])
  /\ UNCHANGED <<click, store, ctl>>

\* ALTER TABLE ... DELETE is accepted at once and applied to the rows there are
\* by the mutation (Mutate).
DeleteTable(k) ==
  /\ job[k].stage = "delete"
  /\ IF job[k].left = <<>>
     THEN /\ Go(k, [job[k] EXCEPT !.stage = "cleanup"])
          /\ UNCHANGED click
     ELSE LET t == Head(job[k].left)
              gone == Between(job[k].range.start, job[k].range.end) \cap db[t]
          IN  /\ mutations' = [mutations EXCEPT ![t] = @ \cup gone]
              /\ Go(k, [job[k] EXCEPT !.left = Tail(@)])
              /\ UNCHANGED <<db, late, ingested>>
  /\ UNCHANGED <<store, ctl>>

\* cleanup_archives: the listed bundles of this kind beyond the newest `keep`.
ToDelete(k) ==
  IF config.keep = 0 THEN {}
  ELSE {b \in list_archives(k) :
          Cardinality({c \in list_archives(k) : c.end > b.end}) >= config.keep}

CleanupArchives(k) ==
  /\ job[k].stage = "cleanup"
  /\ bundles' = bundles \ ToDelete(k)
  /\ Finish(k)
  /\ UNCHANGED <<click, written, spans, ctl>>

-----------------------------------------------------------------------------
(* Failure, shutdown and the outside world. *)

\* The bundles a run is about to remove, one after the other.
Doomed(k) ==
  CASE job[k].stage = "remove" -> {b \in bundles : IsPlanned(b, k)}
    [] job[k].stage = "cleanup" -> ToDelete(k)
    [] OTHER -> {}

\* Some of them are gone, the last perhaps in part.
PartlyRemoved(k) ==
  \E gone \in SUBSET Doomed(k) :
    \/ bundles' = bundles \ gone
    \/ \E b \in gone : \E rest \in Damaged(b) : bundles' = (bundles \ gone) \cup {rest}

\* Any await of a run may fail; handle_archive_task_join frees the kind.  After
\* the first signal a second one, or a kill, drops the run where it is.
FailRun(k) ==
  /\ job[k].stage # "idle"
  /\ \/ faults < MaxFaults /\ faults' = faults + 1
     \/ server = "stopping" /\ UNCHANGED faults
  /\ PartlyRemoved(k)
  /\ Finish(k)
  /\ UNCHANGED <<click, written, spans, config, server, cycles>>

\* First signal: no new runs, current ones finish.
RequestShutdown ==
  /\ server = "up" /\ faults < MaxFaults
  /\ server' = "stopping" /\ faults' = faults + 1
  /\ UNCHANGED <<click, store, job, config, cycles>>

\* The loop ends once every run was joined.
StopServer ==
  /\ server = "stopping" /\ \A k \in config.kinds : job[k].stage = "idle"
  /\ server' = "down"
  /\ UNCHANGED <<click, store, job, config, cycles, faults>>

StartServer ==
  /\ server = "down"
  /\ server' = "up"
  /\ UNCHANGED <<click, store, job, config, cycles, faults>>

\* The ingestor writes a late row.
Ingest ==
  /\ \E r \in late :
       /\ late' = late \ {r}
       /\ db' = [db EXCEPT ![r[1]] = @ \cup {r[2]}]
       /\ mutations' = [mutations EXCEPT ![r[1]] = @ \ {r[2]}]
       /\ ingested' = ingested \cup {r}
  /\ UNCHANGED <<store, job, ctl>>

\* ClickHouse applies an accepted deletion.
Mutate ==
  /\ \E t \in Tables :
       /\ mutations[t] # {}
       /\ db' = [db EXCEPT ![t] = @ \ mutations[t]]
       /\ mutations' = [mutations EXCEPT ![t] = {}]
  /\ UNCHANGED <<late, ingested, store, job, ctl>>

\* parse_archive_kinds and from_cli: what the command line may combine.
parse_archive_kinds(c) ==
  /\ c.kinds \subseteq DOMAIN c.span /\ \A k \in c.kinds : c.span[k] > 0
  /\ Len(c.order) = Cardinality(c.kinds) /\ Range(c.order) = c.kinds

from_cli(c) ==
  /\ parse_archive_kinds(c)
  /\ ~c.server => Cardinality(c.kinds) = 1 /\ ~c.zero
  /\ c.server => c.range = NoPlan

Init ==
  /\ config \in {c \in Configs : from_cli(c)}
  /\ late = config.late
  /\ db = [t \in Tables |-> {s \in Produced : <<t, s>> \notin late}]
  /\ ingested = (Tables \X Produced) \ late
  /\ mutations = [t \in Tables |-> {}]
  /\ bundles = config.before
  /\ LET listed == {b \in config.before : b.manifest} IN
     /\ written = UNION {Rows(b.kind, b.files) : b \in listed}
     /\ spans = {<<b.kind, b.start, b.end>> : b \in listed}
  /\ job = [k \in config.kinds |-> Idle]
  /\ server = "up" /\ cycles = 0 /\ faults = 0

Run(k) ==
  \/ StartRun(k) \/ PlanRun(k) \/ ReadBlockSlots(k) \/ FetchProducedSlots(k)
  \/ ReadMismatches(k) \/ RepairOvercounts(k) \/ Backfill(k) \/ PassGate(k)
  \/ StopAtGate(k) \/ RemoveBundle(k) \/ ExportTable(k) \/ PublishBundle(k)
  \/ WriteDoneMarker(k) \/ ListNames(k) \/ DeleteTable(k) \/ CleanupArchives(k)
  \/ FailRun(k)

Next ==
  \/ \E k \in config.kinds : Run(k)
  \/ RequestShutdown \/ StopServer \/ StartServer \/ Ingest \/ Mutate

Spec == Init /\ [][Next]_vars

-----------------------------------------------------------------------------
(* Properties.  A row of a range that passed the gate on its merits is there: *)
(* the run was neither forced nor waved through without getBlocks.            *)

Validated == config.server /\ ~config.force /\ ~config.allow_rpc_failure

Newest(k) == {b \in list_archives(k) : \A c \in list_archives(k) : c.end <= b.end}

\* The bundle whose name moves the restart point and releases ClickHouse rows
\* for deletion holds every row of its range, although another kind deletes
\* while it is validated and exported, and although runs die in between, also
\* half way through the removal of bundles, which a listing then still shows.
ListedWhole ==
  Validated /\ config.continue =>
    \A k \in config.kinds : \A b \in Newest(k) : Whole(b)

\* A row leaves ClickHouse only once some published bundle held it (the delete
\* that starts at slot zero gives this up for what no bundle covers).
DeletedArchived ==
  Validated /\ ~config.zero =>
    \A r \in ingested :
      r[2] \in db[r[1]] \/ \E k \in config.kinds : <<k, r[1], r[2]>> \in written

\* "continuation uses the stored end slot plus one" (the archiver's README):
\* between the first and the last slot a kind has archived there is no produced
\* slot it left out.
NoSlotSkipped ==
  Validated /\ config.continue =>
    \A a, b \in spans : a[1] = b[1] =>
      \A s \in Produced, t \in Tables :
        a[2] <= s /\ s <= b[3] => <<a[1], t, s>> \in written
=============================================================================
