------------------------------ MODULE MCIngest ------------------------------
(***************************************************************************)
(* What writes the tables and what reads them back whole, side by side:    *)
(* the gRPC ingestor (GrpcIngest), the Fumarole consumer (FumaroleIngest), *)
(* the backfills (Backfill), the archiver that takes rows out again        *)
(* (Archiver), the conversion of blocks to rows and of rows to answers     *)
(* (RowCodec), the Jetstreamer plugin (Jetstreamer) and the verifier       *)
(* (Verifier).  A behaviour runs one of them; a variable that two of them  *)
(* declare is the running one's, the others' rest.                         *)
(***************************************************************************)
EXTENDS MCStreams, MCArchiver

VARIABLES
  part,   \* the module that runs
  args, from, queue, work, dead, fetches, main, results, buffer, batch, tasks, fatal, signals,
  phase, outcome, runs,   \* Backfill, with cursor, stored, faults
  block, metadata, head, tried, answer,   \* RowCodec, with rows
  run, pending, outbox, channel, inbox, open, next, closing, life, failures   \* Jetstreamer, with cursor, stored, delivered
\* Verifier has config, db, run, stored.

HistoryCases == INSTANCE HistoryScenarios
Backfills == INSTANCE Backfill WITH
  Slots <- 0..4, Listed <- {0, 1, 3, 4}, Absent <- {3}, Configs <- HistoryCases!MCConfigs,
  Workers <- {"w1", "w2"}, ChunkSlots <- 2, QueueSlots <- 2, FlushSlots <- 2,
  MaxInserts <- 2, MaxRuns <- 2, MaxFaults <- 1

Codec == INSTANCE RowCodec WITH
  Blocks <- HistoryCases!MCBlocks, Activation <- 10, EraSettings <- HistoryCases!Eras, MaxVersion <- 0

Plugin == INSTANCE Jetstreamer WITH
  Ledgers <- HistoryCases!MCLedgers, Requests <- HistoryCases!MCRequests,
  Settings <- HistoryCases!MCSettings, Clamped <- BOOLEAN, MaxInflight <- 2,
  Faults <- {"restart", "abandon"}, MaxFailures <- 1

VerifierCases == INSTANCE VerifierScenarios
Verify == INSTANCE Verifier WITH
  Configs <- VerifierCases!MCConfigs, TicksPerSlot <- 1, MaxEntryNumHashes <- 3, MaxStarts <- 3

ASSUME Backfills!BackfillAssumption

Rest(v) == v = "rest"

ingestVars == <<part, scenario, proc, join, cursor, unsent, rows, ceiling, stored, flush, args,
               from, queue, work, dead, fetches, main, results, buffer, batch, tasks, fatal, signals,
               phase, outcome, runs, faults, config, db, mutations, late, bundles, job, server,
               cycles, written, spans, ingested, block, metadata, head, tried, answer, run, pending,
               outbox, channel, inbox, open, next, delivered, closing, life, failures, blocks,
               exceeded, acked>>

IngestInit ==
  \/ /\ part = "grpc" /\ Init
     /\ Rest(args) /\ Rest(from) /\ Rest(queue) /\ Rest(work) /\ Rest(dead) /\ Rest(fetches) /\ Rest(main) /\
        Rest(results) /\ Rest(buffer) /\ Rest(batch) /\ Rest(tasks) /\ Rest(fatal) /\ Rest(signals)
        /\ Rest(phase) /\ Rest(outcome) /\ Rest(runs) /\ Rest(faults) /\ Rest(config) /\ Rest(db) /\
        Rest(mutations) /\ Rest(late) /\ Rest(bundles) /\ Rest(job) /\ Rest(server) /\ Rest(cycles)
        /\ Rest(written) /\ Rest(spans) /\ Rest(ingested) /\ Rest(block) /\ Rest(metadata) /\
        Rest(head) /\ Rest(tried) /\ Rest(answer) /\ Rest(run) /\ Rest(pending) /\ Rest(outbox) /\
        Rest(channel) /\ Rest(inbox) /\ Rest(open) /\ Rest(next) /\ Rest(delivered) /\ Rest(closing)
        /\ Rest(life) /\ Rest(failures) /\ Rest(blocks) /\ Rest(exceeded) /\ Rest(acked)
  \/ /\ part = "fumarole" /\ Fumarole!Init
     /\ Rest(join) /\ Rest(cursor) /\ Rest(unsent) /\ Rest(args) /\ Rest(from) /\ Rest(queue) /\
        Rest(work) /\ Rest(dead) /\ Rest(fetches) /\ Rest(main) /\ Rest(results) /\ Rest(buffer) /\ Rest(batch) /\
        Rest(tasks) /\ Rest(fatal) /\ Rest(signals) /\ Rest(phase) /\ Rest(outcome) /\ Rest(runs) /\
        Rest(faults) /\ Rest(config) /\ Rest(db) /\ Rest(mutations) /\ Rest(late) /\ Rest(bundles)
        /\ Rest(job) /\ Rest(server) /\ Rest(cycles) /\ Rest(written) /\ Rest(spans) /\
        Rest(ingested) /\ Rest(block) /\ Rest(metadata) /\ Rest(head) /\ Rest(tried) /\ Rest(answer)
        /\ Rest(run) /\ Rest(pending) /\ Rest(outbox) /\ Rest(channel) /\ Rest(inbox) /\ Rest(open)
        /\ Rest(next) /\ Rest(closing) /\ Rest(life) /\ Rest(failures)
  \/ /\ part = "backfill" /\ Backfills!Init
     /\ Rest(scenario) /\ Rest(proc) /\ Rest(join) /\ Rest(unsent) /\ Rest(rows) /\ Rest(ceiling) /\
        Rest(flush) /\ Rest(config) /\ Rest(db) /\ Rest(mutations) /\ Rest(late) /\ Rest(bundles) /\
        Rest(job) /\ Rest(server) /\ Rest(cycles) /\ Rest(written) /\ Rest(spans) /\ Rest(ingested)
        /\ Rest(block) /\ Rest(metadata) /\ Rest(head) /\ Rest(tried) /\ Rest(answer) /\ Rest(run)
        /\ Rest(pending) /\ Rest(outbox) /\ Rest(channel) /\ Rest(inbox) /\ Rest(open) /\ Rest(next)
        /\ Rest(delivered) /\ Rest(closing) /\ Rest(life) /\ Rest(failures) /\ Rest(blocks) /\
        Rest(exceeded) /\ Rest(acked)
  \/ /\ part = "archiver" /\ Archives!Init
     /\ Rest(scenario) /\ Rest(proc) /\ Rest(join) /\ Rest(cursor) /\ Rest(unsent) /\ Rest(rows) /\
        Rest(ceiling) /\ Rest(stored) /\ Rest(flush) /\ Rest(args) /\ Rest(from) /\ Rest(queue) /\
        Rest(work) /\ Rest(dead) /\ Rest(fetches) /\ Rest(main) /\ Rest(results) /\ Rest(buffer) /\ Rest(batch) /\
        Rest(tasks) /\ Rest(fatal) /\ Rest(signals) /\ Rest(phase) /\ Rest(outcome) /\ Rest(runs) /\
        Rest(block) /\ Rest(metadata) /\ Rest(head) /\ Rest(tried) /\ Rest(answer) /\ Rest(run) /\
        Rest(pending) /\ Rest(outbox) /\ Rest(channel) /\ Rest(inbox) /\ Rest(open) /\ Rest(next) /\
        Rest(delivered) /\ Rest(closing) /\ Rest(life) /\ Rest(failures) /\ Rest(blocks) /\
        Rest(exceeded) /\ Rest(acked)
  \/ /\ part = "codec" /\ Codec!Init
     /\ Rest(scenario) /\ Rest(proc) /\ Rest(join) /\ Rest(cursor) /\ Rest(unsent) /\ Rest(ceiling)
        /\ Rest(stored) /\ Rest(flush) /\ Rest(args) /\ Rest(from) /\ Rest(queue) /\ Rest(work) /\
        Rest(dead) /\ Rest(fetches) /\ Rest(main) /\ Rest(results) /\ Rest(buffer) /\ Rest(batch) /\ Rest(tasks)
        /\ Rest(fatal) /\ Rest(signals) /\ Rest(phase) /\ Rest(outcome) /\ Rest(runs) /\
        Rest(faults) /\ Rest(config) /\ Rest(db) /\ Rest(mutations) /\ Rest(late) /\ Rest(bundles)
        /\ Rest(job) /\ Rest(server) /\ Rest(cycles) /\ Rest(written) /\ Rest(spans) /\
        Rest(ingested) /\ Rest(run) /\ Rest(pending) /\ Rest(outbox) /\ Rest(channel) /\ Rest(inbox)
        /\ Rest(open) /\ Rest(next) /\ Rest(delivered) /\ Rest(closing) /\ Rest(life) /\
        Rest(failures) /\ Rest(blocks) /\ Rest(exceeded) /\ Rest(acked)
  \/ /\ part = "jetstreamer" /\ Plugin!Init
     /\ Rest(scenario) /\ Rest(proc) /\ Rest(join) /\ Rest(unsent) /\ Rest(rows) /\ Rest(ceiling) /\
        Rest(flush) /\ Rest(args) /\ Rest(from) /\ Rest(queue) /\ Rest(work) /\ Rest(dead) /\
        Rest(fetches) /\ Rest(main) /\ Rest(results) /\ Rest(buffer) /\ Rest(batch) /\ Rest(tasks) /\ Rest(fatal)
        /\ Rest(signals) /\ Rest(phase) /\ Rest(outcome) /\ Rest(runs) /\ Rest(faults) /\
        Rest(config) /\ Rest(db) /\ Rest(mutations) /\ Rest(late) /\ Rest(bundles) /\ Rest(job) /\
        Rest(server) /\ Rest(cycles) /\ Rest(written) /\ Rest(spans) /\ Rest(ingested) /\
        Rest(block) /\ Rest(metadata) /\ Rest(head) /\ Rest(tried) /\ Rest(answer) /\ Rest(blocks)
        /\ Rest(exceeded) /\ Rest(acked)
  \/ /\ part = "verifier" /\ Verify!Init
     /\ Rest(scenario) /\ Rest(proc) /\ Rest(join) /\ Rest(cursor) /\ Rest(unsent) /\ Rest(rows) /\
        Rest(ceiling) /\ Rest(flush) /\ Rest(args) /\ Rest(from) /\ Rest(queue) /\ Rest(work) /\
        Rest(dead) /\ Rest(fetches) /\ Rest(main) /\ Rest(results) /\ Rest(buffer) /\ Rest(batch) /\ Rest(tasks)
        /\ Rest(fatal) /\ Rest(signals) /\ Rest(phase) /\ Rest(outcome) /\ Rest(runs) /\
        Rest(faults) /\ Rest(mutations) /\ Rest(late) /\ Rest(bundles) /\ Rest(job) /\ Rest(server)
        /\ Rest(cycles) /\ Rest(written) /\ Rest(spans) /\ Rest(ingested) /\ Rest(block) /\
        Rest(metadata) /\ Rest(head) /\ Rest(tried) /\ Rest(answer) /\ Rest(pending) /\ Rest(outbox)
        /\ Rest(channel) /\ Rest(inbox) /\ Rest(open) /\ Rest(next) /\ Rest(delivered) /\
        Rest(closing) /\ Rest(life) /\ Rest(failures) /\ Rest(blocks) /\ Rest(exceeded) /\
        Rest(acked)

\* Every part but the gRPC ingestor, which runs for ever, may come to an end.
PartEnded ==
  part # "grpc" /\ UNCHANGED ingestVars

IngestNext ==
  \/ /\ part = "grpc" /\ Next
     /\ UNCHANGED <<part, args, from, queue, work, dead, fetches, main, results, buffer, batch, tasks,
                    fatal, signals, phase, outcome, runs, faults, config, db, mutations, late,
                    bundles, job, server, cycles, written, spans, ingested, block, metadata, head,
                    tried, answer, run, pending, outbox, channel, inbox, open, next, delivered,
                    closing, life, failures, blocks, exceeded, acked>>
  \/ /\ part = "fumarole" /\ Fumarole!Next
     /\ UNCHANGED <<part, join, cursor, unsent, args, from, queue, work, dead, fetches, main, results,
                    buffer, batch, tasks, fatal, signals, phase, outcome, runs, faults, config, db,
                    mutations, late, bundles, job, server, cycles, written, spans, ingested, block,
                    metadata, head, tried, answer, run, pending, outbox, channel, inbox, open, next,
                    closing, life, failures>>
  \/ /\ part = "backfill" /\ Backfills!Next
     /\ UNCHANGED <<part, scenario, proc, join, unsent, rows, ceiling, flush, config, db, mutations,
                    late, bundles, job, server, cycles, written, spans, ingested, block, metadata,
                    head, tried, answer, run, pending, outbox, channel, inbox, open, next,
                    delivered, closing, life, failures, blocks, exceeded, acked>>
  \/ /\ part = "archiver" /\ Archives!Next
     /\ UNCHANGED <<part, scenario, proc, join, cursor, unsent, rows, ceiling, stored, flush, args,
                    from, queue, work, dead, fetches, main, results, buffer, batch, tasks, fatal, signals,
                    phase, outcome, runs, block, metadata, head, tried, answer, run, pending,
                    outbox, channel, inbox, open, next, delivered, closing, life, failures, blocks,
                    exceeded, acked>>
  \/ /\ part = "codec" /\ Codec!Next
     /\ UNCHANGED <<part, scenario, proc, join, cursor, unsent, ceiling, stored, flush, args, from,
                    queue, work, dead, fetches, main, results, buffer, batch, tasks, fatal, signals,
                    phase, outcome, runs, faults, config, db, mutations, late, bundles, job, server,
                    cycles, written, spans, ingested, run, pending, outbox, channel, inbox, open,
                    next, delivered, closing, life, failures, blocks, exceeded, acked>>
  \/ /\ part = "jetstreamer" /\ Plugin!Next
     /\ UNCHANGED <<part, scenario, proc, join, unsent, rows, ceiling, flush, args, from, queue,
                    work, dead, fetches, main, results, buffer, batch, tasks, fatal, signals, phase,
                    outcome, runs, faults, config, db, mutations, late, bundles, job, server,
                    cycles, written, spans, ingested, block, metadata, head, tried, answer, blocks,
                    exceeded, acked>>
  \/ /\ part = "verifier" /\ Verify!Next
     /\ UNCHANGED <<part, scenario, proc, join, cursor, unsent, rows, ceiling, flush, args, from,
                    queue, work, dead, fetches, main, results, buffer, batch, tasks, fatal, signals,
                    phase, outcome, runs, faults, mutations, late, bundles, job, server, cycles,
                    written, spans, ingested, block, metadata, head, tried, answer, pending, outbox,
                    channel, inbox, open, next, delivered, closing, life, failures, blocks,
                    exceeded, acked>>
  \/ PartEnded

IngestSpec == IngestInit /\ [][IngestNext]_ingestVars

-----------------------------------------------------------------------------
(* Properties. *)

\* GrpcIngest: below the metadata tip no produced block or its transactions are
\* missing, an orderly stop leaves no identified block behind, and what waits in
\* memory stays within its limits.
StreamStored == part = "grpc" => PrefixStored /\ StopWritesWaiting /\ JoinWithinLimits

\* FumaroleIngest: what was acknowledged, and so is never delivered again, is stored.
AcknowledgedIsStored == part = "fumarole" => Fumarole!AcknowledgedStored

\* GrpcIngest: every row has the bank the producer gave it and no footer but the
\* winning bank's.
RowsOfTheWinner == part = "grpc" => IdentityTrue /\ FooterOfWinner

\* GrpcIngest and FumaroleIngest: a footer once stored survives replays and retries.
StreamFootersKept == [][(part \in {"grpc", "fumarole"}) => FootersKept]_bufferVars

\* Backfill: a run that reports completion stored what the source has of its
\* range, unless it is a Bigtable run that lost an error with the task it aborted,
\* and no run, finished or killed, leaves metadata without transactions.
\* Jetstreamer: only rows of accepted blocks are stored, and at exit all of them.
HistoryStored ==
  /\ part = "backfill" => Backfills!CompleteStored /\ Backfills!MetadataLast
  /\ part = "jetstreamer" => Plugin!RowsOfAcceptedBlocks /\ Plugin!ExitStoresAll

\* Archiver: the newest bundle listed of a kind is whole, and rows leave ClickHouse
\* only after a bundle held them.
ArchiveSafe ==
  part = "archiver" => Archives!ListedWhole /\ Archives!DeletedArchived

\* RowCodec: whoever wrote the row and whoever serves it, a client sees what the
\* ledger recorded, under the same key.
RecordedIsServed ==
  part = "codec" => Codec!ServedAsRecorded /\ Codec!RowsKeyedAlike

\* Verifier: however often it was killed, a checkpoint counts every slot below its
\* cursor once, as the tables have it, and the exit code is that of the tables.
VerdictTrue ==
  part = "verifier" => Verify!CheckpointTrue /\ Verify!ExitCodeTrue
=============================================================================
