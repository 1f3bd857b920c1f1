# Superbank in TLA+

Superbank stores the Solana ledger in ClickHouse and answers Solana JSON-RPC
from it. This directory holds TLA+ models of the parts of the program whose
correctness depends on the order in which things happen, configurations that
check them with TLC, and proofs checked by TLAPS. Paths below are relative to
`src/`.

- [The system](#the-system)
- [Modules](#modules)
- [Runs](#runs)
- [Fairness](#fairness)
- [Proofs](#proofs)
- [Findings](#findings)
- [Observed](#observed)
- [What the scenarios leave out on purpose](#what-the-scenarios-leave-out-on-purpose)
- [Not modelled](#not-modelled)
- [Plan](#plan)

## The system

Five programs share the ClickHouse tables.

**Ingestor** (`crates/superbank`). Fills the tables `transactions`,
`blocks_metadata` and `entries`.

| part | state | operations | what is hard |
|---|---|---|---|
| gRPC writer (`ingest/grpc.rs`) | `FinalizedFooterJoin` (held blocks, evidence on bank ids, pending footers, blocks waiting for a footer), row buffers | block, status, footer, timer, stop, restart | blocks, statuses and footers come in any order; protobuf zero is "bank zero" and "no bank"; a restart subscribes from the newest stored block, so what is missing below it is lost |
| row buffers and flush (`ingest/grpc.rs`, `clickhouse.rs`) | three buffers, the footer-merge ceiling | merge stored footers, three inserts, retries | a crash or failure between two inserts; an insert that was applied and reported as failed; a replay that replaces a stored footer |
| Fumarole consumer (`ingest/fumarole.rs`) | banks being assembled, `bound_exceeded`, row buffers | part, block, footer, end of slot, timer, stop, restart; flush, commit | parts of several slots are interleaved and one commit acknowledges everything delivered, so it may come only when all rows are stored and nothing is incomplete; slots beyond a historical bound |
| backfills (`ingest/rpc.rs`, `bigtable.rs`, `solparq.rs`) | discovered slots, queues, workers, chunks, insert tasks, a fatal flag | discover, dispatch, fetch, decode, insert, restore a bundle; stop, fail, run again | blocks arrive out of order from several workers; metadata must not precede transactions; a run may report completion only if nothing was dropped on the way |
| conversion to rows (`ingest/rpc.rs`, `bigtable.rs`, `grpc.rs`, `clickhouse.rs`) | none | from four wire formats to one row | a list that is absent, empty or filled must come back as it was, whichever source wrote it and whichever tier serves it |

**RPC server** (`crates/superbank-rpc`). Answers from three tiers: head cache,
disk cache, ClickHouse.

| part | state | operations | what is hard |
|---|---|---|---|
| head cache (`head_cache/`) | banks by (slot, id), the selected bank of each slot, maps by slot, signature and address, a proof of the chain they cover | stage, freeze, commit, discard, session start and end; reads of blocks and address rows | forks, statuses before blocks, signatures that appear on two forks, eviction, a per-address cap, requests that take locks three times |
| coverage map (`disk_cache/coverage.rs`) | a map from range start to range end | insert, remove, truncate, queries | merging at range borders and at `u64::MAX` |
| signature filters (`disk_cache/key_index.rs`, `key_index/signatures.rs`) | one bloom filter per partition with a generation, the table of writers | fill, poison, evict, reset, build | a complete filter answers "absent" without a query while writers change the rows under it |
| disk cache (`disk_cache/mod.rs`, `filler.rs`, `key_reads.rs`, `schema.rs`) | local tables, coverage marks, the coverage map, `ready`, `min_retained`, epochs | fill, publish, poison, evict, refresh the schema, restart; six kinds of reads | rows, marks and map are written in separate steps; readers sample four things at four moments |
| address summaries, block index, watermarks (`key_index.rs`, `block_index.rs`, `gsfa_watermark.rs`) | summaries of addresses, block times, the slot up to which an address is known to be empty | fill, lookup, mark | a mark set from one tier is used after another moved |
| ClickHouse client (`clickhouse/read_query*`, `disconnect.rs`, `owner_shard.rs`, `sharding.rs`) | permits, verifiers of abandoned reads, routes to shards | admit, run, abandon, verify; shard and hot routes with fallbacks | a closed response may still cost the server work, so the permit must outlive it, and must come back; copies of a row that are not merged yet fill pages |
| shard topology (`clickhouse/client.rs`, `sharding.rs`) | the replicas of each shard, their health, the active one; the bucket modulus of each local table | start-up checks, health monitor, failover of a failing read | monitor and reads move a shard without a lock, and a failure may be reported after the replica it is about was left; shards must be numbered as ClickHouse numbers them |
| queries and hydration (`clickhouse/blocks.rs`, `gsfa.rs`, `transactions.rs`, `signatures.rs`, `hydration/`) | none; a pool of permits | read rows, decode, split a block into chunks, encode | replicas that lag each on their own; an error in one chunk of several |
| response caches (`block_response_cache.rs`, `get_transaction_primary_cache.rs`, `status_history_cache.rs`, `inflation_*cache.rs`, `state.rs`) | bounded maps, single flights | get, put, join a flight | an answer that was true when it was asked for is kept for good; a leader that fails while others wait |
| handlers (`handlers/`) | none of their own | one per method | the tiers are consulted in turn while they move |
| request dispatch (`handlers/mod.rs`) | the tasks of a batch, its permits, the sources a request touched | parse, spawn, run, join, time out, reply | the calls of a batch end in any order, panic or are cut off, and the reply must have each answer at its place |
| gRPC service, settings, metrics | none that a property needs | | |

**Archiver** (`crates/superbank-solparq`): plans a slot range from the bundles and from
ClickHouse, validates, repairs and exports it, publishes the bundle, marks it done, deletes
archived rows from ClickHouse and prunes old bundles; several kinds run concurrently. A
kill may come between any two of these, and rows may come late.

**Jetstreamer plugin** (`ingest/jetstreamer-clickhouse-plugin`): fills the same tables from
Old Faithful's history. Firehose threads buffer a slot until its block tells its time; insert
workers keep one `INSERT` open per table.

**Verifier** (`crates/superbank-verify`): a resumable check of an archived range. Windows of slots are
fetched ahead; each block is checked against its entries and signatures, the chain is walked from block to
block, findings go to a report, counters and cursor to a checkpoint. Slots behind the last block
of a window wait for the next block's claim; a kill may come between report, checkpoint and tail;
the tip of a live range and the knowledge of the Alpenglow boundary change between two starts.

How they interact: the gRPC writer learns where to resume from the tables it
writes. The filler of the disk cache copies slots from ClickHouse to a local
server and publishes them in the coverage map; request handlers read map, filters
and local tables without any lock that spans two of them. The head cache is
written by one task and read by all handlers; `getSignaturesForAddress` joins its
rows to those of the disk cache with the floors that both tiers report. The archiver takes
out of the tables what the ingestors put in, as soon as all kinds hold it.

What makes each part correct, in a sentence:

- gRPC writer: nothing that was finalized is missing below the newest stored
  block, and every stored identity and footer is that of the finalized bank.
- Fumarole consumer: what was acknowledged is stored, and what has ended is
  acknowledged in the end.
- Coverage map: it behaves as the plain set of slots.
- Signature filters: a filter that is trusted never denies a stored signature.
- Disk cache: what it answers (a block is skipped, a page is complete, a
  signature is absent) is true of the source.
- Head cache: blocks are served whole, from the bank that was selected, and the
  floor given to a request bounds all rows the head does not hold.
- Backfills: a run that reports completion has stored what its source has, and metadata never
  stand without their transactions.
- Conversion: a client sees what the ledger recorded, whoever wrote the row and whichever tier
  serves it.
- Block methods: no mixture of tiers that move becomes an answer that no single state of the
  ledger would give: blocks are final, ranges and counts exact, "skipped" is true.
- Methods by address and by signature: a page that claims to be complete is, and what the tiers
  hold is never answered as unknown.
- ClickHouse client: the server works on no more reads than were admitted, and permits of
  abandoned reads come back.
- Shard topology: a read goes to a replica of the shard that holds its key, under the modulus its rows were written with,
  and a shard ends at a replica that answers.
- Request dispatch: each call of a batch is answered once, at its place, by its own handler.
- Archiver: the newest listed bundle of a kind is whole, and rows are deleted only when they are archived.
- Jetstreamer plugin: only rows of accepted blocks are stored, and all of them at exit.
- Verifier: every slot of the range is counted once, by the rules of its era, however often the job was
  interrupted, and the exit code is that of the tables.

## Modules

| module | models | role |
|---|---|---|
| `SlotSet` | what `disk_cache/coverage.rs` promises | abstract specification |
| `CoverageMap` | `disk_cache/coverage.rs` | implements `SlotSet` |
| `SignatureIndex`, `MCSignatureIndex` | `key_index.rs`, `key_index/signatures.rs` and their callers | component, instance |
| `IndexProofs` | | proofs of `CoverageMap` and `SignatureIndex` |
| `DiskCache`, `MCDiskCache` | `disk_cache/mod.rs`, `filler.rs`, `key_reads.rs`, `schema.rs` | component, scenarios |
| `DiskCacheProofs` | | proofs: answers; retention |
| `HeadCache`, `MCHeadCache` | `head_cache/*.rs`, the address request of `handlers/signatures.rs` | component, scenarios |
| `HeadCacheProofs` | | proofs |
| `BufferedRows` | buffers and flush of the ingestor | part of `GrpcIngest` and `FumaroleIngest` |
| `GrpcIngest` | `ingest/grpc.rs` | component over `BufferedRows` |
| `FumaroleIngest` | `ingest/fumarole.rs` | component over `BufferedRows` |
| `MCStreams` | `GrpcIngest`, `FumaroleIngest` | both live ingestors with their scenarios, part of `MCIngest` and `MCProgress` |
| `StreamProofs` | | proofs of both |
| `Backfill` | `ingest/rpc.rs`, `bigtable.rs`, `solparq.rs` | component |
| `RowCodec` | conversions of the four writers, `head_cache/convert.rs`, `clickhouse/rows.rs`, `hydration/` | pure operators against the ledger's record |
| `Jetstreamer` | the plugin's `lib.rs` | component |
| `HistoryScenarios` | | configurations of `Backfill` and `Jetstreamer`, blocks of `RowCodec` |
| `Archiver`, `ArchiverScenarios`, `MCArchiver`, `ArchiverProofs` | `crates/superbank-solparq` | component, scenarios, instance, proofs |
| `Verifier`, `VerifierScenarios`, `MCVerifier` | `crates/superbank-verify` | component, ledgers and jobs, instance |
| `BlockReads` | `handlers/blocks.rs`, `block_ranges.rs`, `clickhouse/blocks.rs`, `block_response_cache.rs`, `state.rs` | composes the tiers |
| `InflationRewards` | `getInflationReward` and its two caches | component |
| `BlockHydration` | `build_block_result_blocking`, `hydration/block.rs` | component |
| `ReadQuery` | `clickhouse/read_query.rs`, `disconnect.rs` | component |
| `ReadQueryProofs` | | proofs |
| `ShardTopology` | `clickhouse/client.rs`, `sharding.rs` | component |
| `RequestDispatch` | `handlers/mod.rs` | component |
| `AddressReads`, `MCAddressReads` | `getSignaturesForAddress`, `getTransactionsForAddress`, `gsfa_watermark.rs` | composes the tiers, scenarios |
| `PrimaryReads` | `clickhouse/gsfa.rs`, `transactions.rs`, `queries.rs` | component |
| `SignatureReads` | `getSignatureStatuses`, `getTransaction` and their caches | composes the tiers |
| `ReadScenarios` | | scenarios of `PrimaryReads`, `SignatureReads` and `ShardTopology` |
| `MCIngest` | `GrpcIngest`, `FumaroleIngest`, `Backfill`, `Archiver`, `RowCodec`, `Jetstreamer`, `Verifier` | sum |
| `IngestProofs` | | proofs of the sum |
| `MCProgress` | `GrpcIngest`, `FumaroleIngest`, `BlockHydration`, `ReadQuery`, `ShardTopology` under fairness | sum |
| `MCBlockReads` | `BlockReads`, `InflationRewards` | sum |
| `MCKeyReads` | `AddressReads`, `PrimaryReads`, `SignatureReads`, `RequestDispatch`, `ShardTopology` | sum |
| `KeyReadProofs` | | proofs of `SignatureReads` and `RequestDispatch` in the sum |

The coverage map is proved to be a set of slots (`CoverageMap` implements
`SlotSet`); `SignatureIndex` and `DiskCache` therefore use a set. `DiskCache` takes
the signature filters to be sound, which `SignatureIndex` shows.

A definition that begins with a mapped name of the code models the lines
`PROJECT.json` gives under `map`. Definitions under a comment "Mutant" are wrong
versions of the definition that follows, kept to show that the properties would
notice.

**Scenarios.** The larger models have a variable `scenario`, chosen in `Init` from
the constant `Scenario` and never changed. A scenario is a record with the
settings, the content of the source and the faults that may happen. One run
checks several of them, so that each combines a few hard behaviours and stays
small.

**Sums.** Components that ask the same kind of question share a run. The module of the run
declares the variables of all of them and a variable `part` (or `running`) that `Init` chooses: a behaviour
runs one component, the variables of the others rest at the value `"rest"`. A property of a sum is
the property of one component under `part = ...`. The components of a sum do not
interact; where parts of the program do, one module models them together (`BlockReads`,
`AddressReads` and `SignatureReads` have the tiers, the ingestor and the requests).

### CoverageMap

State: `ranges`, a function from the first to the last slot of each range, as the
`BTreeMap`. Actions: `InsertRange`, `Remove`, `RemoveBelow`. Queries are
operators. `MaxU64` stands for `u64::MAX`; additions that saturate in the code
saturate in the model.

### SignatureIndex

Steps are acquisitions of the index lock or of the coverage lock and queries of
the table. A bloom filter is the set of the signatures it admits: false positives
only cost a query. A fill registers itself as a writer, forwards rows, ensures the
filters of its partitions (probe without the lock, allocate under it), scans its
rows into them batch by batch, finishes, publishes its coverage and drops its
registration; each step may fail. The builder does the same for a whole partition.
Poison, eviction and schema reset register as ordinary writers.

### DiskCache

Tables (`txs`, `blocks`, `marks`, `meta`) survive a crash; map, floor, `ready` and
epochs do not. The filler loop is one process (`loop`), its fills are tasks
(`fill`), requests are readers with a program counter each. Epochs, data epoch and
serial are counters that a reader only compares for equality with its own sample:
`moved` records for each reader which of them changed since. `MaxVersion` bounds
the clock that stamps the coverage marks.

### HeadCache

Every writer holds the bank lock for its whole update, so each is one action. The
record `head` has the bank state, the maps and the chain proof. An address request
takes the locks three times: chain floor, rows, address floor. The cluster is a
constant tree of banks in which one chain is confirmed.

### BufferedRows and GrpcIngest

A flush is a sequence of round trips: merge, transactions, blocks, entries. An
insert may fail before or after it was applied. `MaxRetries` bounds the retries as
`insert_max_retries` does. An update is handled in one step up to the flush it
starts, because the select loop polls nothing else meanwhile. The producer sends
each block once per subscription and in order, statuses and footers at any time; it
skips slots, and scenarios add one that contradicts itself. Time is not modelled: any
waiting block may be found expired by a tick of the flush timer, and with it all
blocks before it.

### FumaroleIngest

The assembler is a record of parts for each slot: the block meta and one payload
that stands for transactions and entries, and the state of the footer. `delivered`
and `acked` are the events of each slot that the stream has handed out and that a
commit has covered; a restart delivers again what was not acknowledged. An event is
one step up to the flush it starts; the commit belongs to the last step of the flush
(`EndFlush`). A commit takes effect at once: the client may send it later, and one
that is lost only means more is delivered again. Flushes are those of `BufferedRows`
with `MaxRetries = 0`, since the consumer passes no retry settings.

### Backfill

`args` says which source is replayed and how. A run discovers slots, queues them, hands them
to workers, collects blocks and inserts them by tasks, transactions before metadata; a
signal, a failing insert and a block that is gone set the flags the code sets. `runs` counts
starts; the second begins on what the first left. Errors that the code retries until they clear are not steps. A Bigtable
fetch or decode that fails sets `fatal` first and then sends its error, which takes room in the bounded channel; `main` is the
spawning task, which stops at `fatal`, drops its sender and aborts the fetches (`StopSpawning`). An abort may meet the failing fetch
while its error waits: see [Observed](#observed).

### RowCodec

A transaction is a record with an `Option` (a sequence of at most one value) for everything that may be
absent. There is one operator for each conversion: ledger to wire form, wire form to row or to head-cache
record, row to answer. The state machine only picks a block, a source and an era and applies
them. The reference is `Codec!ServedAsRecorded`: what a node that answers from the ledger would show.

### Archiver

ClickHouse holds, per table, the slots that have rows; the store holds bundles. Each kind has a
program counter that goes through plan, validate, repair, backfill, export table by table,
manifest, done marker, delete and prune. Deletes are asynchronous mutations. `late` rows arrive at any
time; `FailRun` ends a run at any await, `StopServer` the process once its runs have ended. A removal of bundles that is cut short has
removed some of them and perhaps part of one (`PartlyRemoved`): a local directory then keeps its name, by which it is listed, with any of its
files gone; on S3 the done marker goes first. So `ListedWhole` speaks of the newest bundle of a kind only, which moves the restart
point and releases rows for deletion. The report that a run writes after its cleanup (`archive.rs:948`, `:1348`; `storage.rs:296-334`) could
recreate the directory of a bundle the cleanup just removed, only in configurations that do not continue; it is left out.

### Jetstreamer

One thread: its buffer, its writer and two workers, each with an open `INSERT`. Threads share nothing, so one
is enough. A ledger says of each slot whether it was skipped, its transactions and entries, and how it gives reward
commissions; a request is a slot range, and settings bound what may be written (genesis, pre-activation, commission in percent or basis
points). An `INSERT` that fails loses all its rows, or is applied and reported as failed.

### Verifier

`config` is a job with the tables it runs on; `run` is the process (its windows in the channel, the chain walk,
the counters), `stored` the checkpoint and the report, which survive a kill. A hash is the sequence of the
steps that led to it, so different inputs never collide and a broken link is always seen. The operators of
`verify/` return the set of finding codes of a block. The properties compare counters and exit code with a
reference that looks at the tables directly: `Status` says of each slot what an unbounded walk over
sound data structures would (contradicted, unproven, skipped, missing). A slot has at most one
conflicting duplicate. Rows at or below the tip do not change while a job runs.

### BlockReads and InflationRewards

Handlers are one action per await. Between them the cluster moves (`processed`, `confirmed`,
`finalized`), the ingestor writes transactions and metadata, the head cache follows and
prunes, the disk cache fills and evicts; `config.moves` bounds these moves. The tiers hold what
`HeadCache` and `DiskCache` show of them. A read by slot asks the owner shard's local table first where reads go to shards directly, which
may fail or lack the youngest `OwnerLag` slots, and the distributed table if that gave no row; in distributed scope the distributed table is
the only read. It may lack the youngest `Lag` slots, and `MissesTrue` allows no more than that to be called missing. Ranges, counts and the tip
are taken from ClickHouse's current view. `InflationRewards` is one epoch whose rewards are
in its boundary block or in partitions; each query is answered by a replica that may lack any of the
youngest `Lag` slots. Assumptions: `Lag + Drift <= SettleSlots`, that is, replicas and tip drift
stay within the settle slots (4,500 by default) after which an answer is kept; no partition is empty; a
boundary block with neither partition count nor height is of a non-partitioned epoch.

### BlockHydration and ReadQuery

A build waits for one permit, takes further ones only if they are free, splits and joins; a transaction
is the stage at which its conversion fails. In `ReadQuery` a read takes a permit; a read whose
response is closed early goes to a verifier, which asks every node until the query was absent twice. The
code pauses 250 ms between the two; the model takes from it that a query has started and fanned out
before the pause ends. A node the verifiers do not know is drained before it leaves the cluster. The
at most 128 query ids of a batch are one batch here. `release_over_cap` names the entries to give up by their
place in the queue, not by taking them off its front.

### ShardTopology

`client` goes through the steps of `create_tables`: tables, topology, probes, moduli of the local tables; each
check may fail. Afterwards the monitor sweeps the replicas one at a time and reads fail over; both read the active replica,
decide, and store, in separate steps. `changes` bounds crashes, recoveries and failures of a healthy replica. Assumptions: an
endpoint belongs to one shard (`failover_endpoint` takes the first match). Where the modulus of the distributed hot table cannot
be read, the check of the local one is skipped (`client.rs:1541-1561`), so `BucketsAgree` speaks of the tables in `checked`. The
verification of the owner-shard routing by sample signatures is not modelled. `key_reads` checks safety over all
cases, `progress` checks `ReplicasSettle` with one shard of three replicas.

### RequestDispatch

One request from its body to the reply. A handler is one of its possible endings: a result, an error of the client's or of the
server's making, a bare status, a garbled body, a panic. Calls of a batch are tasks that wait for a permit, run, and are
joined in any order; the timeout and the disconnect may come at any step.

### AddressReads, PrimaryReads and SignatureReads

A page is a set of positions `<<slot, index>>`. What it owes is fixed when the request begins: rows
the tiers had then, within its bounds and limit. Assumptions of `AddressReads`: the primary trails
a live head; replicas lag at most `Margin`; a head that catches up is not trusted until it
has reached the primary; head retention outlasts the hydration of one page; the replica that hydrates
holds what the listing replica held; a session does not end between proof and page; pages of the head alone
are as fresh as the head. An ascending `getTransactionsForAddress` looks at the disk floor (`TfaFloor`) and then reads a local page
that takes the span anew (`TfaDisk`); `from` is the floor it was served at, and `OwedRowsServed` asks for the rows from there on
(finding 2 is about those below). `PrimaryReads` has rows in several copies, two shards and every route between
them with its fallbacks. Copies count as rows of a page of signatures; a page of transactions has each signature once. `SignatureReads` assumes that the primary trails a trusted head and that the disk is
filled from slots every replica holds; a cached miss (TTL 1 s) answers as of when it was cached.

## Runs

The bounds keep each run within four minutes on two cores. Deadlock is checked except in `block_reads`,
`key_reads`, `address_reads_floor`, `archiver_skip` and `verifier_anchors`: a fixed number of requests is answered, or a
fixed number of cycles run, and then nothing is left to do.

| run | instance | shows |
|---|---|---|
| `coverage_map` | slots 0..7 | ranges stay merged and disjoint; every query equals its definition on the set; the map implements `SlotSet` |
| `signature_index` | 3 slots in 2 partitions, room for one filter, 2 fills, 1 poisoning reader, keeper, builder, generations up to 5 | a trusted filter never denies a stored signature; memory within budget; a filter keeps its bits while its generation lasts |
| `disk_cache` | up to 3 slots in partitions of one, up to 2 fills and 2 readers, seven scenarios | the answers of the disk tier are true; served slots are stored unless a byte budget evicts or a refresh fails half way |
| `head_cache` | four banks on two forks over three slots, one request, three scenarios | blocks whole and of the selected bank, chain proof is one path, floors complete |
| `ingest` | gRPC: three slots, one retry, four scenarios; Fumarole: three slots, three scenarios; backfills: five slots, nine configurations, two runs; archiver: seven slots, two kinds, eleven configurations; conversions: 32 blocks by four sources in four eras; plugin: three slots, five ledgers; verifier: five slots, 59 jobs, three starts | nothing is missing below the tip and every row is the winner's; what was acknowledged is stored; completion means stored (but for a Bigtable run that aborted its fetches), metadata last; bundles whole before rows are deleted; answers as recorded; the plugin's rows all stored at exit (`HistoryStored`, with the backfills); the verifier's checkpoint and verdict true |
| `progress` | gRPC: two slots, three scenarios; Fumarole: a watched slot and a second one that stands for all later ones and comes again and again, three scenarios; hydration: two builds, three permits; reads: two reads, two nodes, two verifiers; shards: one with three replicas, two changes; fairness | accepted blocks are stored, or the process stops; a slot that ended is acknowledged, or the process stops or goes on assembling other slots; builds end as one thread would; permits of abandoned reads come back, and not before the work ended (`WorkWithinPermits`); a shard ends at a replica that answers |
| `block_reads` | four slots with a skipped one and an abandoned bank, five starting states, up to two requests, owner replicas up to two slots behind and others one; an epoch of two partitions, replicas one slot behind | answers by slot are those of one state of the ledger; rewards and what is kept of them are true |
| `key_reads` | up to five rows of an address in four slots; six positions in two shards with copies; up to two signatures and two requests; single calls and batches of up to four with two permits; eleven clusters of up to two shards, three changes | no row, status or transaction that the tiers owe is left out, and an address is marked empty only where it is; every call is answered at its place with true status and sources (`RequestsAnswered`); a read goes to the shard of its key (`ReadsRouted`) |
| `disk_cache_outlived`, `address_reads_floor`, `archiver_skip`, `verifier_anchors` | see [Findings](#findings) | the code does not do what its comment or README says |

Why the bounds are enough:

- `CoverageMap`: with 8 slots there are up to four ranges, a range can absorb
  several others, touch both neighbours, and end at the saturating edge. The proofs
  cover every `MaxU64`.
- `SignatureIndex`: one partition of two slots lets one slot be covered while the
  other is filled; a second partition with room for only one filter makes filters
  come and go. Five generations let a filter be dropped and allocated twice under a
  scan. The proof covers every number.
- `DiskCache`: partitions of one slot make every eviction floor a slot. The
  scenarios split the product of disturbances and request kinds: evictions, restarts and
  failing drops against blocks and ranges; failing rebuilds and restarts against the
  same; evictions together with rebuilds against blocks; a rebuild against address pages and pinned reads; the same
  next to a second request that poisons a slot because the rebuild wiped its row; two fills that leave a hole, and restarts, against
  status reads; evictions by the retention window with restarts and failing drops, against blocks. The proofs
  cover every window, width and number of fills and readers.
- `HeadCache`: bank `o` loses its slot to `b` and shares a signature with `d`, which
  builds on `b`. Retaining two of three slots evicts; a cap of two signatures per
  address truncates.
- `GrpcIngest`: three slots give a stored prefix, a block in the buffers and one that
  waits, or a held one between two others. The scenarios: failing inserts, crashes
  and stops; bank zero next to a slot without bank ids and an ordinary bank; a
  contested slot after a skipped one with a producer that contradicts itself; the
  limits of hold, wait queue and join window within reach.
- `FumaroleIngest`: three slots give one stored, one buffered and one incomplete block.
  The scenarios: failing inserts, crashes and stops; a whole block, an empty slot and a
  block in parts under memory pressure, with spoilt footers and broken blocks; a bound
  with rows that are flushed only at the end.
- `Backfill`: five slots with one skipped and one gone from the source, two workers and chunks of
  two, so that a chunk ends inside the range and workers overtake each other.
- `Archiver`: kinds of two and three slots over seven overlap without aligning, so that one kind has
  archived what the other has not; four cycles reach a second bundle of each, and a removal that was cut short before it.
- `RowCodec`: each list absent, empty and filled by itself, each message version and reward era. Columns are
  converted independently of each other, so single variations suffice; those that interact (version
  and lookups, loaded addresses, era and slot) are combined.
- `Jetstreamer`: three slots and two workers; an `INSERT` may stay open over any number of batches, so it
  spans several slots.
- `Verifier`: a chain of four blocks with a skipped slot, and that chain with one thing wrong at a time; windows of one, two,
  three and nine slots end before, inside and behind the gap; three starts let a resume be interrupted again. Every
  rule of `verify/` and of the chain walk has a ledger that only it rejects.
- `BlockReads`: three moves let every tier change between any two awaits of a request; two requests
  share a flight and the response cache.
- `InflationRewards`: two partitions, so that one may be visible without the other; one failing leader.
- `AddressReads`: a limit of two out of up to five rows cuts pages inside the slot that has two rows, where
  cursors point; the floors of disk and head lie inside the rows.
- `PrimaryReads`: up to three copies of a row with limits of one to four make copies fill a page, or the answer of one shard to
  the hot fan-out; both shards hold rows of the address.
- `SignatureReads`: three or four slots put the landing slot below, inside and above each tier.
- `BlockHydration`, `ReadQuery`: two builds for three permits compete for the last one; two nodes let a query be absent
  on one and alive on the other.
- `ShardTopology`: three replicas let the monitor and a late failure choose different ones; the cases list shards out of
  order, tables whose moduli disagree or are missing on one shard, and listings that must be refused.
- `RequestDispatch`: three calls for two permits, ids that repeat or are null, and a batch above its limit.

Symmetry is used among fills, among readers and among poisoning readers, which are
interchangeable; never in the runs with liveness. There, `BuildsEnd` and `PermitsReturn` watch one of two
interchangeable builds and reads.

## Fairness

`GrpcIngest!FairSpec`, for `BlocksReachTheTables`:

- weak fairness of the steps of a flush: the task that flushes runs until the round
  trip returns;
- strong fairness of the timer tick that finds every wait over: `tokio::select!`
  chooses at random among the ready branches, and the deadlines are absolute, so a
  tick after the last deadline is handled at some time although updates keep coming;
- strong fairness of the `created` status of each produced slot: the producer sends
  the statuses that were subscribed to.

Nothing is assumed of footers, of the success of inserts or of the arrival of further
blocks. A process that stops satisfies the property: its supervisor restarts it.

`FumaroleIngest!FairSpec`, for `EveryEndAcknowledged`: weak fairness of the steps of a
flush, of the timer while there are rows, and of the stream as a whole while it has data
or slot ends to deliver. The random choice of `tokio::select!` gives the last two. Footers
need not come. The stream never ends: `MCProgress!LaterSlot` lets a slot that ended make way for a
later one, so slots may overlap for ever. A commit is made only while no slot is incomplete (`commit_if_assembled`), and the property
promises no more: with slots that keep overlapping, ends stay unacknowledged although they were delivered.

`BlockHydration!Fairness`, for `BuildsEnd`: weak fairness of the work of a build (blocking threads
run), strong fairness of its first permit: tokio's semaphore serves its waiters in order, and further
permits are only taken without waiting.

`ReadQuery!Fairness`, for `PermitsReturn`: weak fairness of each verifier's worker, and of each read's
end: a guard is dropped, a request reaches the server or is lost, an execution limit elapses.
Nothing is assumed of the server's answers to the verifier.

`ShardTopology`, for `ReplicasSettle`: weak fairness of the monitor, whose ticker fires for ever, and of the end of each read under way,
which its timeout brings. Nothing is assumed of new reads, and replicas change a bounded number of times.

`ProgressSpec` states these for its five parts together. As a behaviour runs one part, weak (strong)
fairness of a disjunction over parts is that of the running part's disjunct.

## Proofs

TLAPS proves, for every value of the constants that satisfies the named assumptions:

- **`IndexProofs`**, the coverage map (assumption `MaxU64Assumption`: `MaxU64` is a natural).
  `RangesTyped`, `MergedCorrect`, `CoverageMapImplementsSlotSet` and `QueriesCorrect`. Type and merge
  property are inductive together (`WellFormed`): lemmas `InsertCorrect`,
  `RemoveCorrect` and `RemoveBelowCorrect` say that each operation keeps a map well
  formed and has the effect on its slots that the abstract operation has. `QueriesCorrect` follows from
  `WellFormed` alone: each query, evaluated on a well-formed map, is its definition on the set. `Max` of a
  finite set of slots is characterised once (`MaxOfSlots`).
- **`IndexProofs`**, the signature filters (assumption `SignatureIndexAssumption`). `TypeCorrect`, and
  `AbsenceIsProved`: `EnoughWriters => (Spec => []NoFalseAbsence)`, where
  `EnoughWriters` says that the table of writers has room for every task.
  `NoFalseAbsence` is not inductive, since a filter becomes complete because of what a
  scan read long before. The strengthening `IndInv` says what is known in between:
  - every task that works is registered (`AllTracked`) and fills have disjoint,
    uncovered ranges (`FillsAreApart`);
  - no generation is newer than the serial (`GenerationsAreOld`), so a new one
    invalidates all scans under way;
  - a scan whose generation is current has each row in the filter or still pending
    (`StreamsMissNothing`, `BuildMissesNothing`);
  - a fill that finished its update has all its rows in the filters (`UpdatesHold`);
  - an allocation that found no coverage, and no new serial since, is of a partition
    whose covered slots are all masked (`AllocationIsFresh`);
  - a covered slot of a complete filter is in the filter or *masked* by a failed fill
    that is still registered and will distrust the filter when it ends
    (`CompleteMeansCovered`).

  There is one lemma for each action, with one step for each conjunct of `IndInv`.
  `EnoughWriters` cannot be dropped: with `MaxWriters = 1`, one fill and `MaxEntries = 2`, TLC finds a
  counterexample (see [Observed](#observed)).

  `BudgetIsKept` (`WithinBudget`) and `GenerationsAreHonest` (`GenerationKeepsBits`, an action property) share `BudgetInv`: the
  allocation under way is counted with the filters, and no generation is newer than the serial, so an emptied filter has a
  generation it never had. They do not need `EnoughWriters`.
- **`DiskCacheProofs`**, for every window, partition width, number of fills and requests, and every scenario.
  - `BlocksAnsweredTrue` (`BlocksTrue`), in every scenario, faults included. `BlockReadsTrue` says what a request has learnt
    at each of its steps; no row is stored and no mark is set that the source does not have (`RowsTrue`, `MarksTrue`).
  - `AddressPagesKept` and `AbsenceKept` (`AddressPagesComplete`, `AbsenceTrue`) under the hypothesis `KeepsEverything`: the
    window exceeds the last slot, no byte budget evicts, no refresh fails half way. `AbsenceKept` also excludes a new
    schema, `PinnedAbsenceKept` does not. The invariant `KeepInv` is the chain from a fill to a reader: rows before marks, marks
    before coverage, coverage reloaded from marks, epochs sampled before the span, nothing ready while the loop rebuilds.
    The hypothesis is needed: without it `disk_cache_outlived` has a counterexample for each part of it. It holds in states of
    the scenarios `Rebuilds`, `Poisons` and `Statuses`.
  - `TypeCorrect` and `FloorsInReach`.
  - `RetentionKept` (`RetentionSound`), without a hypothesis on the scenario: when the loop is at its top and the cache is ready,
  covered slots have their rows, unless a byte budget evicts or a refresh fails half way. An eviction drops rows,
  then marks, raises the floor and then forgets coverage, and may fail or be cut short after each. What is left behind is
  *doomed*: the slot that caused the eviction, a window above it, is still stored, marked and served, and makes the next
  `maybe_evict` drop the rest before anything is served (`LostDoomed`). So no request may poison that slot: a request
  poisons only what it met without rows, and such a slot has left the window for good or is the oldest of a cache that
  starts over (`Explained`). Slots are sorted into `Young`, `Gone` and `Firm` accordingly; `Shape` says what each kind of step
  does to rows, marks and map.
- **`HeadCacheProofs`** (assumption `HeadCacheAssumption`: banks form a tree with rising slots, one chain of it is confirmed, a bank has no
  signature twice and two confirmed banks share none). `BlocksKeptWhole`, `WinnersKept`, `ConfirmedKept` and `ChainKept`: `BlocksServedWhole`,
  `WinnersProjected`, `ConfirmedServed` and `ChainIsPath`, for every tree, retention, cap and order of events. None of them is
  inductive: what readers see depends on maps that are written one after the other by five operations. `HeadInv` has three parts.
  - `MapsInv`: the maps by signature and by slot agree with each other and with the block of the slot; a block is of its slot and reached
    the minimum; a slot with a block has a commitment, or eviction and the end of a session would not find it; a bank that the proof
    trusts is the block of its slot.
  - `BanksInv`: where the bank state tracks a slot, it selected what the maps show; a selected bank is sealed, not discarded and shown while
    retained; a confirmed one has all its signatures, since the assumption lets it lose none to another confirmed bank.
  - `SessionInv`: what the stream discarded is remembered above the bank floor; between two sessions nothing is shown.

  While an event is handled the invariant does not hold: a bank is sealed or confirmed before it is published. `BanksInvBut` excepts that
  bank, and `PublishBankEffect` shows that `publish_bank` restores the rest whether it declines, repairs or replaces. Each operation has a lemma
  that says what it changes (`Cleared`, `Advanced`, `Ingested`, `Shown`, `Claimed`). The loops over slots and over transactions, and the walk down the
  chain, are recursive functions; what they compute is proved by induction, with the hypothesis written as a set of numbers (`NatSetInduction`,
  from `WFMin`), as the provers do not instantiate the library's induction rules.
- **`StreamProofs`**, the live ingestors, for every number of slots, every scenario and any number of failing inserts, crashes and
  restarts.
  - The gRPC writer (`ScenarioAssumption`: banks of slots of the chain, limits that are numbers). `WriterSafe`: no produced block or its transactions
    are missing below the metadata tip, an orderly stop leaves no identified block behind, the wait queues keep their limits, and rows have the
    producer's bank and no footer but the winner's. None of this is inductive: a restart resumes at the tip, so what lies below it has to
    be whole at every step of a flush. `GInv` follows a block on its way. Stored, buffered, awaiting a footer, held for evidence and still to
    come, blocks are in slot order and once (`Ordered`), without a gap on the way (`Reached`) or, after a rejected update, without one in
    what is stored and buffered (`Gapless`). A block row's transactions are stored before it or buffered with it (`BufferInv`). A flush
    empties the buffers in its order, and after the merge no stored footer differs from a buffered one (`FlushInv`). The join's evidence
    is the producer's unless that one contradicts itself (`Identified`).
  - The Fumarole consumer (`GroupAssumption`: each slot of a scenario comes in parts, as a block or not at all). `AcknowledgedKept`:
    what was acknowledged is stored. A commit covers everything delivered, so `AckInv` accounts for each delivered event between two commits:
    its data are in the assembler, or its rows are in a buffer or stored, in each of the three tables. `FootersSurvive` (an action property):
    `FooterInv` says that a slot is assembled once in a session, so a buffered row of a stored slot is at or below the ceiling and was
    merged with the stored footer.
- **`ArchiverProofs`** (assumption `ArchiverAssumption`: the chain has a last slot, rows are of produced slots, and a listed bundle of an earlier process is
  whole), for every chain and every configuration, any number of kinds, runs, failures and kills. Neither `DeletedArchived` nor `ListedWhole` is inductive, as a run
  acts on what it read some stages before while the ingestor, other kinds and ClickHouse's mutations change the tables. `ArchiveInv` has two parts.
  - `DeleteInv`, for configurations that do not delete from slot zero: what a mutation will remove has been in a bundle. `RunSafe` says what a run knows at each
    stage: between gate and publication every row of its range is in ClickHouse or was archived, so the export and what other kinds archived are all of it;
    the names it lists and the range it deletes are archived. Validation reads blocks before transactions and a deletion goes the other
    way round, so an archived block has transactions that are there or archived.
  - `WholeInv`, for configurations that continue: the rows of a range stay until they are exported, although other kinds delete. A deletion never goes beyond the last
    bundle of any kind (`ReleasedUpTo`), a run plans behind the last bundle of its own kind, and nothing but that run changes the listing of the
    kind (`RunWhole`); a cleanup, also one that is cut short and leaves a bundle in part, spares the newest.
- **`IngestProofs`**: what the run `ingest` checks of the three, of the sum itself. `ArchiveKept` (`ArchiveSafe`), `WriterStored` (`StreamStored`), `WriterRowsTrue` (`RowsOfTheWinner`),
  `CommitAfterStore` (`AcknowledgedIsStored`) and `StreamsKeepFooters` (`StreamFootersKept`). `SumInv` is the invariant of the part that runs; a step of
  the sum is a step of that part (`SumMoves`).
- **`ReadQueryProofs`** (assumption `ReadQueryAssumption`). `AdmissionKept` (`WorkWithinAdmission`), for every number of reads, endpoints, verifiers
  and nodes. `AdmissionInv`: what is at work holds its permit; a read absent from one answer is settled after the pause, so nothing of it
  can start; what a settled read still runs is on a node that is configured or was learned, and while a worker asks, was
  seen or is on a node not yet asked. So a second answer that covers the learned nodes finds nothing at work.

- **`KeyReadProofs`**: two parts of what the run `key_reads` checks, of the sum itself. `KeyInv` is the invariant of the part that runs.
  - `RequestsKept` (`RequestsAnswered`; assumption `DispatchAssumption`: a body is a sequence of calls with ids and forms, a single call is one), for every set
    of bodies, every batch size, number of permits and set of sources. `BatchInOrder` is not inductive, as it speaks of the reply only. `DispatchInv` adds
    what holds until there is one (`OpenInv`): every item of a batch is refused and has its refusal at its place, or has a task, and a joined task has put its own
    handler's answer at its own place (`Placed`); nothing is aborted before the reply; what a call read from is among the sources marked as touched.
  - `LookupsKept` (`LookupsNotLost`; assumption `LookupAssumption`: signatures land in slots of the chain, requests ask for them, and a head that starts as
    trusted has reached ClickHouse), for every scenario, any number of requests and every movement of the tiers. `LookupInv` says what each request knows
    at each stage. The delicate step is a signature that is not asked for because an earlier request found it absent (`SkippedNotOwed`). The disk cache lacked it
    in the span it read. The recorded absence reaches up to that span, and a signature recorded as absent landed in no slot up to the recorded
    one (`CachesOK`). Behind the span begins the chain that the head vouches for, up to a tip sampled before the lookup, at which ClickHouse
    had nothing newer; what the head did not show up to that tip lies below its floor or a block it missed (`StatusOK`), and stays there as the head moves
    (`Grows`). A cached miss of `getTransaction` keeps the slot up to which the replica that answered it was complete.

Each invariant was checked by TLC on a small instance before it was proved. `AdmissionKept` is about the component's specification; the run
`progress` checks the same formula as part of `WorkWithinPermits`.

Only model-checked:

- liveness (TLAPS proves none under fairness);
- `AddressIndexSound` of `HeadCache`: that the rows between a request's floors are complete relates the maps at three moments of a request to
  what the cap and a reconnect dropped in between, which `HeadInv` does not record;
- `ReadQuery!PendingShare`: the queue of abandoned reads is filtered with `SelectSeq`, which is recursive;
- the conversions of `RowCodec` and the checks of `Verifier`, over their blocks and ledgers;
- `BlockHydration!PermitsConserved` and `ChunkedAsSequential`, and with them `WorkWithinPermits` as a whole: sums over builds and over chunks are folds,
  whose values need induction over data;
- `ReadsRouted`: the owner of a key is found by counting weights over shards, a fold;
- the other parts of the sums: `HistoryStored`, the properties of block reads, `AddressRowsServed` and `PrimaryReadsExact`. Their
  invariants were not worked out.

## Findings

Each is a run that TLC ends with a counterexample; `PROJECT.json` quotes the sentence
of the repository that it contradicts.

1. `disk_cache_outlived`: coverage outlives its rows, and an address page misses transactions of slots it claims. TLC
   reports the shortest of three scenarios; each violates the property alone.
   - An eviction by the window moves the epoch before it drops partitions, and floor and map after (`disk_cache/mod.rs:1180`). A request that
     begins in between passes its own check.
   - Data partitions are dropped before coverage partitions (`mod.rs:1217`); a restart in between reloads coverage of rows that are gone.
   - `refresh_schema` adopts the new snapshot before it reloads the coverage (`mod.rs:600`): if the reload fails, the next refresh sees no
     difference and the old map is served over empty tables.
2. `address_reads_floor`: at the floor of the disk cache a page is served without rows it owes. Each of the two scenarios violates the property alone.
   - An `until` position in the slot just below the floor is taken for one at the floor (`disk_cache/mod.rs:1341`). The page is served as
     complete although rows of that slot after the position are owed. `key_reads` has no such cursor.
   - An ascending `getTransactionsForAddress` is admitted to the disk cache by the floor of one span
     (`handlers/transactions.rs:1464`) and served from another (`key_reads.rs:1163`). An eviction in between raises the floor above the
     lower bound of the page; nothing looks at the floor of an ascending page again, ClickHouse is asked for the slots above the tip at most,
     and the oldest rows are missing. The cursor of the next page lies above them.
3. `archiver_skip`: when the last bundle ends below ClickHouse's earliest slot, the next plan starts at that
   earliest slot (`archive.rs:270`) and not at the stored end plus one; a block of a slot in between that
   was written late is archived by no bundle.
4. `verifier_anchors`: anchors that met no block are counted behind the last window, but the checkpoint of the last window
   may already lie behind the range. A job killed in between and resumed returns at once
   (`runner.rs:105`): exit code 0, and no line says that an anchor was never compared. `ingest` checks
   the exit code up to this case (`ExitCodeTrue` asks nothing of anchors when the code is 0).

## Observed

Disagreements and limits met while modelling that have no run of their own. The first four were reproduced with
TLC on the modules here, with scenarios that are not kept.

Caches and ingestors:

- Signature filters (`key_index.rs:137`): a writer that finds 128 others registered clears all filters, but a
  registered fill whose filter update is finished does not notice. An empty filter allocated before that fill
  publishes denies its signatures, although `key_index.rs:2` says "Missing or changing filters always
  admit a query."
- Head cache (`head_cache/mod.rs:864`): the address floor assumes that what it reads only grows (comment at
  line 861); the end of a session sets it back. A request around a reconnect claims rows it does not have.
- Fumarole (`fumarole.rs:177`): events beyond the historical bound are skipped while a block below it is
  incomplete. The flush of that block acknowledges everything delivered, the skipped slots included,
  although the process is about to stop "without acknowledging rejected progress".
- Memos (`util.rs:328-330` and `format_gsfa_memo`): a memo whose text holds the separator, looks like a length prefix or
  is empty is rendered differently from stored rows and from the head cache. The blocks of `HistoryScenarios` have
  none of these.
- Conversion: an error that falls back to hex makes its row unreadable, and with it the whole `getBlock`; a
  `uiAmount` of zero comes back as null; the text of errors that Jetstreamer writes is read back by a table in the
  reader; the live stream stores an unknown reward type as none where the head cache drops the metadata. Wire values are taken
  to be well formed, and the operator's era setting to be right.

- Fumarole (`fumarole.rs:1024-1030`): a commit waits until no slot is incomplete. If a part of the next slot always comes before
  the last part of this one, nothing is acknowledged, although everything is stored, and a restart replays it all.

Backfills:

- Bigtable (`bigtable.rs:340-342`): a fetch that fails sets `fatal` and waits to send its error on a full channel; the main task sees
  `fatal`, aborts it, and the error is gone. Unless another task reports one, the inserter sees the channel close and the run returns `Ok` with
  blocks missing. `CompleteStored` excepts runs that aborted their fetches.
- `--rpc-from-slot '*'` starts at the highest stored slot; a Bigtable slot file may name slots that have no block, which
  are left out without an error; a panic inside `spawn_blocking` is swallowed; discovery that passes the tip of a lagging
  node ends as complete; a local restore applies the slot window to bundles and not to the rows within.

Archiver:

- A lagging RPC node hides missing blocks from validation. `OPTIMIZE DEDUPLICATE` cannot repair every overcount. Optional
  tables are not validated. A kill between done marker and delete leaves the range undeleted. A bundle without a done
  marker is never made again under continuation. Deletes from slot zero also remove a late slot that was passed
  over. Runs with `force`, `allow_rpc_failure` or a confirmed prompt are exempt from `DeletedArchived`.

Jetstreamer plugin:

- When an `INSERT` fails, all rows of the open `INSERT` are lost, those of earlier batches included, and
  only the current batch is retried (`lib.rs:1339-1402`). Errors of a commit on a tick or at shutdown are logged only. The
  plugin's README tells operators to verify completeness after any run; `ExitStoresAll` speaks of
  runs in which no `INSERT` failed. Rows of a slot that restarts are buffered twice and collapse by key.

Verifier:

- A block whose parent lies below the block before it is reported by an uninterrupted run; if a resume starts at that block,
  the walk is seeded with the block's own parent and the contradiction is missed, although `checkpoint.rs:5-8` says
  that cursor and counters capture "the full run state". The one ledger of this kind has a window that keeps the two together.
- Conflicts of slots without a block that lie behind the last block are counted again after a resume.
- A `--full` job that ended with an anchor beyond the tip keeps it in `anchors_unchecked` after a later run compared it.
- Slots before a block with an impossible parent get none of the five statuses of `crates/superbank-verify/README.md:98`.
- A start without `--resume` truncates the report, while the old checkpoint stays until the first window is saved.

Handlers:

- `LatestBlockHeightCache` reads slot and height from two atomics (`state.rs:303-330`). `getBlockTime` answers -32004 above a
  stalled head tip (`blocks.rs:1858`). `count()` counts rows that are not merged yet. `isBlockhashValid` may deny a hash that
  lies between head floor and ClickHouse tip.
- A watermark page takes the head proof after the head rows and has no tip-gap check; `getTransactionsForAddress`
  evaluates the address floor before it reads the rows, contrary to the comment at `head_cache/mod.rs:858-863`.
  Full-detail pages drop rows that were evicted in between. An unresolved pagination signature restarts at the first page.
- Pages of the primary merged with the head are not checked for a gap when the primary lags below the head's
  retention.
- Copies of a row that ClickHouse has not merged yet: only the hot fan-out of `getSignaturesForAddress` drops them
  (`gsfa.rs:350-369`), and only after each shard has cut its answer at the limit. A shard whose answer copies filled hides its
  next signatures while the others' older ones get on the page, and the next page begins behind them (`Crowded`). The owner and distributed routes and the
  inline cursor (`gsfa.rs:38-81`, `:984-1046`, `:1256-1409`) return copies as rows: a signature may be on a page twice, none is left out. TLC reaches both.
- A read of positions from a local shard may return part of them (`clickhouse/transactions.rs:1659-1663`).
- The reads by slot of a finalized block may answer "skipped" for one that is newer than the lag of the distributed table: only an answer of
  the owner shard is confirmed by a second read (`clickhouse/blocks.rs:3074-3095`).

## What the scenarios leave out on purpose

Some behaviours of the code break, or would break, a property whenever they can happen.
The passing scenarios keep them out, and they have no run of their own:

- A poison and a fill of one slot that overlap can leave the slot covered in memory and
  poisoned in the table. Until a restart the map decides what is served, and the rows are
  there, so `RetentionSound` speaks of rows and not of marks.
- A read takes `ready` first and the epochs after (`key_reads.rs:438`), and
  `getSignatureStatuses` does not test `ready` again when it takes the covered span. A status
  read that begins just before a schema rebuild can sample the new epoch, take the old span
  and query the wiped tables; it is valid if the rebuild ends before the read does. Address
  pages and pinned reads test `ready` with the span, and only they run against rebuilds. For the same reason the scenario
  `Statuses` has restarts only, and `AbsenceKept` excludes a new schema.
- A schema rebuild drops the tables one by one (`schema.rs:856-879`) and the model in one step. A request that reads two tables may
  still find one before and one after it; a rebuild that fails when only some of the tables are gone is not distinguished from one
  that fails when all are.
- A done marker that survives a partial local removal makes a bundle look finished to `archive_has_done_marker`; older bundles only,
  as a cleanup spares the newest and a run that continues plans behind it.
- Reads by key and evictions are kept apart in `disk_cache`; `disk_cache_outlived` puts them together.
- In the head cache, metadata may move the bank floor more than `retain_slots` ahead of the
  newest published slot. A bank then leaves the bank state while the maps still show it, and
  its discard is ignored. `WinnersProjected` speaks of slots at or above the bank floor.
- A stop between the inserts of blocks and entries loses entries: the restart point has moved
  past them. The RPC server does not read the `entries` table.
- After a rejected update the gRPC writer flushes its buffers but leaves the blocks that wait
  for a footer in memory (`grpc.rs:830`), though `crates/superbank/README.md:421` promises to
  write the complete prefix. A restart replays them. `StopWritesWaiting` speaks of stops and
  stream errors only.
- A block sent twice on one subscription is written again without the footer that the first
  copy consumed. The producer of the model sends it once.

## Not modelled

- Settings, arguments, metrics, the HTTP listener, gRPC plumbing, SQL text: no state that a property needs. This is also the larger
  part of the source that `map` does not name.
- Workflow leases (`clickhouse/read_query/admission.rs`), connection pools and the HTTP client: `ReadQuery` begins
  where a read asks for its permit.
- The address summaries of `key_index.rs`: they only spare queries; `DiskCache` takes them to be absent.
- Pacing: of the filler, of reconnects and of requests to RPC nodes.
- Byte layouts (`message_wire.rs`, parquet, the gRPC wire format), byte limits that accompany block limits, and the byte
  accounting of caches.
- Of the verifier, SHA-256 and the Merkle tree, the command line, the fetch of the genesis certificate and fixtures.
- The hash functions of the bloom filters: a filter is the set it admits.
- Of the gRPC writer, the fallback to another slot when the provider no longer has the requested one; the health watch
  enters as `FatalCondition`. Of the Fumarole consumer, two banks of one slot, bank ids that change within a slot and the creation
  of a consumer group. Of the plugin, the removal of a worker that died.
- Schemas, scripts, the site and load tests.

## Plan

Done, in this order: coverage map with its proof; signature filters with theirs; disk
cache; head cache; gRPC writer and Fumarole consumer with their liveness; block methods; inflation
rewards; hydration; ClickHouse reads; address methods and the queries behind them; methods by signature; conversions;
backfills; archiver; Jetstreamer plugin; verifier; shard topology; request dispatch; the proofs of the remaining properties of the
coverage map, the signature filters and the disk cache, and of the head cache, the live ingestors, the archiver, the ClickHouse reads, the lookups by signature
and the request dispatch.

Next:

1. Proofs, in this order: `OwedRowsServed` and `WatermarkTrue` of `AddressReads`; `PermitsConserved` of `BlockHydration`; `MetadataLast` of `Backfill`.
2. **`AddressIndex`**: the other half of `key_index.rs`, along the lines of `SignatureIndex`.
3. **`WorkflowLeases`** (`admission.rs`): a request that needs several reads holds its share.
