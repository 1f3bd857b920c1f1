----------------------------- MODULE BlockReads -----------------------------
(***************************************************************************)
(* The methods of superbank-rpc that are asked by slot: getBlock,          *)
(* getBlockTime, getBlocks, getBlocksWithLimit and the methods about the   *)
(* tip (handlers/blocks.rs, handlers/block_ranges.rs), with the queries    *)
(* they send (clickhouse/blocks.rs) and the caches they keep (state.rs,    *)
(* block_response_cache.rs).                                               *)
(*                                                                         *)
(* A handler is one action per await: between two of them the cluster      *)
(* moves on, the ingestor writes, the head cache follows and prunes, the   *)
(* disk cache fills and evicts.  The tiers are external here (HeadCache    *)
(* and DiskCache model them): what they hold is true of the chain.  A      *)
(* block is its slot, its payload the number of transaction rows read.     *)
(***************************************************************************)
EXTENDS Integers, FiniteSets, FiniteSetsExt, TLC

CONSTANTS
  MaxSlot,
  Blocks,         \* the slots of the chain that the cluster finalizes
  Fork,           \* a slot of a bank that is processed and then abandoned
  txs,            \* [Blocks -> Nat], the transactions of a block
  versioned,      \* the blocks that hold a versioned transaction
  ProcessingAge,  \* MAX_PROCESSING_AGE
  SlotWindow,     \* BLOCKHASH_VALID_SLOT_WINDOW
  HintMargin,     \* LATEST_SLOT_HINT_MARGIN
  MaxRange,       \* MAX_GET_BLOCKS_RANGE
  Lag,            \* how many slots a replica may lack that the distributed table reads
  OwnerLag,       \* the same of the replica of the owner shard that is read directly
  Config,         \* the configurations of the server, see config
  Ask,            \* the requests
  Request,        \* 1..n, the requests under way at a time
  World           \* the states of the cluster and the tiers that a run starts from

Slot == 1..MaxSlot
Level == 0..2     \* processed, confirmed, finalized

ASSUME BlockReadsAssumption ==
  /\ MaxSlot \in Nat \ {0} /\ Blocks \subseteq Slot /\ Fork \in Slot \ Blocks
  /\ txs \in [Blocks -> Nat] /\ versioned \subseteq Blocks
  /\ {ProcessingAge, SlotWindow, HintMargin, MaxRange, Lag, OwnerLag} \subseteq Nat

VARIABLES
  config,         \* head, disk: the tiers that are on; share: a confirmed getBlock
                  \* uses the response cache; clamp: GET_BLOCKS_CLAMP_TO_HEAD_TIP;
                  \* direct: scope_shard_direct with a topology, else distributed;
                  \* methods and requests: what is asked;
                  \* moves: bound on the steps of the world
  cluster,        \* [Level -> 0..MaxSlot], the tip at each level
  primary,        \* source ClickHouse: slots up to tx have transactions, up to meta metadata
  head,           \* tip and held slots of the head cache; fork: it follows the abandoned bank
  disk,           \* the slots of the disk cache, blocks and proofs of a skip
  index,          \* the slots of the in-process block index
  responses,      \* block_response_cache: keys with their answer
  latest,         \* LatestSlotCache and LatestBlockHeightCache
  request,        \* [Request -> a handler]
  moves           \* the steps the world has taken

vars == <<config, cluster, primary, head, disk, index, responses, latest, request, moves>>

None == -1
NoProof == [covered |-> {}, slots |-> {}]

Min2(a, b) == IF a < b THEN a ELSE b
Monus(a, b) == IF a > b THEN a - b ELSE 0

\* The chain, for the reader: the height of a block and the count of transactions up to it.
Height(s) == Cardinality({b \in Blocks : b <= s})
CountUpTo(s) == MapThenSumSet(LAMBDA b : txs[b], {b \in Blocks : b <= s})

-----------------------------------------------------------------------------
(* Source ClickHouse.                                                       *)

\* What replicas show that lack up to n slots.
Views(n) == [tx : {primary.tx - i : i \in 0..n}, meta : {primary.meta - i : i \in 0..n}]

\* No read at the owner shard, or one that failed.
NoView == [tx |-> 0, meta |-> 0]

\* The reads of a query by slot: first the local table of the owner shard, which the
\* distributed scope leaves out; then, unless that gave a row, the distributed table.
Reads == [local : IF config.direct THEN Views(OwnerLag) \cup {NoView} ELSE {NoView},
          table : Views(Lag)]

MetadataRow(view, s) == s \in Blocks /\ s <= view.meta
TransactionRows(view, s) == IF s \in Blocks /\ s <= view.tx THEN txs[s] ELSE 0

\* Mutant of get_block_metadata_by_slot: the owner's answer is not asked for again.
MetadataReadOnce(read, s) == MetadataRow(IF read.local = NoView THEN read.table ELSE read.local, s)

get_block_metadata_by_slot(read, s) == MetadataRow(read.local, s) \/ MetadataRow(read.table, s)

get_block_time_by_slot(read, s) == MetadataRow(read.local, s) \/ MetadataRow(read.table, s)

get_blockhash_height_by_slot(read, s) ==
  IF MetadataRow(read.local, s) \/ MetadataRow(read.table, s) THEN Height(s) ELSE None

get_block_signatures_by_slot(read, s) ==
  IF TransactionRows(read.local, s) > 0 THEN TransactionRows(read.local, s) ELSE TransactionRows(read.table, s)

get_block_accounts_by_slot(read, s) ==
  IF TransactionRows(read.local, s) > 0 THEN TransactionRows(read.local, s) ELSE TransactionRows(read.table, s)

get_block_full_transactions_by_slot(read, s) ==
  IF TransactionRows(read.local, s) > 0 THEN TransactionRows(read.local, s) ELSE TransactionRows(read.table, s)

\* Ranges, counts and the tip are read from the distributed table as it is.
get_block_slots_by_range(a, b) == {s \in a..b : MetadataRow(primary, s)}

get_first_available_block == IF \E s \in Slot : MetadataRow(primary, s)
                             THEN Min({s \in Slot : MetadataRow(primary, s)}) ELSE None

minimum_ledger_slot == get_first_available_block

\* Only slots from the hint less a margin are read; an empty answer reads them all.
get_latest_finalized_slot_since(hint) ==
  LET rows == {s \in Slot : MetadataRow(primary, s)}
      near == {s \in rows : s >= Monus(hint, HintMargin)}
  IN  IF near # {} THEN Max(near) ELSE IF rows # {} THEN Max(rows) ELSE None

\* Mutant of get_transaction_count_before_slot: the slot itself is counted.
CountThroughSlot(s) == CountUpTo(Min2(s, primary.tx))

get_transaction_count_by_slot(s) == CountUpTo(Min2(s, primary.tx))
get_transaction_count_before_slot(s) == CountUpTo(Min2(s - 1, primary.tx))

\* Mutant of is_blockhash_valid_in_window: the window alone decides.
ValidInSlotWindow(b, context, minHeight) ==
  MetadataRow(primary, b) /\ b \in Monus(context, SlotWindow)..context

is_blockhash_valid_in_window(b, context, minHeight) ==
  /\ MetadataRow(primary, b) /\ b \in Monus(context, SlotWindow)..context
  /\ Height(b) >= minHeight

-----------------------------------------------------------------------------
(* The head cache as the handlers see it, at a level.                       *)

HeadSlots(l) == {s \in head.held : s <= head.tip[l] /\ (s = Fork => l = 0)}

latest_slot_at_least(l) == head.tip[l]

\* The newest block it holds at the level, with its hash and height.
latest_blockhash_info(l) == IF HeadSlots(l) = {} THEN None ELSE Max(HeadSlots(l))

HeadHeight(s) == Height(s) + (IF s >= Fork /\ Fork \in head.held THEN 1 ELSE 0)

\* A block with all its signatures: the other tiers answer when one is missing.
HeadBlock(s, l) == s \in HeadSlots(l) \cap Blocks

\* The parent of a held block, on the chain the head cache follows.
Parent(s) == LET before == {b \in Blocks \cup (IF head.fork THEN {Fork} ELSE {}) : b < s}
             IN  IF before = {} THEN 0 ELSE Max(before)


\* Walks from each tip down to the first block whose parent ClickHouse has.
WholeTo(t, base) == \A s \in Blocks \cup (IF head.fork THEN {Fork} ELSE {}) :
                       base < s /\ s <= t => s \in head.held

transaction_count_overlay_at_least(l, base) ==
  LET tips == {t \in HeadSlots(l) : t > base /\ WholeTo(t, base)}
  IN  IF tips = {} THEN [context |-> None]
      ELSE LET t == Max(tips) IN
           [context |-> t, start |-> Min({s \in HeadSlots(l) : base < s /\ s <= t}),
            count |-> CountUpTo(t) - CountUpTo(base) + Cardinality({Fork} \cap HeadSlots(l) \cap (base + 1)..t)]

\* A hash that it holds at the level settles the answer, whatever its age.
blockhash_valid_at_least(b, minHeight, l) ==
  IF b \notin HeadSlots(l) THEN None ELSE IF HeadHeight(b) >= minHeight THEN 1 ELSE 0

\* The chain behind the tip, as far as no block is missing: what it proves of the slots.
HeadChain(l) ==
  LET links == {s \in HeadSlots(l) : WholeTo(Max(HeadSlots(l)), s - 1)} IN
  IF HeadSlots(l) = {} \/ links = {} THEN [covered |-> {}, slots |-> {}]
  ELSE [covered |-> Min(links)..Max(links), slots |-> links]

chain_coverage(l, a, b) == [covered |-> HeadChain(l).covered \cap a..b,
                            slots |-> HeadChain(l).slots \cap a..b]

\* snapshot and snapshot_clamped: the end of the range and what is proved below it.
\* connected: the subscription stands; recent: the tip advanced within TIP_MAX_AGE.
Snapshot(l, a, b, connected, recent) ==
  LET trusted == /\ connected /\ recent /\ Cardinality(HeadChain(l).slots) >= 2
                 /\ Max(HeadChain(l).covered) = head.tip[l]
      end == IF b = None THEN head.tip[l]
             ELSE IF config.clamp /\ trusted THEN Min2(b, head.tip[l]) ELSE b
  IN  [end |-> IF b = None /\ ~trusted THEN None ELSE end,
       proof |-> IF connected THEN chain_coverage(l, a, end) ELSE NoProof]

-----------------------------------------------------------------------------
(* SlotCoverage.                                                            *)

merge(p, q) == [covered |-> p.covered \cup q.covered, slots |-> p.slots \cup q.slots]

\* Mutant of Conflict: only the second proof's blocks are compared with the first.
ConflictOneWay(p, q) == \E s \in p.covered \cap q.slots : s \notin p.slots

Conflict(p, q) == \E s \in p.covered \cap q.covered : (s \in p.slots) # (s \in q.slots)

\* The maximal runs of slots that are not covered, the lowest first to be read.
gaps(p, a, b) == {i \in (a..b) \X (a..b) :
                    /\ i[1] <= i[2] /\ i[1]..i[2] \cap p.covered = {}
                    /\ (i[1] = a \/ i[1] - 1 \in p.covered) /\ (i[2] = b \/ i[2] + 1 \in p.covered)}

DiskCoverage(a, b) == [covered |-> disk \cap a..b, slots |-> disk \cap Blocks \cap a..b]
IndexCoverage(a, b) == [covered |-> index \cap a..b, slots |-> index \cap Blocks \cap a..b]

merge_sorted_block_slots(a, b) == a \cup b

-----------------------------------------------------------------------------
(* Steps that every handler is made of.                                     *)

At(r, pc) == request[r].pc = pc

To(r, pc, more) == request' = [request EXCEPT ![r] = more @@ [@ EXCEPT !.pc = pc]]

Answer(r, a) == To(r, "done", [answer |-> a, row |-> 0, rows |-> 0, proof |-> NoProof, todo |-> {}])

Error(code) == [kind |-> "error", code |-> code]
Value(v) == [kind |-> "value", value |-> v]

Quiet == UNCHANGED <<config, cluster, primary, head, disk, index, moves>>

\* Only getBlock refuses processed in any case; the others need a head cache for it.
reject_unsupported_blocks_commitment(q) == q.level = 0 /\ ~config.head

\* LatestSlotCache::get_or_refresh: the cached slot within its TTL, else the query.
CachedLatest == IF latest.fresh THEN latest.slot ELSE get_latest_finalized_slot_since(latest.slot)

RefreshLatest == IF latest.fresh \/ CachedLatest = None THEN UNCHANGED latest
                 ELSE latest' = [latest EXCEPT !.slot = CachedLatest, !.fresh = TRUE]

\* resolve_latest_slot_with_source: the head cache's tip once it has one.
ResolveLatest(l) == IF config.head /\ latest_slot_at_least(l) > 0 THEN latest_slot_at_least(l)
                    ELSE CachedLatest

FromHead(l) == config.head /\ latest_slot_at_least(l) > 0

RefreshUnlessHead(l) == IF FromHead(l) THEN UNCHANGED latest ELSE RefreshLatest

\* LatestBlockHeightCache::get_or_refresh, for one slot.
CachedHeight(s, read) == IF latest.heightFresh /\ latest.heightSlot = s THEN latest.height
                            ELSE get_blockhash_height_by_slot(read, s)

BelowMinimum(q, context) == q.min # None /\ context < q.min

-----------------------------------------------------------------------------
(* Methods about the tip.                                                   *)

GetSlot(r) ==
  LET q == request[r] IN
  /\ At(r, "getSlot")
  /\ IF reject_unsupported_blocks_commitment(q) THEN Answer(r, Error(-32602)) /\ UNCHANGED latest
     ELSE /\ RefreshUnlessHead(q.level)
          /\ Answer(r, IF ResolveLatest(q.level) = None THEN Error(-32603)
                       ELSE IF BelowMinimum(q, ResolveLatest(q.level)) THEN Error(-32016)
                       ELSE Value(ResolveLatest(q.level)))
  /\ UNCHANGED responses

\* getBlockHeight up to its minContextSlot check.
BlockHeightContext(r) ==
  LET q == request[r] IN
  /\ At(r, "getBlockHeight")
  /\ IF reject_unsupported_blocks_commitment(q) THEN Answer(r, Error(-32602)) /\ UNCHANGED latest
     ELSE IF q.min = None THEN To(r, "height", [context |-> None]) /\ UNCHANGED latest
     ELSE /\ RefreshUnlessHead(q.level)
          /\ IF ResolveLatest(q.level) = None THEN Answer(r, Error(-32603))
             ELSE IF BelowMinimum(q, ResolveLatest(q.level)) THEN Answer(r, Error(-32016))
             ELSE To(r, "height", [context |-> IF FromHead(q.level) THEN None
                                               ELSE ResolveLatest(q.level)])
  /\ UNCHANGED responses

\* The head cache's height, else the height of ClickHouse's latest slot.
BlockHeight(r) ==
  LET q == request[r]
      top == IF config.head THEN latest_blockhash_info(q.level) ELSE None
      s == IF q.context # None THEN q.context ELSE CachedLatest
  IN
  /\ At(r, "height")
  /\ IF top # None THEN Answer(r, Value(HeadHeight(top))) /\ UNCHANGED latest
     ELSE IF s = None THEN Answer(r, Error(-32603)) /\ UNCHANGED latest
     ELSE /\ IF q.context = None THEN RefreshLatest ELSE UNCHANGED latest
          /\ To(r, "heightRow", [context |-> s])
  /\ UNCHANGED responses

BlockHeightRow(r) ==
  LET s == request[r].context IN
  /\ At(r, "heightRow")
  /\ \E read \in Reads :
       /\ Answer(r, IF CachedHeight(s, read) = None THEN Error(-32603)
                    ELSE Value(CachedHeight(s, read)))
       /\ latest' = [latest EXCEPT !.heightSlot = s, !.heightFresh = TRUE,
                                   !.height = CachedHeight(s, read)]
  /\ UNCHANGED responses

\* getTransactionCount: ClickHouse's latest slot, then what the head cache adds above it.
TransactionCountPlan(r) ==
  LET q == request[r]
      base == CachedLatest
      over == IF config.head THEN transaction_count_overlay_at_least(q.level, base)
              ELSE [context |-> None]
      context == IF over.context > base THEN over.context ELSE base
  IN
  /\ At(r, "getTransactionCount")
  /\ IF reject_unsupported_blocks_commitment(q) THEN Answer(r, Error(-32602)) /\ UNCHANGED latest
     ELSE IF base = None THEN Answer(r, Error(-32603)) /\ UNCHANGED latest
     ELSE /\ RefreshLatest
          /\ IF BelowMinimum(q, context) THEN Answer(r, Error(-32016))
             ELSE To(r, "count", [context |-> context,
                                  before |-> IF context = base THEN None ELSE over.start,
                                  added |-> IF context = base THEN 0 ELSE over.count])
  /\ UNCHANGED responses

TransactionCount(r) ==
  LET q == request[r] IN
  /\ At(r, "count")
  /\ Answer(r, Value(q.added + IF q.before = None THEN get_transaction_count_by_slot(q.context)
                               ELSE get_transaction_count_before_slot(q.before)))
  /\ UNCHANGED <<responses, latest>>

\* getLatestBlockhash and isBlockhashValid choose the context in the same way.
BlockhashContext(r) ==
  LET q == request[r]
      top == IF config.head THEN latest_blockhash_info(q.level) ELSE None
      context == IF top # None THEN top ELSE ResolveLatest(q.level)
  IN
  /\ At(r, "getLatestBlockhash")
  /\ IF reject_unsupported_blocks_commitment(q) THEN Answer(r, Error(-32602)) /\ UNCHANGED latest
     ELSE /\ IF top # None THEN UNCHANGED latest ELSE RefreshUnlessHead(q.level)
          /\ IF context = None THEN Answer(r, Error(-32603))
             ELSE IF BelowMinimum(q, context) THEN Answer(r, Error(-32016))
             ELSE IF top # None
                  THEN Answer(r, [kind |-> "hash", slot |-> top, height |-> HeadHeight(top) + ProcessingAge])
             ELSE To(r, "hashRow", [context |-> context])
  /\ UNCHANGED responses

LatestBlockhashRow(r) ==
  LET s == request[r].context IN
  /\ At(r, "hashRow")
  /\ \E read \in Reads :
       Answer(r, IF get_blockhash_height_by_slot(read, s) = None THEN Error(-32603)
                 ELSE [kind |-> "hash", slot |-> s,
                       height |-> get_blockhash_height_by_slot(read, s) + ProcessingAge])
  /\ UNCHANGED <<responses, latest>>

IsBlockhashValidContext(r) ==
  LET q == request[r]
      top == IF config.head THEN latest_blockhash_info(q.level) ELSE None
      context == IF top # None THEN top ELSE ResolveLatest(q.level)
  IN
  /\ At(r, "isBlockhashValid")
  /\ IF reject_unsupported_blocks_commitment(q) THEN Answer(r, Error(-32602)) /\ UNCHANGED latest
     ELSE /\ IF top # None THEN UNCHANGED latest ELSE RefreshUnlessHead(q.level)
          /\ IF context = None THEN Answer(r, Error(-32603))
             ELSE IF BelowMinimum(q, context) THEN Answer(r, Error(-32016))
             ELSE To(r, IF top # None THEN "valid" ELSE "validHeight",
                     [context |-> context, height |-> IF top # None THEN HeadHeight(top) ELSE None])
  /\ UNCHANGED responses

IsBlockhashValidHeight(r) ==
  LET s == request[r].context IN
  /\ At(r, "validHeight")
  /\ \E read \in Reads :
       LET h == get_blockhash_height_by_slot(read, s) IN
       IF h = None THEN Answer(r, Error(-32603)) ELSE To(r, "valid", [height |-> h])
  /\ UNCHANGED <<responses, latest>>

\* The head cache settles a hash it holds; ClickHouse answers for the others.
IsBlockhashValid(r) ==
  LET q == request[r]
      minHeight == Monus(q.height, ProcessingAge)
      known == IF config.head THEN blockhash_valid_at_least(q.slot, minHeight, q.level) ELSE None
  IN
  /\ At(r, "valid")
  /\ IF known # None
     THEN Answer(r, [kind |-> "valid", slot |-> q.context, value |-> known = 1, minHeight |-> minHeight])
     ELSE To(r, "validRow", [minHeight |-> minHeight])
  /\ UNCHANGED <<responses, latest>>

IsBlockhashValidRow(r) ==
  LET q == request[r] IN
  /\ At(r, "validRow")
  /\ Answer(r, [kind |-> "valid", slot |-> q.context, minHeight |-> q.minHeight,
                value |-> is_blockhash_valid_in_window(q.slot, q.context, q.minHeight)])
  /\ UNCHANGED <<responses, latest>>

GetFirstAvailableBlock(r) ==
  /\ At(r, "getFirstAvailableBlock")
  /\ Answer(r, Value(get_first_available_block))
  /\ UNCHANGED <<responses, latest>>

MinimumLedgerSlot(r) ==
  /\ At(r, "minimumLedgerSlot")
  /\ Answer(r, Value(minimum_ledger_slot))
  /\ UNCHANGED <<responses, latest>>

\* Asks ClickHouse itself, with the cached slot as a hint only.
GetHealth(r) ==
  /\ At(r, "getHealth")
  /\ Answer(r, IF get_latest_finalized_slot_since(latest.slot) = None THEN Error(-32005)
               ELSE Value(0))
  /\ UNCHANGED <<responses, latest>>

-----------------------------------------------------------------------------
(* getBlock: response cache, head cache, disk cache, ClickHouse.            *)

\* Both commitments share the key of the finalized block.
cache_key(q) == [slot |-> q.slot, details |-> q.details, footer |-> q.footer, legacy |-> q.legacy]

Cached(q) == {e \in responses : e.key = cache_key(q)}

UsesResponseCache(q) == q.level = 2 \/ config.share

GetBlock(r) ==
  LET q == request[r] IN
  /\ At(r, "getBlock")
  /\ IF q.level = 0 THEN Answer(r, Error(-32602))
     ELSE IF UsesResponseCache(q) /\ Cached(q) # {}
          THEN \E e \in Cached(q) : Answer(r, e.answer)
     ELSE To(r, "blockHead", <<>>)
  /\ UNCHANGED <<responses, latest>>

block_payload_has_consistent_transaction_count(q, rows) == q.details = "none" \/ rows = txs[q.slot]

\* The block as it is encoded, or the error for a version the client does not take.
EncodedBlock(q, rows, footer) ==
  IF q.details \in {"accounts", "full"} /\ q.legacy /\ q.slot \in versioned
  THEN Error(-32015)
  ELSE [kind |-> "block", slot |-> q.slot, rows |-> rows, footer |-> q.footer /\ footer]

\* A payload is checked, then built and kept under its key: the answer of a request
\* that built the same key first is taken instead, also its unsupported version.
RespondWithHydratedBlock(r, rows, footer, keyed) ==
  LET q == request[r]
      built == EncodedBlock(q, rows, footer)
  IN  IF ~block_payload_has_consistent_transaction_count(q, rows)
      THEN Answer(r, Error(-32603)) /\ UNCHANGED responses
      ELSE IF ~keyed THEN Answer(r, built) /\ UNCHANGED responses
      ELSE LET held == {e \in Cached(q) : e.answer.kind = "block"} IN
           IF held # {} THEN /\ \E e \in held : Answer(r, e.answer)
                             /\ UNCHANGED responses
           ELSE /\ Answer(r, built)
                /\ responses' = responses \cup {[key |-> cache_key(q), answer |-> built]}

\* Mutant of GetBlockHead: a confirmed block is kept like a finalized one.
GetBlockHeadKept(r) ==
  LET q == request[r] IN
  /\ At(r, "blockHead")
  /\ IF config.head /\ HeadBlock(q.slot, q.level)
     THEN \E footer \in BOOLEAN :
            RespondWithHydratedBlock(r, txs[q.slot], footer, UsesResponseCache(q) /\ ~q.footer)
     ELSE To(r, "blockDisk", <<>>) /\ UNCHANGED responses
  /\ UNCHANGED latest

\* A footer may still reach the head cache: such an answer is not kept.
GetBlockHead(r) ==
  LET q == request[r] IN
  /\ At(r, "blockHead")
  /\ IF config.head /\ HeadBlock(q.slot, q.level)
     THEN \E footer \in BOOLEAN :
            RespondWithHydratedBlock(r, txs[q.slot], footer, q.level = 2 /\ ~q.footer)
     ELSE To(r, "blockDisk", <<>>) /\ UNCHANGED responses
  /\ UNCHANGED latest

GetBlockDisk(r) ==
  LET q == request[r] IN
  /\ At(r, "blockDisk")
  /\ IF ~config.disk \/ q.slot \notin disk THEN To(r, "blockRows", [row |-> None, rows |-> None]) /\ UNCHANGED responses
     ELSE IF q.slot \in Blocks THEN RespondWithHydratedBlock(r, txs[q.slot], TRUE, UsesResponseCache(q))
     ELSE Answer(r, Error(-32009)) /\ UNCHANGED responses
  /\ UNCHANGED latest

\* The metadata and the transactions are read at the same time, each when it comes.
GetBlockMetadata(r) ==
  /\ At(r, "blockRows") /\ request[r].row = None
  /\ \E read \in Reads :
       To(r, "blockRows", [row |-> IF get_block_metadata_by_slot(read, request[r].slot) THEN 1 ELSE 0])
  /\ UNCHANGED <<responses, latest>>

GetBlockTransactions(r) ==
  LET q == request[r] IN
  /\ At(r, "blockRows") /\ q.rows = None
  /\ \E read \in Reads :
       To(r, "blockRows", [rows |-> CASE q.details = "none" -> 0
                                      [] q.details = "signatures" -> get_block_signatures_by_slot(read, q.slot)
                                      [] q.details = "accounts" -> get_block_accounts_by_slot(read, q.slot)
                                      [] OTHER -> get_block_full_transactions_by_slot(read, q.slot)])
  /\ UNCHANGED <<responses, latest>>

GetBlockFailed(r) ==
  /\ At(r, "blockRows")
  /\ Answer(r, Error(-32603))
  /\ UNCHANGED <<responses, latest>>

GetBlockRow(r) ==
  LET q == request[r] IN
  /\ At(r, "blockRows") /\ None \notin {q.row, q.rows}
  /\ IF q.row = 1 THEN RespondWithHydratedBlock(r, q.rows, TRUE, UsesResponseCache(q))
     ELSE To(r, "blockMiss", <<>>) /\ UNCHANGED responses
  /\ UNCHANGED latest

classify_get_block_miss(s, tip) == IF s > tip THEN Error(-32004) ELSE Error(-32009)

GetBlockMiss(r) ==
  /\ At(r, "blockMiss")
  /\ RefreshLatest
  /\ Answer(r, IF CachedLatest = None THEN Error(-32603)
               ELSE classify_get_block_miss(request[r].slot, CachedLatest))
  /\ UNCHANGED responses

-----------------------------------------------------------------------------
(* getBlockTime.                                                            *)

GetBlockTime(r) ==
  LET q == request[r] IN
  /\ At(r, "getBlockTime")
  /\ IF config.head /\ head.tip[0] > 0 /\ q.slot > head.tip[0] THEN Answer(r, Error(-32004))
     ELSE IF config.head /\ HeadBlock(q.slot, 0) THEN Answer(r, Value(q.slot))
     ELSE IF config.disk /\ q.slot \in index
          THEN Answer(r, IF q.slot \in Blocks THEN Value(q.slot) ELSE Error(-32009))
     ELSE To(r, "timeDisk", <<>>)
  /\ UNCHANGED <<responses, latest>>

GetBlockTimeDisk(r) ==
  LET q == request[r] IN
  /\ At(r, "timeDisk")
  /\ IF config.disk /\ q.slot \in disk
     THEN Answer(r, IF q.slot \in Blocks THEN Value(q.slot) ELSE Error(-32009))
     ELSE To(r, "timeRow", <<>>)
  /\ UNCHANGED <<responses, latest>>

GetBlockTimeRow(r) ==
  /\ At(r, "timeRow")
  /\ \E read \in Reads :
       Answer(r, IF get_block_time_by_slot(read, request[r].slot) THEN Value(request[r].slot)
                 ELSE Error(-32009))
  /\ UNCHANGED <<responses, latest>>

-----------------------------------------------------------------------------
(* getBlocks and getBlocksWithLimit.                                        *)

\* resolve_range and memory_coverage: the head's proof, then the index's.
ResolveRange(r, a, b) ==
  LET q == request[r]
      shots == IF config.head THEN {Snapshot(q.level, a, b, c, t) : c \in BOOLEAN, t \in BOOLEAN}
               ELSE {[end |-> IF b = None THEN CachedLatest ELSE b, proof |-> NoProof]}
  IN  /\ IF config.head \/ b # None THEN UNCHANGED latest ELSE RefreshLatest
      /\ \E shot \in shots :
           IF shot.end = None THEN Answer(r, Error(-32603))
           ELSE IF shot.end < a THEN Answer(r, [kind |-> "slots", start |-> a, end |-> shot.end, slots |-> {}])
           ELSE IF shot.end - a > MaxRange THEN Answer(r, Error(-32602))
           ELSE To(r, "rangeMemory", [start |-> a, end |-> shot.end, proof |-> shot.proof,
                                      open |-> config.head /\ b = None])

GetBlocks(r) ==
  LET q == request[r] IN
  /\ At(r, "getBlocks")
  /\ IF reject_unsupported_blocks_commitment(q) \/ (q.end # None /\ (q.end < q.slot \/ q.end - q.slot > MaxRange))
     THEN Answer(r, Error(-32602)) /\ UNCHANGED latest
     ELSE ResolveRange(r, q.slot, q.end)
  /\ UNCHANGED responses

GetBlocksWithLimit(r) ==
  LET q == request[r] IN
  /\ At(r, "getBlocksWithLimit")
  /\ IF reject_unsupported_blocks_commitment(q) \/ q.end > MaxRange
     THEN Answer(r, Error(-32602)) /\ UNCHANGED latest
     ELSE IF q.end = 0 THEN Answer(r, [kind |-> "slots", start |-> q.slot, end |-> q.slot - 1, slots |-> {}]) /\ UNCHANGED latest
     ELSE ResolveRange(r, q.slot, q.slot + q.end - 1)
  /\ UNCHANGED responses

\* Proofs that contradict each other are both dropped.
MemoryCoverage(r) ==
  LET q == request[r]
      indexed == IF config.disk THEN IndexCoverage(q.start, q.end) ELSE NoProof
      clash == Conflict(q.proof, indexed)
      proof == IF clash THEN NoProof ELSE merge(q.proof, indexed)
  IN
  /\ At(r, "rangeMemory")
  /\ IF clash /\ q.open THEN Answer(r, Error(-32603))
     ELSE To(r, "rangeDisk", [proof |-> proof,
                              todo |-> IF config.disk THEN gaps(proof, q.start, q.end) ELSE {}])
  /\ UNCHANGED <<responses, latest>>

\* One read of the disk cache for each gap, then one of ClickHouse for each that is left.
DiskRange(r) ==
  LET q == request[r] IN
  /\ At(r, "rangeDisk")
  /\ IF q.todo = {}
     THEN To(r, "rangeRows", [todo |-> gaps(q.proof, q.start, q.end), slots |-> q.proof.slots])
     ELSE LET gap == CHOOSE i \in q.todo : \A j \in q.todo : i[1] <= j[1] IN
          To(r, "rangeDisk", [todo |-> q.todo \ {gap}, proof |-> merge(q.proof, DiskCoverage(gap[1], gap[2]))])
  /\ UNCHANGED <<responses, latest>>

RangeRows(r) ==
  LET q == request[r] IN
  /\ At(r, "rangeRows")
  /\ IF q.todo = {} THEN Answer(r, [kind |-> "slots", start |-> q.start, end |-> q.end, slots |-> q.slots])
     ELSE LET gap == CHOOSE i \in q.todo : \A j \in q.todo : i[1] <= j[1] IN
          \/ To(r, "rangeRows", [todo |-> q.todo \ {gap},
                slots |-> merge_sorted_block_slots(q.slots, get_block_slots_by_range(gap[1], gap[2]))])
          \/ Answer(r, Error(-32603))
  /\ UNCHANGED <<responses, latest>>

-----------------------------------------------------------------------------
(* The world around the handlers, external.                                 *)

\* seen: what ClickHouse and the index had when the request came.
Receive(r) ==
  /\ At(r, "idle") /\ r <= config.requests /\ (r > 1 => ~At(r - 1, "idle"))
  /\ \E q \in Ask : /\ q.method \in config.methods
                    /\ request' = [request EXCEPT ![r] = [pc |-> q.method,
                                      seen |-> [meta |-> primary.meta, index |-> index]] @@ q]
  /\ UNCHANGED <<responses, latest>> /\ Quiet

Handle(r) ==
  /\ \/ GetSlot(r) \/ BlockHeightContext(r) \/ BlockHeight(r) \/ BlockHeightRow(r)
     \/ TransactionCountPlan(r) \/ TransactionCount(r)
     \/ BlockhashContext(r) \/ LatestBlockhashRow(r)
     \/ IsBlockhashValidContext(r) \/ IsBlockhashValidHeight(r) \/ IsBlockhashValid(r) \/ IsBlockhashValidRow(r)
     \/ GetFirstAvailableBlock(r) \/ MinimumLedgerSlot(r) \/ GetHealth(r)
     \/ GetBlock(r) \/ GetBlockHead(r) \/ GetBlockDisk(r) \/ GetBlockMetadata(r) \/ GetBlockTransactions(r)
     \/ GetBlockFailed(r) \/ GetBlockRow(r) \/ GetBlockMiss(r)
     \/ GetBlockTime(r) \/ GetBlockTimeDisk(r) \/ GetBlockTimeRow(r)
     \/ GetBlocks(r) \/ GetBlocksWithLimit(r) \/ MemoryCoverage(r) \/ DiskRange(r) \/ RangeRows(r)
  /\ Quiet

\* The cluster reaches the next slot at a level; the head cache follows while connected.
Advance(l) ==
  /\ cluster[l] < IF l = 0 THEN MaxSlot ELSE cluster[l - 1]
  /\ LET s == cluster[l] + 1 IN
     /\ cluster' = [cluster EXCEPT ![l] = s]
     /\ \/ UNCHANGED head
        \/ /\ head.tip[l] \in {0, cluster[l]} /\ (l > 0 => head.tip[l - 1] >= s)
           /\ head' = [head EXCEPT !.tip[l] = s,
                         !.fork = IF l = 1 /\ s = Fork THEN FALSE ELSE @,
                         !.held = IF l = 0 THEN @ \cup ({s} \cap (Blocks \cup IF head.fork THEN {Fork} ELSE {}))
                                  ELSE IF l = 1 /\ s = Fork THEN @ \ {Fork} ELSE @]
  /\ UNCHANGED <<primary, disk, index, responses, latest, request>>

\* It forgets its oldest slot, or everything when its subscription starts again.
HeadPrune ==
  /\ \/ head.held # {} /\ head' = [head EXCEPT !.held = @ \ {Min(@)}]
     \/ head' = [head EXCEPT !.held = {}, !.tip = [l \in Level |-> 0], !.fork = FALSE]
  /\ UNCHANGED <<cluster, primary, disk, index, responses, latest, request>>

\* The ingestor writes a finalized slot: its transactions, then its metadata.
Ingest ==
  /\ \/ primary.tx < cluster[2] /\ primary' = [primary EXCEPT !.tx = @ + 1]
     \/ primary.meta < primary.tx /\ primary' = [primary EXCEPT !.meta = @ + 1]
  /\ UNCHANGED <<cluster, head, disk, index, responses, latest, request>>

DiskMoves ==
  /\ config.disk
  /\ \E s \in Slot :
       \/ s <= primary.meta /\ s \notin disk /\ disk' = disk \cup {s} /\ UNCHANGED index
       \/ s \in disk /\ disk' = disk \ {s} /\ UNCHANGED index
       \/ s <= primary.meta /\ s \notin index /\ index' = index \cup {s} /\ UNCHANGED disk
  /\ UNCHANGED <<cluster, primary, head, responses, latest, request>>

Expire ==
  /\ \/ latest.fresh /\ latest' = [latest EXCEPT !.fresh = FALSE]
     \/ latest.heightFresh /\ latest' = [latest EXCEPT !.heightFresh = FALSE]
  /\ UNCHANGED <<cluster, primary, head, disk, index, responses, request>>

\* The response cache is bounded and forgets entries on its own.
ResponseEvict ==
  /\ \E e \in responses : responses' = responses \ {e}
  /\ UNCHANGED <<cluster, primary, head, disk, index, latest, request>>

Init ==
  /\ config \in Config
  /\ \E w \in World : /\ cluster = w.cluster /\ primary = w.primary /\ head = w.head
                       /\ disk = w.disk /\ index = w.disk
  /\ responses = {} /\ moves = 0
  /\ latest = [slot |-> 0, fresh |-> FALSE, heightSlot |-> 0, height |-> None, heightFresh |-> FALSE]
  /\ request = [r \in Request |-> [pc |-> "idle"]]

Next ==
  \/ \E r \in Request : Receive(r) \/ Handle(r)
  \/ /\ moves < config.moves /\ moves' = moves + 1 /\ UNCHANGED config
     /\ (\E l \in Level : Advance(l)) \/ HeadPrune \/ Ingest \/ DiskMoves \/ Expire \/ ResponseEvict

Spec == Init /\ [][Next]_vars

-----------------------------------------------------------------------------
(* Properties.                                                              *)

Done(r, m) == request[r].pc = "done" /\ request[r].method = m

\* Whatever tier and whichever reads answer getBlock, the block is whole and the chain's
\* own at the commitment asked for, and what the response cache keeps is finalized,
\* with its footer where the key has one.
BlockAnswersFinal ==
  /\ \A e \in responses :
       /\ e.key.slot \in Blocks /\ e.key.slot <= cluster[2]
       /\ e.answer.kind = "block" => (e.answer.footer <=> e.key.footer)
  /\ \A r \in Request : Done(r, "getBlock") =>
       LET q == request[r] IN
       q.answer.kind = "block" => /\ q.slot \in Blocks /\ q.slot <= cluster[q.level]
                                  /\ q.answer.slot = q.slot
                                  /\ q.details # "none" => q.answer.rows = txs[q.slot]

\* A block that ClickHouse had when the request came is not reported missing by
\* getBlock, nor as skipped by getBlockTime, unless it is so new that a replica the
\* distributed table reads may lack it: not because the owner's replica lags, fails or
\* has no such row, and whatever moves between the reads.
MissesTrue ==
  \A r \in Request :
    LET q == request[r] IN
    \/ Done(r, "getBlock") /\ q.answer.kind = "error" /\ q.answer.code \in {-32004, -32009}
    \/ Done(r, "getBlockTime") /\ q.answer.kind = "error" /\ q.answer.code = -32009
    => (q.slot \in Blocks => q.slot > q.seen.meta - Lag)

\* getBlocks and getBlocksWithLimit put proofs of three tiers and rows of ClickHouse
\* together: a slot that ClickHouse had when the request came is listed if it has a block,
\* only blocks are listed at a durable commitment, and a slot that the block index had
\* proved skipped is not listed.
RangesExact ==
  \A r \in Request : (Done(r, "getBlocks") \/ Done(r, "getBlocksWithLimit")) =>
    LET q == request[r] IN q.answer.kind = "slots" =>
      /\ \A s \in q.answer.start..q.answer.end :
           s \in Blocks /\ s <= q.seen.meta => s \in q.answer.slots
      /\ q.answer.slots \subseteq (q.answer.start..q.answer.end) \cap (Blocks \cup IF q.level = 0 THEN {Fork} ELSE {})
      /\ Fork \in q.seen.index => Fork \notin q.answer.slots

\* getTransactionCount adds the head's blocks to ClickHouse's count: at a durable
\* commitment every transaction up to the context slot is counted once.
CountsExact ==
  \A r \in Request : Done(r, "getTransactionCount") =>
    LET q == request[r] IN
    (q.answer.kind = "value" /\ q.level > 0) => q.answer.value = CountUpTo(q.context)

\* isBlockhashValid affirms a hash only of a block at the commitment asked for that is
\* no older than MAX_PROCESSING_AGE blocks at the height of its context.
ValidHashesRecent ==
  \A r \in Request : Done(r, "isBlockhashValid") =>
    LET q == request[r] IN
    (q.answer.kind = "valid" /\ q.answer.value /\ q.level > 0) =>
      q.slot \in Blocks /\ q.slot <= cluster[q.level] /\ Height(q.slot) + ProcessingAge >= q.height
=============================================================================
