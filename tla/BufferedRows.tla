---------------------------- MODULE BufferedRows ----------------------------
(***************************************************************************)
(* The row buffers of the live ingestor (crates/superbank/src/ingest/      *)
(* grpc.rs, BufferedRows) and the flush that moves them into ClickHouse    *)
(* (crates/superbank/src/clickhouse.rs).                                   *)
(*                                                                         *)
(* A flush first copies footers that a stored row already has into         *)
(* buffered rows without one, then inserts transactions, block metadata    *)
(* and entries, in this order.  Every insert is a round trip: the process  *)
(* may die between two of them, and an insert may fail before or after the *)
(* server has applied it.  A buffer is cleared only by its own successful  *)
(* insert.  The tables replace rows by slot, so inserting twice is         *)
(* harmless except that the newest block row replaces the earlier one.     *)
(*                                                                         *)
(* Abstractions: the transactions (entries) of a block are inserted by one *)
(* statement and are named by its slot.  A footer is named by the bank it  *)
(* belongs to.  last_durable_block_slot is left out: nothing reads it      *)
(* after the subscription was opened, when it is still None.               *)
(***************************************************************************)
EXTENDS Integers, FiniteSetsExt

CONSTANTS
    MaxSlot,     \* bound: the highest slot of the model
    MaxRetries   \* insert_max_retries

ASSUME BufferedRowsAssumption == MaxSlot \in Nat \ {0} /\ MaxRetries \in Nat

Slot == 1..MaxSlot

\* A bank id of a row that has none (NULL in blocks_metadata).
NoBank == -1

\* A slot some bank of which lost, or the footer of that bank.
Footer == {"winner", "loser"}
NoFooter == "none"

BlockRow == [slot : Slot, bank : {NoBank, 0, 1}, footer : Footer \cup {NoFooter}]

VARIABLES
    rows,      \* the three buffers of BufferedRows
    ceiling,   \* footer_merge_ceiling: newest stored slot at process start (0: none)
    stored,    \* the tables; of each slot's block rows the newest
    flush      \* the flush under way: next round trip and what the caller does

bufferVars == <<rows, ceiling, stored, flush>>

EmptyRows == [transactions |-> {}, blocks |-> {}, entries |-> {}]

FlushStep == {"merge", "transactions", "blocks", "entries"}

\* No flush is under way.
NoFlush == [step |-> "none", retries |-> 0, then |-> "run", slot |-> 0]

StoredSlots == {r.slot : r \in stored.blocks}

\* fetch_latest_slot_from_blocks: the metadata tip, 0 when the table is empty.
LatestStored == Max(StoredSlots \cup {0})

\* PreparedBlock::append for a set of blocks.
AppendBlocks(buffer, blocks) ==
    [transactions |-> buffer.transactions \cup {r.slot : r \in blocks},
     blocks       |-> buffer.blocks \cup blocks,
     entries      |-> buffer.entries \cup {r.slot : r \in blocks}]

\* Mutant of MergeFooter: the newest stored slot itself is not looked up.
MergeFooterBelowCeiling(r) ==
    IF r.footer = NoFooter /\ r.slot < ceiling /\ \E q \in stored.blocks : q.slot = r.slot
    THEN [r EXCEPT !.footer = (CHOOSE q \in stored.blocks : q.slot = r.slot).footer]
    ELSE r

\* merge_stored_footers: a row without a footer takes the one stored for its
\* slot; only rows at or below the ceiling are looked up.
MergeFooter(r) ==
    IF r.footer = NoFooter /\ r.slot <= ceiling /\ \E q \in stored.blocks : q.slot = r.slot
    THEN [r EXCEPT !.footer = (CHOOSE q \in stored.blocks : q.slot = r.slot).footer]
    ELSE r

\* The newest block row of a slot replaces the stored one.
Replace(table, new) == {q \in table : \A r \in new : r.slot # q.slot} \cup new

\* What the tables hold once the insert of the current step was applied.
Applied ==
    CASE flush.step = "transactions" ->
           [stored EXCEPT !.transactions = @ \cup rows.transactions]
      [] flush.step = "blocks" -> [stored EXCEPT !.blocks = Replace(@, rows.blocks)]
      [] flush.step = "entries" -> [stored EXCEPT !.entries = @ \cup rows.entries]

\* The round trip of merge_stored_footers; it leaves the tables alone.
MergeStoredFooters ==
    /\ flush.step = "merge"
    /\ rows' = [rows EXCEPT !.blocks = {MergeFooter(r) : r \in @}]
    /\ flush' = [flush EXCEPT !.step = "transactions"]
    /\ UNCHANGED <<ceiling, stored>>

\* flush_transaction_rows, then flush_block_rows, of flush_buffers.
InsertTransactions ==
    /\ flush.step = "transactions"
    /\ stored' = Applied
    /\ rows' = [rows EXCEPT !.transactions = {}]
    /\ flush' = [flush EXCEPT !.step = "blocks"]
    /\ UNCHANGED ceiling

InsertBlocks ==
    /\ flush.step = "blocks"
    /\ stored' = Applied
    /\ rows' = [rows EXCEPT !.blocks = {}]
    /\ flush' = [flush EXCEPT !.step = "entries"]
    /\ UNCHANGED ceiling

\* flush_entry_rows, the last insert; the caller goes on with flush.then.
InsertEntries ==
    /\ flush.step = "entries"
    /\ stored' = Applied
    /\ rows' = [rows EXCEPT !.entries = {}]
    /\ flush' = NoFlush
    /\ UNCHANGED ceiling

\* The round trip of the current step is really made: a table without buffered
\* rows is skipped, and footers are looked up only for rows that may have one.
RoundTrip ==
    \/ flush.step = "merge" /\ \E r \in rows.blocks : r.footer = NoFooter /\ r.slot <= ceiling
    \/ flush.step = "transactions" /\ rows.transactions # {}
    \/ flush.step = "blocks" /\ rows.blocks # {}
    \/ flush.step = "entries" /\ rows.entries # {}

\* A failed insert, applied by the server or not, that flush_buffers_with_retry
\* tries again: from the first table, whose buffer is empty if it was inserted.
RetryInsert ==
    /\ RoundTrip /\ flush.step # "merge"
    /\ flush.retries > 0
    /\ stored' \in {stored, Applied}
    /\ flush' = [flush EXCEPT !.step = "transactions", !.retries = @ - 1]
    /\ UNCHANGED <<rows, ceiling>>

\* The same failure without retries left, or a failed footer query.
InsertFails ==
    /\ RoundTrip /\ (flush.step = "merge" \/ flush.retries = 0)
    /\ stored' \in IF flush.step = "merge" THEN {stored} ELSE {stored, Applied}
    /\ UNCHANGED <<rows, ceiling>>
-----------------------------------------------------------------------------
\* A step keeps the footers that stored rows have.
FootersKept ==
    \A r \in stored.blocks : r.footer # NoFooter =>
      \E q \in stored'.blocks : q.slot = r.slot /\ q.footer = r.footer

\* A stored footer survives every later insert of its slot, although replay has
\* no footers and the newest row replaces the stored one (merge_stored_footers).
StoredFooterKept == [][FootersKept]_bufferVars
=============================================================================
