---------------------------- MODULE Jetstreamer ----------------------------
(***************************************************************************)
(* The Jetstreamer plugin that writes Old Faithful's history: one firehose *)
(* thread, its buffer of the current slot, its writer and the writer's     *)
(* insert workers.  Threads share the configuration and nothing else.      *)
(*                                                                         *)
(* A row is [slot, id, time]; time is 0 until the block of the slot tells  *)
(* it.  A worker's inserter keeps one INSERT open per table, which ends    *)
(* when its limits or its period are reached, or at shutdown; one that     *)
(* fails loses every row of the open INSERT, or is applied and reported as *)
(* failed all the same.                                                    *)
(***************************************************************************)
EXTENDS Integers, Sequences, FiniteSets, FiniteSetsExt, SequencesExt

CONSTANTS
  Ledgers,       \* histories: slot -> [skipped, transactions, entries, commission]
  Requests,      \* ranges asked for, [start, last]
  Settings,      \* the operator's: bounds genesis and preactivation, commission eras
                 \* percent and bps_from (0 is unset), and whether there is a database
  Clamped,       \* whether the runner applies historical_slot_range first, as main does
  MaxInflight,   \* max_inflight_batches: the writer's channel and its workers
  Faults,        \* what the firehose may do: "restart", "abandon"
  MaxFailures    \* failing inserts considered

VARIABLES
  run,        \* the ledger, the settings and the slots of this run
  cursor,     \* where the firehose is: slot, and transactions and entries sent
  pending,    \* ThreadState: pending_slot (0 is None) and the buffered rows
  outbox,     \* commands on_block still has to send
  channel,    \* the writer's inbound queue
  inbox,      \* commands handed to each worker
  open,       \* rows in each worker's open INSERT, by table
  next,       \* next_worker
  stored,     \* rows of the tables
  delivered,  \* slots whose block callback was accepted
  closing,    \* "no", "exit" (on_exit took the writer), "workers" (shutdown_workers)
  life,       \* each worker: "none" before ensure_writer, "idle", "retrying", "ended"
  failures    \* inserts that failed in this run

vars == <<run, cursor, pending, outbox, channel, inbox, open, next, stored, delivered, closing, life, failures>>

Table == {"transactions", "entries", "blocks"}
Worker == 1..MaxInflight
Nothing == [slot |-> 0, transactions |-> {}, entries |-> {}]
Command(table, batch) == [table |-> table, batch |-> batch]
Shutdown == Command("shutdown", {})

bound(b) == IF b.genesis # 0 THEN b.genesis ELSE b.preactivation

ensure_legacy_slot(b, slot) ==
  (b.genesis # 0) # (b.preactivation # 0) /\ slot <= bound(b)

OneEra(b) == b.percent # (b.bps_from # 0)

\* The slots to run: the bound ends them, and a start beyond it, or no era, ends the run.
historical_slot_range(request, b) ==
  IF request.start > request.last \/ ~ensure_legacy_slot(b, request.start) \/ ~OneEra(b) THEN {}
  ELSE request.start .. Min({request.last, bound(b)})

\* A plugin that fails to load is not run.
on_load(b) == ensure_legacy_slot(b, 0)

-----------------------------------------------------------------------------
(* The firehose (external) sends the transactions and entries of a slot and    *)
(* then its block, or says that it was skipped.  A lost connection repeats the *)
(* slot; a slot it cannot read is left without a block.                        *)

Ledger == run.ledger[cursor.slot]
Sending == closing = "no" /\ cursor.slot \in run.slots /\ outbox = <<>>
Accepted == run.settings.db /\ ensure_legacy_slot(run.settings, cursor.slot)
Advance == cursor' = [slot |-> cursor.slot + 1, transactions |-> 0, entries |-> 0]

\* The first row or block makes the writer and its workers.
ensure_writer == life' = [w \in Worker |-> IF life[w] = "none" THEN "idle" ELSE life[w]]

\* The buffer of another slot is dropped for the new row's.
Buffer(kind) ==
  LET row == [slot |-> cursor.slot, id |-> cursor[kind] + 1, time |-> 0]
      mine == IF pending.slot \in {0, cursor.slot} THEN [pending EXCEPT !.slot = cursor.slot]
              ELSE [Nothing EXCEPT !.slot = cursor.slot]
  IN IF Accepted
     THEN pending' = [mine EXCEPT ![kind] = @ \cup {row}] /\ ensure_writer
     ELSE UNCHANGED <<pending, life>>

on_transaction ==
  /\ Sending /\ cursor.transactions < Ledger.transactions
  /\ Buffer("transactions")
  /\ cursor' = [cursor EXCEPT !.transactions = @ + 1]
  /\ UNCHANGED <<run, outbox, channel, inbox, open, next, stored, delivered, closing, failures>>

on_entry ==
  /\ Sending /\ cursor.entries < Ledger.entries
  /\ Buffer("entries")
  /\ cursor' = [cursor EXCEPT !.entries = @ + 1]
  /\ UNCHANGED <<run, outbox, channel, inbox, open, next, stored, delivered, closing, failures>>

\* Mutant: the buffered rows are taken whichever slot they are of.
TakeBuffered(slot) == <<pending.transactions, pending.entries>>

\* The rows buffered for the block; those of another slot are dropped.
TakePending(slot) ==
  IF pending.slot = slot THEN <<pending.transactions, pending.entries>> ELSE <<{}, {}>>

Timed(batch, slot) == {[r EXCEPT !.time = slot] : r \in batch}

\* Transactions, entries and the block's row, in this order.
Commands(slot) ==
  LET rows == TakePending(slot)
      batches == <<Command("transactions", Timed(rows[1], slot)), Command("entries", Timed(rows[2], slot)),
                   Command("blocks", {[slot |-> slot, id |-> 0, time |-> slot]})>>
  IN SelectSeq(batches, LAMBDA c : c.batch # {})

clear_skipped_slot(slot) == pending' = IF pending.slot = slot THEN Nothing ELSE pending

\* Firehose gives basis points; the era says whether they were a percentage,
\* which then has to be a whole one.
block_reward_commission(b, slot, value) ==
  CASE value = "none" -> "none"
    [] value # "none" /\ ~OneEra(b) -> "refused"
    [] value # "none" /\ OneEra(b) /\ (b.percent \/ slot < b.bps_from) ->
         IF value = "whole" THEN "percent" ELSE "refused"
    [] OTHER -> "bps"

FromBlock == block_reward_commission(run.settings, cursor.slot, Ledger.commission) # "refused"

\* A block beyond the bound, or with commissions of an era nobody vouched for,
\* is refused and the firehose goes on.
on_block ==
  /\ Sending /\ cursor.transactions = Ledger.transactions /\ cursor.entries = Ledger.entries
  /\ \/ /\ Accepted /\ ~Ledger.skipped /\ FromBlock
        /\ outbox' = Commands(cursor.slot) /\ pending' = Nothing /\ ensure_writer
        /\ delivered' = delivered \cup {cursor.slot}
     \/ /\ Accepted /\ Ledger.skipped
        /\ clear_skipped_slot(cursor.slot) /\ UNCHANGED <<outbox, delivered, life>>
     \/ /\ ~Accepted \/ (~Ledger.skipped /\ ~FromBlock)
        /\ UNCHANGED <<pending, outbox, delivered, life>>
  /\ Advance
  /\ UNCHANGED <<run, channel, inbox, open, next, stored, closing, failures>>

Restart ==
  /\ "restart" \in Faults /\ Sending
  /\ cursor.transactions + cursor.entries > 0
  /\ cursor' = [cursor EXCEPT !.transactions = 0, !.entries = 0]
  /\ UNCHANGED <<run, pending, outbox, channel, inbox, open, next, stored, delivered, closing, life, failures>>

Abandon ==
  /\ "abandon" \in Faults /\ Sending
  /\ Advance
  /\ UNCHANGED <<run, pending, outbox, channel, inbox, open, next, stored, delivered, closing, life, failures>>

-----------------------------------------------------------------------------
(* The writer hands commands to its workers in turn. *)

Send ==
  /\ outbox # <<>> /\ Len(channel) < MaxInflight
  /\ channel' = Append(channel, Head(outbox)) /\ outbox' = Tail(outbox)
  /\ UNCHANGED <<run, cursor, pending, inbox, open, next, stored, delivered, closing, life, failures>>

\* A worker holds the command it writes and one more.
Room(w) == Len(inbox[w]) < 2

dispatch_to_worker ==
  /\ closing # "workers" /\ channel # <<>> /\ Head(channel) # Shutdown /\ Room(next)
  /\ inbox' = [inbox EXCEPT ![next] = Append(@, Head(channel))]
  /\ channel' = Tail(channel) /\ next' = (next % MaxInflight) + 1
  /\ UNCHANGED <<run, cursor, pending, outbox, open, stored, delivered, closing, life, failures>>

\* What is buffered is dropped; a writer that was never made needs no Shutdown.
on_exit ==
  /\ closing = "no" /\ cursor.slot \notin run.slots /\ outbox = <<>> /\ Len(channel) < MaxInflight
  /\ closing' = "exit" /\ pending' = Nothing
  /\ channel' = IF life[1] = "none" THEN channel ELSE Append(channel, Shutdown)
  /\ UNCHANGED <<run, cursor, outbox, inbox, open, next, stored, delivered, life, failures>>

Untold == {w \in Worker : life[w] # "ended" /\ \A i \in DOMAIN inbox[w] : inbox[w][i] # Shutdown}

\* Every worker in turn gets its Shutdown behind what it was handed before.
shutdown_workers ==
  \/ /\ closing = "exit" /\ channel = <<Shutdown>>
     /\ closing' = "workers" /\ channel' = <<>>
     /\ UNCHANGED <<run, cursor, pending, outbox, inbox, open, next, stored, delivered, life, failures>>
  \/ /\ closing = "workers" /\ Untold # {} /\ Room(Min(Untold))
     /\ inbox' = [inbox EXCEPT ![Min(Untold)] = Append(@, Shutdown)]
     /\ UNCHANGED <<run, cursor, pending, outbox, channel, open, next, stored, delivered, closing, life,
                    failures>>

-----------------------------------------------------------------------------
(* A worker. *)

\* The INSERTs into these tables end; those into the tables of lost fail.
End(w, tables, lost) ==
  /\ failures' = failures + Cardinality(lost) /\ failures' <= MaxFailures
  /\ stored' = [t \in Table |-> IF t \in tables \ lost THEN stored[t] \cup open[w][t] ELSE stored[t]]
  /\ open' = [open EXCEPT ![w] = [t \in Table |-> IF t \in tables THEN {} ELSE @[t]]]

Opened(w) == {t \in Table : open[w][t] # {}}
Working(w) == inbox[w] # <<>> /\ Head(inbox[w]) # Shutdown
Job(w) == Head(inbox[w])
Done(w) == inbox' = [inbox EXCEPT ![w] = Tail(@)]

\* write_batch: the rows go into the open INSERT, which ends if it is full or old.
write_batch(w) ==
  /\ Working(w) /\ Done(w)
  /\ LET rows == open[w][Job(w).table] \cup Job(w).batch IN
     \/ /\ open' = [open EXCEPT ![w][Job(w).table] = rows] /\ UNCHANGED stored
     \/ /\ open' = [open EXCEPT ![w][Job(w).table] = {}]
        /\ stored' = [stored EXCEPT ![Job(w).table] = @ \cup rows]
  /\ life' = [life EXCEPT ![w] = "idle"]
  /\ UNCHANGED <<run, cursor, pending, outbox, channel, next, delivered, closing, failures>>

\* A failed write: a new inserter, and the same rows again until they pass.  The
\* rows of earlier batches that the open INSERT held are not written again.
write_with_retry(w) ==
  /\ Working(w) /\ failures < MaxFailures
  /\ failures' = failures + 1
  /\ open' = [open EXCEPT ![w][Job(w).table] = {}]
  /\ \/ UNCHANGED stored
     \/ stored' = [stored EXCEPT ![Job(w).table] = @ \cup open[w][Job(w).table] \cup Job(w).batch]
  /\ life' = [life EXCEPT ![w] = "retrying"]
  /\ UNCHANGED <<run, cursor, pending, outbox, channel, inbox, next, delivered, closing>>

\* The timer's branch of writer_worker_loop, between commands: each INSERT whose
\* limit or period is reached ends, and errors are not looked at.
Tick(w) ==
  /\ life[w] = "idle" /\ Len(inbox[w]) < 2 /\ Opened(w) # {}
  /\ \E tables \in SUBSET Opened(w) : \E lost \in SUBSET tables : tables # {} /\ End(w, tables, lost)
  /\ UNCHANGED <<run, cursor, pending, outbox, channel, inbox, next, delivered, closing, life>>

\* Mutant: the last entries are not flushed.
FlushWithoutEntries(w, lost) == End(w, {"transactions", "blocks"}, lost)

\* flush_inserter of each table
FlushAll(w, lost) == End(w, Table, lost)

WorkerShutdown(w) ==
  /\ inbox[w] # <<>> /\ Head(inbox[w]) = Shutdown
  /\ Done(w) /\ life' = [life EXCEPT ![w] = "ended"]
  /\ \E lost \in SUBSET Opened(w) : FlushAll(w, lost)
  /\ UNCHANGED <<run, cursor, pending, outbox, channel, next, delivered, closing>>

-----------------------------------------------------------------------------
Init ==
  /\ \E l \in Ledgers, r \in Requests, b \in Settings, c \in Clamped :
       run = [ledger |-> l, settings |-> b,
              slots |-> IF ~on_load(b) THEN {}
                        ELSE IF c THEN historical_slot_range(r, b) ELSE r.start .. r.last]
  /\ cursor = [slot |-> IF run.slots = {} THEN 0 ELSE Min(run.slots), transactions |-> 0, entries |-> 0]
  /\ pending = Nothing /\ outbox = <<>> /\ channel = <<>>
  /\ inbox = [w \in Worker |-> <<>>] /\ open = [w \in Worker |-> [t \in Table |-> {}]]
  /\ next = 1 /\ stored = [t \in Table |-> {}] /\ delivered = {} /\ closing = "no"
  /\ life = [w \in Worker |-> "none"] /\ failures = 0

Next ==
  \/ on_transaction \/ on_entry \/ on_block \/ Restart \/ Abandon
  \/ Send \/ dispatch_to_worker \/ on_exit \/ shutdown_workers
  \/ \E w \in Worker : write_batch(w) \/ write_with_retry(w) \/ Tick(w) \/ WorkerShutdown(w)

Spec == Init /\ [][Next]_vars

-----------------------------------------------------------------------------
\* Every stored row is one of a block whose callback was accepted, carries that
\* block's time and lies within the trusted bound: rows buffered for a slot that
\* was skipped, abandoned, refused or read twice reach no table under another
\* block (on_transaction, on_block, clear_skipped_slot).
RowsOfAcceptedBlocks ==
  \A t \in Table : \A row \in stored[t] :
    row.slot \in delivered /\ row.time = row.slot /\ ensure_legacy_slot(run.settings, row.slot)

\* When a run in which no insert failed has exited, every accepted block is
\* stored with all its transactions and entries, whichever worker they went to
\* and whatever was still open or queued when the runner stopped (on_exit,
\* shutdown_workers, writer_worker_loop).
ExitStoresAll ==
  (failures = 0 /\ closing # "no" /\ \A w \in Worker : life[w] \in {"none", "ended"}) =>
    \A slot \in delivered :
      /\ [slot |-> slot, id |-> 0, time |-> slot] \in stored["blocks"]
      /\ \A t \in {"transactions", "entries"} : \A i \in 1..run.ledger[slot][t] :
           [slot |-> slot, id |-> i, time |-> slot] \in stored[t]
=============================================================================
