------------------------------ MODULE Backfill ------------------------------
(***************************************************************************)
(* The one-shot sources of the ingestor: replay of a slot range or a slot  *)
(* list from an RPC node (discovery, dispatcher, workers, inserter), from  *)
(* Bigtable (chunked fetches, decoders, inserter), and the restore of      *)
(* parquet bundles.  A run ends complete, stopped by the operator, or      *)
(* failed, and may be started again on what the last one left.             *)
(*                                                                         *)
(* A block is its transaction rows and its metadata row; a flush writes the*)
(* transaction rows of all its blocks before their metadata (BufferedRows).*)
(* Errors the code retries until they clear are not steps.                 *)
(***************************************************************************)
EXTENDS Integers, Sequences, FiniteSets, FiniteSetsExt, SequencesExt

CONSTANTS
  Slots,        \* slots of the ledger
  Listed,       \* those the source lists as blocks
  Absent,       \* listed, but the source no longer has the block
  Configs,      \* command lines considered
  Workers,      \* RPC workers
  ChunkSlots,   \* discovery window and Bigtable fetch size
  QueueSlots,   \* capacity of the channels between the tasks
  FlushSlots,   \* blocks after which a flush is due
  MaxInserts,   \* concurrent insert tasks
  MaxRuns,      \* bound: runs
  MaxFaults     \* bound: failures of fetches and inserts, per behaviour

BackfillAssumption ==
  /\ Slots \subseteq Nat /\ Listed \subseteq Slots /\ Absent \subseteq Listed
  /\ {ChunkSlots, QueueSlots, FlushSlots, MaxInserts} \subseteq Nat \ {0}

VARIABLES
  args,       \* command line of the deployment
  from,       \* first slot of this run's range
  cursor,     \* discovery position; for a restore, the bundle
  queue,      \* slot_tx; for a restore, the tables left of the bundle
  work,       \* worker -> its channel, the head being fetched
  dead,       \* workers that returned
  fetches,    \* Bigtable: chunks fetched or decoded
  main,       \* Bigtable's main task: "spawning", "joining", "aborted"
  results,    \* result_tx: blocks, or the error of a task
  buffer,     \* blocks whose rows the inserter holds
  batch,      \* rows taken for a flush that waits for a free insert task
  tasks,      \* insert tasks
  stored,     \* table -> slots in ClickHouse
  fatal,      \* a fetch failed for good
  signals,    \* shutdown signals received
  phase,      \* inserter: "loop", "drain"
  outcome,    \* "running", "complete", "stopped", "failed"
  runs, faults

vars == <<args, from, cursor, queue, work, dead, fetches, main, results, buffer,
          batch, tasks, stored, fatal, signals, phase, outcome, runs, faults>>

source   == <<cursor, queue, work, dead, fetches, main>>
inserter == <<results, buffer, batch, tasks, phase>>
rest     == <<args, from, runs>>

Running == outcome = "running"

\* resolve_rpc_range, load_slot_list, resolve_slot_range
FirstSlot ==
  CASE args.list # {} -> Min(args.list)
    [] args.list = {} /\ args.latest /\ stored["blocks"] # {} -> Max(stored["blocks"])
    [] OTHER -> args.start

Wanted == IF args.list # {} THEN args.list ELSE {s \in Listed : from <= s /\ s <= args.end}

Ascending(S) == SetToSortSeq(S, LAMBDA a, b : a < b)

\* What travels over result_tx.
Blocks(S) == [err |-> FALSE, slots |-> S]
Failure   == [err |-> TRUE, slots |-> {}]

-----------------------------------------------------------------------------
(* RPC: discovery, dispatcher, workers. *)

uningested_slots(discovered) ==
  IF args.skip_ingested THEN discovered \ stored["blocks"] ELSE discovered

\* One window of discover_slots (or the slot list), sent to the dispatcher.
\* A failed presence check fetches the whole window.
DiscoverSlots ==
  /\ Running /\ args.source = "rpc" /\ args.list = {} /\ cursor <= args.end
  /\ Len(queue) < QueueSlots
  /\ LET end == Min({cursor + ChunkSlots - 1, args.end})
         found == {s \in Listed : cursor <= s /\ s <= end}
     IN  /\ cursor' = end + 1
         /\ \/ queue' = queue \o Ascending(uningested_slots(found))
            \/ queue' = queue \o Ascending(found)
  /\ UNCHANGED <<work, dead, fetches, main, inserter, rest, stored, fatal, signals, outcome, faults>>

EnqueueSlotList ==
  /\ Running /\ args.source = "rpc" /\ args.list # {} /\ cursor <= Max(args.list)
  /\ Len(queue) < QueueSlots
  /\ LET s == Min({x \in args.list : x >= cursor})
     IN  queue' = Append(queue, s) /\ cursor' = s + 1
  /\ UNCHANGED <<work, dead, fetches, main, inserter, rest, stored, fatal, signals, outcome, faults>>

Discovered == cursor > (IF args.list # {} THEN Max(args.list) ELSE args.end)

\* run_rpc_dispatcher: a worker that is gone is passed over; a signal ends it.
Dispatch ==
  /\ Running /\ args.source = "rpc" /\ queue # <<>> /\ signals = 0
  /\ \E w \in Workers \ dead :
       /\ Len(work[w]) < QueueSlots
       /\ work' = [work EXCEPT ![w] = Append(@, Head(queue))]
  /\ queue' = Tail(queue)
  /\ UNCHANGED <<cursor, dead, fetches, main, inserter, rest, stored, fatal, signals, outcome, faults>>

\* run_rpc_worker with fetch_rpc_block_with_retry: a block, "skipped" (no rows),
\* or an error that is not retried, which ends the worker.
Fetch(w) ==
  /\ Running /\ w \notin dead /\ work[w] # <<>>
  /\ \/ /\ Len(results) < QueueSlots
        /\ LET s == Head(work[w]) IN
           results' = Append(results, Blocks(IF s \in Listed \ Absent THEN {s} ELSE {}))
        /\ work' = [work EXCEPT ![w] = Tail(@)]
        /\ UNCHANGED <<dead, fatal, faults>>
     \/ /\ faults < MaxFaults
        /\ faults' = faults + 1
        /\ fatal' = TRUE /\ dead' = dead \cup {w}
        /\ work' = [work EXCEPT ![w] = <<>>]
        /\ UNCHANGED results
  /\ UNCHANGED <<cursor, queue, fetches, main, buffer, batch, tasks, phase, rest, stored,
                 signals, outcome>>

\* The inserter's channel is closed: every worker returned.
RpcDone ==
  /\ dead = Workers \/ signals > 0 \/ (Discovered /\ queue = <<>>)
  /\ \A w \in Workers : work[w] = <<>>

-----------------------------------------------------------------------------
(* Bigtable: chunks of slots, fetched and then decoded by concurrent tasks.  *)
(* The main task spawns the fetches and, once none is left to spawn, waits   *)
(* for them; a decoder is not one of those it waits for or can abort.        *)

Room == Len(results) < QueueSlots

Left == {s \in Wanted : s >= cursor}

NextChunk ==
  /\ Running /\ args.source = "bigtable" /\ main = "spawning" /\ Left # {}
  /\ signals = 0 /\ ~fatal /\ Cardinality(fetches) < MaxInserts
  /\ LET chunk == {s \in Left : Cardinality({x \in Left : x < s}) < ChunkSlots}
     IN  /\ fetches' = fetches \cup {[slots |-> chunk, stage |-> "fetch"]}
         /\ cursor' = Max(chunk) + 1
  /\ UNCHANGED <<queue, work, dead, main, inserter, rest, stored, fatal, signals, outcome,
                 faults>>

\* get_confirmed_blocks fails: the run returns its error at once.
DiscoveryFails ==
  /\ Running /\ args.source = "bigtable" /\ args.list = {}
  /\ main = "spawning" /\ Left # {} /\ signals = 0 /\ ~fatal
  /\ faults < MaxFaults /\ faults' = faults + 1
  /\ outcome' = "failed"
  /\ UNCHANGED <<source, inserter, rest, stored, fatal, signals>>

\* A task fails: fatal is set first, then its error is sent, which takes room in
\* the channel; without room the task waits in the given stage.
FailTask(f, waiting) ==
  /\ faults < MaxFaults /\ faults' = faults + 1
  /\ fatal' = TRUE
  /\ IF Room THEN results' = Append(results, Failure) /\ fetches' = fetches \ {f}
             ELSE fetches' = (fetches \ {f}) \cup {[f EXCEPT !.stage = waiting]}
                  /\ UNCHANGED results

\* get_confirmed_blocks_with_data: slots without a block are left out.  fatal is
\* looked at when the task starts.
FetchChunk ==
  /\ Running
  /\ \E f \in fetches :
       /\ f.stage = "fetch"
       /\ \/ LET have == (f.slots \cap Listed) \ Absent IN
             /\ fetches' = (fetches \ {f}) \cup
                  (IF have = {} THEN {} ELSE {[slots |-> have, stage |-> "decode"]})
             /\ UNCHANGED <<fatal, faults, results>>
          \/ /\ fatal
             /\ fetches' = fetches \ {f} /\ UNCHANGED <<fatal, faults, results>>
          \/ FailTask(f, "report")
  /\ UNCHANGED <<cursor, queue, work, dead, main, buffer, batch, tasks, phase, rest, stored,
                 signals, outcome>>

\* decode_bigtable_blocks: fatal is looked at when it starts; then one batch for
\* the chunk, or one for each block, or the error of a block that cannot be read.
DecodeBlocks ==
  /\ Running
  /\ \E f \in fetches :
       \/ /\ f.stage = "decode"
          /\ fetches' = (fetches \ {f}) \cup
               (IF fatal THEN {} ELSE {[f EXCEPT !.stage = "send"]})
          /\ UNCHANGED <<results, fatal, faults>>
       \/ /\ f.stage = "send" /\ Room
          /\ LET sent == IF args.each_block THEN {Min(f.slots)} ELSE f.slots IN
             /\ results' = Append(results, Blocks(sent))
             /\ fetches' = (fetches \ {f}) \cup
                  (IF sent = f.slots THEN {} ELSE {[f EXCEPT !.slots = @ \ sent]})
          /\ UNCHANGED <<fatal, faults>>
       \/ /\ f.stage = "send" /\ FailTask(f, "report_decode")
  /\ UNCHANGED <<cursor, queue, work, dead, main, buffer, batch, tasks, phase, rest, stored,
                 signals, outcome>>

\* The error that waited for room is sent.
SendError ==
  /\ Running /\ Room
  /\ \E f \in fetches :
       /\ f.stage \in {"report", "report_decode"}
       /\ fetches' = fetches \ {f}
  /\ results' = Append(results, Failure)
  /\ UNCHANGED <<cursor, queue, work, dead, main, buffer, batch, tasks, phase, rest, stored,
                 fatal, signals, outcome, faults>>

\* The spawning loop is left and result_tx dropped.  A fatal error aborts every
\* fetch, the one whose own report still waits for room included.
StopSpawning ==
  /\ Running /\ args.source = "bigtable" /\ main = "spawning"
  /\ signals > 0 \/ fatal \/ Left = {}
  /\ main' = IF fatal THEN "aborted" ELSE "joining"
  /\ fetches' = {f \in fetches : fatal => f.stage \notin {"fetch", "report"}}
  /\ UNCHANGED <<cursor, queue, work, dead, inserter, rest, stored, fatal, signals, outcome,
                 faults>>

\* The inserter's channel is closed: no task can send any more.
BigtableDone == main # "spawning" /\ fetches = {}

-----------------------------------------------------------------------------
(* The inserters. *)

SourceDone == IF args.source = "rpc" THEN RpcDone ELSE BigtableDone

Inserting == Running /\ args.source # "solparq"

\* rpc_flush_every_slots or the row limits, the Bigtable per-block flush, and
\* after a signal for Bigtable.
FlushDue(held) ==
  \/ Cardinality(held) >= FlushSlots
  \/ args.source = "bigtable" /\ (args.each_block \/ signals > 0)

\* A result; its rows are taken for a flush once one is due.
RecvResult ==
  /\ Inserting /\ phase = "loop" /\ batch = {} /\ results # <<>> /\ ~Head(results).err
  /\ LET held == buffer \cup Head(results).slots
     IN  IF FlushDue(held) THEN batch' = held /\ buffer' = {}
                           ELSE buffer' = held /\ UNCHANGED batch
  /\ results' = Tail(results)
  /\ UNCHANGED <<source, tasks, phase, rest, stored, fatal, signals, outcome, faults>>

\* The flush timer (RPC); Bigtable looks at its clock only when a batch arrives.
FlushTick ==
  /\ Inserting /\ args.source = "rpc" /\ phase = "loop" /\ batch = {} /\ buffer # {}
  /\ batch' = buffer /\ buffer' = {}
  /\ UNCHANGED <<source, results, tasks, phase, rest, stored, fatal, signals, outcome, faults>>

\* enqueue_flush: waits for a free place among the insert tasks.
EnqueueFlush ==
  /\ Inserting /\ batch # {} /\ Cardinality(tasks) < MaxInserts
  /\ tasks' = tasks \cup {[slots |-> batch, step |-> "transactions"]}
  /\ batch' = {}
  /\ UNCHANGED <<source, results, buffer, phase, rest, stored, fatal, signals, outcome, faults>>

\* Mutant: metadata before transactions.
InsertMetadataFirst ==
  /\ Inserting
  /\ \E t \in tasks :
       /\ t.step \in {"transactions", "blocks"}
       /\ stored' = [stored EXCEPT
            ![IF t.step = "transactions" THEN "blocks" ELSE "transactions"] = @ \cup t.slots]
       /\ tasks' = (tasks \ {t}) \cup
            (IF t.step = "transactions" THEN {[t EXCEPT !.step = "blocks"]} ELSE {})
  /\ UNCHANGED <<source, results, buffer, batch, phase, rest, fatal, signals, outcome, faults>>

\* flush_buffers_with_retry of one task: transactions, then metadata.
Insert ==
  /\ Inserting
  /\ \E t \in tasks :
       /\ t.step \in {"transactions", "blocks"}
       /\ stored' = [stored EXCEPT ![t.step] = @ \cup t.slots]
       /\ tasks' = (tasks \ {t}) \cup
            (IF t.step = "transactions" THEN {[t EXCEPT !.step = "blocks"]} ELSE {})
  /\ UNCHANGED <<source, results, buffer, batch, phase, rest, fatal, signals, outcome, faults>>

\* The retries of an insert are used up.
InsertFails ==
  /\ Inserting /\ faults < MaxFaults
  /\ faults' = faults + 1
  /\ \E t \in tasks :
       /\ t.step \in {"transactions", "blocks"}
       /\ tasks' = (tasks \ {t}) \cup {[t EXCEPT !.step = "failed"]}
  /\ UNCHANGED <<source, results, buffer, batch, phase, rest, stored, fatal, signals, outcome>>

\* The run returns: what the tasks hold is dropped with them.
End(o) == outcome' = o

\* A failed insert is joined wherever the inserter waits.
JoinFailure ==
  /\ Inserting /\ \E t \in tasks : t.step = "failed"
  /\ End("failed")
  /\ UNCHANGED <<source, inserter, rest, stored, fatal, signals, faults>>

\* Mutant: the error is logged and the loop goes on.
RecvErrorLogged ==
  /\ Inserting /\ phase = "loop" /\ batch = {} /\ results # <<>> /\ Head(results).err
  /\ results' = Tail(results)
  /\ UNCHANGED <<source, buffer, batch, tasks, phase, rest, stored, fatal, signals, outcome,
                 faults>>

\* Bigtable: an Err ends the inserter; what it holds is dropped.
RecvError ==
  /\ Inserting /\ phase = "loop" /\ batch = {} /\ results # <<>> /\ Head(results).err
  /\ End("failed")
  /\ UNCHANGED <<source, inserter, rest, stored, fatal, signals, faults>>

\* RPC: fatal_rx is one branch of the loop.
ReceiveFatal ==
  /\ Inserting /\ args.source = "rpc" /\ phase = "loop" /\ batch = {} /\ fatal
  /\ End("failed")
  /\ UNCHANGED <<source, inserter, rest, stored, fatal, signals, faults>>

\* The loop ends when the results are exhausted or, for RPC, at the first
\* signal, which leaves received results unread; the rest is flushed.
LeaveLoop ==
  /\ Inserting /\ phase = "loop" /\ batch = {}
  /\ \/ args.source = "rpc" /\ signals > 0
     \/ results = <<>> /\ SourceDone
  /\ phase' = "drain"
  /\ batch' = buffer /\ buffer' = {}
  /\ UNCHANGED <<source, results, tasks, rest, stored, fatal, signals, outcome, faults>>

\* Mutant: no look at fatal_rx once the results are exhausted.
FinishIgnoringFatal ==
  /\ Inserting /\ phase = "drain" /\ batch = {} /\ tasks = {}
  /\ End(IF signals > 0 THEN "stopped" ELSE "complete")
  /\ UNCHANGED <<source, inserter, rest, stored, fatal, signals, faults>>

\* After the loop: for RPC a fatal error that was not received yet, then the
\* drain.  The Bigtable inserter knows of no error but those it received.
FinishRun ==
  /\ Inserting /\ phase = "drain" /\ batch = {}
  /\ \/ args.source = "rpc" /\ signals = 0 /\ fatal /\ End("failed")
     \/ (args.source = "rpc" => signals > 0 \/ ~fatal) /\ tasks = {}
        /\ End(IF signals > 0 THEN "stopped" ELSE "complete")
  /\ UNCHANGED <<source, inserter, rest, stored, fatal, signals, faults>>

\* The second signal ends the run before the inserts do, or, for Bigtable, while
\* the main task waits for fetches.
ForceStop ==
  /\ Inserting /\ signals >= 2
  /\ \/ phase = "drain"
     \/ args.source = "bigtable" /\ batch # {}
     \/ main = "joining" /\ \E f \in fetches : f.stage \in {"fetch", "report"}
  /\ End("stopped")
  /\ UNCHANGED <<source, inserter, rest, stored, fatal, signals, faults>>

Signal ==
  /\ Running /\ signals < 2
  /\ signals' = signals + 1
  /\ UNCHANGED <<source, inserter, rest, stored, fatal, outcome, faults>>

-----------------------------------------------------------------------------
(* Restore of parquet bundles, one table of one bundle after the other. *)

bundle_in_range(b) == b.start <= args.end /\ b.end >= args.start

\* Only the S3 path filters the rows of a bundle by slot.
RestoredRows(b, t) ==
  IF args.s3 THEN {s \in b.files[t] : args.start <= s /\ s <= args.end} ELSE b.files[t]

Tables == <<"transactions", "blocks">>

\* The next bundle: a signal stops the restore, a manifest of a newer format
\* fails it, a bundle outside the window is passed over.
NextBundle ==
  /\ Running /\ args.source = "solparq" /\ queue = <<>>
  /\ IF cursor > Len(args.bundles) \/ signals > 0
     THEN /\ End(IF signals > 0 THEN "stopped" ELSE "complete")
          /\ UNCHANGED <<cursor, queue>>
     ELSE LET b == args.bundles[cursor] IN
          IF b.newer THEN End("failed") /\ UNCHANGED <<cursor, queue>>
          ELSE /\ cursor' = cursor + 1 /\ UNCHANGED outcome
               /\ queue' = IF bundle_in_range(b)
                           THEN SelectSeq(Tables, LAMBDA t : t \in args.tables) ELSE <<>>
  /\ UNCHANGED <<work, dead, fetches, main, inserter, rest, stored, fatal, signals, faults>>

\* A required file that is missing, or a failing INSERT, ends the restore.
RestoreTable ==
  /\ Running /\ args.source = "solparq" /\ queue # <<>>
  /\ LET b == args.bundles[cursor - 1]
         t == Head(queue)
     IN  \/ /\ t \in DOMAIN b.files
            /\ stored' = [stored EXCEPT ![t] = @ \cup RestoredRows(b, t)]
            /\ queue' = Tail(queue)
            /\ UNCHANGED <<outcome, faults>>
         \/ /\ t \notin DOMAIN b.files \/ faults < MaxFaults
            /\ faults' = IF t \in DOMAIN b.files THEN faults + 1 ELSE faults
            /\ End("failed")
            /\ UNCHANGED <<stored, queue>>
  /\ UNCHANGED <<cursor, work, dead, fetches, main, inserter, rest, fatal, signals>>

-----------------------------------------------------------------------------
Fresh ==
  /\ queue = <<>> /\ work = [w \in Workers |-> <<>>] /\ dead = {}
  /\ fetches = {} /\ main = "spawning"
  /\ results = <<>> /\ buffer = {} /\ batch = {} /\ tasks = {}
  /\ fatal = FALSE /\ signals = 0 /\ phase = "loop" /\ outcome = "running"

Init ==
  /\ args \in Configs
  /\ stored = [t \in {"transactions", "blocks"} |-> {}]
  /\ from = args.start /\ cursor = IF args.source = "solparq" THEN 1 ELSE args.start
  /\ runs = 1 /\ faults = 0
  /\ Fresh

\* The operator starts the same command again.
Rerun ==
  /\ outcome \in {"stopped", "failed"} /\ runs < MaxRuns
  /\ runs' = runs + 1
  /\ from' = FirstSlot
  /\ cursor' = IF args.source = "solparq" THEN 1 ELSE FirstSlot
  /\ queue' = <<>> /\ work' = [w \in Workers |-> <<>>] /\ dead' = {}
  /\ fetches' = {} /\ main' = "spawning"
  /\ results' = <<>> /\ buffer' = {} /\ batch' = {} /\ tasks' = {}
  /\ fatal' = FALSE /\ signals' = 0 /\ phase' = "loop" /\ outcome' = "running"
  /\ UNCHANGED <<args, stored, faults>>

Inserter ==
  \/ RecvResult \/ FlushTick \/ EnqueueFlush \/ Insert \/ InsertFails \/ JoinFailure
  \/ RecvError \/ ReceiveFatal \/ LeaveLoop \/ FinishRun \/ ForceStop

Pipeline ==
  \/ DiscoverSlots \/ EnqueueSlotList \/ Dispatch
  \/ NextChunk \/ DiscoveryFails \/ FetchChunk \/ DecodeBlocks \/ SendError \/ StopSpawning
  \/ NextBundle \/ RestoreTable
  \/ \E w \in Workers : Fetch(w)

Next == Inserter \/ Pipeline \/ Signal \/ Rerun

Spec == Init /\ [][Next]_vars

-----------------------------------------------------------------------------
(* Properties. *)

\* What a restore that loads everything must bring back.
BundleRows(t) ==
  UNION {{s \in b.files[t] : args.start <= s /\ s <= args.end} :
           b \in {c \in Range(args.bundles) : t \in DOMAIN c.files}}

\* A run that reports completion has stored every block the source lists in its
\* range and still has, whichever order windows, workers, chunks and insert
\* tasks finished in, and whatever an interrupted earlier run had left behind.
\* The exception is a Bigtable run that aborted its fetches: when the error that
\* made it do so still waited for room in the channel, it is lost with its task
\* and the run returns Ok with blocks missing.
CompleteStored ==
  outcome = "complete" /\ main # "aborted" =>
    IF args.source = "solparq"
    THEN \A t \in args.tables : BundleRows(t) \subseteq stored[t]
    ELSE \A t \in {"transactions", "blocks"} :
           (Wanted \cap Listed) \ Absent \subseteq stored[t]

\* A stored metadata row has its transaction rows: the presence check of
\* skip_ingested and the '*' start, which look at metadata only, never pass over
\* a block that was stored by half.
MetadataLast == stored["blocks"] \subseteq stored["transactions"]
=============================================================================
