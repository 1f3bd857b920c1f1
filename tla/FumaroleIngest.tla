--------------------------- MODULE FumaroleIngest ---------------------------
(***************************************************************************)
(* The Fumarole consumer of the ingestor:                                  *)
(* crates/superbank/src/ingest/fumarole.rs.                                *)
(*                                                                         *)
(* A consumer group delivers the parts of finalized blocks, those of       *)
(* several slots interleaved, and ends every slot with SlotEnded.          *)
(* FumaroleBlockAssembler collects the parts; a finished block goes to the *)
(* row buffers, which are flushed by row count, by a timer, under memory   *)
(* pressure and before an exit, without retries.  commit acknowledges      *)
(* everything the stream has delivered so far, so it may be called only    *)
(* when the rows are stored and no block is incomplete.  What was not      *)
(* acknowledged is delivered again after a restart.                        *)
(*                                                                         *)
(* With a historical bound, events of later slots are rejected; the        *)
(* process stops once every block at or below the bound is complete.       *)
(*                                                                         *)
(* Parts are the block meta and one payload that stands for all            *)
(* transactions and entries.  The bank id is not read after the assembler  *)
(* has compared it, and is 1.  Slot statuses change only metrics.          *)
(***************************************************************************)
EXTENDS BufferedRows

CONSTANT Scenario   \* sources, limits and faults to explore

(* A scenario:
     shape      how the source delivers each slot: "parts", one "block" update,
                or "nothing" before SlotEnded
     footers    slots whose footer the source may send
     bound      historical_bound, 0 for none
     flushRows  blocks_flush_rows and the other row limits, in blocks
     faults     any of "malformed", "bad footer", "pressure", "stop", "insert",
                "crash" *)

FumaroleAssumption ==
    \A c \in Scenario : c.shape \in [Slot -> {"parts", "block", "nothing"}] /\ c.bound \in Nat

VARIABLES
    scenario,
    proc,        \* "up", or how the process ended
    blocks,      \* FumaroleBlockAssembler.blocks: parts and footer of each slot
    exceeded,    \* bound_exceeded
    delivered,   \* the events of each slot delivered in this session
    acked        \* the events of each slot that were acknowledged

vars == <<scenario, proc, blocks, exceeded, delivered, acked, bufferVars>>

Ended == {"crashed", "failed", "rejected", "bound", "fatal", "shutdown"}

NoParts == [present |-> FALSE, data |-> {}, footer |-> "absent"]

NoBlocks == [s \in Slot |-> NoParts]

Data(s) == CASE scenario.shape[s] = "parts" -> {"meta", "payload"}
             [] scenario.shape[s] = "block" -> {"block"}
             [] scenario.shape[s] = "nothing" -> {}

Event == {"meta", "payload", "block", "footer", "ended"}

-----------------------------------------------------------------------------
Pending(b) == {s \in Slot : b[s].present}

Listening == proc = "up" /\ flush = NoFlush

\* Mutant of Committed: complete rows acknowledge incomplete blocks.
CommittedWhatever(b, d) == d

\* commit_if_assembled: what is acknowledged afterwards, of the delivered events d.
Committed(b, d) == IF Pending(b) = {} THEN d ELSE acked

BeyondBound(s) == scenario.bound # 0 /\ s > scenario.bound

\* stop_at_historical_bound.
StopsAtBound(b, over) ==
    scenario.bound # 0 /\ over /\ \A s \in Pending(b) : s > scenario.bound

\* A flush for the caller: nothing is done, nor acknowledged, without rows.
BeginFlush(buffer, then, s) ==
    IF buffer = EmptyRows
    THEN flush' = NoFlush /\ proc' = IF then = "run" THEN proc ELSE then
    ELSE /\ flush' = [step |-> "merge", retries |-> 0, then |-> then, slot |-> s]
         /\ UNCHANGED proc

\* What follows an event that did not flush: the bound is looked at again, and
\* maybe_flush_for_pressure.
EndEvent(b, buffer) ==
    IF StopsAtBound(b, exceeded') THEN BeginFlush(buffer, "bound", 0)
    ELSE \/ flush' = NoFlush /\ UNCHANGED proc
         \/ /\ "pressure" \in scenario.faults /\ buffer # EmptyRows
            /\ BeginFlush(buffer, "run", 0)

\* process_update_with_footer of a complete block of slot s.
AcceptBlock(s, b) ==
    LET row == [slot |-> s, bank |-> 1,
                footer |-> IF blocks[s].footer = "valid" THEN "winner" ELSE NoFooter]
    IN  /\ rows' = AppendBlocks(rows, {row})
        /\ blocks' = b
        /\ UNCHANGED acked
        /\ IF Cardinality(rows'.blocks) >= scenario.flushRows
           THEN BeginFlush(rows', "run", s)
           ELSE EndEvent(b, rows')

\* accept_footer; a second, different one or an invalid one spoils the first.
WithFooter(s, valid) ==
    [blocks EXCEPT ![s].present = TRUE,
                   ![s].footer = IF valid /\ @ # "rejected" THEN "valid" ELSE "rejected"]

\* handle_update of a part: nothing but the assembler changes.
TakePart(b) ==
    /\ blocks' = b
    /\ UNCHANGED <<rows, acked>>
    /\ EndEvent(b, rows)

\* An error of handle_update or finish_slot leaves without flush and commit.
RejectEvent ==
    /\ proc' = "rejected"
    /\ UNCHANGED <<rows, blocks, acked, flush>>

\* Mutant of SlotWithoutBlock: only a flush acknowledges.
SlotWithoutBlockWaits(b) ==
    /\ blocks' = b
    /\ UNCHANGED <<rows, acked>>
    /\ EndEvent(b, rows)

\* SlotEnded of a slot without a block.
SlotWithoutBlock(b) ==
    /\ blocks' = b
    /\ acked' = IF rows = EmptyRows THEN Committed(b, delivered') ELSE acked
    /\ UNCHANGED rows
    /\ EndEvent(b, rows)

\* finish_slot, into_subscribe_update and validate_block_completeness.
FinishSlot(s) ==
    LET b == [blocks EXCEPT ![s] = NoParts]
    IN  CASE blocks[s].data = {} -> SlotWithoutBlock(b)
          [] blocks[s].data = {"meta", "payload"} -> AcceptBlock(s, b)
          [] OTHER -> RejectEvent

\* One event of the stream.  Footers are optional; an incomplete block ends, or a
\* payload is invalid, only with the fault.
Handle(s, e) ==
    CASE e \in {"meta", "payload"} ->
           \/ TakePart([blocks EXCEPT ![s].present = TRUE, ![s].data = @ \cup {e}])
           \/ "malformed" \in scenario.faults /\ RejectEvent
      [] e = "block" ->
           \/ AcceptBlock(s, [blocks EXCEPT ![s] = NoParts])
           \/ "malformed" \in scenario.faults /\ RejectEvent
      [] e = "footer" ->
           \/ TakePart(WithFooter(s, TRUE))
           \/ "bad footer" \in scenario.faults /\ TakePart(WithFooter(s, FALSE))
      [] e = "ended" -> FinishSlot(s)

Deliverable(s, e) ==
    /\ e \notin delivered[s] /\ "ended" \notin delivered[s]
    /\ \/ e \in Data(s)
       \/ e = "footer" /\ s \in scenario.footers
       \/ e = "ended" /\ Data(s) \subseteq delivered[s]
       \/ e = "ended" /\ "malformed" \in scenario.faults /\ delivered[s] \cap Data(s) # {}

Deliver(s, e) ==
    /\ Listening /\ Deliverable(s, e)
    /\ delivered' = [delivered EXCEPT ![s] = @ \cup {e}]
    /\ exceeded' = (exceeded \/ BeyondBound(s))
    /\ CASE StopsAtBound(blocks, exceeded') ->
              BeginFlush(rows, "bound", 0) /\ UNCHANGED <<rows, blocks, acked>>
         [] ~StopsAtBound(blocks, exceeded') /\ BeyondBound(s) ->
              UNCHANGED <<rows, blocks, acked, flush, proc>>
         [] OTHER -> Handle(s, e)
    /\ UNCHANGED <<scenario, ceiling, stored>>
-----------------------------------------------------------------------------
\* flush_timer.tick().
FlushTick ==
    /\ Listening /\ rows # EmptyRows
    /\ BeginFlush(rows, "run", 0)
    /\ UNCHANGED <<scenario, blocks, exceeded, delivered, acked, rows, ceiling, stored>>

\* The idle timer or the stream itself, or a signal, ends the process.
Stop(reason) ==
    /\ "stop" \in scenario.faults
    /\ Listening
    /\ BeginFlush(rows, reason, 0)
    /\ UNCHANGED <<scenario, blocks, exceeded, delivered, acked, rows, ceiling, stored>>

FlushNext ==
    /\ proc = "up"
    /\ MergeStoredFooters \/ InsertTransactions \/ InsertBlocks
    /\ UNCHANGED <<scenario, proc, blocks, exceeded, delivered, acked>>

\* The last insert, the commit of every caller but the bound's, and what the
\* caller does next; an event looks at the bound again.
EndFlush ==
    /\ proc = "up"
    /\ InsertEntries
    /\ acked' = IF flush.then = "bound" THEN acked ELSE Committed(blocks, delivered)
    /\ proc' = IF flush.then # "run" THEN flush.then
               ELSE IF flush.slot # 0 /\ StopsAtBound(blocks, exceeded) THEN "bound" ELSE proc
    /\ UNCHANGED <<scenario, blocks, exceeded, delivered>>

FailFlush ==
    /\ "insert" \in scenario.faults
    /\ proc = "up"
    /\ InsertFails
    /\ flush' = NoFlush /\ proc' = "failed"
    /\ UNCHANGED <<scenario, blocks, exceeded, delivered, acked>>

\* The process dies, also by the second signal during the last flush.
Crash ==
    /\ "crash" \in scenario.faults
    /\ proc = "up"
    /\ proc' = "crashed" /\ flush' = NoFlush
    /\ UNCHANGED <<scenario, blocks, exceeded, delivered, acked, rows, ceiling, stored>>

\* run_fumarole_ingest with an existing consumer group.
Start ==
    /\ proc \in Ended
    /\ proc' = "up"
    /\ blocks' = NoBlocks /\ exceeded' = FALSE
    /\ delivered' = acked
    /\ rows' = EmptyRows /\ ceiling' = LatestStored
    /\ UNCHANGED <<scenario, acked, stored, flush>>

Init ==
    /\ scenario \in Scenario
    /\ proc = "up"
    /\ blocks = NoBlocks /\ exceeded = FALSE
    /\ delivered = [s \in Slot |-> {}] /\ acked = [s \in Slot |-> {}]
    /\ rows = EmptyRows /\ ceiling = 0
    /\ stored = [transactions |-> {}, blocks |-> {}, entries |-> {}]
    /\ flush = NoFlush

Next ==
    \/ \E s \in Slot, e \in Event : Deliver(s, e)
    \/ FlushTick
    \/ \E reason \in {"fatal", "shutdown"} : Stop(reason)
    \/ FlushNext
    \/ EndFlush
    \/ FailFlush
    \/ Crash
    \/ Start

Spec == Init /\ [][Next]_vars

(* The stream goes on to deliver the data and the ends of the slots; a flush goes
   on unless the process dies; tokio::select! picks among the ready branches at
   random, so that a branch that stays ready is taken. *)
FairSpec ==
    /\ Spec
    /\ WF_vars(FlushNext) /\ WF_vars(EndFlush) /\ WF_vars(FlushTick)
    /\ WF_vars(\E s \in Slot, e \in Event \ {"footer"} : Deliver(s, e))
-----------------------------------------------------------------------------
(* Properties *)

\* What was acknowledged is never delivered again, so its block is stored in all
\* three tables: a commit must not overtake a flush, a retry of the delivery or
\* another slot that is still being assembled (commit_if_assembled).
AcknowledgedStored ==
    \A s \in Slot : acked[s] # {} /\ Data(s) # {} /\ ~BeyondBound(s) =>
        s \in StoredSlots /\ s \in stored.transactions /\ s \in stored.entries

\* A slot that ended is acknowledged in the end, unless the process stops or the
\* stream keeps coming back to slots that are incomplete: commit_if_assembled
\* never commits while one is.
EveryEndAcknowledged ==
    \A s \in Slot :
        (proc = "up" /\ "ended" \in delivered[s]) ~>
            ("ended" \in acked[s] \/ proc # "up" \/ Pending(blocks) # {})
=============================================================================
