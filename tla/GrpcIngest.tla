----------------------------- MODULE GrpcIngest -----------------------------
(***************************************************************************)
(* The live gRPC writer: crates/superbank/src/ingest/grpc.rs.              *)
(*                                                                         *)
(* One subscription delivers complete finalized blocks in slot order and,  *)
(* unordered with them, bank statuses and footers.  FinalizedFooterJoin    *)
(* holds a block whose protobuf bank id is zero (also the value of a       *)
(* missing field) until a status of the same subscription tells whether    *)
(* the slot is bank-aware, then lets it wait for its footer, and releases  *)
(* it to the row buffers in slot order.  The buffers are flushed by row    *)
(* count, by a timer, before a stop and before an exit on error.  A        *)
(* restarted process subscribes from the newest slot of blocks_metadata,   *)
(* inclusive; the replay carries no footers.                               *)
(*                                                                         *)
(* Every update is handled by one atomic step up to the point where it     *)
(* starts a flush: the select loop polls nothing else meanwhile.  While a  *)
(* flush is under way only its round trips, a crash and, at shutdown, a    *)
(* second signal can happen.                                               *)
(*                                                                         *)
(* The producer is the environment.  It sends each slot's block once per   *)
(* subscription and in order; it may send any status any number of times;  *)
(* each footer at most once, since replay has none.  What one scenario     *)
(* adds are producers that contradict themselves.                          *)
(***************************************************************************)
EXTENDS BufferedRows

CONSTANT Scenario   \* producers, limits and faults to explore

(* A scenario:
     bank       the bank id of each produced slot, NoBank where the producer
                predates bank ids; slots outside the domain were skipped
     contested  slots with a second, losing bank
     footers    slots whose banks' footers the producer sends
     evidence   kinds of status the producer sends of the banks that exist
     window     FOOTER_JOIN_WINDOW_SLOTS
     awaitMax   FOOTER_AWAIT_MAX_BLOCKS (and its byte limit)
     holdMax    PENDING_IDENTITY_MAX_BLOCKS (and its byte limit)
     flushRows  blocks_flush_rows and the other row limits, in blocks
     faults     any of "malformed", "stray", "flip", "stop", "insert", "crash" *)

ASSUME ScenarioAssumption ==
    \A c \in Scenario :
        /\ DOMAIN c.bank \subseteq Slot
        /\ c.bank \in [DOMAIN c.bank -> {NoBank, 0, 1}]
        /\ c.awaitMax \in Nat /\ c.holdMax \in Nat

VARIABLES
    scenario,
    proc,      \* "up", or how the process ended
    join,      \* FinalizedFooterJoin of the subscription
    cursor,    \* the next slot whose block the producer sends
    unsent     \* footers the producer has not sent yet: <<slot, bank>>

vars == <<scenario, proc, join, cursor, unsent, bufferVars>>

Bank(s) == scenario.bank[s]
Produced == DOMAIN scenario.bank
\* The bank id as a protobuf scalar: a missing one reads as zero.
Scalar(s) == IF Bank(s) = NoBank THEN 0 ELSE Bank(s)
Loser(s) == 1 - Scalar(s)

NewJoin ==
    [pending |-> {}, finalized |-> {}, minFooter |-> 0, highest |-> 0,
     known |-> {}, legacy |-> {}, held |-> {}, awaiting |-> {}]

Ended == {"crashed", "failed", "fatal", "rejected", "shutdown"}

\* At most one block of a slot waits, and the hold and the wait queue keep their limits.
JoinWithinLimits ==
    /\ \A e, f \in join.awaiting : e[1] = f[1] => e = f
    /\ Cardinality(join.held) <= scenario.holdMax
    /\ Cardinality(join.awaiting) <= scenario.awaitMax
-----------------------------------------------------------------------------
(* FinalizedFooterJoin *)

\* The winner known for the slot is another bank.
WinnerConflict(j, s, b) == \E p \in j.finalized : p[1] = s /\ p[2] # b

\* block_identity fails: a bank-aware block at a slot proven to be legacy.
IdentityConflict(j, s, scalar) == s \in j.legacy /\ scalar # 0

\* Mutant of Unidentified: a scalar zero is taken for bank zero.
ZeroIsABank(j, s, scalar) == FALSE

\* block_identity returns Unknown: zero without evidence for this slot.
Unidentified(j, s, scalar) ==
    s \notin j.legacy /\ scalar = 0 /\ <<s, scalar>> \notin j.known

Oldest(j) == Max({j.highest - scenario.window, 0})

\* prune fails when a held block has left the window.
PruneFails(j) == \E h \in j.held : h[1] < Oldest(j)

Prune(j) ==
    [j EXCEPT !.pending   = {p \in @ : p[1] >= Oldest(j)},
              !.finalized = {p \in @ : p[1] >= Oldest(j)},
              !.known     = {p \in @ : p[1] >= Oldest(j)},
              !.legacy    = {s \in @ : s >= Oldest(j)}]

\* stage_identity_block without its final prune.
StageFails(j, s) ==
    \/ \E h \in j.held : h[1] = s
    \/ Cardinality(j.held) >= scenario.holdMax

Stage(j, s, scalar) ==
    [j EXCEPT !.held = @ \cup {<<s, scalar>>}, !.highest = Max({@, s})]

\* observe_footer: a footer of a legacy slot is discarded; one of a bank known
\* to have lost only counts as seen.
ObserveFooter(j, s, b) ==
    IF s \in j.legacy THEN j
    ELSE [j EXCEPT !.minFooter = IF @ = 0 THEN s ELSE Min({@, s}),
                   !.highest = Max({@, s}),
                   !.pending = IF WinnerConflict(j, s, b) THEN @ ELSE @ \cup {<<s, b>>}]

\* observe_slot of a CreatedBank, Processed, Confirmed or Finalized status (b is
\* NoBank when the optional id is missing): it contradicts the earlier ones.
StatusFails(j, s, b, status) ==
    IF b # NoBank
    THEN s \in j.legacy \/ (status = "finalized" /\ WinnerConflict(j, s, b))
    ELSE status \in {"created", "finalized"} /\ \E p \in j.known : p[1] = s

ObserveStatus(j, s, b, status) ==
    LET top == [j EXCEPT !.highest = Max({@, s})]
    IN  CASE status = "dead" ->
               [j EXCEPT !.pending = {p \in @ : p[1] # s \/ (b # NoBank /\ p[2] # b)}]
          [] status # "dead" /\ b = NoBank ->
               IF status \in {"created", "finalized"}
               THEN [top EXCEPT !.legacy = @ \cup {s}] ELSE top
          [] status = "finalized" /\ b # NoBank ->
               [top EXCEPT !.known = @ \cup {<<s, b>>},
                           !.finalized = @ \cup {<<s, b>>},
                           !.pending = {p \in @ : p[1] # s \/ p[2] = b}]
          [] OTHER -> [top EXCEPT !.known = @ \cup {<<s, b>>}]

\* take_ready_blocks: nothing leaves while the identity of one is unknown.
Ready(j) == ~\E h \in j.held : Unidentified(j, h[1], h[2])

\* take_ready_blocks meets a contradiction before an unknown identity.
ReadyFails(j) ==
    \E h \in j.held :
        /\ IdentityConflict(j, h[1], h[2])
        /\ \A g \in j.held : g[1] < h[1] => ~Unidentified(j, g[1], g[2])

Identity(j, h) == <<h[1], IF h[1] \in j.legacy THEN NoBank ELSE h[2]>>

\* await_footer fails for some ready block: another bank won its slot.
AwaitFails(j) ==
    Ready(j) /\ \E h \in j.held : h[1] \notin j.legacy /\ WinnerConflict(j, h[1], h[2])

TakeReady(j) ==
    IF Ready(j)
    THEN [j EXCEPT !.held = {}, !.awaiting = @ \cup {Identity(j, h) : h \in j.held}]
    ELSE j

FooterExpected(j, s) == j.minFooter = 0 \/ s >= j.minFooter

\* Mutant of JoinedFooter: footers are joined by slot alone.
FooterOfSlot(j, e) == {p \in j.pending : p[1] = e[1]}

\* The footer of the block's own bank, once that bank is known to have won.
JoinedFooter(j, e) == {p \in j.pending : p = e /\ p \in j.finalized}

\* Mutant of Due: a full queue does not push the oldest block out.
DueWithoutLimit(j, e, mode, expired) ==
    mode = "drain" \/ e[2] = NoBank \/ e[1] <= expired \/ ~FooterExpected(j, e[1])

\* Mutant of Due: the wait has no deadline.
DueWithoutDeadline(j, e, mode, expired) ==
    \/ mode = "drain"
    \/ Cardinality({f \in j.awaiting : f[1] >= e[1]}) > scenario.awaitMax
    \/ e[2] = NoBank
    \/ ~FooterExpected(j, e[1])

\* A block need not wait (any longer) for its footer.  The wait of blocks up to
\* slot `expired` is over; more than awaitMax blocks push the oldest ones out.
Due(j, e, mode, expired) ==
    \/ mode = "drain"
    \/ Cardinality({f \in j.awaiting : f[1] >= e[1]}) > scenario.awaitMax
    \/ e[2] = NoBank
    \/ e[1] <= expired
    \/ ~FooterExpected(j, e[1])

\* Mutant of Released: a block that is ready overtakes one that still waits.
ReleasedOutOfOrder(j, mode, expired) ==
    IF mode = "skip" THEN {}
    ELSE {e \in j.awaiting : JoinedFooter(j, e) # {} \/ Due(j, e, mode, expired)}

\* release_awaiting: the longest prefix, in slot order, of blocks that have
\* their footer or need not wait.
Released(j, mode, expired) ==
    IF mode = "skip" THEN {}
    ELSE {e \in j.awaiting : \A f \in j.awaiting :
            f[1] <= e[1] => JoinedFooter(j, f) # {} \/ Due(j, f, mode, expired)}

ReleasedRow(j, e) ==
    [slot |-> e[1], bank |-> e[2],
     footer |-> IF JoinedFooter(j, e) = {} THEN NoFooter
                ELSE IF <<e[1], Scalar(e[1])>> \in JoinedFooter(j, e) THEN "winner" ELSE "loser"]

Release(j, mode, expired) ==
    LET gone == Released(j, mode, expired)
    IN  /\ join' = [j EXCEPT !.awaiting = @ \ gone,
                            !.pending = @ \ UNION {JoinedFooter(j, e) : e \in gone}]
        /\ rows' = AppendBlocks(rows, {ReleasedRow(j, e) : e \in gone})
-----------------------------------------------------------------------------
(* The process *)

Listening == proc = "up" /\ flush = NoFlush

\* A flush for the caller: it stops at once if there is nothing to write.
BeginFlush(buffer, retries, then, s) ==
    IF buffer = EmptyRows
    THEN /\ flush' = NoFlush
         /\ proc' = IF then = "run" THEN proc ELSE then
    ELSE /\ flush' = [step |-> "merge", retries |-> retries, then |-> then, slot |-> s]
         /\ UNCHANGED proc

\* flush_canonical_rows: releases, then flushes unless an identity is unknown.
FlushCanonicalRows(j, mode, expired, retries, then) ==
    /\ Release(j, mode, expired)
    /\ IF j.held = {} THEN BeginFlush(rows', retries, then, 0)
       ELSE flush' = NoFlush /\ proc' = IF then = "run" THEN proc ELSE then

\* process_canonical_update after an error: only buffers that hold nothing of
\* the update's slot or above are flushed; the process ends either way.
Reject(j, s) ==
    /\ join' = j
    /\ UNCHANGED rows
    /\ IF j.held = {} /\ \A r \in rows.blocks : r.slot < s
       THEN BeginFlush(rows, 0, "rejected", 0)
       ELSE flush' = NoFlush /\ proc' = "rejected"

\* The rest of process_canonical_update_inner once the update is in the join.
\* An await that fails has emptied the hold already.
Proceed(j, s) ==
    CASE ReadyFails(j) -> Reject(j, s)
      [] ~ReadyFails(j) /\ AwaitFails(j) -> Reject([j EXCEPT !.held = {}], s)
      [] OTHER ->
           \E expired \in {0} \cup {e[1] : e \in TakeReady(j).awaiting} :
              /\ Release(TakeReady(j), "due", expired)
              /\ IF TakeReady(j).held = {} /\ Cardinality(rows'.blocks) >= scenario.flushRows
                 THEN BeginFlush(rows', MaxRetries, "run", s)
                 ELSE UNCHANGED <<flush, proc>>

\* prune, then the rest; a failed prune rejects the update.
PruneAndProceed(j, s) ==
    IF PruneFails(j) THEN Reject(Prune(j), s) ELSE Proceed(Prune(j), s)

\* The producer sends block s; `whole` when it passes validate_block_bank and
\* validate_block_completeness.
BlockUpdate(s, scalar, whole) ==
    /\ Listening
    /\ IF \/ ~whole
          \/ WinnerConflict(join, s, scalar)
          \/ IdentityConflict(join, s, scalar)
          \/ StageFails(join, s)
       THEN Reject(join, s)
       ELSE PruneAndProceed(Stage(join, s, scalar), s)
    /\ UNCHANGED <<scenario, ceiling, stored, unsent>>

SendBlock ==
    /\ cursor \in Produced
    /\ BlockUpdate(cursor, Scalar(cursor), TRUE)
    /\ cursor' = cursor + 1

SkipSlot ==
    /\ Listening
    /\ cursor \in Slot \ Produced
    /\ cursor' = cursor + 1
    /\ UNCHANGED <<scenario, proc, join, unsent, bufferVars>>

\* A block that misses transactions or entries.
SendMalformedBlock ==
    /\ "malformed" \in scenario.faults
    /\ cursor \in Produced
    /\ BlockUpdate(cursor, Scalar(cursor), FALSE)
    /\ cursor' = cursor + 1

\* The block of a bank that the stream's own status says has lost.
SendStrayBlock ==
    /\ "stray" \in scenario.faults
    /\ cursor \in Produced
    /\ WinnerConflict(join, cursor, Loser(cursor))
    /\ BlockUpdate(cursor, Loser(cursor), TRUE)
    /\ cursor' = cursor + 1

\* A footer comes at most once in all subscriptions, before or after its block.
SendFooter(s, b) ==
    /\ Listening
    /\ <<s, b>> \in unsent
    /\ unsent' = unsent \ {<<s, b>>}
    /\ PruneAndProceed(ObserveFooter(join, s, b), s)
    /\ UNCHANGED <<scenario, cursor, ceiling, stored>>

SlotUpdate(s, b, status) ==
    /\ Listening
    /\ IF status # "dead" /\ StatusFails(join, s, b, status)
       THEN Reject(join, s)
       ELSE PruneAndProceed(ObserveStatus(join, s, b, status), s)
    /\ UNCHANGED <<scenario, cursor, unsent, ceiling, stored>>

\* Statuses of the banks that exist.  Confirmed and processed statuses act like
\* created ones with an id, and only raise the highest slot without one.
SendStatus(s, status) == SlotUpdate(s, Bank(s), status)
SendLoserStatus(s, status) ==
    s \in scenario.contested /\ SlotUpdate(s, Loser(s), status)

\* A status that contradicts the protocol the slot's producer speaks.
SendFlippedStatus(s, status) ==
    /\ "flip" \in scenario.faults
    /\ SlotUpdate(s, IF Bank(s) = NoBank THEN 0 ELSE NoBank, status)

\* flush_timer.tick(); `expired` as in Due.
FlushTick(expired) ==
    /\ Listening
    /\ FlushCanonicalRows(join, "due", expired, MaxRetries, "run")
    /\ UNCHANGED <<scenario, cursor, unsent, ceiling, stored>>

\* Mutant of FatalCondition: blocks whose wait is not over are not released.
FatalWithoutDrain ==
    /\ "stop" \in scenario.faults
    /\ Listening
    /\ FlushCanonicalRows(join, "due", 0, 0, "fatal")
    /\ UNCHANGED <<scenario, cursor, unsent, ceiling, stored>>

\* The health watch, the idle timer or the stream itself ends the process.
FatalCondition ==
    /\ "stop" \in scenario.faults
    /\ Listening
    /\ FlushCanonicalRows(join, "drain", 0, 0, "fatal")
    /\ UNCHANGED <<scenario, cursor, unsent, ceiling, stored>>

Shutdown ==
    /\ "stop" \in scenario.faults
    /\ Listening
    /\ FlushCanonicalRows(join, "drain", 0, MaxRetries, "shutdown")
    /\ UNCHANGED <<scenario, cursor, unsent, ceiling, stored>>

\* One round trip of the flush; the last one returns to the caller.
FlushNext ==
    /\ proc = "up"
    /\ \/ MergeStoredFooters /\ UNCHANGED proc
       \/ InsertTransactions /\ UNCHANGED proc
       \/ InsertBlocks /\ UNCHANGED proc
       \/ InsertEntries /\ proc' = IF flush.then = "run" THEN proc ELSE flush.then
    /\ UNCHANGED <<scenario, join, cursor, unsent>>

RetryFlush ==
    /\ "insert" \in scenario.faults
    /\ proc = "up"
    /\ RetryInsert
    /\ UNCHANGED <<scenario, proc, join, cursor, unsent>>

\* The flush gives up.  A flush by row count belongs to an update, so its error
\* passes through process_canonical_update, which tries once more.
FailFlush ==
    /\ "insert" \in scenario.faults
    /\ proc = "up"
    /\ InsertFails
    /\ IF flush.slot # 0 /\ \A r \in rows.blocks : r.slot < flush.slot
       THEN /\ flush' = [step |-> "merge", retries |-> 0, then |-> "rejected", slot |-> 0]
            /\ UNCHANGED proc
       ELSE flush' = NoFlush /\ proc' = "failed"
    /\ UNCHANGED <<scenario, join, cursor, unsent>>

\* The process dies, also by the second signal during the last flush.
Crash ==
    /\ "crash" \in scenario.faults
    /\ proc = "up"
    /\ proc' = "crashed"
    /\ flush' = NoFlush
    /\ join' = NewJoin
    /\ rows' = EmptyRows
    /\ UNCHANGED <<scenario, cursor, unsent, ceiling, stored>>

\* run_grpc_ingest with dragonsmouth_from_slot '*': the subscription starts at
\* the newest stored slot, or, with an empty table, wherever the producer is.
Start ==
    /\ proc \in Ended
    /\ proc' = "up"
    /\ join' = NewJoin
    /\ rows' = EmptyRows
    /\ ceiling' = LatestStored
    /\ cursor' \in IF StoredSlots = {} THEN Slot ELSE {LatestStored}
    /\ UNCHANGED <<scenario, unsent, stored, flush>>

Init ==
    /\ scenario \in Scenario
    /\ proc = "up"
    /\ join = NewJoin
    /\ cursor = 1
    /\ unsent = {<<s, Scalar(s)>> : s \in scenario.footers}
                \cup {<<s, Loser(s)>> : s \in scenario.footers \cap scenario.contested}
    /\ rows = EmptyRows
    /\ ceiling = 0
    /\ stored = [transactions |-> {}, blocks |-> {}, entries |-> {}]
    /\ flush = NoFlush

Next ==
    \/ SendBlock
    \/ SkipSlot
    \/ SendMalformedBlock
    \/ SendStrayBlock
    \/ \E s \in Produced, b \in {0, 1} : SendFooter(s, b)
    \/ \E s \in Produced, status \in scenario.evidence : SendStatus(s, status)
    \/ \E s \in Produced, status \in (scenario.evidence \ {"finalized"}) \cup {"dead"} : SendLoserStatus(s, status)
    \/ \E s \in Produced, status \in {"created", "finalized"} : SendFlippedStatus(s, status)
    \/ \E expired \in {0} \cup {e[1] : e \in join.awaiting} : FlushTick(expired)
    \/ FatalCondition
    \/ Shutdown
    \/ FlushNext
    \/ RetryFlush
    \/ FailFlush
    \/ Crash
    \/ Start

Spec == Init /\ [][Next]_vars

(* A flush goes on unless the process dies; tokio::select! picks among the ready
   branches at random, so neither the timer nor the stream is starved; every
   wait ends by the clock; the producer sends the statuses it was asked for. *)
FairSpec ==
    /\ Spec
    /\ WF_vars(FlushNext)
    /\ SF_vars(FlushTick(MaxSlot))
    /\ \A s \in Slot :
         SF_vars(s \in Produced /\ SendStatus(s, "created"))
-----------------------------------------------------------------------------
(* Properties *)

\* Between the first stored slot and the metadata tip no produced block is
\* missing, and none lacks its transactions: a restart replays from the tip
\* (resolve_initial_from_slot), so whatever is missing below it stays missing.
\* The hold of unidentified blocks, the release in slot order and the order of
\* the inserts all serve this.
PrefixStored ==
    \A s \in Produced :
        (\E q \in StoredSlots : q <= s) /\ s <= LatestStored
            => s \in StoredSlots /\ s \in stored.transactions

\* No block leaves the hold under a wrong identity: a scalar zero becomes bank
\* zero only where the producer has bank ids and NULL only where it has none,
\* and a bank that lost never gets through (block_identity, await_footer).
IdentityTrue ==
    "flip" \notin scenario.faults =>
        /\ \A e \in join.awaiting : e[2] = Bank(e[1])
        /\ \A r \in rows.blocks \cup stored.blocks : r.bank = Bank(r.slot)

\* Only the winner's footer reaches a row, whatever statuses and footers of
\* other banks came in between; a row without bank id has none but the one an
\* earlier process stored (release_awaiting, merge_stored_footers).
FooterOfWinner ==
    /\ \A r \in rows.blocks \cup stored.blocks : r.footer \in {"winner", NoFooter}
    /\ \A r \in rows.blocks : r.footer # NoFooter => r.bank # NoBank \/ r.slot <= ceiling

\* The process holds block s: for its identity, for its footer, or as rows.
Accepted(s) ==
    /\ proc = "up"
    /\ \/ \E h \in join.held \cup join.awaiting : h[1] = s
       \/ \E r \in rows.blocks : r.slot = s

\* A block the process has accepted is stored in the end unless the process
\* stops first: neither the hold for its identity, nor the wait for a footer
\* that may never come, nor failing inserts keep it in memory for ever.
AcceptedBlocksStored ==
    \A s \in Slot : Accepted(s) ~> (s \in StoredSlots \/ proc # "up")

\* A shutdown or a fatal stream condition whose flush succeeded leaves no
\* identified block behind (FooterRelease::Drain).
StopWritesWaiting ==
    proc \in {"fatal", "shutdown"} /\ join.held = {} =>
        join.awaiting = {} /\ rows = EmptyRows
=============================================================================
