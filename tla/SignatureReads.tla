--------------------------- MODULE SignatureReads ---------------------------
(***************************************************************************)
(* getSignatureStatuses and getTransaction (handlers/signatures.rs,        *)
(* handlers/transactions.rs, clickhouse/signatures.rs,                     *)
(* clickhouse/transactions.rs): the head cache, the disk cache, the        *)
(* response caches and ClickHouse in turn, while blocks arrive at all of   *)
(* them.                                                                   *)
(*                                                                         *)
(* A signature lands in one slot, known to config.  ClickHouse replicas    *)
(* hold every slot up to one between primary.old and primary.new.  The     *)
(* disk cache holds a span of slots, the head cache those from its floor   *)
(* on but a block it missed.                                               *)
(***************************************************************************)
EXTENDS Integers, FiniteSets, FiniteSetsExt

CONSTANT
  Scenario        \* where signatures landed, routes, requests, which tiers move, the last slot

SignatureReadsAssumption ==
  \A c \in Scenario :
    /\ c.last \in Nat /\ c.held \in Nat /\ c.land \in [DOMAIN c.land -> 0..c.last]
    /\ c.start \in [floor : Nat, tip : Nat, proc : Nat, miss : {0}, live : BOOLEAN, fresh : BOOLEAN]
    /\ c.start.floor <= c.start.proc + 1 /\ c.start.tip <= c.start.proc
    /\ c.start.fresh => c.held <= c.start.tip
    /\ \A q \in c.requests : IF q.kind = "statuses" THEN q.sigs \subseteq DOMAIN c.land
                                                  ELSE q.sig \in DOMAIN c.land

VARIABLES
  config,
  head,           \* floor, finalized tip, processed tip, missed block, connected, tip moved lately
  disk,           \* the contiguous covered span, empty when floor > tip
  primary,        \* slots every replica holds, slots some replica holds
  latest,         \* latest_slot_cache
  absent,         \* status_history_cache: the disk tip recorded with an absence, or None
  slots,          \* signature_slot_cache: nothing, a lookup in flight, or a value
  kept,           \* get_transaction_primary_cache
  jobs

world == <<head, disk, primary>>
caches == <<latest, absent, slots, kept>>
vars == <<config, world, caches, jobs>>

None == -1

Sigs == DOMAIN config.land

Holds(s, slot) == config.land[s] \in 1..slot

-----------------------------------------------------------------------------
(***************************************************************************)
(* The tiers.                                                              *)
(***************************************************************************)
Dead == [floor |-> 1, tip |-> 0, proc |-> 0, miss |-> 0, live |-> FALSE, fresh |-> FALSE]

\* The verified chain ends above a block that was missed.
ChainFloor == Max({head.floor, head.miss + 1})

HeadSees(s, commitment) ==
  /\ config.land[s] \in head.floor..(IF commitment = "finalized" THEN head.tip ELSE head.proc)
  /\ config.land[s] # head.miss

latest_slot_at_least(commitment) == IF commitment = "finalized" THEN head.tip ELSE head.proc

trusted_head_finalized_tip ==
  IF head.live /\ head.fresh /\ head.tip > ChainFloor THEN head.tip ELSE None

NoSpan == [floor |-> 1, tip |-> 0]

DiskSpan == disk.floor..disk.tip

\* A block reaches the head stream.
HeadBlock ==
  /\ config.head /\ head.live /\ head.proc < config.last
  /\ \/ head' = [head EXCEPT !.proc = @ + 1]
     \/ head.miss = 0 /\ head.tip >= head.floor
          /\ head' = [head EXCEPT !.proc = @ + 1, !.miss = head.proc + 1]
  /\ UNCHANGED <<config, disk, primary, caches, jobs>>

\* A head that catches up is not trusted before it has reached ClickHouse.
HeadFinalizes ==
  /\ head.live /\ head.tip < head.proc
  /\ head' = [head EXCEPT !.tip = @ + 1, !.fresh = head.tip + 1 >= primary.new]
  /\ UNCHANGED <<config, disk, primary, caches, jobs>>

HeadEvicts ==
  /\ config.moving /\ head.floor < head.tip
  /\ head' = [head EXCEPT !.floor = @ + 1]
  /\ UNCHANGED <<config, disk, primary, caches, jobs>>

\* The tip stands still, or the stream ends and the cache starts over at the next block.
HeadStalls ==
  /\ config.moving /\ head.live
  /\ \/ head' = [head EXCEPT !.fresh = FALSE]
     \/ head' = [head EXCEPT !.live = FALSE, !.fresh = FALSE]
  /\ UNCHANGED <<config, disk, primary, caches, jobs>>

HeadReconnects ==
  /\ config.head /\ ~head.live
  /\ LET first == Max({head.proc, primary.new}) + 1
     IN  head' = [floor |-> first, tip |-> first - 1, proc |-> first - 1, miss |-> 0,
                  live |-> TRUE, fresh |-> FALSE]
  /\ UNCHANGED <<config, disk, primary, caches, jobs>>

\* ClickHouse trails a head stream whose tip moves.
PrimaryGains ==
  /\ primary.new < (IF head.live /\ head.fresh THEN head.tip ELSE config.last)
  /\ primary' = [primary EXCEPT !.new = @ + 1]
  /\ UNCHANGED <<config, head, disk, caches, jobs>>

ReplicaCatchesUp ==
  /\ primary.old < primary.new
  /\ primary' = [primary EXCEPT !.old = @ + 1]
  /\ UNCHANGED <<config, head, disk, caches, jobs>>

\* Slots are filled once every replica has them, evicted from below, dropped on a schema change.
DiskMoves ==
  /\ config.disk
  /\ \/ disk.tip < primary.old /\ disk' = [disk EXCEPT !.tip = @ + 1]
     \/ config.moving /\ disk.floor <= disk.tip /\ disk' = [disk EXCEPT !.floor = @ + 1]
     \/ config.moving /\ disk.floor <= disk.tip /\ disk' = [floor |-> disk.tip + 1, tip |-> disk.tip]
  /\ UNCHANGED <<config, head, primary, caches, jobs>>

-----------------------------------------------------------------------------
(***************************************************************************)
(* Steps of a request.                                                     *)
(***************************************************************************)
Idle == [stage |-> "idle"]

Put(j, job) == jobs' = [jobs EXCEPT ![j] = job]

To(j, stage) == Put(j, [jobs[j] EXCEPT !.stage = stage])

\* An error reply.
Fails(j) == Put(j, [stage |-> "failed"])

Keep == UNCHANGED <<config, world>>

\* The head's latest slot, else a cached or a new answer of ClickHouse.
ResolveLatest(commitment, slot) ==
  IF config.head /\ latest_slot_at_least(commitment) > 0
  THEN slot = latest_slot_at_least(commitment) /\ UNCHANGED latest
  ELSE /\ slot \in {latest, primary.old, primary.new} /\ slot >= latest
       /\ latest' = slot

signature_status_context(j) ==
  /\ jobs[j].stage = "statusContext"
  /\ \/ \E slot \in 0..config.last :
          /\ ResolveLatest(jobs[j].q.commitment, slot)
          /\ IF slot < jobs[j].q.min THEN Fails(j) ELSE To(j, "tipBefore")
     \/ Fails(j) /\ UNCHANGED latest
  /\ UNCHANGED <<absent, slots, kept>> /\ Keep

validate_get_transaction_context(j) ==
  /\ jobs[j].stage = "txContext"
  /\ LET q == jobs[j].q
     IN  IF q.commitment = "processed" /\ ~config.head THEN Fails(j) /\ UNCHANGED latest
         ELSE IF q.min = 0 THEN To(j, "txHead") /\ UNCHANGED latest
         ELSE \/ \E slot \in 0..config.last :
                   /\ ResolveLatest(q.commitment, slot)
                   /\ IF slot < q.min THEN Fails(j) ELSE To(j, "txHead")
              \/ Fails(j) /\ UNCHANGED latest
  /\ UNCHANGED <<absent, slots, kept>> /\ Keep

-----------------------------------------------------------------------------
(***************************************************************************)
(* getSignatureStatuses.                                                   *)
(***************************************************************************)
handle_get_signature_statuses(j, q) ==
  /\ jobs[j] = Idle /\ q.kind = "statuses"
  /\ Put(j, [stage |-> "statusContext", q |-> q, owed |-> primary.old, tip |-> None,
             inHead |-> {}, inDisk |-> {}, gone |-> {}, span |-> NoSpan, asked |-> {}, rows |-> {}])
  /\ UNCHANGED caches /\ Keep

TipBefore(j) ==
  /\ jobs[j].stage = "tipBefore"
  /\ Put(j, [jobs[j] EXCEPT !.stage = "statusHead",
                            !.tip = IF config.history THEN trusted_head_finalized_tip ELSE None])
  /\ UNCHANGED caches /\ Keep

HeadStatuses(j) ==
  /\ jobs[j].stage = "statusHead"
  /\ Put(j, [jobs[j] EXCEPT !.stage = "statusDisk",
                            !.inHead = IF config.head THEN {s \in jobs[j].q.sigs : HeadSees(s, jobs[j].q.commitment)}
                                       ELSE {}])
  /\ UNCHANGED caches /\ Keep

\* What the head does not hold; absence is proved in the span of the read, and only by a read that
\* succeeds.
DiskStatuses(j) ==
  /\ jobs[j].stage = "statusDisk"
  /\ LET pending == jobs[j].q.sigs \ jobs[j].inHead
         found == {s \in pending : config.land[s] \in DiskSpan}
     IN  \/ To(j, "skip")
         \/ /\ config.disk /\ pending # {} /\ DiskSpan # {}
            /\ Put(j, [jobs[j] EXCEPT !.stage = "skip", !.inDisk = found, !.gone = pending \ found,
                                      !.span = [floor |-> disk.floor, tip |-> disk.tip]])
  /\ UNCHANGED caches /\ Keep

head_extends_disk(tip_before_lookup, disk_tip) ==
  /\ tip_before_lookup # None
  /\ disk_tip + 1 >= head.floor
  /\ trusted_head_finalized_tip # None
  /\ latest <= tip_before_lookup /\ tip_before_lookup <= head.tip
  /\ disk_tip + 1 > head.tip \/ disk_tip + 1 >= ChainFloor

\* Mutant: a recorded absence stands while it is young.
AbsentWhileYoung(s, disk_floor) == absent[s] # None

is_absent(s, disk_floor) == absent[s] # None /\ disk_floor <= absent[s] + 1

skip_known_absent(j, to_query) ==
  IF ~config.history \/ jobs[j].span = NoSpan THEN to_query
  ELSE IF ~head_extends_disk(jobs[j].tip, jobs[j].span.tip) THEN to_query
  ELSE {s \in to_query : ~(s \in jobs[j].gone /\ is_absent(s, jobs[j].span.floor))}

FirstRoute(tcp, http, distributed) ==
  IF ~config.direct THEN distributed ELSE IF config.tcp THEN tcp ELSE http

SkipKnownAbsent(j) ==
  /\ jobs[j].stage = "skip"
  /\ LET job == jobs[j]
         to_query == skip_known_absent(j, job.q.sigs \ (job.inHead \cup job.inDisk))
     IN  IF ~job.q.history \/ to_query = {} THEN To(j, "answer")
         ELSE Put(j, [job EXCEPT !.stage = FirstRoute("statusTcp", "statusHttp", "statusDistributed"),
                                  !.asked = to_query])
  /\ UNCHANGED caches /\ Keep

\* The rows of ClickHouse: each shard answers from one of its replicas.
StatusRows(asked) ==
  {found \in SUBSET asked : /\ \A s \in asked : Holds(s, primary.old) => s \in found
                            /\ \A s \in found : Holds(s, primary.new)}

Answered(j) ==
  \E rows \in StatusRows(jobs[j].asked) :
    Put(j, [jobs[j] EXCEPT !.stage = "remember", !.rows = rows])

\* One shard of several that fails takes the whole query to the next route.
StatusTcp(j) ==
  /\ jobs[j].stage = "statusTcp"
  /\ Answered(j) \/ To(j, "statusHttp") \/ Fails(j)
  /\ UNCHANGED caches /\ Keep

StatusHttp(j) ==
  /\ jobs[j].stage = "statusHttp"
  /\ Answered(j) \/ To(j, "statusDistributed")
  /\ UNCHANGED caches /\ Keep

\* Admission and execution share one deadline.
StatusDistributed(j) ==
  /\ jobs[j].stage = "statusDistributed"
  /\ Answered(j) \/ Fails(j)
  /\ UNCHANGED caches /\ Keep

remember_absent(j) ==
  LET job == jobs[j]
  IN  [s \in Sigs |-> IF config.history /\ job.span # NoSpan /\ s \in (job.asked \ job.rows) \cap job.gone
                      THEN job.span.tip ELSE absent[s]]

RememberAbsent(j) ==
  /\ jobs[j].stage = "remember"
  /\ absent' = remember_absent(j)
  /\ To(j, "answer")
  /\ UNCHANGED <<latest, slots, kept>> /\ Keep

\* A row of ClickHouse before the disk cache's before the head's.
StatusAnswer(j) ==
  /\ jobs[j].stage = "answer"
  /\ Put(j, [stage |-> "statuses", q |-> jobs[j].q, owed |-> jobs[j].owed,
             found |-> jobs[j].rows \cup jobs[j].inDisk \cup jobs[j].inHead])
  /\ UNCHANGED caches /\ Keep

\* Entries end with their time to live, or make room.
ForgetAbsent ==
  /\ \E s \in Sigs : absent[s] # None /\ absent' = [absent EXCEPT ![s] = None]
  /\ UNCHANGED <<latest, slots, kept, jobs>> /\ Keep

-----------------------------------------------------------------------------
(***************************************************************************)
(* getTransaction.                                                         *)
(***************************************************************************)
handle_get_transaction(j, q) ==
  /\ jobs[j] = Idle /\ q.kind = "tx"
  /\ Put(j, [stage |-> "txContext", q |-> q, owed |-> primary.old, pos |-> FALSE])
  /\ UNCHANGED caches /\ Keep

\* respond_with_hydrated_transaction, or null.
Found(j) == Put(j, [stage |-> "found", q |-> jobs[j].q])

Null(j) == Put(j, [stage |-> "null", q |-> jobs[j].q, owed |-> jobs[j].owed])

Pinned(q) == q.pinned # 0

FoundAt(j) == IF Pinned(jobs[j].q) /\ config.land[jobs[j].q.sig] # jobs[j].q.pinned THEN Null(j) ELSE Found(j)

TxHead(j) ==
  /\ jobs[j].stage = "txHead"
  /\ IF config.head /\ HeadSees(jobs[j].q.sig, jobs[j].q.commitment) THEN FoundAt(j) ELSE To(j, "txDisk")
  /\ UNCHANGED caches /\ Keep

\* Absent only for a covered pinned slot; a read that fails says nothing.
TxDisk(j) ==
  /\ jobs[j].stage = "txDisk"
  /\ \/ To(j, "kept")
     \/ /\ config.disk
        /\ \/ config.land[jobs[j].q.sig] \in DiskSpan /\ FoundAt(j)
           \/ /\ config.land[jobs[j].q.sig] \notin DiskSpan
              /\ Pinned(jobs[j].q) /\ jobs[j].q.pinned \in DiskSpan /\ Null(j)
  /\ UNCHANGED caches /\ Keep

Key(q) == <<q.sig, q.pinned>>

TxKept(j) ==
  /\ jobs[j].stage = "kept"
  /\ LET q == jobs[j].q
     IN  IF Key(q) \in kept THEN Found(j)
         ELSE To(j, IF Pinned(q) THEN "pinned" ELSE "slot")
  /\ UNCHANGED caches /\ Keep

\* The record is kept under the pinned slot it was asked with.
FoundInPrimary(j) == Found(j) /\ kept' = kept \cup {Key(jobs[j].q)}

\* One replica of the transactions: the row by its position, or by slot and signature.
Rows(s, exact) == {v \in {primary.old, primary.new} : Holds(s, v) /\ (exact => config.same)}

NoRows(s, exact) == {primary.old, primary.new} \ Rows(s, exact)

\* A query for the row, what follows if it finds none, and what follows if it fails.
Query(j, exact, none, fails) ==
  LET s == jobs[j].q.sig
  IN  \/ Rows(s, exact) # {} /\ FoundInPrimary(j)
      \/ NoRows(s, exact) # {} /\ (IF none = "null" THEN Null(j) ELSE To(j, none)) /\ UNCHANGED kept
      \/ (IF fails = "failed" THEN Fails(j) ELSE To(j, fails)) /\ UNCHANGED kept

get_transaction_by_signature_and_slot(j) ==
  /\ jobs[j].stage \in {"pinned", "pinnedRetry"}
  /\ LET local == jobs[j].stage = "pinned" /\ config.direct /\ ~config.tcp
     IN  IF config.land[jobs[j].q.sig] # jobs[j].q.pinned
         THEN (IF local THEN To(j, "pinnedRetry") ELSE Null(j)) /\ UNCHANGED kept
         ELSE Query(j, FALSE, IF local THEN "pinnedRetry" ELSE "null", IF local THEN "pinnedRetry" ELSE "failed")
  /\ UNCHANGED <<latest, absent, slots>> /\ Keep

\* SignatureSlotCache::get_or_start: a value, the lookup of another, or a lookup of one's own.
EmptySlot == [state |-> "empty"]

GetOrStart(j) ==
  /\ jobs[j].stage = "slot"
  /\ LET s == jobs[j].q.sig
         e == slots[s]
     IN  CASE e.state = "ready" /\ e.found -> To(j, "first") /\ UNCHANGED slots
           [] e.state = "ready" /\ ~e.found ->
                Put(j, [stage |-> "null", q |-> jobs[j].q, owed |-> Min({jobs[j].owed, e.asOf})]) /\ UNCHANGED slots
           [] e.state = "flight" -> FALSE
           [] e.state = "empty" ->
                /\ slots' = [slots EXCEPT ![s] = [state |-> "flight", leader |-> j]]
                /\ To(j, IF config.single /\ ~config.direct THEN "fused"
                         ELSE FirstRoute("slotTcp", "slotHttp", "slotDistributed"))
  /\ UNCHANGED <<latest, absent, kept>> /\ Keep

\* leader.finish: waiters find the value; leader.fail and a dropped leader leave nothing.
Publish(s, found) == slots' = [slots EXCEPT ![s] = [state |-> "ready", found |-> found, asOf |-> primary.old]]

Abandon(s) == slots' = [slots EXCEPT ![s] = EmptySlot]

SlotAnswer(j) ==
  \E v \in {primary.old, primary.new} :
    /\ Publish(jobs[j].q.sig, Holds(jobs[j].q.sig, v))
    /\ IF Holds(jobs[j].q.sig, v) THEN To(j, "first") ELSE Null(j)

try_signature_slot_by_signature_tcp(j) ==
  /\ jobs[j].stage = "slotTcp"
  /\ \/ SlotAnswer(j)
     \/ To(j, "slotHttp") /\ UNCHANGED slots
     \/ Fails(j) /\ Abandon(jobs[j].q.sig)
  /\ UNCHANGED <<latest, absent, kept>> /\ Keep

try_signature_slot_by_signature_http(j) ==
  /\ jobs[j].stage = "slotHttp"
  /\ SlotAnswer(j) \/ (To(j, "slotDistributed") /\ UNCHANGED slots)
  /\ UNCHANGED <<latest, absent, kept>> /\ Keep

get_signature_slot_by_signature_uncached(j) ==
  /\ jobs[j].stage = "slotDistributed"
  /\ SlotAnswer(j) \/ (Fails(j) /\ Abandon(jobs[j].q.sig))
  /\ UNCHANGED <<latest, absent, kept>> /\ Keep

\* Position and payload in one query; a payload at another index counts as a miss.
fetch_transaction_single_round_trip(j) ==
  /\ jobs[j].stage = "fused"
  /\ LET s == jobs[j].q.sig
     IN  \/ Rows(s, TRUE) # {} /\ FoundInPrimary(j) /\ Publish(s, TRUE)
         \/ NoRows(s, TRUE) # {} /\ Null(j) /\ Publish(s, FALSE) /\ UNCHANGED kept
         \/ Fails(j) /\ Abandon(s) /\ UNCHANGED kept
  /\ UNCHANGED <<latest, absent>> /\ Keep

fetch_first_transaction_position(j) ==
  /\ jobs[j].stage = "first"
  /\ LET local == config.direct /\ ~config.tcp
     IN  Query(j, TRUE, IF local THEN "retry" ELSE "legacy", IF local THEN "firstDistributed" ELSE "failed")
  /\ UNCHANGED <<latest, absent, slots>> /\ Keep

FirstDistributed(j) ==
  /\ jobs[j].stage = "firstDistributed"
  /\ Query(j, TRUE, "legacy", "failed")
  /\ UNCHANGED <<latest, absent, slots>> /\ Keep

\* Mutant: a local answer is taken for the distributed one.
RetryAnswersNull(j) ==
  /\ jobs[j].stage = "retry"
  /\ Query(j, TRUE, "null", "failed")
  /\ UNCHANGED <<latest, absent, slots>> /\ Keep

\* fetch_transaction_at_position: what the local table lacks is asked of the distributed one, what
\* is not at its index is asked for by signature.
Retry(j) ==
  /\ jobs[j].stage = "retry"
  /\ Query(j, TRUE, "legacy", "failed")
  /\ UNCHANGED <<latest, absent, slots>> /\ Keep

Legacy(j) ==
  /\ jobs[j].stage = "legacy"
  /\ Query(j, FALSE, "null", "failed")
  /\ UNCHANGED <<latest, absent, slots>> /\ Keep

\* The deadline of an operation passes, or its client leaves: a leader that is dropped leaves nothing.
TimeOut(j) ==
  /\ jobs[j].stage \in {"slot", "slotTcp", "slotHttp", "slotDistributed", "fused", "first", "retry", "legacy"}
  /\ Fails(j)
  /\ LET e == slots[jobs[j].q.sig]
     IN  IF e.state = "flight" /\ e.leader = j THEN Abandon(jobs[j].q.sig) ELSE UNCHANGED slots
  /\ UNCHANGED <<latest, absent, kept>> /\ Keep

ForgetSlot ==
  /\ \E s \in Sigs : slots[s].state = "ready" /\ slots' = [slots EXCEPT ![s] = EmptySlot]
  /\ UNCHANGED <<latest, absent, kept, jobs>> /\ Keep

ForgetTransaction ==
  /\ \E k \in kept : kept' = kept \ {k}
  /\ UNCHANGED <<latest, absent, slots, jobs>> /\ Keep

-----------------------------------------------------------------------------
Reply(j) ==
  /\ jobs[j].stage \in {"statuses", "found", "null", "failed"}
  /\ Put(j, Idle)
  /\ UNCHANGED caches /\ Keep

Init ==
  /\ config \in Scenario
  /\ head = IF config.head THEN config.start ELSE Dead
  /\ primary = [old |-> config.held, new |-> config.held]
  /\ disk = [floor |-> config.held, tip |-> config.held - 1]
  /\ latest = 0
  /\ absent = [s \in Sigs |-> None]
  /\ slots = [s \in Sigs |-> EmptySlot]
  /\ kept = {}
  /\ jobs = [j \in config.jobs |-> Idle]

StatusStep(j) ==
  \/ \E q \in config.requests : handle_get_signature_statuses(j, q)
  \/ signature_status_context(j) \/ TipBefore(j) \/ HeadStatuses(j) \/ DiskStatuses(j)
  \/ SkipKnownAbsent(j) \/ StatusTcp(j) \/ StatusHttp(j) \/ StatusDistributed(j)
  \/ RememberAbsent(j) \/ StatusAnswer(j)

TransactionStep(j) ==
  \/ \E q \in config.requests : handle_get_transaction(j, q)
  \/ validate_get_transaction_context(j) \/ TxHead(j) \/ TxDisk(j) \/ TxKept(j)
  \/ get_transaction_by_signature_and_slot(j) \/ GetOrStart(j)
  \/ try_signature_slot_by_signature_tcp(j) \/ try_signature_slot_by_signature_http(j)
  \/ get_signature_slot_by_signature_uncached(j) \/ fetch_transaction_single_round_trip(j)
  \/ fetch_first_transaction_position(j) \/ FirstDistributed(j) \/ Retry(j) \/ Legacy(j)
  \/ TimeOut(j)

WorldStep ==
  \/ HeadBlock \/ HeadFinalizes \/ HeadEvicts \/ HeadStalls \/ HeadReconnects
  \/ PrimaryGains \/ ReplicaCatchesUp \/ DiskMoves
  \/ ForgetAbsent \/ ForgetSlot \/ ForgetTransaction

Next == WorldStep \/ \E j \in config.jobs : StatusStep(j) \/ TransactionStep(j) \/ Reply(j)

Spec == Init /\ [][Next]_vars

-----------------------------------------------------------------------------
(***************************************************************************)
(* Properties.                                                             *)
(***************************************************************************)
\* A status that every replica of ClickHouse held when a request with searchTransactionHistory
\* began is in its answer, though the request asks ClickHouse only for what the caches do not
\* answer and leaves out what an earlier request found absent (handlers/signatures.rs
\* handle_get_signature_statuses, skip_known_absent).
StatusNotLost ==
  \A j \in config.jobs :
    jobs[j].stage = "statuses" /\ jobs[j].q.history =>
      \A s \in jobs[j].q.sigs : Holds(s, jobs[j].owed) => s \in jobs[j].found

\* getTransaction answers null only if some replica lacked the transaction when the request began,
\* or when the miss it found cached was answered; or if the request pins another slot; or if the
\* single query was asked for a transaction that is stored at another index (handlers/transactions.rs
\* handle_get_transaction, clickhouse/transactions.rs fetch_transaction_at_position).
TransactionNotLost ==
  \A j \in config.jobs :
    jobs[j].stage = "null" =>
      \/ ~Holds(jobs[j].q.sig, jobs[j].owed)
      \/ Pinned(jobs[j].q) /\ jobs[j].q.pinned # config.land[jobs[j].q.sig]
      \/ config.single /\ ~config.direct /\ ~config.same
=============================================================================
