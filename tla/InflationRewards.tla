-------------------------- MODULE InflationRewards --------------------------
(***************************************************************************)
(* getInflationReward (handlers/blocks.rs, clickhouse/blocks.rs) with the  *)
(* cache of epoch layouts (inflation_cache.rs) and the cache of answers    *)
(* that also joins equal requests (inflation_response_cache.rs).           *)
(*                                                                         *)
(* One epoch is paid out: votes in its boundary block, stakes in the       *)
(* boundary block too or, when the epoch is partitioned, in the N blocks   *)
(* after it.  A lookup is a chain of queries, one action each; replicas    *)
(* lack any of the youngest Lag slots, independently for every query.  A   *)
(* reward is the pair of its address and the slot that paid it.            *)
(***************************************************************************)
EXTENDS Integers, Sequences, FiniteSets, FiniteSetsExt, TLC

CONSTANTS
  SlotAt,       \* <<slot of the boundary block, of the block after it, ...>>
  N,            \* the partitions of a partitioned epoch
  Vote, Stake,  \* the addresses that are paid
  Other,        \* addresses that are not
  part,         \* [Stake \cup Other \cup Vote -> 0..N-1], the partition of an address
  Lag,          \* how many of the youngest slots a replica may lack
  Drift,        \* how many slots ClickHouse gains within the time a lookup has
  SettleSlots,  \* GET_INFLATION_REWARD_RESPONSE_CACHE_SETTLE_SLOTS
  Epoch,        \* the ways the epoch is stored, see epoch
  Ask,          \* the sets of addresses requested
  Request,      \* 1..n, in the order in which they come
  Permits,      \* GET_INFLATION_REWARD_MAX_CONCURRENCY
  EpochCaching, \* whether the cache of epochs is on
  MaxFaults     \* bound on failed queries, dropped clients, repairs and evictions

Address == Vote \cup Stake \cup Other
Boundary == SlotAt[1]
Last == SlotAt[Len(SlotAt)]

InflationRewardsAssumption ==
  /\ \A i \in 1..(Len(SlotAt) - 1) : SlotAt[i] \in Nat \ {0} /\ SlotAt[i] < SlotAt[i + 1]
  /\ N \in Nat \ {0} /\ N + 2 <= Len(SlotAt)
  /\ part \in [Address -> 0..(N - 1)]
  /\ \A p \in 0..(N - 1) : \E a \in Stake : part[a] = p    \* no partition is empty
  /\ {Lag, Drift, SettleSlots} \subseteq Nat /\ Lag + Drift <= SettleSlots

VARIABLES
  epoch,        \* parted: stakes are paid in partitions; declared: the boundary row has their
                \* number; hash: and its parent's hash; height: and its height
  tip,          \* the newest slot of ClickHouse
  epochCache,   \* the layout of the epoch or NoEntry
  responses,    \* answers: [key, records]
  request,      \* [Request -> a handler]
  faults

vars == <<epoch, tip, epochCache, responses, request, faults>>

NoEntry == [bound |-> <<>>, map |-> <<>>]

\* What is true: the slot that pays an address, 0 for none.
Pay(a) == IF a \in Vote THEN Boundary
          ELSE IF a \notin Stake THEN 0
          ELSE IF epoch.parted THEN SlotAt[part[a] + 2] ELSE Boundary
Truth(as) == {<<a, Pay(a)>> : a \in {b \in as : Pay(b) # 0}}

-----------------------------------------------------------------------------
(* The queries, on a replica that has the blocks of view.                   *)

Views == {{s \in 1..tip : s <= tip - Lag \/ s \in young} : young \in SUBSET ((tip - Lag + 1)..tip)}

Heights(view) == {h \in 1..Len(SlotAt) : SlotAt[h] \in view}

\* Agave hashes an address to a partition; another number of partitions moves it.
inflation_reward_partition(a, n) == IF n = N THEN part[a] ELSE part[a] % n

VoteRows(view, as) == {<<a, Boundary>> : a \in {b \in as \cap Vote : Boundary \in view}}
StakeRows(view, as, slots) == {<<a, Pay(a)>> : a \in {b \in as \cap Stake : Pay(b) \in view \cap slots}}

PaysStake(h) == \E a \in Stake : Pay(a) = SlotAt[h]

\* The heights the addresses' partitions are paid at: the boundary's is 1.
plan_inflation_reward_partitions(as, n) == [a \in as |-> inflation_reward_partition(a, n) + 2]

inflation_rewards_period_is_active(height, n) == height < n + 2

\* The run of blocks with stake rewards after the boundary: its length, 0 when the epoch
\* is shown not to be partitioned, -1 when the rows leave it open.
derive_inflation_partition_slots(view) ==
  LET rows == Heights(view) \ {1}
      paying == {h \in rows : PaysStake(h)}
      end == Min({h \in 2..(Len(SlotAt) + 1) : h \notin paying})
  IN  IF paying = {} THEN IF 2 \in rows THEN 0 ELSE -1
      ELSE IF 2 \notin paying \/ end \notin rows \/ \E h \in paying : h > end THEN -1
      ELSE end - 2

\* Every sampled address belongs to the partition of the block that paid it, and every
\* block of the run gave a sample.
validate_inflation_partition_samples(view, n) ==
  /\ \A h \in 2..(n + 1) : SlotAt[h] \in view
  /\ \A h \in 2..(n + 1) : \A a \in Stake :
       Pay(a) = SlotAt[h] => inflation_reward_partition(a, n) = h - 2

\* The slots of all partitions, in order, or nothing.
complete_partition_slots(rows, n) ==
  IF 2..(n + 1) \subseteq rows THEN [i \in 1..n |-> SlotAt[i + 1]] ELSE <<>>

-----------------------------------------------------------------------------
(* The cache of epochs.                                                     *)

\* An entry that is there stays.
insert_boundary(bound) ==
  epochCache' = IF EpochCaching /\ epochCache = NoEntry THEN [bound |-> bound, map |-> <<>>] ELSE epochCache

insert_complete(bound, map) ==
  epochCache' = IF EpochCaching THEN [bound |-> bound, map |-> map] ELSE epochCache

-----------------------------------------------------------------------------
(* One lookup.                                                              *)

At(r, pc) == request[r].pc = pc
To(r, more) == request' = [request EXCEPT ![r] = more @@ @]
Idle == [pc |-> "idle"]
Rest == UNCHANGED <<epoch, tip, responses, faults>>

\* A lookup ends: with records and the last slot it read, with another outcome, or failed.
Complete(r, records, settle) ==
  To(r, [pc |-> "looked", outcome |-> "complete", records |-> records, settle |-> settle])
Unavailable(r, what) == To(r, [pc |-> "looked", outcome |-> what, records |-> {}])

StartLookup(r, role) ==
  To(r, [pc |-> IF request[r].cached = NoEntry THEN "boundary" ELSE "route", role |-> role,
         bound |-> request[r].cached.bound, tipLook |-> tip])

\* Metadata that cannot route partitions is not kept, so that repairs are seen.
KeepBoundary(r, bound) ==
  /\ IF bound.n = 0 \/ (bound.height /\ bound.hash) THEN insert_boundary(bound) ELSE UNCHANGED epochCache
  /\ To(r, [pc |-> "route", bound |-> bound])

\* The first block of the epoch that the replica has must follow the last of the one before.
ReadBoundary(r) ==
  /\ At(r, "boundary")
  /\ \E view \in Views :
       LET bound == [n |-> IF epoch.declared THEN N ELSE 0, hash |-> epoch.hash, height |-> epoch.height] IN
       IF Heights(view) = {} THEN Unavailable(r, "boundaryUnavailable") /\ UNCHANGED epochCache
       ELSE IF Min(Heights(view)) # 1 THEN Unavailable(r, "failed") /\ UNCHANGED epochCache
       ELSE IF epoch.declared \/ ~epoch.height THEN KeepBoundary(r, bound)
       ELSE To(r, [pc |-> "deriveStake", bound |-> bound]) /\ UNCHANGED epochCache
  /\ Rest

\* derive_inflation_partition_count: stakes in the boundary block mean no partitions.
DeriveStake(r) ==
  /\ At(r, "deriveStake")
  /\ \E view \in Views :
       IF Boundary \notin view THEN Unavailable(r, "failed") /\ UNCHANGED epochCache
       ELSE IF PaysStake(1) THEN KeepBoundary(r, request[r].bound)
       ELSE To(r, [pc |-> "deriveLayout"]) /\ UNCHANGED epochCache
  /\ Rest

\* A zero parent hash is read from the parent, which is older than any lag.
DeriveLayout(r) ==
  /\ At(r, "deriveLayout")
  /\ \E view \in Views :
       LET n == derive_inflation_partition_slots(view) IN
       IF n = -1 THEN Unavailable(r, "failed") /\ UNCHANGED epochCache
       ELSE IF n = 0 THEN KeepBoundary(r, request[r].bound)
       ELSE To(r, [pc |-> "deriveSample", bound |-> [request[r].bound EXCEPT !.n = n, !.hash = TRUE]])
            /\ UNCHANGED epochCache
  /\ Rest

DeriveSample(r) ==
  /\ At(r, "deriveSample")
  /\ \E view \in Views :
       IF validate_inflation_partition_samples(view, request[r].bound.n) THEN KeepBoundary(r, request[r].bound)
       ELSE Unavailable(r, "failed") /\ UNCHANGED epochCache
  /\ Rest

\* With the whole map at hand one query reads the boundary and the partitions.
Route(r) ==
  LET q == request[r] IN
  /\ At(r, "route")
  /\ To(r, [pc |-> IF q.bound.n > 0 /\ q.bound.height /\ Len(q.cached.map) = q.bound.n
                   THEN "folded" ELSE "boundaryRewards"])
  /\ UNCHANGED epochCache /\ Rest

\* resolve_folded_inflation_rewards: the rules of the chain of queries, on one reply.
FoldedRewards(r) ==
  LET q == request[r]
      slotOf == [a \in q.addrs |-> q.cached.map[inflation_reward_partition(a, q.bound.n) + 1]]
  IN
  /\ At(r, "folded")
  /\ \E view \in Views :
       LET votes == VoteRows(view, q.addrs)
           open == q.addrs \ {x[1] : x \in votes}
           slots == {slotOf[a] : a \in open}
           stakes == StakeRows(view, open, slots)
       IN  IF \E x \in stakes : x[2] # slotOf[x[1]] THEN Unavailable(r, "failed")
           ELSE Complete(r, votes \cup stakes, IF slots = {} THEN Boundary ELSE Max(slots))
  /\ UNCHANGED epochCache /\ Rest

BoundaryRewards(r) ==
  LET q == request[r] IN
  /\ At(r, "boundaryRewards")
  /\ \E view \in Views :
       LET rows == VoteRows(view, q.addrs) \cup IF q.bound.n = 0 THEN StakeRows(view, q.addrs, {Boundary}) ELSE {}
           open == q.addrs \ {x[1] : x \in rows}
       IN  IF q.bound.n = 0 THEN Complete(r, rows, Boundary) /\ UNCHANGED epochCache
           ELSE IF ~q.bound.height THEN Unavailable(r, "failed") /\ UNCHANGED epochCache
           ELSE IF open = {} THEN Complete(r, rows, Boundary) /\ UNCHANGED epochCache
           ELSE /\ To(r, [pc |-> "partitionSlots", records |-> rows, open |-> open,
                          bound |-> [q.bound EXCEPT !.hash = TRUE]])
                /\ IF q.bound.hash THEN UNCHANGED epochCache
                   ELSE insert_boundary([q.bound EXCEPT !.hash = TRUE])
  /\ Rest

\* The slots of the partitions; all of them are asked for when they can be kept.
PartitionSlots(r) ==
  LET q == request[r]
      wanted == {plan_inflation_reward_partitions(q.open, q.bound.n)[a] : a \in q.open}
  IN
  /\ At(r, "partitionSlots")
  /\ \E view \in Views :
       LET rows == Heights(view) \cap IF EpochCaching THEN 2..(q.bound.n + 1) ELSE wanted
           map == complete_partition_slots(rows, q.bound.n)
       IN  IF wanted \subseteq rows
           THEN /\ To(r, [pc |-> "partitionRewards"])
                /\ IF map # <<>> THEN insert_complete(q.bound, map) ELSE UNCHANGED epochCache
           ELSE To(r, [pc |-> "progress"]) /\ UNCHANGED epochCache
  /\ Rest

PayoutProgress(r) ==
  LET q == request[r] IN
  /\ At(r, "progress")
  /\ \E view \in Views :
       IF Heights(view) # {} /\ inflation_rewards_period_is_active(Max(Heights(view)), q.bound.n)
       THEN Unavailable(r, "rewardsPeriodActive") ELSE Unavailable(r, "failed")
  /\ UNCHANGED epochCache /\ Rest

\* Mutant of PartitionRewards: the rewards of the boundary are replaced.
PartitionRewardsOnly(r) ==
  LET q == request[r]
      height == plan_inflation_reward_partitions(q.open, q.bound.n)
      slots == {SlotAt[height[a]] : a \in q.open}
  IN
  /\ At(r, "partitionRewards")
  /\ \E view \in Views : Complete(r, StakeRows(view, q.open, slots), Max(slots))
  /\ UNCHANGED epochCache /\ Rest

PartitionRewards(r) ==
  LET q == request[r]
      height == plan_inflation_reward_partitions(q.open, q.bound.n)
      slots == {SlotAt[height[a]] : a \in q.open}
  IN
  /\ At(r, "partitionRewards")
  /\ \E view \in Views :
       LET rows == StakeRows(view, q.open, slots) IN
       IF \E x \in rows : x[2] # SlotAt[height[x[1]]] THEN Unavailable(r, "failed")
       ELSE Complete(r, q.records \cup rows, Max(slots))
  /\ UNCHANGED epochCache /\ Rest

Looking == {"boundary", "deriveStake", "deriveLayout", "deriveSample", "folded", "boundaryRewards",
            "partitionSlots", "progress", "partitionRewards"}

\* A query fails, or the lookup's time is over.
LookupFails(r) ==
  /\ request[r].pc \in Looking /\ faults < MaxFaults /\ faults' = faults + 1
  /\ Unavailable(r, "failed")
  /\ UNCHANGED <<epoch, tip, epochCache, responses>>

-----------------------------------------------------------------------------
(* The cache of answers and the handler.                                    *)

Busy(r) == request[r].pc \notin {"idle", "done"}
Leads(r, key) == Busy(r) /\ request[r].pc \notin {"begin", "join", "wait"} /\ request[r].role = "leader"
                 /\ request[r].key = key
Answer(r, outcome, records) ==
  [pc |-> "done", outcome |-> outcome, records |-> records, addrs |-> request[r].addrs, tipThen |-> request[r].tipThen]

\* The handler up to the cache: a server at its limit refuses.
Receive(r) ==
  /\ At(r, "idle") /\ \A p \in Request : p < r => ~At(p, "idle")
  /\ \E as \in Ask :
       request' = [request EXCEPT ![r] =
         IF Cardinality({p \in Request : Busy(p)}) >= Permits
         THEN [pc |-> "done", addrs |-> as, outcome |-> "unhealthy", records |-> {}, tipThen |-> tip]
         ELSE [pc |-> "begin", addrs |-> as, tipThen |-> tip]]
  /\ UNCHANGED <<epoch, tip, epochCache, responses, faults>>

\* Answers are found under the boundary that the cache of epochs has now.
BeginCached(r) ==
  LET key == [bound |-> epochCache.bound, addrs |-> request[r].addrs]
      held == {e \in responses : e.key = key}
  IN
  /\ At(r, "begin")
  /\ IF key.bound # <<>> /\ held # {}
     THEN \E e \in held : request' = [request EXCEPT ![r] = Answer(r, "complete", e.records)]
     ELSE To(r, [pc |-> "join", cached |-> epochCache, key |-> key, role |-> "none"])
  /\ UNCHANGED epochCache /\ Rest

\* try_get_with: the value if it came in the meantime, else one leads and the others wait.
Join(r) ==
  LET q == request[r]
      held == {e \in responses : e.key = q.key}
  IN
  /\ At(r, "join")
  /\ IF held # {} THEN \E e \in held : request' = [request EXCEPT ![r] = Answer(r, "complete", e.records)]
     ELSE IF \E p \in Request : Leads(p, q.key) THEN To(r, [pc |-> "wait"])
     ELSE StartLookup(r, "leader")
  /\ UNCHANGED epochCache /\ Rest

\* Mutant of Settled: the tip has only to reach the last block that was read.
SettledAtTip(q) == q.outcome = "complete" /\ (Cardinality(q.records) >= Cardinality(q.addrs) \/ tip >= q.settle)

\* admit: a null counts once the tip is far enough above the last slot that was read.
Settled(q) ==
  /\ q.outcome = "complete"
  /\ Cardinality(q.records) >= Cardinality(q.addrs) \/ tip >= q.settle + SettleSlots

\* The leader's outcome goes to everyone who waits; a failure only makes them try alone.
\* tip_reached may not learn the tip in time, then nothing is stored.
Publish(r) ==
  LET q == request[r]
      waiting == {p \in Request : At(p, "wait") /\ request[p].key = q.key}
  IN
  /\ At(r, "looked") /\ q.role = "leader"
  /\ \E learned \in BOOLEAN :
       LET admitted == Settled(q) /\ (learned \/ Cardinality(q.records) >= Cardinality(q.addrs)) IN
       /\ request' = [p \in Request |->
            IF p = r THEN IF admitted /\ q.key.bound = <<>> THEN [pc |-> "storeCold"] @@ q
                          ELSE Answer(r, q.outcome, q.records)
            ELSE IF p \notin waiting THEN request[p]
            ELSE IF q.outcome = "failed" THEN [pc |-> "retry"] @@ request[p]
            ELSE Answer(p, q.outcome, q.records)]
       /\ responses' = responses \cup IF admitted /\ q.key.bound = q.bound
                                      THEN {[key |-> q.key, records |-> q.records]} ELSE {}
  /\ UNCHANGED <<epoch, tip, epochCache, faults>>

\* store_cold: only under the boundary that the cache of epochs serves.
StoreCold(r) ==
  LET q == request[r] IN
  /\ At(r, "storeCold")
  /\ responses' = responses \cup IF epochCache.bound = q.bound
                                 THEN {[key |-> [q.key EXCEPT !.bound = q.bound], records |-> q.records]} ELSE {}
  /\ request' = [request EXCEPT ![r] = Answer(r, q.outcome, q.records)]
  /\ UNCHANGED <<epoch, tip, epochCache, faults>>

\* Once more, alone and unstored, with what is left of the request's own time.
Retry(r) ==
  /\ At(r, "retry")
  /\ \/ StartLookup(r, "alone")
     \/ request' = [request EXCEPT ![r] = Answer(r, "failed", {})]
  /\ UNCHANGED epochCache /\ Rest

AnswerAlone(r) ==
  /\ At(r, "looked") /\ request[r].role = "alone"
  /\ request' = [request EXCEPT ![r] = Answer(r, request[r].outcome, request[r].records)]
  /\ UNCHANGED epochCache /\ Rest

\* The client leaves; who waited for its lookup asks again.
Abandon(r) ==
  /\ Busy(r) /\ faults < MaxFaults /\ faults' = faults + 1
  /\ request' = [p \in Request |->
       IF p = r THEN Idle
       ELSE IF At(p, "wait") /\ Leads(r, request[p].key) THEN [pc |-> "join"] @@ request[p] ELSE request[p]]
  /\ UNCHANGED <<epoch, tip, epochCache, responses>>

-----------------------------------------------------------------------------
(* The world.                                                               *)

\* A lookup and the reading of the tip after it share one deadline.
Advance ==
  /\ tip < Last /\ tip' = tip + 1
  /\ \A r \in Request : request[r].pc \in Looking \cup {"route", "looked"} => tip < request[r].tipLook + Drift
  /\ UNCHANGED <<epoch, epochCache, responses, request, faults>>

\* A row is written again with what it lacked.
Repair ==
  /\ faults < MaxFaults /\ faults' = faults + 1
  /\ \/ epoch.parted /\ ~epoch.declared /\ epoch' = [epoch EXCEPT !.declared = TRUE]
     \/ ~epoch.hash /\ epoch' = [epoch EXCEPT !.hash = TRUE]
     \/ ~epoch.height /\ epoch' = [epoch EXCEPT !.height = TRUE]
  /\ UNCHANGED <<tip, epochCache, responses, request>>

Expire ==
  /\ faults < MaxFaults /\ faults' = faults + 1
  /\ epochCache # NoEntry /\ epochCache' = NoEntry
  /\ UNCHANGED <<epoch, tip, responses, request>>

Init ==
  /\ epoch \in Epoch /\ tip = Boundary - 1
  /\ epochCache = NoEntry /\ responses = {} /\ faults = 0
  /\ request = [r \in Request |-> Idle]

Lookup(r) ==
  \/ ReadBoundary(r) \/ DeriveStake(r) \/ DeriveLayout(r) \/ DeriveSample(r) \/ Route(r) \/ FoldedRewards(r)
  \/ BoundaryRewards(r) \/ PartitionSlots(r) \/ PayoutProgress(r) \/ PartitionRewards(r) \/ LookupFails(r)

Next ==
  \/ \E r \in Request : Receive(r) \/ BeginCached(r) \/ Join(r) \/ Lookup(r) \/ Publish(r) \/ StoreCold(r)
                        \/ Retry(r) \/ AnswerAlone(r) \/ Abandon(r)
  \/ Advance \/ Repair \/ Expire

Spec == Init /\ [][Next]_vars

-----------------------------------------------------------------------------
(* Properties.                                                              *)

\* What the caches keep is true for good: an answer holds every reward of its addresses,
\* a null included only when nothing was paid, and the layout of the epoch is the one that
\* was paid out, whatever the replicas lacked while it was read or derived.
KeptRewardsTrue ==
  /\ \A e \in responses : e.records = Truth(e.key.addrs)
  /\ epochCache # NoEntry => /\ epochCache.bound.n = IF epoch.parted THEN N ELSE 0
                             /\ epochCache.map \in {<<>>, [i \in 1..N |-> SlotAt[i + 1]]}

\* A reward that is served was paid, and one that was paid is left out only by a request
\* that came while some replica could still lack the block, also when the answer was
\* another request's.
ServedRewardsTrue ==
  \A r \in Request : (request[r].pc = "done" /\ request[r].outcome = "complete") =>
    LET q == request[r] IN
    /\ q.records \subseteq Truth(q.addrs)
    /\ \A x \in Truth(q.addrs) \ q.records : q.tipThen < x[2] + Lag + Drift
=============================================================================
