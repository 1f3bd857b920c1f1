---------------------------- MODULE MCBlockReads ----------------------------
(***************************************************************************)
(* Block and epoch reads side by side: a chain of three blocks with a      *)
(* skipped slot in which a bank was abandoned (BlockReads), and the        *)
(* rewards of an epoch in two partitions (InflationRewards).  A behaviour  *)
(* runs one of them; a variable both declare is the running one's, the     *)
(* other's rest.                                                           *)
(***************************************************************************)
EXTENDS BlockReads

MCBlocks == {1, 2, 4}
MCtxs == 1 :> 2 @@ 2 :> 1 @@ 4 :> 3

Tip(m) == {[method |-> m, level |-> l, min |-> n] : l \in Level, n \in {None, 2}}

MCAsk ==
  UNION {Tip(m) : m \in {"getSlot", "getBlockHeight", "getTransactionCount", "getLatestBlockhash"}}
  \cup [method : {"isBlockhashValid"}, level : Level, min : {None}, slot : {1, 3}]
  \cup {[method |-> m] : m \in {"getFirstAvailableBlock", "minimumLedgerSlot", "getHealth"}}
  \cup [method : {"getBlock"}, slot : {2}, level : {1, 2}, details : {"full"}, footer : BOOLEAN, legacy : {FALSE}]
  \cup [method : {"getBlock"}, slot : {2}, level : {2}, details : {"signatures", "accounts"}, footer : {FALSE}, legacy : {TRUE}]
  \cup [method : {"getBlock"}, slot : {3}, level : {0, 1}, details : {"none"}, footer : {TRUE}, legacy : {TRUE}]
  \cup [method : {"getBlockTime"}, slot : {2, 3}]
  \cup [method : {"getBlocks"}, slot : {1}, end : {None, 0, 4}, level : Level]
  \cup [method : {"getBlocksWithLimit"}, slot : {2}, end : {0, 3, 9}, level : {0, 2}]

Setup(h, d, s, c, direct, m, n) == [head |-> h, disk |-> d, share |-> s, clamp |-> c, methods |-> m, requests |-> n,
                            direct |-> direct, moves |-> IF n = 2 THEN 2 ELSE 3]

MCConfig ==
  {Setup(TRUE, TRUE, TRUE, TRUE, FALSE, {"getBlock"}, 2), Setup(TRUE, FALSE, FALSE, TRUE, TRUE, {"getBlock"}, 2)}
  \cup {Setup(h, TRUE, FALSE, c, ~c, {"getBlocks", "getBlocksWithLimit", "getBlockTime"}, 1) : h, c \in BOOLEAN}
  \cup {Setup(h, FALSE, FALSE, TRUE, h, {"getSlot", "getBlockHeight", "getTransactionCount", "getLatestBlockhash",
         "isBlockhashValid", "getFirstAvailableBlock", "minimumLedgerSlot", "getHealth"}, 1) : h \in BOOLEAN}

\* The cluster at <<processed, confirmed, finalized>>, the ingestor behind it; the head
\* cache follows, or still holds the abandoned bank after its stream stopped.
State(c, t, m, held, tip, fork, d) ==
  [cluster |-> [l \in Level |-> c[l + 1]], primary |-> [tx |-> t, meta |-> m], disk |-> d,
   head |-> [tip |-> [l \in Level |-> tip[l + 1]], held |-> held, fork |-> fork]]

MCWorld ==
  {State(<<4, 2, 2>>, 2, 1, {1, 2, 4}, <<4, 2, 2>>, FALSE, {1}),
   State(<<4, 4, 4>>, 3, 2, {2, 4}, <<4, 4, 2>>, FALSE, {}),
   State(<<3, 2, 1>>, 1, 1, {1, 2, 3}, <<3, 2, 1>>, TRUE, {}),
   State(<<4, 4, 4>>, 4, 3, {1, 2, 3}, <<3, 2, 1>>, TRUE, {2}),
   State(<<1, 0, 0>>, 0, 0, {}, <<0, 0, 0>>, FALSE, {})}
-----------------------------------------------------------------------------
VARIABLES
  running,                           \* the module that runs
  epoch, tip, epochCache, faults     \* InflationRewards, with responses and request

MCpart == "v" :> 0 @@ "s" :> 0 @@ "t" :> 1 @@ "x" :> 1
MCEpoch == [parted : {TRUE}, declared : BOOLEAN, hash : BOOLEAN, height : {TRUE}]
           \cup [parted : {TRUE}, declared : {TRUE}, hash : {TRUE}, height : {FALSE}]
           \cup [parted : {FALSE}, declared : {FALSE}, hash : {TRUE}, height : BOOLEAN]

Inflation == INSTANCE InflationRewards WITH
  SlotAt <- <<1, 2, 3, 5>>, N <- 2, Vote <- {"v"}, Stake <- {"s", "t"}, Other <- {"x"}, part <- MCpart,
  Lag <- 1, SettleSlots <- 2, Drift <- 1, Epoch <- MCEpoch, Ask <- {{"v", "t", "x"}, {"s"}},
  Permits <- 2, EpochCaching <- TRUE, MaxFaults <- 1

ASSUME Inflation!InflationRewardsAssumption

Rest(v) == v = "rest"

ReadsInit ==
  \/ running = "blocks" /\ Init /\ Rest(epoch) /\ Rest(tip) /\ Rest(epochCache) /\ Rest(faults)
  \/ /\ running = "inflation" /\ Inflation!Init
     /\ Rest(config) /\ Rest(cluster) /\ Rest(primary) /\ Rest(head) /\ Rest(disk) /\ Rest(index)
     /\ Rest(latest) /\ Rest(moves)

ReadsNext ==
  \/ running = "blocks" /\ Next /\ UNCHANGED <<running, epoch, tip, epochCache, faults>>
  \/ /\ running = "inflation" /\ Inflation!Next
     /\ UNCHANGED <<running, config, cluster, primary, head, disk, index, latest, moves>>

ReadsSpec == ReadsInit /\ [][ReadsNext]_<<running, vars, epoch, tip, epochCache, faults>>

\* BlockReads: what the response cache and a finished getBlock serve is the block
\* the cluster finalized, with its footer when one is asked for.
BlocksFinal == running = "blocks" => BlockAnswersFinal

\* BlockReads: "skipped" or "not available" is answered only of a slot that has no
\* block, or of one so new that a replica of the distributed table may lack it.
MissesJustified == running = "blocks" => MissesTrue

\* BlockReads: ranges list exactly the blocks in them and counts count each
\* transaction once, whichever tiers prove the parts and however far the
\* ingestor gets in between.
RangesAndCountsExact == running = "blocks" => (RangesExact /\ CountsExact)

\* BlockReads: a blockhash called valid is young enough at the answered context.
HashesRecent == running = "blocks" => ValidHashesRecent

\* InflationRewards: kept answers and layouts are true for good, a served reward
\* was paid, and one is left out only while a replica may lack its block.
RewardsTrue == running = "inflation" => (Inflation!KeptRewardsTrue /\ Inflation!ServedRewardsTrue)
=============================================================================
