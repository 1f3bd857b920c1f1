-------------------------- MODULE HistoryScenarios --------------------------
(* What the writers of history work on.  Backfill: ranges, a slot list and    *)
(* bundles over a ledger of five slots, of which slot 2 was skipped and the    *)
(* block of slot 3 is listed but gone from the source.  Jetstreamer: ledgers   *)
(* of three slots with skipped slots, empty blocks and transactions of a       *)
(* skipped slot; ranges and settings that cover part of them.  RowCodec:       *)
(* blocks with one list absent, empty or filled at a time, each message        *)
(* version and the reward eras.                                                *)
EXTENDS Naturals, Sequences

Base == [source |-> "rpc", list |-> {}, start |-> 0, end |-> 4, latest |-> FALSE,
         skip_ingested |-> FALSE, each_block |-> FALSE, s3 |-> FALSE,
         tables |-> {"transactions", "blocks"}, bundles |-> <<>>]

Bundle(a, b, slots) ==
  [start |-> a, end |-> b, newer |-> FALSE,
   files |-> [t \in {"transactions", "blocks"} |-> slots]]

Two == <<Bundle(0, 1, {0, 1}), Bundle(2, 4, {3, 4})>>

MCConfigs ==
  { [Base EXCEPT !.skip_ingested = TRUE],
    [Base EXCEPT !.latest = TRUE],
    [Base EXCEPT !.list = {1, 2, 4}],
    [Base EXCEPT !.source = "bigtable", !.each_block = TRUE],
    [Base EXCEPT !.source = "bigtable", !.list = {0, 2, 3, 4}],
    [Base EXCEPT !.source = "solparq", !.bundles = Two],
    [Base EXCEPT !.source = "solparq", !.bundles = Two, !.s3 = TRUE, !.start = 1, !.end = 1],
    [Base EXCEPT !.source = "solparq", !.tables = {"transactions"},
                 !.bundles = <<Two[1], [Two[2] EXCEPT !.newer = TRUE]>>],
    [Base EXCEPT !.source = "solparq",
                 !.bundles = <<[Two[1] EXCEPT !.files = [transactions |-> {0, 1}]]>>] }

-----------------------------------------------------------------------------
(* Jetstreamer.                                                              *)

Held(t, e) == [skipped |-> FALSE, transactions |-> t, entries |-> e, commission |-> "none"]
Skip(t) == [skipped |-> TRUE, transactions |-> t, entries |-> 0, commission |-> "none"]

MCLedgers ==
  {<<Held(2, 1), Held(0, 1), Held(1, 0)>>, <<Held(1, 1), Skip(1), Held(0, 1)>>,
   <<Held(1, 1), Held(0, 0), Skip(1)>>}
  \cup {<<Held(1, 0), [Held(1, 1) EXCEPT !.commission = c], Held(0, 0)>> :
          c \in {"whole", "fraction"}}

MCRequests == {[start |-> 1, last |-> 3], [start |-> 3, last |-> 3]}

MCSettings ==
  LET Bound(g, p) == [genesis |-> g, preactivation |-> p, percent |-> TRUE, bps_from |-> 0, db |-> TRUE]
  IN {Bound(3, 0), Bound(0, 2), Bound(3, 2), [Bound(3, 0) EXCEPT !.db = FALSE],
      [Bound(3, 0) EXCEPT !.percent = FALSE], [Bound(3, 0) EXCEPT !.percent = FALSE, !.bps_from = 2]}

-----------------------------------------------------------------------------
(* RowCodec.                                                                 *)


Ix(p, d) == [program |-> p, data |-> d]

Reward == [key |-> "k", type |-> <<"staking">>, percent |-> <<5>>, bps |-> <<>>]

Meta == [err |-> <<>>, fee |-> 5, balances |-> <<1>>,
         inner |-> <<<<[index |-> 0, instructions |->
                        <<[program |-> "p", data |-> "d", height |-> <<2>>]>>]>>>>,
         logs |-> <<<<"log">>>>, pre |-> <<<<[account |-> 1, owner |-> "o"]>>>>,
         post |-> <<<<[account |-> 1, owner |-> ""]>>>>, rewards |-> <<<<Reward>>>>,
         loaded |-> <<>>, return |-> <<[program |-> "p", data |-> "r"]>>, units |-> <<9>>]

Legacy == [version |-> <<>>, config |-> <<>>, required |-> 1, keys |-> <<"a", "b">>,
           instructions |-> <<Ix("p", "d")>>, lookups |-> <<>>]

Tx(sig, message, meta) == [signatures |-> <<sig>>, message |-> message, meta |-> meta]

Metas ==
  { <<Meta>>, <<>>,
    <<[Meta EXCEPT !.err = <<"transaction">>]>>, <<[Meta EXCEPT !.err = <<"instruction">>]>>,
    <<[Meta EXCEPT !.err = <<"new">>]>>,
    <<[Meta EXCEPT !.inner = <<>>, !.fee = 0]>>, <<[Meta EXCEPT !.inner = <<<<>>>>]>>,
    <<[Meta EXCEPT !.logs = <<>>]>>, <<[Meta EXCEPT !.logs = <<<<>>>>]>>,
    <<[Meta EXCEPT !.pre = <<>>, !.post = <<>>]>>, <<[Meta EXCEPT !.pre = <<<<>>>>]>>,
    <<[Meta EXCEPT !.rewards = <<>>]>>, <<[Meta EXCEPT !.rewards = <<<<>>>>]>>,
    <<[Meta EXCEPT !.rewards = <<<<[Reward EXCEPT !.type = <<>>, !.percent = <<>>, !.bps = <<550>>]>>>>]>>,
    <<[Meta EXCEPT !.return = <<>>, !.units = <<>>]>> }

Messages ==
  { [Legacy EXCEPT !.instructions = <<Ix("vote", "d")>>],
    [Legacy EXCEPT !.instructions = <<Ix("vote", "d"), Ix("p", "d")>>],
    [Legacy EXCEPT !.instructions = <<Ix("memo", <<"a">>), Ix("p", "d"), Ix("memo", <<"b">>)>>],
    [Legacy EXCEPT !.version = <<0>>, !.instructions = <<Ix("vote", "d")>>],
    [Legacy EXCEPT !.version = <<0>>, !.lookups = <<[key |-> "t", indexes |-> <<1>>]>>],
    [Legacy EXCEPT !.version = <<1>>], [Legacy EXCEPT !.version = <<1>>, !.config = <<7>>] }

Block(txs) == [slot |-> 5, time |-> <<7>>, height |-> <<3>>, rewards |-> <<Reward>>,
               partitions |-> <<>>, txs |-> txs]
One == Block(<<Tx("s", Legacy, <<Meta>>)>>)

Newer == [Reward EXCEPT !.percent = <<>>, !.bps = <<600>>]

MCBlocks ==
  {Block(<<Tx("s", Legacy, m)>>) : m \in Metas}
  \cup {Block(<<Tx("s", m, <<Meta>>)>>) : m \in Messages}
  \cup {Block(<<Tx("s", [m EXCEPT !.lookups = <<[key |-> "t", indexes |-> <<1>>]>>],
                   <<[Meta EXCEPT !.loaded = <<"l">>]>>)>>) : m \in {[Legacy EXCEPT !.version = <<0>>]}}
  \cup {Block(<<Tx("u", Legacy, <<Meta>>), Tx("s", [Legacy EXCEPT !.keys = <<"c">>], <<[Meta EXCEPT !.err = <<"instruction">>]>>)>>)}
  \cup { [One EXCEPT !.txs = <<>>], [One EXCEPT !.time = <<>>, !.height = <<>>],
         [One EXCEPT !.slot = 0, !.height = <<0>>], [One EXCEPT !.rewards = <<>>],
         [One EXCEPT !.rewards = <<>>, !.partitions = <<4>>],
         [One EXCEPT !.rewards = <<[Reward EXCEPT !.percent = <<>>]>>],
         [One EXCEPT !.slot = 20, !.rewards = <<Newer>>],
         [One EXCEPT !.slot = 20, !.rewards = <<[Newer EXCEPT !.bps = <<555>>], [Newer EXCEPT !.type = <<>>]>>] }

Eras == {[percent |-> FALSE, bps_from |-> <<>>], [percent |-> TRUE, bps_from |-> <<>>],
         [percent |-> FALSE, bps_from |-> <<10>>], [percent |-> TRUE, bps_from |-> <<10>>]}
=============================================================================
