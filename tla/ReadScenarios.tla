--------------------------- MODULE ReadScenarios ----------------------------
(***************************************************************************)
(* Instances of PrimaryReads: six positions in three slots, two shards,    *)
(* rows stored twice, the same signature in both tables.  Instances of     *)
(* SignatureReads: statuses of two signatures while every tier moves, and  *)
(* transactions asked for by two requests at once.  Clusters and           *)
(* configurations for ShardTopology: two shards with three and one         *)
(* replicas, listed by a file that starts with the second shard or by      *)
(* system.clusters with a local replica that is not the first; tables      *)
(* whose moduli agree, disagree on one shard, or are missing on one; and   *)
(* the listings the server must refuse.                                    *)
(***************************************************************************)
EXTENDS Integers, Sequences, TLC

Row(pos, sig, copy) == [pos |-> pos, sig |-> sig, copy |-> copy, table |-> "gsfa", changed |-> TRUE]

Owner(pos, sig, changed) == [pos |-> pos, sig |-> sig, copy |-> 9, table |-> "owner", changed |-> changed]

Once == {Row(p, p, 1) : p \in 1..5}

Twice == Once \cup {Row(p, p, 2) : p \in 2..4} \cup {Row(p, p, 3) : p \in {3, 4}}

WithOwner == Twice \cup {Owner(2, 2, FALSE), Owner(4, 4, TRUE), Owner(6, 6, TRUE), Owner(1, 7, FALSE)}

Page(kind, limit, order, before, until, tokens) ==
  [kind |-> kind, limit |-> limit, order |-> order, before |-> before, until |-> until, tokens |-> tokens]

Gsfa == {Page("gsfa", n, "desc", before, until, "none") : n \in {1, 2, 4}, before \in {0, 4, 5}, until \in {0, 1, 4}}

Inline == {[kind |-> "inline", limit |-> 2, order |-> "desc", before |-> 0, until |-> 1, tokens |-> "none",
            cursor |-> c] : c \in {4, 8}}

Tfa == {Page("tfa", n, order, 0, until, tokens) :
          n \in {2, 4}, order \in {"asc", "desc"}, until \in {0, 1}, tokens \in {"none", "changed", "all"}}

Pair(pos, sig) == [pos |-> pos, sig |-> sig, exact |-> TRUE]

\* Signature 2 and 4 are listed at the neighbour of their position, 8 is nowhere.
Positions == {[kind |-> "positions", pairs |-> {Pair(1, 1), Pair(1, 2), Pair(3, 4), Pair(3, 3), Pair(5, 8)}]}

Placed == [p \in 1..6 |-> IF p \in {1, 4, 5} THEN "s1" ELSE "s2"]

Home == [s \in 1..3 |-> IF s = 2 THEN "s2" ELSE "s1"]

Config(rows, fresh, listed, direct, tcp, mode, queries) ==
  [rows |-> rows, old |-> {r \in rows : r.pos \notin fresh}, listed |-> listed, direct |-> direct, tcp |-> tcp,
   mode |-> mode, place |-> Placed, home |-> Home, owner |-> "s1", activity |-> TRUE, queries |-> queries]

Routes(rows, fresh, queries) ==
  {Config(rows, fresh, listed, direct, tcp, "disabled", queries) : listed, direct, tcp \in BOOLEAN}

PrimaryInstances ==
  UNION {Routes(Once, {5}, Gsfa \cup Inline), Routes(Twice, {5}, Gsfa \cup Inline \cup Tfa),
         Routes(WithOwner, {}, Tfa), Routes(WithOwner, {3}, Tfa),
         {[Config(Twice, {}, FALSE, TRUE, FALSE, "disabled", Tfa) EXCEPT !.activity = FALSE]},
         Routes(Once, {2}, Positions), Routes(Once, {4}, Positions),
         {Config(rows, {5}, listed, TRUE, TRUE, mode, Gsfa) :
            rows \in {Once, Twice}, listed \in BOOLEAN, mode \in {"empty", "incomplete"}}}

-----------------------------------------------------------------------------
(* SignatureReads.                                                           *)

Statuses(sigs, history, commitment, min) ==
  [kind |-> "statuses", sigs |-> sigs, history |-> history, commitment |-> commitment, min |-> min]

Tx(sig, pinned, commitment, min) ==
  [kind |-> "tx", sig |-> sig, pinned |-> pinned, commitment |-> commitment, min |-> min]

Connected == [floor |-> 1, tip |-> 2, proc |-> 2, miss |-> 0, live |-> TRUE, fresh |-> TRUE]

Base(last, land, same, direct, tcp, single, headOn, diskOn, moving, ids, requests) ==
  [last |-> last, land |-> land, same |-> same, direct |-> direct, tcp |-> tcp, single |-> single, head |-> headOn,
   disk |-> diskOn, moving |-> moving, history |-> TRUE, held |-> 1, start |-> Connected, jobs |-> ids,
   requests |-> requests]

One == {[a |-> n] : n \in {2, 3}}

Moving ==
  {Base(IF land.a = 2 THEN 4 ELSE 3, land, TRUE, FALSE, FALSE, FALSE, TRUE, TRUE, TRUE, {1},
        {Statuses({"a"}, TRUE, "processed", 0)}) : land \in One}

Pairs == {[a |-> n, b |-> k] : n \in {0, 3}, k \in {1, 2}}

Batches ==
  {Base(3, land, TRUE, direct, tcp, FALSE, headOn, TRUE, FALSE, {1},
        {Statuses({"a", "b"}, history, commitment, 2) :
           history \in BOOLEAN, commitment \in {"finalized", "confirmed"}}) :
     land \in Pairs, direct, tcp, headOn \in BOOLEAN}

Transactions ==
  {Base(2, [a |-> n], same, direct, tcp, single, FALSE, FALSE, FALSE, {1, 2}, {Tx("a", 0, "finalized", 0)}) :
     n \in {0, 2}, same, direct, tcp, single \in BOOLEAN}

PinnedTransactions ==
  {Base(3, [a |-> n], TRUE, direct, FALSE, FALSE, headOn, TRUE, TRUE, {1},
        {Tx("a", pinned, "finalized", 0) : pinned \in {0, 2, 3}} \cup {Tx("a", 0, "processed", 3)}) :
     n \in {0, 2}, direct, headOn \in BOOLEAN}

SignatureInstances == UNION {Moving, Batches, Transactions, PinnedTransactions}

-----------------------------------------------------------------------------
(* ShardTopology.                                                            *)

Tables == {"gsfa", "signatures", "owner", "hot"}

Node(shard, host, weight, num, local) ==
  [shard |-> shard, host |-> host, weight |-> weight, num |-> num, local |-> local]

Listed == <<Node(2, "d", 2, 1, FALSE), Node(1, "a", 1, 1, FALSE),
            Node(1, "b", 1, 2, TRUE), Node(1, "c", 1, 3, FALSE)>>

All(m) == [t \in Tables |-> m]

Case(source, nodes, one, two, distributed, configured, hot) ==
  [source |-> source, nodes |-> nodes, tables |-> (1 :> one) @@ (2 :> two),
   distributed |-> distributed, configured |-> configured, hot |-> hot]

Two == SubSeq(Listed, 1, 2)

\* One shard with three replicas, for what must come to rest.
Replicated == {Case("cluster", SubSeq(Listed, 2, 4), All(4), All(4), All(4), {}, FALSE)}

Layouts ==
  Replicated \cup {Case("file", Listed, All(4), All(4), All(4), {}, FALSE),
   Case("file", Two, All(4), All(4), All(4), {"gsfa", "signatures", "owner"}, TRUE),
   Case("file", Two, All(4), [All(4) EXCEPT !["gsfa"] = 8], All(4), {"gsfa", "signatures"}, FALSE),
   Case("file", Two, All(8), All(8), [All(4) EXCEPT !["hot"] = 8], {"signatures"}, TRUE),
   Case("cluster", Two, [All(4) EXCEPT !["signatures"] = 0], All(4), All(4), {"gsfa", "signatures", "owner"}, TRUE),
   Case("cluster", Two, [All(4) EXCEPT !["owner"] = 8], All(4), [All(4) EXCEPT !["owner"] = 0], {"owner"}, FALSE),
   Case("file", <<Node(1, "a", 0, 1, FALSE)>>, All(4), All(4), All(4), {}, FALSE),
   Case("file", <<Node(1, "a", 1, 1, FALSE), Node(1, "b", 2, 2, FALSE)>>, All(4), All(4), All(4), {}, FALSE),
   Case("file", <<Node(1, "a", 1, 1, FALSE), Node(1, "a", 1, 2, FALSE)>>, All(4), All(4), All(4), {}, FALSE),
   Case("cluster", <<Node(1, "", 1, 1, FALSE)>>, All(4), All(4), All(4), {}, FALSE)}
=============================================================================
