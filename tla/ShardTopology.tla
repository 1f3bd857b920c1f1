--------------------------- MODULE ShardTopology ---------------------------
(***************************************************************************)
(* How the RPC server finds and keeps a replica of every shard             *)
(* (clickhouse/client.rs, clickhouse/sharding.rs): create_tables checks    *)
(* the tables, builds the topology, probes the replicas and settles which  *)
(* local tables may be read under which bucket modulus; afterwards the     *)
(* health monitor and the reads that fail both move a shard to another     *)
(* replica, without a lock.  The replicas themselves are external.         *)
(***************************************************************************)
EXTENDS Integers, Sequences, FiniteSets, FiniteSetsExt, SequencesExt, Functions

CONSTANTS
  Layout,       \* configurations and clusters to start with, see LayoutType
  Table,        \* the tables with a bucket column
  Read,         \* shard-direct reads under way
  MaxChanges,   \* bound on crashes, recoveries and failures of a healthy replica
  DEFAULT_BUCKET_MODULUS

\* A listed node of a shard; num and local are columns of system.clusters, and a node
\* without a name has the host "".
NodeType == [shard : Nat, host : STRING, weight : Nat, num : Nat, local : BOOLEAN]

\* source: the topology file or system.clusters; nodes: in the order listed;
\* tables: the shards' bucket modulus of each local table, 0 without the table or its
\* columns; distributed: the same of the distributed tables, 0 when unreadable;
\* configured: the local tables given to the server; hot: hot addresses are configured.
LayoutType ==
  [source : {"file", "cluster"}, nodes : Seq(NodeType), tables : [Nat -> [Table -> Nat]],
   distributed : [Table -> Nat], configured : SUBSET Table, hot : BOOLEAN]

VARIABLES
  layout,       \* the configuration this server runs with
  client,       \* [at, shard, available, route, moduli, checked]: the start-up of ClickHouseClient
  groups,       \* ShardTopology: [shards, replicas, weights], in the order of the shard numbers
  health,       \* ShardTopology::replica_health
  active,       \* ShardTopology::active_replicas
  up,           \* the hosts that answer
  changes,      \* crashes, recoveries and spurious failures so far
  sweep,        \* the monitor: [shard, replica, next], next a replica it is about to store or 0
  read          \* [Read -> [at, shard, host, doomed, next]]

topologyVars == <<layout, client, groups, health, active, up, changes, sweep, read>>

-----------------------------------------------------------------------------
(* The topology as it is built from the nodes. *)

\* The nodes of a shard in failover order: as the file lists them, or the local one
\* first and the others by number.
NodesOf(s) ==
  LET listed == SelectSeq(layout.nodes, LAMBDA n : n.shard = s)
      before(a, b) == \/ a.local /\ ~b.local
                      \/ a.local = b.local /\ a.num < b.num
  IN  IF layout.source = "file" THEN listed ELSE SortSeq(listed, before)

\* Mutant: the shards in the order the file lists them first.
GroupedAsListed ==
  LET first(s) == Min({i \in DOMAIN layout.nodes : layout.nodes[i].shard = s})
      shards == SetToSortSeq({n.shard : n \in Range(layout.nodes)}, LAMBDA a, b : first(a) < first(b))
      nodes == [k \in DOMAIN shards |-> NodesOf(shards[k])]
  IN  [shards   |-> shards,
       replicas |-> [k \in DOMAIN shards |-> [i \in DOMAIN nodes[k] |-> nodes[k][i].host]],
       weights  |-> [k \in DOMAIN shards |-> nodes[k][1].weight]]

\* The shards in the order of their numbers, with their replicas and weights.
Grouped ==
  LET shards == SetToSortSeq({n.shard : n \in Range(layout.nodes)}, <)
      nodes == [k \in DOMAIN shards |-> NodesOf(shards[k])]
  IN  [shards   |-> shards,
       replicas |-> [k \in DOMAIN shards |-> [i \in DOMAIN nodes[k] |-> nodes[k][i].host]],
       weights  |-> [k \in DOMAIN shards |-> nodes[k][1].weight]]

\* A topology the server refuses to start with: no nodes, a node listed twice in the
\* file, a shard without weight or with two weights, a node without a name.
build_error ==
  \/ layout.nodes = <<>>
  \/ layout.source = "file" /\ ~IsInjective([i \in DOMAIN layout.nodes |->
       <<layout.nodes[i].shard, layout.nodes[i].host, layout.nodes[i].weight>>])
  \/ \E n \in Range(layout.nodes) :
       \/ n.weight = 0 \/ n.host = ""
       \/ \E m \in Range(layout.nodes) : m.shard = n.shard /\ m.weight # n.weight

Shards == DOMAIN groups.shards
Hosts(k) == Range(groups.replicas[k])
total_weight == MapThenSumSet(LAMBDA k : groups.weights[k], Shards)

\* select_weighted_index: walk the weights, subtracting each from the rest of the hash.
shard_index_for_hash(hash) ==
  LET walk[k \in Shards] ==
        IF k = 1 THEN hash % total_weight ELSE walk[k - 1] - groups.weights[k - 1]
      hits == {k \in Shards : walk[k] < groups.weights[k]}
  IN  IF hits = {} THEN Len(groups.weights) ELSE Min(hits)

\* shard_at: the shard's replica of the moment.
shard_at(k) == groups.replicas[k][active[k]]

-----------------------------------------------------------------------------
(* Start-up: create_tables. *)

Fail ==
  /\ client' = [client EXCEPT !.at = "failed"]
  /\ UNCHANGED <<layout, groups, health, active, up, changes, sweep, read>>

\* The tables are read once; only token_owner_activity may be missing.
check_tables ==
  /\ client.at = "tables"
  /\ \/ Fail
     \/ \E owner \in BOOLEAN :
          /\ client' = [client EXCEPT !.at = "topology", !.available = owner]
          /\ UNCHANGED <<layout, groups, health, active, up, changes, sweep, read>>

build_shard_topology ==
  /\ client.at = "topology"
  /\ \/ build_error /\ Fail
     \/ /\ ~build_error
        /\ client' = [client EXCEPT !.at = "probe", !.shard = 1]
        /\ groups' = Grouped
        /\ health' = [k \in DOMAIN groups'.shards |-> [i \in DOMAIN groups'.replicas[k] |-> FALSE]]
        /\ active' = [k \in DOMAIN groups'.shards |-> 1]
        /\ UNCHANGED <<layout, up, changes, sweep, read>>

\* initialize_replica_health for one shard: the first replica that answers is selected;
\* a probe of a replica that is up may still time out.
initialize_replica_health ==
  /\ client.at = "probe"
  /\ LET k == client.shard
         last == k = Len(groups.shards)
     IN  \E answered \in SUBSET {i \in DOMAIN health[k] : groups.replicas[k][i] \in up} :
           \/ answered = {} /\ Fail
           \/ /\ answered # {}
              /\ health' = [health EXCEPT ![k] = [i \in DOMAIN @ |-> i \in answered]]
              /\ active' = [active EXCEPT ![k] = Min(answered)]
              /\ client' = [client EXCEPT !.at = IF last THEN "gsfa" ELSE @,
                                          !.shard = IF last THEN @ ELSE @ + 1]
              /\ UNCHANGED <<layout, groups, up, changes, sweep, read>>

\* Every shard's active replica has the table and its columns.
ValidOnShards(t) == \A k \in Shards : layout.tables[groups.shards[k]][t] # 0

\* validate_table_schema_on_shards for one table after the other.  A failed check turns
\* the local route of a table off, or ends the start-up for the hot table; gsfa is also
\* checked against the definition of the distributed table.
ValidateStep(t, next, mandatory) ==
  /\ client.at = t
  /\ \/ mandatory /\ Fail
     \/ /\ \/ ValidOnShards(t) /\ client' = [client EXCEPT !.at = next, !.route = @ \cup {t}]
           \/ ~mandatory /\ client' = [client EXCEPT !.at = next]
        /\ UNCHANGED <<layout, groups, health, active, up, changes, sweep, read>>

Skip(t, next) ==
  /\ client.at = t /\ client' = [client EXCEPT !.at = next]
  /\ UNCHANGED <<layout, groups, health, active, up, changes, sweep, read>>

validate_gsfa ==
  \/ "gsfa" \in layout.configured /\ ValidateStep("gsfa", "signatures", FALSE)
  \/ "gsfa" \in layout.configured /\ client.at = "gsfa" /\ Fail      \* validate_gsfa_shard_layout
  \/ "gsfa" \notin layout.configured /\ Skip("gsfa", "signatures")

validate_signatures ==
  \/ "signatures" \in layout.configured /\ ValidateStep("signatures", "owner", FALSE)
  \/ "signatures" \notin layout.configured /\ Skip("signatures", "owner")

validate_owner ==
  \/ "owner" \in layout.configured /\ ValidateStep("owner", "hot", FALSE)
  \/ "owner" \notin layout.configured /\ Skip("owner", "hot")

validate_hot ==
  \/ layout.hot /\ ValidateStep("hot", "moduli", TRUE)
  \/ ~layout.hot /\ Skip("hot", "moduli")

\* The distributed tables whose modulus is read: it must be for gsfa and signatures and
\* for an available owner table, the hot one is left out when it cannot be.
Needed == {"gsfa", "signatures"} \cup (IF client.available THEN {"owner"} ELSE {})

\* Mutant: only the first shard is asked.
MatchesOnFirstShard(t) == layout.tables[groups.shards[1]][t] = layout.distributed[t]

\* detect_bucket_modulus_on_shards and ensure_matching_bucket_modulus: every shard
\* has the modulus of the distributed table.
MatchesOnShards(t) == \A k \in Shards : layout.tables[groups.shards[k]][t] = layout.distributed[t]

\* discover_bucket_moduli; every query may fail, which ends the start-up except for the
\* hot table's own.
discover_bucket_moduli ==
  /\ client.at = "moduli"
  /\ \/ Fail
     \/ \E hotRead \in BOOLEAN :
          LET known == Needed \cup (IF layout.hot /\ hotRead THEN {"hot"} ELSE {})
          IN  /\ \A t \in known : layout.distributed[t] # 0
              /\ \A t \in known \cap client.route : MatchesOnShards(t)
              /\ client' = [client EXCEPT !.at = "addresses", !.checked = known,
                              !.moduli = [t \in Table |-> IF t \in known THEN layout.distributed[t] ELSE @[t]]]
              /\ UNCHANGED <<layout, groups, health, active, up, changes, sweep, read>>

\* initialize_gsfa_hot_addresses: an address is hot when its rows are found under the
\* modulus; otherwise, and after an error, nothing reads the hot table.  Then the
\* monitor is started.
initialize_gsfa_hot_addresses ==
  /\ client.at = "addresses"
  /\ \E found \in BOOLEAN :
       /\ found => layout.hot /\ layout.distributed["hot"] = client.moduli["hot"]
       /\ client' = [client EXCEPT !.at = "serving", !.route = IF found THEN @ ELSE @ \ {"hot"}]
  /\ sweep' = [shard |-> 1, replica |-> 1, next |-> 0]
  /\ UNCHANGED <<layout, groups, health, active, up, changes, read>>

create_tables ==
  \/ check_tables \/ build_shard_topology \/ initialize_replica_health
  \/ validate_gsfa \/ validate_signatures \/ validate_owner \/ validate_hot
  \/ discover_bucket_moduli \/ initialize_gsfa_hot_addresses

-----------------------------------------------------------------------------
(* Failover. *)

Serving == client.at = "serving"

\* failover_endpoint up to its last store: the shard that has the host, marked unhealthy,
\* and the first other replica whose flag is set, 0 if there is none.
HolderOf(host) == CHOOSE k \in Shards : host \in Hosts(k)
MarkUnhealthy(host) ==
  LET k == HolderOf(host)
      i == Min({j \in DOMAIN health[k] : groups.replicas[k][j] = host})
  IN  health' = [health EXCEPT ![k][i] = FALSE]
NextReplica(host) ==
  LET k == HolderOf(host)
      other == {i \in DOMAIN health[k] : health[k][i] /\ groups.replicas[k][i] # host}
  IN  IF other = {} THEN 0 ELSE Min(other)

\* Mutant: a probe only ever lowers the flag.
ProbeWithoutRecovery ==
  /\ Serving /\ sweep.next = 0
  /\ sweep.replica <= Len(health[sweep.shard])
  /\ \E healthy \in BOOLEAN :
       /\ LET answers == groups.replicas[sweep.shard][sweep.replica] \in up
          IN  /\ healthy => answers
              /\ answers /\ ~healthy => changes < MaxChanges
              /\ changes' = IF answers /\ ~healthy THEN changes + 1 ELSE changes
       /\ health' = [health EXCEPT ![sweep.shard][sweep.replica] = @ /\ healthy]
  /\ sweep' = [sweep EXCEPT !.replica = @ + 1]
  /\ UNCHANGED <<layout, groups, client, active, up, read>>

\* The monitor probes the next replica of its sweep and swaps the flag; a replica that is
\* up may miss the timeout.
probe_replica ==
  /\ Serving /\ sweep.next = 0
  /\ sweep.replica <= Len(health[sweep.shard])
  /\ \E healthy \in BOOLEAN :
       /\ LET answers == groups.replicas[sweep.shard][sweep.replica] \in up
          IN  /\ healthy => answers
              /\ answers /\ ~healthy => changes < MaxChanges
              /\ changes' = IF answers /\ ~healthy THEN changes + 1 ELSE changes
       /\ health' = [health EXCEPT ![sweep.shard][sweep.replica] = healthy]
  /\ sweep' = [sweep EXCEPT !.replica = @ + 1]
  /\ UNCHANGED <<layout, groups, client, active, up, read>>

NextShard == [shard |-> (sweep.shard % Len(groups.shards)) + 1, replica |-> 1, next |-> 0]

\* After the last replica of a shard: fail over when the active one's flag is down.
check_active ==
  /\ Serving /\ sweep.next = 0
  /\ sweep.replica > Len(health[sweep.shard])
  /\ LET host == shard_at(sweep.shard)
     IN  \/ /\ health[sweep.shard][active[sweep.shard]]
            /\ sweep' = NextShard /\ UNCHANGED health
         \/ /\ ~health[sweep.shard][active[sweep.shard]]
            /\ MarkUnhealthy(host)
            /\ sweep' = IF NextReplica(host) = 0 THEN NextShard ELSE [sweep EXCEPT !.next = NextReplica(host)]
  /\ UNCHANGED <<layout, groups, client, active, up, changes, read>>

monitor_store ==
  /\ Serving /\ sweep.next # 0
  /\ active' = [active EXCEPT ![sweep.shard] = sweep.next]
  /\ sweep' = NextShard
  /\ UNCHANGED <<layout, groups, client, health, up, changes, read>>

spawn_replica_health_monitor == probe_replica \/ check_active \/ monitor_store

\* A shard-direct read: the target is taken once, from the hash of its key.
NoRead == [at |-> "idle", shard |-> 0, host |-> "", doomed |-> FALSE, next |-> 0]
shard_for_hash(r, hash) ==
  /\ Serving /\ read[r].at = "idle"
  /\ LET k == shard_index_for_hash(hash)
     IN  read' = [read EXCEPT ![r] = [NoRead EXCEPT !.at = "sent", !.shard = k, !.host = shard_at(k),
                                                    !.doomed = shard_at(k) \notin up]]
  /\ UNCHANGED <<layout, groups, client, health, active, up, changes, sweep>>

Answered(r) ==
  /\ read[r].at = "sent" /\ ~read[r].doomed
  /\ read' = [read EXCEPT ![r] = NoRead]
  /\ UNCHANGED <<layout, groups, client, health, active, up, changes, sweep>>

\* A read that failed in transit, however long ago its replica was down, fails its own
\* target over and goes to the distributed table.
failover_from(r) ==
  /\ read[r].at = "sent"
  /\ read[r].doomed \/ changes < MaxChanges
  /\ changes' = IF read[r].doomed THEN changes ELSE changes + 1
  /\ MarkUnhealthy(read[r].host)
  /\ LET next == NextReplica(read[r].host)
     IN  read' = [read EXCEPT ![r] = IF next = 0 THEN NoRead ELSE [@ EXCEPT !.at = "store", !.next = next]]
  /\ UNCHANGED <<layout, groups, client, active, up, sweep>>

failover_store(r) ==
  /\ read[r].at = "store"
  /\ active' = [active EXCEPT ![read[r].shard] = read[r].next]
  /\ read' = [read EXCEPT ![r] = NoRead]
  /\ UNCHANGED <<layout, groups, client, health, up, changes, sweep>>

ReadEnds(r) == Answered(r) \/ failover_from(r) \/ failover_store(r)

\* A replica crashes, with the reads it was working on, or comes back.
Turn(host) ==
  /\ client.at # "failed" /\ changes < MaxChanges /\ changes' = changes + 1
  /\ up' = IF host \in up THEN up \ {host} ELSE up \cup {host}
  /\ read' = [r \in Read |-> [read[r] EXCEPT !.doomed = @ \/ (read[r].at = "sent" /\ read[r].host = host)]]
  /\ UNCHANGED <<layout, groups, client, health, active, sweep>>

-----------------------------------------------------------------------------

Init ==
  /\ layout \in Layout
  /\ client = [at |-> "tables", shard |-> 0, available |-> FALSE, route |-> {}, checked |-> {},
               moduli |-> [t \in Table |-> DEFAULT_BUCKET_MODULUS]]
  /\ groups = [shards |-> <<>>, replicas |-> <<>>, weights |-> <<>>]
  /\ health = <<>> /\ active = <<>>
  /\ up = {n.host : n \in Range(layout.nodes)} \ {""}
  /\ changes = 0
  /\ sweep = [shard |-> 0, replica |-> 0, next |-> 0]
  /\ read = [r \in Read |-> NoRead]

Next ==
  \/ create_tables \/ spawn_replica_health_monitor
  \/ \E r \in Read : ReadEnds(r)
  \/ \E r \in Read : Serving /\ \E hash \in 0..(total_weight - 1) : shard_for_hash(r, hash)
  \/ \E host \in {n.host : n \in Range(layout.nodes)} \ {""} : Turn(host)

-----------------------------------------------------------------------------
(* Properties. *)

\* Which shard holds a key is ClickHouse's choice: the intervals of the weights, in the
\* order of the shards' numbers.  A read goes to a replica of the shard that holds its
\* key, in whatever order the nodes were listed and however often the shard failed over.
RoutedToOwner ==
  Serving =>
    /\ \A hash \in 0..total_weight :
         LET numbers == {n.shard : n \in Range(layout.nodes)}
             weight(s) == (CHOOSE n \in Range(layout.nodes) : n.shard = s).weight
             below(s) == MapThenSumSet(weight, {q \in numbers : q < s})
             owner == CHOOSE s \in numbers :
                        hash % total_weight \in below(s)..(below(s) + weight(s) - 1)
         IN  \E n \in Range(layout.nodes) :
               n.shard = owner /\ n.host = shard_at(shard_index_for_hash(hash))
    /\ \A r \in Read : read[r].at # "idle" => read[r].host \in Hosts(read[r].shard)

\* A local table is read only under the bucket modulus that every shard's rows were
\* written with, whichever checks failed during the start-up.
BucketsAgree ==
  Serving =>
    \A t \in client.route \cap client.checked :
      \A n \in Range(layout.nodes) : layout.tables[n.shard][t] = client.moduli[t]

\* When the replicas stop changing, every shard with a replica that is up ends at one
\* that is up and stays there.
ActiveAnswers == Serving => \A k \in Shards : Hosts(k) \cap up = {} \/ shard_at(k) \in up
=============================================================================
