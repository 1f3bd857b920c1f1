----------------------------- MODULE MCProgress -----------------------------
(***************************************************************************)
(* What must come to an end, side by side: blocks accepted by the gRPC     *)
(* ingestor (GrpcIngest), slots the Fumarole consumer was given            *)
(* (FumaroleIngest), builds of getBlock answers (BlockHydration), reads of *)
(* ClickHouse that their clients abandoned (ReadQuery), and shards whose   *)
(* replica went away (ShardTopology).  A behaviour runs one of them, the   *)
(* variables of the others rest.  Fairness of actions of different parts   *)
(* is stated together: as only one part takes steps, WF of a disjunction   *)
(* is WF of the running part's disjunct.                                   *)
(***************************************************************************)
EXTENDS MCStreams

VARIABLES
  part,                                        \* the module that runs
  free, build,                                 \* BlockHydration
  endpoint, cluster, topology, pc, abandoned,
  quiet, late, held, worker, flight, running, settled,  \* ReadQuery
  layout, client, groups, health, active, up, changes, sweep, read   \* ShardTopology

assemblerVars == <<blocks, exceeded, delivered, acked>>
hydrationVars == <<free, build>>
queryVars == <<endpoint, cluster, topology, pc, abandoned, quiet, late, held, worker,
               flight, running, settled>>
shardVars == <<layout, client, groups, health, active, up, changes, sweep, read>>
progressVars == <<part, vars, assemblerVars, hydrationVars, queryVars, shardVars>>

\* Blocks that fail at different stages in different chunks, in every order of two.
Txs == {<<>>, <<"ok">>, <<"ok", "ok", "ok", "ok", "ok">>,
        <<"ok", "Encode", "ok", "Hydrate", "ok">>,
        <<"Serialize", "ok", "Encode", "Encode", "Hydrate">>,
        <<"ok", "Hydrate", "Serialize", "Hydrate">>}

Hydration == INSTANCE BlockHydration WITH
  Build <- {1, 2}, Pool <- 3, Parallelism <- 3, MinChunk <- 1,
  Block <- [rewards : {TRUE}, txs : Txs] \cup [rewards : {FALSE}, txs : {<<"ok", "Hydrate">>}]

\* Two reads of the background endpoint, of the primary, or of the primary and a
\* shard, which the two verifiers look after.
Reads == {"r1", "r2"}
Reads2(e, f) == ("r1" :> e) @@ ("r2" :> f)
Query == INSTANCE ReadQuery WITH
  Read <- Reads, Endpoint <- {"background", "primary", "shard"}, Verifier <- {"main", "shards"},
  Mix <- {Reads2("background", "background"), Reads2("primary", "shard"), Reads2("primary", "primary")},
  VerifierOf <- [background |-> "main", primary |-> "main", shard |-> "shards"],
  Capacity <- [background |-> 1, primary |-> 2, shard |-> 1],
  Bounded <- {"primary", "shard"}, Releasing <- {}, PendingCap <- 1,
  Node <- {"na", "nb"}, Coordinator <- "na"

\* A shard with three replicas, and one read at a time.
ReadCases == INSTANCE ReadScenarios
Topology == INSTANCE ShardTopology WITH
  Layout <- ReadCases!Replicated, Table <- ReadCases!Tables, Read <- {"r1"}, MaxChanges <- 2,
  DEFAULT_BUCKET_MODULUS <- 4

ASSUME Hydration!BlockHydrationAssumption /\ Query!ReadQueryAssumption

Rest(v) == v = "rest"

AssemblerRests == Rest(blocks) /\ Rest(exceeded) /\ Rest(delivered) /\ Rest(acked)
HydrationRests == Rest(free) /\ Rest(build)
QueryRests ==
  /\ Rest(endpoint) /\ Rest(cluster) /\ Rest(topology) /\ Rest(pc) /\ Rest(abandoned) /\ Rest(quiet)
  /\ Rest(late) /\ Rest(held) /\ Rest(worker) /\ Rest(flight) /\ Rest(running) /\ Rest(settled)
ShardRests ==
  /\ Rest(layout) /\ Rest(client) /\ Rest(groups) /\ Rest(health) /\ Rest(active)
  /\ Rest(up) /\ Rest(changes) /\ Rest(sweep) /\ Rest(read)
JoinRests == Rest(join) /\ Rest(cursor) /\ Rest(unsent)
IngestRests ==
  /\ Rest(scenario) /\ Rest(proc) /\ JoinRests /\ AssemblerRests
  /\ Rest(rows) /\ Rest(ceiling) /\ Rest(stored) /\ Rest(flush)

ProgressInit ==
  \/ part = "grpc" /\ Init /\ AssemblerRests /\ HydrationRests /\ QueryRests /\ ShardRests
  \/ part = "fumarole" /\ Fumarole!Init /\ JoinRests /\ HydrationRests /\ QueryRests /\ ShardRests
  \/ part = "hydration" /\ Hydration!Init /\ IngestRests /\ QueryRests /\ ShardRests
  \/ part = "query" /\ Query!Init /\ IngestRests /\ HydrationRests /\ ShardRests
  \/ part = "shards" /\ Topology!Init /\ IngestRests /\ HydrationRests /\ QueryRests

\* A step of one part.
Grpc(A) == part = "grpc" /\ A /\ UNCHANGED <<part, assemblerVars, hydrationVars, queryVars, shardVars>>
OfFumarole(A) == part = "fumarole" /\ A /\ UNCHANGED <<part, join, cursor, unsent, hydrationVars, queryVars, shardVars>>
OfHydration(A) == part = "hydration" /\ A /\ UNCHANGED <<part, vars, assemblerVars, queryVars, shardVars>>
OfQuery(A) == part = "query" /\ A /\ UNCHANGED <<part, vars, assemblerVars, hydrationVars, shardVars>>
OfShards(A) == part = "shards" /\ A /\ UNCHANGED <<part, vars, assemblerVars, hydrationVars, queryVars>>

\* The consumer group has no last slot: one that ended makes way for a later one under
\* its number, whose row in the buffers is then that of either.  Slot 1 is watched.
LaterSlot(s) ==
  /\ Fumarole!Listening /\ "ended" \in delivered[s]
  /\ delivered' = [delivered EXCEPT ![s] = {}]
  /\ acked' = [acked EXCEPT ![s] = {}]
  /\ stored' = [transactions |-> stored.transactions \ {s}, entries |-> stored.entries \ {s},
                blocks |-> {r \in stored.blocks : r.slot # s}]
  /\ UNCHANGED <<scenario, proc, blocks, exceeded, rows, ceiling, flush>>

\* Nobody asks any more, or every slot has been delivered and no later one comes.
Quiet ==
  /\ part \in {"query", "shards"}
     \/ (part = "fumarole" /\ \A s \in 1..GroupSlots : "ended" \in delivered[s])
  /\ UNCHANGED progressVars

ProgressNext ==
  Grpc(Next) \/ OfFumarole(Fumarole!Next) \/ OfFumarole(\E s \in 2..GroupSlots : LaterSlot(s))
  \/ OfHydration(Hydration!Next) \/ OfQuery(Query!Next) \/ OfShards(Topology!Next) \/ Quiet

\* The guard of a read is dropped, its request arrives or is lost, its time runs out.
Settles(r) == Query!enqueue_abandoned(r) \/ Query!Arrive(r) \/ Query!Elapse(r)

\* The stream goes on to deliver the data and the ends of slots.
Delivers == \E s \in 1..GroupSlots, e \in Fumarole!Event \ {"footer"} : Fumarole!Deliver(s, e)

\* FairSpec of GrpcIngest and of FumaroleIngest (a flush is in FlushNext or EndFlush,
\* never in both), Fairness of BlockHydration and of ReadQuery; of ShardTopology, the
\* monitor's ticker and the timeout of every read.
ProgressSpec ==
  /\ ProgressInit /\ [][ProgressNext]_progressVars
  /\ WF_progressVars(\/ Grpc(FlushNext) \/ OfFumarole(Fumarole!FlushNext \/ Fumarole!EndFlush)
                     \/ OfHydration(Hydration!Work(1)) \/ OfQuery(Query!Work("main"))
                     \/ OfShards(Topology!spawn_replica_health_monitor))
  /\ WF_progressVars(\/ OfFumarole(Fumarole!FlushTick)
                     \/ OfHydration(Hydration!Work(2)) \/ OfQuery(Query!Work("shards"))
                     \/ OfShards(Topology!ReadEnds("r1")))
  /\ WF_progressVars(OfFumarole(Delivers) \/ OfQuery(Settles("r1")))
  /\ WF_progressVars(OfQuery(Settles("r2")))
  /\ SF_progressVars(Grpc(FlushTick(MaxSlot)) \/ OfHydration(Hydration!AcquireFirst(1)))
  /\ SF_progressVars(\/ Grpc(1 \in Produced /\ SendStatus(1, "created"))
                     \/ OfHydration(Hydration!AcquireFirst(2)))
  /\ SF_progressVars(Grpc(2 \in Produced /\ SendStatus(2, "created")))

-----------------------------------------------------------------------------
(* Properties. *)

\* GrpcIngest: a block the process has accepted is stored in the end, unless the
\* process stops first (AcceptedBlocksStored).
BlocksReachTheTables ==
  \A s \in 1..2 :
    (part = "grpc" /\ Accepted(s)) ~> (part # "grpc" \/ s \in StoredSlots \/ proc # "up")

\* FumaroleIngest: a slot that ended is acknowledged in the end, unless the process
\* stops or the stream keeps coming back to slots that are incomplete; no order of
\* blocks, empty slots and flushes leaves it behind once nothing is being assembled.
EveryEndAcknowledged ==
  (part = "fumarole" /\ proc = "up" /\ "ended" \in delivered[1])
    ~> (part # "fumarole" \/ proc # "up" \/ "ended" \in acked[1] \/ Fumarole!Pending(blocks) # {})

\* BlockHydration: however a block was split and whichever chunk failed, the
\* answer is the one of a single thread, and no permit is lost.  ReadQuery: ClickHouse
\* works on no more reads than were admitted, and abandoned reads hold no more than
\* their share of the capacity.
WorkWithinPermits ==
  /\ part = "hydration" => Hydration!ChunkedAsSequential /\ Hydration!PermitsConserved
  /\ part = "query" => Query!WorkWithinAdmission /\ Query!PendingShare

\* BlockHydration: every build that waits for permits ends.  (The two builds are
\* interchangeable, so one is watched.)
BuildsEnd ==
  (part = "hydration" /\ build[1].pc = "wait") ~> (part # "hydration" \/ build[1].pc \in {"done", "idle"})

\* ReadQuery: the permit of an abandoned read with a limit comes back.  (The two reads
\* of a mix are interchangeable, with their verifiers, so one is watched.)
PermitsReturn ==
  (part = "query" /\ pc["r1"] = "pending" /\ Query!BoundedRead("r1")) ~> (part # "query" \/ pc["r1"] # "pending")

\* ShardTopology: when replicas stop changing, every shard that has one comes to a
\* replica that answers, whichever late failures raced the monitor.
ReplicasSettle == <>[](part = "shards" => Topology!ActiveAnswers)
=============================================================================
