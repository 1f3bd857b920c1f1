----------------------------- MODULE MCKeyReads -----------------------------
(***************************************************************************)
(* The reads by key side by side: pages of an address over head cache,     *)
(* disk cache and primary (AddressReads), the queries the primary answers  *)
(* them with (PrimaryReads), statuses and transactions by signature        *)
(* (SignatureReads), the requests and batches that carry such calls        *)
(* (RequestDispatch), and the shards and replicas that the reads go to     *)
(* (ShardTopology).  A behaviour runs one of them; a variable that two of  *)
(* them declare is the running one's, the others' rest.                    *)
(***************************************************************************)
EXTENDS MCAddressReads

CONSTANTS
  SignatureCases,                             \* SignatureReads: its scenarios
  RequestIds, RequestBodies, RequestSources,  \* RequestDispatch
  BatchMax, BatchPermits

VARIABLES
  part,                                       \* the module that runs
  config, hot, job,                           \* PrimaryReads
  latest, absent, slots, kept, jobs,          \* SignatureReads, with config, head, disk, primary
  body, emit, task, ending, used, touched, responses, reply,      \* RequestDispatch
  layout, client, groups, health, active, up, changes, sweep, read   \* ShardTopology

keyVars == <<config, hot, job, latest, absent, slots, kept, jobs>>
requestVars == <<body, emit, task, ending, used, touched, responses, reply>>
shardVars == <<layout, client, groups, health, active, up, changes, sweep, read>>

ReadCases == INSTANCE ReadScenarios
Primary == INSTANCE PrimaryReads WITH Scenario <- ReadCases!PrimaryInstances, Shard <- {"s1", "s2"},
             SlotWidth <- 2, MinBatch <- 2, MaxBatch <- 3, Chunk <- 3

BySignature == INSTANCE SignatureReads WITH Scenario <- SignatureCases
SignatureInstances == ReadCases!SignatureInstances

\* Single calls and batches of up to four, with ids that repeat or are null.
Item(id, form) == [id |-> id, form |-> form]
Bodies ==
  {[kind |-> k, items |-> <<>>] : k \in {"unparsable", "scalar", "batch"}}
  \cup {[kind |-> "single", items |-> <<Item("a", f)>>] : f \in {"malformed", "filtered", "call"}}
  \cup {[kind |-> "batch", items |-> b] : b \in
          {<<Item("a", "call"), Item("b", "call"), Item("a", "call")>>,
           <<Item("a", "malformed"), Item("b", "call"), Item("c", "filtered")>>,
           <<Item("a", "call"), Item("b", "filtered"), Item("null", "call")>>,
           <<Item("a", "call"), Item("b", "call"), Item("c", "call"), Item("d", "call")>>}}
Dispatch == INSTANCE RequestDispatch WITH
  Id <- RequestIds, Body <- RequestBodies, Source <- RequestSources,
  MaxBatch <- BatchMax, BatchLimit <- BatchPermits

\* Two shards, one with three replicas, and one read at a time.
Topology == INSTANCE ShardTopology WITH
  Layout <- ReadCases!Layouts, Table <- ReadCases!Tables, Read <- {"r1"}, MaxChanges <- 3,
  DEFAULT_BUCKET_MODULUS <- 4

ASSUME PrimaryAssumption == Primary!PrimaryReadsAssumption
ASSUME LookupAssumption == BySignature!SignatureReadsAssumption
ASSUME DispatchAssumption == Dispatch!RequestDispatchAssumption

Rest(v) == v = "rest"
AddressRests ==
  /\ Rest(scenario) /\ Rest(rows) /\ Rest(mark) /\ Rest(req)
TiersRest == Rest(primary) /\ Rest(disk) /\ Rest(head)
PrimaryRests == Rest(hot) /\ Rest(job)
SignatureRests == Rest(latest) /\ Rest(absent) /\ Rest(slots) /\ Rest(kept) /\ Rest(jobs)
RequestRests ==
  /\ Rest(body) /\ Rest(emit) /\ Rest(task) /\ Rest(ending) /\ Rest(used) /\ Rest(touched)
  /\ Rest(responses) /\ Rest(reply)
ShardRests ==
  /\ Rest(layout) /\ Rest(client) /\ Rest(groups) /\ Rest(health) /\ Rest(active)
  /\ Rest(up) /\ Rest(changes) /\ Rest(sweep) /\ Rest(read)
KeysRest == AddressRests /\ TiersRest /\ Rest(config) /\ PrimaryRests /\ SignatureRests

KeyInit ==
  \/ /\ part = "address" /\ Init /\ RequestRests /\ ShardRests
     /\ Rest(config) /\ PrimaryRests /\ SignatureRests
  \/ /\ part = "primary" /\ Primary!Init /\ RequestRests /\ ShardRests
     /\ AddressRests /\ TiersRest /\ SignatureRests
  \/ /\ part = "signature" /\ BySignature!Init /\ RequestRests /\ ShardRests
     /\ AddressRests /\ PrimaryRests
  \/ part = "request" /\ Dispatch!Init /\ KeysRest /\ ShardRests
  \/ part = "shards" /\ Topology!Init /\ KeysRest /\ RequestRests

KeyNext ==
  \/ /\ part = "address" /\ Next
     /\ UNCHANGED <<part, keyVars, requestVars, shardVars>>
  \/ /\ part = "primary" /\ Primary!Next
     /\ UNCHANGED <<part, scenario, rows, primary, disk, head, mark, req, latest, absent, slots, kept, jobs, requestVars, shardVars>>
  \/ /\ part = "signature" /\ BySignature!Next
     /\ UNCHANGED <<part, scenario, rows, mark, req, hot, job, requestVars, shardVars>>
  \/ /\ part = "request" /\ Dispatch!Next
     /\ UNCHANGED <<part, vars, keyVars, shardVars>>
  \/ /\ part = "shards" /\ Topology!Next
     /\ UNCHANGED <<part, vars, keyVars, requestVars>>

KeySpec == KeyInit /\ [][KeyNext]_<<part, vars, keyVars, requestVars, shardVars>>

\* AddressReads: a page reported complete has every row it owes, and an address
\* marked empty has no row up to the mark.
AddressRowsServed == part = "address" => OwedRowsServed /\ WatermarkTrue

\* PrimaryReads: a page of the primary leaves out no signature of its range, however
\* many queries it takes; a page of transactions has none twice, while copies count as
\* rows of a page of signatures, or crowd out a signature of the hot fan-out; and every
\* transaction listed is found by its position.
PrimaryReadsExact ==
  part = "primary" => Primary!PrimaryPageExact /\ Primary!PositionsFound

\* SignatureReads: a status or a transaction that the tiers hold is never answered
\* as unknown or null.
LookupsNotLost ==
  part = "signature" => BySignature!StatusNotLost /\ BySignature!TransactionNotLost

\* RequestDispatch: every part of a batch is answered at its place with what its own
\* handler said, the status and the sources header tell the truth about the reply, and
\* no more handlers run than allowed.
RequestsAnswered ==
  part = "request" =>
    /\ Dispatch!BatchInOrder /\ Dispatch!StatusTrue
    /\ Dispatch!SourcesReported /\ Dispatch!HandlersBounded

\* ShardTopology: a read goes to the shard that holds its key, and local tables are read
\* under the modulus they were written with.
ReadsRouted == part = "shards" => Topology!RoutedToOwner /\ Topology!BucketsAgree
=============================================================================
