----------------------------- MODULE ReadQuery -----------------------------
(***************************************************************************)
(* Reads of ClickHouse and the capacity they hold (clickhouse/             *)
(* read_query.rs, clickhouse/disconnect.rs).  A read takes a permit of its *)
(* endpoint.  When its response is closed early ClickHouse may still work  *)
(* on it, so the permit goes to the verifier of the endpoint, whose worker *)
(* asks every node of the cluster for the query until it was absent twice. *)
(* Reads with an execution limit on the server give their permit back when *)
(* the limit has passed, and hold at most a share of the capacity.         *)
(***************************************************************************)
EXTENDS Naturals, Sequences, FiniteSets, SequencesExt

CONSTANTS
  Read, Endpoint, Verifier,
  VerifierOf,   \* [Endpoint -> Verifier]
  Capacity,     \* [Endpoint -> Nat]
  Bounded,      \* endpoints whose reads carry max_execution_time: primary and shard
  Releasing,    \* endpoints that do not wait for the end of an abandoned read
  PendingCap,   \* bounded_pending_cap, shared by the verifiers
  Node, Coordinator,
  Mix           \* the assignments of reads to endpoints that are looked at

ReadQueryAssumption ==
  /\ Mix \subseteq [Read -> Endpoint] /\ VerifierOf \in [Endpoint -> Verifier]
  /\ Capacity \in [Endpoint -> Nat \ {0}] /\ PendingCap \in Nat \ {0}
  /\ Bounded \subseteq Endpoint /\ Releasing \subseteq Endpoint
  /\ Coordinator \in Node /\ "backoff" \notin Node

VARIABLES
  endpoint,     \* [Read -> Endpoint], fixed
  cluster,      \* the nodes the cluster's configuration names
  topology,     \* [Verifier -> nodes found at the start; {} before, Backoff after a failure]
  pc,           \* [Read -> where its guard is]
  abandoned,    \* reads given to a verifier, oldest first
  quiet,        \* [Read -> consecutive observations without the query]
  late,         \* abandoned reads past release_at
  held,         \* PendingBudget.held
  worker,       \* [Verifier -> the sweep under way]
  flight,       \* requests ClickHouse has not received
  running,      \* [Read -> nodes at work on it]
  settled       \* abandoned reads of which nothing more can start

client == <<pc, abandoned, quiet, late, held>>
server == <<flight, running, settled>>
vars == <<endpoint, cluster, topology, client, worker, server>>

Backoff == {"backoff"}
VerifierOfRead(r) == VerifierOf[endpoint[r]]
BoundedRead(r) == endpoint[r] \in Bounded
Pending(v) == {r \in Read : pc[r] = "pending" /\ VerifierOfRead(r) = v}
Admitted(e) == {r \in Read : endpoint[r] = e /\ pc[r] \in {"armed", "open", "enqueue", "pending"}}
AtWork(r) == r \in flight \/ running[r] # {}

-----------------------------------------------------------------------------
(* The verifier learns the cluster before the first read.                   *)

\* The rows name every node once, as many as the configuration, and the coordinator.
validate_topology(nodes) == nodes = cluster /\ Coordinator \in nodes

Discover(v) ==
  /\ topology[v] = {}
  /\ \E nodes \in SUBSET cluster : validate_topology(nodes) /\ topology' = [topology EXCEPT ![v] = nodes]
  /\ UNCHANGED <<endpoint, cluster, client, worker, server>>

InitializationFails(v) ==
  /\ topology[v] = {}
  /\ topology' = [topology EXCEPT ![v] = Backoff]
  /\ UNCHANGED <<endpoint, cluster, client, worker, server>>

BackoffEnds(v) ==
  /\ topology[v] = Backoff
  /\ topology' = [topology EXCEPT ![v] = {}]
  /\ UNCHANGED <<endpoint, cluster, client, worker, server>>

-----------------------------------------------------------------------------
(* A read.                                                                  *)

query_with_id(r) ==
  LET e == endpoint[r] IN
  /\ pc[r] = "idle" /\ topology[VerifierOf[e]] \notin {{}, Backoff}
  /\ Cardinality(Admitted(e)) < Capacity[e]
  /\ pc' = [pc EXCEPT ![r] = "armed"]
  /\ UNCHANGED <<endpoint, cluster, topology, abandoned, quiet, late, held, worker, server>>

fetch(r) ==
  /\ pc[r] = "armed"
  /\ pc' = [pc EXCEPT ![r] = "open"] /\ flight' = flight \cup {r}
  /\ UNCHANGED <<endpoint, cluster, topology, abandoned, quiet, late, held, worker, running, settled>>

\* Dropped, or refused by the client library, before submission.
DropUnsubmitted(r) ==
  /\ pc[r] = "armed"
  /\ pc' = [pc EXCEPT ![r] = "idle"]
  /\ UNCHANGED <<endpoint, cluster, topology, abandoned, quiet, late, held, worker, server>>

\* next returns Ok(None): disarm.
ReadToEnd(r) ==
  /\ pc[r] = "open" /\ ~AtWork(r)
  /\ pc' = [pc EXCEPT ![r] = "gone"]
  /\ UNCHANGED <<endpoint, cluster, topology, abandoned, quiet, late, held, worker, server>>

\* An error, the deadline, or the caller closes the response; only then the guard is
\* dropped, and takes its share of the budget.
Abandon(r) ==
  /\ pc[r] = "open"
  /\ IF endpoint[r] \in Releasing
     THEN pc' = [pc EXCEPT ![r] = "gone"] /\ UNCHANGED <<abandoned, held>>
     ELSE /\ pc' = [pc EXCEPT ![r] = "enqueue"]
          /\ abandoned' = Append(abandoned, r)
          /\ held' = IF BoundedRead(r) THEN held + 1 ELSE held
  /\ UNCHANGED <<endpoint, cluster, topology, quiet, late, worker, server>>

\* What release of a set of entries leaves, the state of the others being p and q.
Release(S, p, q) ==
  /\ pc' = [r \in Read |-> IF r \in S THEN "gone" ELSE p[r]]
  /\ quiet' = [r \in Read |-> IF r \in S THEN 0 ELSE q[r]]
  /\ abandoned' = SelectSeq(abandoned, LAMBDA r : r \notin S)
  /\ late' = late \ S
  /\ held' = held - Cardinality({r \in S : BoundedRead(r)})

\* Mutant of release_over_cap: the entry that exceeds the share is let in.
ReleaseAboveCap(entries) ==
  LET mine == {i \in DOMAIN abandoned : abandoned[i] \in entries /\ BoundedRead(abandoned[i])}
  IN  {abandoned[i] : i \in {i \in mine : PendingCap + 1 + Cardinality({j \in mine : j < i}) < held}}

\* The oldest bounded entries of this verifier that put the budget over its cap.
release_over_cap(entries) ==
  LET mine == {i \in DOMAIN abandoned : abandoned[i] \in entries /\ BoundedRead(abandoned[i])}
  IN  {abandoned[i] : i \in {i \in mine : PendingCap + Cardinality({j \in mine : j < i}) < held}}

enqueue_abandoned(r) ==
  /\ pc[r] = "enqueue"
  /\ Release(release_over_cap(Pending(VerifierOfRead(r)) \cup {r}), [pc EXCEPT ![r] = "pending"], quiet)
  /\ UNCHANGED <<endpoint, cluster, topology, worker, server>>

-----------------------------------------------------------------------------
(* The worker of a verifier.                                                *)

\* Mutant of release_expired: a limit that has passed does not replace an observation.
ReleaseObservedLate(v) == {r \in late \cap Pending(v) : quiet[r] > 0}

release_expired(v) == late \cap Pending(v)

Idle == [pc |-> "idle"]

Sweep(v) ==
  /\ worker[v] = Idle /\ Pending(v) # {}
  /\ Release(release_expired(v), pc, quiet)
  /\ worker' = [worker EXCEPT ![v] = [pc |-> "probe", ids |-> Pending(v), left |-> cluster, active |-> {}, nodes |-> cluster]]
  /\ UNCHANGED <<endpoint, cluster, topology, server>>

\* Every node answers at an instant of its own.
probe(v, n) ==
  /\ worker[v].pc = "probe" /\ n \in worker[v].left
  /\ worker' = [worker EXCEPT ![v].left = @ \ {n},
                              ![v].active = @ \cup {r \in worker[v].ids : n \in running[r]}]
  /\ UNCHANGED <<endpoint, cluster, topology, client, server>>

\* An answer counts when it covers the nodes found at the start and no other.
validate_observation(v) == worker[v].nodes = topology[v]

\* Mutant of apply_observation: one observation is enough.
ApplyOnce(v, ok) ==
  LET seen == worker[v].ids \cap Pending(v)
      count == [r \in Read |-> IF r \notin seen THEN quiet[r]
                               ELSE IF ok /\ r \notin worker[v].active THEN quiet[r] + 1 ELSE 0]
  IN  Release({r \in seen : count[r] >= 1} \cup release_expired(v), pc, count)

apply_observation(v, ok) ==
  LET seen == worker[v].ids \cap Pending(v)
      count == [r \in Read |-> IF r \notin seen THEN quiet[r]
                               ELSE IF ok /\ r \notin worker[v].active THEN quiet[r] + 1 ELSE 0]
  IN  Release({r \in seen : count[r] >= 2} \cup release_expired(v), pc, count)

Observe(v) ==
  /\ worker[v].pc = "probe" /\ worker[v].left = {}
  /\ apply_observation(v, validate_observation(v))
  /\ worker' = [worker EXCEPT ![v] = [pc |-> "sleep"]]
  /\ UNCHANGED <<endpoint, cluster, topology, server>>

ProbeFails(v) ==
  /\ worker[v].pc = "probe"
  /\ apply_observation(v, FALSE)
  /\ worker' = [worker EXCEPT ![v] = [pc |-> "sleep"]]
  /\ UNCHANGED <<endpoint, cluster, topology, server>>

\* The pause between observations outlasts the start of a query: a request that was on
\* its way has arrived or is lost, and has reached the nodes it will reach.
Wake(v) ==
  /\ worker[v].pc = "sleep" /\ Pending(v) \cap flight = {}
  /\ worker' = [worker EXCEPT ![v] = Idle]
  /\ settled' = settled \cup Pending(v)
  /\ UNCHANGED <<endpoint, cluster, topology, client, flight, running>>

Elapse(r) ==
  /\ pc[r] = "pending" /\ BoundedRead(r) /\ r \notin late
  /\ late' = late \cup {r}
  /\ UNCHANGED <<endpoint, cluster, topology, pc, abandoned, quiet, held, worker, server>>

-----------------------------------------------------------------------------
(* ClickHouse.                                                              *)

Arrive(r) ==
  /\ r \in flight
  /\ flight' = flight \ {r} /\ running' = [running EXCEPT ![r] = {Coordinator}]
  /\ UNCHANGED <<endpoint, cluster, topology, client, worker, settled>>

Lose(r) ==
  /\ r \in flight /\ pc[r] # "open"
  /\ flight' = flight \ {r}
  /\ UNCHANGED <<endpoint, cluster, topology, client, worker, running, settled>>

\* For reads with a limit the coordinator stands for all nodes.
FanOut(r, n) ==
  /\ ~BoundedRead(r) /\ Coordinator \in running[r] /\ r \notin settled /\ n \in cluster \ running[r]
  /\ running' = [running EXCEPT ![r] = @ \cup {n}]
  /\ UNCHANGED <<endpoint, cluster, topology, client, worker, flight, settled>>

\* A coordinator whose client is gone ends before its leaves.
EndOn(r, n) ==
  /\ n \in running[r]
  /\ n = Coordinator /\ pc[r] = "open" => running[r] = {n}
  /\ running' = [running EXCEPT ![r] = @ \ {n}]
  /\ UNCHANGED <<endpoint, cluster, topology, client, worker, flight, settled>>

\* A new query id.
Renew(r) ==
  /\ pc[r] = "gone" /\ ~AtWork(r)
  /\ pc' = [pc EXCEPT ![r] = "idle"] /\ settled' = settled \ {r}
  /\ UNCHANGED <<endpoint, cluster, topology, abandoned, quiet, late, held, worker, flight, running>>

\* A node the verifiers do not know is drained before it is taken out.  To reads with a
\* limit a change is no more than probes that fail.
Reconfigure ==
  /\ \E r \in Read : ~BoundedRead(r)
  /\ \E n \in Node \ {Coordinator} :
       /\ n \in cluster => (\A v \in Verifier : n \in topology[v]) \/ (\A r \in Read : n \notin running[r])
       /\ cluster' = IF n \in cluster THEN cluster \ {n} ELSE cluster \cup {n}
  /\ UNCHANGED <<endpoint, topology, client, worker, server>>

-----------------------------------------------------------------------------

Init ==
  /\ cluster = Node
  /\ topology = [v \in Verifier |-> {}]
  /\ endpoint \in Mix
  /\ pc = [r \in Read |-> "idle"]
  /\ abandoned = <<>> /\ quiet = [r \in Read |-> 0] /\ late = {} /\ held = 0
  /\ worker = [v \in Verifier |-> Idle]
  /\ flight = {} /\ running = [r \in Read |-> {}] /\ settled = {}

Work(v) == Sweep(v) \/ (\E n \in Node : probe(v, n)) \/ Observe(v) \/ ProbeFails(v) \/ Wake(v)

Next ==
  \/ \E v \in Verifier : Discover(v) \/ InitializationFails(v) \/ BackoffEnds(v) \/ Work(v)
  \/ \E r \in Read : \/ query_with_id(r) \/ fetch(r) \/ DropUnsubmitted(r) \/ ReadToEnd(r)
                     \/ Abandon(r) \/ enqueue_abandoned(r) \/ Elapse(r) \/ Renew(r)
                     \/ Arrive(r) \/ Lose(r) \/ (\E n \in Node : FanOut(r, n) \/ EndOn(r, n))
  \/ Reconfigure

\* The executor runs the worker and the drop of a guard, requests do not stay on the
\* wire, and clocks advance.
Fairness ==
  /\ \A v \in Verifier : WF_vars(Work(v))
  /\ \A r \in Read : WF_vars(enqueue_abandoned(r) \/ Arrive(r) \/ Elapse(r))

Spec == Init /\ [][Next]_vars /\ Fairness

-----------------------------------------------------------------------------
(* Properties.                                                              *)

\* ClickHouse never works on more reads of an endpoint that waits for their end than the
\* endpoint admits, however responses are closed, nodes are asked one after the other,
\* probes fail and the cluster changes.
WorkWithinAdmission ==
  \A e \in Endpoint \ (Bounded \cup Releasing) :
    Cardinality({r \in Read : endpoint[r] = e /\ AtWork(r)}) <= Capacity[e]

\* Abandoned reads with a limit hold no more than their share of the capacity, but for
\* one entry of each guard that is dropped at this moment on some verifier.
PendingShare ==
  /\ held <= PendingCap + Cardinality({r \in Read : pc[r] = "enqueue" /\ BoundedRead(r)})
  /\ held = Cardinality({r \in Read : pc[r] \in {"enqueue", "pending"} /\ BoundedRead(r)})

\* The permit of an abandoned read with a limit comes back, also when no probe ever
\* succeeds again.
BoundedReleased == \A r \in Read : (pc[r] = "pending" /\ BoundedRead(r)) ~> (pc[r] # "pending")
=============================================================================
