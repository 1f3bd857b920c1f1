--------------------------- MODULE ReadQueryProofs --------------------------
(***************************************************************************)
(* ClickHouse works on no more reads of an endpoint than it admits.  What  *)
(* is at work holds a permit (Placed, Admission) because the worker of a   *)
(* verifier gives the permit of a read without a limit back only after two *)
(* answers without it (Observed), with a pause between them after which    *)
(* nothing of the read can start (SettledRests), the second of which       *)
(* covers every node it can have reached (InReach, Sweeping).              *)
(***************************************************************************)
EXTENDS ReadQuery, FiniteSetTheorems, TLAPS

Place == {"idle", "armed", "open", "enqueue", "pending", "gone"}

ProbeState == [pc : {"probe"}, ids : SUBSET Read, left : SUBSET Node, active : SUBSET Read, nodes : SUBSET Node]

WorkerState == {Idle, [pc |-> "sleep"]} \cup ProbeState

TypeOK ==
  /\ endpoint \in [Read -> Endpoint]
  /\ cluster \in SUBSET Node /\ Coordinator \in cluster
  /\ topology \in [Verifier -> (SUBSET Node) \cup {Backoff}]
  /\ pc \in [Read -> Place]
  /\ quiet \in [Read -> Nat]
  /\ late \in SUBSET Read
  /\ worker \in [Verifier -> WorkerState]
  /\ flight \in SUBSET Read
  /\ running \in [Read -> SUBSET Node]
  /\ settled \in SUBSET Read

\* What is at work holds its permit, or need not.
Placed ==
  \A r \in Read : AtWork(r) =>
    \/ pc[r] \in {"open", "enqueue", "pending"}
    \/ pc[r] = "gone" /\ endpoint[r] \in Bounded \cup Releasing

\* A settled read has no request on its way.
SettledRests == \A r \in settled : pc[r] \in {"pending", "gone"} /\ r \notin flight

\* Only reads with a limit outlive it.
OnlyBoundedLate == \A r \in late : BoundedRead(r)

\* A read that was absent once waits, and after the pause it is settled.
Observed ==
  \A r \in Read : ~BoundedRead(r) /\ quiet[r] > 0 =>
    /\ pc[r] = "pending"
    /\ worker[VerifierOfRead(r)].pc # "sleep" => r \in settled

\* Reads are sent once the verifier has learned the nodes.
Known ==
  /\ \A v \in Verifier : topology[v] \in {{}, Backoff} \/ Coordinator \in topology[v]
  /\ \A r \in Read : pc[r] # "idle" => Coordinator \in topology[VerifierOfRead(r)]

\* Work is on nodes that are configured or were learned.
InReach == \A r \in Read : running[r] \subseteq cluster \cup topology[VerifierOfRead(r)]

\* While the worker asks: what a settled read still runs was seen, or is on a node not yet asked.
Probed(v, r) ==
  r \in worker[v].ids /\ ~BoundedRead(r) =>
    /\ pc[r] = "pending" /\ VerifierOfRead(r) = v
    /\ r \in settled /\ worker[v].nodes = topology[v] =>
         /\ running[r] \subseteq worker[v].nodes
         /\ r \notin worker[v].active => running[r] \subseteq worker[v].left

Sweeping == \A v \in Verifier : worker[v].pc = "probe" => \A r \in Read : Probed(v, r)

\* The permits an endpoint has given out.
Admission == \A e \in Endpoint : IsFiniteSet(Admitted(e)) /\ Cardinality(Admitted(e)) <= Capacity[e]

AdmissionInv ==
  /\ TypeOK /\ Placed /\ SettledRests /\ OnlyBoundedLate /\ Observed /\ Known /\ InReach
  /\ Sweeping /\ Admission

\* The invariant bounds the work: what is at work holds a permit.
LEMMA InvImplies ==
  ASSUME ReadQueryAssumption, AdmissionInv
  PROVE  WorkWithinAdmission
<1> SUFFICES ASSUME NEW e \in Endpoint \ (Bounded \cup Releasing)
             PROVE  Cardinality({r \in Read : endpoint[r] = e /\ AtWork(r)}) <= Capacity[e]
  BY DEF WorkWithinAdmission
<1> DEFINE W == {r \in Read : endpoint[r] = e /\ AtWork(r)}
<1>1. W \subseteq Admitted(e)
  BY DEF AdmissionInv, Placed, Admitted
<1>2. IsFiniteSet(Admitted(e)) /\ Cardinality(Admitted(e)) <= Capacity[e]
  BY DEF AdmissionInv, Admission
<1>3. Cardinality(W) <= Cardinality(Admitted(e)) /\ Cardinality(W) \in Nat /\ Cardinality(Admitted(e)) \in Nat
  BY <1>1, <1>2, FS_Subset, FS_CardinalityType
<1>4. Capacity[e] \in Nat
  BY DEF ReadQueryAssumption
<1> QED BY <1>2, <1>3, <1>4

\* Nothing is admitted at the start.
LEMMA InvInitial ==
  ASSUME ReadQueryAssumption, Init
  PROVE  AdmissionInv
<1> USE DEF Init
<1>1. TypeOK
  BY DEF TypeOK, ReadQueryAssumption, Place, WorkerState, Idle
<1>2. \A e \in Endpoint : Admitted(e) = {}
  BY DEF Admitted
<1>3. \A e \in Endpoint : Capacity[e] \in Nat
  BY DEF ReadQueryAssumption
<1>4. IsFiniteSet({}) /\ Cardinality({}) = 0
  BY FS_EmptySet
<1>5. Admission
  <2> SUFFICES ASSUME NEW e \in Endpoint
               PROVE  IsFiniteSet(Admitted(e)) /\ Cardinality(Admitted(e)) <= Capacity[e]
    BY DEF Admission
  <2>1. 0 <= Capacity[e]
    BY <1>3
  <2> QED BY <1>2, <1>4, <2>1, Zenon
<1> QED BY <1>1, <1>5 DEF AdmissionInv, Placed, AtWork, SettledRests, OnlyBoundedLate, Observed, Known, InReach, Sweeping, Idle

\* Permits only come back.
LEMMA NoneAdmitted ==
  ASSUME ReadQueryAssumption, Admission, \A e \in Endpoint : Admitted(e)' \subseteq Admitted(e)
  PROVE  Admission'
<1> SUFFICES ASSUME NEW e \in Endpoint
             PROVE  IsFiniteSet(Admitted(e)') /\ Cardinality(Admitted(e)') <= Capacity[e]
  BY DEF Admission
<1>1. IsFiniteSet(Admitted(e)) /\ Cardinality(Admitted(e)) <= Capacity[e] /\ Capacity[e] \in Nat
  BY DEF Admission, ReadQueryAssumption
<1> QED BY <1>1, FS_Subset, FS_CardinalityType

\* A verifier learns the cluster.
LEMMA DiscoverKeeps ==
  ASSUME ReadQueryAssumption, AdmissionInv, NEW v \in Verifier, Discover(v)
  PROVE  AdmissionInv'
<1> USE DEF AdmissionInv, Discover
<1>1. TypeOK'
  BY DEF TypeOK, Place, WorkerState, Idle, client, server
<1>2. Placed'
  BY DEF TypeOK, Placed, AtWork, client, server
<1>3. SettledRests'
  BY DEF TypeOK, SettledRests, client, server
<1>4. OnlyBoundedLate'
  BY DEF TypeOK, OnlyBoundedLate, BoundedRead, client, server
<1>5. Observed'
  BY DEF TypeOK, Observed, BoundedRead, VerifierOfRead, client, server
<1>6. Known'
  <2>1. Coordinator \in topology'[v] /\ topology[v] = {} /\ \A w \in Verifier : w # v => topology'[w] = topology[w]
    BY DEF validate_topology, TypeOK
  <2> QED BY <2>1 DEF Known, VerifierOfRead, Backoff, client
<1>7. InReach'
  BY DEF TypeOK, InReach, VerifierOfRead, Backoff, ReadQueryAssumption, client, server
<1>8. Sweeping'
  <2> SUFFICES ASSUME NEW w \in Verifier, (worker[w].pc = "probe")', NEW r \in Read
               PROVE  Probed(w, r)'
    BY DEF Sweeping
  <2>1. Probed(w, r)
    BY DEF Sweeping, client, server
  <2>2. r \in worker[w].ids /\ ~BoundedRead(r) => topology'[w] = topology[w]
    BY <2>1 DEF Probed, Known, TypeOK, Backoff, VerifierOfRead, ReadQueryAssumption
  <2> QED BY <2>1, <2>2 DEF Probed, BoundedRead, VerifierOfRead, client, server
<1>9. \A e \in Endpoint : Admitted(e)' \subseteq Admitted(e)
  BY DEF TypeOK, Admitted, client, server
<1> QED BY <1>1, <1>2, <1>3, <1>4, <1>5, <1>6, <1>7, <1>8, <1>9, NoneAdmitted

\* It does not, and waits.
LEMMA FailsKeeps ==
  ASSUME ReadQueryAssumption, AdmissionInv, NEW v \in Verifier, InitializationFails(v)
  PROVE  AdmissionInv'
<1> USE DEF AdmissionInv, InitializationFails
<1>1. TypeOK'
  <2> DEFINE T == (SUBSET Node) \cup {Backoff}
  <2>0. topology \in [Verifier -> T] /\ Backoff \in T
    <3>1. Backoff \in T
      BY Zenon
    <3> QED BY <3>1 DEF TypeOK
  <2>1. topology' \in [Verifier -> T]
    <3> HIDE DEF T
    <3> QED BY <2>0
  <2> QED BY <2>1 DEF TypeOK, client, server
<1>2. Placed' /\ SettledRests' /\ OnlyBoundedLate'
  BY DEF TypeOK, Placed, AtWork, SettledRests, OnlyBoundedLate, BoundedRead, client, server
<1>3. Observed' /\ Known' /\ InReach'
  BY DEF TypeOK, Observed, BoundedRead, Known, InReach, VerifierOfRead, Backoff, ReadQueryAssumption, client, server
<1>4. Sweeping'
  <2> SUFFICES ASSUME NEW w \in Verifier, (worker[w].pc = "probe")', NEW r \in Read
               PROVE  Probed(w, r)'
    BY DEF Sweeping
  <2>1. Probed(w, r)
    BY DEF Sweeping, client, server
  <2>2. r \in worker[w].ids /\ ~BoundedRead(r) => topology'[w] = topology[w]
    BY <2>1 DEF Probed, Known, TypeOK, Backoff, VerifierOfRead, ReadQueryAssumption
  <2> QED BY <2>1, <2>2 DEF Probed, BoundedRead, VerifierOfRead, client, server
<1>5. \A e \in Endpoint : Admitted(e)' \subseteq Admitted(e)
  BY DEF TypeOK, Admitted, client, server
<1> QED BY <1>1, <1>2, <1>3, <1>4, <1>5, NoneAdmitted

\* It may try again.
LEMMA BackoffKeeps ==
  ASSUME ReadQueryAssumption, AdmissionInv, NEW v \in Verifier, BackoffEnds(v)
  PROVE  AdmissionInv'
<1> USE DEF AdmissionInv, BackoffEnds
<1>1. TypeOK'
  BY DEF TypeOK, Place, WorkerState, Idle, client, server
<1>2. Placed' /\ SettledRests' /\ OnlyBoundedLate'
  BY DEF TypeOK, Placed, AtWork, SettledRests, OnlyBoundedLate, BoundedRead, client, server
<1>3. Observed' /\ Known' /\ InReach'
  BY DEF TypeOK, Observed, BoundedRead, Known, InReach, VerifierOfRead, Backoff, ReadQueryAssumption, client, server
<1>4. Sweeping'
  <2> SUFFICES ASSUME NEW w \in Verifier, (worker[w].pc = "probe")', NEW r \in Read
               PROVE  Probed(w, r)'
    BY DEF Sweeping
  <2>1. Probed(w, r)
    BY DEF Sweeping, client, server
  <2>2. r \in worker[w].ids /\ ~BoundedRead(r) => topology'[w] = topology[w]
    BY <2>1 DEF Probed, Known, TypeOK, Backoff, VerifierOfRead, ReadQueryAssumption
  <2> QED BY <2>1, <2>2 DEF Probed, BoundedRead, VerifierOfRead, client, server
<1>5. \A e \in Endpoint : Admitted(e)' \subseteq Admitted(e)
  BY DEF TypeOK, Admitted, client, server
<1> QED BY <1>1, <1>2, <1>3, <1>4, <1>5, NoneAdmitted

\* A request is sent.
LEMMA FetchKeeps ==
  ASSUME ReadQueryAssumption, AdmissionInv, NEW r \in Read, fetch(r)
  PROVE  AdmissionInv'
<1> USE DEF AdmissionInv, fetch
<1>1. TypeOK'
  BY DEF TypeOK, Place, WorkerState, Idle, client, server
<1>2. Placed' /\ SettledRests' /\ OnlyBoundedLate'
  BY DEF TypeOK, Placed, AtWork, SettledRests, OnlyBoundedLate, BoundedRead, client, server
<1>3. Observed' /\ Known' /\ InReach'
  BY DEF TypeOK, Observed, BoundedRead, Known, InReach, VerifierOfRead, Backoff, ReadQueryAssumption, client, server
<1>4. Sweeping'
  BY DEF TypeOK, Sweeping, Probed, BoundedRead, VerifierOfRead, client, server
<1>5. \A e \in Endpoint : Admitted(e)' \subseteq Admitted(e)
  BY DEF TypeOK, Admitted, client, server
<1> QED BY <1>1, <1>2, <1>3, <1>4, <1>5, NoneAdmitted

\* A guard is dropped before its request is sent.
LEMMA DropKeeps ==
  ASSUME ReadQueryAssumption, AdmissionInv, NEW r \in Read, DropUnsubmitted(r)
  PROVE  AdmissionInv'
<1> USE DEF AdmissionInv, DropUnsubmitted
<1>1. TypeOK'
  BY DEF TypeOK, Place, WorkerState, Idle, client, server
<1>2. Placed' /\ SettledRests' /\ OnlyBoundedLate'
  BY DEF TypeOK, Placed, AtWork, SettledRests, OnlyBoundedLate, BoundedRead, client, server
<1>3. Observed' /\ Known' /\ InReach'
  BY DEF TypeOK, Observed, BoundedRead, Known, InReach, VerifierOfRead, Backoff, ReadQueryAssumption, client, server
<1>4. Sweeping'
  BY DEF TypeOK, Sweeping, Probed, BoundedRead, VerifierOfRead, client, server
<1>5. \A e \in Endpoint : Admitted(e)' \subseteq Admitted(e)
  BY DEF TypeOK, Admitted, client, server
<1> QED BY <1>1, <1>2, <1>3, <1>4, <1>5, NoneAdmitted

\* A response read to its end leaves nothing at work.
LEMMA ReadToEndKeeps ==
  ASSUME ReadQueryAssumption, AdmissionInv, NEW r \in Read, ReadToEnd(r)
  PROVE  AdmissionInv'
<1> USE DEF AdmissionInv, ReadToEnd
<1>1. TypeOK'
  BY DEF TypeOK, Place, WorkerState, Idle, client, server
<1>2. Placed' /\ SettledRests' /\ OnlyBoundedLate'
  BY DEF TypeOK, Placed, AtWork, SettledRests, OnlyBoundedLate, BoundedRead, client, server
<1>3. Observed' /\ Known' /\ InReach'
  BY DEF TypeOK, Observed, BoundedRead, Known, InReach, VerifierOfRead, Backoff, ReadQueryAssumption, client, server
<1>4. Sweeping'
  BY DEF TypeOK, Sweeping, Probed, BoundedRead, VerifierOfRead, client, server
<1>5. \A e \in Endpoint : Admitted(e)' \subseteq Admitted(e)
  BY DEF TypeOK, Admitted, client, server
<1> QED BY <1>1, <1>2, <1>3, <1>4, <1>5, NoneAdmitted

\* A response is closed early; the permit stays with the guard, or goes at once where nobody waits.
LEMMA AbandonKeeps ==
  ASSUME ReadQueryAssumption, AdmissionInv, NEW r \in Read, Abandon(r)
  PROVE  AdmissionInv'
<1> USE DEF AdmissionInv, Abandon
<1>1. TypeOK'
  BY DEF TypeOK, Place, WorkerState, Idle, client, server
<1>2. Placed' /\ SettledRests' /\ OnlyBoundedLate'
  BY DEF TypeOK, Placed, AtWork, SettledRests, OnlyBoundedLate, BoundedRead, client, server
<1>3. Observed' /\ Known' /\ InReach'
  BY DEF TypeOK, Observed, BoundedRead, Known, InReach, VerifierOfRead, Backoff, ReadQueryAssumption, client, server
<1>4. Sweeping'
  BY DEF TypeOK, Sweeping, Probed, BoundedRead, VerifierOfRead, client, server
<1>5. \A e \in Endpoint : Admitted(e)' \subseteq Admitted(e)
  BY DEF TypeOK, Admitted, client, server
<1> QED BY <1>1, <1>2, <1>3, <1>4, <1>5, NoneAdmitted

\* The limit of a read passes.
LEMMA ElapseKeeps ==
  ASSUME ReadQueryAssumption, AdmissionInv, NEW r \in Read, Elapse(r)
  PROVE  AdmissionInv'
<1> USE DEF AdmissionInv, Elapse
<1>1. TypeOK'
  BY DEF TypeOK, Place, WorkerState, Idle, client, server
<1>2. Placed' /\ SettledRests' /\ OnlyBoundedLate'
  BY DEF TypeOK, Placed, AtWork, SettledRests, OnlyBoundedLate, BoundedRead, client, server
<1>3. Observed' /\ Known' /\ InReach'
  BY DEF TypeOK, Observed, BoundedRead, Known, InReach, VerifierOfRead, Backoff, ReadQueryAssumption, client, server
<1>4. Sweeping'
  BY DEF TypeOK, Sweeping, Probed, BoundedRead, VerifierOfRead, client, server
<1>5. \A e \in Endpoint : Admitted(e)' \subseteq Admitted(e)
  BY DEF TypeOK, Admitted, client, server
<1> QED BY <1>1, <1>2, <1>3, <1>4, <1>5, NoneAdmitted

\* A query id is new again once nothing is at work on it.
LEMMA RenewKeeps ==
  ASSUME ReadQueryAssumption, AdmissionInv, NEW r \in Read, Renew(r)
  PROVE  AdmissionInv'
<1> USE DEF AdmissionInv, Renew
<1>1. TypeOK'
  BY DEF TypeOK, Place, WorkerState, Idle, client, server
<1>2. Placed' /\ SettledRests' /\ OnlyBoundedLate'
  BY DEF TypeOK, Placed, AtWork, SettledRests, OnlyBoundedLate, BoundedRead, client, server
<1>3. Observed' /\ Known' /\ InReach'
  BY DEF TypeOK, Observed, BoundedRead, Known, InReach, VerifierOfRead, Backoff, ReadQueryAssumption, client, server
<1>4. Sweeping'
  BY DEF TypeOK, Sweeping, Probed, BoundedRead, VerifierOfRead, client, server
<1>5. \A e \in Endpoint : Admitted(e)' \subseteq Admitted(e)
  BY DEF TypeOK, Admitted, client, server
<1> QED BY <1>1, <1>2, <1>3, <1>4, <1>5, NoneAdmitted

\* A request reaches the coordinator; no settled read has one on its way.
LEMMA ArriveKeeps ==
  ASSUME ReadQueryAssumption, AdmissionInv, NEW r \in Read, Arrive(r)
  PROVE  AdmissionInv'
<1> USE DEF AdmissionInv, Arrive
<1>1. TypeOK'
  BY DEF TypeOK, Place, WorkerState, Idle, client, server
<1>2. Placed' /\ SettledRests' /\ OnlyBoundedLate'
  BY DEF TypeOK, Placed, AtWork, SettledRests, OnlyBoundedLate, BoundedRead, client, server
<1>3. Observed' /\ Known' /\ InReach'
  BY DEF TypeOK, Observed, BoundedRead, Known, InReach, VerifierOfRead, Backoff, ReadQueryAssumption, client, server
<1>4. Sweeping'
  <2> SUFFICES ASSUME NEW w \in Verifier, worker[w].pc = "probe", NEW x \in Read
               PROVE  Probed(w, x)'
    BY DEF Sweeping
  <2>1. Probed(w, x)
    BY DEF Sweeping
  <2>2. r \notin settled
    BY DEF SettledRests
  <2>3. x # r => running'[x] = running[x]
    BY DEF TypeOK
  <2> QED BY <2>1, <2>2, <2>3 DEF Probed, BoundedRead, VerifierOfRead, client
<1>5. \A e \in Endpoint : Admitted(e)' \subseteq Admitted(e)
  BY DEF TypeOK, Admitted, client, server
<1> QED BY <1>1, <1>2, <1>3, <1>4, <1>5, NoneAdmitted

\* A request is lost.
LEMMA LoseKeeps ==
  ASSUME ReadQueryAssumption, AdmissionInv, NEW r \in Read, Lose(r)
  PROVE  AdmissionInv'
<1> USE DEF AdmissionInv, Lose
<1>1. TypeOK'
  BY DEF TypeOK, Place, WorkerState, Idle, client, server
<1>2. Placed' /\ SettledRests' /\ OnlyBoundedLate'
  BY DEF TypeOK, Placed, AtWork, SettledRests, OnlyBoundedLate, BoundedRead, client, server
<1>3. Observed' /\ Known' /\ InReach'
  BY DEF TypeOK, Observed, BoundedRead, Known, InReach, VerifierOfRead, Backoff, ReadQueryAssumption, client, server
<1>4. Sweeping'
  BY DEF TypeOK, Sweeping, Probed, BoundedRead, VerifierOfRead, client, server
<1>5. \A e \in Endpoint : Admitted(e)' \subseteq Admitted(e)
  BY DEF TypeOK, Admitted, client, server
<1> QED BY <1>1, <1>2, <1>3, <1>4, <1>5, NoneAdmitted

\* The coordinator starts a leaf; not for a settled read.
LEMMA FanOutKeeps ==
  ASSUME ReadQueryAssumption, AdmissionInv, NEW r \in Read, NEW n \in Node, FanOut(r, n)
  PROVE  AdmissionInv'
<1> USE DEF AdmissionInv, FanOut
<1>1. TypeOK'
  BY DEF TypeOK, Place, WorkerState, Idle, client, server
<1>2. Placed' /\ SettledRests' /\ OnlyBoundedLate'
  BY DEF TypeOK, Placed, AtWork, SettledRests, OnlyBoundedLate, BoundedRead, client, server
<1>3. Observed' /\ Known' /\ InReach'
  BY DEF TypeOK, Observed, BoundedRead, Known, InReach, VerifierOfRead, Backoff, ReadQueryAssumption, client, server
<1>4. Sweeping'
  BY DEF TypeOK, Sweeping, Probed, BoundedRead, VerifierOfRead, client, server
<1>5. \A e \in Endpoint : Admitted(e)' \subseteq Admitted(e)
  BY DEF TypeOK, Admitted, client, server
<1> QED BY <1>1, <1>2, <1>3, <1>4, <1>5, NoneAdmitted

\* A node ends its part.
LEMMA EndOnKeeps ==
  ASSUME ReadQueryAssumption, AdmissionInv, NEW r \in Read, NEW n \in Node, EndOn(r, n)
  PROVE  AdmissionInv'
<1> USE DEF AdmissionInv, EndOn
<1>1. TypeOK'
  BY DEF TypeOK, Place, WorkerState, Idle, client, server
<1>2. Placed' /\ SettledRests' /\ OnlyBoundedLate'
  BY DEF TypeOK, Placed, AtWork, SettledRests, OnlyBoundedLate, BoundedRead, client, server
<1>3. Observed' /\ Known' /\ InReach'
  BY DEF TypeOK, Observed, BoundedRead, Known, InReach, VerifierOfRead, Backoff, ReadQueryAssumption, client, server
<1>4. Sweeping'
  BY DEF TypeOK, Sweeping, Probed, BoundedRead, VerifierOfRead, client, server
<1>5. \A e \in Endpoint : Admitted(e)' \subseteq Admitted(e)
  BY DEF TypeOK, Admitted, client, server
<1> QED BY <1>1, <1>2, <1>3, <1>4, <1>5, NoneAdmitted

\* A node comes or goes; work stays on nodes that are configured or were learned.
LEMMA ReconfigureKeeps ==
  ASSUME ReadQueryAssumption, AdmissionInv, Reconfigure
  PROVE  AdmissionInv'
<1> USE DEF AdmissionInv, Reconfigure
<1>1. TypeOK'
  BY DEF TypeOK, Place, WorkerState, Idle, client, server
<1>2. Placed' /\ SettledRests' /\ OnlyBoundedLate'
  BY DEF TypeOK, Placed, AtWork, SettledRests, OnlyBoundedLate, BoundedRead, client, server
<1>3. Observed' /\ Known' /\ InReach'
  BY DEF TypeOK, Observed, BoundedRead, Known, InReach, VerifierOfRead, Backoff, ReadQueryAssumption, client, server
<1>4. Sweeping'
  BY DEF TypeOK, Sweeping, Probed, BoundedRead, VerifierOfRead, client, server
<1>5. \A e \in Endpoint : Admitted(e)' \subseteq Admitted(e)
  BY DEF TypeOK, Admitted, client, server
<1> QED BY <1>1, <1>2, <1>3, <1>4, <1>5, NoneAdmitted

\* After the pause nothing more of what waits can start.
LEMMA WakeKeeps ==
  ASSUME ReadQueryAssumption, AdmissionInv, NEW v \in Verifier, Wake(v)
  PROVE  AdmissionInv'
<1> USE DEF AdmissionInv, Wake
<1>1. TypeOK'
  <2>1. worker' \in [Verifier -> WorkerState]
    <3> DEFINE w == Idle
    <3>1. w \in WorkerState
      BY DEF TypeOK, WorkerState, ProbeState, Idle
    <3>2. worker' = [worker EXCEPT ![v] = w]
      BY DEF TypeOK
    <3> HIDE DEF w
    <3> QED BY <3>1, <3>2 DEF TypeOK
  <2> QED BY <2>1 DEF TypeOK, client, server, Pending
<1>2. Placed'
  BY DEF TypeOK, Placed, AtWork, client, server
<1>3. SettledRests'
  BY DEF TypeOK, SettledRests, Pending, client
<1>4. OnlyBoundedLate'
  BY DEF TypeOK, OnlyBoundedLate, BoundedRead, client, server
<1>5. Observed'
  <2> SUFFICES ASSUME NEW r \in Read, ~BoundedRead(r), quiet[r] > 0
               PROVE  pc[r] = "pending" /\ (worker'[VerifierOfRead(r)].pc # "sleep" => r \in settled')
    BY DEF Observed, BoundedRead, VerifierOfRead, client
  <2>1. pc[r] = "pending" /\ (worker[VerifierOfRead(r)].pc # "sleep" => r \in settled)
    BY DEF Observed
  <2>2. VerifierOfRead(r) \in Verifier
    BY DEF TypeOK, VerifierOfRead, ReadQueryAssumption
  <2>3. CASE VerifierOfRead(r) = v
    BY <2>1, <2>3 DEF Pending
  <2>4. CASE VerifierOfRead(r) # v
    BY <2>1, <2>2, <2>4 DEF TypeOK
  <2> QED BY <2>3, <2>4
<1>6. Known'
  BY DEF TypeOK, Known, VerifierOfRead, Backoff, ReadQueryAssumption, client, server
<1>7. InReach'
  BY DEF TypeOK, InReach, VerifierOfRead, Backoff, ReadQueryAssumption, client, server
<1>8. Sweeping'
  <2> SUFFICES ASSUME NEW w \in Verifier, worker'[w].pc = "probe", NEW r \in Read
               PROVE  Probed(w, r)'
    BY DEF Sweeping
  <2>1. w # v /\ worker'[w] = worker[w]
    BY DEF TypeOK, Idle
  <2>2. Probed(w, r)
    BY <2>1 DEF Sweeping
  <2>3. r \in worker[w].ids /\ ~BoundedRead(r) => (r \in settled' <=> r \in settled)
    BY <2>1, <2>2 DEF Probed, Pending
  <2> QED BY <2>1, <2>2, <2>3 DEF Probed, BoundedRead, VerifierOfRead, client
<1>9. \A e \in Endpoint : Admitted(e)' \subseteq Admitted(e)
  BY DEF TypeOK, Admitted, client, server
<1> QED BY <1>1, <1>2, <1>3, <1>4, <1>5, <1>6, <1>7, <1>8, <1>9, NoneAdmitted

\* A node answers; what it runs is marked active.
LEMMA ProbeKeeps ==
  ASSUME ReadQueryAssumption, AdmissionInv, NEW v \in Verifier, NEW n \in Node, probe(v, n)
  PROVE  AdmissionInv'
<1> USE DEF AdmissionInv, probe
<1>0. worker[v] \in ProbeState
  BY DEF TypeOK, WorkerState, Idle
<1>1. TypeOK'
  <2>1. worker' \in [Verifier -> WorkerState]
    <3> DEFINE w == [worker[v] EXCEPT !.left = @ \ {n}, !.active = @ \cup {r \in worker[v].ids : n \in running[r]}]
    <3>1. w \in ProbeState
      BY <1>0 DEF ProbeState
    <3>2. worker' = [worker EXCEPT ![v] = w]
      BY <1>0 DEF TypeOK, ProbeState
    <3>3. w \in WorkerState
      BY <3>1 DEF WorkerState
    <3> HIDE DEF w
    <3> QED BY <3>2, <3>3 DEF TypeOK
  <2> QED BY <2>1 DEF TypeOK, client, server
<1>2. Placed'
  BY DEF TypeOK, Placed, AtWork, client, server
<1>3. SettledRests'
  BY DEF TypeOK, SettledRests, client, server
<1>4. OnlyBoundedLate'
  BY DEF TypeOK, OnlyBoundedLate, BoundedRead, client, server
<1>5. Observed'
  <2> SUFFICES ASSUME NEW r \in Read, ~BoundedRead(r), quiet[r] > 0
               PROVE  pc[r] = "pending" /\ (worker'[VerifierOfRead(r)].pc # "sleep" => r \in settled)
    BY DEF Observed, BoundedRead, VerifierOfRead, client, server
  <2>1. pc[r] = "pending" /\ (worker[VerifierOfRead(r)].pc # "sleep" => r \in settled)
    BY DEF Observed
  <2>2. VerifierOfRead(r) \in Verifier
    BY DEF TypeOK, VerifierOfRead, ReadQueryAssumption
  <2>3. CASE VerifierOfRead(r) = v
    BY <2>1, <2>3
  <2>4. CASE VerifierOfRead(r) # v
    BY <2>1, <2>2, <2>4 DEF TypeOK
  <2> QED BY <2>3, <2>4
<1>6. Known'
  BY DEF TypeOK, Known, VerifierOfRead, Backoff, ReadQueryAssumption, client, server
<1>7. InReach'
  BY DEF TypeOK, InReach, VerifierOfRead, Backoff, ReadQueryAssumption, client, server
<1>8. Sweeping'
  BY DEF TypeOK, Sweeping, Probed, BoundedRead, VerifierOfRead, client, server
<1>9. \A e \in Endpoint : Admitted(e)' \subseteq Admitted(e)
  BY DEF TypeOK, Admitted, client, server
<1> QED BY <1>1, <1>2, <1>3, <1>4, <1>5, <1>6, <1>7, <1>8, <1>9, NoneAdmitted

\* A read is admitted while the endpoint has a permit and its verifier knows the cluster.
LEMMA AdmitKeeps ==
  ASSUME ReadQueryAssumption, AdmissionInv, NEW r \in Read, query_with_id(r)
  PROVE  AdmissionInv'
<1> USE DEF AdmissionInv, query_with_id
<1>1. TypeOK'
  BY DEF TypeOK, Place, server
<1>2. Placed' /\ SettledRests' /\ OnlyBoundedLate'
  BY DEF TypeOK, Placed, AtWork, SettledRests, OnlyBoundedLate, BoundedRead, server
<1>3. Observed'
  BY DEF TypeOK, Observed, BoundedRead, VerifierOfRead, server
<1>4. Known'
  <2>1. VerifierOf[endpoint[r]] \in Verifier
    BY DEF TypeOK, ReadQueryAssumption
  <2>2. Coordinator \in topology[VerifierOfRead(r)]
    BY <2>1 DEF Known, VerifierOfRead
  <2> QED BY <2>2 DEF TypeOK, Known, VerifierOfRead
<1>5. InReach'
  BY DEF TypeOK, InReach, VerifierOfRead, server
<1>6. Sweeping'
  BY DEF TypeOK, Sweeping, Probed, BoundedRead, VerifierOfRead, server
<1>7. Admission'
  <2> SUFFICES ASSUME NEW e \in Endpoint
               PROVE  IsFiniteSet(Admitted(e)') /\ Cardinality(Admitted(e)') <= Capacity[e]
    BY DEF Admission
  <2>1. IsFiniteSet(Admitted(e)) /\ Cardinality(Admitted(e)) <= Capacity[e]
    BY DEF Admission
  <2>2. Cardinality(Admitted(e)) \in Nat /\ Capacity[e] \in Nat
    BY <2>1, FS_CardinalityType DEF ReadQueryAssumption
  <2>3. CASE endpoint[r] # e
    <3>1. Admitted(e)' = Admitted(e)
      BY <2>3 DEF Admitted, TypeOK
    <3> QED BY <2>1, <3>1
  <2>4. CASE endpoint[r] = e
    <3>1. r \notin Admitted(e) /\ Admitted(e)' = Admitted(e) \cup {r}
      BY <2>4 DEF Admitted, TypeOK
    <3>2. IsFiniteSet(Admitted(e) \cup {r}) /\ Cardinality(Admitted(e) \cup {r}) = Cardinality(Admitted(e)) + 1
      BY <2>1, <3>1, FS_AddElement
    <3>3. Cardinality(Admitted(e)) < Capacity[e]
      BY <2>4
    <3> QED BY <2>2, <3>1, <3>2, <3>3
  <2> QED BY <2>3, <2>4
<1> QED BY <1>1, <1>2, <1>3, <1>4, <1>5, <1>6, <1>7

\* What holds after permits come back, whatever releases them: only reads that waited
\* are released, and one without a limit only when nothing is at work on it.
LEMMA ReleaseKeeps ==
  ASSUME ReadQueryAssumption, AdmissionInv, NEW S \in SUBSET Read, NEW p, NEW q \in [Read -> Nat],
         Release(S, p, q),
         \A r \in S : pc[r] \in {"enqueue", "pending"} /\ (AtWork(r) => BoundedRead(r)),
         \A r \in Read \ S : p[r] = pc[r] \/ (pc[r] = "enqueue" /\ p[r] = "pending"),
         worker' \in [Verifier -> WorkerState], UNCHANGED <<endpoint, cluster, topology, server>>
  PROVE  TypeOK' /\ Placed' /\ SettledRests' /\ OnlyBoundedLate' /\ Known' /\ InReach' /\ Admission'
<1> USE DEF AdmissionInv
<1>1. /\ DOMAIN pc' = Read
      /\ \A r \in S : pc'[r] = "gone"
      /\ \A r \in Read \ S : pc'[r] = pc[r] \/ (pc[r] = "enqueue" /\ pc'[r] = "pending")
  BY DEF Release
<1>2. pc' \in [Read -> Place] /\ quiet' \in [Read -> Nat] /\ late' \in SUBSET Read
  <2>1. \A r \in Read : pc'[r] \in Place
    BY <1>1 DEF TypeOK, Place
  <2>2. pc' = [r \in Read |-> pc'[r]]
    BY DEF Release
  <2> QED BY <2>1, <2>2 DEF Release, TypeOK
<1>3. TypeOK'
  BY <1>2 DEF TypeOK, server
<1>4. Placed'
  BY <1>1 DEF Placed, AtWork, BoundedRead, server
<1>5. SettledRests'
  BY <1>1 DEF SettledRests, TypeOK, server
<1>6. OnlyBoundedLate'
  BY DEF OnlyBoundedLate, BoundedRead, Release
<1>7. Known'
  BY <1>1 DEF Known, VerifierOfRead
<1>8. InReach'
  BY DEF InReach, VerifierOfRead, server
<1>9. \A e \in Endpoint : Admitted(e)' \subseteq Admitted(e)
  BY <1>1 DEF Admitted
<1> QED BY <1>3, <1>4, <1>5, <1>6, <1>7, <1>8, <1>9, NoneAdmitted

\* A dropped guard waits at its verifier, which gives up reads with a limit above the share.
LEMMA EnqueueKeeps ==
  ASSUME ReadQueryAssumption, AdmissionInv, NEW r \in Read, enqueue_abandoned(r)
  PROVE  AdmissionInv'
<1> DEFINE S == release_over_cap(Pending(VerifierOfRead(r)) \cup {r})
           p == [pc EXCEPT ![r] = "pending"]
<1>1. Release(S, p, quiet) /\ pc[r] = "enqueue" /\ UNCHANGED <<endpoint, cluster, topology, worker, server>>
  BY DEF enqueue_abandoned
<1>2. S \in SUBSET Read /\ \A x \in S : pc[x] \in {"enqueue", "pending"} /\ BoundedRead(x)
  BY <1>1 DEF release_over_cap, Pending
<1>3. \A x \in Read \ S : p[x] = pc[x] \/ (pc[x] = "enqueue" /\ p[x] = "pending")
  BY <1>1 DEF AdmissionInv, TypeOK
<1>4. worker' \in [Verifier -> WorkerState] /\ quiet \in [Read -> Nat]
  BY <1>1 DEF AdmissionInv, TypeOK
<1> HIDE DEF S
<1>5. TypeOK' /\ Placed' /\ SettledRests' /\ OnlyBoundedLate' /\ Known' /\ InReach' /\ Admission'
  <2> HIDE DEF p
  <2> QED BY <1>1, <1>2, <1>3, <1>4, ReleaseKeeps
<1>6. \A x \in Read : ~BoundedRead(x) =>
        /\ quiet'[x] = quiet[x]
        /\ pc'[x] = pc[x] \/ (pc[x] = "enqueue" /\ pc'[x] = "pending")
  BY <1>1, <1>2, <1>3 DEF Release
<1>7. Observed'
  BY <1>1, <1>6 DEF AdmissionInv, Observed, BoundedRead, VerifierOfRead, server
<1>8. Sweeping'
  BY <1>1, <1>6 DEF AdmissionInv, Sweeping, Probed, BoundedRead, VerifierOfRead, server
<1> QED BY <1>5, <1>7, <1>8 DEF AdmissionInv

\* The worker starts: it asks for what waits, on every node the configuration names.
LEMMA SweepKeeps ==
  ASSUME ReadQueryAssumption, AdmissionInv, NEW v \in Verifier, Sweep(v)
  PROVE  AdmissionInv'
<1> DEFINE S == release_expired(v)
           w == [pc |-> "probe", ids |-> Pending(v), left |-> cluster, active |-> {}, nodes |-> cluster]
<1>1. Release(S, pc, quiet) /\ worker[v] = Idle /\ UNCHANGED <<endpoint, cluster, topology, server>>
  BY DEF Sweep
<1>2. worker' = [worker EXCEPT ![v] = w]
  BY DEF Sweep
<1>3. w \in ProbeState
  BY DEF ProbeState, Pending, AdmissionInv, TypeOK
<1>4. worker' \in [Verifier -> WorkerState] /\ quiet \in [Read -> Nat]
  <2>1. w \in WorkerState
    BY <1>3 DEF WorkerState
  <2> HIDE DEF w
  <2> QED BY <1>2, <2>1 DEF AdmissionInv, TypeOK
<1>5. S \in SUBSET Read /\ \A x \in S : pc[x] = "pending" /\ BoundedRead(x)
  BY DEF release_expired, Pending, AdmissionInv, OnlyBoundedLate
<1> HIDE DEF S
<1>6. TypeOK' /\ Placed' /\ SettledRests' /\ OnlyBoundedLate' /\ Known' /\ InReach' /\ Admission'
  BY <1>1, <1>4, <1>5, ReleaseKeeps
<1>7. \A x \in Read : ~BoundedRead(x) => quiet'[x] = quiet[x] /\ pc'[x] = pc[x]
  BY <1>1, <1>5 DEF Release
<1>8. worker'[v] = w /\ \A u \in Verifier : u # v => worker'[u] = worker[u]
  <2> HIDE DEF w
  <2> QED BY <1>2 DEF AdmissionInv, TypeOK
<1>9. Observed'
  <2> SUFFICES ASSUME NEW x \in Read, ~BoundedRead(x), quiet[x] > 0
               PROVE  pc[x] = "pending" /\ (worker'[VerifierOfRead(x)].pc # "sleep" => x \in settled)
    BY <1>1, <1>7 DEF Observed, BoundedRead, VerifierOfRead, server
  <2>1. pc[x] = "pending" /\ (worker[VerifierOfRead(x)].pc # "sleep" => x \in settled)
    BY DEF AdmissionInv, Observed
  <2>2. worker[v].pc # "sleep" /\ VerifierOfRead(x) \in Verifier
    BY <1>1 DEF Idle, AdmissionInv, TypeOK, VerifierOfRead, ReadQueryAssumption
  <2> QED BY <1>8, <2>1, <2>2
<1>10. Sweeping'
  <2> SUFFICES ASSUME NEW u \in Verifier, worker'[u].pc = "probe", NEW x \in Read
               PROVE  Probed(u, x)'
    BY DEF Sweeping
  <2>1. CASE u = v
    <3>1. worker'[u].ids = Pending(v) /\ worker'[u].left = cluster /\ worker'[u].nodes = cluster
      BY <1>8, <2>1
    <3>2. x \in Pending(v) => pc[x] = "pending" /\ VerifierOfRead(x) = v
      BY DEF Pending
    <3>3. running[x] \subseteq cluster \cup topology[VerifierOfRead(x)]
      BY DEF AdmissionInv, InReach
    <3> QED BY <1>1, <1>7, <2>1, <3>1, <3>2, <3>3 DEF Probed, BoundedRead, VerifierOfRead, server
  <2>2. CASE u # v
    <3>1. worker'[u] = worker[u] /\ Probed(u, x)
      BY <1>8, <2>2 DEF AdmissionInv, Sweeping
    <3> QED BY <1>1, <1>7, <3>1 DEF Probed, BoundedRead, VerifierOfRead, server
  <2> QED BY <2>1, <2>2
<1> QED BY <1>6, <1>9, <1>10 DEF AdmissionInv

\* A read without a limit that a second answer releases has ended on every node: its
\* first answer came before a pause, so nothing of it started since, and the second
\* covered the nodes it can have reached.
LEMMA AbsentTwice ==
  ASSUME ReadQueryAssumption, AdmissionInv, NEW v \in Verifier, worker[v].pc = "probe",
         worker[v].left = {}, worker[v].nodes = topology[v],
         NEW r \in worker[v].ids \cap Pending(v), ~BoundedRead(r), quiet[r] > 0,
         r \notin worker[v].active
  PROVE  ~AtWork(r)
<1>1. r \in Read /\ VerifierOfRead(r) = v
  BY DEF Pending
<1>2. r \in settled /\ r \notin flight
  BY <1>1 DEF AdmissionInv, Observed, SettledRests
<1>3. running[r] \subseteq worker[v].left
  BY <1>1, <1>2 DEF AdmissionInv, Sweeping, Probed
<1> QED BY <1>2, <1>3 DEF AtWork

\* An answer, or its absence, is applied.
LEMMA AnswerKeeps ==
  ASSUME ReadQueryAssumption, AdmissionInv, NEW v \in Verifier, NEW ok \in BOOLEAN,
         worker[v].pc = "probe", ok => worker[v].left = {} /\ worker[v].nodes = topology[v],
         apply_observation(v, ok), worker' = [worker EXCEPT ![v] = [pc |-> "sleep"]],
         UNCHANGED <<endpoint, cluster, topology, server>>
  PROVE  AdmissionInv'
<1> DEFINE seen == worker[v].ids \cap Pending(v)
           count == [r \in Read |-> IF r \notin seen THEN quiet[r]
                                    ELSE IF ok /\ r \notin worker[v].active THEN quiet[r] + 1 ELSE 0]
           S == {r \in seen : count[r] >= 2} \cup release_expired(v)
<1>1. Release(S, pc, count)
  BY DEF apply_observation
<1>2. seen \subseteq Read /\ \A r \in seen : pc[r] = "pending" /\ VerifierOfRead(r) = v
  BY DEF Pending
<1>3. quiet \in [Read -> Nat]
  BY DEF AdmissionInv, TypeOK
<1>4. count \in [Read -> Nat]
  BY <1>3
<1>5. ASSUME NEW r \in seen, count[r] >= 2, ~BoundedRead(r)
      PROVE  ~AtWork(r)
  <2>1. ok /\ r \notin worker[v].active /\ quiet[r] > 0
    BY <1>2, <1>3, <1>5
  <2> QED BY <1>5, <2>1, AbsentTwice
<1>6. \A r \in release_expired(v) : r \in Read /\ pc[r] = "pending" /\ BoundedRead(r) /\ VerifierOfRead(r) = v
  BY DEF release_expired, Pending, AdmissionInv, OnlyBoundedLate
<1>7. S \in SUBSET Read
  BY <1>2, <1>6
<1>8. \A r \in S : /\ pc[r] = "pending" /\ VerifierOfRead(r) = v
                   /\ AtWork(r) => BoundedRead(r)
  BY <1>2, <1>5, <1>6
<1>9. /\ worker' \in [Verifier -> WorkerState]
      /\ worker'[v].pc = "sleep" /\ \A u \in Verifier : u # v => worker'[u] = worker[u]
  <2> DEFINE w == [pc |-> "sleep"]
  <2>1. w \in WorkerState /\ w.pc = "sleep"
    BY DEF WorkerState
  <2>2. worker' = [worker EXCEPT ![v] = w]
    OBVIOUS
  <2> HIDE DEF w
  <2> QED BY <2>1, <2>2 DEF AdmissionInv, TypeOK
<1>10. \A r \in Read : r \notin seen => count[r] = quiet[r]
  OBVIOUS
<1> HIDE DEF S, count
<1>11. TypeOK' /\ Placed' /\ SettledRests' /\ OnlyBoundedLate' /\ Known' /\ InReach' /\ Admission'
  BY <1>1, <1>4, <1>7, <1>8, <1>9, ReleaseKeeps
<1>12. /\ \A r \in S : quiet'[r] = 0
       /\ \A r \in Read \ S : quiet'[r] = count[r] /\ pc'[r] = pc[r]
  BY <1>1, <1>7 DEF Release
<1>13. Observed'
  <2> SUFFICES ASSUME NEW r \in Read, ~BoundedRead(r), quiet'[r] > 0
               PROVE  pc'[r] = "pending" /\ (worker'[VerifierOfRead(r)].pc # "sleep" => r \in settled)
    BY DEF Observed, BoundedRead, VerifierOfRead, server
  <2>1. r \notin S /\ quiet'[r] = count[r] /\ pc'[r] = pc[r]
    BY <1>12
  <2>2. CASE r \in seen
    BY <1>2, <1>9, <2>1, <2>2
  <2>3. CASE r \notin seen
    <3>1. pc[r] = "pending" /\ (worker[VerifierOfRead(r)].pc # "sleep" => r \in settled)
      BY <1>10, <2>1, <2>3 DEF AdmissionInv, Observed
    <3>2. VerifierOfRead(r) \in Verifier
      BY DEF AdmissionInv, TypeOK, VerifierOfRead, ReadQueryAssumption
    <3> QED BY <1>9, <2>1, <3>1, <3>2
  <2> QED BY <2>2, <2>3
<1>14. Sweeping'
  <2> SUFFICES ASSUME NEW u \in Verifier, worker'[u].pc = "probe", NEW r \in Read
               PROVE  Probed(u, r)'
    BY DEF Sweeping
  <2>1. u # v /\ worker'[u] = worker[u]
    BY <1>9
  <2>2. Probed(u, r)
    BY <2>1 DEF AdmissionInv, Sweeping
  <2>3. r \in worker[u].ids /\ ~BoundedRead(r) => pc'[r] = pc[r]
    BY <1>8, <1>12, <2>1, <2>2 DEF Probed
  <2> QED BY <2>1, <2>2, <2>3 DEF Probed, BoundedRead, VerifierOfRead, server
<1> QED BY <1>11, <1>13, <1>14 DEF AdmissionInv

\* The nodes a verifier learned answer, or the probe fails.
LEMMA ObserveKeeps ==
  ASSUME ReadQueryAssumption, AdmissionInv, NEW v \in Verifier, Observe(v) \/ ProbeFails(v)
  PROVE  AdmissionInv'
<1>1. CASE Observe(v)
  <2>1. /\ worker[v].pc = "probe" /\ worker[v].left = {} /\ apply_observation(v, validate_observation(v))
        /\ worker' = [worker EXCEPT ![v] = [pc |-> "sleep"]]
        /\ UNCHANGED <<endpoint, cluster, topology, server>>
    BY <1>1 DEF Observe
  <2>2. /\ validate_observation(v) \in BOOLEAN
        /\ validate_observation(v) => worker[v].left = {} /\ worker[v].nodes = topology[v]
    BY <2>1 DEF validate_observation
  <2> QED BY <2>1, <2>2, AnswerKeeps
<1>2. CASE ProbeFails(v)
  <2>1. /\ worker[v].pc = "probe" /\ apply_observation(v, FALSE)
        /\ worker' = [worker EXCEPT ![v] = [pc |-> "sleep"]]
        /\ UNCHANGED <<endpoint, cluster, topology, server>>
    BY <1>2 DEF ProbeFails
  <2> QED BY <2>1, AnswerKeeps
<1> QED BY <1>1, <1>2

\* Every step keeps the invariant.
LEMMA StepKeeps ==
  ASSUME ReadQueryAssumption, AdmissionInv, [Next]_vars
  PROVE  AdmissionInv'
<1>1. ASSUME NEW v \in Verifier, Discover(v) \/ InitializationFails(v) \/ BackoffEnds(v) \/ Work(v)
      PROVE  AdmissionInv'
  BY <1>1, DiscoverKeeps, FailsKeeps, BackoffKeeps, SweepKeeps, ProbeKeeps, ObserveKeeps, WakeKeeps DEF Work
<1>2. ASSUME NEW r \in Read,
             \/ query_with_id(r) \/ fetch(r) \/ DropUnsubmitted(r) \/ ReadToEnd(r) \/ Abandon(r)
             \/ enqueue_abandoned(r) \/ Elapse(r) \/ Renew(r)
      PROVE  AdmissionInv'
  BY <1>2, AdmitKeeps, FetchKeeps, DropKeeps, ReadToEndKeeps, AbandonKeeps, EnqueueKeeps, ElapseKeeps, RenewKeeps
<1>3. ASSUME NEW r \in Read, Arrive(r) \/ Lose(r) \/ (\E n \in Node : FanOut(r, n) \/ EndOn(r, n))
      PROVE  AdmissionInv'
  BY <1>3, ArriveKeeps, LoseKeeps, FanOutKeeps, EndOnKeeps
<1>4. CASE UNCHANGED vars
  <2>1. UNCHANGED <<endpoint, cluster, topology, pc, quiet, late, worker, flight, running, settled>>
    BY <1>4 DEF vars, client, server
  <2>2. TypeOK' /\ Placed' /\ SettledRests' /\ OnlyBoundedLate' /\ Observed' /\ Known' /\ InReach'
    BY <2>1 DEF AdmissionInv, TypeOK, Placed, AtWork, SettledRests, OnlyBoundedLate, Observed, Known, InReach,
                BoundedRead, VerifierOfRead
  <2>3. Sweeping'
    BY <2>1 DEF AdmissionInv, Sweeping, Probed, BoundedRead, VerifierOfRead
  <2>4. Admission'
    BY <2>1 DEF AdmissionInv, Admission, Admitted
  <2> QED BY <2>2, <2>3, <2>4 DEF AdmissionInv
<1> QED BY <1>1, <1>2, <1>3, <1>4, ReconfigureKeeps DEF Next

\* ClickHouse never works on more reads of an endpoint that waits for their end than the
\* endpoint admits: the permit of an abandoned read comes back only when the query is
\* absent from every node it can have reached, or has a limit of its own.
THEOREM AdmissionKept ==
  ASSUME ReadQueryAssumption
  PROVE  Spec => []WorkWithinAdmission
<1>1. Init => AdmissionInv
  BY InvInitial
<1>2. AdmissionInv /\ [Next]_vars => AdmissionInv'
  BY StepKeeps
<1>3. AdmissionInv => WorkWithinAdmission
  BY InvImplies
<1> QED BY <1>1, <1>2, <1>3, PTL DEF Spec

=============================================================================
