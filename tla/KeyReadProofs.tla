--------------------------- MODULE KeyReadProofs ---------------------------
(***************************************************************************)
(* Requests and batches (RequestDispatch), for every set of bodies, every  *)
(* batch size and every number of permits, and lookups by signature        *)
(* (SignatureReads), for every scenario: what the run key_reads checks of  *)
(* the two, of the sum itself.                                             *)
(*                                                                         *)
(* Answers are at their places because until the reply every item of a     *)
(* batch is either refused, with its refusal in its place, or has a task   *)
(* that has put nothing there but its own handler's answer (Placed).       *)
(*                                                                         *)
(* A status is not lost because of what a request knows when it leaves a   *)
(* signature out (StatusOK): the disk cache lacked it in the span it read, *)
(* an absence recorded earlier reaches up to that span (CachesOK), and     *)
(* behind the span begins the chain the head vouched for, up to a tip that *)
(* was not below what is owed (SkippedNotOwed).  A null is not wrong       *)
(* because a cached miss keeps the state of the replicas it was answered   *)
(* from, and replicas never lose a slot (Grows).                           *)
(***************************************************************************)
EXTENDS MCKeyReads, Sequences, FiniteSetTheorems, TLAPS

-----------------------------------------------------------------------------
(* Requests. *)

TaskState == {"none", "waiting", "running", "ended", "joined", "aborted"}

Code == {"parse", "request", "params", "result", "client", "server", "internal", "timeout",
         "panic", "missing", "none"}

AnswerType == [id : RequestIds \cup {"null"}, code : Code]

DispatchTypeOK ==
  /\ body \in RequestBodies /\ emit \in BOOLEAN
  /\ task \in [Dispatch!Items -> TaskState]
  /\ ending \in [Dispatch!Items -> Dispatch!Ending \cup {"none"}]
  /\ used \in [Dispatch!Items -> SUBSET RequestSources] /\ touched \subseteq RequestSources
  /\ responses = <<>> \/ responses \in [Dispatch!Items -> AnswerType]
  /\ reply \in [at : {"none", "sent", "raw", "bare", "closed"}, answers : Seq(AnswerType),
                status : {0, 200, 503}, sources : SUBSET RequestSources]

Limit == IF BatchPermits < 1 THEN 1 ELSE BatchPermits

\* Until the reply: a refused item has its refusal and no task, a joined task its own
\* handler's answer at its place.
Placed(i) ==
  /\ task[i] = "none" => Dispatch!Refused(body.items[i]) /\ responses[i] = Dispatch!Refusal(body.items[i])
  /\ task[i] # "none" => ~Dispatch!Refused(body.items[i])
  /\ task[i] = "joined" => ending[i] \in Dispatch!Ending \ {"panic"} /\ responses[i] = Dispatch!Joined(i)

OpenInv ==
  /\ \A i \in Dispatch!Items : task[i] # "aborted"
  /\ \A i \in Dispatch!Items : task[i] = "ended" => ending[i] \in Dispatch!Ending
  /\ responses = <<>> /\ body.kind = "batch" => \A i \in Dispatch!Items : task[i] = "none"
  /\ responses # <<>> => /\ body.kind = "batch" /\ Len(body.items) \in 1 .. BatchMax
                         /\ \A i \in Dispatch!Items : Placed(i)

DispatchInv ==
  /\ DispatchTypeOK
  /\ \A i \in Dispatch!Items : used[i] \subseteq touched
  /\ reply.at = "none" => OpenInv
  /\ Dispatch!BatchInOrder /\ Dispatch!StatusTrue
  /\ Dispatch!SourcesReported /\ Dispatch!HandlersBounded

\* A body is a sequence of items, and its indices are those of the tasks.
LEMMA BodyFacts ==
  ASSUME DispatchTypeOK
  PROVE  /\ body \in [kind : Dispatch!Kind, items : Seq([id : RequestIds, form : Dispatch!Form])]
         /\ body.kind = "single" => Len(body.items) = 1
         /\ Dispatch!Items = 1 .. Len(body.items) /\ Len(body.items) \in Nat
         /\ \A i \in Dispatch!Items : body.items[i] \in [id : RequestIds, form : Dispatch!Form]
         /\ BatchMax \in Nat /\ BatchPermits \in Nat
<1>1. /\ body \in [kind : Dispatch!Kind, items : Seq([id : RequestIds, form : Dispatch!Form])]
      /\ body.kind = "single" => Len(body.items) = 1
  BY DispatchAssumption DEF DispatchTypeOK, Dispatch!RequestDispatchAssumption
<1>2. Dispatch!Items = 1 .. Len(body.items) /\ Len(body.items) \in Nat
  BY <1>1 DEF Dispatch!Items
<1>3. \A i \in Dispatch!Items : body.items[i] \in [id : RequestIds, form : Dispatch!Form]
  <2> DEFINE I == [id : RequestIds, form : Dispatch!Form]
  <2>1. body.items \in Seq(I)
    BY <1>1
  <2> HIDE DEF I
  <2>2. \A i \in 1 .. Len(body.items) : body.items[i] \in I
    BY <2>1
  <2> QED BY <2>2, <1>2 DEF I
<1>4. BatchMax \in Nat /\ BatchPermits \in Nat
  BY DispatchAssumption DEF Dispatch!RequestDispatchAssumption
<1> QED BY <1>1, <1>2, <1>3, <1>4

\* The instance counts as FiniteSets does.
LEMMA SameCount ==
  ASSUME NEW S
  PROVE  Dispatch!Cardinality(S) = Cardinality(S)
BY DEF Dispatch!Cardinality, Cardinality

\* The request as it arrives.
LEMMA DispatchInitial ==
  ASSUME Dispatch!Init
  PROVE  DispatchInv
<1>1. DispatchTypeOK
  BY DEF Dispatch!Init, DispatchTypeOK, TaskState, Dispatch!Ending
<1>2. Dispatch!Running = {}
  BY DEF Dispatch!Init, Dispatch!Running
<1>3. Dispatch!HandlersBounded
  <2>1. Cardinality(Dispatch!Running) = 0
    BY <1>2, FS_EmptySet
  <2> QED BY <1>1, <2>1, BodyFacts, SameCount DEF Dispatch!Init, Dispatch!HandlersBounded
<1>4. (\A i \in Dispatch!Items : used[i] \subseteq touched) /\ OpenInv
  BY DEF Dispatch!Init, OpenInv
<1> QED BY <1>1, <1>3, <1>4
        DEF DispatchInv, Dispatch!Init, Dispatch!BatchInOrder, Dispatch!StatusTrue, Dispatch!SourcesReported

\* A reply with the answers it has, its status and the sources marked until then.
LEMMA ReplyFacts ==
  ASSUME DispatchTypeOK, NEW answers \in Seq(AnswerType), Dispatch!Reply(answers)
  PROVE  /\ reply'.at = "sent" /\ reply'.answers = answers /\ reply'.sources = touched
         /\ reply' \in [at : {"none", "sent", "raw", "bare", "closed"}, answers : Seq(AnswerType),
                        status : {0, 200, 503}, sources : SUBSET RequestSources]
         /\ reply'.status = 503 <=>
              emit /\ \E i \in DOMAIN reply'.answers : reply'.answers[i].code \in {"server", "internal", "timeout"}
BY DEF Dispatch!Reply, Dispatch!Eligible, DispatchTypeOK

\* The answers given without a task, and the one of a single call.
LEMMA OneAnswer ==
  ASSUME NEW id \in RequestIds \cup {"null"}, NEW code \in Code
  PROVE  <<Dispatch!Answer(id, code)>> \in Seq(AnswerType)
BY DEF Dispatch!Answer, AnswerType

\* A step that starts no handler leaves no more of them at work.
LEMMA FewerRunning ==
  ASSUME DispatchTypeOK, Dispatch!HandlersBounded, Dispatch!Running' \subseteq Dispatch!Running
  PROVE  Cardinality(Dispatch!Running') <= Limit
<1>1. IsFiniteSet(Dispatch!Running)
  <2>1. IsFiniteSet(1 .. Len(body.items)) /\ Dispatch!Running \subseteq 1 .. Len(body.items)
    BY BodyFacts, FS_Interval DEF Dispatch!Running
  <2> QED BY <2>1, FS_Subset
<1>2. Cardinality(Dispatch!Running') <= Cardinality(Dispatch!Running)
      /\ Cardinality(Dispatch!Running) \in Nat /\ Cardinality(Dispatch!Running') \in Nat
  BY <1>1, FS_Subset, FS_CardinalityType
<1>3. Cardinality(Dispatch!Running) <= Limit /\ Limit \in Nat
  BY BodyFacts, SameCount DEF Dispatch!HandlersBounded, Limit
<1> QED BY <1>2, <1>3

\* What the properties need of a step that replies.
LEMMA RepliedInv ==
  ASSUME DispatchInv, DispatchTypeOK', reply.at = "none", reply'.at # "none",
         UNCHANGED <<body, emit, used, touched>>,
         reply'.at \in {"sent", "raw"} => reply'.sources = touched,
         \A i \in Dispatch!Items : task'[i] \in {"none", "joined", "aborted"},
         Dispatch!BatchInOrder', Dispatch!StatusTrue'
  PROVE  DispatchInv'
<1>1. Dispatch!Items' = Dispatch!Items
  BY DEF Dispatch!Items
<1>2. Cardinality(Dispatch!Running') <= Limit
  <2>1. Dispatch!Running' \subseteq Dispatch!Running
    BY <1>1 DEF Dispatch!Running
  <2> QED BY <2>1, FewerRunning DEF DispatchInv
<1>3. Dispatch!HandlersBounded'
  BY <1>1, <1>2, SameCount DEF Dispatch!HandlersBounded, Limit
<1>4. Dispatch!SourcesReported' /\ \A i \in Dispatch!Items' : used'[i] \subseteq touched'
  BY <1>1 DEF Dispatch!SourcesReported, DispatchInv
<1> QED BY <1>3, <1>4 DEF DispatchInv

\* What they need of a step that does not.
LEMMA UnrepliedInv ==
  ASSUME DispatchInv, DispatchTypeOK', reply.at = "none", UNCHANGED <<body, emit, reply>>,
         \A i \in Dispatch!Items : used'[i] \subseteq touched', OpenInv',
         Cardinality(Dispatch!Running') <= Limit
  PROVE  DispatchInv'
BY SameCount DEF DispatchInv, Dispatch!BatchInOrder, Dispatch!StatusTrue, Dispatch!SourcesReported,
       Dispatch!HandlersBounded, Limit, Dispatch!Items

\* An answer of its own, before any task ran (handle_json_rpc_with_headers and the
\* checks of a batch).
LEMMA ReplyOnlyKeeps ==
  ASSUME DispatchInv, Dispatch!Received, NEW code \in {"parse", "request"},
         Dispatch!ReplyOnly("null", code),
         body.kind # "batch" \/ ~(Len(body.items) \in 1 .. BatchMax)
  PROVE  DispatchInv'
<1> USE DEF DispatchInv
<1> DEFINE a == <<Dispatch!Answer("null", code)>>
<1>1. a \in Seq(AnswerType) /\ Dispatch!Reply(a)
  BY OneAnswer DEF Code, Dispatch!ReplyOnly
<1> HIDE DEF a
<1>2. /\ reply'.at = "sent" /\ reply'.sources = touched
      /\ reply' \in [at : {"none", "sent", "raw", "bare", "closed"}, answers : Seq(AnswerType),
                     status : {0, 200, 503}, sources : SUBSET RequestSources]
      /\ reply'.status = 503 <=> emit /\ \E i \in DOMAIN reply'.answers :
                                           reply'.answers[i].code \in {"server", "internal", "timeout"}
  BY <1>1, ReplyFacts
<1>3. DispatchTypeOK'
  BY <1>2 DEF DispatchTypeOK, Dispatch!ReplyOnly, Dispatch!Items
<1>4. Dispatch!StatusTrue'
  BY <1>2 DEF Dispatch!StatusTrue, Dispatch!ReplyOnly
<1>5. Dispatch!BatchInOrder'
  BY DEF Dispatch!BatchInOrder, Dispatch!ReplyOnly
<1>6. reply.at = "none" /\ \A i \in Dispatch!Items : task'[i] = "none"
  BY DEF Dispatch!Received, Dispatch!ReplyOnly
<1>7. UNCHANGED <<body, emit, used, touched>>
  BY DEF Dispatch!ReplyOnly
<1> QED BY <1>2, <1>3, <1>4, <1>5, <1>6, <1>7, RepliedInv

\* A single call is refused, or its handler starts.
LEMMA SingleKeeps ==
  ASSUME DispatchInv, Dispatch!handle_single_request
  PROVE  DispatchInv'
<1> USE DEF DispatchInv
<1> DEFINE item == body.items[1]
<1>1. reply.at = "none" /\ body.kind = "single" /\ Dispatch!Items = 1 .. 1 /\ 1 \in Dispatch!Items
      /\ item \in [id : RequestIds, form : Dispatch!Form]
      /\ UNCHANGED <<body, emit, ending, used, touched, responses>>
  BY BodyFacts DEF Dispatch!handle_single_request, Dispatch!Received
<1>2. CASE Dispatch!Refused(item) /\ Dispatch!Reply(<<Dispatch!Refusal(item)>>) /\ UNCHANGED task
  <2> DEFINE a == <<Dispatch!Refusal(item)>>
  <2>1. a \in Seq(AnswerType) /\ Dispatch!Reply(a)
    BY <1>1, <1>2, OneAnswer DEF Dispatch!Refusal, Code
  <2> HIDE DEF a
  <2>2. /\ reply'.at = "sent" /\ reply'.sources = touched
        /\ reply' \in [at : {"none", "sent", "raw", "bare", "closed"}, answers : Seq(AnswerType),
                       status : {0, 200, 503}, sources : SUBSET RequestSources]
        /\ reply'.status = 503 <=> emit /\ \E i \in DOMAIN reply'.answers :
                                             reply'.answers[i].code \in {"server", "internal", "timeout"}
    BY <2>1, ReplyFacts
  <2>3. DispatchTypeOK'
    BY <1>1, <1>2, <2>2 DEF DispatchTypeOK, Dispatch!Items
  <2>4. Dispatch!StatusTrue' /\ Dispatch!BatchInOrder'
    BY <1>1, <2>2 DEF Dispatch!StatusTrue, Dispatch!BatchInOrder
  <2>5. \A i \in Dispatch!Items : task'[i] = "none"
    BY <1>2 DEF Dispatch!handle_single_request, Dispatch!Received
  <2> QED BY <1>1, <2>2, <2>3, <2>4, <2>5, RepliedInv
<1>3. CASE ~Dispatch!Refused(item) /\ task' = [task EXCEPT ![1] = "running"] /\ UNCHANGED reply
  <2>1. DispatchTypeOK'
    BY <1>1, <1>3 DEF DispatchTypeOK, Dispatch!Items, TaskState
  <2>2. \A i \in Dispatch!Items : used'[i] \subseteq touched'
    BY <1>1
  <2>3. responses = <<>>
    BY <1>1 DEF OpenInv
  <2>4. OpenInv'
    BY <1>1, <1>3, <2>3 DEF OpenInv, DispatchTypeOK, TaskState, Dispatch!Items
  <2>5. Dispatch!Running' \subseteq {1}
    BY <1>1 DEF Dispatch!Running, Dispatch!Items
  <2>6. Cardinality(Dispatch!Running') <= Limit
    <3>1. IsFiniteSet({1}) /\ Cardinality({1}) = 1
      BY FS_Singleton
    <3>2. Cardinality(Dispatch!Running') <= 1 /\ Cardinality(Dispatch!Running') \in Nat
      BY <2>5, <3>1, FS_Subset, FS_CardinalityType
    <3>3. 1 <= Limit /\ Limit \in Nat
      BY BodyFacts DEF Limit
    <3> QED BY <3>2, <3>3
  <2> QED BY <1>1, <1>3, <2>1, <2>2, <2>4, <2>6, UnrepliedInv
<1> QED BY <1>2, <1>3 DEF Dispatch!handle_single_request

\* A batch is refused as a whole, or its calls wait for their permits.
LEMMA BatchKeeps ==
  ASSUME DispatchInv, Dispatch!handle_batch_request
  PROVE  DispatchInv'
<1> USE DEF DispatchInv
<1>1. Dispatch!Received /\ reply.at = "none" /\ body.kind = "batch" /\ responses = <<>>
  BY DEF Dispatch!handle_batch_request, Dispatch!Received
<1>2. CASE (body.items = <<>> \/ Len(body.items) > BatchMax) /\ Dispatch!ReplyOnly("null", "request")
  <2>1. ~(Len(body.items) \in 1 .. BatchMax)
    BY <1>2, BodyFacts
  <2> QED BY <1>1, <1>2, <2>1, ReplyOnlyKeeps
<1>3. CASE /\ Len(body.items) \in 1 .. BatchMax
           /\ task' = [i \in Dispatch!Items |-> IF Dispatch!Refused(body.items[i]) THEN "none" ELSE "waiting"]
           /\ responses' = [i \in Dispatch!Items |-> IF Dispatch!Refused(body.items[i])
                                                     THEN Dispatch!Refusal(body.items[i]) ELSE Dispatch!NoAnswer]
           /\ UNCHANGED <<body, emit, ending, used, touched, reply>>
  <2>0. Dispatch!Items' = Dispatch!Items
    BY <1>3 DEF Dispatch!Items
  <2>1. \A i \in Dispatch!Items : Dispatch!Refusal(body.items[i]) \in AnswerType
    BY BodyFacts DEF Dispatch!Refusal, Dispatch!Answer, AnswerType, Code
  <2>2. Dispatch!NoAnswer \in AnswerType
    BY DEF Dispatch!NoAnswer, Dispatch!Null, AnswerType, Code
  <2>3. responses' \in [Dispatch!Items' -> AnswerType]
    BY <1>3, <2>0, <2>1, <2>2
  <2>4. DispatchTypeOK'
    BY <1>3, <2>0, <2>3 DEF DispatchTypeOK, TaskState
  <2>5. \A i \in Dispatch!Items : Placed(i)'
    BY <1>3, <2>0 DEF Placed, Dispatch!Refused
  <2>6. responses' # <<>>
    <3>1. 1 \in Dispatch!Items
      BY <1>3, BodyFacts
    <3>2. 1 \in DOMAIN responses'
      BY <3>1, <1>3
    <3> QED BY <3>2
  <2>7. OpenInv'
    BY <1>1, <1>3, <2>0, <2>5, <2>6 DEF OpenInv
  <2>8. Cardinality(Dispatch!Running') <= Limit
    <3>1. Dispatch!Running' \subseteq Dispatch!Running
      BY <1>3, <2>0 DEF Dispatch!Running
    <3> QED BY <3>1, FewerRunning
  <2> QED BY <1>1, <1>3, <2>4, <2>7, <2>8, UnrepliedInv
<1> QED BY <1>2, <1>3 DEF Dispatch!handle_batch_request, Dispatch!Null

\* A waiting task takes a permit.
LEMMA AcquireKeeps ==
  ASSUME DispatchInv, NEW i \in Dispatch!Items, Dispatch!acquire(i)
  PROVE  DispatchInv'
<1> USE DEF DispatchInv
<1>1. /\ reply.at = "none" /\ body.kind = "batch" /\ task[i] = "waiting"
      /\ task' = [task EXCEPT ![i] = "running"]
      /\ UNCHANGED <<body, emit, ending, used, touched, responses, reply>>
      /\ Cardinality(Dispatch!Running) < Dispatch!Parallelism
  BY SameCount DEF Dispatch!acquire
<1>2. Dispatch!Items' = Dispatch!Items
  BY <1>1 DEF Dispatch!Items
<1>3. DispatchTypeOK'
  BY <1>1, <1>2 DEF DispatchTypeOK, TaskState
<1>4. OpenInv'
  <2>1. \A k \in Dispatch!Items : Placed(k) => Placed(k)'
    BY <1>1, <1>2 DEF Placed, DispatchTypeOK, Dispatch!Joined
  <2> QED BY <1>1, <1>2, <2>1 DEF OpenInv, DispatchTypeOK
<1>5. Cardinality(Dispatch!Running') <= Limit
  <2>1. Dispatch!Running' = Dispatch!Running \cup {i} /\ i \notin Dispatch!Running
    BY <1>1, <1>2 DEF Dispatch!Running, DispatchTypeOK
  <2>2. IsFiniteSet(Dispatch!Running)
    <3>1. IsFiniteSet(1 .. Len(body.items)) /\ Dispatch!Running \subseteq 1 .. Len(body.items)
      BY BodyFacts, FS_Interval DEF Dispatch!Running
    <3> QED BY <3>1, FS_Subset
  <2>3. Cardinality(Dispatch!Running') = Cardinality(Dispatch!Running) + 1
        /\ Cardinality(Dispatch!Running) \in Nat
    BY <2>1, <2>2, FS_AddElement, FS_CardinalityType
  <2>4. Dispatch!Parallelism <= Limit /\ Dispatch!Parallelism \in Nat /\ Limit \in Nat
    BY BodyFacts DEF Dispatch!Parallelism, Limit
  <2> QED BY <1>1, <2>3, <2>4
<1> QED BY <1>1, <1>3, <1>4, <1>5, UnrepliedInv

\* A source is marked where it is read.
LEMMA MarkKeeps ==
  ASSUME DispatchInv, NEW i \in Dispatch!Items, NEW s \in RequestSources, Dispatch!mark_source_touched(i, s)
  PROVE  DispatchInv'
<1> USE DEF DispatchInv
<1>1. /\ reply.at = "none"
      /\ used' = [used EXCEPT ![i] = @ \cup {s}] /\ touched' = touched \cup {s}
      /\ UNCHANGED <<body, emit, task, ending, responses, reply>>
  BY DEF Dispatch!mark_source_touched
<1>2. Dispatch!Items' = Dispatch!Items
  BY <1>1 DEF Dispatch!Items
<1>3. DispatchTypeOK'
  <2>1. used' \in [Dispatch!Items -> SUBSET RequestSources] /\ touched' \subseteq RequestSources
    BY <1>1 DEF DispatchTypeOK
  <2> QED BY <1>1, <1>2, <2>1 DEF DispatchTypeOK
<1>4. OpenInv'
  BY <1>1, <1>2 DEF OpenInv, Placed, Dispatch!Joined
<1>5. Cardinality(Dispatch!Running') <= Limit
  <2>1. Dispatch!Running' \subseteq Dispatch!Running
    BY <1>1, <1>2 DEF Dispatch!Running
  <2> QED BY <2>1, FewerRunning
<1>6. \A k \in Dispatch!Items : used'[k] \subseteq touched'
  BY <1>1 DEF DispatchTypeOK
<1> QED BY <1>1, <1>3, <1>4, <1>5, <1>6, UnrepliedInv

\* A task of a batch ends.
LEMMA EndKeeps ==
  ASSUME DispatchInv, NEW i \in Dispatch!Items, NEW e \in Dispatch!Ending, Dispatch!TaskEnds(i, e)
  PROVE  DispatchInv'
<1> USE DEF DispatchInv
<1>1. /\ reply.at = "none" /\ body.kind = "batch" /\ task[i] = "running"
      /\ task' = [task EXCEPT ![i] = "ended"] /\ ending' = [ending EXCEPT ![i] = e]
      /\ UNCHANGED <<body, emit, used, touched, responses, reply>>
  BY DEF Dispatch!TaskEnds
<1>2. Dispatch!Items' = Dispatch!Items
  BY <1>1 DEF Dispatch!Items
<1>3. DispatchTypeOK'
  BY <1>1, <1>2 DEF DispatchTypeOK, TaskState
<1>4. OpenInv'
  <2>1. \A k \in Dispatch!Items : Placed(k) => Placed(k)'
    BY <1>1, <1>2 DEF Placed, DispatchTypeOK, Dispatch!Joined
  <2> QED BY <1>1, <1>2, <2>1 DEF OpenInv, DispatchTypeOK
<1>5. Cardinality(Dispatch!Running') <= Limit
  <2>1. Dispatch!Running' \subseteq Dispatch!Running
    BY <1>1, <1>2 DEF Dispatch!Running, DispatchTypeOK
  <2> QED BY <2>1, FewerRunning
<1> QED BY <1>1, <1>3, <1>4, <1>5, UnrepliedInv

\* The tasks that a dropped join set leaves.
LEMMA AbortedFacts ==
  ASSUME DispatchTypeOK
  PROVE  /\ Dispatch!Aborted \in [Dispatch!Items -> TaskState]
         /\ \A i \in Dispatch!Items : Dispatch!Aborted[i] \in {"none", "aborted"}
         /\ \A i \in Dispatch!Items : task[i] # "none" => Dispatch!Aborted[i] = "aborted"
BY DEF Dispatch!Aborted, TaskState

\* A single call's handler ends, which is the reply.
LEMMA DispatchKeeps ==
  ASSUME DispatchInv, NEW e \in Dispatch!Ending, Dispatch!dispatch_json_rpc_request(e)
  PROVE  DispatchInv'
<1> USE DEF DispatchInv
<1>1. /\ reply.at = "none" /\ body.kind = "single" /\ Dispatch!Items = 1 .. 1 /\ 1 \in Dispatch!Items
      /\ body.items[1] \in [id : RequestIds, form : Dispatch!Form]
      /\ task' = [task EXCEPT ![1] = "joined"] /\ ending' = [ending EXCEPT ![1] = e]
      /\ UNCHANGED <<body, emit, used, touched, responses>>
  BY BodyFacts DEF Dispatch!dispatch_json_rpc_request
<1>2. Dispatch!Items' = Dispatch!Items
  BY <1>1 DEF Dispatch!Items
<1>3. \A i \in Dispatch!Items : task'[i] \in {"none", "joined", "aborted"}
  BY <1>1 DEF DispatchTypeOK
<1>4. task' \in [Dispatch!Items -> TaskState] /\ ending' \in [Dispatch!Items -> Dispatch!Ending \cup {"none"}]
  BY <1>1 DEF DispatchTypeOK, TaskState
<1>5. Dispatch!BatchInOrder'
  BY <1>1 DEF Dispatch!BatchInOrder
<1>6. CASE e \in {"result", "client", "server"} /\ Dispatch!Reply(<<Dispatch!Answer(body.items[1].id, e)>>)
  <2> DEFINE a == <<Dispatch!Answer(body.items[1].id, e)>>
  <2>1. a \in Seq(AnswerType) /\ Dispatch!Reply(a)
    <3>1. body.items[1].id \in RequestIds \cup {"null"} /\ e \in Code
      BY <1>1, <1>6 DEF Code
    <3> QED BY <1>6, <3>1, OneAnswer
  <2> HIDE DEF a
  <2>2. /\ reply'.at = "sent" /\ reply'.sources = touched
        /\ reply' \in [at : {"none", "sent", "raw", "bare", "closed"}, answers : Seq(AnswerType),
                       status : {0, 200, 503}, sources : SUBSET RequestSources]
        /\ reply'.status = 503 <=> emit /\ \E i \in DOMAIN reply'.answers :
                                             reply'.answers[i].code \in {"server", "internal", "timeout"}
    BY <2>1, ReplyFacts
  <2>3. DispatchTypeOK'
    BY <1>1, <1>2, <1>4, <2>2 DEF DispatchTypeOK
  <2>4. Dispatch!StatusTrue'
    BY <1>1, <2>2 DEF Dispatch!StatusTrue
  <2> QED BY <1>1, <1>3, <1>5, <2>2, <2>3, <2>4, RepliedInv
<1>7. CASE \/ e = "garbled" /\ reply' = [reply EXCEPT !.at = "raw", !.sources = touched]
           \/ e = "status" /\ reply' = [reply EXCEPT !.at = "bare"]
           \/ e = "panic" /\ reply' = [reply EXCEPT !.at = "closed"]
  <2>1. /\ reply' \in [at : {"none", "sent", "raw", "bare", "closed"}, answers : Seq(AnswerType),
                       status : {0, 200, 503}, sources : SUBSET RequestSources]
        /\ reply'.at \in {"raw", "bare", "closed"} /\ (reply'.at = "raw" => reply'.sources = touched)
    <3>1. reply \in [at : {"none", "sent", "raw", "bare", "closed"}, answers : Seq(AnswerType),
                    status : {0, 200, 503}, sources : SUBSET RequestSources] /\ touched \subseteq RequestSources
      BY DEF DispatchTypeOK
    <3> DEFINE A == Seq(AnswerType)
               T == [at : {"none", "sent", "raw", "bare", "closed"}, answers : A,
                     status : {0, 200, 503}, sources : SUBSET RequestSources]
    <3>2. reply \in T /\ touched \in SUBSET RequestSources
      BY <3>1
    <3> HIDE DEF A
    <3>3. /\ [reply EXCEPT !.at = "raw", !.sources = touched] \in T
          /\ [reply EXCEPT !.at = "raw", !.sources = touched].at = "raw"
          /\ [reply EXCEPT !.at = "raw", !.sources = touched].sources = touched
          /\ [reply EXCEPT !.at = "bare"] \in T /\ [reply EXCEPT !.at = "bare"].at = "bare"
          /\ [reply EXCEPT !.at = "closed"] \in T /\ [reply EXCEPT !.at = "closed"].at = "closed"
      BY <3>2
    <3>4. reply' \in T /\ reply'.at \in {"raw", "bare", "closed"} /\ (reply'.at = "raw" => reply'.sources = touched)
      <4> HIDE DEF T
      <4> QED BY <1>7, <3>3
    <3> QED BY <3>4 DEF A
  <2>2. DispatchTypeOK'
    BY <1>1, <1>2, <1>4, <2>1 DEF DispatchTypeOK
  <2>3. Dispatch!StatusTrue'
    BY <2>1 DEF Dispatch!StatusTrue
  <2> QED BY <1>1, <1>3, <1>5, <2>1, <2>2, <2>3, RepliedInv
<1> QED BY <1>6, <1>7 DEF Dispatch!dispatch_json_rpc_request

\* The reply of a whole request that leaves a task unanswered: a panic, the timeout.
LEMMA GiveUpKeeps ==
  ASSUME DispatchInv, reply.at = "none", NEW id \in RequestIds \cup {"null"}, NEW code \in {"internal", "timeout"},
         Dispatch!Reply(<<Dispatch!Answer(id, code)>>), task' = Dispatch!Aborted,
         \E i \in Dispatch!Items : task[i] # "none",
         UNCHANGED <<body, emit, ending, used, touched, responses>>
  PROVE  DispatchInv'
<1> USE DEF DispatchInv
<1> DEFINE a == <<Dispatch!Answer(id, code)>>
<1>1. a \in Seq(AnswerType) /\ Dispatch!Reply(a)
  BY OneAnswer DEF Code
<1> HIDE DEF a
<1>2. /\ reply'.at = "sent" /\ reply'.sources = touched
      /\ reply' \in [at : {"none", "sent", "raw", "bare", "closed"}, answers : Seq(AnswerType),
                     status : {0, 200, 503}, sources : SUBSET RequestSources]
      /\ reply'.status = 503 <=> emit /\ \E i \in DOMAIN reply'.answers :
                                           reply'.answers[i].code \in {"server", "internal", "timeout"}
  BY <1>1, ReplyFacts
<1>3. Dispatch!Items' = Dispatch!Items
  BY DEF Dispatch!Items
<1>4. DispatchTypeOK'
  BY <1>2, <1>3, AbortedFacts DEF DispatchTypeOK
<1>5. Dispatch!StatusTrue'
  BY <1>2 DEF Dispatch!StatusTrue
<1>6. Dispatch!BatchInOrder'
  BY <1>3, AbortedFacts DEF Dispatch!BatchInOrder
<1>7. \A i \in Dispatch!Items : task'[i] \in {"none", "joined", "aborted"}
  BY AbortedFacts
<1> QED BY <1>2, <1>4, <1>5, <1>6, <1>7, RepliedInv

\* A task is joined: its answer goes to its place, or its panic ends the request.
LEMMA JoinKeeps ==
  ASSUME DispatchInv, NEW i \in Dispatch!Items, Dispatch!join_next(i)
  PROVE  DispatchInv'
<1> USE DEF DispatchInv
<1>1. /\ reply.at = "none" /\ body.kind = "batch" /\ task[i] = "ended"
      /\ UNCHANGED <<body, emit, ending, used, touched>>
  BY DEF Dispatch!join_next
<1>2. Dispatch!Items' = Dispatch!Items
  BY <1>1 DEF Dispatch!Items
<1>3. CASE /\ ending[i] # "panic" /\ task' = [task EXCEPT ![i] = "joined"]
           /\ responses' = Dispatch!Place(i) /\ UNCHANGED reply
  <2>1. responses # <<>> /\ responses \in [Dispatch!Items -> AnswerType]
    BY <1>1 DEF OpenInv, DispatchTypeOK
  <2>2. Dispatch!Joined(i) \in AnswerType
    BY <1>1, BodyFacts DEF Dispatch!Joined, Dispatch!Answer, AnswerType, Code, OpenInv, Dispatch!Ending
  <2>3. responses' = [responses EXCEPT ![i] = Dispatch!Joined(i)]
    BY <1>3 DEF Dispatch!Place
  <2>4. responses' \in [Dispatch!Items -> AnswerType] /\ responses' # <<>>
    <3>1. responses' \in [Dispatch!Items -> AnswerType]
      BY <2>1, <2>2, <2>3
    <3>2. i \in DOMAIN responses'
      BY <3>1
    <3> QED BY <3>1, <3>2
  <2>5. DispatchTypeOK'
    BY <1>1, <1>2, <1>3, <2>4 DEF DispatchTypeOK, TaskState
  <2>6. \A k \in Dispatch!Items : Placed(k)'
    <3>1. \A k \in Dispatch!Items : Dispatch!Joined(k)' = Dispatch!Joined(k)
      BY <1>1 DEF Dispatch!Joined
    <3>2. Placed(i)'
      <4>1. task'[i] = "joined" /\ responses'[i] = Dispatch!Joined(i)
        BY <1>3, <2>1, <2>3 DEF DispatchTypeOK
      <4>2. ending[i] \in Dispatch!Ending \ {"panic"} /\ ~Dispatch!Refused(body.items[i])
        BY <1>1, <1>3, <2>1 DEF OpenInv, Placed
      <4> QED BY <1>1, <3>1, <4>1, <4>2 DEF Placed
    <3>3. ASSUME NEW k \in Dispatch!Items, k # i PROVE Placed(k)'
      <4>1. task'[k] = task[k] /\ responses'[k] = responses[k]
        BY <1>3, <2>1, <2>3, <3>3 DEF DispatchTypeOK
      <4>2. Placed(k)
        BY <1>1, <2>1 DEF OpenInv
      <4> QED BY <1>1, <3>1, <4>1, <4>2 DEF Placed
    <3> QED BY <3>2, <3>3
  <2>7. OpenInv'
    BY <1>1, <1>2, <1>3, <2>1, <2>4, <2>6 DEF OpenInv, DispatchTypeOK
  <2>8. Cardinality(Dispatch!Running') <= Limit
    <3>1. Dispatch!Running' \subseteq Dispatch!Running
      BY <1>2, <1>3 DEF Dispatch!Running, DispatchTypeOK
    <3> QED BY <3>1, FewerRunning
  <2> QED BY <1>1, <1>3, <2>5, <2>7, <2>8, UnrepliedInv
<1>4. CASE Dispatch!Reply(<<Dispatch!Answer("null", "internal")>>) /\ task' = Dispatch!Aborted /\ UNCHANGED responses
  <2>1. \E k \in Dispatch!Items : task[k] # "none"
    BY <1>1
  <2> QED BY <1>1, <1>4, <2>1, GiveUpKeeps
<1> QED BY <1>3, <1>4 DEF Dispatch!join_next, Dispatch!Null

\* All tasks are joined: the reply has every answer, at its place.
LEMMA CollectKeeps ==
  ASSUME DispatchInv, Dispatch!collect
  PROVE  DispatchInv'
<1> USE DEF DispatchInv
<1>1. /\ reply.at = "none" /\ body.kind = "batch" /\ responses # <<>>
      /\ \A i \in Dispatch!Items : task[i] \in {"none", "joined"}
      /\ Dispatch!Reply(Dispatch!Flattened(responses))
      /\ UNCHANGED <<body, emit, task, ending, used, touched, responses>>
  BY DEF Dispatch!collect
<1>2. Dispatch!Items' = Dispatch!Items
  BY <1>1 DEF Dispatch!Items
<1>3. /\ responses \in [Dispatch!Items -> AnswerType] /\ \A i \in Dispatch!Items : Placed(i)
      /\ Len(body.items) \in 1 .. BatchMax
  BY <1>1 DEF OpenInv, DispatchTypeOK
<1>4. \A i \in Dispatch!Items :
        /\ responses[i].id = body.items[i].id
        /\ responses[i] = (IF task[i] = "none" THEN Dispatch!Refusal(body.items[i]) ELSE Dispatch!Joined(i))
        /\ Dispatch!Refused(body.items[i]) <=> task[i] = "none"
        /\ responses[i].code \in (IF task[i] = "none" THEN {"request", "params"}
                                  ELSE {"result", "client", "server", "internal"})
  <2> SUFFICES ASSUME NEW i \in Dispatch!Items
               PROVE  /\ responses[i].id = body.items[i].id
                      /\ responses[i] = (IF task[i] = "none" THEN Dispatch!Refusal(body.items[i]) ELSE Dispatch!Joined(i))
                      /\ Dispatch!Refused(body.items[i]) <=> task[i] = "none"
                      /\ responses[i].code \in (IF task[i] = "none" THEN {"request", "params"}
                                                ELSE {"result", "client", "server", "internal"})
    OBVIOUS
  <2>1. CASE task[i] = "none"
    BY <1>3, <2>1 DEF Placed, Dispatch!Refusal, Dispatch!Answer
  <2>2. CASE task[i] = "joined"
    BY <1>3, <2>2 DEF Placed, Dispatch!Joined, Dispatch!Answer, Dispatch!Ending
  <2> QED BY <1>1, <2>1, <2>2
<1>5. Dispatch!Flattened(responses) = responses
  <2>1. \A i \in DOMAIN responses : responses[i] # Dispatch!NoAnswer
    BY <1>3, <1>4 DEF Dispatch!NoAnswer
  <2> QED BY <2>1 DEF Dispatch!Flattened
<1>6. responses \in Seq(AnswerType) /\ Len(responses) = Len(body.items)
  BY <1>3, BodyFacts
<1>7. /\ reply'.at = "sent" /\ reply'.answers = responses /\ reply'.sources = touched
      /\ reply' \in [at : {"none", "sent", "raw", "bare", "closed"}, answers : Seq(AnswerType),
                     status : {0, 200, 503}, sources : SUBSET RequestSources]
      /\ reply'.status = 503 <=> emit /\ \E i \in DOMAIN reply'.answers :
                                           reply'.answers[i].code \in {"server", "internal", "timeout"}
  BY <1>1, <1>5, <1>6, ReplyFacts
<1>8. DispatchTypeOK'
  BY <1>1, <1>2, <1>7 DEF DispatchTypeOK
<1>9. Dispatch!StatusTrue'
  BY <1>1, <1>7 DEF Dispatch!StatusTrue
<1>10. Dispatch!BatchInOrder'
  <2>1. \A i \in Dispatch!Items :
          /\ responses[i].id = body.items[i].id
          /\ responses[i] \in {Dispatch!Refusal(body.items[i]), Dispatch!Joined(i)'}
          /\ Dispatch!Refused(body.items[i]) <=> responses[i].code \in {"request", "params"}
    <3>1. \A i \in Dispatch!Items : Dispatch!Joined(i)' = Dispatch!Joined(i)
      BY <1>1 DEF Dispatch!Joined
    <3> QED BY <1>4, <3>1
  <2> QED BY <1>1, <1>2, <1>6, <1>7, <2>1 DEF Dispatch!BatchInOrder
<1> QED BY <1>1, <1>7, <1>8, <1>9, <1>10, RepliedInv

\* The client goes away.
LEMMA DisconnectKeeps ==
  ASSUME DispatchInv, Dispatch!Disconnect
  PROVE  DispatchInv'
<1> USE DEF DispatchInv
<1>1. /\ reply.at = "none" /\ reply' = [reply EXCEPT !.at = "closed"] /\ task' = Dispatch!Aborted
      /\ UNCHANGED <<body, emit, ending, used, touched, responses>>
  BY DEF Dispatch!Disconnect
<1>2. Dispatch!Items' = Dispatch!Items
  BY <1>1 DEF Dispatch!Items
<1>3. /\ reply' \in [at : {"none", "sent", "raw", "bare", "closed"}, answers : Seq(AnswerType),
                     status : {0, 200, 503}, sources : SUBSET RequestSources]
      /\ reply'.at = "closed"
  BY <1>1 DEF DispatchTypeOK
<1>4. DispatchTypeOK'
  BY <1>1, <1>2, <1>3, AbortedFacts DEF DispatchTypeOK
<1>5. Dispatch!StatusTrue' /\ Dispatch!BatchInOrder'
  BY <1>3 DEF Dispatch!StatusTrue, Dispatch!BatchInOrder
<1>6. \A i \in Dispatch!Items : task'[i] \in {"none", "joined", "aborted"}
  BY <1>1, AbortedFacts
<1> QED BY <1>1, <1>3, <1>4, <1>5, <1>6, RepliedInv

\* Every step of a request keeps the invariant.
LEMMA DispatchStep ==
  ASSUME DispatchInv, Dispatch!Next
  PROVE  DispatchInv'
<1>1. CASE Dispatch!handle_json_rpc_with_headers
  BY <1>1, ReplyOnlyKeeps DEF Dispatch!handle_json_rpc_with_headers, Dispatch!Null
<1>2. CASE Dispatch!rpc_timeout
  <2>1. body.kind = "single" => body.items[1].id \in RequestIds
    BY BodyFacts DEF DispatchInv
  <2> DEFINE id == IF body.kind = "single" THEN body.items[1].id ELSE "null"
  <2>2. id \in RequestIds \cup {"null"}
    BY <2>1
  <2>3. /\ reply.at = "none" /\ \E i \in Dispatch!Items : task[i] # "none"
        /\ Dispatch!Reply(<<Dispatch!Answer(id, "timeout")>>) /\ task' = Dispatch!Aborted
        /\ UNCHANGED <<body, emit, ending, used, touched, responses>>
    BY <1>2 DEF Dispatch!rpc_timeout, Dispatch!Null
  <2> HIDE DEF id
  <2> QED BY <2>2, <2>3, GiveUpKeeps
<1> QED BY <1>1, <1>2, SingleKeeps, BatchKeeps, AcquireKeeps, JoinKeeps, MarkKeeps, DispatchKeeps, EndKeeps,
           CollectKeeps, DisconnectKeeps DEF Dispatch!Next

-----------------------------------------------------------------------------
(* Lookups by signature. *)

StatusStages == {"statusContext", "tipBefore", "statusHead", "statusDisk", "skip", "statusTcp", "statusHttp",
                 "statusDistributed", "remember", "answer"}
TxStages == {"txContext", "txHead", "txDisk", "kept", "pinned", "pinnedRetry", "slot", "fused", "slotTcp", "slotHttp",
             "slotDistributed", "first", "firstDistributed", "retry", "legacy"}

StatusRequest == {q \in config.requests : q.kind = "statuses"}
TxRequest == {q \in config.requests : q.kind = "tx"}
SigSets == SUBSET BySignature!Sigs

StatusJob ==
  [stage : StatusStages, q : StatusRequest, owed : Nat, tip : Int, inHead : SigSets, inDisk : SigSets,
   gone : SigSets, span : [floor : Int, tip : Int], asked : SigSets, rows : SigSets]
TxJob == [stage : TxStages, q : TxRequest, owed : Nat, pos : {FALSE}]
StatusReply == [stage : {"statuses"}, q : StatusRequest, owed : Nat, found : SigSets]
TxReply == [stage : {"null"}, q : TxRequest, owed : Nat]
OtherJob == {BySignature!Idle} \cup [stage : {"found"}, q : TxRequest] \cup [stage : {"failed"}]

SlotEntry == {BySignature!EmptySlot} \cup [state : {"flight"}, leader : config.jobs]
             \cup [state : {"ready"}, found : BOOLEAN, asOf : Nat]

\* The tiers: what the disk cache holds every replica holds, and ClickHouse trails a head
\* that is trusted.
TiersOK ==
  /\ config \in SignatureCases
  /\ head \in [floor : Nat, tip : Nat, proc : Nat, miss : Nat, live : BOOLEAN, fresh : BOOLEAN]
  /\ head.floor <= head.proc + 1 /\ head.tip <= head.proc /\ head.miss <= head.proc
  /\ primary \in [old : Nat, new : Nat] /\ primary.old <= primary.new
  /\ disk \in [floor : Int, tip : Int] /\ disk.tip <= primary.old
  /\ head.live => config.head
  /\ head.live /\ head.fresh => primary.new <= head.tip

\* The single query misses what is stored at another index.
FusedMiss == config.single /\ ~config.direct /\ ~config.same

CachesOK ==
  /\ absent \in [BySignature!Sigs -> Int] /\ slots \in [BySignature!Sigs -> SlotEntry]
  /\ \A s \in BySignature!Sigs : absent[s] # -1 => ~BySignature!Holds(s, absent[s])
  /\ \A s \in BySignature!Sigs :
       slots[s].state = "ready" /\ ~slots[s].found => ~BySignature!Holds(s, slots[s].asOf) \/ FusedMiss

Asking == {"statusTcp", "statusHttp", "statusDistributed"}

\* What a request for statuses has learnt at each of its stages.  A signature up to the tip
\* read first that the head did not show lies below the chain the head can vouch for; what
\* the caches leave out is not owed.
StatusOK(r) ==
  /\ r.owed <= primary.old
  /\ r.stage \in {"statusHead", "statusDisk", "skip"} /\ r.tip # -1 =>
       config.head /\ r.owed <= r.tip /\ r.tip <= head.tip
  /\ r.stage \in {"statusDisk", "skip"} /\ r.tip # -1 =>
       \A s \in r.q.sigs \ r.inHead : BySignature!Holds(s, r.tip) =>
         config.land[s] < head.floor \/ config.land[s] <= head.miss
  /\ r.span.tip <= primary.old
  /\ \A s \in r.gone : ~(config.land[s] \in r.span.floor .. r.span.tip)
  /\ r.stage \in Asking /\ r.q.history =>
       \A s \in r.q.sigs : BySignature!Holds(s, r.owed) => s \in r.inHead \cup r.inDisk \cup r.asked
  /\ r.stage \in {"remember", "answer"} /\ r.q.history =>
       \A s \in r.q.sigs : BySignature!Holds(s, r.owed) => s \in r.inHead \cup r.inDisk \cup r.rows
  /\ r.stage = "remember" => \A s \in r.asked \ r.rows : ~BySignature!Holds(s, r.span.tip)

TxOK(r) ==
  /\ r.owed <= primary.old
  /\ r.stage \in {"pinned", "pinnedRetry"} => BySignature!Pinned(r.q)
  /\ r.stage = "fused" => config.single /\ ~config.direct

StatusReplyOK(r) ==
  r.q.history => \A s \in r.q.sigs : BySignature!Holds(s, r.owed) => s \in r.found

TxReplyOK(r) ==
  \/ ~BySignature!Holds(r.q.sig, r.owed)
  \/ BySignature!Pinned(r.q) /\ r.q.pinned # config.land[r.q.sig]
  \/ FusedMiss

JobOK(r) ==
  \/ r \in StatusJob /\ StatusOK(r)
  \/ r \in TxJob /\ TxOK(r)
  \/ r \in StatusReply /\ StatusReplyOK(r)
  \/ r \in TxReply /\ TxReplyOK(r)
  \/ r \in OtherJob

LookupInv ==
  /\ TiersOK /\ CachesOK
  /\ DOMAIN jobs = config.jobs
  /\ \A j \in config.jobs : JobOK(jobs[j])

\* The scenario: signatures land in slots of the chain, and requests ask for them.
LEMMA ScenarioFacts ==
  ASSUME config \in SignatureCases
  PROVE  /\ config.last \in Nat /\ config.held \in Nat
         /\ config.land \in [BySignature!Sigs -> 0 .. config.last]
         /\ \A s \in BySignature!Sigs : config.land[s] \in Nat
         /\ \A q \in StatusRequest : q.sigs \subseteq BySignature!Sigs
         /\ \A q \in TxRequest : q.sig \in BySignature!Sigs
         /\ config.start \in [floor : Nat, tip : Nat, proc : Nat, miss : {0}, live : BOOLEAN, fresh : BOOLEAN]
         /\ config.start.floor <= config.start.proc + 1 /\ config.start.tip <= config.start.proc
         /\ config.start.fresh => config.held <= config.start.tip
<1>1. /\ config.last \in Nat /\ config.held \in Nat
      /\ config.land \in [BySignature!Sigs -> 0 .. config.last]
      /\ config.start \in [floor : Nat, tip : Nat, proc : Nat, miss : {0}, live : BOOLEAN, fresh : BOOLEAN]
      /\ config.start.floor <= config.start.proc + 1 /\ config.start.tip <= config.start.proc
      /\ config.start.fresh => config.held <= config.start.tip
  BY LookupAssumption DEF BySignature!SignatureReadsAssumption, BySignature!Sigs
<1>2. \A q \in config.requests : IF q.kind = "statuses" THEN q.sigs \subseteq BySignature!Sigs
                                                        ELSE q.sig \in BySignature!Sigs
  BY LookupAssumption DEF BySignature!SignatureReadsAssumption, BySignature!Sigs
<1> QED BY <1>1, <1>2 DEF StatusRequest, TxRequest

\* The first state.
LEMMA LookupInitial ==
  ASSUME BySignature!Init
  PROVE  LookupInv
<1>1. config \in SignatureCases
  BY DEF BySignature!Init
<1>2. TiersOK
  <2>1. CASE config.head
    <3>1. head = config.start
      BY <2>1 DEF BySignature!Init
    <3> QED BY <1>1, <2>1, <3>1, ScenarioFacts DEF BySignature!Init, TiersOK
  <2>2. CASE ~config.head
    <3>1. head = BySignature!Dead
      BY <2>2 DEF BySignature!Init
    <3> QED BY <1>1, <3>1, ScenarioFacts DEF BySignature!Init, TiersOK, BySignature!Dead
  <2> QED BY <2>1, <2>2
<1>3. CachesOK
  BY DEF BySignature!Init, CachesOK, BySignature!None, SlotEntry, BySignature!EmptySlot
<1>4. DOMAIN jobs = config.jobs /\ \A j \in config.jobs : JobOK(jobs[j])
  BY DEF BySignature!Init, JobOK, OtherJob
<1> QED BY <1>2, <1>3, <1>4 DEF LookupInv

\* The stage of a job says which kind of record it is.
LEMMA StageFacts ==
  ASSUME NEW r
  PROVE  /\ r \in StatusJob => r.stage \in StatusStages
         /\ r \in TxJob => r.stage \in TxStages
         /\ r \in StatusReply => r.stage = "statuses"
         /\ r \in TxReply => r.stage = "null"
         /\ r \in OtherJob => r.stage \in {"idle", "found", "failed"}
<1>1. r \in StatusJob => r.stage \in StatusStages
  BY DEF StatusJob
<1>2. r \in TxJob => r.stage \in TxStages
  BY DEF TxJob
<1>3. (r \in StatusReply => r.stage = "statuses") /\ (r \in TxReply => r.stage = "null")
  BY DEF StatusReply, TxReply
<1>4. r \in OtherJob => r.stage \in {"idle", "found", "failed"}
  BY DEF OtherJob, BySignature!Idle
<1> QED BY <1>1, <1>2, <1>3, <1>4

\* The invariant has the property.
LEMMA LookupShown ==
  ASSUME LookupInv
  PROVE  BySignature!StatusNotLost /\ BySignature!TransactionNotLost
<1>1. ASSUME NEW j \in config.jobs, jobs[j].stage = "statuses"
      PROVE  StatusReplyOK(jobs[j])
  <2>1. jobs[j] \notin StatusJob /\ jobs[j] \notin TxJob /\ jobs[j] \notin TxReply /\ jobs[j] \notin OtherJob
    BY <1>1, StageFacts DEF StatusStages, TxStages
  <2> QED BY <2>1 DEF LookupInv, JobOK
<1>2. ASSUME NEW j \in config.jobs, jobs[j].stage = "null"
      PROVE  TxReplyOK(jobs[j])
  <2>1. jobs[j] \notin StatusJob /\ jobs[j] \notin TxJob /\ jobs[j] \notin StatusReply /\ jobs[j] \notin OtherJob
    BY <1>2, StageFacts DEF StatusStages, TxStages
  <2> QED BY <2>1 DEF LookupInv, JobOK
<1>3. BySignature!StatusNotLost
  BY <1>1 DEF BySignature!StatusNotLost, StatusReplyOK
<1>4. BySignature!TransactionNotLost
  BY <1>2 DEF BySignature!TransactionNotLost, TxReplyOK, FusedMiss
<1> QED BY <1>3, <1>4

\* The chain that the head can vouch for starts at its floor or above the block it missed.
LEMMA ChainFloorFacts ==
  ASSUME TiersOK
  PROVE  /\ BySignature!ChainFloor \in Nat
         /\ head.floor <= BySignature!ChainFloor /\ head.miss + 1 <= BySignature!ChainFloor
<1> DEFINE S == {head.floor, head.miss + 1}
<1>1. head.floor \in Nat /\ head.miss + 1 \in Nat
  BY DEF TiersOK
<1>2. \E x \in S : \A y \in S : x >= y
  BY <1>1
<1>3. BySignature!Max(S) \in S /\ \A y \in S : BySignature!Max(S) >= y
  <2> HIDE DEF S
  <2> QED BY <1>2 DEF BySignature!Max
<1> QED BY <1>1, <1>3 DEF BySignature!ChainFloor

\* The tiers only move forward.
Grows ==
  /\ config' = config
  /\ primary.old <= primary'.old /\ head.tip <= head'.tip
  /\ \A n \in Nat : n < head.floor \/ n <= head.miss => n < head'.floor \/ n <= head'.miss

\* What a job has learnt stays true while the tiers move.
LEMMA JobKept ==
  ASSUME TiersOK, TiersOK', Grows, NEW j, jobs'[j] = jobs[j], JobOK(jobs[j])
  PROVE  JobOK(jobs[j])'
<1> DEFINE r == jobs[j]
<1>1. /\ primary.old \in Nat /\ primary'.old \in Nat /\ head.tip \in Nat /\ head'.tip \in Nat
      /\ \A s \in BySignature!Sigs : config.land[s] \in Nat
      /\ \A q \in StatusRequest : q.sigs \subseteq BySignature!Sigs
  BY ScenarioFacts DEF TiersOK
<1>2. /\ StatusJob' = StatusJob /\ TxJob' = TxJob /\ StatusReply' = StatusReply /\ TxReply' = TxReply
      /\ OtherJob' = OtherJob /\ BySignature!Sigs' = BySignature!Sigs /\ r' = r
      /\ \A s, n : BySignature!Holds(s, n)' <=> BySignature!Holds(s, n)
  BY DEF Grows, StatusJob, TxJob, StatusReply, TxReply, OtherJob, StatusRequest, TxRequest, SigSets, BySignature!Sigs,
         BySignature!Holds, BySignature!Idle
<1>3. CASE r \in StatusJob /\ StatusOK(r)
  <2>1. r.owed \in Nat /\ r.tip \in Int /\ r.span.tip \in Int /\ r.q \in StatusRequest
    BY <1>3 DEF StatusJob
  <2>2. StatusOK(r)'
    BY <1>1, <1>2, <1>3, <2>1 DEF StatusOK, Grows
  <2> QED BY <1>2, <1>3, <2>2 DEF JobOK
<1>4. CASE r \in TxJob /\ TxOK(r)
  <2>1. r.owed \in Nat
    BY <1>4 DEF TxJob
  <2>2. TxOK(r)'
    BY <1>1, <1>2, <1>4, <2>1 DEF TxOK, Grows, BySignature!Pinned
  <2> QED BY <1>2, <1>4, <2>2 DEF JobOK
<1>5. CASE r \in StatusReply /\ StatusReplyOK(r)
  BY <1>2, <1>5 DEF JobOK, StatusReplyOK
<1>6. CASE r \in TxReply /\ TxReplyOK(r)
  BY <1>2, <1>6 DEF JobOK, TxReplyOK, Grows, BySignature!Pinned, FusedMiss
<1>7. CASE r \in OtherJob
  BY <1>2, <1>7 DEF JobOK
<1> QED BY <1>3, <1>4, <1>5, <1>6, <1>7 DEF JobOK

\* A step that leaves scenario and caches alone.
LEMMA CachesKept ==
  ASSUME CachesOK, UNCHANGED <<config, absent, slots>>
  PROVE  CachesOK'
BY DEF CachesOK, FusedMiss, SlotEntry, BySignature!Sigs, BySignature!Holds, BySignature!EmptySlot

\* A step of one job, which the tiers do not see.
LEMMA PutKeeps ==
  ASSUME LookupInv, NEW j \in config.jobs, NEW r, jobs' = [jobs EXCEPT ![j] = r], JobOK(r), BySignature!Keep, CachesOK'
  PROVE  LookupInv'
<1>1. UNCHANGED <<config, head, disk, primary>>
  BY DEF BySignature!Keep, BySignature!world
<1>2. TiersOK' /\ Grows /\ TiersOK
  BY <1>1 DEF LookupInv, TiersOK, Grows
<1>3. DOMAIN jobs = config.jobs /\ DOMAIN jobs' = config.jobs /\ jobs'[j] = r
      /\ \A k \in config.jobs : k # j => jobs'[k] = jobs[k]
  BY DEF LookupInv
<1>4. ASSUME NEW k \in config.jobs PROVE JobOK(jobs[k])'
  <2>1. CASE k # j
    BY <1>2, <1>3, <2>1, JobKept DEF LookupInv
  <2>2. CASE k = j
    <3>1. \A x : JobOK(x)' <=> JobOK(x)
      BY <1>1 DEF JobOK, StatusOK, TxOK, StatusReplyOK, TxReplyOK, StatusJob, TxJob, StatusReply, TxReply, OtherJob,
                  StatusRequest, TxRequest, SigSets, FusedMiss, BySignature!Sigs, BySignature!Holds, BySignature!Idle,
                  BySignature!Pinned
    <3> QED BY <1>3, <2>2, <3>1
  <2> QED BY <2>1, <2>2
<1> QED BY <1>1, <1>2, <1>3, <1>4 DEF LookupInv

\* A step of the tiers, which no job sees.
LEMMA TiersKeep ==
  ASSUME LookupInv, TiersOK', Grows, UNCHANGED <<absent, slots, jobs>>
  PROVE  LookupInv'
<1>1. CachesOK'
  BY CachesKept DEF LookupInv, Grows
<1>2. \A j \in config.jobs : JobOK(jobs[j])'
  BY JobKept DEF LookupInv
<1> QED BY <1>1, <1>2 DEF LookupInv, Grows

\* Blocks reach the tiers, and the tiers move.
LEMMA WorldKeeps ==
  ASSUME LookupInv, BySignature!WorldStep
  PROVE  LookupInv'
<1>0. TiersOK /\ CachesOK
  BY DEF LookupInv
<1>1. /\ head \in [floor : Nat, tip : Nat, proc : Nat, miss : Nat, live : BOOLEAN, fresh : BOOLEAN]
      /\ primary \in [old : Nat, new : Nat] /\ disk \in [floor : Int, tip : Int]
  BY <1>0 DEF TiersOK
<1>2. CASE BySignature!HeadBlock
  <2>1. UNCHANGED <<config, disk, primary, absent, slots, jobs>>
    BY <1>2 DEF BySignature!HeadBlock, BySignature!caches
  <2>2. CASE head' = [head EXCEPT !.proc = @ + 1]
    BY <1>0, <1>1, <2>1, <2>2, TiersKeep DEF TiersOK, Grows
  <2>3. CASE head.miss = 0 /\ head' = [head EXCEPT !.proc = @ + 1, !.miss = head.proc + 1]
    <3>1. /\ head' \in [floor : Nat, tip : Nat, proc : Nat, miss : Nat, live : BOOLEAN, fresh : BOOLEAN]
          /\ head'.proc = head.proc + 1 /\ head'.miss = head.proc + 1 /\ head'.floor = head.floor /\ head'.tip = head.tip
          /\ head'.live = head.live /\ head'.fresh = head.fresh
      <4> DEFINE n == head.proc + 1
      <4>1. head' = [head EXCEPT !.proc = n, !.miss = n] /\ n \in Nat
        BY <1>1, <2>3
      <4> HIDE DEF n
      <4>2. /\ head' \in [floor : Nat, tip : Nat, proc : Nat, miss : Nat, live : BOOLEAN, fresh : BOOLEAN]
            /\ head'.proc = n /\ head'.miss = n /\ head'.floor = head.floor /\ head'.tip = head.tip
            /\ head'.live = head.live /\ head'.fresh = head.fresh
        BY <1>1, <4>1
      <4> QED BY <4>2 DEF n
    <3>2. TiersOK'
      BY <1>0, <1>1, <2>1, <3>1 DEF TiersOK
    <3>3. Grows
      BY <1>0, <1>1, <2>1, <3>1 DEF TiersOK, Grows
    <3> QED BY <2>1, <3>2, <3>3, TiersKeep
  <2> QED BY <1>2, <2>2, <2>3 DEF BySignature!HeadBlock
<1>3. CASE BySignature!HeadFinalizes
  <2>1. UNCHANGED <<config, disk, primary, absent, slots, jobs>> /\ head.tip < head.proc
    BY <1>3 DEF BySignature!HeadFinalizes, BySignature!caches
  <2>2. /\ head' \in [floor : Nat, tip : Nat, proc : Nat, miss : Nat, live : BOOLEAN, fresh : BOOLEAN]
        /\ head'.proc = head.proc /\ head'.miss = head.miss /\ head'.floor = head.floor /\ head'.tip = head.tip + 1
        /\ head'.live = head.live /\ (head'.fresh => primary.new <= head.tip + 1)
    <3> DEFINE n == head.tip + 1
               b == n >= primary.new
    <3>1. head' = [head EXCEPT !.tip = n, !.fresh = b] /\ n \in Nat /\ b \in BOOLEAN /\ (b => primary.new <= n)
      BY <1>1, <1>3 DEF BySignature!HeadFinalizes
    <3> HIDE DEF n, b
    <3>2. /\ head' \in [floor : Nat, tip : Nat, proc : Nat, miss : Nat, live : BOOLEAN, fresh : BOOLEAN]
          /\ head'.proc = head.proc /\ head'.miss = head.miss /\ head'.floor = head.floor /\ head'.tip = n
          /\ head'.live = head.live /\ head'.fresh = b
      BY <1>1, <3>1
    <3> QED BY <3>1, <3>2 DEF n
  <2>3. TiersOK'
    BY <1>0, <1>1, <2>1, <2>2 DEF TiersOK
  <2>4. Grows
    BY <1>0, <1>1, <2>1, <2>2 DEF TiersOK, Grows
  <2> QED BY <2>1, <2>3, <2>4, TiersKeep
<1>4. CASE BySignature!HeadEvicts
  BY <1>0, <1>1, <1>4, TiersKeep DEF BySignature!HeadEvicts, BySignature!caches, TiersOK, Grows
<1>5. CASE BySignature!HeadStalls
  <2>1. UNCHANGED <<config, disk, primary, absent, slots, jobs>>
    BY <1>5 DEF BySignature!HeadStalls, BySignature!caches
  <2>2. /\ head' \in [floor : Nat, tip : Nat, proc : Nat, miss : Nat, live : BOOLEAN, fresh : BOOLEAN]
        /\ head'.proc = head.proc /\ head'.miss = head.miss /\ head'.floor = head.floor /\ head'.tip = head.tip
        /\ (head'.live => head.live) /\ ~head'.fresh
    <3>1. CASE head' = [head EXCEPT !.fresh = FALSE]
      BY <1>1, <3>1
    <3>2. CASE head' = [head EXCEPT !.live = FALSE, !.fresh = FALSE]
      BY <1>1, <3>2
    <3> QED BY <1>5, <3>1, <3>2 DEF BySignature!HeadStalls
  <2>3. TiersOK'
    BY <1>0, <1>1, <2>1, <2>2 DEF TiersOK
  <2>4. Grows
    BY <1>0, <1>1, <2>1, <2>2 DEF TiersOK, Grows
  <2> QED BY <2>1, <2>3, <2>4, TiersKeep
<1>6. CASE BySignature!HeadReconnects
  <2> DEFINE S == {head.proc, primary.new}
             first == BySignature!Max(S) + 1
  <2>1. first \in Nat /\ head.proc < first /\ 1 <= first
    <3>1. \E x \in S : \A y \in S : x >= y
      BY <1>1
    <3>2. BySignature!Max(S) \in S /\ \A y \in S : BySignature!Max(S) >= y
      <4> HIDE DEF S
      <4> QED BY <3>1 DEF BySignature!Max
    <3> QED BY <1>1, <3>2
  <2>2. /\ UNCHANGED <<config, disk, primary, absent, slots, jobs>> /\ config.head
        /\ head' = [floor |-> first, tip |-> first - 1, proc |-> first - 1, miss |-> 0, live |-> TRUE, fresh |-> FALSE]
    BY <1>6 DEF BySignature!HeadReconnects, BySignature!caches
  <2> HIDE DEF first
  <2> QED BY <1>0, <1>1, <2>1, <2>2, TiersKeep DEF TiersOK, Grows
<1>7. CASE BySignature!PrimaryGains
  BY <1>0, <1>1, <1>7, TiersKeep DEF BySignature!PrimaryGains, BySignature!caches, TiersOK, Grows
<1>8. CASE BySignature!ReplicaCatchesUp
  BY <1>0, <1>1, <1>8, TiersKeep DEF BySignature!ReplicaCatchesUp, BySignature!caches, TiersOK, Grows
<1>9. CASE BySignature!DiskMoves
  BY <1>0, <1>1, <1>9, TiersKeep DEF BySignature!DiskMoves, BySignature!caches, TiersOK, Grows
<1>10. CASE BySignature!ForgetAbsent \/ BySignature!ForgetSlot \/ BySignature!ForgetTransaction
  <2>1. UNCHANGED <<config, head, disk, primary, jobs>>
    BY <1>10 DEF BySignature!ForgetAbsent, BySignature!ForgetSlot, BySignature!ForgetTransaction, BySignature!Keep,
                 BySignature!world
  <2>2. TiersOK' /\ Grows
    BY <1>0, <2>1 DEF TiersOK, Grows
  <2>3. CachesOK'
    <3>1. CASE BySignature!ForgetAbsent
      BY <1>0, <2>1, <3>1 DEF BySignature!ForgetAbsent, CachesOK, FusedMiss, SlotEntry, BySignature!Sigs, BySignature!Holds,
                              BySignature!EmptySlot, BySignature!None
    <3>2. CASE BySignature!ForgetSlot
      <4>1. BySignature!EmptySlot \in SlotEntry /\ BySignature!EmptySlot.state # "ready"
        BY DEF SlotEntry, BySignature!EmptySlot
      <4>2. SlotEntry' = SlotEntry /\ BySignature!EmptySlot' = BySignature!EmptySlot
        BY <2>1 DEF SlotEntry, BySignature!EmptySlot
      <4> QED BY <1>0, <2>1, <3>2, <4>1, <4>2
              DEF BySignature!ForgetSlot, CachesOK, FusedMiss, BySignature!Sigs, BySignature!Holds
    <3>3. CASE BySignature!ForgetTransaction
      BY <1>0, <2>1, <3>3, CachesKept DEF BySignature!ForgetTransaction
    <3> QED BY <1>10, <3>1, <3>2, <3>3
  <2>4. \A j \in config.jobs : JobOK(jobs[j])'
    BY <1>0, <2>1, <2>2, JobKept DEF LookupInv
  <2> QED BY <2>1, <2>2, <2>3, <2>4 DEF LookupInv
<1> QED BY <1>2, <1>3, <1>4, <1>5, <1>6, <1>7, <1>8, <1>9, <1>10 DEF BySignature!WorldStep

\* The job of a stage.
LEMMA JobAt ==
  ASSUME LookupInv, NEW j \in config.jobs
  PROVE  /\ jobs[j].stage \in StatusStages => jobs[j] \in StatusJob /\ StatusOK(jobs[j])
         /\ jobs[j].stage \in TxStages => jobs[j] \in TxJob /\ TxOK(jobs[j])
<1>1. JobOK(jobs[j])
  BY DEF LookupInv
<1> QED BY <1>1, StageFacts DEF JobOK, StatusStages, TxStages

\* A failed job, one that found its transaction and a job that is over owe nothing.
LEMMA OtherOK ==
  ASSUME NEW q \in TxRequest
  PROVE  /\ JobOK([stage |-> "failed"]) /\ JobOK(BySignature!Idle)
         /\ JobOK([stage |-> "found", q |-> q])
BY DEF JobOK, OtherJob

\* A job that leaves the caches alone.
LEMMA QuietKeeps ==
  ASSUME LookupInv, NEW j \in config.jobs, NEW r, BySignature!Put(j, r), JobOK(r), BySignature!Keep,
         UNCHANGED <<absent, slots>>
  PROVE  LookupInv'
<1>1. CachesOK'
  BY CachesKept DEF LookupInv, BySignature!Keep
<1> QED BY <1>1, PutKeeps DEF BySignature!Put

\* A job that fails.
LEMMA FailKeeps ==
  ASSUME LookupInv, NEW j \in config.jobs, BySignature!Fails(j), BySignature!Keep, UNCHANGED <<absent, slots>>
  PROVE  LookupInv'
<1>1. JobOK([stage |-> "failed"])
  BY DEF JobOK, OtherJob
<1> QED BY <1>1, QuietKeeps DEF BySignature!Fails

\* What r has that is not said to change.
SameRequest(r, old) ==
  /\ r.q = old.q /\ r.owed = old.owed /\ r.tip = old.tip /\ r.inHead = old.inHead /\ r.inDisk = old.inDisk
  /\ r.gone = old.gone /\ r.span = old.span

\* A request for statuses moves to another stage.
LEMMA StatusStage ==
  ASSUME NEW old \in StatusJob, NEW stage \in StatusStages, NEW r, r = [old EXCEPT !.stage = stage]
  PROVE  /\ r \in StatusJob /\ r.stage = stage /\ SameRequest(r, old)
         /\ r.asked = old.asked /\ r.rows = old.rows
BY DEF StatusJob, SameRequest

\* A request for statuses begins, and is given its context and the head's tip.
LEMMA StatusBegins ==
  ASSUME LookupInv, NEW j \in config.jobs,
         \/ \E q \in config.requests : BySignature!handle_get_signature_statuses(j, q)
         \/ BySignature!signature_status_context(j)
         \/ BySignature!TipBefore(j)
  PROVE  LookupInv'
<1>0. TiersOK /\ primary.old \in Nat
  BY DEF LookupInv, TiersOK
<1>1. CASE \E q \in config.requests : BySignature!handle_get_signature_statuses(j, q)
  <2>1. PICK q \in config.requests : BySignature!handle_get_signature_statuses(j, q)
    BY <1>1
  <2> DEFINE r == [stage |-> "statusContext", q |-> q, owed |-> primary.old, tip |-> -1, inHead |-> {}, inDisk |-> {},
                   gone |-> {}, span |-> BySignature!NoSpan, asked |-> {}, rows |-> {}]
  <2>2. BySignature!Put(j, r) /\ BySignature!Keep /\ UNCHANGED <<absent, slots>> /\ q \in StatusRequest
    BY <2>1 DEF BySignature!handle_get_signature_statuses, BySignature!None, BySignature!caches, StatusRequest
  <2>3. r \in StatusJob
    BY <1>0, <2>2 DEF StatusJob, StatusStages, SigSets, BySignature!NoSpan
  <2>4. StatusOK(r)
    BY <1>0 DEF StatusOK, Asking, BySignature!NoSpan
  <2> HIDE DEF r
  <2> QED BY <2>2, <2>3, <2>4, QuietKeeps DEF JobOK
<1>2. CASE BySignature!signature_status_context(j)
  <2>1. jobs[j].stage = "statusContext" /\ BySignature!Keep /\ UNCHANGED <<absent, slots>>
    BY <1>2 DEF BySignature!signature_status_context
  <2>2. jobs[j] \in StatusJob /\ StatusOK(jobs[j])
    BY <2>1, JobAt DEF StatusStages
  <2>3. CASE BySignature!To(j, "tipBefore")
    <3> DEFINE r == [jobs[j] EXCEPT !.stage = "tipBefore"]
    <3>1. r \in StatusJob /\ r.stage = "tipBefore" /\ SameRequest(r, jobs[j])
      BY <2>2, StatusStage DEF StatusStages
    <3>3. StatusOK(r)
      <4> HIDE DEF r
      <4> QED BY <2>2, <3>1 DEF StatusOK, Asking, SameRequest
    <3> HIDE DEF r
    <3>2. BySignature!Put(j, r)
      BY <2>3 DEF BySignature!To, r
    <3> QED BY <2>1, <3>1, <3>2, <3>3, QuietKeeps DEF JobOK
  <2> QED BY <1>2, <2>1, <2>3, FailKeeps DEF BySignature!signature_status_context
<1>3. CASE BySignature!TipBefore(j)
  <2>1. jobs[j].stage = "tipBefore" /\ BySignature!Keep /\ UNCHANGED <<absent, slots>>
    BY <1>3 DEF BySignature!TipBefore, BySignature!caches
  <2>2. jobs[j] \in StatusJob /\ StatusOK(jobs[j])
    BY <2>1, JobAt DEF StatusStages
  <2> DEFINE tip == IF config.history THEN BySignature!trusted_head_finalized_tip ELSE -1
             r == [jobs[j] EXCEPT !.stage = "statusHead", !.tip = tip]
  <2>3. tip \in Int /\ (tip # -1 => tip = head.tip /\ config.head /\ primary.new <= head.tip)
    BY <1>0 DEF BySignature!trusted_head_finalized_tip, BySignature!None, TiersOK
  <2>4. BySignature!Put(j, r)
    BY <1>3 DEF BySignature!TipBefore, BySignature!None
  <2> HIDE DEF tip
  <2>5. /\ r \in StatusJob /\ r.stage = "statusHead" /\ r.tip = tip /\ r.owed = jobs[j].owed /\ r.span = jobs[j].span
        /\ r.gone = jobs[j].gone /\ r.q = jobs[j].q /\ r.owed \in Nat
    BY <2>2, <2>3 DEF StatusJob, StatusStages
  <2>6. jobs[j].owed <= primary.old /\ primary.old <= primary.new /\ primary.new \in Nat /\ head.tip \in Nat
    BY <1>0, <2>2 DEF StatusOK, TiersOK
  <2> HIDE DEF r
  <2>7. StatusOK(r)
    BY <1>0, <2>2, <2>3, <2>5, <2>6 DEF StatusOK, Asking
  <2> QED BY <2>1, <2>4, <2>5, <2>7, QuietKeeps DEF JobOK
<1> QED BY <1>1, <1>2, <1>3

\* What the head does not show of a request's signatures lies below its chain.
LEMMA HeadReadKeeps ==
  ASSUME LookupInv, NEW j \in config.jobs, BySignature!HeadStatuses(j)
  PROVE  LookupInv'
<1>0. TiersOK /\ config \in SignatureCases
  BY DEF LookupInv, TiersOK
<1>1. jobs[j].stage = "statusHead" /\ BySignature!Keep /\ UNCHANGED <<absent, slots>>
  BY DEF BySignature!HeadStatuses, BySignature!caches
<1>2. jobs[j] \in StatusJob /\ StatusOK(jobs[j])
  BY <1>1, JobAt DEF StatusStages
<1> DEFINE seen == IF config.head THEN {s \in jobs[j].q.sigs : BySignature!HeadSees(s, jobs[j].q.commitment)} ELSE {}
           r == [jobs[j] EXCEPT !.stage = "statusDisk", !.inHead = seen]
<1>3. BySignature!Put(j, r)
  BY DEF BySignature!HeadStatuses
<1>4. jobs[j].q \in StatusRequest /\ jobs[j].q.sigs \subseteq BySignature!Sigs /\ seen \in SigSets
  BY <1>0, <1>2, ScenarioFacts DEF StatusJob, SigSets
<1>5. jobs[j].tip # -1 => \A s \in jobs[j].q.sigs \ seen : BySignature!Holds(s, jobs[j].tip) =>
        config.land[s] < head.floor \/ config.land[s] <= head.miss
  <2> SUFFICES ASSUME jobs[j].tip # -1, NEW s \in jobs[j].q.sigs \ seen, BySignature!Holds(s, jobs[j].tip)
               PROVE  config.land[s] < head.floor \/ config.land[s] <= head.miss
    OBVIOUS
  <2>1. config.head /\ jobs[j].tip <= head.tip
    BY <1>1, <1>2 DEF StatusOK
  <2>2. jobs[j].tip \in Int /\ config.land[s] \in Nat /\ head.tip \in Nat /\ head.proc \in Nat /\ head.floor \in Nat
        /\ head.miss \in Nat /\ head.tip <= head.proc
    BY <1>0, <1>2, <1>4, ScenarioFacts DEF StatusJob, TiersOK
  <2>3. config.land[s] <= jobs[j].tip
    BY <2>2 DEF BySignature!Holds
  <2>4. ~BySignature!HeadSees(s, jobs[j].q.commitment)
    BY <2>1
  <2> QED BY <2>1, <2>2, <2>3, <2>4 DEF BySignature!HeadSees
<1> HIDE DEF seen
<1>6. /\ r \in StatusJob /\ r.stage = "statusDisk" /\ r.tip = jobs[j].tip /\ r.owed = jobs[j].owed /\ r.span = jobs[j].span
      /\ r.gone = jobs[j].gone /\ r.q = jobs[j].q /\ r.inHead = seen
  BY <1>2, <1>4 DEF StatusJob, StatusStages
<1> HIDE DEF r
<1>7. StatusOK(r)
  BY <1>1, <1>2, <1>5, <1>6 DEF StatusOK, Asking
<1> QED BY <1>1, <1>3, <1>6, <1>7, QuietKeeps DEF JobOK

\* The disk cache is read, or fails: what it does not have is in no slot of its span.
LEMMA DiskReadKeeps ==
  ASSUME LookupInv, NEW j \in config.jobs, BySignature!DiskStatuses(j)
  PROVE  LookupInv'
<1>0. TiersOK /\ config \in SignatureCases
  BY DEF LookupInv, TiersOK
<1>1. jobs[j].stage = "statusDisk" /\ BySignature!Keep /\ UNCHANGED <<absent, slots>>
  BY DEF BySignature!DiskStatuses, BySignature!caches
<1>2. jobs[j] \in StatusJob /\ StatusOK(jobs[j])
  BY <1>1, JobAt DEF StatusStages
<1>3. CASE BySignature!To(j, "skip")
  <2> DEFINE r == [jobs[j] EXCEPT !.stage = "skip"]
  <2>1. r \in StatusJob /\ r.stage = "skip" /\ SameRequest(r, jobs[j])
    BY <1>2, StatusStage DEF StatusStages
  <2> HIDE DEF r
  <2>2. StatusOK(r)
    BY <1>1, <1>2, <2>1 DEF StatusOK, Asking, SameRequest
  <2>3. BySignature!Put(j, r)
    BY <1>3 DEF BySignature!To, r
  <2> QED BY <1>1, <2>1, <2>2, <2>3, QuietKeeps DEF JobOK
<1>4. CASE ~BySignature!To(j, "skip")
  <2> DEFINE rest == jobs[j].q.sigs \ jobs[j].inHead
             found == {s \in rest : config.land[s] \in BySignature!DiskSpan}
             lacks == rest \ found
             span == [floor |-> disk.floor, tip |-> disk.tip]
             r == [jobs[j] EXCEPT !.stage = "skip", !.inDisk = found, !.gone = lacks, !.span = span]
  <2>1. BySignature!Put(j, r)
    BY <1>4 DEF BySignature!DiskStatuses
  <2>2. jobs[j].q \in StatusRequest /\ jobs[j].q.sigs \subseteq BySignature!Sigs /\ found \in SigSets /\ lacks \in SigSets
    BY <1>0, <1>2, ScenarioFacts DEF StatusJob, SigSets
  <2>3. span \in [floor : Int, tip : Int] /\ span.tip <= primary.old
        /\ \A s \in lacks : ~(config.land[s] \in span.floor .. span.tip)
    BY <1>0 DEF TiersOK, BySignature!DiskSpan
  <2> HIDE DEF found, lacks, span
  <2>4. /\ r \in StatusJob /\ r.stage = "skip" /\ r.tip = jobs[j].tip /\ r.owed = jobs[j].owed /\ r.span = span
        /\ r.gone = lacks /\ r.q = jobs[j].q /\ r.inHead = jobs[j].inHead
    BY <1>2, <2>2, <2>3 DEF StatusJob, StatusStages
  <2> HIDE DEF r
  <2>5. StatusOK(r)
    BY <1>1, <1>2, <2>3, <2>4 DEF StatusOK, Asking
  <2> QED BY <1>1, <2>1, <2>4, <2>5, QuietKeeps DEF JobOK
<1> QED BY <1>3, <1>4

\* A signature that is left out as known to be absent is not owed: the disk cache does not have it
\* in its span, the recorded absence reaches up to that span, and from there on the head would
\* have shown it.
LEMMA SkippedNotOwed ==
  ASSUME LookupInv, NEW j \in config.jobs, jobs[j].stage = "skip",
         NEW s \in jobs[j].q.sigs \ (jobs[j].inHead \cup jobs[j].inDisk),
         s \notin BySignature!skip_known_absent(j, jobs[j].q.sigs \ (jobs[j].inHead \cup jobs[j].inDisk))
  PROVE  ~BySignature!Holds(s, jobs[j].owed)
<1>0. TiersOK /\ CachesOK /\ config \in SignatureCases
  BY DEF LookupInv, TiersOK
<1>1. jobs[j] \in StatusJob /\ StatusOK(jobs[j])
  BY JobAt DEF StatusStages
<1> DEFINE r == jobs[j]
<1>2. s \in BySignature!Sigs /\ config.land[s] \in Nat /\ r.owed \in Nat /\ r.tip \in Int
      /\ r.span.tip \in Int /\ r.span.floor \in Int
  BY <1>0, <1>1, ScenarioFacts DEF StatusJob
<1>3. /\ BySignature!head_extends_disk(r.tip, r.span.tip)
      /\ s \in r.gone /\ BySignature!is_absent(s, r.span.floor)
  BY DEF BySignature!skip_known_absent
<1>4. absent[s] \in Int /\ ~BySignature!Holds(s, absent[s]) /\ r.span.floor <= absent[s] + 1
  BY <1>0, <1>2, <1>3 DEF CachesOK, BySignature!is_absent, BySignature!None
<1>5. r.tip # -1 /\ (r.span.tip + 1 > head.tip \/ r.span.tip + 1 >= BySignature!ChainFloor)
  BY <1>3 DEF BySignature!head_extends_disk, BySignature!None
<1>6. /\ r.owed <= r.tip /\ r.tip <= head.tip
      /\ (BySignature!Holds(s, r.tip) => config.land[s] < head.floor \/ config.land[s] <= head.miss)
      /\ ~(config.land[s] \in r.span.floor .. r.span.tip)
  <2>1. r.owed <= r.tip /\ r.tip <= head.tip
    BY <1>1, <1>5 DEF StatusOK
  <2>2. \A x \in r.q.sigs \ r.inHead : BySignature!Holds(x, r.tip) =>
          config.land[x] < head.floor \/ config.land[x] <= head.miss
    BY <1>1, <1>5 DEF StatusOK
  <2>3. ~(config.land[s] \in r.span.floor .. r.span.tip)
    BY <1>1, <1>3 DEF StatusOK
  <2> QED BY <2>1, <2>2, <2>3
<1>7. /\ BySignature!ChainFloor \in Nat /\ head.floor \in Nat /\ head.miss \in Nat /\ head.tip \in Nat
      /\ head.floor <= BySignature!ChainFloor /\ head.miss + 1 <= BySignature!ChainFloor
  BY <1>0, ChainFloorFacts DEF TiersOK
<1> QED BY <1>2, <1>4, <1>5, <1>6, <1>7 DEF BySignature!Holds

\* What the caches do not answer is asked of ClickHouse.
LEMMA SkipKeeps ==
  ASSUME LookupInv, NEW j \in config.jobs, BySignature!SkipKnownAbsent(j)
  PROVE  LookupInv'
<1>0. TiersOK /\ config \in SignatureCases
  BY DEF LookupInv, TiersOK
<1>1. jobs[j].stage = "skip" /\ BySignature!Keep /\ UNCHANGED <<absent, slots>>
  BY DEF BySignature!SkipKnownAbsent, BySignature!caches
<1>2. jobs[j] \in StatusJob /\ StatusOK(jobs[j])
  BY <1>1, JobAt DEF StatusStages
<1> DEFINE rest == jobs[j].q.sigs \ (jobs[j].inHead \cup jobs[j].inDisk)
           ask == BySignature!skip_known_absent(j, rest)
<1>3. \A s \in jobs[j].q.sigs : BySignature!Holds(s, jobs[j].owed) => s \in jobs[j].inHead \cup jobs[j].inDisk \cup ask
  BY <1>1, SkippedNotOwed
<1>4. ask \in SigSets
  BY <1>0, <1>2, ScenarioFacts DEF StatusJob, SigSets, BySignature!skip_known_absent
<1>5. IF ~jobs[j].q.history \/ ask = {} THEN BySignature!To(j, "answer")
      ELSE BySignature!Put(j, [jobs[j] EXCEPT
             !.stage = BySignature!FirstRoute("statusTcp", "statusHttp", "statusDistributed"), !.asked = ask])
  BY DEF BySignature!SkipKnownAbsent
<1> HIDE DEF ask
<1>6. CASE ~jobs[j].q.history \/ ask = {}
  <2> DEFINE r == [jobs[j] EXCEPT !.stage = "answer"]
  <2>1. r \in StatusJob /\ r.stage = "answer" /\ SameRequest(r, jobs[j])
    BY <1>2, StatusStage DEF StatusStages
  <2>2. BySignature!Put(j, r)
    BY <1>5, <1>6 DEF BySignature!To
  <2> HIDE DEF r
  <2>3. StatusOK(r)
    BY <1>2, <1>3, <1>6, <2>1 DEF StatusOK, Asking, SameRequest
  <2> QED BY <1>1, <2>1, <2>2, <2>3, QuietKeeps DEF JobOK
<1>7. CASE ~(~jobs[j].q.history \/ ask = {})
  <2> DEFINE stage == BySignature!FirstRoute("statusTcp", "statusHttp", "statusDistributed")
             r == [jobs[j] EXCEPT !.stage = stage, !.asked = ask]
  <2>1. stage \in Asking /\ stage \in StatusStages
    BY DEF BySignature!FirstRoute, Asking, StatusStages
  <2>2. BySignature!Put(j, r)
    BY <1>5, <1>7
  <2> HIDE DEF stage
  <2>3. r \in StatusJob /\ r.stage = stage /\ SameRequest(r, jobs[j]) /\ r.asked = ask
    BY <1>2, <1>4, <2>1 DEF StatusJob, SameRequest
  <2> HIDE DEF r
  <2>4. StatusOK(r)
    BY <1>2, <1>3, <2>1, <2>3 DEF StatusOK, Asking, SameRequest
  <2> QED BY <1>1, <2>2, <2>3, <2>4, QuietKeeps DEF JobOK
<1> QED BY <1>6, <1>7

\* An answer of ClickHouse has every status that all replicas hold.
LEMMA AnsweredKeeps ==
  ASSUME LookupInv, NEW j \in config.jobs, jobs[j].stage \in Asking, BySignature!Answered(j), BySignature!Keep,
         UNCHANGED <<absent, slots>>
  PROVE  LookupInv'
<1>0. TiersOK /\ config \in SignatureCases /\ primary.old \in Nat
  BY DEF LookupInv, TiersOK
<1>1. jobs[j] \in StatusJob /\ StatusOK(jobs[j])
  BY JobAt DEF StatusStages, Asking
<1>2. PICK rows1 \in BySignature!StatusRows(jobs[j].asked) :
        BySignature!Put(j, [jobs[j] EXCEPT !.stage = "remember", !.rows = rows1])
  BY DEF BySignature!Answered
<1>3. /\ jobs[j].asked \in SigSets /\ rows1 \in SigSets /\ jobs[j].owed \in Nat /\ jobs[j].span.tip \in Int
      /\ \A s \in jobs[j].asked : BySignature!Holds(s, primary.old) => s \in rows1
  BY <1>1, <1>2 DEF StatusJob, SigSets, BySignature!StatusRows
<1>4. \A s \in BySignature!Sigs : config.land[s] \in Nat
  BY <1>0, ScenarioFacts
<1>5. jobs[j].owed <= primary.old /\ jobs[j].span.tip <= primary.old
  BY <1>1 DEF StatusOK
<1>6. \A s \in jobs[j].asked : /\ BySignature!Holds(s, jobs[j].owed) => s \in rows1
                               /\ BySignature!Holds(s, jobs[j].span.tip) => s \in rows1
  BY <1>0, <1>3, <1>4, <1>5 DEF BySignature!Holds, SigSets
<1>7. jobs[j].q.history => \A s \in jobs[j].q.sigs : BySignature!Holds(s, jobs[j].owed) =>
                             s \in jobs[j].inHead \cup jobs[j].inDisk \cup jobs[j].asked
  BY <1>1 DEF StatusOK
<1> DEFINE r == [jobs[j] EXCEPT !.stage = "remember", !.rows = rows1]
<1>8. r \in StatusJob /\ r.stage = "remember" /\ SameRequest(r, jobs[j]) /\ r.asked = jobs[j].asked /\ r.rows = rows1
  BY <1>1, <1>3 DEF StatusJob, StatusStages, SameRequest
<1>9. BySignature!Put(j, r)
  BY <1>2
<1> HIDE DEF r
<1>10. StatusOK(r)
  BY <1>1, <1>6, <1>7, <1>8 DEF StatusOK, Asking, SameRequest
<1> QED BY <1>8, <1>9, <1>10, QuietKeeps DEF JobOK

\* A query that fails on one route takes the next.
LEMMA RouteKeeps ==
  ASSUME LookupInv, NEW j \in config.jobs, jobs[j].stage \in Asking, NEW stage \in Asking, BySignature!To(j, stage),
         BySignature!Keep, UNCHANGED <<absent, slots>>
  PROVE  LookupInv'
<1>1. jobs[j] \in StatusJob /\ StatusOK(jobs[j])
  BY JobAt DEF StatusStages, Asking
<1> DEFINE r == [jobs[j] EXCEPT !.stage = stage]
<1>2. r \in StatusJob /\ r.stage = stage /\ SameRequest(r, jobs[j]) /\ r.asked = jobs[j].asked
  BY <1>1, StatusStage DEF StatusStages, Asking
<1>3. BySignature!Put(j, r)
  BY DEF BySignature!To
<1> HIDE DEF r
<1>4. StatusOK(r)
  BY <1>1, <1>2 DEF StatusOK, Asking, SameRequest
<1> QED BY <1>2, <1>3, <1>4, QuietKeeps DEF JobOK

\* The three routes of the query for statuses.
LEMMA StatusAsked ==
  ASSUME LookupInv, NEW j \in config.jobs,
         BySignature!StatusTcp(j) \/ BySignature!StatusHttp(j) \/ BySignature!StatusDistributed(j)
  PROVE  LookupInv'
<1>1. jobs[j].stage \in Asking /\ BySignature!Keep /\ UNCHANGED <<absent, slots>>
  BY DEF BySignature!StatusTcp, BySignature!StatusHttp, BySignature!StatusDistributed, BySignature!caches, Asking
<1>2. \/ BySignature!Answered(j) \/ BySignature!To(j, "statusHttp") \/ BySignature!To(j, "statusDistributed")
      \/ BySignature!Fails(j)
  BY DEF BySignature!StatusTcp, BySignature!StatusHttp, BySignature!StatusDistributed
<1>3. "statusHttp" \in Asking /\ "statusDistributed" \in Asking
  BY DEF Asking
<1> QED BY <1>1, <1>2, <1>3, AnsweredKeeps, RouteKeeps, FailKeeps

\* Absences that ClickHouse answered are recorded with the tip of the span that lacked them.
LEMMA RememberKeeps ==
  ASSUME LookupInv, NEW j \in config.jobs, BySignature!RememberAbsent(j)
  PROVE  LookupInv'
<1>1. /\ jobs[j].stage = "remember" /\ BySignature!Keep /\ slots' = slots /\ config' = config
      /\ absent' = BySignature!remember_absent(j) /\ BySignature!To(j, "answer") /\ CachesOK
  BY DEF BySignature!RememberAbsent, LookupInv, BySignature!Keep
<1>2. jobs[j] \in StatusJob /\ StatusOK(jobs[j])
  BY <1>1, JobAt DEF StatusStages
<1>3. jobs[j].span.tip \in Int /\ \A s \in jobs[j].asked \ jobs[j].rows : ~BySignature!Holds(s, jobs[j].span.tip)
  BY <1>1, <1>2 DEF StatusJob, StatusOK
<1>4. /\ absent' \in [BySignature!Sigs -> Int]
      /\ \A s \in BySignature!Sigs : absent'[s] # -1 => ~BySignature!Holds(s, absent'[s])
  BY <1>1, <1>3 DEF CachesOK, BySignature!remember_absent
<1>5. CachesOK'
  BY <1>1, <1>4 DEF CachesOK, FusedMiss, SlotEntry, BySignature!Sigs, BySignature!Holds, BySignature!EmptySlot
<1> DEFINE r == [jobs[j] EXCEPT !.stage = "answer"]
<1>6. r \in StatusJob /\ r.stage = "answer" /\ SameRequest(r, jobs[j]) /\ r.rows = jobs[j].rows
  BY <1>2, StatusStage DEF StatusStages
<1>7. jobs' = [jobs EXCEPT ![j] = r]
  BY <1>1 DEF BySignature!To, BySignature!Put
<1> HIDE DEF r
<1>8. StatusOK(r)
  BY <1>1, <1>2, <1>6 DEF StatusOK, Asking, SameRequest
<1> QED BY <1>1, <1>5, <1>6, <1>7, <1>8, PutKeeps DEF JobOK

\* The answer joins what the three tiers said.
LEMMA StatusAnswerKeeps ==
  ASSUME LookupInv, NEW j \in config.jobs, BySignature!StatusAnswer(j)
  PROVE  LookupInv'
<1> DEFINE found == jobs[j].rows \cup jobs[j].inDisk \cup jobs[j].inHead
           r == [stage |-> "statuses", q |-> jobs[j].q, owed |-> jobs[j].owed, found |-> found]
<1>1. jobs[j].stage = "answer" /\ BySignature!Keep /\ UNCHANGED <<absent, slots>> /\ BySignature!Put(j, r)
  BY DEF BySignature!StatusAnswer, BySignature!caches
<1>2. jobs[j] \in StatusJob /\ StatusOK(jobs[j])
  BY <1>1, JobAt DEF StatusStages
<1>3. r \in StatusReply
  BY <1>2 DEF StatusJob, StatusReply, SigSets
<1>4. StatusReplyOK(r)
  BY <1>1, <1>2 DEF StatusOK, StatusReplyOK
<1> HIDE DEF r
<1> QED BY <1>1, <1>3, <1>4, QuietKeeps DEF JobOK

\* A step of a request for statuses.
LEMMA StatusKeeps ==
  ASSUME LookupInv, NEW j \in config.jobs, BySignature!StatusStep(j)
  PROVE  LookupInv'
BY StatusBegins, HeadReadKeeps, DiskReadKeeps, SkipKeeps, StatusAsked, RememberKeeps, StatusAnswerKeeps
   DEF BySignature!StatusStep

\* A request for a transaction moves to another stage.
LEMMA TxMoves ==
  ASSUME LookupInv, NEW j \in config.jobs, jobs[j].stage \in TxStages, NEW stage \in TxStages, BySignature!To(j, stage),
         stage \in {"pinned", "pinnedRetry"} => BySignature!Pinned(jobs[j].q),
         stage = "fused" => config.single /\ ~config.direct,
         BySignature!Keep, CachesOK'
  PROVE  LookupInv'
<1>1. jobs[j] \in TxJob /\ TxOK(jobs[j])
  BY JobAt
<1> DEFINE r == [jobs[j] EXCEPT !.stage = stage]
<1>2. r \in TxJob /\ r.stage = stage /\ r.q = jobs[j].q /\ r.owed = jobs[j].owed
  BY <1>1 DEF TxJob
<1>3. jobs' = [jobs EXCEPT ![j] = r]
  BY DEF BySignature!To, BySignature!Put
<1> HIDE DEF r
<1>4. TxOK(r)
  BY <1>1, <1>2 DEF TxOK
<1> QED BY <1>2, <1>3, <1>4, PutKeeps DEF JobOK

\* It ends with its transaction, or with an error.
LEMMA TxEnds ==
  ASSUME LookupInv, NEW j \in config.jobs, jobs[j].stage \in TxStages, BySignature!Found(j) \/ BySignature!Fails(j),
         BySignature!Keep, CachesOK'
  PROVE  LookupInv'
<1>1. jobs[j].q \in TxRequest
  BY JobAt DEF TxJob
<1>2. CASE BySignature!Found(j)
  <2> DEFINE r == [stage |-> "found", q |-> jobs[j].q]
  <2>1. JobOK(r)
    BY <1>1, OtherOK
  <2>2. jobs' = [jobs EXCEPT ![j] = r]
    BY <1>2 DEF BySignature!Found, BySignature!Put
  <2> HIDE DEF r
  <2> QED BY <2>1, <2>2, PutKeeps
<1>3. CASE BySignature!Fails(j)
  <2> DEFINE r == [stage |-> "failed"]
  <2>1. JobOK(r)
    BY <1>1, OtherOK
  <2>2. jobs' = [jobs EXCEPT ![j] = r]
    BY <1>3 DEF BySignature!Fails, BySignature!Put
  <2> HIDE DEF r
  <2> QED BY <2>1, <2>2, PutKeeps
<1> QED BY <1>2, <1>3

\* It ends with null, for one of the reasons there may be.
LEMMA TxNull ==
  ASSUME LookupInv, NEW j \in config.jobs, jobs[j].stage \in TxStages, NEW n \in Nat,
         BySignature!Put(j, [stage |-> "null", q |-> jobs[j].q, owed |-> n]),
         \/ ~BySignature!Holds(jobs[j].q.sig, n)
         \/ BySignature!Pinned(jobs[j].q) /\ jobs[j].q.pinned # config.land[jobs[j].q.sig]
         \/ FusedMiss,
         BySignature!Keep, CachesOK'
  PROVE  LookupInv'
<1>1. jobs[j].q \in TxRequest
  BY JobAt DEF TxJob
<1> DEFINE r == [stage |-> "null", q |-> jobs[j].q, owed |-> n]
<1>2. r \in TxReply /\ TxReplyOK(r)
  BY <1>1 DEF TxReply, TxReplyOK
<1>3. jobs' = [jobs EXCEPT ![j] = r]
  BY DEF BySignature!Put
<1> HIDE DEF r
<1> QED BY <1>2, <1>3, PutKeeps DEF JobOK

\* The same for a request that owes what it owed when it began.
LEMMA TxNullOwed ==
  ASSUME LookupInv, NEW j \in config.jobs, jobs[j].stage \in TxStages, BySignature!Null(j),
         \/ ~BySignature!Holds(jobs[j].q.sig, jobs[j].owed)
         \/ BySignature!Pinned(jobs[j].q) /\ jobs[j].q.pinned # config.land[jobs[j].q.sig]
         \/ FusedMiss,
         BySignature!Keep, CachesOK'
  PROVE  LookupInv'
<1>1. jobs[j].owed \in Nat
  BY JobAt DEF TxJob
<1> QED BY <1>1, TxNull DEF BySignature!Null

\* A row for a pinned signature is found at its slot or not at all.
LEMMA FoundAtKeeps ==
  ASSUME LookupInv, NEW j \in config.jobs, jobs[j].stage \in TxStages, BySignature!FoundAt(j), BySignature!Keep, CachesOK'
  PROVE  LookupInv'
BY TxEnds, TxNullOwed DEF BySignature!FoundAt

\* What some replica lacks was not owed, and a read of one replica is a read of one that is no
\* older than the oldest.
LEMMA Lacking ==
  ASSUME LookupInv, NEW j \in config.jobs, jobs[j].stage \in TxStages, NEW v \in {primary.old, primary.new},
         ~BySignature!Holds(jobs[j].q.sig, v)
  PROVE  ~BySignature!Holds(jobs[j].q.sig, jobs[j].owed) /\ ~BySignature!Holds(jobs[j].q.sig, primary.old)
<1>1. jobs[j] \in TxJob /\ TxOK(jobs[j])
  BY JobAt
<1>2. jobs[j].owed \in Nat /\ jobs[j].q \in TxRequest /\ jobs[j].owed <= primary.old
  BY <1>1 DEF TxJob, TxOK
<1>3. /\ primary.old \in Nat /\ primary.new \in Nat /\ primary.old <= primary.new
      /\ config.land[jobs[j].q.sig] \in Nat
  BY <1>2, ScenarioFacts DEF LookupInv, TiersOK
<1> QED BY <1>2, <1>3 DEF BySignature!Holds

\* A query for a row: found, or what follows if there is none, or if it fails.
LEMMA QueryKeeps ==
  ASSUME LookupInv, NEW j \in config.jobs, jobs[j].stage \in TxStages, NEW exact \in BOOLEAN,
         NEW none \in {"null", "pinnedRetry", "retry", "legacy"},
         NEW fails \in {"failed", "pinnedRetry", "firstDistributed"},
         BySignature!Query(j, exact, none, fails),
         none = "null" => ~exact,
         "pinnedRetry" \in {none, fails} => BySignature!Pinned(jobs[j].q),
         BySignature!Keep, UNCHANGED <<absent, slots>>
  PROVE  LookupInv'
<1>1. CachesOK'
  BY CachesKept DEF LookupInv, BySignature!Keep
<1>2. CASE BySignature!FoundInPrimary(j)
  BY <1>1, <1>2, TxEnds DEF BySignature!FoundInPrimary
<1>3. CASE /\ BySignature!NoRows(jobs[j].q.sig, exact) # {}
           /\ IF none = "null" THEN BySignature!Null(j) ELSE BySignature!To(j, none)
  <2>1. CASE none = "null"
    <3>1. PICK v \in {primary.old, primary.new} : ~BySignature!Holds(jobs[j].q.sig, v)
      BY <1>3, <2>1 DEF BySignature!NoRows, BySignature!Rows
    <3> QED BY <1>1, <1>3, <2>1, <3>1, Lacking, TxNullOwed
  <2>2. CASE none # "null"
    BY <1>1, <1>3, <2>2, TxMoves DEF TxStages
  <2> QED BY <2>1, <2>2
<1>4. CASE IF fails = "failed" THEN BySignature!Fails(j) ELSE BySignature!To(j, fails)
  <2>1. CASE fails = "failed"
    BY <1>1, <1>4, <2>1, TxEnds
  <2>2. CASE fails # "failed"
    BY <1>1, <1>4, <2>2, TxMoves DEF TxStages
  <2> QED BY <2>1, <2>2
<1> QED BY <1>2, <1>3, <1>4 DEF BySignature!Query

\* An entry of the cache of slots is replaced by one that is true.
LEMMA SlotPut ==
  ASSUME CachesOK, NEW s \in BySignature!Sigs, NEW e \in SlotEntry, slots' = [slots EXCEPT ![s] = e],
         e.state = "ready" /\ ~e.found => ~BySignature!Holds(s, e.asOf) \/ FusedMiss,
         UNCHANGED <<config, absent>>
  PROVE  CachesOK'
<1>1. SlotEntry' = SlotEntry /\ BySignature!Sigs' = BySignature!Sigs /\ (FusedMiss' <=> FusedMiss)
      /\ \A x, n : BySignature!Holds(x, n)' <=> BySignature!Holds(x, n)
  BY DEF SlotEntry, BySignature!EmptySlot, BySignature!Sigs, FusedMiss, BySignature!Holds
<1>2. slots' \in [BySignature!Sigs -> SlotEntry]
  BY DEF CachesOK
<1>3. \A x \in BySignature!Sigs : slots'[x] = IF x = s THEN e ELSE slots[x]
  BY DEF CachesOK
<1>4. \A x \in BySignature!Sigs :
        slots'[x].state = "ready" /\ ~slots'[x].found => ~BySignature!Holds(x, slots'[x].asOf) \/ FusedMiss
  BY <1>3 DEF CachesOK
<1> QED BY <1>1, <1>2, <1>4 DEF CachesOK

\* A leader that is dropped leaves nothing.
LEMMA AbandonKeeps ==
  ASSUME CachesOK, NEW s \in BySignature!Sigs, BySignature!Abandon(s), UNCHANGED <<config, absent>>
  PROVE  CachesOK'
<1>1. BySignature!EmptySlot \in SlotEntry /\ BySignature!EmptySlot.state # "ready"
  BY DEF SlotEntry, BySignature!EmptySlot
<1> QED BY <1>1, SlotPut DEF BySignature!Abandon

\* A leader publishes what it found, as of the replicas it may have asked.
LEMMA PublishKeeps ==
  ASSUME CachesOK, NEW s \in BySignature!Sigs, NEW found \in BOOLEAN, BySignature!Publish(s, found),
         primary.old \in Nat, ~found => ~BySignature!Holds(s, primary.old) \/ FusedMiss, UNCHANGED <<config, absent>>
  PROVE  CachesOK'
<1> DEFINE e == [state |-> "ready", found |-> found, asOf |-> primary.old]
<1>1. e \in SlotEntry /\ e.found = found /\ e.asOf = primary.old
  BY DEF SlotEntry
<1>2. slots' = [slots EXCEPT ![s] = e]
  BY DEF BySignature!Publish
<1> HIDE DEF e
<1> QED BY <1>1, <1>2, SlotPut

\* A request for a transaction begins, is given its context, and reads head and disk cache.
LEMMA TxCacheKeeps ==
  ASSUME LookupInv, NEW j \in config.jobs,
         \/ \E q \in config.requests : BySignature!handle_get_transaction(j, q)
         \/ BySignature!validate_get_transaction_context(j)
         \/ BySignature!TxHead(j) \/ BySignature!TxDisk(j) \/ BySignature!TxKept(j)
  PROVE  LookupInv'
<1>0. BySignature!Keep /\ UNCHANGED <<absent, slots>> /\ primary.old \in Nat
  BY DEF BySignature!handle_get_transaction, BySignature!validate_get_transaction_context, BySignature!TxHead,
         BySignature!TxDisk, BySignature!TxKept, BySignature!caches, LookupInv, TiersOK
<1>1. CachesOK'
  BY <1>0, CachesKept DEF LookupInv, BySignature!Keep
<1>2. CASE \E q \in config.requests : BySignature!handle_get_transaction(j, q)
  <2>1. PICK q \in config.requests : BySignature!handle_get_transaction(j, q)
    BY <1>2
  <2> DEFINE r == [stage |-> "txContext", q |-> q, owed |-> primary.old, pos |-> FALSE]
  <2>2. BySignature!Put(j, r) /\ q \in TxRequest
    BY <2>1 DEF BySignature!handle_get_transaction, TxRequest
  <2>3. r \in TxJob /\ TxOK(r)
    BY <1>0, <2>2 DEF TxJob, TxStages, TxOK
  <2> HIDE DEF r
  <2> QED BY <1>0, <2>2, <2>3, QuietKeeps DEF JobOK
<1>3. CASE BySignature!validate_get_transaction_context(j)
  <2>1. jobs[j].stage \in TxStages /\ "txHead" \in TxStages /\ (BySignature!Fails(j) \/ BySignature!To(j, "txHead"))
    BY <1>3 DEF BySignature!validate_get_transaction_context, TxStages
  <2> QED BY <1>0, <1>1, <2>1, TxEnds, TxMoves
<1>4. CASE BySignature!TxHead(j)
  <2>1. jobs[j].stage \in TxStages /\ "txDisk" \in TxStages /\ (BySignature!FoundAt(j) \/ BySignature!To(j, "txDisk"))
    BY <1>4 DEF BySignature!TxHead, TxStages
  <2> QED BY <1>0, <1>1, <2>1, FoundAtKeeps, TxMoves
<1>5. CASE BySignature!TxDisk(j)
  <2>1. jobs[j].stage \in TxStages /\ "kept" \in TxStages
        /\ \/ BySignature!FoundAt(j) \/ BySignature!To(j, "kept")
           \/ /\ BySignature!Null(j) /\ BySignature!Pinned(jobs[j].q)
              /\ jobs[j].q.pinned # config.land[jobs[j].q.sig]
    BY <1>5 DEF BySignature!TxDisk, TxStages
  <2> QED BY <1>0, <1>1, <2>1, FoundAtKeeps, TxMoves, TxNullOwed
<1>6. CASE BySignature!TxKept(j)
  <2>1. /\ jobs[j].stage \in TxStages /\ "pinned" \in TxStages /\ "slot" \in TxStages
        /\ \/ BySignature!Found(j) \/ BySignature!To(j, "slot")
           \/ BySignature!To(j, "pinned") /\ BySignature!Pinned(jobs[j].q)
    BY <1>6 DEF BySignature!TxKept, TxStages
  <2> QED BY <1>0, <1>1, <2>1, TxEnds, TxMoves
<1> QED BY <1>2, <1>3, <1>4, <1>5, <1>6

\* Queries for the row: by the pinned slot, by position, again of the distributed table, by signature.
LEMMA TxQueryKeeps ==
  ASSUME LookupInv, NEW j \in config.jobs,
         \/ BySignature!get_transaction_by_signature_and_slot(j)
         \/ BySignature!fetch_first_transaction_position(j) \/ BySignature!FirstDistributed(j)
         \/ BySignature!Retry(j) \/ BySignature!Legacy(j)
  PROVE  LookupInv'
<1>0. BySignature!Keep /\ UNCHANGED <<absent, slots>>
  BY DEF BySignature!get_transaction_by_signature_and_slot, BySignature!fetch_first_transaction_position,
         BySignature!FirstDistributed, BySignature!Retry, BySignature!Legacy
<1>1. CachesOK'
  BY <1>0, CachesKept DEF LookupInv, BySignature!Keep
<1>2. CASE BySignature!get_transaction_by_signature_and_slot(j)
  <2> DEFINE local == jobs[j].stage = "pinned" /\ config.direct /\ ~config.tcp
  <2>1. jobs[j].stage \in {"pinned", "pinnedRetry"} /\ jobs[j].stage \in TxStages /\ "pinnedRetry" \in TxStages
    BY <1>2 DEF BySignature!get_transaction_by_signature_and_slot, TxStages
  <2>2. BySignature!Pinned(jobs[j].q)
    BY <2>1, JobAt DEF TxOK
  <2>3. IF config.land[jobs[j].q.sig] # jobs[j].q.pinned
        THEN IF local THEN BySignature!To(j, "pinnedRetry") ELSE BySignature!Null(j)
        ELSE BySignature!Query(j, FALSE, IF local THEN "pinnedRetry" ELSE "null", IF local THEN "pinnedRetry" ELSE "failed")
    BY <1>2 DEF BySignature!get_transaction_by_signature_and_slot
  <2> HIDE DEF local
  <2>4. CASE config.land[jobs[j].q.sig] # jobs[j].q.pinned
    BY <1>0, <1>1, <2>1, <2>2, <2>3, <2>4, TxMoves, TxNullOwed
  <2>5. CASE config.land[jobs[j].q.sig] = jobs[j].q.pinned
    <3>1. CASE local
      BY <1>0, <2>1, <2>2, <2>3, <2>5, <3>1, QueryKeeps
    <3>2. CASE ~local
      BY <1>0, <2>1, <2>2, <2>3, <2>5, <3>2, QueryKeeps
    <3> QED BY <3>1, <3>2
  <2> QED BY <2>4, <2>5
<1>3. CASE BySignature!fetch_first_transaction_position(j)
  <2>1. /\ jobs[j].stage \in TxStages
        /\ \/ BySignature!Query(j, TRUE, "retry", "firstDistributed")
           \/ BySignature!Query(j, TRUE, "legacy", "failed")
    BY <1>3 DEF BySignature!fetch_first_transaction_position, TxStages
  <2> QED BY <1>0, <2>1, QueryKeeps
<1>4. CASE BySignature!FirstDistributed(j) \/ BySignature!Retry(j)
  <2>1. jobs[j].stage \in TxStages /\ BySignature!Query(j, TRUE, "legacy", "failed")
    BY <1>4 DEF BySignature!FirstDistributed, BySignature!Retry, TxStages
  <2> QED BY <1>0, <2>1, QueryKeeps
<1>5. CASE BySignature!Legacy(j)
  <2>1. jobs[j].stage \in TxStages /\ BySignature!Query(j, FALSE, "null", "failed")
    BY <1>5 DEF BySignature!Legacy, TxStages
  <2> QED BY <1>0, <2>1, QueryKeeps
<1> QED BY <1>2, <1>3, <1>4, <1>5

\* A request finds the slot in the cache, or leads the lookup of it.
LEMMA GetOrStartKeeps ==
  ASSUME LookupInv, NEW j \in config.jobs, BySignature!GetOrStart(j)
  PROVE  LookupInv'
<1>1. /\ BySignature!Keep /\ UNCHANGED <<config, absent>> /\ CachesOK /\ config \in SignatureCases
      /\ jobs[j].stage \in TxStages
  BY DEF BySignature!GetOrStart, BySignature!Keep, LookupInv, TiersOK, TxStages
<1>2. jobs[j].q \in TxRequest /\ jobs[j].owed \in Nat
  BY <1>1, JobAt DEF TxJob
<1> DEFINE s == jobs[j].q.sig
           e == slots[s]
<1>3. s \in BySignature!Sigs /\ e \in SlotEntry /\ config.land[s] \in Nat
  BY <1>1, <1>2, ScenarioFacts DEF CachesOK
<1>4. CASE e.state = "ready"
  <2>1. e.found \in BOOLEAN /\ e.asOf \in Nat
    BY <1>3, <1>4 DEF SlotEntry, BySignature!EmptySlot
  <2>2. CASE e.found
    <3>1. BySignature!To(j, "first") /\ slots' = slots
      BY <1>4, <2>2 DEF BySignature!GetOrStart
    <3> QED BY <1>1, <3>1, CachesKept, TxMoves DEF TxStages
  <2>3. CASE ~e.found
    <3> DEFINE S == {jobs[j].owed, e.asOf}
               n == BySignature!Min(S)
    <3>1. BySignature!Put(j, [stage |-> "null", q |-> jobs[j].q, owed |-> n]) /\ slots' = slots
      BY <1>4, <2>3 DEF BySignature!GetOrStart
    <3>2. n \in Nat /\ n <= e.asOf
      <4>1. \E x \in S : \A y \in S : x <= y
        BY <1>2, <2>1
      <4>2. n \in S /\ \A y \in S : n <= y
        <5> HIDE DEF S
        <5> QED BY <4>1 DEF BySignature!Min
      <4> QED BY <1>2, <2>1, <4>2
    <3>3. ~BySignature!Holds(s, e.asOf) \/ FusedMiss
      BY <1>1, <1>3, <1>4, <2>3 DEF CachesOK
    <3> HIDE DEF n
    <3>4. ~BySignature!Holds(s, n) \/ FusedMiss
      BY <1>3, <2>1, <3>2, <3>3 DEF BySignature!Holds
    <3> QED BY <1>1, <3>1, <3>2, <3>4, CachesKept, TxNull
  <2> QED BY <2>1, <2>2, <2>3
<1>5. CASE e.state = "flight"
  BY <1>5 DEF BySignature!GetOrStart
<1>6. CASE e.state = "empty"
  <2> DEFINE f == [state |-> "flight", leader |-> j]
             stage == IF config.single /\ ~config.direct THEN "fused"
                      ELSE BySignature!FirstRoute("slotTcp", "slotHttp", "slotDistributed")
  <2>1. BySignature!To(j, stage) /\ slots' = [slots EXCEPT ![s] = f]
    BY <1>6 DEF BySignature!GetOrStart
  <2>2. /\ stage \in TxStages /\ stage \notin {"pinned", "pinnedRetry"}
        /\ stage = "fused" => config.single /\ ~config.direct
    BY DEF TxStages, BySignature!FirstRoute
  <2>3. f \in SlotEntry /\ f.state # "ready"
    BY DEF SlotEntry
  <2> HIDE DEF f, stage, s, e
  <2>4. CachesOK'
    BY <1>1, <1>3, <2>1, <2>3, SlotPut
  <2> QED BY <1>1, <2>1, <2>2, <2>4, TxMoves
<1>7. e.state \in {"ready", "flight", "empty"}
  BY <1>3 DEF SlotEntry, BySignature!EmptySlot
<1> QED BY <1>4, <1>5, <1>6, <1>7

\* A lookup of the slot is answered by one replica.
LEMMA SlotAnswerKeeps ==
  ASSUME LookupInv, NEW j \in config.jobs, jobs[j].stage \in TxStages, BySignature!SlotAnswer(j), BySignature!Keep,
         absent' = absent
  PROVE  LookupInv'
<1>1. config' = config /\ CachesOK /\ config \in SignatureCases /\ primary.old \in Nat
  BY DEF BySignature!Keep, LookupInv, TiersOK
<1>2. jobs[j].q \in TxRequest /\ jobs[j].q.sig \in BySignature!Sigs
  BY <1>1, JobAt, ScenarioFacts DEF TxJob
<1>3. PICK v \in {primary.old, primary.new} :
        /\ BySignature!Publish(jobs[j].q.sig, BySignature!Holds(jobs[j].q.sig, v))
        /\ IF BySignature!Holds(jobs[j].q.sig, v) THEN BySignature!To(j, "first") ELSE BySignature!Null(j)
  BY DEF BySignature!SlotAnswer
<1>4. CASE BySignature!Holds(jobs[j].q.sig, v)
  <2>1. BySignature!Publish(jobs[j].q.sig, TRUE) /\ BySignature!To(j, "first")
    BY <1>3, <1>4 DEF BySignature!Holds
  <2>2. CachesOK'
    BY <1>1, <1>2, <2>1, PublishKeeps
  <2> QED BY <2>1, <2>2, TxMoves DEF TxStages
<1>5. CASE ~BySignature!Holds(jobs[j].q.sig, v)
  <2>0. BySignature!Holds(jobs[j].q.sig, v) = FALSE
    BY <1>5 DEF BySignature!Holds
  <2>1. BySignature!Publish(jobs[j].q.sig, FALSE) /\ BySignature!Null(j)
    <3>1. slots' = [slots EXCEPT ![jobs[j].q.sig] =
                      [state |-> "ready", found |-> BySignature!Holds(jobs[j].q.sig, v), asOf |-> primary.old]]
      BY <1>3 DEF BySignature!Publish
    <3>2. slots' = [slots EXCEPT ![jobs[j].q.sig] = [state |-> "ready", found |-> FALSE, asOf |-> primary.old]]
      BY <2>0, <3>1, Zenon
    <3> QED BY <1>3, <1>5, <3>2 DEF BySignature!Publish
  <2>2. ~BySignature!Holds(jobs[j].q.sig, jobs[j].owed) /\ ~BySignature!Holds(jobs[j].q.sig, primary.old)
    BY <1>3, <1>5, Lacking
  <2>3. CachesOK'
    BY <1>1, <1>2, <2>1, <2>2, PublishKeeps
  <2> QED BY <2>1, <2>2, <2>3, TxNullOwed
<1> QED BY <1>4, <1>5

\* The lookup of the slot, by its three routes, with the row in one query, or dropped.
LEMMA TxSlotKeeps ==
  ASSUME LookupInv, NEW j \in config.jobs,
         \/ BySignature!try_signature_slot_by_signature_tcp(j) \/ BySignature!try_signature_slot_by_signature_http(j)
         \/ BySignature!get_signature_slot_by_signature_uncached(j)
         \/ BySignature!fetch_transaction_single_round_trip(j) \/ BySignature!TimeOut(j)
  PROVE  LookupInv'
<1>1. /\ BySignature!Keep /\ UNCHANGED <<config, absent>> /\ CachesOK /\ config \in SignatureCases
      /\ jobs[j].stage \in TxStages /\ primary.old \in Nat
  BY DEF BySignature!try_signature_slot_by_signature_tcp, BySignature!try_signature_slot_by_signature_http,
         BySignature!get_signature_slot_by_signature_uncached, BySignature!fetch_transaction_single_round_trip,
         BySignature!TimeOut, BySignature!Keep, LookupInv, TiersOK, TxStages
<1>2. jobs[j].q \in TxRequest /\ jobs[j].q.sig \in BySignature!Sigs
  BY <1>1, JobAt, ScenarioFacts DEF TxJob
<1>3. CASE BySignature!SlotAnswer(j)
  BY <1>1, <1>3, SlotAnswerKeeps
<1>4. CASE (BySignature!To(j, "slotHttp") \/ BySignature!To(j, "slotDistributed")) /\ slots' = slots
  BY <1>1, <1>4, CachesKept, TxMoves DEF TxStages
<1>5. CASE BySignature!Fails(j) /\ (BySignature!Abandon(jobs[j].q.sig) \/ slots' = slots)
  <2>1. CachesOK'
    BY <1>1, <1>2, <1>5, AbandonKeeps, CachesKept
  <2> QED BY <1>1, <1>5, <2>1, TxEnds
<1>6. CASE BySignature!fetch_transaction_single_round_trip(j)
  <2>1. CASE BySignature!FoundInPrimary(j) /\ BySignature!Publish(jobs[j].q.sig, TRUE)
    <3>1. CachesOK'
      BY <1>1, <1>2, <2>1, PublishKeeps
    <3> QED BY <1>1, <2>1, <3>1, TxEnds DEF BySignature!FoundInPrimary
  <2>2. CASE /\ BySignature!NoRows(jobs[j].q.sig, TRUE) # {} /\ BySignature!Null(j)
             /\ BySignature!Publish(jobs[j].q.sig, FALSE)
    <3>1. config.single /\ ~config.direct
      BY <1>1, <1>6, JobAt DEF BySignature!fetch_transaction_single_round_trip, TxOK
    <3>2. PICK v \in {primary.old, primary.new} : ~(BySignature!Holds(jobs[j].q.sig, v) /\ config.same)
      BY <2>2 DEF BySignature!NoRows, BySignature!Rows
    <3>3. \/ ~BySignature!Holds(jobs[j].q.sig, jobs[j].owed) /\ ~BySignature!Holds(jobs[j].q.sig, primary.old)
          \/ FusedMiss
      BY <1>1, <3>1, <3>2, Lacking DEF FusedMiss
    <3>4. CachesOK'
      BY <1>1, <1>2, <2>2, <3>3, PublishKeeps
    <3> QED BY <1>1, <2>2, <3>3, <3>4, TxNullOwed
  <2> QED BY <1>5, <1>6, <2>1, <2>2 DEF BySignature!fetch_transaction_single_round_trip
<1>7. CASE BySignature!TimeOut(j)
  BY <1>5, <1>7 DEF BySignature!TimeOut
<1> QED BY <1>3, <1>4, <1>5, <1>6, <1>7
        DEF BySignature!try_signature_slot_by_signature_tcp, BySignature!try_signature_slot_by_signature_http,
            BySignature!get_signature_slot_by_signature_uncached

\* A step of the lookups by signature.
LEMMA LookupStep ==
  ASSUME LookupInv, BySignature!Next
  PROVE  LookupInv'
<1>1. ASSUME NEW j \in config.jobs, BySignature!TransactionStep(j) PROVE LookupInv'
  BY <1>1, TxCacheKeeps, TxQueryKeeps, GetOrStartKeeps, TxSlotKeeps DEF BySignature!TransactionStep
<1>2. ASSUME NEW j \in config.jobs, BySignature!Reply(j) PROVE LookupInv'
  <2>1. JobOK(BySignature!Idle)
    BY DEF JobOK, OtherJob
  <2> QED BY <1>2, <2>1, QuietKeeps DEF BySignature!Reply, BySignature!caches
<1> QED BY <1>1, <1>2, WorldKeeps, StatusKeeps DEF BySignature!Next

-----------------------------------------------------------------------------
(* The reads side by side. *)

KeyInv ==
  /\ part = "request" => DispatchInv
  /\ part = "signature" => LookupInv

\* The first state of the part that runs.
LEMMA KeyInitial ==
  ASSUME KeyInit
  PROVE  KeyInv
BY DispatchInitial, LookupInitial DEF KeyInit, KeyInv

\* A request that rests.
LEMMA DispatchSame ==
  ASSUME DispatchInv, UNCHANGED requestVars
  PROVE  DispatchInv'
<1>1. UNCHANGED <<body, emit, task, ending, used, touched, responses, reply>>
  BY DEF requestVars
<1>2. Dispatch!Items' = Dispatch!Items /\ Dispatch!Running' = Dispatch!Running
  BY <1>1 DEF Dispatch!Items, Dispatch!Running
<1>3. DispatchTypeOK'
  BY <1>1, <1>2 DEF DispatchInv, DispatchTypeOK
<1>4. OpenInv' <=> OpenInv
  BY <1>1, <1>2 DEF OpenInv, Placed, Dispatch!Joined
<1>5. Dispatch!BatchInOrder' /\ Dispatch!StatusTrue' /\ Dispatch!SourcesReported' /\ Dispatch!HandlersBounded'
  BY <1>1, <1>2 DEF DispatchInv, Dispatch!BatchInOrder, Dispatch!StatusTrue, Dispatch!SourcesReported,
                    Dispatch!HandlersBounded, Dispatch!Joined
<1> QED BY <1>1, <1>2, <1>3, <1>4, <1>5 DEF DispatchInv

\* A part that rests, or a step that changes nothing.
LEMMA KeyStutter ==
  ASSUME KeyInv, UNCHANGED <<part, vars, keyVars, requestVars, shardVars>>
  PROVE  KeyInv'
<1>1. UNCHANGED <<config, head, disk, primary, absent, slots, jobs, part>>
  BY DEF vars, keyVars
<1>2. part = "signature" => LookupInv'
  <2> SUFFICES ASSUME part = "signature" PROVE LookupInv'
    OBVIOUS
  <2>1. LookupInv /\ TiersOK
    BY DEF KeyInv, LookupInv
  <2>2. TiersOK' /\ Grows
    BY <1>1, <2>1 DEF TiersOK, Grows
  <2> QED BY <1>1, <2>1, <2>2, TiersKeep
<1>3. part = "request" => DispatchInv'
  <2> SUFFICES ASSUME part = "request" PROVE DispatchInv'
    OBVIOUS
  <2> QED BY DispatchSame DEF KeyInv
<1> QED BY <1>1, <1>2, <1>3 DEF KeyInv

\* A step of the part that runs.
LEMMA KeyStep ==
  ASSUME KeyInv, KeyNext
  PROVE  KeyInv'
<1>1. part' = part
  BY DEF KeyNext
<1>2. CASE part = "signature"
  BY <1>1, <1>2, LookupStep DEF KeyNext, KeyInv
<1>3. CASE part = "request"
  BY <1>1, <1>3, DispatchStep DEF KeyNext, KeyInv
<1> QED BY <1>1, <1>2, <1>3 DEF KeyInv

\* Every part of a batch is answered at its place with what its own handler said, the status and the
\* sources header tell the truth about the reply, and no more handlers run than allowed, for any
\* requests, any limits and any sources.
THEOREM RequestsKept == KeySpec => []RequestsAnswered
<1>1. KeyInit => KeyInv
  BY KeyInitial
<1>2. KeyInv /\ [KeyNext]_<<part, vars, keyVars, requestVars, shardVars>> => KeyInv'
  BY KeyStep, KeyStutter
<1>3. KeyInv => RequestsAnswered
  BY DEF KeyInv, RequestsAnswered, DispatchInv
<1> QED BY <1>1, <1>2, <1>3, PTL DEF KeySpec

\* A status or a transaction that the tiers hold is never answered as unknown or null, wherever
\* signatures landed, whichever routes are configured and however the tiers move.
THEOREM LookupsKept == KeySpec => []LookupsNotLost
<1>1. KeyInit => KeyInv
  BY KeyInitial
<1>2. KeyInv /\ [KeyNext]_<<part, vars, keyVars, requestVars, shardVars>> => KeyInv'
  BY KeyStep, KeyStutter
<1>3. KeyInv => LookupsNotLost
  BY LookupShown DEF KeyInv, LookupsNotLost
<1> QED BY <1>1, <1>2, <1>3, PTL DEF KeySpec
=============================================================================
