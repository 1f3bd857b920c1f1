-------------------------- MODULE RequestDispatch --------------------------
(***************************************************************************)
(* One HTTP request of the JSON-RPC server (handlers/mod.rs): a body is    *)
(* parsed, a batch is checked and each of its calls becomes a task that    *)
(* waits for a permit, runs its handler and is joined in any order; a      *)
(* single call is dispatched under the request timeout, a batch as a whole *)
(* is.  The HTTP status and the headers are set from what the answers and  *)
(* the handlers left behind.  A handler is one of its possible endings.    *)
(***************************************************************************)
EXTENDS Naturals, Sequences, FiniteSets, SequencesExt

CONSTANTS
  Id,             \* ids of the calls
  Body,           \* request bodies, see RequestDispatchAssumption
  Source,         \* what a handler may read: ClickHouse, the head cache...
  MaxBatch,       \* rpc_max_batch_size
  BatchLimit      \* rpc_batch_concurrency_limit

Kind == {"unparsable", "scalar", "single", "batch"}
Form == {"malformed", "filtered", "call"}

\* How a handler ends: with a result, an error of the client's making, an error of the
\* server's, a bare HTTP status, a body that is no JSON-RPC response, or a panic.
Ending == {"result", "client", "server", "status", "garbled", "panic"}

RequestDispatchAssumption ==
  /\ MaxBatch \in Nat \ {0} /\ BatchLimit \in Nat
  /\ \A b \in Body : /\ b \in [kind : Kind, items : Seq([id : Id, form : Form])]
                     /\ b.kind = "single" => Len(b.items) = 1

VARIABLES
  body,           \* the request
  emit,           \* emit_http_errors
  task,           \* each item's task: "none", "waiting", "running", "ended", "joined", "aborted"
  ending,         \* how each item's handler ended, "none" before
  used,           \* the sources each handler has read
  touched,        \* ResponseHeaderMetricsContext::source_touched_bits
  responses,      \* the batch's answers by index, NoAnswer while missing
  reply           \* [at, answers, status, sources]

dispatchVars == <<body, emit, task, ending, used, touched, responses, reply>>

Null == "null"
NoAnswer == [id |-> Null, code |-> "missing"]
Answer(id, code) == [id |-> id, code |-> code]
Items == DOMAIN body.items

-----------------------------------------------------------------------------

\* is_http_503_eligible_json_rpc_error: internal errors, unhealthy nodes, unreachable
\* storage and the request timeout.
Eligible(code) == code \in {"server", "internal", "timeout"}

\* finalize_json_rpc_response: the status of the whole envelope and the header with the
\* sources marked until now.
Reply(answers) ==
  reply' = [at |-> "sent", answers |-> answers, sources |-> touched,
            status |-> IF emit /\ \E i \in DOMAIN answers : Eligible(answers[i].code) THEN 503 ELSE 200]

\* An answer of its own, before any task ran.
ReplyOnly(id, code) ==
  Reply(<<Answer(id, code)>>) /\ UNCHANGED <<body, emit, task, ending, used, touched, responses>>

\* parse_json_rpc_request and the parameter filter, for one item: the answer it has
\* without a handler.
Refused(item) == item.form # "call"
Refusal(item) == Answer(item.id, IF item.form = "malformed" THEN "request" ELSE "params")

Received == reply.at = "none" /\ \A i \in Items : task[i] = "none"

handle_json_rpc_with_headers ==
  /\ Received
  /\ \/ body.kind = "unparsable" /\ ReplyOnly(Null, "parse")
     \/ body.kind = "scalar" /\ ReplyOnly(Null, "request")

handle_single_request ==
  /\ Received /\ body.kind = "single"
  /\ \/ Refused(body.items[1]) /\ Reply(<<Refusal(body.items[1])>>) /\ UNCHANGED task
     \/ ~Refused(body.items[1]) /\ task' = [task EXCEPT ![1] = "running"] /\ UNCHANGED reply
  /\ UNCHANGED <<body, emit, ending, used, touched, responses>>

\* handle_batch_request, and execute_batch_requests until all tasks are spawned.
handle_batch_request ==
  /\ Received /\ body.kind = "batch" /\ responses = <<>>
  /\ \/ (body.items = <<>> \/ Len(body.items) > MaxBatch) /\ ReplyOnly(Null, "request")
     \/ /\ Len(body.items) \in 1..MaxBatch
        /\ task' = [i \in Items |-> IF Refused(body.items[i]) THEN "none" ELSE "waiting"]
        /\ responses' = [i \in Items |-> IF Refused(body.items[i]) THEN Refusal(body.items[i]) ELSE NoAnswer]
        /\ UNCHANGED <<body, emit, ending, used, touched, reply>>

\* The permits of a batch: at least one, at most one for each item.
Parallelism ==
  LET most == IF BatchLimit < 1 THEN 1 ELSE BatchLimit
  IN  IF most < Len(body.items) THEN most ELSE Len(body.items)
Running == {i \in Items : task[i] = "running"}

acquire(i) ==
  /\ reply.at = "none" /\ body.kind = "batch" /\ task[i] = "waiting"
  /\ Cardinality(Running) < Parallelism
  /\ task' = [task EXCEPT ![i] = "running"]
  /\ UNCHANGED <<body, emit, ending, used, touched, responses, reply>>

\* Mutant: a spawned task has no context to mark.
MarkWithoutContext(i, s) ==
  /\ reply.at = "none" /\ task[i] = "running"
  /\ used' = [used EXCEPT ![i] = @ \cup {s}]
  /\ touched' = IF body.kind = "single" THEN touched \cup {s} ELSE touched
  /\ UNCHANGED <<body, emit, task, ending, responses, reply>>

\* A handler reads a source and marks it in the context of its request, which a batch
\* hands to each of its tasks: a spawned task does not inherit it.
mark_source_touched(i, s) ==
  /\ reply.at = "none" /\ task[i] = "running"
  /\ used' = [used EXCEPT ![i] = @ \cup {s}]
  /\ touched' = touched \cup {s}
  /\ UNCHANGED <<body, emit, task, ending, responses, reply>>

\* dispatch_json_rpc_request ends for a single call, which is the reply: a bare status goes
\* out as it is and without headers, a broken body with them, after a panic the connection
\* is closed.
dispatch_json_rpc_request(e) ==
  /\ reply.at = "none" /\ body.kind = "single" /\ task[1] = "running"
  /\ task' = [task EXCEPT ![1] = "joined"]
  /\ ending' = [ending EXCEPT ![1] = e]
  /\ \/ e \in {"result", "client", "server"} /\ Reply(<<Answer(body.items[1].id, e)>>)
     \/ e = "garbled" /\ reply' = [reply EXCEPT !.at = "raw", !.sources = touched]
     \/ e = "status" /\ reply' = [reply EXCEPT !.at = "bare"]
     \/ e = "panic" /\ reply' = [reply EXCEPT !.at = "closed"]
  /\ UNCHANGED <<body, emit, used, touched, responses>>

\* A task of a batch ends and gives its permit back.
TaskEnds(i, e) ==
  /\ reply.at = "none" /\ body.kind = "batch" /\ task[i] = "running"
  /\ task' = [task EXCEPT ![i] = "ended"]
  /\ ending' = [ending EXCEPT ![i] = e]
  /\ UNCHANGED <<body, emit, used, touched, responses, reply>>

\* Dropping the join set aborts what is left of the tasks.
Aborted == [i \in Items |-> IF task[i] = "none" THEN "none" ELSE "aborted"]

\* The answer of an ended task: response_to_json_value and validate_json_rpc_response_value
\* turn a bare status and a broken body into an internal error under the item's id.
Joined(i) ==
  Answer(body.items[i].id, IF ending[i] \in {"status", "garbled"} THEN "internal" ELSE ending[i])

\* Mutant: answers are put down in the order in which the tasks end.
PlaceNext(i) ==
  LET open == CHOOSE j \in Items : responses[j] = NoAnswer /\ \A k \in Items : responses[k] = NoAnswer => j <= k
  IN  [responses EXCEPT ![open] = Joined(i)]

\* join_next: the tasks end in any order, each answer goes to its index.
Place(i) == [responses EXCEPT ![i] = Joined(i)]
join_next(i) ==
  /\ reply.at = "none" /\ body.kind = "batch" /\ task[i] = "ended"
  /\ \/ /\ ending[i] # "panic"
        /\ task' = [task EXCEPT ![i] = "joined"]
        /\ responses' = Place(i)
        /\ UNCHANGED reply
     \/ /\ ending[i] = "panic"
        /\ Reply(<<Answer(Null, "internal")>>)
        /\ task' = Aborted
        /\ UNCHANGED responses
  /\ UNCHANGED <<body, emit, ending, used, touched>>

\* The end of execute_batch_requests: what was answered, in the order of the requests;
\* an index without an answer would be left out.
Flattened(answers) ==
  IF \A i \in DOMAIN answers : answers[i] # NoAnswer THEN answers
  ELSE SelectSeq(answers, LAMBDA a : a # NoAnswer)

collect ==
  /\ reply.at = "none" /\ body.kind = "batch" /\ responses # <<>>
  /\ \A i \in Items : task[i] \in {"none", "joined"}
  /\ Reply(Flattened(responses))
  /\ UNCHANGED <<body, emit, task, ending, used, touched, responses>>

\* The request timeout: of the call, under its id, or of the whole batch.
rpc_timeout ==
  /\ reply.at = "none" /\ \E i \in Items : task[i] # "none"
  /\ Reply(<<Answer(IF body.kind = "single" THEN body.items[1].id ELSE Null, "timeout")>>)
  /\ task' = Aborted
  /\ UNCHANGED <<body, emit, ending, used, touched, responses>>

\* The client goes away and the server drops the request.
Disconnect ==
  /\ reply.at = "none"
  /\ reply' = [reply EXCEPT !.at = "closed"]
  /\ task' = Aborted
  /\ UNCHANGED <<body, emit, ending, used, touched, responses>>

-----------------------------------------------------------------------------

Init ==
  /\ body \in Body /\ emit \in BOOLEAN
  /\ task = [i \in Items |-> "none"]
  /\ ending = [i \in Items |-> "none"]
  /\ used = [i \in Items |-> {}]
  /\ touched = {} /\ responses = <<>>
  /\ reply = [at |-> "none", answers |-> <<>>, status |-> 0, sources |-> {}]

Next ==
  \/ handle_json_rpc_with_headers \/ handle_single_request \/ handle_batch_request
  \/ \E i \in Items : acquire(i) \/ join_next(i)
  \/ \E i \in Items, s \in Source : mark_source_touched(i, s)
  \/ \E e \in Ending : dispatch_json_rpc_request(e)
  \/ \E i \in Items, e \in Ending : TaskEnds(i, e)
  \/ collect \/ rpc_timeout \/ Disconnect

Spec == Init /\ [][Next]_dispatchVars

-----------------------------------------------------------------------------
(* Properties. *)

\* A batch answered item by item has one answer for each request, at its place and under
\* its id, and it is what that request's own handler said, in whatever order the
\* handlers ended.
BatchInOrder ==
  reply.at = "sent" /\ body.kind = "batch" /\ (\A i \in Items : task[i] \in {"none", "joined"})
    /\ Len(body.items) \in 1..MaxBatch =>
    /\ Len(reply.answers) = Len(body.items)
    /\ \A i \in Items :
         /\ reply.answers[i].id = body.items[i].id
         /\ reply.answers[i] \in {Refusal(body.items[i]), Joined(i)}
         /\ Refused(body.items[i]) <=> reply.answers[i].code \in {"request", "params"}

\* With HTTP errors on, a reply is a 503 exactly when some part of it is an error of the
\* server's making.
StatusTrue ==
  reply.at = "sent" =>
    (reply.status = 503 <=>
       emit /\ \E i \in DOMAIN reply.answers : reply.answers[i].code \in {"server", "internal", "timeout"})

\* The header names every source that an answer in the reply was read from.
SourcesReported ==
  reply.at \in {"sent", "raw"} =>
    \A i \in Items : task[i] = "joined" => used[i] \subseteq reply.sources

\* A batch never runs more handlers than the limit allows, and no handler outlives the
\* reply.
HandlersBounded ==
  /\ Cardinality(Running) <= (IF BatchLimit < 1 THEN 1 ELSE BatchLimit)
  /\ reply.at # "none" => \A i \in Items : task[i] \in {"none", "joined", "aborted"}
=============================================================================
