--------------------------- MODULE BlockHydration ---------------------------
(***************************************************************************)
(* How getBlock turns stored rows into its answer (handlers/blocks.rs,     *)
(* build_block_result_blocking; hydration/block.rs).  Builds share a pool  *)
(* of permits: a build waits for its first one and takes more only while   *)
(* they are free, splits the transactions into as many contiguous chunks,  *)
(* works on them in parallel and puts the parts together.  A transaction   *)
(* is the stage at which its conversion fails, or "ok".                    *)
(***************************************************************************)
EXTENDS Naturals, Sequences, FiniteSets, FiniteSetsExt, SequencesExt

CONSTANTS
  Build,        \* builds of blocks that may be under way together
  Block,        \* the stored blocks: [rewards |-> BOOLEAN, txs |-> Seq(Outcome)]
  Pool,         \* HYDRATION_CPU_CONCURRENCY
  Parallelism,  \* GET_BLOCK_HYDRATION_PARALLELISM
  MinChunk      \* MIN_TRANSACTIONS_PER_HYDRATION_CHUNK

Stages == <<"Hydrate", "Encode", "Serialize">>
Outcome == {"ok"} \cup Range(Stages)

BlockHydrationAssumption ==
  /\ {Pool, Parallelism, MinChunk} \subseteq Nat \ {0}
  /\ \A b \in Block : b.rewards \in BOOLEAN /\ b.txs \in Seq(Outcome)

VARIABLES
  free,         \* permits left in hydration_sem
  build         \* [Build -> [pc, block, held, chunks, outputs, result, alive]]

vars == <<free, build>>

\* Where a block's answer stops: the rewards, or a stage at a transaction.
NoFailure == <<"none", 0>>

-----------------------------------------------------------------------------

block_hydration_chunk_count(n) ==
  LET most == IF Parallelism < 1 THEN 1 ELSE Parallelism
      full == n \div MinChunk
  IN  IF full < 1 THEN 1 ELSE IF full > most THEN most ELSE full

\* The sizes of the chunks: the first n % count of them take one more.
chunk_size(n, count, index) == (n \div count) + (IF index < n % count THEN 1 ELSE 0)

\* The chunks as intervals of positions, in the order of the block.
split_contiguous(n, count) ==
  [c \in 1..count |->
     LET start == MapThenSumSet(LAMBDA i : chunk_size(n, count, i), 0..(c - 2))
     IN  <<start + 1, start + chunk_size(n, count, c - 1)>>]

\* The first transaction of an interval that fails at a stage; every transaction passes a
\* stage before the first enters the next.
FirstFailure(txs, from, to) ==
  LET failing(stage) == {i \in from..to : txs[i] = stage}
      stages == {k \in 1..3 : failing(Stages[k]) # {}}
  IN  IF stages = {} THEN NoFailure ELSE <<Stages[Min(stages)], Min(failing(Stages[Min(stages)]))>>

Positions(from, to) == [i \in 1..(IF to < from THEN 0 ELSE to - from + 1) |-> from + i - 1]

\* One chunk: the positions it writes, or its failure.
hydrate_serialize_block_chunk(txs, from, to) ==
  [failure |-> FirstFailure(txs, from, to),
   parts |-> IF FirstFailure(txs, from, to) = NoFailure THEN Positions(from, to) ELSE <<>>]

StageOf(failure) == CHOOSE k \in 1..3 : Stages[k] = failure[1]

\* Mutant of assemble_block_chunks: the failure of the first chunk that has one is reported.
AssembleFirstChunkFailure(block, outputs) ==
  LET failed == {c \in DOMAIN outputs : outputs[c].failure # NoFailure}
  IN  IF ~block.rewards THEN [failure |-> <<"rewards", 0>>, parts |-> <<>>]
      ELSE IF failed # {} THEN [failure |-> outputs[Min(failed)].failure, parts |-> <<>>]
      ELSE [failure |-> NoFailure, parts |-> FlattenSeq([c \in DOMAIN outputs |-> outputs[c].parts])]

\* Rewards first, then the earliest stage, then the chunk nearest to the start.
assemble_block_chunks(block, outputs) ==
  LET failed == {c \in DOMAIN outputs : outputs[c].failure # NoFailure}
      earliest == {c \in failed : \A d \in failed : StageOf(outputs[c].failure) <= StageOf(outputs[d].failure)}
  IN  IF ~block.rewards THEN [failure |-> <<"rewards", 0>>, parts |-> <<>>]
      ELSE IF failed # {} THEN [failure |-> outputs[Min(earliest)].failure, parts |-> <<>>]
      ELSE [failure |-> NoFailure, parts |-> FlattenSeq([c \in DOMAIN outputs |-> outputs[c].parts])]

\* The block on one thread: rewards, then all transactions through each stage.
hydrate_block_payload(block) ==
  IF ~block.rewards THEN [failure |-> <<"rewards", 0>>, parts |-> <<>>]
  ELSE hydrate_serialize_block_chunk(block.txs, 1, Len(block.txs))

-----------------------------------------------------------------------------

Idle == [pc |-> "idle", held |-> 0, alive |-> TRUE]

Wanted(b) == block_hydration_chunk_count(Len(build[b].block.txs))

Start(b) ==
  /\ build[b].pc = "idle"
  /\ \E x \in Block : build' = [build EXCEPT ![b] = [pc |-> "wait", held |-> 0, alive |-> TRUE, block |-> x]]
  /\ UNCHANGED free

\* The only permit a build waits for.
AcquireFirst(b) ==
  /\ build[b].pc = "wait" /\ build[b].alive /\ free > 0
  /\ free' = free - 1
  /\ build' = [build EXCEPT ![b].pc = "extras", ![b].held = 1]

\* try_acquire_owned, until enough or none is free.
TryAcquire(b) ==
  /\ build[b].pc = "extras" /\ build[b].held < Wanted(b) /\ free > 0
  /\ free' = free - 1
  /\ build' = [build EXCEPT ![b].held = @ + 1]

\* One task for each chunk; the chunk's task holds its permit.
SpawnChunks(b) ==
  LET n == build[b].held IN
  /\ build[b].pc = "extras" /\ n > 1 /\ (n = Wanted(b) \/ free = 0)
  /\ build' = [build EXCEPT ![b] = [chunks |-> split_contiguous(Len(@.block.txs), n),
                                    outputs |-> [c \in 1..n |-> <<>>]] @@ [@ EXCEPT !.pc = "chunks"]]
  /\ UNCHANGED free

SpawnSequential(b) ==
  /\ build[b].pc = "extras" /\ build[b].held = 1 /\ (Wanted(b) = 1 \/ free = 0)
  /\ build' = [build EXCEPT ![b].pc = "sequential"]
  /\ UNCHANGED free

\* Mutant of RunChunk: the task of a chunk never returns its permit.
RunChunkKeepingPermit(b, c) ==
  /\ build[b].pc = "chunks" /\ c \in DOMAIN build[b].outputs /\ build[b].outputs[c] = <<>>
  /\ LET i == build[b].chunks[c] IN
     build' = [build EXCEPT ![b].outputs[c] = hydrate_serialize_block_chunk(build[b].block.txs, i[1], i[2]),
                            ![b].held = IF c = 1 THEN @ ELSE @ - 1]
  /\ UNCHANGED free

\* The first chunk hands its permit to the assembly, the others give theirs back.
RunChunk(b, c) ==
  /\ build[b].pc = "chunks" /\ c \in DOMAIN build[b].outputs /\ build[b].outputs[c] = <<>>
  /\ LET i == build[b].chunks[c] IN
     build' = [build EXCEPT ![b].outputs[c] = hydrate_serialize_block_chunk(build[b].block.txs, i[1], i[2]),
                            ![b].held = IF c = 1 THEN @ ELSE @ - 1]
  /\ free' = IF c = 1 THEN free ELSE free + 1

Finish(b, result) ==
  /\ build' = [build EXCEPT ![b] = IF @.alive THEN [pc |-> "done", held |-> 0, alive |-> TRUE,
                                                    block |-> @.block, result |-> result]
                                   ELSE Idle]
  /\ free' = free + build[b].held

\* Mutant of Assemble: the tasks of a build whose client is gone are never collected.
AssembleForClient(b) ==
  /\ build[b].pc = "chunks" /\ build[b].alive
  /\ \A c \in DOMAIN build[b].outputs : build[b].outputs[c] # <<>>
  /\ Finish(b, assemble_block_chunks(build[b].block, build[b].outputs))

\* A build whose client is gone assembles nothing: its tasks end and free their permits.
Assemble(b) ==
  /\ build[b].pc = "chunks" /\ \A c \in DOMAIN build[b].outputs : build[b].outputs[c] # <<>>
  /\ Finish(b, assemble_block_chunks(build[b].block, build[b].outputs))

RunSequential(b) ==
  /\ build[b].pc = "sequential"
  /\ Finish(b, hydrate_block_payload(build[b].block))

\* The future of the request is dropped: tasks that run go on, a wait ends.
Cancel(b) ==
  /\ build[b].pc \in {"wait", "chunks", "sequential"} /\ build[b].alive
  /\ build' = [build EXCEPT ![b] = IF @.pc = "wait" THEN Idle ELSE [@ EXCEPT !.alive = FALSE]]
  /\ UNCHANGED free

Deliver(b) ==
  /\ build[b].pc = "done"
  /\ build' = [build EXCEPT ![b] = Idle]
  /\ UNCHANGED free

Init ==
  /\ free = Pool
  /\ build = [b \in Build |-> Idle]

\* What the runtime does on its own, once a build has begun.
Work(b) ==
  \/ AcquireFirst(b) \/ TryAcquire(b) \/ SpawnChunks(b) \/ SpawnSequential(b)
  \/ \E c \in 1..Parallelism : RunChunk(b, c)
  \/ Assemble(b) \/ RunSequential(b) \/ Deliver(b)

Next == \E b \in Build : Start(b) \/ Work(b) \/ Cancel(b)

\* Blocking threads and the executor are never starved, and the semaphore is fair:
\* a build that waits is served before one that came after it is served again.
Fairness == \A b \in Build : WF_vars(Work(b)) /\ SF_vars(AcquireFirst(b))

Spec == Init /\ [][Next]_vars /\ Fairness

-----------------------------------------------------------------------------
(* Properties.                                                              *)

\* The number of permits that happened to be free never shows: however a block was split
\* and whichever chunk failed, the answer or the error is the one of a single thread.
ChunkedAsSequential ==
  \A b \in Build : build[b].pc = "done" => build[b].result = hydrate_block_payload(build[b].block)

\* A permit is free or held by a task, also when clients leave while their tasks run.
PermitsConserved == free + MapThenSumSet(LAMBDA b : build[b].held, Build) = Pool

\* A build waits for one permit and only tries for the others, so builds never wait for
\* each other: each one under way ends.
EveryBuildEnds == \A b \in Build : (build[b].pc = "wait") ~> (build[b].pc \in {"done", "idle"})
=============================================================================
