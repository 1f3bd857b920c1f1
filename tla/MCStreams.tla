------------------------------ MODULE MCStreams ------------------------------
(***************************************************************************)
(* The two consumers of live streams, with scenarios for the model         *)
(* checker: the gRPC ingestor (GrpcIngest) and the Fumarole consumer       *)
(* (FumaroleIngest), which share the tables and the buffers but for their  *)
(* sizes and sources.                                                      *)
(***************************************************************************)
EXTENDS GrpcIngest, TLC

\* FumaroleIngest: slots, retries and sources of the consumer group.
CONSTANTS GroupSlots, GroupRetries, GroupScenario

VARIABLES blocks, exceeded, delivered, acked   \* FumaroleIngest, with what GrpcIngest has

Fumarole == INSTANCE FumaroleIngest WITH
  MaxSlot <- GroupSlots, MaxRetries <- GroupRetries, Scenario <- GroupScenario

ASSUME GroupAssumption ==
  GroupSlots \in Nat \ {0} /\ GroupRetries \in Nat /\ Fumarole!FumaroleAssumption

-----------------------------------------------------------------------------
(* Scenarios of FumaroleIngest. *)

Group == 1..GroupSlots

GroupBase == [shape |-> [s \in Group |-> "parts"], footers |-> {}, bound |-> 0, flushRows |-> 2, faults |-> {}]

\* Interleaved blocks with footers, failing inserts, crashes and stops.
GroupStorage == [GroupBase EXCEPT !.footers = {2}, !.faults = {"insert", "crash", "stop"}]

\* A whole block, a slot without one and a block in parts, under pressure, with
\* footers that are spoilt and blocks that are not complete.
GroupShapes ==
  [GroupBase EXCEPT !.shape = [s \in Group |-> CASE s = 1 -> "block" [] s = 2 -> "nothing" [] OTHER -> "parts"],
                    !.footers = {1, 3}, !.flushRows = 3,
                    !.faults = {"pressure", "bad footer", "malformed", "stop"}]

\* A bound, with rows that are flushed only at the end.
GroupBounded == [GroupBase EXCEPT !.bound = 2, !.flushRows = 4, !.faults = {"crash", "insert"}]

GroupPassing == {GroupStorage, GroupShapes, GroupBounded}

\* Slots in parts, and one without a block.
GroupProgress ==
  {[GroupBase EXCEPT !.faults = {"insert"}]}
  \cup {[GroupBase EXCEPT !.shape = [s \in Group |-> IF s = empty THEN "nothing" ELSE "parts"], !.footers = {1},
                          !.flushRows = 3, !.faults = {"pressure"}] : empty \in Group}

-----------------------------------------------------------------------------
(* Scenarios of GrpcIngest. *)

Base == [bank |-> [s \in Slot |-> 1], contested |-> {}, footers |-> {}, evidence |-> {"finalized"},
         window |-> 8, awaitMax |-> 2, holdMax |-> 3, flushRows |-> 2, faults |-> {}]

\* Failing inserts, crashes and orderly stops between the round trips of a
\* flush; two of three blocks have a footer, the replay has none.
Storage == [Base EXCEPT !.footers = {1, 3}, !.faults = {"stop", "insert", "crash"}]

\* Bank zero, a slot without bank ids and an ordinary bank: blocks are held for
\* evidence that comes in any order, over crashes and stops.
Identities == [Base EXCEPT !.bank = (1 :> 0) @@ (2 :> NoBank) @@ (3 :> 1), !.footers = {1, 2},
                           !.evidence = {"created", "finalized"}, !.faults = {"stop", "crash"}]

\* A contested slot after a skipped one, and a producer that contradicts itself.
Contradictions == [Base EXCEPT !.bank = (1 :> 0) @@ (3 :> 0), !.contested = {3}, !.footers = {3},
                               !.evidence = {"created", "finalized"},
                               !.faults = {"malformed", "stray", "flip"}]

\* The same with a losing bank zero, and the limits of the hold, the wait queue
\* and the window within reach.
Limits == [Base EXCEPT !.bank = (1 :> 0) @@ (2 :> 0) @@ (3 :> 1), !.contested = {3}, !.footers = {2, 3},
                       !.evidence = {"created", "finalized"}, !.window = 1, !.awaitMax = 1,
                       !.holdMax = 1, !.flushRows = 1, !.faults = {"malformed", "stray", "stop"}]

Passing == {Storage, Identities, Contradictions, Limits}

\* Blocks held for evidence, also behind an earlier one, and waiting for footers
\* that need not come, with inserts that may fail (two slots).
Progress == {[Base EXCEPT !.bank = (1 :> 0) @@ (2 :> k[1]), !.footers = {1}, !.evidence = {"created"},
                          !.flushRows = k[2], !.faults = {"insert"}] : k \in {<<NoBank, 1>>, <<NoBank, 3>>, <<1, 3>>}}
=============================================================================
