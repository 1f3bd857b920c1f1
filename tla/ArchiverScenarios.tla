-------------------------- MODULE ArchiverScenarios -------------------------
(* A chain of seven slots, one of them skipped; two kinds of two and three   *)
(* slots, and the configurations the archiver is run with.                   *)
EXTENDS Integers, Sequences

MCSlots == 0 .. 6
MCProduced == {0, 1, 2, 3, 5, 6}

Base == [kinds |-> {"hourly", "custom"}, order |-> <<"hourly", "custom">>,
         span |-> [hourly |-> 2, custom |-> 3, epoch |-> 4],
         continue |-> TRUE, aligned |-> FALSE, delete |-> TRUE, zero |-> FALSE,
         keep |-> 1, force |-> FALSE, allow_rpc_failure |-> FALSE,
         repair |-> FALSE, backfill |-> FALSE, undercounts |-> TRUE,
         server |-> TRUE, dry |-> FALSE, s3 |-> FALSE, range |-> [start |-> 0, end |-> -1],
         late |-> {}, extra |-> {}, before |-> {}]

\* A bundle an earlier process left, marked done.
First == [kind |-> "hourly", start |-> 0, end |-> 1, manifest |-> TRUE, done |-> TRUE,
          files |-> [t \in {"transactions", "blocks_metadata"} |-> {0, 1}]]

Single(c) == [c EXCEPT !.kinds = {"hourly"}, !.order = <<"hourly">>]

MCConfigs ==
  { Base,
    [Base EXCEPT !.continue = FALSE, !.keep = 0],
    [Single(Base) EXCEPT !.s3 = TRUE, !.late = {<<"transactions", 0>>}],
    [Base EXCEPT !.kinds = {"epoch", "custom"}, !.order = <<"epoch", "custom">>,
                 !.aligned = TRUE, !.backfill = TRUE, !.keep = 0,
                 !.late = {<<"blocks_metadata", 1>>, <<"transactions", 2>>}],
    [Single(Base) EXCEPT !.s3 = TRUE, !.continue = FALSE, !.zero = TRUE],
    [Single(Base) EXCEPT !.repair = TRUE, !.backfill = TRUE, !.undercounts = FALSE,
                         !.extra = {1}, !.late = {<<"blocks_metadata", 0>>}],
    [Single(Base) EXCEPT !.force = TRUE, !.late = {<<"blocks_metadata", 0>>}],
    [Single(Base) EXCEPT !.allow_rpc_failure = TRUE, !.late = {<<"transactions", 0>>}],
    [Single(Base) EXCEPT !.server = FALSE, !.delete = FALSE, !.keep = 0,
                         !.range = [start |-> 1, end |-> 2],
                         !.late = {<<"transactions", 1>>}],
    [Single(Base) EXCEPT !.dry = TRUE, !.extra = {0}, !.repair = TRUE],
    [Single(Base) EXCEPT !.dry = TRUE, !.server = FALSE, !.range = [start |-> 0, end |-> 1],
                         !.before = {First}] }

\* The row of the first slot after a bundle is late, and the range before it is
\* deleted.
SkipConfigs == { [Single(Base) EXCEPT !.late = {<<"transactions", 2>>}] }
=============================================================================
