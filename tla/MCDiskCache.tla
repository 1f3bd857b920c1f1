---------------------------- MODULE MCDiskCache ----------------------------
(***************************************************************************)
(* Instances of DiskCache for TLC.  Requests and fills are interchangeable. *)
(***************************************************************************)
EXTENDS DiskCache, TLC

Symmetry == Permutations(Reader) \cup Permutations(Fill)

\* Evictions, restarts and failing drops, against blocks and ranges.
Blocks ==
  [retain |-> 2, last |-> 1, produced |-> {1}, fills |-> 1, readers |-> 1,
   kinds |-> {"range", "block", "time"}, upkeep |-> Disturbance \ {"schema"}]

\* Schema rebuilds that may fail, and restarts, against the same.
Refreshes == [Blocks EXCEPT !.upkeep = Disturbance \ {"bytes"}]

\* Evictions and schema rebuilds, against blocks.
Together == [Blocks EXCEPT !.kinds = {"block"}, !.upkeep = {"bytes", "schema"}]

\* A schema rebuild, against address pages and pinned reads.
Rebuilds ==
  [retain |-> 2, last |-> 1, produced |-> {1}, fills |-> 1, readers |-> 1,
   kinds |-> {"address", "pinned"}, upkeep |-> {"schema"}]

\* A request that poisons a slot because a rebuild wiped the row it was about to read, next to
\* another request for an address page or a pinned read.
Poisons == [Rebuilds EXCEPT !.readers = 2, !.kinds = {"address", "pinned", "time"}]

\* Two concurrent fills that leave holes, and restarts, against status reads.
Statuses ==
  [retain |-> 3, last |-> 2, produced |-> {0, 1, 2}, fills |-> 2, readers |-> 1,
   kinds |-> {"statuses"}, upkeep |-> {"crash"}]

\* Evictions by the retention window, restarts and failing drops, against blocks.
Slides ==
  [Blocks EXCEPT !.retain = 1, !.produced = {0, 1}, !.kinds = {"block"},
                 !.upkeep = {"crash", "drop fails"}]

Passing == {Blocks, Refreshes, Together, Rebuilds, Poisons, Statuses, Slides}

\* Coverage that outlives its rows, seen by address pages: between the drop of the
\* partitions and the move of the floor of an ordinary eviction, after a byte-budget
\* eviction that a restart cut short, and after a schema refresh that failed half way.
Outlived ==
  {[Slides EXCEPT !.kinds = {"address"}, !.upkeep = {}],
   [Blocks EXCEPT !.produced = {0, 1}, !.kinds = {"address"}, !.upkeep = {"bytes", "crash"}],
   [Blocks EXCEPT !.kinds = {"address"}, !.upkeep = {"schema", "reload fails"}]}
=============================================================================
