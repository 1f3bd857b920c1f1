-------------------------- MODULE DiskCacheProofs ---------------------------
(***************************************************************************)
(* Proofs about DiskCache, for every window, partition width, number of    *)
(* fills and requests, and every way the source and the schema may move.   *)
(*                                                                         *)
(* Four results.  What the cache answers about blocks is true of the      *)
(* source in every scenario, faults included (BlocksAnsweredTrue).  What   *)
(* it answers by address and by signature is complete, and a missing       *)
(* signature is really absent, as long as the cache evicts nothing and no  *)
(* refresh of the schema fails half way (AddressPagesKept, AbsenceKept):   *)
(* the hypothesis KeepsEverything is needed, MCDiskCache!Outlived shows    *)
(* what happens without it.  No floor passes the end of the last partition *)
(* (FloorsInReach).  And at the top of the loop no covered slot lacks its  *)
(* rows (RetentionKept, in the second half).                               *)
(*                                                                         *)
(* None of them is inductive.  The answers about blocks need what a        *)
(* request has learnt at every step on its way to the answer               *)
(* (BlockReadsTrue).  The answers by key need the whole chain from a fill  *)
(* to a reader (KeepInv): rows are stored before their marks, marks before *)
(* coverage, coverage is reloaded from marks, a request samples its epochs *)
(* before it reads the span, and nothing is ready while the loop rebuilds. *)
(***************************************************************************)
EXTENDS DiskCache, WellFoundedInduction, TLAPS

-----------------------------------------------------------------------------
(***************************************************************************)
(* The slots and floors of a cache.  A mark is either absent or the true   *)
(* status of its slot, and no row is stored that the source does not have. *)
(***************************************************************************)
Last == scenario.last

Known == 0..Last

Floor == 0..(Last + Width)

StatusOf(s) == IF s \in Produced THEN 1 ELSE 2

LoopPc ==
  {"top", "register", "wipe", "adopt", "reload", "loop", "evict", "invalidate", "drop txs",
   "drop blocks", "drop marks", "floor", "forget", "evicted", "not evicted", "plan", "filling"}

LoopState ==
  [pc : LoopPc, caller : {"none", "refresh", "rebuild", "open", "loop", "round", "no holes"},
   head : Known, floor : Floor, budget : {"met", "exceeded", "purged"}, succeeded : BOOLEAN]

FillPc == {"idle", "begin", "txs", "validate", "blocks", "stamp", "marks", "publish"}

FillState == [pc : FillPc, range : SUBSET Known, publish : SUBSET Known, version : Nat]

ReaderPc ==
  {"idle", "sample", "span", "query", "page", "status", "valid", "check", "rows",
   "block status", "time", "answered", "poison", "register", "remove", "stamp", "mark"}

ReaderState ==
  [kind : RequestKind \cup {"none"}, pc : ReaderPc, slots : SUBSET Slot,
   seen : SUBSET (Slot \cup {"block", "all", "missing"}), mark : 0..2, version : Nat,
   moved : SUBSET {"epoch", "data", "serial"}]

SourceTyped == scenario \in Scenario /\ tip \in Known

RowsTrue == txs \subseteq Produced /\ blocks \subseteq Produced

MarksTrue ==
  /\ marks \in [Slot -> [status : 0..2, version : Nat]]
  /\ \A s \in Slot : marks[s].status # 0 => marks[s].status = StatusOf(s) /\ s \in Known

ServingTyped ==
  coverage \subseteq Known /\ minRetained \in Floor /\ ready \in BOOLEAN /\ clock \in Nat

LoopTyped == loop \in LoopState

FillTyped == fill \in [Fill -> FillState]

ReaderTyped == reader \in [Reader -> ReaderState]

TypeInv ==
  /\ SourceTyped /\ RowsTrue /\ MarksTrue /\ ServingTyped
  /\ LoopTyped /\ FillTyped /\ ReaderTyped

-----------------------------------------------------------------------------
(***************************************************************************)
(* Max and Min of what the code applies them to: a set with a bound.       *)
(***************************************************************************)
LEMMA MinExists ==
  ASSUME NEW S \in SUBSET Nat, S # {}
  PROVE  Min(S) \in S /\ \A y \in S : Min(S) <= y
<1>1. PICK m \in S : \A t \in S : ~(<<t, m>> \in OpToRel(<, Nat))
  BY NatLessThanWellFounded, WFMin, Zenon
<1>2. \A t \in S : m <= t
  <2> SUFFICES ASSUME NEW t \in S PROVE m <= t
    OBVIOUS
  <2>1. t \in Nat /\ m \in Nat
    OBVIOUS
  <2>2. ~(<<t, m>> \in OpToRel(<, Nat))
    BY <1>1
  <2>3. ~(t < m)
    BY <2>1, <2>2, Zenon DEF OpToRel
  <2> QED BY <2>1, <2>3
<1> QED BY <1>2 DEF Min

\* A non-empty set of naturals with an upper bound has a maximum.
LEMMA MaxExists ==
  ASSUME NEW N \in Nat, NEW S \in SUBSET (0..N), S # {}
  PROVE  Max(S) \in S /\ \A y \in S : y <= Max(S)
<1> DEFINE U == {u \in Nat : \A y \in S : y <= u}
<1>1. Min(U) \in U /\ \A u \in U : Min(U) <= u
  <2>1. U \in SUBSET Nat /\ N \in U
    OBVIOUS
  <2> HIDE DEF U
  <2> QED BY <2>1, MinExists
<1> DEFINE m == Min(U)
<1>2. m \in S
  <2> SUFFICES ASSUME m \notin S PROVE FALSE
    OBVIOUS
  <2>1. PICK z \in S : TRUE
    OBVIOUS
  <2>2. m \in Nat /\ \A y \in S : y <= m
    BY <1>1
  <2> HIDE DEF m
  <2>3. \A y \in S : y <= m - 1
    BY <2>2
  <2>4. m - 1 \in Nat
    BY <2>1, <2>2, <2>3
  <2>5. m - 1 \in U
    BY <2>3, <2>4
  <2> QED BY <2>5, <2>2, <1>1 DEF m
<1>3. \A y \in S : y <= m
  BY <1>1
<1> HIDE DEF m
<1> QED BY <1>2, <1>3 DEF Max

\* The larger of two floors is a floor.
LEMMA FloorOfTwo ==
  ASSUME NEW x \in Int
  PROVE  Max({0, x}) = IF x >= 0 THEN x ELSE 0
<1>1. CASE x >= 0
  BY <1>1 DEF Max
<1>2. CASE ~(x >= 0)
  BY <1>2 DEF Max
<1> QED BY <1>1, <1>2

(***************************************************************************)
(* A partition boundary lies less than a partition beyond its slot.        *)
(***************************************************************************)
LEMMA BoundaryInReach ==
  ASSUME NEW h \in Nat, NEW p \in 0..(Partition(h) + 1)
  PROVE  p * Width \in Nat /\ p * Width <= h + Width
<1>1. Width \in Nat \ {0}
  BY DiskCacheAssumption
<1> DEFINE q == h \div Width
<1>2. q \in Nat /\ q * Width <= h
  BY <1>1
<1> HIDE DEF q
<1>3. p \in 0..(q + 1)
  BY DEF Partition, q
<1>4. p * Width \in Nat
  BY <1>1, <1>2, <1>3
<1>5. p * Width <= (q + 1) * Width
  BY <1>1, <1>2, <1>3
<1>6. (q + 1) * Width = q * Width + Width
  BY <1>1, <1>2
<1>7. q * Width \in Nat
  BY <1>1, <1>2
<1> QED BY <1>1, <1>2, <1>4, <1>5, <1>6, <1>7
-----------------------------------------------------------------------------
(***************************************************************************)
(* The steps of the requests keep the records of the requests typed.       *)
(***************************************************************************)
LEMMA IdleTyped == Idle \in ReaderState
  BY DEF Idle, ReaderState, ReaderPc

\* Replacing one request by a typed record keeps the requests typed.
LEMMA SetTyped ==
  ASSUME ReaderTyped, NEW r \in Reader, NEW x \in ReaderState,
         reader' = [reader EXCEPT ![r] = x]
  PROVE  ReaderTyped'
  BY DEF ReaderTyped

\* The fields of a typed request.
LEMMA FieldsTyped ==
  ASSUME NEW x \in ReaderState, NEW pc \in ReaderPc
  PROVE  /\ \A m \in 0..2 : [x EXCEPT !.pc = pc, !.mark = m] \in ReaderState
         /\ \A m \in 0..2 : [x EXCEPT !.mark = m, !.pc = pc] \in ReaderState
         /\ \A v \in Nat : [x EXCEPT !.pc = pc, !.version = v] \in ReaderState
         /\ \A k \in RequestKind, s \in SUBSET Slot :
               [x EXCEPT !.kind = k, !.slots = s, !.pc = pc] \in ReaderState
<1>1. ASSUME NEW m \in 0..2 PROVE [x EXCEPT !.pc = pc, !.mark = m] \in ReaderState
  BY DEF ReaderState
<1>2. ASSUME NEW m \in 0..2 PROVE [x EXCEPT !.mark = m, !.pc = pc] \in ReaderState
  BY DEF ReaderState
<1>3. ASSUME NEW v \in Nat PROVE [x EXCEPT !.pc = pc, !.version = v] \in ReaderState
  BY DEF ReaderState
<1>4. ASSUME NEW k \in RequestKind, NEW s \in SUBSET Slot
      PROVE  [x EXCEPT !.kind = k, !.slots = s, !.pc = pc] \in ReaderState
  BY DEF ReaderState
<1> QED BY <1>1, <1>2, <1>3, <1>4

\* A request that falls back to ClickHouse stays typed.
LEMMA GivesUpTyped ==
  ASSUME ReaderTyped, NEW r \in Reader, GivesUp(r)
  PROVE  ReaderTyped'
  BY IdleTyped, SetTyped DEF GivesUp

\* A request that only moves on stays typed.
LEMMA GoesTyped ==
  ASSUME ReaderTyped, NEW r \in Reader, NEW pc \in ReaderPc, ReaderGoes(r, pc)
  PROVE  ReaderTyped'
  BY DEF ReaderTyped, ReaderState, ReaderGoes

\* Telling every request that a counter moved keeps the requests typed.
LEMMA BumpTyped ==
  ASSUME ReaderTyped, NEW counters \in SUBSET {"epoch", "data", "serial"}, Bump(counters)
  PROVE  ReaderTyped'
<1>1. \A r \in Reader : [reader[r] EXCEPT !.moved = @ \cup counters] \in ReaderState
  BY DEF ReaderTyped, ReaderState
<1> QED BY <1>1 DEF Bump, ReaderTyped

\* The same for the counters a poisoning request moves for the others.
LEMMA BumpFromTyped ==
  ASSUME ReaderTyped, NEW counters \in SUBSET {"epoch", "data", "serial"},
         NEW r \in Reader, NEW pc \in ReaderPc, BumpFrom(r, pc, counters)
  PROVE  ReaderTyped'
<1>1. \A q \in Reader : [reader[q] EXCEPT !.moved = @ \cup counters] \in ReaderState
  BY DEF ReaderTyped, ReaderState
<1>2. [reader[r] EXCEPT !.pc = pc] \in ReaderState
  BY DEF ReaderTyped, ReaderState
<1> QED BY <1>1, <1>2 DEF BumpFrom, ReaderTyped

(***************************************************************************)
(* So do the steps of the filler loop and of the fills.                    *)
(***************************************************************************)
LEMMA LoopGoes ==
  ASSUME LoopTyped, UNCHANGED scenario, NEW pc \in LoopPc, Go(pc)
  PROVE  LoopTyped'
  BY DEF LoopTyped, LoopState, Known, Floor, Last, Go

\* A call of evict keeps the loop typed.
LEMMA LoopCalls ==
  ASSUME LoopTyped, UNCHANGED scenario,
         NEW caller \in {"none", "refresh", "rebuild", "open", "loop", "round", "no holes"},
         CallEvict(caller)
  PROVE  LoopTyped'
  BY DEF LoopTyped, LoopState, LoopPc, Known, Floor, Last, CallEvict

\* The loop stays typed when evict computes its floor.
LEMMA LoopEvictsBelow ==
  ASSUME LoopTyped, UNCHANGED scenario, NEW head \in Known, NEW floor \in Floor,
         NEW budget \in {"met", "exceeded", "purged"}, Last \in Nat,
         EvictBelow(head, floor, budget)
  PROVE  LoopTyped'
<1> DEFINE pc == IF floor > minRetained THEN "invalidate" ELSE "evicted"
           newHead == IF budget = "exceeded" THEN head ELSE 0
<1>1. pc \in LoopPc /\ newHead \in Known
  BY DEF LoopPc, Known
<1>2. loop' = [loop EXCEPT !.pc = pc, !.head = newHead, !.floor = floor, !.budget = budget]
  BY DEF EvictBelow
<1> HIDE DEF pc, newHead
<1>3. loop' \in LoopState
  BY <1>1, <1>2 DEF LoopTyped, LoopState
<1>4. LoopState' = LoopState
  BY DEF LoopState, Known, Floor, Last
<1> QED BY <1>3, <1>4 DEF LoopTyped

(***************************************************************************)
(* What the assumptions say of the scenario that was chosen.               *)
(***************************************************************************)
LEMMA ScenarioFacts ==
  ASSUME SourceTyped
  PROVE  /\ Last \in Nat /\ Last <= MaxSlot /\ MaxSlot \in Nat /\ Known \subseteq Slot
         /\ Known \subseteq Nat /\ 0 \in Known
         /\ Produced \subseteq Slot /\ Retain \in Nat \ {0} /\ Width \in Nat \ {0}
         /\ Kinds \subseteq RequestKind /\ Upkeep \subseteq Disturbance
<1>1. /\ scenario.last \in Slot /\ scenario.produced \subseteq Slot
      /\ scenario.retain \in Nat \ {0}
      /\ scenario.kinds \subseteq RequestKind /\ scenario.upkeep \subseteq Disturbance
  BY DiskCacheAssumption DEF SourceTyped
<1>2. MaxSlot \in Nat /\ Width \in Nat \ {0}
  BY DiskCacheAssumption
<1>3. Last \in Nat /\ Last <= MaxSlot
  BY <1>1, <1>2 DEF Slot, Last
<1>4. Known \subseteq Slot /\ Known \subseteq Nat /\ 0 \in Known
  BY <1>2, <1>3 DEF Known, Slot
<1> QED BY <1>1, <1>2, <1>3, <1>4 DEF Produced, Retain, Kinds, Upkeep

\* A fill that only moves on stays typed.
LEMMA FillGoes ==
  ASSUME FillTyped, UNCHANGED scenario, NEW f \in Fill, NEW from, NEW to \in FillPc,
         FillStep(f, from, to)
  PROVE  FillTyped'
  BY DEF FillTyped, FillState, Known, Last, FillStep

\* The empty slot of a fill is typed.
LEMMA NoFillTyped == NoFill \in FillState
  BY DEF NoFill, FillState, FillPc

\* A fill that takes its version from the clock stays typed.
LEMMA FillStamped ==
  ASSUME NEW x \in FillState, NEW pc \in FillPc, NEW v \in Nat
  PROVE  [x EXCEPT !.pc = pc, !.version = v] \in FillState
  BY DEF FillState

\* A fill that ends, with or without success, leaves a typed slot.
LEMMA FillStops ==
  ASSUME FillTyped, UNCHANGED scenario, NEW f \in Fill, fill' = [fill EXCEPT ![f] = NoFill]
  PROVE  FillTyped'
<1>1. NoFill \in FillState
  BY NoFillTyped
<1>2. FillState' = FillState
  BY DEF FillState, Known, Last
<1> QED BY <1>1, <1>2 DEF FillTyped

\* An empty table of marks is typed and true.
LEMMA MarksWiped ==
  ASSUME MarksTrue, UNCHANGED scenario, UNCHANGED marks \/ marks' = Unmarked
  PROVE  MarksTrue'
<1>1. CASE UNCHANGED marks
  BY <1>1 DEF MarksTrue, StatusOf, Produced, Known, Last
<1>2. CASE marks' = Unmarked
  BY <1>2 DEF MarksTrue, Unmarked, NoMark
<1> QED BY <1>1, <1>2

\* Every action keeps the state typed, the rows and marks true of the source.
LEMMA TypeStep == TypeInv /\ [Next]_vars => TypeInv'
<1> SUFFICES ASSUME TypeInv, [Next]_vars PROVE TypeInv'
  OBVIOUS
<1>1. UNCHANGED <<scenario, tip>> => SourceTyped'
  BY DEF TypeInv, SourceTyped, Known, Last
<1>2. UNCHANGED <<scenario, txs, blocks>> => RowsTrue'
  BY DEF TypeInv, RowsTrue, Produced
<1>3. UNCHANGED <<scenario, marks>> => MarksTrue'
  BY DEF TypeInv, MarksTrue, StatusOf, Produced, Known, Last, Slot
<1>4. UNCHANGED <<scenario, coverage, minRetained, ready, clock>> => ServingTyped'
  BY DEF TypeInv, ServingTyped, Known, Last, Floor
<1>5. UNCHANGED <<scenario, loop>> => LoopTyped'
  BY DEF TypeInv, LoopTyped, LoopState, LoopPc, Known, Floor, Last
<1>6. UNCHANGED <<scenario, fill>> => FillTyped'
  BY DEF TypeInv, FillTyped, FillState, FillPc, Known, Last
<1>7. UNCHANGED <<reader>> => ReaderTyped'
  BY DEF TypeInv, ReaderTyped, ReaderState, ReaderPc, Slot
<1>8. CASE UNCHANGED vars
  BY <1>8, <1>1, <1>2, <1>3, <1>4, <1>5, <1>6, <1>7 DEF TypeInv, vars, stored, source, serving
<1>9. CASE SourceAdvances
  <2>1. SourceTyped'
    BY <1>9, ScenarioFacts DEF TypeInv, SourceTyped, SourceAdvances, Known, Last
  <2> QED BY <2>1, <1>9, <1>2, <1>3, <1>4, <1>5, <1>6, <1>7 DEF TypeInv, SourceAdvances,
     stored, serving
<1>10. CASE SchemaChanges
  <2> QED BY <1>10, <1>1, <1>2, <1>3, <1>4, <1>5, <1>6, <1>7 DEF TypeInv, SchemaChanges,
     stored, serving
<1>11. CASE RefreshUnchanged
  <2>1. LoopTyped'
    BY <1>11, LoopCalls DEF TypeInv, RefreshUnchanged, source
  <2> QED BY <2>1, <1>11, <1>1, <1>2, <1>3, <1>4, <1>6, <1>7 DEF TypeInv, RefreshUnchanged,
     stored, source, serving
<1>12. CASE BeginRebuild
  <2>1. ServingTyped'
    BY <1>12 DEF TypeInv, BeginRebuild, ServingTyped, Known, Last, Floor, source
  <2>2. ReaderTyped'
    BY <1>12, BumpTyped DEF TypeInv, BeginRebuild, Invalidate
  <2>3. LoopTyped'
    BY <1>12, LoopGoes DEF TypeInv, LoopPc, BeginRebuild, source
  <2> QED BY <2>1, <2>2, <2>3, <1>12, <1>1, <1>2, <1>3, <1>6 DEF TypeInv, BeginRebuild,
     stored, source
<1>13. CASE RegisterRebuild
  <2>1. ReaderTyped'
    BY <1>13, BumpTyped DEF TypeInv, RegisterRebuild
  <2>2. LoopTyped'
    BY <1>13, LoopGoes DEF TypeInv, LoopPc, RegisterRebuild, source
  <2> QED BY <2>1, <2>2, <1>13, <1>1, <1>2, <1>3, <1>4, <1>6 DEF TypeInv, RegisterRebuild,
     stored, source, serving
<1>14. CASE RebuildTables
  <2>1. RowsTrue'
    BY <1>14 DEF TypeInv, RebuildTables, Unmarked, NoMark, RowsTrue, Produced, source
  <2>2. MarksTrue'
    BY <1>14, MarksWiped DEF TypeInv, RebuildTables, source
  <2>3. LoopTyped'
    BY <1>14, LoopGoes DEF TypeInv, LoopPc, RebuildTables, source
  <2> QED BY <2>1, <2>2, <2>3, <1>14, <1>1, <1>4, <1>6, <1>7 DEF TypeInv, RebuildTables,
     source, serving
<1>15. CASE RebuildFails
  <2>1. RowsTrue'
    BY <1>15 DEF TypeInv, RebuildFails, Unmarked, NoMark, RowsTrue, Produced, source
  <2>2. MarksTrue'
    <3>1. marks' = [s \in Slot |-> NoMark]
      BY <1>15 DEF RebuildFails, Unmarked
    <3> QED BY <3>1 DEF MarksTrue, NoMark
  <2>3. LoopTyped'
    BY <1>15, LoopGoes DEF TypeInv, LoopPc, RebuildFails, source
  <2> QED BY <2>1, <2>2, <2>3, <1>15, <1>1, <1>4, <1>6, <1>7 DEF TypeInv, RebuildFails,
     source, serving
<1>16. CASE AdoptSchema
  <2>1. LoopTyped'
    BY <1>16, LoopGoes DEF TypeInv, LoopPc, AdoptSchema, source
  <2> QED BY <2>1, <1>16, <1>1, <1>2, <1>3, <1>4, <1>6, <1>7 DEF TypeInv, AdoptSchema, stored,
     source
<1>17. CASE ReloadCoverage
  <2>1. ServingTyped'
    <3>1. coverage' \subseteq Known /\ UNCHANGED <<scenario, ready, clock>>
      BY <1>17 DEF TypeInv, MarksTrue, ReloadCoverage, Marked, source
    <3>2. minRetained' \in Floor
      <4>1. CASE coverage' = {}
        BY <1>17, <4>1, ScenarioFacts DEF TypeInv, ReloadCoverage, Floor
      <4>2. CASE coverage' # {}
        <5>1. Min(coverage') \in coverage'
          BY <4>2, <3>1, MinExists, ScenarioFacts DEF TypeInv
        <5>2. minRetained' \in Known
          BY <1>17, <4>2, <5>1, <3>1 DEF ReloadCoverage
        <5> QED BY <5>2, ScenarioFacts DEF TypeInv, Floor, Known
      <4> QED BY <4>1, <4>2
    <3> QED BY <3>1, <3>2 DEF TypeInv, ServingTyped, Known, Floor, Last
  <2>2. LoopTyped'
    BY <1>17, LoopCalls DEF TypeInv, ReloadCoverage, source
  <2> QED BY <2>1, <2>2, <1>17, <1>1, <1>2, <1>3, <1>6, <1>7 DEF TypeInv, ReloadCoverage,
     stored, source
<1>18. CASE ReloadFails
  <2>1. LoopTyped'
    BY <1>18, LoopGoes DEF TypeInv, LoopPc, ReloadFails, source
  <2> QED BY <2>1, <1>18, <1>1, <1>2, <1>3, <1>4, <1>6, <1>7 DEF TypeInv, ReloadFails, stored,
     source, serving
<1>19. CASE LoopEvicts
  <2>1. LoopTyped'
    BY <1>19, LoopCalls DEF TypeInv, LoopEvicts, source
  <2> QED BY <2>1, <1>19, <1>1, <1>2, <1>3, <1>4, <1>6, <1>7 DEF TypeInv, LoopEvicts, stored,
     source, serving
<1>20. CASE NothingToEvict
  <2>1. LoopTyped'
    BY <1>20, LoopGoes DEF TypeInv, LoopPc, NothingToEvict, source
  <2> QED BY <2>1, <1>20, <1>1, <1>2, <1>3, <1>4, <1>6, <1>7 DEF TypeInv, NothingToEvict,
     stored, source, serving
<1>21. CASE EvictWindow
  <2>1. LoopTyped'
    <3>1. Max(coverage) \in coverage
      BY <1>21, MaxExists, ScenarioFacts DEF TypeInv, ServingTyped, Known, EvictWindow
    <3>2. Max(coverage) \in Known /\ Max(coverage) \in Nat
      BY <3>1, ScenarioFacts DEF TypeInv, ServingTyped
    <3>3. WindowFloor(Max(coverage)) \in Floor
      <4>1. Max(coverage) - (Retain - 1) \in Int /\ Max(coverage) - (Retain - 1) <= Last
        BY <3>2, ScenarioFacts DEF TypeInv, Known
      <4> QED BY <4>1, FloorOfTwo, ScenarioFacts DEF TypeInv, WindowFloor, Floor
    <3>4. EvictBelow(Max(coverage), WindowFloor(Max(coverage)), "met") /\ UNCHANGED scenario
      BY <1>21 DEF EvictWindow, source
    <3> QED BY <3>2, <3>3, <3>4, LoopEvictsBelow, ScenarioFacts DEF TypeInv
  <2> QED BY <2>1, <1>21, <1>1, <1>2, <1>3, <1>4, <1>6, <1>7 DEF TypeInv, EvictWindow, stored,
     source, serving
<1>22. CASE EvictBytes
  <2>1. LoopTyped'
    <3>1. Max(coverage) \in coverage
      BY <1>22, MaxExists, ScenarioFacts DEF TypeInv, ServingTyped, Known, EvictBytes
    <3>0. Max(coverage) \in Known
      BY <3>1 DEF TypeInv, ServingTyped
    <3>2. Max(coverage) \in Known /\ Max(coverage) \in Nat /\ Max(coverage) <= Last
      BY <3>0, ScenarioFacts DEF TypeInv, Known
    <3>3. WindowFloor(Max(coverage)) \in Floor
      <4>1. Max(coverage) - (Retain - 1) \in Int /\ Max(coverage) - (Retain - 1) <= Last
        BY <3>2, ScenarioFacts DEF TypeInv, Known
      <4> QED BY <4>1, FloorOfTwo, ScenarioFacts DEF TypeInv, WindowFloor, Floor
    <3>4. PICK floor \in ByteFloors(Max(coverage)) : EvictBelow(Max(coverage), floor,
       "exceeded")
      BY <1>22 DEF EvictBytes
    <3>5. ASSUME NEW p \in 0..(Partition(Max(coverage)) + 1) PROVE p * Width \in Floor
      <4>1. p * Width \in Nat /\ p * Width <= Max(coverage) + Width
        BY <3>2, BoundaryInReach
      <4> QED BY <4>1, <3>2, ScenarioFacts DEF TypeInv, Floor
    <3>6. floor \in Floor
      BY <3>3, <3>5 DEF ByteFloors
    <3>7. UNCHANGED scenario
      BY <1>22 DEF EvictBytes, source
    <3> QED BY <3>2, <3>4, <3>6, <3>7, LoopEvictsBelow, ScenarioFacts DEF TypeInv
  <2> QED BY <2>1, <1>22, <1>1, <1>2, <1>3, <1>4, <1>6, <1>7 DEF TypeInv, EvictBytes, stored,
     source, serving
<1>23. CASE PurgeBytes
  <2>1. LoopTyped'
    <3>0. loop.head \in Known
      BY DEF TypeInv, LoopTyped, LoopState
    <3>1. loop.head \in Known /\ loop.head \in Nat /\ loop.head <= Last
      BY <3>0, ScenarioFacts DEF TypeInv, Known
    <3>2. Partition(loop.head) \in Nat
      BY <3>1, ScenarioFacts DEF TypeInv, Partition
    <3>3. /\ PartitionFloorAfter(loop.head) \in Nat
          /\ PartitionFloorAfter(loop.head) <= loop.head + Width
      BY <3>1, <3>2, BoundaryInReach DEF PartitionFloorAfter
    <3>4. PartitionFloorAfter(loop.head) \in Floor
      BY <3>1, <3>3, ScenarioFacts DEF TypeInv, Floor
    <3>5. EvictBelow(loop.head, PartitionFloorAfter(loop.head), "purged") /\ UNCHANGED scenario
      BY <1>23 DEF PurgeBytes, source
    <3> QED BY <3>1, <3>4, <3>5, LoopEvictsBelow, ScenarioFacts DEF TypeInv
  <2> QED BY <2>1, <1>23, <1>1, <1>2, <1>3, <1>4, <1>6, <1>7 DEF TypeInv, PurgeBytes, stored,
     source, serving
<1>24. CASE BudgetStillExceeded
  <2>1. ServingTyped'
    BY <1>24 DEF TypeInv, BudgetStillExceeded, ServingTyped, Known, Last, Floor, source
  <2>2. LoopTyped'
    BY <1>24, LoopGoes DEF TypeInv, LoopPc, BudgetStillExceeded, source
  <2> QED BY <2>1, <2>2, <1>24, <1>1, <1>2, <1>3, <1>6, <1>7 DEF TypeInv, BudgetStillExceeded,
     stored, source
<1>25. CASE BeginEvict
  <2>1. ReaderTyped'
    BY <1>25, BumpTyped DEF TypeInv, BeginEvict
  <2>2. LoopTyped'
    BY <1>25, LoopGoes DEF TypeInv, LoopPc, BeginEvict, source
  <2> QED BY <2>1, <2>2, <1>25, <1>1, <1>2, <1>3, <1>4, <1>6 DEF TypeInv, BeginEvict, stored,
     source, serving
<1>26. CASE DropTransactions
  <2>1. RowsTrue'
    BY <1>26 DEF TypeInv, DropTransactions, Kept, RowsTrue, Produced, source
  <2>2. LoopTyped'
    BY <1>26, LoopGoes DEF TypeInv, LoopPc, DropTransactions, source
  <2> QED BY <2>1, <2>2, <1>26, <1>1, <1>3, <1>4, <1>6, <1>7 DEF TypeInv, DropTransactions,
     source, serving
<1>27. CASE DropBlocks
  <2>1. RowsTrue'
    BY <1>27 DEF TypeInv, DropBlocks, Kept, RowsTrue, Produced, source
  <2>2. LoopTyped'
    BY <1>27, LoopGoes DEF TypeInv, LoopPc, DropBlocks, source
  <2> QED BY <2>1, <2>2, <1>27, <1>1, <1>3, <1>4, <1>6, <1>7 DEF TypeInv, DropBlocks, source,
     serving
<1>28. CASE DropMarks
  <2>1. MarksTrue'
    <3>0. marks \in [Slot -> [status : 0..2, version : Nat]] /\ UNCHANGED scenario
      BY <1>28 DEF TypeInv, MarksTrue, DropMarks, source
    <3>1. marks' = [s \in Slot |-> IF s \in Kept(Slot) THEN marks[s] ELSE NoMark]
      BY <1>28 DEF DropMarks
    <3>2. marks' \in [Slot -> [status : 0..2, version : Nat]]
      BY <3>0, <3>1 DEF NoMark
    <3>3. \A s \in Slot : marks'[s].status # 0 => marks'[s].status = marks[s].status
      BY <3>1 DEF NoMark
    <3> QED BY <3>0, <3>2, <3>3 DEF TypeInv, MarksTrue, StatusOf, Produced, Known, Last
  <2>2. LoopTyped'
    BY <1>28, LoopGoes DEF TypeInv, LoopPc, DropMarks, source
  <2> QED BY <2>1, <2>2, <1>28, <1>1, <1>2, <1>4, <1>6, <1>7 DEF TypeInv, DropMarks, source,
     serving
<1>29. CASE RaiseFloor
  <2>1. ServingTyped'
    BY <1>29 DEF TypeInv, RaiseFloor, ServingTyped, Known, Last, Floor, LoopTyped, LoopState,
       source
  <2>2. LoopTyped'
    BY <1>29, LoopGoes DEF TypeInv, LoopPc, RaiseFloor, source
  <2> QED BY <2>1, <2>2, <1>29, <1>1, <1>2, <1>3, <1>6, <1>7 DEF TypeInv, RaiseFloor, stored,
     source
<1>30. CASE ForgetCoverage
  <2>1. ServingTyped'
    BY <1>30 DEF TypeInv, ForgetCoverage, ServingTyped, Known, Last, Floor, LoopTyped,
       LoopState, source
  <2>2. LoopTyped'
    BY <1>30, LoopGoes DEF TypeInv, LoopPc, ForgetCoverage, source
  <2> QED BY <2>1, <2>2, <1>30, <1>1, <1>2, <1>3, <1>6, <1>7 DEF TypeInv, ForgetCoverage,
     stored, source
<1>31. CASE DropFails
  <2>1. LoopTyped'
    BY <1>31, LoopGoes DEF TypeInv, LoopPc, DropFails, source
  <2> QED BY <2>1, <1>31, <1>1, <1>2, <1>3, <1>4, <1>6, <1>7 DEF TypeInv, DropFails, stored,
     source, serving
<1>32. CASE Evicted
  <2>1. ServingTyped'
    BY <1>32 DEF TypeInv, Evicted, ServingTyped, Known, Last, Floor, source
  <2>2. LoopTyped'
    <3>1. 0 \in Known /\ 0 \in Floor
      BY ScenarioFacts DEF TypeInv, Floor
    <3>2. loop' \in LoopState
      BY <1>32, <3>1 DEF Evicted, AtTop, LoopState, LoopPc, TypeInv, LoopTyped
    <3>3. LoopState' = LoopState
      BY <1>32 DEF Evicted, source, LoopState, Known, Floor, Last
    <3> QED BY <3>2, <3>3 DEF LoopTyped
  <2> QED BY <2>1, <2>2, <1>32, <1>1, <1>2, <1>3, <1>6, <1>7 DEF TypeInv, Evicted, stored,
     source
<1>33. CASE NotEvicted
  <2>1. ServingTyped'
    BY <1>33 DEF TypeInv, NotEvicted, ServingTyped, Known, Last, Floor, source
  <2>2. LoopTyped'
    <3>1. 0 \in Known /\ 0 \in Floor
      BY ScenarioFacts DEF TypeInv, Floor
    <3>2. loop' \in LoopState
      BY <1>33, <3>1 DEF NotEvicted, AtTop, LoopState, LoopPc
    <3>3. LoopState' = LoopState
      BY <1>33 DEF NotEvicted, source, LoopState, Known, Floor, Last
    <3> QED BY <3>2, <3>3 DEF LoopTyped
  <2> QED BY <2>1, <2>2, <1>33, <1>1, <1>2, <1>3, <1>6, <1>7 DEF TypeInv, NotEvicted, stored,
     source
<1>34. CASE NoHoles
  <2>1. LoopTyped'
    BY <1>34, LoopCalls DEF TypeInv, NoHoles, source
  <2> QED BY <2>1, <1>34, <1>1, <1>2, <1>3, <1>4, <1>6, <1>7 DEF TypeInv, NoHoles, stored,
     source, serving
<1>35. CASE StartRound
  <2>1. FillTyped'
    <3>1. PICK plan \in PlannedRounds :
            fill' = [g \in Fill |->
                       IF plan[g] = {} THEN NoFill
                       ELSE [pc |-> "begin", range |-> plan[g], publish |-> Provable(plan[g]),
                          version |-> 0]]
      BY <1>35 DEF StartRound
    <3>2. ASSUME NEW g \in Fill PROVE plan[g] \in SUBSET Known
      <4>1. PICK lo \in Window, hi \in Window : plan[g] = lo..hi
        BY DEF PlannedRounds
      <4>2. tip - (Retain - 1) \in Int /\ tip <= Last /\ tip \in Nat
        BY ScenarioFacts DEF TypeInv, SourceTyped, Known
      <4>3. Max({0, tip - (Retain - 1)}) \in Nat
        BY <4>2, FloorOfTwo
      <4>4. lo \in Nat /\ hi \in Nat /\ hi <= Last
        BY <4>2, <4>3, ScenarioFacts DEF TypeInv, Window
      <4> QED BY <4>1, <4>4, ScenarioFacts DEF TypeInv, Known
    <3>3. ASSUME NEW g \in Fill PROVE fill'[g] \in FillState
      <4>1. CASE plan[g] = {}
        BY <3>1, <4>1, NoFillTyped
      <4>2. CASE plan[g] # {}
        <5>1. fill'[g] = [pc |-> "begin", range |-> plan[g], publish |-> Provable(plan[g]),
           version |-> 0]
          BY <3>1, <4>2
        <5>2. Provable(plan[g]) \in SUBSET Known /\ plan[g] \in SUBSET Known
          BY <3>2 DEF Provable
        <5> QED BY <5>1, <5>2 DEF FillState, FillPc
      <4> QED BY <4>1, <4>2
    <3>4. FillState' = FillState
      BY <1>35 DEF StartRound, source, FillState, Known, Last
    <3>5. fill' \in [Fill -> FillState]
      BY <3>1, <3>3
    <3> QED BY <3>4, <3>5 DEF FillTyped
  <2>2. LoopTyped'
    BY <1>35, LoopGoes DEF TypeInv, LoopPc, StartRound, source
  <2> QED BY <2>1, <2>2, <1>35, <1>1, <1>2, <1>3, <1>4, <1>7 DEF TypeInv, StartRound, stored,
     source, serving
<1>36. CASE SettleRound
  <2>1. ServingTyped'
    BY <1>36 DEF TypeInv, SettleRound, ServingTyped, Known, Last, Floor, source
  <2>2. LoopTyped'
    <3>1. UNCHANGED scenario
      BY <1>36 DEF SettleRound, source
    <3>2. CASE CallEvict("round")
      BY <3>1, <3>2, LoopCalls DEF TypeInv
    <3>3. CASE loop' = AtTop
      <4>1. 0 \in Known /\ 0 \in Floor
        BY ScenarioFacts DEF TypeInv, Floor
      <4>2. loop' \in LoopState
        BY <3>3, <4>1 DEF AtTop, LoopState, LoopPc
      <4> QED BY <3>1, <4>2 DEF LoopTyped, LoopState, Known, Floor, Last
    <3> QED BY <1>36, <3>2, <3>3 DEF SettleRound
  <2> QED BY <2>1, <2>2, <1>36, <1>1, <1>2, <1>3, <1>6, <1>7 DEF TypeInv, SettleRound, stored,
     source
<1>37. CASE Crash
  <2>1. RowsTrue'
    BY <1>37 DEF TypeInv, Crash, Unmarked, NoMark, RowsTrue, Produced, source
  <2>2. MarksTrue'
    BY <1>37, MarksWiped DEF TypeInv, Crash, source
  <2>3. ServingTyped'
    <3>1. 0 \in Floor /\ clock \in Nat
      BY ScenarioFacts DEF TypeInv, ServingTyped, Floor
    <3>2. coverage' = {} /\ minRetained' = 0 /\ ready' = FALSE /\ UNCHANGED <<scenario, clock>>
      BY <1>37 DEF Crash, source
    <3> QED BY <3>1, <3>2 DEF ServingTyped, Known, Floor, Last
  <2>4. LoopTyped'
    <3>1. 0 \in Known /\ 0 \in Floor
      BY ScenarioFacts DEF TypeInv, Floor
    <3>2. loop' \in LoopState
      BY <1>37, <3>1 DEF Crash, AtTop, LoopState, LoopPc
    <3>3. LoopState' = LoopState
      BY <1>37 DEF Crash, source, LoopState, Known, Floor, Last
    <3> QED BY <3>2, <3>3 DEF LoopTyped
  <2>5. FillTyped'
    BY <1>37 DEF TypeInv, Crash, AtTop, NoFill, Idle, Unmarked, NoMark, FillTyped, FillState,
       FillPc, Known, Last, Upkeep, source
  <2>6. ReaderTyped'
    BY <1>37, IdleTyped DEF Crash, ReaderTyped
  <2> QED BY <2>1, <2>2, <2>3, <2>4, <2>5, <2>6, <1>37, <1>1 DEF TypeInv, Crash, source
<1>38. ASSUME NEW f \in Fill, BeginFill(f) PROVE TypeInv'
  <2>1. FillTyped'
    BY <1>38, FillGoes DEF TypeInv, FillPc, BeginFill, source
  <2>2. ReaderTyped'
    BY <1>38, BumpTyped DEF TypeInv, BeginFill
  <2> QED BY <2>1, <2>2, <1>38, <1>1, <1>2, <1>3, <1>4, <1>5 DEF TypeInv, BeginFill, FillStep,
     stored, source, serving
<1>39. ASSUME NEW f \in Fill, ForwardTransactions(f) PROVE TypeInv'
  <2>1. FillTyped'
    BY <1>39, FillGoes DEF TypeInv, FillPc, ForwardTransactions, source
  <2>2. RowsTrue'
    BY <1>39 DEF TypeInv, ForwardTransactions, FillStep, RowsTrue, Produced, source
  <2> QED BY <2>1, <2>2, <1>39, <1>1, <1>3, <1>4, <1>5, <1>7 DEF TypeInv, ForwardTransactions,
     FillStep, source, serving
<1>40. ASSUME NEW f \in Fill, ValidateCounts(f) PROVE TypeInv'
  <2>1. FillTyped'
    BY <1>40, FillGoes DEF TypeInv, FillPc, ValidateCounts, source
  <2> QED BY <2>1, <1>40, <1>1, <1>2, <1>3, <1>4, <1>5, <1>7 DEF TypeInv, ValidateCounts,
     FillStep, stored, source, serving
<1>41. ASSUME NEW f \in Fill, ForwardBlocks(f) PROVE TypeInv'
  <2>1. FillTyped'
    BY <1>41, FillGoes DEF TypeInv, FillPc, ForwardBlocks, source
  <2>2. RowsTrue'
    BY <1>41 DEF TypeInv, ForwardBlocks, FillStep, RowsTrue, Produced, source
  <2> QED BY <2>1, <2>2, <1>41, <1>1, <1>3, <1>4, <1>5, <1>7 DEF TypeInv, ForwardBlocks,
     FillStep, source, serving
<1>42. ASSUME NEW f \in Fill, StampCoverage(f) PROVE TypeInv'
  <2>1. FillTyped'
    <3> DEFINE x == [fill[f] EXCEPT !.pc = "marks", !.version = clock + 1]
    <3>0. fill[f] \in FillState /\ clock \in Nat
      BY DEF TypeInv, FillTyped, ServingTyped
    <3>8. clock + 1 \in Nat
      BY <3>0
    <3>9. "marks" \in FillPc
      BY DEF FillPc
    <3>1. x \in FillState
      BY <3>0, <3>8, <3>9, FillStamped, Zenon
    <3>2. fill' = [fill EXCEPT ![f] = x]
      BY <1>42, Zenon DEF StampCoverage
    <3>3. FillState' = FillState
      BY <1>42 DEF StampCoverage, source, FillState, Known, Last
    <3> HIDE DEF x
    <3> QED BY <3>1, <3>2, <3>3 DEF TypeInv, FillTyped
  <2>2. ServingTyped'
    BY <1>42 DEF TypeInv, StampCoverage, Tick, ServingTyped, Known, Last, Floor, source,
       serving
  <2> QED BY <2>1, <2>2, <1>42, <1>1, <1>2, <1>3, <1>5, <1>7 DEF TypeInv, StampCoverage, Tick,
     stored, source, serving
<1>43. ASSUME NEW f \in Fill, StoreCoverage(f) PROVE TypeInv'
  <2>1. FillTyped'
    BY <1>43, FillGoes DEF TypeInv, FillPc, StoreCoverage, source
  <2>2. MarksTrue'
    BY <1>43 DEF TypeInv, StoreCoverage, FillStep, Mark, MarksTrue, StatusOf, Produced, Known,
       Last, Slot, FillTyped, FillState, source
  <2> QED BY <2>1, <2>2, <1>43, <1>1, <1>2, <1>4, <1>5, <1>7 DEF TypeInv, StoreCoverage,
     FillStep, source, serving
<1>44. ASSUME NEW f \in Fill, PublishCoverage(f) PROVE TypeInv'
  <2>1. FillTyped'
    BY <1>44, FillStops DEF TypeInv, PublishCoverage, source
  <2>2. ServingTyped'
    <3>1. fill[f].publish \subseteq Known
      BY DEF TypeInv, FillTyped, FillState
    <3>2. coverage' \subseteq Known /\ UNCHANGED <<scenario, ready, clock>>
      BY <1>44, <3>1 DEF TypeInv, ServingTyped, PublishCoverage, source
    <3>3. minRetained' \in Floor
      <4>1. CASE fill[f].publish = {}
        BY <1>44, <4>1 DEF TypeInv, ServingTyped, PublishCoverage
      <4>2. CASE fill[f].publish # {}
        <5>1. coverage' # {}
          BY <1>44, <4>2 DEF PublishCoverage
        <5>2. Min(coverage') \in coverage'
          BY <5>1, <3>2, MinExists, ScenarioFacts DEF TypeInv
        <5>3. minRetained' \in Known
          BY <1>44, <4>2, <5>2, <3>2 DEF PublishCoverage
        <5> QED BY <5>3, ScenarioFacts DEF TypeInv, Floor, Known
      <4> QED BY <4>1, <4>2
    <3> QED BY <3>2, <3>3 DEF TypeInv, ServingTyped, Known, Floor, Last
  <2>3. LoopTyped'
    BY <1>44 DEF TypeInv, PublishCoverage, NoFill, LoopTyped, LoopState, LoopPc, Known, Floor,
       Last, stored, source
  <2> QED BY <2>1, <2>2, <2>3, <1>44, <1>1, <1>2, <1>3, <1>7 DEF TypeInv, PublishCoverage,
     stored, source
<1>45. ASSUME NEW f \in Fill, FillFails(f) PROVE TypeInv'
  <2>1. FillTyped'
    BY <1>45, FillStops DEF TypeInv, FillFails, source
  <2> QED BY <2>1, <1>45, <1>1, <1>2, <1>3, <1>4, <1>5, <1>7 DEF TypeInv, FillFails, stored,
     source, serving
<1>46. ASSUME NEW r \in Reader, NEW kind \in Kinds, NEW lo \in 0..scenario.last,
   NEW hi \in 0..scenario.last,
             BeginRequest(r, kind, lo..hi)
       PROVE  TypeInv'
  <2>1. ReaderTyped'
    <3>1. (lo..hi) \in SUBSET Slot /\ kind \in RequestKind
      BY ScenarioFacts DEF TypeInv, Slot, Last
    <3>2. PICK p \in ReaderPc : p = CASE kind = "block" -> "rows"
                                     [] kind = "time"  -> "block status"
                                     [] OTHER          -> "sample"
      BY DEF ReaderPc
    <3> DEFINE x == [Idle EXCEPT !.kind = kind, !.slots = lo..hi, !.pc = p]
    <3>3. x \in ReaderState
      BY <3>1, IdleTyped, FieldsTyped, Zenon
    <3>4. reader' = [reader EXCEPT ![r] = x]
      BY <1>46, <3>2 DEF BeginRequest
    <3> QED BY <3>3, <3>4, SetTyped DEF TypeInv
  <2> QED BY <2>1, <1>46, <1>1, <1>2, <1>3, <1>4, <1>5, <1>6 DEF TypeInv, BeginRequest,
     OnlyReader, stored, source, serving
<1>47. ASSUME NEW r \in Reader,
             \E kind \in Kinds, slots \in {lo..hi : lo,
                hi \in 0..scenario.last} : BeginRequest(r, kind, slots)
       PROVE  TypeInv'
  BY <1>46, <1>47
<1>48. ASSUME NEW r \in Reader, Sample(r) PROVE TypeInv'
  <2>1. ReaderTyped'
    <3>1. ASSUME ReaderGoes(r,
       IF reader[r].kind = "range" THEN "query" ELSE "span") PROVE ReaderTyped'
      BY <3>1, GoesTyped DEF TypeInv, ReaderPc
    <3> QED BY <3>1, <1>48, GivesUpTyped DEF TypeInv, Sample
  <2> QED BY <2>1, <1>48, <1>1, <1>2, <1>3, <1>4, <1>5, <1>6 DEF TypeInv, Sample, OnlyReader,
     stored, source, serving
<1>49. ASSUME NEW r \in Reader, ReadSpan(r) PROVE TypeInv'
  <2>1. ReaderTyped'
    <3>0. TipSpan \subseteq Slot /\ coverage \subseteq Slot
      BY ScenarioFacts DEF TypeInv, TipSpan, ServingTyped
    <3>1. ASSUME NEW slots \in SUBSET Slot, reader' = [reader EXCEPT ![r].pc = "query",
       ![r].slots = slots]
          PROVE  ReaderTyped'
      <4> DEFINE x == [reader[r] EXCEPT !.pc = "query", !.slots = slots]
      <4>0. reader[r] \in ReaderState
        BY DEF TypeInv, ReaderTyped
      <4>1. x \in ReaderState
        BY <4>0 DEF ReaderState, ReaderPc
      <4>2. reader' = [reader EXCEPT ![r] = x]
        BY <3>1, Zenon
      <4> QED BY <4>1, <4>2, SetTyped DEF TypeInv
    <3>2. ASSUME ReaderGoes(r, "query") PROVE ReaderTyped'
      BY <3>2, GoesTyped DEF TypeInv, ReaderPc
    <3> QED BY <1>49, <3>0, <3>1, <3>2, GivesUpTyped DEF TypeInv, ReadSpan
  <2> QED BY <2>1, <1>49, <1>1, <1>2, <1>3, <1>4, <1>5, <1>6 DEF TypeInv, ReadSpan,
     OnlyReader, stored, source, serving
<1>50. ASSUME NEW r \in Reader, QueryTransactions(r) PROVE TypeInv'
  <2>1. ReaderTyped'
    <3> DEFINE x == [reader[r] EXCEPT !.seen = reader[r].slots \cap txs,
                                        !.pc = CASE reader[r].kind = "address" -> "page"
                                                 [] reader[r].kind = "pinned" -> "status"
                                                 [] OTHER -> "valid"]
    <3>0. reader[r] \in ReaderState /\ clock \in Nat
      BY DEF TypeInv, ReaderTyped, ServingTyped
    <3>1. x \in ReaderState
      BY <3>0 DEF ReaderState, ReaderPc
    <3>2. reader' = [reader EXCEPT ![r] = x]
      BY <1>50, Zenon DEF QueryTransactions
    <3> QED BY <3>1, <3>2, SetTyped DEF TypeInv
  <2> QED BY <2>1, <1>50, <1>1, <1>2, <1>3, <1>4, <1>5, <1>6 DEF TypeInv, QueryTransactions,
     OnlyReader, stored, source, serving
<1>51. ASSUME NEW r \in Reader, BuildPage(r) PROVE TypeInv'
  <2>1. ReaderTyped'
    <3>1. ASSUME ReaderGoes(r, "valid") PROVE ReaderTyped'
      BY <3>1, GoesTyped DEF TypeInv, ReaderPc
    <3> QED BY <3>1, <1>51, GivesUpTyped DEF TypeInv, BuildPage
  <2> QED BY <2>1, <1>51, <1>1, <1>2, <1>3, <1>4, <1>5, <1>6 DEF TypeInv, BuildPage,
     OnlyReader, stored, source, serving
<1>52. ASSUME NEW r \in Reader, ReadPinnedStatus(r) PROVE TypeInv'
  <2>1. ReaderTyped'
    <3>1. ASSUME ReaderGoes(r, "valid") PROVE ReaderTyped'
      BY <3>1, GoesTyped DEF TypeInv, ReaderPc
    <3> QED BY <3>1, <1>52, GivesUpTyped DEF TypeInv, ReadPinnedStatus
  <2> QED BY <2>1, <1>52, <1>1, <1>2, <1>3, <1>4, <1>5, <1>6 DEF TypeInv, ReadPinnedStatus,
     OnlyReader, stored, source, serving
<1>53. ASSUME NEW r \in Reader, Answer(r) PROVE TypeInv'
  <2>1. ReaderTyped'
    <3> DEFINE x == [reader[r] EXCEPT !.pc = "answered",
                                !.slots = IF reader[r].kind = "statuses"
                                          THEN {s \in @ : s >= minRetained} ELSE @]
    <3>0. reader[r] \in ReaderState
      BY DEF TypeInv, ReaderTyped
    <3>1. x \in ReaderState
      BY <3>0 DEF ReaderState, ReaderPc
    <3>2. CASE reader' = [reader EXCEPT ![r].pc = "answered",
                                        ![r].slots = IF reader[r].kind = "statuses"
                                                     THEN {s \in @ : s >= minRetained} ELSE @]
      <4>1. reader' = [reader EXCEPT ![r] = x]
        BY <3>2, Zenon
      <4> QED BY <3>1, <4>1, SetTyped DEF TypeInv
    <3> QED BY <1>53, <3>2, GivesUpTyped DEF TypeInv, Answer
  <2> QED BY <2>1, <1>53, <1>1, <1>2, <1>3, <1>4, <1>5, <1>6 DEF TypeInv, Answer, OnlyReader,
     stored, source, serving
<1>54. ASSUME NEW r \in Reader, QueryMarks(r) PROVE TypeInv'
  <2>1. ReaderTyped'
    <3> DEFINE x == [reader[r] EXCEPT !.pc = "check",
       !.seen = {s \in reader[r].slots : marks[s].status = 1}]
    <3>0. reader[r] \in ReaderState
      BY DEF TypeInv, ReaderTyped
    <3>1. x \in ReaderState
      BY <3>0 DEF ReaderState, ReaderPc
    <3>2. CASE reader' = [reader EXCEPT ![r].pc = "check",
       ![r].seen = {s \in reader[r].slots : marks[s].status = 1}]
      <4>1. reader' = [reader EXCEPT ![r] = x]
        BY <3>2, Zenon
      <4> QED BY <3>1, <4>1, SetTyped DEF TypeInv
    <3> QED BY <1>54, <3>2, GivesUpTyped DEF TypeInv, QueryMarks
  <2> QED BY <2>1, <1>54, <1>1, <1>2, <1>3, <1>4, <1>5, <1>6 DEF TypeInv, QueryMarks,
     OnlyReader, stored, source, serving
<1>55. ASSUME NEW r \in Reader, CheckRange(r) PROVE TypeInv'
  <2>1. ReaderTyped'
    <3>1. ASSUME ReaderGoes(r, "answered") PROVE ReaderTyped'
      BY <3>1, GoesTyped DEF TypeInv, ReaderPc
    <3> QED BY <3>1, <1>55, GivesUpTyped DEF TypeInv, CheckRange
  <2> QED BY <2>1, <1>55, <1>1, <1>2, <1>3, <1>4, <1>5, <1>6 DEF TypeInv, CheckRange,
     OnlyReader, stored, source, serving
<1>56. ASSUME NEW r \in Reader, Finish(r) PROVE TypeInv'
  <2>1. ReaderTyped'
    BY <1>56, GivesUpTyped DEF TypeInv, Finish
  <2> QED BY <2>1, <1>56, <1>1, <1>2, <1>3, <1>4, <1>5, <1>6 DEF TypeInv, Finish, OnlyReader,
     stored, source, serving
<1>57. ASSUME NEW r \in Reader, ReadBlockRow(r) PROVE TypeInv'
  <2>1. ReaderTyped'
    <3>1. ASSUME reader' = [reader EXCEPT ![r].seen = @ \cup {"block"}] PROVE ReaderTyped'
      <4> DEFINE x == [reader[r] EXCEPT !.seen = @ \cup {"block"}]
      <4>0. reader[r] \in ReaderState
        BY DEF TypeInv, ReaderTyped
      <4>1. x \in ReaderState
        BY <4>0 DEF ReaderState, ReaderPc
      <4>2. reader' = [reader EXCEPT ![r] = x]
        BY <3>1, Zenon
      <4> QED BY <4>1, <4>2, SetTyped DEF TypeInv
    <3>2. ASSUME reader' = [reader EXCEPT ![r].pc = "block status"] PROVE ReaderTyped'
      BY <3>2, GoesTyped DEF TypeInv, ReaderGoes, ReaderPc
    <3> QED BY <1>57, <3>1, <3>2 DEF ReadBlockRow
  <2> QED BY <2>1, <1>57, <1>1, <1>2, <1>3, <1>4, <1>5, <1>6 DEF TypeInv, ReadBlockRow,
     OnlyReader, stored, source, serving
<1>58. ASSUME NEW r \in Reader, ReadBlockTransactions(r) PROVE TypeInv'
  <2>1. ReaderTyped'
    <3> DEFINE x == [reader[r] EXCEPT !.seen = @ \cup
                       {IF reader[r].slots \subseteq txs THEN "all" ELSE "missing"}]
    <3>0. reader[r] \in ReaderState /\ clock \in Nat
      BY DEF TypeInv, ReaderTyped, ServingTyped
    <3>1. x \in ReaderState
      BY <3>0 DEF ReaderState, ReaderPc
    <3>2. reader' = [reader EXCEPT ![r] = x]
      BY <1>58, Zenon DEF ReadBlockTransactions
    <3> QED BY <3>1, <3>2, SetTyped DEF TypeInv
  <2> QED BY <2>1, <1>58, <1>1, <1>2, <1>3, <1>4, <1>5, <1>6 DEF TypeInv,
     ReadBlockTransactions, OnlyReader, stored, source, serving
<1>59. ASSUME NEW r \in Reader, ReadBlockStatus(r) PROVE TypeInv'
  <2>1. ReaderTyped'
    <3> DEFINE x == [reader[r] EXCEPT !.pc = "answered", !.mark = 2]
    <3>0. reader[r] \in ReaderState
      BY DEF TypeInv, ReaderTyped
    <3>8. 2 \in 0..2
      OBVIOUS
    <3>9. "answered" \in ReaderPc
      BY DEF ReaderPc
    <3>1. x \in ReaderState
      BY <3>0, <3>8, <3>9, FieldsTyped, Zenon
    <3>2. CASE reader' = [reader EXCEPT ![r].pc = "answered", ![r].mark = 2]
      <4>1. reader' = [reader EXCEPT ![r] = x]
        BY <3>2, Zenon
      <4> QED BY <3>1, <4>1, SetTyped DEF TypeInv
    <3>3. ASSUME ReaderGoes(r,
       IF reader[r].kind = "time" THEN "time" ELSE "poison") PROVE ReaderTyped'
      BY <3>3, GoesTyped DEF TypeInv, ReaderPc
    <3> QED BY <1>59, <3>2, <3>3, GivesUpTyped DEF TypeInv, ReadBlockStatus
  <2> QED BY <2>1, <1>59, <1>1, <1>2, <1>3, <1>4, <1>5, <1>6 DEF TypeInv, ReadBlockStatus,
     OnlyReader, stored, source, serving
<1>60. ASSUME NEW r \in Reader, AnswerBlock(r) PROVE TypeInv'
  <2>1. ReaderTyped'
    <3> DEFINE x == [reader[r] EXCEPT !.pc = IF "all" \in reader[r].seen THEN "answered" ELSE "poison",
       !.mark = 1]
    <3>0. reader[r] \in ReaderState /\ clock \in Nat
      BY DEF TypeInv, ReaderTyped, ServingTyped
    <3>8. 1 \in 0..2
      OBVIOUS
    <3>9. (IF "all" \in reader[r].seen THEN "answered" ELSE "poison") \in ReaderPc
      BY DEF ReaderPc
    <3>1. x \in ReaderState
      BY <3>0, <3>8, <3>9, FieldsTyped, Zenon
    <3>2. reader' = [reader EXCEPT ![r] = x]
      BY <1>60, Zenon DEF AnswerBlock
    <3> QED BY <3>1, <3>2, SetTyped DEF TypeInv
  <2> QED BY <2>1, <1>60, <1>1, <1>2, <1>3, <1>4, <1>5, <1>6 DEF TypeInv, AnswerBlock,
     OnlyReader, stored, source, serving
<1>61. ASSUME NEW r \in Reader, AnswerMetadata(r) PROVE TypeInv'
  <2>1. ReaderTyped'
    <3> DEFINE x == [reader[r] EXCEPT !.pc = "answered", !.mark = 1]
    <3>0. reader[r] \in ReaderState /\ clock \in Nat
      BY DEF TypeInv, ReaderTyped, ServingTyped
    <3>8. 1 \in 0..2
      OBVIOUS
    <3>9. "answered" \in ReaderPc
      BY DEF ReaderPc
    <3>1. x \in ReaderState
      BY <3>0, <3>8, <3>9, FieldsTyped, Zenon
    <3>2. reader' = [reader EXCEPT ![r] = x]
      BY <1>61, Zenon DEF AnswerMetadata
    <3> QED BY <3>1, <3>2, SetTyped DEF TypeInv
  <2> QED BY <2>1, <1>61, <1>1, <1>2, <1>3, <1>4, <1>5, <1>6 DEF TypeInv, AnswerMetadata,
     OnlyReader, stored, source, serving
<1>62. ASSUME NEW r \in Reader, AnswerTime(r) PROVE TypeInv'
  <2>1. ReaderTyped'
    <3> DEFINE x == [reader[r] EXCEPT !.mark = 1,
       !.pc = IF reader[r].slots \subseteq blocks THEN "answered" ELSE "poison"]
    <3>0. reader[r] \in ReaderState /\ clock \in Nat
      BY DEF TypeInv, ReaderTyped, ServingTyped
    <3>8. 1 \in 0..2
      OBVIOUS
    <3>9. (IF reader[r].slots \subseteq blocks THEN "answered" ELSE "poison") \in ReaderPc
      BY DEF ReaderPc
    <3>1. x \in ReaderState
      BY <3>0, <3>8, <3>9, FieldsTyped, Zenon
    <3>2. reader' = [reader EXCEPT ![r] = x]
      BY <1>62, Zenon DEF AnswerTime
    <3> QED BY <3>1, <3>2, SetTyped DEF TypeInv
  <2> QED BY <2>1, <1>62, <1>1, <1>2, <1>3, <1>4, <1>5, <1>6 DEF TypeInv, AnswerTime,
     OnlyReader, stored, source, serving
<1>63. ASSUME NEW r \in Reader, BeginPoison(r) PROVE TypeInv'
  <2>1. ReaderTyped'
    BY <1>63, BumpFromTyped DEF TypeInv, BeginPoison, Invalidate, ReaderPc
  <2> QED BY <2>1, <1>63, <1>1, <1>2, <1>3, <1>4, <1>5, <1>6 DEF TypeInv, BeginPoison,
     OnlyReader, stored, source, serving
<1>64. ASSUME NEW r \in Reader, RegisterPoison(r) PROVE TypeInv'
  <2>1. ReaderTyped'
    BY <1>64, BumpFromTyped DEF TypeInv, RegisterPoison, ReaderPc
  <2> QED BY <2>1, <1>64, <1>1, <1>2, <1>3, <1>4, <1>5, <1>6 DEF TypeInv, RegisterPoison,
     OnlyReader, stored, source, serving
<1>65. ASSUME NEW r \in Reader, PoisonCoverage(r) PROVE TypeInv'
  <2>1. ServingTyped'
    BY <1>65 DEF TypeInv, PoisonCoverage, ReaderGoes, ServingTyped, Known, Last, Floor, source
  <2>2. ReaderTyped'
    BY <1>65, GoesTyped DEF TypeInv, PoisonCoverage, ReaderPc
  <2> QED BY <2>1, <2>2, <1>65, <1>1, <1>2, <1>3, <1>5, <1>6 DEF TypeInv, PoisonCoverage,
     stored, source
<1>66. ASSUME NEW r \in Reader, StampPoison(r) PROVE TypeInv'
  <2>1. ServingTyped'
    BY <1>66 DEF TypeInv, StampPoison, Tick, ServingTyped, Known, Last, Floor, source, serving
  <2>2. ReaderTyped'
    <3> DEFINE x == [reader[r] EXCEPT !.pc = "mark", !.version = clock + 1]
    <3>0. reader[r] \in ReaderState /\ clock \in Nat
      BY DEF TypeInv, ReaderTyped, ServingTyped
    <3>8. clock + 1 \in Nat
      BY <3>0
    <3>9. "mark" \in ReaderPc
      BY DEF ReaderPc
    <3>1. x \in ReaderState
      BY <3>0, <3>8, <3>9, FieldsTyped, Zenon
    <3>2. reader' = [reader EXCEPT ![r] = x]
      BY <1>66, Zenon DEF StampPoison
    <3> QED BY <3>1, <3>2, SetTyped DEF TypeInv
  <2> QED BY <2>1, <2>2, <1>66, <1>1, <1>2, <1>3, <1>5, <1>6 DEF TypeInv, StampPoison, Tick,
     stored, source, serving
<1>67. ASSUME NEW r \in Reader, StorePoison(r) PROVE TypeInv'
  <2>1. MarksTrue'
    <3>0. reader[r].version \in Nat /\ UNCHANGED scenario
      BY <1>67 DEF TypeInv, ReaderTyped, ReaderState, StorePoison, source
    <3>1. CASE UNCHANGED marks
      BY <3>0, <3>1, <1>3
    <3>2. CASE Mark(reader[r].slots, [s \in Slot |-> 0], reader[r].version)
      <4>0. marks \in [Slot -> [status : 0..2, version : Nat]]
        BY DEF TypeInv, MarksTrue
      <4>1. marks' \in [Slot -> [status : 0..2, version : Nat]]
        BY <3>0, <3>2, <4>0 DEF Mark
      <4>2. \A s \in Slot : marks'[s].status # 0 => marks'[s].status = marks[s].status
        BY <3>2, <4>0 DEF Mark
      <4> QED BY <3>0, <4>1, <4>2 DEF TypeInv, MarksTrue, StatusOf, Produced, Known, Last
    <3> QED BY <1>67, <3>1, <3>2 DEF StorePoison
  <2>2. ReaderTyped'
    BY <1>67, GivesUpTyped DEF TypeInv, StorePoison
  <2> QED BY <2>1, <2>2, <1>67, <1>1, <1>2, <1>4, <1>5, <1>6 DEF TypeInv, StorePoison, source,
     serving
<1> QED BY <1>8, <1>9, <1>10, <1>11, <1>12, <1>13, <1>14, <1>15, <1>16, <1>17, <1>18, <1>19,
   <1>20, <1>21, <1>22, <1>23, <1>24, <1>25, <1>26, <1>27, <1>28, <1>29, <1>30, <1>31, <1>32,
   <1>33, <1>34, <1>35, <1>36, <1>37, <1>38, <1>39, <1>40, <1>41, <1>42, <1>43, <1>44, <1>45,
   <1>46, <1>47, <1>48, <1>49, <1>50, <1>51, <1>52, <1>53, <1>54, <1>55, <1>56, <1>57, <1>58,
   <1>59, <1>60, <1>61, <1>62, <1>63, <1>64, <1>65, <1>66, <1>67 DEF Next, LoopNext, FillNext,
   ReaderNext

-----------------------------------------------------------------------------
\* The cache starts typed: no row, no mark, nothing covered.
LEMMA TypeStarts == Init => TypeInv
<1> SUFFICES ASSUME Init PROVE TypeInv
  OBVIOUS
<1>1. scenario \in Scenario /\ tip = 0
  BY DEF Init
<1>2. scenario.last \in Slot /\ MaxSlot \in Nat /\ Width \in Nat
  BY <1>1, DiskCacheAssumption
<1>3. 0 \in Known /\ 0 \in Floor
  BY <1>2 DEF Known, Floor, Last, Slot
<1>4. SourceTyped
  BY <1>1, <1>3 DEF SourceTyped
<1>5. RowsTrue /\ MarksTrue /\ ServingTyped
  BY <1>3 DEF Init, RowsTrue, MarksTrue, ServingTyped, Unmarked, NoMark
<1>6. LoopTyped
  BY <1>3 DEF Init, LoopTyped, LoopState, LoopPc, AtTop
<1>7. FillTyped
  BY NoFillTyped DEF Init, FillTyped
<1>8. ReaderTyped
  BY IdleTyped DEF Init, ReaderTyped
<1> QED BY <1>4, <1>5, <1>6, <1>7, <1>8 DEF TypeInv

(***************************************************************************)
(* The state of the cache is always typed.  Beyond types, TypeInv says     *)
(* that no row is stored that the source does not have, that a mark        *)
(* carries the true status of its slot, and that no slot is known that the *)
(* source has not produced or skipped.                                     *)
(***************************************************************************)
THEOREM TypeCorrect == Spec => []TypeInv
  BY TypeStarts, TypeStep, PTL DEF Spec

(***************************************************************************)
(* No floor, neither the retained one that requests compare with nor the   *)
(* one evict is working on, passes the end of the partition that holds the *)
(* last slot.                                                              *)
(***************************************************************************)
THEOREM FloorsInReach == Spec => []FloorWithinReach
<1>1. TypeInv => FloorWithinReach
  <2> SUFFICES ASSUME TypeInv PROVE FloorWithinReach
    OBVIOUS
  <2>1. minRetained \in Floor /\ loop.floor \in Floor
    BY DEF TypeInv, ServingTyped, LoopTyped, LoopState
  <2>2. Last \in Nat /\ Width \in Nat
    BY ScenarioFacts DEF TypeInv
  <2> QED BY <2>1, <2>2 DEF Floor, FloorWithinReach, Last
<1> QED BY <1>1, TypeCorrect, PTL

-----------------------------------------------------------------------------
(***************************************************************************)
(* What a request for blocks has learnt is true of the source.             *)
(***************************************************************************)
BlockRead(x) ==
  /\ x.kind = "range" /\ x.pc \in {"check", "answered"} => x.seen = x.slots \cap Produced
  /\ x.kind \in {"block", "time"} => \E s \in Slot : x.slots = {s}
  /\ x.kind = "block" /\ x.pc = "rows" /\ "block" \in x.seen => x.slots \subseteq Produced
  /\ x.kind \in {"block", "time"} /\ x.pc = "answered" =>
       IF x.mark = 2 THEN x.slots \cap Produced = {} ELSE x.slots \subseteq Produced

BlockReadsTrue == \A r \in Reader : BlockRead(reader[r])

\* A request that has not started has learnt nothing.
LEMMA IdleBlockRead == BlockRead(Idle)
  BY DEF BlockRead, Idle

\* Moving a counter does not change what a request has learnt.
LEMMA BumpBlockReads ==
  ASSUME ReaderTyped, BlockReadsTrue, UNCHANGED scenario, NEW counters, Bump(counters)
  PROVE  BlockReadsTrue'
<1> SUFFICES ASSUME NEW r \in Reader PROVE BlockRead(reader[r])'
  BY DEF BlockReadsTrue
<1>1. reader[r] \in ReaderState /\ BlockRead(reader[r])
  BY DEF ReaderTyped, BlockReadsTrue
<1>2. reader'[r] = reader[r] \/ reader'[r] = [reader[r] EXCEPT !.moved = @ \cup counters]
  BY DEF Bump
<1>3. /\ reader'[r].kind = reader[r].kind /\ reader'[r].pc = reader[r].pc
      /\ reader'[r].slots = reader[r].slots /\ reader'[r].seen = reader[r].seen
      /\ reader'[r].mark = reader[r].mark
  BY <1>1, <1>2 DEF ReaderState
<1> QED BY <1>1, <1>3 DEF BlockRead, Produced

\* Replacing one request by one that has learnt the truth.
LEMMA SetBlockRead ==
  ASSUME ReaderTyped, BlockReadsTrue, UNCHANGED scenario, NEW r \in Reader, NEW x,
         reader' = [reader EXCEPT ![r] = x], BlockRead(x)
  PROVE  BlockReadsTrue'
<1> SUFFICES ASSUME NEW q \in Reader PROVE BlockRead(reader[q])'
  BY DEF BlockReadsTrue
<1>1. reader'[q] = IF q = r THEN x ELSE reader[q]
  BY DEF ReaderTyped
<1>2. BlockRead(reader'[q])
  BY <1>1 DEF BlockReadsTrue
<1> QED BY <1>2 DEF BlockRead, Produced

\* Falling back forgets what was learnt.
LEMMA GivesUpBlockRead ==
  ASSUME ReaderTyped, BlockReadsTrue, UNCHANGED scenario, NEW r \in Reader, GivesUp(r)
  PROVE  BlockReadsTrue'
  BY IdleBlockRead, SetBlockRead DEF GivesUp

\* A request moves on to a step that claims no more than it has learnt.
LEMMA GoesBlockRead ==
  ASSUME ReaderTyped, BlockReadsTrue, UNCHANGED scenario, NEW r \in Reader, NEW pc,
         pc \in {"check", "answered", "rows"} =>
           BlockRead([reader[r] EXCEPT !.pc = pc]),
         ReaderGoes(r, pc)
  PROVE  BlockReadsTrue'
<1> DEFINE x == [reader[r] EXCEPT !.pc = pc]
<1>1. reader' = [reader EXCEPT ![r] = x]
  BY Zenon DEF ReaderGoes
<1>2. BlockRead(x)
  <2>1. CASE pc \in {"check", "answered", "rows"}
    BY <2>1
  <2>2. CASE pc \notin {"check", "answered", "rows"}
    <3>1. x.kind = reader[r].kind /\ x.slots = reader[r].slots /\ x.pc = pc
      BY DEF ReaderTyped, ReaderState
    <3>2. BlockRead(reader[r])
      BY DEF BlockReadsTrue
    <3> HIDE DEF x
    <3> QED BY <2>2, <3>1, <3>2 DEF BlockRead
  <2> QED BY <2>1, <2>2
<1> HIDE DEF x
<1> QED BY <1>1, <1>2, SetBlockRead

\* Poisoning a slot does not change what other requests have learnt.
LEMMA BumpFromBlockReads ==
  ASSUME ReaderTyped, BlockReadsTrue, UNCHANGED scenario, NEW counters, NEW me \in Reader,
         NEW pc, pc \notin {"check", "answered", "rows"}, BumpFrom(me, pc, counters)
  PROVE  BlockReadsTrue'
<1> SUFFICES ASSUME NEW r \in Reader PROVE BlockRead(reader[r])'
  BY DEF BlockReadsTrue
<1>1. reader[r] \in ReaderState /\ BlockRead(reader[r])
  BY DEF ReaderTyped, BlockReadsTrue
<1>2. \/ reader'[r] = reader[r] \/ reader'[r] = [reader[r] EXCEPT !.moved = @ \cup counters]
      \/ reader'[r] = [reader[r] EXCEPT !.pc = pc]
  BY DEF BumpFrom
<1>3. /\ reader'[r].kind = reader[r].kind /\ reader'[r].slots = reader[r].slots
      /\ reader'[r].seen = reader[r].seen /\ reader'[r].mark = reader[r].mark
      /\ reader'[r].pc = reader[r].pc \/ reader'[r].pc = pc
  BY <1>1, <1>2 DEF ReaderState
<1> QED BY <1>1, <1>3 DEF BlockRead, Produced

\* Every action keeps what the block requests have learnt true of the source.
LEMMA BlockReadsStep == TypeInv /\ BlockReadsTrue /\ [Next]_vars => BlockReadsTrue'
<1> SUFFICES ASSUME TypeInv, BlockReadsTrue, [Next]_vars PROVE BlockReadsTrue'
  OBVIOUS
<1>1. ReaderTyped /\ SourceTyped /\ RowsTrue /\ MarksTrue
  BY DEF TypeInv
<1>2. UNCHANGED <<scenario, reader>> => BlockReadsTrue'
  BY DEF BlockReadsTrue, BlockRead, Produced
<1>3. SourceAdvances \/ SchemaChanges \/ UNCHANGED vars => BlockReadsTrue'
  BY <1>2 DEF SourceAdvances, SchemaChanges, vars, source
<1>4. ASSUME NEW f \in Fill, FillNext(f) PROVE BlockReadsTrue'
  <2>1. CASE BeginFill(f)
    BY <2>1, <1>1, BumpBlockReads DEF BeginFill, source
  <2>2. CASE ~BeginFill(f)
    BY <1>4, <2>2, <1>2 DEF FillNext, ForwardTransactions, ValidateCounts, ForwardBlocks,
       StampCoverage, StoreCoverage, PublishCoverage, FillFails, source
  <2> QED BY <2>1, <2>2
<1>5. CASE LoopNext
  <2>1. CASE BeginRebuild \/ RegisterRebuild \/ BeginEvict
    BY <2>1, <1>1, BumpBlockReads DEF BeginRebuild, RegisterRebuild, BeginEvict, source
  <2>2. CASE Crash
    <3>1. \A r \in Reader : reader'[r] = Idle
      BY <2>2 DEF Crash
    <3>2. \A r \in Reader : BlockRead(reader'[r])
      BY <3>1, IdleBlockRead
    <3> QED BY <2>2, <3>2 DEF Crash, source, BlockReadsTrue, BlockRead, Produced
  <2>3. CASE \/ RefreshUnchanged \/ RebuildTables \/ RebuildFails \/ AdoptSchema
             \/ ReloadCoverage \/ ReloadFails \/ LoopEvicts \/ NothingToEvict \/ EvictWindow
             \/ EvictBytes \/ PurgeBytes \/ BudgetStillExceeded
    BY <2>3, <1>2 DEF RefreshUnchanged, RebuildTables, RebuildFails, AdoptSchema,
       ReloadCoverage, ReloadFails, LoopEvicts, NothingToEvict, EvictWindow, EvictBytes,
       PurgeBytes, BudgetStillExceeded, source
  <2>4. CASE \/ DropTransactions \/ DropBlocks \/ DropMarks \/ RaiseFloor \/ ForgetCoverage
             \/ DropFails \/ Evicted \/ NotEvicted \/ NoHoles \/ StartRound \/ SettleRound
    BY <2>4, <1>2 DEF DropTransactions, DropBlocks, DropMarks, RaiseFloor, ForgetCoverage,
       DropFails, Evicted, NotEvicted, NoHoles, StartRound, SettleRound, source
  <2> QED BY <1>5, <2>1, <2>2, <2>3, <2>4 DEF LoopNext
<1>6. ASSUME NEW r \in Reader, ReaderNext(r) PROVE BlockReadsTrue'
  <2> DEFINE me == reader[r]
  <2>1. me \in ReaderState /\ BlockRead(me)
    BY <1>1 DEF ReaderTyped, BlockReadsTrue
  <2>2. ASSUME NEW kind \in Kinds, NEW lo \in 0..scenario.last, NEW hi \in 0..scenario.last,
               BeginRequest(r, kind, lo..hi)
        PROVE  BlockReadsTrue'
    <3> DEFINE pc == CASE kind = "block" -> "rows" [] kind = "time" -> "block status"
                       [] OTHER -> "sample"
               x == [Idle EXCEPT !.kind = kind, !.slots = lo..hi, !.pc = pc]
    <3>1. reader' = [reader EXCEPT ![r] = x] /\ UNCHANGED scenario
      BY <2>2, Zenon DEF BeginRequest, OnlyReader, source
    <3>2. pc \notin {"check", "answered"}
      OBVIOUS
    <3>3. kind \in {"block", "time"} => \E s \in Slot : lo..hi = {s}
      <4>1. coverage \subseteq Slot
        BY ScenarioFacts DEF TypeInv, ServingTyped
      <4> QED BY <2>2, <4>1 DEF BeginRequest
    <3> HIDE DEF pc
    <3>4. x.kind = kind /\ x.slots = lo..hi /\ x.pc = pc /\ x.seen = {}
      BY DEF Idle
    <3> HIDE DEF x
    <3>5. BlockRead(x)
      BY <3>2, <3>3, <3>4 DEF BlockRead
    <3> QED BY <1>1, <3>1, <3>5, SetBlockRead
  <2>3. ASSUME NEW kind \in Kinds, NEW slots \in {lo..hi : lo, hi \in 0..scenario.last},
               BeginRequest(r, kind, slots)
        PROVE  BlockReadsTrue'
    BY <2>2, <2>3
  <2>4. CASE Sample(r)
    BY <2>4, <1>1, GivesUpBlockRead, GoesBlockRead DEF Sample, OnlyReader, source
  <2>5. CASE ReadSpan(r)
    <3>1. CASE GivesUp(r)
      BY <3>1, <2>5, <1>1, GivesUpBlockRead DEF ReadSpan, OnlyReader, source
    <3>2. CASE ReaderGoes(r, "query")
      BY <3>2, <2>5, <1>1, GoesBlockRead DEF ReadSpan, OnlyReader, source
    <3>3. CASE /\ me.kind \in {"address", "statuses"}
               /\ \E slots \in {TipSpan, coverage} :
                     reader' = [reader EXCEPT ![r].pc = "query", ![r].slots = slots]
      <4>1. PICK slots \in {TipSpan, coverage} :
                   reader' = [reader EXCEPT ![r].pc = "query", ![r].slots = slots]
        BY <3>3
      <4> DEFINE x == [me EXCEPT !.pc = "query", !.slots = slots]
      <4>2. reader' = [reader EXCEPT ![r] = x]
        BY <4>1, Zenon
      <4>3. x.kind = me.kind
        BY <2>1 DEF ReaderState
      <4> HIDE DEF x
      <4>4. BlockRead(x)
        BY <3>3, <4>3 DEF BlockRead
      <4> QED BY <1>1, <2>5, <4>2, <4>4, SetBlockRead DEF ReadSpan, OnlyReader, source
    <3> QED BY <2>5, <3>1, <3>2, <3>3 DEF ReadSpan, At
  <2>6. CASE QueryTransactions(r)
    <3> DEFINE pc == CASE me.kind = "address" -> "page" [] me.kind = "pinned" -> "status"
                       [] OTHER -> "valid"
               x == [me EXCEPT !.seen = me.slots \cap txs, !.pc = pc]
    <3>1. reader' = [reader EXCEPT ![r] = x] /\ UNCHANGED scenario
      BY <2>6, Zenon DEF QueryTransactions, OnlyReader, source
    <3> HIDE DEF pc
    <3>2. x.kind = me.kind
      BY <2>1 DEF ReaderState
    <3>3. me.kind \in {"address", "statuses", "pinned"}
      BY <2>6 DEF QueryTransactions, At
    <3> HIDE DEF x
    <3>4. BlockRead(x)
      BY <3>2, <3>3 DEF BlockRead
    <3> QED BY <1>1, <3>1, <3>4, SetBlockRead
  <2>7. CASE BuildPage(r) \/ ReadPinnedStatus(r)
    BY <2>7, <1>1, GivesUpBlockRead, GoesBlockRead DEF BuildPage, ReadPinnedStatus, OnlyReader, source
  <2>8. CASE Answer(r)
    <3>1. CASE GivesUp(r)
      BY <3>1, <2>8, <1>1, GivesUpBlockRead DEF Answer, OnlyReader, source
    <3>2. CASE ~GivesUp(r)
      <4> DEFINE slots == IF me.kind = "statuses" THEN {s \in me.slots : s >= minRetained}
                          ELSE me.slots
                 x == [me EXCEPT !.pc = "answered", !.slots = slots]
      <4>1. reader' = [reader EXCEPT ![r] = x] /\ UNCHANGED scenario
        BY <2>8, <3>2, Zenon DEF Answer, OnlyReader, source
      <4> HIDE DEF slots
      <4>2. x.kind = me.kind
        BY <2>1 DEF ReaderState
      <4>3. me.kind \in {"address", "statuses", "pinned"}
        BY <2>8 DEF Answer, At
      <4> HIDE DEF x
      <4>4. BlockRead(x)
        BY <4>2, <4>3 DEF BlockRead
      <4> QED BY <1>1, <4>1, <4>4, SetBlockRead
    <3> QED BY <3>1, <3>2
  <2>9. CASE QueryMarks(r)
    <3>1. CASE GivesUp(r)
      BY <3>1, <2>9, <1>1, GivesUpBlockRead DEF QueryMarks, OnlyReader, source
    <3>2. CASE ~GivesUp(r)
      <4> DEFINE seen == {s \in me.slots : marks[s].status = 1}
                 x == [me EXCEPT !.pc = "check", !.seen = seen]
      <4>1. reader' = [reader EXCEPT ![r] = x] /\ UNCHANGED scenario
        BY <2>9, <3>2, Zenon DEF QueryMarks, OnlyReader, source
      <4>2. seen = me.slots \cap Produced
        <5>1. me.kind = "range" /\ \A s \in me.slots : marks[s].status # 0
          BY <2>9, <3>2 DEF QueryMarks, At, Marked
        <5>2. me.slots \subseteq Slot
          BY <2>1 DEF ReaderState
        <5> QED BY <5>1, <5>2, <1>1 DEF MarksTrue, StatusOf
      <4> HIDE DEF seen
      <4>3. x.kind = me.kind /\ x.slots = me.slots /\ x.seen = seen
        BY <2>1 DEF ReaderState
      <4>4. me.kind = "range"
        BY <2>9 DEF QueryMarks, At
      <4> HIDE DEF x
      <4>5. BlockRead(x)
        BY <4>2, <4>3, <4>4 DEF BlockRead
      <4> QED BY <1>1, <4>1, <4>5, SetBlockRead
    <3> QED BY <3>1, <3>2
  <2>10. CASE CheckRange(r)
    <3>1. BlockRead([me EXCEPT !.pc = "answered"])
      <4> DEFINE x == [me EXCEPT !.pc = "answered"]
      <4>1. x.kind = me.kind /\ x.slots = me.slots /\ x.seen = me.seen
        BY <2>1 DEF ReaderState
      <4> HIDE DEF x
      <4>2. BlockRead(x)
        BY <2>1, <2>10, <4>1 DEF BlockRead, CheckRange, At
      <4> QED BY <4>2 DEF x
    <3> QED BY <3>1, <2>10, <1>1, GivesUpBlockRead, GoesBlockRead DEF CheckRange, OnlyReader, source
  <2>11. CASE Finish(r)
    BY <2>11, <1>1, GivesUpBlockRead DEF Finish, OnlyReader, source
  <2>12. CASE ReadBlockRow(r)
    <3>1. CASE me.slots \subseteq blocks
      <4> DEFINE x == [me EXCEPT !.seen = @ \cup {"block"}]
      <4>1. reader' = [reader EXCEPT ![r] = x] /\ UNCHANGED scenario
        BY <2>12, <3>1, Zenon DEF ReadBlockRow, OnlyReader, source
      <4>2. x.kind = me.kind /\ x.slots = me.slots /\ x.pc = me.pc
        BY <2>1 DEF ReaderState
      <4>3. me.kind = "block" /\ me.pc = "rows" /\ me.slots \subseteq Produced
        BY <2>12, <3>1, <1>1 DEF ReadBlockRow, At, RowsTrue
      <4> HIDE DEF x
      <4>4. BlockRead(x)
        BY <2>1, <4>2, <4>3 DEF BlockRead
      <4> QED BY <1>1, <4>1, <4>4, SetBlockRead
    <3>2. CASE ~(me.slots \subseteq blocks)
      BY <2>12, <3>2, <1>1, GoesBlockRead DEF ReadBlockRow, ReaderGoes, OnlyReader, source
    <3> QED BY <3>1, <3>2
  <2>13. CASE ReadBlockTransactions(r)
    <3> DEFINE w == IF me.slots \subseteq txs THEN "all" ELSE "missing"
               x == [me EXCEPT !.seen = @ \cup {w}]
    <3>1. reader' = [reader EXCEPT ![r] = x] /\ UNCHANGED scenario
      BY <2>13, Zenon DEF ReadBlockTransactions, OnlyReader, source
    <3>2. w # "block"
      OBVIOUS
    <3> HIDE DEF w
    <3>3. /\ x.kind = me.kind /\ x.slots = me.slots /\ x.pc = me.pc /\ x.mark = me.mark
          /\ x.seen = me.seen \cup {w}
      BY <2>1 DEF ReaderState
    <3>4. me.kind = "block" /\ me.pc = "rows"
      BY <2>13 DEF ReadBlockTransactions, At
    <3> HIDE DEF x
    <3>5. BlockRead(x)
      BY <2>1, <3>2, <3>3, <3>4 DEF BlockRead
    <3> QED BY <1>1, <3>1, <3>5, SetBlockRead
  <2>14. CASE ReadBlockStatus(r)
    <3>1. PICK s \in me.slots :
            CASE CoversSlot(s) /\ marks[s].status = 2 ->
                   reader' = [reader EXCEPT ![r].pc = "answered", ![r].mark = 2]
              [] CoversSlot(s) /\ marks[s].status = 1 ->
                   ReaderGoes(r, IF me.kind = "time" THEN "time" ELSE "poison")
              [] OTHER -> GivesUp(r)
      BY <2>14 DEF ReadBlockStatus
    <3>2. me.kind \in {"block", "time"} /\ UNCHANGED scenario
      BY <2>14 DEF ReadBlockStatus, At, OnlyReader, source
    <3>3. CASE marks[s].status = 2 /\ reader' = [reader EXCEPT ![r].pc = "answered", ![r].mark = 2]
      <4> DEFINE x == [me EXCEPT !.pc = "answered", !.mark = 2]
      <4>1. reader' = [reader EXCEPT ![r] = x]
        BY <3>3, Zenon
      <4>2. x.kind = me.kind /\ x.slots = me.slots /\ x.pc = "answered" /\ x.mark = 2
        BY <2>1 DEF ReaderState
      <4>3. me.slots = {s} /\ s \in Slot
        BY <2>1, <3>1, <3>2 DEF BlockRead
      <4>4. s \notin Produced
        BY <3>3, <4>3, <1>1 DEF MarksTrue, StatusOf
      <4> HIDE DEF x
      <4>5. BlockRead(x)
        BY <3>2, <4>2, <4>3, <4>4 DEF BlockRead
      <4> QED BY <1>1, <3>2, <4>1, <4>5, SetBlockRead
    <3>4. CASE ReaderGoes(r, IF me.kind = "time" THEN "time" ELSE "poison")
      BY <3>2, <3>4, <1>1, GoesBlockRead
    <3>5. CASE GivesUp(r)
      BY <3>2, <3>5, <1>1, GivesUpBlockRead
    <3> QED BY <3>1, <3>3, <3>4, <3>5
  <2>15. CASE AnswerBlock(r) \/ AnswerMetadata(r)
    <3>1. PICK pc \in {"answered", "poison"} :
               reader' = [reader EXCEPT ![r].pc = pc, ![r].mark = 1]
      BY <2>15 DEF AnswerBlock, AnswerMetadata
    <3> DEFINE x == [me EXCEPT !.pc = pc, !.mark = 1]
    <3>2. reader' = [reader EXCEPT ![r] = x] /\ UNCHANGED scenario
      <4>1. reader' = [reader EXCEPT ![r] = x]
        BY <3>1, Zenon
      <4> QED BY <4>1, <2>15 DEF AnswerBlock, AnswerMetadata, OnlyReader, source
    <3>3. x.kind = me.kind /\ x.slots = me.slots /\ x.pc = pc /\ x.mark = 1
      BY <2>1 DEF ReaderState
    <3>4. me.kind = "block" /\ me.pc = "rows" /\ "block" \in me.seen
      BY <2>15 DEF AnswerBlock, AnswerMetadata, At
    <3> HIDE DEF x
    <3>5. BlockRead(x)
      BY <2>1, <3>1, <3>3, <3>4 DEF BlockRead
    <3> QED BY <1>1, <3>2, <3>5, SetBlockRead
  <2>16. CASE AnswerTime(r)
    <3> DEFINE pc == IF me.slots \subseteq blocks THEN "answered" ELSE "poison"
               x == [me EXCEPT !.mark = 1, !.pc = pc]
    <3>1. reader' = [reader EXCEPT ![r] = x] /\ UNCHANGED scenario
      BY <2>16, Zenon DEF AnswerTime, OnlyReader, source
    <3>2. pc = "answered" => me.slots \subseteq Produced
      BY <1>1 DEF RowsTrue
    <3>3. pc # "rows" /\ pc # "check"
      OBVIOUS
    <3> HIDE DEF pc
    <3>4. x.kind = me.kind /\ x.slots = me.slots /\ x.pc = pc /\ x.mark = 1
      BY <2>1 DEF ReaderState
    <3>5. me.kind = "time"
      BY <2>16 DEF AnswerTime, At
    <3> HIDE DEF x
    <3>6. BlockRead(x)
      BY <2>1, <3>2, <3>3, <3>4, <3>5 DEF BlockRead
    <3> QED BY <1>1, <3>1, <3>6, SetBlockRead
  <2>17. CASE BeginPoison(r) \/ RegisterPoison(r)
    BY <2>17, <1>1, BumpFromBlockReads DEF BeginPoison, RegisterPoison, OnlyReader, source
  <2>18. CASE PoisonCoverage(r)
    BY <2>18, <1>1, GoesBlockRead DEF PoisonCoverage, source
  <2>19. CASE StampPoison(r)
    <3> DEFINE x == [me EXCEPT !.pc = "mark", !.version = clock + 1]
    <3>1. reader' = [reader EXCEPT ![r] = x] /\ UNCHANGED scenario
      BY <2>19, Zenon DEF StampPoison, source
    <3>2. x.kind = me.kind /\ x.slots = me.slots /\ x.pc = "mark"
      BY <2>1 DEF ReaderState
    <3> HIDE DEF x
    <3>3. BlockRead(x)
      BY <2>1, <3>2 DEF BlockRead
    <3> QED BY <1>1, <3>1, <3>3, SetBlockRead
  <2>20. CASE StorePoison(r)
    BY <2>20, <1>1, GivesUpBlockRead DEF StorePoison, source
  <2> HIDE DEF me
  <2> QED BY <1>6, <2>3, <2>4, <2>5, <2>6, <2>7, <2>8, <2>9, <2>10, <2>11, <2>12, <2>13,
             <2>14, <2>15, <2>16, <2>17, <2>18, <2>19, <2>20 DEF ReaderNext
<1> QED BY <1>3, <1>4, <1>5, <1>6 DEF Next

(***************************************************************************)
(* A block, block time or range that the disk tier answers is true of the  *)
(* source: a block it returns was produced, a slot it calls skipped was    *)
(* skipped, and the slots of a range are exactly the produced ones.  This  *)
(* holds in every scenario: evictions, restarts, schema rebuilds and       *)
(* refreshes that fail half way included.                                  *)
(***************************************************************************)
THEOREM BlocksAnsweredTrue == Spec => []BlocksTrue
<1>1. Init => BlockReadsTrue
  BY IdleBlockRead DEF Init, BlockReadsTrue
<1>2. BlockReadsTrue => BlocksTrue
  BY DEF BlockReadsTrue, BlockRead, BlocksTrue, RangeProofsTrue, BlockAnswersTrue, Answered
<1> QED BY <1>1, <1>2, TypeCorrect, BlockReadsStep, PTL DEF Spec

-----------------------------------------------------------------------------
(***************************************************************************)
(* A cache that keeps everything: the window holds every slot of the       *)
(* source, no byte budget evicts and no refresh of the schema fails half   *)
(* way.  It may be restarted, rebuilt, poisoned and filled concurrently.   *)
(***************************************************************************)
KeepsEverything == Retain > Last /\ Upkeep \cap {"bytes", "reload fails"} = {}

Rebuilding == {"register", "wipe", "adopt", "reload"}

Evicting ==
  {"invalidate", "drop txs", "drop blocks", "drop marks", "floor", "forget", "not evicted"}

\* The loop never evicts, and nothing is served while it rebuilds.
LoopKeeps ==
  /\ loop.pc \notin Evicting /\ loop.budget = "met"
  /\ loop.pc \in Rebuilding => ~ready

\* Rows are stored before what depends on them is.
FillKeeps(x) ==
  /\ x.publish \subseteq x.range
  /\ x.pc \in {"blocks", "stamp", "marks", "publish"} => x.range \cap Produced \subseteq txs
  /\ x.pc \in {"stamp", "marks", "publish"} => x.range \cap Produced \subseteq blocks

FillsKeep ==
  /\ loop.pc # "filling" => \A f \in Fill : fill[f].pc = "idle"
  /\ \A f \in Fill : FillKeeps(fill[f])

MarkedStored == \A s \in Slot : Marked(s) => Stored(s)

CoveredStored == loop.pc \notin {"adopt", "reload"} => \A s \in coverage : Stored(s)

\* What a request changes: itself, and a poisoned slot.
LEMMA ReaderFrame ==
  ASSUME NEW r \in Reader, ReaderNext(r)
  PROVE  /\ UNCHANGED <<source, txs, blocks, meta, tables, minRetained, ready, schema, loop, fill>>
         /\ UNCHANGED marks \/ StorePoison(r)
         /\ UNCHANGED coverage \/ PoisonCoverage(r)
<1>1. ASSUME NEW kind \in Kinds, NEW slots, BeginRequest(r, kind, slots)
      PROVE  UNCHANGED <<stored, source, serving, loop, fill>>
  BY <1>1 DEF BeginRequest, OnlyReader
<1>2. CASE \/ Sample(r) \/ ReadSpan(r) \/ QueryTransactions(r) \/ BuildPage(r) \/ ReadPinnedStatus(r)
           \/ Answer(r) \/ QueryMarks(r) \/ CheckRange(r) \/ Finish(r)
           \/ ReadBlockRow(r) \/ ReadBlockTransactions(r) \/ ReadBlockStatus(r) \/ AnswerBlock(r)
           \/ AnswerMetadata(r) \/ AnswerTime(r) \/ BeginPoison(r) \/ RegisterPoison(r)
  <2>1. UNCHANGED <<stored, source, serving, loop, fill>>
    BY <1>2 DEF Sample, ReadSpan, QueryTransactions, BuildPage, ReadPinnedStatus, Answer,
       QueryMarks, CheckRange, Finish, ReadBlockRow, ReadBlockTransactions, ReadBlockStatus,
       AnswerBlock, AnswerMetadata, AnswerTime, BeginPoison, RegisterPoison, OnlyReader
  <2> QED BY <2>1 DEF stored, serving
<1>3. CASE PoisonCoverage(r)
  BY <1>3 DEF PoisonCoverage, stored, serving
<1>4. CASE StampPoison(r)
  BY <1>4 DEF StampPoison, stored, serving
<1>5. CASE StorePoison(r)
  BY <1>5 DEF StorePoison, serving
<1> QED BY <1>1, <1>2, <1>3, <1>4, <1>5 DEF ReaderNext, stored, serving

\* No action changes the scenario.
LEMMA ScenarioFixed == [Next]_vars => UNCHANGED scenario
<1> SUFFICES ASSUME [Next]_vars PROVE UNCHANGED scenario
  OBVIOUS
<1>1. SourceAdvances \/ SchemaChanges \/ UNCHANGED vars => UNCHANGED scenario
  BY DEF SourceAdvances, SchemaChanges, vars, source
<1>2. ASSUME NEW f \in Fill, FillNext(f) PROVE UNCHANGED scenario
  BY <1>2 DEF FillNext, BeginFill, ForwardTransactions, ValidateCounts, ForwardBlocks,
     StampCoverage, StoreCoverage, PublishCoverage, FillFails, source
<1>3. CASE \/ RefreshUnchanged \/ BeginRebuild \/ RegisterRebuild \/ RebuildTables \/ RebuildFails
           \/ AdoptSchema \/ ReloadCoverage \/ ReloadFails \/ LoopEvicts \/ NothingToEvict
           \/ EvictWindow \/ EvictBytes \/ PurgeBytes \/ BudgetStillExceeded
  BY <1>3 DEF RefreshUnchanged, BeginRebuild, RegisterRebuild, RebuildTables, RebuildFails,
     AdoptSchema, ReloadCoverage, ReloadFails, LoopEvicts, NothingToEvict, EvictWindow,
     EvictBytes, PurgeBytes, BudgetStillExceeded, source
<1>4. CASE \/ BeginEvict \/ DropTransactions \/ DropBlocks \/ DropMarks \/ RaiseFloor
           \/ ForgetCoverage \/ DropFails \/ Evicted \/ NotEvicted \/ NoHoles \/ StartRound
           \/ SettleRound \/ Crash
  BY <1>4 DEF BeginEvict, DropTransactions, DropBlocks, DropMarks, RaiseFloor, ForgetCoverage,
     DropFails, Evicted, NotEvicted, NoHoles, StartRound, SettleRound, Crash, source
<1>5. ASSUME NEW r \in Reader, ReaderNext(r) PROVE UNCHANGED scenario
  BY <1>5, ReaderFrame DEF source
<1> QED BY <1>1, <1>2, <1>3, <1>4, <1>5 DEF Next, LoopNext

\* What a fill changes of the loop.
LEMMA FillFrame ==
  ASSUME NEW f \in Fill, FillNext(f), LoopTyped
  PROVE  /\ UNCHANGED <<source, meta, tables, ready, schema>>
         /\ loop'.pc = loop.pc /\ loop'.budget = loop.budget /\ loop'.caller = loop.caller
         /\ txs \subseteq txs' /\ blocks \subseteq blocks'
         /\ UNCHANGED marks \/ StoreCoverage(f)
         /\ UNCHANGED coverage \/ PublishCoverage(f)
<1>1. CASE PublishCoverage(f)
  BY <1>1 DEF PublishCoverage, stored, LoopTyped, LoopState
<1>2. CASE ~PublishCoverage(f)
  BY <1>2 DEF FillNext, BeginFill, ForwardTransactions, ValidateCounts, ForwardBlocks,
     StampCoverage, StoreCoverage, FillFails, stored, serving
<1> QED BY <1>1, <1>2

\* With a window past the last slot, evict finds nothing below its floor.
LEMMA WindowKeepsAll ==
  ASSUME SourceTyped, KeepsEverything, NEW head \in Known
  PROVE  WindowFloor(head) = 0
<1>1. Retain \in Nat \ {0} /\ Last \in Nat /\ head \in 0..Last /\ Retain > Last
  BY ScenarioFacts DEF KeepsEverything, Known
<1>2. head - (Retain - 1) \in Int /\ head - (Retain - 1) <= 0
  BY <1>1
<1> QED BY <1>2, FloorOfTwo DEF WindowFloor

\* The loop of a cache that keeps everything never comes to drop a partition.
LEMMA LoopKeepsStep ==
  ASSUME TypeInv, KeepsEverything, LoopKeeps, [Next]_vars
  PROVE  LoopKeeps'
<1>1. LoopTyped /\ SourceTyped /\ ServingTyped
  BY DEF TypeInv
<1>2. loop \in LoopState
  BY <1>1 DEF LoopTyped
<1>3. /\ "bytes" \notin Upkeep /\ "reload fails" \notin Upkeep
      /\ loop.pc \notin Evicting /\ loop.budget = "met"
  BY DEF KeepsEverything, LoopKeeps
<1>4. UNCHANGED <<loop, ready>> => LoopKeeps'
  BY DEF LoopKeeps
<1>5. SourceAdvances \/ SchemaChanges \/ UNCHANGED vars => LoopKeeps'
  BY <1>4 DEF SourceAdvances, SchemaChanges, vars, serving
<1>6. ASSUME NEW f \in Fill, FillNext(f) PROVE LoopKeeps'
  BY <1>1, <1>6, FillFrame DEF LoopKeeps
<1>7. ASSUME NEW r \in Reader, ReaderNext(r) PROVE LoopKeeps'
  BY <1>4, <1>7, ReaderFrame
<1>8. CASE BeginRebuild
  BY <1>2, <1>3, <1>8 DEF LoopKeeps, LoopState, BeginRebuild, Go, Evicting
<1>9. CASE RegisterRebuild \/ RebuildTables \/ AdoptSchema
  <2>1. loop'.pc \in {"wipe", "adopt", "reload"} /\ loop'.budget = "met"
    BY <1>2, <1>3, <1>9 DEF LoopState, RegisterRebuild, RebuildTables, AdoptSchema, Go
  <2>2. loop.pc \in Rebuilding /\ ready' = ready
    BY <1>9 DEF RegisterRebuild, RebuildTables, AdoptSchema, Rebuilding, serving
  <2> QED BY <2>1, <2>2 DEF LoopKeeps, Evicting
<1>10. CASE ReloadCoverage \/ RefreshUnchanged \/ LoopEvicts \/ NoHoles
  BY <1>2, <1>3, <1>10 DEF LoopKeeps, LoopState, ReloadCoverage, RefreshUnchanged, LoopEvicts,
     NoHoles, CallEvict, Evicting, Rebuilding, serving
<1>11. CASE NothingToEvict \/ StartRound
  BY <1>2, <1>3, <1>11 DEF LoopKeeps, LoopState, NothingToEvict, StartRound, Go, Evicting,
     Rebuilding, serving
<1>12. CASE EvictWindow
  <2>1. Max(coverage) \in Known
    <3>1. coverage # {} /\ coverage \in SUBSET (0..Last) /\ Last \in Nat
      BY <1>12, <1>1, ScenarioFacts DEF EvictWindow, ServingTyped, Known
    <3> QED BY <3>1, MaxExists DEF Known
  <2>2. WindowFloor(Max(coverage)) = 0
    BY <2>1, <1>1, WindowKeepsAll
  <2>3. ~(0 > minRetained)
    <3>1. minRetained \in 0..(Last + Width) /\ Last \in Nat /\ Width \in Nat
      BY <1>1, ScenarioFacts DEF ServingTyped, Floor
    <3> QED BY <3>1
  <2>4. EvictBelow(Max(coverage), 0, "met")
    BY <1>12, <2>2 DEF EvictWindow
  <2>5. loop'.pc = "evicted" /\ loop'.budget = "met"
    BY <1>2, <2>3, <2>4 DEF EvictBelow, LoopState
  <2> QED BY <2>5 DEF LoopKeeps, Evicting, Rebuilding
<1>13. CASE Evicted
  BY <1>13 DEF Evicted, AtTop, LoopKeeps, Evicting, Rebuilding
<1>14. CASE SettleRound
  <2>1. loop'.pc \in {"evict", "top"} /\ loop'.budget = "met"
    <3>1. CallEvict("round") \/ loop' = AtTop
      BY <1>14, Zenon DEF SettleRound
    <3>2. CASE CallEvict("round")
      BY <1>2, <1>3, <3>2 DEF CallEvict, LoopState
    <3>3. CASE loop' = AtTop
      BY <3>3 DEF AtTop
    <3> QED BY <3>1, <3>2, <3>3
  <2> QED BY <2>1 DEF LoopKeeps, Evicting, Rebuilding
<1>15. CASE Crash
  BY <1>15 DEF Crash, AtTop, LoopKeeps, Evicting
<1>16. ~(RebuildFails \/ ReloadFails \/ EvictBytes \/ PurgeBytes \/ BudgetStillExceeded
         \/ BeginEvict \/ DropTransactions \/ DropBlocks \/ DropMarks \/ RaiseFloor
         \/ ForgetCoverage \/ DropFails \/ NotEvicted)
  BY <1>3 DEF RebuildFails, ReloadFails, EvictBytes, PurgeBytes, BudgetStillExceeded, BeginEvict,
     DropTransactions, DropBlocks, DropMarks, RaiseFloor, ForgetCoverage, DropFails, NotEvicted,
     Evicting
<1> QED BY <1>5, <1>6, <1>7, <1>8, <1>9, <1>10, <1>11, <1>12, <1>13, <1>14, <1>15, <1>16
        DEF Next, LoopNext

\* What the loop of such a cache changes besides ready and itself.
LEMMA KeepingLoop ==
  ASSUME TypeInv, KeepsEverything, LoopKeeps, LoopNext
  PROVE  \/ BeginRebuild \/ RegisterRebuild \/ RebuildTables \/ AdoptSchema \/ ReloadCoverage
         \/ StartRound \/ Crash
         \/ /\ UNCHANGED <<stored, source, coverage, minRetained, schema, fill, reader>>
            /\ loop.pc \notin Rebuilding /\ loop'.pc \notin Rebuilding \cup {"filling"}
            /\ loop.pc = "filling" => \A f \in Fill : fill[f].pc = "idle"
<1> SUFFICES ASSUME ~(\/ BeginRebuild \/ RegisterRebuild \/ RebuildTables \/ AdoptSchema
                      \/ ReloadCoverage \/ StartRound \/ Crash)
             PROVE  /\ UNCHANGED <<stored, source, coverage, minRetained, schema, fill, reader>>
                    /\ loop.pc \notin Rebuilding /\ loop'.pc \notin Rebuilding \cup {"filling"}
                    /\ loop.pc = "filling" => \A f \in Fill : fill[f].pc = "idle"
  OBVIOUS
<1>1. loop \in LoopState
  BY DEF TypeInv, LoopTyped
<1>2. /\ "bytes" \notin Upkeep /\ "reload fails" \notin Upkeep
      /\ loop.pc \notin Evicting /\ loop.budget = "met"
  BY DEF KeepsEverything, LoopKeeps
<1>3. CASE RefreshUnchanged \/ LoopEvicts \/ NoHoles
  BY <1>1, <1>3 DEF RefreshUnchanged, LoopEvicts, NoHoles, CallEvict, LoopState, Rebuilding, serving
<1>4. CASE NothingToEvict
  BY <1>1, <1>4 DEF NothingToEvict, Go, LoopState, Rebuilding, serving
<1>5. CASE EvictWindow
  BY <1>1, <1>5 DEF EvictWindow, EvictBelow, LoopState, Rebuilding, serving
<1>6. CASE Evicted
  BY <1>6 DEF Evicted, AtTop, Rebuilding
<1>7. CASE SettleRound
  <2>1. loop'.pc \in {"evict", "top"}
    <3>1. CallEvict("round") \/ loop' = AtTop
      BY <1>7, Zenon DEF SettleRound
    <3>2. CASE CallEvict("round")
      BY <1>1, <3>2 DEF CallEvict, LoopState
    <3>3. CASE loop' = AtTop
      BY <3>3 DEF AtTop
    <3> QED BY <3>1, <3>2, <3>3
  <2> QED BY <2>1, <1>7 DEF SettleRound, Rebuilding
<1>8. ~(RebuildFails \/ ReloadFails \/ EvictBytes \/ PurgeBytes \/ BudgetStillExceeded
         \/ BeginEvict \/ DropTransactions \/ DropBlocks \/ DropMarks \/ RaiseFloor
         \/ ForgetCoverage \/ DropFails \/ NotEvicted)
  BY <1>2 DEF RebuildFails, ReloadFails, EvictBytes, PurgeBytes, BudgetStillExceeded, BeginEvict,
     DropTransactions, DropBlocks, DropMarks, RaiseFloor, ForgetCoverage, DropFails, NotEvicted,
     Evicting
<1> QED BY <1>3, <1>4, <1>5, <1>6, <1>7, <1>8 DEF LoopNext

\* A fill stores the rows of its range before it stores marks or publishes.
LEMMA FillStepKeeps ==
  ASSUME TypeInv, UNCHANGED scenario, FillsKeep, NEW f \in Fill, FillNext(f)
  PROVE  FillsKeep'
<1>1. LoopTyped /\ FillTyped
  BY DEF TypeInv
<1>2. fill \in [Fill -> FillState] /\ loop \in LoopState
  BY <1>1 DEF FillTyped, LoopTyped
<1>3. ASSUME NEW g \in Fill, fill'[g] = fill[g], txs \subseteq txs', blocks \subseteq blocks'
      PROVE  FillKeeps(fill[g])'
  BY <1>1, <1>3 DEF FillsKeep, FillKeeps, Produced
<1>4. loop'.pc = loop.pc /\ txs \subseteq txs' /\ blocks \subseteq blocks'
  BY <1>1, FillFrame
<1>5. fill[f].pc # "idle"
  BY DEF FillNext, BeginFill, ForwardTransactions, ValidateCounts, ForwardBlocks,
     StampCoverage, StoreCoverage, PublishCoverage, FillFails, FillStep
<1>6. loop.pc = "filling"
  BY <1>5 DEF FillsKeep
<1>7. /\ \A g \in Fill : g # f => fill'[g] = fill[g]
      /\ \/ fill'[f] = NoFill
         \/ /\ fill'[f].range = fill[f].range /\ fill'[f].publish = fill[f].publish
            /\ \/ fill'[f].pc \in {"txs", "validate"}
               \/ fill'[f].pc = "blocks" /\ fill[f].range \cap Produced \subseteq txs
               \/ fill'[f].pc = "stamp" /\ fill[f].pc = "blocks"
                  /\ fill[f].range \cap Produced \subseteq blocks'
               \/ fill'[f].pc = "marks" /\ fill[f].pc = "stamp"
               \/ fill'[f].pc = "publish" /\ fill[f].pc = "marks"
  <2>1. CASE BeginFill(f) \/ ForwardTransactions(f) \/ ValidateCounts(f) \/ StoreCoverage(f)
    BY <1>2, <2>1 DEF BeginFill, ForwardTransactions, ValidateCounts, StoreCoverage, FillStep, FillState
  <2>2. CASE ForwardBlocks(f)
    BY <1>2, <2>2 DEF ForwardBlocks, FillStep, FillState
  <2>3. CASE StampCoverage(f)
    BY <1>2, <2>3 DEF StampCoverage, FillState
  <2>4. CASE PublishCoverage(f) \/ FillFails(f)
    BY <1>2, <2>4 DEF PublishCoverage, FillFails
  <2> QED BY <2>1, <2>2, <2>3, <2>4 DEF FillNext
<1>8. FillKeeps(fill[f])'
  <2>1. FillKeeps(fill[f])
    BY DEF FillsKeep
  <2>2. CASE fill'[f] = NoFill
    BY <2>2 DEF FillKeeps, NoFill
  <2>3. CASE fill'[f] # NoFill
    BY <1>1, <1>4, <1>7, <2>1, <2>3 DEF FillKeeps, Produced
  <2> QED BY <2>2, <2>3
<1>9. \A g \in Fill : FillKeeps(fill[g])'
  BY <1>3, <1>4, <1>7, <1>8 DEF FillsKeep
<1> QED BY <1>4, <1>6, <1>9 DEF FillsKeep

\* Fills write rows before marks, and no step takes the rows away again.
LEMMA FillsKeepStep ==
  ASSUME TypeInv, KeepsEverything, LoopKeeps, FillsKeep, [Next]_vars
  PROVE  FillsKeep'
<1>1. LoopTyped /\ FillTyped /\ UNCHANGED scenario
  BY ScenarioFixed DEF TypeInv
<1>2. fill \in [Fill -> FillState] /\ loop \in LoopState
  BY <1>1 DEF FillTyped, LoopTyped
<1>3. ASSUME NEW f \in Fill, fill'[f] = fill[f], txs \subseteq txs', blocks \subseteq blocks'
      PROVE  FillKeeps(fill[f])'
  BY <1>1, <1>3 DEF FillsKeep, FillKeeps, Produced
<1>4. ASSUME UNCHANGED fill,
             loop.pc = "filling" => loop'.pc = "filling" \/ \A f \in Fill : fill[f].pc = "idle",
             txs \subseteq txs', blocks \subseteq blocks'
      PROVE  FillsKeep'
  <2>1. \A f \in Fill : FillKeeps(fill[f])'
    BY <1>1, <1>4 DEF FillsKeep, FillKeeps, Produced
  <2> QED BY <1>4, <2>1 DEF FillsKeep
<1>5. SourceAdvances \/ SchemaChanges \/ UNCHANGED vars => FillsKeep'
  BY <1>4 DEF SourceAdvances, SchemaChanges, vars, stored
<1>6. ASSUME NEW r \in Reader, ReaderNext(r) PROVE FillsKeep'
  BY <1>4, <1>6, ReaderFrame
<1>7. ASSUME NEW f \in Fill, FillNext(f) PROVE FillsKeep'
  BY <1>1, <1>7, FillStepKeeps
<1>8. CASE LoopNext
  <2>1. CASE BeginRebuild \/ RegisterRebuild \/ AdoptSchema
    BY <1>2, <1>4, <2>1 DEF BeginRebuild, RegisterRebuild, AdoptSchema, Go, LoopState, stored
  <2>2. CASE ReloadCoverage
    BY <1>2, <1>4, <2>2 DEF ReloadCoverage, CallEvict, LoopState, stored
  <2>3. CASE RebuildTables
    <3>1. UNCHANGED fill /\ \A f \in Fill : fill[f].pc = "idle"
      BY <2>3 DEF RebuildTables, FillsKeep
    <3> QED BY <3>1 DEF FillsKeep, FillKeeps
  <2>4. CASE StartRound
    <3>1. PICK plan \in PlannedRounds :
             fill' = [f \in Fill |->
                        IF plan[f] = {} THEN NoFill
                        ELSE [pc |-> "begin", range |-> plan[f], publish |-> Provable(plan[f]),
                              version |-> 0]]
      BY <2>4 DEF StartRound
    <3>2. loop'.pc = "filling"
      BY <1>2, <2>4 DEF StartRound, Go, LoopState
    <3> SUFFICES ASSUME NEW f \in Fill PROVE FillKeeps(fill[f])'
      BY <3>2 DEF FillsKeep
    <3>3. CASE plan[f] = {}
      <4>1. fill'[f] = NoFill
        BY <3>1, <3>3
      <4> QED BY <4>1 DEF FillKeeps, NoFill
    <3>4. CASE plan[f] # {}
      <4>1. fill'[f].pc = "begin" /\ fill'[f].range = plan[f] /\ fill'[f].publish = Provable(plan[f])
        BY <3>1, <3>4
      <4> QED BY <4>1 DEF FillKeeps, Provable
    <3> QED BY <3>3, <3>4
  <2>5. CASE Crash
    BY <2>5 DEF Crash, FillsKeep, FillKeeps, NoFill
  <2>6. CASE /\ UNCHANGED <<stored, fill>> /\ loop'.pc \notin Rebuilding \cup {"filling"}
             /\ loop.pc = "filling" => \A f \in Fill : fill[f].pc = "idle"
    BY <1>4, <2>6 DEF stored, FillsKeep
  <2> QED BY <1>8, <2>1, <2>2, <2>3, <2>4, <2>5, <2>6, KeepingLoop
<1> QED BY <1>5, <1>6, <1>7, <1>8 DEF Next

\* A marked slot has its rows: marks are written after them and wiped with them.
LEMMA MarkedStoredStep ==
  ASSUME TypeInv, KeepsEverything, LoopKeeps, FillsKeep, MarkedStored, [Next]_vars
  PROVE  MarkedStored'
<1>1. LoopTyped /\ FillTyped /\ ReaderTyped /\ MarksTrue /\ UNCHANGED scenario
  BY ScenarioFixed DEF TypeInv
<1>2. marks \in [Slot -> [status : 0..2, version : Nat]]
  BY <1>1 DEF MarksTrue
<1>3. ASSUME txs \subseteq txs', blocks \subseteq blocks',
             \A s \in Slot : marks'[s].status # 0 => marks[s].status # 0
      PROVE  MarkedStored'
  BY <1>1, <1>3 DEF MarkedStored, Marked, Stored, Produced
<1>4. SourceAdvances \/ SchemaChanges \/ UNCHANGED vars => MarkedStored'
  BY <1>3 DEF SourceAdvances, SchemaChanges, vars, stored
<1>5. ASSUME marks' = Unmarked PROVE MarkedStored'
  BY <1>5 DEF MarkedStored, Marked, Unmarked, NoMark
<1>6. ASSUME NEW r \in Reader, ReaderNext(r) PROVE MarkedStored'
  <2>1. CASE StorePoison(r)
    <3>1. \A s \in Slot : marks'[s].status # 0 => marks[s].status # 0
      <4>1. CASE UNCHANGED marks
        BY <4>1
      <4>2. CASE Mark(reader[r].slots, [s \in Slot |-> 0], reader[r].version)
        BY <4>2 DEF Mark
      <4> QED BY <2>1, <4>1, <4>2 DEF StorePoison
    <3> QED BY <1>3, <2>1, <3>1 DEF StorePoison
  <2>2. CASE ~StorePoison(r)
    BY <1>3, <1>6, <2>2, ReaderFrame
  <2> QED BY <2>1, <2>2
<1>7. ASSUME NEW f \in Fill, FillNext(f) PROVE MarkedStored'
  <2>1. CASE StoreCoverage(f)
    <3>1. /\ UNCHANGED <<txs, blocks>> /\ fill[f].pc = "marks"
          /\ \A s \in Slot : marks'[s].status # 0 => marks[s].status # 0 \/ s \in fill[f].publish
      BY <1>2, <2>1 DEF StoreCoverage, Mark, FillStep
    <3>2. \A s \in fill[f].publish : Stored(s)
      BY <3>1 DEF FillsKeep, FillKeeps, Stored
    <3>3. \A s \in Slot : marks'[s].status # 0 => Stored(s)
      BY <3>1, <3>2 DEF MarkedStored, Marked
    <3> QED BY <1>1, <3>1, <3>3 DEF MarkedStored, Marked, Stored, Produced
  <2>2. CASE ~StoreCoverage(f)
    BY <1>1, <1>3, <1>7, <2>2, FillFrame
  <2> QED BY <2>1, <2>2
<1>8. CASE LoopNext
  <2>1. CASE BeginRebuild \/ RegisterRebuild \/ AdoptSchema \/ ReloadCoverage \/ StartRound
    BY <1>3, <2>1 DEF BeginRebuild, RegisterRebuild, AdoptSchema, ReloadCoverage, StartRound, stored
  <2>2. CASE RebuildTables \/ Crash
    <3>1. UNCHANGED <<txs, blocks, marks>> \/ marks' = Unmarked
      BY <2>2 DEF RebuildTables, Crash
    <3> QED BY <1>3, <1>5, <3>1
  <2>3. CASE UNCHANGED stored
    BY <1>3, <2>3 DEF stored
  <2> QED BY <1>8, <2>1, <2>2, <2>3, KeepingLoop
<1> QED BY <1>4, <1>6, <1>7, <1>8 DEF Next

\* A covered slot has its rows, except between a rebuild and the reload after it.
LEMMA CoveredStoredStep ==
  ASSUME TypeInv, KeepsEverything, LoopKeeps, FillsKeep, MarkedStored, CoveredStored, [Next]_vars
  PROVE  CoveredStored'
<1>1. LoopTyped /\ FillTyped /\ UNCHANGED scenario
  BY ScenarioFixed DEF TypeInv
<1>2. loop \in LoopState
  BY <1>1 DEF LoopTyped
<1>3. ASSUME txs \subseteq txs', blocks \subseteq blocks', coverage' \subseteq coverage,
             loop'.pc \notin {"adopt", "reload"} => loop.pc \notin {"adopt", "reload"}
      PROVE  CoveredStored'
  BY <1>1, <1>3 DEF CoveredStored, Stored, Produced
<1>4. SourceAdvances \/ SchemaChanges \/ UNCHANGED vars => CoveredStored'
  BY <1>3 DEF SourceAdvances, SchemaChanges, vars, stored, serving
<1>5. ASSUME NEW r \in Reader, ReaderNext(r) PROVE CoveredStored'
  <2>1. coverage' \subseteq coverage
    BY <1>5, ReaderFrame DEF PoisonCoverage
  <2> QED BY <1>3, <1>5, <2>1, ReaderFrame
<1>6. ASSUME NEW f \in Fill, FillNext(f) PROVE CoveredStored'
  <2>1. CASE PublishCoverage(f)
    <3>1. UNCHANGED <<txs, blocks>> /\ fill[f].pc = "publish" /\ coverage' = coverage \cup fill[f].publish
      BY <2>1 DEF PublishCoverage, stored
    <3>2. loop.pc = "filling"
      BY <3>1 DEF FillsKeep
    <3>3. \A s \in fill[f].publish : Stored(s)
      BY <3>1 DEF FillsKeep, FillKeeps, Stored
    <3>4. \A s \in coverage' : Stored(s)
      BY <3>1, <3>2, <3>3 DEF CoveredStored
    <3> QED BY <1>1, <3>1, <3>4 DEF CoveredStored, Stored, Produced
  <2>2. CASE ~PublishCoverage(f)
    BY <1>1, <1>3, <1>6, <2>2, FillFrame
  <2> QED BY <2>1, <2>2
<1>7. CASE LoopNext
  <2>1. CASE BeginRebuild \/ RegisterRebuild \/ StartRound
    BY <1>2, <1>3, <2>1 DEF BeginRebuild, RegisterRebuild, StartRound, Go, LoopState, stored, serving
  <2>2. CASE RebuildTables \/ AdoptSchema
    BY <1>2, <2>2 DEF RebuildTables, AdoptSchema, Go, LoopState, CoveredStored
  <2>3. CASE ReloadCoverage
    <3>1. UNCHANGED <<txs, blocks>> /\ coverage' = {s \in Slot : Marked(s)}
      BY <2>3 DEF ReloadCoverage, stored
    <3> QED BY <1>1, <3>1 DEF CoveredStored, MarkedStored, Stored, Produced
  <2>4. CASE Crash
    BY <2>4 DEF Crash, CoveredStored
  <2>5. CASE UNCHANGED <<stored, coverage>> /\ loop.pc \notin Rebuilding
    BY <1>3, <2>5 DEF stored, Rebuilding
  <2> QED BY <1>7, <2>1, <2>2, <2>3, <2>4, <2>5, KeepingLoop
<1> QED BY <1>4, <1>5, <1>6, <1>7 DEF Next

-----------------------------------------------------------------------------
(***************************************************************************)
(* The requests by key.  While the epoch stands, the loop is not           *)
(* rebuilding and the rows of the slots a request claims are stored.       *)
(* getSignatureStatuses reads its span without ready, so it may sample the *)
(* epochs of a rebuild that is under way: it is trusted only if there is   *)
(* none.                                                                   *)
(***************************************************************************)
TrustedKinds == {"address", "pinned"} \cup (IF "schema" \in Upkeep THEN {} ELSE {"statuses"})

KeyRead(x) ==
  /\ x.kind = "pinned" => \E s \in Slot : x.slots = {s}
  /\ x.kind = "pinned" /\ x.pc \in {"status", "valid"} => x.seen \subseteq x.slots
  /\ x.kind \in TrustedKinds /\ x.pc \in {"query", "page", "status", "valid"}
       /\ "epoch" \notin x.moved =>
       /\ loop.pc \notin Rebuilding /\ x.slots \cap Produced \subseteq txs
       /\ x.pc # "query" => x.seen = x.slots \cap Produced
  /\ x.kind = "address" /\ x.pc = "answered" => x.seen = x.slots \cap Produced
  /\ x.kind \in TrustedKinds /\ x.pc = "answered" => x.slots \cap Produced \subseteq x.seen

KeyReads == \A r \in Reader : KeyRead(reader[r])

\* Without a change of the schema only a restart reloads, and it ends every request.
SchemaKeeps ==
  "schema" \notin Upkeep =>
    /\ fingerprint = schema /\ loop.pc \notin {"register", "wipe", "adopt"}
    /\ loop.pc = "reload" => \A r \in Reader : reader[r].pc = "idle"

KeyPc == {"query", "page", "status", "valid", "answered"}

\* A request that has not started claims nothing.
LEMMA IdleKeyRead == KeyRead(Idle)
  BY DEF KeyRead, Idle, TrustedKinds

\* A step that leaves the requests and their rows alone keeps their claims.
LEMMA KeyReadsFrame ==
  ASSUME KeyReads, UNCHANGED <<scenario, reader>>,
         loop.pc \in Rebuilding \/ (loop'.pc \notin Rebuilding /\ txs \subseteq txs')
  PROVE  KeyReads'
<1> SUFFICES ASSUME NEW r \in Reader PROVE KeyRead(reader[r])'
  BY DEF KeyReads
<1>1. KeyRead(reader[r]) /\ reader'[r] = reader[r]
  BY DEF KeyReads
<1>2. TrustedKinds' = TrustedKinds /\ Produced' = Produced
  BY DEF TrustedKinds, Produced, Upkeep
<1> QED BY <1>1, <1>2 DEF KeyRead

\* A step that moves the epoch takes every claim away.
LEMMA KeyReadsBump ==
  ASSUME ReaderTyped, KeyReads, UNCHANGED <<scenario, txs>>, NEW counters, Bump(counters),
         loop.pc \in Rebuilding \/ loop'.pc \notin Rebuilding \/ "epoch" \in counters
  PROVE  KeyReads'
<1> SUFFICES ASSUME NEW r \in Reader PROVE KeyRead(reader[r])'
  BY DEF KeyReads
<1>1. reader[r] \in ReaderState /\ KeyRead(reader[r])
  BY DEF ReaderTyped, KeyReads
<1>2. reader'[r] = IF Sampled(r) THEN [reader[r] EXCEPT !.moved = @ \cup counters] ELSE reader[r]
  BY DEF Bump
<1>3. /\ reader'[r].kind = reader[r].kind /\ reader'[r].pc = reader[r].pc
      /\ reader'[r].slots = reader[r].slots /\ reader'[r].seen = reader[r].seen
      /\ reader'[r].moved = IF Sampled(r) THEN reader[r].moved \cup counters ELSE reader[r].moved
  BY <1>1, <1>2 DEF ReaderState
<1>4. reader[r].pc \in {"query", "page", "status", "valid"} => Sampled(r)
  BY DEF Sampled
<1>5. TrustedKinds' = TrustedKinds /\ Produced' = Produced
  BY DEF TrustedKinds, Produced, Upkeep
<1> QED BY <1>1, <1>3, <1>4, <1>5 DEF KeyRead

\* Replacing one request by one whose claims hold.
LEMMA SetKeyRead ==
  ASSUME ReaderTyped, KeyReads, UNCHANGED <<scenario, txs, loop>>, NEW r \in Reader, NEW x,
         reader' = [reader EXCEPT ![r] = x], KeyRead(x)
  PROVE  KeyReads'
<1> SUFFICES ASSUME NEW q \in Reader PROVE KeyRead(reader[q])'
  BY DEF KeyReads
<1>1. reader'[q] = IF q = r THEN x ELSE reader[q]
  BY DEF ReaderTyped
<1>2. KeyRead(reader'[q])
  BY <1>1 DEF KeyReads
<1>3. TrustedKinds' = TrustedKinds /\ Produced' = Produced
  BY DEF TrustedKinds, Produced, Upkeep
<1> QED BY <1>2, <1>3 DEF KeyRead

\* Falling back claims nothing.
LEMMA GivesUpKeyRead ==
  ASSUME ReaderTyped, KeyReads, UNCHANGED <<scenario, txs, loop>>, NEW r \in Reader, GivesUp(r)
  PROVE  KeyReads'
  BY IdleKeyRead, SetKeyRead DEF GivesUp

\* A request moves on to a step that claims no more than it did.
LEMMA GoesKeyRead ==
  ASSUME ReaderTyped, KeyReads, UNCHANGED <<scenario, txs, loop>>, NEW r \in Reader, NEW pc,
         reader[r].kind \in {"address", "pinned", "statuses"} /\ pc \in KeyPc =>
           KeyRead([reader[r] EXCEPT !.pc = pc]),
         ReaderGoes(r, pc)
  PROVE  KeyReads'
<1> DEFINE x == [reader[r] EXCEPT !.pc = pc]
<1>1. reader' = [reader EXCEPT ![r] = x]
  BY Zenon DEF ReaderGoes
<1>2. KeyRead(x)
  <2>1. CASE reader[r].kind \in {"address", "pinned", "statuses"} /\ pc \in KeyPc
    BY <2>1
  <2>2. CASE ~(reader[r].kind \in {"address", "pinned", "statuses"} /\ pc \in KeyPc)
    <3>1. x.kind = reader[r].kind /\ x.slots = reader[r].slots /\ x.pc = pc
      BY DEF ReaderTyped, ReaderState
    <3>2. KeyRead(reader[r])
      BY DEF KeyReads
    <3> HIDE DEF x
    <3> QED BY <2>2, <3>1, <3>2 DEF KeyRead, TrustedKinds, KeyPc
  <2> QED BY <2>1, <2>2
<1> HIDE DEF x
<1> QED BY <1>1, <1>2, SetKeyRead

\* Poisoning a slot moves the epoch of the others and leaves the rows alone.
LEMMA KeyReadsBumpFrom ==
  ASSUME ReaderTyped, KeyReads, UNCHANGED <<scenario, txs, loop>>, NEW counters,
         NEW me \in Reader, NEW pc, pc \notin KeyPc, BumpFrom(me, pc, counters)
  PROVE  KeyReads'
<1> SUFFICES ASSUME NEW r \in Reader PROVE KeyRead(reader[r])'
  BY DEF KeyReads
<1>1. reader[r] \in ReaderState /\ KeyRead(reader[r])
  BY DEF ReaderTyped, KeyReads
<1>2. \/ reader'[r] = reader[r] \/ reader'[r] = [reader[r] EXCEPT !.moved = @ \cup counters]
      \/ reader'[r] = [reader[r] EXCEPT !.pc = pc]
  BY DEF BumpFrom
<1>3. /\ reader'[r].kind = reader[r].kind /\ reader'[r].slots = reader[r].slots
      /\ reader'[r].seen = reader[r].seen /\ reader[r].moved \subseteq reader'[r].moved
      /\ reader'[r].pc = reader[r].pc \/ reader'[r].pc = pc
  BY <1>1, <1>2 DEF ReaderState
<1>4. TrustedKinds' = TrustedKinds /\ Produced' = Produced
  BY DEF TrustedKinds, Produced, Upkeep
<1> QED BY <1>1, <1>3, <1>4 DEF KeyRead, KeyPc

\* Without a new schema the loop reloads only after a restart.
LEMMA SchemaKeepsStep ==
  ASSUME TypeInv, KeepsEverything, LoopKeeps, SchemaKeeps, [Next]_vars
  PROVE  SchemaKeeps'
<1>1. LoopTyped /\ ReaderTyped /\ UNCHANGED scenario
  BY ScenarioFixed DEF TypeInv
<1>2. loop \in LoopState /\ reader \in [Reader -> ReaderState]
  BY <1>1 DEF LoopTyped, ReaderTyped
<1> SUFFICES ASSUME "schema" \notin Upkeep PROVE SchemaKeeps'
  BY <1>1 DEF SchemaKeeps, Upkeep
<1>3. /\ fingerprint = schema /\ loop.pc \notin {"register", "wipe", "adopt"}
      /\ loop.pc = "reload" => \A r \in Reader : reader[r].pc = "idle"
  BY DEF SchemaKeeps
<1>4. ASSUME UNCHANGED <<fingerprint, schema, reader>>,
             loop'.pc = loop.pc \/ loop'.pc \notin Rebuilding
      PROVE  SchemaKeeps'
  BY <1>3, <1>4 DEF SchemaKeeps, Rebuilding
<1>5. CASE SourceAdvances \/ UNCHANGED vars
  BY <1>4, <1>5 DEF SourceAdvances, vars, source, serving
<1>6. ~SchemaChanges
  BY DEF SchemaChanges
<1>7. ASSUME NEW f \in Fill, FillNext(f) PROVE SchemaKeeps'
  <2>1. UNCHANGED <<fingerprint, schema>> /\ loop'.pc = loop.pc
    BY <1>1, <1>7, FillFrame DEF source
  <2>2. CASE UNCHANGED reader
    BY <1>4, <2>1, <2>2
  <2>3. CASE Bump({"serial"})
    <3>1. \A r \in Reader : reader'[r].pc = reader[r].pc
      BY <1>2, <2>3 DEF Bump, ReaderState
    <3> QED BY <1>3, <2>1, <3>1 DEF SchemaKeeps
  <2> QED BY <1>7, <2>2, <2>3 DEF FillNext, BeginFill, ForwardTransactions, ValidateCounts,
             ForwardBlocks, StampCoverage, StoreCoverage, PublishCoverage, FillFails
<1>8. ASSUME NEW r \in Reader, ReaderNext(r) PROVE SchemaKeeps'
  <2>1. UNCHANGED <<fingerprint, schema, loop>>
    BY <1>8, ReaderFrame DEF source
  <2>2. loop.pc # "reload"
    <3>1. ASSUME NEW kind \in Kinds, NEW slots, BeginRequest(r, kind, slots) PROVE loop.pc # "reload"
      BY <3>1 DEF BeginRequest, LoopKeeps, Rebuilding
    <3>2. CASE \/ Sample(r) \/ ReadSpan(r) \/ QueryTransactions(r) \/ BuildPage(r)
               \/ ReadPinnedStatus(r) \/ Answer(r) \/ QueryMarks(r) \/ CheckRange(r)
               \/ Finish(r) \/ ReadBlockRow(r) \/ ReadBlockTransactions(r)
               \/ ReadBlockStatus(r) \/ AnswerBlock(r) \/ AnswerMetadata(r) \/ AnswerTime(r)
               \/ BeginPoison(r) \/ RegisterPoison(r) \/ PoisonCoverage(r) \/ StampPoison(r)
               \/ StorePoison(r)
      <4>1. reader[r].pc # "idle"
        BY <3>2 DEF Sample, ReadSpan, QueryTransactions, BuildPage, ReadPinnedStatus, Answer,
           QueryMarks, CheckRange, Finish, ReadBlockRow, ReadBlockTransactions, ReadBlockStatus,
           AnswerBlock, AnswerMetadata, AnswerTime, BeginPoison, RegisterPoison, PoisonCoverage,
           StampPoison, StorePoison, At
      <4> QED BY <1>3, <4>1
    <3> QED BY <1>8, <3>1, <3>2 DEF ReaderNext
  <2> QED BY <1>3, <2>1, <2>2 DEF SchemaKeeps
<1>9. CASE LoopNext
  <2>1. ~(BeginRebuild \/ RegisterRebuild \/ RebuildTables \/ AdoptSchema)
    BY <1>3 DEF BeginRebuild, RegisterRebuild, RebuildTables, AdoptSchema
  <2>2. CASE ReloadCoverage
    BY <1>2, <1>4, <2>2 DEF ReloadCoverage, CallEvict, LoopState, Rebuilding, source
  <2>3. CASE StartRound
    BY <1>2, <1>4, <2>3 DEF StartRound, Go, LoopState, Rebuilding, source, serving
  <2>4. CASE Crash
    BY <2>4 DEF Crash, AtTop, Idle, SchemaKeeps, source
  <2>5. CASE UNCHANGED <<source, schema, reader>> /\ loop'.pc \notin Rebuilding
    BY <1>4, <2>5 DEF source
  <2> QED BY <1>9, <2>1, <2>2, <2>3, <2>4, <2>5, KeepingLoop
<1> QED BY <1>5, <1>6, <1>7, <1>8, <1>9 DEF Next

\* Every action keeps the claims of the requests by key true.
LEMMA KeyReadsStep ==
  ASSUME TypeInv, KeepsEverything, LoopKeeps, CoveredStored, SchemaKeeps, KeyReads, [Next]_vars
  PROVE  KeyReads'
<1>1. LoopTyped /\ ReaderTyped /\ UNCHANGED scenario
  BY ScenarioFixed DEF TypeInv
<1>2. loop \in LoopState
  BY <1>1 DEF LoopTyped
<1>3. SourceAdvances \/ SchemaChanges \/ UNCHANGED vars => KeyReads'
  BY <1>1, KeyReadsFrame DEF SourceAdvances, SchemaChanges, vars, stored
<1>4. ASSUME NEW f \in Fill, FillNext(f) PROVE KeyReads'
  <2>1. loop'.pc = loop.pc /\ txs \subseteq txs'
    BY <1>1, <1>4, FillFrame
  <2>2. CASE UNCHANGED reader
    BY <1>1, <2>1, <2>2, KeyReadsFrame
  <2>3. CASE Bump({"serial"}) /\ UNCHANGED stored
    BY <1>1, <2>1, <2>3, KeyReadsBump DEF stored
  <2> QED BY <1>4, <2>2, <2>3 DEF FillNext, BeginFill, ForwardTransactions, ValidateCounts,
             ForwardBlocks, StampCoverage, StoreCoverage, PublishCoverage, FillFails
<1>5. CASE LoopNext
  <2>1. CASE BeginRebuild \/ RegisterRebuild
    BY <1>1, <2>1, KeyReadsBump DEF BeginRebuild, RegisterRebuild, Invalidate, Rebuilding, stored
  <2>2. CASE RebuildTables \/ AdoptSchema
    BY <1>1, <2>2, KeyReadsFrame DEF RebuildTables, AdoptSchema, Rebuilding
  <2>3. CASE ReloadCoverage
    BY <1>1, <2>3, KeyReadsFrame DEF ReloadCoverage, Rebuilding
  <2>4. CASE StartRound
    BY <1>1, <1>2, <2>4, KeyReadsFrame DEF StartRound, Go, LoopState, Rebuilding, stored
  <2>5. CASE Crash
    <3>1. \A r \in Reader : reader'[r] = Idle
      BY <2>5 DEF Crash
    <3> QED BY <3>1 DEF KeyReads, KeyRead, Idle, TrustedKinds
  <2>6. CASE UNCHANGED <<stored, reader>> /\ loop'.pc \notin Rebuilding
    BY <1>1, <2>6, KeyReadsFrame DEF stored
  <2> QED BY <1>5, <2>1, <2>2, <2>3, <2>4, <2>5, <2>6, KeepingLoop
<1>6. ASSUME NEW r \in Reader, ReaderNext(r) PROVE KeyReads'
  <2> DEFINE me == reader[r]
  <2>1. me \in ReaderState /\ KeyRead(me)
    BY <1>1 DEF ReaderTyped, KeyReads
  <2>2. UNCHANGED <<scenario, txs, loop>>
    BY <1>1, <1>6, ReaderFrame
  <2>3. ASSUME NEW kind \in Kinds, NEW lo \in 0..scenario.last, NEW hi \in 0..scenario.last,
               BeginRequest(r, kind, lo..hi)
        PROVE  KeyReads'
    <3> DEFINE pc == CASE kind = "block" -> "rows" [] kind = "time" -> "block status"
                       [] OTHER -> "sample"
               x == [Idle EXCEPT !.kind = kind, !.slots = lo..hi, !.pc = pc]
    <3>1. reader' = [reader EXCEPT ![r] = x]
      BY <2>3, Zenon DEF BeginRequest
    <3>2. pc \notin KeyPc
      BY DEF KeyPc
    <3>3. kind = "pinned" => \E s \in Slot : lo..hi = {s}
      BY <2>3 DEF BeginRequest
    <3> HIDE DEF pc
    <3>4. x.kind = kind /\ x.slots = lo..hi /\ x.pc = pc
      BY DEF Idle
    <3> HIDE DEF x
    <3>5. KeyRead(x)
      BY <3>2, <3>3, <3>4 DEF KeyRead, KeyPc
    <3> QED BY <1>1, <2>2, <3>1, <3>5, SetKeyRead
  <2>4. ASSUME NEW kind \in Kinds, NEW slots \in {lo..hi : lo, hi \in 0..scenario.last},
               BeginRequest(r, kind, slots)
        PROVE  KeyReads'
    BY <2>3, <2>4
  <2>5. ASSUME NEW kinds, me.kind \in kinds, kinds \cap {"address", "pinned", "statuses"} = {},
               NEW x, x.kind = me.kind, reader' = [reader EXCEPT ![r] = x]
        PROVE  KeyReads'
    <3>1. KeyRead(x)
      BY <2>5 DEF KeyRead, TrustedKinds
    <3> QED BY <1>1, <2>2, <2>5, <3>1, SetKeyRead
  <2>6. CASE Sample(r)
    <3>1. CASE GivesUp(r)
      BY <1>1, <2>2, <3>1, GivesUpKeyRead
    <3>2. CASE ReaderGoes(r, "span")
      BY <1>1, <2>2, <3>2, GoesKeyRead DEF KeyPc
    <3>3. CASE me.kind = "range" /\ ReaderGoes(r, "query")
      BY <1>1, <2>2, <3>3, GoesKeyRead
    <3> QED BY <2>6, <3>1, <3>2, <3>3 DEF Sample
  <2>7. CASE ReadSpan(r)
    <3>1. me.pc = "span"
      BY <2>7 DEF ReadSpan
    <3>2. CASE GivesUp(r)
      BY <1>1, <2>2, <3>2, GivesUpKeyRead
    <3>3. ASSUME me.kind \in TrustedKinds, me.kind # "statuses" => ready
          PROVE  loop.pc \notin Rebuilding /\ \A s \in coverage : Stored(s)
      <4>1. CASE me.kind # "statuses"
        BY <3>3, <4>1 DEF LoopKeeps, CoveredStored, Rebuilding
      <4>2. CASE me.kind = "statuses"
        <5>1. "schema" \notin Upkeep
          BY <3>3, <4>2 DEF TrustedKinds
        <5> QED BY <3>1, <5>1 DEF SchemaKeeps, CoveredStored, Rebuilding
      <4> QED BY <4>1, <4>2
    <3>4. CASE /\ me.kind = "pinned" /\ \A s \in me.slots : CoversSlot(s)
               /\ ReaderGoes(r, "query")
      <4> DEFINE x == [me EXCEPT !.pc = "query"]
      <4>1. reader' = [reader EXCEPT ![r] = x]
        BY <3>4, Zenon DEF ReaderGoes
      <4>2. x.kind = me.kind /\ x.slots = me.slots /\ x.pc = "query"
        BY <2>1 DEF ReaderState
      <4>3. PICK s \in Slot : me.slots = {s}
        BY <2>1, <3>4 DEF KeyRead
      <4>4. loop.pc \notin Rebuilding /\ me.slots \cap Produced \subseteq txs
        BY <3>3, <3>4, <4>3 DEF CoversSlot, Stored, TrustedKinds
      <4> HIDE DEF x
      <4>5. KeyRead(x)
        BY <2>1, <3>4, <4>2, <4>4 DEF KeyRead
      <4> QED BY <1>1, <2>2, <4>1, <4>5, SetKeyRead
    <3>5. ASSUME NEW slots \in SUBSET coverage, me.kind \in {"address", "statuses"},
                 me.kind = "address" => ready,
                 reader' = [reader EXCEPT ![r].pc = "query", ![r].slots = slots]
          PROVE  KeyReads'
      <4> DEFINE x == [me EXCEPT !.pc = "query", !.slots = slots]
      <4>1. reader' = [reader EXCEPT ![r] = x]
        BY <3>5, Zenon
      <4>2. x.kind = me.kind /\ x.slots = slots /\ x.pc = "query"
        BY <2>1 DEF ReaderState
      <4>3. me.kind \in TrustedKinds => loop.pc \notin Rebuilding /\ slots \cap Produced \subseteq txs
        BY <3>3, <3>5 DEF Stored
      <4> HIDE DEF x
      <4>4. KeyRead(x)
        BY <3>5, <4>2, <4>3 DEF KeyRead
      <4> QED BY <1>1, <2>2, <4>1, <4>4, SetKeyRead
    <3>6. TipSpan \in SUBSET coverage /\ coverage \in SUBSET coverage
      BY DEF TipSpan
    <3> QED BY <2>7, <3>2, <3>4, <3>5, <3>6 DEF ReadSpan, At
  <2>8. CASE QueryTransactions(r)
    <3> DEFINE pc == CASE me.kind = "address" -> "page" [] me.kind = "pinned" -> "status"
                       [] OTHER -> "valid"
               x == [me EXCEPT !.seen = me.slots \cap txs, !.pc = pc]
    <3>1. reader' = [reader EXCEPT ![r] = x]
      BY <2>8, Zenon DEF QueryTransactions
    <3>2. pc \in {"page", "status", "valid"}
      OBVIOUS
    <3> HIDE DEF pc
    <3>3. /\ x.kind = me.kind /\ x.slots = me.slots /\ x.seen = me.slots \cap txs /\ x.pc = pc
          /\ x.moved = me.moved
      BY <2>1 DEF ReaderState
    <3>4. me.pc = "query" /\ txs \subseteq Produced
      BY <2>8 DEF QueryTransactions, At, TypeInv, RowsTrue
    <3> HIDE DEF x
    <3>5. KeyRead(x)
      BY <2>1, <3>2, <3>3, <3>4 DEF KeyRead
    <3> QED BY <1>1, <2>2, <3>1, <3>5, SetKeyRead
  <2>9. CASE BuildPage(r) \/ ReadPinnedStatus(r)
    <3>1. CASE GivesUp(r)
      BY <1>1, <2>2, <3>1, GivesUpKeyRead
    <3>2. CASE ReaderGoes(r, "valid")
      <4> DEFINE x == [me EXCEPT !.pc = "valid"]
      <4>1. /\ x.kind = me.kind /\ x.slots = me.slots /\ x.pc = "valid"
            /\ x.seen = me.seen /\ x.moved = me.moved
        BY <2>1 DEF ReaderState
      <4>2. me.pc \in {"page", "status"} /\ (me.kind = "pinned" => me.pc = "status")
        BY <2>9 DEF BuildPage, ReadPinnedStatus, At
      <4> HIDE DEF x
      <4>3. KeyRead(x)
        BY <2>1, <4>1, <4>2 DEF KeyRead
      <4> QED BY <1>1, <2>2, <3>2, <4>3, GoesKeyRead DEF x
    <3> QED BY <2>9, <3>1, <3>2 DEF BuildPage, ReadPinnedStatus
  <2>10. CASE Answer(r)
    <3>1. CASE GivesUp(r)
      BY <1>1, <2>2, <3>1, GivesUpKeyRead
    <3>2. CASE ~GivesUp(r)
      <4> DEFINE slots == IF me.kind = "statuses" THEN {s \in me.slots : s >= minRetained}
                          ELSE me.slots
                 x == [me EXCEPT !.pc = "answered", !.slots = slots]
      <4>1. reader' = [reader EXCEPT ![r] = x]
        BY <2>10, <3>2, Zenon DEF Answer
      <4>2. slots \subseteq me.slots /\ (me.kind # "statuses" => slots = me.slots)
        OBVIOUS
      <4> HIDE DEF slots
      <4>3. x.kind = me.kind /\ x.slots = slots /\ x.seen = me.seen /\ x.pc = "answered"
        BY <2>1 DEF ReaderState
      <4>4. me.pc = "valid"
        BY <2>10 DEF Answer, At
      <4>5. "epoch" \notin me.moved \/ (me.kind = "pinned" /\ me.seen # {})
        BY <2>10, <3>2, Zenon DEF Answer
      <4> HIDE DEF x
      <4>6. ASSUME "epoch" \notin me.moved PROVE KeyRead(x)
        BY <2>1, <4>2, <4>3, <4>4, <4>6 DEF KeyRead, TrustedKinds
      <4>7. ASSUME me.kind = "pinned", me.seen # {} PROVE KeyRead(x)
        <5>1. me.slots \subseteq me.seen
          BY <2>1, <4>4, <4>7 DEF KeyRead
        <5> QED BY <2>1, <4>2, <4>3, <4>7, <5>1 DEF KeyRead
      <4>8. KeyRead(x)
        BY <4>5, <4>6, <4>7
      <4> QED BY <1>1, <2>2, <4>1, <4>8, SetKeyRead
    <3> QED BY <3>1, <3>2
  <2>11. CASE Finish(r) \/ StorePoison(r)
    BY <1>1, <2>2, <2>11, GivesUpKeyRead DEF Finish, StorePoison
  <2>12. CASE QueryMarks(r)
    <3>1. CASE GivesUp(r)
      BY <1>1, <2>2, <3>1, GivesUpKeyRead
    <3>2. CASE ~GivesUp(r)
      <4> DEFINE seen == {s \in me.slots : marks[s].status = 1}
                 x == [me EXCEPT !.pc = "check", !.seen = seen]
      <4>1. reader' = [reader EXCEPT ![r] = x]
        BY <2>12, <3>2, Zenon DEF QueryMarks
      <4> HIDE DEF seen
      <4>2. x.kind = me.kind
        BY <2>1 DEF ReaderState
      <4> HIDE DEF x
      <4> QED BY <2>5, <2>12, <4>1, <4>2 DEF QueryMarks, At
    <3> QED BY <3>1, <3>2
  <2>13. CASE CheckRange(r)
    BY <1>1, <2>2, <2>13, GivesUpKeyRead, GoesKeyRead DEF CheckRange, At
  <2>14. CASE ReadBlockRow(r)
    <3>1. CASE reader' = [reader EXCEPT ![r].pc = "block status"]
      BY <1>1, <2>2, <3>1, GoesKeyRead DEF ReaderGoes, KeyPc
    <3>2. CASE reader' = [reader EXCEPT ![r].seen = @ \cup {"block"}]
      <4> DEFINE x == [me EXCEPT !.seen = @ \cup {"block"}]
      <4>1. reader' = [reader EXCEPT ![r] = x]
        BY <3>2, Zenon
      <4>2. x.kind = me.kind
        BY <2>1 DEF ReaderState
      <4> HIDE DEF x
      <4> QED BY <2>5, <2>14, <4>1, <4>2 DEF ReadBlockRow, At
    <3> QED BY <2>14, <3>1, <3>2 DEF ReadBlockRow
  <2>15. CASE ReadBlockTransactions(r)
    <3> DEFINE w == IF me.slots \subseteq txs THEN "all" ELSE "missing"
               x == [me EXCEPT !.seen = @ \cup {w}]
    <3>1. reader' = [reader EXCEPT ![r] = x]
      BY <2>15, Zenon DEF ReadBlockTransactions
    <3> HIDE DEF w
    <3>2. x.kind = me.kind
      BY <2>1 DEF ReaderState
    <3> HIDE DEF x
    <3> QED BY <2>5, <2>15, <3>1, <3>2 DEF ReadBlockTransactions, At
  <2>16. CASE ReadBlockStatus(r)
    <3>1. me.kind \in {"block", "time"}
      BY <2>16 DEF ReadBlockStatus, At
    <3>2. CASE GivesUp(r)
      BY <1>1, <2>2, <3>2, GivesUpKeyRead
    <3>3. CASE ReaderGoes(r, IF me.kind = "time" THEN "time" ELSE "poison")
      BY <1>1, <2>2, <3>3, GoesKeyRead DEF KeyPc
    <3>4. CASE reader' = [reader EXCEPT ![r].pc = "answered", ![r].mark = 2]
      <4> DEFINE x == [me EXCEPT !.pc = "answered", !.mark = 2]
      <4>1. reader' = [reader EXCEPT ![r] = x]
        BY <3>4, Zenon
      <4>2. x.kind = me.kind
        BY <2>1 DEF ReaderState
      <4> HIDE DEF x
      <4> QED BY <2>5, <3>1, <4>1, <4>2
    <3> QED BY <2>16, <3>2, <3>3, <3>4 DEF ReadBlockStatus
  <2>17. CASE AnswerBlock(r) \/ AnswerMetadata(r)
    <3>1. PICK pc \in {"answered", "poison"} :
               reader' = [reader EXCEPT ![r].pc = pc, ![r].mark = 1]
      BY <2>17 DEF AnswerBlock, AnswerMetadata
    <3> DEFINE x == [me EXCEPT !.pc = pc, !.mark = 1]
    <3>2. reader' = [reader EXCEPT ![r] = x]
      BY <3>1, Zenon
    <3>3. x.kind = me.kind
      BY <2>1 DEF ReaderState
    <3> HIDE DEF x
    <3> QED BY <2>5, <2>17, <3>2, <3>3 DEF AnswerBlock, AnswerMetadata, At
  <2>18. CASE AnswerTime(r)
    <3> DEFINE pc == IF me.slots \subseteq blocks THEN "answered" ELSE "poison"
               x == [me EXCEPT !.mark = 1, !.pc = pc]
    <3>1. reader' = [reader EXCEPT ![r] = x]
      BY <2>18, Zenon DEF AnswerTime
    <3> HIDE DEF pc
    <3>2. x.kind = me.kind
      BY <2>1 DEF ReaderState
    <3> HIDE DEF x
    <3> QED BY <2>5, <2>18, <3>1, <3>2 DEF AnswerTime, At
  <2>19. CASE BeginPoison(r) \/ RegisterPoison(r)
    BY <1>1, <2>2, <2>19, KeyReadsBumpFrom DEF BeginPoison, RegisterPoison, KeyPc
  <2>20. CASE PoisonCoverage(r)
    BY <1>1, <2>2, <2>20, GoesKeyRead DEF PoisonCoverage, KeyPc
  <2>21. CASE StampPoison(r)
    <3> DEFINE x == [me EXCEPT !.pc = "mark", !.version = clock + 1]
    <3>1. reader' = [reader EXCEPT ![r] = x]
      BY <2>21, Zenon DEF StampPoison
    <3>2. x.kind = me.kind /\ x.slots = me.slots /\ x.pc = "mark"
      BY <2>1 DEF ReaderState
    <3> HIDE DEF x
    <3>3. KeyRead(x)
      BY <2>1, <3>2 DEF KeyRead
    <3> QED BY <1>1, <2>2, <3>1, <3>3, SetKeyRead
  <2> HIDE DEF me
  <2> QED BY <1>6, <2>4, <2>6, <2>7, <2>8, <2>9, <2>10, <2>11, <2>12, <2>13, <2>14, <2>15,
             <2>16, <2>17, <2>18, <2>19, <2>20, <2>21 DEF ReaderNext
<1> QED BY <1>3, <1>4, <1>5, <1>6 DEF Next

\* What a cache that keeps everything knows of its loop, its fills and its requests.
KeepInv ==
  KeepsEverything =>
    /\ LoopKeeps /\ FillsKeep /\ MarkedStored /\ CoveredStored /\ SchemaKeeps /\ KeyReads

(***************************************************************************)
(* A cache that keeps everything never evicts, stores rows before marks    *)
(* and marks before coverage, and no request by key claims slots whose     *)
(* rows are gone.                                                          *)
(***************************************************************************)
THEOREM KeepInvHolds == Spec => []KeepInv
<1>1. Init => KeepInv
  <2> SUFFICES ASSUME Init
               PROVE  LoopKeeps /\ FillsKeep /\ MarkedStored /\ CoveredStored /\ SchemaKeeps
                        /\ KeyReads
    BY DEF KeepInv
  <2>1. LoopKeeps
    BY DEF Init, LoopKeeps, AtTop, Evicting, Rebuilding
  <2>2. FillsKeep
    BY DEF Init, FillsKeep, FillKeeps, NoFill
  <2>3. MarkedStored /\ CoveredStored
    BY DEF Init, MarkedStored, CoveredStored, Marked, Unmarked, NoMark
  <2>4. SchemaKeeps
    BY DEF Init, SchemaKeeps, AtTop
  <2>5. KeyReads
    BY IdleKeyRead DEF Init, KeyReads
  <2> QED BY <2>1, <2>2, <2>3, <2>4, <2>5
<1>2. TypeInv /\ KeepInv /\ [Next]_vars => KeepInv'
  <2> SUFFICES ASSUME TypeInv, KeepInv, [Next]_vars, KeepsEverything' PROVE KeepInv'
    BY DEF KeepInv
  <2>1. KeepsEverything
    BY ScenarioFixed DEF KeepsEverything, Retain, Last, Upkeep
  <2>2. LoopKeeps /\ FillsKeep /\ MarkedStored /\ CoveredStored /\ SchemaKeeps /\ KeyReads
    BY <2>1 DEF KeepInv
  <2> QED BY <2>1, <2>2, LoopKeepsStep, FillsKeepStep, MarkedStoredStep, CoveredStoredStep,
             SchemaKeepsStep, KeyReadsStep DEF KeepInv
<1> QED BY <1>1, <1>2, TypeCorrect, PTL DEF Spec

(***************************************************************************)
(* While the cache evicts nothing and no refresh fails half way, a page of *)
(* getSignaturesForAddress from the disk tier holds every transaction of   *)
(* the slots it claims.                                                    *)
(***************************************************************************)
THEOREM AddressPagesKept == Spec => [](KeepsEverything => AddressPagesComplete)
<1>1. KeepInv => (KeepsEverything => AddressPagesComplete)
  BY DEF KeepInv, KeyReads, KeyRead, AddressPagesComplete, Answered
<1> QED BY <1>1, KeepInvHolds, PTL

(***************************************************************************)
(* Under the same hypothesis, and without a change of the schema, a        *)
(* signature that the disk tier reports missing in the slots it claims is  *)
(* in none of them, for getTransaction with a pinned slot and for          *)
(* getSignatureStatuses.  A schema rebuild between ready and epochs of     *)
(* getSignatureStatuses breaks the second one.                             *)
(***************************************************************************)
THEOREM AbsenceKept == Spec => [](KeepsEverything /\ "schema" \notin Upkeep => AbsenceTrue)
<1>1. KeepInv => (KeepsEverything /\ "schema" \notin Upkeep => AbsenceTrue)
  BY DEF KeepInv, KeyReads, KeyRead, TrustedKinds, AbsenceTrue, PinnedAbsenceTrue,
     StatusAbsenceTrue, Answered
<1> QED BY <1>1, KeepInvHolds, PTL

(***************************************************************************)
(* The pinned lookup of getTransaction samples its epochs after ready, so  *)
(* for it a change of the schema needs no exception.                       *)
(***************************************************************************)
THEOREM PinnedAbsenceKept == Spec => [](KeepsEverything => PinnedAbsenceTrue)
<1>1. KeepInv => (KeepsEverything => PinnedAbsenceTrue)
  BY DEF KeepInv, KeyReads, KeyRead, TrustedKinds, PinnedAbsenceTrue, Answered
<1> QED BY <1>1, KeepInvHolds, PTL

-----------------------------------------------------------------------------
(***************************************************************************)
(* Retention of the disk cache, proved for every window, partition width,  *)
(* number of fills and requests: when the filler loop is at its top and    *)
(* the cache is ready, every covered slot has its rows (RetentionKept).    *)
(*                                                                         *)
(* The property is far from inductive.  An eviction drops the rows of      *)
(* whole partitions, then their marks, then raises the floor and only then *)
(* forgets their coverage; it may fail or the process may stop after any   *)
(* of these, and what is left behind is marked or covered without rows.    *)
(* What saves the next loop is that such a slot is doomed: the slot that   *)
(* caused the eviction, a window above, is still there and makes the next  *)
(* maybe_evict drop it again before anything is served (LostDoomed).  For  *)
(* this no poison may take that slot away.  A request poisons a slot only  *)
(* if it met it without rows, and such a slot has either left the window   *)
(* for good or is the oldest of a cache that starts over (Explained).  A   *)
(* slot that is stored, marked, served and not suspected is Firm, and      *)
(* stays so until everything is wiped.                                     *)
(*                                                                         *)
(* The argument goes: what a request may suspect (Moves); the kinds of     *)
(* steps and what they do to rows, marks and map (Shape); which slots stay *)
(* Young, Gone and Firm; then one lemma for each part of RetentionInv.     *)
(***************************************************************************)
-----------------------------------------------------------------------------
(***************************************************************************)
(* No byte budget evicts and no refresh fails half way; the window may     *)
(* evict, a drop may fail, and the process may stop at any point.          *)
(***************************************************************************)
Uninterrupted == Upkeep \cap {"bytes", "reload fails"} = {}

Dropping == {"invalidate", "drop txs", "drop blocks", "drop marks", "floor", "forget"}

BlockKind == {"block", "time"}

Poisoning == {"poison", "register", "remove", "stamp", "mark"}

\* A request that has met a covered slot without its rows, or is about to poison one.
Tainted(x) ==
  /\ x.kind \in BlockKind
  /\ \/ x.pc \in Poisoning
     \/ x.kind = "block" /\ x.pc = "rows" /\ "missing" \in x.seen
     \/ x.kind = "block" /\ x.pc = "block status"

\* The slots that requests for blocks read, and those they may still poison.
Watched == {m \in Slot : \E r \in Reader : reader[r].kind \in BlockKind /\ m \in reader[r].slots}

Suspects == {m \in Produced : \E r \in Reader : Tainted(reader[r]) /\ m \in reader[r].slots}

ReaderBound(x) ==
  /\ x.version <= clock
  /\ x.pc \in Poisoning \cup {"time"} => x.kind \in BlockKind /\ x.slots \subseteq Produced
  /\ x.kind \in BlockKind => x.slots \subseteq 0..tip

ReadersBound == \A r \in Reader : ReaderBound(reader[r])

\* How a step changes the record of a request.
Moves(x, y) ==
  /\ y.version <= clock'
  /\ y.pc \in Poisoning \cup {"time"} => y.kind \in BlockKind /\ y.slots \subseteq Produced
  /\ y.kind \in BlockKind =>
       (x.kind \in BlockKind /\ y.slots = x.slots) \/ (ready /\ y.slots \subseteq coverage)
  /\ Tainted(y) =>
       /\ x.kind \in BlockKind /\ y.slots = x.slots
       /\ Tainted(x) \/ \A m \in y.slots \cap Produced : ~Stored(m)

ReadersMove == \A r \in Reader : Moves(reader[r], reader'[r])

\* A request that gives up suspects nothing.
LEMMA IdleMoves ==
  ASSUME TypeInv, NEW x, clock' \in Nat
  PROVE  Moves(x, Idle)
  BY DEF Moves, Idle, Tainted, BlockKind, Poisoning

\* A request whose relevant fields do not change moves as described.
LEMMA SameMoves ==
  ASSUME NEW x, NEW y, ReaderBound(x), clock \in Nat, clock' \in Nat, clock' >= clock,
         x.version \in Nat,
         y.kind = x.kind, y.pc = x.pc, y.slots = x.slots, y.seen = x.seen, y.version = x.version
  PROVE  Moves(x, y)
<1>1. Tainted(y) => Tainted(x) /\ x.kind \in BlockKind
  BY DEF Tainted
<1> QED BY <1>1 DEF Moves, ReaderBound

\* Moving a counter of the key index leaves what requests watch and suspect.
LEMMA BumpMoves ==
  ASSUME ReaderTyped, ReadersBound, clock \in Nat, clock' \in Nat, clock' >= clock,
         UNCHANGED reader \/ \E counters \in SUBSET {"epoch", "data", "serial"} : Bump(counters)
  PROVE  ReadersMove
<1> SUFFICES ASSUME NEW r \in Reader PROVE Moves(reader[r], reader'[r])
  BY DEF ReadersMove
<1>1. reader[r] \in ReaderState /\ ReaderBound(reader[r])
  BY DEF ReaderTyped, ReadersBound
<1>2. reader'[r] = reader[r] \/ \E c \in SUBSET {"epoch", "data", "serial"} :
                                   reader'[r] = [reader[r] EXCEPT !.moved = @ \cup c]
  BY DEF Bump
<1>3. /\ reader'[r].kind = reader[r].kind /\ reader'[r].pc = reader[r].pc
      /\ reader'[r].slots = reader[r].slots /\ reader'[r].seen = reader[r].seen
      /\ reader'[r].version = reader[r].version /\ reader[r].version \in Nat
  BY <1>1, <1>2 DEF ReaderState
<1> QED BY <1>1, <1>3, SameMoves

\* A step of one request moves all of them as described if it moves that one so.
LEMMA SetMoves ==
  ASSUME ReaderTyped, ReadersBound, clock \in Nat, clock' \in Nat, clock' >= clock,
         NEW r \in Reader, NEW x, reader' = [reader EXCEPT ![r] = x], Moves(reader[r], x)
  PROVE  ReadersMove
<1> SUFFICES ASSUME NEW q \in Reader PROVE Moves(reader[q], reader'[q])
  BY DEF ReadersMove
<1>1. CASE q = r
  BY <1>1 DEF ReaderTyped
<1>2. CASE q # r
  <2>1. reader'[q] = reader[q] /\ ReaderBound(reader[q]) /\ reader[q].version \in Nat
    BY <1>2 DEF ReaderTyped, ReadersBound, ReaderState
  <2> QED BY <2>1, SameMoves
<1> QED BY <1>1, <1>2

\* A step to a place where a slot is suspected needs a reason.
MayGo(x, pc) ==
  /\ pc \in Poisoning \cup {"time"} => x.kind \in BlockKind /\ x.slots \subseteq Produced
  /\ x.kind \in BlockKind /\ pc \in Poisoning \cup {"rows", "block status"} =>
       Tainted(x) \/ \A m \in x.slots \cap Produced : ~Stored(m)

\* A request that only changes its place.
LEMMA GoesMoves ==
  ASSUME TypeInv, ReadersBound, clock' \in Nat, clock' >= clock,
         NEW r \in Reader, NEW pc, ReaderGoes(r, pc),
         MayGo(reader[r], pc)
  PROVE  ReadersMove
<1> DEFINE x == [reader[r] EXCEPT !.pc = pc]
<1>1. reader' = [reader EXCEPT ![r] = x]
  BY Zenon DEF ReaderGoes
<1>2. ReaderTyped /\ clock \in Nat
  BY DEF TypeInv, ServingTyped
<1>3. /\ x.kind = reader[r].kind /\ x.slots = reader[r].slots /\ x.seen = reader[r].seen
      /\ x.pc = pc /\ x.version = reader[r].version /\ reader[r].version \in Nat
  BY <1>2 DEF ReaderTyped, ReaderState
<1>4. ReaderBound(reader[r])
  BY DEF ReadersBound
<1> HIDE DEF x
<1>5. x.version <= clock'
  <2>1. reader[r].version <= clock
    BY <1>4 DEF ReaderBound
  <2> QED BY <1>2, <1>3, <2>1
<1>6. Moves(reader[r], x)
  BY <1>3, <1>4, <1>5 DEF Moves, Tainted, ReaderBound, MayGo
<1> QED BY <1>1, <1>2, <1>6, SetMoves

\* A request that gives up.
LEMMA GivesUpMoves ==
  ASSUME TypeInv, ReadersBound, clock' \in Nat, clock' >= clock, NEW r \in Reader, GivesUp(r)
  PROVE  ReadersMove
<1>1. ReaderTyped /\ clock \in Nat
  BY DEF TypeInv, ServingTyped
<1> QED BY <1>1, IdleMoves, SetMoves DEF GivesUp

\* Every step of a request moves it as described: it suspects a slot only once it has read
\* rows that are not there.
LEMMA ReaderStepMoves ==
  ASSUME TypeInv, BlockReadsTrue, ReadersBound, NEW r \in Reader, ReaderNext(r)
  PROVE  ReadersMove /\ clock' \in Nat /\ clock' >= clock
<1> DEFINE me == reader[r]
<1>1. ReaderTyped /\ MarksTrue /\ clock \in Nat
  BY DEF TypeInv, ServingTyped
<1>2. me \in ReaderState /\ BlockRead(me) /\ ReaderBound(me) /\ me.version \in Nat
  BY <1>1 DEF ReaderTyped, BlockReadsTrue, ReadersBound, ReaderState
<1>3. me.version <= clock
  BY <1>2 DEF ReaderBound
<1> DEFINE Goal == ReadersMove /\ clock' \in Nat /\ clock' >= clock
<1>0. ASSUME UNCHANGED clock PROVE clock' \in Nat /\ clock' >= clock
  BY <1>0, <1>1
<1>4. ASSUME UNCHANGED clock, GivesUp(r) PROVE Goal
  BY <1>1, <1>4, GivesUpMoves
<1>5. ASSUME UNCHANGED clock, NEW pc, ReaderGoes(r, pc),
             pc \notin Poisoning \cup {"time", "rows", "block status"}
      PROVE  Goal
  BY <1>0, <1>5, GoesMoves DEF MayGo
<1>6. ASSUME UNCHANGED clock, NEW x, reader' = [reader EXCEPT ![r] = x], x.version = me.version,
             x.kind = me.kind, me.kind \notin BlockKind, x.pc \notin Poisoning \cup {"time"}
      PROVE  Goal
  <2>1. Moves(me, x)
    BY <1>1, <1>3, <1>6 DEF Moves, Tainted
  <2> QED BY <1>0, <1>1, <1>6, <2>1, SetMoves
<1>7. ASSUME UNCHANGED clock, NEW x, reader' = [reader EXCEPT ![r] = x], x.version = me.version,
             x.kind = me.kind, x.slots = me.slots,
             x.pc \in Poisoning \cup {"time"} => me.kind \in BlockKind /\ me.slots \subseteq Produced,
             Tainted(x) => Tainted(me) \/ \A m \in me.slots \cap Produced : ~Stored(m)
      PROVE  Goal
  <2>1. Moves(me, x)
    BY <1>1, <1>3, <1>7 DEF Moves, Tainted
  <2> QED BY <1>0, <1>1, <1>7, <2>1, SetMoves
<1>8. ASSUME NEW kind \in Kinds, NEW lo \in 0..scenario.last, NEW hi \in 0..scenario.last,
             BeginRequest(r, kind, lo..hi)
      PROVE  Goal
  <2> DEFINE pc == CASE kind = "block" -> "rows" [] kind = "time" -> "block status"
                     [] OTHER -> "sample"
             x == [Idle EXCEPT !.kind = kind, !.slots = lo..hi, !.pc = pc]
  <2>1. reader' = [reader EXCEPT ![r] = x] /\ UNCHANGED clock
    BY <1>8, Zenon DEF BeginRequest, OnlyReader
  <2>2. kind \in BlockKind => ready /\ lo..hi \subseteq coverage
    BY <1>8 DEF BeginRequest, BlockKind
  <2>3. pc \notin Poisoning \cup {"time"} /\ (kind = "block" => pc = "rows")
    BY DEF Poisoning
  <2> HIDE DEF pc
  <2>4. x.kind = kind /\ x.slots = lo..hi /\ x.pc = pc /\ x.seen = {} /\ x.version = 0
    BY DEF Idle
  <2> HIDE DEF x
  <2>5. x.version <= clock'
    BY <1>1, <2>1, <2>4
  <2>6. ~Tainted(x)
    BY <2>3, <2>4 DEF Tainted
  <2>7. Moves(me, x)
    BY <2>2, <2>3, <2>4, <2>5, <2>6 DEF Moves
  <2> QED BY <1>0, <1>1, <2>1, <2>7, SetMoves
<1>9. ASSUME NEW kind \in Kinds, NEW slots \in {lo..hi : lo, hi \in 0..scenario.last},
             BeginRequest(r, kind, slots)
      PROVE  Goal
  BY <1>8, <1>9
<1>10. CASE Sample(r)
  BY <1>4, <1>5, <1>10 DEF Sample, OnlyReader, Poisoning
<1>11. CASE ReadSpan(r)
  <2>1. CASE GivesUp(r)
    BY <1>4, <1>11, <2>1 DEF ReadSpan, OnlyReader
  <2>2. CASE ReaderGoes(r, "query")
    BY <1>5, <1>11, <2>2 DEF ReadSpan, OnlyReader, Poisoning
  <2>3. ASSUME NEW slots, me.kind \in {"address", "statuses"},
               reader' = [reader EXCEPT ![r].pc = "query", ![r].slots = slots]
        PROVE  Goal
    <3> DEFINE x == [me EXCEPT !.pc = "query", !.slots = slots]
    <3>1. reader' = [reader EXCEPT ![r] = x]
      BY <2>3, Zenon
    <3>2. x.kind = me.kind /\ x.pc = "query" /\ x.version = me.version
      BY <1>2 DEF ReaderState
    <3> HIDE DEF x
    <3> QED BY <1>6, <1>11, <2>3, <3>1, <3>2 DEF ReadSpan, OnlyReader, BlockKind, Poisoning
  <2> QED BY <1>11, <2>1, <2>2, <2>3 DEF ReadSpan, At
<1>12. CASE QueryTransactions(r)
  <2> DEFINE pc == CASE me.kind = "address" -> "page" [] me.kind = "pinned" -> "status"
                     [] OTHER -> "valid"
             x == [me EXCEPT !.seen = me.slots \cap txs, !.pc = pc]
  <2>1. reader' = [reader EXCEPT ![r] = x]
    BY <1>12, Zenon DEF QueryTransactions
  <2>2. pc \notin Poisoning \cup {"time"}
    BY DEF Poisoning
  <2> HIDE DEF pc
  <2>3. x.kind = me.kind /\ x.pc = pc /\ x.version = me.version
    BY <1>2 DEF ReaderState
  <2> HIDE DEF x
  <2> QED BY <1>6, <1>12, <2>1, <2>2, <2>3 DEF QueryTransactions, OnlyReader, At, BlockKind
<1>13. CASE BuildPage(r) \/ ReadPinnedStatus(r)
  BY <1>4, <1>5, <1>13 DEF BuildPage, ReadPinnedStatus, OnlyReader, Poisoning
<1>14. CASE Answer(r)
  <2>1. CASE GivesUp(r)
    BY <1>4, <1>14, <2>1 DEF Answer, OnlyReader
  <2>2. CASE ~GivesUp(r)
    <3> DEFINE slots == IF me.kind = "statuses" THEN {s \in me.slots : s >= minRetained}
                        ELSE me.slots
               x == [me EXCEPT !.pc = "answered", !.slots = slots]
    <3>1. reader' = [reader EXCEPT ![r] = x]
      BY <1>14, <2>2, Zenon DEF Answer
    <3> HIDE DEF slots
    <3>2. x.kind = me.kind /\ x.pc = "answered" /\ x.version = me.version
      BY <1>2 DEF ReaderState
    <3> HIDE DEF x
    <3>3. me.kind \notin BlockKind /\ UNCHANGED clock
      BY <1>14 DEF Answer, At, OnlyReader, BlockKind
    <3> QED BY <1>6, <3>1, <3>2, <3>3 DEF Poisoning
  <2> QED BY <2>1, <2>2
<1>15. CASE QueryMarks(r)
  <2>1. CASE GivesUp(r)
    BY <1>4, <1>15, <2>1 DEF QueryMarks, OnlyReader
  <2>2. CASE ~GivesUp(r)
    <3> DEFINE seen == {s \in me.slots : marks[s].status = 1}
               x == [me EXCEPT !.pc = "check", !.seen = seen]
    <3>1. reader' = [reader EXCEPT ![r] = x]
      BY <1>15, <2>2, Zenon DEF QueryMarks
    <3> HIDE DEF seen
    <3>2. x.kind = me.kind /\ x.pc = "check" /\ x.version = me.version
      BY <1>2 DEF ReaderState
    <3> HIDE DEF x
    <3> QED BY <1>6, <1>15, <3>1, <3>2 DEF QueryMarks, At, OnlyReader, BlockKind, Poisoning
  <2> QED BY <2>1, <2>2
<1>16. CASE CheckRange(r)
  BY <1>4, <1>5, <1>16 DEF CheckRange, OnlyReader, Poisoning
<1>17. CASE Finish(r)
  BY <1>4, <1>17 DEF Finish, OnlyReader
<1>18. CASE ReadBlockRow(r)
  <2>1. me.kind = "block" /\ UNCHANGED clock /\ me.pc = "rows"
    BY <1>18 DEF ReadBlockRow, At, OnlyReader
  <2>2. CASE me.slots \subseteq blocks
    <3> DEFINE x == [me EXCEPT !.seen = @ \cup {"block"}]
    <3>1. reader' = [reader EXCEPT ![r] = x]
      BY <1>18, <2>2, Zenon DEF ReadBlockRow
    <3>2. /\ x.kind = me.kind /\ x.pc = me.pc /\ x.slots = me.slots /\ x.version = me.version
          /\ x.seen = me.seen \cup {"block"}
      BY <1>2 DEF ReaderState
    <3> HIDE DEF x
    <3>3. Tainted(x) => Tainted(me)
      BY <3>2 DEF Tainted
    <3> QED BY <1>7, <2>1, <3>1, <3>2, <3>3 DEF Poisoning
  <2>3. CASE ~(me.slots \subseteq blocks)
    <3>1. ReaderGoes(r, "block status")
      BY <1>18, <2>3, Zenon DEF ReadBlockRow, ReaderGoes
    <3>2. \A m \in me.slots \cap Produced : ~Stored(m)
      BY <1>2, <2>1, <2>3 DEF BlockRead, Stored
    <3> QED BY <1>0, <1>1, <2>1, <3>1, <3>2, GoesMoves DEF Poisoning, MayGo
  <2> QED BY <2>2, <2>3
<1>19. CASE ReadBlockTransactions(r)
  <2>1. me.kind = "block" /\ UNCHANGED clock /\ me.pc = "rows"
    BY <1>19 DEF ReadBlockTransactions, At, OnlyReader
  <2> DEFINE w == IF me.slots \subseteq txs THEN "all" ELSE "missing"
             x == [me EXCEPT !.seen = @ \cup {w}]
  <2>2. reader' = [reader EXCEPT ![r] = x]
    BY <1>19, Zenon DEF ReadBlockTransactions
  <2>3. w = "missing" => \A m \in me.slots \cap Produced : ~Stored(m)
    BY <1>2, <2>1 DEF BlockRead, Stored
  <2> HIDE DEF w
  <2>4. /\ x.kind = me.kind /\ x.pc = me.pc /\ x.slots = me.slots /\ x.version = me.version
        /\ x.seen = me.seen \cup {w}
    BY <1>2 DEF ReaderState
  <2> HIDE DEF x
  <2>5. Tainted(x) => Tainted(me) \/ w = "missing"
    BY <2>4 DEF Tainted
  <2> QED BY <1>7, <2>1, <2>2, <2>3, <2>4, <2>5 DEF Poisoning
<1>20. CASE ReadBlockStatus(r)
  <2>1. PICK s \in me.slots :
          CASE CoversSlot(s) /\ marks[s].status = 2 ->
                 reader' = [reader EXCEPT ![r].pc = "answered", ![r].mark = 2]
            [] CoversSlot(s) /\ marks[s].status = 1 ->
                 ReaderGoes(r, IF me.kind = "time" THEN "time" ELSE "poison")
            [] OTHER -> GivesUp(r)
    BY <1>20 DEF ReadBlockStatus
  <2>2. me.kind \in BlockKind /\ UNCHANGED clock /\ me.pc = "block status"
    BY <1>20 DEF ReadBlockStatus, At, OnlyReader, BlockKind
  <2>3. CASE reader' = [reader EXCEPT ![r].pc = "answered", ![r].mark = 2]
    <3> DEFINE x == [me EXCEPT !.pc = "answered", !.mark = 2]
    <3>1. reader' = [reader EXCEPT ![r] = x]
      BY <2>3, Zenon
    <3>2. x.kind = me.kind /\ x.pc = "answered" /\ x.slots = me.slots /\ x.version = me.version
      BY <1>2 DEF ReaderState
    <3> HIDE DEF x
    <3> QED BY <1>7, <2>2, <3>1, <3>2 DEF Tainted, Poisoning
  <2>4. CASE marks[s].status = 1 /\ ReaderGoes(r, IF me.kind = "time" THEN "time" ELSE "poison")
    <3>1. me.slots = {s} /\ s \in Slot
      BY <1>2, <2>1, <2>2 DEF BlockRead, BlockKind
    <3>2. me.slots \subseteq Produced
      BY <1>1, <2>4, <3>1 DEF MarksTrue, StatusOf
    <3>3. CASE me.kind = "time" /\ ReaderGoes(r, "time")
      BY <1>0, <1>1, <2>2, <3>2, <3>3, GoesMoves DEF Poisoning, MayGo
    <3>4. CASE me.kind # "time" /\ ReaderGoes(r, "poison")
      <4>1. Tainted(me)
        BY <2>2, <3>4 DEF Tainted, BlockKind
      <4> QED BY <1>0, <1>1, <2>2, <3>2, <3>4, <4>1, GoesMoves DEF MayGo
    <3> QED BY <2>4, <3>3, <3>4
  <2>5. CASE GivesUp(r)
    BY <1>4, <2>2, <2>5
  <2> QED BY <2>1, <2>3, <2>4, <2>5
<1>21. CASE AnswerBlock(r) \/ AnswerMetadata(r)
  <2>1. PICK pc \in {"answered", "poison"} :
          /\ reader' = [reader EXCEPT ![r].pc = pc, ![r].mark = 1]
          /\ pc = "poison" => "missing" \in me.seen
    BY <1>21 DEF AnswerBlock, AnswerMetadata
  <2>2. me.kind = "block" /\ me.pc = "rows" /\ "block" \in me.seen /\ UNCHANGED clock
    BY <1>21 DEF AnswerBlock, AnswerMetadata, At, OnlyReader
  <2> DEFINE x == [me EXCEPT !.pc = pc, !.mark = 1]
  <2>3. reader' = [reader EXCEPT ![r] = x]
    BY <2>1, Zenon
  <2>4. x.kind = me.kind /\ x.pc = pc /\ x.slots = me.slots /\ x.version = me.version
    BY <1>2 DEF ReaderState
  <2> HIDE DEF x
  <2>5. me.slots \subseteq Produced
    BY <1>2, <2>2 DEF BlockRead
  <2>6. Tainted(x) => Tainted(me)
    BY <2>1, <2>2, <2>4 DEF Tainted, Poisoning, BlockKind
  <2> QED BY <1>7, <2>2, <2>3, <2>4, <2>5, <2>6 DEF BlockKind
<1>22. CASE AnswerTime(r)
  <2> DEFINE pc == IF me.slots \subseteq blocks THEN "answered" ELSE "poison"
             x == [me EXCEPT !.mark = 1, !.pc = pc]
  <2>1. reader' = [reader EXCEPT ![r] = x]
    BY <1>22, Zenon DEF AnswerTime
  <2>2. me.kind = "time" /\ me.pc = "time" /\ UNCHANGED clock
    BY <1>22 DEF AnswerTime, At, OnlyReader
  <2>3. pc = "answered" \/ (pc = "poison" /\ \A m \in me.slots \cap Produced : ~Stored(m))
    <3>1. PICK m \in Slot : me.slots = {m}
      BY <1>2, <2>2 DEF BlockRead
    <3>2. CASE m \in blocks
      <4>1. me.slots \subseteq blocks
        BY <3>1, <3>2
      <4> QED BY <4>1, Zenon
    <3>3. CASE m \notin blocks
      <4>1. ~(me.slots \subseteq blocks) /\ \A k \in me.slots \cap Produced : ~Stored(k)
        BY <3>1, <3>3 DEF Stored
      <4> QED BY <4>1, Zenon
    <3> QED BY <3>2, <3>3
  <2> HIDE DEF pc
  <2>4. x.kind = me.kind /\ x.pc = pc /\ x.slots = me.slots /\ x.version = me.version
    BY <1>2 DEF ReaderState
  <2> HIDE DEF x
  <2>5. me.slots \subseteq Produced
    BY <1>2, <2>2 DEF ReaderBound
  <2>6. Tainted(x) => \A m \in me.slots \cap Produced : ~Stored(m)
    BY <2>2, <2>3, <2>4 DEF Tainted, Poisoning
  <2> QED BY <1>7, <2>1, <2>2, <2>4, <2>5, <2>6 DEF BlockKind
<1>23. CASE BeginPoison(r) \/ RegisterPoison(r)
  <2>1. PICK pc \in Poisoning, counters \in SUBSET {"epoch", "data", "serial"} :
               BumpFrom(r, pc, counters)
    BY <1>23 DEF BeginPoison, RegisterPoison, Poisoning, Invalidate
  <2>2. UNCHANGED clock /\ me.pc \in Poisoning
    BY <1>23 DEF BeginPoison, RegisterPoison, OnlyReader, Poisoning
  <2> SUFFICES ASSUME NEW q \in Reader PROVE Moves(reader[q], reader'[q])
    BY <1>1, <2>2 DEF ReadersMove
  <2>3. reader[q] \in ReaderState /\ ReaderBound(reader[q]) /\ reader[q].version \in Nat
    BY <1>1 DEF ReaderTyped, ReadersBound, ReaderState
  <2>4. CASE q = r
    <3>1. reader'[q] = [me EXCEPT !.pc = pc]
      BY <2>1, <2>4 DEF BumpFrom
    <3>2. /\ reader'[q].kind = me.kind /\ reader'[q].slots = me.slots /\ reader'[q].pc = pc
          /\ reader'[q].version = me.version
      BY <1>2, <3>1 DEF ReaderState
    <3>3. me.kind \in BlockKind /\ me.slots \subseteq Produced /\ Tainted(me)
      BY <1>2, <2>2 DEF ReaderBound, Tainted
    <3> QED BY <1>3, <2>2, <2>4, <3>2, <3>3 DEF Moves
  <2>5. CASE q # r
    <3>1. reader'[q] = reader[q] \/ reader'[q] = [reader[q] EXCEPT !.moved = @ \cup counters]
      BY <2>1, <2>5 DEF BumpFrom
    <3>2. /\ reader'[q].kind = reader[q].kind /\ reader'[q].pc = reader[q].pc
          /\ reader'[q].slots = reader[q].slots /\ reader'[q].seen = reader[q].seen
          /\ reader'[q].version = reader[q].version
      BY <2>3, <3>1 DEF ReaderState
    <3> QED BY <1>1, <2>2, <2>3, <3>2, SameMoves
  <2> QED BY <2>4, <2>5
<1>24. CASE PoisonCoverage(r)
  <2>1. me.pc \in Poisoning /\ UNCHANGED clock /\ ReaderGoes(r, "stamp")
    BY <1>24 DEF PoisonCoverage, Poisoning
  <2>2. me.kind \in BlockKind /\ me.slots \subseteq Produced /\ Tainted(me)
    BY <1>2, <2>1 DEF ReaderBound, Tainted
  <2> QED BY <1>0, <1>1, <2>1, <2>2, GoesMoves DEF MayGo
<1>25. CASE StampPoison(r)
  <2> DEFINE x == [me EXCEPT !.pc = "mark", !.version = clock + 1]
  <2>1. reader' = [reader EXCEPT ![r] = x] /\ clock' = clock + 1 /\ me.pc \in Poisoning
    BY <1>25, Zenon DEF StampPoison, Tick, Poisoning
  <2>2. x.kind = me.kind /\ x.slots = me.slots /\ x.pc = "mark" /\ x.version = clock + 1
    BY <1>2 DEF ReaderState
  <2> HIDE DEF x
  <2>3. me.kind \in BlockKind /\ me.slots \subseteq Produced /\ Tainted(me)
    BY <1>2, <2>1 DEF ReaderBound, Tainted
  <2>4. Moves(me, x)
    BY <1>1, <2>1, <2>2, <2>3 DEF Moves
  <2>5. clock' \in Nat /\ clock' >= clock
    BY <1>1, <2>1
  <2> QED BY <1>1, <2>1, <2>4, <2>5, SetMoves
<1>26. CASE StorePoison(r)
  BY <1>4, <1>26 DEF StorePoison
<1> HIDE DEF me
<1> QED BY <1>9, <1>10, <1>11, <1>12, <1>13, <1>14, <1>15, <1>16, <1>17, <1>18, <1>19, <1>20,
     <1>21, <1>22, <1>23, <1>24, <1>25, <1>26 DEF ReaderNext

-----------------------------------------------------------------------------
(***************************************************************************)
(* What is known of a slot: it is served, has a mark, is about to be       *)
(* published, is being filled.  While a rebuilt or reopened cache has not  *)
(* reloaded its map, the map says nothing.                                 *)
(***************************************************************************)
Loading == {"adopt", "reload"}

Live(s) == s \in coverage /\ loop.pc \notin Loading

Held(s) == Live(s) \/ Marked(s)

Publishing(s) == \E f \in Fill : s \in fill[f].publish

InRange(s) == \E f \in Fill : s \in fill[f].range

\* Nothing that is held, or will be, lies more than a window below m.
Young(m) == \A s \in Slot : Held(s) \/ Publishing(s) => m - (Retain - 1) <= s

\* The rows of m are gone and m has left the window, so that they never come back.
Gone(m) == ~Stored(m) /\ m < tip - (Retain - 1) /\ ~InRange(m)

\* A slot that no request can take away: stored, marked, served and not suspected.
Firm(m) == Stored(m) /\ Marked(m) /\ (Live(m) \/ loop.pc \in Loading) /\ m \notin Suspects

-----------------------------------------------------------------------------
(***************************************************************************)
(* The parts of the inductive invariant.                                   *)
(***************************************************************************)
VersionsPast ==
  /\ \A s \in Slot : marks[s].version <= clock
  /\ \A f \in Fill : fill[f].version <= clock

LoopSane ==
  /\ loop.budget = "met"
  /\ loop.pc \in Rebuilding => ~ready
  /\ loop.caller = "no holes" => loop.pc \notin Dropping \cup {"not evicted"}

FillsSane ==
  /\ \A f \in Fill : fill[f].pc = "idle" => fill[f] = NoFill
  /\ loop.pc # "filling" => \A f \in Fill : fill[f].pc = "idle"
  /\ \A f \in Fill : FillKeeps(fill[f])
  /\ \A f \in Fill : \A s \in fill[f].range : s <= tip /\ s \notin coverage
  /\ \A f, g \in Fill : f # g => fill[f].range \cap fill[g].range = {}

\* The newest covered slot is less than a window above the floor.
Settled == \A s \in coverage : s - (Retain - 1) <= minRetained

FloorSane ==
  /\ loop.pc # "forget" => \A s \in coverage : minRetained <= s
  /\ loop.pc = "forget" => minRetained = loop.floor
  /\ loop.pc \in {"evicted", "plan"} \/ (loop.pc = "evict" /\ loop.caller = "no holes") => Settled
  /\ loop.pc \in Dropping => /\ \A s \in coverage : s - (Retain - 1) <= loop.floor
                             /\ loop.floor <= tip - (Retain - 1)

SeenUpToTip == \A s \in Slot : s \in coverage \/ Marked(s) => s <= tip

\* A slot without rows that a request met has left the window, or an empty cache is
\* being filled again from that slot on.
Explained ==
  \A m \in Produced : m \in Suspects \/ (m \in Watched /\ ~Stored(m)) => Gone(m) \/ Young(m)

\* What is held without its rows is doomed: a firm slot lies a window above it.
LostDoomed ==
  \A s \in Slot : Held(s) /\ ~Stored(s) => \E m \in Slot : Firm(m) /\ m >= s + Retain

UnmarkedYoung ==
  \A s \in Slot : Live(s) /\ ~Marked(s) =>
    \/ Young(s) \/ ~Stored(s)
    \/ loop.pc \in {"floor", "forget"} /\ s < loop.floor

\* A slot that a newer poison takes from a fill that is about to publish it.
Overtaken(x, s) ==
  \/ x.pc = "marks" /\ marks[s].version > x.version
  \/ x.pc = "publish" /\ ~Marked(s)

PublishYoung == \A f \in Fill : \A s \in fill[f].publish : Overtaken(fill[f], s) => Young(s)

EvictSane ==
  loop.pc \in Dropping =>
    \/ \E m \in Slot : Firm(m) /\ m >= loop.floor + Retain - 1
    \/ \A s \in Slot : Held(s) => s >= loop.floor

Clean == \A s \in coverage : Stored(s)

ServesClean ==
  (ready /\ loop.pc \in {"top", "loop", "evict", "invalidate"}) \/ loop.pc = "filling" => Clean

-----------------------------------------------------------------------------
(***************************************************************************)
(* Every step moves the requests, the clock and the tip as described.      *)
(***************************************************************************)
LEMMA ReadersMoveStep ==
  ASSUME TypeInv, BlockReadsTrue, ReadersBound, [Next]_vars
  PROVE  ReadersMove /\ clock' \in Nat /\ clock' >= clock
<1>1. ReaderTyped /\ clock \in Nat
  BY DEF TypeInv, ServingTyped
<1>2. ASSUME UNCHANGED clock,
             UNCHANGED reader \/ \E counters \in SUBSET {"epoch", "data", "serial"} : Bump(counters)
      PROVE  ReadersMove /\ clock' \in Nat /\ clock' >= clock
  BY <1>1, <1>2, BumpMoves
<1>3. SourceAdvances \/ SchemaChanges \/ UNCHANGED vars => UNCHANGED <<clock, reader>>
  BY DEF SourceAdvances, SchemaChanges, vars
<1>4. ASSUME NEW f \in Fill, FillNext(f)
      PROVE  ReadersMove /\ clock' \in Nat /\ clock' >= clock
  <2>1. CASE StampCoverage(f)
    <3>1. UNCHANGED reader /\ clock' = clock + 1
      BY <2>1 DEF StampCoverage, Tick
    <3> QED BY <1>1, <3>1, BumpMoves
  <2>2. CASE BeginFill(f)
    <3>1. UNCHANGED clock /\ Bump({"serial"})
      BY <2>2 DEF BeginFill
    <3> QED BY <1>2, <3>1
  <2>3. CASE ~StampCoverage(f) /\ ~BeginFill(f)
    <3>1. UNCHANGED <<clock, reader>>
      BY <1>4, <2>3 DEF FillNext, ForwardTransactions, ValidateCounts, ForwardBlocks,
         StoreCoverage, PublishCoverage, FillFails
    <3> QED BY <1>2, <3>1
  <2> QED BY <2>1, <2>2, <2>3
<1>5. CASE BeginRebuild \/ RegisterRebuild \/ BeginEvict
  <2>1. UNCHANGED clock /\ (Bump(Invalidate) \/ Bump({"serial"}) \/ Bump({"epoch", "serial"}))
    BY <1>5 DEF BeginRebuild, RegisterRebuild, BeginEvict
  <2> QED BY <1>2, <2>1 DEF Invalidate
<1>6. CASE Crash
  <2>1. UNCHANGED clock /\ reader' = [r \in Reader |-> Idle]
    BY <1>6 DEF Crash
  <2> QED BY <1>1, <2>1, IdleMoves DEF ReadersMove
<1>7. CASE LoopNext /\ ~(BeginRebuild \/ RegisterRebuild \/ BeginEvict \/ Crash)
  <2>1. CASE \/ RefreshUnchanged \/ RebuildTables \/ RebuildFails \/ AdoptSchema \/ ReloadCoverage
             \/ ReloadFails \/ LoopEvicts \/ NothingToEvict \/ EvictWindow \/ EvictBytes
             \/ PurgeBytes \/ BudgetStillExceeded
    <3>1. UNCHANGED <<clock, reader>>
      BY <2>1 DEF RefreshUnchanged, RebuildTables, RebuildFails, AdoptSchema, ReloadCoverage,
         ReloadFails, LoopEvicts, NothingToEvict, EvictWindow, EvictBytes, PurgeBytes,
         BudgetStillExceeded
    <3> QED BY <1>2, <3>1
  <2>2. CASE \/ DropTransactions \/ DropBlocks \/ DropMarks \/ RaiseFloor \/ ForgetCoverage
             \/ DropFails \/ Evicted \/ NotEvicted \/ NoHoles \/ StartRound \/ SettleRound
    <3>1. UNCHANGED <<clock, reader>>
      BY <2>2 DEF DropTransactions, DropBlocks, DropMarks, RaiseFloor, ForgetCoverage,
         DropFails, Evicted, NotEvicted, NoHoles, StartRound, SettleRound
    <3> QED BY <1>2, <3>1
  <2> QED BY <1>7, <2>1, <2>2 DEF LoopNext
<1> QED BY <1>2, <1>3, <1>4, <1>5, <1>6, <1>7, ReaderStepMoves DEF Next

\* What becomes suspected was watched without its rows; what becomes watched was served.
SuspectsGrow == \A m \in Suspects' : m \in Suspects \/ (m \in Watched /\ ~Stored(m))

WatchedGrow == \A m \in Watched' : m \in Watched \/ (ready /\ m \in coverage)

\* The same, as a statement about the sets.
LEMMA SuspectsStep ==
  ASSUME TypeInv, ReadersMove, UNCHANGED scenario
  PROVE  SuspectsGrow /\ WatchedGrow
<1>1. Produced' = Produced
  BY DEF Produced
<1>2. WatchedGrow
  <2> SUFFICES ASSUME NEW m \in Watched' PROVE m \in Watched \/ (ready /\ m \in coverage)
    BY DEF WatchedGrow
  <2>1. PICK r \in Reader : reader'[r].kind \in BlockKind /\ m \in reader'[r].slots
    BY DEF Watched, BlockKind
  <2>2. Moves(reader[r], reader'[r]) /\ m \in Slot
    BY DEF ReadersMove, Watched, Slot
  <2> QED BY <2>1, <2>2 DEF Moves, Watched
<1>3. SuspectsGrow
  <2> SUFFICES ASSUME NEW m \in Suspects' PROVE m \in Suspects \/ (m \in Watched /\ ~Stored(m))
    BY DEF SuspectsGrow
  <2>1. PICK r \in Reader : Tainted(reader'[r]) /\ m \in reader'[r].slots
    BY DEF Suspects, Tainted, BlockKind, Poisoning
  <2>2. Moves(reader[r], reader'[r]) /\ m \in Produced
    BY <1>1 DEF ReadersMove, Suspects
  <2>3. reader[r].kind \in BlockKind /\ m \in reader[r].slots /\ (Tainted(reader[r]) \/ ~Stored(m))
    BY <2>1, <2>2 DEF Moves
  <2>4. m \in Slot
    BY <2>2, ScenarioFacts DEF TypeInv
  <2> QED BY <2>2, <2>3, <2>4 DEF Watched, Suspects
<1> QED BY <1>2, <1>3

-----------------------------------------------------------------------------
(***************************************************************************)
(* The kinds of steps, by what they do to the rows, the marks and the map. *)
(***************************************************************************)
\* Nothing of it; a map that was not reloaded yet stays so.
Quiet ==
  UNCHANGED <<txs, blocks, marks, coverage, fill>> /\ (loop.pc \in Loading => loop'.pc \in Loading)

\* A request takes suspected slots out of the map, or their marks away.
Poisons ==
  /\ UNCHANGED <<txs, blocks, fill, loop>>
  /\ coverage' \subseteq coverage /\ coverage \ Suspects \subseteq coverage'
  /\ \A s \in Slot : marks'[s] = marks[s] \/ (s \in Suspects /\ marks'[s].status = 0)

\* The tables are kept or made anew, and the map is still to be reloaded.
Reopens ==
  /\ loop'.pc \in Loading /\ \A f \in Fill : fill'[f] = NoFill
  /\ UNCHANGED <<txs, blocks, marks>> \/ (txs' = {} /\ blocks' = {} /\ marks' = Unmarked)

\* A fill that does not write marks or the map.
Stores(f) ==
  /\ UNCHANGED <<marks, coverage>>
  /\ txs \subseteq txs' /\ txs' \subseteq txs \cup fill[f].range
  /\ blocks \subseteq blocks' /\ blocks' \subseteq blocks \cup fill[f].range
  /\ \A g \in Fill : g # f => fill'[g] = fill[g]
  /\ \/ fill'[f] = NoFill
     \/ fill'[f].range = fill[f].range /\ fill'[f].publish = fill[f].publish

FillWrites(f) ==
  /\ loop.pc = "filling" /\ loop'.pc = "filling"
  /\ Stores(f) \/ StoreCoverage(f) \/ PublishCoverage(f)

\* An eviction drops partitions of one table.
Drops ==
  /\ loop.pc \in {"drop txs", "drop blocks", "drop marks"} /\ loop'.pc \in Dropping
  /\ UNCHANGED <<coverage, fill>> /\ loop'.floor = loop.floor
  /\ txs' \subseteq txs /\ blocks' \subseteq blocks
  /\ loop.pc = "drop marks" => loop'.pc = "floor" /\ UNCHANGED <<txs, blocks>>
  /\ loop.pc # "drop marks" => UNCHANGED marks
  /\ \A s \in Slot : (s \in txs \ txs' \/ s \in blocks \ blocks') => s < loop.floor
  /\ \A s \in Slot : marks'[s] = marks[s] \/ (s < loop.floor /\ marks'[s] = NoMark)

LoopWrites == Quiet \/ Reopens \/ StartRound \/ ReloadCoverage \/ Drops \/ ForgetCoverage

StepKind == LoopWrites \/ Poisons \/ \E f \in Fill : FillWrites(f)

\* What lies in a partition below the one of the floor lies below the floor.
LEMMA DroppedBelow ==
  ASSUME NEW s \in Nat, NEW floor \in Nat, Partition(s) < Partition(floor)
  PROVE  s < floor
<1>1. Width \in Nat \ {0}
  BY DiskCacheAssumption
<1> DEFINE p == s \div Width
           q == floor \div Width
<1>2. p \in Nat /\ q \in Nat /\ s < p * Width + Width /\ q * Width <= floor
  BY <1>1
<1>3. p < q
  BY DEF Partition
<1> HIDE DEF p, q
<1>4. (p + 1) * Width <= q * Width
  BY <1>1, <1>2, <1>3
<1>5. (p + 1) * Width = p * Width + Width /\ p * Width \in Nat /\ q * Width \in Nat
  BY <1>1, <1>2
<1> QED BY <1>1, <1>2, <1>4, <1>5

\* A step of a request changes the map and the marks only by poisoning what it suspects.
LEMMA PoisonKind ==
  ASSUME TypeInv, ReadersBound, NEW r \in Reader, ReaderNext(r)
  PROVE  Quiet \/ Poisons
<1>1. UNCHANGED <<txs, blocks, loop, fill>>
  BY ReaderFrame
<1>2. /\ UNCHANGED marks \/ StorePoison(r)
      /\ UNCHANGED coverage \/ PoisonCoverage(r)
  BY ReaderFrame
<1>3. ASSUME reader[r].pc \in {"remove", "mark"} PROVE reader[r].slots \subseteq Suspects
  <2>1. reader[r].kind \in BlockKind /\ reader[r].slots \subseteq Produced
    BY <1>3 DEF ReadersBound, ReaderBound, Poisoning
  <2>2. Tainted(reader[r])
    BY <1>3, <2>1 DEF Tainted, Poisoning
  <2> QED BY <2>1, <2>2 DEF Suspects
<1>4. CASE UNCHANGED <<marks, coverage>>
  BY <1>1, <1>4 DEF Quiet
<1>5. CASE PoisonCoverage(r)
  <2>1. coverage' = coverage \ reader[r].slots /\ UNCHANGED marks
    BY <1>5 DEF PoisonCoverage, stored
  <2>2. reader[r].slots \subseteq Suspects
    BY <1>3, <1>5 DEF PoisonCoverage
  <2> QED BY <1>1, <2>1, <2>2 DEF Poisons
<1>6. CASE StorePoison(r)
  <2>1. UNCHANGED coverage
    BY <1>6 DEF StorePoison, serving
  <2>2. reader[r].slots \subseteq Suspects
    BY <1>3, <1>6 DEF StorePoison
  <2>3. ASSUME NEW s \in Slot PROVE marks'[s] = marks[s] \/ (s \in Suspects /\ marks'[s].status = 0)
    <3>1. CASE UNCHANGED marks
      BY <3>1
    <3>2. CASE Mark(reader[r].slots, [q \in Slot |-> 0], reader[r].version)
      BY <2>2, <3>2 DEF Mark
    <3> QED BY <1>6, <3>1, <3>2 DEF StorePoison
  <2> QED BY <1>1, <2>1, <2>3 DEF Poisons
<1> QED BY <1>2, <1>4, <1>5, <1>6

\* A step of fill_range stores rows, stores marks or publishes, within a round.
LEMMA FillKind ==
  ASSUME TypeInv, FillsSane, NEW f \in Fill, FillNext(f)
  PROVE  FillWrites(f)
<1>1. LoopTyped /\ fill \in [Fill -> FillState]
  BY DEF TypeInv, FillTyped
<1>2. loop'.pc = loop.pc
  BY <1>1, FillFrame
<1>3. fill[f].pc # "idle"
  BY DEF FillNext, BeginFill, ForwardTransactions, ValidateCounts, ForwardBlocks, StampCoverage,
     StoreCoverage, PublishCoverage, FillFails, FillStep
<1>4. loop.pc = "filling"
  BY <1>3 DEF FillsSane
<1>5. CASE BeginFill(f) \/ ForwardTransactions(f) \/ ValidateCounts(f) \/ ForwardBlocks(f)
  <2>1. PICK pc : fill' = [fill EXCEPT ![f].pc = pc]
    BY <1>5 DEF BeginFill, ForwardTransactions, ValidateCounts, ForwardBlocks, FillStep
  <2>2. fill'[f].range = fill[f].range /\ fill'[f].publish = fill[f].publish
    BY <1>1, <2>1 DEF FillState
  <2>3. \A g \in Fill : g # f => fill'[g] = fill[g]
    BY <1>1, <2>1
  <2>4. UNCHANGED <<marks, coverage>>
    BY <1>5 DEF BeginFill, ForwardTransactions, ValidateCounts, ForwardBlocks, stored, serving
  <2>5. /\ txs \subseteq txs' /\ txs' \subseteq txs \cup fill[f].range
        /\ blocks \subseteq blocks' /\ blocks' \subseteq blocks \cup fill[f].range
    BY <1>5 DEF BeginFill, ForwardTransactions, ValidateCounts, ForwardBlocks, stored, serving
  <2> QED BY <1>2, <1>4, <2>2, <2>3, <2>4, <2>5 DEF FillWrites, Stores
<1>6. CASE StampCoverage(f)
  <2>1. fill' = [fill EXCEPT ![f].pc = "marks", ![f].version = clock + 1]
    BY <1>6 DEF StampCoverage
  <2>2. fill'[f].range = fill[f].range /\ fill'[f].publish = fill[f].publish
    BY <1>1, <2>1 DEF FillState
  <2>3. \A g \in Fill : g # f => fill'[g] = fill[g]
    BY <1>1, <2>1
  <2>4. UNCHANGED <<txs, blocks, marks, coverage>>
    BY <1>6 DEF StampCoverage, stored, serving
  <2> QED BY <1>2, <1>4, <2>2, <2>3, <2>4 DEF FillWrites, Stores
<1>7. CASE FillFails(f)
  <2>1. fill'[f] = NoFill /\ \A g \in Fill : g # f => fill'[g] = fill[g]
    BY <1>1, <1>7 DEF FillFails
  <2>2. UNCHANGED <<txs, blocks, marks, coverage>>
    BY <1>7 DEF FillFails, stored, serving
  <2> QED BY <1>2, <1>4, <2>1, <2>2 DEF FillWrites, Stores
<1> QED BY <1>2, <1>4, <1>5, <1>6, <1>7 DEF FillNext, FillWrites

\* An eviction drops whole partitions, and only below its floor.
LEMMA DropKind ==
  ASSUME TypeInv, DropTransactions \/ DropBlocks \/ DropMarks
  PROVE  Drops
<1>1. loop \in LoopState /\ MarksTrue
  BY DEF TypeInv, LoopTyped
<1>2. loop.floor \in Nat
  <2>1. loop.floor \in 0..(Last + Width)
    BY <1>1 DEF LoopState, Floor
  <2> QED BY <2>1
<1>3. ASSUME NEW s \in Slot, s \notin Kept(Slot) PROVE s < loop.floor
  <2>1. s \in Nat
    BY DiskCacheAssumption DEF Slot
  <2>2. ~(Partition(s) >= Partition(loop.floor))
    BY <1>3 DEF Kept
  <2>3. Partition(s) \in Int /\ Partition(loop.floor) \in Int
    BY <1>2, <2>1, DiskCacheAssumption DEF Partition
  <2>4. Partition(s) < Partition(loop.floor)
    BY <2>2, <2>3
  <2> QED BY <1>2, <2>1, <2>4, DroppedBelow
<1>4. \A S : \A s \in Slot : s \in S \ Kept(S) => s < loop.floor
  BY <1>3 DEF Kept
<1>5. \A S : Kept(S) \subseteq S
  BY DEF Kept
<1>6. CASE DropTransactions
  <2>1. /\ loop.pc = "drop txs" /\ txs' = Kept(txs) /\ UNCHANGED <<blocks, marks, coverage, fill>>
        /\ loop'.pc = "drop blocks" /\ loop'.floor = loop.floor
    BY <1>1, <1>6 DEF DropTransactions, Go, LoopState, serving
  <2> QED BY <1>4, <1>5, <2>1 DEF Drops, Dropping
<1>7. CASE DropBlocks
  <2>1. /\ loop.pc = "drop blocks" /\ blocks' = Kept(blocks)
        /\ UNCHANGED <<txs, marks, coverage, fill>>
        /\ loop'.pc = "drop marks" /\ loop'.floor = loop.floor
    BY <1>1, <1>7 DEF DropBlocks, Go, LoopState, serving
  <2> QED BY <1>4, <1>5, <2>1 DEF Drops, Dropping
<1>8. CASE DropMarks
  <2>1. /\ loop.pc = "drop marks" /\ UNCHANGED <<txs, blocks, coverage, fill>>
        /\ loop'.pc = "floor" /\ loop'.floor = loop.floor
    BY <1>1, <1>8 DEF DropMarks, Go, LoopState, serving
  <2>2. marks' = [s \in Slot |-> IF s \in Kept(Slot) THEN marks[s] ELSE NoMark]
    BY <1>8 DEF DropMarks
  <2>3. \A s \in Slot : marks'[s] = marks[s] \/ (s < loop.floor /\ marks'[s] = NoMark)
    BY <1>3, <2>2
  <2> QED BY <2>1, <2>3 DEF Drops, Dropping
<1> QED BY <1>6, <1>7, <1>8

\* The steps of the filler loop, when no byte budget evicts and no refresh fails.
LEMMA LoopKind ==
  ASSUME TypeInv, Uninterrupted, LoopSane, FillsSane, LoopNext
  PROVE  LoopWrites
<1>1. loop \in LoopState
  BY DEF TypeInv, LoopTyped
<1>2. "bytes" \notin Upkeep /\ "reload fails" \notin Upkeep /\ loop.budget = "met"
  BY DEF Uninterrupted, LoopSane
<1>3. ~RebuildFails /\ ~ReloadFails /\ ~EvictBytes /\ ~PurgeBytes /\ ~BudgetStillExceeded
  BY <1>2 DEF RebuildFails, ReloadFails, EvictBytes, PurgeBytes, BudgetStillExceeded
<1>4. CASE \/ RefreshUnchanged \/ BeginRebuild \/ RegisterRebuild \/ LoopEvicts
  <2>1. UNCHANGED <<txs, blocks, marks, coverage, fill>> /\ loop.pc \notin Loading
    BY <1>4 DEF RefreshUnchanged, BeginRebuild, RegisterRebuild, LoopEvicts, Loading, stored,
       serving
  <2> QED BY <2>1 DEF LoopWrites, Quiet
<1>5. CASE NothingToEvict \/ EvictWindow \/ BeginEvict \/ RaiseFloor \/ DropFails
  <2>1. UNCHANGED <<txs, blocks, marks, coverage, fill>> /\ loop.pc \notin Loading
    BY <1>5 DEF NothingToEvict, EvictWindow, BeginEvict, RaiseFloor, DropFails, Loading, stored,
       serving
  <2> QED BY <2>1 DEF LoopWrites, Quiet
<1>6. CASE Evicted \/ NotEvicted \/ NoHoles \/ SettleRound
  <2>1. UNCHANGED <<txs, blocks, marks, coverage, fill>> /\ loop.pc \notin Loading
    BY <1>6 DEF Evicted, NotEvicted, NoHoles, SettleRound, Loading, stored, serving
  <2> QED BY <2>1 DEF LoopWrites, Quiet
<1>7. CASE AdoptSchema
  <2>1. UNCHANGED <<txs, blocks, marks, coverage, fill>> /\ loop'.pc = "reload"
    BY <1>1, <1>7 DEF AdoptSchema, Go, LoopState, stored
  <2> QED BY <2>1 DEF LoopWrites, Quiet, Loading
<1>8. CASE RebuildTables
  <2>1. UNCHANGED fill /\ loop.pc = "wipe" /\ loop'.pc = "adopt"
    BY <1>1, <1>8 DEF RebuildTables, Go, LoopState
  <2>2. UNCHANGED <<txs, blocks, marks>> \/ (txs' = {} /\ blocks' = {} /\ marks' = Unmarked)
    BY <1>8 DEF RebuildTables
  <2>3. \A f \in Fill : fill[f] = NoFill
    BY <2>1 DEF FillsSane
  <2> QED BY <2>1, <2>2, <2>3 DEF LoopWrites, Reopens, Loading
<1>9. CASE Crash
  <2>1. fill' = [f \in Fill |-> NoFill] /\ loop'.pc = "reload"
    BY <1>9 DEF Crash, AtTop
  <2>2. UNCHANGED <<txs, blocks, marks>> \/ (txs' = {} /\ blocks' = {} /\ marks' = Unmarked)
    BY <1>9 DEF Crash
  <2> QED BY <2>1, <2>2 DEF LoopWrites, Reopens, Loading
<1>10. CASE DropTransactions \/ DropBlocks \/ DropMarks
  BY <1>10, DropKind DEF LoopWrites
<1>11. CASE StartRound \/ ReloadCoverage \/ ForgetCoverage
  BY <1>11 DEF LoopWrites
<1> QED BY <1>3, <1>4, <1>5, <1>6, <1>7, <1>8, <1>9, <1>10, <1>11 DEF LoopNext

\* Every step is of one of these kinds.
LEMMA StepKinds ==
  ASSUME TypeInv, Uninterrupted, LoopSane, FillsSane, ReadersBound, [Next]_vars
  PROVE  StepKind
<1>1. CASE SourceAdvances \/ SchemaChanges \/ UNCHANGED vars
  <2>1. UNCHANGED <<txs, blocks, marks, coverage, fill, loop>>
    BY <1>1 DEF SourceAdvances, SchemaChanges, vars, stored, serving
  <2> QED BY <2>1 DEF StepKind, LoopWrites, Quiet
<1> QED BY <1>1, LoopKind, FillKind, PoisonKind DEF Next, StepKind, LoopWrites

-----------------------------------------------------------------------------
(***************************************************************************)
(* What the kinds of steps have in common.                                 *)
(***************************************************************************)
NothingHeld == \A s \in Slot : ~Held(s) /\ ~Publishing(s)

\* Rows come only from fills.
RowsGrow == \A m \in Slot : ~Stored(m) /\ ~InRange(m) => ~Stored(m)'

\* They go with everything that is held, or below the floor of an eviction.
RowsLost ==
  \A m \in Slot : Stored(m) /\ ~Stored(m)' =>
    NothingHeld' \/ (loop.pc \in {"drop txs", "drop blocks"} /\ m < loop.floor)

HeldGrow == \A s \in Slot : Held(s)' => Held(s) \/ (Publishing(s) /\ Stored(s)')

PublishingGrow == \A s \in Slot : Publishing(s)' => Publishing(s) \/ s >= tip - (Retain - 1)

RangesGrow == \A s \in Slot : InRange(s)' => InRange(s) \/ s >= tip - (Retain - 1)

MarksLost ==
  \A m \in Slot : Marked(m) /\ ~Marked(m)' =>
    \/ NothingHeld' \/ m \in Suspects
    \/ loop.pc = "drop marks" /\ m < loop.floor /\ loop'.pc = "floor" /\ loop'.floor = loop.floor

LiveLost ==
  \A m \in Slot : Marked(m) /\ (Live(m) \/ loop.pc \in Loading) =>
    \/ Live(m)' \/ loop'.pc \in Loading \/ m \in Suspects
    \/ loop.pc = "forget" /\ m < loop.floor

LiveGrow ==
  \A s \in Slot : Live(s)' =>
    \/ Live(s) \/ Marked(s)'
    \/ \E f \in Fill : fill[f].pc = "publish" /\ s \in fill[f].publish /\ UNCHANGED marks

Shape == /\ RowsGrow /\ RowsLost /\ HeldGrow /\ PublishingGrow /\ RangesGrow
         /\ MarksLost /\ LiveLost /\ LiveGrow

\* A quiet step.
LEMMA QuietShape ==
  ASSUME TypeInv, UNCHANGED scenario, Quiet
  PROVE  Shape
<1>1. /\ UNCHANGED <<txs, blocks, marks, coverage, fill, scenario>>
      /\ loop.pc \in Loading => loop'.pc \in Loading
  BY DEF Quiet
<1>2. \A s \in Slot : /\ Stored(s)' = Stored(s) /\ Marked(s)' = Marked(s)
                      /\ Publishing(s)' = Publishing(s) /\ InRange(s)' = InRange(s)
  BY <1>1 DEF Stored, Produced, Marked, Publishing, InRange
<1>3. \A s \in Slot : Live(s)' => Live(s)
  BY <1>1 DEF Live
<1>4. \A s \in Slot : Live(s) => Live(s)' \/ loop'.pc \in Loading
  BY <1>1 DEF Live
<1> QED BY <1>1, <1>2, <1>3, <1>4 DEF Shape, RowsGrow, RowsLost, HeldGrow, PublishingGrow,
         RangesGrow,
         MarksLost, LiveLost, LiveGrow, Held

\* A poison.
LEMMA PoisonShape ==
  ASSUME TypeInv, UNCHANGED scenario, Poisons
  PROVE  Shape
<1>1. /\ UNCHANGED <<txs, blocks, loop, fill, scenario>> /\ coverage' \subseteq coverage
      /\ coverage \ Suspects \subseteq coverage'
      /\ \A s \in Slot : marks'[s] = marks[s] \/ (s \in Suspects /\ marks'[s].status = 0)
  BY DEF Poisons
<1>2. \A s \in Slot : /\ Stored(s)' = Stored(s) /\ Publishing(s)' = Publishing(s)
                      /\ InRange(s)' = InRange(s)
  BY <1>1 DEF Stored, Produced, Publishing, InRange
<1>3. \A s \in Slot : (Marked(s)' => Marked(s)) /\ (Marked(s) => Marked(s)' \/ s \in Suspects)
  BY <1>1 DEF Marked
<1>4. \A s \in Slot : (Live(s)' => Live(s)) /\ (Live(s) => Live(s)' \/ s \in Suspects)
  BY <1>1 DEF Live
<1> QED BY <1>1, <1>2, <1>3, <1>4 DEF Shape, RowsGrow, RowsLost, HeldGrow, PublishingGrow,
         RangesGrow,
         MarksLost, LiveLost, LiveGrow, Held

\* A rebuild of the tables, or a restart.
LEMMA ReopenShape ==
  ASSUME TypeInv, UNCHANGED scenario, Reopens
  PROVE  Shape
<1>1. loop'.pc \in Loading /\ \A f \in Fill : fill'[f] = NoFill
  BY DEF Reopens
<1>2. \A s \in Slot : ~Publishing(s)' /\ ~InRange(s)' /\ ~Live(s)'
  BY <1>1 DEF Publishing, InRange, Live, NoFill, Loading
<1>3. CASE UNCHANGED <<txs, blocks, marks>>
  <2>1. \A s \in Slot : Stored(s)' = Stored(s) /\ Marked(s)' = Marked(s)
    BY <1>3 DEF Stored, Produced, Marked
  <2> QED BY <1>1, <1>2, <2>1 DEF Shape, RowsGrow, RowsLost, HeldGrow, PublishingGrow, RangesGrow,
           MarksLost, LiveLost, LiveGrow, Held
<1>4. CASE txs' = {} /\ blocks' = {} /\ marks' = Unmarked
  <2>1. \A s \in Slot : (Stored(s)' => Stored(s)) /\ ~Marked(s)'
    BY <1>4 DEF Stored, Produced, Marked, Unmarked, NoMark
  <2>2. NothingHeld'
    BY <1>2, <2>1 DEF NothingHeld, Held, Slot
  <2> QED BY <1>1, <1>2, <2>1, <2>2 DEF Shape, RowsGrow, RowsLost, HeldGrow, PublishingGrow,
           RangesGrow, MarksLost, LiveLost, LiveGrow, Held
<1> QED BY <1>3, <1>4 DEF Reopens

\* An eviction that drops partitions.
LEMMA DropShape ==
  ASSUME TypeInv, UNCHANGED scenario, Drops
  PROVE  Shape
<1>1. /\ loop.pc \in {"drop txs", "drop blocks", "drop marks"} /\ loop'.pc \in Dropping
      /\ UNCHANGED <<coverage, fill>> /\ loop'.floor = loop.floor
      /\ txs' \subseteq txs /\ blocks' \subseteq blocks
      /\ loop.pc = "drop marks" => loop'.pc = "floor" /\ UNCHANGED <<txs, blocks>>
      /\ loop.pc # "drop marks" => UNCHANGED marks
      /\ \A s \in Slot : (s \in txs \ txs' \/ s \in blocks \ blocks') => s < loop.floor
      /\ \A s \in Slot : marks'[s] = marks[s] \/ (s < loop.floor /\ marks'[s] = NoMark)
  BY DEF Drops
<1>2. \A s \in Slot : Publishing(s)' = Publishing(s) /\ InRange(s)' = InRange(s)
  BY <1>1 DEF Publishing, InRange
<1>3. \A s \in Slot : /\ Stored(s)' => Stored(s)
                      /\ Stored(s) => Stored(s)' \/ (loop.pc # "drop marks" /\ s < loop.floor)
  BY <1>1 DEF Stored, Produced
<1>4. \A s \in Slot : /\ Marked(s)' => Marked(s)
                      /\ Marked(s) => Marked(s)' \/ (loop.pc = "drop marks" /\ s < loop.floor)
  <2> SUFFICES ASSUME NEW s \in Slot
               PROVE  /\ Marked(s)' => Marked(s)
                      /\ Marked(s) => Marked(s)' \/ (loop.pc = "drop marks" /\ s < loop.floor)
    OBVIOUS
  <2>1. CASE marks'[s] = marks[s]
    BY <2>1 DEF Marked
  <2>2. CASE marks'[s] # marks[s]
    <3>1. loop.pc # "drop marks" => marks' = marks
      BY DEF Drops
    <3>2. s < loop.floor /\ marks'[s] = NoMark
      BY <2>2 DEF Drops
    <3>3. loop.pc = "drop marks"
      BY <2>2, <3>1
    <3>4. ~Marked(s)'
      BY <3>2 DEF Marked, NoMark
    <3> QED BY <3>2, <3>3, <3>4
  <2> QED BY <2>1, <2>2
<1>5. \A s \in Slot : Live(s)' = Live(s)
  BY <1>1 DEF Live, Loading, Dropping
<1>6. RowsLost /\ MarksLost
  BY <1>1, <1>3, <1>4 DEF RowsLost, MarksLost
<1> QED BY <1>1, <1>2, <1>3, <1>4, <1>5, <1>6 DEF Shape, RowsGrow, HeldGrow, PublishingGrow,
         RangesGrow, LiveLost, LiveGrow, Held, Loading

\* An eviction that forgets coverage.
LEMMA ForgetShape ==
  ASSUME TypeInv, UNCHANGED scenario, ForgetCoverage
  PROVE  Shape
<1>1. loop \in LoopState
  BY DEF TypeInv, LoopTyped
<1>2. /\ loop.pc = "forget" /\ coverage' = {s \in coverage : s >= loop.floor}
      /\ loop'.pc = "evicted" /\ UNCHANGED <<txs, blocks, marks, fill>>
  BY <1>1 DEF ForgetCoverage, Go, LoopState, stored
<1>3. loop.floor \in Int /\ Slot \subseteq Int
  <2>1. loop.floor \in 0..(Last + Width)
    BY <1>1 DEF LoopState, Floor
  <2> QED BY <2>1 DEF Slot
<1>4. \A s \in Slot : /\ Stored(s)' = Stored(s) /\ Marked(s)' = Marked(s)
                      /\ Publishing(s)' = Publishing(s) /\ InRange(s)' = InRange(s)
  BY <1>2 DEF Stored, Produced, Marked, Publishing, InRange
<1>5. \A s \in Slot : Live(s)' => Live(s)
  BY <1>2 DEF Live, Loading
<1>6. \A s \in Slot : Live(s) => Live(s)' \/ s < loop.floor
  BY <1>2, <1>3 DEF Live, Loading
<1> QED BY <1>2, <1>4, <1>5, <1>6 DEF Shape, RowsGrow, RowsLost, HeldGrow, PublishingGrow,
         RangesGrow,
         MarksLost, LiveLost, LiveGrow, Held, Loading

\* A reload of the map from the marks.
LEMMA ReloadShape ==
  ASSUME TypeInv, UNCHANGED scenario, ReloadCoverage
  PROVE  Shape
<1>1. loop \in LoopState
  BY DEF TypeInv, LoopTyped
<1>2. /\ loop.pc = "reload" /\ coverage' = {s \in Slot : Marked(s)}
      /\ loop'.pc = "evict" /\ UNCHANGED <<txs, blocks, marks, fill>>
  BY <1>1 DEF ReloadCoverage, CallEvict, LoopState, stored
<1>3. \A s \in Slot : /\ Stored(s)' = Stored(s) /\ Marked(s)' = Marked(s)
                      /\ Publishing(s)' = Publishing(s) /\ InRange(s)' = InRange(s)
  BY <1>2 DEF Stored, Produced, Marked, Publishing, InRange
<1>4. \A s \in Slot : Live(s)' = Marked(s)
  BY <1>2 DEF Live, Loading, Marked
<1> QED BY <1>2, <1>3, <1>4 DEF Shape, RowsGrow, RowsLost, HeldGrow, PublishingGrow, RangesGrow,
         MarksLost, LiveLost, LiveGrow, Held, Loading

\* A round is planned inside the window of the tip.
LEMMA WindowRange ==
  ASSUME TypeInv, NEW lo \in Window, NEW hi \in Window, NEW s \in lo..hi
  PROVE  s \in Slot /\ s <= tip /\ s >= tip - (Retain - 1)
<1>1. tip \in Known /\ SourceTyped
  BY DEF TypeInv, SourceTyped
<1>2. tip \in Nat /\ tip <= MaxSlot /\ MaxSlot \in Nat /\ Retain \in Nat \ {0}
  BY <1>1, ScenarioFacts DEF Slot
<1> DEFINE w == Max({0, tip - (Retain - 1)})
<1>3. w \in Int /\ w >= 0 /\ w >= tip - (Retain - 1)
  <2>1. tip - (Retain - 1) \in Int
    BY <1>2
  <2> QED BY <2>1, FloorOfTwo
<1>4. lo \in w..tip /\ hi \in w..tip
  BY DEF Window
<1> HIDE DEF w
<1> QED BY <1>2, <1>3, <1>4 DEF Slot

\* What the filler plans: disjoint uncovered ranges inside the window.
LEMMA RoundPlan ==
  ASSUME TypeInv, StartRound
  PROVE  \E plan :
           /\ \A f \in Fill : fill'[f] = IF plan[f] = {} THEN NoFill
                ELSE [pc |-> "begin", range |-> plan[f], publish |-> Provable(plan[f]), version |-> 0]
           /\ \A f \in Fill : plan[f] \cap coverage = {}
           /\ \A f, g \in Fill : f # g => plan[f] \cap plan[g] = {}
           /\ \A f \in Fill : \A s \in plan[f] : s \in Slot /\ s <= tip /\ s >= tip - (Retain - 1)
<1>1. PICK plan \in PlannedRounds :
        fill' = [f \in Fill |-> IF plan[f] = {} THEN NoFill
                  ELSE [pc |-> "begin", range |-> plan[f], publish |-> Provable(plan[f]),
                        version |-> 0]]
  BY DEF StartRound
<1>2. plan \in [Fill -> {lo..hi : lo, hi \in Window}]
  BY DEF PlannedRounds
<1>3. \A f \in Fill : plan[f] \cap coverage = {}
  BY DEF PlannedRounds
<1>4. \A f, g \in Fill : f # g => plan[f] \cap plan[g] = {}
  BY DEF PlannedRounds
<1>5. ASSUME NEW f \in Fill, NEW s \in plan[f]
      PROVE  s \in Slot /\ s <= tip /\ s >= tip - (Retain - 1)
  <2>1. PICK lo \in Window, hi \in Window : plan[f] = lo..hi
    BY <1>2
  <2> QED BY <2>1, WindowRange
<1> QED BY <1>1, <1>3, <1>4, <1>5

\* The start of a round.
LEMMA RoundShape ==
  ASSUME TypeInv, UNCHANGED scenario, StartRound
  PROVE  Shape
<1>1. loop \in LoopState
  BY DEF TypeInv, LoopTyped
<1>2. loop.pc = "plan" /\ loop'.pc = "filling" /\ UNCHANGED <<txs, blocks, marks, coverage>>
  BY <1>1 DEF StartRound, Go, LoopState, stored, serving
<1>3. \A s \in Slot : /\ Stored(s)' = Stored(s) /\ Marked(s)' = Marked(s) /\ Live(s)' = Live(s)
  BY <1>2 DEF Stored, Produced, Marked, Live, Loading
<1>4. ASSUME NEW f \in Fill, NEW s, s \in fill'[f].range \/ s \in fill'[f].publish
      PROVE  s >= tip - (Retain - 1)
  <2>1. PICK plan :
           /\ \A g \in Fill : fill'[g] = IF plan[g] = {} THEN NoFill
                ELSE [pc |-> "begin", range |-> plan[g], publish |-> Provable(plan[g]), version |-> 0]
           /\ \A g \in Fill : \A q \in plan[g] : q >= tip - (Retain - 1)
    BY RoundPlan
  <2>2. CASE plan[f] = {}
    <3>1. fill'[f] = NoFill
      BY <2>1, <2>2, Zenon
    <3> QED BY <1>4, <3>1 DEF NoFill
  <2>3. CASE plan[f] # {}
    <3>1. fill'[f] = [pc |-> "begin", range |-> plan[f], publish |-> Provable(plan[f]),
                      version |-> 0]
      BY <2>1, <2>3, Zenon
    <3>2. s \in plan[f]
      BY <1>4, <3>1 DEF Provable
    <3> QED BY <2>1, <3>2
  <2> QED BY <2>2, <2>3
<1>5. PublishingGrow /\ RangesGrow
  BY <1>4 DEF PublishingGrow, RangesGrow, Publishing, InRange
<1> QED BY <1>2, <1>3, <1>5 DEF Shape, RowsGrow, RowsLost, HeldGrow, MarksLost, LiveLost,
         LiveGrow,
         Held, Loading

\* A step of a fill.
LEMMA FillShape ==
  ASSUME TypeInv, FillsSane, UNCHANGED scenario, NEW f \in Fill, FillWrites(f)
  PROVE  Shape
<1>1. /\ loop.pc \notin Loading /\ loop'.pc \notin Loading
      /\ loop.pc \notin {"drop txs", "drop blocks", "drop marks", "forget"}
  BY DEF FillWrites, Loading
<1>2. fill \in [Fill -> FillState] /\ MarksTrue
  BY DEF TypeInv, FillTyped
<1>3. fill[f].publish \subseteq fill[f].range
  BY DEF FillsSane, FillKeeps
<1>4. CASE Stores(f)
  <2>1. /\ UNCHANGED <<marks, coverage>>
        /\ txs \subseteq txs' /\ txs' \subseteq txs \cup fill[f].range
        /\ blocks \subseteq blocks' /\ blocks' \subseteq blocks \cup fill[f].range
    BY <1>4 DEF Stores
  <2>2. \A g \in Fill : /\ fill'[g].range \subseteq fill[g].range
                        /\ fill'[g].publish \subseteq fill[g].publish
    BY <1>4 DEF Stores, NoFill
  <2>3. \A s \in Slot : (Publishing(s)' => Publishing(s)) /\ (InRange(s)' => InRange(s))
    BY <2>2 DEF Publishing, InRange
  <2>4. \A s \in Slot : (Stored(s) => Stored(s)') /\ (Stored(s)' => Stored(s) \/ InRange(s))
    BY <2>1 DEF Stored, Produced, InRange
  <2>5. \A s \in Slot : Marked(s)' = Marked(s) /\ Live(s)' = Live(s)
    BY <1>1, <2>1 DEF Marked, Live
  <2> QED BY <1>1, <2>3, <2>4, <2>5 DEF Shape, RowsGrow, RowsLost, HeldGrow, PublishingGrow,
           RangesGrow, MarksLost, LiveLost, LiveGrow, Held
<1>5. CASE StoreCoverage(f)
  <2>1. /\ UNCHANGED <<txs, blocks, coverage>> /\ fill[f].pc = "marks"
        /\ fill' = [fill EXCEPT ![f].pc = "publish"]
        /\ Mark(fill[f].publish, [s \in Slot |-> IF s \in Produced THEN 1 ELSE 2], fill[f].version)
    BY <1>5 DEF StoreCoverage, FillStep, serving
  <2>2. \A g \in Fill : fill'[g].range = fill[g].range /\ fill'[g].publish = fill[g].publish
    BY <1>2, <2>1 DEF FillState
  <2>3. \A s \in Slot : Publishing(s)' = Publishing(s) /\ InRange(s)' = InRange(s)
    BY <2>2 DEF Publishing, InRange
  <2>4. \A s \in Slot : Stored(s)' = Stored(s) /\ Live(s)' = Live(s)
    BY <1>1, <2>1 DEF Stored, Produced, Live
  <2>5. \A s \in fill[f].publish : Stored(s)
    BY <1>3, <2>1 DEF FillsSane, FillKeeps, Stored
  <2>6. \A s \in Slot : /\ Marked(s) => Marked(s)'
                        /\ Marked(s)' => Marked(s) \/ s \in fill[f].publish
    <3> SUFFICES ASSUME NEW s \in Slot
                 PROVE  /\ Marked(s) => Marked(s)'
                        /\ Marked(s)' => Marked(s) \/ s \in fill[f].publish
      OBVIOUS
    <3>1. CASE marks'[s] = marks[s]
      BY <3>1 DEF Marked
    <3>2. CASE marks'[s] # marks[s]
      <4>1. s \in fill[f].publish /\ marks'[s].status = IF s \in Produced THEN 1 ELSE 2
        BY <2>1, <3>2 DEF Mark
      <4> QED BY <4>1 DEF Marked
    <3> QED BY <3>1, <3>2
  <2>7. \A s \in Slot : s \in fill[f].publish => Publishing(s)
    BY DEF Publishing
  <2> QED BY <1>1, <2>3, <2>4, <2>5, <2>6, <2>7 DEF Shape, RowsGrow, RowsLost, HeldGrow,
           PublishingGrow, RangesGrow, MarksLost, LiveLost, LiveGrow, Held
<1>6. CASE PublishCoverage(f)
  <2>1. /\ UNCHANGED <<txs, blocks, marks>> /\ fill[f].pc = "publish"
        /\ coverage' = coverage \cup fill[f].publish /\ fill' = [fill EXCEPT ![f] = NoFill]
    BY <1>6 DEF PublishCoverage, stored
  <2>2. \A g \in Fill : /\ fill'[g].range \subseteq fill[g].range
                        /\ fill'[g].publish \subseteq fill[g].publish
    BY <1>2, <2>1 DEF NoFill
  <2>3. \A s \in Slot : (Publishing(s)' => Publishing(s)) /\ (InRange(s)' => InRange(s))
    BY <2>2 DEF Publishing, InRange
  <2>4. \A s \in Slot : Stored(s)' = Stored(s) /\ Marked(s)' = Marked(s)
    BY <2>1 DEF Stored, Produced, Marked
  <2>5. \A s \in fill[f].publish : Stored(s)
    BY <1>3, <2>1 DEF FillsSane, FillKeeps, Stored
  <2>6. \A s \in Slot : (Live(s) => Live(s)') /\ (Live(s)' => Live(s) \/ s \in fill[f].publish)
    BY <1>1, <2>1 DEF Live
  <2>7. \A s \in Slot : s \in fill[f].publish => Publishing(s)
    BY DEF Publishing
  <2>8. LiveGrow
    BY <2>1, <2>6 DEF LiveGrow
  <2> QED BY <1>1, <2>3, <2>4, <2>5, <2>6, <2>7, <2>8 DEF Shape, RowsGrow, RowsLost, HeldGrow,
           PublishingGrow, RangesGrow, MarksLost, LiveLost, Held
<1> QED BY <1>4, <1>5, <1>6 DEF FillWrites

\* Every step.
LEMMA StepShape ==
  ASSUME TypeInv, Uninterrupted, LoopSane, FillsSane, ReadersBound, [Next]_vars
  PROVE  Shape
<1>1. StepKind /\ UNCHANGED scenario
  BY StepKinds, ScenarioFixed
<1> QED BY <1>1, QuietShape, PoisonShape, ReopenShape, DropShape, ForgetShape, ReloadShape,
         RoundShape, FillShape DEF StepKind, LoopWrites

-----------------------------------------------------------------------------
(***************************************************************************)
(* What stays true of a slot.                                              *)
(***************************************************************************)
LEMMA Numbers ==
  ASSUME TypeInv
  PROVE  /\ tip \in Nat /\ Retain \in Nat \ {0} /\ Slot \subseteq Nat /\ coverage \subseteq Slot
         /\ loop.floor \in Nat /\ minRetained \in Nat /\ Produced \subseteq Slot /\ clock \in Nat
         /\ loop \in LoopState /\ ready \in BOOLEAN
<1>1. SourceTyped /\ ServingTyped /\ loop \in LoopState
  BY DEF TypeInv, LoopTyped
<1>2. /\ Last \in Nat /\ Width \in Nat /\ Known \subseteq Slot /\ Known \subseteq Nat
      /\ Produced \subseteq Slot /\ Retain \in Nat \ {0}
  BY <1>1, ScenarioFacts
<1>3. tip \in Nat /\ coverage \subseteq Slot /\ clock \in Nat /\ ready \in BOOLEAN
  BY <1>1, <1>2 DEF SourceTyped, ServingTyped
<1>4. loop.floor \in Nat /\ minRetained \in Nat
  <2>1. loop.floor \in 0..(Last + Width) /\ minRetained \in 0..(Last + Width)
    BY <1>1 DEF ServingTyped, LoopState, Floor
  <2> QED BY <1>2, <2>1
<1>5. Slot \subseteq Nat
  BY DEF Slot
<1> QED BY <1>1, <1>2, <1>3, <1>4, <1>5

\* The source never goes back.
LEMMA TipStep ==
  ASSUME [Next]_vars, tip \in Nat
  PROVE  tip' \in Nat /\ tip' >= tip
<1>1. CASE SourceAdvances
  BY <1>1 DEF SourceAdvances
<1>2. CASE SchemaChanges \/ UNCHANGED vars
  BY <1>2 DEF SchemaChanges, vars, source
<1>3. ASSUME NEW f \in Fill, FillNext(f) PROVE UNCHANGED tip
  BY <1>3 DEF FillNext, BeginFill, ForwardTransactions, ValidateCounts, ForwardBlocks,
     StampCoverage, StoreCoverage, PublishCoverage, FillFails, source
<1>4. ASSUME NEW r \in Reader, ReaderNext(r) PROVE UNCHANGED tip
  BY <1>4, ReaderFrame DEF source
<1>5. CASE \/ RefreshUnchanged \/ BeginRebuild \/ RegisterRebuild \/ RebuildTables \/ RebuildFails
           \/ AdoptSchema \/ ReloadCoverage \/ ReloadFails \/ LoopEvicts \/ NothingToEvict
           \/ EvictWindow \/ EvictBytes \/ PurgeBytes \/ BudgetStillExceeded
  <2>1. UNCHANGED tip
    BY <1>5 DEF RefreshUnchanged, BeginRebuild, RegisterRebuild, RebuildTables, RebuildFails,
       AdoptSchema, ReloadCoverage, ReloadFails, LoopEvicts, NothingToEvict, EvictWindow,
       EvictBytes, PurgeBytes, BudgetStillExceeded, source
  <2> QED BY <2>1
<1>6. CASE \/ BeginEvict \/ DropTransactions \/ DropBlocks \/ DropMarks \/ RaiseFloor
           \/ ForgetCoverage \/ DropFails \/ Evicted \/ NotEvicted \/ NoHoles \/ StartRound
           \/ SettleRound \/ Crash
  <2>1. UNCHANGED tip
    BY <1>6 DEF BeginEvict, DropTransactions, DropBlocks, DropMarks, RaiseFloor, ForgetCoverage,
       DropFails, Evicted, NotEvicted, NoHoles, StartRound, SettleRound, Crash, source
  <2> QED BY <2>1
<1> QED BY <1>1, <1>2, <1>3, <1>4, <1>5, <1>6 DEF Next, LoopNext

\* What the lemmas below take from a step.
GoodStep ==
  /\ TypeInv /\ TypeInv' /\ UNCHANGED scenario /\ tip' >= tip
  /\ ReadersMove /\ SuspectsGrow /\ WatchedGrow /\ Shape

\* Every step of an uninterrupted cache is a good one.
LEMMA GoodSteps ==
  ASSUME TypeInv, BlockReadsTrue, Uninterrupted, LoopSane, FillsSane, ReadersBound, [Next]_vars
  PROVE  GoodStep
<1>1. TypeInv' /\ UNCHANGED scenario /\ tip' >= tip
  BY TypeStep, ScenarioFixed, TipStep, Numbers
<1>2. ReadersMove
  BY ReadersMoveStep
<1> QED BY <1>1, <1>2, SuspectsStep, StepShape DEF GoodStep

\* Young slots stay young: what is held later is held now or lies in a later window.
LEMMA YoungStable ==
  ASSUME GoodStep, NEW m \in Slot, m <= tip, Young(m)
  PROVE  Young(m)'
<1>1. TypeInv /\ UNCHANGED scenario /\ HeldGrow /\ PublishingGrow
  BY DEF GoodStep, Shape
<1>2. Retain' = Retain /\ Retain \in Nat /\ tip \in Nat /\ Slot \subseteq Nat
  BY <1>1, Numbers DEF Retain
<1> SUFFICES ASSUME NEW s \in Slot, Held(s)' \/ Publishing(s)' PROVE m - (Retain - 1) <= s
  BY <1>2 DEF Young, Slot
<1>3. Held(s) \/ Publishing(s) \/ s >= tip - (Retain - 1)
  BY <1>1 DEF HeldGrow, PublishingGrow
<1>4. Held(s) \/ Publishing(s) => m - (Retain - 1) <= s
  BY DEF Young
<1> QED BY <1>2, <1>3, <1>4

\* A slot below the window stays below it when the tip moves up.
LEMMA WindowMovesUp ==
  ASSUME NEW m \in Nat, NEW t \in Nat, NEW u \in Nat, u >= t, NEW k \in Nat, m < t - (k - 1)
  PROVE  m < u - (k - 1)
  OBVIOUS

\* A slot that is gone stays gone: no later round reaches back to it.
LEMMA GoneStable ==
  ASSUME GoodStep, NEW m \in Slot, Gone(m)
  PROVE  Gone(m)'
<1>1. TypeInv /\ TypeInv' /\ UNCHANGED scenario /\ tip' >= tip /\ RowsGrow /\ RangesGrow
  BY DEF GoodStep, Shape
<1>2. Retain' = Retain /\ Retain \in Nat /\ tip \in Nat /\ Slot \subseteq Nat
  BY <1>1, Numbers DEF Retain
<1>3. tip' \in Nat
  BY <1>1 DEF TypeInv, SourceTyped, Known
<1>4. ~Stored(m) /\ m < tip - (Retain - 1) /\ ~InRange(m)
  BY DEF Gone
<1>5. ~Stored(m)' /\ ~InRange(m)'
  BY <1>1, <1>2, <1>4 DEF RowsGrow, RangesGrow
<1>6. m < tip' - (Retain' - 1)
  <2>1. m \in Nat /\ tip' >= tip
    BY <1>1, <1>2
  <2>2. m < tip' - (Retain - 1)
    BY <1>2, <1>3, <1>4, <2>1, WindowMovesUp
  <2> QED BY <1>2, <2>2
<1> QED BY <1>5, <1>6 DEF Gone

\* A firm slot at or above the floor of an eviction stays firm, or the cache is emptied.
LEMMA FirmStable ==
  ASSUME GoodStep, NEW m \in Slot, Firm(m), ~NothingHeld', loop.pc \in Dropping => m >= loop.floor
  PROVE  Firm(m)'
<1>1. TypeInv /\ RowsLost /\ MarksLost /\ LiveLost /\ SuspectsGrow
  BY DEF GoodStep, Shape
<1>2. loop.floor \in Nat /\ m \in Nat
  BY <1>1, Numbers
<1>3. Stored(m) /\ Marked(m) /\ (Live(m) \/ loop.pc \in Loading) /\ m \notin Suspects
  BY DEF Firm
<1>4. ASSUME loop.pc \in {"drop txs", "drop blocks", "drop marks", "forget"}
      PROVE  ~(m < loop.floor)
  <2>1. m >= loop.floor
    BY <1>4 DEF Dropping
  <2> QED BY <1>2, <2>1
<1>5. Stored(m)'
  BY <1>1, <1>3, <1>4 DEF RowsLost
<1>6. Marked(m)'
  BY <1>1, <1>3, <1>4 DEF MarksLost
<1>7. Live(m)' \/ loop'.pc \in Loading
  BY <1>1, <1>3, <1>4 DEF LiveLost
<1>8. m \notin Suspects'
  BY <1>1, <1>3 DEF SuspectsGrow
<1> QED BY <1>5, <1>6, <1>7, <1>8 DEF Firm, Loading

\* A covered slot without rows is far below the tip.
LEMMA LostIsGone ==
  ASSUME TypeInv, LostDoomed, FillsSane, SeenUpToTip, NEW m \in Slot, Live(m), ~Stored(m)
  PROVE  Gone(m)
<1>1. Retain \in Nat /\ tip \in Nat /\ Slot \subseteq Nat
  BY Numbers
<1>2. PICK k \in Slot : Firm(k) /\ k >= m + Retain
  BY DEF LostDoomed, Held
<1>3. k <= tip
  BY <1>2 DEF Firm, SeenUpToTip
<1>4. ~InRange(m)
  BY DEF InRange, FillsSane, Live
<1>5. m < tip - (Retain - 1)
  BY <1>1, <1>2, <1>3
<1> QED BY <1>4, <1>5 DEF Gone

\* A request that meets a covered slot without rows meets one that has left the window, or
\* one at the lower end of a cache that starts over.
LEMMA ExplainedStep ==
  ASSUME GoodStep, Explained, LostDoomed, LoopSane, FillsSane, FloorSane, SeenUpToTip,
         ReadersBound
  PROVE  Explained'
<1>1. TypeInv /\ TypeInv' /\ UNCHANGED scenario /\ SuspectsGrow /\ WatchedGrow /\ RowsLost /\ RangesGrow
  BY DEF GoodStep, Shape
<1>2. Produced' = Produced /\ Produced \subseteq Slot /\ Slot \subseteq Nat /\ tip \in Nat
  BY <1>1, Numbers DEF Produced
<1>3. ASSUME NEW m \in Slot, m <= tip, Gone(m) \/ Young(m) PROVE (Gone(m) \/ Young(m))'
  BY <1>3, YoungStable, GoneStable
<1>4. \A m \in Watched \cup coverage : m \in Slot /\ m <= tip
  <2>1. \A m \in coverage : m \in Slot /\ m <= tip
    BY <1>1, Numbers DEF SeenUpToTip
  <2>2. ASSUME NEW m \in Watched PROVE m \in Slot /\ m <= tip
    <3>1. PICK r \in Reader : reader[r].kind \in BlockKind /\ m \in reader[r].slots
      BY DEF Watched
    <3>2. ReaderBound(reader[r])
      BY DEF ReadersBound
    <3>3. m \in 0..tip
      BY <3>1, <3>2 DEF ReaderBound
    <3> QED BY <1>2, <3>3 DEF Watched
  <2> QED BY <2>1, <2>2
<1>5. Suspects \subseteq Watched
  <2> SUFFICES ASSUME NEW m \in Suspects PROVE m \in Watched
    OBVIOUS
  <2>1. PICK r \in Reader : Tainted(reader[r]) /\ m \in reader[r].slots
    BY DEF Suspects
  <2>2. m \in Slot
    BY <1>2 DEF Suspects
  <2> QED BY <2>1, <2>2 DEF Watched, Tainted
<1> SUFFICES ASSUME NEW m \in Produced, (m \in Suspects \/ (m \in Watched /\ ~Stored(m)))'
             PROVE  (Gone(m) \/ Young(m))'
  BY <1>2 DEF Explained
<1>6. CASE m \in Suspects \/ (m \in Watched /\ ~Stored(m))
  <2>1. Gone(m) \/ Young(m)
    BY <1>6 DEF Explained
  <2> QED BY <1>3, <1>4, <1>5, <1>6, <2>1
<1>7. CASE ready /\ m \in coverage /\ ~Stored(m)
  <2>1. Live(m)
    BY <1>7 DEF Live, LoopSane, Rebuilding, Loading
  <2>2. Gone(m)
    BY <1>1, <1>2, <1>7, <2>1, LostIsGone
  <2> QED BY <1>3, <1>4, <1>7, <2>2
<1>8. CASE Stored(m) /\ ~Stored(m)' /\ m \in Watched \cup coverage
  <2>1. CASE NothingHeld'
    <3>1. Young(m)'
      BY <2>1 DEF NothingHeld, Young, Slot
    <3> QED BY <3>1
  <2>2. CASE loop.pc \in {"drop txs", "drop blocks"} /\ m < loop.floor
    <3>1. loop.floor <= tip - (Retain - 1)
      BY <2>2 DEF FloorSane, Dropping
    <3>2. tip' \in Nat /\ tip' >= tip /\ Retain' = Retain /\ Retain \in Nat /\ loop.floor \in Nat
      BY <1>1, Numbers DEF GoodStep, Retain, TypeInv, SourceTyped, Known
    <3>3. m < tip' - (Retain' - 1) /\ m < tip - (Retain - 1)
      <4>1. m \in Nat /\ m < loop.floor
        BY <1>2, <2>2
      <4>2. m < tip - (Retain - 1)
        BY <1>2, <3>1, <3>2, <4>1
      <4>3. m < tip' - (Retain - 1)
        BY <1>2, <3>2, <4>1, <4>2, WindowMovesUp
      <4> QED BY <3>2, <4>2, <4>3
    <3>4. ~InRange(m)
      <4>1. loop.pc # "filling"
        BY <2>2
      <4>2. \A f \in Fill : fill[f] = NoFill
        BY <4>1 DEF FillsSane
      <4> QED BY <4>2 DEF NoFill, InRange
    <3>5. ~InRange(m)'
      BY <1>1, <1>2, <3>2, <3>3, <3>4 DEF RangesGrow
    <3> QED BY <1>8, <3>3, <3>5 DEF Gone
  <2> QED BY <1>1, <1>2, <1>8, <2>1, <2>2 DEF RowsLost
<1> QED BY <1>1, <1>6, <1>7, <1>8 DEF SuspectsGrow, WatchedGrow

\* Rows are only lost below the floor of an eviction, which a firm slot a window above caused.
LEMMA LostDoomedStep ==
  ASSUME GoodStep, LostDoomed, EvictSane
  PROVE  LostDoomed'
<1>1. TypeInv /\ UNCHANGED scenario /\ HeldGrow /\ RowsLost
  BY DEF GoodStep, Shape
<1>2. Retain' = Retain /\ Retain \in Nat \ {0} /\ Slot \subseteq Nat /\ loop.floor \in Nat
  BY <1>1, Numbers DEF Retain
<1> SUFFICES ASSUME NEW s \in Slot, Held(s)', ~Stored(s)'
             PROVE  \E m \in Slot : Firm(m)' /\ m >= s + Retain
  BY <1>2 DEF LostDoomed, Slot
<1>3. ~NothingHeld' /\ Held(s)
  BY <1>1 DEF NothingHeld, HeldGrow, Slot
<1>4. ASSUME NEW k \in Slot, Firm(k), k >= loop.floor + Retain - 1, s < loop.floor
      PROVE  Firm(k)' /\ k >= s + Retain
  <2>1. k >= loop.floor /\ k >= s + Retain
    BY <1>2, <1>4
  <2> QED BY <1>3, <1>4, <2>1, FirmStable
<1>5. CASE ~Stored(s)
  <2>1. PICK m \in Slot : Firm(m) /\ m >= s + Retain
    BY <1>3, <1>5 DEF LostDoomed
  <2>2. CASE loop.pc \in Dropping => m >= loop.floor
    BY <1>3, <2>1, <2>2, FirmStable
  <2>3. CASE loop.pc \in Dropping /\ ~(m >= loop.floor)
    <3>1. Held(m) /\ m \in Nat /\ s \in Nat
      BY <1>2, <2>1 DEF Firm, Held
    <3>2. PICK k \in Slot : Firm(k) /\ k >= loop.floor + Retain - 1
      BY <2>3, <3>1 DEF EvictSane
    <3>3. s < loop.floor
      BY <1>2, <2>1, <2>3, <3>1
    <3> QED BY <1>4, <3>2, <3>3
  <2> QED BY <2>2, <2>3
<1>6. CASE Stored(s)
  <2>1. loop.pc \in Dropping /\ s < loop.floor
    BY <1>1, <1>3, <1>6 DEF RowsLost, Dropping
  <2>2. ~(s >= loop.floor)
    BY <1>2, <2>1
  <2>3. PICK k \in Slot : Firm(k) /\ k >= loop.floor + Retain - 1
    BY <1>3, <2>1, <2>2 DEF EvictSane
  <2> QED BY <1>4, <2>1, <2>3
<1> QED BY <1>5, <1>6

\* An eviction that has dropped its partitions goes on to forget the slots.
FloorGoesOn ==
  loop.pc \in {"floor", "forget"} =>
    \/ loop'.pc \in Loading \/ ForgetCoverage
    \/ loop'.pc \in {"floor", "forget"} /\ loop'.floor = loop.floor

\* Once its tables are dropped an eviction goes on to raise the floor and to forget.
LEMMA FloorSteps ==
  ASSUME TypeInv, FillsSane, [Next]_vars
  PROVE  FloorGoesOn
<1> SUFFICES ASSUME loop.pc \in {"floor", "forget"}
             PROVE  \/ loop'.pc \in Loading \/ ForgetCoverage
                    \/ loop'.pc \in {"floor", "forget"} /\ loop'.floor = loop.floor
  BY DEF FloorGoesOn
<1>1. loop \in LoopState
  BY Numbers
<1>2. ASSUME UNCHANGED loop PROVE loop'.pc \in {"floor", "forget"} /\ loop'.floor = loop.floor
  BY <1>2
<1>3. CASE SourceAdvances \/ SchemaChanges \/ UNCHANGED vars
  BY <1>2, <1>3 DEF SourceAdvances, SchemaChanges, vars
<1>4. ASSUME NEW f \in Fill PROVE ~FillNext(f)
  BY FillKind DEF FillWrites
<1>5. ASSUME NEW r \in Reader, ReaderNext(r) PROVE UNCHANGED loop
  BY <1>5, ReaderFrame
<1>6. CASE LoopNext
  <2>1. RaiseFloor \/ ForgetCoverage \/ Crash
    BY <1>6 DEF LoopNext, RefreshUnchanged, BeginRebuild, RegisterRebuild, RebuildTables,
       RebuildFails, AdoptSchema, ReloadCoverage, ReloadFails, LoopEvicts, NothingToEvict,
       EvictWindow, EvictBytes, PurgeBytes, BudgetStillExceeded, BeginEvict, DropTransactions,
       DropBlocks, DropMarks, DropFails, Evicted, NotEvicted, NoHoles, StartRound, SettleRound
  <2>2. RaiseFloor => loop'.pc = "forget" /\ loop'.floor = loop.floor
    BY <1>1 DEF RaiseFloor, Go, LoopState
  <2>3. Crash => loop'.pc = "reload"
    BY DEF Crash, AtTop
  <2> QED BY <2>1, <2>2, <2>3 DEF Loading
<1> QED BY <1>2, <1>3, <1>4, <1>5, <1>6 DEF Next

\* A served slot loses its mark only to an eviction or to a poison.
LEMMA UnmarkedYoungStep ==
  ASSUME GoodStep, FloorGoesOn, UnmarkedYoung, Explained, PublishYoung, FillsSane, SeenUpToTip
  PROVE  UnmarkedYoung'
<1>1. TypeInv /\ UNCHANGED scenario /\ LiveGrow /\ MarksLost /\ RowsGrow
  BY DEF GoodStep, Shape
<1>2. Slot \subseteq Nat /\ loop.floor \in Nat /\ Produced \subseteq Slot /\ coverage \subseteq Slot
  BY <1>1, Numbers
<1> DEFINE P(s) == Young(s)' \/ ~Stored(s)'
                     \/ (loop'.pc \in {"floor", "forget"} /\ s < loop'.floor)
<1> SUFFICES ASSUME NEW s \in Slot, Live(s)', ~Marked(s)' PROVE P(s)
  BY DEF UnmarkedYoung, Slot
<1> HIDE DEF P
<1>3. ASSUME s <= tip, Young(s) PROVE P(s)
  BY <1>3, YoungStable DEF P
<1>4. CASE Live(s)
  <2>1. s \in coverage /\ s <= tip
    BY <1>4 DEF Live, SeenUpToTip
  <2>2. ~InRange(s)
    BY <2>1 DEF InRange, FillsSane
  <2>3. CASE Young(s)
    BY <1>3, <2>1, <2>3
  <2>4. CASE ~Stored(s)
    BY <1>1, <2>2, <2>4 DEF P, RowsGrow
  <2>5. CASE loop.pc \in {"floor", "forget"} /\ s < loop.floor
    <3>1. CASE ForgetCoverage
      <4>1. coverage' = {q \in coverage : q >= loop.floor} /\ s \in coverage'
        BY <3>1 DEF ForgetCoverage, Live
      <4> QED BY <1>2, <2>5, <4>1
    <3>2. CASE loop'.pc \in {"floor", "forget"} /\ loop'.floor = loop.floor
      BY <2>5, <3>2 DEF P
    <3>3. loop'.pc \notin Loading
      BY DEF Live, Loading
    <3> QED BY <2>5, <3>1, <3>2, <3>3 DEF FloorGoesOn
  <2>6. CASE ~Marked(s)
    BY <1>4, <2>3, <2>4, <2>5, <2>6 DEF UnmarkedYoung
  <2>7. CASE Marked(s)
    <3>1. ~NothingHeld'
      BY DEF NothingHeld, Held, Slot
    <3>2. CASE s \in Suspects
      <4>1. s \in Produced
        BY <3>2 DEF Suspects
      <4>2. Young(s) \/ ~Stored(s)
        BY <3>2, <4>1 DEF Explained, Gone
      <4> QED BY <2>3, <2>4, <4>2
    <3>3. CASE s < loop.floor /\ loop'.pc = "floor" /\ loop'.floor = loop.floor
      BY <3>3 DEF P
    <3> QED BY <1>1, <2>7, <3>1, <3>2, <3>3 DEF MarksLost
  <2> QED BY <2>6, <2>7
<1>5. CASE \E f \in Fill : fill[f].pc = "publish" /\ s \in fill[f].publish /\ UNCHANGED marks
  <2>1. PICK f \in Fill : fill[f].pc = "publish" /\ s \in fill[f].publish /\ UNCHANGED marks
    BY <1>5
  <2>2. ~Marked(s)
    BY <2>1 DEF Marked
  <2>3. Young(s)
    BY <2>1, <2>2 DEF PublishYoung, Overtaken
  <2>4. s <= tip
    BY <2>1 DEF FillsSane, FillKeeps
  <2> QED BY <1>3, <2>3, <2>4
<1> QED BY <1>1, <1>4, <1>5 DEF LiveGrow

\* A fill marks what it publishes, unless a newer poison marked it first.
LEMMA PublishYoungFill ==
  ASSUME GoodStep, PublishYoung, FillsSane, VersionsPast, NEW g \in Fill, FillNext(g)
  PROVE  PublishYoung'
<1>1. TypeInv /\ fill \in [Fill -> FillState] /\ MarksTrue /\ clock \in Nat
  BY DEF GoodStep, TypeInv, FillTyped, ServingTyped
<1>2. ASSUME NEW f \in Fill, NEW s \in fill[f].publish, Young(s) PROVE Young(s)'
  <2>1. s \in Slot /\ s <= tip
    <3>1. s \in fill[f].range
      BY DEF FillsSane, FillKeeps
    <3>2. fill[f].range \subseteq Known /\ Known \subseteq Slot
      BY <1>1, ScenarioFacts DEF FillState, TypeInv
    <3> QED BY <3>1, <3>2 DEF FillsSane
  <2> QED BY <1>2, <2>1, YoungStable
<1> SUFFICES ASSUME NEW f \in Fill, NEW s \in fill'[f].publish, Overtaken(fill[f], s)'
             PROVE  Young(s)'
  BY DEF PublishYoung
<1>3. ASSUME fill'[f] = fill[f], marks'[s] = marks[s] PROVE Young(s)'
  <2>1. Overtaken(fill[f], s)
    BY <1>3 DEF Overtaken, Marked
  <2> QED BY <1>2, <1>3, <2>1 DEF PublishYoung
<1>4. CASE f # g
  <2>1. fill'[f] = fill[f]
    BY <1>1, <1>4 DEF FillNext, BeginFill, ForwardTransactions, ValidateCounts, ForwardBlocks,
       StampCoverage, StoreCoverage, PublishCoverage, FillFails, FillStep
  <2>2. s \in fill[f].range /\ s \notin fill[g].publish
    BY <1>4, <2>1 DEF FillsSane, FillKeeps
  <2>3. s \in Slot
    BY <1>1, <2>2, ScenarioFacts DEF FillState, TypeInv
  <2>4. marks'[s] = marks[s]
    <3>1. CASE UNCHANGED marks
      BY <3>1
    <3>2. CASE StoreCoverage(g)
      BY <2>2, <2>3, <3>2 DEF StoreCoverage, Mark
    <3> QED BY <1>1, <3>1, <3>2, FillFrame DEF TypeInv
  <2> QED BY <1>3, <2>1, <2>4
<1>5. CASE f = g
  <2>1. CASE BeginFill(g) \/ ForwardTransactions(g) \/ ValidateCounts(g) \/ ForwardBlocks(g)
    <3>1. fill'[f].pc \in {"txs", "validate", "blocks", "stamp"}
      BY <1>1, <1>5, <2>1 DEF BeginFill, ForwardTransactions, ValidateCounts, ForwardBlocks,
         FillStep, FillState
    <3> QED BY <3>1 DEF Overtaken
  <2>2. CASE PublishCoverage(g) \/ FillFails(g)
    <3>1. fill'[f] = NoFill
      BY <1>1, <1>5, <2>2 DEF PublishCoverage, FillFails
    <3> QED BY <3>1 DEF NoFill
  <2>3. CASE StampCoverage(g)
    <3>1. fill'[f].pc = "marks" /\ fill'[f].version = clock + 1 /\ UNCHANGED marks
      BY <1>1, <1>5, <2>3 DEF StampCoverage, FillState, stored
    <3>2. fill'[f].publish = fill[f].publish
      BY <1>1, <1>5, <2>3 DEF StampCoverage, FillState
    <3>3. s \in Slot
      BY <1>1, <3>2, ScenarioFacts DEF FillState, TypeInv
    <3>4. marks[s].version \in Nat /\ marks[s].version <= clock
      BY <1>1, <3>3 DEF MarksTrue, VersionsPast
    <3>5. ~(marks'[s].version > fill'[f].version)
      BY <1>1, <3>1, <3>4
    <3> QED BY <3>1, <3>5 DEF Overtaken
  <2>4. CASE StoreCoverage(g)
    <3>1. /\ fill[f].pc = "marks" /\ fill'[f].pc = "publish" /\ fill'[f].publish = fill[f].publish
          /\ Mark(fill[f].publish, [q \in Slot |-> IF q \in Produced THEN 1 ELSE 2], fill[f].version)
      BY <1>1, <1>5, <2>4 DEF StoreCoverage, FillStep, FillState
    <3>2. s \in Slot /\ s \in fill[f].publish
      BY <1>1, <3>1, ScenarioFacts DEF FillState, TypeInv
    <3>3. ~Marked(s)'
      BY <3>1 DEF Overtaken
    <3>4. CASE fill[f].version >= marks[s].version
      <4>1. marks'[s].status = IF s \in Produced THEN 1 ELSE 2
        BY <3>1, <3>2, <3>4 DEF Mark
      <4> QED BY <3>3, <4>1 DEF Marked
    <3>5. CASE ~(fill[f].version >= marks[s].version)
      <4>1. marks[s].version > fill[f].version
        BY <1>1, <3>2, <3>5 DEF MarksTrue, FillState
      <4>2. Young(s)
        BY <3>1, <3>2, <4>1 DEF PublishYoung, Overtaken
      <4> QED BY <1>2, <3>2, <4>2
    <3> QED BY <3>4, <3>5
  <2> QED BY <2>1, <2>2, <2>3, <2>4 DEF FillNext
<1> QED BY <1>4, <1>5

\* A fill is overtaken only by the poison of a slot that is young.
LEMMA PublishYoungStep ==
  ASSUME GoodStep, Uninterrupted, LoopSane, PublishYoung, FillsSane, VersionsPast, Explained,
         ReadersBound, [Next]_vars
  PROVE  PublishYoung'
<1>1. TypeInv /\ fill \in [Fill -> FillState] /\ Produced \subseteq Slot
  BY Numbers DEF GoodStep, TypeInv, FillTyped
<1>2. ASSUME NEW f \in Fill, NEW s \in fill[f].publish
      PROVE  s \in Slot /\ InRange(s) /\ (Young(s) => Young(s)')
  <2>1. s \in fill[f].range
    BY DEF FillsSane, FillKeeps
  <2>2. fill[f].range \subseteq Known /\ Known \subseteq Slot
    BY <1>1, ScenarioFacts DEF FillState, TypeInv
  <2>3. s \in Slot /\ s <= tip
    BY <2>1, <2>2 DEF FillsSane
  <2> QED BY <2>1, <2>3, YoungStable DEF InRange
<1>3. ASSUME NEW f \in Fill, FillNext(f) PROVE PublishYoung'
  BY <1>3, PublishYoungFill
<1>4. CASE Quiet \/ Poisons
  <2> SUFFICES ASSUME NEW f \in Fill, NEW s \in fill'[f].publish, Overtaken(fill[f], s)'
               PROVE  Young(s)'
    BY DEF PublishYoung
  <2>1. fill' = fill
    BY <1>4 DEF Quiet, Poisons
  <2>2. s \in fill[f].publish
    BY <2>1
  <2>3. s \in Slot /\ InRange(s) /\ (Young(s) => Young(s)')
    BY <1>2, <2>2
  <2>4. CASE marks'[s] = marks[s]
    <3>1. Overtaken(fill[f], s)
      BY <2>1, <2>4 DEF Overtaken, Marked
    <3> QED BY <2>2, <2>3, <3>1 DEF PublishYoung
  <2>5. CASE marks'[s] # marks[s]
    <3>1. s \in Suspects
      BY <1>4, <2>3, <2>5 DEF Quiet, Poisons
    <3>2. s \in Produced
      BY <3>1 DEF Suspects
    <3>3. Young(s)
      BY <2>3, <3>1, <3>2 DEF Explained, Gone
    <3> QED BY <2>3, <3>3
  <2> QED BY <2>4, <2>5
<1>5. CASE Reopens
  BY <1>5 DEF Reopens, PublishYoung, NoFill
<1>6. CASE StartRound
  <2> SUFFICES ASSUME NEW f \in Fill PROVE fill'[f].pc \in {"idle", "begin"}
    BY DEF PublishYoung, Overtaken
  <2>1. PICK plan :
           \A g \in Fill : fill'[g] = IF plan[g] = {} THEN NoFill
                ELSE [pc |-> "begin", range |-> plan[g], publish |-> Provable(plan[g]), version |-> 0]
    BY <1>1, <1>6, RoundPlan
  <2>2. CASE plan[f] = {}
    <3>1. fill'[f] = NoFill
      BY <2>1, <2>2, Zenon
    <3> QED BY <3>1 DEF NoFill
  <2>3. CASE plan[f] # {}
    <3>1. fill'[f] = [pc |-> "begin", range |-> plan[f], publish |-> Provable(plan[f]),
                      version |-> 0]
      BY <2>1, <2>3, Zenon
    <3> QED BY <3>1
  <2> QED BY <2>2, <2>3
<1>7. CASE ReloadCoverage \/ Drops \/ ForgetCoverage
  <2>1. loop.pc # "filling" /\ fill' = fill
    BY <1>7 DEF ReloadCoverage, Drops, ForgetCoverage
  <2>2. \A f \in Fill : fill[f] = NoFill
    BY <2>1 DEF FillsSane
  <2> QED BY <2>1, <2>2 DEF PublishYoung, NoFill
<1>8. CASE SourceAdvances \/ SchemaChanges \/ UNCHANGED vars
  <2>1. Quiet
    BY <1>8 DEF SourceAdvances, SchemaChanges, vars, stored, serving, Quiet
  <2> QED BY <1>4, <2>1
<1>9. CASE LoopNext
  BY <1>1, <1>4, <1>5, <1>6, <1>7, <1>9, LoopKind DEF LoopWrites
<1>10. ASSUME NEW r \in Reader, ReaderNext(r) PROVE PublishYoung'
  BY <1>1, <1>4, <1>10, PoisonKind
<1> QED BY <1>3, <1>8, <1>9, <1>10 DEF Next

\* The end of a round.
LEMMA RoundSettles ==
  ASSUME loop \in LoopState, SettleRound
  PROVE  /\ loop.pc = "filling" /\ UNCHANGED <<stored, source, coverage, minRetained, fill, reader, clock>>
         /\ \/ /\ loop'.pc = "evict" /\ loop'.caller = "round" /\ loop'.budget = loop.budget
               /\ ready' = ready
            \/ loop'.pc = "top" /\ loop'.caller = "none" /\ loop'.budget = "met" /\ ready' = FALSE
<1>1. (CallEvict("round") /\ ready' = ready) \/ (loop' = AtTop /\ ready' = FALSE)
  BY Zenon DEF SettleRound
<1>2. CASE CallEvict("round") /\ ready' = ready
  <2>1. loop'.pc = "evict" /\ loop'.caller = "round" /\ loop'.budget = loop.budget
    BY <1>2 DEF CallEvict, LoopState
  <2> QED BY <1>2, <2>1 DEF SettleRound
<1>3. CASE loop' = AtTop /\ ready' = FALSE
  BY <1>3 DEF SettleRound, AtTop
<1> QED BY <1>1, <1>2, <1>3

\* The callers of maybe_evict once it succeeded.
LEMMA EvictedGoes ==
  ASSUME loop \in LoopState, Evicted
  PROVE  /\ loop.pc = "evicted" /\ UNCHANGED <<stored, source, coverage, minRetained, fill, reader, clock>>
         /\ loop'.pc \in {"loop", "plan", "top"} /\ loop'.caller = "none" /\ loop'.budget = "met"
<1>1. /\ loop.pc = "evicted" /\ UNCHANGED <<stored, source, coverage, minRetained, fill, reader, clock>>
      /\ loop' = [AtTop EXCEPT !.pc = CASE loop.caller \in {"refresh", "rebuild"} -> "loop"
                                        [] loop.caller = "loop" -> "plan"
                                        [] OTHER -> "top"]
  BY DEF Evicted
<1> QED BY <1>1 DEF AtTop

\* The callers of maybe_evict once it failed.
LEMMA NotEvictedGoes ==
  ASSUME loop \in LoopState, NotEvicted, ready \in BOOLEAN
  PROVE  /\ loop.pc = "not evicted"
         /\ UNCHANGED <<stored, source, coverage, minRetained, fill, reader, clock>>
         /\ loop'.pc \in {"reload", "loop", "top"} /\ loop'.caller # "no holes"
         /\ loop'.budget = "met" /\ (loop.caller # "no holes" => ready' = FALSE)
<1>1. /\ loop.pc = "not evicted"
      /\ UNCHANGED <<stored, source, coverage, minRetained, fill, reader, clock>>
      /\ ready' = (ready /\ loop.caller = "no holes")
  BY DEF NotEvicted
<1>2. \/ loop' = [AtTop EXCEPT !.pc = "reload", !.caller = "open"]
      \/ loop' = [AtTop EXCEPT !.pc = "loop"]
      \/ loop' = AtTop
  BY DEF NotEvicted
<1>3. /\ loop'.pc \in {"reload", "loop", "top"} /\ loop'.caller # "no holes"
      /\ loop'.budget = "met"
  <2>1. CASE loop' = [AtTop EXCEPT !.pc = "reload", !.caller = "open"]
    BY <2>1 DEF AtTop
  <2>2. CASE loop' = [AtTop EXCEPT !.pc = "loop"]
    BY <2>2 DEF AtTop
  <2>3. CASE loop' = AtTop
    BY <2>3 DEF AtTop
  <2> QED BY <1>2, <2>1, <2>2, <2>3
<1>4. loop.caller # "no holes" => ready' = FALSE
  BY <1>1
<1> QED BY <1>1, <1>3, <1>4

\* An eviction below a floor begins in maybe_evict and keeps its floor.
DropsGoOn ==
  loop'.pc \in Dropping =>
    EvictWindow \/ (loop.pc \in Dropping /\ loop'.floor = loop.floor)

\* Every step keeps to this.
LEMMA DropSteps ==
  ASSUME TypeInv, Uninterrupted, LoopSane, FillsSane, [Next]_vars
  PROVE  DropsGoOn
<1> SUFFICES ASSUME loop'.pc \in Dropping
             PROVE  EvictWindow \/ (loop.pc \in Dropping /\ loop'.floor = loop.floor)
  BY DEF DropsGoOn
<1>1. loop \in LoopState
  BY Numbers
<1>2. CASE UNCHANGED loop
  BY <1>2
<1>3. CASE SourceAdvances \/ SchemaChanges \/ UNCHANGED vars
  BY <1>2, <1>3 DEF SourceAdvances, SchemaChanges, vars
<1>4. ASSUME NEW f \in Fill, FillNext(f) PROVE FALSE
  BY <1>4, FillKind DEF FillWrites, Dropping
<1>5. ASSUME NEW r \in Reader, ReaderNext(r) PROVE UNCHANGED loop
  BY <1>5, ReaderFrame
<1>6. "bytes" \notin Upkeep /\ "reload fails" \notin Upkeep /\ loop.budget = "met"
  BY DEF Uninterrupted, LoopSane
<1>7. ~RebuildFails /\ ~ReloadFails /\ ~EvictBytes /\ ~PurgeBytes /\ ~BudgetStillExceeded
  BY <1>6 DEF RebuildFails, ReloadFails, EvictBytes, PurgeBytes, BudgetStillExceeded
<1>8. CASE LoopNext /\ ~EvictWindow
  <2>1. ~(RefreshUnchanged \/ BeginRebuild \/ RegisterRebuild \/ RebuildTables \/ AdoptSchema)
    BY <1>1 DEF RefreshUnchanged, BeginRebuild, RegisterRebuild, RebuildTables, AdoptSchema, Go,
       CallEvict, LoopState, Dropping
  <2>2. ~(ReloadCoverage \/ LoopEvicts \/ NothingToEvict \/ ForgetCoverage \/ DropFails)
    BY <1>1 DEF ReloadCoverage, LoopEvicts, NothingToEvict, ForgetCoverage, DropFails, Go,
       CallEvict, LoopState, Dropping
  <2>3. ~(NoHoles \/ StartRound)
    BY <1>1 DEF NoHoles, StartRound, Go, CallEvict, LoopState, Dropping
  <2>4. ~(Evicted \/ SettleRound \/ Crash)
    BY <1>1, EvictedGoes, RoundSettles DEF Crash, Dropping, AtTop
  <2>5. ~NotEvicted
    BY <1>1, NotEvictedGoes, Numbers DEF Dropping
  <2>6. BeginEvict \/ DropTransactions \/ DropBlocks \/ DropMarks \/ RaiseFloor
    BY <1>7, <1>8, <2>1, <2>2, <2>3, <2>4, <2>5 DEF LoopNext
  <2> QED BY <1>1, <2>6 DEF BeginEvict, DropTransactions, DropBlocks, DropMarks, RaiseFloor, Go,
           LoopState, Dropping
<1> QED BY <1>2, <1>3, <1>4, <1>5, <1>8 DEF Next

\* What maybe_evict finds: the newest covered slot is firm, or the cache is young.
LEMMA HeadIsFirm ==
  ASSUME TypeInv, LostDoomed, UnmarkedYoung, Explained, loop.pc = "evict", coverage # {}
  PROVE  /\ Max(coverage) \in coverage /\ \A s \in coverage : s <= Max(coverage)
         /\ Firm(Max(coverage)) \/ Young(Max(coverage))
<1>1. coverage \subseteq Slot /\ Slot \subseteq Nat /\ Retain \in Nat \ {0} /\ Produced \subseteq Slot
  BY Numbers
<1> DEFINE h == Max(coverage)
<1>2. h \in coverage /\ \A s \in coverage : s <= h
  BY <1>1, DiskCacheAssumption, MaxExists DEF Slot
<1> HIDE DEF h
<1>3. Live(h) /\ h \in Slot
  BY <1>1, <1>2 DEF Live, Loading
<1>4. Stored(h)
  <2> SUFFICES ASSUME ~Stored(h) PROVE FALSE
    OBVIOUS
  <2>1. PICK m \in Slot : Firm(m) /\ m >= h + Retain
    BY <1>3 DEF LostDoomed, Held
  <2>2. m \in coverage
    BY <2>1 DEF Firm, Live, Loading
  <2> QED BY <1>1, <1>2, <1>3, <2>1, <2>2
<1>5. Marked(h) \/ Young(h)
  BY <1>3, <1>4 DEF UnmarkedYoung
<1>6. h \notin Suspects \/ Young(h)
  BY <1>4 DEF Explained, Gone, Suspects
<1>7. Firm(h) \/ Young(h)
  BY <1>3, <1>4, <1>5, <1>6 DEF Firm
<1> QED BY <1>2, <1>7 DEF h

\* The floor that maybe_evict computes.
LEMMA WindowFloorFacts ==
  ASSUME TypeInv, NEW h \in Nat
  PROVE  /\ WindowFloor(h) \in Nat /\ h - (Retain - 1) <= WindowFloor(h)
         /\ WindowFloor(h) = 0 \/ WindowFloor(h) = h - (Retain - 1)
<1>1. h - (Retain - 1) \in Int
  BY Numbers
<1>2. CASE h - (Retain - 1) <= 0
  <2>1. WindowFloor(h) = 0
    BY <1>1, <1>2, FloorOfTwo DEF WindowFloor
  <2> QED BY <1>1, <1>2, <2>1
<1>3. CASE ~(h - (Retain - 1) <= 0)
  <2>1. WindowFloor(h) = h - (Retain - 1)
    BY <1>1, <1>3, FloorOfTwo DEF WindowFloor
  <2> QED BY <1>1, <1>3, <2>1
<1> QED BY <1>2, <1>3

\* What EvictWindow decides.
LEMMA EvictWindowFacts ==
  ASSUME TypeInv, EvictWindow
  PROVE  /\ loop.pc = "evict" /\ coverage # {} /\ UNCHANGED <<stored, source, serving, fill, reader>>
         /\ loop'.floor = WindowFloor(Max(coverage)) /\ loop'.budget = "met"
         /\ loop'.caller = loop.caller
         /\ \/ loop'.pc = "invalidate" /\ loop'.floor > minRetained
            \/ loop'.pc = "evicted" /\ ~(loop'.floor > minRetained)
<1>1. loop \in LoopState
  BY Numbers
<1>2. /\ loop.pc = "evict" /\ coverage # {} /\ UNCHANGED <<stored, source, serving, fill, reader>>
      /\ EvictBelow(Max(coverage), WindowFloor(Max(coverage)), "met")
  BY DEF EvictWindow
<1> DEFINE w == WindowFloor(Max(coverage))
<1> HIDE DEF w
<1>3. /\ loop'.floor = w /\ loop'.budget = "met" /\ loop'.caller = loop.caller
      /\ loop'.pc = IF w > minRetained THEN "invalidate" ELSE "evicted"
  BY <1>1, <1>2 DEF EvictBelow, LoopState, w
<1>4. loop'.floor = WindowFloor(Max(coverage))
  BY <1>3 DEF w
<1> QED BY <1>2, <1>3, <1>4

\* The slot that caused an eviction stays firm until the eviction ends.
LEMMA EvictSaneStep ==
  ASSUME GoodStep, DropsGoOn, EvictSane, FillsSane, LostDoomed, UnmarkedYoung, Explained
  PROVE  EvictSane'
<1>1. TypeInv /\ UNCHANGED scenario /\ HeldGrow
  BY DEF GoodStep, Shape
<1>2. Retain' = Retain /\ Retain \in Nat \ {0} /\ Slot \subseteq Nat /\ loop.floor \in Nat
  BY <1>1, Numbers DEF Retain
<1> SUFFICES ASSUME loop'.pc \in Dropping,
                    ~(\A s \in Slot : Held(s)' => s >= loop'.floor)
             PROVE  \E m \in Slot : Firm(m)' /\ m >= loop'.floor + Retain - 1
  BY <1>2 DEF EvictSane, Slot, Dropping
<1>3. PICK s \in Slot : Held(s)' /\ ~(s >= loop'.floor)
  OBVIOUS
<1>4. ~NothingHeld'
  BY <1>3 DEF NothingHeld, Slot
<1>5. loop.pc # "filling" => Held(s)
  <2>1. loop.pc # "filling" => ~Publishing(s)
    BY DEF FillsSane, Publishing, NoFill
  <2> QED BY <1>1, <1>3, <2>1 DEF HeldGrow
<1>6. CASE loop.pc \in Dropping /\ loop'.floor = loop.floor
  <2>1. Held(s)
    BY <1>5, <1>6 DEF Dropping
  <2>2. PICK m \in Slot : Firm(m) /\ m >= loop.floor + Retain - 1
    BY <1>3, <1>6, <2>1 DEF EvictSane
  <2>3. m >= loop.floor
    BY <1>2, <2>2
  <2> QED BY <1>4, <1>6, <2>2, <2>3, FirmStable
<1>7. CASE EvictWindow
  <2>1. /\ loop.pc = "evict" /\ coverage # {} /\ loop'.floor = WindowFloor(Max(coverage))
        /\ loop'.floor > minRetained
    BY <1>1, <1>7, EvictWindowFacts DEF Dropping
  <2>2. PICK h \in coverage : h = Max(coverage) /\ (Firm(h) \/ Young(h))
    BY <1>1, <2>1, HeadIsFirm
  <2>3. h \in Slot /\ h \in Nat /\ minRetained \in Nat
    BY <1>1, <1>2, <2>2, Numbers
  <2>4. loop'.floor = h - (Retain - 1)
    <3>1. WindowFloor(h) = 0 \/ WindowFloor(h) = h - (Retain - 1)
      BY <1>1, <2>3, WindowFloorFacts
    <3>2. loop'.floor = WindowFloor(h)
      BY <2>1, <2>2
    <3> QED BY <2>1, <2>3, <3>1, <3>2
  <2>5. ~Young(h)
    <3>1. Held(s)
      BY <1>5, <2>1
    <3> QED BY <1>3, <2>4, <3>1 DEF Young
  <2>6. Firm(h)'
    BY <1>4, <2>1, <2>2, <2>3, <2>5, FirmStable DEF Dropping
  <2>7. h >= loop'.floor + Retain - 1
    BY <1>2, <2>3, <2>4
  <2> QED BY <2>3, <2>6, <2>7
<1> QED BY <1>6, <1>7 DEF DropsGoOn

-----------------------------------------------------------------------------
(***************************************************************************)
(* Where the loop goes, and what it leaves of the map on the way.          *)
(***************************************************************************)
Still == UNCHANGED <<coverage, minRetained>>

\* It calls maybe_evict from the top of the loop, or begins a rebuild.
LoopSetsOff ==
  /\ Still /\ loop.pc \in {"top", "loop"}
  /\ \/ loop'.pc = "evict" /\ loop'.caller \in {"refresh", "loop"} /\ ready' = ready
     \/ loop'.pc = "register" /\ ready' = FALSE

LoopRebuilds ==
  /\ Still /\ loop.pc \in {"register", "wipe", "adopt"} /\ loop'.pc \in {"wipe", "adopt", "reload"}
  /\ ready' = ready

LoopDrops ==
  /\ Still /\ ready' = ready /\ loop'.caller = loop.caller /\ loop'.floor = loop.floor
  /\ loop.pc \in {"invalidate", "drop txs", "drop blocks", "drop marks"}
  /\ loop'.pc \in {"drop txs", "drop blocks", "drop marks", "floor", "not evicted"}

LoopPlans ==
  Still /\ ready' = ready /\ loop.pc = "plan" /\ loop'.pc \in {"evict", "filling"}

LoopStops == coverage' = {} /\ minRetained' = 0 /\ ready' = FALSE /\ loop'.pc = "reload"

LoopGoesOn ==
  \/ LoopSetsOff \/ LoopRebuilds \/ LoopDrops \/ LoopPlans \/ LoopStops
  \/ ReloadCoverage \/ NothingToEvict \/ EvictWindow \/ RaiseFloor \/ ForgetCoverage
  \/ Evicted \/ NotEvicted \/ SettleRound

\* Every step of the loop of an uninterrupted cache is one of these.
LEMMA LoopTable ==
  ASSUME TypeInv, Uninterrupted, LoopSane, LoopNext
  PROVE  LoopGoesOn /\ loop'.budget = "met"
<1>1. loop \in LoopState /\ ready \in BOOLEAN /\ loop.budget = "met"
  BY Numbers DEF LoopSane
<1>2. ~RebuildFails /\ ~ReloadFails /\ ~EvictBytes /\ ~PurgeBytes /\ ~BudgetStillExceeded
  BY <1>1 DEF Uninterrupted, RebuildFails, ReloadFails, EvictBytes, PurgeBytes,
     BudgetStillExceeded
<1>3. CASE RefreshUnchanged \/ LoopEvicts \/ BeginRebuild
  <2>1. LoopSetsOff /\ loop'.budget = "met"
    BY <1>1, <1>3 DEF RefreshUnchanged, LoopEvicts, BeginRebuild, CallEvict, Go, LoopState,
       serving,
       LoopSetsOff, Still
  <2> QED BY <2>1 DEF LoopGoesOn
<1>4. CASE RegisterRebuild \/ RebuildTables \/ AdoptSchema
  <2>1. LoopRebuilds /\ loop'.budget = "met"
    BY <1>1, <1>4 DEF RegisterRebuild, RebuildTables, AdoptSchema, Go, LoopState, serving,
       LoopRebuilds, Still
  <2> QED BY <2>1 DEF LoopGoesOn
<1>5. CASE BeginEvict \/ DropTransactions \/ DropBlocks \/ DropMarks \/ DropFails
  <2>1. LoopDrops /\ loop'.budget = "met"
    BY <1>1, <1>5 DEF BeginEvict, DropTransactions, DropBlocks, DropMarks, DropFails, Go,
       LoopState,
       serving, LoopDrops, Still
  <2> QED BY <2>1 DEF LoopGoesOn
<1>6. CASE NoHoles \/ StartRound
  <2>1. LoopPlans /\ loop'.budget = "met"
    BY <1>1, <1>6 DEF NoHoles, StartRound, CallEvict, Go, LoopState, serving, LoopPlans, Still
  <2> QED BY <2>1 DEF LoopGoesOn
<1>7. CASE Crash
  BY <1>7 DEF Crash, AtTop, LoopGoesOn, LoopStops
<1>8. CASE ReloadCoverage \/ NothingToEvict \/ RaiseFloor \/ ForgetCoverage
  BY <1>1, <1>8 DEF ReloadCoverage, NothingToEvict, RaiseFloor, ForgetCoverage, CallEvict, Go,
     LoopState, LoopGoesOn
<1>9. CASE EvictWindow \/ Evicted \/ NotEvicted \/ SettleRound
  BY <1>1, <1>9, EvictWindowFacts, EvictedGoes, NotEvictedGoes, RoundSettles DEF LoopGoesOn
<1> QED BY <1>2, <1>3, <1>4, <1>5, <1>6, <1>7, <1>8, <1>9 DEF LoopNext

-----------------------------------------------------------------------------
(***************************************************************************)
(* The remaining parts of the invariant.                                   *)
(***************************************************************************)
\* Requests keep to slots the source has had.
LEMMA ReadersBoundStep ==
  ASSUME GoodStep, ReadersBound, SeenUpToTip
  PROVE  ReadersBound'
<1>1. TypeInv /\ TypeInv' /\ UNCHANGED scenario /\ ReadersMove /\ tip' >= tip
  BY DEF GoodStep
<1>2. tip \in Nat /\ tip' \in Nat /\ coverage \subseteq Slot /\ Slot \subseteq Nat
  <2>1. tip' \in Nat
    BY <1>1 DEF TypeInv, SourceTyped, Known
  <2> QED BY <1>1, <2>1, Numbers
<1> SUFFICES ASSUME NEW r \in Reader PROVE ReaderBound(reader[r])'
  BY DEF ReadersBound
<1>3. ReaderBound(reader[r]) /\ Moves(reader[r], reader'[r])
  BY <1>1 DEF ReadersBound, ReadersMove
<1>4. reader'[r].kind \in BlockKind => reader'[r].slots \subseteq 0..tip'
  <2>1. 0..tip \subseteq 0..tip'
    BY <1>1, <1>2
  <2>2. coverage \subseteq 0..tip
    BY <1>2 DEF SeenUpToTip
  <2> QED BY <1>3, <2>1, <2>2 DEF ReaderBound, Moves
<1>5. Produced' = Produced
  BY <1>1 DEF Produced
<1> QED BY <1>3, <1>4, <1>5 DEF ReaderBound, Moves, Poisoning, BlockKind

\* The loop adds to the map only by reloading it.
LEMMA LoopKeepsMap ==
  ASSUME TypeInv, Uninterrupted, LoopSane, LoopNext
  PROVE  coverage' \subseteq coverage \/ ReloadCoverage
<1>1. loop \in LoopState /\ ready \in BOOLEAN
  BY Numbers
<1>2. LoopGoesOn
  BY LoopTable
<1>3. CASE LoopSetsOff \/ LoopRebuilds \/ LoopDrops \/ LoopPlans \/ LoopStops
  BY <1>3 DEF LoopSetsOff, LoopRebuilds, LoopDrops, LoopPlans, LoopStops, Still
<1>4. CASE NothingToEvict \/ RaiseFloor \/ ForgetCoverage
  BY <1>4 DEF NothingToEvict, RaiseFloor, ForgetCoverage, serving
<1>5. CASE EvictWindow \/ Evicted \/ NotEvicted \/ SettleRound
  BY <1>1, <1>5, EvictWindowFacts, EvictedGoes, NotEvictedGoes, RoundSettles DEF serving
<1> QED BY <1>2, <1>3, <1>4, <1>5 DEF LoopGoesOn

\* Nothing beyond the tip of the source is covered or marked.
LEMMA SeenUpToTipStep ==
  ASSUME GoodStep, Uninterrupted, LoopSane, FillsSane, SeenUpToTip, [Next]_vars
  PROVE  SeenUpToTip'
<1>1. TypeInv /\ TypeInv' /\ HeldGrow /\ tip' >= tip
  BY DEF GoodStep, Shape
<1>2. tip \in Nat /\ tip' \in Nat /\ Slot \subseteq Nat /\ loop \in LoopState
  <2>1. tip' \in Nat
    BY <1>1 DEF TypeInv, SourceTyped, Known
  <2> QED BY <1>1, <2>1, Numbers
<1> SUFFICES ASSUME NEW s \in Slot, s \in coverage' \/ Marked(s)' PROVE s <= tip'
  BY DEF SeenUpToTip, Slot
<1>3. ASSUME Held(s) \/ Publishing(s) \/ s \in coverage PROVE s <= tip'
  <2>1. s <= tip
    BY <1>3 DEF Held, Live, SeenUpToTip, Publishing, FillsSane, FillKeeps
  <2> QED BY <1>1, <1>2, <2>1
<1>4. CASE Held(s)'
  BY <1>1, <1>3, <1>4 DEF HeldGrow
<1>5. CASE ~Held(s)'
  <2>1. s \in coverage' /\ loop'.pc \in Loading
    BY <1>5 DEF Held, Live, Loading
  <2>2. coverage' \subseteq coverage
    <3>1. CASE SourceAdvances \/ SchemaChanges \/ UNCHANGED vars
      BY <3>1 DEF SourceAdvances, SchemaChanges, vars, serving
    <3>2. ASSUME NEW f \in Fill, FillNext(f) PROVE FALSE
      BY <1>1, <2>1, <3>2, FillKind DEF FillWrites, Loading
    <3>3. ASSUME NEW r \in Reader, ReaderNext(r) PROVE coverage' \subseteq coverage
      BY <3>3, ReaderFrame DEF PoisonCoverage
    <3>4. ~ReloadCoverage
      BY <1>2, <2>1 DEF ReloadCoverage, CallEvict, LoopState, Loading
    <3> QED BY <1>1, <3>1, <3>2, <3>3, <3>4, LoopKeepsMap DEF Next
  <2> QED BY <1>3, <2>1, <2>2
<1> QED BY <1>4, <1>5

\* No version lies in the future.
LEMMA VersionsPastStep ==
  ASSUME GoodStep, Uninterrupted, LoopSane, FillsSane, ReadersBound, VersionsPast,
         clock' >= clock,
         [Next]_vars
  PROVE  VersionsPast'
<1>1. TypeInv /\ TypeInv' /\ UNCHANGED scenario
  BY DEF GoodStep
<1>2. /\ clock \in Nat /\ clock' \in Nat /\ fill \in [Fill -> FillState]
      /\ marks \in [Slot -> [status : 0..2, version : Nat]]
  BY <1>1 DEF TypeInv, ServingTyped, FillTyped, MarksTrue
<1>3. \A s \in Slot : marks[s].version \in Nat /\ marks[s].version <= clock'
  BY <1>2 DEF VersionsPast
<1>4. \A f \in Fill : fill[f].version \in Nat /\ fill[f].version <= clock'
  BY <1>2 DEF VersionsPast, FillState
<1>5. \A r \in Reader : reader[r].version \in Nat /\ reader[r].version <= clock'
  <2>1. \A r \in Reader : reader[r].version \in Nat /\ reader[r].version <= clock
    BY <1>1 DEF TypeInv, ReaderTyped, ReaderState, ReadersBound, ReaderBound
  <2> QED BY <1>2, <2>1
<1>6. ASSUME NEW slots, NEW status, NEW version, version <= clock', Mark(slots, status, version)
      PROVE  \A s \in Slot : marks'[s].version <= clock'
  BY <1>3, <1>6 DEF Mark
<1>7. NoMark.version <= clock' /\ NoFill.version <= clock'
  BY <1>2 DEF NoMark, NoFill
<1>8. \A s \in Slot : marks'[s].version <= clock'
  <2>1. CASE UNCHANGED marks
    BY <1>3, <2>1
  <2>2. CASE SourceAdvances \/ SchemaChanges \/ UNCHANGED vars
    BY <2>1, <2>2 DEF SourceAdvances, SchemaChanges, vars, stored
  <2>3. ASSUME NEW f \in Fill, FillNext(f) PROVE \A s \in Slot : marks'[s].version <= clock'
    <3>1. LoopTyped
      BY <1>1 DEF TypeInv
    <3>2. UNCHANGED marks \/ StoreCoverage(f)
      BY <2>3, <3>1, FillFrame
    <3>3. CASE StoreCoverage(f)
      BY <1>4, <1>6, <3>3 DEF StoreCoverage
    <3> QED BY <2>1, <3>2, <3>3
  <2>4. ASSUME NEW r \in Reader, ReaderNext(r) PROVE \A s \in Slot : marks'[s].version <= clock'
    <3>1. UNCHANGED marks \/ StorePoison(r)
      BY <2>4, ReaderFrame
    <3>2. CASE StorePoison(r)
      BY <1>5, <1>6, <2>1, <3>2 DEF StorePoison
    <3> QED BY <2>1, <3>1, <3>2
  <2>5. CASE LoopNext
    <3>1. CASE Quiet \/ StartRound \/ ReloadCoverage \/ ForgetCoverage
      BY <2>1, <3>1 DEF Quiet, StartRound, ReloadCoverage, ForgetCoverage, stored
    <3>2. CASE Reopens
      BY <1>7, <2>1, <3>2 DEF Reopens, Unmarked
    <3>3. CASE Drops
      BY <1>3, <1>7, <3>3 DEF Drops
    <3> QED BY <1>1, <2>5, <3>1, <3>2, <3>3, LoopKind DEF LoopWrites
  <2> QED BY <2>2, <2>3, <2>4, <2>5 DEF Next
<1>9. \A f \in Fill : fill'[f].version <= clock'
  <2>1. CASE UNCHANGED fill
    BY <1>4, <2>1
  <2>2. CASE SourceAdvances \/ SchemaChanges \/ UNCHANGED vars
    BY <2>1, <2>2 DEF SourceAdvances, SchemaChanges, vars
  <2>3. ASSUME NEW f \in Fill, FillNext(f) PROVE \A g \in Fill : fill'[g].version <= clock'
    <3>1. CASE BeginFill(f) \/ ForwardTransactions(f) \/ ValidateCounts(f) \/ ForwardBlocks(f)
               \/ StoreCoverage(f)
      <4>1. PICK pc : fill' = [fill EXCEPT ![f].pc = pc]
        BY <3>1 DEF BeginFill, ForwardTransactions, ValidateCounts, ForwardBlocks, StoreCoverage,
           FillStep
      <4>2. \A g \in Fill : fill'[g].version = fill[g].version
        BY <1>2, <4>1 DEF FillState
      <4> QED BY <1>4, <4>2
    <3>2. CASE StampCoverage(f)
      <4>1. fill' = [fill EXCEPT ![f].pc = "marks", ![f].version = clock + 1] /\ clock' = clock + 1
        BY <3>2 DEF StampCoverage, Tick
      <4>2. \A g \in Fill : fill'[g].version = IF g = f THEN clock' ELSE fill[g].version
        BY <1>2, <4>1 DEF FillState
      <4> QED BY <1>2, <1>4, <4>2
    <3>3. CASE PublishCoverage(f) \/ FillFails(f)
      <4>1. fill' = [fill EXCEPT ![f] = NoFill]
        BY <3>3 DEF PublishCoverage, FillFails
      <4>2. \A g \in Fill : fill'[g] = NoFill \/ fill'[g] = fill[g]
        BY <1>2, <4>1
      <4> QED BY <1>4, <1>7, <4>2
    <3> QED BY <2>3, <3>1, <3>2, <3>3 DEF FillNext
  <2>4. ASSUME NEW r \in Reader, ReaderNext(r) PROVE UNCHANGED fill
    BY <2>4, ReaderFrame
  <2>5. CASE LoopNext
    <3>1. CASE Quiet \/ Drops \/ ReloadCoverage \/ ForgetCoverage
      BY <2>1, <3>1 DEF Quiet, Drops, ReloadCoverage, ForgetCoverage
    <3>2. CASE Reopens
      BY <1>7, <3>2 DEF Reopens
    <3>3. CASE StartRound
      <4> SUFFICES ASSUME NEW f \in Fill PROVE fill'[f].version <= clock'
        OBVIOUS
      <4>1. PICK plan :
               \A g \in Fill : fill'[g] = IF plan[g] = {} THEN NoFill
                    ELSE [pc |-> "begin", range |-> plan[g], publish |-> Provable(plan[g]),
                          version |-> 0]
        BY <1>1, <3>3, RoundPlan
      <4>2. CASE plan[f] = {}
        <5>1. fill'[f] = NoFill
          BY <4>1, <4>2, Zenon
        <5> QED BY <1>7, <5>1
      <4>3. CASE plan[f] # {}
        <5>1. fill'[f] = [pc |-> "begin", range |-> plan[f], publish |-> Provable(plan[f]),
                          version |-> 0]
          BY <4>1, <4>3, Zenon
        <5> QED BY <1>2, <5>1
      <4> QED BY <4>2, <4>3
    <3> QED BY <1>1, <2>5, <3>1, <3>2, <3>3, LoopKind DEF LoopWrites
  <2> QED BY <2>1, <2>2, <2>3, <2>4, <2>5 DEF Next
<1> QED BY <1>8, <1>9 DEF VersionsPast

\* A call for a round without holes finds nothing to evict.
LEMMA SettledKeeps ==
  ASSUME TypeInv, EvictWindow, Settled
  PROVE  loop'.pc = "evicted"
<1>1. /\ coverage # {} /\ loop'.floor = WindowFloor(Max(coverage))
      /\ loop'.pc = "evicted" \/ loop'.floor > minRetained
  BY EvictWindowFacts
<1>2. coverage \subseteq Slot /\ Slot \subseteq Nat /\ minRetained \in Nat /\ Retain \in Nat
  BY Numbers
<1>3. PICK h \in coverage : h = Max(coverage)
  BY <1>1, <1>2, DiskCacheAssumption, MaxExists DEF Slot
<1>4. h \in Nat /\ h - (Retain - 1) <= minRetained
  BY <1>2 DEF Settled
<1>5. WindowFloor(h) = 0 \/ WindowFloor(h) = h - (Retain - 1)
  BY <1>4, WindowFloorFacts
<1>6. loop'.floor = WindowFloor(h)
  BY <1>1, <1>3
<1> QED BY <1>1, <1>2, <1>4, <1>5, <1>6

\* A call for a round without holes never drops anything, and a rebuilding cache is not ready.
LEMMA LoopSaneStep ==
  ASSUME TypeInv, Uninterrupted, LoopSane, FloorSane, [Next]_vars
  PROVE  LoopSane'
<1>1. loop \in LoopState /\ ready \in BOOLEAN
  BY Numbers
<1>2. CASE UNCHANGED <<loop, ready>>
  BY <1>2 DEF LoopSane
<1>3. CASE SourceAdvances \/ SchemaChanges \/ UNCHANGED vars
  BY <1>2, <1>3 DEF SourceAdvances, SchemaChanges, vars, serving
<1>4. ASSUME NEW f \in Fill, FillNext(f) PROVE LoopSane'
  <2>1. LoopTyped
    BY DEF TypeInv
  <2> QED BY <1>4, <2>1, FillFrame DEF LoopSane
<1>5. ASSUME NEW r \in Reader, ReaderNext(r) PROVE LoopSane'
  BY <1>2, <1>5, ReaderFrame
<1>6. CASE LoopNext
  <2>1. LoopGoesOn /\ loop'.budget = "met"
    BY <1>6, LoopTable
  <2>2. CASE LoopSetsOff \/ LoopRebuilds \/ LoopPlans
    <3>1. loop'.pc \in {"evict", "register", "wipe", "adopt", "reload", "filling"}
      BY <2>2 DEF LoopSetsOff, LoopRebuilds, LoopPlans
    <3>2. CASE LoopSetsOff
      BY <2>1, <3>1, <3>2 DEF LoopSane, LoopSetsOff, Rebuilding, Dropping
    <3>3. CASE LoopRebuilds
      <4>1. ~ready /\ ready' = ready
        BY <3>3 DEF LoopRebuilds, LoopSane, Rebuilding
      <4> QED BY <2>1, <3>1, <4>1 DEF LoopSane, Dropping
    <3>4. CASE LoopPlans
      BY <2>1, <3>4 DEF LoopSane, LoopPlans, Rebuilding, Dropping
    <3> QED BY <2>2, <3>2, <3>3, <3>4
  <2>3. CASE LoopDrops
    BY <2>1, <2>3 DEF LoopSane, LoopDrops, Rebuilding, Dropping
  <2>4. CASE LoopStops
    BY <2>1, <2>4 DEF LoopSane, LoopStops, Dropping
  <2>5. CASE ReloadCoverage \/ NothingToEvict \/ ForgetCoverage
    <3>1. loop'.pc \in {"evict", "evicted"}
      BY <1>1, <2>5 DEF ReloadCoverage, NothingToEvict, ForgetCoverage, CallEvict, Go, LoopState
    <3> QED BY <2>1, <3>1 DEF LoopSane, Rebuilding, Dropping
  <2>6. CASE RaiseFloor
    <3>1. loop.pc = "floor" /\ loop'.pc = "forget" /\ loop'.caller = loop.caller
      BY <1>1, <2>6 DEF RaiseFloor, Go, LoopState
    <3> QED BY <2>1, <3>1 DEF LoopSane, Rebuilding, Dropping
  <2>7. CASE EvictWindow
    <3>1. loop.pc = "evict" /\ loop'.caller = loop.caller /\ loop'.pc \in {"evicted", "invalidate"}
      BY <2>7, EvictWindowFacts
    <3>2. loop.caller = "no holes" => Settled
      BY <3>1 DEF FloorSane
    <3>3. loop'.caller = "no holes" => loop'.pc = "evicted"
      BY <2>7, <3>1, <3>2, SettledKeeps
    <3> QED BY <2>1, <3>1, <3>3 DEF LoopSane, Rebuilding, Dropping
  <2>8. CASE Evicted \/ SettleRound
    <3>1. loop'.pc \in {"loop", "plan", "top", "evict"}
      BY <1>1, <2>8, EvictedGoes, RoundSettles
    <3> QED BY <2>1, <3>1 DEF LoopSane, Rebuilding, Dropping
  <2>9. CASE NotEvicted
    <3>1. loop.pc = "not evicted" /\ loop'.caller # "no holes"
      BY <1>1, <2>9, NotEvictedGoes
    <3>2. ready' = FALSE
      BY <1>1, <2>9, <3>1, NotEvictedGoes DEF LoopSane
    <3> QED BY <2>1, <3>1, <3>2 DEF LoopSane
  <2> QED BY <2>1, <2>2, <2>3, <2>4, <2>5, <2>6, <2>7, <2>8, <2>9 DEF LoopGoesOn
<1> QED BY <1>3, <1>4, <1>5, <1>6 DEF Next

\* Outside a round there are no fills.
LEMMA LoopFills ==
  ASSUME TypeInv, FillsSane, LoopNext
  PROVE  StartRound \/ \A f \in Fill : fill'[f] = NoFill
<1>1. CASE Crash
  BY <1>1 DEF Crash
<1>2. CASE SettleRound
  BY <1>2 DEF SettleRound, FillsSane
<1>3. CASE LoopNext /\ ~Crash /\ ~SettleRound /\ ~StartRound
  <2>1. CASE \/ RefreshUnchanged \/ BeginRebuild \/ RegisterRebuild \/ RebuildTables \/ RebuildFails
             \/ AdoptSchema \/ ReloadCoverage \/ ReloadFails
    <3>1. UNCHANGED fill /\ loop.pc # "filling"
      BY <2>1 DEF RefreshUnchanged, BeginRebuild, RegisterRebuild, RebuildTables, RebuildFails,
         AdoptSchema, ReloadCoverage, ReloadFails
    <3> QED BY <3>1 DEF FillsSane
  <2>2. CASE \/ LoopEvicts \/ NothingToEvict \/ EvictWindow \/ EvictBytes \/ PurgeBytes
             \/ BudgetStillExceeded \/ BeginEvict
    <3>1. UNCHANGED fill /\ loop.pc # "filling"
      BY <2>2 DEF LoopEvicts, NothingToEvict, EvictWindow, EvictBytes, PurgeBytes,
         BudgetStillExceeded, BeginEvict
    <3> QED BY <3>1 DEF FillsSane
  <2>3. CASE \/ DropTransactions \/ DropBlocks \/ DropMarks \/ RaiseFloor \/ ForgetCoverage
             \/ DropFails \/ Evicted \/ NotEvicted \/ NoHoles
    <3>1. UNCHANGED fill /\ loop.pc # "filling"
      BY <2>3 DEF DropTransactions, DropBlocks, DropMarks, RaiseFloor, ForgetCoverage, DropFails,
         Evicted, NotEvicted, NoHoles
    <3> QED BY <3>1 DEF FillsSane
  <2> QED BY <1>3, <2>1, <2>2, <2>3 DEF LoopNext
<1> QED BY <1>1, <1>2, <1>3

\* Fills have disjoint uncovered ranges, and end with their round.
LEMMA FillsSaneStep ==
  ASSUME GoodStep, FillsSane, [Next]_vars
  PROVE  FillsSane'
<1>1. TypeInv /\ TypeInv' /\ UNCHANGED scenario /\ tip' >= tip
  BY DEF GoodStep
<1>2. /\ tip \in Nat /\ tip' \in Nat /\ Slot \subseteq Nat /\ fill \in [Fill -> FillState]
      /\ loop \in LoopState /\ Produced' = Produced
  <2>1. tip' \in Nat /\ fill \in [Fill -> FillState]
    BY <1>1 DEF TypeInv, SourceTyped, Known, FillTyped
  <2> QED BY <1>1, <2>1, Numbers DEF Produced
<1>3. \A f \in Fill : \A s \in fill[f].range : s \in Slot /\ s <= tip'
  <2>1. \A f \in Fill : \A s \in fill[f].range : s \in Slot /\ s <= tip
    BY <1>1, <1>2, ScenarioFacts DEF FillState, TypeInv, FillsSane
  <2>2. \A s \in Slot : s <= tip => s <= tip'
    BY <1>1, <1>2
  <2> QED BY <2>1, <2>2
<1>4. ASSUME UNCHANGED <<fill, txs, blocks>>, coverage' \subseteq coverage, loop'.pc = loop.pc
      PROVE  FillsSane'
  <2>1. \A f \in Fill : FillKeeps(fill[f])'
    BY <1>2, <1>4 DEF FillsSane, FillKeeps
  <2>2. /\ \A f \in Fill : fill'[f].pc = "idle" => fill'[f] = NoFill
        /\ loop'.pc # "filling" => \A f \in Fill : fill'[f].pc = "idle"
    BY <1>4 DEF FillsSane
  <2>3. \A f \in Fill : \A s \in fill'[f].range : s <= tip' /\ s \notin coverage'
    BY <1>3, <1>4 DEF FillsSane
  <2>4. \A f, g \in Fill : f # g => fill'[f].range \cap fill'[g].range = {}
    BY <1>4 DEF FillsSane
  <2> QED BY <2>1, <2>2, <2>3, <2>4 DEF FillsSane
<1>5. CASE SourceAdvances \/ SchemaChanges \/ UNCHANGED vars
  BY <1>4, <1>5 DEF SourceAdvances, SchemaChanges, vars, stored, serving
<1>6. ASSUME NEW r \in Reader, ReaderNext(r) PROVE FillsSane'
  <2>1. UNCHANGED <<fill, txs, blocks, loop>> /\ coverage' \subseteq coverage
    BY <1>6, ReaderFrame DEF PoisonCoverage
  <2> QED BY <1>4, <2>1
<1>7. ASSUME \A f \in Fill : fill'[f] = NoFill PROVE FillsSane'
  BY <1>7 DEF FillsSane, FillKeeps, NoFill
<1>8. CASE StartRound
  <2>1. loop'.pc = "filling" /\ UNCHANGED <<coverage, tip>>
    BY <1>2, <1>8 DEF StartRound, Go, LoopState, serving, source
  <2>2. PICK plan :
           /\ \A f \in Fill : fill'[f] = IF plan[f] = {} THEN NoFill
                ELSE [pc |-> "begin", range |-> plan[f], publish |-> Provable(plan[f]), version |-> 0]
           /\ \A f \in Fill : plan[f] \cap coverage = {}
           /\ \A f, g \in Fill : f # g => plan[f] \cap plan[g] = {}
           /\ \A f \in Fill : \A s \in plan[f] : s \in Slot /\ s <= tip /\ s >= tip - (Retain - 1)
    BY <1>1, <1>8, RoundPlan
  <2>3. ASSUME NEW f \in Fill
        PROVE  /\ fill'[f].range = plan[f] /\ fill'[f].publish \subseteq plan[f]
               /\ fill'[f] = NoFill \/ fill'[f].pc = "begin"
    <3>1. CASE plan[f] = {}
      <4>1. fill'[f] = NoFill
        BY <2>2, <3>1, Zenon
      <4> QED BY <3>1, <4>1 DEF NoFill
    <3>2. CASE plan[f] # {}
      <4>1. fill'[f] = [pc |-> "begin", range |-> plan[f], publish |-> Provable(plan[f]),
                        version |-> 0]
        BY <2>2, <3>2, Zenon
      <4> QED BY <4>1 DEF Provable
    <3> QED BY <3>1, <3>2
  <2>4. \A f \in Fill : FillKeeps(fill[f])'
    BY <2>3 DEF FillKeeps, NoFill
  <2>5. \A f \in Fill : \A s \in fill'[f].range : s <= tip' /\ s \notin coverage'
    BY <2>1, <2>2, <2>3
  <2>6. \A f, g \in Fill : f # g => fill'[f].range \cap fill'[g].range = {}
    BY <2>2, <2>3
  <2>7. \A f \in Fill : fill'[f].pc = "idle" => fill'[f] = NoFill
    BY <2>3
  <2> QED BY <2>1, <2>4, <2>5, <2>6, <2>7 DEF FillsSane
<1>9. ASSUME NEW f \in Fill, FillNext(f) PROVE FillsSane'
  <2>1. FillsKeep'
    BY <1>1, <1>9, FillStepKeeps DEF FillsSane, FillsKeep
  <2>2. fill'[f] = NoFill \/ (fill'[f].range = fill[f].range /\ fill'[f].pc # "idle")
    <3>1. CASE \/ BeginFill(f) \/ ForwardTransactions(f) \/ ValidateCounts(f) \/ ForwardBlocks(f)
               \/ StoreCoverage(f)
      BY <1>2, <3>1 DEF BeginFill, ForwardTransactions, ValidateCounts, ForwardBlocks,
         StoreCoverage, FillStep, FillState
    <3>2. CASE StampCoverage(f)
      BY <1>2, <3>2 DEF StampCoverage, FillState
    <3>3. CASE PublishCoverage(f) \/ FillFails(f)
      BY <1>2, <3>3 DEF PublishCoverage, FillFails
    <3> QED BY <1>9, <3>1, <3>2, <3>3 DEF FillNext
  <2>3. \A g \in Fill : g # f => fill'[g] = fill[g]
    <3>1. CASE Stores(f)
      BY <3>1 DEF Stores
    <3>2. CASE StoreCoverage(f) \/ PublishCoverage(f)
      BY <1>2, <3>2 DEF StoreCoverage, PublishCoverage, FillStep
    <3> QED BY <1>1, <1>9, <3>1, <3>2, FillKind DEF FillWrites
  <2>4. coverage' = coverage \/ (coverage' = coverage \cup fill[f].publish /\ fill'[f] = NoFill)
    <3>1. CASE Stores(f) \/ StoreCoverage(f)
      BY <3>1 DEF Stores, StoreCoverage, serving
    <3>2. CASE PublishCoverage(f)
      BY <1>2, <3>2 DEF PublishCoverage
    <3> QED BY <1>1, <1>9, <3>1, <3>2, FillKind DEF FillWrites
  <2>5. \A g, h \in Fill : g # h => fill'[g].range \cap fill'[h].range = {}
    BY <2>2, <2>3 DEF FillsSane, NoFill
  <2>6. ASSUME NEW g \in Fill, NEW s \in fill'[g].range PROVE s <= tip' /\ s \notin coverage'
    <3>1. s \in fill[g].range
      BY <2>2, <2>3 DEF NoFill
    <3>2. s <= tip' /\ s \notin coverage
      BY <1>3, <3>1 DEF FillsSane
    <3>3. CASE coverage' = coverage
      BY <3>2, <3>3
    <3>4. CASE coverage' = coverage \cup fill[f].publish /\ fill'[f] = NoFill
      <4>1. g # f
        BY <3>4 DEF NoFill
      <4>2. s \notin fill[f].range
        BY <3>1, <4>1 DEF FillsSane
      <4>3. fill[f].publish \subseteq fill[f].range
        BY DEF FillsSane, FillKeeps
      <4> QED BY <3>2, <3>4, <4>2, <4>3
    <3> QED BY <2>4, <3>3, <3>4
  <2>7. \A g \in Fill : fill'[g].pc = "idle" => fill'[g] = NoFill
    BY <2>2, <2>3 DEF FillsSane
  <2> QED BY <2>1, <2>5, <2>6, <2>7 DEF FillsSane, FillsKeep
<1> QED BY <1>1, <1>5, <1>6, <1>7, <1>8, <1>9, LoopFills DEF Next

\* The floor of a map that is not empty is its smallest slot.
LEMMA FloorOfMap ==
  ASSUME NEW S \in SUBSET Slot, S # {}
  PROVE  \A s \in S : Min(S) <= s
<1>1. S \in SUBSET Nat
  BY DiskCacheAssumption DEF Slot
<1> QED BY <1>1, MinExists

\* The floor is at or below what is covered, and less than a window below all of it once
\* maybe_evict has returned.
LEMMA FloorSaneStep ==
  ASSUME GoodStep, Uninterrupted, LoopSane, FillsSane, SeenUpToTip, FloorSane, [Next]_vars
  PROVE  FloorSane'
<1>1. TypeInv /\ TypeInv' /\ UNCHANGED scenario /\ tip' >= tip
  BY DEF GoodStep
<1>2. /\ tip \in Nat /\ tip' \in Nat /\ Slot \subseteq Nat /\ coverage \subseteq Slot
      /\ loop \in LoopState /\ ready \in BOOLEAN /\ loop.floor \in Nat /\ minRetained \in Nat
      /\ Retain \in Nat \ {0} /\ Retain' = Retain
  <2>1. tip' \in Nat /\ Retain' = Retain
    BY <1>1 DEF TypeInv, SourceTyped, Known, Retain
  <2> QED BY <1>1, <2>1, Numbers
<1>3. coverage' \subseteq Slot
  <2>1. coverage' \subseteq Known /\ Known \subseteq Slot
    BY <1>1, ScenarioFacts DEF TypeInv, ServingTyped, Known, Last
  <2> QED BY <2>1
<1> DEFINE Grounded == \A s \in coverage : minRetained <= s
           Bounded == /\ \A s \in coverage : s - (Retain - 1) <= loop.floor
                      /\ loop.floor <= tip - (Retain - 1)
<1>4. /\ loop.pc # "forget" => Grounded
      /\ loop.pc = "forget" => minRetained = loop.floor
      /\ loop.pc \in {"evicted", "plan"} => Settled
      /\ loop.pc \in Dropping => Bounded
  BY DEF FloorSane
\* The steps after which only the first part says anything.
<1>5. ASSUME \A s \in coverage' : minRetained' <= s, loop'.pc \notin Dropping \cup {"evicted",
             "plan"},
             loop'.pc = "evict" => loop'.caller # "no holes"
      PROVE  FloorSane'
  BY <1>5 DEF FloorSane, Dropping
<1>6. ASSUME UNCHANGED <<coverage, minRetained>>, loop.pc # "forget",
             loop'.pc \notin Dropping \cup {"evicted", "plan"},
             loop'.pc = "evict" => loop'.caller # "no holes"
      PROVE  FloorSane'
  BY <1>4, <1>5, <1>6
\* The steps that leave the loop where it is.
<1>7. ASSUME UNCHANGED <<loop, minRetained>>, coverage' \subseteq coverage PROVE FloorSane'
  <2>1. Settled => Settled'
    BY <1>2, <1>7 DEF Settled
  <2>2. loop.floor <= tip - (Retain - 1) => loop.floor <= tip' - (Retain - 1)
    BY <1>1, <1>2
  <2> HIDE DEF Settled
  <2> QED BY <1>2, <1>7, <2>1, <2>2 DEF FloorSane
<1>8. CASE SourceAdvances \/ SchemaChanges \/ UNCHANGED vars
  BY <1>7, <1>8 DEF SourceAdvances, SchemaChanges, vars, serving
<1>9. ASSUME NEW r \in Reader, ReaderNext(r) PROVE FloorSane'
  <2>1. UNCHANGED <<loop, minRetained>> /\ coverage' \subseteq coverage
    BY <1>9, ReaderFrame DEF PoisonCoverage
  <2> QED BY <1>7, <2>1
<1>10. ASSUME NEW f \in Fill, FillNext(f) PROVE FloorSane'
  <2>1. loop.pc = "filling" /\ loop'.pc = "filling"
    BY <1>1, <1>10, FillKind DEF FillWrites
  <2>2. CASE ~PublishCoverage(f)
    <3>1. UNCHANGED <<coverage, minRetained>>
      BY <1>10, <2>2 DEF FillNext, BeginFill, ForwardTransactions, ValidateCounts, ForwardBlocks,
         StampCoverage, StoreCoverage, FillFails, serving
    <3> QED BY <1>6, <2>1, <3>1 DEF Dropping
  <2>3. CASE PublishCoverage(f)
    <3>1. CASE fill[f].publish = {}
      <4>1. UNCHANGED <<coverage, minRetained>>
        BY <2>3, <3>1 DEF PublishCoverage
      <4> QED BY <1>6, <2>1, <4>1 DEF Dropping
    <3>2. CASE fill[f].publish # {}
      <4>1. coverage' # {} /\ minRetained' = Min(coverage')
        BY <2>3, <3>2 DEF PublishCoverage
      <4>2. \A s \in coverage' : minRetained' <= s
        BY <1>3, <4>1, FloorOfMap
      <4> QED BY <1>5, <2>1, <4>2 DEF Dropping
    <3> QED BY <3>1, <3>2
  <2> QED BY <2>2, <2>3
<1>11. CASE LoopNext
  <2>1. LoopGoesOn
    BY <1>1, <1>11, LoopTable
  <2>2. CASE LoopSetsOff \/ LoopRebuilds
    BY <1>6, <2>2 DEF LoopSetsOff, LoopRebuilds, Still, Dropping
  <2>3. CASE LoopDrops
    <3>1. /\ UNCHANGED <<coverage, minRetained>> /\ loop'.floor = loop.floor
          /\ loop.pc \in Dropping \ {"forget"}
          /\ loop'.pc \in (Dropping \ {"forget"}) \cup {"not evicted"}
      BY <2>3 DEF LoopDrops, Still, Dropping
    <3>2. Bounded /\ Grounded
      BY <1>4, <3>1
    <3>3. loop.floor <= tip' - (Retain - 1)
      BY <1>1, <1>2, <3>2
    <3> QED BY <1>2, <3>1, <3>2, <3>3 DEF FloorSane, Dropping
  <2>4. CASE LoopPlans
    <3>1. /\ UNCHANGED <<coverage, minRetained>> /\ loop.pc = "plan"
          /\ loop'.pc \in {"evict", "filling"}
      BY <2>4 DEF LoopPlans, Still
    <3>2. Settled' /\ Grounded
      BY <1>2, <1>4, <3>1 DEF Settled
    <3> QED BY <3>1, <3>2 DEF FloorSane, Dropping
  <2>5. CASE LoopStops
    BY <1>5, <2>5 DEF LoopStops, Dropping
  <2>6. CASE ReloadCoverage
    <3>1. loop'.pc = "evict" /\ loop'.caller # "no holes"
      BY <1>2, <2>6 DEF ReloadCoverage, CallEvict, LoopState
    <3>2. coverage' # {} => minRetained' = Min(coverage')
      BY <2>6 DEF ReloadCoverage
    <3>3. \A s \in coverage' : minRetained' <= s
      BY <1>3, <3>2, FloorOfMap
    <3> QED BY <1>5, <3>1, <3>3 DEF Dropping
  <2>7. CASE NothingToEvict
    <3>1. coverage' = {} /\ loop'.pc = "evicted"
      BY <1>2, <2>7 DEF NothingToEvict, Go, LoopState, serving
    <3> QED BY <3>1 DEF FloorSane, Settled, Dropping
  <2>8. CASE EvictWindow
    <3>1. /\ loop.pc = "evict" /\ coverage # {} /\ UNCHANGED <<coverage, minRetained>>
          /\ loop'.floor = WindowFloor(Max(coverage))
          /\ \/ loop'.pc = "invalidate" /\ loop'.floor > minRetained
             \/ loop'.pc = "evicted" /\ ~(loop'.floor > minRetained)
      BY <1>1, <2>8, EvictWindowFacts DEF serving
    <3>2. PICK h \in coverage : h = Max(coverage) /\ \A s \in coverage : s <= h
      BY <1>2, <3>1, DiskCacheAssumption, MaxExists DEF Slot
    <3>3. h \in Nat /\ h <= tip
      BY <1>2 DEF SeenUpToTip
    <3>4. /\ WindowFloor(h) \in Nat /\ h - (Retain - 1) <= WindowFloor(h)
          /\ WindowFloor(h) = 0 \/ WindowFloor(h) = h - (Retain - 1)
      BY <1>1, <3>3, WindowFloorFacts
    <3>5. PICK w \in Nat : /\ w = WindowFloor(h) /\ loop'.floor = w
      BY <3>1, <3>2, <3>4
    <3>6. \A s \in coverage : s - (Retain - 1) <= w
      <4> SUFFICES ASSUME NEW s \in coverage PROVE s - (Retain - 1) <= w
        OBVIOUS
      <4>1. s \in Nat /\ s <= h /\ h - (Retain - 1) <= w
        BY <1>2, <3>2, <3>4, <3>5
      <4> QED BY <1>2, <3>3, <4>1
    <3>7. CASE loop'.pc = "evicted" /\ ~(w > minRetained)
      <4>1. \A s \in coverage : s - (Retain - 1) <= minRetained
        BY <1>2, <3>6, <3>7
      <4>2. Settled'
        BY <1>2, <3>1, <4>1 DEF Settled
      <4>3. \A s \in coverage' : minRetained' <= s
        BY <1>4, <3>1
      <4> QED BY <3>7, <4>2, <4>3 DEF FloorSane, Dropping
    <3>8. CASE loop'.pc = "invalidate" /\ w > minRetained
      <4>1. w <= tip' - (Retain - 1)
        BY <1>1, <1>2, <3>3, <3>4, <3>5, <3>8
      <4>2. \A s \in coverage' : minRetained' <= s
        BY <1>4, <3>1
      <4> QED BY <1>2, <3>1, <3>5, <3>6, <3>8, <4>1, <4>2 DEF FloorSane, Dropping
    <3> QED BY <3>1, <3>5, <3>7, <3>8
  <2>9. CASE RaiseFloor
    <3>1. /\ loop.pc = "floor" /\ loop'.pc = "forget" /\ loop'.floor = loop.floor
          /\ minRetained' = loop.floor /\ UNCHANGED coverage
      BY <1>2, <2>9 DEF RaiseFloor, Go, LoopState
    <3>2. Bounded
      BY <1>4, <3>1 DEF Dropping
    <3>3. loop.floor <= tip' - (Retain - 1)
      BY <1>1, <1>2, <3>2
    <3> QED BY <1>2, <3>1, <3>2, <3>3 DEF FloorSane
  <2>10. CASE ForgetCoverage
    <3>1. /\ loop.pc = "forget" /\ loop'.pc = "evicted" /\ UNCHANGED minRetained
          /\ coverage' = {s \in coverage : s >= loop.floor}
      BY <1>2, <2>10 DEF ForgetCoverage, Go, LoopState
    <3>2. minRetained = loop.floor /\ Bounded
      BY <1>4, <3>1 DEF Dropping
    <3>3. Settled'
      BY <1>2, <3>1, <3>2 DEF Settled
    <3>4. \A s \in coverage' : minRetained' <= s
      BY <1>2, <3>1, <3>2
    <3> QED BY <3>1, <3>3, <3>4 DEF FloorSane, Dropping
  <2>11. CASE Evicted
    <3>1. /\ loop.pc = "evicted" /\ UNCHANGED <<coverage, minRetained>>
          /\ loop'.pc \in {"loop", "plan", "top"}
      BY <1>2, <2>11, EvictedGoes
    <3>2. Settled' /\ Grounded
      BY <1>2, <1>4, <3>1 DEF Settled
    <3> QED BY <3>1, <3>2 DEF FloorSane, Dropping
  <2>12. CASE NotEvicted
    BY <1>2, <1>6, <2>12, NotEvictedGoes DEF Dropping
  <2>13. CASE SettleRound
    <3>1. /\ loop.pc = "filling" /\ UNCHANGED <<coverage, minRetained>>
          /\ loop'.pc \in {"evict", "top"} /\ loop'.caller # "no holes"
      BY <1>2, <2>13, RoundSettles
    <3> QED BY <1>6, <3>1 DEF Dropping
  <2> HIDE DEF Grounded, Bounded
  <2> QED BY <2>1, <2>2, <2>3, <2>4, <2>5, <2>6, <2>7, <2>8, <2>9, <2>10, <2>11, <2>12, <2>13
          DEF LoopGoesOn
<1> QED BY <1>8, <1>9, <1>10, <1>11 DEF Next

-----------------------------------------------------------------------------
(***************************************************************************)
(* What is served has its rows.                                            *)
(***************************************************************************)
Serving == (ready /\ loop.pc \in {"top", "loop", "evict", "invalidate"}) \/ loop.pc = "filling"

\* A slot without rows would lie a window below a covered one, and so below the floor.
LEMMA SettledIsClean ==
  ASSUME TypeInv, LostDoomed, FloorSane, Settled, loop.pc \in {"evicted", "plan"}
  PROVE  Clean
<1>1. coverage \subseteq Slot /\ Slot \subseteq Nat /\ minRetained \in Nat /\ Retain \in Nat \ {0}
  BY Numbers
<1> SUFFICES ASSUME NEW s \in coverage, ~Stored(s) PROVE FALSE
  BY DEF Clean
<1>2. Live(s) /\ s \in Slot /\ minRetained <= s
  BY <1>1 DEF Live, Loading, FloorSane
<1>3. PICK m \in Slot : Firm(m) /\ m >= s + Retain
  BY <1>2 DEF LostDoomed, Held
<1>4. m \in coverage
  BY <1>3 DEF Firm, Live, Loading
<1>5. m - (Retain - 1) <= minRetained
  BY <1>4 DEF Settled
<1> QED BY <1>1, <1>2, <1>3, <1>4, <1>5

\* Serving begins where maybe_evict has settled the floor.
LEMMA ServingBegins ==
  ASSUME TypeInv, Uninterrupted, LoopSane, [Next]_vars, Serving'
  PROVE  Serving \/ loop.pc \in {"evicted", "plan"}
<1>1. loop \in LoopState /\ ready \in BOOLEAN
  BY Numbers
<1>2. CASE UNCHANGED ready /\ loop'.pc = loop.pc
  BY <1>2 DEF Serving
<1>3. CASE SourceAdvances \/ SchemaChanges \/ UNCHANGED vars
  BY <1>2, <1>3 DEF SourceAdvances, SchemaChanges, vars, serving
<1>4. ASSUME NEW f \in Fill, FillNext(f) PROVE UNCHANGED ready /\ loop'.pc = loop.pc
  <2>1. LoopTyped
    BY DEF TypeInv
  <2> QED BY <1>4, <2>1, FillFrame
<1>5. ASSUME NEW r \in Reader, ReaderNext(r) PROVE UNCHANGED ready /\ loop'.pc = loop.pc
  BY <1>5, ReaderFrame
<1>6. CASE LoopNext
  <2>1. LoopGoesOn
    BY <1>6, LoopTable
  <2>2. CASE LoopSetsOff \/ LoopPlans
    BY <2>2 DEF LoopSetsOff, LoopPlans, Serving
  <2>3. CASE LoopRebuilds \/ LoopDrops \/ LoopStops
    BY <2>3 DEF LoopRebuilds, LoopDrops, LoopStops, Serving
  <2>4. CASE NothingToEvict \/ RaiseFloor \/ ForgetCoverage
    <3>1. loop'.pc \in {"evicted", "forget"}
      BY <1>1, <2>4 DEF NothingToEvict, RaiseFloor, ForgetCoverage, Go, LoopState
    <3> QED BY <3>1 DEF Serving
  <2>5. CASE ReloadCoverage
    <3>1. ~ready /\ UNCHANGED ready /\ loop'.pc = "evict"
      BY <1>1, <2>5 DEF ReloadCoverage, CallEvict, LoopState, LoopSane, Rebuilding
    <3> QED BY <3>1 DEF Serving
  <2>6. CASE EvictWindow
    <3>1. loop.pc = "evict" /\ UNCHANGED ready /\ loop'.pc \in {"evicted", "invalidate"}
      BY <2>6, EvictWindowFacts DEF serving
    <3> QED BY <3>1 DEF Serving
  <2>7. CASE Evicted
    BY <1>1, <2>7, EvictedGoes
  <2>8. CASE NotEvicted
    <3>1. loop.pc = "not evicted" /\ loop'.pc \in {"reload", "loop", "top"}
      BY <1>1, <2>8, NotEvictedGoes
    <3>2. ready' = FALSE
      BY <1>1, <2>8, <3>1, NotEvictedGoes DEF LoopSane
    <3> QED BY <3>1, <3>2 DEF Serving
  <2>9. CASE SettleRound
    BY <1>1, <2>9, RoundSettles DEF Serving
  <2> QED BY <2>1, <2>2, <2>3, <2>4, <2>5, <2>6, <2>7, <2>8, <2>9 DEF LoopGoesOn
<1> QED BY <1>2, <1>3, <1>4, <1>5, <1>6 DEF Next

\* What is served when the loop does not evict has its rows.
LEMMA ServesCleanStep ==
  ASSUME GoodStep, Uninterrupted, LoopSane, FillsSane, FloorSane, LostDoomed, ServesClean,
         [Next]_vars
  PROVE  ServesClean'
<1>1. TypeInv /\ UNCHANGED scenario /\ RowsLost
  BY DEF GoodStep, Shape
<1>2. loop \in LoopState /\ coverage \subseteq Slot
  BY <1>1, Numbers
<1> SUFFICES ASSUME Serving' PROVE Clean'
  BY DEF ServesClean, Serving
<1>3. Clean
  <2>1. CASE Serving
    BY <2>1 DEF ServesClean, Serving
  <2>2. CASE loop.pc \in {"evicted", "plan"}
    <3>1. Settled
      BY <2>2 DEF FloorSane
    <3> QED BY <1>1, <2>2, <3>1, SettledIsClean
  <2> QED BY <1>1, <2>1, <2>2, ServingBegins
<1>4. loop'.pc \notin Loading \cup Dropping \cup {"not evicted"} \/ loop'.pc = "invalidate"
  BY DEF Serving, Loading, Dropping
<1>5. loop'.pc \notin Loading
  BY <1>4 DEF Loading, Dropping
<1> SUFFICES ASSUME NEW s \in coverage', ~Stored(s)' PROVE FALSE
  BY DEF Clean, Stored, Produced
<1>6. s \in coverage \/ \E f \in Fill : PublishCoverage(f) /\ s \in fill[f].publish
  <2>1. CASE SourceAdvances \/ SchemaChanges \/ UNCHANGED vars
    BY <2>1 DEF SourceAdvances, SchemaChanges, vars, serving
  <2>2. ASSUME NEW r \in Reader, ReaderNext(r) PROVE s \in coverage
    BY <2>2, ReaderFrame DEF PoisonCoverage
  <2>3. ASSUME NEW f \in Fill, FillNext(f)
        PROVE  s \in coverage \/ (PublishCoverage(f) /\ s \in fill[f].publish)
    <3>1. CASE Stores(f) \/ StoreCoverage(f)
      BY <3>1 DEF Stores, StoreCoverage, serving
    <3>2. CASE PublishCoverage(f)
      BY <3>2 DEF PublishCoverage
    <3> QED BY <1>1, <2>3, <3>1, <3>2, FillKind DEF FillWrites
  <2>4. CASE LoopNext
    <3>1. ~ReloadCoverage
      <4> SUFFICES ASSUME ReloadCoverage PROVE FALSE
        OBVIOUS
      <4>1. ~ready /\ UNCHANGED ready /\ loop'.pc = "evict"
        BY <1>2 DEF ReloadCoverage, CallEvict, LoopState, LoopSane, Rebuilding
      <4> QED BY <4>1 DEF Serving
    <3> QED BY <1>1, <2>4, <3>1, LoopKeepsMap
  <2> QED BY <2>1, <2>2, <2>3, <2>4 DEF Next
<1>7. CASE s \in coverage
  <2>1. Stored(s) /\ s \in Slot
    BY <1>2, <1>3, <1>7 DEF Clean
  <2>2. ~NothingHeld'
    BY <1>5, <2>1 DEF NothingHeld, Held, Live, Slot
  <2>3. loop.pc \in {"drop txs", "drop blocks"}
    BY <1>1, <2>1, <2>2 DEF RowsLost
  <2> QED BY <1>1, <2>3, ServingBegins DEF Serving
<1>8. ASSUME NEW f \in Fill, PublishCoverage(f), s \in fill[f].publish PROVE FALSE
  <2>1. fill[f].pc = "publish" /\ UNCHANGED <<txs, blocks>>
    BY <1>8 DEF PublishCoverage, stored
  <2>2. s \in fill[f].range /\ fill[f].range \cap Produced \subseteq txs \cap blocks
    BY <1>8, <2>1 DEF FillsSane, FillKeeps
  <2> QED BY <1>1, <2>1, <2>2 DEF Stored, Produced
<1> QED BY <1>6, <1>7, <1>8

-----------------------------------------------------------------------------
(***************************************************************************)
(* The inductive invariant.                                                *)
(***************************************************************************)
RetentionInv ==
  Uninterrupted =>
    /\ ReadersBound /\ VersionsPast /\ LoopSane /\ FillsSane /\ FloorSane /\ SeenUpToTip
    /\ Explained /\ LostDoomed /\ UnmarkedYoung /\ PublishYoung /\ EvictSane /\ ServesClean

\* It holds of a cache that has just been opened,
LEMMA RetentionStarts == Init => RetentionInv
<1> SUFFICES ASSUME Init PROVE RetentionInv
  OBVIOUS
<1>1. /\ coverage = {} /\ marks = Unmarked /\ clock = 0 /\ loop = AtTop
      /\ fill = [f \in Fill |-> NoFill] /\ reader = [r \in Reader |-> Idle]
  BY DEF Init
<1>2. \A s \in Slot : ~Marked(s) /\ marks[s].version = 0
  BY <1>1 DEF Marked, Unmarked, NoMark
<1>3. \A s \in Slot : ~Held(s) /\ ~Live(s)
  BY <1>1, <1>2 DEF Held, Live
<1>4. ReadersBound
  BY <1>1 DEF ReadersBound, ReaderBound, Idle, Poisoning, BlockKind
<1>5. VersionsPast
  BY <1>1, <1>2 DEF VersionsPast, NoFill
<1>6. LoopSane
  BY <1>1 DEF LoopSane, AtTop, Rebuilding
<1>7. FillsSane
  BY <1>1 DEF FillsSane, FillKeeps, NoFill
<1>8. FloorSane
  BY <1>1 DEF FloorSane, AtTop, Dropping
<1>9. SeenUpToTip /\ ServesClean
  BY <1>1, <1>2 DEF SeenUpToTip, ServesClean, Clean
<1>10. Explained
  <2>1. Suspects = {} /\ Watched = {}
    BY <1>1 DEF Suspects, Watched, Tainted, Idle, BlockKind
  <2> QED BY <2>1 DEF Explained
<1>11. LostDoomed /\ UnmarkedYoung
  BY <1>3 DEF LostDoomed, UnmarkedYoung
<1>12. PublishYoung
  BY <1>1 DEF PublishYoung, NoFill
<1>13. EvictSane
  BY <1>1 DEF EvictSane, AtTop, Dropping
<1> QED BY <1>4, <1>5, <1>6, <1>7, <1>8, <1>9, <1>10, <1>11, <1>12, <1>13 DEF RetentionInv

\* and every step keeps it.
LEMMA RetentionStep ==
  TypeInv /\ BlockReadsTrue /\ RetentionInv /\ [Next]_vars => RetentionInv'
<1> SUFFICES ASSUME TypeInv, BlockReadsTrue, RetentionInv, [Next]_vars, Uninterrupted'
             PROVE  RetentionInv'
  BY DEF RetentionInv
<1>1. Uninterrupted
  BY ScenarioFixed DEF Uninterrupted, Upkeep
<1>2. /\ ReadersBound /\ VersionsPast /\ LoopSane /\ FillsSane /\ FloorSane /\ SeenUpToTip
      /\ Explained /\ LostDoomed /\ UnmarkedYoung /\ PublishYoung /\ EvictSane /\ ServesClean
  BY <1>1 DEF RetentionInv
<1>3. GoodStep
  BY <1>1, <1>2, GoodSteps
<1>4. clock' >= clock
  BY <1>2, ReadersMoveStep
<1>5. FloorGoesOn /\ DropsGoOn
  BY <1>1, <1>2, FloorSteps, DropSteps
<1>6. ReadersBound'
  BY <1>2, <1>3, ReadersBoundStep
<1>7. VersionsPast'
  BY <1>1, <1>2, <1>3, <1>4, VersionsPastStep
<1>8. LoopSane'
  BY <1>1, <1>2, LoopSaneStep
<1>9. FillsSane'
  BY <1>2, <1>3, FillsSaneStep
<1>10. FloorSane'
  BY <1>1, <1>2, <1>3, FloorSaneStep
<1>11. SeenUpToTip'
  BY <1>1, <1>2, <1>3, SeenUpToTipStep
<1>12. Explained'
  BY <1>2, <1>3, ExplainedStep
<1>13. LostDoomed'
  BY <1>2, <1>3, LostDoomedStep
<1>14. UnmarkedYoung'
  BY <1>2, <1>3, <1>5, UnmarkedYoungStep
<1>15. PublishYoung'
  BY <1>1, <1>2, <1>3, PublishYoungStep
<1>16. EvictSane'
  BY <1>2, <1>3, <1>5, EvictSaneStep
<1>17. ServesClean'
  BY <1>1, <1>2, <1>3, ServesCleanStep
<1> QED BY <1>6, <1>7, <1>8, <1>9, <1>10, <1>11, <1>12, <1>13, <1>14, <1>15, <1>16, <1>17
        DEF RetentionInv

(***************************************************************************)
(* Retention keeps what it serves: whatever the window evicts, whichever   *)
(* drop fails and wherever the process stops, when the loop is at its top  *)
(* every slot the cache serves has its rows, and no floor passes the end   *)
(* of the partition of the newest slot.                                    *)
(***************************************************************************)
THEOREM RetentionKept == Spec => []RetentionSound
<1>1. Init => BlockReadsTrue
  BY IdleBlockRead DEF Init, BlockReadsTrue
<1>2. RetentionInv => ServedUnlessInterrupted
  BY DEF RetentionInv, Uninterrupted, ServesClean, Clean, ServedUnlessInterrupted, ServedIsStored,
     Quiescent
<1>3. Spec => []BlockReadsTrue
  BY <1>1, TypeCorrect, BlockReadsStep, PTL DEF Spec
<1>4. Spec => []RetentionInv
  BY <1>3, RetentionStarts, RetentionStep, TypeCorrect, PTL DEF Spec
<1>5. ServedUnlessInterrupted /\ FloorWithinReach => RetentionSound
  BY DEF RetentionSound
<1> QED BY <1>2, <1>4, <1>5, FloorsInReach, PTL
=============================================================================
