---------------------------- MODULE CoverageMap -----------------------------
(***************************************************************************)
(* The in-memory coverage map of the disk cache                            *)
(* (crates/superbank-rpc/src/disk_cache/coverage.rs): a BTreeMap from the  *)
(* first to the last slot of each covered range.  A map is a function whose*)
(* domain is the set of its keys.  MaxU64 stands for u64::MAX: additions   *)
(* the code saturates are saturated here, so the checks reach that edge.   *)
(***************************************************************************)
EXTENDS Integers, FiniteSetsExt

CONSTANT MaxU64

ASSUME MaxU64Assumption == MaxU64 \in Nat

VARIABLE ranges

U64 == 0..MaxU64

SaturatingSucc(s) == IF s = MaxU64 THEN s ELSE s + 1

(***************************************************************************)
(* map.range(..=s).next_back(): the key of the last range that starts at   *)
(* or before s, as a set with at most one element.                         *)
(***************************************************************************)
Preceding(f, s) ==
  {k \in DOMAIN f : k <= s /\ \A j \in DOMAIN f : j <= s => j <= k}

(***************************************************************************)
(* insert_range.  A range that starts before us and touches us is absorbed *)
(* first, then every range that starts within or next to the widened one.  *)
(***************************************************************************)
InsertForgetsAdjacent(f, start, end) ==
  LET left     == {k \in Preceding(f, start) : f[k] >= start}
      newStart == IF left = {} THEN start ELSE CHOOSE k \in left : TRUE
      midEnd   == Max({end} \cup {f[k] : k \in left})
      absorbed == {k \in DOMAIN f \ left : newStart <= k /\ k <= midEnd}
      newEnd   == Max({midEnd} \cup {f[k] : k \in absorbed})
      kept     == DOMAIN f \ (left \cup absorbed)
  IN  IF end < start THEN f
      ELSE [k \in kept \cup {newStart} |-> IF k = newStart THEN newEnd ELSE f[k]]

InsertKeepsShortEnd(f, start, end) ==
  LET left     == {k \in Preceding(f, start) : SaturatingSucc(f[k]) >= start}
      newStart == IF left = {} THEN start ELSE CHOOSE k \in left : TRUE
      absorbed == {k \in DOMAIN f \ left : newStart <= k /\ k <= SaturatingSucc(end)}
      kept     == DOMAIN f \ (left \cup absorbed)
  IN  IF end < start THEN f
      ELSE [k \in kept \cup {newStart} |-> IF k = newStart THEN end ELSE f[k]]

WithRange(f, start, end) ==
  LET left     == {k \in Preceding(f, start) : SaturatingSucc(f[k]) >= start}
      newStart == IF left = {} THEN start ELSE CHOOSE k \in left : TRUE
      midEnd   == Max({end} \cup {f[k] : k \in left})
      absorbed == {k \in DOMAIN f \ left :
                     newStart <= k /\ k <= SaturatingSucc(midEnd)}
      newEnd   == Max({midEnd} \cup {f[k] : k \in absorbed})
      kept     == DOMAIN f \ (left \cup absorbed)
  IN  IF end < start THEN f
      ELSE [k \in kept \cup {newStart} |-> IF k = newStart THEN newEnd ELSE f[k]]

(***************************************************************************)
(* remove: the range that holds the slot is split around it.               *)
(***************************************************************************)
Without(f, slot) ==
  LET hit   == {k \in Preceding(f, slot) : slot <= f[k]}
      start == CHOOSE k \in hit : TRUE
      left  == {k \in hit : k < slot}
      right == IF slot < f[start] THEN {slot + 1} ELSE {}
  IN  IF hit = {} THEN f
      ELSE [k \in (DOMAIN f \ hit) \cup left \cup right |->
              IF k \in left THEN slot - 1
              ELSE IF k \in right THEN f[start] ELSE f[k]]

(***************************************************************************)
(* remove_below: every range that starts below the floor goes; the one     *)
(* that reaches the floor comes back cut at it.                            *)
(***************************************************************************)
From(f, floor) ==
  LET below == {k \in DOMAIN f : k < floor}
      cut   == {k \in below : f[k] >= floor}
      kept  == DOMAIN f \ below
  IN  IF cut = {} THEN [k \in kept |-> f[k]]
      ELSE [k \in kept \cup {floor} |->
              IF k = floor THEN f[CHOOSE c \in cut : TRUE] ELSE f[k]]

(***************************************************************************)
(* Queries.                                                                *)
(***************************************************************************)
Contains(f, slot) == \E k \in Preceding(f, slot) : slot <= f[k]

IntersectsStartOnly(f, start, end) == \E k \in Preceding(f, start) : f[k] >= start

\* The code looks only at the last range that starts at or before end.
Intersects(f, start, end) == \E k \in Preceding(f, end) : f[k] >= start

CoveredSpan(f) ==
  IF DOMAIN f = {} THEN {} ELSE {<<Min(DOMAIN f), f[Max(DOMAIN f)]>>}

ContiguousTipSpan(f) ==
  IF DOMAIN f = {} THEN {} ELSE {<<Max(DOMAIN f), f[Max(DOMAIN f)]>>}

Intersections(f, start, end) ==
  {<<Max({k, start}), Min({f[k], end})>> :
     k \in {j \in DOMAIN f : j <= end /\ Max({j, start}) <= Min({f[j], end})}}

(***************************************************************************)
(* holes_in: the cursor starts past a range that swallows the beginning of *)
(* the window, then moves past each range inside it; a hole runs from the  *)
(* cursor to the slot before the next range, or to the end of the window.  *)
(***************************************************************************)
HolesIgnoringLeftRange(f, start, end) ==
  LET inside  == {k \in DOMAIN f : start <= k /\ k <= end}
      cursors == {c \in {start} \cup {f[k] + 1 : k \in inside} :
                    c <= end /\ c \notin inside}
      stop(c) == Min({end} \cup {k - 1 : k \in {j \in inside : j > c}})
  IN  {<<c, stop(c)>> : c \in cursors}

HolesIn(f, start, end) ==
  LET swallowing == {k \in Preceding(f, start) : f[k] >= start}
      cursor0    == IF swallowing = {} THEN start
                    ELSE f[CHOOSE k \in swallowing : TRUE] + 1
      inside     == {k \in DOMAIN f : cursor0 <= k /\ k <= end}
      cursors    == {c \in {cursor0} \cup {f[k] + 1 : k \in inside} :
                       c <= end /\ c \notin inside}
      stop(c)    == Min({end} \cup {k - 1 : k \in {j \in inside : j > c}})
  IN  {<<c, stop(c)>> : c \in cursors}

-----------------------------------------------------------------------------
CoverageInit == ranges = [k \in {} |-> k]

InsertRange(start, end) == ranges' = WithRange(ranges, start, end)

Remove(slot) == ranges' = Without(ranges, slot)

RemoveBelow(floor) == ranges' = From(ranges, floor)

CoverageNext ==
  \/ \E start, end \in U64 : InsertRange(start, end)
  \/ \E slot \in U64 : Remove(slot)
  \/ \E floor \in U64 : RemoveBelow(floor)

CoverageSpec == CoverageInit /\ [][CoverageNext]_ranges

-----------------------------------------------------------------------------
(***************************************************************************)
(* The slots a map denotes.                                                *)
(***************************************************************************)
SlotsOf(f) == {s \in U64 : \E k \in DOMAIN f : k <= s /\ s <= f[k]}

(***************************************************************************)
(* The map is a function from slots to slots.                              *)
(***************************************************************************)
RangesOK ==
  /\ DOMAIN ranges \subseteq U64
  /\ ranges \in [DOMAIN ranges -> U64]

(***************************************************************************)
(* Ranges are non-empty, disjoint and non-adjacent, as the comment on the  *)
(* field promises and as every BTreeMap range query above relies on.       *)
(***************************************************************************)
Merged ==
  /\ \A k \in DOMAIN ranges : k <= ranges[k]
  /\ \A j, k \in DOMAIN ranges : j < k => ranges[j] + 1 < k

(***************************************************************************)
(* The map refines the plain set of slots: no operation loses, invents or  *)
(* resurrects a slot, at either end of u64.                                *)
(***************************************************************************)
Abstract == INSTANCE SlotSet WITH MaxSlot <- MaxU64, covered <- SlotsOf(ranges)

ImplementsSlotSet == Abstract!Spec

(***************************************************************************)
(* The point and range queries agree with the set they summarise: contains *)
(* and intersects decide membership from one range only, the tip span is   *)
(* the maximal covered run that ends at the newest covered slot, and       *)
(* intersections are exactly the covered part of the window.               *)
(***************************************************************************)
QueriesAgree ==
  LET covered == SlotsOf(ranges) IN
  /\ \A s \in U64 : Contains(ranges, s) <=> s \in covered
  /\ \A a, b \in U64 : a <= b =>
       /\ Intersects(ranges, a, b) <=> (a..b) \cap covered # {}
       /\ UNION {i[1]..i[2] : i \in Intersections(ranges, a, b)}
            = (a..b) \cap covered
  /\ \A span \in CoveredSpan(ranges) :
       span = <<Min(covered), Max(covered)>>
  /\ \A span \in ContiguousTipSpan(ranges) :
       /\ span[2] = Max(covered)
       /\ span[1]..span[2] \subseteq covered
       /\ span[1] - 1 \notin covered
  /\ covered = {} <=> CoveredSpan(ranges) = {}

(***************************************************************************)
(* The filler plans from holes_in: the holes are exactly the uncovered     *)
(* slots of the window, so no slot is skipped and no covered slot is       *)
(* fetched again, and no two holes touch.                                  *)
(***************************************************************************)
HolesAreTheGaps ==
  LET covered == SlotsOf(ranges) IN
  \A a, b \in U64 : a <= b =>
    LET holes == HolesIn(ranges, a, b) IN
    /\ UNION {h[1]..h[2] : h \in holes} = (a..b) \ covered
    /\ \A h, i \in holes : h # i => h[2] + 1 < i[1] \/ i[2] + 1 < h[1]

\* Point, range and hole queries of the map all answer as the set they summarise would.
QueriesExact == QueriesAgree /\ HolesAreTheGaps
=============================================================================
