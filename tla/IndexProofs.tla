----------------------------- MODULE IndexProofs ----------------------------
(***************************************************************************)
(* What the disk cache keeps in memory about its tables: the coverage map  *)
(* (CoverageMap) and the signature filters (SignatureIndex).               *)
(*                                                                         *)
(* For every MaxU64, the coverage map stays a set of disjoint, merged      *)
(* ranges and implements the plain set of slots SlotSet.                   *)
(*                                                                         *)
(* The answers of its queries are exact as well: contains, intersects,     *)
(* covered_span, contiguous_tip_span, intersections and holes_in say of    *)
(* the map what the set of slots it stands for says (QueriesExact).        *)
(* The queries look at the greatest start not above a slot, so the proofs  *)
(* rest on one fact: in a well-formed map a covered slot lies in exactly   *)
(* one range, the one with that start.                                     *)
(*                                                                         *)
(* The signature filters, for every number of slots, partitions,           *)
(* signatures, fills and poisoning readers.                                *)
(*                                                                         *)
(* NoFalseAbsence is not inductive: a filter becomes complete because of   *)
(* what a scan read long before, and a fill that could not update a filter *)
(* publishes its slots all the same.  IndInv adds what is known in         *)
(* between.  A covered slot of a complete filter is in the filter or       *)
(* masked by a failed fill that is still registered; dropping that         *)
(* registration starts a new generation.  A scan misses nothing that is    *)
(* not still pending, provided its generation is current; generations are  *)
(* never newer than the serial, so a new one invalidates every scan.  An   *)
(* allocation that found no coverage may start complete if no writer       *)
(* registered since.                                                       *)
(*                                                                         *)
(* All this rests on writers being registered: EnoughWriters says that the *)
(* table of KeyIndex::mutation has room for every task.  Without it the    *)
(* property fails: one writer in the table and one fill suffice.           *)
(*                                                                         *)
(* The byte budget and the generations need no such assumption: see the    *)
(* last part of this module, BudgetIsKept and GenerationsAreHonest.        *)
(***************************************************************************)
EXTENDS CoverageMap, SignatureIndex, WellFoundedInduction, FiniteSetTheorems, TLAPS

-----------------------------------------------------------------------------
(* The coverage map. *)

WellFormed(f) ==
  /\ DOMAIN f \subseteq U64
  /\ f \in [DOMAIN f -> U64]
  /\ \A k \in DOMAIN f : k <= f[k]
  /\ \A j, k \in DOMAIN f : j < k => f[j] + 1 < k

-----------------------------------------------------------------------------
(***************************************************************************)
(* Max of a non-empty set of slots is its largest element, which the code  *)
(* obtains from u64::max and from the last key of the BTreeMap.            *)
(***************************************************************************)
LEMMA MaxOfSlots ==
  ASSUME NEW S \in SUBSET U64, S # {}
  PROVE  Max(S) \in S /\ \A y \in S : y <= Max(S)
<1> DEFINE T == {MaxU64 - x : x \in S}
<1>1. T \subseteq Nat /\ T # {}
  <2>1. ASSUME NEW x \in S PROVE MaxU64 - x \in Nat
    BY MaxU64Assumption DEF U64
  <2>2. PICK x \in S : TRUE
    OBVIOUS
  <2>3. MaxU64 - x \in T
    OBVIOUS
  <2> QED BY <2>1, <2>3
<1>2. PICK m \in T : \A t \in T : ~(<<t, m>> \in OpToRel(<, Nat))
  BY <1>1, NatLessThanWellFounded, WFMin, Zenon
<1>3. \A t \in T : m <= t
  <2> SUFFICES ASSUME NEW t \in T PROVE m <= t
    OBVIOUS
  <2>1. t \in Nat /\ m \in Nat
    BY <1>1
  <2>2. ~(<<t, m>> \in OpToRel(<, Nat))
    BY <1>2
  <2>3. ~(t < m)
    BY <2>1, <2>2, Zenon DEF OpToRel
  <2> QED BY <2>1, <2>3
<1>4. PICK x \in S : m = MaxU64 - x
  OBVIOUS
<1>5. \A y \in S : y <= x
  BY <1>3, <1>4, MaxU64Assumption DEF U64
<1> QED BY <1>5 DEF Max

(***************************************************************************)
(* The entry that BTreeMap::range(..=s).next_back() finds exists whenever  *)
(* some range starts at or before s, and it is unique.                     *)
(***************************************************************************)
LEMMA PrecedingExists ==
  ASSUME NEW f, WellFormed(f), NEW s \in U64, NEW k \in DOMAIN f, k <= s
  PROVE  \E p \in DOMAIN f : Preceding(f, s) = {p} /\ p <= s /\ k <= p
<1> DEFINE S == {j \in DOMAIN f : j <= s}
<1>1. S \in SUBSET U64 /\ S # {}
  BY DEF WellFormed
<1>2. Max(S) \in S /\ \A y \in S : y <= Max(S)
  BY <1>1, MaxOfSlots
<1> QED BY <1>1, <1>2, MaxU64Assumption DEF Preceding, U64

-----------------------------------------------------------------------------
(***************************************************************************)
(* insert_range keeps the map well formed and adds exactly the given range.*)
(***************************************************************************)
LEMMA InsertCorrect ==
  ASSUME NEW f, WellFormed(f), NEW start \in U64, NEW end \in U64, start <= end
  PROVE  /\ WellFormed(WithRange(f, start, end))
         /\ SlotsOf(WithRange(f, start, end)) = SlotsOf(f) \cup (start..end)
<1> DEFINE left     == {k \in Preceding(f, start) : SaturatingSucc(f[k]) >= start}
           newStart == IF left = {} THEN start ELSE CHOOSE k \in left : TRUE
           M1       == {end} \cup {f[k] : k \in left}
           midEnd   == Max(M1)
           absorbed == {k \in DOMAIN f \ left :
                          newStart <= k /\ k <= SaturatingSucc(midEnd)}
           M2       == {midEnd} \cup {f[k] : k \in absorbed}
           newEnd   == Max(M2)
           kept     == DOMAIN f \ (left \cup absorbed)
           g        == [k \in kept \cup {newStart} |->
                          IF k = newStart THEN newEnd ELSE f[k]]
<1>0. WithRange(f, start, end) = g
  BY MaxU64Assumption DEF WithRange, U64
<1>1. \A k \in left : k \in DOMAIN f /\ k <= start /\ left = {k} /\ newStart = k
                      /\ start <= f[k] + 1
  <2> SUFFICES ASSUME NEW k \in left
               PROVE  k \in DOMAIN f /\ k <= start /\ left = {k} /\ start <= f[k] + 1
    OBVIOUS
  <2>1. k \in DOMAIN f /\ k <= start /\ f[k] \in U64
    BY DEF Preceding, WellFormed
  <2>2. left = {k}
    BY <2>1, MaxU64Assumption DEF Preceding, WellFormed, U64
  <2>3. start <= f[k] + 1
    BY <2>1, MaxU64Assumption DEF SaturatingSucc, U64
  <2> QED BY <2>1, <2>2, <2>3
<1>2. newStart \in U64 /\ newStart <= start
  BY <1>1, MaxU64Assumption DEF WellFormed, U64
<1>3. M1 \in SUBSET U64 /\ M1 # {}
  BY <1>1 DEF WellFormed
<1>4. midEnd \in M1 /\ midEnd \in U64 /\ \A y \in M1 : y <= midEnd
  BY <1>3, MaxOfSlots
<1> HIDE DEF midEnd
<1>5. M2 \in SUBSET U64 /\ M2 # {}
  BY <1>4 DEF WellFormed
<1>6. newEnd \in M2 /\ newEnd \in U64 /\ \A y \in M2 : y <= newEnd
  BY <1>5, MaxOfSlots
<1> HIDE DEF newEnd
<1>7. \A k \in absorbed : k \in DOMAIN f /\ newStart <= k /\ k <= midEnd + 1
                          /\ f[k] <= newEnd
  <2> SUFFICES ASSUME NEW k \in absorbed
               PROVE  k <= midEnd + 1 /\ f[k] <= newEnd
    OBVIOUS
  <2>1. k \in U64 /\ k <= SaturatingSucc(midEnd)
    BY DEF WellFormed
  <2>2. k <= midEnd + 1
    BY <1>4, <2>1, MaxU64Assumption DEF SaturatingSucc, U64
  <2>3. f[k] \in M2
    OBVIOUS
  <2> QED BY <1>6, <2>2, <2>3
<1>8. end <= midEnd /\ midEnd <= newEnd /\ newStart <= newEnd
  <2>1. end \in M1 /\ midEnd \in M2
    OBVIOUS
  <2> HIDE DEF M1, M2, newStart
  <2>2. end <= midEnd /\ midEnd <= newEnd
    BY <1>4, <1>6, <2>1
  <2> QED BY <1>2, <1>4, <1>6, <2>2, MaxU64Assumption DEF U64
<1>9. \A k \in kept : k \in DOMAIN f /\ k # newStart
         /\ (f[k] + 1 < newStart \/ newEnd + 1 < k)
  <2> SUFFICES ASSUME NEW k \in kept
               PROVE  f[k] + 1 < newStart \/ newEnd + 1 < k
    BY <1>2, <1>6, <1>8, MaxU64Assumption DEF WellFormed, U64
  <2>1. k \in DOMAIN f /\ k \in U64 /\ f[k] \in U64 /\ k <= f[k]
    BY DEF WellFormed
  <2>2. CASE k < newStart
    <3>1. CASE left = {}
      <4>1. PICK p \in DOMAIN f : Preceding(f, start) = {p} /\ p <= start /\ k <= p
        BY <2>1, <2>2, <3>1, PrecedingExists, MaxU64Assumption DEF U64
      <4>2. p \in U64 /\ f[p] \in U64 /\ SaturatingSucc(f[p]) < start
        BY <3>1, <4>1, MaxU64Assumption DEF WellFormed, SaturatingSucc, U64
      <4>3. f[p] + 1 < start
        BY <4>2, MaxU64Assumption DEF SaturatingSucc, U64
      <4> QED BY <2>1, <3>1, <4>1, <4>2, <4>3, MaxU64Assumption DEF WellFormed, U64
    <3>2. CASE left # {}
      BY <1>1, <2>1, <2>2, <3>2 DEF WellFormed
    <3> QED BY <3>1, <3>2
  <2>3. CASE newStart <= k
    <3>1. SaturatingSucc(midEnd) < k
      BY <1>4, <2>1, <2>3, MaxU64Assumption DEF SaturatingSucc, U64
    <3>2. midEnd + 1 < k
      BY <1>4, <2>1, <3>1, MaxU64Assumption DEF SaturatingSucc, U64
    <3>3. CASE newEnd = midEnd
      BY <3>2, <3>3
    <3>4. CASE newEnd # midEnd
      <4>1. PICK j \in absorbed : newEnd = f[j]
        BY <1>6, <3>4
      <4>2. j \in DOMAIN f /\ j < k
        BY <1>4, <1>7, <2>1, <3>2, <4>1, MaxU64Assumption DEF U64, WellFormed
      <4> QED BY <2>1, <4>1, <4>2 DEF WellFormed
    <3> QED BY <3>3, <3>4
  <2> QED BY <1>2, <2>1, <2>2, <2>3, MaxU64Assumption DEF U64
<1>10. /\ DOMAIN g = kept \cup {newStart}
       /\ g[newStart] = newEnd
       /\ \A k \in kept : g[k] = f[k]
  BY <1>9
<1>11. /\ DOMAIN f = kept \cup left \cup absorbed
       /\ left = {} => newStart = start
       /\ midEnd = end \/ \E l \in left : midEnd = f[l]
       /\ newEnd = midEnd \/ \E k \in absorbed : newEnd = f[k]
       /\ \A l \in left : f[l] <= midEnd
       /\ g \in [DOMAIN g -> U64]
  BY <1>1, <1>4, <1>6 DEF WellFormed
<1> HIDE DEF left, newStart, M1, absorbed, M2, kept, g
<1>12. WellFormed(g)
  <2>1. DOMAIN g \subseteq U64 /\ g \in [DOMAIN g -> U64]
    BY <1>2, <1>9, <1>10, <1>11 DEF WellFormed
  <2>2. \A k \in DOMAIN g : k <= g[k]
    BY <1>8, <1>9, <1>10 DEF WellFormed
  <2>3. ASSUME NEW j \in DOMAIN g, NEW k \in DOMAIN g, j < k
        PROVE  g[j] + 1 < k
    <3>1. CASE j \in kept /\ k \in kept
      BY <1>9, <1>10, <2>3, <3>1 DEF WellFormed
    <3>2. CASE j = newStart /\ k \in kept
      BY <1>2, <1>6, <1>9, <1>10, <2>3, <3>2, MaxU64Assumption DEF WellFormed, U64
    <3>3. CASE j \in kept /\ k = newStart
      BY <1>2, <1>6, <1>8, <1>9, <1>10, <2>3, <3>3, MaxU64Assumption DEF WellFormed, U64
    <3> QED BY <1>2, <1>10, <2>3, <3>1, <3>2, <3>3, MaxU64Assumption DEF U64
  <2> QED BY <2>1, <2>2, <2>3 DEF WellFormed
<1>13. SlotsOf(g) = SlotsOf(f) \cup (start..end)
  <2>1. ASSUME NEW s \in SlotsOf(g) PROVE s \in SlotsOf(f) \cup (start..end)
    <3>0. s \in U64
      BY <2>1 DEF SlotsOf
    <3>1. PICK k \in DOMAIN g : k <= s /\ s <= g[k]
      BY <2>1 DEF SlotsOf
    <3>2. CASE k \in kept
      BY <1>9, <1>10, <3>0, <3>1, <3>2 DEF SlotsOf
    <3>3. CASE k = newStart /\ s < start
      <4>1. left # {}
        BY <1>11, <3>0, <3>1, <3>3, MaxU64Assumption DEF U64
      <4>2. PICK l \in left : TRUE
        BY <4>1
      <4>3. l \in DOMAIN f /\ l <= s /\ s <= f[l]
        BY <1>1, <3>0, <3>1, <3>3, <4>2, MaxU64Assumption DEF U64, WellFormed
      <4> QED BY <3>0, <4>3 DEF SlotsOf
    <3>4. CASE start <= s /\ s <= end
      BY <3>0, <3>4, MaxU64Assumption DEF U64
    <3>5. CASE k = newStart /\ end < s /\ s <= midEnd
      <4>1. PICK l \in left : midEnd = f[l]
        BY <1>4, <1>11, <3>0, <3>5, MaxU64Assumption DEF U64
      <4>2. l \in DOMAIN f /\ l <= s /\ s <= f[l]
        BY <1>1, <3>0, <3>1, <3>5, <4>1, MaxU64Assumption DEF U64, WellFormed
      <4> QED BY <3>0, <4>2 DEF SlotsOf
    <3>6. CASE k = newStart /\ midEnd < s
      <4>1. s <= newEnd
        BY <1>10, <3>1, <3>6
      <4>2. PICK j \in absorbed : newEnd = f[j]
        BY <1>4, <1>6, <1>11, <3>0, <3>6, <4>1, MaxU64Assumption DEF U64
      <4>3. j \in DOMAIN f /\ j <= s /\ s <= f[j]
        BY <1>4, <1>7, <3>0, <3>6, <4>1, <4>2, MaxU64Assumption DEF U64, WellFormed
      <4> QED BY <3>0, <4>3 DEF SlotsOf
    <3> QED BY <1>4, <1>10, <3>0, <3>2, <3>3, <3>4, <3>5, <3>6, MaxU64Assumption DEF U64
  <2>2. ASSUME NEW s \in start..end PROVE s \in SlotsOf(g)
    <3>1. s \in U64 /\ newStart <= s /\ s <= newEnd
      BY <1>2, <1>4, <1>6, <1>8, MaxU64Assumption DEF U64
    <3> QED BY <1>10, <3>1 DEF SlotsOf
  <2>3. ASSUME NEW s \in SlotsOf(f) PROVE s \in SlotsOf(g)
    <3>0. s \in U64
      BY <2>3 DEF SlotsOf
    <3>1. PICK k \in DOMAIN f : k <= s /\ s <= f[k]
      BY <2>3 DEF SlotsOf
    <3>2. CASE k \in kept
      BY <1>10, <3>0, <3>1, <3>2 DEF SlotsOf
    <3>3. CASE k \in left
      <4>1. newStart <= s /\ f[k] <= midEnd
        BY <1>1, <1>4, <1>11, <3>1, <3>3
      <4>2. s <= newEnd
        BY <1>4, <1>6, <1>8, <3>0, <3>1, <4>1, MaxU64Assumption DEF U64, WellFormed
      <4> QED BY <1>10, <3>0, <4>1, <4>2 DEF SlotsOf
    <3>4. CASE k \in absorbed
      <4>1. newStart <= s /\ s <= newEnd
        BY <1>2, <1>6, <1>7, <3>0, <3>1, <3>4, MaxU64Assumption DEF U64, WellFormed
      <4> QED BY <1>10, <3>0, <4>1 DEF SlotsOf
    <3> QED BY <1>11, <3>2, <3>3, <3>4
  <2> QED BY <2>1, <2>2, <2>3
<1> QED BY <1>0, <1>12, <1>13

(***************************************************************************)
(* remove drops exactly one slot, splitting its range.                     *)
(***************************************************************************)
LEMMA RemoveCorrect ==
  ASSUME NEW f, WellFormed(f), NEW slot \in U64
  PROVE  /\ WellFormed(Without(f, slot))
         /\ SlotsOf(Without(f, slot)) = SlotsOf(f) \ {slot}
<1> DEFINE hit   == {k \in Preceding(f, slot) : slot <= f[k]}
           start == CHOOSE k \in hit : TRUE
           left  == {k \in hit : k < slot}
           right == IF slot < f[start] THEN {slot + 1} ELSE {}
           kept  == DOMAIN f \ hit
           g     == [k \in kept \cup left \cup right |->
                       IF k \in left THEN slot - 1
                       ELSE IF k \in right THEN f[start] ELSE f[k]]
<1>1. CASE hit = {}
  <2>1. Without(f, slot) = f
    BY <1>1 DEF Without
  <2>2. ASSUME slot \in SlotsOf(f) PROVE FALSE
    <3>1. PICK k \in DOMAIN f : k <= slot /\ slot <= f[k]
      BY <2>2 DEF SlotsOf
    <3>2. PICK p \in DOMAIN f : Preceding(f, slot) = {p} /\ p <= slot /\ k <= p
      BY <3>1, PrecedingExists
    <3>3. f[p] >= slot
      BY <3>1, <3>2, MaxU64Assumption DEF WellFormed, U64
    <3> QED BY <1>1, <3>2, <3>3
  <2> QED BY <2>1, <2>2
<1>2. CASE hit # {}
  <2>1. Without(f, slot) = g
    BY <1>2 DEF Without
  <2>2. start \in hit
    BY <1>2
  <2>3. /\ start \in DOMAIN f /\ start \in U64 /\ f[start] \in U64
        /\ start <= slot /\ slot <= f[start]
    BY <2>2 DEF Preceding, WellFormed
  <2>4. hit = {start}
    BY <2>2, MaxU64Assumption DEF Preceding, WellFormed, U64
  <2> HIDE DEF start, hit
  <2>5. \A k \in kept : /\ k \in DOMAIN f /\ k \in U64 /\ f[k] \in U64 /\ k <= f[k]
                        /\ f[k] + 1 < start \/ f[start] + 1 < k
    BY <2>3, <2>4, MaxU64Assumption DEF WellFormed, U64
  <2>6. left = IF start < slot THEN {start} ELSE {}
    BY <2>4
  <2>7. DOMAIN g = kept \cup left \cup right
    OBVIOUS
  <2>8. \A k \in kept : g[k] = f[k] /\ k \notin left /\ k \notin right
    BY <2>3, <2>5, <2>6, MaxU64Assumption DEF U64
  <2>9. \A k \in left : k = start /\ k < slot /\ g[k] = slot - 1
    BY <2>6
  <2>10. \A k \in right : k = slot + 1 /\ slot < f[start] /\ g[k] = f[start]
    BY <2>3, <2>6, MaxU64Assumption DEF U64
  <2>11. (start < slot => start \in left) /\ (slot < f[start] => slot + 1 \in right)
    BY <2>6
  <2>12. DOMAIN f = kept \cup {start}
    BY <2>3, <2>4
  <2>13. g \in [DOMAIN g -> U64]
    <3> SUFFICES ASSUME NEW k \in kept \cup left \cup right PROVE g[k] \in U64
      OBVIOUS
    <3> QED BY <2>3, <2>5, <2>8, <2>9, <2>10, MaxU64Assumption DEF U64
  <2> HIDE DEF left, right, kept, g
  <2>14. WellFormed(g)
    <3>1. DOMAIN g \subseteq U64
      BY <2>3, <2>5, <2>7, <2>9, <2>10, MaxU64Assumption DEF U64
    <3>2. \A k \in DOMAIN g : k <= g[k]
      BY <2>3, <2>5, <2>7, <2>8, <2>9, <2>10, MaxU64Assumption DEF U64
    <3>3. ASSUME NEW j \in DOMAIN g, NEW k \in DOMAIN g, j < k
          PROVE  g[j] + 1 < k
      <4>1. CASE j \in kept /\ k \in kept
        BY <2>5, <2>8, <3>3, <4>1 DEF WellFormed
      <4>2. CASE j \in kept /\ k \in left \cup right
        BY <2>3, <2>5, <2>8, <2>9, <2>10, <3>3, <4>2, MaxU64Assumption DEF U64
      <4>3. CASE j \in left \cup right /\ k \in kept
        BY <2>3, <2>5, <2>8, <2>9, <2>10, <3>3, <4>3, MaxU64Assumption DEF U64
      <4>4. CASE j \in left \cup right /\ k \in left \cup right
        BY <2>3, <2>9, <2>10, <3>3, <4>4, MaxU64Assumption DEF U64
      <4> QED BY <2>7, <4>1, <4>2, <4>3, <4>4
    <3> QED BY <2>13, <3>1, <3>2, <3>3 DEF WellFormed
  <2>15. ASSUME NEW s \in U64
         PROVE  s \in SlotsOf(g) <=> s \in SlotsOf(f) /\ s # slot
    <3>1. ASSUME NEW k \in DOMAIN g, k <= s, s <= g[k]
          PROVE  s \in SlotsOf(f) /\ s # slot
      <4>1. CASE k \in kept
        BY <2>3, <2>5, <2>8, <3>1, <4>1, MaxU64Assumption DEF SlotsOf, U64
      <4>2. CASE k \in left \cup right
        <5>1. start <= s /\ s <= f[start] /\ s # slot
          BY <2>3, <2>9, <2>10, <3>1, <4>2, MaxU64Assumption DEF U64
        <5> QED BY <2>3, <5>1 DEF SlotsOf
      <4> QED BY <2>7, <3>1, <4>1, <4>2
    <3>2. ASSUME NEW k \in DOMAIN f, k <= s, s <= f[k], s # slot
          PROVE  s \in SlotsOf(g)
      <4>1. CASE k \in kept
        BY <2>7, <2>8, <3>2, <4>1 DEF SlotsOf
      <4>2. CASE k = start /\ s < slot
        <5>1. start \in left /\ s <= g[start]
          BY <2>3, <2>9, <2>11, <3>2, <4>2, MaxU64Assumption DEF U64
        <5> QED BY <2>7, <3>2, <4>2, <5>1 DEF SlotsOf
      <4>3. CASE k = start /\ slot < s
        <5>1. slot + 1 \in right /\ s <= g[slot + 1] /\ slot + 1 <= s
          BY <2>3, <2>10, <2>11, <3>2, <4>3, MaxU64Assumption DEF U64
        <5> QED BY <2>7, <5>1 DEF SlotsOf
      <4> QED BY <2>12, <3>2, <4>1, <4>2, <4>3, MaxU64Assumption DEF U64
    <3> QED BY <3>1, <3>2 DEF SlotsOf
  <2> QED BY <2>1, <2>14, <2>15 DEF SlotsOf
<1> QED BY <1>1, <1>2

(***************************************************************************)
(* remove_below keeps exactly the covered slots at or above the low.       *)
(***************************************************************************)
LEMMA RemoveBelowCorrect ==
  ASSUME NEW f, WellFormed(f), NEW low \in U64
  PROVE  /\ WellFormed(From(f, low))
         /\ SlotsOf(From(f, low)) = {s \in SlotsOf(f) : s >= low}
<1> DEFINE below == {k \in DOMAIN f : k < low}
           cut   == {k \in below : f[k] >= low}
           kept  == DOMAIN f \ below
<1>0. \A k \in DOMAIN f : k \in U64 /\ f[k] \in U64 /\ k <= f[k]
  BY DEF WellFormed
<1>1. CASE cut = {}
  <2> DEFINE g == [k \in kept |-> f[k]]
  <2>1. From(f, low) = g
    BY <1>1 DEF From
  <2>2. \A k \in DOMAIN f : k < low => f[k] < low
    BY <1>0, <1>1, MaxU64Assumption DEF U64
  <2>3. /\ DOMAIN g = {k \in DOMAIN f : k >= low}
        /\ \A k \in DOMAIN g : g[k] = f[k]
        /\ g \in [DOMAIN g -> U64]
    BY <1>0, MaxU64Assumption DEF U64
  <2> HIDE DEF g
  <2>4. WellFormed(g)
    BY <2>3 DEF WellFormed
  <2>5. ASSUME NEW s \in U64
        PROVE  s \in SlotsOf(g) <=> s \in SlotsOf(f) /\ s >= low
    BY <1>0, <2>2, <2>3, MaxU64Assumption DEF SlotsOf, U64
  <2> QED BY <2>1, <2>4, <2>5 DEF SlotsOf
<1>2. CASE cut # {}
  <2> DEFINE c == CHOOSE c \in cut : TRUE
             g == [k \in kept \cup {low} |-> IF k = low THEN f[c] ELSE f[k]]
  <2>1. From(f, low) = g
    BY <1>2 DEF From
  <2>2. c \in DOMAIN f /\ c < low /\ f[c] >= low
    BY <1>2
  <2> HIDE DEF c
  <2>3. \A k \in kept : k \in DOMAIN f /\ f[c] + 1 < k /\ k # low
    BY <1>0, <2>2, MaxU64Assumption DEF WellFormed, U64
  <2>4. /\ DOMAIN g = kept \cup {low} /\ g[low] = f[c]
        /\ \A k \in kept : g[k] = f[k]
        /\ g \in [DOMAIN g -> U64]
    BY <1>0, <2>2, <2>3
  <2>5. \A k \in DOMAIN f : k \in kept \/ k = c \/ f[k] < low
    BY <1>0, <2>2, MaxU64Assumption DEF WellFormed, U64
  <2> HIDE DEF g, kept, below, cut
  <2>6. WellFormed(g)
    <3>1. DOMAIN g \subseteq U64 /\ \A k \in DOMAIN g : k <= g[k]
      BY <1>0, <2>2, <2>3, <2>4, MaxU64Assumption DEF U64
    <3>2. ASSUME NEW j \in DOMAIN g, NEW k \in DOMAIN g, j < k
          PROVE  g[j] + 1 < k
      <4>1. CASE j \in kept /\ k \in kept
        BY <2>3, <2>4, <3>2, <4>1 DEF WellFormed
      <4>2. CASE j \in kept /\ k = low
        BY <1>0, <2>2, <2>3, <2>4, <3>2, <4>2, MaxU64Assumption DEF U64
      <4>3. CASE j = low /\ k \in kept
        BY <2>3, <2>4, <4>3
      <4> QED BY <2>4, <3>2, <4>1, <4>2, <4>3, MaxU64Assumption DEF U64
    <3> QED BY <2>4, <3>1, <3>2 DEF WellFormed
  <2>7. ASSUME NEW s \in U64
        PROVE  s \in SlotsOf(g) <=> s \in SlotsOf(f) /\ s >= low
    <3>1. ASSUME NEW k \in DOMAIN g, k <= s, s <= g[k]
          PROVE  s \in SlotsOf(f) /\ s >= low
      <4>1. CASE k = low
        <5>1. c <= s /\ s <= f[c] /\ s >= low
          BY <1>0, <2>2, <2>4, <3>1, <4>1, MaxU64Assumption DEF U64
        <5> QED BY <2>2, <5>1 DEF SlotsOf
      <4>2. CASE k \in kept
        <5>1. s >= low
          BY <1>0, <2>2, <2>3, <3>1, <4>2, MaxU64Assumption DEF U64
        <5> QED BY <2>3, <2>4, <3>1, <4>2, <5>1 DEF SlotsOf
      <4> QED BY <2>4, <3>1, <4>1, <4>2
    <3>2. ASSUME NEW k \in DOMAIN f, k <= s, s <= f[k], s >= low
          PROVE  s \in SlotsOf(g)
      <4>1. CASE k = c
        BY <2>4, <3>2, <4>1 DEF SlotsOf
      <4>2. CASE k \in kept
        BY <2>4, <3>2, <4>2 DEF SlotsOf
      <4> QED BY <1>0, <2>5, <3>2, <4>1, <4>2, MaxU64Assumption DEF U64
    <3> QED BY <3>1, <3>2 DEF SlotsOf
  <2> QED BY <2>1, <2>6, <2>7 DEF SlotsOf
<1> QED BY <1>1, <1>2

-----------------------------------------------------------------------------
(***************************************************************************)
(* What every operation keeps: RangesOK and Merged together, which every   *)
(* BTreeMap query of the code relies on to look at one range only.         *)
(***************************************************************************)
LEMMA InvIsWellFormed == (RangesOK /\ Merged) <=> WellFormed(ranges)
  BY DEF RangesOK, Merged, WellFormed

\* A step of the map is the same step of the set it stands for.
LEMMA StepCorrect ==
  ASSUME WellFormed(ranges), [CoverageNext]_ranges
  PROVE  WellFormed(ranges)' /\ [Abstract!Next]_(SlotsOf(ranges))
<1> USE DEF Abstract!Slot, U64
<1>1. ASSUME NEW start \in U64, NEW end \in U64, InsertRange(start, end)
      PROVE  WellFormed(ranges)' /\ Abstract!InsertRange(start, end)
  <2>1. CASE start <= end
    BY <1>1, <2>1, InsertCorrect, Zenon DEF InsertRange, Abstract!InsertRange
  <2>2. CASE end < start
    <3>1. ranges' = ranges
      BY <1>1, <2>2 DEF InsertRange, WithRange
    <3>2. start..end = {}
      BY <2>2, MaxU64Assumption
    <3> QED BY <3>1, <3>2 DEF Abstract!InsertRange
  <2> QED BY <2>1, <2>2, MaxU64Assumption
<1>2. ASSUME NEW slot \in U64, Remove(slot)
      PROVE  WellFormed(ranges)' /\ Abstract!Remove(slot)
  BY <1>2, RemoveCorrect, Zenon DEF Remove, Abstract!Remove
<1>3. ASSUME NEW low \in U64, RemoveBelow(low)
      PROVE  WellFormed(ranges)' /\ Abstract!RemoveBelow(low)
  BY <1>3, RemoveBelowCorrect, Zenon DEF RemoveBelow, Abstract!RemoveBelow
<1>4. CASE UNCHANGED ranges
  BY <1>4 DEF SlotsOf
<1> QED BY <1>1, <1>2, <1>3, <1>4 DEF CoverageNext, Abstract!Next

\* The new map is empty.
LEMMA InitCorrect == CoverageInit => WellFormed(ranges) /\ SlotsOf(ranges) = {}
  BY DEF CoverageInit, WellFormed, SlotsOf, U64

(***************************************************************************)
(* CoverageMap::insert_range, remove and remove_below keep the map typed.  *)
(***************************************************************************)
THEOREM RangesTyped == CoverageSpec => []RangesOK
<1>1. CoverageInit => WellFormed(ranges)
  BY InitCorrect
<1>2. WellFormed(ranges) /\ [CoverageNext]_ranges => WellFormed(ranges)'
  BY StepCorrect
<1>3. WellFormed(ranges) => RangesOK
  BY InvIsWellFormed
<1> QED BY <1>1, <1>2, <1>3, PTL DEF CoverageSpec

(***************************************************************************)
(* "ranges are disjoint and non-adjacent": true of every reachable map.    *)
(***************************************************************************)
THEOREM MergedCorrect == CoverageSpec => []Merged
<1>1. CoverageInit => WellFormed(ranges)
  BY InitCorrect
<1>2. WellFormed(ranges) /\ [CoverageNext]_ranges => WellFormed(ranges)'
  BY StepCorrect
<1>3. WellFormed(ranges) => Merged
  BY InvIsWellFormed
<1> QED BY <1>1, <1>2, <1>3, PTL DEF CoverageSpec

(***************************************************************************)
(* The merged ranges implement a plain set of slots, for every MaxU64, so  *)
(* the other modules may use the set.                                      *)
(***************************************************************************)
THEOREM CoverageMapImplementsSlotSet == CoverageSpec => ImplementsSlotSet
<1>1. CoverageInit => WellFormed(ranges) /\ Abstract!Init
  BY InitCorrect DEF Abstract!Init
<1>2. WellFormed(ranges) /\ [CoverageNext]_ranges
        => WellFormed(ranges)' /\ [Abstract!Next]_(SlotsOf(ranges))
  BY StepCorrect
<1> QED BY <1>1, <1>2, PTL DEF CoverageSpec, ImplementsSlotSet, Abstract!Spec

-----------------------------------------------------------------------------
(***************************************************************************)
(* The queries.  What they answer depends on the map alone, so each one is *)
(* shown for every well-formed map and then carried over by MergedCorrect. *)
(***************************************************************************)

(***************************************************************************)
(* Min of a non-empty set of slots is its smallest element (u64::min and   *)
(* the first key of the BTreeMap).                                         *)
(***************************************************************************)
LEMMA MinOfSlots ==
  ASSUME NEW S \in SUBSET U64, S # {}
  PROVE  Min(S) \in S /\ \A y \in S : Min(S) <= y
<1>1. S \subseteq Nat
  BY DEF U64
<1>2. PICK m \in S : \A t \in S : ~(<<t, m>> \in OpToRel(<, Nat))
  BY <1>1, NatLessThanWellFounded, WFMin, Zenon
<1>3. \A t \in S : m <= t
  <2> SUFFICES ASSUME NEW t \in S PROVE m <= t
    OBVIOUS
  <2>1. t \in Nat /\ m \in Nat
    BY <1>1
  <2>2. ~(<<t, m>> \in OpToRel(<, Nat))
    BY <1>2
  <2>3. ~(t < m)
    BY <2>1, <2>2, Zenon DEF OpToRel
  <2> QED BY <2>1, <2>3
<1> QED BY <1>3 DEF Min

(* The larger and the smaller of two slots. *)
LEMMA MaxMinOfTwo ==
  ASSUME NEW x \in U64, NEW y \in U64
  PROVE  /\ Max({x, y}) = IF x >= y THEN x ELSE y
         /\ Min({x, y}) = IF x <= y THEN x ELSE y
<1>1. Max({x, y}) \in {x, y} /\ \A z \in {x, y} : z <= Max({x, y})
  BY MaxOfSlots
<1>2. Min({x, y}) \in {x, y} /\ \A z \in {x, y} : Min({x, y}) <= z
  BY MinOfSlots
<1> QED BY <1>1, <1>2, MaxU64Assumption DEF U64

(***************************************************************************)
(* Ranges come in order: one that starts earlier ends earlier.             *)
(***************************************************************************)
LEMMA RangesInOrder ==
  ASSUME NEW f, WellFormed(f)
  PROVE  /\ \A j, k \in DOMAIN f : j <= k => f[j] <= f[k]
         /\ \A j, k \in DOMAIN f : j <= f[k] + 1 => j <= k
<1>1. \A k \in DOMAIN f : k \in Nat /\ f[k] \in Nat /\ k <= f[k]
  BY MaxU64Assumption DEF WellFormed, U64
<1>2. \A j, k \in DOMAIN f : j < k => f[j] + 1 < k
  BY DEF WellFormed
<1> QED BY <1>1, <1>2

(***************************************************************************)
(* contains and intersects look at one range only, the last that starts at *)
(* or before the slot or the end of the window.                            *)
(***************************************************************************)
LEMMA PointQueriesCorrect ==
  ASSUME NEW f, WellFormed(f)
  PROVE  /\ \A s \in U64 : Contains(f, s) <=> s \in SlotsOf(f)
         /\ \A a, b \in U64 : a <= b => (Intersects(f, a, b) <=> (a..b) \cap SlotsOf(f) # {})
<1>0. \A k \in DOMAIN f : k \in U64 /\ f[k] \in U64 /\ k <= f[k]
  BY DEF WellFormed
<1>1. ASSUME NEW s \in U64
      PROVE  Contains(f, s) <=> s \in SlotsOf(f)
  <2>1. ASSUME Contains(f, s) PROVE s \in SlotsOf(f)
    BY <2>1 DEF Contains, Preceding, SlotsOf
  <2>2. ASSUME s \in SlotsOf(f) PROVE Contains(f, s)
    <3>1. PICK k \in DOMAIN f : k <= s /\ s <= f[k]
      BY <2>2 DEF SlotsOf
    <3>2. PICK p \in DOMAIN f : Preceding(f, s) = {p} /\ p <= s /\ k <= p
      BY <3>1, PrecedingExists
    <3>3. f[k] <= f[p]
      BY <3>2, RangesInOrder
    <3>4. s <= f[p]
      BY <3>1, <3>3, <1>0, MaxU64Assumption DEF U64
    <3> QED BY <3>2, <3>4 DEF Contains
  <2> QED BY <2>1, <2>2
<1>2. ASSUME NEW a \in U64, NEW b \in U64, a <= b
      PROVE  Intersects(f, a, b) <=> (a..b) \cap SlotsOf(f) # {}
  <2>1. ASSUME Intersects(f, a, b) PROVE (a..b) \cap SlotsOf(f) # {}
    <3>1. PICK k \in DOMAIN f : k <= b /\ f[k] >= a
      BY <2>1 DEF Intersects, Preceding
    <3>2. CASE k >= a
      <4>1. k \in a..b /\ k \in SlotsOf(f)
        BY <3>1, <3>2, <1>0, MaxU64Assumption DEF SlotsOf, U64
      <4> QED BY <4>1
    <3>3. CASE k < a
      <4>1. a \in a..b /\ a \in SlotsOf(f)
        BY <1>2, <3>1, <3>3, <1>0, MaxU64Assumption DEF SlotsOf, U64
      <4> QED BY <4>1
    <3> QED BY <3>2, <3>3, <1>0 DEF U64
  <2>2. ASSUME (a..b) \cap SlotsOf(f) # {} PROVE Intersects(f, a, b)
    <3>1. PICK s \in a..b : s \in SlotsOf(f)
      BY <2>2
    <3>2. PICK k \in DOMAIN f : k <= s /\ s <= f[k]
      BY <3>1 DEF SlotsOf
    <3>3. k <= b
      BY <3>1, <3>2, <1>0 DEF U64
    <3>4. PICK p \in DOMAIN f : Preceding(f, b) = {p} /\ p <= b /\ k <= p
      BY <3>3, PrecedingExists
    <3>5. f[k] <= f[p]
      BY <3>4, RangesInOrder
    <3>6. f[p] >= a
      BY <3>1, <3>2, <3>5, <1>0 DEF U64
    <3> QED BY <3>4, <3>6 DEF Intersects
  <2> QED BY <2>1, <2>2
<1> QED BY <1>1, <1>2

(***************************************************************************)
(* intersections: the ranges clipped to a window are its covered part.     *)
(***************************************************************************)
LEMMA IntersectionsCorrect ==
  ASSUME NEW f, WellFormed(f), NEW a \in U64, NEW b \in U64, a <= b
  PROVE  UNION {i[1]..i[2] : i \in Intersections(f, a, b)} = (a..b) \cap SlotsOf(f)
<1> DEFINE met  == {j \in DOMAIN f : j <= b /\ Max({j, a}) <= Min({f[j], b})}
           I    == {<<Max({k, a}), Min({f[k], b})>> : k \in met}
<1>0. \A k \in DOMAIN f : k \in U64 /\ f[k] \in U64 /\ k <= f[k]
  BY DEF WellFormed
<1>1. \A k \in DOMAIN f : /\ Max({k, a}) = IF k >= a THEN k ELSE a
                          /\ Min({f[k], b}) = IF f[k] <= b THEN f[k] ELSE b
  BY <1>0, MaxMinOfTwo
<1>2. ASSUME NEW s
      PROVE  s \in UNION {i[1]..i[2] : i \in I} <=> \E k \in met : s \in Max({k, a})..Min({f[k], b})
  <2> HIDE DEF met
  <2>1. ASSUME s \in UNION {i[1]..i[2] : i \in I}
        PROVE  \E k \in met : s \in Max({k, a})..Min({f[k], b})
    <3>1. PICK i \in I : s \in i[1]..i[2]
      BY <2>1
    <3>2. PICK k \in met : i = <<Max({k, a}), Min({f[k], b})>>
      OBVIOUS
    <3>3. i[1] = Max({k, a}) /\ i[2] = Min({f[k], b})
      BY <3>2
    <3> QED BY <3>1, <3>3
  <2>2. ASSUME NEW k \in met, s \in Max({k, a})..Min({f[k], b})
        PROVE  s \in UNION {i[1]..i[2] : i \in I}
    <3> DEFINE i == <<Max({k, a}), Min({f[k], b})>>
    <3>1. i \in I
      OBVIOUS
    <3>2. i[1] = Max({k, a}) /\ i[2] = Min({f[k], b})
      OBVIOUS
    <3> HIDE DEF i, I
    <3>3. s \in i[1]..i[2]
      BY <2>2, <3>2
    <3> QED BY <3>1, <3>3
  <2> QED BY <2>1, <2>2
<1>3. ASSUME NEW k \in met, NEW s \in Max({k, a})..Min({f[k], b})
      PROVE  s \in (a..b) \cap SlotsOf(f)
  <2>1. k \in DOMAIN f
    OBVIOUS
  <2>2. s \in U64 /\ a <= s /\ s <= b /\ k <= s /\ s <= f[k]
    BY <2>1, <1>0, <1>1, <1>3, MaxU64Assumption DEF U64
  <2> QED BY <2>1, <2>2 DEF SlotsOf, U64
<1>4. ASSUME NEW s \in (a..b) \cap SlotsOf(f)
      PROVE  \E k \in met : s \in Max({k, a})..Min({f[k], b})
  <2>1. PICK k \in DOMAIN f : k <= s /\ s <= f[k]
    BY DEF SlotsOf
  <2>2. s \in Max({k, a})..Min({f[k], b}) /\ k <= b
    BY <2>1, <1>0, <1>1 DEF U64
  <2>3. Max({k, a}) <= Min({f[k], b})
    BY <2>1, <1>0, <1>1 DEF U64
  <2> QED BY <2>2, <2>3
<1>5. I = Intersections(f, a, b)
  BY DEF Intersections
<1> HIDE DEF I, met
<1>6. UNION {i[1]..i[2] : i \in I} = (a..b) \cap SlotsOf(f)
  BY <1>2, <1>3, <1>4
<1> QED BY <1>5, <1>6

(***************************************************************************)
(* covered_span and contiguous_tip_span read the first and the last range. *)
(***************************************************************************)
LEMMA SpansCorrect ==
  ASSUME NEW f, WellFormed(f)
  PROVE  LET covered == SlotsOf(f) IN
         /\ \A span \in CoveredSpan(f) : span = <<Min(covered), Max(covered)>>
         /\ \A span \in ContiguousTipSpan(f) :
              /\ span[2] = Max(covered)
              /\ span[1]..span[2] \subseteq covered
              /\ span[1] - 1 \notin covered
         /\ covered = {} <=> CoveredSpan(f) = {}
<1> DEFINE covered == SlotsOf(f)
           first   == Min(DOMAIN f)
           last    == Max(DOMAIN f)
<1>0. \A k \in DOMAIN f : k \in U64 /\ f[k] \in U64 /\ k <= f[k]
  BY DEF WellFormed
<1>1. DOMAIN f \subseteq covered /\ covered \subseteq U64
  BY <1>0 DEF SlotsOf, U64
<1>2. CASE DOMAIN f = {}
  BY <1>2 DEF CoveredSpan, ContiguousTipSpan, SlotsOf
<1>3. CASE DOMAIN f # {}
  <2>1. /\ first \in DOMAIN f /\ \A k \in DOMAIN f : first <= k
        /\ last \in DOMAIN f /\ \A k \in DOMAIN f : k <= last
    BY <1>3, MinOfSlots, MaxOfSlots DEF WellFormed
  <2>2. covered # {}
    BY <1>1, <1>3
  <2>3. f[last] \in covered /\ first \in covered
    BY <2>1, <1>0, <1>1 DEF SlotsOf, U64
  <2>4. \A s \in covered : first <= s /\ s <= f[last]
    <3> SUFFICES ASSUME NEW s \in covered PROVE first <= s /\ s <= f[last]
      OBVIOUS
    <3>1. PICK k \in DOMAIN f : k <= s /\ s <= f[k]
      BY DEF SlotsOf
    <3>2. f[k] <= f[last]
      BY <2>1, RangesInOrder
    <3> QED BY <3>1, <3>2, <2>1, <1>0, <1>1 DEF U64
  <2>5. Min(covered) = first /\ Max(covered) = f[last]
    <3>1. Min(covered) \in covered /\ \A y \in covered : Min(covered) <= y
      BY <1>1, <2>2, MinOfSlots
    <3>2. Max(covered) \in covered /\ \A y \in covered : y <= Max(covered)
      BY <1>1, <2>2, MaxOfSlots
    <3>3. \A s \in covered : s \in Nat
      BY <1>1 DEF U64
    <3> HIDE DEF covered, first, last
    <3> QED BY <3>1, <3>2, <3>3, <2>3, <2>4
  <2>6. last..f[last] \subseteq covered
    BY <2>1, <1>0, MaxU64Assumption DEF SlotsOf, U64
  <2>7. last - 1 \notin covered
    <3> SUFFICES ASSUME last - 1 \in covered PROVE FALSE
      OBVIOUS
    <3>1. PICK k \in DOMAIN f : k <= last - 1 /\ last - 1 <= f[k]
      BY DEF SlotsOf
    <3>2. k < last
      BY <3>1, <2>1, <1>0 DEF U64
    <3>3. f[k] + 1 < last
      BY <3>2, <2>1 DEF WellFormed
    <3> QED BY <3>1, <3>3, <2>1, <1>0 DEF U64
  <2>8. CoveredSpan(f) = {<<first, f[last]>>} /\ ContiguousTipSpan(f) = {<<last, f[last]>>}
    BY <1>3 DEF CoveredSpan, ContiguousTipSpan
  <2> HIDE DEF covered, first, last
  <2>9. /\ \A span \in CoveredSpan(f) : span = <<Min(covered), Max(covered)>>
        /\ \A span \in ContiguousTipSpan(f) :
             /\ span[2] = Max(covered)
             /\ span[1]..span[2] \subseteq covered
             /\ span[1] - 1 \notin covered
        /\ covered = {} <=> CoveredSpan(f) = {}
    <3>1. ASSUME NEW span \in CoveredSpan(f) PROVE span = <<Min(covered), Max(covered)>>
      BY <2>5, <2>8
    <3>2. ASSUME NEW span \in ContiguousTipSpan(f)
          PROVE  /\ span[2] = Max(covered)
                 /\ span[1]..span[2] \subseteq covered
                 /\ span[1] - 1 \notin covered
      <4>1. span = <<last, f[last]>>
        BY <2>8
      <4>2. span[1] = last /\ span[2] = f[last]
        BY <4>1
      <4> QED BY <4>2, <2>5, <2>6, <2>7
    <3>3. CoveredSpan(f) # {}
      BY <2>8
    <3> QED BY <3>1, <3>2, <3>3, <2>2
  <2> QED BY <2>9 DEF covered
<1> QED BY <1>2, <1>3

(***************************************************************************)
(* holes_in.  The cursor starts where everything that begins earlier has   *)
(* also ended, and so does every later position of the cursor; a hole then *)
(* reaches to the next range of the window.                                *)
(***************************************************************************)
LEMMA HolesCorrect ==
  ASSUME NEW f, WellFormed(f), NEW a \in U64, NEW b \in U64, a <= b
  PROVE  LET holes == HolesIn(f, a, b) IN
         /\ UNION {h[1]..h[2] : h \in holes} = (a..b) \ SlotsOf(f)
         /\ \A h, i \in holes : h # i => h[2] + 1 < i[1] \/ i[2] + 1 < h[1]
<1> DEFINE swallowing == {k \in Preceding(f, a) : f[k] >= a}
           cursor0    == IF swallowing = {} THEN a ELSE f[CHOOSE k \in swallowing : TRUE] + 1
           inside     == {k \in DOMAIN f : cursor0 <= k /\ k <= b}
           cursors    == {c \in {cursor0} \cup {f[k] + 1 : k \in inside} : c <= b /\ c \notin inside}
           bounds(c)  == {b} \cup {k - 1 : k \in {j \in inside : j > c}}
           stop(c)    == Min(bounds(c))
           holes      == {<<c, stop(c)>> : c \in cursors}
<1>0. \A k \in DOMAIN f : k \in U64 /\ f[k] \in U64 /\ k \in Nat /\ f[k] \in Nat /\ k <= f[k]
  BY DEF WellFormed, U64
<1>1. a \in Nat /\ b \in Nat
  BY DEF U64
<1>2. /\ cursor0 \in Nat /\ a <= cursor0
      /\ \A k \in DOMAIN f : k < cursor0 => f[k] < cursor0
      /\ \A s \in a..b : s < cursor0 => s \in SlotsOf(f)
  <2>1. CASE swallowing = {}
    <3>1. \A k \in DOMAIN f : k < a => f[k] < a
      <4> SUFFICES ASSUME NEW k \in DOMAIN f, k < a PROVE f[k] < a
        OBVIOUS
      <4>0. k <= a
        BY <1>0, <1>1
      <4>1. PICK p \in DOMAIN f : Preceding(f, a) = {p} /\ p <= a /\ k <= p
        BY <4>0, PrecedingExists
      <4>2. ~(f[p] >= a)
        BY <4>1, <2>1
      <4>3. f[k] <= f[p]
        BY <4>1, RangesInOrder
      <4> QED BY <4>2, <4>3, <1>0, <1>1
    <3> QED BY <2>1, <3>1, <1>0, <1>1
  <2>2. CASE swallowing # {}
    <3>1. PICK p \in swallowing : p = CHOOSE k \in swallowing : TRUE
      BY <2>2
    <3>2. p \in DOMAIN f /\ p <= a /\ f[p] >= a /\ cursor0 = f[p] + 1
      BY <2>2, <3>1 DEF Preceding
    <3>3. \A k \in DOMAIN f : k < f[p] + 1 => f[k] <= f[p]
      <4> SUFFICES ASSUME NEW k \in DOMAIN f, k < f[p] + 1 PROVE f[k] <= f[p]
        OBVIOUS
      <4>1. k <= f[p] + 1
        BY <1>0, <3>2
      <4>2. k <= p
        BY <4>1, <3>2, RangesInOrder
      <4> QED BY <4>2, <3>2, RangesInOrder
    <3>4. \A s \in a..b : s < f[p] + 1 => s \in SlotsOf(f)
      <4> SUFFICES ASSUME NEW s \in a..b, s < f[p] + 1 PROVE s \in SlotsOf(f)
        OBVIOUS
      <4>1. s \in U64
        BY <1>1, MaxU64Assumption DEF U64
      <4>2. p <= s /\ s <= f[p]
        BY <3>2, <1>0, <1>1
      <4> QED BY <4>1, <4>2, <3>2 DEF SlotsOf
    <3> HIDE DEF cursor0, swallowing
    <3> QED BY <3>2, <3>3, <3>4, <1>0, <1>1
  <2> QED BY <2>1, <2>2
<1> HIDE DEF cursor0, swallowing
<1>3. \A k \in inside : k \in DOMAIN f /\ cursor0 <= k /\ k <= b
  OBVIOUS
<1>4. ASSUME NEW c \in {cursor0} \cup {f[k] + 1 : k \in inside}
      PROVE  /\ c \in Nat /\ cursor0 <= c
             /\ \A j \in DOMAIN f : j < c => f[j] < c
  <2>1. CASE c = cursor0
    BY <2>1, <1>2
  <2>2. ASSUME NEW k \in inside, c = f[k] + 1
        PROVE  c \in Nat /\ cursor0 <= c /\ \A j \in DOMAIN f : j < c => f[j] < c
    <3>1. k \in DOMAIN f /\ cursor0 <= k
      BY <2>2, <1>3
    <3>2. c \in Nat /\ cursor0 <= c
      BY <3>1, <2>2, <1>0, <1>2
    <3>3. ASSUME NEW j \in DOMAIN f, j < c PROVE f[j] < c
      <4>1. j <= f[k] + 1
        BY <3>3, <2>2, <3>1, <1>0
      <4>2. j <= k
        BY <4>1, <3>1, RangesInOrder
      <4>3. f[j] <= f[k]
        BY <4>2, <3>1, RangesInOrder
      <4> QED BY <4>3, <2>2, <3>1, <1>0
    <3> QED BY <3>2, <3>3
  <2> QED BY <2>1, <2>2
<1>5. ASSUME NEW c \in cursors
      PROVE  /\ c \in Nat /\ cursor0 <= c /\ c <= b /\ c \notin DOMAIN f
             /\ \A j \in DOMAIN f : j < c => f[j] < c
  <2>1. c \in {cursor0} \cup {f[k] + 1 : k \in inside} /\ c <= b /\ c \notin inside
    OBVIOUS
  <2>2. c \in Nat /\ cursor0 <= c /\ \A j \in DOMAIN f : j < c => f[j] < c
    BY <2>1, <1>4
  <2> QED BY <2>1, <2>2
<1>6. ASSUME NEW c \in Nat, c <= b
      PROVE  /\ stop(c) \in Nat /\ c <= stop(c) /\ stop(c) <= b
             /\ \A k \in inside : k > c => stop(c) < k
             /\ \A s \in Nat : s <= b /\ (\A k \in inside : k > c => s < k) => s <= stop(c)
  <2>1. ASSUME NEW y \in bounds(c) PROVE y \in U64 /\ c <= y
    <3>1. CASE y = b
      BY <3>1, <1>6
    <3>2. ASSUME NEW k \in inside, k > c, y = k - 1 PROVE y \in U64 /\ c <= y
      <4>1. k \in U64 /\ k \in Nat
        BY <1>0, <1>3
      <4> QED BY <3>2, <4>1, <1>6, MaxU64Assumption DEF U64
    <3> QED BY <2>1, <3>1, <3>2
  <2>2. bounds(c) \in SUBSET U64 /\ b \in bounds(c)
    BY <2>1
  <2>3. stop(c) \in bounds(c) /\ \A y \in bounds(c) : stop(c) <= y
    BY <2>2, MinOfSlots
  <2>4. stop(c) \in Nat /\ c <= stop(c) /\ stop(c) <= b
    BY <2>1, <2>2, <2>3 DEF U64
  <2>5. ASSUME NEW k \in inside, k > c PROVE stop(c) < k
    <3>1. k - 1 \in bounds(c)
      BY <2>5
    <3>2. k \in Nat
      BY <1>0, <1>3
    <3> HIDE DEF stop, bounds
    <3> QED BY <3>1, <3>2, <2>3, <2>4
  <2>6. ASSUME NEW s \in Nat, s <= b, \A k \in inside : k > c => s < k PROVE s <= stop(c)
    <3>1. CASE stop(c) = b
      BY <3>1, <2>6
    <3>2. ASSUME NEW k \in inside, k > c, stop(c) = k - 1 PROVE s <= stop(c)
      <4>1. s < k /\ k \in Nat
        BY <3>2, <2>6, <1>0, <1>3
      <4> HIDE DEF stop
      <4> QED BY <4>1, <3>2
    <3> QED BY <2>3, <3>1, <3>2
  <2> QED BY <2>4, <2>5, <2>6
<1> HIDE DEF stop, bounds
<1>7. ASSUME NEW c \in cursors, NEW s \in c..stop(c)
      PROVE  s \in (a..b) \ SlotsOf(f)
  <2>1. c \in Nat /\ cursor0 <= c /\ c <= b /\ c \notin DOMAIN f
    BY <1>5
  <2>2. stop(c) \in Nat /\ stop(c) <= b /\ \A k \in inside : k > c => stop(c) < k
    BY <2>1, <1>6
  <2>3. s \in Nat /\ c <= s /\ s <= stop(c)
    BY <2>1, <2>2
  <2>4. s \in a..b
    BY <2>1, <2>2, <2>3, <1>1, <1>2
  <2>5. ASSUME NEW k \in DOMAIN f, k <= s, s <= f[k] PROVE FALSE
    <3>1. k \in Nat /\ f[k] \in Nat
      BY <1>0
    <3>2. CASE k < c
      BY <3>1, <3>2, <2>3, <2>5, <2>1, <1>5
    <3>3. CASE k > c
      <4>1. k \in inside
        BY <3>1, <3>3, <2>1, <2>2, <2>3, <2>5, <1>1, <1>2
      <4> QED BY <4>1, <3>1, <3>3, <2>2, <2>3, <2>5
    <3> QED BY <3>1, <3>2, <3>3, <2>1
  <2> QED BY <2>4, <2>5 DEF SlotsOf
<1>8. ASSUME NEW s \in (a..b) \ SlotsOf(f)
      PROVE  \E c \in cursors : s \in c..stop(c)
  <2>0. s \in Nat /\ a <= s /\ s <= b /\ s \in U64
    BY <1>1, MaxU64Assumption DEF U64
  <2>1. cursor0 <= s
    BY <2>0, <1>2
  <2>2. \A k \in DOMAIN f : k <= s => f[k] < s
    BY <2>0, <1>0 DEF SlotsOf
  <2> DEFINE K == {k \in inside : k <= s}
  <2>3. CASE K = {}
    <3>1. cursor0 \notin inside /\ cursor0 <= b
      BY <2>0, <2>1, <2>3, <1>2, <1>1
    <3>2. cursor0 \in cursors
      BY <3>1
    <3>3. \A k \in inside : k > cursor0 => s < k
      BY <2>0, <2>3, <1>0, <1>3
    <3>4. s <= stop(cursor0) /\ stop(cursor0) \in Nat
      BY <2>0, <3>1, <3>3, <1>2, <1>6
    <3>5. s \in cursor0..stop(cursor0)
      BY <2>0, <2>1, <3>4, <1>2
    <3> QED BY <3>2, <3>5
  <2>4. CASE K # {}
    <3>1. K \in SUBSET U64
      BY <1>0, <1>3
    <3>2. Max(K) \in K /\ \A k \in K : k <= Max(K)
      BY <2>4, <3>1, MaxOfSlots
    <3>3. PICK m \in inside : m <= s /\ \A k \in inside : k <= s => k <= m
      BY <3>2
    <3>4. m \in DOMAIN f /\ m \in Nat /\ f[m] \in Nat /\ m <= f[m] /\ f[m] < s
      BY <3>3, <2>2, <1>0, <1>3
    <3> DEFINE c == f[m] + 1
    <3>5. c \in Nat /\ c <= s /\ c <= b /\ m < c
      BY <3>4, <2>0, <1>1
    <3>6. c \notin inside
      <4> SUFFICES ASSUME c \in inside PROVE FALSE
        OBVIOUS
      <4>1. c \in DOMAIN f /\ m < c
        BY <3>5, <1>3
      <4>2. f[m] + 1 < c
        BY <4>1, <3>4 DEF WellFormed
      <4> QED BY <4>2, <3>4
    <3>7. c \in cursors
      BY <3>3, <3>5, <3>6
    <3>8. \A k \in inside : k > c => s < k
      BY <3>3, <3>5, <2>0, <1>0, <1>3
    <3>9. s <= stop(c) /\ stop(c) \in Nat
      BY <2>0, <3>5, <3>8, <1>6
    <3>10. s \in c..stop(c)
      BY <2>0, <3>5, <3>9
    <3> QED BY <3>7, <3>10
  <2> QED BY <2>3, <2>4
<1>9. UNION {h[1]..h[2] : h \in holes} = (a..b) \ SlotsOf(f)
  <2>1. ASSUME NEW s
        PROVE  s \in UNION {h[1]..h[2] : h \in holes} <=> \E c \in cursors : s \in c..stop(c)
    <3> HIDE DEF cursors
    <3>1. ASSUME s \in UNION {h[1]..h[2] : h \in holes}
          PROVE  \E c \in cursors : s \in c..stop(c)
      <4>1. PICK h \in holes : s \in h[1]..h[2]
        BY <3>1
      <4>2. PICK c \in cursors : h = <<c, stop(c)>>
        OBVIOUS
      <4>3. h[1] = c /\ h[2] = stop(c)
        BY <4>2
      <4> QED BY <4>1, <4>3
    <3>2. ASSUME NEW c \in cursors, s \in c..stop(c)
          PROVE  s \in UNION {h[1]..h[2] : h \in holes}
      <4> DEFINE h == <<c, stop(c)>>
      <4>1. h \in holes
        OBVIOUS
      <4>2. h[1] = c /\ h[2] = stop(c)
        OBVIOUS
      <4> HIDE DEF h, holes
      <4>3. s \in h[1]..h[2]
        BY <3>2, <4>2
      <4> QED BY <4>1, <4>3
    <3> QED BY <3>1, <3>2
  <2> HIDE DEF holes, cursors
  <2> QED BY <2>1, <1>7, <1>8
<1>10. ASSUME NEW c \in cursors, NEW d \in cursors, c < d
       PROVE  stop(c) + 1 < d
  <2>1. /\ c \in Nat /\ d \in Nat /\ cursor0 <= c /\ c <= b /\ c \notin DOMAIN f
        /\ \A j \in DOMAIN f : j < c => f[j] < c
    BY <1>5
  <2>2. PICK k \in inside : d = f[k] + 1
    BY <2>1, <1>2, <1>10
  <2>3. k \in DOMAIN f /\ k \in Nat /\ f[k] \in Nat /\ k <= f[k]
    BY <2>2, <1>0, <1>3
  <2>4. k > c
    BY <2>1, <2>2, <2>3, <1>10
  <2>5. stop(c) \in Nat /\ stop(c) < k
    BY <2>1, <2>2, <2>4, <1>6
  <2> QED BY <2>1, <2>2, <2>3, <2>5
<1>11. ASSUME NEW h \in holes, NEW i \in holes, h # i
       PROVE  h[2] + 1 < i[1] \/ i[2] + 1 < h[1]
  <2>1. PICK c \in cursors : h = <<c, stop(c)>>
    OBVIOUS
  <2>2. PICK d \in cursors : i = <<d, stop(d)>>
    OBVIOUS
  <2>3. c # d
    BY <1>11, <2>1, <2>2
  <2>4. c \in Nat /\ d \in Nat
    BY <1>5
  <2>5. CASE c < d
    BY <2>5, <2>1, <2>2, <1>10
  <2>6. CASE d < c
    BY <2>6, <2>1, <2>2, <1>10
  <2> QED BY <2>3, <2>4, <2>5, <2>6
<1>12. holes = HolesIn(f, a, b)
  BY DEF HolesIn, stop, bounds, cursor0, swallowing
<1> HIDE DEF holes
<1> QED BY <1>9, <1>11, <1>12

(***************************************************************************)
(* contains, intersects, covered_span, contiguous_tip_span, intersections  *)
(* and holes_in answer as the set of covered slots would, for every        *)
(* MaxU64 and after any sequence of inserts, removals and truncations.     *)
(***************************************************************************)
THEOREM QueriesCorrect == CoverageSpec => []QueriesExact
<1>1. CoverageInit => WellFormed(ranges)
  BY InitCorrect
<1>2. WellFormed(ranges) /\ [CoverageNext]_ranges => WellFormed(ranges)'
  BY StepCorrect
<1>3. WellFormed(ranges) => QueriesExact
  <2> SUFFICES ASSUME WellFormed(ranges) PROVE QueriesAgree /\ HolesAreTheGaps
    BY DEF QueriesExact
  <2>1. QueriesAgree
    BY PointQueriesCorrect, IntersectionsCorrect, SpansCorrect DEF QueriesAgree
  <2>2. HolesAreTheGaps
    BY HolesCorrect DEF HolesAreTheGaps
  <2> QED BY <2>1, <2>2
<1> QED BY <1>1, <1>2, <1>3, PTL DEF CoverageSpec

-----------------------------------------------------------------------------
(* The signature filters. *)

\* The table of writers has room for every holder of a guard.
EnoughWriters == Cardinality(Task) <= MaxWriters

(* A task that is not registered finds room in the table. *)
LEMMA RoomForAWriter ==
  ASSUME EnoughWriters, NEW t \in Task, tracked \in SUBSET Task, t \notin tracked
  PROVE  ~(Cardinality(tracked) >= MaxWriters)
<1>1. IsFiniteSet(Fill) /\ IsFiniteSet(Poisoner) /\ MaxWriters \in Nat
  BY SignatureIndexAssumption
<1>2. IsFiniteSet(Task)
  BY <1>1, FS_Union, FS_Singleton DEF Task
<1>3. IsFiniteSet(tracked) /\ Cardinality(tracked) \in Nat /\ Cardinality(Task) \in Nat
  BY <1>2, FS_Subset, FS_CardinalityType
<1>4. Cardinality(tracked) < Cardinality(Task)
  BY <1>2, <1>3, FS_Subset
<1> QED
  BY <1>1, <1>3, <1>4 DEF EnoughWriters

(* Every slot lies in a partition. *)
LEMMA PartitionsFact ==
  Partition(0) \in Partitions /\ \A s \in Slot : Partition(s) \in Partitions
BY SignatureIndexAssumption DEF Partitions, Slot


(* A generation handed out is the token of the entry, and no token is newer
   than the serial. *)
LEMMA EnsureStep ==
  ASSUME IndInv, EnoughWriters, NEW x \in Ensurer, NEW p \in Partitions, Ensure(x, p)
  PROVE  IndInv'
<1>0. /\ TypeOK /\ AllTracked /\ FillsAreApart /\ GenerationsAreOld /\ UpdatesHold
      /\ StreamsMissNothing /\ BuildMissesNothing /\ AllocationIsFresh
      /\ CompleteMeansCovered
  BY DEF IndInv
<1>1. TypeOK'
  <2>1. CASE p \in present
    BY <1>0, <2>1 DEF Ensure, TypeOK, index, writers
  <2>2. CASE p \notin present
    BY <1>0, <2>2 DEF Ensure, TypeOK, index, writers
  <2> QED
    BY <2>1, <2>2
<1>2. AllTracked'
  BY <1>0
     DEF Ensure, Asking, AllocationFree, AllTracked, index, writers, scans
<1>3. FillsAreApart'
  BY <1>0
     DEF Ensure, Asking, AllocationFree, FillsAreApart, FillsIdle, index, writers, scans
<1>4. GenerationsAreOld'
  <2>1. CASE p \in present
    BY <1>0, <2>1 DEF Ensure, GenerationsAreOld, TypeOK, index
  <2>2. CASE p \notin present
    BY <1>0, <2>2 DEF Ensure, GenerationsAreOld, TypeOK, index
  <2> QED
    BY <2>1, <2>2
<1>5. UpdatesHold'
  BY <1>0
     DEF Ensure, Asking, AllocationFree, UpdatesHold, Good, index, writers, scans
<1>6. StreamsMissNothing'
  BY <1>0
     DEF Ensure, Asking, AllocationFree, StreamsMissNothing, SameToken, InFilterOrPending,
         index, writers, scans, TypeOK, Task, Ensurer, FillsAreApart, GenerationsAreOld,
         AllocationIsFresh, UpdatesHold, Covers
<1>7. BuildMissesNothing'
  BY <1>0
     DEF Ensure, Asking, AllocationFree, BuildMissesNothing, SameToken, InFilterOrPending,
         Masked, SignatureUpdate, Good, index, writers, scans, TypeOK, Task, Ensurer
<1>8. AllocationIsFresh'
  BY <1>0, SignatureIndexAssumption
     DEF Ensure, Asking, AllocationFree, AllocationIsFresh, Masked, SignatureUpdate,
         Unlocked, index, writers, scans, TypeOK, Task, Ensurer
<1>9. CompleteMeansCovered'
  BY <1>0
     DEF Ensure, Asking, AllocationFree, CompleteMeansCovered, Masked, SignatureUpdate, Good,
         index, writers, scans
<1> QED
  BY <1>1, <1>2, <1>3, <1>4, <1>5, <1>6, <1>7, <1>8, <1>9 DEF IndInv

(* The coverage read here is what AllocationIsFresh remembers. *)
LEMMA ProbeStep ==
  ASSUME IndInv, EnoughWriters, NEW x \in Ensurer, Probe(x)
  PROVE  IndInv'
<1>0. /\ TypeOK /\ AllTracked /\ FillsAreApart /\ GenerationsAreOld /\ UpdatesHold
      /\ StreamsMissNothing /\ BuildMissesNothing /\ AllocationIsFresh
      /\ CompleteMeansCovered
  BY DEF IndInv
<1>1. TypeOK'
  BY <1>0
     DEF Probe, TypeOK, index, writers, scans
<1>2. AllTracked'
  BY <1>0
     DEF Probe, AllTracked, index, writers, scans
<1>3. FillsAreApart'
  BY <1>0
     DEF Probe, FillsAreApart, FillsIdle, index, writers, scans
<1>4. GenerationsAreOld'
  BY <1>0
     DEF Probe, GenerationsAreOld, Unlocked, index, writers, scans
<1>5. UpdatesHold'
  BY <1>0
     DEF Probe, UpdatesHold, Good, index, writers, scans
<1>6. StreamsMissNothing'
  BY <1>0
     DEF Probe, StreamsMissNothing, SameToken, InFilterOrPending, index, writers, scans
<1>7. BuildMissesNothing'
  BY <1>0
     DEF Probe, BuildMissesNothing, SameToken, InFilterOrPending, Masked, SignatureUpdate,
         Good, index, writers, scans
<1>8. AllocationIsFresh'
  BY <1>0, SignatureIndexAssumption
     DEF Probe, AllocationIsFresh, Masked, SignatureUpdate, Unlocked, index, writers, scans,
         TypeOK, Task, Ensurer
<1>9. CompleteMeansCovered'
  BY <1>0
     DEF Probe, CompleteMeansCovered, Masked, SignatureUpdate, Good, index, writers, scans
<1> QED
  BY <1>1, <1>2, <1>3, <1>4, <1>5, <1>6, <1>7, <1>8, <1>9 DEF IndInv

(* The new entry has a token nobody holds; it starts complete only if the
   coverage was empty and no writer registered since. *)
LEMMA AllocateStep ==
  ASSUME IndInv, EnoughWriters, NEW x \in Ensurer, Allocate(x)
  PROVE  IndInv'
<1>0. /\ TypeOK /\ AllTracked /\ FillsAreApart /\ GenerationsAreOld /\ UpdatesHold
      /\ StreamsMissNothing /\ BuildMissesNothing /\ AllocationIsFresh
      /\ CompleteMeansCovered
  BY DEF IndInv
<1>k. \A s : Masked(s)' <=> Masked(s)
  BY DEF Masked, SignatureUpdate, Allocate, writers
<1>u. /\ pc[x] = "update" /\ alloc.partition \in Partitions /\ serial \in Nat
      /\ alloc.partition \notin present
  BY <1>0, SignatureIndexAssumption DEF Allocate, AllocationIsFresh, TypeOK, Ensurer
<1>1. TypeOK'
  BY <1>0, PartitionsFact
     DEF Allocate, TypeOK, Unlocked, Ensurer, index, writers, scans
<1>2. AllTracked'
  BY <1>0
     DEF Allocate, SameGeneration, AllTracked, index, writers, scans
<1>3. FillsAreApart'
  BY <1>0
     DEF Allocate, SameGeneration, FillsAreApart, FillsIdle, index, writers, scans
<1>4. GenerationsAreOld'
  BY <1>0
     DEF Allocate, SameGeneration, GenerationsAreOld, Unlocked, index, writers, scans,
         TypeOK, Task, Ensurer
<1>5. UpdatesHold'
  BY <1>0, SignatureIndexAssumption
     DEF Allocate, SameGeneration, UpdatesHold, Good, index, writers, scans, TypeOK, Task,
         Ensurer, FillsAreApart, StreamsMissNothing, AllTracked, AllocationIsFresh, Covers
<1>6. StreamsMissNothing'
  BY <1>0, SignatureIndexAssumption
     DEF Allocate, SameGeneration, StreamsMissNothing, SameToken, InFilterOrPending, index,
         writers, scans, TypeOK, Task, Ensurer, FillsAreApart, GenerationsAreOld,
         AllocationIsFresh, UpdatesHold, Covers
<1>7. BuildMissesNothing'
  <2>1. pc' = pc /\ coverage' = coverage /\ building' = building /\ pending' = pending /\ rows' = rows
    BY DEF Allocate
  <2>2. pc[Builder] = "inserted" => pending[Builder] = {}
    BY <1>0 DEF BuildMissesNothing
  <2>3. ASSUME pc[Builder] \in {"stream", "inserted"}, NEW s \in coverage,
  Partition(s) = building,
               SameToken(Builder, building)'
        PROVE  Masked(s)' \/ InFilterOrPending(Builder, s)'
    <3>1. x # Builder /\ tokens'[Builder] = tokens[Builder]
      BY <1>0, <1>u, <2>3 DEF Allocate, TypeOK, Ensurer
    <3>2. building # alloc.partition
      BY <1>0, <1>u, <2>1, <2>3, <3>1 DEF Allocate, SameToken, GenerationsAreOld, TypeOK,
      Ensurer
    <3>3. SameToken(Builder, building) /\ bloom'[building] = bloom[building]
      BY <1>0, <1>u, <2>1, <2>3, <3>1, <3>2 DEF Allocate, SameToken, TypeOK
    <3> QED
      BY <1>0, <1>k, <2>1, <2>3, <3>3 DEF BuildMissesNothing, InFilterOrPending
  <2> QED
    BY <2>1, <2>2, <2>3 DEF BuildMissesNothing
<1>8. AllocationIsFresh'
  BY <1>0
     DEF Allocate, SameGeneration, AllocationIsFresh, Masked, SignatureUpdate, Unlocked,
         index, writers, scans
<1>9. CompleteMeansCovered'
  <2> SUFFICES ASSUME NEW s \in coverage, Partition(s) \in present', complete'[Partition(s)]
               PROVE  Good(s)' \/ Masked(s)
    BY <1>k DEF CompleteMeansCovered, Allocate
  <2>1. CASE Partition(s) = alloc.partition
    <3>0. DOMAIN complete = Partitions
      BY <1>0 DEF TypeOK
    <3>1. alloc.empty = "yes"
      BY <1>u, <2>1, <3>0 DEF Allocate
    <3>2. alloc.owner # None
      BY SignatureIndexAssumption DEF Allocate, Ensurer
    <3> QED
      BY <1>0, <2>1, <3>1, <3>2 DEF Allocate, AllocationIsFresh, SameGeneration
  <2>2. CASE Partition(s) # alloc.partition
    BY <1>0, <1>u, <2>2, PartitionsFact DEF Allocate, CompleteMeansCovered, Good, TypeOK
  <2> QED
    BY <2>1, <2>2
<1> QED
  BY <1>1, <1>2, <1>3, <1>4, <1>5, <1>6, <1>7, <1>8, <1>9 DEF IndInv

(* Only the holder of the allocation mutex fails here, and it was
   updating. *)
LEMMA AllocateFailsStep ==
  ASSUME IndInv, EnoughWriters, NEW x \in Ensurer, AllocateFails(x)
  PROVE  IndInv'
<1>0. /\ TypeOK /\ AllTracked /\ FillsAreApart /\ GenerationsAreOld /\ UpdatesHold
      /\ StreamsMissNothing /\ BuildMissesNothing /\ AllocationIsFresh
      /\ CompleteMeansCovered
  BY DEF IndInv
<1>p. pc[x] = "update" /\ x # None
  BY <1>0, SignatureIndexAssumption DEF AllocateFails, AllocationIsFresh, Ensurer
<1>1. TypeOK'
  BY <1>0, <1>p, PartitionsFact, SignatureIndexAssumption
     DEF AllocateFails, AllTracked, FillsAreApart, FillsIdle, TypeOK, Unlocked, Task,
         Ensurer, index, writers, scans
<1>2. AllTracked'
  BY <1>0, <1>p, PartitionsFact, SignatureIndexAssumption
     DEF AllocateFails, AllTracked, FillsAreApart, FillsIdle, TypeOK, Unlocked, Task,
         Ensurer, index, writers, scans
<1>3. FillsAreApart'
  BY <1>0, <1>p, PartitionsFact, SignatureIndexAssumption
     DEF AllocateFails, AllTracked, FillsAreApart, FillsIdle, TypeOK, Unlocked, Task,
         Ensurer, index, writers, scans
<1>4. GenerationsAreOld'
  BY <1>0
     DEF AllocateFails, GenerationsAreOld, Unlocked, TypeOK, index, scans
<1>5. UpdatesHold'
  BY <1>0, SignatureIndexAssumption
     DEF AllocateFails, UpdatesHold, Good, index, writers, scans, TypeOK, Task, Ensurer,
         FillsAreApart, StreamsMissNothing, AllTracked, AllocationIsFresh, Covers
<1>6. StreamsMissNothing'
  BY <1>0
     DEF AllocateFails, StreamsMissNothing, SameToken, InFilterOrPending, index, writers, scans
<1>7. BuildMissesNothing'
  BY <1>0
     DEF AllocateFails, BuildMissesNothing, SameToken, InFilterOrPending, Masked,
         SignatureUpdate, Good, index, writers, scans
<1>8. AllocationIsFresh'
  BY <1>0
     DEF AllocateFails, AllocationIsFresh, Masked, SignatureUpdate, Unlocked, index, writers,
         scans
<1>9. CompleteMeansCovered'
  BY <1>0
     DEF AllocateFails, CompleteMeansCovered, Masked, SignatureUpdate, Good, index, writers,
         scans
<1> QED
  BY <1>1, <1>2, <1>3, <1>4, <1>5, <1>6, <1>7, <1>8, <1>9 DEF IndInv

(* What is stored is now pending, whatever the filter holds. *)
LEMMA ScanStep ==
  ASSUME IndInv, EnoughWriters, NEW x \in Ensurer, Scan(x)
  PROVE  IndInv'
<1>0. /\ TypeOK /\ AllTracked /\ FillsAreApart /\ GenerationsAreOld /\ UpdatesHold
      /\ StreamsMissNothing /\ BuildMissesNothing /\ AllocationIsFresh
      /\ CompleteMeansCovered
  BY DEF IndInv
<1>1. TypeOK'
  BY <1>0
     DEF Scan, ToScan, TypeOK, index, writers, scans, Task, Ensurer
<1>2. AllTracked'
  BY <1>0
     DEF Scan, ToScan, AllTracked, index, writers, scans
<1>3. FillsAreApart'
  BY <1>0
     DEF Scan, ToScan, FillsAreApart, FillsIdle, index, writers, scans
<1>4. GenerationsAreOld'
  BY <1>0
     DEF Scan, ToScan, GenerationsAreOld, Unlocked, index, writers, scans
<1>5. UpdatesHold'
  BY <1>0
     DEF Scan, ToScan, UpdatesHold, Good, index, writers, scans
<1>6. StreamsMissNothing'
  <2> SUFFICES ASSUME NEW f \in Fill, pc'[f] = "stream", NEW s \in range[f], NEW g \in rows[s],
                      SameToken(f, Partition(s))
               PROVE  g \in bloom[Partition(s)] \/ <<s, g>> \in pending'[f]
    BY DEF StreamsMissNothing, InFilterOrPending, SameToken, Scan, index, writers
  <2>1. CASE f = x
    <3>1. s \in Slot /\ g \in Sig /\ s \in ToScan(x)
      BY <1>0, <2>1, SignatureIndexAssumption DEF TypeOK, Task, ToScan
    <3> QED
      BY <1>0, <2>1, <3>1 DEF Scan, TypeOK, Ensurer
  <2>2. CASE f # x
    BY <1>0, <2>2 DEF Scan, StreamsMissNothing, InFilterOrPending, TypeOK, Ensurer, Task
  <2> QED
    BY <2>1, <2>2
<1>7. BuildMissesNothing'
  BY <1>0
     DEF Scan, ToScan, BuildMissesNothing, SameToken, InFilterOrPending, Masked,
         SignatureUpdate, Good, index, writers, scans, TypeOK, Task, Ensurer
<1>8. AllocationIsFresh'
  BY <1>0
     DEF Scan, ToScan, AllocationIsFresh, Masked, SignatureUpdate, Unlocked, index, writers,
         scans
<1>9. CompleteMeansCovered'
  BY <1>0
     DEF Scan, ToScan, CompleteMeansCovered, Masked, SignatureUpdate, Good, index, writers,
         scans
<1> QED
  BY <1>1, <1>2, <1>3, <1>4, <1>5, <1>6, <1>7, <1>8, <1>9 DEF IndInv

(* A row leaves pending only for the filter of its generation. *)
LEMMA InsertBatchStep ==
  ASSUME IndInv, EnoughWriters, NEW x \in Ensurer, NEW batch \in SUBSET pending[x], InsertBatch(x, batch)
  PROVE  IndInv'
<1>0. /\ TypeOK /\ AllTracked /\ FillsAreApart /\ GenerationsAreOld /\ UpdatesHold
      /\ StreamsMissNothing /\ BuildMissesNothing /\ AllocationIsFresh
      /\ CompleteMeansCovered
  BY DEF IndInv
<1>b. \A p \in Partitions : bloom[p] \subseteq bloom'[p]
  BY <1>0 DEF InsertBatch, TypeOK
<1>c. \A r \in batch : Partition(r[1]) \in Partitions => r[2] \in bloom'[Partition(r[1])]
  BY <1>0 DEF InsertBatch, TypeOK
<1>i. \A y \in Ensurer, s \in Slot : InFilterOrPending(y, s) => InFilterOrPending(y, s)'
  <2> SUFFICES ASSUME NEW y \in Ensurer, NEW s \in Slot, InFilterOrPending(y, s),
                      NEW g \in rows[s], g \notin bloom'[Partition(s)]
               PROVE  <<s, g>> \in pending'[y]
    BY DEF InFilterOrPending, InsertBatch
  <2>1. <<s, g>> \in pending[y]
    BY <1>b, PartitionsFact DEF InFilterOrPending
  <2>2. <<s, g>> \notin batch
    BY <1>c, PartitionsFact
  <2> QED
    BY <1>0, <2>1, <2>2 DEF InsertBatch, TypeOK
<1>1. TypeOK'
  BY <1>0
     DEF InsertBatch, ToScan, GenerationsMatch, TypeOK, index, writers, scans, Task, Ensurer
<1>2. AllTracked'
  BY <1>0
     DEF InsertBatch, ToScan, GenerationsMatch, AllTracked, index, writers, scans
<1>3. FillsAreApart'
  BY <1>0
     DEF InsertBatch, ToScan, GenerationsMatch, FillsAreApart, FillsIdle, index, writers, scans
<1>4. GenerationsAreOld'
  BY <1>0
     DEF InsertBatch, ToScan, GenerationsMatch, GenerationsAreOld, Unlocked, index, writers,
         scans
<1>5. UpdatesHold'
  <2>1. \A s \in Slot : Good(s) => Good(s)'
    BY <1>b, PartitionsFact DEF Good, InsertBatch
  <2>2. ASSUME x \in Fill, batch = pending[x], NEW s \in range[x]
        PROVE  Partition(s) \in present /\ Good(s)'
    <3>1. s \in Slot /\ s \in ToScan(x)
      BY <1>0, <2>2, SignatureIndexAssumption DEF TypeOK, Task, ToScan
    <3>2. SameToken(x, Partition(s))
      BY <3>1 DEF InsertBatch, GenerationsMatch, SameToken
    <3>3. InFilterOrPending(x, s)'
      BY <1>0, <1>i, <2>2, <3>1, <3>2 DEF StreamsMissNothing, InsertBatch, Ensurer
    <3>4. pending'[x] = {}
      BY <1>0, <2>2 DEF InsertBatch, TypeOK, Ensurer
    <3> QED
      BY <3>2, <3>3, <3>4 DEF InFilterOrPending, Good, SameToken
  <2>3. pc'[x] = IF batch = pending[x] THEN "inserted" ELSE "stream"
    BY <1>0 DEF InsertBatch, TypeOK, Ensurer, Task
  <2>4. \A f \in Fill : f # x => pc'[f] = pc[f]
    BY <1>0 DEF InsertBatch, TypeOK, Task
  <2> QED
    BY <1>0, <2>1, <2>2, <2>3, <2>4 DEF UpdatesHold, InsertBatch, TypeOK, Task, writers
<1>6. StreamsMissNothing'
  BY <1>0
     DEF InsertBatch, ToScan, GenerationsMatch, StreamsMissNothing, SameToken,
         InFilterOrPending, index, writers, scans, TypeOK, Task, Ensurer
<1>7. BuildMissesNothing'
  <2>1. \A s : Masked(s) => Masked(s)'
    BY <1>0, SignatureIndexAssumption
       DEF Masked, SignatureUpdate, InsertBatch, AllTracked, TypeOK, Task, Ensurer, writers
  <2>2. pc'[Builder] = "inserted" => pending'[Builder] = {}
    BY <1>0 DEF BuildMissesNothing, InsertBatch, TypeOK, Ensurer, Task
  <2>3. pc'[Builder] \in {"stream", "inserted"} => pc[Builder] \in {"stream", "inserted"}
    BY <1>0 DEF InsertBatch, TypeOK, Ensurer, Task
  <2>4. \A s \in coverage : s \in Slot /\ Builder \in Ensurer
    BY <1>0 DEF TypeOK, Ensurer
  <2>5. UNCHANGED <<coverage, building>> /\ (SameToken(Builder,
  building)' <=> SameToken(Builder, building))
    BY DEF SameToken, InsertBatch
  <2> QED
    BY <1>0, <1>i, <2>1, <2>2, <2>3, <2>4, <2>5 DEF BuildMissesNothing
<1>8. AllocationIsFresh'
  BY <1>0
     DEF InsertBatch, ToScan, GenerationsMatch, AllocationIsFresh, Masked, SignatureUpdate,
         Unlocked, index, writers, scans
<1>9. CompleteMeansCovered'
  BY <1>0
     DEF InsertBatch, ToScan, GenerationsMatch, CompleteMeansCovered, Masked,
         SignatureUpdate, Good, index, writers, scans, TypeOK, Task, Ensurer
<1> QED
  BY <1>1, <1>2, <1>3, <1>4, <1>5, <1>6, <1>7, <1>8, <1>9 DEF IndInv

(* Nothing but the program counter moves. *)
LEMMA UpdateFailsStep ==
  ASSUME IndInv, EnoughWriters, NEW x \in Ensurer, UpdateFails(x)
  PROVE  IndInv'
<1>0. /\ TypeOK /\ AllTracked /\ FillsAreApart /\ GenerationsAreOld /\ UpdatesHold
      /\ StreamsMissNothing /\ BuildMissesNothing /\ AllocationIsFresh
      /\ CompleteMeansCovered
  BY DEF IndInv
<1>1. TypeOK'
  BY <1>0
     DEF UpdateFails, TypeOK, index, writers, scans, Task, Ensurer
<1>2. AllTracked'
  BY <1>0
     DEF UpdateFails, AllTracked, index, writers, scans
<1>3. FillsAreApart'
  BY <1>0
     DEF UpdateFails, FillsAreApart, FillsIdle, index, writers, scans
<1>4. GenerationsAreOld'
  BY <1>0
     DEF UpdateFails, GenerationsAreOld, Unlocked, index, writers, scans
<1>5. UpdatesHold'
  BY <1>0
     DEF UpdateFails, UpdatesHold, Good, index, writers, scans
<1>6. StreamsMissNothing'
  BY <1>0
     DEF UpdateFails, StreamsMissNothing, SameToken, InFilterOrPending, index, writers, scans
<1>7. BuildMissesNothing'
  BY <1>0
     DEF UpdateFails, BuildMissesNothing, SameToken, InFilterOrPending, Masked,
         SignatureUpdate, Good, index, writers, scans
<1>8. AllocationIsFresh'
  BY <1>0
     DEF UpdateFails, AllocationIsFresh, Masked, SignatureUpdate, Unlocked, index, writers,
         scans
<1>9. CompleteMeansCovered'
  BY <1>0
     DEF UpdateFails, CompleteMeansCovered, Masked, SignatureUpdate, Good, index, writers, scans
<1> QED
  BY <1>1, <1>2, <1>3, <1>4, <1>5, <1>6, <1>7, <1>8, <1>9 DEF IndInv

(* The planned slots are uncovered and free of other fills; what is masked
   stays masked. *)
LEMMA BeginFillStep ==
  ASSUME IndInv, EnoughWriters, NEW f \in Fill, NEW slots \in FillRanges, BeginFill(f, slots)
  PROVE  IndInv'
<1>0. /\ TypeOK /\ AllTracked /\ FillsAreApart /\ GenerationsAreOld /\ UpdatesHold
      /\ StreamsMissNothing /\ BuildMissesNothing /\ AllocationIsFresh
      /\ CompleteMeansCovered
  BY DEF IndInv
<1>m. ~(Cardinality(tracked) >= MaxWriters)
  BY <1>0, RoomForAWriter DEF TypeOK, AllTracked, Task, BeginFill
<1>k. \A s : Masked(s) => Masked(s)'
  BY <1>0, <1>m, SignatureIndexAssumption
     DEF Masked, SignatureUpdate, BeginFill, Mutation, AllTracked, TypeOK, Task, writers
<1>s. serial \in Nat /\ serial' = serial + 1 /\ UNCHANGED <<rows, coverage, index, scans, alloc>>
  BY <1>0, <1>m DEF BeginFill, Mutation, TypeOK, index, scans
<1>1. TypeOK'
  <2>0. PICK lo \in Slot, hi \in Slot : slots = lo..hi
    BY DEF FillRanges
  <2>1. slots \in SUBSET Slot
    BY <2>0, SignatureIndexAssumption DEF Slot
  <2> QED
    BY <1>0, <1>m, <2>1 DEF BeginFill, Mutation, TypeOK, Task, index, scans
<1>2. AllTracked'
  BY <1>0, <1>m
     DEF BeginFill, Planned, Mutation, FillRanges, Slot, AllTracked, index, writers, scans,
         TypeOK, Task, Ensurer
<1>3. FillsAreApart'
  BY <1>0, <1>m, SignatureIndexAssumption
     DEF BeginFill, Planned, Mutation, FillRanges, Slot, FillsAreApart, FillsIdle, index,
         writers, scans, TypeOK, Task, Ensurer
<1>4. GenerationsAreOld'
  BY <1>0, <1>k, <1>s
     DEF GenerationsAreOld, index, scans, TypeOK
<1>5. UpdatesHold'
  BY <1>0, <1>m
     DEF BeginFill, Planned, Mutation, FillRanges, Slot, UpdatesHold, Good, index, writers,
         scans, TypeOK, Task, Ensurer
<1>6. StreamsMissNothing'
  BY <1>0, <1>m
     DEF BeginFill, Planned, Mutation, FillRanges, Slot, StreamsMissNothing, SameToken,
         InFilterOrPending, index, writers, scans
<1>7. BuildMissesNothing'
  BY <1>0, <1>k, <1>s, SignatureIndexAssumption
     DEF BuildMissesNothing, SameToken, InFilterOrPending, BeginFill, index, scans, TypeOK, Task
<1>8. AllocationIsFresh'
  BY <1>0, <1>k, <1>s, SignatureIndexAssumption
     DEF AllocationIsFresh, GenerationsAreOld, BeginFill, index, TypeOK, Task, Ensurer
<1>9. CompleteMeansCovered'
  BY <1>0, <1>k, <1>s
     DEF CompleteMeansCovered, Good, index
<1> QED
  BY <1>1, <1>2, <1>3, <1>4, <1>5, <1>6, <1>7, <1>8, <1>9 DEF IndInv

(* Nothing but the program counter moves. *)
LEMMA SignatureFillStep ==
  ASSUME IndInv, EnoughWriters, NEW f \in Fill, SignatureFill(f)
  PROVE  IndInv'
<1>0. /\ TypeOK /\ AllTracked /\ FillsAreApart /\ GenerationsAreOld /\ UpdatesHold
      /\ StreamsMissNothing /\ BuildMissesNothing /\ AllocationIsFresh
      /\ CompleteMeansCovered
  BY DEF IndInv
<1>1. TypeOK'
  BY <1>0
     DEF SignatureFill, TypeOK, index, writers, scans, Task, Ensurer
<1>2. AllTracked'
  BY <1>0
     DEF SignatureFill, AllTracked, index, writers, scans
<1>3. FillsAreApart'
  BY <1>0
     DEF SignatureFill, FillsAreApart, FillsIdle, index, writers, scans
<1>4. GenerationsAreOld'
  BY <1>0
     DEF SignatureFill, GenerationsAreOld, Unlocked, index, writers, scans
<1>5. UpdatesHold'
  BY <1>0
     DEF SignatureFill, UpdatesHold, Good, index, writers, scans
<1>6. StreamsMissNothing'
  BY <1>0
     DEF SignatureFill, StreamsMissNothing, SameToken, InFilterOrPending, index, writers, scans
<1>7. BuildMissesNothing'
  BY <1>0
     DEF SignatureFill, BuildMissesNothing, SameToken, InFilterOrPending, Masked,
         SignatureUpdate, Good, index, writers, scans
<1>8. AllocationIsFresh'
  BY <1>0
     DEF SignatureFill, AllocationIsFresh, Masked, SignatureUpdate, Unlocked, index, writers,
         scans
<1>9. CompleteMeansCovered'
  BY <1>0
     DEF SignatureFill, CompleteMeansCovered, Masked, SignatureUpdate, Good, index, writers,
         scans
<1> QED
  BY <1>1, <1>2, <1>3, <1>4, <1>5, <1>6, <1>7, <1>8, <1>9 DEF IndInv

(* Rows change only at slots that no coverage and no other fill holds.     *)
LEMMA ForwardStep ==
  ASSUME IndInv, EnoughWriters, NEW f \in Fill, NEW s \in Slot, NEW g \in Sig, Forward(f, s, g)
  PROVE  IndInv'
<1>0. /\ TypeOK /\ AllTracked /\ FillsAreApart /\ GenerationsAreOld /\ UpdatesHold
      /\ StreamsMissNothing /\ BuildMissesNothing /\ AllocationIsFresh
      /\ CompleteMeansCovered
  BY DEF IndInv
<1>r. s \notin coverage /\ UNCHANGED <<coverage, index, pc, writers, scans, alloc>>
  BY <1>0 DEF Forward, FillsAreApart
<1>k. \A q : Masked(q)' <=> Masked(q)
  BY <1>r DEF Masked, SignatureUpdate, writers
<1>q. \A q \in coverage : rows'[q] = rows[q]
  BY <1>0, <1>r DEF Forward, TypeOK
<1>1. TypeOK'
  BY <1>0
     DEF Forward, TypeOK, index, writers, scans
<1>2. AllTracked'
  BY <1>0
     DEF Forward, AllTracked, index, writers, scans
<1>3. FillsAreApart'
  BY <1>0
     DEF Forward, FillsAreApart, FillsIdle, index, writers, scans
<1>4. GenerationsAreOld'
  BY <1>0
     DEF Forward, GenerationsAreOld, Unlocked, index, writers, scans
<1>5. UpdatesHold'
  BY <1>0
     DEF Forward, UpdatesHold, Good, index, writers, scans, TypeOK, Task, Ensurer,
         FillsAreApart, StreamsMissNothing, AllTracked, AllocationIsFresh, Covers
<1>6. StreamsMissNothing'
  <2>1. \A h \in Fill : pc[h] = "stream" => \A q \in range[h] : rows'[q] = rows[q]
    BY <1>0 DEF Forward, FillsAreApart, TypeOK, Task
  <2> QED
    BY <1>0, <1>r, <2>1 DEF StreamsMissNothing, SameToken, InFilterOrPending, index, writers,
    scans
<1>7. BuildMissesNothing'
  BY <1>0, <1>r, <1>k, <1>q
     DEF BuildMissesNothing, SameToken, InFilterOrPending, index, scans
<1>8. AllocationIsFresh'
  BY <1>0
     DEF Forward, AllocationIsFresh, Masked, SignatureUpdate, Unlocked, index, writers, scans
<1>9. CompleteMeansCovered'
  BY <1>0, SignatureIndexAssumption
     DEF Forward, CompleteMeansCovered, Masked, SignatureUpdate, Good, index, writers, scans,
         TypeOK, Task, Ensurer, FillsAreApart, UpdatesHold, AllTracked, BuildMissesNothing,
         AllocationIsFresh, SameToken, InFilterOrPending, Covers
<1> QED
  BY <1>1, <1>2, <1>3, <1>4, <1>5, <1>6, <1>7, <1>8, <1>9 DEF IndInv

(* The published slots lie in the range of the fill. *)
LEMMA ValidateStep ==
  ASSUME IndInv, EnoughWriters, NEW f \in Fill, NEW slots \in SUBSET Slot, Validate(f, slots)
  PROVE  IndInv'
<1>0. /\ TypeOK /\ AllTracked /\ FillsAreApart /\ GenerationsAreOld /\ UpdatesHold
      /\ StreamsMissNothing /\ BuildMissesNothing /\ AllocationIsFresh
      /\ CompleteMeansCovered
  BY DEF IndInv
<1>1. TypeOK'
  BY <1>0
     DEF Validate, TypeOK, index, writers, scans, Task, Ensurer
<1>2. AllTracked'
  BY <1>0
     DEF Validate, AllTracked, index, writers, scans
<1>3. FillsAreApart'
  BY <1>0
     DEF Validate, FillsAreApart, FillsIdle, index, writers, scans
<1>4. GenerationsAreOld'
  BY <1>0
     DEF Validate, GenerationsAreOld, Unlocked, index, writers, scans, TypeOK, Task, Ensurer
<1>5. UpdatesHold'
  BY <1>0
     DEF Validate, UpdatesHold, Good, index, writers, scans
<1>6. StreamsMissNothing'
  BY <1>0
     DEF Validate, StreamsMissNothing, SameToken, InFilterOrPending, index, writers, scans
<1>7. BuildMissesNothing'
  BY <1>0
     DEF Validate, BuildMissesNothing, SameToken, InFilterOrPending, Masked, SignatureUpdate,
         Good, index, writers, scans
<1>8. AllocationIsFresh'
  BY <1>0
     DEF Validate, AllocationIsFresh, Masked, SignatureUpdate, Unlocked, index, writers, scans
<1>9. CompleteMeansCovered'
  BY <1>0
     DEF Validate, CompleteMeansCovered, Masked, SignatureUpdate, Good, index, writers, scans
<1> QED
  BY <1>1, <1>2, <1>3, <1>4, <1>5, <1>6, <1>7, <1>8, <1>9 DEF IndInv

(* A failed update distrusts its partitions and starts to mask them; a
   successful one leaves its rows in filters that are present. *)
LEMMA FinishSignaturesStep ==
  ASSUME IndInv, EnoughWriters, NEW f \in Fill, FinishSignatures(f)
  PROVE  IndInv'
<1>0. /\ TypeOK /\ AllTracked /\ FillsAreApart /\ GenerationsAreOld /\ UpdatesHold
      /\ StreamsMissNothing /\ BuildMissesNothing /\ AllocationIsFresh
      /\ CompleteMeansCovered
  BY DEF IndInv
<1>f. f \in tracked /\ pc' = [pc EXCEPT ![f] = "publish"]
  BY <1>0 DEF FinishSignatures, AllTracked, Task
<1>u. /\ UNCHANGED <<rows, coverage, tracked, range, untracked, published, scans, alloc>>
      /\ updated' = [updated EXCEPT ![f] = (pc[f] = "inserted")]
      /\ repair' = [repair EXCEPT ![f] = @ \/ pc[f] = "failed"]
  BY <1>f DEF FinishSignatures
<1>i. UNCHANGED <<present, bloom>>
  BY <1>f DEF FinishSignatures, Invalidate, index
<1>k. \A s \in coverage : Masked(s) => Masked(s)'
  <2>1. ASSUME NEW s \in coverage, NEW h \in tracked \cap Fill, s \in range[h],
               SignatureUpdate(h), repair[h], ~updated[h]
        PROVE  Masked(s)'
    <3>1. h # f
      BY <1>0, <2>1 DEF FinishSignatures, FillsAreApart
    <3> QED
      BY <1>0, <1>f, <1>u, <2>1, <3>1 DEF Masked, SignatureUpdate, TypeOK, Task
  <2> QED
    BY <2>1 DEF Masked
<1>t. \A x \in Ensurer, p \in Partitions : SameToken(x, p)' => SameToken(x, p)
  BY <1>0, <1>f, <1>u, <1>i
     DEF FinishSignatures, Invalidate, SameToken, GenerationsAreOld, TypeOK, index, scans
<1>c. \A p \in Partitions : complete'[p] => complete[p]
  BY <1>0, <1>f DEF FinishSignatures, Invalidate, TypeOK, index
<1>n. serial' >= serial /\ serial' \in Nat
  BY <1>0, <1>f DEF FinishSignatures, Invalidate, TypeOK, index
<1>1. TypeOK'
  <2>1. (index' = index /\ serial' = serial) \/ Invalidate(f)
    BY <1>f DEF FinishSignatures
  <2>2. token' \in [Partitions -> Nat]
    BY <1>0, <2>1 DEF Invalidate, TypeOK, index
  <2>3. complete' \in [Partitions -> BOOLEAN]
    BY <1>0, <2>1 DEF Invalidate, TypeOK, index
  <2> QED
    BY <1>0, <1>f, <1>u, <1>i, <1>n, <2>2, <2>3 DEF TypeOK, scans, Task, FinishSignatures
<1>2. AllTracked'
  BY <1>0
     DEF FinishSignatures, Invalidate, AllTracked, index, writers, scans
<1>3. FillsAreApart'
  BY <1>0
     DEF FinishSignatures, Invalidate, FillsAreApart, FillsIdle, index, writers, scans
<1>4. GenerationsAreOld'
  <2>1. \A p \in Partitions : token'[p] <= serial'
    BY <1>0, <1>f DEF FinishSignatures, Invalidate, GenerationsAreOld, TypeOK, index
  <2> QED
    BY <1>0, <1>u, <1>n, <2>1 DEF GenerationsAreOld, TypeOK, scans
<1>5. UpdatesHold'
  BY <1>0, <1>f, <1>u, <1>i
     DEF UpdatesHold, FinishSignatures, Good, TypeOK, Task
<1>6. StreamsMissNothing'
  <2>1. \A h \in Fill : \A s \in range[h] : h \in Ensurer /\ Partition(s) \in Partitions
    BY <1>0, PartitionsFact DEF TypeOK, Task, Ensurer
  <2>2. \A h \in Fill : pc'[h] = "stream" => pc[h] = "stream"
    BY <1>0, <1>f DEF TypeOK, Task
  <2>3. UNCHANGED <<range, rows, bloom, pending>>
    BY <1>u, <1>i DEF scans
  <2> SUFFICES ASSUME NEW h \in Fill, pc[h] = "stream", NEW s \in range[h],
                      SameToken(h, Partition(s))'
               PROVE  InFilterOrPending(h, s)
    BY <2>2, <2>3 DEF StreamsMissNothing, InFilterOrPending
  <2> QED
    BY <1>0, <1>t, <2>1 DEF StreamsMissNothing
<1>7. BuildMissesNothing'
  <2>1. Builder \in Ensurer /\ building \in Partitions
    BY <1>0 DEF TypeOK, Ensurer
  <2>2. pc'[Builder] = pc[Builder]
    BY <1>f, SignatureIndexAssumption DEF Task
  <2>3. SameToken(Builder, building)' => SameToken(Builder, building)
    BY <1>t, <1>u, <2>1 DEF scans, SameToken
  <2> QED
    BY <1>0, <1>u, <1>i, <1>k, <2>2, <2>3 DEF BuildMissesNothing, InFilterOrPending, scans
<1>8. AllocationIsFresh'
  <2>1. alloc.owner # f
    BY <1>0, SignatureIndexAssumption DEF FinishSignatures, AllocationIsFresh, Ensurer
  <2>2. alloc.serial = serial' => alloc.serial = serial
    BY <1>0, <1>n DEF GenerationsAreOld, TypeOK
  <2> QED
    BY <1>0, <1>f, <1>u, <1>i, <1>k, <2>1, <2>2
       DEF AllocationIsFresh, TypeOK, Ensurer, Task
<1>9. CompleteMeansCovered'
  <2>1. \A s \in coverage : Partition(s) \in Partitions
    BY <1>0, PartitionsFact DEF TypeOK
  <2> QED
    BY <1>0, <1>u, <1>i, <1>k, <1>c, <2>1 DEF CompleteMeansCovered, Good
<1> QED
  BY <1>1, <1>2, <1>3, <1>4, <1>5, <1>6, <1>7, <1>8, <1>9 DEF IndInv

(* A published slot is either in its filter or masked by this fill. *)
LEMMA PublishStep ==
  ASSUME IndInv, EnoughWriters, NEW f \in Fill, Publish(f)
  PROVE  IndInv'
<1>0. /\ TypeOK /\ AllTracked /\ FillsAreApart /\ GenerationsAreOld /\ UpdatesHold
      /\ StreamsMissNothing /\ BuildMissesNothing /\ AllocationIsFresh
      /\ CompleteMeansCovered
  BY DEF IndInv
<1>k. \A s : Masked(s) => Masked(s)'
  BY <1>0 DEF Masked, SignatureUpdate, Publish, TypeOK, Task, writers
<1>p. \A s \in published[f] : Masked(s)' \/ (Good(s) /\ Partition(s) \in present)
  <2> SUFFICES ASSUME NEW s \in published[f]
               PROVE  Masked(s)' \/ (Good(s) /\ Partition(s) \in present)
    OBVIOUS
  <2>1. s \in range[f] /\ f \in tracked
    BY <1>0 DEF Publish, FillsAreApart, AllTracked, Task
  <2>2. CASE updated[f]
    BY <1>0, <2>1, <2>2 DEF Publish, UpdatesHold
  <2>3. CASE ~updated[f]
    <3>1. repair[f]
      BY <1>0, <2>3 DEF Publish, UpdatesHold
    <3> QED
      BY <1>0, <2>1, <2>3, <3>1 DEF Publish, Masked, SignatureUpdate, TypeOK, Task, writers
  <2> QED
    BY <2>2, <2>3
<1>1. TypeOK'
  BY <1>0
     DEF Publish, TypeOK, index, writers, scans, Task, Ensurer
<1>2. AllTracked'
  BY <1>0
     DEF Publish, AllTracked, index, writers, scans
<1>3. FillsAreApart'
  BY <1>0
     DEF Publish, FillsAreApart, FillsIdle, index, writers, scans, TypeOK, Task, Ensurer
<1>4. GenerationsAreOld'
  BY <1>0
     DEF Publish, GenerationsAreOld, Unlocked, index, writers, scans
<1>5. UpdatesHold'
  BY <1>0
     DEF Publish, UpdatesHold, Good, index, writers, scans
<1>6. StreamsMissNothing'
  BY <1>0
     DEF Publish, StreamsMissNothing, SameToken, InFilterOrPending, index, writers, scans
<1>7. BuildMissesNothing'
  <2>1. pc'[Builder] = pc[Builder]
    BY <1>0, SignatureIndexAssumption DEF Publish, TypeOK, Task
  <2> QED
    BY <1>0, <1>k, <1>p, <2>1
       DEF Publish, BuildMissesNothing, SameToken, InFilterOrPending, Good, index, scans
<1>8. AllocationIsFresh'
  BY <1>0, <1>k, <1>p
     DEF Publish, AllocationIsFresh, TypeOK, Task, Ensurer, index
<1>9. CompleteMeansCovered'
  BY <1>0, <1>k, <1>p
     DEF Publish, CompleteMeansCovered, Good, index
<1> QED
  BY <1>1, <1>2, <1>3, <1>4, <1>5, <1>6, <1>7, <1>8, <1>9 DEF IndInv

(* Nothing but the program counter moves. *)
LEMMA AbandonFillStep ==
  ASSUME IndInv, EnoughWriters, NEW f \in Fill, AbandonFill(f)
  PROVE  IndInv'
<1>0. /\ TypeOK /\ AllTracked /\ FillsAreApart /\ GenerationsAreOld /\ UpdatesHold
      /\ StreamsMissNothing /\ BuildMissesNothing /\ AllocationIsFresh
      /\ CompleteMeansCovered
  BY DEF IndInv
<1>1. TypeOK'
  BY <1>0
     DEF AbandonFill, TypeOK, index, writers, scans, Task, Ensurer
<1>2. AllTracked'
  BY <1>0
     DEF AbandonFill, AllTracked, index, writers, scans
<1>3. FillsAreApart'
  BY <1>0
     DEF AbandonFill, FillsAreApart, FillsIdle, index, writers, scans
<1>4. GenerationsAreOld'
  BY <1>0
     DEF AbandonFill, GenerationsAreOld, Unlocked, index, writers, scans
<1>5. UpdatesHold'
  BY <1>0
     DEF AbandonFill, UpdatesHold, Good, index, writers, scans
<1>6. StreamsMissNothing'
  BY <1>0
     DEF AbandonFill, StreamsMissNothing, SameToken, InFilterOrPending, index, writers, scans
<1>7. BuildMissesNothing'
  BY <1>0
     DEF AbandonFill, BuildMissesNothing, SameToken, InFilterOrPending, Masked,
         SignatureUpdate, Good, index, writers, scans
<1>8. AllocationIsFresh'
  BY <1>0
     DEF AbandonFill, AllocationIsFresh, Masked, SignatureUpdate, Unlocked, index, writers,
         scans
<1>9. CompleteMeansCovered'
  BY <1>0
     DEF AbandonFill, CompleteMeansCovered, Masked, SignatureUpdate, Good, index, writers, scans
<1> QED
  BY <1>1, <1>2, <1>3, <1>4, <1>5, <1>6, <1>7, <1>8, <1>9 DEF IndInv

(* Dropping the guard of an update that did not succeed gives its partitions
   a new generation, so what it masked is no longer trusted. *)
LEMMA EndFillStep ==
  ASSUME IndInv, EnoughWriters, NEW f \in Fill, EndFill(f)
  PROVE  IndInv'
<1>0. /\ TypeOK /\ AllTracked /\ FillsAreApart /\ GenerationsAreOld /\ UpdatesHold
      /\ StreamsMissNothing /\ BuildMissesNothing /\ AllocationIsFresh
      /\ CompleteMeansCovered
  BY DEF IndInv
<1>p. /\ pc[f] = "done" /\ pc' = [pc EXCEPT ![f] = "idle"]
      /\ UNCHANGED <<rows, coverage, present, bloom, repair, updated, building, alloc>>
      /\ tracked' = tracked \ {f} /\ range' = [range EXCEPT ![f] = {}]
  BY DEF EndFill, DropMutation, Invalidate, index
<1>d. (~updated[f] /\ Invalidate(f)) \/ (updated[f] /\ UNCHANGED <<index, serial>>)
  BY <1>0 DEF EndFill, DropMutation, SignatureUpdate, AllTracked, Task
<1>k. ASSUME NEW s, Masked(s)
      PROVE  Masked(s)' \/ (Invalidate(f) /\ Covers(f, Partition(s)))
  <2>1. PICK h \in tracked \cap Fill :
               SignatureUpdate(h) /\ repair[h] /\ ~updated[h] /\ s \in range[h]
    BY <1>k DEF Masked
  <2>2. CASE h = f
    BY <1>d, <2>1, <2>2 DEF Covers
  <2>3. CASE h # f
    BY <1>0, <1>p, <2>1, <2>3 DEF Masked, SignatureUpdate, TypeOK, Task
  <2> QED
    BY <2>2, <2>3
<1>t. \A x \in Ensurer, p \in Partitions :
        x # f /\ SameToken(x, p)' => SameToken(x, p) /\ ~(Invalidate(f) /\ Covers(f, p))
  <2> SUFFICES ASSUME NEW x \in Ensurer, NEW p \in Partitions, x # f, SameToken(x, p)'
               PROVE  SameToken(x, p) /\ ~(Invalidate(f) /\ Covers(f, p))
    OBVIOUS
  <2>1. tokens'[x] = tokens[x] /\ tokens[x][p] <= serial /\ serial \in Nat /\ token[p] \in Nat
    BY <1>0 DEF EndFill, TypeOK, GenerationsAreOld
  <2>2. CASE Invalidate(f)
    BY <1>p, <2>1, <2>2 DEF Invalidate, SameToken
  <2>3. CASE ~Invalidate(f)
    BY <1>p, <1>d, <2>1, <2>3 DEF SameToken, index
  <2> QED
    BY <2>2, <2>3
<1>c. \A p \in Partitions : complete'[p] => complete[p] /\ ~(Invalidate(f) /\ Covers(f, p))
  BY <1>0, <1>d DEF Invalidate, TypeOK, index
<1>n. serial' \in Nat /\ serial' >= serial /\ (serial' = serial => ~Invalidate(f))
  BY <1>0, <1>d DEF Invalidate, TypeOK
<1>1. TypeOK'
  <2>1. token' \in [Partitions -> Nat] /\ complete' \in [Partitions -> BOOLEAN] /\ serial' \in Nat
    BY <1>0, <1>d DEF Invalidate, TypeOK, index
  <2>2. range' \in [Task -> SUBSET Slot]
    BY <1>0, <1>p DEF TypeOK, Task
  <2> QED
    BY <1>0, <1>p, <2>1, <2>2 DEF EndFill, DropMutation, TypeOK, Task, Ensurer
<1>2. AllTracked'
  BY <1>0
     DEF EndFill, DropMutation, Invalidate, AllTracked, index, writers, scans, TypeOK, Task,
         Ensurer
<1>3. FillsAreApart'
  BY <1>0
     DEF EndFill, DropMutation, Invalidate, FillsAreApart, FillsIdle, index, writers, scans,
         TypeOK, Task, Ensurer
<1>4. GenerationsAreOld'
  <2>1. \A p \in Partitions : token'[p] <= serial'
    BY <1>0, <1>d DEF Invalidate, GenerationsAreOld, TypeOK, index
  <2>2. \A x \in Ensurer, p \in Partitions : tokens'[x][p] <= serial
    BY <1>0 DEF EndFill, GenerationsAreOld, TypeOK
  <2>3. \A x \in Ensurer, p \in Partitions : tokens'[x][p] \in Nat
    BY <1>0 DEF EndFill, TypeOK
  <2> QED
    BY <1>0, <1>p, <1>n, <2>1, <2>2, <2>3 DEF GenerationsAreOld, TypeOK
<1>5. UpdatesHold'
  BY <1>0
     DEF EndFill, DropMutation, Invalidate, UpdatesHold, Good, index, writers, scans
<1>6. StreamsMissNothing'
  <2>1. \A h \in Fill : h \in Ensurer /\ (pc'[h] = "stream" => h # f /\ pc[h] = "stream")
    BY <1>0, <1>p DEF TypeOK, Task, Ensurer
  <2>2. \A h \in Fill : h # f =>
          range'[h] = range[h] /\ pending'[h] = pending[h] /\ \A s \in range[h] : Partition(s) \in Partitions
    BY <1>0, <1>p, PartitionsFact DEF EndFill, TypeOK, Task, Ensurer
  <2> QED
    BY <1>0, <1>p, <1>t, <2>1, <2>2 DEF StreamsMissNothing, InFilterOrPending
<1>7. BuildMissesNothing'
  <2>1. Builder \in Ensurer /\ Builder # f /\ building \in Partitions
    BY <1>0, SignatureIndexAssumption DEF TypeOK, Ensurer, Task
  <2>2. pc'[Builder] = pc[Builder] /\ pending'[Builder] = pending[Builder]
    BY <1>0, <1>p, <2>1 DEF EndFill, TypeOK, Task
  <2>3. SameToken(Builder, building)' =>
          SameToken(Builder, building) /\ ~(Invalidate(f) /\ Covers(f, building))
    BY <1>p, <1>t, <2>1 DEF SameToken
  <2> QED
    BY <1>0, <1>p, <1>k, <2>2, <2>3 DEF BuildMissesNothing, InFilterOrPending
<1>8. AllocationIsFresh'
  <2>1. alloc.owner # f
    BY <1>0, <1>p, SignatureIndexAssumption DEF AllocationIsFresh, Ensurer
  <2>2. alloc.serial = serial' => alloc.serial = serial /\ ~Invalidate(f)
    BY <1>0, <1>n DEF GenerationsAreOld, TypeOK
  <2> QED
    BY <1>0, <1>p, <1>k, <2>1, <2>2
       DEF AllocationIsFresh, TypeOK, Ensurer, Task
<1>9. CompleteMeansCovered'
  <2>1. \A s \in coverage : Partition(s) \in Partitions
    BY <1>0, PartitionsFact DEF TypeOK
  <2> QED
    BY <1>0, <1>p, <1>k, <1>c, <2>1 DEF CompleteMeansCovered, Good
<1> QED
  BY <1>1, <1>2, <1>3, <1>4, <1>5, <1>6, <1>7, <1>8, <1>9 DEF IndInv

(* The builder forgets its old generations. *)
LEMMA BeginBuildStep ==
  ASSUME IndInv, EnoughWriters, NEW p \in Partitions, BeginBuild(p)
  PROVE  IndInv'
<1>0. /\ TypeOK /\ AllTracked /\ FillsAreApart /\ GenerationsAreOld /\ UpdatesHold
      /\ StreamsMissNothing /\ BuildMissesNothing /\ AllocationIsFresh
      /\ CompleteMeansCovered
  BY DEF IndInv
<1>1. TypeOK'
  BY <1>0
     DEF BeginBuild, TypeOK, index, writers, scans, Task, Ensurer
<1>2. AllTracked'
  BY <1>0, SignatureIndexAssumption
     DEF BeginBuild, AllTracked, index, writers, scans, TypeOK, Task, Ensurer
<1>3. FillsAreApart'
  BY <1>0, SignatureIndexAssumption
     DEF BeginBuild, FillsAreApart, FillsIdle, index, writers, scans, TypeOK, Task, Ensurer
<1>4. GenerationsAreOld'
  BY <1>0
     DEF BeginBuild, GenerationsAreOld, Unlocked, index, writers, scans, TypeOK, Task, Ensurer
<1>5. UpdatesHold'
  BY <1>0, SignatureIndexAssumption
     DEF BeginBuild, UpdatesHold, Good, index, writers, scans, TypeOK, Task, Ensurer
<1>6. StreamsMissNothing'
  BY <1>0
     DEF BeginBuild, StreamsMissNothing, SameToken, InFilterOrPending, index, writers, scans
<1>7. BuildMissesNothing'
  BY <1>0
     DEF BeginBuild, BuildMissesNothing, SameToken, InFilterOrPending, Masked,
         SignatureUpdate, Good, index, writers, scans
<1>8. AllocationIsFresh'
  BY <1>0
     DEF BeginBuild, AllocationIsFresh, Masked, SignatureUpdate, Unlocked, index, writers, scans
<1>9. CompleteMeansCovered'
  BY <1>0
     DEF BeginBuild, CompleteMeansCovered, Masked, SignatureUpdate, Good, index, writers, scans
<1> QED
  BY <1>1, <1>2, <1>3, <1>4, <1>5, <1>6, <1>7, <1>8, <1>9 DEF IndInv

(* The filter becomes complete only in the generation whose rows were all
   inserted. *)
LEMMA EndBuildStep ==
  ASSUME IndInv, EnoughWriters, EndBuild
  PROVE  IndInv'
<1>0. /\ TypeOK /\ AllTracked /\ FillsAreApart /\ GenerationsAreOld /\ UpdatesHold
      /\ StreamsMissNothing /\ BuildMissesNothing /\ AllocationIsFresh
      /\ CompleteMeansCovered
  BY DEF IndInv
<1>1. TypeOK'
  BY <1>0
     DEF EndBuild, TypeOK, index, writers, scans, Task, Ensurer
<1>2. AllTracked'
  BY <1>0, SignatureIndexAssumption
     DEF EndBuild, AllTracked, index, writers, scans, TypeOK, Task, Ensurer
<1>3. FillsAreApart'
  BY <1>0, SignatureIndexAssumption
     DEF EndBuild, FillsAreApart, FillsIdle, index, writers, scans, TypeOK, Task, Ensurer
<1>4. GenerationsAreOld'
  BY <1>0
     DEF EndBuild, GenerationsAreOld, Unlocked, index, writers, scans
<1>5. UpdatesHold'
  BY <1>0
     DEF EndBuild, UpdatesHold, Good, index, writers, scans
<1>6. StreamsMissNothing'
  BY <1>0
     DEF EndBuild, StreamsMissNothing, SameToken, InFilterOrPending, index, writers, scans
<1>7. BuildMissesNothing'
  BY <1>0
     DEF EndBuild, BuildMissesNothing, SameToken, InFilterOrPending, Masked, SignatureUpdate,
         Good, index, writers, scans
<1>8. AllocationIsFresh'
  BY <1>0
     DEF EndBuild, AllocationIsFresh, Masked, SignatureUpdate, Unlocked, index, writers, scans
<1>9. CompleteMeansCovered'
  <2>1. \A s : Masked(s) => Masked(s)'
    BY <1>0, SignatureIndexAssumption
       DEF EndBuild, Masked, SignatureUpdate, TypeOK, Task, writers
  <2> SUFFICES ASSUME NEW s \in coverage, Partition(s) \in present, complete'[Partition(s)]
               PROVE  Good(s) \/ Masked(s)
    BY <2>1 DEF CompleteMeansCovered, EndBuild, Good
  <2>2. CASE complete[Partition(s)]
    BY <1>0, <2>2 DEF CompleteMeansCovered
  <2>3. CASE ~complete[Partition(s)]
    <3>1. /\ Partition(s) = building /\ pc[Builder] = "inserted"
          /\ SameToken(Builder, building)
      BY <1>0, <2>3, PartitionsFact DEF EndBuild, SameToken, TypeOK
    <3> QED
      BY <1>0, <3>1 DEF BuildMissesNothing, InFilterOrPending, Good
  <2> QED
    BY <2>2, <2>3
<1> QED
  BY <1>1, <1>2, <1>3, <1>4, <1>5, <1>6, <1>7, <1>8, <1>9 DEF IndInv

(* Only the range of the reader changes. *)
LEMMA BeginReadStep ==
  ASSUME IndInv, EnoughWriters, NEW t \in Poisoner, NEW s \in Slot, BeginRead(t, s)
  PROVE  IndInv'
<1>0. /\ TypeOK /\ AllTracked /\ FillsAreApart /\ GenerationsAreOld /\ UpdatesHold
      /\ StreamsMissNothing /\ BuildMissesNothing /\ AllocationIsFresh
      /\ CompleteMeansCovered
  BY DEF IndInv
<1>1. TypeOK'
  BY <1>0
     DEF BeginRead, TypeOK, index, writers, scans, Task, Ensurer
<1>2. AllTracked'
  BY <1>0
     DEF BeginRead, AllTracked, index, writers, scans
<1>3. FillsAreApart'
  BY <1>0, SignatureIndexAssumption
     DEF BeginRead, FillsAreApart, FillsIdle, index, writers, scans, TypeOK, Task, Ensurer
<1>4. GenerationsAreOld'
  BY <1>0
     DEF BeginRead, GenerationsAreOld, Unlocked, index, writers, scans
<1>5. UpdatesHold'
  BY <1>0
     DEF BeginRead, UpdatesHold, Good, index, writers, scans
<1>6. StreamsMissNothing'
  BY <1>0
     DEF BeginRead, StreamsMissNothing, SameToken, InFilterOrPending, index, writers, scans
<1>7. BuildMissesNothing'
  BY <1>0, SignatureIndexAssumption
     DEF BeginRead, BuildMissesNothing, SameToken, InFilterOrPending, Masked,
         SignatureUpdate, Good, index, writers, scans, TypeOK, Task, Ensurer
<1>8. AllocationIsFresh'
  BY <1>0, SignatureIndexAssumption
     DEF BeginRead, AllocationIsFresh, Masked, SignatureUpdate, Unlocked, index, writers,
         scans, TypeOK, Task, Ensurer
<1>9. CompleteMeansCovered'
  BY <1>0, SignatureIndexAssumption
     DEF BeginRead, CompleteMeansCovered, Masked, SignatureUpdate, Good, index, writers,
         scans, TypeOK, Task, Ensurer
<1> QED
  BY <1>1, <1>2, <1>3, <1>4, <1>5, <1>6, <1>7, <1>8, <1>9 DEF IndInv

(* What is masked stays masked; allocations in flight see a new serial.    *)
LEMMA BeginPoisonStep ==
  ASSUME IndInv, EnoughWriters, NEW t \in Poisoner, BeginPoison(t)
  PROVE  IndInv'
<1>0. /\ TypeOK /\ AllTracked /\ FillsAreApart /\ GenerationsAreOld /\ UpdatesHold
      /\ StreamsMissNothing /\ BuildMissesNothing /\ AllocationIsFresh
      /\ CompleteMeansCovered
  BY DEF IndInv
<1>m. ~(Cardinality(tracked) >= MaxWriters)
  BY <1>0, RoomForAWriter DEF TypeOK, AllTracked, Task, BeginPoison
<1>k. \A s : Masked(s) => Masked(s)'
  BY <1>0, <1>m, SignatureIndexAssumption
     DEF Masked, SignatureUpdate, BeginPoison, Mutation, AllTracked, TypeOK, Task, writers
<1>s. serial \in Nat /\ serial' = serial + 1 /\ UNCHANGED <<rows, coverage, index, scans, alloc>>
  BY <1>0, <1>m DEF BeginPoison, Mutation, TypeOK, index, scans
<1>1. TypeOK'
  BY <1>0, <1>m
     DEF BeginPoison, Mutation, TypeOK, index, writers, scans, Task, Ensurer
<1>2. AllTracked'
  BY <1>0, <1>m
     DEF BeginPoison, Mutation, AllTracked, index, writers, scans, TypeOK, Task, Ensurer
<1>3. FillsAreApart'
  BY <1>0, <1>m
     DEF BeginPoison, Mutation, FillsAreApart, FillsIdle, index, writers, scans
<1>4. GenerationsAreOld'
  BY <1>0, <1>k, <1>s
     DEF GenerationsAreOld, index, scans, TypeOK
<1>5. UpdatesHold'
  BY <1>0, <1>m, SignatureIndexAssumption
     DEF BeginPoison, Mutation, UpdatesHold, Good, index, writers, scans, TypeOK, Task, Ensurer
<1>6. StreamsMissNothing'
  BY <1>0, <1>m
     DEF BeginPoison, Mutation, StreamsMissNothing, SameToken, InFilterOrPending, index,
         writers, scans
<1>7. BuildMissesNothing'
  BY <1>0, <1>k, <1>s, SignatureIndexAssumption
     DEF BuildMissesNothing, SameToken, InFilterOrPending, BeginPoison, index, scans, TypeOK,
         Task
<1>8. AllocationIsFresh'
  BY <1>0, <1>k, <1>s, SignatureIndexAssumption
     DEF AllocationIsFresh, GenerationsAreOld, BeginPoison, index, TypeOK, Task, Ensurer
<1>9. CompleteMeansCovered'
  BY <1>0, <1>k, <1>s
     DEF CompleteMeansCovered, Good, index
<1> QED
  BY <1>1, <1>2, <1>3, <1>4, <1>5, <1>6, <1>7, <1>8, <1>9 DEF IndInv

(* Less coverage is less to admit. *)
LEMMA RemoveCoverageStep ==
  ASSUME IndInv, EnoughWriters, NEW t \in Poisoner, RemoveCoverage(t)
  PROVE  IndInv'
<1>0. /\ TypeOK /\ AllTracked /\ FillsAreApart /\ GenerationsAreOld /\ UpdatesHold
      /\ StreamsMissNothing /\ BuildMissesNothing /\ AllocationIsFresh
      /\ CompleteMeansCovered
  BY DEF IndInv
<1>1. TypeOK'
  BY <1>0
     DEF RemoveCoverage, TypeOK, index, writers, scans, Task, Ensurer
<1>2. AllTracked'
  BY <1>0
     DEF RemoveCoverage, AllTracked, index, writers, scans
<1>3. FillsAreApart'
  BY <1>0
     DEF RemoveCoverage, FillsAreApart, FillsIdle, index, writers, scans
<1>4. GenerationsAreOld'
  BY <1>0
     DEF RemoveCoverage, GenerationsAreOld, Unlocked, index, writers, scans
<1>5. UpdatesHold'
  BY <1>0
     DEF RemoveCoverage, UpdatesHold, Good, index, writers, scans
<1>6. StreamsMissNothing'
  BY <1>0
     DEF RemoveCoverage, StreamsMissNothing, SameToken, InFilterOrPending, index, writers, scans
<1>7. BuildMissesNothing'
  BY <1>0
     DEF RemoveCoverage, BuildMissesNothing, SameToken, InFilterOrPending, Masked,
         SignatureUpdate, Good, index, writers, scans
<1>8. AllocationIsFresh'
  BY <1>0
     DEF RemoveCoverage, AllocationIsFresh, Masked, SignatureUpdate, Unlocked, index,
         writers, scans
<1>9. CompleteMeansCovered'
  BY <1>0
     DEF RemoveCoverage, CompleteMeansCovered, Masked, SignatureUpdate, Good, index, writers,
         scans
<1> QED
  BY <1>1, <1>2, <1>3, <1>4, <1>5, <1>6, <1>7, <1>8, <1>9 DEF IndInv

(* The guard of a poison never made a signature update. *)
LEMMA EndPoisonStep ==
  ASSUME IndInv, EnoughWriters, NEW t \in Poisoner, EndPoison(t)
  PROVE  IndInv'
<1>0. /\ TypeOK /\ AllTracked /\ FillsAreApart /\ GenerationsAreOld /\ UpdatesHold
      /\ StreamsMissNothing /\ BuildMissesNothing /\ AllocationIsFresh
      /\ CompleteMeansCovered
  BY DEF IndInv
<1>d. UNCHANGED <<index, serial>>
  BY SignatureIndexAssumption DEF EndPoison, DropMutation, SignatureUpdate
<1>1. TypeOK'
  BY <1>0, <1>d, SignatureIndexAssumption
     DEF EndPoison, DropMutation, index, writers, scans, TypeOK, Task, Ensurer
<1>2. AllTracked'
  BY <1>0, <1>d, SignatureIndexAssumption
     DEF EndPoison, DropMutation, index, writers, scans, TypeOK, Task, Ensurer, AllTracked
<1>3. FillsAreApart'
  BY <1>0, <1>d, SignatureIndexAssumption
     DEF EndPoison, DropMutation, index, writers, scans, TypeOK, Task, Ensurer,
         FillsAreApart, FillsIdle
<1>4. GenerationsAreOld'
  BY <1>0, <1>d, SignatureIndexAssumption
     DEF EndPoison, DropMutation, index, writers, scans, TypeOK, Task, Ensurer,
         GenerationsAreOld, Unlocked
<1>5. UpdatesHold'
  BY <1>0, <1>d, SignatureIndexAssumption
     DEF EndPoison, DropMutation, index, writers, scans, TypeOK, Task, Ensurer, UpdatesHold,
         Good
<1>6. StreamsMissNothing'
  BY <1>0, <1>d, SignatureIndexAssumption
     DEF EndPoison, DropMutation, index, writers, scans, TypeOK, Task, Ensurer,
         StreamsMissNothing, SameToken, InFilterOrPending
<1>7. BuildMissesNothing'
  BY <1>0, <1>d, SignatureIndexAssumption
     DEF EndPoison, DropMutation, index, writers, scans, TypeOK, Task, Ensurer,
         BuildMissesNothing, SameToken, InFilterOrPending, Masked, SignatureUpdate, Good,
         AllTracked
<1>8. AllocationIsFresh'
  BY <1>0, <1>d, SignatureIndexAssumption
     DEF EndPoison, DropMutation, index, writers, scans, TypeOK, Task, Ensurer,
         AllocationIsFresh, Masked, SignatureUpdate, Unlocked, AllTracked
<1>9. CompleteMeansCovered'
  BY <1>0, <1>d, SignatureIndexAssumption
     DEF EndPoison, DropMutation, index, writers, scans, TypeOK, Task, Ensurer,
         CompleteMeansCovered, Masked, SignatureUpdate, Good, AllTracked
<1> QED
  BY <1>1, <1>2, <1>3, <1>4, <1>5, <1>6, <1>7, <1>8, <1>9 DEF IndInv

(* What is masked stays masked; allocations in flight see a new serial.    *)
LEMMA BeginEvictStep ==
  ASSUME IndInv, EnoughWriters, NEW newFloor \in 1..(MaxSlot + 1), BeginEvict(newFloor)
  PROVE  IndInv'
<1>0. /\ TypeOK /\ AllTracked /\ FillsAreApart /\ GenerationsAreOld /\ UpdatesHold
      /\ StreamsMissNothing /\ BuildMissesNothing /\ AllocationIsFresh
      /\ CompleteMeansCovered
  BY DEF IndInv
<1>m. ~(Cardinality(tracked) >= MaxWriters)
  BY <1>0, RoomForAWriter DEF TypeOK, AllTracked, Task, BeginEvict
<1>k. \A s : Masked(s) => Masked(s)'
  BY <1>0, <1>m, SignatureIndexAssumption
     DEF Masked, SignatureUpdate, BeginEvict, Mutation, AllTracked, TypeOK, Task, writers
<1>s. serial \in Nat /\ serial' = serial + 1 /\ UNCHANGED <<rows, coverage, index, scans, alloc>>
  BY <1>0, <1>m DEF BeginEvict, Mutation, TypeOK, index, scans
<1>1. TypeOK'
  BY <1>0, <1>m, SignatureIndexAssumption
     DEF BeginEvict, Mutation, Slot, TypeOK, index, writers, scans, Task, Ensurer
<1>2. AllTracked'
  BY <1>0, <1>m
     DEF BeginEvict, Mutation, Slot, AllTracked, index, writers, scans, TypeOK, Task, Ensurer
<1>3. FillsAreApart'
  BY <1>0, <1>m, SignatureIndexAssumption
     DEF BeginEvict, Mutation, Slot, FillsAreApart, FillsIdle, index, writers, scans, TypeOK,
         Task, Ensurer
<1>4. GenerationsAreOld'
  BY <1>0, <1>k, <1>s
     DEF GenerationsAreOld, index, scans, TypeOK
<1>5. UpdatesHold'
  BY <1>0, <1>m, SignatureIndexAssumption
     DEF BeginEvict, Mutation, Slot, UpdatesHold, Good, index, writers, scans, TypeOK, Task,
         Ensurer
<1>6. StreamsMissNothing'
  BY <1>0, <1>m
     DEF BeginEvict, Mutation, Slot, StreamsMissNothing, SameToken, InFilterOrPending, index,
         writers, scans
<1>7. BuildMissesNothing'
  BY <1>0, <1>k, <1>s, SignatureIndexAssumption
     DEF BuildMissesNothing, SameToken, InFilterOrPending, BeginEvict, index, scans, TypeOK,
         Task
<1>8. AllocationIsFresh'
  BY <1>0, <1>k, <1>s, SignatureIndexAssumption
     DEF AllocationIsFresh, GenerationsAreOld, BeginEvict, index, TypeOK, Task, Ensurer
<1>9. CompleteMeansCovered'
  BY <1>0, <1>k, <1>s
     DEF CompleteMeansCovered, Good, index
<1> QED
  BY <1>1, <1>2, <1>3, <1>4, <1>5, <1>6, <1>7, <1>8, <1>9 DEF IndInv

(* Fewer rows are fewer to admit. *)
LEMMA DropPartitionsStep ==
  ASSUME IndInv, EnoughWriters, DropPartitions
  PROVE  IndInv'
<1>0. /\ TypeOK /\ AllTracked /\ FillsAreApart /\ GenerationsAreOld /\ UpdatesHold
      /\ StreamsMissNothing /\ BuildMissesNothing /\ AllocationIsFresh
      /\ CompleteMeansCovered
  BY DEF IndInv
<1>1. TypeOK'
  BY <1>0
     DEF DropPartitions, TypeOK, index, writers, scans, Task, Ensurer
<1>2. AllTracked'
  BY <1>0
     DEF DropPartitions, AllTracked, index, writers, scans
<1>3. FillsAreApart'
  BY <1>0
     DEF DropPartitions, FillsAreApart, FillsIdle, index, writers, scans
<1>4. GenerationsAreOld'
  BY <1>0
     DEF DropPartitions, GenerationsAreOld, Unlocked, index, writers, scans
<1>5. UpdatesHold'
  BY <1>0
     DEF DropPartitions, UpdatesHold, Good, index, writers, scans, TypeOK, Task, Ensurer
<1>6. StreamsMissNothing'
  BY <1>0
     DEF DropPartitions, StreamsMissNothing, SameToken, InFilterOrPending, index, writers,
         scans, TypeOK, Task, Ensurer
<1>7. BuildMissesNothing'
  BY <1>0
     DEF DropPartitions, BuildMissesNothing, SameToken, InFilterOrPending, Masked,
         SignatureUpdate, Good, index, writers, scans, TypeOK, Task, Ensurer
<1>8. AllocationIsFresh'
  BY <1>0
     DEF DropPartitions, AllocationIsFresh, Masked, SignatureUpdate, Unlocked, index,
         writers, scans
<1>9. CompleteMeansCovered'
  BY <1>0
     DEF DropPartitions, CompleteMeansCovered, Masked, SignatureUpdate, Good, index, writers,
         scans, TypeOK, Task, Ensurer
<1> QED
  BY <1>1, <1>2, <1>3, <1>4, <1>5, <1>6, <1>7, <1>8, <1>9 DEF IndInv

(* No fill is in flight, so no update relies on the dropped filters.       *)
LEMMA EvictSignaturesStep ==
  ASSUME IndInv, EnoughWriters, EvictSignatures
  PROVE  IndInv'
<1>0. /\ TypeOK /\ AllTracked /\ FillsAreApart /\ GenerationsAreOld /\ UpdatesHold
      /\ StreamsMissNothing /\ BuildMissesNothing /\ AllocationIsFresh
      /\ CompleteMeansCovered
  BY DEF IndInv
<1>f. \A f \in Fill : pc'[f] = "idle" /\ pc[f] = "idle"
  BY <1>0, SignatureIndexAssumption DEF EvictSignatures, FillsAreApart, FillsIdle, TypeOK, Task
<1>1. TypeOK'
  BY <1>0
     DEF EvictSignatures, TypeOK, index, writers, scans, Task, Ensurer
<1>2. AllTracked'
  BY <1>0
     DEF EvictSignatures, AllTracked, index, writers, scans
<1>3. FillsAreApart'
  BY <1>0
     DEF EvictSignatures, FillsAreApart, FillsIdle, index, writers, scans
<1>4. GenerationsAreOld'
  BY <1>0
     DEF EvictSignatures, GenerationsAreOld, Unlocked, index, writers, scans
<1>5. UpdatesHold'
  BY <1>f DEF UpdatesHold
<1>6. StreamsMissNothing'
  BY <1>0
     DEF EvictSignatures, StreamsMissNothing, SameToken, InFilterOrPending, index, writers,
         scans
<1>7. BuildMissesNothing'
  BY <1>0
     DEF EvictSignatures, BuildMissesNothing, SameToken, InFilterOrPending, Masked,
         SignatureUpdate, Good, index, writers, scans
<1>8. AllocationIsFresh'
  BY <1>0
     DEF EvictSignatures, AllocationIsFresh, Masked, SignatureUpdate, Unlocked, index,
         writers, scans
<1>9. CompleteMeansCovered'
  BY <1>0
     DEF EvictSignatures, CompleteMeansCovered, Masked, SignatureUpdate, Good, index,
         writers, scans
<1> QED
  BY <1>1, <1>2, <1>3, <1>4, <1>5, <1>6, <1>7, <1>8, <1>9 DEF IndInv

(* Less coverage is less to admit. *)
LEMMA EvictCoverageStep ==
  ASSUME IndInv, EnoughWriters, EvictCoverage
  PROVE  IndInv'
<1>0. /\ TypeOK /\ AllTracked /\ FillsAreApart /\ GenerationsAreOld /\ UpdatesHold
      /\ StreamsMissNothing /\ BuildMissesNothing /\ AllocationIsFresh
      /\ CompleteMeansCovered
  BY DEF IndInv
<1>1. TypeOK'
  BY <1>0
     DEF EvictCoverage, TypeOK, index, writers, scans, Task, Ensurer
<1>2. AllTracked'
  BY <1>0
     DEF EvictCoverage, AllTracked, index, writers, scans
<1>3. FillsAreApart'
  BY <1>0
     DEF EvictCoverage, FillsAreApart, FillsIdle, index, writers, scans
<1>4. GenerationsAreOld'
  BY <1>0
     DEF EvictCoverage, GenerationsAreOld, Unlocked, index, writers, scans
<1>5. UpdatesHold'
  BY <1>0
     DEF EvictCoverage, UpdatesHold, Good, index, writers, scans
<1>6. StreamsMissNothing'
  BY <1>0
     DEF EvictCoverage, StreamsMissNothing, SameToken, InFilterOrPending, index, writers, scans
<1>7. BuildMissesNothing'
  BY <1>0
     DEF EvictCoverage, BuildMissesNothing, SameToken, InFilterOrPending, Masked,
         SignatureUpdate, Good, index, writers, scans
<1>8. AllocationIsFresh'
  BY <1>0
     DEF EvictCoverage, AllocationIsFresh, Masked, SignatureUpdate, Unlocked, index, writers,
         scans
<1>9. CompleteMeansCovered'
  BY <1>0
     DEF EvictCoverage, CompleteMeansCovered, Masked, SignatureUpdate, Good, index, writers,
         scans
<1> QED
  BY <1>1, <1>2, <1>3, <1>4, <1>5, <1>6, <1>7, <1>8, <1>9 DEF IndInv

(* What is masked stays masked; allocations in flight see a new serial.    *)
LEMMA BeginResetStep ==
  ASSUME IndInv, EnoughWriters, BeginReset
  PROVE  IndInv'
<1>0. /\ TypeOK /\ AllTracked /\ FillsAreApart /\ GenerationsAreOld /\ UpdatesHold
      /\ StreamsMissNothing /\ BuildMissesNothing /\ AllocationIsFresh
      /\ CompleteMeansCovered
  BY DEF IndInv
<1>m. ~(Cardinality(tracked) >= MaxWriters)
  BY <1>0, RoomForAWriter DEF TypeOK, AllTracked, Task, BeginReset
<1>k. \A s : Masked(s) => Masked(s)'
  BY <1>0, <1>m, SignatureIndexAssumption
     DEF Masked, SignatureUpdate, BeginReset, Mutation, AllTracked, TypeOK, Task, writers
<1>s. serial \in Nat /\ serial' = serial + 1 /\ UNCHANGED <<rows, coverage, index, scans, alloc>>
  BY <1>0, <1>m DEF BeginReset, Mutation, TypeOK, index, scans
<1>1. TypeOK'
  BY <1>0, <1>m, SignatureIndexAssumption
     DEF BeginReset, Mutation, TypeOK, index, writers, scans, Task, Ensurer
<1>2. AllTracked'
  BY <1>0, <1>m
     DEF BeginReset, Mutation, AllTracked, index, writers, scans, TypeOK, Task, Ensurer
<1>3. FillsAreApart'
  BY <1>0, <1>m, SignatureIndexAssumption
     DEF BeginReset, Mutation, FillsAreApart, FillsIdle, index, writers, scans, TypeOK, Task,
         Ensurer
<1>4. GenerationsAreOld'
  BY <1>0, <1>k, <1>s
     DEF GenerationsAreOld, index, scans, TypeOK
<1>5. UpdatesHold'
  BY <1>0, <1>m, SignatureIndexAssumption
     DEF BeginReset, Mutation, UpdatesHold, Good, index, writers, scans, TypeOK, Task, Ensurer
<1>6. StreamsMissNothing'
  BY <1>0, <1>m
     DEF BeginReset, Mutation, StreamsMissNothing, SameToken, InFilterOrPending, index,
         writers, scans
<1>7. BuildMissesNothing'
  BY <1>0, <1>k, <1>s, SignatureIndexAssumption
     DEF BuildMissesNothing, SameToken, InFilterOrPending, BeginReset, index, scans, TypeOK,
         Task
<1>8. AllocationIsFresh'
  BY <1>0, <1>k, <1>s, SignatureIndexAssumption
     DEF AllocationIsFresh, GenerationsAreOld, BeginReset, index, TypeOK, Task, Ensurer
<1>9. CompleteMeansCovered'
  BY <1>0, <1>k, <1>s
     DEF CompleteMeansCovered, Good, index
<1> QED
  BY <1>1, <1>2, <1>3, <1>4, <1>5, <1>6, <1>7, <1>8, <1>9 DEF IndInv

(* No fill is in flight, so no update relies on the dropped filters.       *)
LEMMA ClearSignaturesStep ==
  ASSUME IndInv, EnoughWriters, ClearSignatures
  PROVE  IndInv'
<1>0. /\ TypeOK /\ AllTracked /\ FillsAreApart /\ GenerationsAreOld /\ UpdatesHold
      /\ StreamsMissNothing /\ BuildMissesNothing /\ AllocationIsFresh
      /\ CompleteMeansCovered
  BY DEF IndInv
<1>f. \A f \in Fill : pc'[f] = "idle" /\ pc[f] = "idle"
  BY <1>0, SignatureIndexAssumption DEF ClearSignatures, FillsAreApart, FillsIdle, TypeOK, Task
<1>k. \A s : Masked(s)' <=> Masked(s)
  BY <1>0, <1>f DEF Masked, SignatureUpdate, AllTracked, ClearSignatures, Task, writers
<1>1. TypeOK'
  BY <1>0
     DEF ClearSignatures, TypeOK, index, writers, scans, Task, Ensurer
<1>2. AllTracked'
  BY <1>0
     DEF ClearSignatures, AllTracked, index, writers, scans
<1>3. FillsAreApart'
  BY <1>0
     DEF ClearSignatures, FillsAreApart, FillsIdle, index, writers, scans
<1>4. GenerationsAreOld'
  BY <1>0
     DEF ClearSignatures, GenerationsAreOld, Unlocked, index, writers, scans, TypeOK, Task,
         Ensurer
<1>5. UpdatesHold'
  BY <1>f DEF UpdatesHold
<1>6. StreamsMissNothing'
  BY <1>0
     DEF ClearSignatures, StreamsMissNothing, SameToken, InFilterOrPending, index, writers,
         scans
<1>7. BuildMissesNothing'
  BY <1>0
     DEF ClearSignatures, BuildMissesNothing, SameToken, InFilterOrPending, Masked,
         SignatureUpdate, Good, index, writers, scans
<1>8. AllocationIsFresh'
  <2>1. alloc.owner # None => pc'[alloc.owner] = "update"
    BY <1>0, SignatureIndexAssumption DEF ClearSignatures, AllocationIsFresh, TypeOK, Task,
    Ensurer
  <2> QED
    BY <1>0, <2>1 DEF ClearSignatures, AllocationIsFresh, GenerationsAreOld, TypeOK
<1>9. CompleteMeansCovered'
  BY <1>0
     DEF ClearSignatures, CompleteMeansCovered, Masked, SignatureUpdate, Good, index,
         writers, scans
<1> QED
  BY <1>1, <1>2, <1>3, <1>4, <1>5, <1>6, <1>7, <1>8, <1>9 DEF IndInv

(* Fewer rows are fewer to admit. *)
LEMMA WipeTablesStep ==
  ASSUME IndInv, EnoughWriters, WipeTables
  PROVE  IndInv'
<1>0. /\ TypeOK /\ AllTracked /\ FillsAreApart /\ GenerationsAreOld /\ UpdatesHold
      /\ StreamsMissNothing /\ BuildMissesNothing /\ AllocationIsFresh
      /\ CompleteMeansCovered
  BY DEF IndInv
<1>1. TypeOK'
  BY <1>0
     DEF WipeTables, TypeOK, index, writers, scans, Task, Ensurer
<1>2. AllTracked'
  BY <1>0
     DEF WipeTables, AllTracked, index, writers, scans
<1>3. FillsAreApart'
  BY <1>0
     DEF WipeTables, FillsAreApart, FillsIdle, index, writers, scans
<1>4. GenerationsAreOld'
  BY <1>0
     DEF WipeTables, GenerationsAreOld, Unlocked, index, writers, scans
<1>5. UpdatesHold'
  BY <1>0
     DEF WipeTables, UpdatesHold, Good, index, writers, scans, TypeOK, Task, Ensurer
<1>6. StreamsMissNothing'
  BY <1>0
     DEF WipeTables, StreamsMissNothing, SameToken, InFilterOrPending, index, writers, scans,
         TypeOK, Task, Ensurer
<1>7. BuildMissesNothing'
  BY <1>0
     DEF WipeTables, BuildMissesNothing, SameToken, InFilterOrPending, Masked,
         SignatureUpdate, Good, index, writers, scans, TypeOK, Task, Ensurer
<1>8. AllocationIsFresh'
  BY <1>0
     DEF WipeTables, AllocationIsFresh, Masked, SignatureUpdate, Unlocked, index, writers, scans
<1>9. CompleteMeansCovered'
  BY <1>0
     DEF WipeTables, CompleteMeansCovered, Masked, SignatureUpdate, Good, index, writers,
         scans, TypeOK, Task, Ensurer
<1> QED
  BY <1>1, <1>2, <1>3, <1>4, <1>5, <1>6, <1>7, <1>8, <1>9 DEF IndInv

(* Nothing is covered any more. *)
LEMMA ReloadCoverageStep ==
  ASSUME IndInv, EnoughWriters, ReloadCoverage
  PROVE  IndInv'
<1>0. /\ TypeOK /\ AllTracked /\ FillsAreApart /\ GenerationsAreOld /\ UpdatesHold
      /\ StreamsMissNothing /\ BuildMissesNothing /\ AllocationIsFresh
      /\ CompleteMeansCovered
  BY DEF IndInv
<1>1. TypeOK'
  BY <1>0
     DEF ReloadCoverage, TypeOK, index, writers, scans, Task, Ensurer
<1>2. AllTracked'
  BY <1>0
     DEF ReloadCoverage, AllTracked, index, writers, scans
<1>3. FillsAreApart'
  BY <1>0
     DEF ReloadCoverage, FillsAreApart, FillsIdle, index, writers, scans
<1>4. GenerationsAreOld'
  BY <1>0
     DEF ReloadCoverage, GenerationsAreOld, Unlocked, index, writers, scans
<1>5. UpdatesHold'
  BY <1>0
     DEF ReloadCoverage, UpdatesHold, Good, index, writers, scans
<1>6. StreamsMissNothing'
  BY <1>0
     DEF ReloadCoverage, StreamsMissNothing, SameToken, InFilterOrPending, index, writers, scans
<1>7. BuildMissesNothing'
  BY <1>0
     DEF ReloadCoverage, BuildMissesNothing, SameToken, InFilterOrPending, Masked,
         SignatureUpdate, Good, index, writers, scans
<1>8. AllocationIsFresh'
  BY <1>0
     DEF ReloadCoverage, AllocationIsFresh, Masked, SignatureUpdate, Unlocked, index,
         writers, scans
<1>9. CompleteMeansCovered'
  BY <1>0
     DEF ReloadCoverage, CompleteMeansCovered, Masked, SignatureUpdate, Good, index, writers,
         scans
<1> QED
  BY <1>1, <1>2, <1>3, <1>4, <1>5, <1>6, <1>7, <1>8, <1>9 DEF IndInv

(* Nothing but the program counter moves. *)
LEMMA KeeperFailsStep ==
  ASSUME IndInv, EnoughWriters, KeeperFails
  PROVE  IndInv'
<1>0. /\ TypeOK /\ AllTracked /\ FillsAreApart /\ GenerationsAreOld /\ UpdatesHold
      /\ StreamsMissNothing /\ BuildMissesNothing /\ AllocationIsFresh
      /\ CompleteMeansCovered
  BY DEF IndInv
<1>1. TypeOK'
  BY <1>0
     DEF KeeperFails, TypeOK, index, writers, scans, Task, Ensurer
<1>2. AllTracked'
  BY <1>0
     DEF KeeperFails, AllTracked, index, writers, scans
<1>3. FillsAreApart'
  BY <1>0
     DEF KeeperFails, FillsAreApart, FillsIdle, index, writers, scans
<1>4. GenerationsAreOld'
  BY <1>0
     DEF KeeperFails, GenerationsAreOld, Unlocked, index, writers, scans
<1>5. UpdatesHold'
  BY <1>0
     DEF KeeperFails, UpdatesHold, Good, index, writers, scans
<1>6. StreamsMissNothing'
  BY <1>0
     DEF KeeperFails, StreamsMissNothing, SameToken, InFilterOrPending, index, writers, scans
<1>7. BuildMissesNothing'
  BY <1>0
     DEF KeeperFails, BuildMissesNothing, SameToken, InFilterOrPending, Masked,
         SignatureUpdate, Good, index, writers, scans
<1>8. AllocationIsFresh'
  BY <1>0
     DEF KeeperFails, AllocationIsFresh, Masked, SignatureUpdate, Unlocked, index, writers,
         scans
<1>9. CompleteMeansCovered'
  BY <1>0
     DEF KeeperFails, CompleteMeansCovered, Masked, SignatureUpdate, Good, index, writers, scans
<1> QED
  BY <1>1, <1>2, <1>3, <1>4, <1>5, <1>6, <1>7, <1>8, <1>9 DEF IndInv

(* The guard of the filler loop never made a signature update. *)
LEMMA EndKeeperStep ==
  ASSUME IndInv, EnoughWriters, EndKeeper
  PROVE  IndInv'
<1>0. /\ TypeOK /\ AllTracked /\ FillsAreApart /\ GenerationsAreOld /\ UpdatesHold
      /\ StreamsMissNothing /\ BuildMissesNothing /\ AllocationIsFresh
      /\ CompleteMeansCovered
  BY DEF IndInv
<1>d. UNCHANGED <<index, serial>>
  BY SignatureIndexAssumption DEF EndKeeper, DropMutation, SignatureUpdate
<1>1. TypeOK'
  BY <1>0, <1>d, SignatureIndexAssumption
     DEF EndKeeper, DropMutation, index, writers, scans, TypeOK, Task, Ensurer
<1>2. AllTracked'
  BY <1>0, <1>d, SignatureIndexAssumption
     DEF EndKeeper, DropMutation, index, writers, scans, TypeOK, Task, Ensurer, AllTracked
<1>3. FillsAreApart'
  BY <1>0, <1>d, SignatureIndexAssumption
     DEF EndKeeper, DropMutation, index, writers, scans, TypeOK, Task, Ensurer,
         FillsAreApart, FillsIdle
<1>4. GenerationsAreOld'
  BY <1>0, <1>d, SignatureIndexAssumption
     DEF EndKeeper, DropMutation, index, writers, scans, TypeOK, Task, Ensurer,
         GenerationsAreOld, Unlocked
<1>5. UpdatesHold'
  BY <1>0, <1>d, SignatureIndexAssumption
     DEF EndKeeper, DropMutation, index, writers, scans, TypeOK, Task, Ensurer, UpdatesHold,
         Good
<1>6. StreamsMissNothing'
  BY <1>0, <1>d, SignatureIndexAssumption
     DEF EndKeeper, DropMutation, index, writers, scans, TypeOK, Task, Ensurer,
         StreamsMissNothing, SameToken, InFilterOrPending
<1>7. BuildMissesNothing'
  BY <1>0, <1>d, SignatureIndexAssumption
     DEF EndKeeper, DropMutation, index, writers, scans, TypeOK, Task, Ensurer,
         BuildMissesNothing, SameToken, InFilterOrPending, Masked, SignatureUpdate, Good,
         AllTracked
<1>8. AllocationIsFresh'
  BY <1>0, <1>d, SignatureIndexAssumption
     DEF EndKeeper, DropMutation, index, writers, scans, TypeOK, Task, Ensurer,
         AllocationIsFresh, Masked, SignatureUpdate, Unlocked, AllTracked
<1>9. CompleteMeansCovered'
  BY <1>0, <1>d, SignatureIndexAssumption
     DEF EndKeeper, DropMutation, index, writers, scans, TypeOK, Task, Ensurer,
         CompleteMeansCovered, Masked, SignatureUpdate, Good, AllTracked
<1> QED
  BY <1>1, <1>2, <1>3, <1>4, <1>5, <1>6, <1>7, <1>8, <1>9 DEF IndInv

(***************************************************************************)
(* The initial state, and the theorems.                                    *)
(***************************************************************************)
LEMMA InitIndInv ==
  Init => IndInv
<1> SUFFICES ASSUME Init
             PROVE  IndInv
  OBVIOUS
<1>1. TypeOK
  BY PartitionsFact, SignatureIndexAssumption DEF Init, TypeOK, Unlocked, Task, Ensurer
<1>2. AllTracked /\ GenerationsAreOld /\ UpdatesHold /\ StreamsMissNothing
  BY DEF Init, AllTracked, GenerationsAreOld, UpdatesHold, StreamsMissNothing, Unlocked, Task
<1>3. FillsAreApart
  BY DEF Init, FillsAreApart, FillsIdle, Task
<1>4. BuildMissesNothing /\ AllocationIsFresh /\ CompleteMeansCovered
  BY DEF Init, BuildMissesNothing, AllocationIsFresh, CompleteMeansCovered, Unlocked
<1> QED
  BY <1>1, <1>2, <1>3, <1>4 DEF IndInv

(* Every step keeps the inductive invariant, by the lemma of its action.   *)
LEMMA NextIndInv ==
  ASSUME IndInv, EnoughWriters, [Next]_vars
  PROVE  IndInv'
<1>1. ASSUME NEW x \in Ensurer, EnsurerNext(x)
      PROVE  IndInv'
  BY <1>1, EnsureStep, ProbeStep, AllocateStep, AllocateFailsStep, ScanStep, InsertBatchStep,
     UpdateFailsStep DEF EnsurerNext
<1>2. ASSUME NEW f \in Fill, FillNext(f)
      PROVE  IndInv'
  BY <1>2, BeginFillStep, SignatureFillStep, ForwardStep, ValidateStep, FinishSignaturesStep,
     PublishStep, AbandonFillStep, EndFillStep DEF FillNext
<1>3. CASE BuilderNext
  BY <1>3, BeginBuildStep, EndBuildStep DEF BuilderNext
<1>4. ASSUME NEW t \in Poisoner, PoisonerNext(t)
      PROVE  IndInv'
  BY <1>4, BeginReadStep, BeginPoisonStep, RemoveCoverageStep, EndPoisonStep DEF PoisonerNext
<1>5. CASE KeeperNext
  BY <1>5, BeginEvictStep, DropPartitionsStep, EvictSignaturesStep, EvictCoverageStep,
     BeginResetStep, ClearSignaturesStep, WipeTablesStep, ReloadCoverageStep,
     KeeperFailsStep, EndKeeperStep DEF KeeperNext
<1>6. CASE UNCHANGED vars
  <2>0. UNCHANGED vars /\ IndInv
    BY <1>6
  <2> USE <2>0 DEF vars, index, writers, scans, IndInv
  <2>1. TypeOK' /\ AllTracked' /\ GenerationsAreOld'
    BY DEF TypeOK, AllTracked, GenerationsAreOld
  <2>2. FillsAreApart'
    BY DEF FillsAreApart, FillsIdle
  <2>3. UpdatesHold' /\ StreamsMissNothing'
    BY DEF UpdatesHold, StreamsMissNothing, Good, SameToken, InFilterOrPending
  <2>4. \A s : Masked(s)' <=> Masked(s)
    BY DEF Masked, SignatureUpdate
  <2>5. BuildMissesNothing'
    BY <2>4 DEF BuildMissesNothing, SameToken, InFilterOrPending
  <2>6. AllocationIsFresh' /\ CompleteMeansCovered'
    BY <2>4 DEF AllocationIsFresh, CompleteMeansCovered, Good
  <2> QED
    BY <2>1, <2>2, <2>3, <2>5, <2>6
<1> QED
  BY <1>1, <1>2, <1>3, <1>4, <1>5, <1>6 DEF Next

(* A trusted partition has no masking fill, so its covered slots are in the filter. *)
LEMMA IndInvIsEnough ==
  IndInv => NoFalseAbsence
<1> SUFFICES ASSUME IndInv, NEW s \in coverage, Trusted(Partition(s))
             PROVE  Good(s)
  BY DEF NoFalseAbsence, Good
<1>1. ~Masked(s)
  BY DEF Trusted, Repairing, Covers, Masked
<1> QED
  BY <1>1 DEF IndInv, CompleteMeansCovered, Trusted

(***************************************************************************)
(* As long as the writers fit in the table (128 entries in                 *)
(* KeyIndex::mutation), every variable keeps its type.                     *)
(***************************************************************************)
THEOREM TypeCorrect ==
  ASSUME EnoughWriters
  PROVE  Spec => []TypeOK
<1>1. IndInv /\ [Next]_vars => IndInv'
  BY NextIndInv
<1>2. IndInv => TypeOK
  BY DEF IndInv
<1> QED
  BY InitIndInv, <1>1, <1>2, PTL DEF Spec

(***************************************************************************)
(* As long as the writers fit in the table, a filter that a signature      *)
(* lookup trusts admits every stored signature of a covered slot, however  *)
(* many fills, poisons, evictions, resets and builds are interleaved.      *)
(***************************************************************************)
THEOREM AbsenceIsProved ==
  ASSUME EnoughWriters
  PROVE  Spec => []NoFalseAbsence
<1>1. IndInv /\ [Next]_vars => IndInv'
  BY NextIndInv
<1> QED
  BY InitIndInv, IndInvIsEnough, <1>1, PTL DEF Spec

-----------------------------------------------------------------------------
(***************************************************************************)
(* The budget and the generations hold whether or not the table of writers *)
(* has room: a writer over the limit drops every filter, which frees room  *)
(* and starts no generation.  The number of entries is checked in the      *)
(* first critical section of ensure_signature_partition and used in the    *)
(* second; in between, only the holder of the allocation mutex could add   *)
(* an entry, so the entry it is about to add is counted as well.           *)
(***************************************************************************)
AllocationTyped ==
  alloc \in [owner : Ensurer \cup {None}, partition : Partitions, serial : Nat,
             empty : {"unread", "yes", "no"}]

\* The ensurers that hold the allocation mutex: one or none.
Allocating == {x \in Ensurer : alloc.owner = x}

\* What a step knows of the generations before it.
GenerationsCount ==
  /\ serial \in Nat /\ token \in [Partitions -> Nat]
  /\ \A p \in Partitions : token[p] <= serial
  /\ bloom = [p \in Partitions |-> bloom[p]]

BudgetInv == AllocationTyped /\ GenerationsCount /\ IsFiniteSet(present) /\ WithinBudget

\* The steps that neither add an entry nor touch the allocation.
NoEntryAdded == present' \subseteq present /\ alloc' = alloc

\* The steps that leave the bits alone and only start newer generations.
BitsLeftAlone ==
  /\ bloom' = bloom /\ serial' \in Nat /\ serial <= serial'
  /\ token' \in [Partitions -> Nat]
  /\ \A p \in Partitions : token'[p] = token[p] \/ token'[p] <= serial'

(* Such steps keep the invariant. *)
LEMMA OrdinaryStep ==
  ASSUME BudgetInv, NoEntryAdded, BitsLeftAlone
  PROVE  BudgetInv'
<1>1. AllocationTyped' /\ GenerationsCount'
  BY DEF BudgetInv, AllocationTyped, GenerationsCount, NoEntryAdded, BitsLeftAlone
<1>2. IsFiniteSet(present') /\ Cardinality(present') <= Cardinality(present)
  BY FS_Subset DEF BudgetInv, NoEntryAdded
<1>3. Allocating' = Allocating
  BY DEF Allocating, NoEntryAdded
<1>4. IsFiniteSet(Allocating) /\ Cardinality(Allocating) \in Nat
  <2>1. Allocating \in SUBSET {alloc.owner}
    BY DEF Allocating
  <2> QED
    BY <2>1, FS_Singleton, FS_Subset, FS_CardinalityType
<1>5. Cardinality(present) \in Nat /\ Cardinality(present') \in Nat /\ MaxEntries \in Nat
  BY <1>2, FS_CardinalityType, SignatureIndexAssumption DEF BudgetInv
<1>6. WithinBudget'
  <2>1. Cardinality(present) + Cardinality(Allocating) <= MaxEntries
    BY DEF BudgetInv, WithinBudget, Allocating
  <2>2. Cardinality(present') + Cardinality(Allocating') <= MaxEntries
    BY <2>1, <1>2, <1>3, <1>4, <1>5
  <2> QED
    BY <2>2 DEF WithinBudget, Allocating
<1> QED
  BY <1>1, <1>2, <1>6 DEF BudgetInv

(* Registering a writer adds no entry and starts no generation. *)
LEMMA MutationOrdinary ==
  ASSUME BudgetInv, NEW t, NEW slots, Mutation(t, slots), alloc' = alloc
  PROVE  NoEntryAdded /\ BitsLeftAlone
<1>1. CASE Cardinality(tracked) >= MaxWriters
  BY <1>1 DEF Mutation, NoEntryAdded, BitsLeftAlone, BudgetInv, GenerationsCount
<1>2. CASE ~(Cardinality(tracked) >= MaxWriters)
  BY <1>2 DEF Mutation, NoEntryAdded, BitsLeftAlone, BudgetInv, GenerationsCount
<1> QED
  BY <1>1, <1>2

(* A generation that is taken back is replaced by a newer one over the same bits. *)
LEMMA InvalidateOrdinary ==
  ASSUME BudgetInv, NEW t, Invalidate(t), alloc' = alloc
  PROVE  NoEntryAdded /\ BitsLeftAlone
BY DEF Invalidate, NoEntryAdded, BitsLeftAlone, BudgetInv, GenerationsCount

(* So does dropping a guard, whether or not its update was finished.       *)
LEMMA DropMutationOrdinary ==
  ASSUME BudgetInv, NEW t, DropMutation(t), alloc' = alloc
  PROVE  NoEntryAdded /\ BitsLeftAlone
<1>1. CASE Invalidate(t)
  BY <1>1, InvalidateOrdinary
<1>2. CASE UNCHANGED <<index, serial>>
  BY <1>2 DEF index, NoEntryAdded, BitsLeftAlone, BudgetInv, GenerationsCount
<1> QED
  BY <1>1, <1>2 DEF DropMutation

(* A step that leaves the index alone. *)
LEMMA IndexUntouched ==
  ASSUME BudgetInv, UNCHANGED <<present, token, bloom, serial, alloc>>
  PROVE  NoEntryAdded /\ BitsLeftAlone
BY DEF NoEntryAdded, BitsLeftAlone, BudgetInv, GenerationsCount

\* A fill, but for the partitions it asks for, adds no filter and clears no bits.
LEMMA FillOrdinary ==
  ASSUME BudgetInv, NEW f \in Fill, FillNext(f)
  PROVE  NoEntryAdded /\ BitsLeftAlone
<1>1. ASSUME NEW slots, BeginFill(f, slots) PROVE NoEntryAdded /\ BitsLeftAlone
  BY <1>1, MutationOrdinary DEF BeginFill
<1>2. CASE SignatureFill(f) \/ Publish(f) \/ AbandonFill(f)
  BY <1>2, IndexUntouched DEF SignatureFill, Publish, AbandonFill, index
<1>3. ASSUME NEW s, NEW g, Forward(f, s, g) PROVE NoEntryAdded /\ BitsLeftAlone
  BY <1>3, IndexUntouched DEF Forward, index
<1>4. ASSUME NEW slots, Validate(f, slots) PROVE NoEntryAdded /\ BitsLeftAlone
  BY <1>4, IndexUntouched DEF Validate, index
<1>5. CASE FinishSignatures(f)
  <2>1. CASE Invalidate(f)
    BY <1>5, <2>1, InvalidateOrdinary DEF FinishSignatures
  <2>2. CASE ~Invalidate(f)
    BY <1>5, <2>2, IndexUntouched DEF FinishSignatures, index
  <2> QED
    BY <2>1, <2>2
<1>6. CASE EndFill(f)
  BY <1>6, DropMutationOrdinary DEF EndFill
<1> QED
  BY <1>1, <1>2, <1>3, <1>4, <1>5, <1>6 DEF FillNext

\* Nor does a reader that poisons a slot.
LEMMA PoisonerOrdinary ==
  ASSUME BudgetInv, NEW t \in Poisoner, PoisonerNext(t)
  PROVE  NoEntryAdded /\ BitsLeftAlone
<1>1. ASSUME NEW s, BeginRead(t, s) PROVE NoEntryAdded /\ BitsLeftAlone
  BY <1>1, IndexUntouched DEF BeginRead, index
<1>2. CASE BeginPoison(t)
  BY <1>2, MutationOrdinary DEF BeginPoison
<1>3. CASE RemoveCoverage(t)
  BY <1>3, IndexUntouched DEF RemoveCoverage, index
<1>4. CASE EndPoison(t)
  BY <1>4, DropMutationOrdinary DEF EndPoison
<1> QED
  BY <1>1, <1>2, <1>3, <1>4 DEF PoisonerNext

\* Nor does an eviction or a reset of the schema.
LEMMA KeeperOrdinary ==
  ASSUME BudgetInv, KeeperNext
  PROVE  NoEntryAdded /\ BitsLeftAlone
<1>1. ASSUME NEW newFloor, BeginEvict(newFloor) PROVE NoEntryAdded /\ BitsLeftAlone
  BY <1>1, MutationOrdinary DEF BeginEvict
<1>2. CASE BeginReset
  BY <1>2, MutationOrdinary DEF BeginReset
<1>3. CASE \/ DropPartitions \/ EvictCoverage \/ WipeTables \/ ReloadCoverage \/ KeeperFails
  BY <1>3, IndexUntouched
     DEF DropPartitions, EvictCoverage, WipeTables, ReloadCoverage, KeeperFails, index
<1>4. CASE EvictSignatures
  BY <1>4 DEF EvictSignatures, NoEntryAdded, BitsLeftAlone, BudgetInv, GenerationsCount
<1>5. CASE ClearSignatures
  BY <1>5 DEF ClearSignatures, NoEntryAdded, BitsLeftAlone, BudgetInv, GenerationsCount
<1>6. CASE EndKeeper
  BY <1>6, DropMutationOrdinary DEF EndKeeper
<1> QED
  BY <1>1, <1>2, <1>3, <1>4, <1>5, <1>6 DEF KeeperNext

(* The worker's own steps: EndBuild only sets the flag of a complete filter. *)
LEMMA BuilderOrdinary ==
  ASSUME BudgetInv, BuilderNext
  PROVE  NoEntryAdded /\ BitsLeftAlone
<1>1. ASSUME NEW p, BeginBuild(p) PROVE NoEntryAdded /\ BitsLeftAlone
  BY <1>1, IndexUntouched DEF BeginBuild, index
<1>2. CASE EndBuild
  BY <1>2, IndexUntouched DEF EndBuild
<1> QED
  BY <1>1, <1>2 DEF BuilderNext

(* The first critical section found room for one more entry. *)
LEMMA EnsureKeepsBudget ==
  ASSUME BudgetInv, NEW x \in Ensurer, NEW p \in Partitions, Ensure(x, p)
  PROVE  BudgetInv'
<1>1. UNCHANGED <<present, token, bloom, serial>>
  BY DEF Ensure, index
<1>2. CASE p \in present
  <2>1. alloc' = alloc
    BY <1>2 DEF Ensure
  <2> QED
    BY <2>1, <1>1, IndexUntouched, OrdinaryStep
<1>3. CASE p \notin present
  <2>1. alloc' = [owner |-> x, partition |-> p, serial |-> serial, empty |-> "unread"]
    BY <1>3 DEF Ensure
  <2>2. AllocationTyped' /\ GenerationsCount'
    BY <2>1, <1>1 DEF AllocationTyped, BudgetInv, GenerationsCount
  <2>3. ~(Cardinality(present) >= MaxEntries)
    BY <1>3 DEF Ensure, Refused
  <2>4. Allocating' = {x}
    BY <2>1 DEF Allocating
  <2>5. Cardinality(Allocating') = 1
    BY <2>4, FS_Singleton
  <2>6. Cardinality(present) \in Nat /\ MaxEntries \in Nat
    BY FS_CardinalityType, SignatureIndexAssumption DEF BudgetInv
  <2>7. Cardinality(present') + Cardinality(Allocating') <= MaxEntries
    BY <1>1, <2>3, <2>5, <2>6
  <2> QED
    BY <1>1, <2>2, <2>7 DEF BudgetInv, WithinBudget, Allocating
<1> QED
  BY <1>2, <1>3

(* The second one turns the allocation into an entry. *)
LEMMA AllocateKeepsBudget ==
  ASSUME BudgetInv, NEW x \in Ensurer, Allocate(x)
  PROVE  BudgetInv'
<1>1. alloc' = Unlocked /\ Allocating' = {}
  BY SignatureIndexAssumption DEF Allocate, Allocating, Unlocked, Ensurer, Task
<1>2. AllocationTyped'
  BY <1>1, PartitionsFact DEF AllocationTyped, Unlocked
<1>3. GenerationsCount'
  <2>1. /\ serial' = serial + 1
        /\ token' = [token EXCEPT ![alloc.partition] = serial + 1]
        /\ bloom' = [bloom EXCEPT ![alloc.partition] = {}]
    BY DEF Allocate
  <2>2. serial' \in Nat /\ token' \in [Partitions -> Nat]
    <3>1. alloc.partition \in Partitions /\ serial + 1 \in Nat /\ token \in [Partitions -> Nat]
      BY DEF BudgetInv, GenerationsCount, AllocationTyped
    <3> QED
      BY <2>1, <3>1
  <2>3. \A p \in Partitions : token'[p] <= serial'
    BY <2>1 DEF BudgetInv, GenerationsCount
  <2>4. bloom' = [p \in Partitions |-> bloom'[p]]
    BY <2>1 DEF BudgetInv, GenerationsCount
  <2> QED
    BY <2>2, <2>3, <2>4 DEF GenerationsCount
<1>4. Allocating = {x}
  BY DEF Allocate, Allocating
<1>5. present' = present \cup {alloc.partition}
  BY DEF Allocate
<1>6. /\ IsFiniteSet(present') /\ Cardinality(present') \in Nat /\ Cardinality(present) \in Nat
      /\ Cardinality(present') <= Cardinality(present) + 1
  <2>1. IsFiniteSet(present) /\ Cardinality(present) \in Nat
    BY FS_CardinalityType DEF BudgetInv
  <2>2. IsFiniteSet(present')
    BY <2>1, <1>5, FS_AddElement
  <2>3. Cardinality(present') = Cardinality(present) \/ Cardinality(present') = Cardinality(present) + 1
    BY <2>1, <1>5, FS_AddElement
  <2> QED
    BY <2>1, <2>2, <2>3
<1>7. Cardinality(present) + 1 <= MaxEntries
  <2>1. Cardinality(present) + Cardinality(Allocating) <= MaxEntries
    BY DEF BudgetInv, WithinBudget, Allocating
  <2> QED
    BY <2>1, <1>4, FS_Singleton
<1>8. Cardinality(present') + Cardinality(Allocating') <= MaxEntries
  BY <1>1, <1>6, <1>7, FS_EmptySet, SignatureIndexAssumption
<1> QED
  BY <1>2, <1>3, <1>6, <1>8 DEF BudgetInv, WithinBudget, Allocating

\* Whoever asks for filters stays within the budget.
LEMMA EnsurerKeepsBudget ==
  ASSUME BudgetInv, NEW x \in Ensurer, EnsurerNext(x)
  PROVE  BudgetInv'
<1>1. ASSUME NEW p \in Partitions, Ensure(x, p) PROVE BudgetInv'
  BY <1>1, EnsureKeepsBudget
<1>2. CASE Probe(x)
  <2>1. UNCHANGED <<present, token, bloom, serial>> /\ alloc'.owner = alloc.owner /\ AllocationTyped'
    BY <1>2 DEF Probe, index, BudgetInv, AllocationTyped
  <2> QED
    BY <2>1 DEF BudgetInv, GenerationsCount, WithinBudget
<1>3. CASE Allocate(x)
  BY <1>3, AllocateKeepsBudget
<1>4. CASE AllocateFails(x)
  <2>1. UNCHANGED <<present, token, bloom, serial>> /\ alloc' = Unlocked
    BY <1>4 DEF AllocateFails, index
  <2>2. AllocationTyped' /\ GenerationsCount'
    BY <2>1, PartitionsFact DEF AllocationTyped, Unlocked, BudgetInv, GenerationsCount
  <2>3. Allocating' = {} /\ Allocating = {x}
    BY <1>4, <2>1, SignatureIndexAssumption DEF AllocateFails, Allocating, Unlocked, Ensurer, Task
  <2>4. Cardinality(present') + Cardinality(Allocating') <= MaxEntries
    <3>1. Cardinality(present) + Cardinality(Allocating) <= MaxEntries
      BY DEF BudgetInv, WithinBudget, Allocating
    <3>2. Cardinality(present) \in Nat
      BY FS_CardinalityType DEF BudgetInv
    <3>3. Cardinality(Allocating) = 1 /\ Cardinality(Allocating') = 0
      BY <2>3, FS_Singleton, FS_EmptySet
    <3>4. MaxEntries \in Nat
      BY SignatureIndexAssumption
    <3> QED
      BY <3>1, <3>2, <3>3, <3>4, <2>1
  <2> QED
    BY <2>1, <2>2, <2>4 DEF BudgetInv, WithinBudget, Allocating
<1>5. CASE Scan(x) \/ UpdateFails(x)
  BY <1>5, IndexUntouched, OrdinaryStep DEF Scan, UpdateFails, index
<1>6. ASSUME NEW batch, InsertBatch(x, batch) PROVE BudgetInv'
  <2>1. UNCHANGED <<present, token, serial, alloc>>
    BY <1>6 DEF InsertBatch
  <2>2. bloom' = [p \in Partitions |-> bloom'[p]]
    BY <1>6 DEF InsertBatch
  <2> QED
    BY <2>1, <2>2 DEF BudgetInv, AllocationTyped, GenerationsCount, WithinBudget
<1> QED
  BY <1>1, <1>2, <1>3, <1>4, <1>5, <1>6 DEF EnsurerNext

\* The index starts without filters.
LEMMA InitBudgetInv ==
  Init => BudgetInv
<1> SUFFICES ASSUME Init PROVE BudgetInv
  OBVIOUS
<1>1. AllocationTyped /\ GenerationsCount
  BY PartitionsFact, SignatureIndexAssumption DEF Init, AllocationTyped, GenerationsCount, Unlocked
<1>2. Allocating = {} /\ present = {}
  BY SignatureIndexAssumption DEF Init, Allocating, Unlocked, Ensurer, Task
<1>3. IsFiniteSet(present) /\ Cardinality(present) + Cardinality(Allocating) <= MaxEntries
  BY <1>2, FS_EmptySet, SignatureIndexAssumption
<1> QED
  BY <1>1, <1>3 DEF BudgetInv, WithinBudget, Allocating

\* Every step stays within the budget.
LEMMA NextBudgetInv ==
  ASSUME BudgetInv, [Next]_vars
  PROVE  BudgetInv'
<1>1. CASE UNCHANGED vars
  BY <1>1, IndexUntouched, OrdinaryStep DEF vars, index
<1>2. ASSUME NEW x \in Ensurer, EnsurerNext(x) PROVE BudgetInv'
  BY <1>2, EnsurerKeepsBudget
<1>3. ASSUME NEW f \in Fill, FillNext(f) PROVE BudgetInv'
  BY <1>3, FillOrdinary, OrdinaryStep
<1>4. ASSUME NEW t \in Poisoner, PoisonerNext(t) PROVE BudgetInv'
  BY <1>4, PoisonerOrdinary, OrdinaryStep
<1>5. CASE BuilderNext \/ KeeperNext
  BY <1>5, BuilderOrdinary, KeeperOrdinary, OrdinaryStep
<1> QED
  BY <1>1, <1>2, <1>3, <1>4, <1>5 DEF Next

(***************************************************************************)
(* However many tasks ask for filters at once, and also when the table of  *)
(* writers overflows, the filters of ensure_signature_partition never take *)
(* more than max_entries.                                                  *)
(***************************************************************************)
THEOREM BudgetIsKept ==
  Spec => []WithinBudget
<1>1. BudgetInv /\ [Next]_vars => BudgetInv'
  BY NextBudgetInv
<1>2. BudgetInv => WithinBudget
  BY DEF BudgetInv
<1> QED
  BY InitBudgetInv, <1>1, <1>2, PTL DEF Spec

\* What GenerationKeepsBits asks of a step.
KeepsBits ==
  \A p \in Partitions : p \in present' /\ token'[p] = token[p] => bloom[p] \subseteq bloom'[p]

(* Only an allocation empties a filter, and its generation is newer than any token. *)
LEMMA StepKeepsBits ==
  ASSUME BudgetInv, [Next]_vars
  PROVE  KeepsBits
<1>0. BitsLeftAlone => KeepsBits
  BY DEF BitsLeftAlone, KeepsBits
<1>1. CASE UNCHANGED vars
  BY <1>1 DEF vars, index, KeepsBits
<1>2. ASSUME NEW x \in Ensurer, EnsurerNext(x) PROVE KeepsBits
  <2>1. ASSUME NEW p \in Partitions, Ensure(x, p) PROVE KeepsBits
    BY <2>1 DEF Ensure, index, KeepsBits
  <2>2. CASE Probe(x) \/ AllocateFails(x) \/ Scan(x) \/ UpdateFails(x)
    BY <2>2 DEF Probe, AllocateFails, Scan, UpdateFails, index, KeepsBits
  <2>3. CASE Allocate(x)
    <3> SUFFICES ASSUME NEW p \in Partitions, token'[p] = token[p]
                 PROVE  bloom[p] \subseteq bloom'[p]
      BY DEF KeepsBits
    <3>1. p # alloc.partition
      BY <2>3 DEF Allocate, BudgetInv, GenerationsCount
    <3> QED
      BY <3>1, <2>3 DEF Allocate, BudgetInv, GenerationsCount
  <2>4. ASSUME NEW batch, InsertBatch(x, batch) PROVE KeepsBits
    BY <2>4 DEF InsertBatch, KeepsBits
  <2> QED
    BY <1>2, <2>1, <2>2, <2>3, <2>4 DEF EnsurerNext
<1>3. ASSUME NEW f \in Fill, FillNext(f) PROVE KeepsBits
  BY <1>0, <1>3, FillOrdinary
<1>4. ASSUME NEW t \in Poisoner, PoisonerNext(t) PROVE KeepsBits
  BY <1>0, <1>4, PoisonerOrdinary
<1>5. CASE BuilderNext \/ KeeperNext
  BY <1>0, <1>5, BuilderOrdinary, KeeperOrdinary
<1> QED
  BY <1>1, <1>2, <1>3, <1>4, <1>5 DEF Next

(***************************************************************************)
(* While a partition keeps its generation its filter loses no signature:   *)
(* insert_signature_hashes may check the token with its last batch only,   *)
(* for every interleaving and also when the table of writers overflows.    *)
(***************************************************************************)
THEOREM GenerationsAreHonest ==
  Spec => GenerationKeepsBits
<1>1. BudgetInv /\ [Next]_vars => BudgetInv'
  BY NextBudgetInv
<1>2. BudgetInv /\ [Next]_vars => [KeepsBits]_vars
  BY StepKeepsBits
<1> QED
  BY InitBudgetInv, <1>1, <1>2, PTL DEF Spec, GenerationKeepsBits, KeepsBits
=============================================================================
