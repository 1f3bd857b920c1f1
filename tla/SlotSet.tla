------------------------------ MODULE SlotSet -------------------------------
(***************************************************************************)
(* What the disk cache needs from its coverage structure: a set of slots   *)
(* that can be extended by an inclusive range, lose one slot, or lose      *)
(* everything below a floor.  CoverageMap implements it with merged        *)
(* ranges; the disk-cache modules use this set directly.                   *)
(***************************************************************************)
EXTENDS Naturals

CONSTANT MaxSlot        \* u64::MAX of the code

VARIABLE covered

Slot == 0..MaxSlot

Init == covered = {}

InsertRange(start, end) == covered' = covered \cup (start..end)

Remove(slot) == covered' = covered \ {slot}

RemoveBelow(floor) == covered' = {s \in covered : s >= floor}

Next ==
  \/ \E start, end \in Slot : InsertRange(start, end)
  \/ \E slot \in Slot : Remove(slot)
  \/ \E floor \in Slot : RemoveBelow(floor)

Spec == Init /\ [][Next]_covered
=============================================================================
