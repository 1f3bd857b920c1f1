-------------------------- MODULE MCSignatureIndex --------------------------
(***************************************************************************)
(* Small instances of SignatureIndex: one signature in each slot.          *)
(***************************************************************************)
EXTENDS SignatureIndex, TLC

CONSTANT MaxSerial      \* bound on the generation counter

MCSource == [s \in Slot |-> {s}]

MCSig == Slot

Symmetry == Permutations(Fill) \cup Permutations(Poisoner)

SerialBound == serial <= MaxSerial
=============================================================================
