----------------------------- MODULE MCArchiver -----------------------------
(***************************************************************************)
(* The archiver (Archiver) with the scenarios of the model checker.        *)
(***************************************************************************)
EXTENDS Integers, Sequences, FiniteSets

CONSTANTS
  ArchiveSlots, ArchiveProduced,   \* the chain, and the slots with a block
  ArchiveConfigs,                  \* the configurations considered
  ArchiveCycles, ArchiveFaults     \* bounds: runs started; runs that fail, and kills

VARIABLES config, db, mutations, late, bundles, job, server, cycles, faults, written, spans, ingested

Archives == INSTANCE Archiver WITH
  Slots <- ArchiveSlots, Produced <- ArchiveProduced, Configs <- ArchiveConfigs,
  MaxCycles <- ArchiveCycles, MaxFaults <- ArchiveFaults

ASSUME ArchiveAssumption == Archives!ArchiverAssumption

ArchiverCases == INSTANCE ArchiverScenarios
ArchiveChain == ArchiverCases!MCSlots
ArchiveLeaders == ArchiverCases!MCProduced
ArchivePassing == ArchiverCases!MCConfigs
ArchiveSkipping == ArchiverCases!SkipConfigs

ArchiveSpec == Archives!Spec

\* "continuation uses the stored end slot plus one" (the archiver's README):
\* between the first and the last slot a kind has archived there is no produced
\* slot it left out.
NoSlotSkipped == Archives!NoSlotSkipped
=============================================================================
