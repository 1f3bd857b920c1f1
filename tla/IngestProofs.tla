---------------------------- MODULE IngestProofs ----------------------------
(***************************************************************************)
(* The properties that the run of MCIngest checks of the live ingestors    *)
(* and of the archiver, as theorems of the sum of all parts: the part that *)
(* runs never changes, so the invariants of StreamProofs and               *)
(* ArchiverProofs hold of the one that does.                               *)
(***************************************************************************)
EXTENDS MCIngest, StreamProofs, ArchiverProofs

\* The inductive invariant: of the part that runs, its own.
SumInv ==
  /\ part = "grpc" => GInv
  /\ part = "fumarole" => AckInv /\ FooterInv
  /\ part = "archiver" => ArchiveInv

\* Every part begins in an initial state of its own.
LEMMA SumInitial == IngestInit => SumInv
<1> SUFFICES ASSUME IngestInit PROVE SumInv
  OBVIOUS
<1>1. part = "grpc" => Init
  BY DEF IngestInit
<1>2. part = "fumarole" => Fumarole!Init
  BY DEF IngestInit
<1>3. part = "archiver" => Archives!Init
  BY DEF IngestInit
<1> QED BY <1>1, <1>2, <1>3, GrpcInitial, AckInitial, FooterInitial, ArchiveInitial, ArchiveAssumption DEF SumInv

\* A step is one of the part that runs.
LEMMA SumMoves ==
  ASSUME [IngestNext]_ingestVars
  PROVE  /\ part' = part
         /\ part = "grpc" => Next \/ UNCHANGED vars
         /\ part = "fumarole" => Fumarole!Next \/ UNCHANGED Fumarole!vars
         /\ part = "archiver" => Archives!Next \/ UNCHANGED Archives!vars
<1>1. CASE IngestNext
  BY <1>1 DEF IngestNext, PartEnded, ingestVars, Fumarole!vars, Fumarole!bufferVars, Archives!vars
<1>2. CASE UNCHANGED ingestVars
  BY <1>2 DEF ingestVars, vars, bufferVars, Fumarole!vars, Fumarole!bufferVars, Archives!vars
<1> QED BY <1>1, <1>2

\* A step of any part keeps the invariant and every stored footer.
LEMMA SumStep ==
  ASSUME SumInv, [IngestNext]_ingestVars
  PROVE  SumInv' /\ (part \in {"grpc", "fumarole"} => FootersKept)
<1>0. part' = part
  BY SumMoves
<1>1. ASSUME stored' = stored PROVE FootersKept
  BY <1>1 DEF FootersKept
<1>2. CASE part = "grpc"
  <2>1. GInv /\ (Next \/ UNCHANGED vars)
    BY <1>2, SumMoves DEF SumInv
  <2>2. CASE Next
    BY <1>0, <1>2, <2>1, <2>2, GrpcStep DEF SumInv
  <2>3. CASE UNCHANGED vars
    <3>1. stored' = stored
      BY <2>3 DEF vars, bufferVars
    <3> QED BY <1>0, <1>1, <1>2, <2>1, <2>3, <3>1, GrpcUnchanged DEF SumInv
  <2> QED BY <2>1, <2>2, <2>3
<1>3. CASE part = "fumarole"
  <2>1. AckInv /\ FooterInv /\ [Fumarole!Next]_(Fumarole!vars)
    BY <1>3, SumMoves DEF SumInv
  <2>2. AckInv' /\ FooterInv' /\ [Fumarole!FootersKept]_(Fumarole!bufferVars)
    BY <2>1, AckStep, FooterStep, GroupAssumption
  <2>3. FootersKept
    <3>1. CASE Fumarole!FootersKept
      BY <3>1 DEF Fumarole!FootersKept, FootersKept, Fumarole!NoFooter, NoFooter
    <3>2. CASE UNCHANGED Fumarole!bufferVars
      BY <1>1, <3>2 DEF Fumarole!bufferVars
    <3> QED BY <2>2, <3>1, <3>2
  <2> QED BY <1>0, <1>3, <2>2, <2>3 DEF SumInv
<1>4. CASE part = "archiver"
  <2>1. ArchiveInv /\ [Archives!Next]_(Archives!vars)
    BY <1>4, SumMoves DEF SumInv
  <2>2. ArchiveInv'
    BY <2>1, ArchiveStep, ArchiveAssumption
  <2> QED BY <1>0, <1>4, <2>2 DEF SumInv
<1>5. CASE part \notin {"grpc", "fumarole", "archiver"}
  BY <1>0, <1>5 DEF SumInv
<1> QED BY <1>2, <1>3, <1>4, <1>5

\* Whatever the source sends, and however often inserts fail and the process dies:
\* below the metadata tip, where the gRPC writer resumes, no produced block or its
\* transactions are missing, an orderly stop leaves no identified block behind, and
\* what waits in memory stays within its limits.
THEOREM WriterStored == IngestSpec => []StreamStored
<1>1. SumInv => StreamStored
  BY GrpcInvImplies DEF SumInv, StreamStored
<1>2. SumInv /\ [IngestNext]_ingestVars => SumInv'
  BY SumStep
<1> QED BY <1>1, <1>2, SumInitial, PTL DEF IngestSpec

\* Every row the gRPC writer stores has the bank id of the produced block, unless the
\* producer contradicts itself, and the footer of no losing bank.
THEOREM WriterRowsTrue == IngestSpec => []RowsOfTheWinner
<1>1. SumInv => RowsOfTheWinner
  BY GrpcInvImplies DEF SumInv, RowsOfTheWinner
<1>2. SumInv /\ [IngestNext]_ingestVars => SumInv'
  BY SumStep
<1> QED BY <1>1, <1>2, SumInitial, PTL DEF IngestSpec

\* What the Fumarole consumer has acknowledged, and so is never delivered again, is
\* stored: its commit never overtakes a flush or a block that is being assembled.
THEOREM CommitAfterStore == IngestSpec => []AcknowledgedIsStored
<1>1. SumInv => AcknowledgedIsStored
  BY AckInvImplies DEF SumInv, AcknowledgedIsStored
<1>2. SumInv /\ [IngestNext]_ingestVars => SumInv'
  BY SumStep
<1> QED BY <1>1, <1>2, SumInitial, PTL DEF IngestSpec

\* A footer once stored survives replays, retries and restarts of either ingestor,
\* although the newest row of a slot replaces the stored one (merge_stored_footers).
THEOREM StreamsKeepFooters == IngestSpec => StreamFootersKept
<1>1. SumInv /\ [IngestNext]_ingestVars
      => SumInv' /\ [(part \in {"grpc", "fumarole"}) => FootersKept]_bufferVars
  BY SumStep
<1> QED BY <1>1, SumInitial, PTL DEF IngestSpec, StreamFootersKept

\* A bundle that moves the restart point and releases rows for deletion holds every
\* row of its range, and a row leaves ClickHouse only once a published bundle held it,
\* although kinds validate, export, delete and prune side by side, runs die at any
\* await and the rows of a range come late.
THEOREM ArchiveKept == IngestSpec => []ArchiveSafe
<1>1. SumInv => ArchiveSafe
  BY ArchiveShown DEF SumInv, ArchiveSafe
<1>2. SumInv /\ [IngestNext]_ingestVars => SumInv'
  BY SumStep
<1> QED BY <1>1, <1>2, SumInitial, PTL DEF IngestSpec
=============================================================================
