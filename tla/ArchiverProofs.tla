--------------------------- MODULE ArchiverProofs ---------------------------
(***************************************************************************)
(* The archiver (Archiver), for every chain, every configuration, every    *)
(* number of kinds, runs and failures.                                     *)
(*                                                                         *)
(* Neither property is inductive.  That rows leave ClickHouse only once a  *)
(* bundle held them (DeleteInv) needs what each run knows at each of its   *)
(* stages: between the gate and the publication every row of its range is  *)
(* in ClickHouse or was archived, so that what it exports, together with   *)
(* what others archived, is all of it; the names a run has listed, and the *)
(* range it may delete, are of archived slots (RunSafe).  Validation reads *)
(* the blocks before the transactions, and deletions go the other way      *)
(* round: a block row that was archived has transactions that are safe.    *)
(*                                                                         *)
(* That the newest bundle listed is whole (WholeInv) needs more, that the  *)
(* rows of a range stay until they are exported, although others delete: a *)
(* deletion never goes beyond the last bundle of any kind (ReleasedUpTo),  *)
(* a run that continues plans behind the last bundle of its kind, and only *)
(* the run of a kind changes its listing (RunWhole); a cleanup spares the  *)
(* newest bundle.                                                          *)
(***************************************************************************)
EXTENDS MCArchiver, FiniteSetTheorems, TLAPS

-----------------------------------------------------------------------------
(* Types. *)

ChainEnd == Archives!Max(ArchiveSlots)

Bundle == [kind : DOMAIN config.span, start : 0 .. ChainEnd, end : 0 .. ChainEnd,
           files : [Archives!Tables -> SUBSET ArchiveSlots], manifest : BOOLEAN, done : BOOLEAN]

PlanType == [start : Nat, end : Int]

Report == [blocks : SUBSET ArchiveProduced, produced : SUBSET ArchiveProduced, error : BOOLEAN,
           under : SUBSET ArchiveProduced, over : SUBSET ArchiveProduced]

Validating == {"blocks", "rpc", "counts", "repair", "backfill", "gate"}
Exporting == {"remove", "export"}
Finishing == {"mark", "names", "delete", "cleanup"}
Planned == Validating \cup Exporting \cup Finishing

\* The tables an export or a deletion has still to go through.
Remaining == {<<>>, <<"blocks_metadata">>, Archives!archive_tables}

Ahead(left) ==
  CASE left = <<>> -> {} [] left = <<"blocks_metadata">> -> {"blocks_metadata"}
    [] left = Archives!archive_tables -> Archives!Tables

JobType == [stage : {"idle", "bounds"} \cup Planned,
            bounds : [earliest : Nat, latest : -1 .. ChainEnd],
            plan : PlanType, round : {"first", "repaired", "backfilled"}, report : Report,
            files : [Archives!Tables -> SUBSET ArchiveSlots], left : Remaining, names : Seq(PlanType),
            range : PlanType]

ConfigOK == config \in ArchiveConfigs /\ Archives!from_cli(config)

BundleOK(b) == b \in Bundle /\ b.start <= b.end

\* A run that has a plan has one of slots of the chain; it lists a kind after another.
JobOK(r) ==
  /\ r \in JobType
  /\ r.stage \in Planned => r.plan.start <= r.plan.end /\ r.plan.end <= ChainEnd
  /\ r.stage \in Planned \ {"names", "delete", "cleanup"} => r.names = <<>>
  /\ r.stage = "bounds" => r.names = <<>>
  /\ r.stage = "names" => Len(r.names) < Len(config.order)
  /\ Len(r.names) <= Len(config.order)
  /\ \A i \in 1 .. Len(r.names) : r.names[i] = Archives!NoPlan \/ r.names[i].start <= r.names[i].end

ArchiveTypeOK ==
  /\ ConfigOK
  /\ db \in [Archives!Tables -> SUBSET ArchiveProduced]
  /\ mutations \in [Archives!Tables -> SUBSET ArchiveProduced]
  /\ late \subseteq Archives!Tables \X ArchiveProduced
  /\ ingested \subseteq Archives!Tables \X ArchiveProduced
  /\ \A b \in bundles : BundleOK(b)
  /\ job \in [config.kinds -> JobType]
  /\ \A k \in config.kinds : JobOK(job[k])

-----------------------------------------------------------------------------
(* A row is deleted only when a bundle has held it. *)

\* Some published bundle has held the row; it is there or was archived.
Held(t, s) == \E k \in config.kinds : <<k, t, s>> \in written

Safe(t, s) == s \in db[t] \/ Held(t, s)

Archived(p) == \A s \in ArchiveProduced, t \in Archives!Tables : p.start <= s /\ s <= p.end => Held(t, s)

PlanRows(r) == ArchiveProduced \cap Archives!Between(r.plan.start, r.plan.end)

\* What a run knows of its range.
RunSafe(r) ==
  /\ r.stage \in {"bounds", "remove"} \cup Validating => \A t \in Archives!Tables : r.files[t] = {}
  /\ r.stage = "export" => \A t \in Archives!Tables : r.files[t] \subseteq PlanRows(r)
  /\ r.stage \in {"rpc", "counts"} =>
       \A s \in r.report.blocks : Safe("blocks_metadata", s)
  /\ r.stage \in {"repair", "backfill", "gate"} /\ ~Archives!blocks_archive(r.report) =>
       \A s \in PlanRows(r), t \in Archives!Tables : Safe(t, s)
  /\ r.stage \in Exporting => \A s \in PlanRows(r), t \in Archives!Tables : Safe(t, s)
  /\ r.stage = "export" =>
       \A s \in PlanRows(r), t \in Archives!Tables : t \in Ahead(r.left) \/ s \in r.files[t] \/ Held(t, s)
  /\ r.stage \in Finishing => Archived(r.plan)
  /\ \A i \in 1 .. Len(r.names) : r.names[i] # Archives!NoPlan => Archived(r.names[i])
  /\ r.stage = "delete" => Archived(r.range)

Answered(r) == r.stage = "counts" /\ ~r.report.error => PlanRows(r) \subseteq r.report.produced

DeleteInv ==
  /\ \A t \in Archives!Tables, s \in ArchiveProduced : s \in mutations[t] => Held(t, s)
  /\ \A s \in ArchiveProduced : Held("blocks_metadata", s) => Safe("transactions", s)
  /\ \A b \in bundles : (b.manifest \/ b.done) /\ b.kind \in config.kinds => Archived(b)
  /\ \A r \in ingested : Safe(r[1], r[2])
  /\ \A k \in config.kinds : RunSafe(job[k])

-----------------------------------------------------------------------------
(* The newest bundle a kind lists is whole. *)

\* The kind has listed a bundle that ends at or after the slot.
ReleasedUpTo(k, x) == \E b \in Archives!list_archives(k) : x <= b.end

RunWhole(k, r) ==
  /\ r.stage \in Validating \cup Exporting => \A b \in Archives!list_archives(k) : b.end < r.plan.start
  /\ r.stage \in {"rpc", "counts"} =>
       r.report.blocks \subseteq Archives!Between(r.plan.start, r.plan.end) \cap db["blocks_metadata"]
  /\ r.stage \in {"repair", "backfill", "gate"} /\ ~Archives!blocks_archive(r.report) =>
       \A t \in Archives!Tables : PlanRows(r) \subseteq db[t]
  /\ r.stage \in Exporting => \A t \in Archives!Tables : PlanRows(r) \subseteq db[t]
  /\ r.stage = "export" =>
       \A t \in Archives!Tables : t \in Ahead(r.left) \/ PlanRows(r) \subseteq r.files[t]
  /\ \A i \in 1 .. Len(r.names) :
       r.names[i] # Archives!NoPlan => ReleasedUpTo(config.order[i], r.names[i].end)
  /\ r.stage = "delete" => \A q \in config.kinds : ReleasedUpTo(q, r.range.end)

WholeInv ==
  /\ \A k \in config.kinds : \A b \in Archives!Newest(k) : Archives!Whole(b)
  /\ \A t \in Archives!Tables : \A s \in mutations[t], k \in config.kinds : ReleasedUpTo(k, s)
  /\ \A k \in config.kinds : RunWhole(k, job[k])

ArchiveInv ==
  Archives!Validated =>
    /\ ArchiveTypeOK
    /\ \A k \in config.kinds : Answered(job[k])
    /\ ~config.zero => DeleteInv
    /\ config.continue => WholeInv

-----------------------------------------------------------------------------
(* Numbers, the chain and the configuration. *)

\* A set of numbers has a least element.
LEMMA LeastOf ==
  ASSUME NEW S, S \subseteq Nat, S # {}
  PROVE  Archives!Min(S) \in S /\ \A x \in S : Archives!Min(S) <= x
<1>1. PICK m \in S : \A t \in S : ~(<<t, m>> \in OpToRel(<, Nat))
  BY NatLessThanWellFounded, WFMin, Zenon
<1>2. ASSUME NEW t \in S PROVE m <= t
  <2>1. t \in Nat /\ m \in Nat
    OBVIOUS
  <2>2. ~(t < m)
    BY <1>1, <2>1, Zenon DEF OpToRel
  <2> QED BY <2>1, <2>2
<1> QED BY <1>2 DEF Archives!Min

\* A bounded set of numbers has a greatest element.
LEMMA GreatestIn ==
  ASSUME NEW n \in Nat, NEW S, S \subseteq 0 .. n, S # {}
  PROVE  \E m \in S : \A x \in S : x <= m
<1> DEFINE D == {n - x : x \in S}
<1>1. D \subseteq Nat /\ D # {}
  <2>1. \A x \in S : n - x \in Nat
    OBVIOUS
  <2> QED BY <2>1
<1>2. Archives!Min(D) \in D /\ \A d \in D : Archives!Min(D) <= d
  <2> HIDE DEF D
  <2> QED BY <1>1, LeastOf
<1>3. PICK m \in S : Archives!Min(D) = n - m
  BY <1>2
<1>4. ASSUME NEW x \in S PROVE x <= m
  <2>1. n - m <= n - x
    BY <1>2, <1>3
  <2>2. x \in Int /\ m \in Int
    OBVIOUS
  <2> QED BY <2>1, <2>2
<1> QED BY <1>4

\* The chain.
LEMMA ChainFacts ==
  ASSUME Archives!ArchiverAssumption
  PROVE  /\ ChainEnd \in Nat /\ ArchiveSlots \subseteq Nat /\ ArchiveProduced \subseteq ArchiveSlots
         /\ \A s \in ArchiveSlots : s \in 0 .. ChainEnd
<1>1. /\ ArchiveSlots \subseteq Nat /\ ArchiveProduced \subseteq ArchiveSlots
      /\ Archives!Max(ArchiveSlots) \in ArchiveSlots /\ \A s \in ArchiveSlots : s <= Archives!Max(ArchiveSlots)
  BY Zenon DEF Archives!ArchiverAssumption
<1>2. ChainEnd \in ArchiveSlots /\ \A s \in ArchiveSlots : s <= ChainEnd
  BY <1>1, Zenon DEF ChainEnd
<1>3. \A s \in ArchiveSlots : s \in Nat
  BY <1>1
<1>4. \A s \in ArchiveSlots : s \in 0 .. ChainEnd
  BY <1>2, <1>3
<1> QED BY <1>1, <1>2, <1>3, <1>4

\* The largest element of a set of slots.
LEMMA MaxOfChain ==
  ASSUME NEW S, Archives!ArchiverAssumption, S \subseteq ArchiveSlots, S # {}
  PROVE  Archives!Max(S) \in S /\ ChainEnd \in Nat /\ \A s \in ArchiveSlots : s \in 0 .. ChainEnd
<1>1. ChainEnd \in Nat /\ \A s \in ArchiveSlots : s \in 0 .. ChainEnd
  BY ChainFacts
<1>2. \E m \in S : \A x \in S : x <= m
  BY <1>1, GreatestIn
<1>3. \A x, y \in S : x <= y <=> y >= x
  BY DEF Archives!ArchiverAssumption
<1>4. \E m \in S : \A x \in S : m >= x
  BY <1>2, <1>3
<1> QED BY <1>1, <1>4 DEF Archives!Max

\* What the command line guarantees.
LEMMA ConfigFacts ==
  ASSUME Archives!ArchiverAssumption, ConfigOK
  PROVE  /\ config.kinds \subseteq DOMAIN config.span
         /\ \A k \in config.kinds : config.span[k] \in Nat /\ config.span[k] > 0
         /\ config.order \in Seq(config.kinds) /\ config.keep \in Nat
         /\ \A k \in config.kinds : \E i \in 1 .. Len(config.order) : config.order[i] = k
         /\ \A i \in 1 .. Len(config.order) : config.order[i] \in config.kinds
         /\ config.server => config.range = Archives!NoPlan
<1>1. config.span \in [DOMAIN config.span -> Nat] /\ config.order \in Seq(config.kinds) /\ config.keep \in Nat
  BY DEF Archives!ArchiverAssumption, ConfigOK
<1>2. /\ config.kinds \subseteq DOMAIN config.span /\ \A k \in config.kinds : config.span[k] > 0
      /\ Archives!Range(config.order) = config.kinds /\ (config.server => config.range = Archives!NoPlan)
  BY DEF ConfigOK, Archives!from_cli, Archives!parse_archive_kinds
<1>3. DOMAIN config.order = 1 .. Len(config.order)
  BY <1>1
<1>4. \A k \in config.kinds : \E i \in 1 .. Len(config.order) : config.order[i] = k
  BY <1>2, <1>3 DEF Archives!Range
<1>5. \A i \in 1 .. Len(config.order) : config.order[i] \in config.kinds
  BY <1>2, <1>3 DEF Archives!Range
<1>6. \A k \in config.kinds : config.span[k] \in Nat
  BY <1>1, <1>2
<1> QED BY <1>1, <1>2, <1>4, <1>5, <1>6

\* What is left of the tables.
LEMMA RemainingFacts ==
  /\ Archives!archive_tables \in Remaining /\ <<>> \in Remaining
  /\ Ahead(Archives!archive_tables) = Archives!Tables /\ Ahead(<<>>) = {}
  /\ \A left \in Remaining : left # <<>> =>
       /\ Head(left) \in Archives!Tables /\ Tail(left) \in Remaining
       /\ Ahead(Tail(left)) = Ahead(left) \ {Head(left)}
<1>1. <<>> # <<"blocks_metadata">> /\ <<>> # Archives!archive_tables /\ Archives!archive_tables # <<"blocks_metadata">>
  BY DEF Archives!archive_tables
<1>2. Tail(Archives!archive_tables) = <<"blocks_metadata">> /\ Head(Archives!archive_tables) = "transactions"
  BY DEF Archives!archive_tables
<1>3. Tail(<<"blocks_metadata">>) = <<>> /\ Head(<<"blocks_metadata">>) = "blocks_metadata"
  OBVIOUS
<1>4. Ahead(Archives!archive_tables) = Archives!Tables /\ Ahead(<<>>) = {} /\ Ahead(<<"blocks_metadata">>) = {"blocks_metadata"}
  BY <1>1 DEF Ahead
<1>5. Archives!Tables \ {"transactions"} = {"blocks_metadata"} /\ {"blocks_metadata"} \ {"blocks_metadata"} = {}
  BY DEF Archives!Tables
<1>6. "transactions" \in Archives!Tables /\ "blocks_metadata" \in Archives!Tables
  BY DEF Archives!Tables
<1> HIDE DEF Ahead
<1>7. ASSUME NEW left \in Remaining, left # <<>>
      PROVE  /\ Head(left) \in Archives!Tables /\ Tail(left) \in Remaining
             /\ Ahead(Tail(left)) = Ahead(left) \ {Head(left)}
  <2>1. CASE left = Archives!archive_tables
    BY <2>1, <1>2, <1>4, <1>5, <1>6 DEF Remaining
  <2>2. CASE left = <<"blocks_metadata">>
    BY <2>2, <1>3, <1>4, <1>5, <1>6 DEF Remaining
  <2> QED BY <1>7, <2>1, <2>2 DEF Remaining
<1> QED BY <1>4, <1>7 DEF Remaining

-----------------------------------------------------------------------------
(* Planning. *)

\* align_up does not go below its argument.
LEMMA AlignUp ==
  ASSUME NEW s \in Nat, NEW n \in Nat, n > 0
  PROVE  Archives!align_up(s, n) \in Nat /\ Archives!align_up(s, n) >= s
<1> DEFINE m == s + n - 1
           q == m \div n
<1>1. m \in Nat
  OBVIOUS
<1>2. q \in Nat /\ m < q * n + n
  <2> HIDE DEF m
  <2> QED BY <1>1, SMTT(30)
<1>3. Archives!align_up(s, n) = q * n
  BY DEF Archives!align_up
<1> HIDE DEF q
<1>4. q * n \in Nat
  BY <1>2
<1> QED BY <1>2, <1>3, <1>4

\* A plan lies on the chain and, where runs continue, behind the last bundle.
LEMMA PlanFacts ==
  ASSUME Archives!ArchiverAssumption, ConfigOK, NEW k \in config.kinds,
         NEW bounds \in [earliest : Nat, latest : -1 .. ChainEnd], NEW last \in PlanType,
         Archives!plan_next_archive(k, bounds, last) # Archives!NoPlan
  PROVE  LET p == Archives!plan_next_archive(k, bounds, last) IN
         /\ p \in PlanType /\ p.start <= p.end /\ p.end <= ChainEnd
         /\ config.continue /\ last # Archives!NoPlan => last.end < p.start
<1> DEFINE n == Archives!slot_count(k)
           first == Archives!first_start_slot(k, bounds.earliest)
           from == IF last # Archives!NoPlan /\ config.continue
                   THEN IF last.end < bounds.earliest THEN first ELSE last.end + 1
                   ELSE first
           start == IF k = "custom" /\ config.aligned THEN Archives!align_up(from, n) ELSE from
           end == start + n - 1
           p == [start |-> start, end |-> end]
<1>0. bounds.earliest \in Nat /\ bounds.latest \in Int /\ bounds.latest <= ChainEnd /\ last.end \in Int
      /\ ChainEnd \in Nat
  BY ChainFacts DEF PlanType
<1>1. n \in Nat /\ n > 0
  BY ConfigFacts DEF Archives!slot_count
<1>2. first \in Nat /\ first >= bounds.earliest
  <2> HIDE DEF n
  <2>1. first = IF k = "epoch" THEN Archives!align_up(bounds.earliest, n) ELSE bounds.earliest
    BY DEF Archives!first_start_slot, n
  <2> QED BY <1>0, <1>1, <2>1, AlignUp
<1>3. from \in Nat /\ (config.continue /\ last # Archives!NoPlan => last.end < from)
  <2> HIDE DEF first
  <2> QED BY <1>0, <1>2
<1>4. start \in Nat /\ start >= from
  <2> HIDE DEF n, from
  <2>1. Archives!align_up(from, n) \in Nat /\ Archives!align_up(from, n) >= from
    BY <1>1, <1>3, AlignUp
  <2> QED BY <1>3, <2>1
<1>5. Archives!plan_next_archive(k, bounds, last) = IF end > bounds.latest THEN Archives!NoPlan ELSE p
  BY DEF Archives!plan_next_archive
<1> HIDE DEF n, first, from, start
<1>6. end \in Nat /\ end >= start
  BY <1>1, <1>4
<1> HIDE DEF end
<1>7. ~(end > bounds.latest) /\ Archives!plan_next_archive(k, bounds, last) = p
  BY <1>5
<1>8. end <= ChainEnd
  BY <1>0, <1>6, <1>7
<1>9. p \in PlanType /\ p.start = start /\ p.end = end
  BY <1>4, <1>6 DEF PlanType
<1>10. config.continue /\ last # Archives!NoPlan => last.end < start
  BY <1>0, <1>3, <1>4
<1> QED BY <1>6, <1>7, <1>8, <1>9, <1>10

\* The bundle that latest_archive_name names is a newest one of those listed.
LEMMA LatestFacts ==
  ASSUME Archives!ArchiverAssumption, ArchiveTypeOK, NEW k
  PROVE  LET p == Archives!latest_archive_name(k) IN
         /\ p \in PlanType
         /\ p = Archives!NoPlan => Archives!list_archives(k) = {}
         /\ p # Archives!NoPlan => \E b \in Archives!Newest(k) : p.start = b.start /\ p.end = b.end /\ b.start <= b.end
<1> DEFINE listed == Archives!list_archives(k)
           p == Archives!latest_archive_name(k)
<1>1. listed \subseteq bundles
  BY DEF Archives!list_archives
<1>2. \A b \in listed : b.start \in Nat /\ b.end \in 0 .. ChainEnd /\ b.start <= b.end
  BY <1>1, ChainFacts DEF ArchiveTypeOK, BundleOK, Bundle
<1>3. CASE listed = {}
  <2>1. p = Archives!NoPlan
    BY <1>3 DEF Archives!latest_archive_name
  <2> QED BY <1>3, <2>1 DEF Archives!NoPlan, PlanType
<1>4. CASE listed # {}
  <2> DEFINE E == {b.end : b \in listed}
  <2>1. E \subseteq 0 .. ChainEnd /\ E # {}
    BY <1>2, <1>4
  <2>2. \E m \in E : \A x \in E : x <= m
    <3> HIDE DEF E
    <3> QED BY <2>1, GreatestIn, ChainFacts
  <2>3. \E b \in listed : \A c \in listed : c.end <= b.end
    BY <2>2
  <2> DEFINE b == CHOOSE b \in listed : \A c \in listed : c.end <= b.end
  <2>4. b \in listed /\ \A c \in listed : c.end <= b.end
    BY <2>3
  <2>5. p = [start |-> b.start, end |-> b.end]
    BY <1>4 DEF Archives!latest_archive_name
  <2>6. b \in Archives!Newest(k)
    BY <2>4 DEF Archives!Newest
  <2> HIDE DEF b
  <2>7. p \in PlanType /\ p.start = b.start /\ p.end = b.end /\ b.start <= b.end
    BY <1>2, <2>4, <2>5 DEF PlanType
  <2>8. p # Archives!NoPlan
    <3>1. b.end \in Nat
      BY <1>2, <2>4, ChainFacts
    <3> QED BY <3>1, <2>7 DEF Archives!NoPlan
  <2> QED BY <2>6, <2>7, <2>8
<1> QED BY <1>3, <1>4

\* What safe_delete_archived_data_range releases lies at or below the end of every
\* kind's last bundle and, unless it starts at zero, inside one of them or the plan.
LEMMA ReleaseFacts ==
  ASSUME NEW e \in Nat, NEW names \in [config.kinds -> PlanType], config.kinds # {},
         \A k \in config.kinds : names[k] = Archives!NoPlan \/ names[k].start <= names[k].end,
         Archives!safe_delete_archived_data_range(e, names) # Archives!NoPlan
  PROVE  LET r == Archives!safe_delete_archived_data_range(e, names) IN
         /\ r \in PlanType
         /\ \A k \in config.kinds : names[k] # Archives!NoPlan /\ r.end <= names[k].end
         /\ ~config.zero => \A s \in Nat : r.start <= s /\ s <= r.end =>
              s = e \/ \E k \in config.kinds : names[k].start <= s /\ s <= names[k].end
<1> DEFINE ends == {names[k].end : k \in config.kinds}
           E == {e} \cup ends
           F == {names[k].start : k \in config.kinds}
           safe == Archives!Min(E)
           floor == Archives!Min(F)
           low == Archives!Min({floor, safe})
           r == [start |-> IF config.zero THEN 0 ELSE low, end |-> safe]
<1>1. config.delete /\ \A k \in config.kinds : names[k] # Archives!NoPlan
  BY DEF Archives!safe_delete_archived_data_range
<1>2. Archives!safe_delete_archived_data_range(e, names) = r
  BY <1>1 DEF Archives!safe_delete_archived_data_range
<1>3. \A k \in config.kinds : names[k].start \in Nat /\ names[k].end \in Nat /\ names[k].start <= names[k].end
  BY <1>1 DEF PlanType
<1>4. safe \in E /\ \A x \in E : safe <= x
  <2>1. E \subseteq Nat /\ E # {}
    BY <1>3
  <2> HIDE DEF E
  <2> QED BY <2>1, LeastOf
<1>5. floor \in F /\ F \subseteq Nat
  <2>1. F \subseteq Nat /\ F # {}
    BY <1>3
  <2> HIDE DEF F
  <2> QED BY <2>1, LeastOf
<1>6. safe \in Nat /\ floor \in Nat
  <2>1. E \subseteq Nat
    BY <1>3
  <2> HIDE DEF E, F, safe, floor
  <2> QED BY <1>4, <1>5, <2>1
<1>7. low \in {floor, safe}
  <2> HIDE DEF floor, safe
  <2>1. {floor, safe} \subseteq Nat /\ {floor, safe} # {}
    BY <1>6
  <2> QED BY <2>1, LeastOf
<1>8. \A k \in config.kinds : safe <= names[k].end
  BY <1>4
<1>9. PICK kf \in config.kinds : floor = names[kf].start
  BY <1>5
<1>10. safe = e \/ \E k \in config.kinds : safe = names[k].end
  BY <1>4
<1> HIDE DEF safe, floor, low
<1>11. r \in PlanType /\ r.end = safe /\ (~config.zero => r.start = low)
  BY <1>6, <1>7 DEF PlanType
<1>12. ASSUME NEW s \in Nat, low <= s, s <= safe
       PROVE  s = e \/ \E k \in config.kinds : names[k].start <= s /\ s <= names[k].end
  <2>1. CASE low = floor
    BY <1>3, <1>6, <1>8, <1>9, <1>12, <2>1
  <2>2. CASE low = safe
    <3>1. s = safe
      BY <1>6, <1>12, <2>2
    <3> QED BY <1>3, <1>10, <3>1
  <2> QED BY <1>7, <2>1, <2>2
<1> HIDE DEF r
<1> QED BY <1>1, <1>2, <1>8, <1>11, <1>12

\* An idle run claims nothing.
LEMMA IdleFacts ==
  ASSUME Archives!ArchiverAssumption
  PROVE  Archives!Idle \in JobType /\ Archives!Idle.stage = "idle" /\ Archives!Idle.names = <<>> /\ Archives!Idle.report = Archives!NoReport
         /\ Archives!NoReport \in Report /\ Archives!NoPlan \in PlanType
<1>1. Archives!NoReport \in Report
  BY DEF Archives!NoReport, Report
<1>2. Archives!NoPlan \in PlanType
  BY DEF Archives!NoPlan, PlanType
<1>3. [t \in Archives!Tables |-> {}] \in [Archives!Tables -> SUBSET ArchiveSlots]
  OBVIOUS
<1>4. <<>> \in Remaining /\ <<>> \in Seq(PlanType)
  BY RemainingFacts
<1>5. [earliest |-> 0, latest |-> -1] \in [earliest : Nat, latest : -1 .. ChainEnd]
  <2>1. ChainEnd \in Nat
    BY ChainFacts
  <2> QED BY <2>1
<1> HIDE DEF Archives!NoReport, Archives!NoPlan, PlanType, Report
<1> QED BY <1>1, <1>2, <1>3, <1>4, <1>5 DEF Archives!Idle, JobType

-----------------------------------------------------------------------------
(* Types. *)

\* What the run of kind k is made of.
LEMMA JobFacts ==
  ASSUME ArchiveTypeOK, NEW k \in config.kinds
  PROVE  /\ job[k] \in JobType /\ JobOK(job[k]) /\ DOMAIN job = config.kinds
         /\ job[k].plan \in PlanType /\ job[k].report \in Report /\ job[k].left \in Remaining
         /\ job[k].names \in Seq(PlanType) /\ job[k].range \in PlanType
         /\ job[k].files \in [Archives!Tables -> SUBSET ArchiveSlots]
         /\ job[k].bounds \in [earliest : Nat, latest : -1 .. ChainEnd]
BY DEF ArchiveTypeOK, JobType

\* A record that keeps the listing of kinds empty and has a plan is a sound one.
LEMMA SoundJob ==
  ASSUME NEW r \in JobType, r.names = <<>>, ConfigOK, Archives!ArchiverAssumption, NEW k \in config.kinds,
         r.stage \in Planned => r.plan.start <= r.plan.end /\ r.plan.end <= ChainEnd
  PROVE  JobOK(r)
<1>1. Len(config.order) \in Nat /\ Len(config.order) > 0
  <2>1. config.order \in Seq(config.kinds) /\ \E i \in 1 .. Len(config.order) : config.order[i] = k
    BY ConfigFacts
  <2>2. Len(config.order) \in Nat
    BY <2>1
  <2> QED BY <2>1, <2>2
<1>2. Len(r.names) = 0
  OBVIOUS
<1> QED BY <1>1, <1>2 DEF JobOK

\* A run that moves on without touching its list of names.
LEMMA MovedJob ==
  ASSUME NEW j, JobOK(j), NEW r \in JobType, r.names = j.names, r.plan = j.plan,
         j.stage \in Planned, r.stage \in Planned,
         r.stage = "names" => j.stage = "names" \/ FALSE,
         r.stage \in {"names", "delete", "cleanup"} \/ j.stage \in Planned \ {"names", "delete", "cleanup"}
  PROVE  JobOK(r)
BY DEF JobOK

\* The names by kind, once every kind was listed.
NamesByKind(N) == [q \in config.kinds |-> N[CHOOSE i \in DOMAIN config.order : config.order[i] = q]]

\* Every kind has a place in the order, and so a name.
LEMMA ListedNames ==
  ASSUME Archives!ArchiverAssumption, ConfigOK, NEW N \in Seq(PlanType), ~(Len(N) < Len(config.order))
  PROVE  /\ NamesByKind(N) \in [config.kinds -> PlanType]
         /\ \A q \in config.kinds : \E i \in 1 .. Len(config.order) :
              i \in 1 .. Len(N) /\ config.order[i] = q /\ NamesByKind(N)[q] = N[i]
<1>1. config.order \in Seq(config.kinds) /\ \A q \in config.kinds : \E i \in 1 .. Len(config.order) : config.order[i] = q
  BY ConfigFacts
<1>2. DOMAIN config.order = 1 .. Len(config.order) /\ Len(config.order) \in Nat /\ Len(N) \in Nat
  BY <1>1
<1>3. 1 .. Len(config.order) \subseteq 1 .. Len(N)
  BY <1>2
<1>4. ASSUME NEW q \in config.kinds
      PROVE  \E i \in 1 .. Len(config.order) :
               i \in 1 .. Len(N) /\ config.order[i] = q /\ NamesByKind(N)[q] = N[i]
  <2> DEFINE i == CHOOSE i \in DOMAIN config.order : config.order[i] = q
  <2>1. i \in 1 .. Len(config.order) /\ config.order[i] = q
    BY <1>1, <1>2
  <2>2. NamesByKind(N)[q] = N[i]
    BY DEF NamesByKind
  <2> HIDE DEF i
  <2> QED BY <1>3, <2>1, <2>2
<1>5. \A q \in config.kinds : NamesByKind(N)[q] \in PlanType
  BY <1>4
<1>6. NamesByKind(N) = [q \in config.kinds |-> NamesByKind(N)[q]]
  BY DEF NamesByKind
<1> HIDE DEF NamesByKind
<1> QED BY <1>4, <1>5, <1>6

\* The step of a run leaves a sound record, changes no other run, and the answer of
\* getBlocks is that of its plan.
LEMMA RunJob ==
  ASSUME Archives!ArchiverAssumption, ArchiveTypeOK, Archives!Validated, NEW k \in config.kinds, Archives!Run(k)
  PROVE  /\ config' = config
         /\ job' = [job EXCEPT ![k] = job'[k]]
         /\ JobOK(job[k])'
         /\ (Answered(job[k]) => Answered(job[k])')
<1> DEFINE j == job[k]
<1>0. /\ j \in JobType /\ JobOK(j) /\ DOMAIN job = config.kinds /\ j.plan \in PlanType /\ j.report \in Report
      /\ j.left \in Remaining /\ j.names \in Seq(PlanType) /\ j.range \in PlanType
      /\ j.files \in [Archives!Tables -> SUBSET ArchiveSlots] /\ j.bounds \in [earliest : Nat, latest : -1 .. ChainEnd]
      /\ ConfigOK /\ job \in [config.kinds -> JobType]
  BY JobFacts DEF ArchiveTypeOK
<1>1. config' = config
  BY DEF Archives!Run, Archives!StartRun, Archives!PlanRun, Archives!ReadBlockSlots,
     Archives!FetchProducedSlots, Archives!ReadMismatches, Archives!RepairOvercounts,
     Archives!Backfill, Archives!PassGate, Archives!StopAtGate, Archives!RemoveBundle,
     Archives!ExportTable, Archives!PublishBundle, Archives!WriteDoneMarker, Archives!ListNames,
     Archives!DeleteTable, Archives!CleanupArchives, Archives!FailRun, Archives!ctl
<1> SUFFICES /\ job' = [job EXCEPT ![k] = job'[k]]
             /\ JobOK(job[k])' /\ (Answered(job[k]) => Answered(job[k])')
  BY <1>1
<1>2. ASSUME NEW r \in JobType, JobOK(r), Answered(j) => Answered(r), job' = [job EXCEPT ![k] = r]
      PROVE  /\ job' = [job EXCEPT ![k] = job'[k]]
             /\ JobOK(job[k])' /\ (Answered(job[k]) => Answered(job[k])')
  <2>1. job'[k] = r
    BY <1>0, <1>2
  <2>2. JobOK(job[k])'
    BY <1>1, <1>2, <2>1 DEF JobOK
  <2>3. Answered(j) => Answered(job[k])'
    BY <1>2, <2>1 DEF Answered, PlanRows
  <2> QED BY <1>2, <2>1, <2>2, <2>3
<1>3. ASSUME Archives!Finish(k)
      PROVE  /\ job' = [job EXCEPT ![k] = job'[k]]
             /\ JobOK(job[k])' /\ (Answered(job[k]) => Answered(job[k])')
  <2>1. Archives!Idle \in JobType /\ Archives!Idle.stage = "idle" /\ Archives!Idle.names = <<>> /\ Archives!Idle.stage \notin Planned
    BY IdleFacts DEF Planned, Validating, Exporting, Finishing
  <2>2. JobOK(Archives!Idle)
    BY <1>0, <2>1, SoundJob
  <2>3. Answered(Archives!Idle)
    BY <2>1 DEF Answered
  <2> QED BY <1>2, <1>3, <2>1, <2>2, <2>3 DEF Archives!Finish, Archives!Go
<1> HIDE DEF j
<1>4. CASE Archives!StartRun(k)
  <2> DEFINE rows == db["transactions"]
             r == [Archives!Idle EXCEPT !.stage = "bounds", !.bounds = [earliest |-> Archives!Min(rows), latest |-> Archives!Max(rows)]]
  <2>1. CASE rows = {}
    <3>1. job' = job
      BY <1>4, <2>1 DEF Archives!StartRun
    <3>2. job' = [job EXCEPT ![k] = j]
      BY <1>0, <3>1 DEF j
    <3> QED BY <1>0, <1>2, <3>2
  <2>2. CASE rows # {}
    <3>1. job' = [job EXCEPT ![k] = r]
      BY <1>4, <2>2 DEF Archives!StartRun, Archives!Go
    <3>2. rows \subseteq ArchiveSlots
      BY ChainFacts DEF ArchiveTypeOK, Archives!Tables
    <3>3. Archives!Max(rows) \in rows /\ Archives!Min(rows) \in rows
      <4> HIDE DEF rows
      <4>1. rows \subseteq Nat
        BY <3>2, ChainFacts
      <4> QED BY <2>2, <3>2, <4>1, MaxOfChain, LeastOf
    <3>4. Archives!Max(rows) \in -1 .. ChainEnd /\ Archives!Min(rows) \in Nat
      <4> HIDE DEF rows
      <4>1. Archives!Max(rows) \in 0 .. ChainEnd /\ ChainEnd \in Nat /\ Archives!Min(rows) \in Nat
        BY <3>2, <3>3, ChainFacts
      <4> QED BY <4>1
    <3> HIDE DEF rows
    <3>5. r \in JobType /\ r.stage = "bounds" /\ r.names = <<>>
      BY <3>4, IdleFacts DEF JobType
    <3> HIDE DEF r
    <3>6. JobOK(r)
      BY <1>0, <3>5, SoundJob DEF Planned, Validating, Exporting, Finishing
    <3>7. Answered(r)
      BY <3>5 DEF Answered
    <3> QED BY <1>2, <3>1, <3>5, <3>6, <3>7
  <2> QED BY <2>1, <2>2
<1>5. CASE Archives!PlanRun(k)
  <2> DEFINE p == Archives!plan_next_archive(k, j.bounds, Archives!latest_archive_name(k))
             done == Archives!archive_has_done_marker(k, p)
             r1 == [j EXCEPT !.stage = "names", !.plan = p]
             r2 == [j EXCEPT !.stage = "blocks", !.plan = p]
  <2>1. config.range = Archives!NoPlan /\ j.stage = "bounds"
    BY <1>0, <1>5, ConfigFacts DEF Archives!Validated, Archives!PlanRun, j
  <2>2. Archives!Finish(k) \/ (p # Archives!NoPlan /\ job' = [job EXCEPT ![k] = r1]) \/ (p # Archives!NoPlan /\ job' = [job EXCEPT ![k] = r2])
    <3>1. CASE p = Archives!NoPlan
      BY <1>5, <2>1, <3>1 DEF Archives!PlanRun, j, Archives!Go
    <3>2. CASE p # Archives!NoPlan /\ done /\ config.dry
      BY <1>5, <2>1, <3>2 DEF Archives!PlanRun, j, Archives!Go
    <3>3. CASE p # Archives!NoPlan /\ done /\ ~config.dry
      BY <1>5, <2>1, <3>3 DEF Archives!PlanRun, j, Archives!Go
    <3>4. CASE p # Archives!NoPlan /\ ~done
      BY <1>5, <2>1, <3>4 DEF Archives!PlanRun, j, Archives!Go
    <3> QED BY <3>1, <3>2, <3>3, <3>4
  <2>3. ASSUME p # Archives!NoPlan PROVE p \in PlanType /\ p.start <= p.end /\ p.end <= ChainEnd
    BY <1>0, <2>3, PlanFacts, LatestFacts
  <2> HIDE DEF p
  <2>4. j.names = <<>>
    BY <1>0, <2>1 DEF JobOK
  <2>5. ASSUME p # Archives!NoPlan, NEW r \in {r1, r2} PROVE r \in JobType /\ JobOK(r) /\ Answered(r)
    <3>1. /\ r \in JobType /\ r.names = <<>> /\ r.plan = p /\ r.stage \in {"names", "blocks"}
      BY <1>0, <2>3, <2>4, <2>5 DEF JobType, Planned, Validating, Finishing
    <3> HIDE DEF r1, r2
    <3> QED BY <1>0, <2>3, <2>5, <3>1, SoundJob DEF Answered
  <2> HIDE DEF r1, r2
  <2> QED BY <1>2, <1>3, <2>2, <2>5
<1>6. ASSUME NEW r \in JobType, r.names = j.names, r.plan = j.plan, j.stage \in Planned, r.stage \in Planned,
             r.stage # "names", r.stage # "counts",
             r.stage \in {"delete", "cleanup"} \/ j.stage \in Validating \cup Exporting,
             job' = [job EXCEPT ![k] = r]
      PROVE  /\ job' = [job EXCEPT ![k] = job'[k]]
             /\ JobOK(job[k])' /\ (Answered(job[k]) => Answered(job[k])')
  <2>1. JobOK(r)
    BY <1>0, <1>6, MovedJob DEF Validating, Exporting, Planned
  <2>2. Answered(r)
    BY <1>6 DEF Answered
  <2> QED BY <1>2, <1>6, <2>1, <2>2
<1>7. CASE Archives!ReadBlockSlots(k)
  <2> DEFINE rep == [Archives!NoReport EXCEPT !.blocks = Archives!PlanSlots(k) \cap db["blocks_metadata"]]
             r == [j EXCEPT !.stage = "rpc", !.report = rep]
  <2>1. j.stage = "blocks" /\ job' = [job EXCEPT ![k] = r]
    BY <1>7 DEF Archives!ReadBlockSlots, Archives!Go, j
  <2>2. rep \in Report
    <3>1. Archives!PlanSlots(k) \cap db["blocks_metadata"] \subseteq ArchiveProduced
      BY DEF ArchiveTypeOK, Archives!Tables
    <3> QED BY <3>1, IdleFacts DEF Report
  <2> HIDE DEF rep
  <2>3. r \in JobType /\ r.names = j.names /\ r.plan = j.plan /\ r.stage = "rpc"
    BY <1>0, <2>2 DEF JobType, Planned, Validating
  <2> HIDE DEF r
  <2> QED BY <1>6, <2>1, <2>3 DEF Planned, Validating
<1>8. CASE Archives!FetchProducedSlots(k)
  <2>1. j.stage = "rpc"
    BY <1>8 DEF Archives!FetchProducedSlots, j
  <2>2. PICK fails \in BOOLEAN :
          job' = [job EXCEPT ![k] = [j EXCEPT !.stage = "counts", !.report.error = fails,
                    !.report.produced = IF fails THEN {} ELSE Archives!PlanSlots(k) \cap ArchiveProduced]]
    BY <1>8 DEF Archives!FetchProducedSlots, Archives!Go, j
  <2> DEFINE P == IF fails THEN {} ELSE Archives!PlanSlots(k) \cap ArchiveProduced
             r == [j EXCEPT !.stage = "counts", !.report.error = fails, !.report.produced = P]
  <2>3. P \subseteq ArchiveProduced
    OBVIOUS
  <2>4. ~fails => P = PlanRows(j)
    BY DEF PlanRows, Archives!PlanSlots, j
  <2> HIDE DEF P
  <2>5. /\ r \in JobType /\ r.names = j.names /\ r.plan = j.plan /\ r.stage = "counts"
        /\ r.report.produced = P /\ r.report.error = fails
    BY <1>0, <2>3 DEF JobType, Planned, Validating, Report
  <2>6. job' = [job EXCEPT ![k] = r]
    BY <2>2 DEF P
  <2> HIDE DEF r
  <2>7. JobOK(r)
    BY <1>0, <2>1, <2>5, MovedJob DEF Validating, Planned
  <2>8. Answered(r)
    BY <2>4, <2>5 DEF Answered, PlanRows
  <2> QED BY <1>2, <2>5, <2>6, <2>7, <2>8
<1>9. CASE Archives!ReadMismatches(k)
  <2> DEFINE rep == [j.report EXCEPT !.under = Archives!transaction_undercounts(Archives!PlanSlots(k)),
                                     !.over = Archives!transaction_overcounts(Archives!PlanSlots(k))]
             st == Archives!NextStage(j.round, rep)
             r == [j EXCEPT !.report = rep, !.stage = st]
  <2>1. j.stage = "counts" /\ job' = [job EXCEPT ![k] = r]
    BY <1>9 DEF Archives!ReadMismatches, Archives!Go, j
  <2>2. rep \in Report
    <3>1. db["blocks_metadata"] \subseteq ArchiveProduced
      BY DEF ArchiveTypeOK, Archives!Tables
    <3>2. /\ Archives!transaction_undercounts(Archives!PlanSlots(k)) \subseteq ArchiveProduced
          /\ Archives!transaction_overcounts(Archives!PlanSlots(k)) \subseteq ArchiveProduced
      BY <3>1 DEF Archives!transaction_undercounts, Archives!transaction_overcounts
    <3> QED BY <1>0, <3>2 DEF Report
  <2>3. st \in {"repair", "backfill", "gate"}
    BY DEF Archives!NextStage
  <2> HIDE DEF rep, st
  <2>4. r \in JobType /\ r.names = j.names /\ r.plan = j.plan /\ r.stage = st
    BY <1>0, <2>2, <2>3 DEF JobType, Planned, Validating
  <2> HIDE DEF r
  <2> QED BY <1>6, <2>1, <2>3, <2>4 DEF Planned, Validating
<1>10. CASE Archives!RepairOvercounts(k) \/ Archives!Backfill(k)
  <2>1. PICK w \in {"repaired", "backfilled"} :
          job' = [job EXCEPT ![k] = [j EXCEPT !.stage = "blocks", !.round = w]]
    BY <1>10 DEF Archives!RepairOvercounts, Archives!Backfill, Archives!Go, j
  <2> DEFINE r == [j EXCEPT !.stage = "blocks", !.round = w]
  <2>2. j.stage \in {"repair", "backfill"}
    BY <1>10 DEF Archives!RepairOvercounts, Archives!Backfill, j
  <2>3. r \in JobType /\ r.names = j.names /\ r.plan = j.plan /\ r.stage = "blocks"
    BY <1>0 DEF JobType, Planned, Validating
  <2> QED BY <1>6, <2>1, <2>2, <2>3 DEF Planned, Validating
<1>11. CASE Archives!PassGate(k)
  <2> DEFINE r == [j EXCEPT !.stage = "remove"]
  <2>1. j.stage = "gate" /\ job' = [job EXCEPT ![k] = r]
    BY <1>11 DEF Archives!PassGate, Archives!Go, j
  <2>2. r \in JobType /\ r.names = j.names /\ r.plan = j.plan /\ r.stage = "remove"
    BY <1>0 DEF JobType, Planned, Exporting
  <2> QED BY <1>6, <2>1, <2>2 DEF Planned, Validating, Exporting
<1>12. CASE Archives!StopAtGate(k) \/ Archives!CleanupArchives(k) \/ Archives!FailRun(k)
  <2>1. Archives!Finish(k)
    BY <1>12 DEF Archives!StopAtGate, Archives!CleanupArchives, Archives!FailRun
  <2> QED BY <1>3, <2>1
<1>13. CASE Archives!RemoveBundle(k)
  <2> DEFINE r == [j EXCEPT !.stage = "export", !.left = Archives!archive_tables]
  <2>1. j.stage = "remove" /\ job' = [job EXCEPT ![k] = r]
    BY <1>13 DEF Archives!RemoveBundle, Archives!Go, j
  <2>2. r \in JobType /\ r.names = j.names /\ r.plan = j.plan /\ r.stage = "export"
    BY <1>0, RemainingFacts DEF JobType, Planned, Exporting
  <2> QED BY <1>6, <2>1, <2>2 DEF Planned, Exporting
<1>14. CASE Archives!ExportTable(k)
  <2> DEFINE t == Head(j.left)
             F == [j.files EXCEPT ![t] = Archives!PlanSlots(k) \cap db[t]]
             l == Tail(j.left)
             r == [j EXCEPT !.left = l, !.files = F]
  <2>1. j.stage = "export" /\ j.left # <<>> /\ job' = [job EXCEPT ![k] = r]
    BY <1>14 DEF Archives!ExportTable, Archives!Go, j
  <2>2. l \in Remaining
    BY <1>0, <2>1, RemainingFacts
  <2>3. F \in [Archives!Tables -> SUBSET ArchiveSlots]
    <3>1. Archives!PlanSlots(k) \subseteq ArchiveSlots
      BY DEF Archives!PlanSlots, Archives!Between
    <3> QED BY <1>0, <3>1
  <2> HIDE DEF F, l
  <2>4. r \in JobType /\ r.names = j.names /\ r.plan = j.plan /\ r.stage = "export"
    BY <1>0, <2>1, <2>2, <2>3 DEF JobType
  <2> HIDE DEF r
  <2> QED BY <1>6, <2>1, <2>4 DEF Planned, Exporting
<1>15. CASE Archives!PublishBundle(k)
  <2> DEFINE r == [j EXCEPT !.stage = "mark"]
  <2>1. j.stage = "export" /\ job' = [job EXCEPT ![k] = r]
    BY <1>15 DEF Archives!PublishBundle, Archives!Go, j
  <2>2. r \in JobType /\ r.names = j.names /\ r.plan = j.plan /\ r.stage = "mark"
    BY <1>0 DEF JobType, Planned, Finishing
  <2> QED BY <1>6, <2>1, <2>2 DEF Planned, Exporting, Finishing
<1>16. CASE Archives!WriteDoneMarker(k)
  <2> DEFINE r == [j EXCEPT !.stage = "names"]
  <2>1. j.stage = "mark" /\ job' = [job EXCEPT ![k] = r]
    BY <1>16 DEF Archives!WriteDoneMarker, Archives!Go, j
  <2>2. r \in JobType /\ r.names = j.names /\ r.plan = j.plan /\ r.stage = "names"
    BY <1>0 DEF JobType, Planned, Finishing
  <2>3. j.names = <<>> /\ j.plan.start <= j.plan.end /\ j.plan.end <= ChainEnd
    BY <1>0, <2>1 DEF JobOK, Planned, Finishing
  <2> HIDE DEF r
  <2>4. JobOK(r)
    BY <1>0, <2>2, <2>3, SoundJob
  <2>5. Answered(r)
    BY <2>2 DEF Answered
  <2> QED BY <1>2, <2>1, <2>2, <2>4, <2>5
<1>17. CASE Archives!ListNames(k)
  <2>1. j.stage = "names" /\ Len(j.names) < Len(config.order)
    BY <1>0, <1>17 DEF Archives!ListNames, JobOK, j
  <2> DEFINE kind == config.order[Len(j.names) + 1]
             n == Archives!latest_archive_name(kind)
             N == Append(j.names, n)
             range == Archives!safe_delete_archived_data_range(j.plan.end, NamesByKind(N))
             r1 == [j EXCEPT !.stage = "cleanup"]
             r2 == [j EXCEPT !.names = N]
             r3 == [j EXCEPT !.stage = "delete", !.range = range, !.left = Archives!archive_tables]
  <2>2. \/ job' = [job EXCEPT ![k] = r1]
        \/ Len(N) < Len(config.order) /\ job' = [job EXCEPT ![k] = r2]
        \/ ~(Len(N) < Len(config.order)) /\ range # Archives!NoPlan /\ job' = [job EXCEPT ![k] = r3]
    BY <1>17 DEF Archives!ListNames, Archives!Go, j, NamesByKind
  <2>3. CASE job' = [job EXCEPT ![k] = r1]
    <3>1. r1 \in JobType /\ r1.names = j.names /\ r1.plan = j.plan /\ r1.stage = "cleanup"
      BY <1>0 DEF JobType, Planned, Finishing
    <3> QED BY <1>6, <2>1, <2>3, <3>1 DEF Planned, Finishing
  <2>4. n \in PlanType /\ (n = Archives!NoPlan \/ n.start <= n.end)
    <3> HIDE DEF kind
    <3>1. CASE n = Archives!NoPlan
      BY <3>1, LatestFacts
    <3>2. CASE n # Archives!NoPlan
      <4>1. PICK b \in Archives!Newest(kind) : n.start = b.start /\ n.end = b.end /\ b.start <= b.end
        BY <3>2, LatestFacts
      <4> QED BY <4>1, LatestFacts
    <3> QED BY <3>1, <3>2
  <2> HIDE DEF n
  <2>5. /\ N \in Seq(PlanType) /\ Len(N) = Len(j.names) + 1
        /\ \A i \in 1 .. Len(N) : N[i] = IF i = Len(N) THEN n ELSE j.names[i]
    BY <1>0, <2>4
  <2> HIDE DEF N
  <2>6. CASE Len(N) < Len(config.order) /\ job' = [job EXCEPT ![k] = r2]
    <3>1. r2 \in JobType /\ r2.names = N /\ r2.plan = j.plan /\ r2.stage = "names"
      BY <1>0, <2>1, <2>5 DEF JobType
    <3>2. \A i \in 1 .. Len(N) : N[i] = Archives!NoPlan \/ N[i].start <= N[i].end
      <4>1. \A i \in 1 .. Len(j.names) : j.names[i] = Archives!NoPlan \/ j.names[i].start <= j.names[i].end
        BY <1>0 DEF JobOK
      <4>2. Len(j.names) \in Nat
        BY <1>0
      <4> QED BY <2>4, <2>5, <4>1, <4>2
    <3>3. Len(N) <= Len(config.order)
      <4>1. Len(N) \in Nat /\ Len(config.order) \in Nat
        <5>1. config.order \in Seq(config.kinds)
          BY <1>0, ConfigFacts
        <5> QED BY <2>5, <5>1
      <4> QED BY <2>6, <4>1
    <3> HIDE DEF r2
    <3>4. JobOK(r2)
      BY <1>0, <2>1, <2>6, <3>1, <3>2, <3>3 DEF JobOK, Planned
    <3>5. Answered(r2)
      BY <3>1 DEF Answered
    <3> QED BY <1>2, <2>6, <3>1, <3>4, <3>5
  <2>7. CASE ~(Len(N) < Len(config.order)) /\ range # Archives!NoPlan /\ job' = [job EXCEPT ![k] = r3]
    <3>1. range \in PlanType
      <4>1. \A i \in 1 .. Len(N) : N[i] = Archives!NoPlan \/ N[i].start <= N[i].end
        <5>1. \A i \in 1 .. Len(j.names) : j.names[i] = Archives!NoPlan \/ j.names[i].start <= j.names[i].end
          BY <1>0 DEF JobOK
        <5>2. Len(j.names) \in Nat
          BY <1>0
        <5> QED BY <2>4, <2>5, <5>1, <5>2
      <4>2. NamesByKind(N) \in [config.kinds -> PlanType]
        BY <1>0, <2>5, <2>7, ListedNames
      <4>3. \A q \in config.kinds : NamesByKind(N)[q] = Archives!NoPlan \/ NamesByKind(N)[q].start <= NamesByKind(N)[q].end
        <5> SUFFICES ASSUME NEW q \in config.kinds
                     PROVE  NamesByKind(N)[q] = Archives!NoPlan \/ NamesByKind(N)[q].start <= NamesByKind(N)[q].end
          OBVIOUS
        <5>1. PICK i \in 1 .. Len(config.order) : i \in 1 .. Len(N) /\ NamesByKind(N)[q] = N[i]
          BY <1>0, <2>5, <2>7, ListedNames
        <5> QED BY <4>1, <5>1
      <4>4. j.plan.end \in Nat
        <5>1. j.plan.start \in Nat /\ j.plan.end \in Int /\ j.plan.start <= j.plan.end
          BY <1>0, <2>1 DEF JobOK, Planned, Finishing, PlanType
        <5> QED BY <5>1
      <4> QED BY <2>7, <4>2, <4>3, <4>4, ReleaseFacts
    <3> HIDE DEF range
    <3>2. r3 \in JobType /\ r3.names = j.names /\ r3.plan = j.plan /\ r3.stage = "delete"
      BY <1>0, <3>1, RemainingFacts DEF JobType, Planned, Finishing
    <3> HIDE DEF r3
    <3> QED BY <1>6, <2>1, <2>7, <3>2 DEF Planned, Finishing
  <2> QED BY <2>2, <2>3, <2>6, <2>7
<1>18. CASE Archives!DeleteTable(k)
  <2> DEFINE r1 == [j EXCEPT !.stage = "cleanup"]
             l == Tail(j.left)
             r2 == [j EXCEPT !.left = l]
  <2>1. j.stage = "delete"
    BY <1>18 DEF Archives!DeleteTable, j
  <2>2. job' = [job EXCEPT ![k] = r1] \/ (j.left # <<>> /\ job' = [job EXCEPT ![k] = r2])
    BY <1>18 DEF Archives!DeleteTable, Archives!Go, j
  <2>3. CASE job' = [job EXCEPT ![k] = r1]
    <3>1. r1 \in JobType /\ r1.names = j.names /\ r1.plan = j.plan /\ r1.stage = "cleanup"
      BY <1>0 DEF JobType, Planned, Finishing
    <3> QED BY <1>6, <2>1, <2>3, <3>1 DEF Planned, Finishing
  <2>4. CASE j.left # <<>> /\ job' = [job EXCEPT ![k] = r2]
    <3>1. l \in Remaining
      BY <1>0, <2>4, RemainingFacts
    <3> HIDE DEF l
    <3>2. r2 \in JobType /\ r2.names = j.names /\ r2.plan = j.plan /\ r2.stage = "delete"
      BY <1>0, <2>1, <3>1 DEF JobType
    <3> QED BY <1>6, <2>1, <2>4, <3>2 DEF Planned, Finishing
  <2> QED BY <2>2, <2>3, <2>4
<1>19. \/ Archives!StartRun(k) \/ Archives!PlanRun(k) \/ Archives!ReadBlockSlots(k) \/ Archives!FetchProducedSlots(k) \/ Archives!ReadMismatches(k)
       \/ Archives!RepairOvercounts(k) \/ Archives!Backfill(k) \/ Archives!PassGate(k) \/ Archives!StopAtGate(k) \/ Archives!RemoveBundle(k)
       \/ Archives!ExportTable(k) \/ Archives!PublishBundle(k) \/ Archives!WriteDoneMarker(k) \/ Archives!ListNames(k) \/ Archives!DeleteTable(k)
       \/ Archives!CleanupArchives(k) \/ Archives!FailRun(k)
  BY Zenon DEF Archives!Run
<1> QED BY <1>4, <1>5, <1>7, <1>8, <1>9, <1>10, <1>11, <1>12, <1>13, <1>14, <1>15, <1>16, <1>17,
   <1>18, <1>19, Zenon

\* Only a backfill, a deletion and the gate to the store reach beyond the run's record.
LEMMA RunReach ==
  ASSUME NEW k, Archives!Run(k)
  PROVE  /\ UNCHANGED Archives!click \/ Archives!Backfill(k) \/ Archives!DeleteTable(k)
         /\ \/ UNCHANGED Archives!store \/ Archives!RemoveBundle(k) \/ Archives!ExportTable(k) \/ Archives!PublishBundle(k) \/ Archives!WriteDoneMarker(k)
            \/ Archives!CleanupArchives(k) \/ Archives!FailRun(k)
         /\ UNCHANGED <<written, spans>> \/ Archives!PublishBundle(k)
         /\ UNCHANGED Archives!click \/ UNCHANGED Archives!store
BY DEF Archives!Run, Archives!StartRun, Archives!PlanRun, Archives!ReadBlockSlots,
   Archives!FetchProducedSlots, Archives!ReadMismatches, Archives!RepairOvercounts,
   Archives!Backfill, Archives!PassGate, Archives!StopAtGate, Archives!RemoveBundle,
   Archives!ExportTable, Archives!PublishBundle, Archives!WriteDoneMarker, Archives!ListNames,
   Archives!DeleteTable, Archives!CleanupArchives, Archives!FailRun, Archives!store

\* A run keeps the types of what is in ClickHouse.
LEMMA RunClick ==
  ASSUME Archives!ArchiverAssumption, ArchiveTypeOK, NEW k \in config.kinds, Archives!Run(k)
  PROVE  /\ db' \in [Archives!Tables -> SUBSET ArchiveProduced] /\ mutations' \in [Archives!Tables -> SUBSET ArchiveProduced]
         /\ late' \subseteq Archives!Tables \X ArchiveProduced /\ ingested' \subseteq Archives!Tables \X ArchiveProduced
<1>1. CASE UNCHANGED Archives!click
  BY <1>1 DEF ArchiveTypeOK, Archives!click
<1>2. CASE Archives!Backfill(k)
  <2>1. PICK slots \in SUBSET Archives!backfill_target_slots(job[k].report) :
          /\ db' = [t \in Archives!Tables |-> db[t] \cup slots]
          /\ mutations' = [t \in Archives!Tables |-> mutations[t] \ slots]
          /\ late' = late \ (Archives!Tables \X slots)
          /\ ingested' = ingested \cup (Archives!Tables \X slots)
    BY <1>2 DEF Archives!Backfill
  <2>2. slots \subseteq ArchiveProduced
    BY JobFacts DEF Archives!backfill_target_slots, Archives!missing_blocks, Report
  <2> QED BY <2>1, <2>2 DEF ArchiveTypeOK
<1>3. CASE Archives!DeleteTable(k)
  <2>1. CASE UNCHANGED Archives!click
    BY <2>1 DEF ArchiveTypeOK, Archives!click
  <2>2. CASE ~(UNCHANGED Archives!click)
    <3> DEFINE t == Head(job[k].left)
               gone == Archives!Between(job[k].range.start, job[k].range.end) \cap db[t]
    <3>1. /\ job[k].left # <<>> /\ mutations' = [mutations EXCEPT ![t] = mutations[t] \cup gone]
          /\ UNCHANGED <<db, late, ingested>>
      BY <1>3, <2>2 DEF Archives!DeleteTable
    <3>2. t \in Archives!Tables
      BY <3>1, JobFacts, RemainingFacts
    <3>3. gone \subseteq ArchiveProduced
      BY <3>2 DEF ArchiveTypeOK
    <3> HIDE DEF t, gone
    <3> QED BY <3>1, <3>2, <3>3 DEF ArchiveTypeOK
  <2> QED BY <2>1, <2>2
<1> QED BY <1>1, <1>2, <1>3, RunReach

\* A bundle of the store after a step, and the one it was before.
Twin(b, c) == b.kind = c.kind /\ b.start = c.start /\ b.end = c.end

\* What a removal leaves of a bundle has its name, and is listed or marked done only
\* if it was.
LEMMA DamagedFacts ==
  ASSUME NEW c, BundleOK(c), NEW b \in Archives!Damaged(c)
  PROVE  BundleOK(b) /\ Twin(b, c) /\ (b.done => c.done) /\ (b.manifest => c.manifest)
<1>0. c \in Bundle
  BY DEF BundleOK
<1> DEFINE names == IF config.s3 THEN {c.manifest, FALSE} ELSE {c.manifest}
           marks == IF config.s3 THEN {FALSE} ELSE {c.done, FALSE}
<1>1. PICK left \in names \X marks \X SUBSET Archives!Tables :
        b = Archives!Remains(c, left)
  BY DEF Archives!Damaged
<1> DEFINE m == left[1]
           d == left[2]
           ts == left[3]
<1> DEFINE F == [t \in Archives!Tables |-> IF t \in ts THEN c.files[t] ELSE {}]
<1>2. m \in BOOLEAN /\ (m => c.manifest) /\ d \in BOOLEAN /\ (d => c.done)
  BY <1>0 DEF Bundle
<1>3. F \in [Archives!Tables -> SUBSET ArchiveSlots]
  BY <1>0 DEF Bundle
<1>4. b = [c EXCEPT !.manifest = m, !.done = d, !.files = F]
  BY <1>1 DEF Archives!Remains
<1> HIDE DEF F, m, d
<1>5. b \in Bundle /\ b.done = d /\ b.manifest = m /\ b.kind = c.kind /\ b.start = c.start /\ b.end = c.end
  BY <1>0, <1>2, <1>3, <1>4 DEF Bundle
<1> QED BY <1>2, <1>5 DEF BundleOK, Twin

\* A run that stops while it removes bundles leaves the others, and of those it
\* removes some, or what is left of one.
LEMMA RemovedFacts ==
  ASSUME ArchiveTypeOK, NEW k, Archives!PartlyRemoved(k)
  PROVE  \E gone \in SUBSET Archives!Doomed(k) :
           /\ gone \subseteq bundles /\ \A b \in gone : b.kind = k /\ BundleOK(b)
           /\ \A b \in gone : (job[k].stage = "remove" /\ Archives!IsPlanned(b, k)) \/ b \in Archives!ToDelete(k)
           /\ bundles \ gone \subseteq bundles'
           /\ \A r \in bundles' : r \in bundles \ gone \/ \E b \in gone : r \in Archives!Damaged(b)
<1>1. PICK gone \in SUBSET Archives!Doomed(k) :
        \/ bundles' = bundles \ gone
        \/ \E b \in gone : \E rest \in Archives!Damaged(b) : bundles' = (bundles \ gone) \cup {rest}
  BY DEF Archives!PartlyRemoved
<1>2. \A b \in Archives!ToDelete(k) : b \in bundles /\ b.kind = k
  BY DEF Archives!ToDelete, Archives!list_archives
<1>3. \A b \in Archives!Doomed(k) :
        /\ b \in bundles /\ b.kind = k
        /\ (job[k].stage = "remove" /\ Archives!IsPlanned(b, k)) \/ b \in Archives!ToDelete(k)
  BY <1>2 DEF Archives!Doomed, Archives!IsPlanned
<1>4. \A b \in gone : b \in bundles /\ b.kind = k /\ BundleOK(b)
  BY <1>3 DEF ArchiveTypeOK
<1>5. bundles \ gone \subseteq bundles'
      /\ \A r \in bundles' : r \in bundles \ gone \/ \E b \in gone : r \in Archives!Damaged(b)
  BY <1>1
<1> QED BY <1>3, <1>4, <1>5

\* The bundle a run writes.
LEMMA NewBundle ==
  ASSUME Archives!ArchiverAssumption, ArchiveTypeOK, NEW k \in config.kinds, job[k].stage \in Planned,
         NEW F \in [Archives!Tables -> SUBSET ArchiveSlots], NEW m \in BOOLEAN
  PROVE  BundleOK([kind |-> k, start |-> job[k].plan.start, end |-> job[k].plan.end, files |-> F,
                   manifest |-> m, done |-> FALSE])
<1>1. /\ job[k].plan.start \in Nat /\ job[k].plan.end \in Int /\ job[k].plan.start <= job[k].plan.end
      /\ job[k].plan.end <= ChainEnd /\ ChainEnd \in Nat
  BY JobFacts, ChainFacts DEF PlanType, JobOK
<1>2. job[k].plan.start \in 0 .. ChainEnd /\ job[k].plan.end \in 0 .. ChainEnd
  BY <1>1
<1>3. k \in DOMAIN config.span
  BY ConfigFacts DEF ArchiveTypeOK
<1> QED BY <1>1, <1>2, <1>3 DEF BundleOK, Bundle

\* A run writes no bundle but its own, and only publishing lists one.
LEMMA RunBundles ==
  ASSUME Archives!ArchiverAssumption, ArchiveTypeOK, Archives!Validated, NEW k \in config.kinds, Archives!Run(k)
  PROVE  /\ \A b \in bundles' : BundleOK(b)'
         /\ \A b \in bundles' : b.manifest \/ b.done =>
              \/ \E c \in bundles : (c.manifest \/ c.done) /\ Twin(b, c)
              \/ job'[k].stage \in Finishing /\ job'[k].plan = job[k].plan /\ Archives!IsPlanned(b, k)
<1>0. config' = config
  BY RunJob
<1>1. \A b : BundleOK(b) => BundleOK(b)'
  BY <1>0 DEF BundleOK, Bundle
<1> SUFFICES ASSUME NEW b \in bundles'
             PROVE  BundleOK(b) /\ (b.manifest \/ b.done =>
                      \/ \E c \in bundles : (c.manifest \/ c.done) /\ Twin(b, c)
                      \/ job'[k].stage \in Finishing /\ job'[k].plan = job[k].plan /\ Archives!IsPlanned(b, k))
  BY <1>1
<1>2. ASSUME b \in bundles 
      PROVE  BundleOK(b) /\ (b.manifest \/ b.done => \E c \in bundles : (c.manifest \/ c.done) /\ Twin(b, c))
  BY <1>2 DEF ArchiveTypeOK, Twin
<1>3. CASE UNCHANGED Archives!store \/ Archives!RemoveBundle(k) \/ Archives!CleanupArchives(k)
  <2>1. bundles' \subseteq bundles
    BY <1>3 DEF Archives!store, Archives!RemoveBundle, Archives!CleanupArchives
  <2> QED BY <1>2, <2>1
<1>4. CASE Archives!ExportTable(k)
  <2> DEFINE t == Head(job[k].left)
             F == [job[k].files EXCEPT ![t] = Archives!PlanSlots(k) \cap db[t]]
             new == [kind |-> k, start |-> job[k].plan.start, end |-> job[k].plan.end, files |-> F,
                     manifest |-> FALSE, done |-> FALSE]
  <2>1. job[k].stage = "export" /\ (b \in bundles \/ b = new)
    BY <1>4 DEF Archives!ExportTable
  <2>2. F \in [Archives!Tables -> SUBSET ArchiveSlots]
    <3>1. job[k].files \in [Archives!Tables -> SUBSET ArchiveSlots] /\ Archives!PlanSlots(k) \subseteq ArchiveSlots
      BY JobFacts DEF Archives!PlanSlots, Archives!Between
    <3> QED BY <3>1
  <2> HIDE DEF F
  <2>3. BundleOK(new) /\ ~new.manifest /\ ~new.done
    BY <2>1, <2>2, NewBundle DEF Planned, Exporting
  <2> QED BY <1>2, <2>1, <2>3
<1>5. CASE Archives!PublishBundle(k)
  <2> DEFINE new == [kind |-> k, start |-> job[k].plan.start, end |-> job[k].plan.end, files |-> job[k].files,
                     manifest |-> TRUE, done |-> FALSE]
  <2>1. job[k].stage = "export" /\ (b \in bundles \/ b = new)
    BY <1>5 DEF Archives!PublishBundle
  <2>2. BundleOK(new) /\ Archives!IsPlanned(new, k)
    BY <2>1, JobFacts, NewBundle DEF Planned, Exporting, Archives!IsPlanned
  <2>3. job'[k].stage \in Finishing /\ job'[k].plan = job[k].plan
    <3>1. job' = [job EXCEPT ![k] = [job[k] EXCEPT !.stage = "mark"]]
      BY <1>5 DEF Archives!PublishBundle, Archives!Go
    <3> QED BY <3>1, JobFacts DEF JobType, Finishing
  <2> QED BY <1>2, <2>1, <2>2, <2>3
<1>6. CASE Archives!WriteDoneMarker(k)
  <2>1. PICK c \in bundles : b = IF Archives!IsPlanned(c, k) THEN [c EXCEPT !.done = TRUE] ELSE c
    BY <1>6 DEF Archives!WriteDoneMarker
  <2>2. CASE ~Archives!IsPlanned(c, k)
    BY <1>2, <2>1, <2>2
  <2>3. CASE Archives!IsPlanned(c, k)
    <3>1. c \in Bundle /\ BundleOK(c)
      BY DEF ArchiveTypeOK, BundleOK
    <3>2. b \in Bundle /\ Twin(b, c)
      BY <2>1, <2>3, <3>1 DEF Bundle, Twin
    <3>3. BundleOK(b) /\ Archives!IsPlanned(b, k)
      BY <2>3, <3>1, <3>2 DEF BundleOK, Twin, Archives!IsPlanned
    <3>4. job' = [job EXCEPT ![k] = [job[k] EXCEPT !.stage = "names"]]
      BY <1>6 DEF Archives!WriteDoneMarker, Archives!Go
    <3>5. job'[k].stage \in Finishing /\ job'[k].plan = job[k].plan
      BY <3>4, JobFacts DEF JobType, Finishing
    <3> QED BY <3>3, <3>5
  <2> QED BY <2>2, <2>3
<1>7. CASE Archives!FailRun(k)
  <2>1. b \in bundles \/ \E c \in bundles : b \in Archives!Damaged(c)
    <3>1. Archives!PartlyRemoved(k)
      BY <1>7 DEF Archives!FailRun
    <3> QED BY <3>1, RemovedFacts
  <2>2. ASSUME NEW c \in bundles, b \in Archives!Damaged(c)
        PROVE  BundleOK(b) /\ (b.manifest \/ b.done => \E d \in bundles : (d.manifest \/ d.done) /\ Twin(b, d))
    <3>1. BundleOK(c)
      BY DEF ArchiveTypeOK
    <3> QED BY <2>2, <3>1, DamagedFacts
  <2> QED BY <1>2, <2>1, <2>2
<1> QED BY <1>3, <1>4, <1>5, <1>6, <1>7, RunReach

\* The types are kept by every step, and so is what a run knows of getBlocks.
LEMMA TypeStep ==
  ASSUME Archives!ArchiverAssumption, ArchiveTypeOK, Archives!Validated, Archives!Next
  PROVE  /\ ArchiveTypeOK' /\ config' = config
         /\ (\A k \in config.kinds : Answered(job[k])) => (\A k \in config.kinds : Answered(job[k]))'
<1>0. /\ ConfigOK /\ db \in [Archives!Tables -> SUBSET ArchiveProduced] /\ mutations \in [Archives!Tables -> SUBSET ArchiveProduced]
      /\ late \subseteq Archives!Tables \X ArchiveProduced /\ ingested \subseteq Archives!Tables \X ArchiveProduced
      /\ \A b \in bundles : BundleOK(b)
      /\ job \in [config.kinds -> JobType] /\ \A k \in config.kinds : JobOK(job[k])
  BY DEF ArchiveTypeOK
<1>1. CASE \E k \in config.kinds : Archives!Run(k)
  <2>1. PICK k \in config.kinds : Archives!Run(k)
    BY <1>1
  <2>2. /\ config' = config /\ job' = [job EXCEPT ![k] = job'[k]] /\ JobOK(job[k])'
        /\ (Answered(job[k]) => Answered(job[k])')
    BY <2>1, RunJob
  <2>3. /\ db' \in [Archives!Tables -> SUBSET ArchiveProduced] /\ mutations' \in [Archives!Tables -> SUBSET ArchiveProduced]
        /\ late' \subseteq Archives!Tables \X ArchiveProduced /\ ingested' \subseteq Archives!Tables \X ArchiveProduced
    BY <2>1, RunClick
  <2>4. \A b \in bundles' : BundleOK(b)'
    BY <2>1, RunBundles
  <2>5. \A q \in config.kinds : q # k => job'[q] = job[q]
    BY <1>0, <2>2
  <2>6. \A q \in config.kinds : JobOK(job[q])'
    <3> SUFFICES ASSUME NEW q \in config.kinds PROVE JobOK(job[q])'
      OBVIOUS
    <3>1. CASE q # k
      BY <1>0, <2>2, <2>5, <3>1 DEF JobOK
    <3> QED BY <2>2, <3>1
  <2>7. job' \in [config'.kinds -> JobType]
    <3>1. \A q \in config.kinds : job'[q] \in JobType
      BY <2>6 DEF JobOK
    <3>2. DOMAIN job' = config.kinds /\ job' = [q \in config.kinds |-> job'[q]]
      BY <1>0, <2>2
    <3> QED BY <2>2, <3>1, <3>2
  <2>8. ConfigOK'
    BY <1>0, <2>2 DEF ConfigOK, Archives!from_cli, Archives!parse_archive_kinds
  <2>9. ArchiveTypeOK'
    BY <2>2, <2>3, <2>4, <2>6, <2>7, <2>8 DEF ArchiveTypeOK
  <2>10. ASSUME \A q \in config.kinds : Answered(job[q]) PROVE (\A q \in config.kinds : Answered(job[q]))'
    <3>1. \A q \in config.kinds : Answered(job[q])'
      BY <2>2, <2>5, <2>10 DEF Answered, PlanRows
    <3> QED BY <2>2, <3>1
  <2> QED BY <2>2, <2>9, <2>10
<1>2. ASSUME config' = config, bundles' = bundles,
             \A k \in config.kinds : job'[k] = job[k] \/ job'[k] = Archives!Idle,
             job' = [k \in config.kinds |-> job'[k]],
             db' \in [Archives!Tables -> SUBSET ArchiveProduced], mutations' \in [Archives!Tables -> SUBSET ArchiveProduced],
             late' \subseteq Archives!Tables \X ArchiveProduced, ingested' \subseteq Archives!Tables \X ArchiveProduced
      PROVE  /\ ArchiveTypeOK' /\ config' = config
             /\ (\A k \in config.kinds : Answered(job[k])) => (\A k \in config.kinds : Answered(job[k]))'
  <2>1. \A k \in config.kinds : JobOK(job[k])' /\ (Answered(job[k]) => Answered(job[k])')
    <3> SUFFICES ASSUME NEW k \in config.kinds
                 PROVE  JobOK(job[k])' /\ (Answered(job[k]) => Answered(job[k])')
      OBVIOUS
    <3>1. CASE job'[k] = job[k]
      BY <1>0, <1>2, <3>1 DEF JobOK, Answered, PlanRows
    <3>2. CASE job'[k] = Archives!Idle
      <4>1. Archives!Idle \in JobType /\ Archives!Idle.stage = "idle" /\ Archives!Idle.names = <<>> /\ Archives!Idle.stage \notin Planned
        BY IdleFacts DEF Planned, Validating, Exporting, Finishing
      <4>2. JobOK(Archives!Idle)
        BY <1>0, <4>1, SoundJob
      <4>3. JobOK(job[k])'
        BY <1>2, <3>2, <4>2 DEF JobOK
      <4> QED BY <3>2, <4>1, <4>3 DEF Answered
    <3> QED BY <1>2, <3>1, <3>2
  <2>2. ConfigOK'
    BY <1>0, <1>2 DEF ConfigOK, Archives!from_cli, Archives!parse_archive_kinds
  <2>3. \A b \in bundles' : BundleOK(b)'
    BY <1>0, <1>2 DEF BundleOK, Bundle
  <2>4. job' \in [config'.kinds -> JobType]
    <3>1. \A q \in config.kinds : job'[q] \in JobType
      BY <2>1 DEF JobOK
    <3> QED BY <1>2, <3>1
  <2>5. ArchiveTypeOK'
    BY <1>2, <2>1, <2>2, <2>3, <2>4 DEF ArchiveTypeOK
  <2> QED BY <1>2, <2>1, <2>5
<1>3. CASE Archives!RequestShutdown \/ Archives!StartServer
  BY <1>0, <1>2, <1>3 DEF Archives!RequestShutdown, Archives!StartServer, Archives!click, Archives!store
<1>4. CASE Archives!StopServer
  BY <1>0, <1>2, <1>4 DEF Archives!StopServer, Archives!click, Archives!store
<1>5. CASE Archives!Ingest
  <2>1. PICK r \in late : /\ late' = late \ {r} /\ db' = [db EXCEPT ![r[1]] = db[r[1]] \cup {r[2]}]
                          /\ mutations' = [mutations EXCEPT ![r[1]] = mutations[r[1]] \ {r[2]}]
                          /\ ingested' = ingested \cup {r}
    BY <1>5 DEF Archives!Ingest
  <2>2. r[1] \in Archives!Tables /\ r[2] \in ArchiveProduced /\ r \in Archives!Tables \X ArchiveProduced
    BY <1>0, <2>1
  <2>3. UNCHANGED <<bundles, job, config>>
    BY <1>5 DEF Archives!Ingest, Archives!store, Archives!ctl
  <2> QED BY <1>0, <1>2, <2>1, <2>2, <2>3
<1>6. CASE Archives!Mutate
  <2>1. PICK t \in Archives!Tables : /\ db' = [db EXCEPT ![t] = db[t] \ mutations[t]]
                            /\ mutations' = [mutations EXCEPT ![t] = {}]
    BY <1>6 DEF Archives!Mutate
  <2>2. UNCHANGED <<bundles, job, config, late, ingested>>
    BY <1>6 DEF Archives!Mutate, Archives!store, Archives!ctl
  <2> QED BY <1>0, <1>2, <2>1, <2>2
<1> QED BY <1>1, <1>3, <1>4, <1>5, <1>6 DEF Archives!Next

\* What holds in the initial state.
LEMMA TypeInitial ==
  ASSUME Archives!ArchiverAssumption, Archives!Init, Archives!Validated
  PROVE  ArchiveTypeOK /\ \A k \in config.kinds : Answered(job[k])
<1>1. ConfigOK
  BY DEF Archives!Init, ConfigOK
<1>2. late \subseteq Archives!Tables \X ArchiveProduced
  BY <1>1 DEF Archives!Init, Archives!ArchiverAssumption, ConfigOK
<1>3. /\ db \in [Archives!Tables -> SUBSET ArchiveProduced] /\ mutations \in [Archives!Tables -> SUBSET ArchiveProduced]
      /\ ingested \subseteq Archives!Tables \X ArchiveProduced
  BY DEF Archives!Init
<1>4. \A b \in bundles : BundleOK(b)
  BY <1>1 DEF Archives!Init, Archives!ArchiverAssumption, ConfigOK, BundleOK, Bundle, ChainEnd
<1>5. job \in [config.kinds -> JobType] /\ \A k \in config.kinds : job[k] = Archives!Idle
  BY IdleFacts DEF Archives!Init
<1>6. Archives!Idle.stage = "idle" /\ Archives!Idle.names = <<>> /\ Archives!Idle.stage \notin Planned /\ Archives!Idle \in JobType
  BY IdleFacts DEF Planned, Validating, Exporting, Finishing
<1>7. \A k \in config.kinds : JobOK(job[k]) /\ Answered(job[k])
  BY <1>1, <1>5, <1>6, SoundJob DEF Answered
<1> QED BY <1>1, <1>2, <1>3, <1>4, <1>5, <1>7 DEF ArchiveTypeOK

-----------------------------------------------------------------------------
(* A row is deleted only once a bundle has held it. *)

\* What was archived stays archived.
LEMMA ArchivedKept ==
  ASSUME config' = config, written \subseteq written'
  PROVE  /\ \A t, s : Held(t, s) => Held(t, s)'
         /\ \A p : Archived(p) => Archived(p)'
<1>1. \A t, s : Held(t, s) => Held(t, s)'
  BY DEF Held
<1> QED BY <1>1 DEF Archived

\* Two ranges that are the same are archived alike.
LEMMA ArchivedTwin ==
  ASSUME NEW p, NEW q, p.start = q.start, p.end = q.end, Archived(q)
  PROVE  Archived(p)
BY DEF Archived

\* A run that does not move keeps what it knows while rows are safe.
LEMMA RunSafeKept ==
  ASSUME NEW q, job'[q] = job[q], job[q] \in JobType, config' = config, written \subseteq written',
         \A t \in Archives!Tables, s \in ArchiveProduced : Safe(t, s) => Safe(t, s)',
         RunSafe(job[q])
  PROVE  RunSafe(job[q])'
<1> DEFINE r == job[q]
<1>1. \A t, s : Held(t, s) => Held(t, s)'
  BY ArchivedKept
<1>2. \A p : Archived(p) => Archived(p)'
  BY ArchivedKept
<1>3. r.report.blocks \subseteq ArchiveProduced /\ PlanRows(r) \subseteq ArchiveProduced /\ r' = r /\ PlanRows(r)' = PlanRows(r)
  BY DEF JobType, Report, PlanRows
<1>4. Archives!blocks_archive(r.report)' <=> Archives!blocks_archive(r.report)
  BY <1>3 DEF Archives!blocks_archive, Archives!has_data_warnings, Archives!missing_blocks
<1>5. "blocks_metadata" \in Archives!Tables
  BY DEF Archives!Tables
<1> DEFINE A == r.stage \in {"rpc", "counts"} => \A s \in r.report.blocks : Safe("blocks_metadata", s)
           B == r.stage \in {"repair", "backfill", "gate"} /\ ~Archives!blocks_archive(r.report) =>
                  \A s \in PlanRows(r), t \in Archives!Tables : Safe(t, s)
           C == r.stage \in Exporting => \A s \in PlanRows(r), t \in Archives!Tables : Safe(t, s)
           D == r.stage = "export" =>
                  \A s \in PlanRows(r), t \in Archives!Tables : t \in Ahead(r.left) \/ s \in r.files[t] \/ Held(t, s)
           E == r.stage \in Finishing => Archived(r.plan)
           F == \A i \in 1 .. Len(r.names) : r.names[i] # Archives!NoPlan => Archived(r.names[i])
           G == r.stage = "delete" => Archived(r.range)
           H == r.stage \in {"bounds", "remove"} \cup Validating => \A t \in Archives!Tables : r.files[t] = {}
           I == r.stage = "export" => \A t \in Archives!Tables : r.files[t] \subseteq PlanRows(r)
<1>6. A /\ B /\ C /\ D /\ E /\ F /\ G /\ H /\ I
  BY DEF RunSafe
<1>7. A'
  BY <1>3, <1>5, <1>6
<1>8. B'
  BY <1>3, <1>4, <1>6
<1>9. C'
  BY <1>3, <1>6
<1>10. D'
  BY <1>1, <1>3, <1>6
<1>11. E' /\ F' /\ G'
  BY <1>2, <1>3, <1>6
<1>12. H' /\ I'
  BY <1>3, <1>6
<1> QED BY <1>7, <1>8, <1>9, <1>10, <1>11, <1>12 DEF RunSafe

\* A step of a run removes no row; what it accepts for deletion lies in its range.
LEMMA RunKeepsRows ==
  ASSUME Archives!ArchiverAssumption, ArchiveTypeOK, NEW k \in config.kinds, Archives!Run(k)
  PROVE  /\ \A t \in Archives!Tables : db[t] \subseteq db'[t]
         /\ written \subseteq written'
         /\ \A t \in Archives!Tables, s \in ArchiveProduced : s \in mutations'[t] =>
              \/ s \in mutations[t]
              \/ job[k].stage = "delete" /\ job[k].range.start <= s /\ s <= job[k].range.end
         /\ \A r \in ingested' : r \in ingested \/ r[2] \in db'[r[1]]
<1>1. written \subseteq written'
  <2>1. CASE Archives!PublishBundle(k)
    BY <2>1 DEF Archives!PublishBundle
  <2>2. CASE UNCHANGED <<written, spans>>
    BY <2>2
  <2> QED BY <2>1, <2>2, RunReach
<1>2. CASE UNCHANGED Archives!click
  <2>1. db' = db /\ mutations' = mutations /\ ingested' = ingested
    BY <1>2 DEF Archives!click
  <2> QED BY <1>1, <2>1
<1>3. CASE Archives!Backfill(k)
  <2>1. PICK slots \in SUBSET Archives!backfill_target_slots(job[k].report) :
          /\ db' = [t \in Archives!Tables |-> db[t] \cup slots]
          /\ mutations' = [t \in Archives!Tables |-> mutations[t] \ slots]
          /\ ingested' = ingested \cup (Archives!Tables \X slots)
    BY <1>3 DEF Archives!Backfill
  <2>2. \A t \in Archives!Tables : db[t] \subseteq db'[t] /\ slots \subseteq db'[t] /\ mutations'[t] \subseteq mutations[t]
    BY <2>1
  <2>3. \A r \in Archives!Tables \X slots : r[2] \in db'[r[1]]
    BY <2>2
  <2>4. \A r \in ingested' : r \in ingested \/ r[2] \in db'[r[1]]
    BY <2>1, <2>3
  <2> QED BY <1>1, <2>2, <2>4
<1>4. CASE Archives!DeleteTable(k) /\ ~UNCHANGED Archives!click
  <2> DEFINE t == Head(job[k].left)
             gone == Archives!Between(job[k].range.start, job[k].range.end) \cap db[t]
  <2>1. /\ job[k].left # <<>> /\ mutations' = [mutations EXCEPT ![t] = mutations[t] \cup gone]
        /\ UNCHANGED <<db, late, ingested>> /\ job[k].stage = "delete"
    BY <1>4 DEF Archives!DeleteTable
  <2>2. \A s \in gone : job[k].range.start <= s /\ s <= job[k].range.end
    BY DEF Archives!Between
  <2> HIDE DEF gone, t
  <2>3. \A u \in Archives!Tables : mutations'[u] \subseteq mutations[u] \cup gone
    BY <2>1 DEF ArchiveTypeOK
  <2>4. \A u \in Archives!Tables : db[u] \subseteq db'[u]
    BY <2>1
  <2>5. \A r \in ingested' : r \in ingested
    BY <2>1
  <2> QED BY <1>1, <2>1, <2>2, <2>3, <2>4, <2>5
<1> QED BY <1>2, <1>3, <1>4, RunReach

\* What the acting run knows after its step.
LEMMA RunSafeMoves ==
  ASSUME Archives!ArchiverAssumption, ArchiveTypeOK, Archives!Validated, ~config.zero, DeleteInv, NEW k \in config.kinds,
         Answered(job[k]), Archives!Run(k)
  PROVE  RunSafe(job[k])'
<1> DEFINE j == job[k]
<1>0. /\ j \in JobType /\ JobOK(j) /\ DOMAIN job = config.kinds /\ j.plan \in PlanType /\ j.report \in Report
      /\ j.left \in Remaining /\ j.names \in Seq(PlanType) /\ j.range \in PlanType
      /\ j.files \in [Archives!Tables -> SUBSET ArchiveSlots] /\ j.bounds \in [earliest : Nat, latest : -1 .. ChainEnd]
      /\ ConfigOK /\ RunSafe(j) /\ config' = config
  BY JobFacts, RunJob DEF ArchiveTypeOK, DeleteInv
<1>1. ASSUME NEW r, job' = [job EXCEPT ![k] = r], RunSafe(r), UNCHANGED <<db, written>>
      PROVE  RunSafe(job[k])'
  <2>1. job'[k] = r
    BY <1>0, <1>1
  <2>2. \A t, s : (Held(t, s)' <=> Held(t, s)) /\ (Safe(t, s)' <=> Safe(t, s))
    BY <1>0, <1>1 DEF Held, Safe
  <2>3. \A p : Archived(p)' <=> Archived(p)
    BY <2>2 DEF Archived
  <2>4. Archives!blocks_archive(job[k].report)' <=> Archives!blocks_archive(r.report)
    BY <1>0, <2>1 DEF Archives!blocks_archive, Archives!has_data_warnings, Archives!missing_blocks
  <2>5. PlanRows(job[k])' = PlanRows(r)
    BY <2>1 DEF PlanRows
  <2> QED BY <1>1, <2>1, <2>2, <2>3, <2>4, <2>5 DEF RunSafe
<1>2. ASSUME NEW r, r.stage = "idle", r.names = <<>> PROVE RunSafe(r)
  BY <1>2 DEF RunSafe, Validating, Exporting, Finishing
<1>3. ASSUME Archives!Finish(k), UNCHANGED <<db, written>> PROVE RunSafe(job[k])'
  <2>1. RunSafe(Archives!Idle)
    BY <1>2, IdleFacts
  <2> QED BY <1>1, <1>3, <2>1 DEF Archives!Finish, Archives!Go
<1>4. UNCHANGED <<db, written>> \/ Archives!Backfill(k) \/ Archives!PublishBundle(k)
  BY RunReach DEF Archives!click, Archives!DeleteTable
<1> HIDE DEF j
<1>5. CASE Archives!StartRun(k)
  <2> DEFINE bd == [earliest |-> Archives!Min(db["transactions"]), latest |-> Archives!Max(db["transactions"])]
             r == [Archives!Idle EXCEPT !.stage = "bounds", !.bounds = bd]
  <2>0. UNCHANGED <<db, written>>
    BY <1>5 DEF Archives!StartRun, Archives!click, Archives!store
  <2>1. job' = job \/ job' = [job EXCEPT ![k] = r]
    BY <1>5 DEF Archives!StartRun, Archives!Go
  <2>2. CASE job' = job
    <3>1. job' = [job EXCEPT ![k] = j]
      BY <1>0, <2>2 DEF j, ArchiveTypeOK
    <3> QED BY <1>0, <1>1, <2>0, <3>1
  <2>3. CASE job' = [job EXCEPT ![k] = r]
    <3> HIDE DEF bd
    <3>1. r.stage = "bounds" /\ r.names = <<>> /\ \A t \in Archives!Tables : r.files[t] = {}
      BY DEF Archives!Idle
    <3> HIDE DEF r
    <3>2. RunSafe(r)
      BY <3>1 DEF RunSafe, Validating, Exporting, Finishing
    <3> QED BY <1>1, <2>0, <2>3, <3>2
  <2> QED BY <2>1, <2>2, <2>3
<1>6. CASE Archives!PlanRun(k)
  <2> DEFINE p == Archives!plan_next_archive(k, j.bounds, Archives!latest_archive_name(k))
             done == Archives!archive_has_done_marker(k, p)
             r1 == [j EXCEPT !.stage = "names", !.plan = p]
             r2 == [j EXCEPT !.stage = "blocks", !.plan = p]
  <2>0. UNCHANGED <<db, written>>
    BY <1>6 DEF Archives!PlanRun, Archives!click, Archives!store
  <2>1. config.range = Archives!NoPlan /\ j.stage = "bounds"
    BY <1>0, <1>6, ConfigFacts DEF Archives!Validated, Archives!PlanRun, j
  <2>2. Archives!Finish(k) \/ (done /\ job' = [job EXCEPT ![k] = r1]) \/ job' = [job EXCEPT ![k] = r2]
    <3>1. CASE p = Archives!NoPlan
      BY <1>6, <2>1, <3>1 DEF Archives!PlanRun, j, Archives!Go
    <3>2. CASE p # Archives!NoPlan /\ done /\ config.dry
      BY <1>6, <2>1, <3>2 DEF Archives!PlanRun, j, Archives!Go
    <3>3. CASE p # Archives!NoPlan /\ done /\ ~config.dry
      BY <1>6, <2>1, <3>3 DEF Archives!PlanRun, j, Archives!Go
    <3>4. CASE p # Archives!NoPlan /\ ~done
      BY <1>6, <2>1, <3>4 DEF Archives!PlanRun, j, Archives!Go
    <3> QED BY <3>1, <3>2, <3>3, <3>4
  <2>3. j.names = <<>> /\ \A t \in Archives!Tables : j.files[t] = {}
    BY <1>0, <2>1 DEF JobOK, RunSafe
  <2>4. CASE done /\ job' = [job EXCEPT ![k] = r1]
    <3>1. PICK b \in bundles : b.kind = k /\ b.done /\ b.start = p.start /\ b.end = p.end
      BY <2>4 DEF Archives!archive_has_done_marker
    <3>2. Archived(b)
      BY <3>1 DEF DeleteInv
    <3>3. Archived(p)
      BY <3>1, <3>2, ArchivedTwin
    <3> HIDE DEF p
    <3>4. r1.stage = "names" /\ r1.plan = p /\ r1.names = <<>>
      BY <1>0, <2>3 DEF JobType
    <3> HIDE DEF r1
    <3>5. RunSafe(r1)
      BY <3>3, <3>4 DEF RunSafe, Validating, Exporting, Finishing
    <3> QED BY <1>1, <2>0, <2>4, <3>5
  <2>5. CASE job' = [job EXCEPT ![k] = r2]
    <3> HIDE DEF p
    <3>1. r2.stage = "blocks" /\ r2.names = <<>> /\ r2.files = j.files
      BY <1>0, <2>3 DEF JobType
    <3> HIDE DEF r2
    <3>2. RunSafe(r2)
      BY <2>3, <3>1 DEF RunSafe, Validating, Exporting, Finishing
    <3> QED BY <1>1, <2>0, <2>5, <3>2
  <2> QED BY <1>3, <2>0, <2>2, <2>4, <2>5
<1>7. CASE Archives!ReadBlockSlots(k)
  <2> DEFINE rep == [Archives!NoReport EXCEPT !.blocks = Archives!PlanSlots(k) \cap db["blocks_metadata"]]
             r == [j EXCEPT !.stage = "rpc", !.report = rep]
  <2>0. UNCHANGED <<db, written>>
    BY <1>7 DEF Archives!ReadBlockSlots, Archives!click, Archives!store
  <2>1. j.stage = "blocks" /\ job' = [job EXCEPT ![k] = r]
    BY <1>7 DEF Archives!ReadBlockSlots, Archives!Go, j
  <2>2. rep.blocks = Archives!PlanSlots(k) \cap db["blocks_metadata"]
    BY DEF Archives!NoReport
  <2>3. \A s \in rep.blocks : Safe("blocks_metadata", s)
    BY <2>2 DEF Safe
  <2> HIDE DEF rep
  <2>4. r.stage = "rpc" /\ r.report = rep /\ r.names = j.names /\ r.files = j.files
    BY <1>0 DEF JobType
  <2>5. j.names = <<>> /\ \A t \in Archives!Tables : j.files[t] = {}
    BY <1>0, <2>1 DEF JobOK, RunSafe, Planned, Validating
  <2> HIDE DEF r
  <2>6. RunSafe(r)
    BY <2>3, <2>4, <2>5 DEF RunSafe, Exporting, Finishing
  <2> QED BY <1>1, <2>0, <2>1, <2>6
<1>8. CASE Archives!FetchProducedSlots(k)
  <2>0. UNCHANGED <<db, written>>
    BY <1>8 DEF Archives!FetchProducedSlots, Archives!click, Archives!store
  <2>1. j.stage = "rpc"
    BY <1>8 DEF Archives!FetchProducedSlots, j
  <2>2. PICK fails \in BOOLEAN :
          job' = [job EXCEPT ![k] = [j EXCEPT !.stage = "counts", !.report.error = fails,
                    !.report.produced = IF fails THEN {} ELSE Archives!PlanSlots(k) \cap ArchiveProduced]]
    BY <1>8 DEF Archives!FetchProducedSlots, Archives!Go, j
  <2> DEFINE P == IF fails THEN {} ELSE Archives!PlanSlots(k) \cap ArchiveProduced
             r == [j EXCEPT !.stage = "counts", !.report.error = fails, !.report.produced = P]
  <2>3. job' = [job EXCEPT ![k] = r]
    BY <2>2
  <2> HIDE DEF P
  <2>4. r.stage = "counts" /\ r.report.blocks = j.report.blocks /\ r.names = j.names /\ r.files = j.files
    BY <1>0 DEF JobType, Report
  <2>5. j.names = <<>> /\ \A t \in Archives!Tables : j.files[t] = {}
    BY <1>0, <2>1 DEF JobOK, RunSafe, Planned, Validating
  <2>6. \A s \in j.report.blocks : Safe("blocks_metadata", s)
    BY <1>0, <2>1 DEF RunSafe
  <2> HIDE DEF r
  <2>7. RunSafe(r)
    BY <2>4, <2>5, <2>6 DEF RunSafe, Exporting, Finishing
  <2> QED BY <1>1, <2>0, <2>3, <2>7
<1>9. CASE Archives!ReadMismatches(k)
  <2> DEFINE U == Archives!transaction_undercounts(Archives!PlanSlots(k))
             V == Archives!transaction_overcounts(Archives!PlanSlots(k))
             rep == [j.report EXCEPT !.under = U, !.over = V]
             st == Archives!NextStage(j.round, rep)
             r == [j EXCEPT !.report = rep, !.stage = st]
  <2>0. UNCHANGED <<db, written>>
    BY <1>9 DEF Archives!ReadMismatches, Archives!click, Archives!store
  <2>1. j.stage = "counts" /\ job' = [job EXCEPT ![k] = r]
    BY <1>9 DEF Archives!ReadMismatches, Archives!Go, j
  <2>2. st \in {"repair", "backfill", "gate"}
    BY DEF Archives!NextStage
  <2>3. U = (Archives!PlanSlots(k) \cap db["blocks_metadata"]) \ db["transactions"]
    BY DEF Archives!transaction_undercounts
  <2> HIDE DEF U, V
  <2>4. /\ rep.blocks = j.report.blocks /\ rep.produced = j.report.produced /\ rep.error = j.report.error
        /\ rep.under = U
    BY <1>0 DEF Report
  <2> HIDE DEF rep, st
  <2>5. r.stage = st /\ r.report = rep /\ r.names = j.names /\ r.files = j.files /\ r.plan = j.plan
    BY <1>0 DEF JobType
  <2>6. j.names = <<>> /\ \A t \in Archives!Tables : j.files[t] = {}
    BY <1>0, <2>1 DEF JobOK, RunSafe, Planned, Validating
  <2> HIDE DEF r
  <2>7. PlanRows(r) = ArchiveProduced \cap Archives!PlanSlots(k)
    BY <2>5 DEF PlanRows, Archives!PlanSlots, j
  <2>8. ASSUME ~Archives!blocks_archive(rep), NEW s \in PlanRows(r), NEW t \in Archives!Tables PROVE Safe(t, s)
    <3>1. ~rep.error /\ Archives!missing_blocks(rep) = {} /\ rep.under = {}
      BY <2>8 DEF Archives!blocks_archive, Archives!has_data_warnings, Archives!Validated
    <3>2. s \in j.report.produced
      <4>1. PlanRows(j) \subseteq j.report.produced
        BY <2>1, <2>4, <3>1 DEF Answered, j
      <4>2. PlanRows(r) = PlanRows(j)
        BY <2>5 DEF PlanRows
      <4> QED BY <4>1, <4>2
    <3>3. s \in j.report.blocks
      BY <2>4, <3>1, <3>2 DEF Archives!missing_blocks
    <3>4. Safe("blocks_metadata", s)
      BY <1>0, <2>1, <3>3 DEF RunSafe
    <3>5. s \in ArchiveProduced /\ s \in Archives!PlanSlots(k)
      BY <2>7
    <3>6. Safe("transactions", s)
      <4>1. CASE s \in db["blocks_metadata"]
        BY <2>3, <2>4, <3>1, <3>5, <4>1 DEF Safe
      <4>2. CASE Held("blocks_metadata", s)
        BY <3>5, <4>2 DEF DeleteInv
      <4> QED BY <3>4, <4>1, <4>2 DEF Safe
    <3> QED BY <3>4, <3>6 DEF Archives!Tables
  <2>9. RunSafe(r)
    BY <2>2, <2>5, <2>6, <2>8 DEF RunSafe, Exporting, Finishing
  <2> QED BY <1>1, <2>0, <2>1, <2>9
<1>10. CASE Archives!RepairOvercounts(k) \/ Archives!Backfill(k)
  <2>1. PICK w \in {"repaired", "backfilled"} :
          job' = [job EXCEPT ![k] = [j EXCEPT !.stage = "blocks", !.round = w]]
    BY <1>10 DEF Archives!RepairOvercounts, Archives!Backfill, Archives!Go, j
  <2> DEFINE r == [j EXCEPT !.stage = "blocks", !.round = w]
  <2>2. j.stage \in {"repair", "backfill"}
    BY <1>10 DEF Archives!RepairOvercounts, Archives!Backfill, j
  <2>3. r.stage = "blocks" /\ r.names = j.names /\ r.files = j.files
    BY <1>0 DEF JobType
  <2>4. j.names = <<>> /\ \A t \in Archives!Tables : j.files[t] = {}
    BY <1>0, <2>2 DEF JobOK, RunSafe, Planned, Validating
  <2>5. job'[k] = r
    BY <1>0, <2>1
  <2> HIDE DEF r
  <2> QED BY <2>3, <2>4, <2>5 DEF RunSafe, Exporting, Finishing, Validating
<1>11. CASE Archives!PassGate(k)
  <2> DEFINE r == [j EXCEPT !.stage = "remove"]
  <2>0. UNCHANGED <<db, written>>
    BY <1>11 DEF Archives!PassGate, Archives!click, Archives!store
  <2>1. j.stage = "gate" /\ job' = [job EXCEPT ![k] = r] /\ ~Archives!blocks_archive(j.report)
    BY <1>11 DEF Archives!PassGate, Archives!Go, j, Archives!Validated
  <2>2. r.stage = "remove" /\ r.names = j.names /\ r.files = j.files /\ r.plan = j.plan
    BY <1>0 DEF JobType
  <2>3. /\ j.names = <<>> /\ \A t \in Archives!Tables : j.files[t] = {}
        /\ \A s \in PlanRows(j), t \in Archives!Tables : Safe(t, s)
    BY <1>0, <2>1 DEF JobOK, RunSafe, Planned, Validating
  <2>4. PlanRows(r) = PlanRows(j)
    BY <2>2 DEF PlanRows
  <2> HIDE DEF r
  <2>5. RunSafe(r)
    BY <2>2, <2>3, <2>4 DEF RunSafe, Finishing, Validating
  <2> QED BY <1>1, <2>0, <2>1, <2>5
<1>12. CASE Archives!StopAtGate(k) \/ Archives!CleanupArchives(k) \/ Archives!FailRun(k)
  <2>1. Archives!Finish(k) /\ UNCHANGED <<db, written>>
    BY <1>12 DEF Archives!StopAtGate, Archives!CleanupArchives, Archives!FailRun, Archives!click,
       Archives!store
  <2> QED BY <1>3, <2>1
<1>13. CASE Archives!RemoveBundle(k)
  <2> DEFINE r == [j EXCEPT !.stage = "export", !.left = Archives!archive_tables]
  <2>0. UNCHANGED <<db, written>>
    BY <1>13 DEF Archives!RemoveBundle, Archives!click
  <2>1. j.stage = "remove" /\ job' = [job EXCEPT ![k] = r]
    BY <1>13 DEF Archives!RemoveBundle, Archives!Go, j
  <2>2. r.stage = "export" /\ r.names = j.names /\ r.files = j.files /\ r.plan = j.plan /\ r.left = Archives!archive_tables
    BY <1>0 DEF JobType
  <2>3. /\ j.names = <<>> /\ \A t \in Archives!Tables : j.files[t] = {}
        /\ \A s \in PlanRows(j), t \in Archives!Tables : Safe(t, s)
    BY <1>0, <2>1 DEF JobOK, RunSafe, Planned, Exporting
  <2>4. PlanRows(r) = PlanRows(j)
    BY <2>2 DEF PlanRows
  <2> HIDE DEF r
  <2>5. RunSafe(r)
    BY <2>2, <2>3, <2>4, RemainingFacts DEF RunSafe, Finishing, Validating, Exporting
  <2> QED BY <1>1, <2>0, <2>1, <2>5
<1>14. CASE Archives!ExportTable(k)
  <2> DEFINE t == Head(j.left)
             G == Archives!PlanSlots(k) \cap db[t]
             F == [j.files EXCEPT ![t] = G]
             l == Tail(j.left)
             r == [j EXCEPT !.left = l, !.files = F]
  <2>0. UNCHANGED <<db, written>>
    BY <1>14 DEF Archives!ExportTable, Archives!click
  <2>1. j.stage = "export" /\ j.left # <<>> /\ job' = [job EXCEPT ![k] = r]
    BY <1>14 DEF Archives!ExportTable, Archives!Go, j
  <2>2. t \in Archives!Tables /\ Ahead(l) = Ahead(j.left) \ {t}
    BY <1>0, <2>1, RemainingFacts
  <2>3. G = PlanRows(j) \cap db[t]
    BY <2>2 DEF ArchiveTypeOK, PlanRows, Archives!PlanSlots, j
  <2> HIDE DEF t, G, l
  <2>4. \A u \in Archives!Tables : F[u] = IF u = t THEN G ELSE j.files[u]
    BY <1>0, <2>2
  <2> HIDE DEF F
  <2>5. r.stage = "export" /\ r.names = j.names /\ r.files = F /\ r.plan = j.plan /\ r.left = l
    BY <1>0, <2>1 DEF JobType
  <2>6. /\ j.names = <<>> /\ \A u \in Archives!Tables : j.files[u] \subseteq PlanRows(j)
        /\ \A s \in PlanRows(j), u \in Archives!Tables : Safe(u, s)
        /\ \A s \in PlanRows(j), u \in Archives!Tables : u \in Ahead(j.left) \/ s \in j.files[u] \/ Held(u, s)
    BY <1>0, <2>1 DEF JobOK, RunSafe, Planned, Exporting
  <2>7. PlanRows(r) = PlanRows(j)
    BY <2>5 DEF PlanRows
  <2>8. \A u \in Archives!Tables : F[u] \subseteq PlanRows(j)
    BY <2>3, <2>4, <2>6
  <2>9. \A s \in PlanRows(j), u \in Archives!Tables : u \in Ahead(l) \/ s \in F[u] \/ Held(u, s)
    BY <2>2, <2>3, <2>4, <2>6 DEF Safe
  <2> HIDE DEF r
  <2>10. RunSafe(r)
    BY <2>5, <2>6, <2>7, <2>8, <2>9 DEF RunSafe, Finishing, Validating, Exporting
  <2> QED BY <1>1, <2>0, <2>1, <2>10
<1>15. CASE Archives!PublishBundle(k)
  <2> DEFINE r == [j EXCEPT !.stage = "mark"]
  <2>1. j.stage = "export" /\ j.left = <<>> /\ job' = [job EXCEPT ![k] = r]
    BY <1>15 DEF Archives!PublishBundle, Archives!Go, j
  <2>2. r.stage = "mark" /\ r.names = j.names /\ r.plan = j.plan
    BY <1>0 DEF JobType
  <2>3. job'[k] = r
    BY <1>0, <2>1
  <2>4. written' = written \cup Archives!Rows(k, j.files)
    BY <1>15 DEF Archives!PublishBundle, j
  <2>5. j.names = <<>> /\ \A s \in PlanRows(j), t \in Archives!Tables : s \in j.files[t] \/ Held(t, s)
    BY <1>0, <2>1, RemainingFacts DEF JobOK, RunSafe, Planned, Exporting
  <2>6. ASSUME NEW s \in ArchiveProduced, NEW t \in Archives!Tables, j.plan.start <= s, s <= j.plan.end PROVE Held(t, s)'
    <3>1. s \in ArchiveSlots /\ s \in PlanRows(j)
      BY <2>6, ChainFacts DEF PlanRows, Archives!Between
    <3>2. CASE s \in j.files[t]
      <4>1. <<k, t, s>> \in Archives!Rows(k, j.files)
        BY <3>1, <3>2 DEF Archives!Rows
      <4> QED BY <1>0, <2>4, <4>1 DEF Held
    <3>3. CASE Held(t, s)
      BY <1>0, <2>4, <3>3 DEF Held
    <3> QED BY <2>5, <3>1, <3>2, <3>3
  <2>7. Archived(job[k].plan)'
    BY <2>2, <2>3, <2>6 DEF Archived
  <2> HIDE DEF r
  <2> QED BY <2>2, <2>3, <2>5, <2>7 DEF RunSafe, Exporting, Finishing, Validating
<1>16. CASE Archives!WriteDoneMarker(k)
  <2> DEFINE r == [j EXCEPT !.stage = "names"]
  <2>0. UNCHANGED <<db, written>>
    BY <1>16 DEF Archives!WriteDoneMarker, Archives!click
  <2>1. j.stage = "mark" /\ job' = [job EXCEPT ![k] = r]
    BY <1>16 DEF Archives!WriteDoneMarker, Archives!Go, j
  <2>2. r.stage = "names" /\ r.names = j.names /\ r.plan = j.plan
    BY <1>0 DEF JobType
  <2>3. j.names = <<>> /\ Archived(j.plan)
    BY <1>0, <2>1 DEF JobOK, RunSafe, Planned, Finishing
  <2> HIDE DEF r
  <2>4. RunSafe(r)
    BY <2>2, <2>3 DEF RunSafe, Finishing, Validating, Exporting
  <2> QED BY <1>1, <2>0, <2>1, <2>4
<1>17. CASE Archives!ListNames(k)
  <2>0. UNCHANGED <<db, written>>
    BY <1>17 DEF Archives!ListNames, Archives!click, Archives!store
  <2>1. j.stage = "names" /\ Len(j.names) < Len(config.order) /\ Archived(j.plan)
    BY <1>0, <1>17 DEF Archives!ListNames, JobOK, RunSafe, Finishing, j
  <2> DEFINE kind == config.order[Len(j.names) + 1]
             n == Archives!latest_archive_name(kind)
             N == Append(j.names, n)
             range == Archives!safe_delete_archived_data_range(j.plan.end, NamesByKind(N))
             r1 == [j EXCEPT !.stage = "cleanup"]
             r2 == [j EXCEPT !.names = N]
             r3 == [j EXCEPT !.stage = "delete", !.range = range, !.left = Archives!archive_tables]
  <2>2. \/ job' = [job EXCEPT ![k] = r1]
        \/ Len(N) < Len(config.order) /\ job' = [job EXCEPT ![k] = r2]
        \/ ~(Len(N) < Len(config.order)) /\ range # Archives!NoPlan /\ job' = [job EXCEPT ![k] = r3]
    BY <1>17 DEF Archives!ListNames, Archives!Go, j, NamesByKind
  <2>3. kind \in config.kinds
    <3>0. config.order \in Seq(config.kinds)
      BY <1>0, ConfigFacts
    <3>1. Len(j.names) \in Nat /\ Len(config.order) \in Nat
      BY <1>0, <3>0
    <3>2. Len(j.names) + 1 \in 1 .. Len(config.order)
      BY <2>1, <3>1
    <3> QED BY <1>0, <3>2, ConfigFacts
  <2>4. n \in PlanType /\ (n # Archives!NoPlan => Archived(n) /\ n.start <= n.end)
    <3> HIDE DEF kind
    <3>1. CASE n = Archives!NoPlan
      BY <3>1, LatestFacts
    <3>2. CASE n # Archives!NoPlan
      <4>1. PICK b \in Archives!Newest(kind) : n.start = b.start /\ n.end = b.end /\ b.start <= b.end
        BY <3>2, LatestFacts
      <4>2. b \in bundles /\ b.manifest /\ b.kind = kind
        BY DEF Archives!Newest, Archives!list_archives
      <4>3. Archived(b)
        BY <2>3, <4>2 DEF DeleteInv
      <4>4. Archived(n)
        BY <4>1, <4>3, ArchivedTwin
      <4> QED BY <4>1, <4>4, LatestFacts
    <3> QED BY <3>1, <3>2
  <2> HIDE DEF n
  <2>5. /\ N \in Seq(PlanType) /\ Len(N) = Len(j.names) + 1
        /\ \A i \in 1 .. Len(N) : N[i] = IF i = Len(N) THEN n ELSE j.names[i]
    BY <1>0, <2>4
  <2>6. \A i \in 1 .. Len(j.names) : j.names[i] # Archives!NoPlan => Archived(j.names[i]) /\ j.names[i].start <= j.names[i].end
    BY <1>0 DEF RunSafe, JobOK
  <2> HIDE DEF N
  <2>7. \A i \in 1 .. Len(N) : N[i] # Archives!NoPlan => Archived(N[i]) /\ N[i].start <= N[i].end
    <3>1. Len(j.names) \in Nat
      BY <1>0
    <3> QED BY <2>4, <2>5, <2>6, <3>1
  <2>8. CASE job' = [job EXCEPT ![k] = r1]
    <3>1. r1.names = j.names /\ r1.plan = j.plan /\ r1.stage = "cleanup"
      BY <1>0 DEF JobType
    <3> HIDE DEF r1
    <3>2. RunSafe(r1)
      BY <2>1, <2>6, <3>1 DEF RunSafe, Validating, Exporting
    <3> QED BY <1>1, <2>0, <2>8, <3>2
  <2>9. CASE Len(N) < Len(config.order) /\ job' = [job EXCEPT ![k] = r2]
    <3>1. r2.names = N /\ r2.plan = j.plan /\ r2.stage = "names"
      BY <1>0, <2>1 DEF JobType
    <3> HIDE DEF r2
    <3>2. RunSafe(r2)
      BY <2>1, <2>7, <3>1 DEF RunSafe, Validating, Exporting
    <3> QED BY <1>1, <2>0, <2>9, <3>2
  <2>10. CASE ~(Len(N) < Len(config.order)) /\ range # Archives!NoPlan /\ job' = [job EXCEPT ![k] = r3]
    <3> DEFINE M == NamesByKind(N)
    <3>1. M \in [config.kinds -> PlanType]
      BY <1>0, <2>5, <2>10, ListedNames
    <3>2. \A q \in config.kinds : M[q] # Archives!NoPlan => Archived(M[q]) /\ M[q].start <= M[q].end
      <4> SUFFICES ASSUME NEW q \in config.kinds, M[q] # Archives!NoPlan PROVE Archived(M[q]) /\ M[q].start <= M[q].end
        OBVIOUS
      <4>1. PICK i \in 1 .. Len(config.order) : i \in 1 .. Len(N) /\ M[q] = N[i]
        BY <1>0, <2>5, <2>10, ListedNames
      <4> QED BY <2>7, <4>1
    <3> HIDE DEF M
    <3>3. /\ j.plan.start \in Nat /\ j.plan.end \in Int /\ j.plan.start <= j.plan.end /\ j.plan.end \in Nat
      <4>1. j.plan.start \in Nat /\ j.plan.end \in Int /\ j.plan.start <= j.plan.end
        BY <1>0, <2>1 DEF JobOK, Planned, Finishing, PlanType
      <4> QED BY <4>1
    <3>4. /\ range = Archives!safe_delete_archived_data_range(j.plan.end, M)
          /\ \A q \in config.kinds : M[q] # Archives!NoPlan
          /\ \A s \in Nat : range.start <= s /\ s <= range.end =>
               s = j.plan.end \/ \E q \in config.kinds : M[q].start <= s /\ s <= M[q].end
      <4>1. range = Archives!safe_delete_archived_data_range(j.plan.end, M)
        BY DEF M
      <4> HIDE DEF range
      <4> QED BY <2>10, <3>1, <3>2, <3>3, <4>1, ReleaseFacts
    <3> HIDE DEF range
    <3>5. ASSUME NEW s \in ArchiveProduced, NEW t \in Archives!Tables, range.start <= s, s <= range.end PROVE Held(t, s)
      <4>1. s \in Nat
        BY ChainFacts
      <4>2. CASE s = j.plan.end
        BY <2>1, <3>3, <4>2 DEF Archived
      <4>3. CASE \E q \in config.kinds : M[q].start <= s /\ s <= M[q].end
        BY <3>2, <3>4, <4>3 DEF Archived
      <4> QED BY <3>4, <3>5, <4>1, <4>2, <4>3
    <3>6. Archived(range)
      BY <3>5 DEF Archived
    <3>7. r3.names = j.names /\ r3.plan = j.plan /\ r3.stage = "delete" /\ r3.range = range
      BY <1>0 DEF JobType
    <3> HIDE DEF r3
    <3>8. RunSafe(r3)
      BY <2>1, <2>6, <3>6, <3>7 DEF RunSafe, Validating, Exporting
    <3> QED BY <1>1, <2>0, <2>10, <3>8
  <2> QED BY <2>2, <2>8, <2>9, <2>10
<1>18. CASE Archives!DeleteTable(k)
  <2> DEFINE r1 == [j EXCEPT !.stage = "cleanup"]
             l == Tail(j.left)
             r2 == [j EXCEPT !.left = l]
  <2>0. UNCHANGED <<db, written>>
    BY <1>18, RunReach DEF Archives!DeleteTable, Archives!click, Archives!store
  <2>1. j.stage = "delete"
    BY <1>18 DEF Archives!DeleteTable, j
  <2>2. job' = [job EXCEPT ![k] = r1] \/ job' = [job EXCEPT ![k] = r2]
    BY <1>18 DEF Archives!DeleteTable, Archives!Go, j
  <2> HIDE DEF l
  <2>3. /\ Archived(j.plan) /\ Archived(j.range)
        /\ \A i \in 1 .. Len(j.names) : j.names[i] # Archives!NoPlan => Archived(j.names[i])
    BY <1>0, <2>1 DEF RunSafe, Finishing
  <2>4. /\ r1.names = j.names /\ r1.plan = j.plan /\ r1.stage = "cleanup"
        /\ r2.names = j.names /\ r2.plan = j.plan /\ r2.stage = "delete" /\ r2.range = j.range
    BY <1>0, <2>1 DEF JobType
  <2> HIDE DEF r1, r2
  <2>5. RunSafe(r1) /\ RunSafe(r2)
    BY <2>3, <2>4 DEF RunSafe, Validating, Exporting
  <2> QED BY <1>1, <2>0, <2>2, <2>5
<1>19. \/ Archives!StartRun(k) \/ Archives!PlanRun(k) \/ Archives!ReadBlockSlots(k) \/ Archives!FetchProducedSlots(k) \/ Archives!ReadMismatches(k)
       \/ Archives!RepairOvercounts(k) \/ Archives!Backfill(k) \/ Archives!PassGate(k) \/ Archives!StopAtGate(k) \/ Archives!RemoveBundle(k)
       \/ Archives!ExportTable(k) \/ Archives!PublishBundle(k) \/ Archives!WriteDoneMarker(k) \/ Archives!ListNames(k) \/ Archives!DeleteTable(k)
       \/ Archives!CleanupArchives(k) \/ Archives!FailRun(k)
  BY Zenon DEF Archives!Run
<1> QED BY <1>5, <1>6, <1>7, <1>8, <1>9, <1>10, <1>11, <1>12, <1>13, <1>14, <1>15, <1>16, <1>17,
   <1>18, <1>19, Zenon

\* What a step must keep for every deleted row to stay archived.
LEMMA DeleteKept ==
  ASSUME DeleteInv, config' = config, written \subseteq written', ingested \subseteq Archives!Tables \X ArchiveProduced,
         \A t \in Archives!Tables, s \in ArchiveProduced : Safe(t, s) => Safe(t, s)',
         \A t \in Archives!Tables, s \in ArchiveProduced : s \in mutations'[t] => s \in mutations[t] \/ Held(t, s)',
         \A s \in ArchiveProduced : Held("blocks_metadata", s)' =>
           Held("blocks_metadata", s) \/ Safe("transactions", s)',
         \A b \in bundles' : (b.manifest \/ b.done) /\ b.kind \in config.kinds =>
           (\E c \in bundles : (c.manifest \/ c.done) /\ Twin(b, c)) \/ Archived(b)',
         \A r \in ingested' : r \in ingested \/ r[2] \in db'[r[1]],
         \A k \in config.kinds : RunSafe(job[k])'
  PROVE  DeleteInv'
<1>1. \A t, s : Held(t, s) => Held(t, s)'
  BY ArchivedKept
<1>2. \A p : Archived(p) => Archived(p)'
  BY ArchivedKept
<1>3. (\A t \in Archives!Tables, s \in ArchiveProduced : s \in mutations[t] => Held(t, s))'
  BY <1>1 DEF DeleteInv
<1>4. (\A s \in ArchiveProduced : Held("blocks_metadata", s) => Safe("transactions", s))'
  BY DEF DeleteInv, Archives!Tables
<1>5. (\A b \in bundles : (b.manifest \/ b.done) /\ b.kind \in config.kinds => Archived(b))'
  <2> SUFFICES ASSUME NEW b \in bundles', b.manifest \/ b.done, b.kind \in config.kinds
               PROVE  Archived(b)'
    BY Zenon
  <2>1. CASE \E c \in bundles : (c.manifest \/ c.done) /\ Twin(b, c)
    <3>1. PICK c \in bundles : (c.manifest \/ c.done) /\ Twin(b, c)
      BY <2>1
    <3>2. Archived(c)
      BY <3>1 DEF DeleteInv, Twin
    <3>3. Archived(b)
      BY <3>1, <3>2, ArchivedTwin DEF Twin
    <3> QED BY <1>2, <3>3
  <2> QED BY <2>1
<1>6. (\A r \in ingested : Safe(r[1], r[2]))'
  <2> SUFFICES ASSUME NEW r \in ingested' PROVE Safe(r[1], r[2])'
    BY Zenon
  <2>1. CASE r \in ingested
    <3>1. Safe(r[1], r[2]) /\ r[1] \in Archives!Tables /\ r[2] \in ArchiveProduced
      BY <2>1 DEF DeleteInv
    <3> QED BY <3>1
  <2>2. CASE r[2] \in db'[r[1]]
    BY <2>2 DEF Safe
  <2> QED BY <2>1, <2>2
<1>7. (\A k \in config.kinds : RunSafe(job[k]))'
  OBVIOUS
<1> QED BY <1>3, <1>4, <1>5, <1>6, <1>7, Zenon DEF DeleteInv

\* A run's step.
LEMMA DeleteRun ==
  ASSUME Archives!ArchiverAssumption, ArchiveTypeOK, Archives!Validated, ~config.zero, DeleteInv, NEW k \in config.kinds,
         Answered(job[k]), Archives!Run(k)
  PROVE  DeleteInv'
<1>1. config' = config /\ job' = [job EXCEPT ![k] = job'[k]]
  BY RunJob
<1>2. /\ \A t \in Archives!Tables : db[t] \subseteq db'[t]
      /\ written \subseteq written'
      /\ \A t \in Archives!Tables, s \in ArchiveProduced : s \in mutations'[t] =>
           \/ s \in mutations[t]
           \/ job[k].stage = "delete" /\ job[k].range.start <= s /\ s <= job[k].range.end
      /\ \A r \in ingested' : r \in ingested \/ r[2] \in db'[r[1]]
  BY RunKeepsRows
<1>3. \A t, s : Held(t, s) => Held(t, s)'
  BY <1>1, <1>2, ArchivedKept
<1>4. \A t \in Archives!Tables, s \in ArchiveProduced : Safe(t, s) => Safe(t, s)'
  BY <1>2, <1>3 DEF Safe
<1>5. RunSafe(job[k]) /\ RunSafe(job[k])'
  BY RunSafeMoves DEF DeleteInv
<1>6. \A q \in config.kinds : RunSafe(job[q])'
  <2> SUFFICES ASSUME NEW q \in config.kinds, q # k PROVE RunSafe(job[q])'
    BY <1>5
  <2>1. job'[q] = job[q] /\ job[q] \in JobType
    BY <1>1, JobFacts DEF ArchiveTypeOK
  <2>2. RunSafe(job[q])
    BY DEF DeleteInv
  <2> QED BY <1>1, <1>2, <1>4, <2>1, <2>2, RunSafeKept
<1>7. \A t \in Archives!Tables, s \in ArchiveProduced : s \in mutations'[t] => s \in mutations[t] \/ Held(t, s)'
  <2> SUFFICES ASSUME NEW t \in Archives!Tables, NEW s \in ArchiveProduced, s \in mutations'[t], s \notin mutations[t]
               PROVE  Held(t, s)'
    BY Zenon
  <2>1. job[k].stage = "delete" /\ job[k].range.start <= s /\ s <= job[k].range.end
    BY <1>2
  <2>2. Archived(job[k].range)
    BY <1>5, <2>1 DEF RunSafe
  <2>3. Held(t, s)
    BY <2>1, <2>2 DEF Archived
  <2> QED BY <1>3, <2>3
<1>8. \A s \in ArchiveProduced : Held("blocks_metadata", s)' => Held("blocks_metadata", s) \/ Safe("transactions", s)'
  <2> SUFFICES ASSUME NEW s \in ArchiveProduced, Held("blocks_metadata", s)', ~Held("blocks_metadata", s)
               PROVE  Safe("transactions", s)'
    BY Zenon
  <2>1. PICK q \in config.kinds : <<q, "blocks_metadata", s>> \in written'
    BY <1>1 DEF Held
  <2>2. Archives!PublishBundle(k)
    BY <2>1, RunReach DEF Held
  <2>3. job[k].stage = "export" /\ written' = written \cup Archives!Rows(k, job[k].files)
    BY <2>2 DEF Archives!PublishBundle
  <2>4. <<q, "blocks_metadata", s>> \in Archives!Rows(k, job[k].files)
    BY <2>1, <2>3 DEF Held
  <2>5. s \in job[k].files["blocks_metadata"]
    BY <2>4 DEF Archives!Rows
  <2>6. s \in PlanRows(job[k])
    BY <1>5, <2>3, <2>5 DEF RunSafe, Archives!Tables
  <2>7. Safe("transactions", s)
    BY <1>5, <2>3, <2>6 DEF RunSafe, Exporting, Archives!Tables
  <2> QED BY <1>4, <2>7 DEF Archives!Tables
<1>9. \A b \in bundles' : (b.manifest \/ b.done) /\ b.kind \in config.kinds =>
        (\E c \in bundles : (c.manifest \/ c.done) /\ Twin(b, c)) \/ Archived(b)'
  <2> SUFFICES ASSUME NEW b \in bundles', b.manifest \/ b.done,
                      job'[k].stage \in Finishing /\ job'[k].plan = job[k].plan /\ Archives!IsPlanned(b, k)
               PROVE  Archived(b)'
    BY RunBundles, Zenon
  <2>1. Archived(job[k].plan)'
    BY <1>5 DEF RunSafe
  <2>2. b.start = job'[k].plan.start /\ b.end = job'[k].plan.end
    BY DEF Archives!IsPlanned
  <2> QED BY <2>1, <2>2 DEF Archived
<1>10. ingested \subseteq Archives!Tables \X ArchiveProduced
  BY DEF ArchiveTypeOK
<1> QED BY <1>1, <1>2, <1>4, <1>6, <1>7, <1>8, <1>9, <1>10, DeleteKept

\* Every step keeps it: what the ingestor writes is there, what ClickHouse removes was archived.
LEMMA DeleteStep ==
  ASSUME Archives!ArchiverAssumption, ArchiveTypeOK, Archives!Validated, ~config.zero, DeleteInv,
         \A k \in config.kinds : Answered(job[k]), Archives!Next
  PROVE  DeleteInv'
<1>0. /\ db \in [Archives!Tables -> SUBSET ArchiveProduced] /\ mutations \in [Archives!Tables -> SUBSET ArchiveProduced]
      /\ ingested \subseteq Archives!Tables \X ArchiveProduced /\ late \subseteq Archives!Tables \X ArchiveProduced
      /\ job \in [config.kinds -> JobType]
  BY DEF ArchiveTypeOK
<1>1. ASSUME NEW k \in config.kinds, Archives!Run(k) PROVE DeleteInv'
  BY <1>1, DeleteRun
<1>2. ASSUME UNCHANGED <<config, bundles, written>>, job' = job \/ \A q \in config.kinds : job'[q] = Archives!Idle,
             \A t \in Archives!Tables, s \in ArchiveProduced : s \in db[t] => s \in db'[t] \/ s \in mutations[t],
             \A t \in Archives!Tables : mutations'[t] \subseteq mutations[t],
             \A r \in ingested' : r \in ingested \/ r[2] \in db'[r[1]]
      PROVE  DeleteInv'
  <2>1. \A t, s : Held(t, s)' <=> Held(t, s)
    BY <1>2 DEF Held
  <2>2. \A t \in Archives!Tables, s \in ArchiveProduced : Safe(t, s) => Safe(t, s)'
    BY <1>2, <2>1 DEF Safe, DeleteInv
  <2>3. \A q \in config.kinds : RunSafe(job[q])'
    <3> SUFFICES ASSUME NEW q \in config.kinds PROVE RunSafe(job[q])'
      OBVIOUS
    <3>1. CASE job' = job
      <4>1. job'[q] = job[q] /\ job[q] \in JobType /\ RunSafe(job[q])
        BY <1>0, <3>1 DEF DeleteInv
      <4> QED BY <1>2, <2>2, <4>1, RunSafeKept
    <3>2. CASE job'[q] = Archives!Idle
      <4>1. job'[q].stage = "idle" /\ job'[q].names = <<>>
        BY <3>2, IdleFacts
      <4> QED BY <4>1 DEF RunSafe, Validating, Exporting, Finishing
    <3> QED BY <1>2, <3>1, <3>2
  <2>4. \A b \in bundles' : (b.manifest \/ b.done) /\ b.kind \in config.kinds =>
          (\E c \in bundles : (c.manifest \/ c.done) /\ Twin(b, c)) \/ Archived(b)'
    BY <1>2 DEF Twin
  <2> QED BY <1>0, <1>2, <2>1, <2>2, <2>3, <2>4, DeleteKept
<1>3. CASE Archives!RequestShutdown \/ Archives!StartServer
  BY <1>2, <1>3 DEF Archives!RequestShutdown, Archives!StartServer, Archives!click, Archives!store
<1>4. CASE Archives!StopServer
  BY <1>2, <1>4 DEF Archives!StopServer, Archives!click, Archives!store
<1>5. CASE Archives!Ingest
  <2>1. PICK r \in late : /\ db' = [db EXCEPT ![r[1]] = @ \cup {r[2]}]
                          /\ mutations' = [mutations EXCEPT ![r[1]] = @ \ {r[2]}]
                          /\ ingested' = ingested \cup {r}
    BY <1>5 DEF Archives!Ingest
  <2>2. r[1] \in Archives!Tables
    BY <1>0
  <2>3. \A t \in Archives!Tables, s \in ArchiveProduced : s \in db[t] => s \in db'[t]
    BY <1>0, <2>1, <2>2
  <2>4. \A t \in Archives!Tables : mutations'[t] \subseteq mutations[t]
    BY <1>0, <2>1, <2>2
  <2>5. r[2] \in db'[r[1]]
    BY <1>0, <2>1, <2>2
  <2>6. \A x \in ingested' : x \in ingested \/ x[2] \in db'[x[1]]
    BY <2>1, <2>5
  <2>7. UNCHANGED <<config, bundles, written, job>>
    BY <1>5 DEF Archives!Ingest, Archives!store, Archives!ctl
  <2> QED BY <1>2, <2>3, <2>4, <2>6, <2>7
<1>6. CASE Archives!Mutate
  <2>1. PICK t \in Archives!Tables : /\ db' = [db EXCEPT ![t] = @ \ mutations[t]]
                            /\ mutations' = [mutations EXCEPT ![t] = {}]
    BY <1>6 DEF Archives!Mutate
  <2>2. \A u \in Archives!Tables, s \in ArchiveProduced : s \in db[u] => s \in db'[u] \/ s \in mutations[u]
    BY <1>0, <2>1
  <2>3. \A u \in Archives!Tables : mutations'[u] \subseteq mutations[u]
    BY <1>0, <2>1
  <2>4. UNCHANGED <<config, bundles, written, job, ingested>>
    BY <1>6 DEF Archives!Mutate, Archives!store, Archives!ctl
  <2> QED BY <1>2, <2>2, <2>3, <2>4
<1> QED BY <1>1, <1>3, <1>4, <1>5, <1>6 DEF Archives!Next

\* Initially every row ingested is in ClickHouse, and the listed bundles are whole.
LEMMA DeleteInitial ==
  ASSUME Archives!ArchiverAssumption, Archives!Init
  PROVE  DeleteInv
<1>1. config \in ArchiveConfigs /\ db = [t \in Archives!Tables |-> {s \in ArchiveProduced : <<t, s>> \notin late}]
      /\ ingested = (Archives!Tables \X ArchiveProduced) \ late /\ mutations = [t \in Archives!Tables |-> {}]
      /\ bundles = config.before /\ job = [k \in config.kinds |-> Archives!Idle]
      /\ written = UNION {Archives!Rows(b.kind, b.files) : b \in {c \in config.before : c.manifest}}
  BY DEF Archives!Init
<1>2. \A t \in Archives!Tables, s \in ArchiveProduced : s \in mutations[t] => Held(t, s)
  BY <1>1
<1>3. ASSUME NEW b \in bundles, b.manifest, NEW t \in Archives!Tables, NEW s \in b.files[t], b.kind \in config.kinds,
             s \in ArchiveSlots
      PROVE  Held(t, s)
  <2>1. <<b.kind, t, s>> \in Archives!Rows(b.kind, b.files)
    BY <1>3 DEF Archives!Rows
  <2>2. <<b.kind, t, s>> \in written
    BY <1>1, <1>3, <2>1
  <2> QED BY <1>3, <2>2 DEF Held
<1>4. \A b \in bundles : b.done \in BOOLEAN /\ b.manifest \in BOOLEAN /\ (b.done => b.manifest)
                         /\ (b.manifest => Archives!Whole(b))
  BY <1>1 DEF Archives!ArchiverAssumption
<1>5. \A b \in bundles : (b.manifest \/ b.done) /\ b.kind \in config.kinds => Archived(b)
  <2> SUFFICES ASSUME NEW b \in bundles, b.manifest, b.kind \in config.kinds,
                      NEW s \in ArchiveProduced, NEW t \in Archives!Tables, b.start <= s, s <= b.end
               PROVE  Held(t, s)
    BY <1>4 DEF Archived
  <2>1. s \in ArchiveSlots /\ s \in b.files[t]
    BY <1>4, ChainFacts DEF Archives!Whole, Archives!Between
  <2> QED BY <1>3, <2>1
<1>6. \A r \in ingested : Safe(r[1], r[2])
  BY <1>1 DEF Safe
<1>7. \A k \in config.kinds : RunSafe(job[k])
  <2> SUFFICES ASSUME NEW k \in config.kinds PROVE RunSafe(job[k])
    OBVIOUS
  <2>1. job[k].stage = "idle" /\ job[k].names = <<>>
    BY <1>1, IdleFacts
  <2> QED BY <2>1 DEF RunSafe, Validating, Exporting, Finishing
<1>8. ASSUME NEW s \in ArchiveProduced, Held("blocks_metadata", s) PROVE Safe("transactions", s)
  <2>1. PICK k \in config.kinds : <<k, "blocks_metadata", s>> \in written
    BY <1>8 DEF Held
  <2>2. PICK b \in config.before : b.manifest /\ <<k, "blocks_metadata", s>> \in Archives!Rows(b.kind, b.files)
    BY <1>1, <2>1
  <2>3. b.kind = k /\ s \in ArchiveSlots /\ s \in b.files["blocks_metadata"]
    BY <2>2 DEF Archives!Rows
  <2>4. s \in Archives!Between(b.start, b.end)
    BY <1>1, <2>3 DEF Archives!ArchiverAssumption, Archives!Tables
  <2>5. s \in b.files["transactions"]
    BY <1>1, <1>4, <2>2, <2>4 DEF Archives!Whole, Archives!Tables
  <2> QED BY <1>1, <1>3, <2>2, <2>3, <2>5 DEF Safe, Archives!Tables
<1> QED BY <1>2, <1>5, <1>6, <1>7, <1>8 DEF DeleteInv

\* The part of the property that concerns deletions.
LEMMA DeleteShown ==
  ASSUME DeleteInv PROVE Archives!DeletedArchived
BY DEF DeleteInv, Archives!DeletedArchived, Safe, Held

-----------------------------------------------------------------------------
(* The newest bundle a kind lists is whole. *)

\* The bundles a cleanup removes are not the newest of their kind.
LEMMA ToDeleteFacts ==
  ASSUME Archives!ArchiverAssumption, ConfigOK, NEW k, NEW b \in Archives!ToDelete(k)
  PROVE  /\ b \in Archives!list_archives(k) /\ b \in bundles /\ b.kind = k
         /\ \E c \in Archives!list_archives(k) : c.end > b.end
<1> DEFINE more == {c \in Archives!list_archives(k) : c.end > b.end}
<1>1. config.keep # 0 /\ b \in Archives!list_archives(k) /\ Archives!Cardinality(more) >= config.keep /\ config.keep \in Nat
  BY ConfigFacts DEF Archives!ToDelete
<1>2. more # {}
  <2> SUFFICES ASSUME more = {} PROVE FALSE
    OBVIOUS
  <2>0. Cardinality(more) = 0
    BY FS_EmptySet
  <2>1. Archives!Cardinality(more) = 0
    BY <2>0 DEF Archives!Cardinality, Cardinality
  <2> HIDE DEF more
  <2> QED BY <1>1, <2>1
<1> QED BY <1>1, <1>2 DEF Archives!list_archives

\* A run changes the bundles of its own kind only.
LEMMA OthersListed ==
  ASSUME Archives!ArchiverAssumption, ArchiveTypeOK, NEW k, NEW q, q # k, Archives!Run(k)
  PROVE  Archives!list_archives(q)' = Archives!list_archives(q)
<1> DEFINE mine == {b \in bundles : b.kind = q}
<1>0. ASSUME {b \in bundles' : b.kind = q} = mine PROVE Archives!list_archives(q)' = Archives!list_archives(q)
  BY <1>0 DEF Archives!list_archives
<1>1. \A b \in bundles : b.kind = q => ~Archives!IsPlanned(b, k)
  BY DEF Archives!IsPlanned
<1>2. CASE UNCHANGED Archives!store
  BY <1>0, <1>2 DEF Archives!store
<1>3. CASE Archives!RemoveBundle(k)
  BY <1>0, <1>1, <1>3 DEF Archives!RemoveBundle
<1>4. CASE Archives!ExportTable(k)
  <2> DEFINE t == Head(job[k].left)
             F == [job[k].files EXCEPT ![t] = Archives!PlanSlots(k) \cap db[t]]
             new == [kind |-> k, start |-> job[k].plan.start, end |-> job[k].plan.end, files |-> F,
                     manifest |-> FALSE, done |-> FALSE]
  <2>1. bundles' = bundles \/ bundles' = (bundles \ {b \in bundles : Archives!IsPlanned(b, k)}) \cup {new}
    BY <1>4 DEF Archives!ExportTable
  <2> HIDE DEF F
  <2>2. new.kind = k
    OBVIOUS
  <2> HIDE DEF new
  <2> QED BY <1>0, <1>1, <2>1, <2>2
<1>5. CASE Archives!PublishBundle(k)
  <2> DEFINE new == [kind |-> k, start |-> job[k].plan.start, end |-> job[k].plan.end, files |-> job[k].files,
                     manifest |-> TRUE, done |-> FALSE]
  <2>1. bundles' = {b \in bundles : ~Archives!IsPlanned(b, k)} \cup {new}
    BY <1>5 DEF Archives!PublishBundle
  <2>2. new.kind = k
    OBVIOUS
  <2> HIDE DEF new
  <2> QED BY <1>0, <1>1, <2>1, <2>2
<1>6. CASE Archives!WriteDoneMarker(k)
  <2>1. bundles' = {IF Archives!IsPlanned(b, k) THEN [b EXCEPT !.done = TRUE] ELSE b : b \in bundles}
    BY <1>6 DEF Archives!WriteDoneMarker
  <2>2. \A b \in bundles : Archives!IsPlanned(b, k) => [b EXCEPT !.done = TRUE].kind = k
    BY DEF Archives!IsPlanned, ArchiveTypeOK, BundleOK, Bundle
  <2> QED BY <1>0, <1>1, <2>1, <2>2
<1>7. CASE Archives!CleanupArchives(k)
  <2>1. bundles' = bundles \ Archives!ToDelete(k)
    BY <1>7 DEF Archives!CleanupArchives
  <2>2. \A b \in Archives!ToDelete(k) : b.kind = k
    BY ToDeleteFacts DEF ArchiveTypeOK
  <2> QED BY <1>0, <2>1, <2>2
<1>8. CASE Archives!FailRun(k)
  <2>1. Archives!PartlyRemoved(k)
    BY <1>8 DEF Archives!FailRun
  <2>2. PICK gone \in SUBSET Archives!Doomed(k) :
          /\ gone \subseteq bundles /\ \A b \in gone : b.kind = k /\ BundleOK(b)
          /\ bundles \ gone \subseteq bundles'
          /\ \A r \in bundles' : r \in bundles \ gone \/ \E b \in gone : r \in Archives!Damaged(b)
    BY <2>1, RemovedFacts
  <2>3. \A b \in gone : \A r \in Archives!Damaged(b) : r.kind = k
    BY <2>2, DamagedFacts DEF Twin
  <2> QED BY <1>0, <2>2, <2>3
<1> QED BY <1>2, <1>3, <1>4, <1>5, <1>6, <1>7, <1>8, RunReach

\* A listing that keeps the name of a newest bundle releases no less, and its newest
\* bundles are whole.
LEMMA ListChange ==
  ASSUME Archives!ArchiverAssumption, ArchiveTypeOK, ArchiveTypeOK', config' = config, NEW k \in config.kinds,
         \A b \in Archives!Newest(k) : Archives!Whole(b),
         \A b \in Archives!list_archives(k)' :
           \/ Archives!Whole(b)
           \/ \E c \in Archives!list_archives(k) :
                c.start = b.start /\ c.end = b.end /\ (c.files = b.files \/ c \notin Archives!Newest(k)),
         \A c \in Archives!Newest(k) : \E b \in Archives!list_archives(k)' : c.end <= b.end
  PROVE  /\ \A x \in Int : ReleasedUpTo(k, x) => ReleasedUpTo(k, x)'
         /\ (\A b \in Archives!Newest(k) : Archives!Whole(b))'
<1> DEFINE L == Archives!list_archives(k)
           M == Archives!list_archives(k)'
<1>1. /\ \A b \in L : b.end \in Int
      /\ \A b \in M : b.end \in Int
  BY ChainFacts DEF ArchiveTypeOK, BundleOK, Bundle, Archives!list_archives
<1>2. \A b, c : Archives!Whole(c) /\ c.start = b.start /\ c.end = b.end /\ c.files = b.files => Archives!Whole(b)
  BY DEF Archives!Whole
<1>3. ASSUME L # {} PROVE \E c \in Archives!Newest(k) : \A b \in L : b.end <= c.end
  BY <1>3, LatestFacts DEF Archives!Newest
<1>4. ASSUME NEW c \in L PROVE \E b \in M : c.end <= b.end
  <2>1. PICK d \in Archives!Newest(k) : \A b \in L : b.end <= d.end
    BY <1>3
  <2>2. PICK b \in M : d.end <= b.end
    BY Zenon
  <2>3. d \in L
    BY DEF Archives!Newest
  <2>4. c.end \in Int /\ d.end \in Int /\ b.end \in Int /\ c.end <= d.end
    BY <1>1, <2>1, <2>3
  <2> QED BY <2>2, <2>4
<1>5. ASSUME NEW x \in Int, ReleasedUpTo(k, x) PROVE ReleasedUpTo(k, x)'
  <2>1. PICK c \in L : x <= c.end
    BY <1>5 DEF ReleasedUpTo
  <2>2. PICK b \in M : c.end <= b.end
    BY <1>4
  <2>3. x <= b.end
    BY <1>1, <2>1, <2>2
  <2> QED BY <2>3 DEF ReleasedUpTo
<1>6. Archives!Newest(k)' = {b \in M : \A d \in M : d.end <= b.end}
  BY DEF Archives!Newest
<1>7. ASSUME NEW b \in M, \A d \in M : d.end <= b.end PROVE Archives!Whole(b)
  <2>1. CASE \E c \in L : c.start = b.start /\ c.end = b.end /\ (c.files = b.files \/ c \notin Archives!Newest(k))
    <3>1. PICK c \in L : c.start = b.start /\ c.end = b.end /\ (c.files = b.files \/ c \notin Archives!Newest(k))
      BY <2>1
    <3>2. ASSUME NEW e \in L PROVE e.end <= c.end
      <4>1. PICK d \in M : e.end <= d.end
        BY <1>4
      <4>2. d.end <= b.end /\ d.end \in Int /\ e.end \in Int /\ b.end \in Int
        BY <1>1, <1>7
      <4> QED BY <3>1, <4>1, <4>2
    <3>3. c \in Archives!Newest(k)
      BY <3>2 DEF Archives!Newest
    <3> QED BY <1>2, <3>1, <3>3
  <2> QED BY <2>1
<1>8. \A b \in Archives!Newest(k)' : Archives!Whole(b)
  BY <1>6, <1>7
<1> QED BY <1>5, <1>8 DEF Archives!Whole

\* What the step of a run makes of the listing of its kind.
LEMMA ListedMoves ==
  ASSUME Archives!ArchiverAssumption, ArchiveTypeOK, ArchiveTypeOK', Archives!Validated, NEW k \in config.kinds, Archives!Run(k), WholeInv
  PROVE  /\ Archives!list_archives(k)' = Archives!list_archives(k) \/ (job'[k].stage \in {"idle", "mark", "names"} /\ job'[k].names = <<>>)
         /\ \A x \in Int : ReleasedUpTo(k, x) => ReleasedUpTo(k, x)'
         /\ (\A b \in Archives!Newest(k) : Archives!Whole(b))'
<1> DEFINE L == Archives!list_archives(k)
           M == Archives!list_archives(k)'
           Goal == /\ M = L \/ (job'[k].stage \in {"idle", "mark", "names"} /\ job'[k].names = <<>>)
                   /\ \A x \in Int : ReleasedUpTo(k, x) => ReleasedUpTo(k, x)'
                   /\ (\A b \in Archives!Newest(k) : Archives!Whole(b))'
<1>0. /\ config' = config /\ RunWhole(k, job[k]) /\ JobOK(job[k]) /\ job[k] \in JobType /\ DOMAIN job = config.kinds
      /\ \A b \in Archives!Newest(k) : Archives!Whole(b)
      /\ job[k].plan \in PlanType
  BY RunJob, JobFacts DEF WholeInv
<1>1. Archives!Newest(k) \subseteq L /\ L \subseteq bundles /\ \A b \in bundles : BundleOK(b) /\ b \in Bundle /\ b.end \in Int
  BY ChainFacts DEF Archives!Newest, Archives!list_archives, ArchiveTypeOK, BundleOK, Bundle
<1>2. ASSUME M = L PROVE Goal
  <2>1. \A b \in L : \E c \in L : c.start = b.start /\ c.end = b.end /\ c.files = b.files
    OBVIOUS
  <2>2. \A c \in Archives!Newest(k) : \E b \in M : c.end <= b.end
    BY <1>1, <1>2
  <2> QED BY <1>0, <1>2, <2>1, <2>2, ListChange
<1>3. ASSUME NEW b \in L, job[k].stage \in Exporting PROVE ~Archives!IsPlanned(b, k) /\ b.end < job[k].plan.end
  <2>1. b.end < job[k].plan.start
    BY <1>0, <1>3 DEF RunWhole
  <2>2. job[k].plan.start <= job[k].plan.end /\ job[k].plan.start \in Int /\ job[k].plan.end \in Int /\ b.end \in Int
    BY <1>0, <1>1, <1>3 DEF JobOK, Planned, PlanType
  <2>3. b.end < job[k].plan.end
    BY <2>1, <2>2
  <2> QED BY <2>2, <2>3 DEF Archives!IsPlanned
<1>4. ASSUME Archives!Finish(k) PROVE job'[k].stage = "idle" /\ job'[k].names = <<>>
  <2>1. job'[k] = Archives!Idle
    BY <1>0, <1>4 DEF Archives!Finish, Archives!Go, ArchiveTypeOK
  <2> QED BY <2>1, IdleFacts
<1>5. CASE UNCHANGED Archives!store
  BY <1>2, <1>5 DEF Archives!store, Archives!list_archives
<1>6. CASE Archives!RemoveBundle(k)
  <2>1. job[k].stage = "remove" /\ bundles' = {b \in bundles : ~Archives!IsPlanned(b, k)}
    BY <1>6 DEF Archives!RemoveBundle
  <2>2. M = L
    BY <1>3, <2>1 DEF Archives!list_archives, Exporting
  <2> QED BY <1>2, <2>2
<1>7. CASE Archives!ExportTable(k)
  <2> DEFINE t == Head(job[k].left)
             F == [job[k].files EXCEPT ![t] = Archives!PlanSlots(k) \cap db[t]]
             new == [kind |-> k, start |-> job[k].plan.start, end |-> job[k].plan.end, files |-> F,
                     manifest |-> FALSE, done |-> FALSE]
  <2>1. /\ job[k].stage = "export"
        /\ bundles' = bundles \/ bundles' = (bundles \ {b \in bundles : Archives!IsPlanned(b, k)}) \cup {new}
    BY <1>7 DEF Archives!ExportTable
  <2> HIDE DEF F
  <2>2. ~new.manifest
    OBVIOUS
  <2> HIDE DEF new
  <2>3. M = L
    BY <1>3, <2>1, <2>2 DEF Archives!list_archives, Exporting
  <2> QED BY <1>2, <2>3
<1>8. CASE Archives!PublishBundle(k)
  <2> DEFINE new == [kind |-> k, start |-> job[k].plan.start, end |-> job[k].plan.end, files |-> job[k].files,
                     manifest |-> TRUE, done |-> FALSE]
  <2>1. /\ job[k].stage = "export" /\ job[k].left = <<>> /\ bundles' = {b \in bundles : ~Archives!IsPlanned(b, k)} \cup {new}
        /\ job' = [job EXCEPT ![k] = [job[k] EXCEPT !.stage = "mark"]]
    BY <1>8 DEF Archives!PublishBundle, Archives!Go
  <2>2. new.kind = k /\ new.manifest /\ new.end = job[k].plan.end /\ new.start = job[k].plan.start
        /\ new.files = job[k].files
    OBVIOUS
  <2>3. Archives!Whole(new)
    <3>1. \A t \in Archives!Tables : PlanRows(job[k]) \subseteq job[k].files[t]
      BY <1>0, <2>1, RemainingFacts DEF RunWhole
    <3> QED BY <2>2, <3>1 DEF Archives!Whole, PlanRows
  <2> HIDE DEF new
  <2>4. M = L \cup {new}
    BY <1>3, <2>1, <2>2 DEF Archives!list_archives, Exporting
  <2>5. job'[k].stage = "mark" /\ job'[k].names = <<>>
    <3>1. job'[k] = [job[k] EXCEPT !.stage = "mark"]
      BY <1>0, <2>1
    <3>2. job[k].names = <<>>
      BY <1>0, <2>1 DEF JobOK, Planned, Exporting
    <3> QED BY <1>0, <3>1, <3>2 DEF JobType
  <2>6. \A b \in M : Archives!Whole(b) \/ \E c \in L : c.start = b.start /\ c.end = b.end /\ c.files = b.files
    BY <2>3, <2>4
  <2>7. \A c \in Archives!Newest(k) : \E b \in M : c.end <= b.end
    BY <1>1, <2>4
  <2> QED BY <1>0, <2>5, <2>6, <2>7, ListChange
<1>9. CASE Archives!WriteDoneMarker(k)
  <2> DEFINE f(b) == IF Archives!IsPlanned(b, k) THEN [b EXCEPT !.done = TRUE] ELSE b
  <2>1. job[k].stage = "mark" /\ bundles' = {f(b) : b \in bundles}
        /\ job' = [job EXCEPT ![k] = [job[k] EXCEPT !.stage = "names"]]
    BY <1>9 DEF Archives!WriteDoneMarker, Archives!Go
  <2>2. \A b \in bundles : /\ f(b).kind = b.kind /\ f(b).start = b.start /\ f(b).end = b.end
                           /\ f(b).files = b.files /\ f(b).manifest = b.manifest
    BY <1>1 DEF Bundle
  <2> HIDE DEF f
  <2>3. M = {f(b) : b \in L}
    BY <2>1, <2>2 DEF Archives!list_archives
  <2>4. job'[k].stage = "names" /\ job'[k].names = <<>>
    <3>1. job'[k] = [job[k] EXCEPT !.stage = "names"]
      BY <1>0, <2>1
    <3>2. job[k].names = <<>>
      BY <1>0, <2>1 DEF JobOK, Planned, Finishing
    <3> QED BY <1>0, <3>1, <3>2 DEF JobType
  <2>5. \A b \in M : \E c \in L : c.start = b.start /\ c.end = b.end /\ c.files = b.files
    <3> SUFFICES ASSUME NEW b \in M PROVE \E c \in L : c.start = b.start /\ c.end = b.end /\ c.files = b.files
      OBVIOUS
    <3>1. PICK c \in L : b = f(c)
      BY <2>3
    <3> QED BY <1>1, <2>2, <3>1
  <2>6. \A c \in Archives!Newest(k) : \E b \in M : c.end <= b.end
    <3> SUFFICES ASSUME NEW c \in Archives!Newest(k) PROVE \E b \in M : c.end <= b.end
      OBVIOUS
    <3>1. f(c) \in M /\ f(c).end = c.end /\ c.end \in Int
      BY <1>1, <2>2, <2>3
    <3>2. c.end <= f(c).end
      BY <3>1
    <3> QED BY <3>1, <3>2
  <2> QED BY <1>0, <2>4, <2>5, <2>6, ListChange
<1>10. ASSUME NEW c \in Archives!Newest(k) PROVE c \notin Archives!ToDelete(k)
  <2> SUFFICES ASSUME c \in Archives!ToDelete(k) PROVE FALSE
    OBVIOUS
  <2>1. PICK d \in L : d.end > c.end
    BY ToDeleteFacts DEF ArchiveTypeOK
  <2>2. d.end <= c.end
    BY DEF Archives!Newest
  <2> QED BY <1>1, <2>1, <2>2
<1>11. CASE Archives!CleanupArchives(k)
  <2>1. bundles' = bundles \ Archives!ToDelete(k) /\ Archives!Finish(k)
    BY <1>11 DEF Archives!CleanupArchives
  <2>2. M = L \ Archives!ToDelete(k)
    BY <2>1 DEF Archives!list_archives
  <2>3. \A b \in M : \E c \in L : c.start = b.start /\ c.end = b.end /\ c.files = b.files
    BY <2>2
  <2>4. \A c \in Archives!Newest(k) : \E b \in M : c.end <= b.end
    BY <1>1, <1>10, <2>2
  <2> QED BY <1>0, <1>4, <2>1, <2>3, <2>4, ListChange
<1>12. CASE Archives!FailRun(k)
  <2>0. Archives!Finish(k) /\ Archives!PartlyRemoved(k)
    BY <1>12 DEF Archives!FailRun
  <2>1. PICK gone \in SUBSET Archives!Doomed(k) :
          /\ gone \subseteq bundles /\ \A b \in gone : b.kind = k /\ BundleOK(b)
          /\ \A b \in gone : (job[k].stage = "remove" /\ Archives!IsPlanned(b, k)) \/ b \in Archives!ToDelete(k)
          /\ bundles \ gone \subseteq bundles'
          /\ \A r \in bundles' : r \in bundles \ gone \/ \E b \in gone : r \in Archives!Damaged(b)
    BY <2>0, RemovedFacts
  <2>2. ASSUME NEW c \in gone PROVE c \notin Archives!Newest(k)
    <3>1. CASE job[k].stage = "remove" /\ Archives!IsPlanned(c, k)
      BY <1>1, <1>3, <3>1 DEF Exporting
    <3> QED BY <1>10, <2>1, <3>1
  <2>3. \A d \in Archives!Newest(k) : \E b \in M : d.end <= b.end
    <3> SUFFICES ASSUME NEW d \in Archives!Newest(k) PROVE d \in M /\ d.end <= d.end
      OBVIOUS
    <3>1. d \in bundles \ gone /\ d.kind = k /\ d.manifest
      BY <1>1, <2>2 DEF Archives!list_archives
    <3>2. d \in M
      BY <2>1, <3>1 DEF Archives!list_archives
    <3>3. d.end \in Int
      BY <1>1
    <3> QED BY <3>2, <3>3
  <2>4. ASSUME NEW b \in M
        PROVE  \E d \in L : d.start = b.start /\ d.end = b.end /\ (d.files = b.files \/ d \notin Archives!Newest(k))
    <3>1. b \in bundles' /\ b.kind = k /\ b.manifest
      BY DEF Archives!list_archives
    <3>2. CASE b \in bundles
      <4>1. b \in L
        BY <3>1, <3>2 DEF Archives!list_archives
      <4> QED BY <4>1
    <3>3. CASE b \notin bundles
      <4>1. PICK c \in gone : b \in Archives!Damaged(c)
        BY <2>1, <3>1, <3>3
      <4>2. Twin(b, c) /\ c.manifest /\ c.kind = k /\ c \in bundles
        BY <2>1, <3>1, <4>1, DamagedFacts
      <4>3. c \in L /\ c \notin Archives!Newest(k)
        BY <2>2, <4>2 DEF Archives!list_archives
      <4> QED BY <4>2, <4>3 DEF Twin
    <3> QED BY <3>2, <3>3
  <2> QED BY <1>0, <1>4, <2>0, <2>3, <2>4, ListChange
<1> QED BY <1>5, <1>6, <1>7, <1>8, <1>9, <1>11, <1>12, RunReach

\* A run whose listing does not change keeps what it knows: a row that a mutation may
\* remove lies at or below the end of every kind's last bundle, so before its range.
LEMMA RunWholeKept ==
  ASSUME Archives!ArchiverAssumption, ArchiveTypeOK, NEW q \in config.kinds, NEW r \in JobType, job'[q] = r, config' = config,
         Archives!list_archives(q)' = Archives!list_archives(q),
         \A p \in config.kinds : \A x \in Int : ReleasedUpTo(p, x) => ReleasedUpTo(p, x)',
         \A t \in Archives!Tables, s \in ArchiveProduced : s \in db[t] => s \in db'[t] \/ s \in mutations[t],
         \A t \in Archives!Tables : \A s \in mutations[t] : ReleasedUpTo(q, s),
         Len(r.names) <= Len(config.order),
         RunWhole(q, r)
  PROVE  RunWhole(q, job[q])'
<1> DEFINE A == r.stage \in Validating \cup Exporting => \A b \in Archives!list_archives(q) : b.end < r.plan.start
           B == r.stage \in {"rpc", "counts"} =>
                  r.report.blocks \subseteq Archives!Between(r.plan.start, r.plan.end) \cap db["blocks_metadata"]
           C == r.stage \in {"repair", "backfill", "gate"} /\ ~Archives!blocks_archive(r.report) =>
                  \A t \in Archives!Tables : PlanRows(r) \subseteq db[t]
           D == r.stage \in Exporting => \A t \in Archives!Tables : PlanRows(r) \subseteq db[t]
           E == r.stage = "export" => \A t \in Archives!Tables : t \in Ahead(r.left) \/ PlanRows(r) \subseteq r.files[t]
           F == \A i \in 1 .. Len(r.names) : r.names[i] # Archives!NoPlan => ReleasedUpTo(config.order[i], r.names[i].end)
           G == r.stage = "delete" => \A p \in config.kinds : ReleasedUpTo(p, r.range.end)
<1>0. A /\ B /\ C /\ D /\ E /\ F /\ G
  BY DEF RunWhole
<1>1. /\ r.report \in Report /\ r.plan \in PlanType /\ r.names \in Seq(PlanType) /\ r.range \in PlanType
      /\ r.plan.start \in Nat
  BY DEF JobType, PlanType
<1>2. ASSUME r.stage \in Validating \cup Exporting, NEW s \in PlanRows(r), NEW t \in Archives!Tables, s \in db[t]
      PROVE  s \in db'[t]
  <2>1. s \in ArchiveProduced /\ r.plan.start <= s /\ s \in Nat
    BY <1>2, ChainFacts DEF PlanRows, Archives!Between
  <2>2. s \notin mutations[t]
    <3> SUFFICES ASSUME s \in mutations[t] PROVE FALSE
      OBVIOUS
    <3>1. PICK b \in Archives!list_archives(q) : s <= b.end
      BY DEF ReleasedUpTo
    <3>2. b.end < r.plan.start
      BY <1>0, <1>2
    <3>3. b.end \in Int
      BY ChainFacts DEF Archives!list_archives, ArchiveTypeOK, BundleOK, Bundle
    <3> QED BY <1>1, <2>1, <3>1, <3>2, <3>3
  <2> QED BY <1>2, <2>1, <2>2
<1>3. PlanRows(r)' = PlanRows(r) /\ (Archives!blocks_archive(r.report)' <=> Archives!blocks_archive(r.report))
  BY DEF PlanRows, Archives!blocks_archive, Archives!has_data_warnings, Archives!missing_blocks
<1>4. {"rpc", "counts", "repair", "backfill", "gate"} \subseteq Validating \cup Exporting
  BY DEF Validating
<1>5. A'
  BY <1>0
<1>6. B'
  <2> SUFFICES ASSUME r.stage \in {"rpc", "counts"}, NEW s \in r.report.blocks
               PROVE  s \in Archives!Between(r.plan.start, r.plan.end) /\ s \in db'["blocks_metadata"]
    BY DEF Archives!Between
  <2>1. s \in Archives!Between(r.plan.start, r.plan.end) /\ s \in db["blocks_metadata"] /\ s \in ArchiveProduced
    BY <1>0, <1>1 DEF Report
  <2>2. s \in PlanRows(r)
    BY <2>1 DEF PlanRows
  <2> QED BY <1>2, <1>4, <2>1, <2>2 DEF Archives!Tables
<1>7. C'
  <2> SUFFICES ASSUME r.stage \in {"repair", "backfill", "gate"}, ~Archives!blocks_archive(r.report),
                      NEW t \in Archives!Tables, NEW s \in PlanRows(r)
               PROVE  s \in db'[t]
    BY <1>3
  <2>1. s \in db[t]
    BY <1>0
  <2> QED BY <1>2, <1>4, <2>1
<1>8. D'
  BY <1>0, <1>2, <1>3
<1>9. E'
  BY <1>0, <1>3
<1>10. F'
  <2> SUFFICES ASSUME NEW i \in 1 .. Len(r.names), r.names[i] # Archives!NoPlan
               PROVE  ReleasedUpTo(config.order[i], r.names[i].end)'
    OBVIOUS
  <2>1. r.names[i] \in PlanType
    BY <1>1
  <2>2. r.names[i].end \in Int
    BY <2>1 DEF PlanType
  <2>3. config.order[i] \in config.kinds
    <3>1. config.order \in Seq(config.kinds) /\ \A n \in 1 .. Len(config.order) : config.order[n] \in config.kinds
      BY ConfigFacts DEF ArchiveTypeOK
    <3>2. Len(config.order) \in Nat /\ Len(r.names) \in Nat
      BY <1>1, <3>1
    <3>3. i \in 1 .. Len(config.order)
      BY <3>2
    <3> QED BY <3>1, <3>3
  <2>4. ReleasedUpTo(config.order[i], r.names[i].end)
    BY <1>0
  <2>5. PICK p \in config.kinds : p = config.order[i]
    BY <2>3
  <2>6. ReleasedUpTo(p, r.names[i].end)'
    BY <2>2, <2>4, <2>5
  <2> QED BY <2>5, <2>6
<1>11. G'
  <2>1. r.range.end \in Int
    BY <1>1 DEF PlanType
  <2> QED BY <1>0, <2>1
<1> QED BY <1>5, <1>6, <1>7, <1>8, <1>9, <1>10, <1>11 DEF RunWhole

\* A run that is idle, or has just published, claims nothing of the listing.
LEMMA RunWholeIdle ==
  ASSUME NEW k, job'[k].stage \in {"idle", "bounds", "mark", "names"}, job'[k].names = <<>>
  PROVE  RunWhole(k, job[k])'
BY DEF RunWhole, Validating, Exporting

\* What the acting run knows after its step.
LEMMA RunWholeMoves ==
  ASSUME Archives!ArchiverAssumption, ArchiveTypeOK, ArchiveTypeOK', Archives!Validated, config.continue, WholeInv, NEW k \in config.kinds,
         Answered(job[k]), Archives!Run(k)
  PROVE  RunWhole(k, job[k])'
<1> DEFINE j == job[k]
<1>0. /\ j \in JobType /\ JobOK(j) /\ DOMAIN job = config.kinds /\ j.plan \in PlanType /\ j.report \in Report
      /\ j.left \in Remaining /\ j.names \in Seq(PlanType) /\ j.range \in PlanType
      /\ j.files \in [Archives!Tables -> SUBSET ArchiveSlots] /\ j.bounds \in [earliest : Nat, latest : -1 .. ChainEnd]
      /\ ConfigOK /\ RunWhole(k, j) /\ config' = config /\ JobOK(job[k])'
  BY JobFacts, RunJob DEF ArchiveTypeOK, WholeInv
<1>1. ASSUME NEW r, job' = [job EXCEPT ![k] = r], RunWhole(k, r), Archives!list_archives(k)' = Archives!list_archives(k)
      PROVE  RunWhole(k, job[k])'
  <2>1. job'[k] = r
    BY <1>0, <1>1
  <2>2. r \in JobType /\ Len(r.names) <= Len(config.order)
    BY <1>0, <2>1 DEF JobOK, JobType, PlanType, Report, ChainEnd
  <2>3. ASSUME NEW p \in config.kinds, NEW x \in Int, ReleasedUpTo(p, x) PROVE ReleasedUpTo(p, x)'
    <3>1. CASE p = k
      BY <2>3, <3>1, ListedMoves
    <3>2. CASE p # k
      BY <2>3, <3>2, OthersListed DEF ReleasedUpTo
    <3> QED BY <3>1, <3>2
  <2>4. \A t \in Archives!Tables, s \in ArchiveProduced : s \in db[t] => s \in db'[t] \/ s \in mutations[t]
    BY RunKeepsRows
  <2>5. \A t \in Archives!Tables : \A s \in mutations[t] : ReleasedUpTo(k, s)
    BY DEF WholeInv
  <2> QED BY <1>0, <1>1, <2>1, <2>2, <2>3, <2>4, <2>5, RunWholeKept
<1>2. ASSUME UNCHANGED Archives!store PROVE Archives!list_archives(k)' = Archives!list_archives(k)
  BY <1>2 DEF Archives!store, Archives!list_archives
<1>3. ASSUME Archives!Finish(k) PROVE RunWhole(k, job[k])'
  <2>1. job'[k] = Archives!Idle
    BY <1>0, <1>3 DEF Archives!Finish, Archives!Go
  <2> QED BY <2>1, IdleFacts, RunWholeIdle
<1> HIDE DEF j
<1>5. CASE Archives!StartRun(k)
  <2> DEFINE bd == [earliest |-> Archives!Min(db["transactions"]), latest |-> Archives!Max(db["transactions"])]
             r == [Archives!Idle EXCEPT !.stage = "bounds", !.bounds = bd]
  <2>1. UNCHANGED Archives!store /\ (job' = job \/ job' = [job EXCEPT ![k] = r])
    BY <1>5 DEF Archives!StartRun, Archives!Go
  <2>2. CASE job' = job
    <3>1. job' = [job EXCEPT ![k] = j]
      BY <1>0, <2>2 DEF j, ArchiveTypeOK
    <3> QED BY <1>0, <1>1, <1>2, <2>1, <3>1
  <2>3. CASE job' = [job EXCEPT ![k] = r]
    <3> HIDE DEF bd
    <3>1. r.stage = "bounds" /\ r.names = <<>>
      BY DEF Archives!Idle
    <3> HIDE DEF r
    <3>2. job'[k] = r
      BY <1>0, <2>3
    <3> QED BY <3>1, <3>2, RunWholeIdle
  <2> QED BY <2>1, <2>2, <2>3
<1>6. CASE Archives!PlanRun(k)
  <2> DEFINE last == Archives!latest_archive_name(k)
             p == Archives!plan_next_archive(k, j.bounds, last)
             done == Archives!archive_has_done_marker(k, p)
             r1 == [j EXCEPT !.stage = "names", !.plan = p]
             r2 == [j EXCEPT !.stage = "blocks", !.plan = p]
  <2>0. UNCHANGED Archives!store
    BY <1>6 DEF Archives!PlanRun
  <2>1. config.range = Archives!NoPlan /\ j.stage = "bounds"
    BY <1>0, <1>6, ConfigFacts DEF Archives!Validated, Archives!PlanRun, j
  <2>2. Archives!Finish(k) \/ job' = [job EXCEPT ![k] = r1] \/ (p # Archives!NoPlan /\ job' = [job EXCEPT ![k] = r2])
    <3>1. CASE p = Archives!NoPlan
      BY <1>6, <2>1, <3>1 DEF Archives!PlanRun, j, Archives!Go
    <3>2. CASE p # Archives!NoPlan /\ done /\ config.dry
      BY <1>6, <2>1, <3>2 DEF Archives!PlanRun, j, Archives!Go
    <3>3. CASE p # Archives!NoPlan /\ done /\ ~config.dry
      BY <1>6, <2>1, <3>3 DEF Archives!PlanRun, j, Archives!Go
    <3>4. CASE p # Archives!NoPlan /\ ~done
      BY <1>6, <2>1, <3>4 DEF Archives!PlanRun, j, Archives!Go
    <3> QED BY <3>1, <3>2, <3>3, <3>4
  <2>3. j.names = <<>>
    BY <1>0, <2>1 DEF JobOK
  <2>4. CASE job' = [job EXCEPT ![k] = r1]
    <3> HIDE DEF p
    <3>1. r1.stage = "names" /\ r1.names = <<>>
      BY <1>0, <2>3 DEF JobType
    <3> HIDE DEF r1
    <3>2. job'[k] = r1
      BY <1>0, <2>4
    <3> QED BY <3>1, <3>2, RunWholeIdle
  <2>5. CASE p # Archives!NoPlan /\ job' = [job EXCEPT ![k] = r2]
    <3>1. /\ last \in PlanType /\ (last = Archives!NoPlan => Archives!list_archives(k) = {})
          /\ last # Archives!NoPlan => \E b \in Archives!Newest(k) : last.start = b.start /\ last.end = b.end
      BY LatestFacts
    <3> HIDE DEF last
    <3>2. p \in PlanType /\ p.start \in Nat /\ (last # Archives!NoPlan => last.end < p.start)
      <4>1. p \in PlanType /\ (last # Archives!NoPlan => last.end < p.start)
        BY <1>0, <2>5, <3>1, PlanFacts
      <4> QED BY <4>1 DEF PlanType
    <3> HIDE DEF p
    <3>3. ASSUME NEW b \in Archives!list_archives(k) PROVE b.end < p.start
      <4>1. PICK d \in Archives!Newest(k) : last.end = d.end
        BY <3>1
      <4>2. b.end <= d.end /\ d \in Archives!list_archives(k)
        BY DEF Archives!Newest
      <4>3. b.end \in Int /\ d.end \in Int
        BY <4>2, ChainFacts DEF Archives!list_archives, ArchiveTypeOK, BundleOK, Bundle
      <4> QED BY <3>1, <3>2, <4>1, <4>2, <4>3
    <3>4. r2.stage = "blocks" /\ r2.names = <<>> /\ r2.plan = p
      BY <1>0, <2>3 DEF JobType
    <3> HIDE DEF r2
    <3>5. RunWhole(k, r2)
      BY <3>3, <3>4 DEF RunWhole, Exporting
    <3> QED BY <1>1, <1>2, <2>0, <2>5, <3>5
  <2> QED BY <1>3, <2>2, <2>4, <2>5
<1>7. ASSUME j.stage \in Validating \cup Exporting
      PROVE  j.names = <<>> /\ \A b \in Archives!list_archives(k) : b.end < j.plan.start
  BY <1>0, <1>7 DEF JobOK, RunWhole, Validating, Exporting, Planned
<1>8. CASE Archives!ReadBlockSlots(k)
  <2> DEFINE rep == [Archives!NoReport EXCEPT !.blocks = Archives!PlanSlots(k) \cap db["blocks_metadata"]]
             r == [j EXCEPT !.stage = "rpc", !.report = rep]
  <2>1. j.stage = "blocks" /\ job' = [job EXCEPT ![k] = r] /\ UNCHANGED Archives!store
    BY <1>8 DEF Archives!ReadBlockSlots, Archives!Go, j
  <2>2. rep.blocks = Archives!Between(j.plan.start, j.plan.end) \cap db["blocks_metadata"]
    BY DEF Archives!NoReport, Archives!PlanSlots, j
  <2> HIDE DEF rep
  <2>3. r.stage = "rpc" /\ r.report = rep /\ r.names = j.names /\ r.plan = j.plan
    BY <1>0 DEF JobType
  <2> HIDE DEF r
  <2>4. RunWhole(k, r)
    BY <1>7, <2>1, <2>2, <2>3 DEF RunWhole, Exporting, Validating
  <2> QED BY <1>1, <1>2, <2>1, <2>4
<1>9. CASE Archives!FetchProducedSlots(k)
  <2>1. j.stage = "rpc" /\ UNCHANGED Archives!store
    BY <1>9 DEF Archives!FetchProducedSlots, j
  <2>2. PICK fails \in BOOLEAN :
          job' = [job EXCEPT ![k] = [j EXCEPT !.stage = "counts", !.report.error = fails,
                    !.report.produced = IF fails THEN {} ELSE Archives!PlanSlots(k) \cap ArchiveProduced]]
    BY <1>9 DEF Archives!FetchProducedSlots, Archives!Go, j
  <2> DEFINE P == IF fails THEN {} ELSE Archives!PlanSlots(k) \cap ArchiveProduced
             r == [j EXCEPT !.stage = "counts", !.report.error = fails, !.report.produced = P]
  <2>3. job' = [job EXCEPT ![k] = r]
    BY <2>2
  <2> HIDE DEF P
  <2>4. r.stage = "counts" /\ r.report.blocks = j.report.blocks /\ r.names = j.names /\ r.plan = j.plan
    BY <1>0 DEF JobType, Report
  <2>5. j.report.blocks \subseteq Archives!Between(j.plan.start, j.plan.end) \cap db["blocks_metadata"]
    BY <1>0, <2>1 DEF RunWhole
  <2> HIDE DEF r
  <2>6. RunWhole(k, r)
    BY <1>7, <2>1, <2>4, <2>5 DEF RunWhole, Exporting, Validating
  <2> QED BY <1>1, <1>2, <2>1, <2>3, <2>6
<1>10. CASE Archives!ReadMismatches(k)
  <2> DEFINE U == Archives!transaction_undercounts(Archives!PlanSlots(k))
             V == Archives!transaction_overcounts(Archives!PlanSlots(k))
             rep == [j.report EXCEPT !.under = U, !.over = V]
             st == Archives!NextStage(j.round, rep)
             r == [j EXCEPT !.report = rep, !.stage = st]
  <2>1. j.stage = "counts" /\ job' = [job EXCEPT ![k] = r] /\ UNCHANGED Archives!store
    BY <1>10 DEF Archives!ReadMismatches, Archives!Go, j
  <2>2. st \in {"repair", "backfill", "gate"}
    BY DEF Archives!NextStage
  <2>3. U = (Archives!PlanSlots(k) \cap db["blocks_metadata"]) \ db["transactions"]
    BY DEF Archives!transaction_undercounts
  <2> HIDE DEF U, V
  <2>4. /\ rep.blocks = j.report.blocks /\ rep.produced = j.report.produced /\ rep.error = j.report.error
        /\ rep.under = U
    BY <1>0 DEF Report
  <2> HIDE DEF rep, st
  <2>5. r.stage = st /\ r.report = rep /\ r.names = j.names /\ r.plan = j.plan
    BY <1>0 DEF JobType
  <2> HIDE DEF r
  <2>6. PlanRows(r) = PlanRows(j) /\ PlanRows(j) = ArchiveProduced \cap Archives!PlanSlots(k)
    BY <2>5 DEF PlanRows, Archives!PlanSlots, j
  <2>7. ASSUME ~Archives!blocks_archive(rep), NEW t \in Archives!Tables, NEW s \in PlanRows(j) PROVE s \in db[t]
    <3>1. ~rep.error /\ Archives!missing_blocks(rep) = {} /\ rep.under = {}
      BY <2>7 DEF Archives!blocks_archive, Archives!has_data_warnings, Archives!Validated
    <3>2. s \in j.report.produced
      BY <2>1, <2>4, <3>1 DEF Answered, j
    <3>3. s \in j.report.blocks
      BY <2>4, <3>1, <3>2 DEF Archives!missing_blocks
    <3>4. s \in db["blocks_metadata"]
      BY <1>0, <2>1, <3>3 DEF RunWhole
    <3>5. s \in db["transactions"]
      BY <2>3, <2>4, <2>6, <3>1, <3>4
    <3> QED BY <3>4, <3>5 DEF Archives!Tables
  <2>8. RunWhole(k, r)
    BY <1>7, <2>1, <2>2, <2>5, <2>6, <2>7 DEF RunWhole, Exporting, Validating
  <2> QED BY <1>1, <1>2, <2>1, <2>8
<1>11. CASE Archives!RepairOvercounts(k) \/ Archives!Backfill(k)
  <2>1. PICK w \in {"repaired", "backfilled"} :
          job' = [job EXCEPT ![k] = [j EXCEPT !.stage = "blocks", !.round = w]]
    BY <1>11 DEF Archives!RepairOvercounts, Archives!Backfill, Archives!Go, j
  <2> DEFINE r == [j EXCEPT !.stage = "blocks", !.round = w]
  <2>2. j.stage \in {"repair", "backfill"} /\ UNCHANGED Archives!store
    BY <1>11 DEF Archives!RepairOvercounts, Archives!Backfill, j
  <2>3. r.stage = "blocks" /\ r.names = j.names /\ r.plan = j.plan
    BY <1>0 DEF JobType
  <2> HIDE DEF r
  <2>4. RunWhole(k, r)
    BY <1>7, <2>2, <2>3 DEF RunWhole, Exporting, Validating
  <2>5. job' = [job EXCEPT ![k] = r]
    BY <2>1 DEF r
  <2> QED BY <1>1, <1>2, <2>2, <2>4, <2>5
<1>12. CASE Archives!PassGate(k)
  <2> DEFINE r == [j EXCEPT !.stage = "remove"]
  <2>1. j.stage = "gate" /\ job' = [job EXCEPT ![k] = r] /\ ~Archives!blocks_archive(j.report) /\ UNCHANGED Archives!store
    BY <1>12 DEF Archives!PassGate, Archives!Go, j, Archives!Validated
  <2>2. r.stage = "remove" /\ r.names = j.names /\ r.plan = j.plan
    BY <1>0 DEF JobType
  <2>3. \A t \in Archives!Tables : PlanRows(j) \subseteq db[t]
    BY <1>0, <2>1 DEF RunWhole
  <2>4. PlanRows(r) = PlanRows(j)
    BY <2>2 DEF PlanRows
  <2> HIDE DEF r
  <2>5. RunWhole(k, r)
    BY <1>7, <2>1, <2>2, <2>3, <2>4 DEF RunWhole, Validating
  <2> QED BY <1>1, <1>2, <2>1, <2>5
<1>13. CASE Archives!StopAtGate(k) \/ Archives!CleanupArchives(k) \/ Archives!FailRun(k)
  BY <1>3, <1>13 DEF Archives!StopAtGate, Archives!CleanupArchives, Archives!FailRun
<1>14. ASSUME j.stage \in Exporting, Archives!RemoveBundle(k) \/ Archives!ExportTable(k)
       PROVE  Archives!list_archives(k)' = Archives!list_archives(k)
  <2>1. job'[k].stage = "export"
    <3>1. job'[k] = [job[k] EXCEPT !.stage = "export", !.left = Archives!archive_tables]
          \/ (job[k].stage = "export" /\ job'[k] = [job[k] EXCEPT !.left = Tail(@),
                 !.files = [job[k].files EXCEPT ![Head(job[k].left)] = Archives!PlanSlots(k) \cap db[Head(job[k].left)]]])
      BY <1>0, <1>14 DEF Archives!RemoveBundle, Archives!ExportTable, Archives!Go
    <3> QED BY <1>0, <3>1 DEF JobType, j
  <2> QED BY <2>1, ListedMoves
<1>15. CASE Archives!RemoveBundle(k)
  <2> DEFINE r == [j EXCEPT !.stage = "export", !.left = Archives!archive_tables]
  <2>1. j.stage = "remove" /\ job' = [job EXCEPT ![k] = r]
    BY <1>15 DEF Archives!RemoveBundle, Archives!Go, j
  <2>2. r.stage = "export" /\ r.names = j.names /\ r.plan = j.plan /\ r.left = Archives!archive_tables
    BY <1>0 DEF JobType
  <2>3. \A t \in Archives!Tables : PlanRows(j) \subseteq db[t]
    BY <1>0, <2>1 DEF RunWhole, Exporting
  <2>4. PlanRows(r) = PlanRows(j)
    BY <2>2 DEF PlanRows
  <2> HIDE DEF r
  <2>5. RunWhole(k, r)
    BY <1>7, <2>1, <2>2, <2>3, <2>4, RemainingFacts DEF RunWhole, Validating, Exporting
  <2> QED BY <1>1, <1>14, <1>15, <2>1, <2>5 DEF Exporting
<1>16. CASE Archives!ExportTable(k)
  <2> DEFINE t == Head(j.left)
             G == Archives!PlanSlots(k) \cap db[t]
             F == [j.files EXCEPT ![t] = G]
             l == Tail(j.left)
             r == [j EXCEPT !.left = l, !.files = F]
  <2>1. j.stage = "export" /\ j.left # <<>> /\ job' = [job EXCEPT ![k] = r]
    BY <1>16 DEF Archives!ExportTable, Archives!Go, j
  <2>2. t \in Archives!Tables /\ Ahead(l) = Ahead(j.left) \ {t}
    BY <1>0, <2>1, RemainingFacts
  <2>3. /\ \A u \in Archives!Tables : PlanRows(j) \subseteq db[u]
        /\ \A u \in Archives!Tables : u \in Ahead(j.left) \/ PlanRows(j) \subseteq j.files[u]
    BY <1>0, <2>1 DEF RunWhole, Exporting
  <2>4. PlanRows(j) \subseteq G
    BY <2>2, <2>3 DEF PlanRows, Archives!PlanSlots, j
  <2> HIDE DEF t, G, l
  <2>5. \A u \in Archives!Tables : F[u] = IF u = t THEN G ELSE j.files[u]
    BY <1>0, <2>2
  <2> HIDE DEF F
  <2>6. r.stage = "export" /\ r.names = j.names /\ r.files = F /\ r.plan = j.plan /\ r.left = l
    BY <1>0, <2>1 DEF JobType
  <2>7. PlanRows(r) = PlanRows(j)
    BY <2>6 DEF PlanRows
  <2>8. \A u \in Archives!Tables : u \in Ahead(l) \/ PlanRows(j) \subseteq F[u]
    BY <2>2, <2>3, <2>4, <2>5
  <2> HIDE DEF r
  <2>9. RunWhole(k, r)
    BY <1>7, <2>1, <2>3, <2>6, <2>7, <2>8 DEF RunWhole, Validating, Exporting
  <2> QED BY <1>1, <1>14, <1>16, <2>1, <2>9 DEF Exporting
<1>17. CASE Archives!PublishBundle(k) \/ Archives!WriteDoneMarker(k)
  <2>1. PICK w \in {"mark", "names"} : job' = [job EXCEPT ![k] = [j EXCEPT !.stage = w]]
    BY <1>17 DEF Archives!PublishBundle, Archives!WriteDoneMarker, Archives!Go, j
  <2>2. j.stage \in {"export", "mark"}
    BY <1>17 DEF Archives!PublishBundle, Archives!WriteDoneMarker, j
  <2>3. j.names = <<>>
    BY <1>0, <2>2 DEF JobOK, Planned, Exporting, Finishing
  <2>4. job'[k].stage = w /\ job'[k].names = <<>>
    BY <1>0, <2>1, <2>3 DEF JobType
  <2> QED BY <2>4, RunWholeIdle
<1>18. CASE Archives!ListNames(k)
  <2>0. UNCHANGED Archives!store
    BY <1>18 DEF Archives!ListNames
  <2>1. j.stage = "names" /\ Len(j.names) < Len(config.order)
    BY <1>0, <1>18 DEF Archives!ListNames, JobOK, j
  <2> DEFINE kind == config.order[Len(j.names) + 1]
             n == Archives!latest_archive_name(kind)
             N == Append(j.names, n)
             range == Archives!safe_delete_archived_data_range(j.plan.end, NamesByKind(N))
             r1 == [j EXCEPT !.stage = "cleanup"]
             r2 == [j EXCEPT !.names = N]
             r3 == [j EXCEPT !.stage = "delete", !.range = range, !.left = Archives!archive_tables]
  <2>2. \/ job' = [job EXCEPT ![k] = r1]
        \/ Len(N) < Len(config.order) /\ job' = [job EXCEPT ![k] = r2]
        \/ ~(Len(N) < Len(config.order)) /\ range # Archives!NoPlan /\ job' = [job EXCEPT ![k] = r3]
    BY <1>18 DEF Archives!ListNames, Archives!Go, j, NamesByKind
  <2>3. Len(j.names) \in Nat /\ \A i \in 1 .. Len(j.names) : j.names[i] # Archives!NoPlan => ReleasedUpTo(config.order[i], j.names[i].end)
    BY <1>0 DEF RunWhole
  <2>4. n \in PlanType /\ (n # Archives!NoPlan => ReleasedUpTo(kind, n.end) /\ n.start <= n.end)
    <3> HIDE DEF kind
    <3>1. CASE n = Archives!NoPlan
      BY <3>1, LatestFacts
    <3>2. CASE n # Archives!NoPlan
      <4>1. PICK b \in Archives!Newest(kind) : n.start = b.start /\ n.end = b.end /\ b.start <= b.end
        BY <3>2, LatestFacts
      <4>2. b \in Archives!list_archives(kind) /\ n \in PlanType
        BY LatestFacts DEF Archives!Newest
      <4>3. n.end <= b.end
        BY <4>1, <4>2 DEF PlanType
      <4> QED BY <4>1, <4>2, <4>3 DEF ReleasedUpTo
    <3> QED BY <3>1, <3>2
  <2> HIDE DEF n
  <2>5. /\ N \in Seq(PlanType) /\ Len(N) = Len(j.names) + 1
        /\ \A i \in 1 .. Len(N) : N[i] = IF i = Len(N) THEN n ELSE j.names[i]
    BY <1>0, <2>4
  <2> HIDE DEF N
  <2>6. \A i \in 1 .. Len(N) : N[i] # Archives!NoPlan => ReleasedUpTo(config.order[i], N[i].end)
    <3> SUFFICES ASSUME NEW i \in 1 .. Len(N), N[i] # Archives!NoPlan PROVE ReleasedUpTo(config.order[i], N[i].end)
      OBVIOUS
    <3>1. CASE i = Len(N)
      BY <2>4, <2>5, <3>1
    <3>2. CASE i # Len(N)
      <4>1. i \in 1 .. Len(j.names) /\ N[i] = j.names[i]
        BY <2>3, <2>5, <3>2
      <4> QED BY <2>3, <4>1
    <3> QED BY <3>1, <3>2
  <2>7. CASE job' = [job EXCEPT ![k] = r1]
    <3>1. r1.names = j.names /\ r1.stage = "cleanup"
      BY <1>0 DEF JobType
    <3> HIDE DEF r1
    <3>2. RunWhole(k, r1)
      BY <2>3, <3>1 DEF RunWhole, Validating, Exporting
    <3> QED BY <1>1, <1>2, <2>0, <2>7, <3>2
  <2>8. CASE Len(N) < Len(config.order) /\ job' = [job EXCEPT ![k] = r2]
    <3>1. r2.names = N /\ r2.stage = "names"
      BY <1>0, <2>1 DEF JobType
    <3> HIDE DEF r2
    <3>2. RunWhole(k, r2)
      BY <2>6, <3>1 DEF RunWhole, Validating, Exporting
    <3> QED BY <1>1, <1>2, <2>0, <2>8, <3>2
  <2>9. CASE ~(Len(N) < Len(config.order)) /\ range # Archives!NoPlan /\ job' = [job EXCEPT ![k] = r3]
    <3> DEFINE M == NamesByKind(N)
    <3>1. M \in [config.kinds -> PlanType]
      BY <1>0, <2>5, <2>9, ListedNames
    <3>2. \A q \in config.kinds : M[q] # Archives!NoPlan => ReleasedUpTo(q, M[q].end)
      <4> SUFFICES ASSUME NEW q \in config.kinds, M[q] # Archives!NoPlan PROVE ReleasedUpTo(q, M[q].end)
        OBVIOUS
      <4>1. PICK i \in 1 .. Len(config.order) : i \in 1 .. Len(N) /\ config.order[i] = q /\ M[q] = N[i]
        BY <1>0, <2>5, <2>9, ListedNames
      <4> QED BY <2>6, <4>1
    <3>3. \A q \in config.kinds : M[q] = Archives!NoPlan \/ M[q].start <= M[q].end
      <4> SUFFICES ASSUME NEW q \in config.kinds PROVE M[q] = Archives!NoPlan \/ M[q].start <= M[q].end
        OBVIOUS
      <4>1. PICK i \in 1 .. Len(config.order) : i \in 1 .. Len(N) /\ config.order[i] = q /\ M[q] = N[i]
        BY <1>0, <2>5, <2>9, ListedNames
      <4>2. \A m \in 1 .. Len(j.names) : j.names[m] = Archives!NoPlan \/ j.names[m].start <= j.names[m].end
        BY <1>0 DEF JobOK
      <4>3. CASE i = Len(N)
        BY <2>4, <2>5, <4>1, <4>3
      <4>4. CASE i # Len(N)
        <5>1. i \in 1 .. Len(j.names) /\ N[i] = j.names[i]
          BY <2>3, <2>5, <4>1, <4>4
        <5> QED BY <4>1, <4>2, <5>1
      <4> QED BY <4>3, <4>4
    <3> HIDE DEF M
    <3>4. j.plan.end \in Nat
      <4>1. j.plan.start \in Nat /\ j.plan.end \in Int /\ j.plan.start <= j.plan.end
        BY <1>0, <2>1 DEF JobOK, Planned, Finishing, PlanType
      <4> QED BY <4>1
    <3>5. /\ range \in PlanType
          /\ \A q \in config.kinds : M[q] # Archives!NoPlan /\ range.end <= M[q].end
      <4>1. range = Archives!safe_delete_archived_data_range(j.plan.end, M)
        BY DEF M
      <4> HIDE DEF range
      <4> QED BY <2>9, <3>1, <3>3, <3>4, <4>1, ReleaseFacts
    <3> HIDE DEF range
    <3>6. ASSUME NEW q \in config.kinds PROVE ReleasedUpTo(q, range.end)
      <4>1. PICK b \in Archives!list_archives(q) : M[q].end <= b.end
        BY <3>2, <3>5 DEF ReleasedUpTo
      <4>2. b.end \in Int
        BY ChainFacts DEF Archives!list_archives, ArchiveTypeOK, BundleOK, Bundle
      <4>3. range.end \in Int /\ M[q].end \in Int /\ range.end <= M[q].end
        BY <3>1, <3>5 DEF PlanType
      <4>4. range.end <= b.end
        BY <4>1, <4>2, <4>3
      <4> QED BY <4>4 DEF ReleasedUpTo
    <3>7. r3.names = j.names /\ r3.stage = "delete" /\ r3.range = range
      BY <1>0 DEF JobType
    <3> HIDE DEF r3
    <3>8. RunWhole(k, r3)
      BY <2>3, <3>6, <3>7 DEF RunWhole, Validating, Exporting
    <3> QED BY <1>1, <1>2, <2>0, <2>9, <3>8
  <2> QED BY <2>2, <2>7, <2>8, <2>9
<1>19. CASE Archives!DeleteTable(k)
  <2> DEFINE r1 == [j EXCEPT !.stage = "cleanup"]
             l == Tail(j.left)
             r2 == [j EXCEPT !.left = l]
  <2>1. j.stage = "delete" /\ UNCHANGED Archives!store
    BY <1>19 DEF Archives!DeleteTable, j
  <2>2. job' = [job EXCEPT ![k] = r1] \/ job' = [job EXCEPT ![k] = r2]
    BY <1>19 DEF Archives!DeleteTable, Archives!Go, j
  <2> HIDE DEF l
  <2>3. /\ r1.names = j.names /\ r1.stage = "cleanup"
        /\ r2.names = j.names /\ r2.stage = "delete" /\ r2.range = j.range
    BY <1>0, <2>1 DEF JobType
  <2> HIDE DEF r1, r2
  <2>4. /\ \A i \in 1 .. Len(j.names) : j.names[i] # Archives!NoPlan => ReleasedUpTo(config.order[i], j.names[i].end)
        /\ \A q \in config.kinds : ReleasedUpTo(q, j.range.end)
    BY <1>0, <2>1 DEF RunWhole
  <2>5. RunWhole(k, r1) /\ RunWhole(k, r2)
    BY <2>3, <2>4 DEF RunWhole, Validating, Exporting
  <2> QED BY <1>1, <1>2, <2>1, <2>2, <2>5
<1>20. \/ Archives!StartRun(k) \/ Archives!PlanRun(k) \/ Archives!ReadBlockSlots(k) \/ Archives!FetchProducedSlots(k) \/ Archives!ReadMismatches(k)
       \/ Archives!RepairOvercounts(k) \/ Archives!Backfill(k) \/ Archives!PassGate(k) \/ Archives!StopAtGate(k) \/ Archives!RemoveBundle(k)
       \/ Archives!ExportTable(k) \/ Archives!PublishBundle(k) \/ Archives!WriteDoneMarker(k) \/ Archives!ListNames(k) \/ Archives!DeleteTable(k)
       \/ Archives!CleanupArchives(k) \/ Archives!FailRun(k)
  BY Zenon DEF Archives!Run
<1> QED BY <1>5, <1>6, <1>8, <1>9, <1>10, <1>11, <1>12, <1>13, <1>15, <1>16, <1>17, <1>18, <1>19, <1>20, Zenon

\* Every step keeps it: a mutation removes only rows before the ranges being exported.
LEMMA WholeStep ==
  ASSUME Archives!ArchiverAssumption, ArchiveTypeOK, ArchiveTypeOK', Archives!Validated, config.continue, WholeInv,
         \A k \in config.kinds : Answered(job[k]), Archives!Next
  PROVE  WholeInv'
<1>0. /\ db \in [Archives!Tables -> SUBSET ArchiveProduced] /\ mutations \in [Archives!Tables -> SUBSET ArchiveProduced]
      /\ late \subseteq Archives!Tables \X ArchiveProduced /\ job \in [config.kinds -> JobType]
      /\ \A k \in config.kinds : JobOK(job[k]) /\ RunWhole(k, job[k])
      /\ \A k \in config.kinds : \A b \in Archives!Newest(k) : Archives!Whole(b)
      /\ \A t \in Archives!Tables : \A s \in mutations[t], k \in config.kinds : ReleasedUpTo(k, s)
  BY DEF ArchiveTypeOK, WholeInv
<1>1. \A t \in Archives!Tables : \A s \in mutations[t] : s \in Int
  BY <1>0, ChainFacts
<1>2. ASSUME NEW k \in config.kinds, Archives!Run(k) PROVE WholeInv'
  <2>1. config' = config /\ job' = [job EXCEPT ![k] = job'[k]]
    BY <1>2, RunJob
  <2>2. ASSUME NEW q \in config.kinds, q # k PROVE Archives!list_archives(q)' = Archives!list_archives(q)
    BY <1>2, <2>2, OthersListed
  <2>3. ASSUME NEW q \in config.kinds, NEW x \in Int, ReleasedUpTo(q, x) PROVE ReleasedUpTo(q, x)'
    <3>1. CASE q = k
      BY <1>2, <2>3, <3>1, ListedMoves
    <3>2. CASE q # k
      BY <2>2, <2>3, <3>2 DEF ReleasedUpTo
    <3> QED BY <3>1, <3>2
  <2>4. ASSUME NEW q \in config.kinds
        PROVE  (\A b \in Archives!Newest(q) : Archives!Whole(b))'
    <3>1. CASE q = k
      BY <1>2, <3>1, ListedMoves
    <3>2. CASE q # k
      <4>1. Archives!list_archives(q)' = Archives!list_archives(q) /\ Archives!Newest(q)' = Archives!Newest(q)
        BY <2>2, <3>2 DEF Archives!Newest
      <4> QED BY <1>0, <2>1, <4>1 DEF Archives!Whole
    <3> QED BY <3>1, <3>2
  <2>5. ASSUME NEW t \in Archives!Tables, NEW s \in mutations'[t], NEW q \in config.kinds PROVE ReleasedUpTo(q, s)'
    <3>0. s \in ArchiveProduced /\ s \in Int
      BY ChainFacts DEF ArchiveTypeOK
    <3>1. CASE s \in mutations[t]
      BY <1>0, <2>3, <3>0, <3>1
    <3>2. CASE job[k].stage = "delete" /\ s <= job[k].range.end
      <4>1. PICK b \in Archives!list_archives(q) : job[k].range.end <= b.end
        BY <1>0, <3>2 DEF RunWhole, ReleasedUpTo
      <4>2. job[k].range.end \in Int /\ b.end \in Int
        BY JobFacts, ChainFacts DEF PlanType, Archives!list_archives, ArchiveTypeOK, BundleOK, Bundle
      <4>3. s <= b.end
        BY <3>0, <3>2, <4>1, <4>2
      <4>4. ReleasedUpTo(q, s)
        BY <4>3 DEF ReleasedUpTo
      <4> QED BY <2>3, <3>0, <4>4
    <3> QED BY <1>2, <3>0, <3>1, <3>2, RunKeepsRows
  <2>6. ASSUME NEW q \in config.kinds PROVE RunWhole(q, job[q])'
    <3>1. CASE q = k
      BY <1>2, <3>1, RunWholeMoves
    <3>2. CASE q # k
      <4>1. job'[q] = job[q] /\ job[q] \in JobType /\ Len(job[q].names) <= Len(config.order)
        BY <1>0, <2>1, <3>2 DEF JobOK
      <4>2. \A t \in Archives!Tables, s \in ArchiveProduced : s \in db[t] => s \in db'[t] \/ s \in mutations[t]
        BY <1>2, RunKeepsRows
      <4>3. \A t \in Archives!Tables : \A s \in mutations[t] : ReleasedUpTo(q, s)
        BY <1>0
      <4> QED BY <1>0, <2>1, <2>2, <2>3, <3>2, <4>1, <4>2, <4>3, RunWholeKept
    <3> QED BY <3>1, <3>2
  <2> QED BY <2>1, <2>4, <2>5, <2>6 DEF WholeInv
<1>3. ASSUME UNCHANGED <<config, bundles>>, job' = job \/ \A q \in config.kinds : job'[q] = Archives!Idle,
             \A t \in Archives!Tables, s \in ArchiveProduced : s \in db[t] => s \in db'[t] \/ s \in mutations[t],
             \A t \in Archives!Tables : mutations'[t] \subseteq mutations[t]
      PROVE  WholeInv'
  <2>1. \A q : Archives!list_archives(q)' = Archives!list_archives(q) /\ Archives!Newest(q)' = Archives!Newest(q)
    BY <1>3 DEF Archives!list_archives, Archives!Newest
  <2>2. \A q, x : ReleasedUpTo(q, x)' <=> ReleasedUpTo(q, x)
    BY <2>1 DEF ReleasedUpTo
  <2>3. ASSUME NEW q \in config.kinds
        PROVE  (\A b \in Archives!Newest(q) : Archives!Whole(b))'
    BY <1>0, <1>3, <2>1 DEF Archives!Whole
  <2>4. ASSUME NEW t \in Archives!Tables, NEW s \in mutations'[t], NEW q \in config.kinds PROVE ReleasedUpTo(q, s)'
    BY <1>0, <1>3, <2>2
  <2>5. ASSUME NEW q \in config.kinds PROVE RunWhole(q, job[q])'
    <3>1. CASE job' = job
      <4>1. job'[q] = job[q] /\ job[q] \in JobType /\ Len(job[q].names) <= Len(config.order) /\ RunWhole(q, job[q])
        BY <1>0, <3>1 DEF JobOK
      <4>2. \A t \in Archives!Tables : \A s \in mutations[t] : ReleasedUpTo(q, s)
        BY <1>0
      <4> QED BY <1>3, <2>1, <2>2, <4>1, <4>2, RunWholeKept
    <3>2. CASE job'[q] = Archives!Idle
      <4>1. job'[q].stage = "idle" /\ job'[q].names = <<>>
        BY <3>2, IdleFacts
      <4> QED BY <4>1, RunWholeIdle
    <3> QED BY <1>3, <3>1, <3>2
  <2> QED BY <1>3, <2>3, <2>4, <2>5 DEF WholeInv
<1>4. CASE Archives!RequestShutdown \/ Archives!StartServer
  BY <1>3, <1>4 DEF Archives!RequestShutdown, Archives!StartServer, Archives!click, Archives!store
<1>5. CASE Archives!StopServer
  BY <1>3, <1>5 DEF Archives!StopServer, Archives!click, Archives!store
<1>6. CASE Archives!Ingest
  <2>1. PICK r \in late : /\ db' = [db EXCEPT ![r[1]] = @ \cup {r[2]}]
                          /\ mutations' = [mutations EXCEPT ![r[1]] = @ \ {r[2]}]
    BY <1>6 DEF Archives!Ingest
  <2>2. r[1] \in Archives!Tables
    BY <1>0
  <2>3. \A t \in Archives!Tables, s \in ArchiveProduced : s \in db[t] => s \in db'[t]
    BY <1>0, <2>1, <2>2
  <2>4. \A t \in Archives!Tables : mutations'[t] \subseteq mutations[t]
    BY <1>0, <2>1, <2>2
  <2>5. UNCHANGED <<config, bundles, job>>
    BY <1>6 DEF Archives!Ingest, Archives!store, Archives!ctl
  <2> QED BY <1>3, <2>3, <2>4, <2>5
<1>7. CASE Archives!Mutate
  <2>1. PICK t \in Archives!Tables : /\ db' = [db EXCEPT ![t] = @ \ mutations[t]]
                            /\ mutations' = [mutations EXCEPT ![t] = {}]
    BY <1>7 DEF Archives!Mutate
  <2>2. \A u \in Archives!Tables, s \in ArchiveProduced : s \in db[u] => s \in db'[u] \/ s \in mutations[u]
    BY <1>0, <2>1
  <2>3. \A u \in Archives!Tables : mutations'[u] \subseteq mutations[u]
    BY <1>0, <2>1
  <2>4. UNCHANGED <<config, bundles, job>>
    BY <1>7 DEF Archives!Mutate, Archives!store, Archives!ctl
  <2> QED BY <1>3, <2>2, <2>3, <2>4
<1> QED BY <1>2, <1>4, <1>5, <1>6, <1>7 DEF Archives!Next

\* Initially the listed bundles are whole and no run is under way.
LEMMA WholeInitial ==
  ASSUME Archives!ArchiverAssumption, Archives!Init
  PROVE  WholeInv
<1>1. /\ config \in ArchiveConfigs /\ mutations = [t \in Archives!Tables |-> {}]
      /\ bundles = config.before /\ job = [k \in config.kinds |-> Archives!Idle]
  BY DEF Archives!Init
<1>2. \A k \in config.kinds : \A b \in Archives!list_archives(k) : Archives!Whole(b)
  BY <1>1 DEF Archives!ArchiverAssumption, Archives!list_archives
<1>3. \A k : Archives!Newest(k) \subseteq Archives!list_archives(k)
  BY DEF Archives!Newest
<1>4. \A k \in config.kinds : RunWhole(k, job[k])
  <2> SUFFICES ASSUME NEW k \in config.kinds PROVE RunWhole(k, job[k])
    OBVIOUS
  <2>1. job[k].stage = "idle" /\ job[k].names = <<>>
    BY <1>1, IdleFacts
  <2> QED BY <2>1 DEF RunWhole, Validating, Exporting
<1> QED BY <1>1, <1>2, <1>3, <1>4 DEF WholeInv

\* The inductive invariant holds when the archiver starts.
LEMMA ArchiveInitial ==
  ASSUME Archives!ArchiverAssumption, Archives!Init PROVE ArchiveInv
BY TypeInitial, DeleteInitial, WholeInitial DEF ArchiveInv

\* Every step of every run, of the ingestor and of ClickHouse keeps it.
LEMMA ArchiveStep ==
  ASSUME Archives!ArchiverAssumption, ArchiveInv, [Archives!Next]_(Archives!vars) PROVE ArchiveInv'
<1>1. CASE UNCHANGED Archives!vars
  <2>1. /\ config' = config /\ db' = db /\ mutations' = mutations /\ late' = late /\ bundles' = bundles
        /\ job' = job /\ written' = written /\ ingested' = ingested
    BY <1>1 DEF Archives!vars
  <2>2. (Archives!Validated' <=> Archives!Validated) /\ (ArchiveTypeOK' <=> ArchiveTypeOK)
    BY <2>1 DEF Archives!Validated, ArchiveTypeOK, ConfigOK, BundleOK, Bundle, JobOK,
       Archives!from_cli, Archives!parse_archive_kinds
  <2>3. \A r : (Answered(r)' <=> Answered(r)) /\ PlanRows(r)' = PlanRows(r)
             /\ (Archives!blocks_archive(r.report)' <=> Archives!blocks_archive(r.report))
    BY <2>1 DEF Answered, PlanRows, Archives!blocks_archive, Archives!has_data_warnings,
       Archives!missing_blocks
  <2>4. \A t, s : (Held(t, s)' <=> Held(t, s)) /\ (Safe(t, s)' <=> Safe(t, s))
    BY <2>1 DEF Held, Safe
  <2>5. \A p : Archived(p)' <=> Archived(p)
    BY <2>4 DEF Archived
  <2>6. \A r : RunSafe(r)' <=> RunSafe(r)
    BY <2>3, <2>4, <2>5 DEF RunSafe
  <2>7. DeleteInv' <=> DeleteInv
    BY <2>1, <2>4, <2>5, <2>6 DEF DeleteInv
  <2>8. \A k : Archives!list_archives(k)' = Archives!list_archives(k) /\ Archives!Newest(k)' = Archives!Newest(k)
    BY <2>1 DEF Archives!list_archives, Archives!Newest
  <2>9. \A k, x : ReleasedUpTo(k, x)' <=> ReleasedUpTo(k, x)
    BY <2>8 DEF ReleasedUpTo
  <2>10. \A k, r : RunWhole(k, r)' <=> RunWhole(k, r)
    BY <2>1, <2>3, <2>8, <2>9 DEF RunWhole
  <2>11. WholeInv' <=> WholeInv
    BY <2>1, <2>8, <2>9, <2>10 DEF WholeInv, Archives!Whole
  <2> QED BY <2>1, <2>2, <2>3, <2>7, <2>11 DEF ArchiveInv
<1>2. CASE Archives!Next
  <2>1. config' = config
    BY <1>2 DEF Archives!Next, Archives!Run, Archives!StartRun, Archives!PlanRun,
       Archives!ReadBlockSlots, Archives!FetchProducedSlots, Archives!ReadMismatches,
       Archives!RepairOvercounts,
       Archives!Backfill, Archives!PassGate, Archives!StopAtGate, Archives!RemoveBundle,
       Archives!ExportTable, Archives!PublishBundle, Archives!WriteDoneMarker, Archives!ListNames,
       Archives!DeleteTable, Archives!CleanupArchives, Archives!FailRun, Archives!RequestShutdown,
       Archives!StopServer, Archives!StartServer, Archives!Ingest, Archives!Mutate, Archives!ctl
  <2>2. CASE ~Archives!Validated
    BY <2>1, <2>2 DEF Archives!Validated, ArchiveInv
  <2>3. CASE Archives!Validated
    <3>1. ArchiveTypeOK' /\ (\A k \in config.kinds : Answered(job[k]))'
      BY <1>2, <2>3, TypeStep DEF ArchiveInv
    <3>2. ~config.zero => DeleteInv'
      BY <1>2, <2>3, DeleteStep DEF ArchiveInv
    <3>3. config.continue => WholeInv'
      BY <1>2, <2>3, <3>1, WholeStep DEF ArchiveInv
    <3> QED BY <2>1, <3>1, <3>2, <3>3 DEF ArchiveInv
  <2> QED BY <2>2, <2>3
<1> QED BY <1>1, <1>2

\* It implies both properties.
LEMMA ArchiveShown ==
  ASSUME ArchiveInv PROVE Archives!ListedWhole /\ Archives!DeletedArchived
<1>1. Archives!ListedWhole
  BY DEF ArchiveInv, WholeInv, Archives!ListedWhole
<1>2. Archives!DeletedArchived
  BY DeleteShown DEF ArchiveInv, Archives!DeletedArchived
<1> QED BY <1>1, <1>2
=============================================================================
