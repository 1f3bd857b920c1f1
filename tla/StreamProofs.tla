---------------------------- MODULE StreamProofs ----------------------------
(***************************************************************************)
(* The live ingestors, for every number of slots, every source and every   *)
(* combination of faults.                                                  *)
(*                                                                         *)
(* The gRPC writer (GrpcIngest).  That no block is missing below the       *)
(* metadata tip is not inductive: a restart resumes at the tip, so what    *)
(* lies below it has to be whole at every step of every flush.  GInv       *)
(* follows a block on its way.  Blocks are stored, buffered, awaiting      *)
(* their footer, held for evidence of their bank and still to come in slot *)
(* order (Ordered), with no gap along the way (Reached) or, once a block   *)
(* was rejected, none in what is stored and buffered (Gapless); the        *)
(* transactions of a block row are stored before it or buffered with it    *)
(* (BufferInv); a flush empties the buffers in its order, and after the    *)
(* merge no stored footer differs from a buffered one (FlushInv).  Bank    *)
(* ids are the producer's because every evidence the join keeps is         *)
(* (Identified), except after a producer contradicted itself.              *)
(*                                                                         *)
(* The Fumarole consumer (FumaroleIngest): what it acknowledges is stored, *)
(* and a stored footer is never lost.  Neither is inductive.  A commit     *)
(* covers everything the stream has delivered, so between two commits each *)
(* delivered event has to be accounted for: its block is in the assembler  *)
(* with all data received so far, or its rows are on their way to each of  *)
(* the three tables (Accounted).  A footer survives because a slot is      *)
(* assembled at most once in a session: a buffered row of a slot that is   *)
(* already stored was stored by an earlier session, lies at or below the   *)
(* ceiling and takes the stored footer (FooterInv).                        *)
(***************************************************************************)
EXTENDS MCStreams, FiniteSetTheorems, TLAPS


-----------------------------------------------------------------------------
(* The gRPC writer. *)

-----------------------------------------------------------------------------
(* Types. *)

StatusPair == Slot \X {0, 1}

JoinType ==
  [pending : SUBSET StatusPair, finalized : SUBSET StatusPair, minFooter : Nat, highest : Nat,
   known : SUBSET StatusPair, legacy : SUBSET Slot, held : SUBSET StatusPair,
   awaiting : SUBSET (Slot \X {NoBank, 0, 1})]

Tables == [transactions : SUBSET Slot, blocks : SUBSET BlockRow, entries : SUBSET Slot]

FlushThen == {"run", "rejected", "fatal", "shutdown"}

FlushType == [step : FlushStep \cup {"none"}, retries : Nat, then : FlushThen, slot : Slot \cup {0}]

TypeOK ==
  /\ scenario \in Scenario
  /\ proc \in Ended \cup {"up"}
  /\ join \in JoinType
  /\ cursor \in Nat
  /\ rows \in Tables /\ stored \in Tables
  /\ ceiling \in Slot \cup {0}
  /\ flush \in FlushType
  /\ proc # "up" => flush = NoFlush

-----------------------------------------------------------------------------
(* The inductive invariant. *)

\* Slots with a block row in the buffers, in the join, and anywhere on the way.
RowSlots(tabs) == {r.slot : r \in tabs.blocks}

Waiting(j) == {e[1] : e \in j.held \cup j.awaiting}

Pipe(j, tabs) == StoredSlots \cup RowSlots(tabs) \cup Waiting(j)

\* What the join holds has the producer's bank id as far as it is known.
Identified(j) ==
  /\ \A h \in j.held : h[1] \in Produced /\ h[2] = Scalar(h[1])
  /\ \A e \in j.awaiting : e[1] \in Produced /\ e[2] \in {NoBank, Scalar(e[1])}
  /\ "flip" \notin scenario.faults =>
       /\ \A s \in j.legacy : s \in Produced /\ Bank(s) = NoBank
       /\ \A p \in j.known : p[1] \in Produced /\ (p[2] = 0 => Bank(p[1]) # NoBank)
       /\ \A e \in j.awaiting : e[2] = Bank(e[1])

\* A stored slot q lies before slot w of this subscription, or is the slot the
\* subscription resumed from.
Behind(q, w) == q < w \/ (q = w /\ q <= ceiling)

\* One block of a slot, in slot order: stored, buffered, awaiting, held, to come.
Ordered(j, tabs, c) ==
  /\ \A g, h \in j.held : g[1] = h[1] => g = h
  /\ \A e, f \in j.awaiting : e[1] = f[1] => e = f
  /\ \A e \in j.awaiting, h \in j.held : e[1] < h[1]
  /\ \A w \in Waiting(j) : w < c /\ \A q \in StoredSlots : Behind(q, w)
  /\ \A q \in StoredSlots : Behind(q, c)
  /\ \A r \in tabs.blocks : r.slot < c /\ \A w \in Waiting(j) : r.slot < w
  /\ \A r, q \in tabs.blocks : r.slot = q.slot => r = q

\* Between two slots of S no produced block is missing.
Gapless(S) == \A a, b \in S, s \in Produced : a <= s /\ s <= b => s \in S

\* The subscription has lost no block below slot c.
Reached(j, tabs, c) ==
  \A a \in Pipe(j, tabs), s \in Produced : a <= s /\ s < c => s \in Pipe(j, tabs)

\* The limits of the hold and of the wait queue.
Bounded(j) == Cardinality(j.held) <= scenario.holdMax /\ Cardinality(j.awaiting) <= scenario.awaitMax

\* A row of a produced block, with its bank and no footer but the winner's.
RowTrue(r) ==
  /\ r.slot \in Produced
  /\ r.footer \in {"winner", NoFooter}
  /\ "flip" \notin scenario.faults => r.bank = Bank(r.slot)

\* A row of the buffer: what it has of a footer is its own or a stored one.
RowOwned(r) ==
  /\ r.footer # NoFooter => r.bank # NoBank \/ r.slot <= ceiling
  /\ \A q \in stored.blocks : q.slot = r.slot => r.slot <= ceiling \/ q.footer = r.footer

\* Rows are true, one per slot, transactions before metadata, without gaps.
BufferInv ==
  /\ \A r \in rows.blocks \cup stored.blocks : RowTrue(r)
  /\ \A r \in rows.blocks : RowOwned(r)
  /\ \A r, q \in stored.blocks : r.slot = q.slot => r = q
  /\ StoredSlots \subseteq stored.transactions
  /\ RowSlots(rows) \subseteq rows.transactions \cup stored.transactions
  /\ Gapless(StoredSlots)

\* A flush empties the buffers in the order of its steps, and has merged the
\* stored footers before.
FlushInv ==
  /\ flush.step \in {"blocks", "entries"} => rows.transactions = {}
  /\ flush.step = "entries" => rows.blocks = {}
  /\ flush.step \notin {"none", "merge"} =>
       \A r \in rows.blocks, q \in stored.blocks :
          q.slot = r.slot /\ q.footer # NoFooter => r.footer = q.footer
  /\ flush.then \in {"fatal", "shutdown"} => join.awaiting = {}

\* What holds while a process runs: a rejected block alone may leave a gap behind.
UpInv ==
  proc = "up" =>
    /\ Ordered(join, rows, cursor)
    /\ Gapless(StoredSlots \cup RowSlots(rows))
    /\ flush.then # "rejected" => Reached(join, rows, cursor)

\* The inductive invariant of the writer.
GInv ==
  /\ TypeOK
  /\ Identified(join)
  /\ Bounded(join) /\ \A e, f \in join.awaiting : e[1] = f[1] => e = f
  /\ BufferInv
  /\ FlushInv
  /\ UpInv
  /\ StopWritesWaiting

-----------------------------------------------------------------------------
(* Facts about numbers, sets and the constants. *)

\* The larger and the smaller of two numbers.
LEMMA MaxMinPair ==
  ASSUME NEW m \in Nat, NEW n \in Nat
  PROVE  Max({m, n}) \in Nat /\ Min({m, n}) \in Nat
<1>1. \E x \in {m, n} : \A y \in {m, n} : x >= y
  OBVIOUS
<1>2. \E x \in {m, n} : \A y \in {m, n} : x =< y
  OBVIOUS
<1>3. Max({m, n}) \in {m, n}
  BY <1>1 DEF Max
<1>4. Min({m, n}) \in {m, n}
  BY <1>2 DEF Min
<1> QED BY <1>3, <1>4

\* A set of slots has a least element.
LEMMA LeastSlot ==
  ASSUME NEW S, S \subseteq Nat, S # {}
  PROVE  \E m \in S : \A x \in S : m <= x
<1>1. PICK m \in S : \A t \in S : ~(<<t, m>> \in OpToRel(<, Nat))
  BY NatLessThanWellFounded, WFMin, Zenon
<1>2. ASSUME NEW t \in S PROVE m <= t
  <2>1. t \in Nat /\ m \in Nat
    OBVIOUS
  <2>2. ~(t < m)
    BY <1>1, <2>1, Zenon DEF OpToRel
  <2> QED BY <2>1, <2>2
<1> QED BY <1>2

\* The scalar of a bank id is zero or one.
LEMMA ScenarioFacts ==
  ASSUME scenario \in Scenario
  PROVE  /\ Produced \subseteq Slot /\ Produced \subseteq Nat
         /\ scenario.awaitMax \in Nat /\ scenario.holdMax \in Nat
         /\ \A s \in Produced : Bank(s) \in {NoBank, 0, 1} /\ Scalar(s) \in {0, 1} /\ Loser(s) \in {0, 1}
         /\ \A s \in Produced : (Bank(s) = NoBank => Scalar(s) = 0) /\ (Bank(s) # NoBank => Scalar(s) = Bank(s))
         /\ \A s \in Produced : Loser(s) = 0 => Bank(s) # NoBank
         /\ \A s \in Produced : Loser(s) # Scalar(s)
<1> USE DEF Bank, Scalar, Loser, Produced, NoBank
<1>1. /\ DOMAIN scenario.bank \subseteq Slot
      /\ scenario.bank \in [DOMAIN scenario.bank -> {NoBank, 0, 1}]
      /\ scenario.awaitMax \in Nat /\ scenario.holdMax \in Nat
  BY ScenarioAssumption
<1>2. Slot \subseteq Nat
  BY BufferedRowsAssumption DEF Slot
<1>3. ASSUME NEW s \in Produced
      PROVE  /\ Bank(s) \in {NoBank, 0, 1} /\ Scalar(s) \in {0, 1} /\ Loser(s) \in {0, 1}
             /\ (Bank(s) = NoBank => Scalar(s) = 0) /\ (Bank(s) # NoBank => Scalar(s) = Bank(s))
             /\ (Loser(s) = 0 => Bank(s) # NoBank) /\ Loser(s) # Scalar(s)
  <2>1. scenario.bank[s] \in {-1, 0, 1}
    BY <1>1
  <2> QED BY <2>1
<1> HIDE DEF Bank, Scalar, Loser
<1> QED BY <1>1, <1>2, <1>3

\* Only finitely many blocks wait.
LEMMA JoinFinite ==
  ASSUME NEW j \in JoinType
  PROVE  IsFiniteSet(j.held) /\ IsFiniteSet(j.awaiting)
<1> DEFINE Pairs == Slot \X {NoBank, 0, 1}
           f == [p \in Pairs |-> 3 * p[1] + p[2]]
           S == {3 * p[1] + p[2] : p \in Pairs}
<1>1. Slot \subseteq Nat /\ MaxSlot \in Nat /\ \A s \in Slot : 1 <= s /\ s <= MaxSlot
  BY BufferedRowsAssumption DEF Slot
<1>2. S \subseteq Nat /\ \A n \in S : n <= 3 * MaxSlot + 1
  <2> SUFFICES ASSUME NEW p \in Pairs
               PROVE  3 * p[1] + p[2] \in Nat /\ 3 * p[1] + p[2] <= 3 * MaxSlot + 1
    OBVIOUS
  <2>1. p[1] \in Slot /\ p[2] \in {-1, 0, 1}
    BY DEF NoBank
  <2>2. p[1] \in Nat /\ 1 <= p[1] /\ p[1] <= MaxSlot
    BY <1>1, <2>1
  <2> QED BY <1>1, <2>1, <2>2
<1>3. IsFiniteSet(S)
  <2> HIDE DEF S
  <2>1. 3 * MaxSlot + 1 \in Nat
    BY <1>1
  <2> QED BY <1>2, <2>1, FS_BoundedSetOfNaturals
<1>4. f \in Injection(Pairs, S)
  <2>1. f \in [Pairs -> S]
    OBVIOUS
  <2>2. ASSUME NEW p \in Pairs, NEW q \in Pairs, f[p] = f[q] PROVE p = q
    <3>1. 3 * p[1] + p[2] = 3 * q[1] + q[2]
      BY <2>2
    <3>2. p[1] \in Nat /\ q[1] \in Nat /\ p[2] \in {-1, 0, 1} /\ q[2] \in {-1, 0, 1}
      BY <1>1 DEF NoBank
    <3>3. p[1] = q[1] /\ p[2] = q[2]
      BY <3>1, <3>2
    <3> QED BY <3>3
  <2> HIDE DEF f, S, Pairs
  <2> QED BY <2>1, <2>2 DEF Injection, IsInjective
<1>5. IsFiniteSet(Pairs)
  <2> HIDE DEF f, S, Pairs
  <2> QED BY <1>3, <1>4, FS_Injection
<1>6. j.held \in SUBSET Pairs /\ j.awaiting \in SUBSET Pairs
  BY DEF JoinType, StatusPair
<1> QED
  <2> HIDE DEF Pairs
  <2> QED BY <1>5, <1>6, FS_Subset

-----------------------------------------------------------------------------
(* FinalizedFooterJoin. *)

\* prune drops evidence and footers, never a block.
LEMMA PruneEffect ==
  ASSUME scenario \in Scenario, NEW j \in JoinType, Identified(j)
  PROVE  /\ Prune(j) \in JoinType /\ Identified(Prune(j))
         /\ Prune(j).held = j.held /\ Prune(j).awaiting = j.awaiting
<1> DEFINE k == Prune(j)
           o == Oldest(j)
<1> HIDE DEF o
<1>1. k = [j EXCEPT !.pending   = {p \in @ : p[1] >= o},
                    !.finalized = {p \in @ : p[1] >= o},
                    !.known     = {p \in @ : p[1] >= o},
                    !.legacy    = {s \in @ : s >= o}]
  BY DEF Prune, o
<1> HIDE DEF k
<1>2. /\ k \in JoinType /\ k.held = j.held /\ k.awaiting = j.awaiting
      /\ k.legacy \subseteq j.legacy /\ k.known \subseteq j.known
  BY <1>1 DEF JoinType
<1>3. Identified(k)
  BY <1>2 DEF Identified
<1> QED BY <1>2, <1>3 DEF k

\* observe_footer leaves the blocks and the evidence alone.
LEMMA ObserveFooterEffect ==
  ASSUME scenario \in Scenario, NEW j \in JoinType, Identified(j), NEW s \in Slot, NEW b \in {0, 1}
  PROVE  /\ ObserveFooter(j, s, b) \in JoinType /\ Identified(ObserveFooter(j, s, b))
         /\ ObserveFooter(j, s, b).held = j.held /\ ObserveFooter(j, s, b).awaiting = j.awaiting
<1>1. CASE s \in j.legacy
  BY <1>1 DEF ObserveFooter
<1>2. CASE s \notin j.legacy
  <2> DEFINE m == IF j.minFooter = 0 THEN s ELSE Min({j.minFooter, s})
             t == Max({j.highest, s})
             P == IF WinnerConflict(j, s, b) THEN j.pending ELSE j.pending \cup {<<s, b>>}
             k == ObserveFooter(j, s, b)
  <2>1. j.minFooter \in Nat /\ j.highest \in Nat /\ s \in Nat
    BY BufferedRowsAssumption DEF JoinType, Slot
  <2>2. m \in Nat /\ t \in Nat
    BY <2>1, MaxMinPair
  <2>3. P \in SUBSET StatusPair
    BY DEF JoinType, StatusPair
  <2>4. k = [j EXCEPT !.minFooter = m, !.highest = t, !.pending = P]
    BY <1>2 DEF ObserveFooter
  <2> HIDE DEF m, t, P, k
  <2>5. /\ k \in JoinType /\ k.held = j.held /\ k.awaiting = j.awaiting
        /\ k.legacy = j.legacy /\ k.known = j.known
    BY <2>2, <2>3, <2>4 DEF JoinType
  <2>6. Identified(k)
    BY <2>5 DEF Identified
  <2> QED BY <2>5, <2>6 DEF k
<1> QED BY <1>1, <1>2

\* observe_slot learns identities from what the producer says of its banks.
LEMMA ObserveStatusEffect ==
  ASSUME scenario \in Scenario, NEW j \in JoinType, Identified(j), NEW s \in Produced,
         NEW b \in {NoBank, 0, 1}, NEW status,
         "flip" \notin scenario.faults =>
            (b = NoBank => Bank(s) = NoBank) /\ (b = 0 => Bank(s) # NoBank)
  PROVE  /\ ObserveStatus(j, s, b, status) \in JoinType /\ Identified(ObserveStatus(j, s, b, status))
         /\ ObserveStatus(j, s, b, status).held = j.held
         /\ ObserveStatus(j, s, b, status).awaiting = j.awaiting
<1> DEFINE k == ObserveStatus(j, s, b, status)
           t == Max({j.highest, s})
           top == [j EXCEPT !.highest = t]
<1>1. s \in Slot /\ s \in Nat
  BY ScenarioFacts
<1>2. t \in Nat
  <2>1. j.highest \in Nat
    BY DEF JoinType
  <2> QED BY <1>1, <2>1, MaxMinPair
<1>3. top \in JoinType /\ top.held = j.held /\ top.awaiting = j.awaiting
      /\ top.legacy = j.legacy /\ top.known = j.known /\ top.pending = j.pending /\ top.finalized = j.finalized
  <2> HIDE DEF t
  <2> QED BY <1>2 DEF JoinType
<1>4. Identified(top)
  <2> HIDE DEF top
  <2> QED BY <1>3 DEF Identified
<1>5. b # NoBank => <<s, b>> \in StatusPair
  BY <1>1 DEF StatusPair
<1>6. CASE status = "dead"
  <2> DEFINE P == {p \in j.pending : p[1] # s \/ (b # NoBank /\ p[2] # b)}
  <2>1. k = [j EXCEPT !.pending = P]
    BY <1>6 DEF ObserveStatus
  <2>2. P \subseteq j.pending
    OBVIOUS
  <2> HIDE DEF P, k
  <2>3. /\ k \in JoinType /\ k.held = j.held /\ k.awaiting = j.awaiting
        /\ k.legacy = j.legacy /\ k.known = j.known
    BY <2>1, <2>2 DEF JoinType
  <2> QED BY <2>3 DEF Identified, k
<1>7. CASE status # "dead" /\ b = NoBank
  <2>1. CASE status \in {"created", "finalized"}
    <3>1. k = [top EXCEPT !.legacy = @ \cup {s}]
      BY <1>7, <2>1 DEF ObserveStatus
    <3> HIDE DEF k, top
    <3>2. /\ k \in JoinType /\ k.held = top.held /\ k.awaiting = top.awaiting
          /\ k.legacy = top.legacy \cup {s} /\ k.known = top.known
      BY <1>1, <1>3, <3>1 DEF JoinType
    <3>3. Identified(k)
      BY <1>4, <1>7, <3>2 DEF Identified
    <3> QED BY <1>3, <3>2, <3>3 DEF k
  <2>2. CASE status \notin {"created", "finalized"}
    <3>1. k = top
      BY <1>7, <2>2 DEF ObserveStatus
    <3> QED BY <1>3, <1>4, <3>1
  <2> QED BY <2>1, <2>2
<1>8. CASE status = "finalized" /\ b # NoBank
  <2> DEFINE P == {p \in top.pending : p[1] # s \/ p[2] = b}
  <2>1. k = [top EXCEPT !.known = @ \cup {<<s, b>>}, !.finalized = @ \cup {<<s, b>>}, !.pending = P]
    BY <1>8 DEF ObserveStatus
  <2>2. P \subseteq top.pending
    OBVIOUS
  <2> HIDE DEF k, top, P
  <2>3. /\ k \in JoinType /\ k.held = top.held /\ k.awaiting = top.awaiting
        /\ k.legacy = top.legacy /\ k.known = top.known \cup {<<s, b>>}
    BY <1>3, <1>5, <1>8, <2>1, <2>2 DEF JoinType
  <2>4. Identified(k)
    BY <1>4, <2>3 DEF Identified
  <2> QED BY <1>3, <2>3, <2>4 DEF k
<1>9. CASE status \notin {"dead", "finalized"} /\ b # NoBank
  <2>1. k = [top EXCEPT !.known = @ \cup {<<s, b>>}]
    BY <1>9 DEF ObserveStatus
  <2> HIDE DEF k, top
  <2>2. /\ k \in JoinType /\ k.held = top.held /\ k.awaiting = top.awaiting
        /\ k.legacy = top.legacy /\ k.known = top.known \cup {<<s, b>>}
    BY <1>3, <1>5, <1>9, <2>1 DEF JoinType
  <2>3. Identified(k)
    BY <1>4, <2>2 DEF Identified
  <2> QED BY <1>3, <2>2, <2>3 DEF k
<1> QED BY <1>6, <1>7, <1>8, <1>9

\* A block enters the hold as the newest of its subscription.
LEMMA StageEffect ==
  ASSUME scenario \in Scenario, NEW j \in JoinType, Identified(j), NEW s \in Produced,
         ~StageFails(j, s), Cardinality(j.held) <= scenario.holdMax
  PROVE  LET k == Stage(j, s, Scalar(s))
         IN  /\ k \in JoinType /\ Identified(k)
             /\ k.held = j.held \cup {<<s, Scalar(s)>>} /\ k.awaiting = j.awaiting
             /\ Cardinality(k.held) <= scenario.holdMax
<1> DEFINE k == Stage(j, s, Scalar(s))
           t == Max({j.highest, s})
           x == <<s, Scalar(s)>>
<1>1. s \in Slot /\ s \in Nat /\ Scalar(s) \in {0, 1} /\ scenario.holdMax \in Nat
  BY ScenarioFacts
<1>2. t \in Nat
  <2>1. j.highest \in Nat
    BY DEF JoinType
  <2> QED BY <1>1, <2>1, MaxMinPair
<1>3. x \in StatusPair
  BY <1>1 DEF StatusPair
<1>4. k = [j EXCEPT !.held = @ \cup {x}, !.highest = t]
  BY DEF Stage
<1>5. x[1] = s /\ x[2] = Scalar(s)
  OBVIOUS
<1> HIDE DEF k, t, x
<1>6. /\ k \in JoinType /\ k.held = j.held \cup {x} /\ k.awaiting = j.awaiting
      /\ k.legacy = j.legacy /\ k.known = j.known
  BY <1>2, <1>3, <1>4 DEF JoinType
<1>7. Identified(k)
  BY <1>5, <1>6 DEF Identified
<1>8. Cardinality(k.held) <= scenario.holdMax
  <2>1. IsFiniteSet(j.held) /\ Cardinality(j.held) \in Nat
    BY JoinFinite, FS_CardinalityType
  <2>2. ~(Cardinality(j.held) >= scenario.holdMax)
    BY DEF StageFails
  <2>3. Cardinality(k.held) = IF x \in j.held THEN Cardinality(j.held) ELSE Cardinality(j.held) + 1
    <3>1. Cardinality(j.held \cup {x}) = IF x \in j.held THEN Cardinality(j.held) ELSE Cardinality(j.held) + 1
      BY <2>1, FS_AddElement
    <3> QED BY <1>6, <3>1
  <2> QED BY <1>1, <2>1, <2>2, <2>3
<1> QED BY <1>6, <1>7, <1>8 DEF k, x

\* A block leaves the hold under the identity the evidence of its own slot gives it.
LEMMA TakeReadyEffect ==
  ASSUME scenario \in Scenario, NEW j \in JoinType, Identified(j),
         Cardinality(j.held) <= scenario.holdMax
  PROVE  LET k == TakeReady(j)
         IN  /\ k \in JoinType /\ Identified(k)
             /\ Waiting(k) = Waiting(j)
             /\ Cardinality(k.held) <= scenario.holdMax
             /\ \A c, tabs : Ordered(j, tabs, c) => Ordered(k, tabs, c)
             /\ \A c, tabs : Reached(j, tabs, c) => Reached(k, tabs, c)
<1> DEFINE k == TakeReady(j)
<1>1. CASE ~Ready(j)
  BY <1>1 DEF TakeReady
<1>2. CASE Ready(j)
  <2> DEFINE I == {Identity(j, h) : h \in j.held}
  <2>1. k = [j EXCEPT !.held = {}, !.awaiting = @ \cup I]
    BY <1>2 DEF TakeReady
  <2>2. ASSUME NEW h \in j.held
        PROVE  /\ Identity(j, h) \in Slot \X {NoBank, 0, 1} /\ Identity(j, h)[1] = h[1]
               /\ Identity(j, h)[2] \in {NoBank, Scalar(h[1])}
               /\ "flip" \notin scenario.faults => Identity(j, h)[2] = Bank(h[1])
    <3>1. h[1] \in Slot /\ h[2] \in {0, 1} /\ h[1] \in Produced /\ h[2] = Scalar(h[1])
      BY DEF JoinType, StatusPair, Identified
    <3>2. Identity(j, h) = <<h[1], IF h[1] \in j.legacy THEN NoBank ELSE h[2]>>
      BY DEF Identity
    <3>3. ASSUME "flip" \notin scenario.faults PROVE Identity(j, h)[2] = Bank(h[1])
      <4>1. CASE h[1] \in j.legacy
        BY <3>2, <3>3, <4>1 DEF Identified
      <4>2. CASE h[1] \notin j.legacy
        <5>1. ~Unidentified(j, h[1], h[2])
          BY <1>2 DEF Ready
        <5>2. h[2] # 0 \/ <<h[1], h[2]>> \in j.known
          BY <4>2, <5>1 DEF Unidentified
        <5>3. h[2] = 0 => Bank(h[1]) # NoBank
          BY <3>3, <5>2 DEF Identified
        <5>4. Bank(h[1]) = Scalar(h[1])
          BY <3>1, <5>3, ScenarioFacts
        <5> QED BY <3>1, <3>2, <4>2, <5>4
      <4> QED BY <4>1, <4>2
    <3> QED BY <3>1, <3>2, <3>3
  <2>3. I \subseteq Slot \X {NoBank, 0, 1}
    BY <2>2
  <2>4. k \in JoinType /\ k.held = {} /\ k.awaiting = j.awaiting \cup I /\ k.legacy = j.legacy /\ k.known = j.known
    <3> HIDE DEF I, k
    <3> QED BY <2>1, <2>3 DEF JoinType
  <2>5. \A e \in I : \E h \in j.held : e = Identity(j, h)
    OBVIOUS
  <2>6. \A h \in j.held : Identity(j, h) \in I
    OBVIOUS
  <2> HIDE DEF k, I
  <2>7. Identified(k)
    BY <2>2, <2>4, <2>5 DEF Identified
  <2>8. Waiting(k) = Waiting(j)
    <3>1. ASSUME NEW w \in Waiting(k) PROVE w \in Waiting(j)
      <4>1. PICK e \in k.awaiting : w = e[1]
        BY <2>4 DEF Waiting
      <4>2. CASE e \in j.awaiting
        BY <4>1, <4>2 DEF Waiting
      <4>3. CASE e \in I
        BY <2>2, <2>5, <4>1, <4>3 DEF Waiting
      <4> QED BY <2>4, <4>1, <4>2, <4>3
    <3>2. ASSUME NEW w \in Waiting(j) PROVE w \in Waiting(k)
      <4>1. PICK e \in j.held \cup j.awaiting : w = e[1]
        BY DEF Waiting
      <4>2. CASE e \in j.awaiting
        BY <2>4, <4>1, <4>2 DEF Waiting
      <4>3. CASE e \in j.held
        <5>1. Identity(j, e) \in k.awaiting /\ Identity(j, e)[1] = w
          BY <2>2, <2>4, <2>6, <4>1, <4>3
        <5> QED BY <5>1 DEF Waiting
      <4> QED BY <4>1, <4>2, <4>3
    <3> QED BY <3>1, <3>2
  <2>9. Cardinality(k.held) <= scenario.holdMax
    BY <2>4, FS_EmptySet, ScenarioFacts
  <2>10. ASSUME NEW c, NEW tabs, Ordered(j, tabs, c) PROVE Ordered(k, tabs, c)
    <3>1. \A e, f \in k.awaiting : e[1] = f[1] => e = f
      <4> SUFFICES ASSUME NEW e \in k.awaiting, NEW f \in k.awaiting, e[1] = f[1] PROVE e = f
        OBVIOUS
      <4>0. \A g \in j.awaiting, h \in j.held : g[1] # h[1] /\ g[1] < h[1]
        <5> SUFFICES ASSUME NEW g \in j.awaiting, NEW h \in j.held PROVE g[1] # h[1] /\ g[1] < h[1]
          OBVIOUS
        <5>1. g[1] \in Nat /\ h[1] \in Nat
          BY BufferedRowsAssumption DEF JoinType, StatusPair, Slot
        <5> QED BY <2>10, <5>1 DEF Ordered
      <4>1. CASE e \in j.awaiting /\ f \in j.awaiting
        BY <2>10, <4>1 DEF Ordered
      <4>2. CASE e \in I /\ f \in I
        <5>1. PICK g \in j.held : e = Identity(j, g)
          BY <2>5, <4>2
        <5>2. PICK h \in j.held : f = Identity(j, h)
          BY <2>5, <4>2
        <5>3. g[1] = h[1]
          BY <2>2, <5>1, <5>2
        <5>4. g = h
          BY <2>10, <5>3 DEF Ordered
        <5> QED BY <5>1, <5>2, <5>4
      <4>3. CASE e \in I /\ f \in j.awaiting
        BY <2>2, <2>5, <4>0, <4>3
      <4>4. CASE f \in I /\ e \in j.awaiting
        BY <2>2, <2>5, <4>0, <4>4
      <4> QED BY <2>4, <4>1, <4>2, <4>3, <4>4
    <3> QED BY <2>4, <2>8, <2>10, <3>1 DEF Ordered
  <2>11. ASSUME NEW c, NEW tabs, Reached(j, tabs, c) PROVE Reached(k, tabs, c)
    BY <2>8, <2>11 DEF Reached, Pipe
  <2> QED BY <2>4, <2>7, <2>8, <2>9, <2>10, <2>11 DEF k
<1> QED BY <1>1, <1>2

\* release_awaiting lets a prefix of the waiting blocks go; a row takes no footer
\* but that of its own, winning bank.
LEMMA ReleaseEffect ==
  ASSUME scenario \in Scenario, rows \in Tables, NEW j \in JoinType, Identified(j), NEW mode, NEW x,
         Release(j, mode, x)
  PROVE  LET gone == Released(j, mode, x)
         IN  /\ gone \subseteq j.awaiting
             /\ \A e \in gone, f \in j.awaiting : f[1] <= e[1] => f \in gone
             /\ join' \in JoinType /\ Identified(join')
             /\ join'.held = j.held /\ join'.awaiting = j.awaiting \ gone
             /\ rows' \in Tables
             /\ rows'.transactions = rows.transactions \cup {e[1] : e \in gone}
             /\ rows'.blocks = rows.blocks \cup {ReleasedRow(j, e) : e \in gone}
             /\ \A e \in gone : LET r == ReleasedRow(j, e)
                                IN  r.slot = e[1] /\ RowTrue(r) /\ (r.footer # NoFooter => r.bank # NoBank)
<1> DEFINE gone == Released(j, mode, x)
           P == j.pending \ UNION {JoinedFooter(j, e) : e \in gone}
           B == {ReleasedRow(j, e) : e \in gone}
<1>0. j.awaiting \in SUBSET (Slot \X {NoBank, 0, 1}) /\ j.pending \in SUBSET StatusPair
  BY DEF JoinType
<1>1. gone \subseteq j.awaiting
  BY DEF Released
<1>2. ASSUME NEW e \in gone, NEW f \in j.awaiting, f[1] <= e[1] PROVE f \in gone
  <2>1. mode # "skip" /\ \A g \in j.awaiting : g[1] <= e[1] => JoinedFooter(j, g) # {} \/ Due(j, g, mode, x)
    BY DEF Released
  <2>2. ASSUME NEW g \in j.awaiting, g[1] <= f[1] PROVE g[1] <= e[1]
    <3>1. g[1] \in Nat /\ f[1] \in Nat /\ e[1] \in Nat
      BY <1>0, <1>1, BufferedRowsAssumption DEF Slot
    <3> QED BY <1>2, <2>2, <3>1
  <2> QED BY <2>1, <2>2 DEF Released
<1>3. join' = [j EXCEPT !.awaiting = @ \ gone, !.pending = P]
  BY DEF Release
<1>4. rows' = [transactions |-> rows.transactions \cup {r.slot : r \in B},
               blocks |-> rows.blocks \cup B, entries |-> rows.entries \cup {r.slot : r \in B}]
  BY DEF Release, AppendBlocks
<1>5. ASSUME NEW e \in gone
      PROVE  LET r == ReleasedRow(j, e)
             IN  r \in BlockRow /\ r.slot = e[1] /\ RowTrue(r) /\ (r.footer # NoFooter => r.bank # NoBank)
  <2> DEFINE r == ReleasedRow(j, e)
             ft == IF JoinedFooter(j, e) = {} THEN NoFooter
                   ELSE IF <<e[1], Scalar(e[1])>> \in JoinedFooter(j, e) THEN "winner" ELSE "loser"
  <2>1. e[1] \in Slot /\ e[2] \in {NoBank, 0, 1} /\ e = <<e[1], e[2]>>
    BY <1>0, <1>1
  <2>2. e[1] \in Produced /\ e[2] \in {NoBank, Scalar(e[1])}
        /\ ("flip" \notin scenario.faults => e[2] = Bank(e[1]))
    BY <1>1 DEF Identified
  <2>3. r = [slot |-> e[1], bank |-> e[2], footer |-> ft]
    BY DEF ReleasedRow
  <2>4. JoinedFooter(j, e) # {} => e \in j.pending /\ JoinedFooter(j, e) = {e}
    BY DEF JoinedFooter
  <2>5. JoinedFooter(j, e) # {} => e[2] \in {0, 1}
    BY <1>0, <2>4 DEF StatusPair
  <2>6. JoinedFooter(j, e) # {} => e[2] = Scalar(e[1])
    BY <2>2, <2>5 DEF NoBank
  <2>7. ft \in {"winner", NoFooter} /\ (ft # NoFooter => e[2] # NoBank)
    <3>1. CASE JoinedFooter(j, e) = {}
      BY <3>1
    <3>2. CASE JoinedFooter(j, e) # {}
      BY <2>1, <2>4, <2>5, <2>6, <3>2 DEF NoBank, NoFooter
    <3> QED BY <3>1, <3>2
  <2> HIDE DEF ft, r
  <2>8. r.slot = e[1] /\ r.bank = e[2] /\ r.footer = ft
    BY <2>3
  <2>9. r \in BlockRow
    BY <2>1, <2>3, <2>7 DEF BlockRow, Footer, NoFooter
  <2>10. RowTrue(r)
    BY <2>2, <2>7, <2>8 DEF RowTrue
  <2> QED BY <2>7, <2>8, <2>9, <2>10 DEF r
<1>6. B \subseteq BlockRow /\ {r.slot : r \in B} = {e[1] : e \in gone} /\ {e[1] : e \in gone} \subseteq Slot
  <2>1. \A e \in gone : ReleasedRow(j, e) \in BlockRow /\ ReleasedRow(j, e).slot = e[1]
    BY <1>5
  <2>2. \A e \in gone : e[1] \in Slot
    BY <1>0, <1>1
  <2> HIDE DEF gone
  <2> QED BY <2>1, <2>2
<1> HIDE DEF gone, P, B
<1>7. P \subseteq j.pending
  BY DEF P
<1>8. /\ join' \in JoinType /\ join'.held = j.held /\ join'.awaiting = j.awaiting \ gone
      /\ join'.legacy = j.legacy /\ join'.known = j.known
  BY <1>3, <1>7 DEF JoinType
<1>9. Identified(join')
  BY <1>8 DEF Identified
<1>10. rows' \in Tables /\ rows'.transactions = rows.transactions \cup {e[1] : e \in gone}
       /\ rows'.blocks = rows.blocks \cup B
  BY <1>4, <1>6 DEF Tables
<1> QED BY <1>1, <1>2, <1>5, <1>8, <1>9, <1>10 DEF gone, B

\* The rows of a prefix of the waiting blocks move to the tabs.
Departs(j, tabs, gone, added, k, new) ==
  /\ j \in JoinType /\ k \in JoinType /\ tabs \in Tables /\ new \in Tables
  /\ gone \subseteq j.awaiting
  /\ \A r \in added : \E e \in gone : r.slot = e[1]
  /\ \A e \in gone : \E r \in added : r.slot = e[1]
  /\ \A r, q \in added : r.slot = q.slot => r = q
  /\ \A e \in gone, f \in j.awaiting : f[1] <= e[1] => f \in gone
  /\ k.held = j.held /\ k.awaiting = j.awaiting \ gone
  /\ new.blocks = tabs.blocks \cup added

\* Blocks that leave in slot order keep the order of everything behind them, and
\* nothing is lost on the way.
LEMMA ReleaseOrder ==
  ASSUME scenario \in Scenario, stored \in Tables, NEW c \in Nat,
         NEW j, NEW tabs, NEW gone, NEW added, NEW k, NEW new,
         Departs(j, tabs, gone, added, k, new), Ordered(j, tabs, c), Reached(j, tabs, c)
  PROVE  /\ Ordered(k, new, c) /\ Reached(k, new, c)
         /\ Gapless(StoredSlots \cup RowSlots(new))
         /\ \A e \in gone, q \in StoredSlots : Behind(q, e[1])
<1> USE DEF Departs
<1>0. /\ \A e \in j.awaiting \cup j.held : e[1] \in Nat
      /\ \A q \in StoredSlots : q \in Nat
      /\ \A r \in tabs.blocks \cup new.blocks : r.slot \in Nat
      /\ \A s \in Produced : s \in Nat
  <2>1. Slot \subseteq Nat
    BY BufferedRowsAssumption DEF Slot
  <2>2. \A e \in j.awaiting \cup j.held : e[1] \in Slot
    BY DEF JoinType, StatusPair
  <2>3. \A r \in tabs.blocks \cup new.blocks \cup stored.blocks : r.slot \in Slot
    BY DEF Tables, BlockRow
  <2>4. \A q \in StoredSlots : q \in Slot
    BY <2>3 DEF StoredSlots
  <2> QED BY <2>1, <2>2, <2>3, <2>4, ScenarioFacts
<1>1. \A w \in Waiting(j) : w \in Nat
  BY <1>0 DEF Waiting
<1>2. Waiting(k) \subseteq Waiting(j)
  BY DEF Waiting
<1>3. ASSUME NEW e \in gone, NEW w \in Waiting(k) PROVE e[1] < w
  <2>1. PICK f \in j.held \cup (j.awaiting \ gone) : w = f[1]
    BY DEF Waiting
  <2>2. e[1] \in Nat /\ w \in Nat
    BY <1>0, <2>1
  <2>3. CASE f \in j.held
    BY <2>1, <2>3 DEF Ordered
  <2>4. CASE f \in j.awaiting \ gone
    <3>1. ~(f[1] <= e[1])
      BY <2>4
    <3> QED BY <2>1, <2>2, <3>1
  <2> QED BY <2>1, <2>3, <2>4
<1>4. \A r \in new.blocks : r \in tabs.blocks \/ (r \in added /\ \E e \in gone : r.slot = e[1])
  OBVIOUS
<1>5. Ordered(k, new, c)
  <2>1. /\ \A g, h \in k.held : g[1] = h[1] => g = h
        /\ \A e, f \in k.awaiting : e[1] = f[1] => e = f
        /\ \A e \in k.awaiting, h \in k.held : e[1] < h[1]
    BY DEF Ordered
  <2>2. /\ \A w \in Waiting(k) : w < c /\ \A q \in StoredSlots : Behind(q, w)
        /\ \A q \in StoredSlots : Behind(q, c)
    BY <1>2 DEF Ordered
  <2>3. ASSUME NEW r \in new.blocks PROVE r.slot < c /\ \A w \in Waiting(k) : r.slot < w
    <3>1. CASE r \in tabs.blocks
      BY <1>2, <3>1 DEF Ordered
    <3>2. CASE r \notin tabs.blocks
      <4>1. PICK e \in gone : r.slot = e[1]
        BY <1>4, <3>2
      <4>2. e[1] < c
        BY DEF Ordered, Waiting
      <4> QED BY <1>3, <4>1, <4>2
    <3> QED BY <3>1, <3>2
  <2>4. ASSUME NEW r \in new.blocks, NEW q \in new.blocks, r.slot = q.slot PROVE r = q
    <3>1. \A p \in tabs.blocks, e \in gone : p.slot < e[1]
      BY DEF Ordered, Waiting
    <3>2. \A p \in tabs.blocks, e \in gone : p.slot # e[1]
      BY <1>0, <3>1
    <3>3. CASE r \in tabs.blocks /\ q \in tabs.blocks
      BY <2>4, <3>3 DEF Ordered
    <3>4. CASE r \notin tabs.blocks /\ q \notin tabs.blocks
      BY <1>4, <2>4, <3>4
    <3>5. CASE r \in tabs.blocks /\ q \notin tabs.blocks
      BY <1>4, <2>4, <3>2, <3>5
    <3>6. CASE r \notin tabs.blocks /\ q \in tabs.blocks
      BY <1>4, <2>4, <3>2, <3>6
    <3> QED BY <3>3, <3>4, <3>5, <3>6
  <2> QED BY <2>1, <2>2, <2>3, <2>4 DEF Ordered
<1>6. RowSlots(new) = RowSlots(tabs) \cup {e[1] : e \in gone}
  BY DEF RowSlots
<1>7. Waiting(j) = Waiting(k) \cup {e[1] : e \in gone}
  BY DEF Waiting
<1>8. Pipe(k, new) = Pipe(j, tabs)
  BY <1>6, <1>7 DEF Pipe
<1>9. Reached(k, new, c)
  BY <1>8 DEF Reached
<1>10. Gapless(StoredSlots \cup RowSlots(new))
  <2> SUFFICES ASSUME NEW a \in StoredSlots \cup RowSlots(new), NEW b \in StoredSlots \cup RowSlots(new),
                      NEW s \in Produced, a <= s, s <= b
               PROVE  s \in StoredSlots \cup RowSlots(new)
    BY DEF Gapless
  <2>1. a \in Nat /\ b \in Nat /\ s \in Nat
    BY <1>0 DEF RowSlots
  <2>2. a \in Pipe(k, new) /\ b \in Pipe(k, new)
    BY DEF Pipe
  <2>3. b < c \/ b = c
    <3>1. CASE b \in StoredSlots
      BY <1>5, <3>1 DEF Ordered, Behind
    <3>2. CASE b \in RowSlots(new)
      BY <1>5, <3>2 DEF Ordered, RowSlots
    <3> QED BY <3>1, <3>2
  <2>4. CASE s = b
    BY <2>4
  <2>5. CASE s # b
    <3>1. s < c
      BY <2>1, <2>3, <2>5
    <3>2. s \in Pipe(k, new)
      BY <1>9, <2>2, <3>1 DEF Reached
    <3>3. CASE s \in Waiting(k)
      <4>1. b \in StoredSlots => Behind(b, s)
        BY <1>5, <3>3 DEF Ordered
      <4>2. b \in RowSlots(new) => b < s
        BY <1>5, <3>3 DEF Ordered, RowSlots
      <4> QED BY <2>1, <2>5, <4>1, <4>2 DEF Behind
    <3> QED BY <3>2, <3>3 DEF Pipe
  <2> QED BY <2>4, <2>5
<1>11. \A e \in gone, q \in StoredSlots : Behind(q, e[1])
  BY <1>7 DEF Ordered
<1> QED BY <1>5, <1>9, <1>10, <1>11

\* More than awaitMax waiting blocks push the oldest ones out.
LEMMA ReleaseLimits ==
  ASSUME scenario \in Scenario, NEW j \in JoinType, NEW x,
         \A e, f \in j.awaiting : e[1] = f[1] => e = f
  PROVE  /\ Cardinality(j.awaiting \ Released(j, "due", x)) <= scenario.awaitMax
         /\ Released(j, "drain", x) = j.awaiting
<1> DEFINE gone == Released(j, "due", x)
           left == j.awaiting \ gone
           Over(f) == JoinedFooter(j, f) # {} \/ Due(j, f, "due", x)
           early == {f \in j.awaiting : ~Over(f)}
           S == {f[1] : f \in early}
<1>0. \A e \in j.awaiting : e[1] \in Nat
  BY BufferedRowsAssumption DEF JoinType, Slot
<1>1. Released(j, "drain", x) = j.awaiting
  BY DEF Released, Due
<1>2. gone = {e \in j.awaiting : \A f \in j.awaiting : f[1] <= e[1] => Over(f)}
  BY DEF Released
<1>3. CASE early = {}
  <2>1. left = {}
    BY <1>2, <1>3
  <2> QED BY <1>1, <2>1, FS_EmptySet, ScenarioFacts
<1>4. CASE early # {}
  <2>1. S \subseteq Nat /\ S # {}
    BY <1>0, <1>4
  <2>2. PICK m \in S : \A y \in S : m <= y
    <3> HIDE DEF S
    <3> QED BY <2>1, LeastSlot
  <2>3. PICK g \in early : m = g[1]
    OBVIOUS
  <2> DEFINE A == {f \in j.awaiting : f[1] >= g[1]}
  <2>4. left \subseteq A
    <3> SUFFICES ASSUME NEW e \in left PROVE e[1] >= g[1]
      OBVIOUS
    <3>1. PICK f \in j.awaiting : f[1] <= e[1] /\ ~Over(f)
      BY <1>2
    <3>2. g[1] <= f[1]
      BY <2>2, <2>3, <3>1
    <3> QED BY <1>0, <3>1, <3>2
  <2>5. ~(Cardinality(A) > scenario.awaitMax)
    BY <2>3 DEF Due
  <2>6. IsFiniteSet(A)
    <3>1. IsFiniteSet(j.awaiting) /\ A \in SUBSET j.awaiting
      BY JoinFinite
    <3> HIDE DEF A
    <3> QED BY <3>1, FS_Subset
  <2>7. Cardinality(A) \in Nat
    <3> HIDE DEF A
    <3> QED BY <2>6, FS_CardinalityType
  <2>8. IsFiniteSet(left) /\ Cardinality(left) <= Cardinality(A)
    <3> HIDE DEF A, left
    <3> QED BY <2>4, <2>6, FS_Subset
  <2>9. Cardinality(left) \in Nat
    <3> HIDE DEF left
    <3> QED BY <2>8, FS_CardinalityType
  <2>10. scenario.awaitMax \in Nat
    BY ScenarioFacts
  <2> HIDE DEF A, left
  <2>11. Cardinality(left) <= scenario.awaitMax
    BY <2>5, <2>7, <2>8, <2>9, <2>10
  <2> QED BY <1>1, <2>11 DEF left
<1> QED BY <1>3, <1>4

-----------------------------------------------------------------------------
(* How an update ends. *)

\* The tables, the ceiling and the scenario are what they were.
Apart == UNCHANGED <<scenario, ceiling, stored>>

\* A flush is launched for one of the callers, or none and the process may end.
Launch(then) ==
  /\ flush' \in FlushType /\ proc' \in Ended \cup {"up"}
  /\ flush'.step \in {"none", "merge"}
  /\ \/ flush' = NoFlush /\ (proc' = "up" => "run" \in then) /\ (proc' # "up" => proc' \in then)
     \/ proc' = "up" /\ flush'.then \in then

\* What the join and the buffers must be for the next state to be a good one.
Good(j, tabs, c) ==
  /\ j \in JoinType /\ Identified(j) /\ Bounded(j)
  /\ tabs \in Tables
  /\ \A r \in tabs.blocks : RowTrue(r) /\ RowOwned(r)
  /\ RowSlots(tabs) \subseteq tabs.transactions \cup stored.transactions
  /\ c \in Nat
  /\ Ordered(j, tabs, c)
  /\ Gapless(StoredSlots \cup RowSlots(tabs))

\* A step that leaves the tables alone and launches a flush.
LEMMA LaunchKeeps ==
  ASSUME GInv, Apart, NEW then \in SUBSET FlushThen, Launch(then), Good(join', rows', cursor'),
         "run" \in then => Reached(join', rows', cursor'),
         then \cap {"fatal", "shutdown"} # {} =>
            /\ Reached(join', rows', cursor')
            /\ join'.awaiting = {}
            /\ flush' = NoFlush /\ join'.held = {} => rows' = EmptyRows
  PROVE  GInv'
<1> USE DEF Apart
<1>1. StoredSlots' = StoredSlots /\ Produced' = Produced
  BY DEF StoredSlots, Produced
<1>2. TypeOK'
  <2>1. proc' # "up" => flush' = NoFlush
    BY DEF Launch
  <2> QED BY <2>1 DEF GInv, TypeOK, Launch, Good
<1>3. Identified(join)' /\ Bounded(join)'
  BY DEF Good, Identified, Bounded, Produced, Bank, Scalar
<1>4. (\A e, f \in join.awaiting : e[1] = f[1] => e = f)'
  BY DEF Good, Ordered
<1>5. BufferInv'
  <2>1. (\A r \in rows.blocks \cup stored.blocks : RowTrue(r))'
    BY DEF Good, GInv, BufferInv, RowTrue, Produced, Bank
  <2>2. (\A r \in rows.blocks : RowOwned(r))'
    BY DEF Good, RowOwned
  <2>3. Gapless(StoredSlots)'
    BY <1>1 DEF GInv, BufferInv, Gapless
  <2>4. (RowSlots(rows) \subseteq rows.transactions \cup stored.transactions)'
    BY DEF Good, RowSlots
  <2>5. (\A r, q \in stored.blocks : r.slot = q.slot => r = q)' /\ (StoredSlots \subseteq stored.transactions)'
    BY <1>1 DEF GInv, BufferInv
  <2> QED BY <2>1, <2>2, <2>3, <2>4, <2>5 DEF BufferInv
<1>6. FlushInv'
  <2>1. flush'.step \in {"none", "merge"}
    BY DEF Launch
  <2>2. flush'.then \in {"fatal", "shutdown"} => join'.awaiting = {}
    BY DEF Launch, NoFlush
  <2> QED BY <2>1, <2>2 DEF FlushInv
<1>7. UpInv'
  <2>1. Ordered(join, rows, cursor)'
    <3>1. Ordered(join', rows', cursor')
      BY DEF Good
    <3> QED BY <1>1, <3>1 DEF Ordered, Waiting, Behind
  <2>2. Gapless(StoredSlots \cup RowSlots(rows))'
    <3>1. Gapless(StoredSlots \cup RowSlots(rows'))
      BY DEF Good
    <3> QED BY <1>1, <3>1 DEF Gapless, RowSlots
  <2>3. ASSUME proc' = "up", flush'.then # "rejected" PROVE Reached(join, rows, cursor)'
    <3>1. Reached(join', rows', cursor')
      <4>1. flush' = NoFlush => "run" \in then
        BY <2>3 DEF Launch, NoFlush
      <4>2. flush' # NoFlush => then \cap {"run", "fatal", "shutdown"} # {}
        <5>1. flush' # NoFlush => flush'.then \in then /\ flush'.then \in FlushThen
          BY DEF Launch
        <5> QED BY <2>3, <5>1 DEF FlushThen
      <4> QED BY <4>1, <4>2
    <3> QED BY <1>1, <3>1 DEF Reached, Pipe, RowSlots, Waiting
  <2> QED BY <2>1, <2>2, <2>3 DEF UpInv
<1>8. StopWritesWaiting'
  <2> SUFFICES ASSUME proc' \in {"fatal", "shutdown"}, join'.held = {}
               PROVE  join'.awaiting = {} /\ rows' = EmptyRows
    BY DEF StopWritesWaiting, EmptyRows
  <2>1. proc' # "up" /\ flush' = NoFlush /\ proc' \in then
    BY DEF Launch
  <2> QED BY <2>1
<1> QED BY <1>2, <1>3, <1>4, <1>5, <1>6, <1>7, <1>8 DEF GInv

\* A flush that is begun has an end to go to.
LEMMA BeginFlushLaunches ==
  ASSUME TypeOK, Listening, NEW tabs, NEW retries \in Nat, NEW then \in FlushThen,
         NEW s \in Slot \cup {0},
         BeginFlush(tabs, retries, then, s)
  PROVE  Launch({then}) /\ (flush' = NoFlush => tabs = EmptyRows)
<1>1. CASE tabs = EmptyRows
  <2>1. flush' = NoFlush /\ proc' = IF then = "run" THEN proc ELSE then
    BY <1>1 DEF BeginFlush
  <2>2. NoFlush \in FlushType /\ NoFlush.step = "none"
    BY DEF NoFlush, FlushType, FlushThen
  <2>3. CASE then = "run"
    BY <1>1, <2>1, <2>2, <2>3 DEF Launch, Listening
  <2>4. CASE then # "run"
    <3>1. proc' = then /\ then \in Ended /\ proc' # "up"
      BY <2>1, <2>4 DEF FlushThen, Ended
    <3> QED BY <1>1, <2>1, <2>2, <3>1 DEF Launch
  <2> QED BY <2>3, <2>4
<1>2. CASE tabs # EmptyRows
  <2>1. /\ flush' = [step |-> "merge", retries |-> retries, then |-> then, slot |-> s]
        /\ proc' = proc
    BY <1>2 DEF BeginFlush
  <2>2. flush' \in FlushType /\ flush'.step = "merge" /\ flush'.then = then
    BY <2>1 DEF FlushType, FlushStep
  <2>3. flush' # NoFlush
    BY <2>2 DEF NoFlush
  <2> QED BY <2>1, <2>2, <2>3 DEF Launch, Listening
<1> QED BY <1>1, <1>2

\* A rejected update ends the process, after a flush of what came before it.
LEMMA RejectLaunches ==
  ASSUME TypeOK, Listening, NEW j, NEW s, Reject(j, s)
  PROVE  Launch({"rejected"}) /\ join' = j /\ rows' = rows
<1>1. join' = j /\ rows' = rows
  BY DEF Reject
<1>2. CASE j.held = {} /\ \A r \in rows.blocks : r.slot < s
  <2>1. BeginFlush(rows, 0, "rejected", 0)
    BY <1>2 DEF Reject
  <2> QED BY <1>1, <2>1, BeginFlushLaunches DEF FlushThen
<1>3. CASE ~(j.held = {} /\ \A r \in rows.blocks : r.slot < s)
  <2>1. flush' = NoFlush /\ proc' = "rejected"
    BY <1>3 DEF Reject
  <2>2. NoFlush \in FlushType /\ NoFlush.step = "none"
    BY DEF NoFlush, FlushType, FlushThen
  <2> QED BY <1>1, <2>1, <2>2 DEF Launch, Ended
<1> QED BY <1>2, <1>3

\* process_canonical_update after an error.
LEMMA RejectKeeps ==
  ASSUME GInv, Listening, Apart, cursor' \in Nat, NEW j \in JoinType, NEW s,
         Identified(j), Bounded(j), Ordered(j, rows, cursor'), Reject(j, s)
  PROVE  GInv'
<1>1. Launch({"rejected"}) /\ join' = j /\ rows' = rows
  BY RejectLaunches DEF GInv
<1>2. Gapless(StoredSlots \cup RowSlots(rows))
  BY DEF GInv, UpInv, Listening
<1>3. Good(j, rows, cursor')
  BY <1>2 DEF Good, GInv, TypeOK, BufferInv
<1>4. Good(join', rows', cursor')
  BY <1>1, <1>3
<1> QED BY <1>1, <1>4, LaunchKeeps DEF FlushThen

\* What release_awaiting makes of a good join and tabs.
LEMMA ReleaseGood ==
  ASSUME GInv, NEW c \in Nat, NEW j \in JoinType, NEW mode, NEW x,
         Identified(j), Cardinality(j.held) <= scenario.holdMax,
         Ordered(j, rows, c), Reached(j, rows, c), mode \in {"due", "drain"}, Release(j, mode, x)
  PROVE  /\ Good(join', rows', c) /\ Reached(join', rows', c)
         /\ join'.held = j.held
         /\ mode = "drain" => join'.awaiting = {}
<1> DEFINE gone == Released(j, mode, x)
           added == {ReleasedRow(j, e) : e \in gone}
<1>0. scenario \in Scenario /\ rows \in Tables /\ stored \in Tables
  BY DEF GInv, TypeOK
<1>1. /\ gone \subseteq j.awaiting
      /\ \A e \in gone, f \in j.awaiting : f[1] <= e[1] => f \in gone
      /\ join' \in JoinType /\ Identified(join')
      /\ join'.held = j.held /\ join'.awaiting = j.awaiting \ gone
      /\ rows' \in Tables
      /\ rows'.transactions = rows.transactions \cup {e[1] : e \in gone}
      /\ rows'.blocks = rows.blocks \cup added
  BY <1>0, ReleaseEffect
<1>2. \A e \in gone : ReleasedRow(j, e).slot = e[1] /\ RowTrue(ReleasedRow(j, e))
                      /\ (ReleasedRow(j, e).footer # NoFooter => ReleasedRow(j, e).bank # NoBank)
  BY <1>0, ReleaseEffect
<1>3. \A e, f \in j.awaiting : e[1] = f[1] => e = f
  BY DEF Ordered
<1>4. /\ \A r \in added : \E e \in gone : r.slot = e[1]
      /\ \A e \in gone : \E r \in added : r.slot = e[1]
  <2> HIDE DEF gone
  <2> QED BY <1>2
<1>5. \A r, q \in added : r.slot = q.slot => r = q
  <2> SUFFICES ASSUME NEW e \in gone, NEW f \in gone, ReleasedRow(j, e).slot = ReleasedRow(j, f).slot
               PROVE  ReleasedRow(j, e) = ReleasedRow(j, f)
    OBVIOUS
  <2>1. e = f
    BY <1>1, <1>2, <1>3
  <2> QED BY <2>1
<1>6. \A r \in added : \E e \in gone : r = ReleasedRow(j, e)
  OBVIOUS
<1> HIDE DEF gone, added
<1>7. /\ Ordered(join', rows', c) /\ Reached(join', rows', c)
      /\ Gapless(StoredSlots \cup RowSlots(rows'))
      /\ \A e \in gone, q \in StoredSlots : Behind(q, e[1])
  <2>1. Departs(j, rows, gone, added, join', rows')
    BY <1>0, <1>1, <1>4, <1>5 DEF Departs
  <2> QED BY <1>0, <2>1, ReleaseOrder
<1>8. ASSUME NEW r \in rows'.blocks PROVE RowTrue(r) /\ RowOwned(r)
  <2>1. CASE r \in rows.blocks
    BY <2>1 DEF GInv, BufferInv
  <2>2. CASE r \in added
    <3>1. PICK e \in gone : r = ReleasedRow(j, e)
      BY <1>6, <2>2
    <3>2. r.slot = e[1] /\ RowTrue(r) /\ (r.footer # NoFooter => r.bank # NoBank)
      BY <1>2, <3>1
    <3>3. ASSUME NEW q \in stored.blocks, q.slot = r.slot PROVE r.slot <= ceiling
      <4>1. q.slot \in StoredSlots
        BY DEF StoredSlots
      <4>2. Behind(r.slot, r.slot)
        BY <1>7, <3>2, <3>3, <4>1
      <4>3. r.slot \in Nat
        BY <1>0, <3>3, BufferedRowsAssumption DEF Tables, BlockRow, Slot
      <4> QED BY <4>2, <4>3 DEF Behind
    <3> QED BY <3>2, <3>3 DEF RowOwned
  <2> QED BY <1>1, <2>1, <2>2
<1>9. RowSlots(rows') \subseteq rows'.transactions \cup stored.transactions
  <2> SUFFICES ASSUME NEW r \in rows'.blocks PROVE r.slot \in rows'.transactions \cup stored.transactions
    BY DEF RowSlots
  <2>1. CASE r \in rows.blocks
    BY <1>1, <2>1 DEF GInv, BufferInv, RowSlots
  <2>2. CASE r \in added
    BY <1>1, <1>4, <2>2
  <2> QED BY <1>1, <2>1, <2>2
<1>10. Cardinality(join'.awaiting) <= scenario.awaitMax /\ (mode = "drain" => join'.awaiting = {})
  <2>1. CASE mode = "due"
    BY <1>0, <1>1, <1>3, <2>1, ReleaseLimits DEF gone
  <2>2. CASE mode = "drain"
    <3>1. join'.awaiting = {}
      BY <1>0, <1>1, <1>3, <2>2, ReleaseLimits DEF gone
    <3> QED BY <1>0, <3>1, FS_EmptySet, ScenarioFacts
  <2> QED BY <2>1, <2>2
<1> QED BY <1>1, <1>7, <1>8, <1>9, <1>10 DEF Good, Bounded

\* The rest of an update that is in the join.
LEMMA ProceedKeeps ==
  ASSUME GInv, Listening, Apart, cursor' \in Nat, NEW j \in JoinType, NEW s \in Slot,
         Identified(j), Bounded(j), Ordered(j, rows, cursor'), Reached(j, rows, cursor'), Proceed(j, s)
  PROVE  GInv'
<1>0. TypeOK /\ scenario \in Scenario
  BY DEF GInv, TypeOK
<1>1. CASE Reject(j, s)
  BY <1>1, RejectKeeps
<1>2. CASE Reject([j EXCEPT !.held = {}], s)
  <2> DEFINE k == [j EXCEPT !.held = {}]
  <2>1. k \in JoinType /\ k.held = {} /\ k.awaiting = j.awaiting /\ k.legacy = j.legacy /\ k.known = j.known
    BY DEF JoinType
  <2>2. Reject(k, s)
    BY <1>2
  <2> HIDE DEF k
  <2>3. Identified(k)
    BY <2>1 DEF Identified
  <2>4. Bounded(k)
    BY <1>0, <2>1, FS_EmptySet, ScenarioFacts DEF Bounded
  <2>5. Ordered(k, rows, cursor')
    <3>1. Waiting(k) \subseteq Waiting(j)
      BY <2>1 DEF Waiting
    <3> QED BY <2>1, <3>1 DEF Ordered
  <2> QED BY <2>1, <2>2, <2>3, <2>4, <2>5, RejectKeeps
<1>3. ASSUME NEW x, Release(TakeReady(j), "due", x),
             IF TakeReady(j).held = {} /\ Cardinality(rows'.blocks) >= scenario.flushRows
             THEN BeginFlush(rows', MaxRetries, "run", s)
             ELSE UNCHANGED <<flush, proc>>
      PROVE  GInv'
  <2> DEFINE k == TakeReady(j)
  <2>1. /\ k \in JoinType /\ Identified(k) /\ Cardinality(k.held) <= scenario.holdMax
        /\ Ordered(k, rows, cursor') /\ Reached(k, rows, cursor')
    BY <1>0, TakeReadyEffect DEF Bounded
  <2>2. Release(k, "due", x)
    BY <1>3
  <2>3. Launch({"run"})
    <3>1. CASE k.held = {} /\ Cardinality(rows'.blocks) >= scenario.flushRows
      <4>1. BeginFlush(rows', MaxRetries, "run", s)
        BY <1>3, <3>1
      <4> QED BY <1>0, <4>1, BeginFlushLaunches, BufferedRowsAssumption DEF FlushThen
    <3>2. CASE ~(k.held = {} /\ Cardinality(rows'.blocks) >= scenario.flushRows)
      <4>1. flush' = NoFlush /\ proc' = "up"
        BY <1>3, <3>2 DEF Listening
      <4>2. NoFlush \in FlushType /\ NoFlush.step = "none"
        BY DEF NoFlush, FlushType, FlushThen
      <4> QED BY <4>1, <4>2 DEF Launch
    <3> QED BY <3>1, <3>2
  <2> HIDE DEF k
  <2>4. Good(join', rows', cursor') /\ Reached(join', rows', cursor')
    BY <2>1, <2>2, ReleaseGood
  <2> QED BY <2>3, <2>4, LaunchKeeps DEF FlushThen
<1>4. \/ Reject(j, s)
      \/ Reject([j EXCEPT !.held = {}], s)
      \/ \E x \in {0} \cup {e[1] : e \in TakeReady(j).awaiting} :
              /\ Release(TakeReady(j), "due", x)
              /\ IF TakeReady(j).held = {} /\ Cardinality(rows'.blocks) >= scenario.flushRows
                 THEN BeginFlush(rows', MaxRetries, "run", s)
                 ELSE UNCHANGED <<flush, proc>>
  BY Zenon DEF Proceed
<1> QED BY <1>1, <1>2, <1>3, <1>4

\* prune changes no block, so what was good before it is good after it.
LEMMA PruneAndProceedKeeps ==
  ASSUME GInv, Listening, Apart, cursor' \in Nat, NEW j \in JoinType, NEW s \in Slot,
         Identified(j), Bounded(j), Ordered(j, rows, cursor'), Reached(j, rows, cursor'),
         PruneAndProceed(j, s)
  PROVE  GInv'
<1> DEFINE k == Prune(j)
<1>0. scenario \in Scenario
  BY DEF GInv, TypeOK
<1>1. k \in JoinType /\ Identified(k) /\ k.held = j.held /\ k.awaiting = j.awaiting
  BY <1>0, PruneEffect
<1>2. Reject(k, s) \/ Proceed(k, s)
  BY DEF PruneAndProceed
<1> HIDE DEF k
<1>3. Waiting(k) = Waiting(j)
  BY <1>1 DEF Waiting
<1>4. Bounded(k) /\ Ordered(k, rows, cursor') /\ Reached(k, rows, cursor')
  BY <1>1, <1>3 DEF Bounded, Ordered, Reached, Pipe
<1> QED BY <1>1, <1>2, <1>4, RejectKeeps, ProceedKeeps

-----------------------------------------------------------------------------
(* The updates. *)

\* What a join holds is all that the order, the limits and the progress depend on.
LEMMA SameBlocks ==
  ASSUME NEW j, NEW k, k.held = j.held, k.awaiting = j.awaiting, NEW tabs, NEW c
  PROVE  /\ Bounded(j) => Bounded(k)
         /\ Ordered(j, tabs, c) => Ordered(k, tabs, c)
         /\ Reached(j, tabs, c) => Reached(k, tabs, c)
<1>1. Waiting(k) = Waiting(j)
  BY DEF Waiting
<1> QED BY <1>1 DEF Bounded, Ordered, Reached, Pipe

\* The state in which an update arrives.
LEMMA ListeningFacts ==
  ASSUME GInv, Listening
  PROVE  /\ scenario \in Scenario /\ join \in JoinType /\ Identified(join) /\ Bounded(join)
         /\ cursor \in Nat /\ rows \in Tables /\ stored \in Tables
         /\ Ordered(join, rows, cursor) /\ Reached(join, rows, cursor)
  BY DEF GInv, TypeOK, UpInv, Listening, NoFlush

\* A stored slot or a block that lies behind a slot lies behind the next one.
LEMMA OrderedNext ==
  ASSUME GInv, Listening
  PROVE  Ordered(join, rows, cursor + 1)
<1>1. cursor \in Nat /\ rows \in Tables /\ stored \in Tables /\ join \in JoinType /\ Ordered(join, rows, cursor)
  BY ListeningFacts
<1>2. /\ \A q \in StoredSlots : q \in Nat
      /\ \A w \in Waiting(join) : w \in Nat
      /\ \A r \in rows.blocks : r.slot \in Nat
  <2>1. \A r \in rows.blocks \cup stored.blocks : r.slot \in Slot
    BY <1>1 DEF Tables, BlockRow
  <2>2. \A e \in join.held \cup join.awaiting : e[1] \in Slot
    BY <1>1 DEF JoinType, StatusPair
  <2>3. Slot \subseteq Nat
    BY BufferedRowsAssumption DEF Slot
  <2> QED BY <2>1, <2>2, <2>3 DEF StoredSlots, Waiting
<1>3. \A q \in StoredSlots : Behind(q, cursor + 1)
  BY <1>1, <1>2 DEF Ordered, Behind
<1>4. \A w \in Waiting(join) : w < cursor + 1
  BY <1>1, <1>2 DEF Ordered
<1>5. \A r \in rows.blocks : r.slot < cursor + 1
  BY <1>1, <1>2 DEF Ordered
<1> QED BY <1>1, <1>3, <1>4, <1>5 DEF Ordered

\* A block is staged as the newest one, or rejected.
LEMMA BlockKeeps ==
  ASSUME GInv, NEW scalar, NEW whole, cursor \in Produced, BlockUpdate(cursor, scalar, whole),
         scalar = Scalar(cursor) \/ WinnerConflict(join, cursor, scalar), cursor' = cursor + 1
  PROVE  GInv'
<1>0. Listening /\ Apart
  BY DEF BlockUpdate, Apart
<1>1. /\ scenario \in Scenario /\ join \in JoinType /\ Identified(join) /\ Bounded(join)
      /\ cursor \in Nat /\ rows \in Tables /\ stored \in Tables
      /\ Ordered(join, rows, cursor) /\ Reached(join, rows, cursor)
  BY <1>0, ListeningFacts
<1>2. cursor' \in Nat /\ cursor \in Slot
  BY <1>1, ScenarioFacts
<1>3. CASE Reject(join, cursor)
  <2>1. Ordered(join, rows, cursor')
    BY <1>0, OrderedNext
  <2> QED BY <1>0, <1>1, <1>2, <1>3, <2>1, RejectKeeps
<1>4. CASE ~WinnerConflict(join, cursor, scalar) /\ ~StageFails(join, cursor)
           /\ PruneAndProceed(Stage(join, cursor, scalar), cursor)
  <2> DEFINE k == Stage(join, cursor, Scalar(cursor))
             x == <<cursor, Scalar(cursor)>>
  <2>1. scalar = Scalar(cursor)
    BY <1>4
  <2>2. /\ k \in JoinType /\ Identified(k)
        /\ k.held = join.held \cup {x} /\ k.awaiting = join.awaiting
        /\ Cardinality(k.held) <= scenario.holdMax
    BY <1>1, <1>4, StageEffect DEF Bounded
  <2>3. PruneAndProceed(k, cursor)
    BY <1>4, <2>1
  <2>4. x[1] = cursor
    OBVIOUS
  <2> HIDE DEF k, x
  <2>5. Bounded(k)
    BY <1>1, <2>2 DEF Bounded
  <2>6. Waiting(k) = Waiting(join) \cup {cursor}
    BY <2>2, <2>4 DEF Waiting
  <2>7. Ordered(join, rows, cursor')
    BY <1>0, OrderedNext
  <2>8. Ordered(k, rows, cursor')
    <3>1. \A e \in join.held \cup join.awaiting : e[1] < cursor /\ e[1] \in Nat
      <4>1. \A w \in Waiting(join) : w < cursor
        BY <1>1 DEF Ordered
      <4> QED BY <1>1, <4>1, BufferedRowsAssumption DEF Waiting, JoinType, StatusPair, Slot
    <3>2. \A g, h \in k.held : g[1] = h[1] => g = h
      <4>1. \A g \in join.held : g[1] # x[1]
        BY <1>1, <2>4, <3>1
      <4> QED BY <2>2, <2>7, <4>1 DEF Ordered
    <3>3. \A e \in k.awaiting, h \in k.held : e[1] < h[1]
      BY <2>2, <2>4, <2>7, <3>1 DEF Ordered
    <3>4. \A w \in Waiting(k) : w < cursor' /\ \A q \in StoredSlots : Behind(q, w)
      BY <1>1, <2>6, <2>7 DEF Ordered
    <3>5. \A r \in rows.blocks : \A w \in Waiting(k) : r.slot < w
      BY <1>1, <2>6, <2>7 DEF Ordered
    <3> QED BY <2>2, <2>7, <3>2, <3>3, <3>4, <3>5 DEF Ordered
  <2>9. Reached(k, rows, cursor')
    <3> SUFFICES ASSUME NEW a \in Pipe(k, rows), NEW s \in Produced, a <= s, s < cursor'
                 PROVE  s \in Pipe(k, rows)
      BY DEF Reached
    <3>1. Pipe(k, rows) = Pipe(join, rows) \cup {cursor}
      BY <2>6 DEF Pipe
    <3>2. s \in Nat /\ a \in Nat
      <4>1. s \in Nat
        BY <1>1, ScenarioFacts
      <4>2. \A r \in rows.blocks \cup stored.blocks : r.slot \in Nat
        BY <1>1, BufferedRowsAssumption DEF Tables, BlockRow, Slot
      <4>3. \A e \in join.held \cup join.awaiting : e[1] \in Nat
        BY <1>1, BufferedRowsAssumption DEF JoinType, StatusPair, Slot
      <4> QED BY <1>1, <3>1, <4>1, <4>2, <4>3 DEF Pipe, StoredSlots, RowSlots, Waiting
    <3>3. CASE s = cursor
      BY <3>1, <3>3
    <3>4. CASE s # cursor
      <4>1. s < cursor
        BY <1>1, <3>2, <3>4
      <4>2. a \in Pipe(join, rows)
        BY <1>1, <3>1, <3>2, <4>1
      <4> QED BY <1>1, <3>1, <4>1, <4>2 DEF Reached
    <3> QED BY <3>3, <3>4
  <2> QED BY <1>0, <1>2, <2>2, <2>3, <2>5, <2>8, <2>9, PruneAndProceedKeeps
<1> QED BY <1>3, <1>4 DEF BlockUpdate

\* A footer or a status that passed its checks changes no block.
LEMMA EvidenceKeeps ==
  ASSUME GInv, Listening, Apart, cursor' = cursor, NEW k \in JoinType, NEW s \in Slot, Identified(k),
         k.held = join.held, k.awaiting = join.awaiting, PruneAndProceed(k, s)
  PROVE  GInv'
<1>1. /\ Bounded(join) /\ cursor \in Nat
      /\ Ordered(join, rows, cursor) /\ Reached(join, rows, cursor)
  BY ListeningFacts
<1>2. Bounded(k) /\ Ordered(k, rows, cursor') /\ Reached(k, rows, cursor')
  BY <1>1, SameBlocks
<1> QED BY <1>1, <1>2, PruneAndProceedKeeps

\* A footer, of the winner or of a loser, joins the statuses and may let blocks go
\* to the buffers (SubscribeUpdate::BlockFooter).
LEMMA FooterKeeps ==
  ASSUME GInv, NEW s \in Produced, NEW b \in {0, 1}, SendFooter(s, b)
  PROVE  GInv'
<1>0. Listening /\ Apart /\ cursor' = cursor /\ PruneAndProceed(ObserveFooter(join, s, b), s)
  BY DEF SendFooter, Apart
<1>1. scenario \in Scenario /\ join \in JoinType /\ Identified(join)
  BY <1>0, ListeningFacts
<1>2. s \in Slot
  BY <1>1, ScenarioFacts
<1>3. /\ ObserveFooter(join, s, b) \in JoinType /\ Identified(ObserveFooter(join, s, b))
      /\ ObserveFooter(join, s, b).held = join.held /\ ObserveFooter(join, s, b).awaiting = join.awaiting
  BY <1>1, <1>2, ObserveFooterEffect
<1> QED BY <1>0, <1>2, <1>3, EvidenceKeeps

\* One slot status: the evidence it gives is the producer's, unless the producer
\* contradicts itself.
LEMMA StatusKeeps ==
  ASSUME GInv, NEW s \in Produced, NEW b \in {NoBank, 0, 1}, NEW status, SlotUpdate(s, b, status),
         "flip" \notin scenario.faults =>
            (b = NoBank => Bank(s) = NoBank) /\ (b = 0 => Bank(s) # NoBank)
  PROVE  GInv'
<1>0. Listening /\ Apart /\ cursor' = cursor
  BY DEF SlotUpdate, Apart
<1>1. /\ scenario \in Scenario /\ join \in JoinType /\ Identified(join) /\ Bounded(join)
      /\ cursor \in Nat /\ Ordered(join, rows, cursor)
  BY <1>0, ListeningFacts
<1>2. s \in Slot
  BY <1>1, ScenarioFacts
<1>3. CASE Reject(join, s)
  BY <1>0, <1>1, <1>3, RejectKeeps
<1>4. CASE PruneAndProceed(ObserveStatus(join, s, b, status), s)
  <2> DEFINE k == ObserveStatus(join, s, b, status)
  <2>1. k \in JoinType /\ Identified(k) /\ k.held = join.held /\ k.awaiting = join.awaiting
    BY <1>1, ObserveStatusEffect
  <2>2. PruneAndProceed(k, s)
    BY <1>4
  <2> HIDE DEF k
  <2> QED BY <1>0, <1>2, <2>1, <2>2, EvidenceKeeps
<1> QED BY <1>3, <1>4 DEF SlotUpdate

\* The three kinds of slot statuses: of the winner, of a losing bank and flipped ones.
LEMMA StatusesKeep ==
  ASSUME GInv, NEW s \in Produced, NEW status,
         SendStatus(s, status) \/ SendLoserStatus(s, status) \/ SendFlippedStatus(s, status)
  PROVE  GInv'
<1>0. scenario \in Scenario
  BY DEF GInv, TypeOK
<1>1. /\ Bank(s) \in {NoBank, 0, 1} /\ Loser(s) \in {0, 1} /\ (Loser(s) = 0 => Bank(s) # NoBank)
      /\ NoBank # 0 /\ NoBank # 1
  BY <1>0, ScenarioFacts DEF NoBank
<1>2. CASE SendStatus(s, status)
  BY <1>1, <1>2, StatusKeeps DEF SendStatus
<1>3. CASE SendLoserStatus(s, status)
  BY <1>1, <1>3, StatusKeeps DEF SendLoserStatus
<1>4. CASE SendFlippedStatus(s, status)
  <2> DEFINE b == IF Bank(s) = NoBank THEN 0 ELSE NoBank
  <2>1. SlotUpdate(s, b, status) /\ b \in {NoBank, 0, 1} /\ "flip" \in scenario.faults
    BY <1>4 DEF SendFlippedStatus
  <2> HIDE DEF b
  <2> QED BY <2>1, StatusKeeps
<1> QED BY <1>2, <1>3, <1>4

\* A slot without a block only moves the source on.
LEMMA SkipKeeps ==
  ASSUME GInv, SkipSlot
  PROVE  GInv'
<1>0. Listening /\ Apart /\ cursor' = cursor + 1 /\ cursor \notin Produced
      /\ join' = join /\ rows' = rows /\ flush' = flush /\ proc' = proc
  BY DEF SkipSlot, Apart, bufferVars
<1>1. /\ scenario \in Scenario /\ join \in JoinType /\ Identified(join) /\ Bounded(join)
      /\ cursor \in Nat /\ rows \in Tables /\ stored \in Tables /\ Reached(join, rows, cursor)
  BY <1>0, ListeningFacts
<1>2. Ordered(join, rows, cursor')
  BY <1>0, OrderedNext
<1>3. Reached(join, rows, cursor')
  <2>1. \A s \in Produced : s \in Nat
    BY <1>1, ScenarioFacts
  <2>2. \A s \in Produced : s < cursor' => s < cursor
    BY <1>0, <1>1, <2>1
  <2> QED BY <1>1, <2>2 DEF Reached
<1>4. Good(join', rows', cursor') /\ Reached(join', rows', cursor')
  <2>1. Gapless(StoredSlots \cup RowSlots(rows))
    BY <1>0 DEF GInv, UpInv, Listening
  <2>2. cursor' \in Nat
    BY <1>0, <1>1
  <2>3. Good(join, rows, cursor')
    BY <1>1, <1>2, <2>1, <2>2 DEF Good, GInv, BufferInv
  <2> QED BY <1>0, <1>3, <2>3
<1>5. Launch({"run"})
  BY <1>0 DEF Launch, Listening, NoFlush, FlushType, FlushThen
<1> QED BY <1>0, <1>4, <1>5, LaunchKeeps DEF FlushThen

\* flush_canonical_rows: by the timer, or with the last release before a stop.
LEMMA FlushCanonicalKeeps ==
  ASSUME GInv, Listening, Apart, cursor' = cursor, NEW mode, NEW x, NEW retries \in Nat, NEW then,
         (mode = "due" /\ then = "run") \/ (mode = "drain" /\ then \in {"fatal", "shutdown"}),
         FlushCanonicalRows(join, mode, x, retries, then)
  PROVE  GInv'
<1>1. /\ scenario \in Scenario /\ join \in JoinType /\ Identified(join) /\ Bounded(join) /\ TypeOK
      /\ cursor \in Nat /\ Ordered(join, rows, cursor) /\ Reached(join, rows, cursor)
  BY ListeningFacts DEF GInv
<1>2. Release(join, mode, x)
  BY DEF FlushCanonicalRows
<1>3. /\ Good(join', rows', cursor') /\ Reached(join', rows', cursor')
      /\ join'.held = join.held /\ (mode = "drain" => join'.awaiting = {})
  BY <1>1, <1>2, ReleaseGood DEF Bounded
<1>4. then \in FlushThen
  BY DEF FlushThen
<1>5. Launch({then}) /\ (flush' = NoFlush /\ join.held = {} => rows' = EmptyRows)
  <2>1. CASE join.held = {}
    <3>1. BeginFlush(rows', retries, then, 0)
      BY <2>1 DEF FlushCanonicalRows
    <3> QED BY <1>1, <1>4, <3>1, BeginFlushLaunches
  <2>2. CASE join.held # {}
    <3>1. flush' = NoFlush /\ proc' = IF then = "run" THEN proc ELSE then
      BY <2>2 DEF FlushCanonicalRows
    <3>2. NoFlush \in FlushType /\ NoFlush.step = "none"
      BY DEF NoFlush, FlushType, FlushThen
    <3>3. proc = "up"
      BY DEF Listening
    <3> QED BY <2>2, <3>1, <3>2, <3>3 DEF Launch, Ended
  <2> QED BY <2>1, <2>2
<1> QED BY <1>3, <1>4, <1>5, LaunchKeeps

-----------------------------------------------------------------------------
(* The flush. *)

\* A merged row keeps its slot and takes the stored footer.
LEMMA MergeEffect ==
  ASSUME GInv, NEW r \in rows.blocks
  PROVE  LET m == MergeFooter(r)
         IN  /\ m \in BlockRow /\ m.slot = r.slot /\ RowTrue(m) /\ RowOwned(m)
             /\ \A q \in stored.blocks : q.slot = r.slot /\ q.footer # NoFooter => m.footer = q.footer
<1> DEFINE m == MergeFooter(r)
<1>0. r \in BlockRow /\ RowTrue(r) /\ RowOwned(r) /\ stored.blocks \subseteq BlockRow
  BY DEF GInv, BufferInv, TypeOK, Tables
<1>1. CASE r.footer = NoFooter /\ r.slot <= ceiling /\ \E q \in stored.blocks : q.slot = r.slot
  <2> DEFINE q == CHOOSE q \in stored.blocks : q.slot = r.slot
  <2>1. q \in stored.blocks /\ q.slot = r.slot
    BY <1>1
  <2>2. m = [r EXCEPT !.footer = q.footer]
    BY <1>1 DEF MergeFooter
  <2> HIDE DEF q, m
  <2>3. q.footer \in {"winner", NoFooter} /\ q.footer \in Footer \cup {NoFooter}
    BY <1>0, <2>1 DEF GInv, BufferInv, RowTrue, BlockRow
  <2>4. m \in BlockRow /\ m.slot = r.slot /\ m.bank = r.bank /\ m.footer = q.footer
    BY <1>0, <2>2, <2>3 DEF BlockRow
  <2>5. RowTrue(m)
    BY <1>0, <2>3, <2>4 DEF RowTrue
  <2>6. RowOwned(m)
    BY <1>1, <2>4 DEF RowOwned
  <2>7. \A p \in stored.blocks : p.slot = r.slot => p = q
    BY <2>1 DEF GInv, BufferInv
  <2> QED BY <2>4, <2>5, <2>6, <2>7 DEF m
<1>2. CASE ~(r.footer = NoFooter /\ r.slot <= ceiling /\ \E q \in stored.blocks : q.slot = r.slot)
  <2>1. m = r
    BY <1>2 DEF MergeFooter
  <2>2. ASSUME NEW q \in stored.blocks, q.slot = r.slot, q.footer # NoFooter PROVE r.footer = q.footer
    <3>1. RowTrue(q)
      BY DEF GInv, BufferInv
    <3>2. r.slot <= ceiling \/ q.footer = r.footer
      BY <1>0, <2>2 DEF RowOwned
    <3>3. r.footer # NoFooter \/ q.footer = r.footer
      BY <1>2, <2>2, <3>2
    <3> QED BY <1>0, <2>2, <3>1, <3>3 DEF RowTrue
  <2> QED BY <1>0, <2>1, <2>2
<1> QED BY <1>1, <1>2

\* The order and the progress of the pipe survive a move of rows into the tables.
LEMMA MoveKeeps ==
  ASSUME GInv, proc = "up", UNCHANGED <<scenario, join, cursor, ceiling>>, rows' \in Tables,
         stored' \in Tables,
         StoredSlots' = StoredSlots \/ StoredSlots' = StoredSlots \cup RowSlots(rows),
         StoredSlots' \cup RowSlots(rows') = StoredSlots \cup RowSlots(rows),
         \A r \in rows'.blocks : \E q \in rows.blocks : r.slot = q.slot,
         \A r, q \in rows'.blocks : r.slot = q.slot => r = q
  PROVE  /\ Ordered(join, rows, cursor)'
         /\ Gapless(StoredSlots)' /\ Gapless(StoredSlots \cup RowSlots(rows))'
         /\ Reached(join, rows, cursor) => Reached(join, rows, cursor)'
         /\ Identified(join)' /\ Bounded(join)'
<1>0. Ordered(join, rows, cursor) /\ Gapless(StoredSlots \cup RowSlots(rows)) /\ Gapless(StoredSlots)
  BY DEF GInv, UpInv, BufferInv
<1>1. Produced' = Produced
  BY DEF Produced
<1>2. /\ \A w \in Waiting(join), q \in StoredSlots' : Behind(q, w)
      /\ \A q \in StoredSlots' : Behind(q, cursor)
  <2> SUFFICES ASSUME NEW q \in StoredSlots'
               PROVE  Behind(q, cursor) /\ \A w \in Waiting(join) : Behind(q, w)
    OBVIOUS
  <2>1. CASE q \in StoredSlots
    BY <1>0, <2>1 DEF Ordered
  <2>2. CASE q \in RowSlots(rows)
    BY <1>0, <2>2 DEF Ordered, RowSlots, Behind
  <2> QED BY <2>1, <2>2
<1>3. \A r \in rows'.blocks : r.slot < cursor /\ \A w \in Waiting(join) : r.slot < w
  BY <1>0 DEF Ordered
<1>4. Ordered(join, rows, cursor)'
  BY <1>0, <1>2, <1>3 DEF Ordered, Waiting, Behind
<1>5. Gapless(StoredSlots)'
  BY <1>0, <1>1 DEF Gapless
<1>6. Gapless(StoredSlots \cup RowSlots(rows))'
  <2>1. (StoredSlots \cup RowSlots(rows))' = StoredSlots \cup RowSlots(rows)
    BY DEF RowSlots
  <2> QED BY <1>0, <1>1, <2>1 DEF Gapless
<1>7. ASSUME Reached(join, rows, cursor) PROVE Reached(join, rows, cursor)'
  <2>1. Pipe(join, rows)' = Pipe(join, rows)
    BY DEF Pipe, Waiting, RowSlots
  <2> QED BY <1>1, <1>7, <2>1 DEF Reached
<1>8. Identified(join)' /\ Bounded(join)'
  BY DEF GInv, Identified, Bounded, Produced, Bank, Scalar
<1> QED BY <1>4, <1>5, <1>6, <1>7, <1>8

\* The newest row of a slot is its only one.
LEMMA ReplaceEffect ==
  ASSUME GInv, proc = "up"
  PROVE  LET new == Replace(stored.blocks, rows.blocks)
         IN  /\ new \subseteq BlockRow
             /\ {r.slot : r \in new} = StoredSlots \cup RowSlots(rows)
             /\ \A r, q \in new : r.slot = q.slot => r = q
             /\ \A r \in new : RowTrue(r)
             /\ \A r \in rows.blocks, q \in new : q.slot = r.slot => q = r
<1> DEFINE new == Replace(stored.blocks, rows.blocks)
<1>0. rows.blocks \subseteq BlockRow /\ stored.blocks \subseteq BlockRow
  BY DEF GInv, TypeOK, Tables
<1>1. new = {q \in stored.blocks : \A r \in rows.blocks : r.slot # q.slot} \cup rows.blocks
  BY DEF Replace
<1>2. \A r, q \in rows.blocks : r.slot = q.slot => r = q
  BY DEF GInv, UpInv, Ordered
<1>3. \A r, q \in stored.blocks : r.slot = q.slot => r = q
  BY DEF GInv, BufferInv
<1>4. \A r \in rows.blocks \cup stored.blocks : RowTrue(r)
  BY DEF GInv, BufferInv
<1> HIDE DEF new
<1>5. {r.slot : r \in new} = StoredSlots \cup RowSlots(rows)
  BY <1>1 DEF StoredSlots, RowSlots
<1>6. \A r \in rows.blocks, q \in new : q.slot = r.slot => q = r
  BY <1>1, <1>2
<1>7. \A r, q \in new : r.slot = q.slot => r = q
  BY <1>1, <1>2, <1>3
<1> QED BY <1>0, <1>1, <1>4, <1>5, <1>6, <1>7 DEF new

\* What one insert does to the tables, applied or not.
LEMMA AppliedEffect ==
  ASSUME GInv, proc = "up", flush.step \in {"transactions", "blocks", "entries"},
         stored' \in {stored, Applied}
  PROVE  /\ stored' \in Tables
         /\ stored.transactions \subseteq stored'.transactions
         /\ stored' = Applied /\ flush.step = "transactions" => rows.transactions \subseteq stored'.transactions
         /\ \/ stored'.blocks = stored.blocks
            \/ flush.step = "blocks" /\ stored'.blocks = Replace(stored.blocks, rows.blocks)
         /\ stored' = Applied /\ flush.step = "blocks" => stored'.blocks = Replace(stored.blocks, rows.blocks)
<1> DEFINE B == Replace(stored.blocks, rows.blocks)
<1>0. rows \in Tables /\ stored \in Tables
  BY DEF GInv, TypeOK
<1>1. CASE flush.step = "transactions"
  <2>1. Applied = [stored EXCEPT !.transactions = @ \cup rows.transactions]
    BY <1>1 DEF Applied
  <2> HIDE DEF B
  <2> QED BY <1>0, <1>1, <2>1 DEF Tables
<1>2. CASE flush.step = "blocks"
  <2>1. Applied = [stored EXCEPT !.blocks = B]
    BY <1>2 DEF Applied
  <2>2. B \subseteq BlockRow
    BY ReplaceEffect
  <2> HIDE DEF B
  <2>3. stored' \in Tables /\ stored'.transactions = stored.transactions
        /\ (stored'.blocks = stored.blocks \/ stored'.blocks = B)
        /\ (stored' = Applied => stored'.blocks = B)
    BY <1>0, <1>2, <2>1, <2>2 DEF Tables
  <2> QED BY <1>2, <2>3 DEF B
<1>3. CASE flush.step = "entries"
  <2>1. Applied = [stored EXCEPT !.entries = @ \cup rows.entries]
    BY <1>3 DEF Applied
  <2> HIDE DEF B
  <2> QED BY <1>0, <1>3, <2>1 DEF Tables
<1> QED BY <1>1, <1>2, <1>3

\* One insert, applied or not, whose tabs may have been cleared by its success.
LEMMA StoreKeeps ==
  ASSUME GInv, proc = "up", flush.step \in {"transactions", "blocks", "entries"},
         UNCHANGED <<scenario, join, cursor, ceiling>>, stored' \in {stored, Applied}, rows' \in Tables,
         \/ rows'.blocks = rows.blocks
         \/ rows'.blocks = {} /\ flush.step = "blocks" /\ stored' = Applied,
         \/ rows'.transactions = rows.transactions
         \/ rows'.transactions = {} /\ flush.step = "transactions" /\ stored' = Applied
  PROVE  /\ stored' \in Tables /\ BufferInv' /\ Identified(join)' /\ Bounded(join)'
         /\ Ordered(join, rows, cursor)' /\ Gapless(StoredSlots \cup RowSlots(rows))'
         /\ Reached(join, rows, cursor) => Reached(join, rows, cursor)'
         /\ (\A r \in rows.blocks, q \in stored.blocks :
                q.slot = r.slot /\ q.footer # NoFooter => r.footer = q.footer)'
         /\ FootersKept
<1> DEFINE B == Replace(stored.blocks, rows.blocks)
<1>0. /\ stored' \in Tables
      /\ stored.transactions \subseteq stored'.transactions
      /\ stored' = Applied /\ flush.step = "transactions" => rows.transactions \subseteq stored'.transactions
      /\ \/ stored'.blocks = stored.blocks
         \/ flush.step = "blocks" /\ stored'.blocks = B
      /\ stored' = Applied /\ flush.step = "blocks" => stored'.blocks = B
  BY AppliedEffect
<1>1. /\ {r.slot : r \in B} = StoredSlots \cup RowSlots(rows)
      /\ \A r, q \in B : r.slot = q.slot => r = q
      /\ \A r \in B : RowTrue(r)
      /\ \A r \in rows.blocks, q \in B : q.slot = r.slot => q = r
  BY ReplaceEffect
<1>1a. B = {q \in stored.blocks : \A r \in rows.blocks : r.slot # q.slot} \cup rows.blocks
  BY DEF Replace
<1>1b. BufferInv /\ FlushInv /\ Ordered(join, rows, cursor)
  BY DEF GInv, UpInv
<1> HIDE DEF B
<1>2. StoredSlots' = {r.slot : r \in stored'.blocks}
  BY DEF StoredSlots
<1>3. StoredSlots' = StoredSlots \/ (flush.step = "blocks" /\ StoredSlots' = StoredSlots \cup RowSlots(rows))
  BY <1>0, <1>1, <1>2 DEF StoredSlots
<1>4. RowSlots(rows') = RowSlots(rows) \/ (RowSlots(rows') = {} /\ StoredSlots' = StoredSlots \cup RowSlots(rows))
  BY <1>0, <1>1, <1>2 DEF RowSlots
<1>5. rows'.blocks \subseteq rows.blocks
  OBVIOUS
<1>6. /\ Ordered(join, rows, cursor)'
      /\ Gapless(StoredSlots)' /\ Gapless(StoredSlots \cup RowSlots(rows))'
      /\ Reached(join, rows, cursor) => Reached(join, rows, cursor)'
      /\ Identified(join)' /\ Bounded(join)'
  <2>1. \A r, q \in rows'.blocks : r.slot = q.slot => r = q
    BY <1>1b, <1>5 DEF Ordered
  <2>2. StoredSlots' \cup RowSlots(rows') = StoredSlots \cup RowSlots(rows)
    BY <1>3, <1>4
  <2> QED BY <1>0, <1>3, <1>5, <2>1, <2>2, MoveKeeps
<1>7. \A r \in rows'.blocks, q \in stored'.blocks : q.slot = r.slot =>
        (q \in stored.blocks /\ stored'.blocks = stored.blocks) \/ q = r
  BY <1>0, <1>1, <1>5
<1>8. BufferInv'
  <2>1. (\A r \in rows.blocks \cup stored.blocks : RowTrue(r))'
    <3>1. \A r \in rows'.blocks \cup stored'.blocks : RowTrue(r)
      BY <1>0, <1>1, <1>1b, <1>5 DEF BufferInv
    <3> QED BY <3>1 DEF RowTrue, Produced, Bank
  <2>2. (\A r \in rows.blocks : RowOwned(r))'
    <3> SUFFICES ASSUME NEW r \in rows'.blocks PROVE RowOwned(r)'
      OBVIOUS
    <3>1. RowOwned(r)
      BY <1>1b, <1>5 DEF BufferInv
    <3> QED BY <1>7, <3>1 DEF RowOwned
  <2>3. (\A r, q \in stored.blocks : r.slot = q.slot => r = q)'
    BY <1>0, <1>1, <1>1b DEF BufferInv
  <2>4. RowSlots(rows) \subseteq rows.transactions \cup stored.transactions
    BY <1>1b DEF BufferInv
  <2>5. (StoredSlots \subseteq stored.transactions)'
    <3>1. flush.step = "blocks" => RowSlots(rows) \subseteq stored.transactions
      BY <1>1b, <2>4 DEF FlushInv
    <3> QED BY <1>0, <1>1b, <1>3, <3>1 DEF BufferInv
  <2>6. (RowSlots(rows) \subseteq rows.transactions \cup stored.transactions)'
    <3>1. RowSlots(rows') \subseteq RowSlots(rows)
      BY <1>5 DEF RowSlots
    <3>2. rows.transactions \subseteq rows'.transactions \cup stored'.transactions
      BY <1>0
    <3>3. RowSlots(rows') \subseteq rows'.transactions \cup stored'.transactions
      BY <1>0, <2>4, <3>1, <3>2
    <3> QED BY <3>3 DEF RowSlots
  <2> QED BY <1>6, <2>1, <2>2, <2>3, <2>5, <2>6 DEF BufferInv
<1>9. \A r \in rows.blocks, q \in stored.blocks : q.slot = r.slot /\ q.footer # NoFooter => r.footer = q.footer
  BY <1>1b DEF FlushInv
<1>10. (\A r \in rows.blocks, q \in stored.blocks :
          q.slot = r.slot /\ q.footer # NoFooter => r.footer = q.footer)'
  BY <1>5, <1>7, <1>9
<1>11. FootersKept
  <2> SUFFICES ASSUME NEW r \in stored.blocks, r.footer # NoFooter
               PROVE  \E q \in stored'.blocks : q.slot = r.slot /\ q.footer = r.footer
    BY DEF FootersKept
  <2>1. CASE stored'.blocks = stored.blocks
    BY <2>1
  <2>2. CASE stored'.blocks = B
    <3>1. CASE \A q \in rows.blocks : q.slot # r.slot
      BY <1>1a, <2>2, <3>1
    <3>2. CASE \E q \in rows.blocks : q.slot = r.slot
      BY <1>1a, <1>9, <2>2, <3>2
    <3> QED BY <3>1, <3>2
  <2> QED BY <1>0, <2>1, <2>2
<1> QED BY <1>0, <1>6, <1>8, <1>10, <1>11

\* A round trip of the flush: merged footers, transactions, block rows, entries and
\* the end of the flush.
LEMMA FlushNextKeeps ==
  ASSUME GInv, FlushNext
  PROVE  GInv' /\ FootersKept
<1>0. proc = "up" /\ UNCHANGED <<scenario, join, cursor>>
  BY DEF FlushNext
<1>1. /\ TypeOK /\ BufferInv /\ FlushInv /\ rows \in Tables /\ stored \in Tables /\ flush \in FlushType
      /\ Ordered(join, rows, cursor) /\ (flush.then # "rejected" => Reached(join, rows, cursor))
  BY <1>0 DEF GInv, TypeOK, UpInv
<1>2. CASE MergeStoredFooters /\ UNCHANGED proc
  <2> DEFINE B == {MergeFooter(r) : r \in rows.blocks}
  <2>0. /\ flush.step = "merge" /\ UNCHANGED <<ceiling, stored, proc>>
        /\ rows' = [rows EXCEPT !.blocks = B]
        /\ flush' = [flush EXCEPT !.step = "transactions"]
    BY <1>2 DEF MergeStoredFooters
  <2>1. \A r \in rows.blocks :
          /\ MergeFooter(r) \in BlockRow /\ MergeFooter(r).slot = r.slot
          /\ RowTrue(MergeFooter(r)) /\ RowOwned(MergeFooter(r))
          /\ \A q \in stored.blocks : q.slot = r.slot /\ q.footer # NoFooter => MergeFooter(r).footer = q.footer
    BY MergeEffect
  <2>2. /\ B \subseteq BlockRow
        /\ \A m \in B : RowTrue(m) /\ RowOwned(m) /\ \E r \in rows.blocks : m.slot = r.slot
        /\ \A m \in B, q \in stored.blocks : q.slot = m.slot /\ q.footer # NoFooter => m.footer = q.footer
    BY <2>1
  <2>3. \A r \in rows.blocks : MergeFooter(r) \in B
    OBVIOUS
  <2>4. \A m, n \in B : m.slot = n.slot => m = n
    <3> SUFFICES ASSUME NEW r \in rows.blocks, NEW q \in rows.blocks,
                        MergeFooter(r).slot = MergeFooter(q).slot
                 PROVE  MergeFooter(r) = MergeFooter(q)
      OBVIOUS
    <3>1. r = q
      BY <1>1, <2>1 DEF Ordered
    <3> QED BY <3>1
  <2> HIDE DEF B
  <2>5. rows' \in Tables /\ rows'.blocks = B /\ rows'.transactions = rows.transactions
    BY <1>1, <2>0, <2>2 DEF Tables
  <2>6. RowSlots(rows') = RowSlots(rows)
    <3>1. \A r \in rows.blocks : MergeFooter(r) \in B /\ MergeFooter(r).slot = r.slot
      BY <2>1, <2>3
    <3> QED BY <2>2, <2>5, <3>1 DEF RowSlots
  <2>7. flush' \in FlushType /\ flush'.step = "transactions" /\ flush'.then = flush.then
    BY <1>1, <2>0 DEF FlushType, FlushStep
  <2>8. StoredSlots' = StoredSlots
    BY <2>0 DEF StoredSlots
  <2>9. /\ Ordered(join, rows, cursor)'
        /\ Gapless(StoredSlots)' /\ Gapless(StoredSlots \cup RowSlots(rows))'
        /\ Reached(join, rows, cursor) => Reached(join, rows, cursor)'
        /\ Identified(join)' /\ Bounded(join)'
    BY <1>0, <1>1, <2>0, <2>2, <2>4, <2>5, <2>6, <2>8, MoveKeeps
  <2>10. TypeOK'
    BY <1>0, <1>1, <2>0, <2>5, <2>7 DEF TypeOK
  <2>11. BufferInv'
    <3>1. (\A r \in rows.blocks \cup stored.blocks : RowTrue(r))'
      <4>1. \A r \in rows'.blocks \cup stored'.blocks : RowTrue(r)
        BY <1>1, <2>0, <2>2, <2>5 DEF BufferInv
      <4> QED BY <1>0, <4>1 DEF RowTrue, Produced, Bank
    <3>2. (\A r \in rows.blocks : RowOwned(r))'
      BY <2>0, <2>2, <2>5 DEF RowOwned
    <3>3. (RowSlots(rows) \subseteq rows.transactions \cup stored.transactions)'
      <4>1. RowSlots(rows') \subseteq rows'.transactions \cup stored'.transactions
        BY <1>1, <2>0, <2>5, <2>6 DEF BufferInv
      <4> QED BY <4>1 DEF RowSlots
    <3> QED BY <1>1, <2>0, <2>8, <2>9, <3>1, <3>2, <3>3 DEF BufferInv
  <2>12. FlushInv'
    BY <1>0, <1>1, <2>0, <2>2, <2>5, <2>7 DEF FlushInv
  <2>13. UpInv'
    BY <1>1, <2>7, <2>9 DEF UpInv
  <2>14. StopWritesWaiting'
    BY <1>0, <2>0 DEF StopWritesWaiting
  <2>15. FootersKept
    BY <2>0 DEF FootersKept
  <2> QED BY <1>0, <2>9, <2>10, <2>11, <2>12, <2>13, <2>14, <2>15 DEF GInv
<1>3. CASE InsertTransactions /\ UNCHANGED proc
  <2>0. /\ flush.step = "transactions" /\ UNCHANGED <<ceiling, proc>> /\ stored' = Applied
        /\ rows' = [rows EXCEPT !.transactions = {}]
        /\ flush' = [flush EXCEPT !.step = "blocks"]
    BY <1>3 DEF InsertTransactions
  <2>1. rows' \in Tables /\ rows'.blocks = rows.blocks /\ rows'.transactions = {}
    BY <1>1, <2>0 DEF Tables
  <2>2. flush' \in FlushType /\ flush'.step = "blocks" /\ flush'.then = flush.then
    BY <1>1, <2>0 DEF FlushType, FlushStep
  <2>3. /\ stored' \in Tables /\ BufferInv' /\ Identified(join)' /\ Bounded(join)'
        /\ Ordered(join, rows, cursor)' /\ Gapless(StoredSlots \cup RowSlots(rows))'
        /\ Reached(join, rows, cursor) => Reached(join, rows, cursor)'
        /\ (\A r \in rows.blocks, q \in stored.blocks :
                q.slot = r.slot /\ q.footer # NoFooter => r.footer = q.footer)'
        /\ FootersKept
    BY <1>0, <2>0, <2>1, StoreKeeps
  <2>4. TypeOK'
    BY <1>0, <1>1, <2>0, <2>1, <2>2, <2>3 DEF TypeOK
  <2>5. FlushInv'
    BY <1>0, <1>1, <2>1, <2>2, <2>3 DEF FlushInv
  <2>6. UpInv'
    BY <1>1, <2>2, <2>3 DEF UpInv
  <2>7. StopWritesWaiting'
    BY <1>0, <2>0 DEF StopWritesWaiting
  <2> QED BY <1>0, <2>3, <2>4, <2>5, <2>6, <2>7 DEF GInv
<1>4. CASE InsertBlocks /\ UNCHANGED proc
  <2>0. /\ flush.step = "blocks" /\ UNCHANGED <<ceiling, proc>> /\ stored' = Applied
        /\ rows' = [rows EXCEPT !.blocks = {}]
        /\ flush' = [flush EXCEPT !.step = "entries"]
    BY <1>4 DEF InsertBlocks
  <2>1. rows' \in Tables /\ rows'.blocks = {} /\ rows'.transactions = rows.transactions
    BY <1>1, <2>0 DEF Tables
  <2>2. flush' \in FlushType /\ flush'.step = "entries" /\ flush'.then = flush.then
    BY <1>1, <2>0 DEF FlushType, FlushStep
  <2>3. /\ stored' \in Tables /\ BufferInv' /\ Identified(join)' /\ Bounded(join)'
        /\ Ordered(join, rows, cursor)' /\ Gapless(StoredSlots \cup RowSlots(rows))'
        /\ Reached(join, rows, cursor) => Reached(join, rows, cursor)'
        /\ FootersKept
    BY <1>0, <2>0, <2>1, StoreKeeps
  <2>4. TypeOK'
    BY <1>0, <1>1, <2>0, <2>1, <2>2, <2>3 DEF TypeOK
  <2>5. FlushInv'
    BY <1>0, <1>1, <2>0, <2>1, <2>2 DEF FlushInv
  <2>6. UpInv'
    BY <1>1, <2>2, <2>3 DEF UpInv
  <2>7. StopWritesWaiting'
    BY <1>0, <2>0 DEF StopWritesWaiting
  <2> QED BY <1>0, <2>3, <2>4, <2>5, <2>6, <2>7 DEF GInv
<1>5. CASE InsertEntries /\ proc' = IF flush.then = "run" THEN proc ELSE flush.then
  <2>0. /\ flush.step = "entries" /\ UNCHANGED ceiling /\ stored' = Applied
        /\ rows' = [rows EXCEPT !.entries = {}]
        /\ flush' = NoFlush
    BY <1>5 DEF InsertEntries
  <2>1. rows' \in Tables /\ rows'.blocks = rows.blocks /\ rows'.transactions = rows.transactions /\ rows'.entries = {}
    BY <1>1, <2>0 DEF Tables
  <2>2. NoFlush \in FlushType /\ NoFlush.step = "none" /\ NoFlush.then = "run"
    BY DEF NoFlush, FlushType, FlushThen
  <2>3. /\ stored' \in Tables /\ BufferInv' /\ Identified(join)' /\ Bounded(join)'
        /\ Ordered(join, rows, cursor)' /\ Gapless(StoredSlots \cup RowSlots(rows))'
        /\ Reached(join, rows, cursor) => Reached(join, rows, cursor)'
        /\ FootersKept
    BY <1>0, <2>0, <2>1, StoreKeeps
  <2>4. flush.then \in FlushThen /\ proc' \in Ended \cup {"up"} /\ (proc' = "up" => flush.then = "run")
        /\ (proc' # "up" => proc' = flush.then)
    <3>1. flush.then \in FlushThen
      BY <1>1 DEF FlushType
    <3> QED BY <1>0, <1>5, <3>1 DEF FlushThen, Ended
  <2>5. TypeOK'
    BY <1>0, <1>1, <2>0, <2>1, <2>2, <2>3, <2>4 DEF TypeOK
  <2>6. FlushInv'
    BY <2>0, <2>2 DEF FlushInv
  <2>7. UpInv'
    BY <1>1, <2>3, <2>4 DEF UpInv
  <2>8. StopWritesWaiting'
    <3> SUFFICES ASSUME proc' \in {"fatal", "shutdown"} PROVE join'.awaiting = {} /\ rows' = EmptyRows
      BY DEF StopWritesWaiting, EmptyRows
    <3>1. flush.then \in {"fatal", "shutdown"}
      BY <2>4
    <3>2. rows.blocks = {} /\ rows.transactions = {}
      BY <1>1, <2>0 DEF FlushInv
    <3>3. rows' = [transactions |-> {}, blocks |-> {}, entries |-> {}]
      BY <1>1, <2>0, <3>2 DEF Tables
    <3> QED BY <1>0, <1>1, <3>1, <3>3 DEF FlushInv, EmptyRows
  <2> QED BY <1>0, <2>3, <2>5, <2>6, <2>7, <2>8 DEF GInv
<1> QED BY <1>2, <1>3, <1>4, <1>5 DEF FlushNext

\* A failed insert that is tried again, applied or not (flush_buffers_with_retry).
LEMMA RetryKeeps ==
  ASSUME GInv, RetryFlush
  PROVE  GInv' /\ FootersKept
<1>0. /\ proc = "up" /\ UNCHANGED <<scenario, proc, join, cursor, rows, ceiling>> /\ stored' \in {stored, Applied}
      /\ flush.retries > 0 /\ RoundTrip /\ flush.step # "merge"
      /\ flush' = [flush EXCEPT !.step = "transactions", !.retries = @ - 1]
  BY DEF RetryFlush, RetryInsert
<1>1. /\ TypeOK /\ FlushInv /\ rows \in Tables /\ flush \in FlushType
      /\ (flush.then # "rejected" => Reached(join, rows, cursor))
  BY <1>0 DEF GInv, TypeOK, UpInv
<1>2. flush.step \in {"transactions", "blocks", "entries"}
  BY <1>0 DEF RoundTrip
<1>3. flush' \in FlushType /\ flush'.step = "transactions" /\ flush'.then = flush.then
  <2>1. flush.retries \in Nat /\ flush.retries - 1 \in Nat
    BY <1>0, <1>1 DEF FlushType
  <2> QED BY <1>0, <1>1, <2>1 DEF FlushType, FlushStep
<1>4. /\ stored' \in Tables /\ BufferInv' /\ Identified(join)' /\ Bounded(join)'
      /\ Ordered(join, rows, cursor)' /\ Gapless(StoredSlots \cup RowSlots(rows))'
      /\ Reached(join, rows, cursor) => Reached(join, rows, cursor)'
      /\ (\A r \in rows.blocks, q \in stored.blocks :
              q.slot = r.slot /\ q.footer # NoFooter => r.footer = q.footer)'
      /\ FootersKept
  BY <1>0, <1>1, <1>2, StoreKeeps
<1>5. TypeOK'
  BY <1>0, <1>1, <1>3, <1>4 DEF TypeOK
<1>6. FlushInv'
  BY <1>0, <1>1, <1>3, <1>4 DEF FlushInv
<1>7. UpInv'
  BY <1>1, <1>3, <1>4 DEF UpInv
<1>8. StopWritesWaiting'
  BY <1>0 DEF StopWritesWaiting
<1> QED BY <1>0, <1>4, <1>5, <1>6, <1>7, <1>8 DEF GInv

\* A failed insert without retries left ends the process, or ends it after one last
\* flush of what was buffered.
LEMMA FailKeeps ==
  ASSUME GInv, FailFlush
  PROVE  GInv' /\ FootersKept
<1>0. /\ proc = "up" /\ UNCHANGED <<scenario, join, cursor, rows, ceiling>> /\ RoundTrip
      /\ stored' \in IF flush.step = "merge" THEN {stored} ELSE {stored, Applied}
      /\ \/ proc' = "up" /\ flush' = [step |-> "merge", retries |-> 0, then |-> "rejected", slot |-> 0]
         \/ proc' = "failed" /\ flush' = NoFlush
  BY DEF FailFlush, InsertFails
<1>1. /\ TypeOK /\ BufferInv /\ FlushInv /\ rows \in Tables /\ stored \in Tables
      /\ Ordered(join, rows, cursor)
  BY <1>0 DEF GInv, TypeOK, UpInv
<1>2. /\ flush' \in FlushType /\ flush'.step \in {"none", "merge"} /\ flush'.then \in {"run", "rejected"}
      /\ (proc' = "up" => flush'.then = "rejected") /\ (proc' # "up" => flush' = NoFlush /\ proc' = "failed")
  BY <1>0 DEF NoFlush, FlushType, FlushThen, FlushStep
<1>3. /\ stored' \in Tables /\ BufferInv' /\ Identified(join)' /\ Bounded(join)'
      /\ Ordered(join, rows, cursor)' /\ Gapless(StoredSlots \cup RowSlots(rows))'
      /\ FootersKept
  <2>1. CASE flush.step = "merge"
    <3>1. stored' = stored
      BY <1>0, <2>1
    <3>2. StoredSlots' = StoredSlots
      BY <3>1 DEF StoredSlots
    <3>3. /\ Ordered(join, rows, cursor)'
          /\ Gapless(StoredSlots)' /\ Gapless(StoredSlots \cup RowSlots(rows))'
          /\ Identified(join)' /\ Bounded(join)'
      <4>1. \A r, q \in rows'.blocks : r.slot = q.slot => r = q
        BY <1>0, <1>1 DEF Ordered
      <4>2. RowSlots(rows') = RowSlots(rows)
        BY <1>0
      <4> QED BY <1>0, <1>1, <3>1, <3>2, <4>1, <4>2, MoveKeeps
    <3>4. BufferInv'
      <4>1. (\A r \in rows.blocks \cup stored.blocks : RowTrue(r))' /\ (\A r \in rows.blocks : RowOwned(r))'
        BY <1>0, <1>1, <3>1 DEF BufferInv, RowTrue, RowOwned, Produced, Bank
      <4> QED BY <1>0, <1>1, <3>1, <3>2, <3>3, <4>1 DEF BufferInv, RowSlots
    <3> QED BY <1>1, <3>1, <3>3, <3>4 DEF FootersKept
  <2>2. CASE flush.step # "merge"
    <3>1. flush.step \in {"transactions", "blocks", "entries"} /\ stored' \in {stored, Applied}
      BY <1>0, <2>2 DEF RoundTrip
    <3> QED BY <1>0, <1>1, <3>1, StoreKeeps
  <2> QED BY <2>1, <2>2
<1>4. TypeOK'
  BY <1>0, <1>1, <1>2, <1>3 DEF TypeOK, Ended
<1>5. FlushInv'
  BY <1>2 DEF FlushInv
<1>6. UpInv'
  BY <1>2, <1>3 DEF UpInv
<1>7. StopWritesWaiting'
  BY <1>2 DEF StopWritesWaiting
<1>8. (\A e, f \in join.awaiting : e[1] = f[1] => e = f)'
  BY <1>0 DEF GInv
<1> QED BY <1>3, <1>4, <1>5, <1>6, <1>7, <1>8 DEF GInv

-----------------------------------------------------------------------------
(* The end and the start of a process. *)

\* An empty join and empty buffers owe nothing.
LEMMA NewJoinFacts ==
  ASSUME scenario \in Scenario
  PROVE  /\ NewJoin \in JoinType /\ Identified(NewJoin) /\ Bounded(NewJoin)
         /\ NewJoin.held = {} /\ NewJoin.awaiting = {} /\ Waiting(NewJoin) = {}
         /\ EmptyRows \in Tables /\ EmptyRows.blocks = {} /\ EmptyRows.transactions = {} /\ RowSlots(EmptyRows) = {}
         /\ NoFlush \in FlushType /\ NoFlush.step = "none" /\ NoFlush.then = "run"
<1>1. NewJoin \in JoinType /\ NewJoin.held = {} /\ NewJoin.awaiting = {} /\ NewJoin.legacy = {} /\ NewJoin.known = {}
  BY DEF NewJoin, JoinType
<1>2. Identified(NewJoin)
  BY <1>1 DEF Identified
<1>3. Bounded(NewJoin)
  BY <1>1, FS_EmptySet, ScenarioFacts DEF Bounded
<1>4. Waiting(NewJoin) = {}
  BY <1>1 DEF Waiting
<1>5. EmptyRows \in Tables /\ EmptyRows.blocks = {} /\ EmptyRows.transactions = {}
  BY DEF EmptyRows, Tables
<1>6. RowSlots(EmptyRows) = {}
  BY <1>5 DEF RowSlots
<1>7. NoFlush \in FlushType /\ NoFlush.step = "none" /\ NoFlush.then = "run"
  BY DEF NoFlush, FlushType, FlushThen
<1> QED BY <1>1, <1>2, <1>3, <1>4, <1>5, <1>6, <1>7

\* The invariant of a state with an empty join and empty buffers.
LEMMA FreshKeeps ==
  ASSUME scenario \in Scenario, proc \in Ended \cup {"up"}, cursor \in Nat, stored \in Tables,
         ceiling \in Slot \cup {0}, join = NewJoin, rows = EmptyRows, flush = NoFlush,
         \A r \in stored.blocks : RowTrue(r),
         \A r, q \in stored.blocks : r.slot = q.slot => r = q,
         StoredSlots \subseteq stored.transactions, Gapless(StoredSlots),
         proc = "up" => \A q \in StoredSlots : Behind(q, cursor) /\ q <= cursor,
         proc = "up" => \A a \in StoredSlots, s \in Produced : a <= s /\ s < cursor => s \in StoredSlots
  PROVE  GInv
<1>1. /\ NewJoin \in JoinType /\ Identified(NewJoin) /\ Bounded(NewJoin)
      /\ NewJoin.held = {} /\ NewJoin.awaiting = {} /\ Waiting(NewJoin) = {}
      /\ EmptyRows \in Tables /\ EmptyRows.blocks = {} /\ EmptyRows.transactions = {} /\ RowSlots(EmptyRows) = {}
      /\ NoFlush \in FlushType /\ NoFlush.step = "none" /\ NoFlush.then = "run"
  BY NewJoinFacts
<1>2. TypeOK
  BY <1>1 DEF TypeOK
<1>3. BufferInv
  BY <1>1 DEF BufferInv
<1>4. FlushInv
  BY <1>1 DEF FlushInv
<1>5. UpInv
  <2> SUFFICES ASSUME proc = "up"
               PROVE  /\ Ordered(join, rows, cursor) /\ Reached(join, rows, cursor)
                      /\ Gapless(StoredSlots \cup RowSlots(rows))
    BY DEF UpInv
  <2>1. Ordered(join, rows, cursor)
    BY <1>1 DEF Ordered
  <2>2. Pipe(join, rows) = StoredSlots /\ StoredSlots \cup RowSlots(rows) = StoredSlots
    BY <1>1 DEF Pipe
  <2> QED BY <2>1, <2>2 DEF Reached
<1>6. StopWritesWaiting
  BY <1>1 DEF StopWritesWaiting
<1> QED BY <1>1, <1>2, <1>3, <1>4, <1>5, <1>6 DEF GInv

\* The first process finds empty tables.
LEMMA GrpcInitial ==
  ASSUME Init
  PROVE  GInv
<1>1. StoredSlots = {} /\ stored \in Tables /\ stored.blocks = {} /\ stored.transactions = {}
  BY DEF Init, StoredSlots, Tables
<1>2. Gapless(StoredSlots)
  BY <1>1 DEF Gapless
<1> QED BY <1>1, <1>2, FreshKeeps DEF Init

\* A crash forgets the join and the buffers; the tables stay as they are.
LEMMA CrashKeeps ==
  ASSUME GInv, Crash
  PROVE  GInv'
<1>0. /\ proc' = "crashed" /\ flush' = NoFlush /\ join' = NewJoin /\ rows' = EmptyRows
      /\ UNCHANGED <<scenario, cursor, ceiling, stored>>
  BY DEF Crash
<1>1. /\ scenario \in Scenario /\ cursor \in Nat /\ stored \in Tables /\ ceiling \in Slot \cup {0} /\ BufferInv
  BY DEF GInv, TypeOK
<1>2. StoredSlots' = StoredSlots /\ Produced' = Produced
  BY <1>0 DEF StoredSlots, Produced
<1>3. (\A r \in stored.blocks : RowTrue(r))'
  BY <1>0, <1>1 DEF BufferInv, RowTrue, Produced, Bank
<1>4. Gapless(StoredSlots)'
  BY <1>1, <1>2 DEF BufferInv, Gapless
<1>5. NewJoin' = NewJoin /\ EmptyRows' = EmptyRows /\ NoFlush' = NoFlush
  BY DEF NewJoin, EmptyRows, NoFlush
<1>6. (\A r, q \in stored.blocks : r.slot = q.slot => r = q)' /\ (StoredSlots \subseteq stored.transactions)'
  BY <1>0, <1>1, <1>2 DEF BufferInv
<1>7. proc' \in Ended \cup {"up"} /\ proc' # "up"
  BY <1>0 DEF Ended
<1>8. /\ NewJoin \in JoinType /\ Identified(NewJoin) /\ Bounded(NewJoin)
      /\ NewJoin.held = {} /\ NewJoin.awaiting = {}
      /\ EmptyRows \in Tables /\ EmptyRows.blocks = {} /\ EmptyRows.transactions = {} /\ RowSlots(EmptyRows) = {}
      /\ NoFlush \in FlushType /\ NoFlush.step = "none" /\ NoFlush.then = "run"
  BY <1>1, NewJoinFacts
<1>9. TypeOK'
  BY <1>0, <1>1, <1>7, <1>8 DEF TypeOK
<1>10. Identified(join)' /\ Bounded(join)'
  BY <1>0, <1>8 DEF Identified, Bounded, Produced, Bank, Scalar
<1>11. BufferInv'
  BY <1>0, <1>3, <1>4, <1>6, <1>8 DEF BufferInv, RowSlots
<1>12. FlushInv' /\ UpInv' /\ StopWritesWaiting'
  BY <1>0, <1>7, <1>8 DEF FlushInv, UpInv, StopWritesWaiting
<1>13. (\A e, f \in join.awaiting : e[1] = f[1] => e = f)'
  BY <1>0, <1>8
<1> QED BY <1>9, <1>10, <1>11, <1>12, <1>13 DEF GInv

\* The metadata tip is the newest stored slot.
LEMMA LatestIsMax ==
  ASSUME stored \in Tables
  PROVE  /\ LatestStored \in Slot \cup {0} /\ LatestStored \in Nat /\ \A s \in StoredSlots : s <= LatestStored
         /\ StoredSlots # {} => LatestStored \in StoredSlots
<1> DEFINE S == StoredSlots \cup {0}
           T == {MaxSlot - x : x \in S}
<1>0. StoredSlots \subseteq Slot /\ Slot \subseteq 1..MaxSlot /\ MaxSlot \in Nat
  <2>1. \A r \in stored.blocks : r.slot \in Slot
    BY DEF Tables, BlockRow
  <2> QED BY <2>1, BufferedRowsAssumption DEF StoredSlots, Slot
<1>1. S \subseteq 0..MaxSlot /\ 0 \in S
  BY <1>0
<1>2. T \subseteq Nat /\ T # {}
  BY <1>0, <1>1
<1>3. PICK m \in T : \A t \in T : m <= t
  <2> HIDE DEF T
  <2> QED BY <1>2, LeastSlot
<1>4. PICK x \in S : m = MaxSlot - x
  OBVIOUS
<1>5. ASSUME NEW y \in S PROVE x >= y
  <2>1. m <= MaxSlot - y
    BY <1>3
  <2>2. x \in 0..MaxSlot /\ y \in 0..MaxSlot /\ MaxSlot \in Nat
    BY <1>0, <1>1
  <2> QED BY <1>4, <2>1, <2>2
<1>6. Max(S) \in S /\ \A y \in S : Max(S) >= y
  BY <1>5 DEF Max
<1>7. LatestStored \in S /\ \A y \in S : LatestStored >= y
  BY <1>6 DEF LatestStored
<1>8. LatestStored \in Slot \cup {0} /\ LatestStored \in Nat
  BY <1>0, <1>1, <1>7
<1>9. \A s \in StoredSlots : s <= LatestStored /\ s \in Nat /\ s # 0
  BY <1>0, <1>7, <1>8
<1>10. ASSUME NEW s \in StoredSlots PROVE LatestStored \in StoredSlots
  <2>1. LatestStored # 0
    BY <1>8, <1>9
  <2> QED BY <1>7, <2>1
<1> QED BY <1>8, <1>9, <1>10

\* A restarted process resumes at the metadata tip, below which nothing is missing.
LEMMA StartKeeps ==
  ASSUME GInv, Start
  PROVE  GInv'
<1>0. /\ proc \in Ended /\ proc' = "up" /\ join' = NewJoin /\ rows' = EmptyRows /\ ceiling' = LatestStored
      /\ cursor' \in IF StoredSlots = {} THEN Slot ELSE {LatestStored}
      /\ UNCHANGED <<scenario, stored, flush>>
  BY DEF Start
<1>1. /\ scenario \in Scenario /\ stored \in Tables /\ BufferInv /\ flush = NoFlush
  BY <1>0 DEF GInv, TypeOK, Ended
<1>2. StoredSlots' = StoredSlots /\ Produced' = Produced
  BY <1>0 DEF StoredSlots, Produced
<1>3. /\ LatestStored \in Slot \cup {0} /\ LatestStored \in Nat /\ \A s \in StoredSlots : s <= LatestStored
      /\ StoredSlots # {} => LatestStored \in StoredSlots
  BY <1>1, LatestIsMax
<1>4. cursor' \in Nat
  BY <1>0, <1>3, BufferedRowsAssumption DEF Slot
<1>5. \A q \in StoredSlots : q \in Nat
  BY <1>1, BufferedRowsAssumption DEF StoredSlots, Tables, BlockRow, Slot
<1>6. \A q \in StoredSlots : q <= cursor' /\ q <= ceiling'
  BY <1>0, <1>3
<1>7. \A q \in StoredSlots' : Behind(q, cursor)' /\ q <= cursor'
  BY <1>2, <1>4, <1>5, <1>6 DEF Behind
<1>8. \A a \in StoredSlots, s \in Produced : a <= s /\ s < cursor' => s \in StoredSlots
  <2> SUFFICES ASSUME NEW a \in StoredSlots, NEW s \in Produced, a <= s,
                      s < cursor' PROVE s \in StoredSlots
    OBVIOUS
  <2>1. cursor' \in StoredSlots /\ s <= cursor'
    <3>1. s \in Nat
      BY <1>1, ScenarioFacts
    <3> QED BY <1>0, <1>3, <1>4, <3>1
  <2> QED BY <1>1, <2>1 DEF BufferInv, Gapless
<1>9. /\ NewJoin \in JoinType /\ Identified(NewJoin) /\ Bounded(NewJoin)
      /\ NewJoin.held = {} /\ NewJoin.awaiting = {} /\ Waiting(NewJoin) = {}
      /\ EmptyRows \in Tables /\ EmptyRows.blocks = {} /\ EmptyRows.transactions = {} /\ RowSlots(EmptyRows) = {}
      /\ NoFlush \in FlushType /\ NoFlush.step = "none" /\ NoFlush.then = "run"
  BY <1>1, NewJoinFacts
<1>10. TypeOK'
  BY <1>0, <1>1, <1>3, <1>4, <1>9 DEF TypeOK
<1>11. Identified(join)' /\ Bounded(join)'
  BY <1>0, <1>9 DEF Identified, Bounded, Produced, Bank, Scalar
<1>12. BufferInv'
  <2>1. (\A r \in stored.blocks : RowTrue(r))'
    BY <1>0, <1>1 DEF BufferInv, RowTrue, Produced, Bank
  <2>2. Gapless(StoredSlots)'
    BY <1>1, <1>2 DEF BufferInv, Gapless
  <2>3. (\A r, q \in stored.blocks : r.slot = q.slot => r = q)' /\ (StoredSlots \subseteq stored.transactions)'
    BY <1>0, <1>1, <1>2 DEF BufferInv
  <2> QED BY <1>0, <1>9, <2>1, <2>2, <2>3 DEF BufferInv, RowSlots
<1>13. FlushInv' /\ StopWritesWaiting'
  BY <1>0, <1>1, <1>9 DEF FlushInv, StopWritesWaiting
<1>14. UpInv'
  <2>1. Waiting(join)' = {} /\ RowSlots(rows)' = {} /\ join'.held = {} /\ join'.awaiting = {} /\ rows'.blocks = {}
    BY <1>0, <1>9 DEF Waiting, RowSlots
  <2>2. Ordered(join, rows, cursor)'
    BY <1>7, <2>1 DEF Ordered
  <2>3. (StoredSlots \cup RowSlots(rows))' = StoredSlots /\ Pipe(join, rows)' = StoredSlots
    BY <1>2, <2>1 DEF Pipe
  <2>4. Gapless(StoredSlots \cup RowSlots(rows))'
    BY <1>1, <1>2, <2>3 DEF BufferInv, Gapless
  <2>5. Reached(join, rows, cursor)'
    BY <1>2, <1>8, <2>3 DEF Reached
  <2> QED BY <2>2, <2>4, <2>5 DEF UpInv
<1>15. (\A e, f \in join.awaiting : e[1] = f[1] => e = f)'
  BY <1>0, <1>9
<1> QED BY <1>10, <1>11, <1>12, <1>13, <1>14, <1>15 DEF GInv

-----------------------------------------------------------------------------
(* The theorems. *)

\* Every step keeps the invariant and the stored footers.
LEMMA GrpcStep ==
  ASSUME GInv, Next
  PROVE  GInv' /\ FootersKept
<1>0. scenario \in Scenario
  BY DEF GInv, TypeOK
<1>1. ASSUME stored' = stored PROVE FootersKept
  BY <1>1 DEF FootersKept
<1>2. CASE SendBlock
  BY <1>1, <1>2, BlockKeeps DEF SendBlock, BlockUpdate
<1>3. CASE SkipSlot
  BY <1>1, <1>3, SkipKeeps DEF SkipSlot, bufferVars
<1>4. CASE SendMalformedBlock
  BY <1>1, <1>4, BlockKeeps DEF SendMalformedBlock, BlockUpdate
<1>5. CASE SendStrayBlock
  BY <1>1, <1>5, BlockKeeps DEF SendStrayBlock, BlockUpdate
<1>6. CASE \E s \in Produced, b \in {0, 1} : SendFooter(s, b)
  BY <1>1, <1>6, FooterKeeps DEF SendFooter
<1>7. ASSUME NEW s \in Produced, NEW status,
             SendStatus(s, status) \/ SendLoserStatus(s, status) \/ SendFlippedStatus(s, status)
      PROVE  GInv' /\ FootersKept
  <2>1. stored' = stored
    BY <1>7 DEF SendStatus, SendLoserStatus, SendFlippedStatus, SlotUpdate
  <2> QED BY <1>1, <1>7, <2>1, StatusesKeep
<1>8. CASE \E expired \in {0} \cup {e[1] : e \in join.awaiting} : FlushTick(expired)
  <2>1. PICK expired : FlushTick(expired)
    BY <1>8
  <2>2. Listening /\ Apart /\ cursor' = cursor /\ FlushCanonicalRows(join, "due", expired, MaxRetries, "run")
    BY <2>1 DEF FlushTick, Apart
  <2>3. stored' = stored /\ MaxRetries \in Nat
    BY <2>2, BufferedRowsAssumption DEF Apart
  <2> QED BY <1>1, <2>2, <2>3, FlushCanonicalKeeps
<1>9. CASE FatalCondition
  <2>1. Listening /\ Apart /\ cursor' = cursor /\ FlushCanonicalRows(join, "drain", 0, 0, "fatal")
    BY <1>9 DEF FatalCondition, Apart
  <2>2. stored' = stored
    BY <2>1 DEF Apart
  <2> QED BY <1>1, <2>1, <2>2, FlushCanonicalKeeps
<1>10. CASE Shutdown
  <2>1. Listening /\ Apart /\ cursor' = cursor /\ FlushCanonicalRows(join, "drain", 0, MaxRetries, "shutdown")
    BY <1>10 DEF Shutdown, Apart
  <2>2. stored' = stored /\ MaxRetries \in Nat
    BY <2>1, BufferedRowsAssumption DEF Apart
  <2> QED BY <1>1, <2>1, <2>2, FlushCanonicalKeeps
<1>11. CASE FlushNext
  BY <1>11, FlushNextKeeps
<1>12. CASE RetryFlush
  BY <1>12, RetryKeeps
<1>13. CASE FailFlush
  BY <1>13, FailKeeps
<1>14. CASE Crash
  BY <1>1, <1>14, CrashKeeps DEF Crash
<1>15. CASE Start
  BY <1>1, <1>15, StartKeeps DEF Start
<1> QED
  BY <1>2, <1>3, <1>4, <1>5, <1>6, <1>7, <1>8, <1>9, <1>10, <1>11, <1>12, <1>13, <1>14, <1>15 DEF Next

\* The invariant says what the two checked invariants say.
LEMMA GrpcInvImplies ==
  ASSUME GInv
  PROVE  /\ PrefixStored /\ StopWritesWaiting /\ JoinWithinLimits
         /\ IdentityTrue /\ FooterOfWinner
<1>0. stored \in Tables /\ scenario \in Scenario /\ BufferInv
  BY DEF GInv, TypeOK
<1>1. PrefixStored
  <2> SUFFICES ASSUME NEW s \in Produced, NEW q \in StoredSlots, q <= s, s <= LatestStored
               PROVE  s \in StoredSlots /\ s \in stored.transactions
    BY DEF PrefixStored
  <2>1. LatestStored \in StoredSlots
    BY <1>0, LatestIsMax
  <2>2. s \in StoredSlots
    BY <1>0, <2>1 DEF BufferInv, Gapless
  <2> QED BY <1>0, <2>2 DEF BufferInv
<1>2. JoinWithinLimits
  BY DEF GInv, Bounded, JoinWithinLimits
<1>3. IdentityTrue
  BY <1>0 DEF GInv, Identified, BufferInv, RowTrue, IdentityTrue
<1>4. FooterOfWinner
  BY <1>0 DEF BufferInv, RowTrue, RowOwned, FooterOfWinner
<1> QED BY <1>1, <1>2, <1>3, <1>4 DEF GInv

\* A step that leaves the writer's variables alone keeps its invariant.
LEMMA GrpcUnchanged ==
  ASSUME GInv, UNCHANGED vars
  PROVE  GInv'
<1> USE DEF vars, bufferVars
<1>1. StoredSlots' = StoredSlots /\ Produced' = Produced
  BY DEF StoredSlots, Produced
<1>2. TypeOK'
  BY DEF GInv, TypeOK
<1>3. Identified(join)' /\ Bounded(join)' /\ (\A e, f \in join.awaiting : e[1] = f[1] => e = f)'
  BY DEF GInv, Identified, Bounded, Produced, Bank, Scalar
<1>4. BufferInv'
  <2>1. (\A r \in rows.blocks \cup stored.blocks : RowTrue(r))' /\ (\A r \in rows.blocks : RowOwned(r))'
    BY DEF GInv, BufferInv, RowTrue, RowOwned, Produced, Bank
  <2>2. Gapless(StoredSlots)'
    BY <1>1 DEF GInv, BufferInv, Gapless
  <2> QED BY <1>1, <2>1, <2>2 DEF GInv, BufferInv, RowSlots
<1>5. FlushInv' /\ StopWritesWaiting'
  BY DEF GInv, FlushInv, StopWritesWaiting
<1>6. UpInv'
  <2>1. RowSlots(rows)' = RowSlots(rows) /\ Waiting(join)' = Waiting(join)
    BY DEF RowSlots, Waiting
  <2>2. Pipe(join, rows)' = Pipe(join, rows)
    BY <1>1, <2>1 DEF Pipe
  <2> QED BY <1>1, <2>1, <2>2 DEF GInv, UpInv, Ordered, Behind, Gapless, Reached
<1> QED BY <1>2, <1>3, <1>4, <1>5, <1>6 DEF GInv

\* The writer by itself: it never skips a block or loses one it identified, never
\* gives a row another bank's identity or footer, and stays within its limits.
THEOREM WriterSafe ==
  Spec => [](PrefixStored /\ StopWritesWaiting /\ JoinWithinLimits /\ IdentityTrue /\ FooterOfWinner)
<1>1. Init => GInv
  BY GrpcInitial
<1>2. GInv /\ [Next]_vars => GInv'
  <2> SUFFICES ASSUME GInv, [Next]_vars PROVE GInv'
    OBVIOUS
  <2>1. CASE Next
    BY <2>1, GrpcStep
  <2>2. CASE UNCHANGED vars
    BY <2>2, GrpcUnchanged
  <2> QED BY <2>1, <2>2
<1>3. GInv => PrefixStored /\ StopWritesWaiting /\ JoinWithinLimits /\ IdentityTrue /\ FooterOfWinner
  BY GrpcInvImplies
<1> QED BY <1>1, <1>2, <1>3, PTL DEF Spec

-----------------------------------------------------------------------------
(* The Fumarole consumer. *)

-----------------------------------------------------------------------------
(* Types. *)

FumaroleThen == {"run", "bound", "fatal", "shutdown"}

FumaroleFlushType == [step : Fumarole!FlushStep \cup {"none"}, retries : {0}, then : FumaroleThen, slot : Fumarole!Slot \cup {0}]

PartsType == [present : BOOLEAN, data : SUBSET {"meta", "payload"}, footer : {"absent", "valid", "rejected"}]

\* Rows of this consumer: bank 1, and the footer is the block's own or missing.
Row == [slot : Fumarole!Slot, bank : {1}, footer : {"winner", Fumarole!NoFooter}]

FumaroleTypeOK ==
  /\ scenario \in GroupScenario
  /\ proc \in Fumarole!Ended \cup {"up"}
  /\ blocks \in [Fumarole!Slot -> PartsType]
  /\ exceeded \in BOOLEAN
  /\ delivered \in [Fumarole!Slot -> SUBSET Fumarole!Event] /\ acked \in [Fumarole!Slot -> SUBSET Fumarole!Event]
  /\ rows \in [transactions : SUBSET Fumarole!Slot, blocks : SUBSET Row, entries : SUBSET Fumarole!Slot]
  /\ stored \in [transactions : SUBSET Fumarole!Slot, blocks : SUBSET Row, entries : SUBSET Fumarole!Slot]
  /\ ceiling \in Fumarole!Slot \cup {0}
  /\ flush \in FumaroleFlushType
  /\ proc # "up" => flush = Fumarole!NoFlush

-----------------------------------------------------------------------------
(* The inductive invariant of AcknowledgedStored. *)

\* The rows of slot s are in each table or on their way to it.
Underway(s) ==
  /\ s \in rows.transactions \cup stored.transactions
  /\ s \in {r.slot : r \in rows.blocks} \cup Fumarole!StoredSlots
  /\ s \in rows.entries \cup stored.entries

InTables(s) == s \in Fumarole!StoredSlots /\ s \in stored.transactions /\ s \in stored.entries

Matters(s) == Fumarole!Data(s) # {} /\ ~Fumarole!BeyondBound(s)

Accounted(s) ==
  \/ delivered[s] = {}
  \/ Underway(s)
  \/ blocks[s].present /\ delivered[s] \cap Fumarole!Data(s) \subseteq blocks[s].data

\* A flush empties the buffers in the order of its steps.
FlushOrder ==
  /\ flush.step \in {"blocks", "entries"} => rows.transactions = {}
  /\ flush.step = "entries" => rows.blocks = {}

AckInv ==
  /\ FumaroleTypeOK
  /\ FlushOrder
  /\ \A s \in Fumarole!Slot : acked[s] # {} /\ Matters(s) => InTables(s)
  /\ proc = "up" /\ flush.then # "bound" => \A s \in Fumarole!Slot : Matters(s) => Accounted(s)

\* What was acknowledged stays stored because the tables only grow.
LEMMA AckInvImplies ==
  ASSUME AckInv
  PROVE  Fumarole!AcknowledgedStored
BY DEF AckInv, Fumarole!AcknowledgedStored, InTables, Matters

\* Nothing was delivered, so nothing is owed.
LEMMA AckInitial ==
  ASSUME Fumarole!Init
  PROVE  AckInv
<1> USE DEF Fumarole!Init
<1>1. Fumarole!NoParts \in PartsType
  BY DEF Fumarole!NoParts, PartsType
<1>2. FumaroleTypeOK
  <2>1. Fumarole!NoFlush \in FumaroleFlushType /\ Fumarole!EmptyRows \in [transactions : SUBSET Fumarole!Slot, blocks : SUBSET Row, entries : SUBSET Fumarole!Slot]
    BY DEF Fumarole!NoFlush, FumaroleFlushType, FumaroleThen, Fumarole!EmptyRows
  <2>2. stored \in [transactions : SUBSET Fumarole!Slot, blocks : SUBSET Row, entries : SUBSET Fumarole!Slot]
    OBVIOUS
  <2>3. blocks \in [Fumarole!Slot -> PartsType]
    BY <1>1 DEF Fumarole!NoBlocks
  <2>4. delivered \in [Fumarole!Slot -> SUBSET Fumarole!Event] /\ acked \in [Fumarole!Slot -> SUBSET Fumarole!Event]
    OBVIOUS
  <2> QED BY <2>1, <2>2, <2>3, <2>4 DEF FumaroleTypeOK
<1>3. FlushOrder
  BY DEF FlushOrder, Fumarole!NoFlush
<1>4. \A s \in Fumarole!Slot : delivered[s] = {} /\ acked[s] = {}
  OBVIOUS
<1> QED BY <1>2, <1>3, <1>4 DEF AckInv, Accounted

-----------------------------------------------------------------------------
(* How an event ends. *)

\* A flush is launched, or none and the process may end.
FumaroleLaunch(then) ==
  /\ flush' \in FumaroleFlushType /\ proc' \in Fumarole!Ended \cup {"up"}
  /\ flush'.step \in {"none", "merge"}
  /\ \/ flush' = Fumarole!NoFlush
     \/ proc' = "up" /\ flush'.then \in then

\* A flush that is begun has an end to go to.
LEMMA FumaroleFlushLaunches ==
  ASSUME FumaroleTypeOK, Fumarole!Listening, NEW buffer, NEW then \in FumaroleThen,
         NEW s \in Fumarole!Slot \cup {0},
         Fumarole!BeginFlush(buffer, then, s)
  PROVE  FumaroleLaunch({then})
<1>1. CASE buffer = Fumarole!EmptyRows
  <2>1. flush' = Fumarole!NoFlush /\ (proc' = proc \/ proc' = then)
    BY <1>1 DEF Fumarole!BeginFlush
  <2>2. proc' \in Fumarole!Ended \cup {"up"}
    <3>1. CASE then = "run"
      BY <1>1, <3>1 DEF Fumarole!BeginFlush, FumaroleTypeOK
    <3>2. CASE then # "run"
      BY <1>1, <3>2 DEF Fumarole!BeginFlush, FumaroleThen, Fumarole!Ended
    <3> QED BY <3>1, <3>2
  <2> QED BY <2>1, <2>2 DEF FumaroleLaunch, Fumarole!NoFlush, FumaroleFlushType, FumaroleThen
<1>2. CASE buffer # Fumarole!EmptyRows
  <2>1. /\ flush' = [step |-> "merge", retries |-> 0, then |-> then, slot |-> s]
        /\ proc' = proc
    BY <1>2 DEF Fumarole!BeginFlush
  <2> QED BY <2>1 DEF FumaroleLaunch, FumaroleFlushType, FumaroleThen, Fumarole!FlushStep,
             Fumarole!Listening, Fumarole!Ended
<1> QED BY <1>1, <1>2

\* An event ends with a flush, a stop at the bound, or nothing.
LEMMA EndEventLaunches ==
  ASSUME FumaroleTypeOK, Fumarole!Listening, NEW b, NEW buffer, Fumarole!EndEvent(b, buffer)
  PROVE  FumaroleLaunch({"run", "bound"})
<1>1. CASE Fumarole!StopsAtBound(b, exceeded')
  <2>1. Fumarole!BeginFlush(buffer, "bound", 0)
    BY <1>1 DEF Fumarole!EndEvent
  <2> QED BY <2>1, FumaroleFlushLaunches DEF FumaroleThen, FumaroleLaunch
<1>2. CASE ~Fumarole!StopsAtBound(b, exceeded')
  <2>1. CASE flush' = Fumarole!NoFlush /\ UNCHANGED proc
    BY <2>1 DEF FumaroleLaunch, Fumarole!NoFlush, FumaroleFlushType, FumaroleThen, FumaroleTypeOK
  <2>2. CASE Fumarole!BeginFlush(buffer, "run", 0)
    BY <2>2, FumaroleFlushLaunches DEF FumaroleThen, FumaroleLaunch
  <2> QED BY <1>2, <2>1, <2>2 DEF Fumarole!EndEvent
<1> QED BY <1>1, <1>2

\* Without rows to flush the process ends at once, and otherwise when the flush is over.
LEMMA BoundLaunches ==
  ASSUME NEW buffer, Fumarole!BeginFlush(buffer, "bound", 0)
  PROVE  ~(proc' = "up" /\ flush'.then # "bound")
<1>1. CASE buffer = Fumarole!EmptyRows
  BY <1>1 DEF Fumarole!BeginFlush
<1>2. CASE buffer # Fumarole!EmptyRows
  BY <1>2 DEF Fumarole!BeginFlush
<1> QED BY <1>1, <1>2

-----------------------------------------------------------------------------
(* One event. *)

RowsType == [transactions : SUBSET Fumarole!Slot, blocks : SUBSET Row, entries : SUBSET Fumarole!Slot]

Growing ==
  /\ rows.transactions \subseteq rows'.transactions
  /\ rows.blocks \subseteq rows'.blocks
  /\ rows.entries \subseteq rows'.entries

\* What every way to handle an event of slot s has in common.
Handled(s, e) ==
  /\ UNCHANGED <<scenario, ceiling, stored>>
  /\ delivered' = [delivered EXCEPT ![s] = @ \cup {e}]
  /\ exceeded' \in BOOLEAN
  /\ rows' \in RowsType /\ Growing
  /\ blocks' \in [Fumarole!Slot -> PartsType]
  /\ \A t \in Fumarole!Slot \ {s} : blocks'[t] = blocks[t]
  /\ FumaroleLaunch(FumaroleThen)

\* The other slots are not touched.
LEMMA OthersAccounted ==
  ASSUME AckInv, Fumarole!Listening, NEW s \in Fumarole!Slot, NEW e \in Fumarole!Event, Handled(s, e),
         NEW t \in Fumarole!Slot \ {s}, Matters(t)
  PROVE  Accounted(t)'
<1>1. Accounted(t) 
  BY DEF AckInv, Fumarole!Listening, Fumarole!NoFlush
<1>2. delivered'[t] = delivered[t] /\ blocks'[t] = blocks[t] /\ Fumarole!Data(t)' = Fumarole!Data(t)
  BY DEF Handled, AckInv, FumaroleTypeOK, Fumarole!Data
<1>3. Underway(t) => Underway(t)'
  BY DEF Underway, Handled, Growing, Fumarole!StoredSlots
<1> QED BY <1>1, <1>2, <1>3 DEF Accounted

\* An event that accounts for its slot keeps every other slot accounted for.
LEMMA EventKeeps ==
  ASSUME AckInv, Fumarole!Listening, NEW s \in Fumarole!Slot, NEW e \in Fumarole!Event, Handled(s, e),
         acked' = acked \/ (acked' = delivered' /\ \A t \in Fumarole!Slot : Matters(t) /\ delivered'[t] # {} => InTables(t)'),
         proc' = "up" /\ flush'.then # "bound" => (Matters(s) => Accounted(s)')
  PROVE  AckInv'
<1>1. FumaroleTypeOK'
  <2>1. delivered' \in [Fumarole!Slot -> SUBSET Fumarole!Event]
    BY DEF AckInv, FumaroleTypeOK, Handled
  <2>2. acked' \in [Fumarole!Slot -> SUBSET Fumarole!Event]
    BY <2>1 DEF AckInv, FumaroleTypeOK
  <2>3. proc' # "up" => flush' = Fumarole!NoFlush
    BY DEF Handled, FumaroleLaunch
  <2> QED BY <2>1, <2>2, <2>3 DEF AckInv, FumaroleTypeOK, Handled, RowsType, FumaroleLaunch
<1>2. FlushOrder'
  BY DEF Handled, FumaroleLaunch, FlushOrder
<1>3. \A t \in Fumarole!Slot : Matters(t)' = Matters(t) /\ (InTables(t) => InTables(t)')
  BY DEF Matters, Fumarole!Data, Fumarole!BeyondBound, InTables, Fumarole!StoredSlots, Handled
<1>4. ASSUME NEW t \in Fumarole!Slot, acked'[t] # {}, Matters(t)'
      PROVE  InTables(t)'
  BY <1>3, <1>4 DEF AckInv
<1>5. ASSUME proc' = "up", flush'.then # "bound", NEW t \in Fumarole!Slot, Matters(t)'
      PROVE  Accounted(t)'
  <2>1. CASE t = s
    BY <1>3, <1>5, <2>1
  <2>2. CASE t # s
    BY <1>3, <1>5, <2>2, OthersAccounted
  <2> QED BY <2>1, <2>2
<1> QED BY <1>1, <1>2, <1>4, <1>5 DEF AckInv

\* A part goes to the assembler: the slot is present and has what was delivered of it.
LEMMA PartKeeps ==
  ASSUME AckInv, Fumarole!Listening, NEW s \in Fumarole!Slot, NEW e \in Fumarole!Event,
         NEW b \in [Fumarole!Slot -> PartsType],
         UNCHANGED <<scenario, ceiling, stored>>, exceeded' \in BOOLEAN,
         delivered' = [delivered EXCEPT ![s] = @ \cup {e}],
         Fumarole!TakePart(b), \A t \in Fumarole!Slot \ {s} : b[t] = blocks[t],
         b[s].present, blocks[s].data \subseteq b[s].data, Fumarole!Data(s) \cap {e} \subseteq b[s].data
  PROVE  AckInv' /\ Handled(s, e)
<1>1. /\ blocks' = b /\ rows' = rows /\ acked' = acked
      /\ Fumarole!EndEvent(b, rows)
  BY DEF Fumarole!TakePart
<1>2. FumaroleLaunch(FumaroleThen)
  <2>1. FumaroleLaunch({"run", "bound"})
    BY <1>1, EndEventLaunches DEF AckInv
  <2> QED BY <2>1 DEF FumaroleLaunch, FumaroleThen
<1>3. Handled(s, e)
  BY <1>1, <1>2 DEF Handled, Growing, AckInv, FumaroleTypeOK, RowsType
<1>4. ASSUME Matters(s)
      PROVE  Accounted(s)'
  <2>1. Accounted(s)
    BY <1>4 DEF AckInv, Fumarole!Listening, Fumarole!NoFlush
  <2>2. delivered'[s] = delivered[s] \cup {e} /\ Fumarole!Data(s)' = Fumarole!Data(s)
    BY DEF AckInv, FumaroleTypeOK, Fumarole!Data
  <2>3. Underway(s) => Underway(s)'
    BY <1>1 DEF Underway, Fumarole!StoredSlots
  <2>4. delivered[s] = {} \/ delivered[s] \cap Fumarole!Data(s) \subseteq blocks[s].data =>
          Accounted(s)'
    BY <1>1, <2>2 DEF Accounted
  <2> QED BY <2>1, <2>3, <2>4 DEF Accounted
<1> QED BY <1>1, <1>3, <1>4, EventKeeps

\* A complete block goes to the buffers.
LEMMA FumaroleBlockKeeps ==
  ASSUME AckInv, Fumarole!Listening, NEW s \in Fumarole!Slot, NEW e \in Fumarole!Event,
         UNCHANGED <<scenario, ceiling, stored>>, exceeded' \in BOOLEAN,
         delivered' = [delivered EXCEPT ![s] = @ \cup {e}],
         Fumarole!AcceptBlock(s, [blocks EXCEPT ![s] = Fumarole!NoParts])
  PROVE  /\ AckInv' /\ Handled(s, e)
         /\ acked' = acked /\ blocks'[s].data = {}
         /\ \E row \in Row : row.slot = s /\ rows'.blocks = rows.blocks \cup {row}
<1> DEFINE b == [blocks EXCEPT ![s] = Fumarole!NoParts]
           row == [slot |-> s, bank |-> 1,
                   footer |-> IF blocks[s].footer = "valid" THEN "winner" ELSE Fumarole!NoFooter]
<1>1. /\ rows' = Fumarole!AppendBlocks(rows, {row}) /\ blocks' = b /\ acked' = acked
      /\ Fumarole!BeginFlush(rows', "run", s) \/ Fumarole!EndEvent(b, rows')
  BY DEF Fumarole!AcceptBlock
<1>2. row \in Row /\ row.slot = s
  BY DEF Row
<1> HIDE DEF row
<1>3. /\ rows'.transactions = rows.transactions \cup {s}
      /\ rows'.blocks = rows.blocks \cup {row}
      /\ rows'.entries = rows.entries \cup {s}
      /\ rows' \in RowsType
  BY <1>1, <1>2 DEF Fumarole!AppendBlocks, AckInv, FumaroleTypeOK, RowsType
<1>4. FumaroleLaunch(FumaroleThen)
  <2>1. CASE Fumarole!BeginFlush(rows', "run", s)
    BY <2>1, FumaroleFlushLaunches DEF AckInv, FumaroleLaunch, FumaroleThen
  <2>2. CASE Fumarole!EndEvent(b, rows')
    <3>1. FumaroleLaunch({"run", "bound"})
      BY <2>2, EndEventLaunches DEF AckInv
    <3> QED BY <3>1 DEF FumaroleLaunch, FumaroleThen
  <2> QED BY <1>1, <2>1, <2>2
<1>5. b \in [Fumarole!Slot -> PartsType] /\ \A t \in Fumarole!Slot \ {s} : b[t] = blocks[t]
  BY DEF AckInv, FumaroleTypeOK, Fumarole!NoParts, PartsType
<1>6. Handled(s, e)
  BY <1>1, <1>3, <1>4, <1>5 DEF Handled, Growing
<1>7. Underway(s)'
  BY <1>2, <1>3 DEF Underway
<1>8. Accounted(s)'
  BY <1>7 DEF Accounted
<1>9. blocks'[s].data = {}
  BY <1>1 DEF AckInv, FumaroleTypeOK, Fumarole!NoParts
<1> QED BY <1>1, <1>2, <1>3, <1>6, <1>8, <1>9, EventKeeps

\* The data of a slot are its parts, one block, or nothing.
LEMMA DataOfShape ==
  ASSUME Fumarole!FumaroleAssumption, scenario \in GroupScenario, NEW s \in Fumarole!Slot
  PROVE  Fumarole!Data(s) \in {{"meta", "payload"}, {"block"}, {}}
<1>1. scenario.shape[s] \in {"parts", "block", "nothing"}
  BY DEF Fumarole!FumaroleAssumption
<1>2. CASE scenario.shape[s] = "parts"
  BY <1>2, Zenon DEF Fumarole!Data
<1>3. CASE scenario.shape[s] = "block"
  BY <1>3, Zenon DEF Fumarole!Data
<1>4. CASE scenario.shape[s] = "nothing"
  BY <1>4, Zenon DEF Fumarole!Data
<1> QED BY <1>1, <1>2, <1>3, <1>4

\* The end of a slot whose data were delivered finds them in the assembler, unless the
\* rows are under way.
LEMMA EndFindsData ==
  ASSUME Fumarole!FumaroleAssumption, AckInv, Fumarole!Listening, NEW s \in Fumarole!Slot,
         Fumarole!Deliverable(s, "ended"), Matters(s), blocks[s].data = {}
  PROVE  Underway(s)
<1>1. Accounted(s)
  BY DEF AckInv, Fumarole!Listening, Fumarole!NoFlush
<1>2. "ended" \notin Fumarole!Data(s) /\ Fumarole!Data(s) # {}
  BY DataOfShape DEF Matters, AckInv, FumaroleTypeOK
<1>3. delivered[s] \cap Fumarole!Data(s) # {}
  BY <1>2 DEF Fumarole!Deliverable
<1> QED BY <1>1, <1>3 DEF Accounted

\* The end of a slot without a block may acknowledge: then nothing is buffered and nothing
\* is being assembled.
LEMMA WithoutBlockKeeps ==
  ASSUME Fumarole!FumaroleAssumption, AckInv, Fumarole!Listening, NEW s \in Fumarole!Slot,
         Fumarole!Deliverable(s, "ended"),
         UNCHANGED <<scenario, ceiling, stored>>, exceeded' \in BOOLEAN,
         delivered' = [delivered EXCEPT ![s] = @ \cup {"ended"}],
         blocks[s].data = {}, Fumarole!SlotWithoutBlock([blocks EXCEPT ![s] = Fumarole!NoParts])
  PROVE  AckInv' /\ Handled(s, "ended")
<1> DEFINE b == [blocks EXCEPT ![s] = Fumarole!NoParts]
<1>1. /\ blocks' = b /\ rows' = rows
      /\ acked' = IF rows = Fumarole!EmptyRows THEN Fumarole!Committed(b, delivered') ELSE acked
      /\ Fumarole!EndEvent(b, rows)
  BY DEF Fumarole!SlotWithoutBlock
<1>2. FumaroleLaunch(FumaroleThen)
  <2>1. FumaroleLaunch({"run", "bound"})
    BY <1>1, EndEventLaunches DEF AckInv
  <2> QED BY <2>1 DEF FumaroleLaunch, FumaroleThen
<1>3. b \in [Fumarole!Slot -> PartsType] /\ \A t \in Fumarole!Slot \ {s} : b[t] = blocks[t]
  BY DEF AckInv, FumaroleTypeOK, Fumarole!NoParts, PartsType
<1>4. "ended" \in Fumarole!Event
  BY DEF Fumarole!Event
<1>5. Handled(s, "ended")
  BY <1>1, <1>2, <1>3 DEF Handled, Growing, AckInv, FumaroleTypeOK, RowsType
<1>6. Matters(s) => Underway(s)'
  <2>1. Matters(s) => Underway(s)
    BY EndFindsData
  <2> QED BY <1>1, <2>1 DEF Underway, Fumarole!StoredSlots
<1>7. Matters(s) => Accounted(s)'
  BY <1>6 DEF Accounted
<1>8. CASE acked' = acked
  BY <1>4, <1>5, <1>7, <1>8, EventKeeps
<1>9. CASE acked' # acked
  <2>1. rows = Fumarole!EmptyRows /\ Fumarole!Pending(b) = {} /\ acked' = delivered'
    BY <1>1, <1>9 DEF Fumarole!Committed
  <2>2. ASSUME NEW t \in Fumarole!Slot, Matters(t), delivered'[t] # {}
        PROVE  InTables(t)'
    <3>1. Accounted(t)'
      BY <1>4, <1>5, <1>7, <2>2, OthersAccounted
    <3>2. ~blocks'[t].present
      BY <1>1, <2>1 DEF Fumarole!Pending
    <3>3. Underway(t)'
      BY <2>2, <3>1, <3>2 DEF Accounted
    <3> QED BY <1>1, <2>1, <3>3 DEF Underway, InTables, Fumarole!EmptyRows
  <2> QED BY <1>4, <1>5, <1>7, <2>1, <2>2, EventKeeps
<1> QED BY <1>5, <1>8, <1>9

\* An event that ends the process without flush and commit.
LEMMA FumaroleRejectKeeps ==
  ASSUME AckInv, Fumarole!Listening, NEW s \in Fumarole!Slot, NEW e \in Fumarole!Event,
         UNCHANGED <<scenario, ceiling, stored>>, exceeded' \in BOOLEAN,
         delivered' = [delivered EXCEPT ![s] = @ \cup {e}],
         Fumarole!RejectEvent
  PROVE  AckInv' /\ Handled(s, e)
<1>1. proc' = "rejected" /\ rows' = rows /\ blocks' = blocks /\ acked' = acked /\ flush' = Fumarole!NoFlush
  BY DEF Fumarole!RejectEvent, Fumarole!Listening
<1>2. FumaroleLaunch(FumaroleThen)
  BY <1>1 DEF FumaroleLaunch, Fumarole!NoFlush, FumaroleFlushType, FumaroleThen, Fumarole!Ended
<1>3. Handled(s, e)
  BY <1>1, <1>2 DEF Handled, Growing, AckInv, FumaroleTypeOK, RowsType
<1> QED BY <1>1, <1>3, EventKeeps

\* finish_slot: a block, none, or an error.
LEMMA FinishKeeps ==
  ASSUME Fumarole!FumaroleAssumption, AckInv, Fumarole!Listening, NEW s \in Fumarole!Slot,
         Fumarole!Deliverable(s, "ended"),
         UNCHANGED <<scenario, ceiling, stored>>, exceeded' \in BOOLEAN,
         delivered' = [delivered EXCEPT ![s] = @ \cup {"ended"}],
         Fumarole!FinishSlot(s)
  PROVE  AckInv'
<1> DEFINE b == [blocks EXCEPT ![s] = Fumarole!NoParts]
<1>1. "ended" \in Fumarole!Event
  BY DEF Fumarole!Event
<1>2. CASE blocks[s].data = {}
  <2>1. Fumarole!SlotWithoutBlock(b)
    BY <1>2 DEF Fumarole!FinishSlot
  <2> QED BY <1>2, <2>1, WithoutBlockKeeps
<1>3. CASE blocks[s].data = {"meta", "payload"}
  <2>1. Fumarole!AcceptBlock(s, b)
    BY <1>3 DEF Fumarole!FinishSlot
  <2> QED BY <1>1, <2>1, FumaroleBlockKeeps
<1>4. CASE blocks[s].data \notin {{}, {"meta", "payload"}}
  <2>1. Fumarole!RejectEvent
    BY <1>4 DEF Fumarole!FinishSlot
  <2> QED BY <1>1, <2>1, FumaroleRejectKeeps
<1> QED BY <1>2, <1>3, <1>4

\* What the consumer does with an event accounts for its slot.
LEMMA HandleKeeps ==
  ASSUME Fumarole!FumaroleAssumption, AckInv, Fumarole!Listening, NEW s \in Fumarole!Slot,
         NEW e \in Fumarole!Event, Fumarole!Deliverable(s, e),
         UNCHANGED <<scenario, ceiling, stored>>, exceeded' \in BOOLEAN,
         delivered' = [delivered EXCEPT ![s] = @ \cup {e}],
         Fumarole!Handle(s, e)
  PROVE  AckInv'
<1>1. CASE e \in {"meta", "payload"}
  <2> DEFINE b == [blocks EXCEPT ![s].present = TRUE, ![s].data = @ \cup {e}]
  <2>1. Fumarole!TakePart(b) \/ Fumarole!RejectEvent
    BY <1>1 DEF Fumarole!Handle
  <2>2. /\ b \in [Fumarole!Slot -> PartsType] /\ \A t \in Fumarole!Slot \ {s} : b[t] = blocks[t]
        /\ b[s].present /\ blocks[s].data \subseteq b[s].data /\ e \in b[s].data
    BY <1>1 DEF AckInv, FumaroleTypeOK, PartsType
  <2> HIDE DEF b
  <2> QED BY <2>1, <2>2, PartKeeps, FumaroleRejectKeeps
<1>2. CASE e = "block"
  <2>1. Fumarole!AcceptBlock(s, [blocks EXCEPT ![s] = Fumarole!NoParts]) \/ Fumarole!RejectEvent
    BY <1>2 DEF Fumarole!Handle
  <2> QED BY <2>1, FumaroleBlockKeeps, FumaroleRejectKeeps
<1>3. CASE e = "footer"
  <2>1. PICK valid \in BOOLEAN : Fumarole!TakePart(Fumarole!WithFooter(s, valid))
    BY <1>3 DEF Fumarole!Handle
  <2> DEFINE b == Fumarole!WithFooter(s, valid)
  <2>2. /\ b \in [Fumarole!Slot -> PartsType] /\ \A t \in Fumarole!Slot \ {s} : b[t] = blocks[t]
        /\ b[s].present /\ blocks[s].data \subseteq b[s].data
    BY DEF AckInv, FumaroleTypeOK, PartsType, Fumarole!WithFooter
  <2>3. Fumarole!Data(s) \cap {e} = {}
    BY <1>3, DataOfShape DEF AckInv, FumaroleTypeOK
  <2> HIDE DEF b
  <2> QED BY <2>1, <2>2, <2>3, PartKeeps DEF b
<1>4. CASE e = "ended"
  <2>1. Fumarole!FinishSlot(s)
    BY <1>4 DEF Fumarole!Handle
  <2> QED BY <1>4, <2>1, FinishKeeps
<1> QED BY <1>1, <1>2, <1>3, <1>4 DEF Fumarole!Event

\* A delivered event keeps the invariant.
LEMMA DeliverKeeps ==
  ASSUME Fumarole!FumaroleAssumption, AckInv, NEW s \in Fumarole!Slot, NEW e \in Fumarole!Event,
         Fumarole!Deliver(s, e)
  PROVE  AckInv'
<1>1. /\ Fumarole!Listening /\ Fumarole!Deliverable(s, e)
      /\ UNCHANGED <<scenario, ceiling, stored>>
      /\ delivered' = [delivered EXCEPT ![s] = @ \cup {e}]
      /\ exceeded' = (exceeded \/ Fumarole!BeyondBound(s))
  BY DEF Fumarole!Deliver
<1>2. exceeded' \in BOOLEAN
  BY <1>1
<1>3. CASE Fumarole!StopsAtBound(blocks, exceeded')
  <2>1. Fumarole!BeginFlush(rows, "bound", 0) /\ UNCHANGED <<rows, blocks, acked>>
    BY <1>3 DEF Fumarole!Deliver
  <2>2. FumaroleLaunch(FumaroleThen)
    <3>1. FumaroleLaunch({"bound"})
      BY <1>1, <2>1, FumaroleFlushLaunches DEF AckInv, FumaroleThen
    <3> QED BY <3>1 DEF FumaroleLaunch, FumaroleThen
  <2>3. Handled(s, e)
    BY <1>1, <1>2, <2>1, <2>2 DEF Handled, Growing, AckInv, FumaroleTypeOK, RowsType
  <2>4. ~(proc' = "up" /\ flush'.then # "bound")
    BY <2>1, BoundLaunches
  <2> QED BY <1>1, <2>1, <2>3, <2>4, EventKeeps
<1>4. CASE ~Fumarole!StopsAtBound(blocks, exceeded') /\ Fumarole!BeyondBound(s)
  <2>1. UNCHANGED <<rows, blocks, acked, flush, proc>>
    BY <1>4 DEF Fumarole!Deliver
  <2>2. FumaroleLaunch(FumaroleThen)
    BY <1>1, <2>1 DEF FumaroleLaunch, Fumarole!Listening, Fumarole!NoFlush, FumaroleFlushType,
       FumaroleThen
  <2>3. Handled(s, e)
    BY <1>1, <1>2, <2>1, <2>2 DEF Handled, Growing, AckInv, FumaroleTypeOK, RowsType
  <2>4. ~Matters(s)
    BY <1>4 DEF Matters
  <2> QED BY <1>1, <2>1, <2>3, <2>4, EventKeeps
<1>5. CASE ~Fumarole!StopsAtBound(blocks, exceeded') /\ ~Fumarole!BeyondBound(s)
  <2>1. Fumarole!Handle(s, e)
    BY <1>5 DEF Fumarole!Deliver
  <2> QED BY <1>1, <1>2, <2>1, HandleKeeps
<1> QED BY <1>3, <1>4, <1>5

-----------------------------------------------------------------------------
(* The flush. *)

\* A merged row keeps its slot.
LEMMA MergeKeepsSlot ==
  ASSUME stored.blocks \subseteq Row, NEW r \in Row
  PROVE  Fumarole!MergeFooter(r) \in Row /\ Fumarole!MergeFooter(r).slot = r.slot
<1>1. CASE r.footer = Fumarole!NoFooter /\ r.slot <= ceiling /\ \E q \in stored.blocks : q.slot = r.slot
  <2> DEFINE q == CHOOSE q \in stored.blocks : q.slot = r.slot
  <2>1. q \in Row
    BY <1>1
  <2>2. Fumarole!MergeFooter(r) = [r EXCEPT !.footer = q.footer]
    BY <1>1 DEF Fumarole!MergeFooter
  <2> HIDE DEF q
  <2> QED BY <2>1, <2>2 DEF Row
<1>2. CASE ~(r.footer = Fumarole!NoFooter /\ r.slot <= ceiling /\ \E q \in stored.blocks : q.slot = r.slot)
  BY <1>2 DEF Fumarole!MergeFooter
<1> QED BY <1>1, <1>2

\* Inserting the buffered block rows loses no slot and adds those of the buffer.
LEMMA ReplaceSlots ==
  ASSUME NEW table \in SUBSET Row, NEW new \in SUBSET Row
  PROVE  /\ Fumarole!Replace(table, new) \in SUBSET Row
         /\ {q.slot : q \in Fumarole!Replace(table, new)} = {q.slot : q \in table} \cup {r.slot : r \in new}
BY DEF Fumarole!Replace

\* What an insert applies, table by table.
LEMMA AppliedIs ==
  /\ flush.step = "transactions" => Fumarole!Applied = [stored EXCEPT !.transactions = @ \cup rows.transactions]
  /\ flush.step = "blocks" => Fumarole!Applied = [stored EXCEPT !.blocks = Fumarole!Replace(@, rows.blocks)]
  /\ flush.step = "entries" => Fumarole!Applied = [stored EXCEPT !.entries = @ \cup rows.entries]
<1>1. CASE flush.step = "transactions"
  BY <1>1, Zenon DEF Fumarole!Applied
<1>2. CASE flush.step = "blocks"
  BY <1>2, Zenon DEF Fumarole!Applied
<1>3. CASE flush.step = "entries"
  BY <1>3, Zenon DEF Fumarole!Applied
<1> QED BY <1>1, <1>2, <1>3

\* An insert only adds to the tables.
Stores ==
  /\ stored' \in RowsType
  /\ stored.transactions \subseteq stored'.transactions
  /\ Fumarole!StoredSlots \subseteq Fumarole!StoredSlots'
  /\ stored.entries \subseteq stored'.entries

\* An insert takes no row out of a table.
LEMMA AppliedStores ==
  ASSUME FumaroleTypeOK, flush.step \in {"transactions", "blocks", "entries"},
         stored' \in {stored, Fumarole!Applied}
  PROVE  Stores
<1>1. CASE stored' = stored
  BY <1>1 DEF FumaroleTypeOK, Stores, RowsType, Fumarole!StoredSlots
<1>2. CASE flush.step = "transactions" /\ stored' = Fumarole!Applied
  BY <1>2, AppliedIs DEF FumaroleTypeOK, Stores, RowsType, Fumarole!StoredSlots
<1>3. CASE flush.step = "blocks" /\ stored' = Fumarole!Applied
  <2>1. stored' = [stored EXCEPT !.blocks = Fumarole!Replace(@, rows.blocks)]
    BY <1>3, AppliedIs
  <2>2. stored.blocks \in SUBSET Row /\ rows.blocks \in SUBSET Row
    BY DEF FumaroleTypeOK
  <2>3. /\ stored'.blocks = Fumarole!Replace(stored.blocks, rows.blocks)
        /\ stored'.transactions = stored.transactions /\ stored'.entries = stored.entries
        /\ stored' = [transactions |-> stored'.transactions, blocks |-> stored'.blocks, entries |-> stored'.entries]
    BY <2>1 DEF FumaroleTypeOK
  <2>4. stored'.blocks \in SUBSET Row /\ Fumarole!StoredSlots \subseteq Fumarole!StoredSlots'
    BY <2>2, <2>3, ReplaceSlots DEF Fumarole!StoredSlots
  <2> QED BY <2>3, <2>4 DEF Stores, RowsType, FumaroleTypeOK
<1>4. CASE flush.step = "entries" /\ stored' = Fumarole!Applied
  BY <1>4, AppliedIs DEF FumaroleTypeOK, Stores, RowsType, Fumarole!StoredSlots
<1> QED BY <1>1, <1>2, <1>3, <1>4

\* What is in the tables stays there.
LEMMA TablesKeep ==
  ASSUME NEW s \in Fumarole!Slot, InTables(s), Stores
  PROVE  InTables(s)'
BY DEF InTables, Stores

\* A round trip of the flush keeps every row under way: the buffer it clears was stored.
LEMMA FumaroleNextKeeps ==
  ASSUME AckInv, Fumarole!FlushNext
  PROVE  AckInv'
<1> USE DEF Fumarole!FlushNext
<1>1. /\ proc = "up" /\ UNCHANGED <<scenario, proc, blocks, exceeded, delivered, acked>>
      /\ UNCHANGED ceiling
      /\ FumaroleTypeOK
  BY DEF Fumarole!MergeStoredFooters, Fumarole!InsertTransactions, Fumarole!InsertBlocks, AckInv
<1>2. /\ rows' \in RowsType /\ stored' \in RowsType /\ Stores
      /\ flush' \in FumaroleFlushType /\ flush'.then = flush.then
      /\ FlushOrder'
      /\ \A s \in Fumarole!Slot : Underway(s) => Underway(s)'
  <2>1. CASE Fumarole!MergeStoredFooters
    <3>1. /\ flush.step = "merge" /\ stored' = stored
          /\ rows' = [rows EXCEPT !.blocks = {Fumarole!MergeFooter(r) : r \in rows.blocks}]
          /\ flush' = [flush EXCEPT !.step = "transactions"]
      BY <2>1 DEF Fumarole!MergeStoredFooters
    <3>2. stored.blocks \subseteq Row /\ rows.blocks \subseteq Row
      BY <1>1 DEF FumaroleTypeOK
    <3>3. \A r \in rows.blocks : Fumarole!MergeFooter(r) \in Row /\ Fumarole!MergeFooter(r).slot = r.slot
      BY <3>2, MergeKeepsSlot
    <3>4. /\ rows'.blocks = {Fumarole!MergeFooter(r) : r \in rows.blocks}
          /\ rows'.transactions = rows.transactions /\ rows'.entries = rows.entries
          /\ rows' = [transactions |-> rows'.transactions, blocks |-> rows'.blocks, entries |-> rows'.entries]
      BY <1>1, <3>1 DEF FumaroleTypeOK
    <3>5. rows' \in RowsType
      BY <1>1, <3>3, <3>4 DEF RowsType, FumaroleTypeOK
    <3>6. {r.slot : r \in rows'.blocks} = {r.slot : r \in rows.blocks}
      BY <3>3, <3>4
    <3>7. Stores
      BY <1>1, <3>1 DEF Stores, Fumarole!StoredSlots, FumaroleTypeOK, RowsType
    <3>8. flush' \in FumaroleFlushType /\ flush'.then = flush.then /\ flush'.step = "transactions"
      BY <1>1, <3>1 DEF FumaroleTypeOK, FumaroleFlushType, Fumarole!FlushStep
    <3>9. Fumarole!StoredSlots' = Fumarole!StoredSlots
      BY <3>1 DEF Fumarole!StoredSlots
    <3> QED BY <3>1, <3>4, <3>5, <3>6, <3>7, <3>8, <3>9 DEF Underway, FlushOrder, Stores
  <2>2. CASE Fumarole!InsertTransactions
    <3>1. /\ flush.step = "transactions" /\ stored' = [stored EXCEPT !.transactions = @ \cup rows.transactions]
          /\ rows' = [rows EXCEPT !.transactions = {}]
          /\ flush' = [flush EXCEPT !.step = "blocks"]
      BY <2>2, AppliedIs DEF Fumarole!InsertTransactions
    <3>2. Stores
      BY <1>1, <2>2, <3>1, AppliedStores DEF Fumarole!InsertTransactions
    <3>3. flush' \in FumaroleFlushType /\ flush'.then = flush.then /\ flush'.step = "blocks"
      BY <1>1, <3>1 DEF FumaroleTypeOK, FumaroleFlushType, Fumarole!FlushStep
    <3>4. rows' \in RowsType /\ rows'.transactions = {} /\ rows'.blocks = rows.blocks /\ rows'.entries = rows.entries
      BY <1>1, <3>1 DEF FumaroleTypeOK, RowsType
    <3>5. /\ stored'.transactions = stored.transactions \cup rows.transactions
          /\ stored'.blocks = stored.blocks /\ stored'.entries = stored.entries
      BY <1>1, <3>1 DEF FumaroleTypeOK
    <3> QED BY <3>2, <3>3, <3>4, <3>5 DEF Underway, FlushOrder, Stores, Fumarole!StoredSlots
  <2>3. CASE Fumarole!InsertBlocks
    <3>1. /\ flush.step = "blocks" /\ stored' = [stored EXCEPT !.blocks = Fumarole!Replace(@, rows.blocks)]
          /\ rows' = [rows EXCEPT !.blocks = {}]
          /\ flush' = [flush EXCEPT !.step = "entries"]
      BY <2>3, AppliedIs DEF Fumarole!InsertBlocks
    <3>2. Stores
      BY <1>1, <2>3, <3>1, AppliedStores DEF Fumarole!InsertBlocks
    <3>3. flush' \in FumaroleFlushType /\ flush'.then = flush.then /\ flush'.step = "entries"
      BY <1>1, <3>1 DEF FumaroleTypeOK, FumaroleFlushType, Fumarole!FlushStep
    <3>4. /\ rows' \in RowsType /\ rows'.transactions = rows.transactions /\ rows'.blocks = {}
          /\ rows'.entries = rows.entries
      BY <1>1, <3>1 DEF FumaroleTypeOK, RowsType
    <3>5. /\ stored'.blocks = Fumarole!Replace(stored.blocks, rows.blocks)
          /\ stored'.transactions = stored.transactions /\ stored'.entries = stored.entries
      BY <1>1, <3>1 DEF FumaroleTypeOK
    <3>6. stored.blocks \in SUBSET Row /\ rows.blocks \in SUBSET Row
      BY <1>1 DEF FumaroleTypeOK
    <3>7. Fumarole!StoredSlots' = Fumarole!StoredSlots \cup {r.slot : r \in rows.blocks}
      BY <3>5, <3>6, ReplaceSlots DEF Fumarole!StoredSlots
    <3>8. rows.transactions = {}
      BY <3>1 DEF AckInv, FlushOrder
    <3> QED BY <3>2, <3>3, <3>4, <3>5, <3>7, <3>8 DEF Underway, FlushOrder, Stores
  <2> QED BY <2>1, <2>2, <2>3
<1>3. FumaroleTypeOK'
  BY <1>1, <1>2 DEF FumaroleTypeOK, RowsType
<1>4. \A s \in Fumarole!Slot : /\ Matters(s)' = Matters(s) /\ (InTables(s) => InTables(s)')
                     /\ (Accounted(s) => Accounted(s)')
  <2>1. \A s \in Fumarole!Slot : Fumarole!Data(s)' = Fumarole!Data(s) /\ Matters(s)' = Matters(s)
    BY <1>1 DEF Matters, Fumarole!Data, Fumarole!BeyondBound
  <2>2. \A s \in Fumarole!Slot : InTables(s) => InTables(s)'
    BY <1>2, TablesKeep
  <2>3. \A s \in Fumarole!Slot : Accounted(s) => Accounted(s)'
    BY <1>1, <1>2, <2>1 DEF Accounted
  <2> QED BY <2>1, <2>2, <2>3
<1> QED BY <1>1, <1>2, <1>3, <1>4 DEF AckInv

\* The last insert and the commit: the buffers are empty, so what is accounted for and
\* not in the assembler is stored.
LEMMA EndFlushKeeps ==
  ASSUME AckInv, Fumarole!EndFlush
  PROVE  AckInv'
<1>1. /\ proc = "up" /\ flush.step = "entries" /\ flush' = Fumarole!NoFlush
      /\ stored' = [stored EXCEPT !.entries = @ \cup rows.entries]
      /\ rows' = [rows EXCEPT !.entries = {}]
      /\ UNCHANGED <<scenario, ceiling, blocks, exceeded, delivered>>
      /\ acked' = IF flush.then = "bound" THEN acked ELSE Fumarole!Committed(blocks, delivered)
      /\ FumaroleTypeOK
  BY AppliedIs DEF Fumarole!EndFlush, Fumarole!InsertEntries, AckInv
<1>2. rows.transactions = {} /\ rows.blocks = {}
  BY <1>1 DEF AckInv, FlushOrder
<1>3. /\ rows' \in RowsType /\ rows'.transactions = {} /\ rows'.blocks = {} /\ rows'.entries = {}
      /\ stored' \in RowsType
      /\ stored'.transactions = stored.transactions /\ stored'.blocks = stored.blocks
      /\ stored'.entries = stored.entries \cup rows.entries
  BY <1>1, <1>2 DEF FumaroleTypeOK, RowsType
<1>4. proc' \in Fumarole!Ended \cup {"up"} /\ (flush.then = "bound" => proc' = "bound")
  <2>1. proc' \in {flush.then, "bound", proc} /\ (flush.then # "run" => proc' = flush.then)
           /\ (flush.then = "run" => proc' \in {"bound", proc})
    BY DEF Fumarole!EndFlush
  <2> QED BY <1>1, <2>1 DEF FumaroleTypeOK, FumaroleFlushType, FumaroleThen, Fumarole!Ended
<1>5. \A s \in Fumarole!Slot : Underway(s) => InTables(s)' /\ Underway(s)'
  BY <1>2, <1>3 DEF Underway, InTables, Fumarole!StoredSlots
<1>6. \A s \in Fumarole!Slot : Fumarole!Data(s)' = Fumarole!Data(s) /\ Matters(s)' = Matters(s) /\ (InTables(s) => InTables(s)')
  BY <1>1, <1>3 DEF Matters, Fumarole!Data, Fumarole!BeyondBound, InTables, Fumarole!StoredSlots
<1>7. acked' \in [Fumarole!Slot -> SUBSET Fumarole!Event]
  BY <1>1 DEF FumaroleTypeOK, Fumarole!Committed
<1>8. FumaroleTypeOK' /\ FlushOrder'
  BY <1>1, <1>3, <1>4, <1>7 DEF FumaroleTypeOK, FlushOrder, Fumarole!NoFlush, FumaroleFlushType,
     FumaroleThen, RowsType
<1>9. ASSUME NEW s \in Fumarole!Slot, acked'[s] # {}, Matters(s)
      PROVE  InTables(s)'
  <2>1. CASE acked'[s] = acked[s]
    BY <1>6, <1>9, <2>1 DEF AckInv
  <2>2. CASE acked'[s] # acked[s]
    <3>1. flush.then # "bound" /\ Fumarole!Pending(blocks) = {} /\ acked' = delivered
      BY <1>1, <2>2 DEF Fumarole!Committed
    <3>2. Accounted(s) /\ ~blocks[s].present
      BY <1>1, <1>9, <3>1 DEF AckInv, Fumarole!Pending
    <3>3. Underway(s)
      BY <1>9, <3>1, <3>2 DEF Accounted
    <3> QED BY <1>5, <3>3
  <2> QED BY <2>1, <2>2
<1>10. ASSUME proc' = "up", NEW s \in Fumarole!Slot, Matters(s)
       PROVE  Accounted(s)'
  <2>1. Accounted(s)
    BY <1>1, <1>4, <1>10 DEF AckInv
  <2> QED BY <1>1, <1>5, <1>6, <2>1 DEF Accounted
<1> QED BY <1>6, <1>8, <1>9, <1>10 DEF AckInv

\* An insert that fails ends the process, whether it was applied or not.
LEMMA FailFlushKeeps ==
  ASSUME AckInv, Fumarole!FailFlush
  PROVE  AckInv'
<1>1. /\ flush' = Fumarole!NoFlush /\ proc' = "failed" /\ UNCHANGED <<rows, ceiling>>
      /\ UNCHANGED <<scenario, blocks, exceeded, delivered, acked>> /\ FumaroleTypeOK
  BY DEF Fumarole!FailFlush, Fumarole!InsertFails, AckInv
<1>2. Stores
  <2>1. CASE flush.step = "merge"
    BY <1>1, <2>1 DEF Fumarole!FailFlush, Fumarole!InsertFails, Stores, Fumarole!StoredSlots,
       FumaroleTypeOK, RowsType
  <2>2. CASE flush.step # "merge"
    <3>1. flush.step \in {"transactions", "blocks", "entries"} /\ stored' \in {stored, Fumarole!Applied}
      BY <2>2 DEF Fumarole!FailFlush, Fumarole!InsertFails, Fumarole!RoundTrip
    <3> QED BY <1>1, <3>1, AppliedStores
  <2> QED BY <2>1, <2>2
<1>3. FumaroleTypeOK' /\ FlushOrder'
  BY <1>1, <1>2 DEF FumaroleTypeOK, Stores, RowsType, FlushOrder, Fumarole!NoFlush, FumaroleFlushType,
     FumaroleThen, Fumarole!Ended
<1>4. \A s \in Fumarole!Slot : Matters(s)' = Matters(s) /\ (InTables(s) => InTables(s)')
  BY <1>1, <1>2, TablesKeep DEF Matters, Fumarole!Data, Fumarole!BeyondBound
<1> QED BY <1>1, <1>3, <1>4 DEF AckInv

\* A timer or a stop launches a flush of what there is; a crash loses the buffers.
LEMMA FumaroleLaunchKeeps ==
  ASSUME AckInv, FumaroleLaunch(FumaroleThen), proc' = "up" => Fumarole!Listening,
         UNCHANGED <<scenario, blocks, exceeded, delivered, acked, rows, ceiling, stored>>
  PROVE  AckInv'
<1>1. FumaroleTypeOK' /\ FlushOrder'
  BY DEF AckInv, FumaroleTypeOK, FumaroleLaunch, FlushOrder
<1>2. \A s \in Fumarole!Slot : /\ Matters(s)' = Matters(s) /\ InTables(s)' = InTables(s)
                     /\ Accounted(s)' = Accounted(s)
  BY DEF Matters, Fumarole!Data, Fumarole!BeyondBound, InTables, Fumarole!StoredSlots, Accounted, Underway
<1>3. proc' = "up" => proc = "up" /\ flush.then # "bound"
  BY DEF Fumarole!Listening, Fumarole!NoFlush
<1> QED BY <1>1, <1>2, <1>3 DEF AckInv

\* The flush timer only starts a flush.
LEMMA TickKeeps ==
  ASSUME AckInv, Fumarole!FlushTick
  PROVE  AckInv'
<1>1. Fumarole!Listening /\ Fumarole!BeginFlush(rows, "run", 0)
      /\ UNCHANGED <<scenario, blocks, exceeded, delivered, acked, rows, ceiling, stored>>
  BY DEF Fumarole!FlushTick
<1>2. FumaroleLaunch(FumaroleThen)
  <2>1. FumaroleLaunch({"run"})
    BY <1>1, FumaroleFlushLaunches DEF AckInv, FumaroleThen
  <2> QED BY <2>1 DEF FumaroleLaunch, FumaroleThen
<1> QED BY <1>1, <1>2, FumaroleLaunchKeeps

\* A signal or a fatal condition only starts a flush.
LEMMA StopKeeps ==
  ASSUME AckInv, NEW reason \in {"fatal", "shutdown"}, Fumarole!Stop(reason)
  PROVE  AckInv'
<1>1. Fumarole!Listening /\ Fumarole!BeginFlush(rows, reason, 0)
      /\ UNCHANGED <<scenario, blocks, exceeded, delivered, acked, rows, ceiling, stored>>
  BY DEF Fumarole!Stop
<1>2. FumaroleLaunch(FumaroleThen)
  <2>1. FumaroleLaunch({reason}) /\ reason \in FumaroleThen
    BY <1>1, FumaroleFlushLaunches DEF AckInv, FumaroleThen
  <2> QED BY <2>1 DEF FumaroleLaunch
<1> QED BY <1>1, <1>2, FumaroleLaunchKeeps

\* A crash loses the buffers; what was acknowledged is in the tables.
LEMMA FumaroleCrashKeeps ==
  ASSUME AckInv, Fumarole!Crash
  PROVE  AckInv'
<1>1. /\ flush' = Fumarole!NoFlush /\ proc' = "crashed"
      /\ UNCHANGED <<scenario, blocks, exceeded, delivered, acked, rows, ceiling, stored>>
  BY DEF Fumarole!Crash
<1>2. FumaroleLaunch(FumaroleThen)
  BY <1>1 DEF FumaroleLaunch, Fumarole!NoFlush, FumaroleFlushType, FumaroleThen, Fumarole!Ended
<1> QED BY <1>1, <1>2, FumaroleLaunchKeeps

-----------------------------------------------------------------------------
(* The restart. *)

\* The metadata tip is at or above every stored block.
LEMMA FumaroleLatestIsMax ==
  ASSUME stored.blocks \subseteq Row
  PROVE  Fumarole!LatestStored \in Fumarole!Slot \cup {0} /\ \A s \in Fumarole!StoredSlots : s <= Fumarole!LatestStored
<1> DEFINE S == Fumarole!StoredSlots \cup {0}
           T == {GroupSlots - x : x \in S}
<1>1. S \subseteq 0..GroupSlots /\ 0 \in S
  BY GroupAssumption DEF Fumarole!StoredSlots, Row, Fumarole!Slot
<1>2. T \subseteq Nat /\ T # {}
  BY <1>1, GroupAssumption
<1>3. PICK m \in T : \A t \in T : ~(<<t, m>> \in OpToRel(<, Nat))
  BY <1>2, NatLessThanWellFounded, WFMin, Zenon
<1>4. \A t \in T : m <= t
  <2> SUFFICES ASSUME NEW t \in T PROVE m <= t
    OBVIOUS
  <2>1. t \in Nat /\ m \in Nat
    BY <1>2
  <2>2. ~(t < m)
    BY <1>3, <2>1, Zenon DEF OpToRel
  <2> QED BY <2>1, <2>2
<1>5. PICK x \in S : \A y \in S : y <= x
  <2>1. PICK x \in S : m = GroupSlots - x
    OBVIOUS
  <2>2. ASSUME NEW y \in S PROVE y <= x
    <3>1. GroupSlots - x <= GroupSlots - y
      BY <1>4, <2>1
    <3>2. x \in 0..GroupSlots /\ y \in 0..GroupSlots /\ GroupSlots \in Nat
      BY <1>1, GroupAssumption
    <3> HIDE DEF S, T
    <3> QED BY <3>1, <3>2
  <2> QED BY <2>1, <2>2
<1> HIDE DEF S, T
<1>6. Fumarole!Max(S) \in S /\ \A y \in S : y <= Fumarole!Max(S)
  <2>1. \A y \in S : x >= y
    BY <1>1, <1>5, GroupAssumption
  <2>2. Fumarole!Max(S) \in S /\ \A y \in S : Fumarole!Max(S) >= y
    BY <1>5, <2>1 DEF Fumarole!Max
  <2> QED BY <1>1, <2>2, GroupAssumption
<1> QED BY <1>1, <1>6, GroupAssumption DEF S, Fumarole!LatestStored, Fumarole!Slot,
           Fumarole!StoredSlots, Row

\* A restart forgets the assembler and the buffers and begins after what was acknowledged.
LEMMA FumaroleStartKeeps ==
  ASSUME AckInv, Fumarole!Start
  PROVE  AckInv'
<1>1. /\ proc' = "up" /\ blocks' = Fumarole!NoBlocks /\ exceeded' = FALSE /\ delivered' = acked
      /\ rows' = Fumarole!EmptyRows /\ ceiling' = Fumarole!LatestStored
      /\ UNCHANGED <<scenario, acked, stored, flush>>
      /\ FumaroleTypeOK /\ flush = Fumarole!NoFlush
  BY DEF Fumarole!Start, AckInv, FumaroleTypeOK, Fumarole!Ended
<1>2. FumaroleTypeOK'
  <2>1. blocks' \in [Fumarole!Slot -> PartsType]
    BY <1>1 DEF Fumarole!NoBlocks, Fumarole!NoParts, PartsType
  <2>2. ceiling' \in Fumarole!Slot \cup {0}
    BY <1>1, FumaroleLatestIsMax DEF FumaroleTypeOK
  <2>3. rows' \in RowsType
    BY <1>1 DEF Fumarole!EmptyRows, RowsType
  <2> QED BY <1>1, <2>1, <2>2, <2>3 DEF FumaroleTypeOK, RowsType
<1>3. FlushOrder'
  BY <1>1 DEF FlushOrder, Fumarole!NoFlush
<1>4. \A s \in Fumarole!Slot : Matters(s)' = Matters(s) /\ InTables(s)' = InTables(s)
  BY <1>1 DEF Matters, Fumarole!Data, Fumarole!BeyondBound, InTables, Fumarole!StoredSlots
<1>5. \A s \in Fumarole!Slot : Matters(s) => Accounted(s)'
  <2>1. ASSUME NEW s \in Fumarole!Slot, Matters(s), acked[s] # {}
        PROVE  Underway(s)'
    <3>1. InTables(s)'
      BY <1>4, <2>1 DEF AckInv
    <3> QED BY <3>1 DEF InTables, Underway
  <2> QED BY <1>1, <2>1 DEF Accounted
<1> QED BY <1>1, <1>2, <1>3, <1>4, <1>5 DEF AckInv

\* A stuttering step keeps the invariant.
LEMMA AckStutter ==
  ASSUME AckInv, UNCHANGED Fumarole!vars
  PROVE  AckInv'
<1>1. UNCHANGED <<scenario, proc, blocks, exceeded, delivered, acked, rows, ceiling, stored, flush>>
  BY DEF Fumarole!vars, Fumarole!bufferVars
<1> QED BY <1>1 DEF AckInv, FumaroleTypeOK, FlushOrder, Matters, Fumarole!Data, Fumarole!BeyondBound,
           InTables, Fumarole!StoredSlots, Accounted, Underway

\* Every step keeps the invariant.
LEMMA AckStep ==
  ASSUME Fumarole!FumaroleAssumption, AckInv, [Fumarole!Next]_(Fumarole!vars)
  PROVE  AckInv'
<1>1. ASSUME NEW s \in Fumarole!Slot, NEW e \in Fumarole!Event, Fumarole!Deliver(s, e) PROVE AckInv'
  BY <1>1, DeliverKeeps
<1>2. ASSUME NEW reason \in {"fatal", "shutdown"}, Fumarole!Stop(reason) PROVE AckInv'
  BY <1>2, StopKeeps
<1> QED BY <1>1, <1>2, TickKeeps, FumaroleNextKeeps, EndFlushKeeps, FailFlushKeeps, FumaroleCrashKeeps,
           FumaroleStartKeeps, AckStutter
        DEF Fumarole!Next

\* What the Fumarole consumer has acknowledged is stored in all three tables, over
\* interleaved slots, failing inserts, crashes, stops and a historical bound: the commit
\* of run_fumarole_ingest never overtakes a flush or a block that is being assembled.
THEOREM AcknowledgedKept == Fumarole!Spec => []Fumarole!AcknowledgedStored
<1>1. Fumarole!Init => AckInv
  BY AckInitial
<1>2. AckInv /\ [Fumarole!Next]_(Fumarole!vars) => AckInv'
  BY AckStep, GroupAssumption
<1>3. AckInv => Fumarole!AcknowledgedStored
  BY AckInvImplies
<1> QED BY <1>1, <1>2, <1>3, PTL DEF Fumarole!Spec

-----------------------------------------------------------------------------
(* The inductive invariant of StoredFooterKept. *)

\* The source delivers what the slot has, and the assembler holds nothing else.
SourceInv ==
  \A s \in Fumarole!Slot : /\ delivered[s] \subseteq Fumarole!Data(s) \cup {"footer", "ended"}
                 /\ acked[s] \subseteq Fumarole!Data(s) \cup {"footer", "ended"}
                 /\ blocks[s].data \subseteq Fumarole!Data(s)

OnePerSlot(table) == \A q, r \in table : q.slot = r.slot => q = r

\* The block of the slot, or its end, was delivered in this session.
Taken(s) == delivered[s] \cap {"block", "ended"} # {}

\* Buffered rows are of blocks taken in this session; a slot stored above the ceiling was
\* too, so its block is not buffered again.
SessionInv ==
  proc = "up" =>
    /\ \A s \in Fumarole!StoredSlots : s <= ceiling \/ Taken(s)
    /\ \A r \in rows.blocks : Taken(r.slot) /\ (r.slot <= ceiling \/ r.slot \notin Fumarole!StoredSlots)

\* Once merged, a buffered row has a footer if the stored row has one.
MergedInv ==
  flush.step \in {"transactions", "blocks"} =>
    \A r \in rows.blocks, q \in stored.blocks :
      r.slot = q.slot /\ q.footer # Fumarole!NoFooter => r.footer # Fumarole!NoFooter

FooterInv ==
  /\ SourceInv
  /\ OnePerSlot(stored.blocks) /\ OnePerSlot(rows.blocks)
  /\ SessionInv
  /\ MergedInv

\* No row is stored at the start.
LEMMA FooterInitial ==
  ASSUME Fumarole!Init
  PROVE  FooterInv
BY DEF Fumarole!Init, FooterInv, SourceInv, OnePerSlot, SessionInv, MergedInv, Fumarole!StoredSlots,
   Fumarole!EmptyRows, Fumarole!NoBlocks, Fumarole!NoParts, Fumarole!NoFlush

\* What an event does: a row is added only for a block that was not taken before.
Effect(s) ==
  /\ acked' \in {acked, delivered'}
  /\ blocks'[s].data \subseteq Fumarole!Data(s)
  /\ \/ rows' = rows
     \/ /\ ~Taken(s) /\ Taken(s)'
        /\ \E row \in Row : row.slot = s /\ rows'.blocks = rows.blocks \cup {row}

\* An event changes the parts and the rows of its slot only, and takes a footer only from the stream.
LEMMA HandleEffect ==
  ASSUME Fumarole!FumaroleAssumption, AckInv, SourceInv, Fumarole!Listening, NEW s \in Fumarole!Slot,
         NEW e \in Fumarole!Event, Fumarole!Deliverable(s, e),
         UNCHANGED <<scenario, ceiling, stored>>, exceeded' \in BOOLEAN,
         delivered' = [delivered EXCEPT ![s] = @ \cup {e}],
         Fumarole!Handle(s, e)
  PROVE  Handled(s, e) /\ Effect(s)
<1>1. /\ blocks[s].data \subseteq Fumarole!Data(s) /\ delivered[s] \subseteq Fumarole!Data(s) \cup {"footer", "ended"}
      /\ delivered'[s] = delivered[s] \cup {e}
      /\ Fumarole!Data(s) \in {{"meta", "payload"}, {"block"}, {}}
      /\ e \in Fumarole!Data(s) \cup {"footer", "ended"}
      /\ e \notin delivered[s] /\ "ended" \notin delivered[s]
  BY DataOfShape DEF AckInv, FumaroleTypeOK, SourceInv, Fumarole!Deliverable
<1>2. Fumarole!RejectEvent => Handled(s, e) /\ Effect(s)
  BY <1>1, FumaroleRejectKeeps DEF Fumarole!RejectEvent, Effect
<1>3. CASE e \in {"meta", "payload"}
  <2> DEFINE b == [blocks EXCEPT ![s].present = TRUE, ![s].data = @ \cup {e}]
  <2>1. Fumarole!TakePart(b) \/ Fumarole!RejectEvent
    BY <1>3 DEF Fumarole!Handle
  <2>2. /\ b \in [Fumarole!Slot -> PartsType] /\ \A t \in Fumarole!Slot \ {s} : b[t] = blocks[t]
        /\ b[s].present /\ b[s].data = blocks[s].data \cup {e}
    BY <1>3 DEF AckInv, FumaroleTypeOK, PartsType
  <2> HIDE DEF b
  <2>3. Fumarole!TakePart(b) => Handled(s, e)
    BY <2>2, PartKeeps
  <2>4. Fumarole!TakePart(b) => rows' = rows /\ acked' = acked /\ blocks' = b
    BY DEF Fumarole!TakePart
  <2>5. Fumarole!TakePart(b) => Effect(s)
    BY <1>1, <1>3, <2>2, <2>4 DEF Effect
  <2> QED BY <1>2, <2>1, <2>3, <2>5
<1>4. CASE e = "block"
  <2>1. Fumarole!AcceptBlock(s, [blocks EXCEPT ![s] = Fumarole!NoParts]) \/ Fumarole!RejectEvent
    BY <1>4 DEF Fumarole!Handle
  <2>2. ~Taken(s) /\ Taken(s)'
    BY <1>1, <1>4 DEF Taken
  <2>3. Fumarole!AcceptBlock(s, [blocks EXCEPT ![s] = Fumarole!NoParts]) => Handled(s, e) /\ Effect(s)
    BY <2>2, FumaroleBlockKeeps DEF Effect
  <2> QED BY <1>2, <2>1, <2>3
<1>5. CASE e = "footer"
  <2>1. PICK valid \in BOOLEAN : Fumarole!TakePart(Fumarole!WithFooter(s, valid))
    BY <1>5 DEF Fumarole!Handle
  <2> DEFINE b == Fumarole!WithFooter(s, valid)
  <2>2. /\ b \in [Fumarole!Slot -> PartsType] /\ \A t \in Fumarole!Slot \ {s} : b[t] = blocks[t]
        /\ b[s].present /\ blocks[s].data = b[s].data
    BY DEF AckInv, FumaroleTypeOK, PartsType, Fumarole!WithFooter
  <2>3. Fumarole!Data(s) \cap {e} = {}
    BY <1>1, <1>5
  <2>4. Fumarole!TakePart(b)
    BY <2>1
  <2> HIDE DEF b
  <2>5. Handled(s, e)
    BY <2>2, <2>3, <2>4, PartKeeps
  <2>6. rows' = rows /\ acked' = acked /\ blocks' = b
    BY <2>4 DEF Fumarole!TakePart
  <2> QED BY <1>1, <2>2, <2>5, <2>6 DEF Effect
<1>6. CASE e = "ended"
  <2> DEFINE b == [blocks EXCEPT ![s] = Fumarole!NoParts]
  <2>1. Fumarole!FinishSlot(s)
    BY <1>6 DEF Fumarole!Handle
  <2>2. CASE blocks[s].data = {}
    <3>1. Fumarole!SlotWithoutBlock(b)
      BY <2>1, <2>2 DEF Fumarole!FinishSlot
    <3>2. Handled(s, e)
      BY <1>6, <2>2, <3>1, WithoutBlockKeeps
    <3>3. blocks' = b /\ rows' = rows /\ acked' \in {acked, delivered'}
      BY <3>1 DEF Fumarole!SlotWithoutBlock, Fumarole!Committed
    <3>4. blocks'[s].data = {}
      BY <3>3 DEF AckInv, FumaroleTypeOK, Fumarole!NoParts
    <3> QED BY <3>2, <3>3, <3>4 DEF Effect
  <2>3. CASE blocks[s].data = {"meta", "payload"}
    <3>1. Fumarole!AcceptBlock(s, b)
      BY <2>1, <2>3 DEF Fumarole!FinishSlot
    <3>2. Fumarole!Data(s) = {"meta", "payload"}
      BY <1>1, <2>3
    <3>3. ~Taken(s) /\ Taken(s)'
      BY <1>1, <1>6, <3>2 DEF Taken
    <3> QED BY <3>1, <3>3, FumaroleBlockKeeps DEF Effect
  <2>4. CASE blocks[s].data \notin {{}, {"meta", "payload"}}
    <3>1. Fumarole!RejectEvent
      BY <2>1, <2>4 DEF Fumarole!FinishSlot
    <3> QED BY <1>2, <3>1
  <2> QED BY <2>2, <2>3, <2>4
<1> QED BY <1>3, <1>4, <1>5, <1>6 DEF Fumarole!Event

\* The same of a delivery.
LEMMA DeliverEffect ==
  ASSUME Fumarole!FumaroleAssumption, AckInv, SourceInv, NEW s \in Fumarole!Slot,
         NEW e \in Fumarole!Event, Fumarole!Deliver(s, e)
  PROVE  Handled(s, e) /\ Effect(s)
<1>1. /\ Fumarole!Listening /\ Fumarole!Deliverable(s, e)
      /\ UNCHANGED <<scenario, ceiling, stored>>
      /\ delivered' = [delivered EXCEPT ![s] = @ \cup {e}]
      /\ exceeded' = (exceeded \/ Fumarole!BeyondBound(s))
  BY DEF Fumarole!Deliver
<1>2. exceeded' \in BOOLEAN
  BY <1>1
<1>3. CASE Fumarole!StopsAtBound(blocks, exceeded')
  <2>1. Fumarole!BeginFlush(rows, "bound", 0) /\ UNCHANGED <<rows, blocks, acked>>
    BY <1>3 DEF Fumarole!Deliver
  <2>2. FumaroleLaunch(FumaroleThen)
    <3>1. FumaroleLaunch({"bound"})
      BY <1>1, <2>1, FumaroleFlushLaunches DEF AckInv, FumaroleThen
    <3> QED BY <3>1 DEF FumaroleLaunch, FumaroleThen
  <2> QED BY <1>1, <1>2, <2>1, <2>2 DEF Handled, Growing, AckInv, FumaroleTypeOK, RowsType, Effect,
             SourceInv
<1>4. CASE ~Fumarole!StopsAtBound(blocks, exceeded') /\ Fumarole!BeyondBound(s)
  <2>1. UNCHANGED <<rows, blocks, acked, flush, proc>>
    BY <1>4 DEF Fumarole!Deliver
  <2>2. FumaroleLaunch(FumaroleThen)
    BY <1>1, <2>1 DEF FumaroleLaunch, Fumarole!Listening, Fumarole!NoFlush, FumaroleFlushType,
       FumaroleThen
  <2> QED BY <1>1, <1>2, <2>1, <2>2 DEF Handled, Growing, AckInv, FumaroleTypeOK, RowsType, Effect,
             SourceInv
<1>5. CASE ~Fumarole!StopsAtBound(blocks, exceeded') /\ ~Fumarole!BeyondBound(s)
  <2>1. Fumarole!Handle(s, e)
    BY <1>5 DEF Fumarole!Deliver
  <2> QED BY <1>1, <1>2, <2>1, HandleEffect
<1> QED BY <1>3, <1>4, <1>5

\* A delivery keeps what is known of footers.
LEMMA DeliverFooters ==
  ASSUME Fumarole!FumaroleAssumption, AckInv, FooterInv, NEW s \in Fumarole!Slot,
         NEW e \in Fumarole!Event, Fumarole!Deliver(s, e)
  PROVE  FooterInv'
<1>1. Handled(s, e) /\ Effect(s)
  BY DeliverEffect DEF FooterInv
<1>2. proc = "up" /\ Fumarole!Deliverable(s, e)
  BY DEF Fumarole!Deliver, Fumarole!Listening
<1>3. /\ \A t \in Fumarole!Slot : delivered[t] \subseteq delivered'[t] /\ Fumarole!Data(t)' = Fumarole!Data(t)
      /\ \A t \in Fumarole!Slot \ {s} : delivered'[t] = delivered[t]
      /\ delivered'[s] = delivered[s] \cup {e}
  BY <1>1 DEF Handled, AckInv, FumaroleTypeOK, Fumarole!Data
<1>4. \A t \in Fumarole!Slot : Taken(t) => Taken(t)'
  BY <1>3 DEF Taken
<1>5. SourceInv'
  <2>1. e \in Fumarole!Data(s) \cup {"footer", "ended"}
    BY <1>2 DEF Fumarole!Deliverable
  <2>2. ASSUME NEW t \in Fumarole!Slot PROVE delivered'[t] \subseteq Fumarole!Data(t) \cup {"footer", "ended"}
    BY <1>3, <2>1 DEF FooterInv, SourceInv
  <2>3. ASSUME NEW t \in Fumarole!Slot PROVE acked'[t] \subseteq Fumarole!Data(t) \cup {"footer", "ended"}
    BY <1>1, <2>2 DEF Effect, FooterInv, SourceInv
  <2>4. ASSUME NEW t \in Fumarole!Slot PROVE blocks'[t].data \subseteq Fumarole!Data(t)
    BY <1>1 DEF Effect, Handled, FooterInv, SourceInv
  <2> QED BY <1>3, <2>2, <2>3, <2>4 DEF SourceInv
<1>6. MergedInv'
  BY <1>1 DEF Handled, FumaroleLaunch, MergedInv
<1>7. stored' = stored /\ ceiling' = ceiling /\ Fumarole!StoredSlots' = Fumarole!StoredSlots
  BY <1>1 DEF Handled, Fumarole!StoredSlots
<1>8. Fumarole!StoredSlots \subseteq Fumarole!Slot /\ \A r \in rows.blocks : r.slot \in Fumarole!Slot
  BY DEF Fumarole!StoredSlots, AckInv, FumaroleTypeOK, Row
<1>9. CASE rows' = rows
  BY <1>2, <1>4, <1>5, <1>6, <1>7, <1>8, <1>9 DEF FooterInv, SessionInv, OnePerSlot
<1>10. CASE rows' # rows
  <2>1. PICK row \in Row : row.slot = s /\ rows'.blocks = rows.blocks \cup {row}
    BY <1>1, <1>10 DEF Effect
  <2>2. ~Taken(s) /\ Taken(s)'
    BY <1>1, <1>10 DEF Effect
  <2>3. \A r \in rows.blocks : r.slot # s
    BY <1>2, <2>2 DEF FooterInv, SessionInv
  <2>4. OnePerSlot(rows.blocks)'
    BY <2>1, <2>3 DEF FooterInv, OnePerSlot
  <2>5. s <= ceiling \/ s \notin Fumarole!StoredSlots
    BY <1>2, <2>2 DEF FooterInv, SessionInv
  <2>6. SessionInv'
    BY <1>2, <1>4, <1>7, <1>8, <2>1, <2>2, <2>5 DEF FooterInv, SessionInv
  <2> QED BY <1>5, <1>6, <1>7, <2>4, <2>6 DEF FooterInv
<1> QED BY <1>9, <1>10

\* A merged row has the footer of the stored row, if that has one.
LEMMA MergeTakesFooter ==
  ASSUME stored.blocks \subseteq Row, OnePerSlot(stored.blocks), NEW r \in Row, NEW q \in stored.blocks,
         q.slot = r.slot, q.footer # Fumarole!NoFooter, r.slot <= ceiling
  PROVE  Fumarole!MergeFooter(r).footer # Fumarole!NoFooter
<1>1. CASE r.footer = Fumarole!NoFooter
  <2> DEFINE p == CHOOSE p \in stored.blocks : p.slot = r.slot
  <2>1. p \in stored.blocks /\ p.slot = r.slot
    OBVIOUS
  <2>2. p = q
    BY <2>1 DEF OnePerSlot
  <2>3. Fumarole!MergeFooter(r) = [r EXCEPT !.footer = p.footer]
    BY <1>1 DEF Fumarole!MergeFooter
  <2> HIDE DEF p
  <2> QED BY <2>2, <2>3 DEF Row
<1>2. CASE r.footer # Fumarole!NoFooter
  BY <1>2 DEF Fumarole!MergeFooter
<1> QED BY <1>1, <1>2

\* Replacing rows by slot leaves one for each slot.
LEMMA ReplaceKeepsOne ==
  ASSUME NEW table, NEW new, OnePerSlot(table), OnePerSlot(new)
  PROVE  OnePerSlot(Fumarole!Replace(table, new))
BY DEF OnePerSlot, Fumarole!Replace

\* A round trip of the flush replaces no stored footer: rows below the ceiling were merged first.
LEMMA FlushFooters ==
  ASSUME AckInv, FooterInv, Fumarole!FlushNext
  PROVE  FooterInv' /\ Fumarole!FootersKept
<1>1. /\ proc = "up" /\ UNCHANGED <<scenario, proc, blocks, exceeded, delivered, acked, ceiling>>
      /\ FumaroleTypeOK
  BY DEF Fumarole!FlushNext, Fumarole!MergeStoredFooters, Fumarole!InsertTransactions,
     Fumarole!InsertBlocks, AckInv
<1>2. SourceInv'
  BY <1>1 DEF FooterInv, SourceInv, Fumarole!Data
<1>3. \A t \in Fumarole!Slot : Taken(t)' = Taken(t)
  BY <1>1 DEF Taken
<1>4. stored.blocks \subseteq Row /\ rows.blocks \subseteq Row /\ \A r \in Row : r.slot \in Fumarole!Slot
  BY <1>1 DEF FumaroleTypeOK, Row
<1>5. Fumarole!StoredSlots \subseteq Fumarole!Slot
  BY <1>4 DEF Fumarole!StoredSlots
<1>6. CASE Fumarole!MergeStoredFooters
  <2>1. /\ flush.step = "merge" /\ stored' = stored
        /\ rows' = [rows EXCEPT !.blocks = {Fumarole!MergeFooter(r) : r \in rows.blocks}]
        /\ flush' = [flush EXCEPT !.step = "transactions"]
    BY <1>6 DEF Fumarole!MergeStoredFooters
  <2>2. \A r \in rows.blocks : Fumarole!MergeFooter(r) \in Row /\ Fumarole!MergeFooter(r).slot = r.slot
    BY <1>4, MergeKeepsSlot
  <2>3. rows'.blocks = {Fumarole!MergeFooter(r) : r \in rows.blocks} /\ Fumarole!StoredSlots' = Fumarole!StoredSlots
    BY <1>1, <2>1 DEF FumaroleTypeOK, Fumarole!StoredSlots
  <2>4. OnePerSlot(rows.blocks)'
    BY <2>2, <2>3 DEF FooterInv, OnePerSlot
  <2>5. SessionInv'
    BY <1>1, <1>3, <1>4, <1>5, <2>2, <2>3 DEF FooterInv, SessionInv
  <2>6. MergedInv'
    <3> SUFFICES ASSUME NEW r \in rows.blocks, NEW q \in stored.blocks, r.slot = q.slot,
                        q.footer # Fumarole!NoFooter
                 PROVE  Fumarole!MergeFooter(r).footer # Fumarole!NoFooter
      BY <2>1, <2>2, <2>3 DEF MergedInv
    <3>1. q.slot \in Fumarole!StoredSlots
      BY DEF Fumarole!StoredSlots
    <3>2. r.slot <= ceiling
      BY <1>1, <3>1 DEF FooterInv, SessionInv
    <3> QED BY <1>4, <3>2, MergeTakesFooter DEF FooterInv
  <2>7. OnePerSlot(stored.blocks)'
    BY <2>1 DEF FooterInv
  <2> QED BY <1>2, <2>1, <2>4, <2>5, <2>6, <2>7 DEF FooterInv, Fumarole!FootersKept
<1>7. CASE Fumarole!InsertTransactions
  <2>1. /\ flush.step = "transactions" /\ stored' = [stored EXCEPT !.transactions = @ \cup rows.transactions]
        /\ rows' = [rows EXCEPT !.transactions = {}]
    BY <1>7, AppliedIs DEF Fumarole!InsertTransactions
  <2>2. stored'.blocks = stored.blocks /\ rows'.blocks = rows.blocks /\ Fumarole!StoredSlots' = Fumarole!StoredSlots
    BY <1>1, <2>1 DEF FumaroleTypeOK, Fumarole!StoredSlots
  <2>3. SessionInv'
    BY <1>1, <1>3, <1>4, <1>5, <2>2 DEF FooterInv, SessionInv
  <2>4. MergedInv'
    BY <2>1, <2>2 DEF FooterInv, MergedInv
  <2> QED BY <1>2, <2>2, <2>3, <2>4 DEF FooterInv, Fumarole!FootersKept, OnePerSlot
<1>8. CASE Fumarole!InsertBlocks
  <2>1. /\ flush.step = "blocks" /\ stored' = [stored EXCEPT !.blocks = Fumarole!Replace(@, rows.blocks)]
        /\ rows' = [rows EXCEPT !.blocks = {}]
        /\ flush' = [flush EXCEPT !.step = "entries"]
    BY <1>8, AppliedIs DEF Fumarole!InsertBlocks
  <2>2. stored'.blocks = Fumarole!Replace(stored.blocks, rows.blocks) /\ rows'.blocks = {}
    BY <1>1, <2>1 DEF FumaroleTypeOK
  <2>3. Fumarole!StoredSlots' = Fumarole!StoredSlots \cup {r.slot : r \in rows.blocks}
    BY <1>4, <2>2, ReplaceSlots DEF Fumarole!StoredSlots
  <2>4. OnePerSlot(stored.blocks)' /\ OnePerSlot(rows.blocks)'
    <3>1. OnePerSlot(Fumarole!Replace(stored.blocks, rows.blocks))
      BY ReplaceKeepsOne DEF FooterInv
    <3> QED BY <2>2, <3>1 DEF OnePerSlot
  <2>5. SessionInv'
    BY <1>1, <1>3, <1>4, <1>5, <2>2, <2>3 DEF FooterInv, SessionInv
  <2>6. flush'.step = "entries"
    BY <1>1, <2>1 DEF FumaroleTypeOK, FumaroleFlushType
  <2>7. MergedInv'
    BY <2>6 DEF MergedInv
  <2>8. Fumarole!FootersKept
    BY <1>4, <2>1, <2>2 DEF FooterInv, MergedInv, Fumarole!FootersKept, Fumarole!Replace, Row
  <2> QED BY <1>2, <2>4, <2>5, <2>7, <2>8 DEF FooterInv
<1> QED BY <1>6, <1>7, <1>8 DEF Fumarole!FlushNext

\* A failed insert may have been applied, and replaces no stored footer.
LEMMA FailFooters ==
  ASSUME AckInv, FooterInv, Fumarole!FailFlush
  PROVE  FooterInv' /\ Fumarole!FootersKept
<1>1. /\ flush' = Fumarole!NoFlush /\ proc' = "failed" /\ UNCHANGED <<rows, ceiling>>
      /\ UNCHANGED <<scenario, blocks, exceeded, delivered, acked>> /\ FumaroleTypeOK
  BY DEF Fumarole!FailFlush, Fumarole!InsertFails, AckInv
<1>2. stored.blocks \subseteq Row /\ rows.blocks \subseteq Row
  BY <1>1 DEF FumaroleTypeOK
<1>3. SourceInv' /\ SessionInv' /\ MergedInv'
  BY <1>1 DEF FooterInv, SourceInv, Fumarole!Data, SessionInv, MergedInv, Fumarole!NoFlush
<1>4. CASE stored'.blocks = stored.blocks
  BY <1>1, <1>3, <1>4 DEF FooterInv, Fumarole!FootersKept, OnePerSlot
<1>5. CASE stored'.blocks # stored.blocks
  <2>1. stored' = Fumarole!Applied /\ flush.step \in {"transactions", "blocks", "entries"}
    BY <1>5 DEF Fumarole!FailFlush, Fumarole!InsertFails, Fumarole!RoundTrip
  <2>2. flush.step = "blocks" /\ stored'.blocks = Fumarole!Replace(stored.blocks, rows.blocks)
    BY <1>1, <1>5, <2>1, AppliedIs DEF FumaroleTypeOK
  <2>3. OnePerSlot(Fumarole!Replace(stored.blocks, rows.blocks))
    BY ReplaceKeepsOne DEF FooterInv
  <2>4. Fumarole!FootersKept
    BY <1>2, <2>2 DEF FooterInv, MergedInv, Fumarole!FootersKept, Fumarole!Replace, Row
  <2> QED BY <1>1, <1>3, <2>2, <2>3, <2>4 DEF FooterInv
<1> QED BY <1>4, <1>5

\* Steps that leave the block rows alone: ticks, stops, crashes and the end of a flush.
LEMMA OthersFooters ==
  ASSUME AckInv, FooterInv, UNCHANGED <<scenario, blocks, delivered, ceiling>>,
         stored'.blocks = stored.blocks, rows'.blocks = rows.blocks,
         acked' \in {acked, delivered}, proc' = "up" => proc = "up",
         flush'.step \in {"transactions", "blocks"} => flush.step = flush'.step
  PROVE  FooterInv' /\ Fumarole!FootersKept
<1>1. SourceInv'
  <2>1. \A s \in Fumarole!Slot : acked'[s] \subseteq Fumarole!Data(s) \cup {"footer", "ended"}
    BY DEF FooterInv, SourceInv
  <2> QED BY <2>1 DEF FooterInv, SourceInv, Fumarole!Data
<1>2. SessionInv' /\ MergedInv'
  BY DEF FooterInv, SessionInv, MergedInv, Fumarole!StoredSlots, Taken
<1> QED BY <1>1, <1>2 DEF FooterInv, Fumarole!FootersKept, OnePerSlot

\* The end of a flush stores entries only.
LEMMA EndFlushFooters ==
  ASSUME AckInv, FooterInv, Fumarole!EndFlush
  PROVE  FooterInv' /\ Fumarole!FootersKept
<1>1. /\ flush' = Fumarole!NoFlush /\ proc = "up"
      /\ stored' = [stored EXCEPT !.entries = @ \cup rows.entries]
      /\ rows' = [rows EXCEPT !.entries = {}]
      /\ UNCHANGED <<scenario, ceiling, blocks, exceeded, delivered>>
      /\ acked' \in {acked, delivered}
      /\ FumaroleTypeOK
  BY AppliedIs DEF Fumarole!EndFlush, Fumarole!InsertEntries, AckInv, Fumarole!Committed
<1>2. stored'.blocks = stored.blocks /\ rows'.blocks = rows.blocks /\ flush'.step = "none"
  BY <1>1 DEF FumaroleTypeOK, Fumarole!NoFlush
<1> QED BY <1>1, <1>2, OthersFooters

\* Starting a flush changes no row.
LEMMA LaunchFooters ==
  ASSUME AckInv, FooterInv, FumaroleLaunch(FumaroleThen), proc = "up",
         UNCHANGED <<scenario, blocks, exceeded, delivered, acked, rows, ceiling, stored>>
  PROVE  FooterInv' /\ Fumarole!FootersKept
BY OthersFooters DEF FumaroleLaunch

\* A restart sets the ceiling to the newest stored block, so all stored rows are below it.
LEMMA StartFooters ==
  ASSUME AckInv, FooterInv, Fumarole!Start
  PROVE  FooterInv' /\ Fumarole!FootersKept
<1>1. /\ blocks' = Fumarole!NoBlocks /\ delivered' = acked
      /\ rows' = Fumarole!EmptyRows /\ ceiling' = Fumarole!LatestStored
      /\ UNCHANGED <<scenario, acked, stored, flush>>
      /\ FumaroleTypeOK /\ flush = Fumarole!NoFlush
  BY DEF Fumarole!Start, AckInv, FumaroleTypeOK, Fumarole!Ended
<1>2. \A s \in Fumarole!StoredSlots' : s <= ceiling'
  BY <1>1, FumaroleLatestIsMax DEF FumaroleTypeOK, Fumarole!StoredSlots
<1>3. SourceInv'
  BY <1>1 DEF FooterInv, SourceInv, Fumarole!Data, Fumarole!NoBlocks, Fumarole!NoParts
<1>4. SessionInv' /\ MergedInv'
  BY <1>1, <1>2 DEF SessionInv, MergedInv, Fumarole!EmptyRows, Fumarole!NoFlush
<1> QED BY <1>1, <1>3, <1>4 DEF FooterInv, Fumarole!FootersKept, OnePerSlot, Fumarole!EmptyRows

\* Every step keeps what is known of footers and every stored footer.
LEMMA FooterStep ==
  ASSUME Fumarole!FumaroleAssumption, AckInv, FooterInv, [Fumarole!Next]_(Fumarole!vars)
  PROVE  FooterInv' /\ [Fumarole!FootersKept]_(Fumarole!bufferVars)
<1>1. ASSUME NEW s \in Fumarole!Slot, NEW e \in Fumarole!Event, Fumarole!Deliver(s, e)
      PROVE  FooterInv' /\ Fumarole!FootersKept
  <2>1. stored' = stored
    BY <1>1 DEF Fumarole!Deliver
  <2> QED BY <1>1, <2>1, DeliverFooters DEF Fumarole!FootersKept
<1>2. CASE Fumarole!FlushTick
  <2>1. FumaroleLaunch(FumaroleThen)
    <3>1. FumaroleLaunch({"run"})
      BY <1>2, FumaroleFlushLaunches DEF Fumarole!FlushTick, AckInv, FumaroleThen
    <3> QED BY <3>1 DEF FumaroleLaunch, FumaroleThen
  <2> QED BY <1>2, <2>1, LaunchFooters DEF Fumarole!FlushTick, Fumarole!Listening
<1>3. ASSUME NEW reason \in {"fatal", "shutdown"}, Fumarole!Stop(reason)
      PROVE  FooterInv' /\ Fumarole!FootersKept
  <2>1. FumaroleLaunch(FumaroleThen)
    <3>1. FumaroleLaunch({reason}) /\ reason \in FumaroleThen
      BY <1>3, FumaroleFlushLaunches DEF Fumarole!Stop, AckInv, FumaroleThen
    <3> QED BY <3>1 DEF FumaroleLaunch
  <2> QED BY <1>3, <2>1, LaunchFooters DEF Fumarole!Stop, Fumarole!Listening
<1>4. CASE Fumarole!Crash
  <2>1. FumaroleLaunch(FumaroleThen)
    BY <1>4 DEF Fumarole!Crash, FumaroleLaunch, Fumarole!NoFlush, FumaroleFlushType, FumaroleThen,
       Fumarole!Ended
  <2> QED BY <1>4, <2>1, LaunchFooters DEF Fumarole!Crash
<1>5. CASE UNCHANGED Fumarole!vars
  <2>1. UNCHANGED <<scenario, proc, blocks, exceeded, delivered, acked, rows, ceiling, stored, flush>>
    BY <1>5 DEF Fumarole!vars, Fumarole!bufferVars
  <2> QED BY <2>1, OthersFooters
<1> QED BY <1>1, <1>2, <1>3, <1>4, <1>5, FlushFooters, EndFlushFooters, FailFooters, StartFooters
           DEF Fumarole!Next

\* A stored footer survives every later insert of its slot, although a replay brings the
\* block without it and the newest row replaces the stored one (merge_stored_footers).
THEOREM FootersSurvive == Fumarole!Spec => Fumarole!StoredFooterKept
<1>1. Fumarole!Init => AckInv /\ FooterInv
  BY AckInitial, FooterInitial
<1>2. AckInv /\ FooterInv /\ [Fumarole!Next]_(Fumarole!vars) => AckInv' /\ FooterInv' /\ [Fumarole!FootersKept]_(Fumarole!bufferVars)
  BY AckStep, FooterStep, GroupAssumption
<1> QED BY <1>1, <1>2, PTL DEF Fumarole!Spec, Fumarole!StoredFooterKept
=============================================================================
